------------------------- MODULE DispositionsProofs -------------------------
(***************************************************************************)
(* For every nesting depth, every order of trap commands, forks and option *)
(* changes, and every refusal by the host: the disposition cache agrees    *)
(* with the kernel, accepted traps are installed, what was ignored on      *)
(* entry stays ignored, and trap_count counts the executable actions.      *)
(***************************************************************************)
EXTENDS Dispositions, FiniteSetTheorems, TLAPS

\* The cache and the kernel's view of one signal, and their agreement.
CellType == [disp : DispositionState, os : Disposition]
Honest(c) == c \in CellType /\ (c.disp \in Disposition => c.os = c.disp)

\* The part of the types that CacheIsTruth rests on.
TableType ==
  /\ os \in [Sig -> Disposition]
  /\ disp \in [Sig -> DispositionState]
  /\ action \in [Slot -> Action]
  /\ level \in Nat
  /\ monitor \in BOOLEAN

CacheInv == TableType /\ CacheIsTruth

-----------------------------------------------------------------------------
LEMMA DesiredType ==
  ASSUME NEW s \in Sig, NEW a \in Action, NEW lvl \in Nat, NEW mon \in BOOLEAN
  PROVE  desired(s, a, lvl, mon) \in Disposition
BY DEF desired, Disposition, Action

\* configure_signal keeps a cell honest whatever is refused.
LEMMA ConfigureHonest ==
  ASSUME NEW s \in Sig, NEW c, Honest(c), NEW a \in Action, NEW lvl \in Nat,
         NEW mon \in BOOLEAN, NEW r \in Refuse
  PROVE  Honest(configure_signal(s, c, a, lvl, mon, r))
<1> DEFINE want == desired(s, a, lvl, mon)
<1>1. want \in Disposition
  BY DesiredType
<1> HIDE DEF want
<1>2. Honest([c EXCEPT !.disp = "ResetRequired"])
  BY DEF Honest, CellType, DispositionState, Disposition
<1>3. Honest([disp |-> want, os |-> want])
  BY <1>1 DEF Honest, CellType, DispositionState
<1> QED
  BY <1>2, <1>3 DEF configure_signal, want

LEMMA IgnoreHonest ==
  ASSUME NEW c, Honest(c), NEW r
  PROVE  Honest(ignore_signal_in_child(c, r))
BY DEF Honest, CellType, DispositionState, Disposition, ignore_signal_in_child

LEMMA CellHonest ==
  ASSUME CacheInv, NEW s \in Sig
  PROVE  Honest(Cell(s))
BY DEF CacheInv, TableType, CacheIsTruth, Honest, Cell, CellType

LEMMA ConfiguredHonest ==
  ASSUME CacheInv, NEW S, NEW acts \in [Slot -> Action], NEW lvl \in Nat,
         NEW mon \in BOOLEAN, NEW r \in Refuse, NEW s \in Sig
  PROVE  Honest(Configured(S, acts, lvl, mon, r)[s])
<1>1. acts[s] \in Action
  BY DEF Slot
<1>2. Honest(Cell(s))
  BY CellHonest
<1>3. Honest(configure_signal(s, Cell(s), acts[s], lvl, mon, r))
  BY <1>1, <1>2, ConfigureHonest
<1> QED
  BY <1>2, <1>3 DEF Configured

\* A step that stores honest cells keeps the cache honest.
LEMMA StoreHonest ==
  ASSUME NEW c, \A s \in Sig : Honest(c[s]), SetCells(c)
  PROVE  /\ os' \in [Sig -> Disposition] /\ disp' \in [Sig -> DispositionState]
         /\ CacheIsTruth'
BY DEF SetCells, Honest, CellType, CacheIsTruth

LEMMA ActionTypes ==
  ASSUME TableType
  PROVE  /\ ClearedActions \in [Slot -> Action]
         /\ ActionsBefore \in [Slot -> Action]
BY DEF TableType, ClearedActions, ActionsBefore, Action

-----------------------------------------------------------------------------
LEMMA CacheHolds == DSpec => []CacheInv
<1>1. DInit => CacheInv
  <2> SUFFICES ASSUME DInit PROVE CacheInv
    OBVIOUS
  <2>1. PICK refused \in BOOLEAN :
          /\ os = [s \in Sig |-> IF s = "CHLD" /\ ~refused THEN "Catch"
                                 ELSE IF s \in ignored THEN "Ignore" ELSE "Default"]
          /\ disp = [s \in Sig |-> IF s # "CHLD" THEN "Unknown"
                                   ELSE IF refused THEN "ResetRequired" ELSE "Catch"]
    BY DEF DInit
  <2>2. action \in [Slot -> Action] /\ level \in Nat /\ monitor \in BOOLEAN
    BY DEF DInit, Action
  <2> QED
    BY <2>1, <2>2 DEF CacheInv, TableType, CacheIsTruth, Disposition, DispositionState
<1>2. CacheInv /\ [DNext]_dvars => CacheInv'
  <2> SUFFICES ASSUME CacheInv, [DNext]_dvars PROVE CacheInv'
    OBVIOUS
  <2> USE DEF CacheInv
  <2>0. TableType /\ ClearedActions \in [Slot -> Action] /\ ActionsBefore \in [Slot -> Action]
    BY ActionTypes
  <2>1. CASE Startup
    <3>1. PICK r \in Refuse :
            SetCells(Configured({"INT", "QUIT", "TERM"}, action, 0, monitor, r))
      BY <2>1 DEF Startup
    <3>2. \A s \in Sig : Honest(Configured({"INT", "QUIT", "TERM"}, action, 0, monitor, r)[s])
      BY <2>0, ConfiguredHonest DEF TableType
    <3> QED
      BY <2>1, <3>1, <3>2, StoreHonest DEF Startup, TableType
  <2>2. ASSUME NEW on \in BOOLEAN, NEW accessible \in BOOLEAN, SetMonitor(on, accessible)
        PROVE  CacheInv'
    <3>1. UNCHANGED <<action, level>> /\ monitor' \in BOOLEAN
      BY <2>2 DEF SetMonitor
    <3>2. CASE UNCHANGED <<disp, os>>
      BY <3>1, <3>2 DEF TableType, CacheIsTruth
    <3>3. CASE ~UNCHANGED <<disp, os>>
      <4>1. PICK r \in Refuse : SetCells(Configured({"TSTP"}, action, 0, on, r))
        BY <2>2, <3>3 DEF SetMonitor
      <4>2. \A s \in Sig : Honest(Configured({"TSTP"}, action, 0, on, r)[s])
        BY <2>0, ConfiguredHonest DEF TableType
      <4> QED
        BY <3>1, <4>1, <4>2, StoreHonest DEF TableType
    <3> QED
      BY <3>2, <3>3
  <2>3. ASSUME NEW s \in Slot, NEW a \in Action, TrapCommand(s, a)
        PROVE  CacheInv'
    <3> DEFINE cleared(r) == IF parentPending
                 THEN Configured(CommandSlots(action) \ {"EXIT"}, ActionsBefore, level, monitor, r)
                 ELSE Configured({}, ActionsBefore, level, monitor, r)
               final(r) == [t \in Sig |->
                 IF t = s THEN configure_signal(t, cleared(r)[t], a, level, monitor, r)
                 ELSE cleared(r)[t]]
    <3>1. PICK r \in Refuse : SetCells(final(r))
      BY <2>3 DEF TrapCommand
    <3>2. ASSUME NEW t \in Sig PROVE Honest(cleared(r)[t])
      BY <2>0, ConfiguredHonest DEF TableType
    <3>3. ASSUME NEW t \in Sig PROVE Honest(final(r)[t])
      <4> HIDE DEF cleared
      <4>1. Honest(configure_signal(t, cleared(r)[t], a, level, monitor, r))
        BY <2>0, <3>2, ConfigureHonest DEF TableType
      <4> QED
        BY <3>2, <4>1
    <3>4. action' \in [Slot -> Action] /\ UNCHANGED <<level, monitor>>
      BY <2>0, <2>3 DEF TrapCommand
    <3> HIDE DEF final
    <3> QED
      BY <2>0, <3>1, <3>3, <3>4, StoreHonest DEF TableType
  <2>4. ASSUME NEW mode \in Modes, NEW simple \in BOOLEAN, Fork(mode, simple)
        PROVE  CacheInv'
    <3> DEFINE partial  == simple /\ mode = "WithoutJob"
               controls == mode # "WithoutJob" /\ level = 0 /\ jobControl
               async    == mode = "Background" /\ ~controls
               lvl      == level + 1
               acts     == IF partial THEN action ELSE ClearedActions
               cleared(r) == Configured(CommandSlots(action) \ {"EXIT"}, ClearedActions, lvl, monitor, r)
               grouped(c, r) == [s \in Sig |->
                 IF controls /\ s = "TSTP" THEN configure_signal(s, c[s], acts[s], lvl, monitor, r)
                 ELSE IF async /\ s \in Terminal THEN ignore_signal_in_child(c[s], r)
                 ELSE c[s]]
               last(c, r) == [s \in Sig |->
                 IF level = 0 /\ Interactive /\ s \in {"INT", "QUIT", "TERM"}
                 THEN configure_signal(s, c[s], acts[s], lvl, monitor, r) ELSE c[s]]
    <3>1. PICK r \in Refuse : SetCells(last(grouped(cleared(r), r), r))
      BY <2>4 DEF Fork
    <3>2. acts \in [Slot -> Action] /\ lvl \in Nat /\ Sig \subseteq Slot
      BY <2>0 DEF TableType, Slot
    <3>3. ASSUME NEW s \in Sig PROVE Honest(cleared(r)[s])
      BY <2>0, <3>2, ConfiguredHonest DEF TableType
    <3>4. ASSUME NEW s \in Sig PROVE Honest(grouped(cleared(r), r)[s])
      <4> HIDE DEF cleared, acts, lvl
      <4>1. Honest(configure_signal(s, cleared(r)[s], acts[s], lvl, monitor, r))
        BY <2>0, <3>2, <3>3, ConfigureHonest DEF TableType
      <4>2. Honest(ignore_signal_in_child(cleared(r)[s], r))
        BY <3>3, IgnoreHonest
      <4> QED
        BY <3>3, <4>1, <4>2
    <3>5. ASSUME NEW s \in Sig PROVE Honest(last(grouped(cleared(r), r), r)[s])
      <4> HIDE DEF grouped, acts, lvl
      <4>1. Honest(configure_signal(s, grouped(cleared(r), r)[s], acts[s], lvl, monitor, r))
        BY <2>0, <3>2, <3>4, ConfigureHonest DEF TableType
      <4> QED
        BY <3>4, <4>1
    <3>6. action' \in [Slot -> Action] /\ level' \in Nat /\ monitor' = monitor
      BY <2>4, <3>2 DEF Fork
    <3> HIDE DEF last
    <3> QED
      BY <2>0, <3>1, <3>5, <3>6, StoreHonest DEF TableType
  <2>5. CASE SubshellInPlace
    <3>1. PICK r \in Refuse : SetCells(
            Configured(CommandSlots(action) \ {"EXIT"}, ClearedActions, level, monitor, r))
      BY <2>5 DEF SubshellInPlace
    <3>2. \A s \in Sig : Honest(
            Configured(CommandSlots(action) \ {"EXIT"}, ClearedActions, level, monitor, r)[s])
      BY <2>0, ConfiguredHonest DEF TableType
    <3> QED
      BY <2>0, <2>5, <3>1, <3>2, StoreHonest DEF SubshellInPlace, TableType
  <2>6. CASE UNCHANGED dvars
    BY <2>6 DEF dvars, TableType, CacheIsTruth
  <2> QED
    BY <2>1, <2>2, <2>3, <2>4, <2>5, <2>6 DEF DNext
<1> QED
  BY <1>1, <1>2, PTL DEF DSpec

\* The cache never claims a disposition the kernel does not hold, so
\* configure_signal never skips an install that is needed: for every host,
\* every refusal and any nesting of subshells.
THEOREM CacheIsHonest == DSpec => []CacheIsTruth
<1>1. CacheInv => CacheIsTruth
  BY DEF CacheInv
<1> QED
  BY <1>1, CacheHolds, PTL

-----------------------------------------------------------------------------
\* The inductive form of CountIsExact: a postponed clear has count zero.
CountInv ==
  /\ action \in [Slot -> Action]
  /\ parentPending \in BOOLEAN
  /\ trapCount = IF parentPending THEN 0 ELSE Cardinality(CommandSlots(action))

LEMMA SlotFinite == IsFiniteSet(Slot)
<1>1. IsFiniteSet({} \cup {"INT"} \cup {"QUIT"} \cup {"TERM"} \cup {"CHLD"} \cup {"TSTP"}
                  \cup {"USR"} \cup {"EXIT"})
  BY FS_EmptySet, FS_AddElement
<1>2. Slot = {} \cup {"INT"} \cup {"QUIT"} \cup {"TERM"} \cup {"CHLD"} \cup {"TSTP"}
             \cup {"USR"} \cup {"EXIT"}
  BY DEF Slot, Sig
<1> QED
  BY <1>1, <1>2

LEMMA CommandsFinite ==
  ASSUME NEW acts
  PROVE  IsFiniteSet(CommandSlots(acts)) /\ Cardinality(CommandSlots(acts)) \in Nat
<1>1. CommandSlots(acts) \subseteq Slot
  BY DEF CommandSlots
<1> QED
  BY <1>1, SlotFinite, FS_Subset, FS_CardinalityType

\* Replacing one action changes the number of executable ones as NewCount says.
LEMMA CountUpdate ==
  ASSUME NEW acts \in [Slot -> Action], NEW s \in Slot, NEW a \in Action
  PROVE  Cardinality(CommandSlots([acts EXCEPT ![s] = a]))
           = NewCount(Cardinality(CommandSlots(acts)), a, acts[s])
<1> DEFINE new == [acts EXCEPT ![s] = a]
           n   == Cardinality(CommandSlots(acts))
<1>0. IsFiniteSet(CommandSlots(acts)) /\ n \in Nat
  BY CommandsFinite
<1>1. CASE a = "Command" /\ acts[s] = "Command"
  <2>1. CommandSlots(new) = CommandSlots(acts)
    BY <1>1 DEF CommandSlots
  <2>2. NewCount(n, a, acts[s]) = n
    BY <1>0, <1>1 DEF NewCount, Bit
  <2> QED
    BY <2>1, <2>2
<1>2. CASE a = "Command" /\ acts[s] # "Command"
  <2>1. CommandSlots(new) = CommandSlots(acts) \cup {s} /\ s \notin CommandSlots(acts)
    BY <1>2 DEF CommandSlots
  <2>2. Cardinality(CommandSlots(acts) \cup {s}) = n + 1
    BY <1>0, <2>1, FS_AddElement
  <2>3. NewCount(n, a, acts[s]) = n + 1
    BY <1>0, <1>2 DEF NewCount, Bit
  <2> QED
    BY <2>1, <2>2, <2>3
<1>3. CASE a # "Command" /\ acts[s] = "Command"
  <2>1. CommandSlots(new) = CommandSlots(acts) \ {s} /\ s \in CommandSlots(acts)
    BY <1>3 DEF CommandSlots
  <2>2. Cardinality(CommandSlots(acts) \ {s}) = n - 1
    BY <1>0, <2>1, FS_RemoveElement
  <2>3. NewCount(n, a, acts[s]) = n - 1
    BY <1>0, <1>3 DEF NewCount, Bit
  <2> QED
    BY <2>1, <2>2, <2>3
<1>4. CASE a # "Command" /\ acts[s] # "Command"
  <2>1. CommandSlots(new) = CommandSlots(acts)
    BY <1>4 DEF CommandSlots
  <2>2. NewCount(n, a, acts[s]) = n
    BY <1>0, <1>4 DEF NewCount, Bit
  <2> QED
    BY <2>1, <2>2
<1> QED
  BY <1>1, <1>2, <1>3, <1>4

LEMMA ClearedHasNone ==
  ASSUME action \in [Slot -> Action]
  PROVE  /\ ClearedActions \in [Slot -> Action]
         /\ Cardinality(CommandSlots(ClearedActions)) = 0
<1>1. CommandSlots(ClearedActions) = {}
  BY DEF CommandSlots, ClearedActions
<1> QED
  BY <1>1, FS_EmptySet DEF ClearedActions, Action

\* trap_count is the number of executable actions after every trap command,
\* fork and postponed clear: has_traps answers exactly, so the in-place
\* subshell never runs where a trap would have to be reset.
THEOREM CountIsKept == DSpec => []CountIsExact
<1>1. DInit => CountInv
  <2> SUFFICES ASSUME DInit PROVE CountInv
    OBVIOUS
  <2>1. CommandSlots(action) = {}
    BY DEF DInit, CommandSlots
  <2> QED
    BY <2>1, FS_EmptySet DEF DInit, CountInv, Action
<1>2. CountInv /\ [DNext]_dvars => CountInv'
  <2> SUFFICES ASSUME CountInv, [DNext]_dvars PROVE CountInv'
    OBVIOUS
  <2>1. CASE Startup
    BY <2>1 DEF Startup, CountInv
  <2>2. ASSUME NEW on \in BOOLEAN, NEW accessible \in BOOLEAN, SetMonitor(on, accessible)
        PROVE  CountInv'
    BY <2>2 DEF SetMonitor, CountInv
  <2>3. ASSUME NEW s \in Slot, NEW a \in Action, TrapCommand(s, a)
        PROVE  CountInv'
    <3>1. /\ ActionsBefore \in [Slot -> Action]
          /\ (IF parentPending THEN 0 ELSE trapCount) = Cardinality(CommandSlots(ActionsBefore))
      BY ClearedHasNone DEF CountInv, ActionsBefore
    <3>2. /\ action' = [ActionsBefore EXCEPT ![s] = a] /\ parentPending' = FALSE
          /\ trapCount' = NewCount(IF parentPending THEN 0 ELSE trapCount, a, ActionsBefore[s])
      BY <2>3 DEF TrapCommand
    <3>3. Cardinality(CommandSlots(action')) = trapCount'
      BY <3>1, <3>2, CountUpdate
    <3>4. action' \in [Slot -> Action]
      BY <3>1, <3>2
    <3> QED
      BY <3>2, <3>3, <3>4 DEF CountInv, CommandSlots
  <2>4. ASSUME NEW mode \in Modes, NEW simple \in BOOLEAN, Fork(mode, simple)
        PROVE  CountInv'
    <3>1. /\ trapCount' = 0
          /\ parentPending' = (simple /\ mode = "WithoutJob")
          /\ action' = IF simple /\ mode = "WithoutJob" THEN action ELSE ClearedActions
      BY <2>4 DEF Fork
    <3> QED
      BY <3>1, ClearedHasNone DEF CountInv, CommandSlots
  <2>5. CASE SubshellInPlace
    BY <2>5, ClearedHasNone DEF SubshellInPlace, CountInv, CommandSlots
  <2>6. CASE UNCHANGED dvars
    BY <2>6 DEF dvars, CountInv, CommandSlots
  <2> QED
    BY <2>1, <2>2, <2>3, <2>4, <2>5, <2>6 DEF DNext
<1>3. CountInv => CountIsExact
  BY DEF CountInv, CountIsExact
<1> QED
  BY <1>1, <1>2, <1>3, PTL DEF DSpec
-----------------------------------------------------------------------------
\* An accepted trap is caught, or the cache knows that it is not installed.
AwaitsInstall == {"Catch", "Unknown", "ResetRequired"}
TrapInv ==
  ~parentPending => \A s \in Sig : action[s] = "Command" => disp[s] \in AwaitsInstall

LEMMA ConfigureCommand ==
  ASSUME NEW s \in Sig, NEW c, Honest(c), NEW lvl, NEW mon, NEW r
  PROVE  configure_signal(s, c, "Command", lvl, mon, r).disp \in AwaitsInstall
<1>1. desired(s, "Command", lvl, mon) = "Catch"
  BY DEF desired
<1>2. c \in CellType /\ [c EXCEPT !.disp = "ResetRequired"].disp = "ResetRequired"
  BY DEF Honest, CellType
<1>3. CASE c.disp = "Unknown"
  BY <1>1, <1>2, <1>3 DEF configure_signal, AwaitsInstall
<1>4. CASE c.disp # "Unknown"
  <2>1. Probed(s, c, mon) = c.disp /\ c.disp # "InheritedIgnore"
    BY <1>2, <1>4 DEF Probed, CellType, DispositionState, Disposition
  <2> QED
    BY <1>1, <1>2, <1>4, <2>1 DEF configure_signal, AwaitsInstall
<1> QED
  BY <1>3, <1>4

\* Reconfiguring signals under the actions they have keeps TrapInv.
LEMMA ReconfigureTraps ==
  ASSUME CacheInv, TrapInv, NEW S, NEW lvl, NEW mon, NEW r,
         SetCells(Configured(S, action, lvl, mon, r)), UNCHANGED <<action, parentPending>>
  PROVE  TrapInv'
<1> SUFFICES ASSUME ~parentPending, NEW s \in Sig, action[s] = "Command"
             PROVE  disp'[s] \in AwaitsInstall
  BY DEF TrapInv
<1>1. CASE s \in S
  <2>1. disp'[s] = configure_signal(s, Cell(s), "Command", lvl, mon, r).disp
    BY <1>1 DEF SetCells, Configured
  <2> QED
    BY <2>1, CellHonest, ConfigureCommand
<1>2. CASE s \notin S
  BY <1>2 DEF SetCells, Configured, Cell, TrapInv
<1> QED
  BY <1>1, <1>2

LEMMA ClearedHasNoCommand ==
  ASSUME action \in [Slot -> Action], NEW s \in Slot
  PROVE  ClearedActions[s] # "Command"
BY DEF ClearedActions

LEMMA NextTrap ==
  ASSUME CacheInv, TrapInv, [DNext]_dvars
  PROVE  TrapInv'
<1> USE DEF CacheInv, TableType
<1>1. CASE Startup
  <2>1. PICK r \in Refuse : SetCells(Configured({"INT", "QUIT", "TERM"}, action, 0, monitor, r))
    BY <1>1 DEF Startup
  <2> QED
    BY <1>1, <2>1, ReconfigureTraps DEF Startup
<1>2. ASSUME NEW on \in BOOLEAN, NEW accessible \in BOOLEAN, SetMonitor(on, accessible)
      PROVE  TrapInv'
  <2>1. UNCHANGED <<action, parentPending>>
    BY <1>2 DEF SetMonitor
  <2>2. \/ UNCHANGED disp
        \/ \E r \in Refuse : SetCells(Configured({"TSTP"}, action, 0, on, r))
    BY <1>2 DEF SetMonitor
  <2> QED
    BY <2>1, <2>2, ReconfigureTraps DEF TrapInv
<1>3. ASSUME NEW s \in Slot, NEW a \in Action, TrapCommand(s, a)
      PROVE  TrapInv'
  <2> DEFINE cleared(r) == IF parentPending
               THEN Configured(CommandSlots(action) \ {"EXIT"}, ActionsBefore, level, monitor, r)
               ELSE Configured({}, ActionsBefore, level, monitor, r)
  <2>1. PICK r \in Refuse : SetCells([t \in Sig |->
               IF t = s THEN configure_signal(t, cleared(r)[t], a, level, monitor, r)
               ELSE cleared(r)[t]])
    BY <1>3 DEF TrapCommand
  <2>2. action' = [ActionsBefore EXCEPT ![s] = a]
    BY <1>3 DEF TrapCommand
  <2>3. ASSUME NEW t \in Sig, action'[t] = "Command" PROVE disp'[t] \in AwaitsInstall
    <3>1. CASE t = s
      <4>1. a = "Command"
        BY <2>2, <2>3, <3>1, ActionTypes DEF Slot
      <4> HIDE DEF cleared
      <4>2. disp'[t] = configure_signal(t, cleared(r)[t], "Command", level, monitor, r).disp
        BY <2>1, <3>1, <4>1 DEF SetCells
      <4>3. Honest(cleared(r)[t])
        BY ActionTypes, ConfiguredHonest DEF cleared
      <4> QED
        BY <4>2, <4>3, ConfigureCommand
    <3>2. CASE t # s
      <4>1. ActionsBefore[t] = "Command"
        BY <2>2, <2>3, <3>2, ActionTypes DEF Slot
      <4>2. ~parentPending /\ action[t] = "Command"
        BY <4>1, ClearedHasNoCommand DEF ActionsBefore, Slot
      <4>3. disp'[t] = disp[t]
        BY <2>1, <3>2, <4>2 DEF SetCells, Configured, Cell
      <4> QED
        BY <4>2, <4>3 DEF TrapInv
    <3> QED
      BY <3>1, <3>2
  <2> QED
    BY <2>3 DEF TrapInv, AwaitsInstall
<1>4. ASSUME NEW mode \in Modes, NEW simple \in BOOLEAN, Fork(mode, simple)
      PROVE  TrapInv'
  <2>1. parentPending' \/ action' = ClearedActions
    BY <1>4 DEF Fork
  <2> QED
    BY <2>1, ClearedHasNoCommand DEF TrapInv, Slot
<1>5. CASE SubshellInPlace
  BY <1>5, ClearedHasNoCommand DEF SubshellInPlace, TrapInv, Slot
<1>6. CASE UNCHANGED dvars
  BY <1>6 DEF dvars, TrapInv
<1> QED
  BY <1>1, <1>2, <1>3, <1>4, <1>5, <1>6 DEF DNext

\* An accepted trap is really caught unless the signal was ignored on entry or
\* the host refused, and then the cache says so: no fork, postponed clear or
\* change of option loses a handler silently.
THEOREM TrapsAreInstalled == DSpec => []TrapIsInstalled
<1>1. DInit => TrapInv
  BY DEF DInit, TrapInv, Slot
<1>2. CacheInv /\ TrapInv /\ [DNext]_dvars => TrapInv'
  BY NextTrap
<1>3. CacheInv /\ TrapInv => TrapIsInstalled
  BY DEF CacheInv, CacheIsTruth, TrapInv, TrapIsInstalled, AwaitsInstall, Disposition
<1> QED
  BY <1>1, <1>2, <1>3, CacheHolds, PTL DEF DSpec

-----------------------------------------------------------------------------
\* The inductive form of IgnoredOnEntryStays: such a signal is found ignored by
\* every probe and never entered in the cache.
NeverTouched(c) == c.disp = "Unknown" /\ c.os = "Ignore"
IgnoredInv ==
  ~InList => \A s \in (ignored \cap Sig) \ {"CHLD", "TSTP"} : NeverTouched(Cell(s))

LEMMA ConfigureUntouched ==
  ASSUME NEW s \in Sig \ {"TSTP"}, NEW c, NeverTouched(c), NEW a, NEW lvl, NEW mon, NEW r
  PROVE  configure_signal(s, c, a, lvl, mon, r) = c
BY DEF NeverTouched, configure_signal, Probed

LEMMA ConfiguredUntouched ==
  ASSUME NEW s \in Sig \ {"TSTP"}, NeverTouched(Cell(s)), NEW S, NEW acts, NEW lvl, NEW mon, NEW r
  PROVE  Configured(S, acts, lvl, mon, r)[s] = Cell(s)
BY ConfigureUntouched DEF Configured

\* Storing cells keeps the ones that were not changed.
LEMMA StoreUntouched ==
  ASSUME NEW s \in Sig, NeverTouched(Cell(s)), NEW c, c[s] = Cell(s), SetCells(c)
  PROVE  NeverTouched(Cell(s))'
BY DEF NeverTouched, SetCells, Cell

LEMMA NextIgnored ==
  ASSUME IgnoredInv, [DNext]_dvars
  PROVE  IgnoredInv'
<1>1. SUFFICES ASSUME ~InList', NEW s \in (ignored' \cap Sig) \ {"CHLD", "TSTP"}
               PROVE  NeverTouched(Cell(s))'
  BY DEF IgnoredInv
<1>2. ASSUME UNCHANGED <<ignored, role>> PROVE NeverTouched(Cell(s))
  BY <1>1, <1>2 DEF IgnoredInv, InList
<1>3. CASE Startup
  <2>1. s \in ignored /\ NeverTouched(Cell(s))
    BY <1>1, <1>3 DEF Startup, IgnoredInv, InList
  <2>2. PICK r \in Refuse : SetCells(Configured({"INT", "QUIT", "TERM"}, action, 0, monitor, r))
    BY <1>3 DEF Startup
  <2> QED
    BY <1>1, <2>1, <2>2, ConfiguredUntouched, StoreUntouched
<1>4. ASSUME NEW on \in BOOLEAN, NEW accessible \in BOOLEAN, SetMonitor(on, accessible)
      PROVE  NeverTouched(Cell(s))'
  <2>1. NeverTouched(Cell(s))
    BY <1>2, <1>4 DEF SetMonitor
  <2>2. \/ UNCHANGED <<disp, os>>
        \/ \E r \in Refuse : SetCells(Configured({"TSTP"}, action, 0, on, r))
    BY <1>4 DEF SetMonitor
  <2>3. CASE UNCHANGED <<disp, os>>
    BY <2>1, <2>3 DEF Cell, NeverTouched
  <2>4. ASSUME NEW r \in Refuse, SetCells(Configured({"TSTP"}, action, 0, on, r))
        PROVE  NeverTouched(Cell(s))'
    BY <1>1, <2>1, <2>4, ConfiguredUntouched, StoreUntouched
  <2> QED
    BY <2>2, <2>3, <2>4
<1>5. ASSUME NEW t \in Slot, NEW a \in Action, TrapCommand(t, a)
      PROVE  NeverTouched(Cell(s))'
  <2> DEFINE cleared(r) == IF parentPending
               THEN Configured(CommandSlots(action) \ {"EXIT"}, ActionsBefore, level, monitor, r)
               ELSE Configured({}, ActionsBefore, level, monitor, r)
             final(r) == [u \in Sig |->
               IF u = t THEN configure_signal(u, cleared(r)[u], a, level, monitor, r)
               ELSE cleared(r)[u]]
  <2>1. NeverTouched(Cell(s))
    BY <1>2, <1>5 DEF TrapCommand
  <2>2. PICK r \in Refuse : SetCells(final(r))
    BY <1>5 DEF TrapCommand
  <2>3. cleared(r)[s] = Cell(s)
    BY <1>1, <2>1, ConfiguredUntouched
  <2>4. final(r)[s] = Cell(s)
    <3> HIDE DEF cleared
    <3>1. configure_signal(s, cleared(r)[s], a, level, monitor, r) = Cell(s)
      BY <1>1, <2>1, <2>3, ConfigureUntouched
    <3> QED
      BY <1>1, <2>3, <3>1
  <2> HIDE DEF final
  <2> QED
    BY <1>1, <2>1, <2>2, <2>4, StoreUntouched
<1>6. ASSUME NEW mode \in Modes, NEW simple \in BOOLEAN, Fork(mode, simple)
      PROVE  NeverTouched(Cell(s))'
  <2> DEFINE partial  == simple /\ mode = "WithoutJob"
             controls == mode # "WithoutJob" /\ level = 0 /\ jobControl
             async    == mode = "Background" /\ ~controls
             lvl      == level + 1
             acts     == IF partial THEN action ELSE ClearedActions
             cleared(r) == Configured(CommandSlots(action) \ {"EXIT"}, ClearedActions, lvl, monitor, r)
             grouped(c, r) == [u \in Sig |->
               IF controls /\ u = "TSTP" THEN configure_signal(u, c[u], acts[u], lvl, monitor, r)
               ELSE IF async /\ u \in Terminal THEN ignore_signal_in_child(c[u], r)
               ELSE c[u]]
             last(c, r) == [u \in Sig |->
               IF level = 0 /\ Interactive /\ u \in {"INT", "QUIT", "TERM"}
               THEN configure_signal(u, c[u], acts[u], lvl, monitor, r) ELSE c[u]]
  <2>1. PICK r \in Refuse : SetCells(last(grouped(cleared(r), r), r))
    BY <1>6 DEF Fork
  <2>2. ~async /\ ~InList /\ ignored' = ignored
    BY <1>1, <1>6 DEF Fork, InList
  <2>3. NeverTouched(Cell(s))
    BY <1>1, <2>2 DEF IgnoredInv
  <2>4. cleared(r)[s] = Cell(s)
    BY <1>1, <2>3, ConfiguredUntouched
  <2>5. grouped(cleared(r), r)[s] = Cell(s)
    <3> HIDE DEF cleared, acts, lvl
    <3> QED
      BY <1>1, <2>2, <2>4
  <2>6. last(grouped(cleared(r), r), r)[s] = Cell(s)
    <3> HIDE DEF grouped, acts, lvl
    <3>1. configure_signal(s, grouped(cleared(r), r)[s], acts[s], lvl, monitor, r) = Cell(s)
      BY <1>1, <2>3, <2>5, ConfigureUntouched
    <3> QED
      BY <1>1, <2>5, <3>1
  <2> HIDE DEF last
  <2> QED
    BY <1>1, <2>1, <2>3, <2>6, StoreUntouched
<1>7. CASE SubshellInPlace
  <2>1. NeverTouched(Cell(s))
    BY <1>2, <1>7 DEF SubshellInPlace
  <2>2. PICK r \in Refuse : SetCells(
          Configured(CommandSlots(action) \ {"EXIT"}, ClearedActions, level, monitor, r))
    BY <1>7 DEF SubshellInPlace
  <2> QED
    BY <1>1, <2>1, <2>2, ConfiguredUntouched, StoreUntouched
<1>8. CASE UNCHANGED dvars
  BY <1>2, <1>8 DEF dvars, Cell, NeverTouched
<1> QED
  BY <1>3, <1>4, <1>5, <1>6, <1>7, <1>8 DEF DNext

\* A signal that was ignored on entry stays ignored outside asynchronous lists,
\* through any number of traps, option changes, refusals and nested subshells.
THEOREM IgnoredStaysIgnored == DSpec => []IgnoredOnEntryStays
<1>1. DInit => IgnoredInv /\ ignored \subseteq Sig
  BY DEF DInit, IgnoredInv, NeverTouched, Cell
<1>2. ignored \subseteq Sig /\ [DNext]_dvars => (ignored \subseteq Sig)'
  BY DEF DNext, dvars, Startup, SetMonitor, TrapCommand, Fork, SubshellInPlace
<1>3. IgnoredInv /\ [DNext]_dvars => IgnoredInv'
  BY NextIgnored
<1>4. IgnoredInv /\ ignored \subseteq Sig => IgnoredOnEntryStays
  BY DEF IgnoredInv, IgnoredOnEntryStays, OnEntryStaysIgnored, NeverTouched, Cell
<1> QED
  BY <1>1, <1>2, <1>3, <1>4, PTL DEF DSpec

-----------------------------------------------------------------------------
\* The inductive form of AsyncListIgnores.  A list is never the shell itself, so
\* that no process of it configures the signals as an interactive shell does, and
\* what it owes has no executable action whose clearing would reconfigure it.
Kept(c) == c.disp \in {"Ignore", "ResetRequired"}
OwedInv ==
  /\ owed \subseteq Terminal
  /\ owed # {} => InList /\ level # 0
  /\ (Interactive /\ role = "list")
     \/ \A s \in owed : Kept(Cell(s)) /\ action[s] # "Command"

LEMMA TerminalSignals == Terminal \subseteq Sig /\ Terminal \subseteq Slot /\ "TSTP" \notin Terminal
BY DEF Terminal, Sig, Slot

\* ignore_signal_in_child leaves an ignored signal, or one it knows it was refused.
LEMMA IgnoredInChild ==
  ASSUME NEW c, Honest(c), NEW r
  PROVE  Kept(ignore_signal_in_child(c, r))
BY DEF Honest, CellType, DispositionState, Disposition, ignore_signal_in_child, Kept

\* Clearing the executable actions leaves the others' signals alone.
LEMMA ClearingSpares ==
  ASSUME NEW s \in Terminal, action[s] # "Command", NEW acts, NEW lvl, NEW mon, NEW r
  PROVE  Configured(CommandSlots(action) \ {"EXIT"}, acts, lvl, mon, r)[s] = Cell(s)
BY TerminalSignals DEF Configured, CommandSlots

LEMMA StoreKept ==
  ASSUME NEW s \in Terminal, NEW c, Kept(c[s]), SetCells(c)
  PROVE  Kept(Cell(s))'
BY TerminalSignals DEF Kept, SetCells, Cell

LEMMA ForkOwed ==
  ASSUME CacheInv, OwedInv, NEW mode \in Modes, NEW simple \in BOOLEAN, Fork(mode, simple)
  PROVE  OwedInv'
<1> DEFINE partial  == simple /\ mode = "WithoutJob"
           controls == mode # "WithoutJob" /\ level = 0 /\ jobControl
           async    == mode = "Background" /\ ~controls
           lvl      == level + 1
           acts     == IF partial THEN action ELSE ClearedActions
           cleared(r) == Configured(CommandSlots(action) \ {"EXIT"}, ClearedActions, lvl, monitor, r)
           grouped(c, r) == [u \in Sig |->
             IF controls /\ u = "TSTP" THEN configure_signal(u, c[u], acts[u], lvl, monitor, r)
             ELSE IF async /\ u \in Terminal THEN ignore_signal_in_child(c[u], r)
             ELSE c[u]]
           last(c, r) == [u \in Sig |->
             IF level = 0 /\ Interactive /\ u \in {"INT", "QUIT", "TERM"}
             THEN configure_signal(u, c[u], acts[u], lvl, monitor, r) ELSE c[u]]
<1>1. PICK r \in Refuse : SetCells(last(grouped(cleared(r), r), r))
  BY DEF Fork
<1>2. /\ level' # 0 /\ action' = acts
      /\ owed' = IF async THEN Terminal ELSE owed
      /\ async => InList' /\ (role' = "list" <=> level = 0)
      /\ ~async /\ InList => role' = role
  <2>1. level' = level + 1 /\ action' = acts /\ owed' = IF async THEN Terminal ELSE owed
    BY DEF Fork
  <2>2. ASSUME async PROVE role' = IF level = 0 THEN "list" ELSE "nested"
    BY <2>2 DEF Fork
  <2>3. ASSUME ~async, InList PROVE role' = role
    BY <2>3 DEF Fork
  <2> HIDE DEF async, acts
  <2> QED
    BY <2>1, <2>2, <2>3 DEF CacheInv, TableType, InList
<1>3. owed' \subseteq Terminal /\ (owed' # {} => InList' /\ level' # 0)
  BY <1>2 DEF OwedInv, InList
<1>4. ASSUME ~(Interactive /\ role' = "list"), NEW s \in owed'
      PROVE  Kept(Cell(s))' /\ action'[s] # "Command"
  <2>1. s \in Terminal /\ s \in Sig /\ s \in Slot /\ s # "TSTP"
    BY <1>3, <1>4, TerminalSignals
  <2>2. level # 0 \/ ~Interactive
    BY <1>2, <1>4 DEF OwedInv
  <2>3. last(grouped(cleared(r), r), r)[s] = grouped(cleared(r), r)[s]
    <3> HIDE DEF grouped, acts, lvl
    <3> QED
      BY <2>1, <2>2
  <2>4. CASE async
    <3>1. Honest(cleared(r)[s])
      BY <2>1, ActionTypes, ConfiguredHonest DEF CacheInv, TableType
    <3>2. grouped(cleared(r), r)[s] = ignore_signal_in_child(cleared(r)[s], r)
      <4> HIDE DEF cleared, acts, lvl
      <4> QED
        BY <2>1, <2>4
    <3>3. Kept(last(grouped(cleared(r), r), r)[s])
      BY <2>3, <3>1, <3>2, IgnoredInChild
    <3>4. acts[s] # "Command"
      BY <2>1, <2>4, ClearedHasNoCommand DEF CacheInv, TableType
    <3> HIDE DEF last, acts
    <3> QED
      BY <1>1, <1>2, <2>1, <3>3, <3>4, StoreKept
  <2>5. CASE ~async
    <3>1. s \in owed /\ InList /\ role' = role
      BY <1>2, <1>4, <2>5 DEF OwedInv
    <3>2. Kept(Cell(s)) /\ action[s] # "Command"
      BY <1>4, <3>1 DEF OwedInv
    <3>3. cleared(r)[s] = Cell(s)
      BY <2>1, <3>2, ClearingSpares
    <3>4. grouped(cleared(r), r)[s] = cleared(r)[s]
      <4> HIDE DEF cleared, acts, lvl
      <4> QED
        BY <2>1, <2>5
    <3>5. acts[s] # "Command"
      BY <2>1, <3>2 DEF ClearedActions
    <3> HIDE DEF last, acts
    <3> QED
      BY <1>1, <1>2, <2>1, <2>3, <3>2, <3>3, <3>4, <3>5, StoreKept
  <2> QED
    BY <2>4, <2>5
<1> QED
  BY <1>3, <1>4 DEF OwedInv

LEMMA NextOwed ==
  ASSUME CacheInv, OwedInv, [DNext]_dvars
  PROVE  OwedInv'
<1>1. CASE Startup
  BY <1>1 DEF Startup, OwedInv, InList
<1>2. ASSUME NEW on \in BOOLEAN, NEW accessible \in BOOLEAN, SetMonitor(on, accessible)
      PROVE  OwedInv'
  <2>1. CASE owed = {}
    BY <1>2, <2>1 DEF SetMonitor, OwedInv
  <2>2. CASE owed # {}
    <3>1. UNCHANGED <<owed, role, level, action, disp, os>>
      BY <1>2, <2>2 DEF SetMonitor, OwedInv
    <3> QED
      BY <3>1 DEF OwedInv, InList, Kept, Cell
  <2> QED
    BY <2>1, <2>2
<1>3. ASSUME NEW t \in Slot, NEW a \in Action, TrapCommand(t, a)
      PROVE  OwedInv'
  <2> DEFINE cleared(r) == IF parentPending
               THEN Configured(CommandSlots(action) \ {"EXIT"}, ActionsBefore, level, monitor, r)
               ELSE Configured({}, ActionsBefore, level, monitor, r)
             final(r) == [u \in Sig |->
               IF u = t THEN configure_signal(u, cleared(r)[u], a, level, monitor, r)
               ELSE cleared(r)[u]]
  <2>1. PICK r \in Refuse : SetCells(final(r))
    BY <1>3 DEF TrapCommand
  <2>2. /\ owed' = owed \ {t} /\ UNCHANGED <<role, level>>
        /\ action' = [ActionsBefore EXCEPT ![t] = a]
    BY <1>3 DEF TrapCommand
  <2>3. ASSUME ~(Interactive /\ role = "list"), NEW s \in owed'
        PROVE  Kept(Cell(s))' /\ action'[s] # "Command"
    <3>1. s \in Terminal /\ s \in Sig /\ s \in Slot /\ s # t
      BY <2>2, <2>3, TerminalSignals DEF OwedInv
    <3>2. Kept(Cell(s)) /\ action[s] # "Command"
      BY <2>2, <2>3 DEF OwedInv
    <3>3. cleared(r)[s] = Cell(s)
      <4>1. CASE parentPending
        BY <3>1, <3>2, <4>1, ClearingSpares
      <4>2. CASE ~parentPending
        BY <3>1, <4>2 DEF Configured
      <4> QED
        BY <4>1, <4>2
    <3>4. final(r)[s] = Cell(s)
      <4> HIDE DEF cleared
      <4> QED
        BY <3>1, <3>3
    <3>5. action'[s] # "Command"
      BY <2>2, <3>1, <3>2, ActionTypes DEF ActionsBefore, ClearedActions
    <3> HIDE DEF final
    <3> QED
      BY <2>1, <3>1, <3>2, <3>4, <3>5, StoreKept
  <2> QED
    BY <2>2, <2>3 DEF OwedInv, InList
<1>4. ASSUME NEW mode \in Modes, NEW simple \in BOOLEAN, Fork(mode, simple)
      PROVE  OwedInv'
  BY <1>4, ForkOwed
<1>5. CASE SubshellInPlace
  <2>1. PICK r \in Refuse : SetCells(
          Configured(CommandSlots(action) \ {"EXIT"}, ClearedActions, level, monitor, r))
    BY <1>5 DEF SubshellInPlace
  <2>2. UNCHANGED <<owed, role, level>> /\ action' = ClearedActions
    BY <1>5 DEF SubshellInPlace
  <2>3. ASSUME NEW s \in owed, Kept(Cell(s)), action[s] # "Command"
        PROVE  Kept(Cell(s))' /\ action'[s] # "Command"
    <3>1. s \in Terminal /\ s \in Slot
      BY <2>3, TerminalSignals DEF OwedInv
    <3> QED
      BY <2>1, <2>2, <2>3, <3>1, ClearingSpares, StoreKept DEF ClearedActions
  <2> QED
    BY <2>2, <2>3 DEF OwedInv, InList
<1>6. CASE UNCHANGED dvars
  BY <1>6 DEF dvars, OwedInv, InList, Kept, Cell
<1> QED
  BY <1>1, <1>2, <1>3, <1>4, <1>5, <1>6 DEF DNext

\* Every process of an asynchronous list ignores SIGINT and SIGQUIT until a trap
\* command names them, or knows that the install was refused: for any nesting of
\* subshells, any other traps and options, with the lists that an interactive shell
\* starts itself as the one exception.
THEOREM ListsStayIgnoring == DSpec => []AsyncListIgnores
<1>1. DInit => OwedInv
  BY DEF DInit, OwedInv
<1>2. CacheInv /\ OwedInv /\ [DNext]_dvars => OwedInv'
  BY NextOwed
<1>3. CacheInv /\ OwedInv => AsyncListIgnores
  BY TerminalSignals DEF CacheInv, CacheIsTruth, OwedInv, Kept, Cell, AsyncListIgnores,
     ListsIgnore, IgnoredHere, Disposition
<1> QED
  BY <1>1, <1>2, <1>3, CacheHolds, PTL DEF DSpec
=============================================================================
