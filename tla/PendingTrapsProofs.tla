------------------------- MODULE PendingTrapsProofs -------------------------
(***************************************************************************)
(* For any number of signals, deliveries and nested actions: the handler    *)
(* and the trap table agree on who takes SIGINT, and the trap context and   *)
(* the statuses are those of the activations that are open.                 *)
(***************************************************************************)
EXTENDS PendingTraps, FiniteSetTheorems, FunctionTheorems, TLAPS

\* The inductive invariant: the mirror is the table's except between the two
\* stores of the trap command, and signals are blocked for as long as that.
MirrorInv ==
  /\ action \in [Signal -> Action] /\ trapped \in [Signal -> BOOLEAN]
  /\ pc \in {"slot", "mirror"} => blocked /\ arg[1] \in Signal /\ arg[2] \in Action
  /\ \A s \in Signal : trapped[s] = (action[s] # "Default") \/ (pc = "mirror" /\ arg[1] = s)

LEMMA InitMirror == ASSUME Init PROVE MirrorInv
BY DEF Init, MirrorInv, Action

\* No step that leaves the trap table and the guard alone, and that does not
\* enter or leave the trap command, disturbs the invariant.
LEMMA OthersKeep ==
  ASSUME MirrorInv, UNCHANGED <<action, trapped, blocked, arg>>,
         pc \notin {"slot", "mirror"}, pc' \notin {"slot", "mirror"}
  PROVE  MirrorInv'
BY DEF MirrorInv

\* The handler does not move the shell.
LEMMA HandlerKeeps ==
  ASSUME MirrorInv, UNCHANGED <<action, trapped, blocked, arg, pc>>
  PROVE  MirrorInv'
BY DEF MirrorInv

LEMMA NextMirror == ASSUME MirrorInv, [Next]_vars PROVE MirrorInv'
<1>1. ASSUME NEW s \in Signal, NEW a \in Action, TrapCommand(s, a) PROVE MirrorInv'
  BY <1>1 DEF TrapCommand, SignalsBlocked, MirrorInv
<1>2. CASE SetSlot
  BY <1>2 DEF SetSlot, MirrorInv, Action
<1>3. CASE SetTrapped
  BY <1>3 DEF SetTrapped, MirrorInv
<1>4. ASSUME NEW s \in Signal, raise(s) PROVE MirrorInv'
  BY <1>4, HandlerKeeps DEF raise, traps
<1>5. CASE UNCHANGED vars
  BY <1>5, HandlerKeeps DEF vars
<1>6. CASE \/ TrapPseudo \/ \E st \in Status : Command(st)
           \/ \E c \in Conditions : dispatch(c)
           \/ \E operand \in Status \cup {None} : ExitCommand(operand)
           \/ Errexit \/ EndOfInput \/ Fails
  BY <1>6, OthersKeep DEF TrapPseudo, Command, dispatch, ExitCommand, Errexit, EndOfInput,
     Fails, Enter, Unwind, traps
<1>7. CASE poll_interrupt \/ LookForSignals \/ ScanSignal \/ ScanEnds
  BY <1>7, OthersKeep DEF poll_interrupt, LookForSignals, ScanSignal, ScanEnds, Enter,
     Unwind, traps
<1>8. CASE exit_shell \/ recover_command_loop
  BY <1>8, OthersKeep DEF exit_shell, recover_command_loop, Enter, traps
<1>9. CASE \/ SignalActionDone \/ \E explicit \in BOOLEAN : SignalActionLeaves(explicit)
           \/ PseudoActionDone \/ ActionUnwinds \/ ExitActionDone \/ ExitActionUnwinds
  BY <1>9, OthersKeep DEF SignalActionDone, SignalActionLeaves, PseudoActionDone,
     ActionUnwinds, ExitActionDone, ExitActionUnwinds, traps
<1> QED
  BY <1>1, <1>2, <1>3, <1>4, <1>5, <1>6, <1>7, <1>8, <1>9 DEF Next, Shell

\* Only the handler sets interrupt_pending, and only for an untrapped SIGINT.
LEMMA InterruptStep ==
  ASSUME MirrorInv, [Next]_vars, intPending', ~intPending
  PROVE  action[INT] = "Default"
<1>1. ASSUME NEW s \in Signal, raise(s) PROVE action[INT] = "Default"
  <2>1. s = INT /\ ~trapped[s] /\ ~blocked
    BY <1>1 DEF raise
  <2>2. trapped[s] = (action[s] # "Default")
    BY <2>1 DEF MirrorInv
  <2> QED
    BY <2>1, <2>2
<1>2. ASSUME Shell PROVE FALSE
  <2>1. CASE poll_interrupt
    BY <2>1 DEF poll_interrupt
  <2>2. CASE \/ \E s \in Signal, a \in Action : TrapCommand(s, a)
             \/ SetSlot \/ SetTrapped \/ TrapPseudo \/ \E st \in Status : Command(st)
    BY <2>2 DEF TrapCommand, SetSlot, SetTrapped, TrapPseudo, Command, inbox
  <2>3. CASE LookForSignals \/ ScanSignal \/ ScanEnds
    BY <2>3 DEF LookForSignals, ScanSignal, ScanEnds, inbox
  <2>4. CASE \/ \E c \in Conditions : dispatch(c)
             \/ \E operand \in Status \cup {None} : ExitCommand(operand)
             \/ Errexit \/ EndOfInput \/ Fails \/ exit_shell \/ recover_command_loop
    BY <2>4 DEF dispatch, ExitCommand, Errexit, EndOfInput, Fails, exit_shell,
       recover_command_loop, inbox
  <2>5. CASE \/ SignalActionDone \/ \E explicit \in BOOLEAN : SignalActionLeaves(explicit)
             \/ PseudoActionDone \/ ActionUnwinds \/ ExitActionDone \/ ExitActionUnwinds
    BY <2>5 DEF SignalActionDone, SignalActionLeaves, PseudoActionDone, ActionUnwinds,
       ExitActionDone, ExitActionUnwinds, inbox
  <2> QED
    BY <1>2, <2>1, <2>2, <2>3, <2>4, <2>5 DEF Shell
<1>3. CASE UNCHANGED vars
  BY <1>3 DEF vars
<1> QED
  BY <1>1, <1>2, <1>3 DEF Next

\* SIGINT becomes an interrupt only when the table has no action for it, however
\* deliveries interleave with the two stores of the trap command: a ^C never
\* replaces the user's trap.
THEOREM InterruptsAreUntrapped == Spec => InterruptOnlyUntrapped
<1>1. Init => MirrorInv
  BY InitMirror
<1>2. MirrorInv /\ [Next]_vars => MirrorInv'
  BY NextMirror
<1>3. MirrorInv /\ [Next]_vars => [intPending' /\ ~intPending => action[INT] = "Default"]_vars
  BY InterruptStep
<1> QED
  BY <1>1, <1>2, <1>3, PTL DEF Spec, InterruptOnlyUntrapped
-----------------------------------------------------------------------------
(* The stack of activations.                                               *)

LEMMA PushFrame ==
  ASSUME NEW s \in Seq(Frame), NEW f \in Frame
  PROVE  /\ <<f>> \o s \in Seq(Frame) /\ Len(<<f>> \o s) = Len(s) + 1
         /\ (<<f>> \o s)[1] = f /\ \A i \in 1 .. Len(s) : (<<f>> \o s)[i + 1] = s[i]
         /\ Head(<<f>> \o s) = f /\ Tail(<<f>> \o s) = s /\ <<f>> \o s # <<>>
OBVIOUS

LEMMA PopFrame ==
  ASSUME NEW s \in Seq(Frame), s # <<>>
  PROVE  /\ Head(s) \in Frame /\ Tail(s) \in Seq(Frame) /\ s = <<Head(s)>> \o Tail(s)
         /\ Len(Tail(s)) = Len(s) - 1 /\ Head(s) = s[1]
         /\ \A i \in 1 .. Len(s) - 1 : Tail(s)[i] = s[i + 1]
OBVIOUS

\* The activations of signals among those of s.
Signals(s) == {i \in 1 .. Len(s) : s[i].kind = "signal"}

LEMMA SignalsFinite ==
  ASSUME NEW s \in Seq(Frame)
  PROVE  IsFiniteSet(Signals(s)) /\ Cardinality(Signals(s)) \in Nat
<1>1. IsFiniteSet(1 .. Len(s))
  BY FS_Interval
<1> QED
  BY <1>1, FS_Subset, FS_CardinalityType DEF Signals

\* Entering an action adds it to the count.
LEMMA SignalsPush ==
  ASSUME NEW s \in Seq(Frame), NEW f \in Frame
  PROVE  Cardinality(Signals(<<f>> \o s))
           = Cardinality(Signals(s)) + (IF f.kind = "signal" THEN 1 ELSE 0)
<1> DEFINE Shifted == {i + 1 : i \in Signals(s)}
           g == [i \in Signals(s) |-> i + 1]
<1>1. g \in Bijection(Signals(s), Shifted)
  BY DEF Bijection, Injection, Surjection, IsInjective, Signals
<1>2. IsFiniteSet(Shifted) /\ Cardinality(Shifted) = Cardinality(Signals(s))
  <2> HIDE DEF Shifted, g
  <2>1. ExistsBijection(Signals(s), Shifted)
    BY <1>1 DEF ExistsBijection
  <2> QED
    BY <2>1, SignalsFinite, FS_Bijection
<1>3. 1 \notin Shifted
  BY DEF Signals
<1>4. Signals(<<f>> \o s) = IF f.kind = "signal" THEN Shifted \cup {1} ELSE Shifted
  <2> DEFINE t == <<f>> \o s
  <2>1. /\ Len(s) \in Nat /\ Len(t) = Len(s) + 1 /\ t[1] = f
        /\ \A i \in 1 .. Len(s) : t[i + 1] = s[i]
    BY PushFrame
  <2> HIDE DEF t
  <2>2. ASSUME NEW i \in 1 .. Len(s) + 1, i # 1
        PROVE  i - 1 \in 1 .. Len(s) /\ i = (i - 1) + 1 /\ t[i] = s[i - 1]
    <3>1. i - 1 \in 1 .. Len(s) /\ i = (i - 1) + 1
      BY <2>1, <2>2
    <3> QED
      BY <2>1, <3>1
  <2>3. ASSUME NEW i \in Signals(t) PROVE i \in Shifted \/ (i = 1 /\ f.kind = "signal")
    <3>1. CASE i = 1
      BY <2>1, <2>3, <3>1 DEF Signals
    <3>2. CASE i # 1
      <4>1. i - 1 \in Signals(s) /\ i = (i - 1) + 1
        BY <2>1, <2>2, <2>3, <3>2 DEF Signals
      <4> QED
        BY <4>1
    <3> QED
      BY <3>1, <3>2
  <2>4. ASSUME NEW i \in Signals(s) PROVE i + 1 \in Signals(t)
    BY <2>1, <2>4 DEF Signals
  <2>5. f.kind = "signal" => 1 \in Signals(t)
    BY <2>1 DEF Signals
  <2> QED
    BY <2>3, <2>4, <2>5 DEF t
<1> QED
  <2> HIDE DEF Shifted
  <2> QED
    BY <1>2, <1>3, <1>4, SignalsFinite, FS_AddElement
-----------------------------------------------------------------------------
(* What an activation saved and what the shell restores from it.           *)

\* What unwinds: an error always has a status.
Flows == [kind : {"none", "exit"}, status : Status \cup {None}]
         \cup [kind : {"error"}, status : Status]

\* The part of the types the invariant rests on.
ContextTyped ==
  /\ stack \in Seq(Frame) /\ flow \in Flows
  /\ default \in Status \cup {None} /\ depth \in Nat /\ running \subseteq Conditions
  /\ status \in Status /\ shown \in Status /\ owed \in Status \cup {None}

\* ContextIsInnermost for the actions a, and the chain of statuses they put back.
ContextOf(a, d, n, r) ==
  /\ d = IF a = <<>> THEN None ELSE a[1].status
  /\ \A i \in 1 .. Len(a) : a[i].outer = IF i = Len(a) THEN None ELSE a[i + 1].status
  /\ n = Cardinality(Signals(a))
  /\ r = {a[i].kind : i \in 1 .. Len(a)} \cap Conditions
  /\ \A i, j \in 1 .. Len(a) : a[i].kind = a[j].kind /\ a[i].kind \in Conditions => i = j

\* An activation puts back the status its code had left; the EXIT action is the
\* outermost and holds what the shell owes.
FrameOf(f, o) ==
  IF f.kind = "EXIT" THEN o = IF f.explicit # None THEN f.explicit ELSE f.status
  ELSE f.shown = f.status
FramesOf(s, o) ==
  \A i \in 1 .. Len(s) : FrameOf(s[i], o) /\ (s[i].kind = "EXIT" => i = Len(s))

\* The inductive form of ContextIsInnermost and TrapsKeepStatus.
ActivationInv ==
  /\ ContextTyped
  /\ ContextOf(Acting, default, depth, running)
  /\ FramesOf(stack, owed)
  /\ pc = "scan" => stack # <<>> /\ Top.kind = "signal" /\ status = Top.status
  /\ pc \in {"run", "poll", "look"} => status = shown
  /\ pc = "ended" => status = owed

LEMMA PushContext ==
  ASSUME NEW a \in Seq(Frame), NEW f \in Frame, NEW d, NEW n, NEW r,
         ContextOf(a, d, n, r), f.outer = d, f.kind \notin r
  PROVE  ContextOf(<<f>> \o a, f.status, n + (IF f.kind = "signal" THEN 1 ELSE 0),
                   r \cup ({f.kind} \cap Conditions))
<1> DEFINE t == <<f>> \o a
<1>1. /\ Len(a) \in Nat /\ t \in Seq(Frame) /\ Len(t) = Len(a) + 1 /\ t[1] = f /\ t # <<>>
      /\ \A i \in 1 .. Len(a) : t[i + 1] = a[i]
  BY PushFrame
<1>2. Cardinality(Signals(t)) = n + (IF f.kind = "signal" THEN 1 ELSE 0)
  BY SignalsPush DEF ContextOf
<1> HIDE DEF t
<1>3. \A i \in 1 .. Len(t) : i = 1 \/ (i - 1 \in 1 .. Len(a) /\ t[i] = a[i - 1])
  <2> SUFFICES ASSUME NEW i \in 1 .. Len(t), i # 1
               PROVE  i - 1 \in 1 .. Len(a) /\ t[i] = a[i - 1]
    OBVIOUS
  <2>1. i - 1 \in 1 .. Len(a) /\ i = (i - 1) + 1
    BY <1>1
  <2> QED
    BY <1>1, <2>1
<1>4. ASSUME NEW i \in 1 .. Len(t)
      PROVE  t[i].outer = IF i = Len(t) THEN None ELSE t[i + 1].status
  <2>1. CASE i = 1
    <3>1. a = <<>> <=> Len(a) = 0
      OBVIOUS
    <3>2. Len(a) # 0 => t[2] = a[1]
      <4>1. Len(a) # 0 => 1 \in 1 .. Len(a) /\ 1 + 1 = 2
        BY <1>1
      <4> QED
        BY <1>1, <4>1
    <3> QED
      BY <1>1, <2>1, <3>1, <3>2 DEF ContextOf
  <2>2. CASE i # 1
    <3>1. i - 1 \in 1 .. Len(a) /\ t[i] = a[i - 1] /\ i = (i - 1) + 1
      BY <1>3, <2>2
    <3>2. i # Len(t) => i \in 1 .. Len(a) /\ t[i + 1] = a[i]
      BY <1>1
    <3>3. i = Len(t) <=> i - 1 = Len(a)
      BY <1>1
    <3> QED
      BY <3>1, <3>2, <3>3 DEF ContextOf
  <2> QED
    BY <2>1, <2>2
<1>5. r \cup ({f.kind} \cap Conditions) = {t[i].kind : i \in 1 .. Len(t)} \cap Conditions
  <2>1. {t[i].kind : i \in 1 .. Len(t)} = {f.kind} \cup {a[i].kind : i \in 1 .. Len(a)}
    <3>1. 1 \in 1 .. Len(t) /\ \A i \in 1 .. Len(a) : i + 1 \in 1 .. Len(t)
      BY <1>1
    <3>2. ASSUME NEW i \in 1 .. Len(t)
          PROVE  t[i].kind = f.kind \/ \E k \in 1 .. Len(a) : t[i].kind = a[k].kind
      <4>1. CASE i = 1
        BY <1>1, <4>1
      <4>2. CASE i # 1
        <5>1. i - 1 \in 1 .. Len(a) /\ t[i] = a[i - 1]
          BY <1>3, <4>2
        <5> QED
          BY <5>1
      <4> QED
        BY <4>1, <4>2
    <3>3. ASSUME NEW i \in 1 .. Len(a) PROVE \E k \in 1 .. Len(t) : t[k].kind = a[i].kind
      <4>1. i + 1 \in 1 .. Len(t) /\ t[i + 1] = a[i]
        BY <1>1, <3>1
      <4> QED
        BY <4>1
    <3>4. \E k \in 1 .. Len(t) : t[k].kind = f.kind
      BY <1>1, <3>1
    <3>5. ASSUME NEW c \in {t[i].kind : i \in 1 .. Len(t)}
          PROVE  c \in {f.kind} \cup {a[i].kind : i \in 1 .. Len(a)}
      <4>1. PICK i \in 1 .. Len(t) : c = t[i].kind
        OBVIOUS
      <4> QED
        BY <3>2, <4>1
    <3>6. ASSUME NEW c \in {f.kind} \cup {a[i].kind : i \in 1 .. Len(a)}
          PROVE  c \in {t[i].kind : i \in 1 .. Len(t)}
      <4>1. c = f.kind \/ \E i \in 1 .. Len(a) : c = a[i].kind
        OBVIOUS
      <4> QED
        BY <3>3, <3>4, <4>1
    <3> QED
      BY <3>5, <3>6
  <2> QED
    BY <2>1 DEF ContextOf
<1>6. ASSUME NEW i \in 1 .. Len(t), NEW j \in 1 .. Len(t), t[i].kind = t[j].kind,
             t[i].kind \in Conditions
      PROVE  i = j
  <2>1. \A k \in 1 .. Len(a) : a[k].kind \in Conditions => a[k].kind # f.kind
    BY DEF ContextOf
  <2>2. CASE i = 1
    BY <1>1, <1>3, <1>6, <2>1, <2>2
  <2>3. CASE j = 1
    BY <1>1, <1>3, <1>6, <2>1, <2>3
  <2>4. CASE i # 1 /\ j # 1
    <3>1. i - 1 = j - 1
      BY <1>3, <1>6, <2>4 DEF ContextOf
    <3> QED
      BY <3>1
  <2> QED
    BY <2>2, <2>3, <2>4
<1> QED
  BY <1>1, <1>2, <1>4, <1>5, <1>6 DEF ContextOf, t

LEMMA PopContext ==
  ASSUME NEW s \in Seq(Frame), s # <<>>, NEW d, NEW n \in Nat, NEW r \in SUBSET Conditions,
         ContextOf(s, d, n, r)
  PROVE  ContextOf(Tail(s), Head(s).outer,
                   IF Head(s).kind = "signal" THEN n - 1 ELSE n, r \ {Head(s).kind})
<1> DEFINE f == Head(s)
           a == Tail(s)
<1>1. /\ f \in Frame /\ a \in Seq(Frame) /\ s = <<f>> \o a /\ Len(a) = Len(s) - 1
      /\ Len(s) \in Nat /\ Len(s) # 0 /\ f = s[1] /\ \A i \in 1 .. Len(a) : a[i] = s[i + 1]
  BY PopFrame
<1>2. Cardinality(Signals(s)) = Cardinality(Signals(a)) + (IF f.kind = "signal" THEN 1 ELSE 0)
      /\ Cardinality(Signals(a)) \in Nat
  <2> HIDE DEF f, a
  <2> QED
    BY <1>1, SignalsPush, SignalsFinite
<1> HIDE DEF f, a
<1>3. \A i \in 1 .. Len(a) : i + 1 \in 1 .. Len(s)
  BY <1>1
<1>4. f.outer = IF a = <<>> THEN None ELSE a[1].status
  <2>1. a = <<>> <=> Len(a) = 0
    BY <1>1
  <2>2. 1 \in 1 .. Len(s) /\ (Len(a) # 0 => 1 \in 1 .. Len(a) /\ a[1] = s[2])
    <3>1. Len(a) # 0 => 1 \in 1 .. Len(a) /\ 1 + 1 = 2
      BY <1>1
    <3> QED
      BY <1>1, <3>1
  <2> QED
    BY <1>1, <2>1, <2>2 DEF ContextOf
<1>5. ASSUME NEW i \in 1 .. Len(a)
      PROVE  a[i].outer = IF i = Len(a) THEN None ELSE a[i + 1].status
  <2>1. i = Len(a) <=> i + 1 = Len(s)
    BY <1>1
  <2>2. i # Len(a) => i + 1 \in 1 .. Len(a) /\ a[i + 1] = s[(i + 1) + 1]
    BY <1>1
  <2> QED
    BY <1>1, <1>3, <2>1, <2>2 DEF ContextOf
<1>6. r \ {f.kind} = {a[i].kind : i \in 1 .. Len(a)} \cap Conditions
  <2>1. ASSUME NEW i \in 1 .. Len(a), a[i].kind \in Conditions PROVE a[i].kind \in r \ {f.kind}
    <3>1. i + 1 \in 1 .. Len(s) /\ 1 \in 1 .. Len(s) /\ i + 1 # 1
      BY <1>1, <1>3
    <3> QED
      BY <1>1, <2>1, <3>1 DEF ContextOf
  <2>2. ASSUME NEW i \in 1 .. Len(s), s[i].kind # f.kind
        PROVE  \E k \in 1 .. Len(a) : a[k] = s[i]
    <3>1. i - 1 \in 1 .. Len(a) /\ (i - 1) + 1 = i
      BY <1>1, <2>2
    <3> QED
      BY <1>1, <3>1
  <2>3. r = {s[i].kind : i \in 1 .. Len(s)} \cap Conditions
    BY DEF ContextOf
  <2>4. ASSUME NEW c \in r \ {f.kind} PROVE c \in {a[i].kind : i \in 1 .. Len(a)}
    <3>1. PICK i \in 1 .. Len(s) : c = s[i].kind
      BY <2>3, <2>4
    <3>2. PICK k \in 1 .. Len(a) : a[k] = s[i]
      BY <2>2, <2>4, <3>1
    <3> QED
      BY <3>1, <3>2
  <2> QED
    BY <2>1, <2>4
<1>7. ASSUME NEW i \in 1 .. Len(a), NEW j \in 1 .. Len(a), a[i].kind = a[j].kind,
             a[i].kind \in Conditions
      PROVE  i = j
  <2>1. /\ i + 1 \in 1 .. Len(s) /\ j + 1 \in 1 .. Len(s)
        /\ s[i + 1].kind = s[j + 1].kind /\ s[i + 1].kind \in Conditions
    BY <1>1, <1>3, <1>7
  <2>2. i + 1 = j + 1
    BY <2>1 DEF ContextOf
  <2> QED
    BY <2>2
<1>8. (IF f.kind = "signal" THEN n - 1 ELSE n) = Cardinality(Signals(a))
  BY <1>2 DEF ContextOf
<1> QED
  BY <1>4, <1>5, <1>6, <1>7, <1>8 DEF ContextOf, f, a

LEMMA PushFrames ==
  ASSUME NEW s \in Seq(Frame), NEW f \in Frame, NEW o, FramesOf(s, o), FrameOf(f, o),
         f.kind = "EXIT" => s = <<>>
  PROVE  FramesOf(<<f>> \o s, o)
<1> DEFINE t == <<f>> \o s
<1>1. /\ Len(s) \in Nat /\ Len(t) = Len(s) + 1 /\ t[1] = f
      /\ \A i \in 1 .. Len(s) : t[i + 1] = s[i]
  BY PushFrame
<1> HIDE DEF t
<1>2. ASSUME NEW i \in 1 .. Len(t) PROVE FrameOf(t[i], o) /\ (t[i].kind = "EXIT" => i = Len(t))
  <2>1. CASE i = 1
    BY <1>1, <2>1
  <2>2. CASE i # 1
    <3>1. i - 1 \in 1 .. Len(s) /\ (i - 1) + 1 = i
      BY <1>1, <2>2
    <3>2. t[i] = s[i - 1]
      BY <1>1, <3>1
    <3>3. FrameOf(s[i - 1], o) /\ (s[i - 1].kind = "EXIT" => i - 1 = Len(s))
      BY <3>1 DEF FramesOf
    <3> QED
      BY <1>1, <3>1, <3>2, <3>3
  <2> QED
    BY <2>1, <2>2
<1> QED
  BY <1>2 DEF FramesOf, t

LEMMA PopFrames ==
  ASSUME NEW s \in Seq(Frame), s # <<>>, NEW o, FramesOf(s, o)
  PROVE  /\ FramesOf(Tail(s), o) /\ FrameOf(Head(s), o)
         /\ Head(s).kind = "EXIT" => Tail(s) = <<>>
<1> DEFINE t == Tail(s)
<1>1. /\ t \in Seq(Frame) /\ Len(t) = Len(s) - 1 /\ Head(s) = s[1]
      /\ Len(s) \in Nat /\ Len(s) # 0 /\ \A i \in 1 .. Len(s) - 1 : t[i] = s[i + 1]
  BY PopFrame
<1> HIDE DEF t
<1>2. 1 \in 1 .. Len(s) /\ \A i \in 1 .. Len(s) - 1 : i + 1 \in 1 .. Len(s)
  BY <1>1
<1>3. Len(t) = 0 => t = <<>>
  BY <1>1
<1>4. ASSUME NEW i \in 1 .. Len(t) PROVE FrameOf(t[i], o) /\ (t[i].kind = "EXIT" => i = Len(t))
  <2>1. i \in 1 .. Len(s) - 1 /\ i + 1 \in 1 .. Len(s) /\ t[i] = s[i + 1]
    BY <1>1, <1>2
  <2>2. FrameOf(s[i + 1], o) /\ (s[i + 1].kind = "EXIT" => i + 1 = Len(s))
    BY <2>1 DEF FramesOf
  <2>3. i + 1 = Len(s) => i = Len(t)
    BY <1>1
  <2> QED
    BY <2>1, <2>2, <2>3
<1>5. FramesOf(t, o)
  BY <1>4 DEF FramesOf
<1>6. FrameOf(s[1], o) /\ (s[1].kind = "EXIT" => 1 = Len(s))
  BY <1>2 DEF FramesOf
<1>7. 1 = Len(s) => Len(t) = 0
  BY <1>1
<1> QED
  BY <1>1, <1>3, <1>5, <1>6, <1>7 DEF t
-----------------------------------------------------------------------------
\* Frames as they are made, entered and scanned with.
LEMMA FrameTypes ==
  ASSUME ContextTyped
  PROVE  /\ \A kind \in {"signal", "EXIT"} \cup Conditions, st \in Status, ex \in Status \cup {None} :
              /\ NewFrame(kind, st, ex) \in Frame
              /\ NewFrame(kind, st, ex).kind = kind /\ NewFrame(kind, st, ex).status = st
              /\ NewFrame(kind, st, ex).explicit = ex /\ NewFrame(kind, st, ex).shown = shown
         /\ \A f \in Frame, d \in Status \cup {None} :
              LET g == [f EXCEPT !.outer = d]
              IN  /\ g \in Frame /\ g.outer = d /\ g.kind = f.kind /\ g.status = f.status
                  /\ g.shown = f.shown /\ g.explicit = f.explicit
         /\ \A f \in Frame, n \in 1 .. N + 1 :
              LET g == [f EXCEPT !.next = n]
              IN  /\ g \in Frame /\ g.kind = f.kind /\ g.status = f.status
                  /\ g.shown = f.shown /\ g.explicit = f.explicit
<1>1. ASSUME NEW kind \in {"signal", "EXIT"} \cup Conditions, NEW st \in Status,
             NEW ex \in Status \cup {None}
      PROVE  /\ NewFrame(kind, st, ex) \in Frame
             /\ NewFrame(kind, st, ex).kind = kind /\ NewFrame(kind, st, ex).status = st
             /\ NewFrame(kind, st, ex).explicit = ex /\ NewFrame(kind, st, ex).shown = shown
  BY PendingTrapsAssumption DEF ContextTyped, NewFrame, Frame
<1>2. ASSUME NEW f \in Frame, NEW d \in Status \cup {None}
      PROVE  LET g == [f EXCEPT !.outer = d]
             IN  /\ g \in Frame /\ g.outer = d /\ g.kind = f.kind /\ g.status = f.status
                 /\ g.shown = f.shown /\ g.explicit = f.explicit
  BY DEF Frame
<1>3. ASSUME NEW f \in Frame, NEW n \in 1 .. N + 1
      PROVE  LET g == [f EXCEPT !.next = n]
             IN  /\ g \in Frame /\ g.kind = f.kind /\ g.status = f.status
                 /\ g.shown = f.shown /\ g.explicit = f.explicit
  BY DEF Frame
<1> QED
  BY <1>1, <1>2, <1>3

LEMMA TopTypes ==
  ASSUME ContextTyped, stack # <<>>
  PROVE  /\ Top \in Frame /\ Tail(stack) \in Seq(Frame)
         /\ Top.status \in Status /\ Top.shown \in Status /\ Top.next \in 1 .. N + 1
         /\ Top.explicit \in Status \cup {None} /\ Top.outer \in Status \cup {None}
         /\ Top.kind \in {"signal", "EXIT"} \cup Conditions
<1>1. Top \in Frame /\ Tail(stack) \in Seq(Frame)
  BY PopFrame DEF ContextTyped, Top
<1> QED
  BY <1>1 DEF Frame

\* A step that neither enters nor leaves an action.
LEMMA QuietStep ==
  ASSUME ActivationInv, UNCHANGED <<stack, default, depth, running, owed>>,
         pc # "scan", pc' \notin {"scan", "ended"},
         status' \in Status, shown' \in Status, pc' \in {"run", "poll", "look"} => status' = shown',
         flow' \in Flows
  PROVE  ActivationInv'
BY DEF ActivationInv, ContextTyped, Acting, Top

\* Enter pushes the activation whose action starts.
LEMMA EnterStep ==
  ASSUME ActivationInv, NEW f \in Frame, f.kind \notin running, Enter(f, f.status),
         depth' = IF f.kind = "signal" THEN depth + 1 ELSE depth,
         running' = running \cup ({f.kind} \cap Conditions),
         status' = f.status, owed' \in Status \cup {None}, FrameOf(f, owed'),
         f.kind = "EXIT" => stack = <<>>, owed' = owed \/ stack = <<>>,
         flow' \in Flows
  PROVE  ActivationInv'
<1> DEFINE g == [f EXCEPT !.outer = default]
<1>1. /\ g \in Frame /\ g.outer = default /\ g.kind = f.kind /\ g.status = f.status
      /\ g.shown = f.shown /\ g.explicit = f.explicit /\ f.status \in Status
  BY FrameTypes DEF ActivationInv, ContextTyped, Frame
<1>2. Acting \in Seq(Frame)
  BY PopFrame DEF ActivationInv, ContextTyped, Acting
<1>3. /\ stack' = <<g>> \o Acting /\ default' = f.status /\ shown' = f.status /\ pc' = "poll"
  BY DEF Enter, Acting
<1> HIDE DEF g
<1>4. stack' \in Seq(Frame) /\ stack' # <<>> /\ Acting' = stack'
  BY <1>1, <1>2, <1>3, PushFrame DEF Acting
<1>5. ContextOf(stack', default', depth', running')
  <2>1. ContextOf(<<g>> \o Acting, g.status, depth + (IF g.kind = "signal" THEN 1 ELSE 0),
                  running \cup ({g.kind} \cap Conditions))
    BY <1>1, <1>2, PushContext DEF ActivationInv
  <2>2. depth' = depth + (IF g.kind = "signal" THEN 1 ELSE 0)
    BY <1>1 DEF ActivationInv, ContextTyped
  <2> QED
    BY <1>1, <1>3, <2>1, <2>2
<1>6. FramesOf(Acting, owed')
  <2>1. stack = <<>> => pc # "scan" /\ Acting = <<>>
    BY DEF ActivationInv, Acting
  <2>2. FramesOf(<<>>, owed')
    BY DEF FramesOf
  <2>3. FramesOf(Acting, owed)
    BY PopFrames DEF ActivationInv, ContextTyped, Acting
  <2> QED
    BY <2>1, <2>2, <2>3
<1>7. f.kind = "EXIT" => Acting = <<>>
  BY DEF ActivationInv, Acting
<1>8. FramesOf(stack', owed')
  BY <1>1, <1>2, <1>3, <1>6, <1>7, PushFrames DEF FrameOf
<1>9. ContextTyped'
  BY <1>1, <1>3, <1>4 DEF ActivationInv, ContextTyped
<1> QED
  BY <1>1, <1>3, <1>4, <1>5, <1>8, <1>9 DEF ActivationInv

\* RestoreContext pops it again: what is left is the activation around it.
LEMMA RestoreStep ==
  ASSUME ActivationInv, stack # <<>>, pc # "scan", RestoreContext
  PROVE  /\ ContextOf(Tail(stack), default', depth', running') /\ FramesOf(Tail(stack), owed)
         /\ Tail(stack) \in Seq(Frame)
         /\ default' \in Status \cup {None} /\ depth' \in Nat /\ running' \subseteq Conditions
         /\ FrameOf(Top, owed)
<1>1. Acting = stack /\ Top = Head(stack)
  BY DEF Acting, Top
<1>2. /\ Top.outer \in Status \cup {None} /\ Tail(stack) \in Seq(Frame)
  BY TopTypes DEF ActivationInv
<1>3. ContextOf(Tail(stack), Top.outer, IF Top.kind = "signal" THEN depth - 1 ELSE depth,
                running \ {Top.kind})
  BY <1>1, PopContext DEF ActivationInv, ContextTyped
<1>4. default' = Top.outer /\ running' = running \ {Top.kind}
      /\ depth' = IF Top.kind = "signal" THEN depth - 1 ELSE depth
  BY DEF RestoreContext, Within
<1>5. depth' \in Nat
  BY <1>2, <1>3, <1>4, SignalsFinite DEF ContextOf
<1>6. FramesOf(Tail(stack), owed) /\ FrameOf(Top, owed)
  BY <1>1, PopFrames DEF ActivationInv, ContextTyped
<1> QED
  BY <1>2, <1>3, <1>4, <1>5, <1>6 DEF ActivationInv, ContextTyped
\* A step that leaves an action for the code it interrupted.
LEMMA LeaveStep ==
  ASSUME ActivationInv, stack # <<>>, pc # "scan", RestoreContext, UNCHANGED owed,
         stack' = Tail(stack), pc' \notin {"scan", "ended"},
         status' \in Status, shown' \in Status, pc' \in {"run", "poll", "look"} => status' = shown',
         flow' \in Flows
  PROVE  ActivationInv'
<1>1. Acting' = Tail(stack)
  BY DEF Acting
<1>2. ContextTyped'
  BY RestoreStep DEF ActivationInv, ContextTyped
<1>3. ContextOf(Tail(stack), default', depth', running') /\ FramesOf(Tail(stack), owed)
  BY RestoreStep
<1> QED
  BY <1>1, <1>2, <1>3 DEF ActivationInv

\* The end of the EXIT action is the end of the shell.
LEMMA EndStep ==
  ASSUME ActivationInv, stack # <<>>, pc # "scan", RestoreContext, Tail(stack) = <<>>,
         stack' = Tail(stack), pc' = "ended", status' \in Status, status' = owed',
         shown' \in Status, flow' \in Flows
  PROVE  ActivationInv'
<1>1. Acting' = Tail(stack)
  BY DEF Acting
<1>2. ContextTyped'
  BY RestoreStep DEF ActivationInv, ContextTyped
<1>3. ContextOf(Tail(stack), default', depth', running')
  BY RestoreStep
<1>4. FramesOf(stack', owed')
  BY DEF FramesOf
<1> QED
  BY <1>1, <1>2, <1>3, <1>4 DEF ActivationInv

LEMMA NextActivation == ASSUME ActivationInv, [Next]_vars PROVE ActivationInv'
<1> USE PendingTrapsAssumption DEF Status
<1>0. ContextTyped
  BY DEF ActivationInv
<1>1. CASE UNCHANGED <<stack, default, depth, running, status, shown, owed, flow, pc>>
  BY <1>1 DEF ActivationInv, ContextTyped, Acting, Top
<1>2. ASSUME NEW s \in Signal, raise(s) PROVE ActivationInv'
  BY <1>1, <1>2 DEF raise, context, history
<1>3. CASE UNCHANGED vars
  BY <1>1, <1>3 DEF vars
<1>4. ASSUME NEW s \in Signal, NEW a \in Action, TrapCommand(s, a) PROVE ActivationInv'
  BY <1>0, <1>4, QuietStep DEF TrapCommand, context, history, ContextTyped
<1>5. CASE SetSlot \/ SetTrapped \/ TrapPseudo
  BY <1>0, <1>5, QuietStep DEF SetSlot, SetTrapped, TrapPseudo, context, history, ContextTyped
<1>6. ASSUME NEW st \in Status, Command(st) PROVE ActivationInv'
  BY <1>0, <1>6, QuietStep DEF Command, context, ContextTyped
<1>7. CASE poll_interrupt
  <2>1. flow' \in Flows
    BY <1>0, <1>7 DEF poll_interrupt, Unwind, ContextTyped, Flows
  <2> QED
    BY <1>0, <1>7, <2>1, QuietStep DEF poll_interrupt, Unwind, context, history, ContextTyped,
       ActivationInv
<1>8. ASSUME Errexit \/ EndOfInput \/ Fails
             \/ \E operand \in Status \cup {None} : ExitCommand(operand)
      PROVE  ActivationInv'
  <2>1. /\ pc = "run" /\ pc' = "unwind" /\ UNCHANGED <<context, history, status, stack>>
        /\ \/ \E st \in Status \cup {None} : flow' = [kind |-> "exit", status |-> st]
           \/ flow' = [kind |-> "error", status |-> 1]
    BY <1>0, <1>8 DEF Errexit, EndOfInput, Fails, ExitCommand, Unwind, ContextTyped
  <2>2. flow' \in Flows
    BY <2>1 DEF Flows
  <2> QED
    BY <1>0, <2>1, <2>2, QuietStep DEF context, history, ContextTyped
<1>9. CASE recover_command_loop
  <2>1. flow.status \in Status /\ NoFlow \in Flows
    BY <1>0, <1>9 DEF recover_command_loop, ContextTyped, NoFlow, Flows
  <2> QED
    BY <1>0, <1>9, <2>1, QuietStep DEF recover_command_loop, context, ContextTyped
<1>10. CASE LookForSignals
  <2>1. CASE UNCHANGED stack
    <3>1. pending = 0
      <4> DEFINE f == NewFrame("signal", SavedStatus, None)
      <4>1. f \in Frame /\ Len(<<f>> \o stack) = Len(stack) + 1 /\ Len(stack) \in Nat
        BY <1>0, FrameTypes, PushFrame DEF SavedStatus, ContextTyped
      <4> HIDE DEF f
      <4>2. <<f>> \o stack # stack
        BY <4>1
      <4> QED
        BY <1>10, <2>1, <4>2 DEF LookForSignals, f
    <3> QED
      BY <1>0, <1>10, <3>1, QuietStep DEF LookForSignals, context, history, ContextTyped, ActivationInv
  <2>2. CASE ~UNCHANGED stack
    <3> DEFINE f == NewFrame("signal", SavedStatus, None)
    <3>1. stack' = <<f>> \o stack /\ pc' = "scan" /\ UNCHANGED <<context, history, status, flow>>
      BY <1>10, <2>2 DEF LookForSignals
    <3>2. f \in Frame /\ f.kind = "signal" /\ f.status = status /\ f.shown = shown
      BY <1>0, FrameTypes DEF SavedStatus, ContextTyped
    <3>3. pc = "look" /\ status = shown /\ Acting = stack
      BY <1>10 DEF LookForSignals, ActivationInv, Acting
    <3> HIDE DEF f
    <3>4. FramesOf(<<f>> \o stack, owed)
      BY <1>0, <3>2, <3>3, PushFrames DEF FrameOf, ActivationInv, ContextTyped
    <3>5. stack' \in Seq(Frame) /\ stack' # <<>> /\ Tail(stack') = stack /\ Head(stack') = f
      BY <1>0, <3>1, <3>2, PushFrame DEF ContextTyped
    <3>6. Acting' = stack
      BY <3>1, <3>5 DEF Acting
    <3> QED
      BY <1>0, <3>1, <3>2, <3>3, <3>4, <3>5, <3>6 DEF ActivationInv, ContextTyped, context, history, Top
  <2> QED
    BY <2>1, <2>2
<1>11. CASE ScanSignal
  <2> DEFINE f == [Top EXCEPT !.next = Top.next + 1]
  <2>1. /\ stack # <<>> /\ Top.kind = "signal" /\ status = Top.status /\ pc = "scan"
        /\ Top.next <= N
    BY <1>11 DEF ScanSignal, ActivationInv
  <2>2. Top \in Frame /\ Top.next \in 1 .. N + 1 /\ Tail(stack) \in Seq(Frame)
    BY <1>0, <2>1, TopTypes
  <2>3. /\ f \in Frame /\ f.kind = "signal" /\ f.status = Top.status /\ f.shown = Top.shown
    <3>1. Top.next + 1 \in 1 .. N + 1
      BY <2>1, <2>2
    <3> QED
      BY <1>0, <2>1, <2>2, <3>1, FrameTypes
  <2>4. FrameOf(Top, owed) /\ FramesOf(Tail(stack), owed)
    BY <1>0, <2>1, PopFrames DEF ActivationInv, ContextTyped, Top
  <2>5. FrameOf(f, owed)
    BY <2>1, <2>3, <2>4 DEF FrameOf
  <2>6. running' = running \cup ({f.kind} \cap Conditions) /\ f.kind \notin running
    BY <1>0, <1>11, <2>3 DEF ScanSignal, ContextTyped
  <2>7. CASE Enter(f, Top.status) /\ depth' = depth + 1
    BY <1>0, <1>11, <2>1, <2>3, <2>5, <2>6, <2>7, EnterStep DEF ScanSignal, ContextTyped
  <2>8. CASE stack' = <<f>> \o Tail(stack) /\ UNCHANGED <<pc, default, depth, shown>>
    <3> HIDE DEF f
    <3>1. stack' \in Seq(Frame) /\ stack' # <<>> /\ Tail(stack') = Tail(stack) /\ Head(stack') = f
      BY <2>2, <2>3, <2>8, PushFrame
    <3>2. FramesOf(stack', owed)
      BY <2>2, <2>3, <2>4, <2>5, <2>8, PushFrames
    <3>3. Acting' = Acting
      BY <2>1, <2>8, <3>1 DEF Acting
    <3> QED
      BY <1>0, <1>11, <2>1, <2>3, <2>8, <3>1, <3>2, <3>3
         DEF ScanSignal, ActivationInv, ContextTyped, Top
  <2> QED
    BY <1>11, <2>7, <2>8 DEF ScanSignal
<1>12. CASE ScanEnds
  <2>1. stack # <<>> /\ Top.kind = "signal" /\ status = Top.status /\ pc = "scan"
    BY <1>12 DEF ScanEnds, ActivationInv
  <2>2. Tail(stack) \in Seq(Frame) /\ Top.shown \in Status
    BY <1>0, <2>1, TopTypes
  <2>3. FramesOf(Tail(stack), owed) /\ Top.shown = Top.status
    BY <1>0, <2>1, PopFrames DEF ActivationInv, ContextTyped, Top, FrameOf
  <2>4. stack' = Tail(stack) /\ shown' = Top.shown /\ pc' = "run" /\ UNCHANGED <<context, owed, status, flow>>
    BY <1>12 DEF ScanEnds
  <2>5. Acting' = Acting
    BY <2>1, <2>4 DEF Acting
  <2> QED
    BY <1>0, <2>1, <2>2, <2>3, <2>4, <2>5 DEF ActivationInv, ContextTyped, context
<1>13. ASSUME NEW c \in Conditions, dispatch(c) PROVE ActivationInv'
  <2> DEFINE f == NewFrame(c, status, None)
  <2>1. f \in Frame /\ f.kind = c /\ f.status = status /\ f.shown = shown
    BY <1>0, FrameTypes DEF ContextTyped
  <2>2. pc = "run" /\ status = shown /\ c \notin running /\ c # "EXIT" /\ c # "signal"
    BY <1>13 DEF dispatch, ActivationInv
  <2>3. FrameOf(f, owed)
    BY <2>1, <2>2 DEF FrameOf
  <2> HIDE DEF f
  <2> QED
    BY <1>0, <1>13, <2>1, <2>2, <2>3, EnterStep DEF dispatch, ContextTyped, f
<1>14. CASE exit_shell
  <2> DEFINE st == IF flow.status # None THEN flow.status ELSE status
             ex == IF flow.kind = "exit" THEN flow.status ELSE None
             f  == NewFrame("EXIT", st, ex)
  <2>1. st \in Status /\ ex \in Status \cup {None} /\ (ex = None \/ ex = st)
    BY <1>0 DEF ContextTyped, Flows
  <2>2. f \in Frame /\ f.kind = "EXIT" /\ f.status = st /\ f.explicit = ex
    BY <1>0, <2>1, FrameTypes
  <2>3. /\ status' = st /\ owed' = st /\ flow' = NoFlow /\ pc = "unwind" /\ stack = <<>>
        /\ UNCHANGED <<depth, running>>
    BY <1>14 DEF exit_shell
  <2>4. FrameOf(f, owed') /\ "EXIT" \notin running
    BY <1>0, <2>1, <2>2, <2>3 DEF FrameOf, ContextTyped
  <2>5. NoFlow \in Flows
    BY DEF NoFlow, Flows
  <2>6. CASE Enter(f, st)
    <3> HIDE DEF f, st, ex
    <3>1. running' = running \cup ({f.kind} \cap Conditions) /\ depth' = depth
      BY <2>2, <2>3
    <3> QED
      BY <2>1, <2>2, <2>3, <2>4, <2>5, <2>6, <3>1, EnterStep
  <2>7. CASE pc' = "ended" /\ UNCHANGED <<stack, default, shown>>
    <3> HIDE DEF f, st, ex
    <3>1. Acting' = Acting /\ FramesOf(<<>>, owed')
      BY <2>3, <2>7 DEF Acting, FramesOf
    <3> QED
      BY <1>0, <2>1, <2>3, <2>5, <2>7, <3>1 DEF ActivationInv, ContextTyped
  <2> QED
    BY <1>14, <2>6, <2>7 DEF exit_shell
<1>15. CASE SignalActionDone
  <2>1. stack # <<>> /\ Top.kind = "signal" /\ pc = "run" /\ RestoreContext /\ pc' = "scan"
        /\ status' = Top.status /\ UNCHANGED <<history, stack, flow>>
    BY <1>15 DEF SignalActionDone, Within, PutBack
  <2>2. Acting' = Tail(stack) /\ Top' = Top
    BY <2>1 DEF Acting, Top
  <2>3. Top.status \in Status
    BY <1>0, <2>1, TopTypes
  <2>4. /\ ContextOf(Tail(stack), default', depth', running')
        /\ default' \in Status \cup {None} /\ depth' \in Nat /\ running' \subseteq Conditions
    BY <2>1, RestoreStep
  <2> QED
    BY <1>0, <2>1, <2>2, <2>3, <2>4 DEF ActivationInv, ContextTyped, history
<1>16. ASSUME NEW explicit \in BOOLEAN, SignalActionLeaves(explicit) PROVE ActivationInv'
  <2>1. stack # <<>> /\ Top.kind = "signal" /\ pc = "run" /\ pc' = "run" /\ RestoreContext
        /\ status' = (IF explicit THEN status ELSE Top.status)
        /\ shown' = (IF explicit THEN status ELSE Top.shown)
        /\ stack' = Tail(stack) /\ UNCHANGED <<owed, flow>>
    BY <1>16 DEF SignalActionLeaves, Within, PutBack
  <2>2. Top.status \in Status /\ Top.shown = Top.status
    BY <1>0, <2>1, TopTypes, RestoreStep DEF FrameOf
  <2> QED
    BY <1>0, <2>1, <2>2, LeaveStep DEF ContextTyped
<1>17. CASE PseudoActionDone
  <2>1. stack # <<>> /\ Top.kind \in Conditions /\ pc = "run" /\ pc' = "run" /\ RestoreContext
        /\ status' = Top.status /\ shown' = Top.shown
        /\ stack' = Tail(stack) /\ UNCHANGED <<owed, flow>>
    BY <1>17 DEF PseudoActionDone, PutBack
  <2>2. Top.status \in Status /\ Top.shown = Top.status
    BY <1>0, <2>1, TopTypes, RestoreStep DEF FrameOf
  <2> QED
    BY <1>0, <2>1, <2>2, LeaveStep DEF ContextTyped
<1>18. CASE ActionUnwinds
  BY <1>0, <1>18, LeaveStep DEF ActionUnwinds, history, ContextTyped
<1>19. CASE ExitActionDone \/ ExitActionUnwinds
  <2>1. stack # <<>> /\ Top.kind = "EXIT" /\ pc \in {"run", "unwind"} /\ pc' = "ended"
        /\ RestoreContext /\ stack' = Tail(stack) /\ UNCHANGED shown
    BY <1>19 DEF ExitActionDone, ExitActionUnwinds, Within, history
  <2>2. Top.status \in Status /\ Top.explicit \in Status \cup {None}
    BY <1>0, <2>1, TopTypes
  <2>3. FrameOf(Top, owed) /\ Tail(stack) = <<>>
    BY <1>0, <2>1, PopFrames DEF ActivationInv, ContextTyped, Top
  <2>4. (flow.kind = "error" => flow.status \in Status) /\ flow.status \in Status \cup {None}
        /\ NoFlow \in Flows
    BY <1>0 DEF ContextTyped, NoFlow, Flows
  <2>5. CASE ExitActionDone
    <3>1. status' = owed /\ status' \in Status /\ UNCHANGED <<owed, flow>>
      BY <2>1, <2>2, <2>3, <2>5 DEF ExitActionDone, ExitStatusRestored, FrameOf, history
    <3> QED
      BY <1>0, <2>1, <2>3, <3>1, EndStep DEF ContextTyped
  <2>6. CASE ExitActionUnwinds
    <3>1. status' = owed' /\ status' \in Status /\ flow' = NoFlow
      BY <1>0, <2>2, <2>4, <2>6 DEF ExitActionUnwinds, ContextTyped
    <3> QED
      BY <1>0, <2>1, <2>3, <2>4, <3>1, EndStep DEF ContextTyped
  <2> QED
    BY <1>19, <2>5, <2>6
<1> QED
  BY <1>2, <1>3, <1>4, <1>5, <1>6, <1>7, <1>8, <1>9, <1>10, <1>11, <1>12, <1>13, <1>14, <1>15,
     <1>16, <1>17, <1>18, <1>19 DEF Next, Shell
LEMMA ActivationsHold == Spec => []ActivationInv
<1>1. ASSUME Init PROVE ActivationInv
  <2>1. stack = <<>> /\ default = None /\ depth = 0 /\ running = {} /\ pc = "run" /\ status = 0
        /\ shown = 0 /\ owed = None /\ flow = NoFlow
    BY <1>1 DEF Init
  <2>2. Signals(<<>>) = {} /\ Cardinality(Signals(<<>>)) = 0
    BY FS_EmptySet DEF Signals
  <2>3. ContextOf(<<>>, None, 0, {}) /\ FramesOf(<<>>, None)
    BY <2>2 DEF ContextOf, FramesOf
  <2>4. Acting = <<>>
    BY <2>1 DEF Acting
  <2>5. ContextTyped
    BY <2>1 DEF ContextTyped, NoFlow, Flows, Status
  <2> QED
    BY <2>1, <2>3, <2>4, <2>5 DEF ActivationInv
<1>2. ActivationInv /\ [Next]_vars => ActivationInv'
  BY NextActivation
<1> QED
  BY <1>1, <1>2, PTL DEF Spec

\* For any number of signals and any nesting, and however the actions end:
\* signal_trap_depth counts the signal actions running, the status `exit' falls
\* back on is the one the innermost action interrupted, and a pseudo-trap runs
\* once at a time.
THEOREM ContextIsKept == Spec => []ContextIsInnermost
<1>1. ActivationInv => ContextIsInnermost
  BY DEF ActivationInv, ContextOf, ContextIsInnermost, Signals
<1> QED
  BY <1>1, ActivationsHold, PTL

\* `$?' survives every action that runs between two commands, and the shell ends
\* with the status it owes, for any number of signals, pseudo-traps and nested
\* actions.
THEOREM StatusIsKept == Spec => []TrapsKeepStatus
<1>1. ActivationInv => TrapsKeepStatus
  BY DEF ActivationInv, TrapsKeepStatus
<1> QED
  BY <1>1, ActivationsHold, PTL
=============================================================================
