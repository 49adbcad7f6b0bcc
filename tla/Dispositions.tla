---------------------------- MODULE Dispositions ----------------------------
(***************************************************************************)
(* Trap actions and signal dispositions: TrapTable and                     *)
(* configure_signal_via of crates/nsh/src/trap.rs, the `trap' built-in, and *)
(* what a forked child does with both (jobs/fork.rs, lifecycle.rs).        *)
(*                                                                         *)
(* One lineage of processes is followed: after a fork the state is the     *)
(* child's, because everything it has is a copy of its parent's.           *)
(*                                                                         *)
(* A trap command's text is left out: an action is Default, Ignore or      *)
(* Command.  Slot 0 is "EXIT".  TSTP stands for the terminal's stop        *)
(* signals TSTP and TTOU, which are configured together.                   *)
(***************************************************************************)
EXTENDS Integers, FiniteSets

CONSTANTS
  MaxLevel,     \* bound: how deeply the followed process is nested
  MaxTraps,     \* bound: how many trap commands it runs
  Interactive,  \* shell.options.enabled(Interactive), fixed at startup
  CatchesInt,   \* command_source, or standard input is not the script
  Modes,        \* the ForkModes used
  Refusals,     \* may the host or the platform refuse a query or an install
  NoListing

\* The signals of the terminal that an asynchronous list ignores.
Terminal == {"INT", "QUIT"}
Sig  == {"INT", "QUIT", "TERM", "CHLD", "TSTP", "USR"}
Slot == Sig \cup {"EXIT"}
ForkMode == {"Foreground", "Background", "WithoutJob"}

ASSUME DispositionsAssumption ==
  /\ MaxLevel \in Nat /\ MaxTraps \in Nat
  /\ Interactive \in BOOLEAN /\ CatchesInt \in BOOLEAN /\ Refusals \in BOOLEAN
  /\ Modes \subseteq ForkMode
  /\ NoListing \notin [Slot -> {"Default", "Ignore", "Command"}]

VARIABLES
  ignored,       \* the signals ignored when the shell was started
  os,            \* the disposition the kernel holds
  disp,          \* shell.traps.dispositions
  action,        \* shell.traps.action
  listing,       \* shell.traps.subshell_listing
  parentPending, \* shell.traps.parent_traps_pending
  trapCount,     \* shell.traps.trap_count
  monitor,       \* shell.options.enabled(Monitor)
  jobControl,    \* shell.jobs.job_control
  level,         \* shell.shell_level
  role,          \* how this process came to be; "list" if it is part of an
                 \* asynchronous list without job control that the shell started,
                 \* "nested" if of one that a child of the shell started
  owed,          \* history: the signals a list has to ignore, until a trap
                 \* command names them
  traps          \* how many trap commands were run

dvars == <<ignored, os, disp, action, listing, parentPending, trapCount, monitor,
           jobControl, level, role, owed, traps>>

Action      == {"Default", "Ignore", "Command"}
Disposition == {"Default", "Ignore", "Catch"}
\* Installed(d) is written d; InheritedIgnore is computed and never stored.
DispositionState == Disposition \cup {"Unknown", "ResetRequired"}

DTypeOK ==
  /\ ignored \subseteq Sig
  /\ os \in [Sig -> Disposition]
  /\ disp \in [Sig -> DispositionState]
  /\ action \in [Slot -> Action]
  /\ listing \in [Slot -> Action] \cup {NoListing}
  /\ parentPending \in BOOLEAN
  /\ trapCount \in Nat
  /\ monitor \in BOOLEAN
  /\ jobControl \in BOOLEAN
  /\ level \in Nat
  /\ role \in {"startup", "root", "subshell", "list", "nested"}
  /\ owed \subseteq Terminal
  /\ traps \in Nat

-----------------------------------------------------------------------------
(* configure_signal_via, on the pair of the cache and the kernel for one   *)
(* signal.  `refuse' says whether a query or an install fails.             *)

\* What the shell wants installed, given the action, the level and set -m.
desired(s, a, lvl, mon) ==
  IF s = "CHLD" \/ a = "Command" THEN "Catch"
  ELSE IF a = "Ignore" THEN "Ignore"
  ELSE IF lvl # 0 THEN "Default"
  ELSE CASE s = "INT" /\ (Interactive \/ CatchesInt) -> "Catch"
         [] s \in {"QUIT", "TERM"} /\ Interactive    -> "Ignore"
         [] s = "TSTP" /\ mon                        -> "Ignore"
         [] OTHER -> "Default"

\* Mutant: every ignored signal is taken for one that was ignored on entry.
ProbedEachTime(s, c, mon) ==
  IF c.os = "Ignore" /\ ~(s = "TSTP" /\ mon) THEN "InheritedIgnore"
  ELSE IF c.disp # "Unknown" THEN c.disp ELSE "ResetRequired"

\* Mutant: the inherited disposition is not looked at.
ProbedNever(s, c, mon) == IF c.disp = "Unknown" THEN "ResetRequired" ELSE c.disp

\* The state after the inherited disposition has been looked at.
Probed(s, c, mon) ==
  IF c.disp # "Unknown" THEN c.disp
  ELSE IF c.os # "Ignore" THEN "ResetRequired"
  ELSE IF s = "TSTP" /\ mon THEN "Ignore"
  ELSE "InheritedIgnore"

\* Mutant: a refused install is cached as done.
ConfigureTrusting(s, c, a, lvl, mon, refuse) ==
  LET want  == desired(s, a, lvl, mon)
      state == Probed(s, c, mon)
  IN IF \/ c.disp = "Unknown" /\ refuse = "query"
        \/ state \in {"InheritedIgnore", want}
     THEN c
     ELSE [disp |-> want, os |-> IF refuse = "install" THEN c.os ELSE want]

configure_signal(s, c, a, lvl, mon, refuse) ==
  LET want  == desired(s, a, lvl, mon)
      state == Probed(s, c, mon)
  IN IF \/ c.disp = "Unknown" /\ refuse = "query"
        \/ state \in {"InheritedIgnore", want}
     THEN c
     ELSE IF refuse = "install" THEN [c EXCEPT !.disp = "ResetRequired"]
     ELSE [disp |-> want, os |-> want]

\* Mutant: only a caught signal is set to be ignored.
IgnoreCaughtOnly(c, refuse) ==
  IF c.disp # "Catch" THEN c
  ELSE IF refuse = "install" THEN [c EXCEPT !.disp = "ResetRequired"]
  ELSE [disp |-> "Ignore", os |-> "Ignore"]

ignore_signal_in_child(c, refuse) ==
  IF c.disp \in {"Ignore", "InheritedIgnore"} THEN c
  ELSE IF refuse = "install" THEN [c EXCEPT !.disp = "ResetRequired"]
  ELSE [disp |-> "Ignore", os |-> "Ignore"]

InList == role \in {"list", "nested"}

Cell(s) == [disp |-> disp[s], os |-> os[s]]

\* Signals are configured independently of each other, so one answer for all
\* the calls of a step loses no behaviour of a single signal.
Refuse == IF Refusals THEN {"no", "query", "install"} ELSE {"no"}

SetCells(c) ==
  /\ disp' = [s \in Sig |-> c[s].disp]
  /\ os' = [s \in Sig |-> c[s].os]

\* configure_signal for each signal of S, with the actions acts.
Configured(S, acts, lvl, mon, r) ==
  [s \in Sig |-> IF s \in S THEN configure_signal(s, Cell(s), acts[s], lvl, mon, r)
                 ELSE Cell(s)]

-----------------------------------------------------------------------------
CommandSlots(acts) == {s \in Slot : acts[s] = "Command"}

\* A new shell: initialize_trap_state declares SIGCHLD's disposition known and
\* installs the handler.
DInit ==
  /\ ignored \in SUBSET Sig
  /\ action = [s \in Slot |-> "Default"]
  /\ \E refused \in IF Refusals THEN BOOLEAN ELSE {FALSE} :
       /\ os = [s \in Sig |-> IF s = "CHLD" /\ ~refused THEN "Catch"
                              ELSE IF s \in ignored THEN "Ignore" ELSE "Default"]
       /\ disp = [s \in Sig |-> IF s # "CHLD" THEN "Unknown"
                                ELSE IF refused THEN "ResetRequired" ELSE "Catch"]
  /\ listing = NoListing /\ parentPending = FALSE /\ trapCount = 0
  /\ monitor = FALSE /\ jobControl = FALSE
  /\ level = 0 /\ role = "startup" /\ owed = {} /\ traps = 0

\* configure_startup: apply_option_changes, then refresh_startup_signal_policy.
Startup ==
  /\ role = "startup"
  /\ \E r \in Refuse : SetCells(Configured({"INT", "QUIT", "TERM"}, action, 0, monitor, r))
  /\ role' = "root"
  /\ UNCHANGED <<ignored, action, listing, parentPending, trapCount, monitor, jobControl,
                 level, owed, traps>>

\* set -m and set +m, through apply_option_changes and set_job_control.  A child
\* only changes its option, and so does a shell whose host grants no terminal;
\* an interactive one that cannot get at the terminal clears the option again.
\* The process group may be refused after the signals have been configured.
SetMonitor(on, accessible) ==
  /\ role # "startup"
  /\ \/ /\ level # 0 \/ on = jobControl \/ (on /\ ~accessible)
        /\ monitor' = on
        /\ UNCHANGED <<jobControl, disp, os>>
     \/ /\ level = 0 /\ on # jobControl /\ on /\ ~accessible /\ Interactive
        /\ monitor' = FALSE
        /\ UNCHANGED <<jobControl, disp, os>>
     \/ /\ level = 0 /\ on # jobControl /\ (on => accessible \/ ~Interactive)
        /\ monitor' = on /\ jobControl' \in {on, jobControl}
        /\ \E r \in Refuse : SetCells(Configured({"TSTP"}, action, 0, on, r))
  /\ UNCHANGED <<ignored, action, listing, parentPending, trapCount, level, role, owed, traps>>

\* clear_traps(None): every executable action goes back to Default.
ClearedActions == [s \in Slot |-> IF action[s] = "Command" THEN "Default" ELSE action[s]]

\* The actions a trap command starts from: with parent_traps_pending the clear
\* that a lone `trap' postponed is completed first.
ActionsBefore == IF parentPending THEN ClearedActions ELSE action

Bit(x) == IF x = "Command" THEN 1 ELSE 0

\* Mutant: replacing an action does not uncount it.
CountOnlyUp(count, a, was) == count + Bit(a)

NewCount(count, a, was) == count + Bit(a) - Bit(was)

\* trap ACTION CONDITION: end the inherited listing, drop what an earlier
\* partial clear left, then replace one slot and reconfigure its signal.
TrapCommand(s, a) ==
  LET before == ActionsBefore
  IN /\ role # "startup" /\ traps < MaxTraps
     /\ traps' = traps + 1
     /\ listing' = NoListing /\ parentPending' = FALSE
     /\ trapCount' = NewCount(IF parentPending THEN 0 ELSE trapCount, a, before[s])
     /\ action' = [before EXCEPT ![s] = a]
     /\ owed' = owed \ {s}
     /\ \E r \in Refuse :
          SetCells(LET cleared == IF parentPending
                                  THEN Configured(CommandSlots(action) \ {"EXIT"}, before, level, monitor, r)
                                  ELSE Configured({}, before, level, monitor, r)
                   IN [t \in Sig |-> IF t = s
                                     THEN configure_signal(t, cleared[t], a, level, monitor, r)
                                     ELSE cleared[t]])
     /\ UNCHANGED <<ignored, monitor, jobControl, level, role>>

\* begin_subshell_listing: an inherited listing outlives a nested subshell.
InheritListing == listing' = IF listing = NoListing THEN action ELSE listing

\* initialize_child_process.  `simple' is is_simple_command(node, "trap"), which
\* is asked only for a child without a job.
Fork(mode, simple) ==
  LET partial  == simple /\ mode = "WithoutJob"
      controls == mode # "WithoutJob" /\ level = 0 /\ jobControl
      async    == mode = "Background" /\ ~controls
      lvl      == level + 1
      \* clear_traps configures each cleared slot, then puts the action back
      \* if the child is to run a lone `trap' command.
      cleared(r)  == Configured(CommandSlots(action) \ {"EXIT"}, ClearedActions, lvl, monitor, r)
      acts        == IF partial THEN action ELSE ClearedActions
      grouped(c, r) == [s \in Sig |->
        IF controls /\ s = "TSTP" THEN configure_signal(s, c[s], acts[s], lvl, monitor, r)
        ELSE IF async /\ s \in Terminal THEN ignore_signal_in_child(c[s], r)
        ELSE c[s]]
      interactive(c, r) == [s \in Sig |->
        IF level = 0 /\ Interactive /\ s \in {"INT", "QUIT", "TERM"}
        THEN configure_signal(s, c[s], acts[s], lvl, monitor, r) ELSE c[s]]
  IN /\ role # "startup" /\ level < MaxLevel
     /\ level' = lvl
     /\ InheritListing
     /\ action' = acts /\ trapCount' = 0 /\ parentPending' = partial
     /\ \E r \in Refuse : SetCells(interactive(grouped(cleared(r), r), r))
     /\ jobControl' = FALSE
     /\ role' = IF async THEN IF level = 0 THEN "list" ELSE "nested"
                ELSE IF InList THEN role ELSE "subshell"
     /\ owed' = IF async THEN Terminal ELSE owed
     /\ UNCHANGED <<ignored, monitor, traps>>

\* evaluate_subshell's shortcut: with no traps (has_traps) the last command of
\* an exiting shell runs its subshell in this process.  (A child forked for a lone
\* `trap' command has no such command; the substitutions in its words fork.)
SubshellInPlace ==
  /\ role # "startup" /\ ~parentPending /\ trapCount = 0
  /\ InheritListing
  /\ action' = ClearedActions /\ trapCount' = 0 /\ parentPending' = FALSE
  /\ \E r \in Refuse :
       SetCells(Configured(CommandSlots(action) \ {"EXIT"}, ClearedActions, level, monitor, r))
  /\ UNCHANGED <<ignored, monitor, jobControl, level, role, owed, traps>>

DNext ==
  \/ Startup
  \/ \E on, accessible \in BOOLEAN : SetMonitor(on, accessible)
  \/ \E s \in Slot, a \in Action : TrapCommand(s, a)
  \/ \E mode \in Modes, simple \in BOOLEAN : Fork(mode, simple)
  \/ SubshellInPlace

DSpec == DInit /\ [][DNext]_dvars

-----------------------------------------------------------------------------
(* Properties.                                                             *)

\* The disposition cache never lies: what it says is installed is installed,
\* however often the host refused and however many forks lie in between.  A
\* stale entry would make configure_signal skip an install that is needed.
CacheIsTruth == \A s \in Sig : disp[s] \in Disposition => os[s] = disp[s]

\* A trap that `trap' accepted is caught, unless the signal was ignored on entry
\* or the host refused (and the cache remembers to try again).
TrapIsInstalled ==
  \A s \in Sig : action[s] = "Command" /\ ~parentPending =>
    \/ os[s] = "Catch"
    \/ s \in ignored
    \/ disp[s] \in {"Unknown", "ResetRequired"}

\* has_traps is exact: trap_count counts the executable actions, so the no-fork
\* subshell is taken only when there is no trap to protect.
CountIsExact == ~parentPending => trapCount = Cardinality(CommandSlots(action))

\* POSIX, trap (posix/docs/spec/builtins-set-trap.md): "Signals that were ignored
\* on entry to a non-interactive shell cannot be trapped or reset" (the terminal's
\* stop signals under set -m aside), through any nesting of subshells.
OnEntryStaysIgnored == \A s \in ignored \ {"CHLD", "TSTP"} : os[s] = "Ignore"

\* The code keeps even an interactive shell to it, but for asynchronous lists:
\* there ignore_signal_in_child caches an inherited ignore as the shell's own, and
\* `trap' replaces it.
IgnoredOnEntryStays == ~InList => OnEntryStaysIgnored

\* s is ignored here, or its install was refused and the cache knows.
IgnoredHere(s) == os[s] = "Ignore" \/ disp[s] = "ResetRequired"

\* POSIX 2.12 (posix/docs/spec/execution.md): with job control disabled the
\* commands of an asynchronous list inherit a signal action of ignored for SIGINT
\* and SIGQUIT.  Here for every process of a list, through what its subshells
\* clear, set and configure, until a trap command names the signal.
ListsIgnore == \A s \in owed : IgnoredHere(s)

\* What the code keeps: only the lists that an interactive shell starts itself are
\* excepted, where initialize_child_process configures both signals once more;
\* those of its children, and all of a script's, ignore them.
AsyncListIgnores == (Interactive /\ role = "list") \/ ListsIgnore
=============================================================================
