---------------------------- MODULE PendingTraps ----------------------------
(***************************************************************************)
(* The signal inbox (crates/nsh/src/signal_inbox.rs) between its two users: *)
(* the handler, which may run between any two steps of the shell, and the   *)
(* shell, which changes traps (builtins/trap.rs), runs the actions of       *)
(* caught signals at command boundaries (trap.rs, run_pending_traps), the   *)
(* Bash pseudo-traps (trap/bash.rs, dispatch) and the EXIT action           *)
(* (exit_shell).                                                            *)
(*                                                                         *)
(* Actions nest: an action is itself made of commands, so a signal can      *)
(* interrupt the action of another, of a pseudo-trap or of EXIT.  What a    *)
(* command does is reduced to the status it leaves and the control flow it  *)
(* ends its action with.  SIGCHLD's own flag is in module ChildWait, the    *)
(* kernel's dispositions are in module Dispositions; here a signal reaches  *)
(* the handler when the two agree that it is caught.                        *)
(***************************************************************************)
EXTENDS Integers, Sequences, FiniteSets

CONSTANTS
  N,          \* the signals are 1 .. N, scanned in this order
  INT,        \* SIGINT, or 0 when the instance leaves it out
  Interactive,\* an interactive root shell
  Conditions, \* the Bash pseudo-conditions in use
  Outcomes,   \* how a command may end the action it is part of, "done" apart:
              \* "return", "break", "exit", "end" (errexit), "error"
  MaxRaise,   \* bound: how many signals arrive
  None

ASSUME PendingTrapsAssumption ==
  /\ N \in Nat /\ INT \in 0 .. N /\ Interactive \in BOOLEAN /\ MaxRaise \in Nat
  /\ Outcomes \subseteq {"return", "break", "exit", "end", "error"}
  /\ Conditions \subseteq {"DEBUG", "ERR", "RETURN"}
  /\ None \notin Nat

Signal == 1 .. N
Status == 0 .. 1
Action == {"Default", "Ignore", "Command"}

\* An activation on the Rust stack: run_pending_traps ("signal"), dispatch (the
\* condition) or exit_shell ("EXIT").  status is the status it saved, outer the
\* outer_trap_status it puts back, next the slot the scan visits next, explicit
\* the status exit_shell was called with; shown is history, see below.
Frame == [kind : {"signal", "EXIT"} \cup Conditions, status : Status,
          outer : Status \cup {None}, next : 1 .. N + 1, explicit : Status \cup {None},
          shown : Status]

VARIABLES
  action,      \* shell.traps.action, slots 1 .. N
  trapped,     \* the inbox's mirror of it
  exitAction,  \* slot 0: is there an EXIT action
  bashAction,  \* the conditions with an action
  running,     \* shell.traps.bash.running
  blocked,     \* a SignalsBlocked guard is held
  caught,      \* the inbox: signals awaiting their action
  pending,     \* the inbox: the last of them, or 0
  intPending,  \* the inbox: an untrapped SIGINT
  status,      \* shell.status
  default,     \* shell.evaluation.trap_default_exit_status
  depth,       \* shell.evaluation.signal_trap_depth
  stack,       \* the activations, innermost first
  pc,          \* where the shell is
  arg,         \* the signal and action of the trap command being executed
  flow,        \* what unwinds: [kind, status]
  raised,      \* how many signals have arrived
  shown,       \* history: what the last command left in this activation, which is
               \* what `$?' has to be there
  owed         \* history: the status the shell owes to its parent

inbox == <<caught, pending, intPending, raised>>
traps == <<action, trapped, exitAction, bashAction, blocked, arg>>
context == <<default, depth, running>>
history == <<shown, owed>>
vars == <<action, trapped, exitAction, bashAction, running, blocked, caught, pending,
          intPending, status, default, depth, stack, pc, arg, flow, raised, shown, owed>>

NoFlow == [kind |-> "none", status |-> None]
Top    == Head(stack)
Within(kind) == stack # <<>> /\ Top.kind = kind

TypeOK ==
  /\ action \in [Signal -> Action]
  /\ trapped \in [Signal -> BOOLEAN]
  /\ exitAction \in BOOLEAN /\ bashAction \subseteq Conditions /\ running \subseteq Conditions
  /\ blocked \in BOOLEAN
  /\ caught \subseteq Signal /\ pending \in 0 .. N /\ intPending \in BOOLEAN
  /\ status \in Status /\ default \in Status \cup {None} /\ depth \in Nat
  /\ stack \in Seq(Frame)
  /\ pc \in {"run", "slot", "mirror", "poll", "look", "scan", "unwind", "ended"}
  /\ arg \in (Signal \X Action) \cup {None}
  /\ flow \in [kind : {"none", "exit", "error"}, status : Status \cup {None}]
  /\ raised \in 0 .. MaxRaise
  /\ shown \in Status /\ owed \in Status \cup {None}

Init ==
  /\ action = [s \in Signal |-> "Default"] /\ trapped = [s \in Signal |-> FALSE]
  /\ exitAction = FALSE /\ bashAction = {} /\ running = {} /\ blocked = FALSE
  /\ caught = {} /\ pending = 0 /\ intPending = FALSE /\ raised = 0
  /\ status = 0 /\ default = None /\ depth = 0
  /\ stack = <<>> /\ pc = "run" /\ arg = None /\ flow = NoFlow
  /\ shown = 0 /\ owed = None

-----------------------------------------------------------------------------
(* The handler.                                                            *)

\* mark_signal_pending and raise, in one step: the handler runs on the shell's
\* thread with every signal masked.  A signal has a handler when its trap is a
\* command, and SIGINT in an interactive shell also without one.
raise(s) ==
  /\ raised < MaxRaise /\ ~blocked /\ pc # "ended"
  /\ action[s] = "Command" \/ (s = INT /\ Interactive /\ action[s] = "Default")
  /\ caught' = caught \cup {s}
  /\ pending' = s
  /\ intPending' = (intPending \/ (s = INT /\ ~trapped[s]))
  /\ raised' = raised + 1
  /\ UNCHANGED <<traps, context, history, status, stack, pc, flow>>

-----------------------------------------------------------------------------
(* The trap command: slot and mirror are two stores under one guard.       *)

\* Mutant: the guard blocks nothing.
NothingBlocked == UNCHANGED blocked

SignalsBlocked == blocked' = TRUE

TrapCommand(s, a) ==
  /\ pc = "run"
  /\ SignalsBlocked
  /\ arg' = <<s, a>> /\ pc' = "slot"
  /\ UNCHANGED <<action, trapped, exitAction, bashAction, inbox, context, history, status,
                 stack, flow>>

SetSlot ==
  /\ pc = "slot"
  /\ action' = [action EXCEPT ![arg[1]] = arg[2]]
  /\ pc' = "mirror"
  /\ UNCHANGED <<trapped, exitAction, bashAction, blocked, arg, inbox, context, history,
                 status, stack, flow>>

\* set_trapped, configure_signal and the guard's drop; then the command is over.
SetTrapped ==
  /\ pc = "mirror"
  /\ trapped' = [trapped EXCEPT ![arg[1]] = action[arg[1]] # "Default"]
  /\ blocked' = FALSE /\ arg' = None /\ pc' = "poll"
  /\ status' = 0 /\ shown' = 0
  /\ UNCHANGED <<action, exitAction, bashAction, inbox, context, stack, flow, owed>>

\* trap ... EXIT and trap ... DEBUG: no handler reads these slots.
TrapPseudo ==
  /\ pc = "run"
  /\ \/ exitAction' \in BOOLEAN /\ UNCHANGED bashAction
     \/ bashAction' \in SUBSET Conditions /\ UNCHANGED exitAction
  /\ status' = 0 /\ shown' = 0
  /\ pc' = "poll"
  /\ UNCHANGED <<action, trapped, blocked, arg, inbox, context, owed, stack, flow>>

\* Any other command leaves a status; evaluate_tree then looks for signals.
Command(st) ==
  /\ pc = "run"
  /\ status' = st /\ shown' = st
  /\ pc' = "poll"
  /\ UNCHANGED <<traps, inbox, context, owed, stack, flow>>

-----------------------------------------------------------------------------
(* run_pending_traps.                                                      *)

Unwind(kind, st) == flow' = [kind |-> kind, status |-> st] /\ pc' = "unwind"

\* poll_interrupt takes delivery of an untrapped SIGINT, and evaluation ends.
poll_interrupt ==
  /\ pc = "poll"
  /\ IF intPending THEN Unwind("error", 1) /\ intPending' = FALSE
     ELSE pc' = "look" /\ UNCHANGED <<flow, intPending>>
  /\ UNCHANGED <<caught, pending, raised, traps, context, history, status, stack>>

\* Mutant: a signal inside an action reuses the status the action was entered with.
OuterStatus == IF default = None THEN status ELSE default

\* Each invocation owns the status it interrupted.
SavedStatus == status

NewFrame(kind, st, explicit) ==
  [kind |-> kind, status |-> st, outer |-> None, next |-> 1, explicit |-> explicit,
   shown |-> shown]

\* Nothing pending: return.  Otherwise pending is cleared before the scan.
LookForSignals ==
  /\ pc = "look"
  /\ IF pending = 0 THEN pc' = "run" /\ UNCHANGED <<pending, stack>>
     ELSE /\ pending' = 0
          /\ stack' = <<NewFrame("signal", SavedStatus, None)>> \o stack
          /\ pc' = "scan"
  /\ UNCHANGED <<caught, intPending, raised, traps, context, history, status, flow>>

Enter(frame, st) ==
  /\ stack' = <<[frame EXCEPT !.outer = default]>> \o (IF pc = "scan" THEN Tail(stack) ELSE stack)
  /\ default' = st /\ shown' = st /\ pc' = "poll"

\* One iteration of the scan: the flag is cleared before the action is copied
\* out and run; an ignored or reset signal is dropped.
ScanSignal ==
  /\ pc = "scan" /\ Top.next <= N
  /\ LET s == Top.next
         f == [Top EXCEPT !.next = s + 1]
     IN /\ caught' = caught \ {s}
        /\ IF s \in caught /\ action[s] = "Command"
           THEN Enter(f, Top.status) /\ depth' = depth + 1
           ELSE stack' = <<f>> \o Tail(stack) /\ UNCHANGED <<pc, default, depth, shown>>
  /\ UNCHANGED <<pending, intPending, raised, traps, running, owed, status, flow>>

\* Mutant: pending is cleared after the scan and not before it only.
ScanEndsClears ==
  /\ pc = "scan" /\ Top.next > N
  /\ stack' = Tail(stack) /\ shown' = Top.shown /\ pc' = "run" /\ pending' = 0
  /\ UNCHANGED <<traps, caught, intPending, raised, context, owed, status, flow>>

ScanEnds ==
  /\ pc = "scan" /\ Top.next > N
  /\ stack' = Tail(stack) /\ shown' = Top.shown /\ pc' = "run"
  /\ UNCHANGED <<traps, inbox, context, owed, status, flow>>

-----------------------------------------------------------------------------
(* The pseudo-traps and the end of the shell.                              *)

\* dispatch: not while the condition's own action runs.
dispatch(c) ==
  /\ pc = "run" /\ c \in bashAction \ running
  /\ Enter(NewFrame(c, status, None), status)
  /\ running' = running \cup {c}
  /\ UNCHANGED <<traps, inbox, depth, owed, status, flow>>

\* The exit built-in: without an operand it takes the status that preceded the
\* innermost action.
ExitCommand(operand) ==
  /\ pc = "run" /\ (stack = <<>> \/ "exit" \in Outcomes)
  /\ Unwind("exit", IF operand # None THEN operand ELSE IF default # None THEN default ELSE status)
  /\ UNCHANGED <<traps, inbox, context, history, status, stack>>

\* errexit ends the shell with no status named (Flow::END).
Errexit ==
  /\ pc = "run" /\ status # 0 /\ "end" \in Outcomes
  /\ Unwind("exit", None)
  /\ UNCHANGED <<traps, inbox, context, history, status, stack>>

\* The input ends at the top level.
EndOfInput ==
  /\ pc = "run" /\ stack = <<>>
  /\ Unwind("exit", None)
  /\ UNCHANGED <<traps, inbox, context, history, status, stack>>

\* A command fails with an error that ends evaluation.
Fails ==
  /\ pc = "run" /\ "error" \in Outcomes
  /\ Unwind("error", 1)
  /\ UNCHANGED <<traps, inbox, context, history, status, stack>>

\* exit_shell: the EXIT action is taken out of its slot and run.  An error that
\* reaches the top level first writes its status; it names none for exit_shell.
exit_shell ==
  /\ pc = "unwind" /\ stack = <<>> /\ (flow.kind = "error" => ~Interactive)
  /\ LET st == IF flow.status # None THEN flow.status ELSE status
     IN /\ status' = st /\ owed' = st
        /\ IF exitAction
           THEN Enter(NewFrame("EXIT", st, IF flow.kind = "exit" THEN flow.status ELSE None), st)
           ELSE pc' = "ended" /\ UNCHANGED <<stack, default, shown>>
  /\ exitAction' = FALSE /\ flow' = NoFlow
  /\ UNCHANGED <<action, trapped, bashAction, blocked, arg, inbox, depth, running>>

\* In an interactive shell it only ends the command.
recover_command_loop ==
  /\ pc = "unwind" /\ stack = <<>> /\ flow.kind = "error" /\ Interactive
  /\ flow' = NoFlow /\ pc' = "poll"
  /\ status' = flow.status /\ shown' = flow.status
  /\ UNCHANGED <<traps, inbox, context, stack, owed>>

-----------------------------------------------------------------------------
(* The end of an action.                                                   *)

\* Mutant: an action that fails leaves the context as it found it inside.
RestoreUnlessError ==
  IF pc = "unwind" /\ flow.kind = "error" THEN UNCHANGED <<default, depth, running>>
  ELSE /\ default' = Top.outer
       /\ depth' = IF Within("signal") THEN depth - 1 ELSE depth
       /\ running' = running \ {Top.kind}

\* What all three callers undo whatever the action's outcome is.
RestoreContext ==
  /\ default' = Top.outer
  /\ depth' = IF Within("signal") THEN depth - 1 ELSE depth
  /\ running' = running \ {Top.kind}

PutBack(st) == status' = st

\* A signal's action ends normally: the scan goes on.
SignalActionDone ==
  /\ pc = "run" /\ Within("signal")
  /\ RestoreContext /\ PutBack(Top.status) /\ pc' = "scan"
  /\ UNCHANGED <<traps, inbox, history, stack, flow>>

\* An explicit return keeps its own status, a break or continue does not; both
\* leave run_pending_traps at once, and the code it interrupted carries them on.
SignalActionLeaves(explicit) ==
  /\ pc = "run" /\ Within("signal")
  /\ (IF explicit THEN "return" ELSE "break") \in Outcomes
  /\ RestoreContext
  /\ IF explicit THEN UNCHANGED status ELSE PutBack(Top.status)
  /\ shown' = IF explicit THEN status ELSE Top.shown
  /\ stack' = Tail(stack)
  /\ UNCHANGED <<traps, inbox, owed, pc, flow>>

\* A pseudo-trap's action ends, a return, break or continue with it.
PseudoActionDone ==
  /\ pc = "run" /\ stack # <<>> /\ Top.kind \in Conditions
  /\ RestoreContext /\ PutBack(Top.status)
  /\ stack' = Tail(stack) /\ shown' = Top.shown
  /\ UNCHANGED <<traps, inbox, owed, pc, flow>>

\* An exit or an error leaves a signal's or a pseudo-trap's action.
ActionUnwinds ==
  /\ pc = "unwind" /\ stack # <<>> /\ ~Within("EXIT")
  /\ RestoreContext
  /\ stack' = Tail(stack)
  /\ UNCHANGED <<traps, inbox, history, status, pc, flow>>

\* Mutant: the status the action left is what the shell exits with.
LeavesActionStatus == UNCHANGED status

\* The EXIT action ends normally: the status exit named, or the one before it.
ExitStatusRestored ==
  status' = IF Top.explicit # None THEN Top.explicit ELSE Top.status

ExitActionDone ==
  /\ pc = "run" /\ Within("EXIT")
  /\ RestoreContext /\ ExitStatusRestored
  /\ stack' = Tail(stack) /\ pc' = "ended"
  /\ UNCHANGED <<traps, inbox, history, flow>>

\* An exit or an error ends the EXIT action.
ExitActionUnwinds ==
  /\ pc = "unwind" /\ Within("EXIT")
  /\ RestoreContext
  /\ status' = IF flow.kind = "exit" /\ flow.status # None THEN flow.status
               ELSE IF Top.explicit # None THEN Top.explicit
               ELSE IF flow.kind = "error" THEN flow.status ELSE status
  /\ owed' = status'
  /\ stack' = Tail(stack) /\ pc' = "ended" /\ flow' = NoFlow
  /\ UNCHANGED <<traps, inbox, shown>>

-----------------------------------------------------------------------------
Shell ==
  \/ \E s \in Signal, a \in Action : TrapCommand(s, a)
  \/ SetSlot
  \/ SetTrapped
  \/ TrapPseudo
  \/ \E st \in Status : Command(st)
  \/ poll_interrupt
  \/ LookForSignals
  \/ ScanSignal
  \/ ScanEnds
  \/ \E c \in Conditions : dispatch(c)
  \/ \E operand \in Status \cup {None} : ExitCommand(operand)
  \/ Errexit
  \/ EndOfInput
  \/ Fails
  \/ exit_shell
  \/ recover_command_loop
  \/ SignalActionDone
  \/ \E explicit \in BOOLEAN : SignalActionLeaves(explicit)
  \/ PseudoActionDone
  \/ ActionUnwinds
  \/ ExitActionDone
  \/ ExitActionUnwinds

Next == Shell \/ \E s \in Signal : raise(s)

Spec == Init /\ [][Next]_vars

\* The shell keeps executing and the script's actions do not loop for ever;
\* nothing is assumed of who sends signals.
FairSpec == Spec /\ WF_vars(Shell) /\ SF_vars(SignalActionDone \/ ExitActionDone)

-----------------------------------------------------------------------------
(* Properties.                                                             *)

\* The activations whose action is running, innermost first.
Acting == IF pc = "scan" THEN Tail(stack) ELSE stack

\* However actions nest and however they end, signal_trap_depth counts the signal
\* actions that are running, trap_default_exit_status, which an exit without
\* operand reports, is the status the innermost action interrupted, and a
\* pseudo-trap is suppressed exactly while its own action runs, once.
ContextIsInnermost ==
  /\ depth = Cardinality({i \in 1 .. Len(Acting) : Acting[i].kind = "signal"})
  /\ default = IF Acting = <<>> THEN None ELSE Acting[1].status
  /\ running = {Acting[i].kind : i \in 1 .. Len(Acting)} \cap Conditions
  /\ \A i, j \in 1 .. Len(Acting) :
       Acting[i].kind = Acting[j].kind /\ Acting[i].kind \in Conditions => i = j

\* The handler takes SIGINT as an interrupt exactly when the trap table has no
\* action for it: slot and mirror never disagree where it can look.
InterruptOnlyUntrapped ==
  [][intPending' /\ ~intPending => action[INT] = "Default"]_vars

\* Between two commands of one activation, at the top level or of an action, `$?'
\* is what the first left, whatever signal actions and pseudo-traps ran between
\* them: each invocation "owns the status it interrupted", a signal inside an
\* EXIT action the current status of that action.  And the shell ends with the
\* status it was told to or had when it began to exit, unless the EXIT action
\* itself exits or fails, whatever signals arrive.
TrapsKeepStatus ==
  /\ pc = "run" => status = shown
  /\ pc = "ended" => status = owed

\* A caught signal is either announced by pending or still ahead of a scan: no
\* signal waits for its action until the next one happens to arrive.
NoStrandedSignal ==
  pc # "ended" => \A s \in caught : pending # 0 \/ \E i \in 1 .. Len(stack) :
                    stack[i].kind = "signal" /\ stack[i].next <= s

\* A caught signal is taken out of the inbox, unless the shell ends first.
CaughtIsHandled == \A s \in Signal : s \in caught ~> s \notin caught \/ pc = "ended"
=============================================================================
