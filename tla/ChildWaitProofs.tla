-------------------------- MODULE ChildWaitProofs --------------------------
(***************************************************************************)
(* What ChildWait guarantees for every set of processes, jobs, traps and   *)
(* faults: types, the absence of a lost wakeup, the signal behind an       *)
(* interrupted wait, and that a status reaches its owner; and, where an    *)
(* untrapped interrupt is never sent, that no dead child is forgotten.     *)
(* Then what CloneBroker guarantees for children on Windows.               *)
(***************************************************************************)
EXTENDS ChildWait, CloneBroker, SharedLemmas

\* Someone has been told that a child changed state.
Noticed == childPending \/ "CHLD" \in kpend

\* The inductive form of NoLostWakeup: while the snapshot is being walked the
\* children already passed are accounted for, and from the decision to sleep on
\* all of them are.
WakeInv ==
  /\ pc = "scan" => \A p \in forked \ todo : Reportable(p) => Noticed
  /\ pc \in {"masked", "suspended"} => \A p \in forked : Reportable(p) => Noticed
  /\ pc = "suspended" => ~childPending

\* Where a wait_for_process or the reap_children around it is in progress.
InWait == {"entry", "clear", "scan", "blocked", "eintr", "masked", "suspended",
           "unmasked", "observe", "done"}

\* The inductive form of InterruptedHasSignal.
SignalInv ==
  /\ pc = "unmasked" => childPending \/ pendingSig # None
  /\ pc = "observe" /\ outcome = "interrupted" => pendingSig # None
  /\ pc \in InWait /\ ~w.completed => pendingSig # None
  /\ result = "interrupted" => pendingSig # None

-----------------------------------------------------------------------------
\* The record of a wait keeps its type through NoWait, Reap and the updates.
LEMMA NoWaitType == NoWait \in Wait
  BY DEF NoWait, Wait, Mode, Caller

LEMMA ReapType ==
  ASSUME NEW mode \in Mode, NEW j \in Job \cup {None}, NEW caller \in Caller,
         NEW d \in BOOLEAN, Reap(mode, j, caller, d)
  PROVE  w' \in Wait /\ pc' = "entry"
  BY Zenon DEF Reap, Wait

LEMMA UpdateType ==
  ASSUME NEW v \in Wait, NEW mode \in Mode, NEW c \in BOOLEAN
  PROVE  /\ [v EXCEPT !.mode = mode] \in Wait
         /\ [v EXCEPT !.completed = c, !.mode = mode] \in Wait
         /\ v.mode \in Mode /\ v.completed \in BOOLEAN /\ v.job \in Job \cup {None}
  BY DEF Wait

\* Every action of the reaper, the callers, the kernel and the handler keeps
\* the types of the state.
THEOREM TypeCorrect == Spec => []TypeOK
<1> USE ChildWaitAssumption DEF Signal, ProcState, Waiting, Places, Masked
<1>1. Init => TypeOK
  <2> SUFFICES ASSUME Init PROVE TypeOK
    OBVIOUS
  <2>1. childPending \in BOOLEAN /\ intPending \in BOOLEAN
    BY Zenon DEF Init
  <2> QED
    BY <2>1, NoWaitType DEF Init, TypeOK
<1>2. TypeOK /\ [Next]_vars => TypeOK'
  <2> SUFFICES ASSUME TypeOK, [Next]_vars PROVE TypeOK'
    OBVIOUS
  <2> USE DEF TypeOK
  <2>1. ASSUME NEW p \in Proc \cup Host, Exit(p) PROVE TypeOK'
    BY <2>1 DEF Exit, inboxVars, tableVars, waitVars
  <2>2. ASSUME NEW p \in Proc, Stop(p) PROVE TypeOK'
    BY <2>2 DEF Stop, inboxVars, tableVars, waitVars
  <2>3. ASSUME NEW s \in Sent, Send(s) PROVE TypeOK'
    BY <2>3 DEF Send, inboxVars, tableVars, waitVars
  <2>4. ASSUME NEW h \in Host, HostReap(h) PROVE TypeOK'
    BY <2>4 DEF HostReap, inboxVars, tableVars, waitVars
  <2>5. ASSUME NEW p \in Proc, HostSteal(p) PROVE TypeOK'
    BY <2>5 DEF HostSteal, inboxVars, tableVars, waitVars
  <2>6. ASSUME NEW s \in Signal, Deliver(s) PROVE TypeOK'
    BY <2>6 DEF Deliver, raise, InterruptCall, tableVars
  <2>7. CASE Boundary
    <3>1. intPending' \in BOOLEAN /\ UNCHANGED childPending
      BY <2>7, Zenon DEF Boundary
    <3> QED
      BY <2>7, <3>1 DEF Boundary, osVars, tableVars
  <2>8. ASSUME NEW j \in Job, Foreground(j) PROVE TypeOK'
    <3>1. w' \in Wait /\ pc' = "entry"
      BY <2>8, ReapType DEF Foreground, Mode, Caller
    <3> QED
      BY <2>8, <3>1 DEF Foreground, Forks, LaunchFrame, inboxVars
  <2>9. ASSUME NEW j \in Job, Background(j) PROVE TypeOK'
    BY <2>9 DEF Background, Forks, LaunchFrame, inboxVars
  <2>10. ASSUME NEW j \in Job, Abandoned(j) PROVE TypeOK'
    BY <2>10 DEF Abandoned, Forks, LaunchFrame, inboxVars
  <2>11. ASSUME NEW j \in Job, WaitFor(j) PROVE TypeOK'
    <3>1. w' \in Wait /\ pc' = "entry"
      BY <2>11, ReapType DEF WaitFor, Mode, Caller
    <3> QED
      BY <2>11, <3>1 DEF WaitFor, CallFrame, osVars, inboxVars, tableVars
  <2>12. ASSUME NEW j \in Job, Restart(j) PROVE TypeOK'
    <3>1. w' \in Wait /\ pc' \in {"entry", "idle"} /\ result' \in {result, "ok"}
      BY <2>12, ReapType DEF Restart, Mode, Caller
    <3> QED
      BY <2>12, <3>1 DEF Restart, Continue, RestartFrame, inboxVars
  <2>13. ASSUME NEW j \in Job, RestartFails(j) PROVE TypeOK'
    BY <2>13 DEF RestartFails, RestartFrame, inboxVars
  <2>14. ASSUME NEW j \in Job, ForegroundDoneJob(j) PROVE TypeOK'
    <3>1. w' \in Wait /\ pc' = "entry"
      BY <2>14, ReapType DEF ForegroundDoneJob, Mode, Caller
    <3> QED
      BY <2>14, <3>1 DEF ForegroundDoneJob, CallFrame, osVars, inboxVars, tableVars
  <2>15. ASSUME NEW p \in Proc, Substitution(p) PROVE TypeOK'
    BY <2>15 DEF Substitution, inboxVars
  <2>16. CASE PollJobs \/ WaitAll \/ WaitSubstitution
    <3>1. w' \in Wait /\ pc' \in {"entry", "waitall", "pswait"}
      BY <2>16, ReapType DEF PollJobs, WaitAll, WaitSubstitution, Mode, Caller
    <3>2. UNCHANGED CallFrame
      BY <2>16 DEF PollJobs, WaitAll, WaitSubstitution
    <3> QED
      BY <3>1, <3>2 DEF CallFrame, osVars, inboxVars, tableVars
  <2>17. CASE ReapEntry
    <3>1. w' \in Wait /\ pc' \in {"done", "clear"}
      BY <2>17, UpdateType DEF ReapEntry, Mode
    <3> QED
      BY <2>17, <3>1 DEF ReapEntry, osVars, inboxVars, tableVars
  <2>18. CASE ClearAndSnapshot
    BY <2>18 DEF ClearAndSnapshot, WaitFrame
  <2>19. CASE ScanEnds
    BY <2>19 DEF ScanEnds, BlockingTargets, WaitFrame
  <2>20. ASSUME NEW p \in todo, ScanReaped(p) PROVE TypeOK'
    BY <2>20 DEF ScanReaped, Take, Without, StateOf, WaitFrame
  <2>21. ASSUME NEW p \in todo, ScanNotReady(p) PROVE TypeOK'
    BY <2>21 DEF ScanNotReady, Without, WaitFrame
  <2>22. CASE BlockReaped
    BY <2>22 DEF BlockReaped, Take, Without, StateOf, WaitFrame
  <2>23. CASE BlockGone
    BY <2>23 DEF BlockGone, Without, WaitFrame
  <2>24. CASE Eintr \/ CheckMasked \/ AfterSuspend
    <3>1. /\ pc' \in {"clear", "unmasked", "suspended", "observe"}
          /\ outcome' \in {outcome, "interrupted"}
          /\ target' \in {target, None}
      BY <2>24 DEF Eintr, CheckMasked, AfterSuspend
    <3>2. UNCHANGED <<WaitFrame, childPending, kernel, forked, rec, jobState, todo>>
      BY <2>24 DEF Eintr, CheckMasked, AfterSuspend
    <3> QED
      BY <3>1, <3>2 DEF WaitFrame
  <2>25. CASE ObserveInterrupt \/ Observe
    <3>1. CASE ObserveInterrupt
      BY <3>1 DEF ObserveInterrupt, osVars, tableVars
    <3>2. CASE Observe
      <4>1. w' \in Wait
        BY <3>2, UpdateType DEF Observe, Mode
      <4> QED
        BY <3>2, <4>1 DEF Observe, osVars, inboxVars, tableVars
    <3> QED
      BY <2>25, <3>1, <3>2
  <2>26. CASE WaitAllLoop
    <3>1. w' \in Wait /\ pc' \in {"entry", "idle", "pswait"} /\ result' \in {result, "ok"}
      BY <2>26, ReapType DEF WaitAllLoop, Mode, Caller
    <3>2. jobState' \in [Job -> {"free", "Running", "Stopped", "Done"}]
      BY <2>26 DEF WaitAllLoop, Free
    <3> QED
      BY <2>26, <3>1, <3>2 DEF WaitAllLoop, osVars, inboxVars
  <2>27. CASE PsAnswered
    BY <2>27 DEF PsAnswered, Without, inboxVars
  <2>28. CASE PsInterrupted
    BY <2>28 DEF PsInterrupted, osVars, tableVars
  <2>29. CASE ForegroundDone \/ PollDone \/ WaitForDone \/ WaitAllDone
    <3>1. jobState' \in [Job -> {"free", "Running", "Stopped", "Done"}]
      BY <2>29 DEF ForegroundDone, PollDone, WaitForDone, WaitAllDone, Free
    <3>2. pc' \in {"idle", "waitall"} /\ result' \in {result, "ok", "interrupted"}
      BY <2>29 DEF ForegroundDone, PollDone, WaitForDone, WaitAllDone
    <3>3. UNCHANGED ReturnFrame
      BY <2>29 DEF ForegroundDone, PollDone, WaitForDone, WaitAllDone
    <3> QED
      BY <3>1, <3>2, <3>3 DEF ReturnFrame, osVars, inboxVars
  <2>30. CASE UNCHANGED vars
    BY <2>30 DEF vars, osVars, inboxVars, tableVars, waitVars
  <2> QED
    BY <2>1, <2>2, <2>3, <2>4, <2>5, <2>6, <2>7, <2>8, <2>9, <2>10, <2>11, <2>12, <2>13,
       <2>14, <2>15, <2>16, <2>17, <2>18, <2>19, <2>20, <2>21, <2>22, <2>23, <2>24, <2>25,
       <2>26, <2>27, <2>28, <2>29, <2>30
       DEF Next, Environment, Commands, WaitStep
<1> QED
  BY <1>1, <1>2, PTL DEF Spec

-----------------------------------------------------------------------------
\* The commands of the shell never lead straight into a scan or a sleep, never
\* record an interruption, and a wait they start has not been interrupted.
LEMMA CommandStep ==
  ASSUME TypeOK, Commands
  PROVE  /\ pc' \in {"ready", "idle", "entry", "waitall", "pswait"}
         /\ pc' = "entry" => w'.completed
         /\ result' # "interrupted" \/ (result' = result /\ pendingSig' = pendingSig)
<1>1. CASE Boundary
  BY <1>1 DEF Boundary
<1>2. ASSUME NEW j \in Job, Foreground(j) \/ WaitFor(j) \/ ForegroundDoneJob(j)
      PROVE  pc' = "entry" /\ w'.completed /\ UNCHANGED <<result, pendingSig>>
  BY <1>2 DEF Foreground, WaitFor, ForegroundDoneJob, Reap, LaunchFrame, CallFrame, inboxVars
<1>3. ASSUME NEW j \in Job, Background(j) \/ Abandoned(j) \/ RestartFails(j)
      PROVE  pc' = "idle" /\ result' # "interrupted"
  BY <1>3 DEF Background, Abandoned, RestartFails
<1>4. ASSUME NEW j \in Job, Restart(j)
      PROVE  \/ pc' = "idle" /\ result' = "ok"
             \/ pc' = "entry" /\ w'.completed /\ UNCHANGED <<result, pendingSig>>
  BY <1>4 DEF Restart, Reap, RestartFrame, inboxVars
<1>5. ASSUME NEW p \in Proc, Substitution(p) PROVE pc' = "idle" /\ result' = "ok"
  BY <1>5 DEF Substitution
<1>6. CASE PollJobs
  BY <1>6 DEF PollJobs, Reap, CallFrame, inboxVars
<1>7. CASE WaitAll \/ WaitSubstitution
  BY <1>7 DEF WaitAll, WaitSubstitution, CallFrame, inboxVars
<1> QED
  BY <1>1, <1>2, <1>3, <1>4, <1>5, <1>6, <1>7 DEF Commands

\* The steps of the wait loop that do not scan, sleep or look at the mask.
LEMMA LoopStep ==
  ASSUME ReapEntry \/ BlockReaped \/ BlockGone \/ Eintr \/ AfterSuspend
         \/ ObserveInterrupt \/ Observe \/ WaitAllLoop \/ PsAnswered \/ PsInterrupted
         \/ ForegroundDone \/ PollDone \/ WaitForDone \/ WaitAllDone
  PROVE  pc' \notin {"scan", "masked", "suspended"}
BY DEF ReapEntry, BlockReaped, BlockGone, Eintr, AfterSuspend, ObserveInterrupt, Observe,
       WaitAllLoop, Reap, PsAnswered, PsInterrupted, ForegroundDone, PollDone, WaitForDone,
       WaitAllDone

\* Both facts about zombies below rest on it.
LEMMA WakeHolds == Spec => []WakeInv
<1> USE DEF Noticed
<1>1. Init => WakeInv
  BY DEF Init, WakeInv
<1>2. TypeOK /\ WakeInv /\ [Next]_vars => WakeInv'
  <2> SUFFICES ASSUME TypeOK, WakeInv, [Next]_vars PROVE WakeInv'
    OBVIOUS
  <2>1. ASSUME pc' \notin {"scan", "masked", "suspended"} PROVE WakeInv'
    BY <2>1 DEF WakeInv
  <2>2. ASSUME NEW p \in Proc \cup Host, Exit(p) PROVE WakeInv'
    BY <2>2 DEF Exit, WakeInv, waitVars, inboxVars
  <2>3. ASSUME NEW p \in Proc, Stop(p) PROVE WakeInv'
    BY <2>3 DEF Stop, WakeInv, waitVars, inboxVars
  <2>4. ASSUME NEW s \in Sent, Send(s) PROVE WakeInv'
    BY <2>4 DEF Send, WakeInv, Reportable, waitVars, inboxVars, tableVars
  <2>5. ASSUME NEW h \in Proc \cup Host, HostReap(h) \/ HostSteal(h) PROVE WakeInv'
    BY <2>5 DEF HostReap, HostSteal, WakeInv, Reportable, TypeOK, waitVars, inboxVars, tableVars
  <2>6. ASSUME NEW s \in Signal, Deliver(s) PROVE WakeInv'
    BY <2>6 DEF Deliver, raise, InterruptCall, WakeInv, Reportable, Masked, tableVars
  <2>7. CASE Commands
    BY <2>7, <2>1, CommandStep
  <2>8. CASE ClearAndSnapshot
    BY <2>8 DEF ClearAndSnapshot, WakeInv
  <2>9. CASE ScanEnds
    BY <2>9 DEF ScanEnds, WakeInv, Reportable, WaitFrame
  <2>10. ASSUME NEW p \in todo, ScanReaped(p) PROVE WakeInv'
    BY <2>10, <2>1 DEF ScanReaped
  <2>11. ASSUME NEW p \in todo, ScanNotReady(p) PROVE WakeInv'
    BY <2>11 DEF ScanNotReady, Without, WakeInv, Reportable, WaitFrame
  <2>12. CASE CheckMasked
    BY <2>12 DEF CheckMasked, WakeInv, Reportable, WaitFrame
  <2>13. CASE ReapEntry \/ BlockReaped \/ BlockGone \/ Eintr \/ AfterSuspend
              \/ ObserveInterrupt \/ Observe \/ WaitAllLoop \/ PsAnswered \/ PsInterrupted
              \/ ForegroundDone \/ PollDone \/ WaitForDone \/ WaitAllDone
    BY <2>13, <2>1, LoopStep
  <2>14. CASE UNCHANGED vars
    BY <2>14 DEF vars, osVars, inboxVars, tableVars, waitVars, WakeInv, Reportable
  <2> QED
    BY <2>2, <2>3, <2>4, <2>5, <2>6, <2>7, <2>8, <2>9, <2>10, <2>11, <2>12, <2>13, <2>14
       DEF Next, Environment, WaitStep
<1> QED
  BY <1>1, <1>2, TypeCorrect, PTL DEF Spec

\* wait_for_process never sleeps through a child that has a status: clearing
\* child_pending before the scan, and checking it with signals blocked before
\* sigsuspend, closes the window for every number of children and signals.
THEOREM WakeupIsNotLost == Spec => []NoLostWakeup
<1>1. WakeInv => NoLostWakeup
  BY DEF WakeInv, NoLostWakeup, Noticed
<1> QED
  BY <1>1, WakeHolds, PTL

\* Whenever the wait built-in is told that it was interrupted there is a signal
\* to report: the expect in builtins/wait.rs cannot fail, however signals,
\* deaths and stops interleave with the loop.
THEOREM InterruptionHasItsSignal == Spec => []InterruptedHasSignal
<1> USE DEF InWait
<1>1. Init => SignalInv
  BY DEF Init, SignalInv, NoWait
<1>2. TypeOK /\ SignalInv /\ [Next]_vars => SignalInv'
  <2> SUFFICES ASSUME TypeOK, SignalInv, [Next]_vars PROVE SignalInv'
    OBVIOUS
  <2>1. CASE Environment
    BY <2>1 DEF Environment, Exit, Stop, Send, HostReap, HostSteal, SignalInv, waitVars, inboxVars
  <2>2. ASSUME NEW s \in Signal, Deliver(s) PROVE SignalInv'
    BY <2>2, ChildWaitAssumption
       DEF Deliver, raise, InterruptCall, SignalInv, Signal
  <2>3. CASE Commands
    BY <2>3, CommandStep DEF SignalInv
  <2>4. CASE ReapEntry \/ ClearAndSnapshot \/ ScanEnds \/ BlockGone \/ Eintr
    <3>1. CASE ReapEntry
      <4>1. w'.completed = w.completed
        BY <3>1 DEF ReapEntry, TypeOK, Wait
      <4> QED
        BY <3>1, <4>1 DEF ReapEntry, SignalInv, inboxVars
    <3>2. CASE ClearAndSnapshot
      BY <3>2 DEF ClearAndSnapshot, SignalInv, WaitFrame
    <3>3. CASE ScanEnds
      BY <3>3 DEF ScanEnds, SignalInv, WaitFrame
    <3>4. CASE BlockGone \/ Eintr
      BY <3>4 DEF BlockGone, Eintr, SignalInv, WaitFrame
    <3> QED
      BY <2>4, <3>1, <3>2, <3>3, <3>4
  <2>5. ASSUME NEW p \in todo, ScanReaped(p) \/ ScanNotReady(p) PROVE SignalInv'
    BY <2>5 DEF ScanReaped, ScanNotReady, SignalInv, WaitFrame
  <2>6. CASE BlockReaped
    BY <2>6 DEF BlockReaped, SignalInv, WaitFrame
  <2>7. CASE CheckMasked
    BY <2>7 DEF CheckMasked, SignalInv, WaitFrame
  <2>8. CASE AfterSuspend
    BY <2>8 DEF AfterSuspend, SignalInv, WaitFrame
  <2>9. CASE ObserveInterrupt
    BY <2>9 DEF ObserveInterrupt, SignalInv
  <2>10. CASE Observe
    BY <2>10 DEF Observe, SignalInv, TypeOK, Wait, inboxVars
  <2>11. CASE WaitAllLoop
    BY <2>11 DEF WaitAllLoop, Reap, SignalInv, inboxVars
  <2>12. CASE PsAnswered \/ PsInterrupted
    BY <2>12 DEF PsAnswered, PsInterrupted, SignalInv, inboxVars
  <2>13. CASE ForegroundDone \/ PollDone \/ WaitForDone \/ WaitAllDone
    BY <2>13 DEF ForegroundDone, PollDone, WaitForDone, WaitAllDone, SignalInv,
                 ReturnFrame, inboxVars
  <2>14. CASE UNCHANGED vars
    BY <2>14 DEF vars, inboxVars, waitVars, SignalInv
  <2> QED
    BY <2>1, <2>2, <2>3, <2>4, <2>5, <2>6, <2>7, <2>8, <2>9, <2>10, <2>11, <2>12, <2>13,
       <2>14 DEF Next, WaitStep
<1>3. SignalInv => InterruptedHasSignal
  BY DEF SignalInv, InterruptedHasSignal
<1> QED
  BY <1>1, <1>2, <1>3, TypeCorrect, PTL DEF Spec
-----------------------------------------------------------------------------
\* The inductive form of StatusReachesItsOwner: a recorded exit is a collected
\* process, a done job has recorded every one of its processes (so Take, which
\* passes done jobs over, cannot meet one of them again), and a process
\* substitution is in no job.
OwnerInv ==
  /\ \A j \in Job : procs[j] \subseteq Members[j]
  /\ \A p \in Proc : rec[p] = "exit" => kernel[p] = "gone"
  /\ \A j \in Job : jobState[j] = "Done" => \A p \in procs[j] : rec[p] = "exit"
  /\ lastps # None => \A j \in Job : lastps \notin Members[j]
  /\ pc = "blocked" => target \in Proc
  /\ StatusReachesItsOwner

\* A status that was taken is in the record of the live job of its process.
LEMMA TakeKeepsOwners ==
  ASSUME TypeOK, OwnerInv, NEW p \in Proc, Reportable(p), Take(p), pc' # "blocked",
         UNCHANGED <<WaitFrame>>
  PROVE  OwnerInv'
<1> USE ChildWaitAssumption DEF TypeOK, OwnerInv, WaitFrame
<1> DEFINE owner == {j \in Job : jobState[j] \in {"Running", "Stopped"} /\ p \in procs[j]}
           r     == [rec EXCEPT ![p] = IF kernel[p] = "zombie" THEN "exit" ELSE "stop"]
<1>1. /\ kernel' = [kernel EXCEPT ![p] = IF kernel[p] = "zombie" THEN "gone" ELSE "stopped"]
      /\ rec' = IF owner = {} THEN rec ELSE r
      /\ \A j \in Job : jobState'[j] = IF j \in owner /\ StateOf(procs[j], r) # "Running"
                                      THEN StateOf(procs[j], r) ELSE jobState[j]
  BY DEF Take
<1>2. \A j \in Job : p \in procs[j] => jobState[j] # "Done"
  BY DEF Reportable
<1>3. \A q \in Proc : q # p => kernel'[q] = kernel[q] /\ rec'[q] = rec[q]
  BY <1>1
<1>4. /\ rec'[p] = "exit" => kernel'[p] = "gone"
      /\ kernel'[p] = "gone" /\ owner # {} => rec'[p] = "exit"
  BY <1>1 DEF Reportable
<1>5. \A j \in Job : jobState'[j] = "Done" => \A q \in procs[j] : rec'[q] = "exit"
  <2> SUFFICES ASSUME NEW j \in Job, jobState'[j] = "Done", NEW q \in procs[j]
               PROVE  rec'[q] = "exit"
    OBVIOUS
  <2>1. CASE j \in owner /\ StateOf(procs[j], r) # "Running"
    <3>1. rec' = r /\ StateOf(procs[j], r) = "Done"
      BY <1>1, <2>1
    <3>2. r[q] # "none" /\ r[q] # "stop"
      BY <3>1 DEF StateOf
    <3>3. r \in [Proc -> {"none", "stop", "exit"}]
      OBVIOUS
    <3> QED
      BY <3>1, <3>2, <3>3
  <2>2. CASE ~(j \in owner /\ StateOf(procs[j], r) # "Running")
    BY <1>1, <1>2, <1>3, <2>2
  <2> QED
    BY <2>1, <2>2
<1>6. \A j \in Job : jobState'[j] # "free" =>
        \A q \in procs[j] : kernel'[q] = "gone" => q \in stolen \/ rec'[q] = "exit"
  <2> SUFFICES ASSUME NEW j \in Job, jobState'[j] # "free", NEW q \in procs[j],
                      kernel'[q] = "gone"
               PROVE  q \in stolen \/ rec'[q] = "exit"
    OBVIOUS
  <2>1. jobState[j] # "free"
    BY <1>1
  <2>2. CASE q = p
    BY <1>2, <1>4, <2>1, <2>2
  <2>3. CASE q # p
    BY <1>3, <2>1, <2>3 DEF StatusReachesItsOwner
  <2> QED
    BY <2>2, <2>3
<1>7. \A h \in Host : kernel'[h] = "gone" => h \in hostGot
  BY <1>1 DEF StatusReachesItsOwner
<1> QED
  BY <1>3, <1>4, <1>5, <1>6, <1>7 DEF StatusReachesItsOwner

\* A fork makes processes that nobody has waited for.
LEMMA ForksKeepOwners ==
  ASSUME TypeOK, OwnerInv, NEW j \in Job, NEW ps \in SUBSET Members[j], Forks(j, ps),
         UNCHANGED LaunchFrame, pc' # "blocked"
  PROVE  OwnerInv'
<1> USE ChildWaitAssumption DEF TypeOK, OwnerInv, LaunchFrame, StatusReachesItsOwner
<1>1. \A p \in ps : kernel[p] = "unborn" /\ kernel'[p] = "running" /\ rec[p] # "exit"
  BY DEF Forks
<1>2. \A p \in Proc \cup Host : p \notin ps => kernel'[p] = kernel[p]
  BY DEF Forks
<1>3. \A i \in Job : i # j => procs'[i] = procs[i] /\ jobState'[i] = jobState[i]
  BY DEF Forks
<1>4. procs'[j] = ps /\ jobState'[j] = "Running"
  BY DEF Forks
<1> QED
  BY <1>1, <1>2, <1>3, <1>4

\* The statuses of host children go to the host and those of the shell's
\* children to the record of their job, for any number of children and jobs and
\* with every fault.
THEOREM StatusIsDelivered == Spec => []StatusReachesItsOwner
<1> USE ChildWaitAssumption
<1>1. Init => OwnerInv
  BY DEF Init, OwnerInv, StatusReachesItsOwner
<1>2. TypeOK /\ OwnerInv /\ [Next]_vars => OwnerInv'
  <2> SUFFICES ASSUME TypeOK, OwnerInv, [Next]_vars PROVE OwnerInv'
    OBVIOUS
  <2> USE DEF TypeOK
  <2>1. ASSUME UNCHANGED <<kernel, stolen, hostGot, procs, rec, jobState, lastps>>,
               pc' = "blocked" => pc = "blocked" /\ UNCHANGED target
        PROVE  OwnerInv'
    BY <2>1 DEF OwnerInv, StatusReachesItsOwner
  <2>2. ASSUME NEW js \in SUBSET Job, Free(js), pc' # "blocked",
               UNCHANGED <<kernel, stolen, hostGot, procs, rec, lastps>>
        PROVE  OwnerInv'
    BY <2>2 DEF Free, OwnerInv, StatusReachesItsOwner
  <2>3. CASE Environment
    <3>1. ASSUME NEW p \in Proc \cup Host, Exit(p) PROVE OwnerInv'
      BY <3>1 DEF Exit, OwnerInv, StatusReachesItsOwner, inboxVars, tableVars, waitVars
    <3>2. ASSUME NEW p \in Proc, Stop(p) PROVE OwnerInv'
      BY <3>2 DEF Stop, OwnerInv, StatusReachesItsOwner, inboxVars, tableVars, waitVars
    <3>3. ASSUME NEW s \in Sent, Send(s) PROVE OwnerInv'
      BY <2>1, <3>3 DEF Send, inboxVars, tableVars, waitVars
    <3>4. ASSUME NEW h \in Host, HostReap(h) PROVE OwnerInv'
      BY <3>4 DEF HostReap, OwnerInv, StatusReachesItsOwner, inboxVars, tableVars, waitVars
    <3>5. ASSUME NEW p \in Proc, HostSteal(p) PROVE OwnerInv'
      BY <3>5 DEF HostSteal, OwnerInv, StatusReachesItsOwner, inboxVars, tableVars, waitVars
    <3> QED
      BY <2>3, <3>1, <3>2, <3>3, <3>4, <3>5 DEF Environment
  <2>4. ASSUME NEW s \in Signal, Deliver(s) PROVE OwnerInv'
    BY <2>1, <2>4 DEF Deliver, InterruptCall, tableVars
  <2>5. CASE Commands
    <3>1. pc' # "blocked"
      BY <2>5, CommandStep
    <3>2. CASE Boundary \/ PollJobs \/ WaitAll \/ WaitSubstitution
      BY <2>1, <3>1, <3>2
         DEF Boundary, PollJobs, WaitAll, WaitSubstitution, CallFrame, osVars, tableVars
    <3>3. ASSUME NEW j \in Job, WaitFor(j) \/ ForegroundDoneJob(j) PROVE OwnerInv'
      BY <2>1, <3>1, <3>3 DEF WaitFor, ForegroundDoneJob, CallFrame, osVars, tableVars
    <3>4. ASSUME NEW j \in Job, Foreground(j) \/ Background(j) \/ Abandoned(j) PROVE OwnerInv'
      <4>1. UNCHANGED LaunchFrame /\ \E ps \in SUBSET Members[j] : Forks(j, ps)
        BY <3>4 DEF Foreground, Background, Abandoned
      <4> QED
        BY <3>1, <4>1, ForksKeepOwners
    <3>5. ASSUME NEW j \in Job, Restart(j) PROVE OwnerInv'
      <4>1. Continue(j) /\ jobState[j] \in {"Running", "Stopped"}
            /\ UNCHANGED <<stolen, hostGot, procs, lastps>>
        BY <3>5 DEF Restart, RestartFrame
      <4>2. \A p \in Proc \cup Host : /\ kernel'[p] = "gone" => kernel[p] = "gone"
                                      /\ kernel[p] = "gone" => kernel'[p] = "gone"
        BY <4>1 DEF Continue
      <4>3. \A p \in Proc : rec'[p] = "exit" <=> rec[p] = "exit"
        BY <4>1 DEF Continue
      <4>4. \A i \in Job : i # j => jobState'[i] = jobState[i]
        BY <4>1 DEF Continue
      <4>5. jobState'[j] = "Running"
        BY <4>1 DEF Continue
      <4> QED
        BY <3>1, <4>1, <4>2, <4>3, <4>4, <4>5 DEF OwnerInv, StatusReachesItsOwner
    <3>6. ASSUME NEW j \in Job, RestartFails(j) PROVE OwnerInv'
      BY <3>1, <3>6 DEF RestartFails, RestartFrame, OwnerInv, StatusReachesItsOwner
    <3>7. ASSUME NEW p \in Proc, Substitution(p) PROVE OwnerInv'
      BY <3>1, <3>7 DEF Substitution, OwnerInv, StatusReachesItsOwner
    <3> QED
      BY <2>5, <3>2, <3>3, <3>4, <3>5, <3>6, <3>7 DEF Commands
  <2>6. CASE \/ ReapEntry \/ ClearAndSnapshot \/ BlockGone \/ Eintr \/ CheckMasked \/ AfterSuspend
             \/ ObserveInterrupt \/ Observe \/ PsInterrupted \/ WaitAllDone
    BY <2>1, <2>6
       DEF ReapEntry, ClearAndSnapshot, BlockGone, Eintr, CheckMasked, AfterSuspend,
           ObserveInterrupt, Observe, PsInterrupted, WaitAllDone, WaitFrame, ReturnFrame,
           osVars, tableVars
  <2>7. CASE ScanEnds
    <3>1. pc' = "blocked" => target' \in Proc
      BY <2>7 DEF ScanEnds, BlockingTargets
    <3> QED
      BY <2>7, <3>1 DEF ScanEnds, WaitFrame, OwnerInv, StatusReachesItsOwner
  <2>8. ASSUME NEW p \in todo, ScanReaped(p) PROVE OwnerInv'
    BY <2>8, TakeKeepsOwners DEF ScanReaped
  <2>9. ASSUME NEW p \in todo, ScanNotReady(p) PROVE OwnerInv'
    BY <2>1, <2>9 DEF ScanNotReady, WaitFrame
  <2>10. CASE BlockReaped
    BY <2>10, TakeKeepsOwners DEF BlockReaped, OwnerInv
  <2>11. CASE WaitAllLoop
    <3>1. \E js \in SUBSET Job : Free(js)
      BY <2>11 DEF WaitAllLoop, DoneJobs
    <3> QED
      BY <2>2, <2>11, <3>1 DEF WaitAllLoop, Reap, osVars
  <2>12. CASE PsAnswered
    <3>1. pc' # "blocked"
      BY <2>12 DEF PsAnswered
    <3>2. /\ UNCHANGED <<stolen, hostGot, procs, rec, jobState>> /\ lastps' = None
          /\ kernel' = [kernel EXCEPT ![lastps] = "gone"]
          /\ kernel[lastps] = "zombie" \/ kernel[lastps] = "gone"
      BY <2>12 DEF PsAnswered
    <3>3. CASE lastps = None
      <4>1. kernel' = kernel
        BY <3>2, <3>3
      <4> QED
        BY <3>1, <3>2, <4>1 DEF OwnerInv, StatusReachesItsOwner
    <3>4. CASE lastps # None
      BY <3>1, <3>2, <3>4 DEF OwnerInv, StatusReachesItsOwner
    <3> QED
      BY <3>3, <3>4
  <2>13. CASE ForegroundDone \/ PollDone \/ WaitForDone
    <3>1. \E js \in SUBSET Job : Free(js)
      BY <2>13 DEF ForegroundDone, PollDone, WaitForDone, DoneJobs
    <3> QED
      BY <2>2, <2>13, <3>1 DEF ForegroundDone, PollDone, WaitForDone, ReturnFrame, osVars
  <2>14. CASE UNCHANGED vars
    BY <2>1, <2>14 DEF vars, osVars, tableVars, waitVars
  <2> QED
    BY <2>3, <2>4, <2>5, <2>6, <2>7, <2>8, <2>9, <2>10, <2>11, <2>12, <2>13, <2>14
       DEF Next, WaitStep
<1>3. OwnerInv => StatusReachesItsOwner
  BY DEF OwnerInv
<1> QED
  BY <1>1, <1>2, <1>3, TypeCorrect, PTL DEF Spec
-----------------------------------------------------------------------------
\* A ^C that is to be reported is one the shell has no trap for.
InterruptInv == intPending => "INT" \in Sent \ Trapped

\* Where every status has been looked for, or nothing was since the boundary.
Looked ==
  pc \in {"idle", "ready", "entry", "waitall", "pswait", "psint", "done"}
  \/ (pc = "observe" /\ outcome = "exhausted")

\* The inductive form of NoLingeringZombie: a zombie has been announced outside
\* the loop of wait_for_process too.
ZombieInv ==
  /\ kpend \subseteq Sent \cup {"CHLD"}
  /\ InterruptInv
  /\ Looked => \A p \in forked : kernel[p] = "zombie" => Noticed

\* A command neither makes a zombie nor hides the news of one.
LEMMA CommandHidesNoZombie ==
  ASSUME TypeOK, Commands
  PROVE  /\ pc \in {"idle", "ready"}
         /\ Noticed => Noticed'
         /\ kpend' \subseteq kpend \cup {"CHLD"} /\ (intPending' => intPending)
         /\ \A p \in forked' : kernel'[p] = "zombie" => p \in forked /\ kernel[p] = "zombie"
<1> USE ChildWaitAssumption DEF TypeOK, Noticed
<1>1. ASSUME NEW j \in Job, NEW ps \in SUBSET Members[j], Forks(j, ps), UNCHANGED LaunchFrame
      PROVE  /\ pc = "ready" /\ UNCHANGED <<kpend, childPending, intPending>>
             /\ \A p \in forked' : kernel'[p] = "zombie" => p \in forked /\ kernel[p] = "zombie"
  BY <1>1 DEF Forks, LaunchFrame, inboxVars
<1>2. ASSUME NEW j \in Job, Foreground(j) \/ Background(j) \/ Abandoned(j)
      PROVE  UNCHANGED LaunchFrame /\ \E ps \in SUBSET Members[j] : Forks(j, ps)
  BY <1>2 DEF Foreground, Background, Abandoned
<1>3. CASE Boundary
  BY <1>3 DEF Boundary, osVars, tableVars
<1>4. ASSUME PollJobs \/ WaitAll \/ WaitSubstitution
      PROVE  pc = "ready" /\ UNCHANGED <<kpend, childPending, intPending, forked, kernel>>
  BY <1>4 DEF PollJobs, WaitAll, WaitSubstitution, CallFrame, osVars, inboxVars, tableVars
<1>5. ASSUME NEW j \in Job, WaitFor(j) \/ ForegroundDoneJob(j)
      PROVE  pc = "ready" /\ UNCHANGED <<kpend, childPending, intPending, forked, kernel>>
  BY <1>5 DEF WaitFor, ForegroundDoneJob, CallFrame, osVars, inboxVars, tableVars
<1>6. ASSUME NEW j \in Job, Restart(j)
      PROVE  /\ pc = "ready" /\ kpend' = kpend \cup {"CHLD"}
             /\ UNCHANGED <<childPending, intPending, forked>>
             /\ \A p \in forked : kernel'[p] = "zombie" => kernel[p] = "zombie"
  BY <1>6 DEF Restart, Continue, RestartFrame, inboxVars
<1>7. ASSUME NEW j \in Job, RestartFails(j)
      PROVE  pc = "ready" /\ UNCHANGED <<kpend, childPending, intPending, forked, kernel>>
  BY <1>7 DEF RestartFails, RestartFrame, inboxVars
<1>8. ASSUME NEW p \in Proc, Substitution(p)
      PROVE  /\ pc = "ready" /\ UNCHANGED <<kpend, childPending, intPending>>
             /\ \A q \in forked' : kernel'[q] = "zombie" => q \in forked /\ kernel[q] = "zombie"
  BY <1>8 DEF Substitution, inboxVars
<1> QED
  BY <1>1, <1>2, <1>3, <1>4, <1>5, <1>6, <1>7, <1>8 DEF Commands

\* Unless a ^C that no trap catches can abort the wait loop half way, every
\* child that is dead between commands has been collected or announced: the
\* reaper goes round until nothing is left, and clears child_pending first.
THEOREM ZombiesAreAnnounced ==
  ASSUME "INT" \notin Sent \ Trapped
  PROVE  Spec => []NoLingeringZombie
<1> USE ChildWaitAssumption DEF Noticed, InterruptInv
<1>1. Init => ZombieInv
  BY DEF Init, ZombieInv
<1>2. TypeOK /\ WakeInv /\ ZombieInv /\ [Next]_vars => ZombieInv'
  <2> SUFFICES ASSUME TypeOK, WakeInv, ZombieInv, [Next]_vars PROVE ZombieInv'
    OBVIOUS
  <2> USE DEF TypeOK
  <2>1. ASSUME Looked' => Looked, UNCHANGED <<kpend, childPending>>, intPending' => intPending,
               \A p \in forked' : kernel'[p] = "zombie" => p \in forked /\ kernel[p] = "zombie"
        PROVE  ZombieInv'
    BY <2>1 DEF ZombieInv
  <2>2. ASSUME ~Looked', UNCHANGED kpend, intPending' => intPending
        PROVE  ZombieInv'
    BY <2>2 DEF ZombieInv
  <2>3. CASE Environment
    <3>1. UNCHANGED <<pc, outcome, childPending, intPending, forked>>
      BY <2>3 DEF Environment, Exit, Stop, Send, HostReap, HostSteal, inboxVars, tableVars, waitVars
    <3>2. kpend \subseteq kpend' /\ kpend' \subseteq kpend \cup Sent \cup {"CHLD"}
      BY <2>3 DEF Environment, Exit, Stop, Send, HostReap, HostSteal
    <3>3. \/ "CHLD" \in kpend'
          \/ \A p \in forked : kernel'[p] = "zombie" => kernel[p] = "zombie"
      BY <2>3 DEF Environment, Exit, Stop, Send, HostReap, HostSteal
    <3> QED
      BY <3>1, <3>2, <3>3 DEF ZombieInv, Looked
  <2>4. ASSUME NEW s \in Signal, Deliver(s) PROVE ZombieInv'
    <3>1. UNCHANGED <<kernel, forked, outcome>> /\ kpend' = kpend \ {s}
      BY <2>4 DEF Deliver, tableVars
    <3>2. (Noticed => Noticed') /\ (intPending' => intPending \/ (s = "INT" /\ s \notin Trapped))
      BY <2>4 DEF Deliver, raise
    <3>3. Looked' => Looked
      BY <2>4 DEF Deliver, InterruptCall, Looked
    <3>4. s \in kpend
      BY <2>4 DEF Deliver
    <3> QED
      BY <3>1, <3>2, <3>3, <3>4 DEF ZombieInv
  <2>5. CASE Commands
    BY <2>5, CommandHidesNoZombie DEF ZombieInv, Looked
  <2>6. CASE ReapEntry
    BY <2>1, <2>6 DEF ReapEntry, Looked, osVars, inboxVars, tableVars
  <2>7. CASE ClearAndSnapshot
    BY <2>2, <2>7 DEF ClearAndSnapshot, WaitFrame, Looked
  <2>8. CASE ScanEnds
    BY <2>8 DEF ScanEnds, WaitFrame, Looked, ZombieInv, WakeInv, Reportable
  <2>9. ASSUME NEW p \in todo, ScanReaped(p) PROVE ZombieInv'
    BY <2>2, <2>9 DEF ScanReaped, WaitFrame, Looked
  <2>10. ASSUME NEW p \in todo, ScanNotReady(p) PROVE ZombieInv'
    BY <2>2, <2>10 DEF ScanNotReady, WaitFrame, Looked
  <2>11. CASE BlockReaped \/ BlockGone \/ Eintr \/ CheckMasked \/ AfterSuspend
    BY <2>2, <2>11 DEF BlockReaped, BlockGone, Eintr, CheckMasked, AfterSuspend, WaitFrame, Looked
  <2>12. CASE ObserveInterrupt
    BY <2>12 DEF ObserveInterrupt, Due, ZombieInv
  <2>13. CASE Observe
    BY <2>1, <2>13 DEF Observe, Looked, osVars, inboxVars, tableVars
  <2>14. CASE WaitAllLoop
    BY <2>1, <2>14 DEF WaitAllLoop, Looked, osVars, inboxVars
  <2>15. CASE PsAnswered
    <3>1. Looked /\ UNCHANGED <<kpend, childPending, intPending>> /\ forked' \subseteq forked
          /\ kernel' = [kernel EXCEPT ![lastps] = "gone"]
      BY <2>15 DEF PsAnswered, Looked, Without, inboxVars
    <3> QED
      BY <2>1, <3>1
  <2>16. CASE PsInterrupted
    BY <2>1, <2>16 DEF PsInterrupted, Looked, osVars, tableVars
  <2>17. CASE ForegroundDone \/ PollDone \/ WaitForDone \/ WaitAllDone
    BY <2>1, <2>17
       DEF ForegroundDone, PollDone, WaitForDone, WaitAllDone, ReturnFrame, Looked, osVars, inboxVars
  <2>18. CASE UNCHANGED vars
    BY <2>1, <2>18 DEF vars, osVars, inboxVars, tableVars, waitVars, Looked
  <2> QED
    BY <2>3, <2>4, <2>5, <2>6, <2>7, <2>8, <2>9, <2>10, <2>11, <2>12, <2>13, <2>14, <2>15,
       <2>16, <2>17, <2>18 DEF Next, WaitStep
<1>3. ZombieInv => NoLingeringZombie
  BY DEF ZombieInv, NoLingeringZombie, Looked
<1> QED
  BY <1>1, <1>2, <1>3, TypeCorrect, WakeHolds, PTL DEF Spec

-----------------------------------------------------------------------------
(* Clones on Windows: a broker answers into the process that asked it. *)

\* What the shell thread of a process is at, and what it asks its own broker for.
ShellSteps == {"script", "answer", "clone", "serve", "registered", "resume"}
OwnRequests == {"pipe", "channel", "spawn"}
Message == [request : OwnRequests \cup {"register", "none"}, about : Nat, answer : BOOLEAN]

BrokerTypes ==
  /\ at \in [Shells -> Nat] /\ step \in [Shells -> ShellSteps]
  /\ alive \in [Shells -> {"none", "suspended", "running", "ended"}]
  /\ broker \in [Clones -> [does : {"none", "read", "share", "wait", "ended"}, serves : Shells]]
  /\ channel \in [Clones -> Message]

\* A channel carries a request or an answer, and what a broker is doing was asked of it.
ChannelInv == \A c \in Clones :
  /\ channel[c].answer => channel[c].request = "none"
  /\ channel[c].request = "register" => channel[c].about = c
  /\ broker[c].does = "share" => channel[c].request \in {"pipe", "channel"}
  /\ broker[c].does = "wait" => channel[c].request = "spawn"

\* Who asked for something waits for the answer, and a channel is for the clone it is about to make.
AskerInv == \A c \in Clones : channel[c].request \in OwnRequests =>
  /\ alive[c] = "running" /\ step[c] = "answer" /\ at[c] \in DOMAIN Script[c]
  /\ Script[c][at[c]][1] \in {"pipe", "fork", "execute"}
  /\ channel[c].request = "channel" => Script[c][at[c]] = <<"fork", channel[c].about>>

\* Where p is about to make c, or has made it and not let it run yet.
ForkAt(p, i, c) ==
  /\ at[p] < i \/ (at[p] = i /\ step[p] \in {"script", "answer", "clone"}) => alive[c] = "none"
  /\ at[p] = i /\ step[p] \in {"serve", "registered", "resume"} => alive[c] = "suspended"
  /\ at[p] = i /\ step[p] = "registered" =>
       channel[c].request = "register" \/ (channel[c].answer /\ broker[c].serves = c)
  /\ at[p] = i /\ step[p] = "resume" => broker[c].serves = c
ForkInv == \A p \in Shells, c \in Clones : \A i \in DOMAIN Script[p] :
  Script[p][i] = <<"fork", c>> => ForkAt(p, i, c)

\* A clone runs once its broker serves it.
ServesInv == \A c \in Clones : alive[c] = "running" => broker[c].serves = c

CloneInv == BrokerTypes /\ ChannelInv /\ AskerInv /\ ForkInv /\ ServesInv

\* Every operation of a script is one of the five, and what is forked is a clone.
LEMMA OperationIs ==
  ASSUME NEW p \in Shells, NEW i \in DOMAIN Script[p]
  PROVE  /\ i \in Nat \ {0}
         /\ Script[p][i] = <<Script[p][i][1], Script[p][i][2]>>
         /\ Script[p][i][1] \in {"pipe", "fork", "shut", "wait", "execute"} /\ Script[p][i][2] \in Nat
         /\ Script[p][i][1] = "fork" => Script[p][i][2] \in Clones
<1>1. Script[p] \in Seq({"pipe", "fork", "shut", "wait", "execute"} \X Nat)
  BY CloneBrokerAssumption
<1>2. i \in 1..Len(Script[p]) /\ Len(Script[p]) \in Nat
  BY <1>1
<1>3. Script[p][i] \in {"pipe", "fork", "shut", "wait", "execute"} \X Nat
  BY <1>1, <1>2
<1>4. Script[p][i][1] = "fork" => Script[p][i][2] \in Clones
  BY CloneBrokerAssumption
<1> QED BY <1>2, <1>3, <1>4

\* Two forks of one clone are the same operation of the same script.
LEMMA ForkedOnce ==
  ASSUME NEW p \in Shells, NEW q \in Shells, NEW c, NEW i \in DOMAIN Script[p], NEW j \in DOMAIN Script[q],
         Script[p][i] = <<"fork", c>>, Script[q][j] = <<"fork", c>>
  PROVE  p = q /\ i = j
<1>1. Script[p][i][1] = "fork" /\ Script[q][j] = Script[p][i]
  OBVIOUS
<1>2. \A a \in DOMAIN Script[p], b \in DOMAIN Script[q] :
        Script[p][a][1] = "fork" /\ Script[q][b] = Script[p][a] => p = q /\ a = b
  BY CloneBrokerAssumption
<1> QED BY <1>1, <1>2

\* The root is none of the clones.
LEMMA ShellsAre == Root \in Shells /\ Root \notin Clones /\ Clones \subseteq Shells /\ Clones \subseteq Nat
BY CloneBrokerAssumption DEF Shells, Root

\* A wait that has nothing to wait for comes after the operation at hand.
LEMMA NextWaitIsLater ==
  ASSUME NEW p \in Shells, at[p] \in DOMAIN Script[p]
  PROVE  NextWait(p) \in Nat /\ NextWait(p) > at[p]
<1>1. Script[p] \in Seq({"pipe", "fork", "shut", "wait", "execute"} \X Nat)
  BY CloneBrokerAssumption
<1>2. Len(Script[p]) \in Nat /\ at[p] \in 1..Len(Script[p]) /\ DOMAIN Script[p] = 1..Len(Script[p])
  BY <1>1
<1> DEFINE after == at[p] + 1..Len(Script[p]) + 1
           stops == {i \in after : i \in DOMAIN Script[p] => Script[p][i][1] = "wait"}
<1>3. Len(Script[p]) + 1 \in stops /\ stops \in SUBSET Nat
  BY <1>2
<1>4. \E i \in stops : \A j \in stops : i <= j
  BY <1>3, LeastExists
<1>5. NextWait(p) \in stops
  BY <1>4 DEF NextWait
<1> QED BY <1>2, <1>5

\* A shell that goes on leaves the clones of its later operations unmade.
LEMMA LaterForks ==
  ASSUME ForkInv, BrokerTypes, NEW p \in Shells, NEW n \in Nat, n > at[p],
         at' = [at EXCEPT ![p] = n], step' = [step EXCEPT ![p] = "script"],
         \A d \in Clones : \/ alive'[d] = alive[d]
                           \/ at[p] \in DOMAIN Script[p] /\ Script[p][at[p]] = <<"fork", d>>,
         \A d \in Clones : alive[d] = "suspended" =>
           channel'[d] = channel[d] /\ broker'[d].serves = broker[d].serves
  PROVE  ForkInv'
<1> SUFFICES ASSUME NEW q \in Shells, NEW c \in Clones, NEW i \in DOMAIN Script[q], Script[q][i] = <<"fork", c>>
             PROVE  ForkAt(q, i, c)'
  BY DEF ForkInv
<1>1. ForkAt(q, i, c) /\ i \in Nat /\ at[q] \in Nat /\ at[p] \in Nat
  BY OperationIs DEF ForkInv, BrokerTypes
<1>2. alive'[c] = alive[c] \/ (q = p /\ i = at[p])
  <2> SUFFICES ASSUME alive'[c] # alive[c] PROVE q = p /\ i = at[p]
    OBVIOUS
  <2>1. at[p] \in DOMAIN Script[p] /\ Script[p][at[p]] = <<"fork", c>>
    OBVIOUS
  <2>2. \A a \in DOMAIN Script[p] : Script[p][a] = <<"fork", c>> => p = q /\ a = i
    BY ForkedOnce
  <2> QED BY <2>1, <2>2
<1>3. CASE q # p
  <2>1. at'[q] = at[q] /\ step'[q] = step[q] /\ alive'[c] = alive[c]
    BY <1>2, <1>3 DEF BrokerTypes
  <2> QED BY <1>1, <2>1 DEF ForkAt
<1>4. CASE q = p
  <2>1. at'[q] = n /\ step'[q] = "script"
    BY <1>4 DEF BrokerTypes
  <2>2. n <= i => alive'[c] = "none"
    BY <1>1, <1>2, <1>4 DEF ForkAt
  <2> QED BY <1>1, <2>1, <2>2 DEF ForkAt
<1> QED BY <1>3, <1>4

\* A shell goes a step further in one operation: what is known of the clone it makes is given.
LEMMA FurtherForks ==
  ASSUME ForkInv, BrokerTypes, NEW p \in Shells, NEW s, at' = at, step' = [step EXCEPT ![p] = s],
         \A d \in Clones : at[p] \in DOMAIN Script[p] /\ Script[p][at[p]] = <<"fork", d>> => ForkAt(p, at[p], d)',
         \A d \in Clones : \/ alive'[d] = alive[d]
                           \/ at[p] \in DOMAIN Script[p] /\ Script[p][at[p]] = <<"fork", d>>,
         \A d \in Clones : alive[d] = "suspended" =>
           \/ channel'[d] = channel[d] /\ broker'[d].serves = broker[d].serves
           \/ at[p] \in DOMAIN Script[p] /\ Script[p][at[p]] = <<"fork", d>>
  PROVE  ForkInv'
<1> SUFFICES ASSUME NEW q \in Shells, NEW c \in Clones, NEW i \in DOMAIN Script[q], Script[q][i] = <<"fork", c>>
             PROVE  ForkAt(q, i, c)'
  BY DEF ForkInv
<1>1. ForkAt(q, i, c) /\ i \in Nat /\ at[q] \in Nat
  BY OperationIs DEF ForkInv, BrokerTypes
<1>2. CASE q = p /\ i = at[p]
  BY <1>2 DEF ForkAt
<1>3. CASE ~(q = p /\ i = at[p])
  <2>1. ~(at[p] \in DOMAIN Script[p] /\ Script[p][at[p]] = <<"fork", c>>)
    <3> SUFFICES ASSUME at[p] \in DOMAIN Script[p], Script[p][at[p]] = <<"fork", c>> PROVE FALSE
      OBVIOUS
    <3>1. p = q /\ at[p] = i
      BY ForkedOnce
    <3> QED BY <1>3, <3>1
  <2>2. alive'[c] = alive[c]
    BY <2>1
  <2>3. alive[c] = "suspended" => channel'[c] = channel[c] /\ broker'[c].serves = broker[c].serves
    BY <2>1
  <2>4. at'[q] = at[q] /\ (at[q] = i => step'[q] = step[q])
    BY <1>3 DEF BrokerTypes
  <2> QED BY <1>1, <2>2, <2>3, <2>4 DEF ForkAt
<1> QED BY <1>2, <1>3

\* No shell moves: a clone may end, and a broker may answer who registers with it.
LEMMA StillForks ==
  ASSUME ForkInv, BrokerTypes, at' = at, step' = step,
         \A d \in Clones : alive'[d] = alive[d] \/ alive[d] = "running",
         \A d \in Clones : alive[d] = "suspended" =>
           /\ broker'[d].serves = broker[d].serves \/ broker'[d].serves = d
           /\ channel'[d] = channel[d] \/ (channel'[d].answer /\ broker'[d].serves = d)
  PROVE  ForkInv'
<1> SUFFICES ASSUME NEW q \in Shells, NEW c \in Clones, NEW i \in DOMAIN Script[q], Script[q][i] = <<"fork", c>>
             PROVE  ForkAt(q, i, c)'
  BY DEF ForkInv
<1>1. ForkAt(q, i, c) /\ at[q] \in Nat /\ i \in Nat
  BY OperationIs DEF ForkInv, BrokerTypes
<1> QED BY <1>1 DEF ForkAt

\* What a shell is at when it does an operation.
LEMMA DoesIs ==
  ASSUME BrokerTypes, NEW p \in Shells, NEW op, Does(p, op)
  PROVE  /\ alive[p] = "running" /\ at[p] \in DOMAIN Script[p] /\ at[p] \in Nat
         /\ Op(p) = <<op, Op(p)[2]>> /\ Op(p) = Script[p][at[p]] /\ Op(p)[1] = op /\ Op(p)[2] \in Nat
         /\ op = "fork" => Op(p)[2] \in Clones /\ Script[p][at[p]] = <<"fork", Op(p)[2]>>
<1>1. alive[p] = "running" /\ at[p] \in DOMAIN Script[p] /\ Op(p)[1] = op /\ Op(p) = Script[p][at[p]]
  BY DEF Does, Op
<1> QED BY <1>1, OperationIs
\* An answer takes the place of the request.
LEMMA AnswersIs ==
  ASSUME BrokerTypes, NEW c \in Clones, Answers(c)
  PROVE  /\ channel' \in [Clones -> Message] /\ channel'[c].request = "none" /\ channel'[c].answer
         /\ \A d \in Clones \ {c} : channel'[d] = channel[d]
<1>1. channel[c] \in Message /\ channel \in [Clones -> Message]
  BY DEF BrokerTypes
<1>2. [channel[c] EXCEPT !.request = "none", !.answer = TRUE] \in Message
  BY <1>1 DEF Message
<1>3. channel' = [channel EXCEPT ![c] = [channel[c] EXCEPT !.request = "none", !.answer = TRUE]]
  BY DEF Answers
<1> QED BY <1>1, <1>2, <1>3 DEF Message

\* Taking an answer leaves the channel empty.
LEMMA TakesIs ==
  ASSUME BrokerTypes, ChannelInv, NEW c \in Clones, Takes(c)
  PROVE  /\ channel[c].answer /\ channel[c].request = "none"
         /\ channel' \in [Clones -> Message] /\ channel'[c].request = "none" /\ channel'[c].answer = FALSE
         /\ \A d \in Clones : channel'[d].request = channel[d].request
         /\ \A d \in Clones \ {c} : channel'[d] = channel[d]
<1>1. channel[c] \in Message /\ channel \in [Clones -> Message]
  BY DEF BrokerTypes
<1>2. channel[c].answer /\ channel[c].request = "none"
  BY DEF Takes, ChannelInv
<1>3. [channel[c] EXCEPT !.answer = FALSE] \in Message
  BY <1>1 DEF Message
<1>4. channel' = [channel EXCEPT ![c] = [channel[c] EXCEPT !.answer = FALSE]]
  BY DEF Takes
<1> QED BY <1>1, <1>2, <1>3, <1>4 DEF Message
-----------------------------------------------------------------------------
\* Nothing is made, asked or served at first.
LEMMA CloneInit == ASSUME BInit PROVE CloneInv
<1> USE ShellsAre
<1>1. BrokerTypes
  BY DEF BInit, BrokerTypes, ShellSteps, OwnRequests, Message
<1>2. ChannelInv /\ AskerInv /\ ServesInv
  BY DEF BInit, ChannelInv, AskerInv, ServesInv, OwnRequests
<1>3. ForkInv
  BY OperationIs DEF BInit, ForkInv, ForkAt
<1> QED BY <1>1, <1>2, <1>3 DEF CloneInv

\* The steps of a shell's thread that do not make a clone.
LEMMA DirectSteps ==
  ASSUME CloneInv, DirectPipe \/ DirectChannel \/ \E p \in Shells : Start(p) \/ Shut(p) \/ WaitForChild(p)
  PROVE  CloneInv'
<1> USE ShellsAre
<1>1. CASE DirectChannel
  <2>1. Op(Root)[2] \in Clones /\ at[Root] \in DOMAIN Script[Root] /\ step[Root] = "script"
        /\ Script[Root][at[Root]] = <<"fork", Op(Root)[2]>>
    BY <1>1, DoesIs DEF DirectChannel, CloneInv
  <2>2. at' = at /\ step' = [step EXCEPT ![Root] = "clone"] /\ UNCHANGED <<alive, broker, channel>>
    BY <1>1 DEF DirectChannel, Goes
  <2>3. ForkInv'
    <3>1. ASSUME NEW d \in Clones, at[Root] \in DOMAIN Script[Root], Script[Root][at[Root]] = <<"fork", d>>
          PROVE  ForkAt(Root, at[Root], d)'
      BY <2>1, <2>2, <3>1 DEF CloneInv, ForkInv, ForkAt, BrokerTypes
    <3> QED BY <2>2, <3>1, FurtherForks DEF CloneInv
  <2>4. BrokerTypes'
    BY <2>2 DEF CloneInv, BrokerTypes, ShellSteps
  <2>5. ChannelInv' /\ ServesInv'
    BY <2>2 DEF CloneInv, ChannelInv, ServesInv
  <2>6. AskerInv'
    BY <2>2 DEF CloneInv, AskerInv, BrokerTypes
  <2> QED BY <2>3, <2>4, <2>5, <2>6 DEF CloneInv
<1>2. ASSUME NEW p \in Shells, p # Root => at[p] \notin DOMAIN Script[p] \/ Op(p)[1] \in {"shut", "wait"},
             Advances(p), UNCHANGED <<alive, broker, channel>>
      PROVE  CloneInv'
  <2>1. at[p] \in Nat /\ at' = [at EXCEPT ![p] = at[p] + 1] /\ step' = [step EXCEPT ![p] = "script"]
    BY <1>2 DEF Advances, CloneInv, BrokerTypes
  <2>2. ForkInv'
    <3>1. at[p] + 1 \in Nat /\ at[p] + 1 > at[p]
      BY <2>1
    <3> QED BY <1>2, <2>1, <3>1, LaterForks DEF CloneInv
  <2>3. BrokerTypes'
    BY <1>2, <2>1 DEF CloneInv, BrokerTypes, ShellSteps
  <2>4. ChannelInv' /\ ServesInv'
    BY <1>2 DEF CloneInv, ChannelInv, ServesInv
  <2>5. AskerInv'
    <3> SUFFICES ASSUME NEW c \in Clones, channel[c].request \in OwnRequests
                 PROVE  c # p /\ at'[c] = at[c] /\ step'[c] = step[c]
      BY <1>2 DEF CloneInv, AskerInv
    <3>1. c # p
      BY <1>2 DEF CloneInv, AskerInv, Op
    <3> QED BY <2>1, <3>1 DEF CloneInv, BrokerTypes
  <2> QED BY <2>2, <2>3, <2>4, <2>5 DEF CloneInv
<1>3. CASE DirectPipe
  BY <1>2, <1>3 DEF DirectPipe
<1>4. CASE \E p \in Shells : Start(p) \/ Shut(p) \/ WaitForChild(p)
  <2>1. PICK p \in Shells : Start(p) \/ Shut(p) \/ WaitForChild(p)
    BY <1>4
  <2>2. at[p] \notin DOMAIN Script[p] \/ Op(p)[1] \in {"shut", "wait"}
    <3>1. CASE Start(p)
      BY <3>1, OperationIs DEF Start
    <3>2. CASE Shut(p) \/ WaitForChild(p)
      BY <3>2 DEF Shut, WaitForChild, Does
    <3> QED BY <2>1, <3>1, <3>2
  <2>3. Advances(p) /\ UNCHANGED <<alive, broker, channel>>
    BY <2>1 DEF Start, Shut, WaitForChild
  <2> QED BY <1>2, <2>2, <2>3
<1> QED BY <1>1, <1>3, <1>4

\* What a step of the shell's thread p leaves alone of the others, and of its own channel when it
\* waits for no answer there.
LEMMA ForkStep ==
  ASSUME CloneInv, NEW p \in Shells, NEW c \in Clones, step[p] # "answer", alive[c] # "running",
         \A q \in Shells \ {p} : step'[q] = step[q] /\ at'[q] = at[q],
         \A q \in Shells \ {c} : alive'[q] = alive[q],
         \A d \in Clones : channel'[d].request \in OwnRequests => channel'[d] = channel[d]
  PROVE  AskerInv'
<1> SUFFICES ASSUME NEW d \in Clones, channel'[d].request \in OwnRequests
             PROVE  /\ alive'[d] = "running" /\ step'[d] = "answer" /\ at'[d] \in DOMAIN Script[d]
                    /\ Script[d][at'[d]][1] \in {"pipe", "fork", "execute"}
                    /\ channel'[d].request = "channel" => Script[d][at'[d]] = <<"fork", channel'[d].about>>
  BY DEF AskerInv
<1>1. channel'[d] = channel[d]
  OBVIOUS
<1>2. /\ alive[d] = "running" /\ step[d] = "answer" /\ at[d] \in DOMAIN Script[d]
      /\ Script[d][at[d]][1] \in {"pipe", "fork", "execute"}
      /\ channel[d].request = "channel" => Script[d][at[d]] = <<"fork", channel[d].about>>
  BY <1>1 DEF CloneInv, AskerInv
<1>3. d # p /\ d # c /\ d \in Shells
  BY <1>2, ShellsAre
<1> QED BY <1>1, <1>2, <1>3

\* Where a shell is in making a clone.
LEMMA ForkingIs ==
  ASSUME CloneInv, NEW p \in Shells, Does(p, "fork")
  PROVE  /\ Op(p)[2] \in Clones /\ at[p] \in DOMAIN Script[p] /\ at[p] \in Nat
         /\ Script[p][at[p]] = <<"fork", Op(p)[2]>> /\ ForkAt(p, at[p], Op(p)[2])
         /\ \A d \in Clones : Script[p][at[p]] = <<"fork", d>> => d = Op(p)[2]
         /\ alive[p] = "running"
BY DoesIs DEF CloneInv, ForkInv

\* The clone is made suspended, and nobody serves it yet.
LEMMA CloneStep == ASSUME CloneInv, NEW p \in Shells, Clone(p) PROVE CloneInv'
<1> USE ShellsAre
<1>0. Does(p, "fork")
  BY DEF Clone
<1>9. PICK c \in Clones : c = Op(p)[2]
  BY <1>0, ForkingIs
<1>1. /\ Does(p, "fork") /\ step[p] = "clone" /\ at' = at /\ step' = [step EXCEPT ![p] = "serve"]
      /\ alive' = [alive EXCEPT ![c] = "suspended"] /\ UNCHANGED <<broker, channel>>
  BY <1>9 DEF Clone, Goes, CreateSuspended
<1>2. /\ c \in Clones /\ ForkAt(p, at[p], c) /\ at[p] \in DOMAIN Script[p] /\ at[p] \in Nat
      /\ \A d \in Clones : Script[p][at[p]] = <<"fork", d>> => d = c
      /\ Script[p][at[p]] = <<"fork", c>>
  BY <1>1, <1>9, ForkingIs
<1>3. BrokerTypes'
  BY <1>1, <1>2 DEF CloneInv, BrokerTypes, ShellSteps
<1>4. alive[c] = "none"
  BY <1>1, <1>2 DEF ForkAt
<1>5. alive'[c] = "suspended" /\ step'[p] = "serve" /\ \A q \in Shells \ {c} : alive'[q] = alive[q]
  BY <1>1, <1>2 DEF CloneInv, BrokerTypes
<1>6. ForkInv'
  <2>1. ForkAt(p, at[p], c)'
    BY <1>1, <1>2, <1>5 DEF ForkAt
  <2>2. ASSUME NEW d \in Clones, Script[p][at[p]] # <<"fork", d>> PROVE alive'[d] = alive[d]
    <3>1. d # c
      BY <1>2, <2>2
    <3> QED BY <3>1, <1>2, <1>5
  <2> QED BY <1>1, <1>2, <2>1, <2>2, FurtherForks DEF CloneInv
<1>7. ChannelInv' /\ ServesInv'
  BY <1>1, <1>2, <1>5 DEF CloneInv, ChannelInv, ServesInv
<1>8. AskerInv'
  <2>1. \A q \in Shells \ {p} : step'[q] = step[q] /\ at'[q] = at[q]
    BY <1>1 DEF CloneInv, BrokerTypes
  <2>2. step[p] # "answer" /\ alive[c] # "running"
    BY <1>1, <1>4
  <2> QED BY <1>1, <1>5, <2>1, <2>2, ForkStep
<1> QED BY <1>3, <1>6, <1>7, <1>8 DEF CloneInv

\* The root starts a broker that serves the new clone, before it runs.
LEMMA StartBrokerStep == ASSUME CloneInv, StartBroker PROVE CloneInv'
<1> USE ShellsAre
<1>0. Does(Root, "fork")
  BY DEF StartBroker
<1>9. PICK c \in Clones : c = Op(Root)[2]
  BY <1>0, ForkingIs
<1>1. /\ Does(Root, "fork") /\ step[Root] = "serve" /\ at' = at /\ step' = [step EXCEPT ![Root] = "resume"]
      /\ broker' = [broker EXCEPT ![c] = [does |-> "read", serves |-> c]] /\ UNCHANGED <<alive, channel>>
  BY <1>9 DEF StartBroker, Goes
<1>2. /\ c \in Clones /\ ForkAt(Root, at[Root], c) /\ at[Root] \in DOMAIN Script[Root] /\ at[Root] \in Nat
      /\ \A d \in Clones : Script[Root][at[Root]] = <<"fork", d>> => d = c
      /\ Script[Root][at[Root]] = <<"fork", c>>
  BY <1>1, <1>9, ForkingIs
<1>3. BrokerTypes'
  BY <1>1, <1>2 DEF CloneInv, BrokerTypes, ShellSteps
<1>4. alive[c] = "suspended"
  BY <1>1, <1>2 DEF ForkAt
<1>5. /\ broker'[c] = [does |-> "read", serves |-> c] /\ step'[Root] = "resume"
      /\ \A d \in Clones \ {c} : broker'[d] = broker[d]
  BY <1>1, <1>2 DEF CloneInv, BrokerTypes
<1>6. ForkInv'
  <2>1. ForkAt(Root, at[Root], c)'
    BY <1>1, <1>2, <1>4, <1>5 DEF ForkAt
  <2>2. ASSUME NEW d \in Clones, Script[Root][at[Root]] # <<"fork", d>> PROVE broker'[d].serves = broker[d].serves
    <3>1. d # c
      BY <1>2, <2>2
    <3> QED BY <3>1, <1>2, <1>5
  <2> QED BY <1>1, <1>2, <2>1, <2>2, FurtherForks DEF CloneInv
<1>7. ChannelInv' /\ ServesInv'
  BY <1>1, <1>2, <1>4, <1>5 DEF CloneInv, ChannelInv, ServesInv
<1>8. AskerInv'
  <2>1. \A q \in Shells \ {Root} : step'[q] = step[q] /\ at'[q] = at[q]
    BY <1>1 DEF CloneInv, BrokerTypes
  <2>2. step[Root] # "answer" /\ alive[c] # "running"
    BY <1>1, <1>4
  <2> QED BY <1>1, <2>1, <2>2, ForkStep
<1> QED BY <1>3, <1>6, <1>7, <1>8 DEF CloneInv

\* A clone has its own clone registered with the broker of the new channel, before it runs.
LEMMA RegisterStep == ASSUME CloneInv, NEW p \in Shells, Register(p) PROVE CloneInv'
<1> USE ShellsAre
<1>0. Does(p, "fork")
  BY DEF Register
<1>9. PICK c \in Clones : c = Op(p)[2]
  BY <1>0, ForkingIs
<1>1. /\ Does(p, "fork") /\ at' = at /\ UNCHANGED <<alive, broker>>
      /\ \/ step[p] = "serve" /\ Quiet(c) /\ Asks(c, "register", c) /\ step' = [step EXCEPT ![p] = "registered"]
         \/ step[p] = "registered" /\ Takes(c) /\ step' = [step EXCEPT ![p] = "resume"]
  BY <1>9 DEF Register, Goes
<1>2. /\ c \in Clones /\ ForkAt(p, at[p], c) /\ at[p] \in DOMAIN Script[p] /\ at[p] \in Nat
      /\ \A d \in Clones : Script[p][at[p]] = <<"fork", d>> => d = c
      /\ Script[p][at[p]] = <<"fork", c>>
  BY <1>1, <1>9, ForkingIs
<1>3. alive[c] = "suspended"
  BY <1>1, <1>2 DEF ForkAt
<1>4. CASE step[p] = "serve" /\ Quiet(c) /\ Asks(c, "register", c) /\ step' = [step EXCEPT ![p] = "registered"]
  <2>1. /\ channel'[c] = [request |-> "register", about |-> c, answer |-> FALSE]
        /\ \A d \in Clones \ {c} : channel'[d] = channel[d]
        /\ channel[c].request = "none"
    BY <1>2, <1>4 DEF Asks, Quiet, CloneInv, BrokerTypes
  <2>2. BrokerTypes'
    <3>1. [request |-> "register", about |-> c, answer |-> FALSE] \in Message
      BY DEF Message
    <3> QED BY <1>1, <1>2, <1>4, <3>1 DEF CloneInv, BrokerTypes, ShellSteps, Asks
  <2>3. ForkInv'
    <3>1. step'[p] = "registered"
      BY <1>4 DEF CloneInv, BrokerTypes
    <3>2. ForkAt(p, at[p], c)'
      BY <1>1, <1>2, <1>3, <2>1, <3>1 DEF ForkAt
    <3>3. ASSUME NEW d \in Clones, Script[p][at[p]] # <<"fork", d>> PROVE channel'[d] = channel[d]
      <4>1. d # c
        BY <1>2, <3>3
      <4> QED BY <4>1, <1>2, <2>1
    <3> QED BY <1>1, <1>2, <1>4, <3>2, <3>3, FurtherForks DEF CloneInv
  <2>4. ChannelInv' /\ ServesInv'
    BY <1>1, <1>2, <2>1 DEF CloneInv, ChannelInv, ServesInv
  <2>5. AskerInv'
    <3>1. \A q \in Shells \ {p} : step'[q] = step[q] /\ at'[q] = at[q]
      BY <1>1, <1>4 DEF CloneInv, BrokerTypes
    <3>2. step[p] # "answer" /\ alive[c] # "running" /\ \A q \in Shells : alive'[q] = alive[q]
      BY <1>1, <1>3, <1>4
    <3>3. channel'[c].request \notin OwnRequests
      BY <2>1 DEF OwnRequests
    <3>4. \A d \in Clones : channel'[d].request \in OwnRequests => channel'[d] = channel[d]
      BY <2>1, <3>3
    <3> QED BY <3>1, <3>2, <3>4, ForkStep
  <2> QED BY <2>2, <2>3, <2>4, <2>5 DEF CloneInv
<1>5. CASE step[p] = "registered" /\ Takes(c) /\ step' = [step EXCEPT ![p] = "resume"]
  <2>1. /\ channel[c].answer /\ channel[c].request = "none"
        /\ channel' \in [Clones -> Message] /\ channel'[c].request = "none" /\ channel'[c].answer = FALSE
        /\ \A d \in Clones \ {c} : channel'[d] = channel[d]
    BY <1>2, <1>5, TakesIs DEF CloneInv
  <2>2. BrokerTypes'
    BY <1>1, <1>2, <1>5, <2>1 DEF CloneInv, BrokerTypes, ShellSteps
  <2>3. ForkInv'
    <3>1. step'[p] = "resume"
      BY <1>5 DEF CloneInv, BrokerTypes
    <3>2. broker[c].serves = c
      BY <1>2, <1>5, <2>1 DEF ForkAt
    <3>3. ForkAt(p, at[p], c)'
      BY <1>1, <1>2, <1>3, <3>1, <3>2 DEF ForkAt
    <3>4. ASSUME NEW d \in Clones, Script[p][at[p]] # <<"fork", d>> PROVE channel'[d] = channel[d]
      <4>1. d # c
        BY <1>2, <3>4
      <4> QED BY <4>1, <1>2, <2>1
    <3> QED BY <1>1, <1>2, <1>5, <3>3, <3>4, FurtherForks DEF CloneInv
  <2>4. ChannelInv' /\ ServesInv'
    BY <1>1, <1>2, <2>1 DEF CloneInv, ChannelInv, ServesInv
  <2>5. AskerInv'
    <3>1. \A q \in Shells \ {p} : step'[q] = step[q] /\ at'[q] = at[q]
      BY <1>1, <1>5 DEF CloneInv, BrokerTypes
    <3>2. step[p] # "answer" /\ alive[c] # "running" /\ \A q \in Shells : alive'[q] = alive[q]
      BY <1>1, <1>3, <1>5
    <3>3. channel'[c].request \notin OwnRequests
      BY <2>1 DEF OwnRequests
    <3>4. \A d \in Clones : channel'[d].request \in OwnRequests => channel'[d] = channel[d]
      BY <2>1, <3>3
    <3> QED BY <3>1, <3>2, <3>4, ForkStep
  <2> QED BY <2>2, <2>3, <2>4, <2>5 DEF CloneInv
<1> QED BY <1>1, <1>4, <1>5

\* The new clone runs, or ends when it could not be given its broker.
LEMMA ResumeStep == ASSUME CloneInv, NEW p \in Shells, Resume(p) \/ BrokerRefused(p) PROVE CloneInv'
<1> USE ShellsAre
<1>0. Does(p, "fork")
  BY DEF Resume, BrokerRefused
<1>9. PICK c \in Clones : c = Op(p)[2]
  BY <1>0, ForkingIs
<1>1. /\ c \in Clones /\ ForkAt(p, at[p], c) /\ at[p] \in DOMAIN Script[p] /\ at[p] \in Nat
      /\ \A d \in Clones : Script[p][at[p]] = <<"fork", d>> => d = c
      /\ Script[p][at[p]] = <<"fork", c>>
  BY <1>0, <1>9, ForkingIs
<1>2. PICK n \in Nat, s \in {"running", "ended"} :
        /\ n > at[p] /\ at' = [at EXCEPT ![p] = n] /\ step' = [step EXCEPT ![p] = "script"]
        /\ alive' = [alive EXCEPT ![c] = s] /\ UNCHANGED <<broker, channel>>
        /\ s = "running" => step[p] = "resume"
        /\ step[p] \in {"serve", "resume"}
  <2>1. CASE Resume(p)
    <3>1. /\ at' = [at EXCEPT ![p] = at[p] + 1] /\ step' = [step EXCEPT ![p] = "script"]
          /\ alive' = [alive EXCEPT ![c] = "running"] /\ UNCHANGED <<broker, channel>> /\ step[p] = "resume"
      BY <1>9, <2>1 DEF Resume, Advances, CloneInv, BrokerTypes
    <3>2. at[p] + 1 \in Nat /\ at[p] + 1 > at[p]
      BY <1>1
    <3> QED BY <3>1, <3>2
  <2>2. CASE BrokerRefused(p)
    <3>1. /\ at' = [at EXCEPT ![p] = NextWait(p)] /\ step' = [step EXCEPT ![p] = "script"]
          /\ alive' = [alive EXCEPT ![c] = "ended"] /\ UNCHANGED <<broker, channel>> /\ step[p] = "serve"
      BY <1>9, <2>2 DEF BrokerRefused
    <3>2. NextWait(p) \in Nat /\ NextWait(p) > at[p]
      BY <1>1, NextWaitIsLater
    <3> QED BY <3>1, <3>2
  <2> QED BY <2>1, <2>2
<1>3. BrokerTypes'
  BY <1>2 DEF CloneInv, BrokerTypes, ShellSteps
<1>4. alive[c] = "suspended" /\ (s = "running" => broker[c].serves = c)
  BY <1>1, <1>2 DEF ForkAt
<1>5. alive'[c] = s /\ \A q \in Shells \ {c} : alive'[q] = alive[q]
  BY <1>2 DEF CloneInv, BrokerTypes
<1>6. ForkInv'
  <2>1. ASSUME NEW d \in Clones, Script[p][at[p]] # <<"fork", d>> PROVE alive'[d] = alive[d]
    <3>1. d # c
      BY <1>1, <2>1
    <3> QED BY <1>5, <3>1
  <2> QED BY <1>1, <1>2, <2>1, LaterForks DEF CloneInv
<1>7. ChannelInv' /\ ServesInv'
  BY <1>2, <1>4, <1>5 DEF CloneInv, ChannelInv, ServesInv
<1>8. AskerInv'
  <2>1. \A q \in Shells \ {p} : step'[q] = step[q] /\ at'[q] = at[q]
    BY <1>2 DEF CloneInv, BrokerTypes
  <2>2. step[p] # "answer" /\ alive[c] # "running"
    BY <1>2, <1>4
  <2> QED BY <1>2, <1>5, <2>1, <2>2, ForkStep
<1> QED BY <1>3, <1>6, <1>7, <1>8 DEF CloneInv

\* A clone asks its broker for something, and later takes the answer.
LEMMA AskStep ==
  ASSUME CloneInv, NEW p \in Clones, NEW op \in {"pipe", "fork", "execute"}, Does(p, op), step[p] = "script",
         NEW request \in OwnRequests, request = "channel" => op = "fork", request \in {"pipe", "spawn"} => op # "fork",
         NEW about \in Nat, op = "fork" => about = Op(p)[2],
         Quiet(p), Asks(p, request, about), Goes(p, "answer"), UNCHANGED <<alive, broker>>
  PROVE  CloneInv'
<1> USE ShellsAre
<1>1. /\ alive[p] = "running" /\ at[p] \in DOMAIN Script[p] /\ at[p] \in Nat /\ Script[p][at[p]][1] = op
      /\ op = "fork" => Script[p][at[p]] = <<"fork", about>>
  BY DoesIs DEF CloneInv
<1>2. at' = at /\ step' = [step EXCEPT ![p] = "answer"] /\ step'[p] = "answer"
      /\ \A q \in Shells \ {p} : step'[q] = step[q]
  BY DEF Goes, CloneInv, BrokerTypes
<1>3. /\ channel'[p] = [request |-> request, about |-> about, answer |-> FALSE]
      /\ \A d \in Clones \ {p} : channel'[d] = channel[d]
      /\ channel[p].request = "none" /\ "register" \notin OwnRequests
  BY DEF Asks, Quiet, CloneInv, BrokerTypes, OwnRequests
<1>4. BrokerTypes'
  <2>1. [request |-> request, about |-> about, answer |-> FALSE] \in Message
    BY DEF Message
  <2> QED BY <1>2, <2>1 DEF Asks, CloneInv, BrokerTypes, ShellSteps
<1>5. ForkInv'
  <2>1. ASSUME NEW d \in Clones, Script[p][at[p]] = <<"fork", d>> PROVE ForkAt(p, at[p], d)'
    <3>1. ForkAt(p, at[p], d)
      BY <1>1, <2>1 DEF CloneInv, ForkInv
    <3> QED BY <1>1, <1>2, <3>1 DEF ForkAt
  <2>2. \A d \in Clones : alive[d] = "suspended" => channel'[d] = channel[d]
    BY <1>1, <1>3
  <2> QED BY <1>1, <1>2, <2>1, <2>2, FurtherForks DEF CloneInv
<1>6. ServesInv'
  BY DEF CloneInv, ServesInv
<1>7. ChannelInv'
  BY <1>3 DEF CloneInv, ChannelInv
<1>8. AskerInv'
  BY <1>1, <1>2, <1>3 DEF CloneInv, AskerInv
<1> QED BY <1>4, <1>5, <1>6, <1>7, <1>8 DEF CloneInv

\* The answer of its broker sends a clone on.
LEMMA TakeStep ==
  ASSUME CloneInv, NEW p \in Clones, NEW op, Does(p, op), step[p] = "answer", Takes(p),
         UNCHANGED <<alive, broker>>, Advances(p) \/ (op = "fork" /\ Goes(p, "clone"))
  PROVE  CloneInv'
<1> USE ShellsAre
<1>1. alive[p] = "running" /\ at[p] \in DOMAIN Script[p] /\ at[p] \in Nat
  BY DoesIs DEF CloneInv
<1>2. /\ channel[p].answer /\ channel[p].request = "none"
      /\ channel' \in [Clones -> Message] /\ channel'[p].request = "none" /\ channel'[p].answer = FALSE
      /\ \A d \in Clones : channel'[d].request = channel[d].request
      /\ \A d \in Clones \ {p} : channel'[d] = channel[d]
  BY TakesIs DEF CloneInv
<1>3. \A d \in Clones : alive[d] = "suspended" => channel'[d] = channel[d]
  BY <1>1, <1>2
<1>4. ServesInv'
  BY DEF CloneInv, ServesInv
<1>5. ChannelInv'
  <2> SUFFICES ASSUME NEW d \in Clones
               PROVE  /\ channel'[d].answer => channel'[d].request = "none"
                      /\ channel'[d].request = "register" => channel'[d].about = d
                      /\ broker'[d].does = "share" => channel'[d].request \in {"pipe", "channel"}
                      /\ broker'[d].does = "wait" => channel'[d].request = "spawn"
    BY DEF ChannelInv
  <2>1. CASE d = p
    BY <1>2, <2>1 DEF CloneInv, ChannelInv
  <2>2. CASE d # p
    <3>1. channel'[d] = channel[d]
      BY <1>2, <2>2
    <3> QED BY <3>1 DEF CloneInv, ChannelInv
  <2> QED BY <2>1, <2>2
<1>6. \A q \in Shells \ {p} : step'[q] = step[q] /\ at'[q] = at[q]
  BY DEF Goes, Advances, CloneInv, BrokerTypes
<1>7. AskerInv'
  <2>1. "none" \notin OwnRequests
    BY DEF OwnRequests
  <2> QED BY <1>2, <1>6, <2>1 DEF CloneInv, AskerInv
<1>8. CASE Advances(p)
  <2>1. at' = [at EXCEPT ![p] = at[p] + 1] /\ step' = [step EXCEPT ![p] = "script"] /\ at[p] + 1 \in Nat
        /\ at[p] + 1 > at[p]
    BY <1>1, <1>8 DEF Advances, CloneInv, BrokerTypes
  <2>2. BrokerTypes'
    BY <1>2, <2>1 DEF CloneInv, BrokerTypes, ShellSteps
  <2>3. ForkInv'
    BY <1>3, <2>1, LaterForks DEF CloneInv
  <2> QED BY <1>4, <1>5, <1>7, <2>2, <2>3 DEF CloneInv
<1>9. CASE Goes(p, "clone")
  <2>1. at' = at /\ step' = [step EXCEPT ![p] = "clone"] /\ step'[p] = "clone"
    BY <1>9 DEF Goes, CloneInv, BrokerTypes
  <2>2. BrokerTypes'
    BY <1>2, <2>1 DEF CloneInv, BrokerTypes, ShellSteps
  <2>3. ASSUME NEW d \in Clones, Script[p][at[p]] = <<"fork", d>> PROVE ForkAt(p, at[p], d)'
    <3>1. ForkAt(p, at[p], d)
      BY <1>1, <2>3 DEF CloneInv, ForkInv
    <3> QED BY <1>1, <2>1, <3>1 DEF ForkAt
  <2>4. ForkInv'
    BY <1>3, <2>1, <2>3, FurtherForks DEF CloneInv
  <2> QED BY <1>4, <1>5, <1>7, <2>2, <2>4 DEF CloneInv
<1> QED BY <1>8, <1>9

\* The operations a clone has its broker do.
LEMMA AskerSteps ==
  ASSUME CloneInv, NEW p \in Shells, BrokeredPipe(p) \/ BrokeredChannel(p) \/ Execute(p) PROVE CloneInv'
<1> USE ShellsAre
<1>1. p \in Clones
  <2>1. p # Root
    <3>1. CASE Execute(p)
      BY <3>1, CloneBrokerAssumption DEF Execute, Does, Op
    <3> QED BY <3>1 DEF BrokeredPipe, BrokeredChannel
  <2> QED BY <2>1 DEF Shells
<1>2. CASE BrokeredPipe(p)
  <2>1. Does(p, "pipe") /\ Op(p)[2] \in Nat
    BY <1>2, DoesIs DEF BrokeredPipe, CloneInv
  <2>2. CASE step[p] = "script" /\ Quiet(p) /\ Asks(p, "pipe", Op(p)[2]) /\ Goes(p, "answer")
    BY <1>1, <1>2, <2>1, <2>2, AskStep DEF BrokeredPipe, OwnRequests
  <2>3. CASE step[p] = "answer" /\ Takes(p) /\ Advances(p)
    BY <1>1, <1>2, <2>1, <2>3, TakeStep DEF BrokeredPipe
  <2> QED BY <1>2, <2>2, <2>3 DEF BrokeredPipe
<1>3. CASE BrokeredChannel(p)
  <2>1. Does(p, "fork") /\ Op(p)[2] \in Nat
    BY <1>3, DoesIs DEF BrokeredChannel, CloneInv
  <2>2. CASE step[p] = "script" /\ Quiet(p) /\ Asks(p, "channel", Op(p)[2]) /\ Goes(p, "answer")
    BY <1>1, <1>3, <2>1, <2>2, AskStep DEF BrokeredChannel, OwnRequests
  <2>3. CASE step[p] = "answer" /\ Takes(p) /\ Goes(p, "clone")
    BY <1>1, <1>3, <2>1, <2>3, TakeStep DEF BrokeredChannel
  <2> QED BY <1>3, <2>2, <2>3 DEF BrokeredChannel
<1>4. CASE Execute(p)
  <2>1. Does(p, "execute") /\ p \in Nat
    BY <1>1, <1>4 DEF Execute
  <2>2. CASE step[p] = "script" /\ Quiet(p) /\ Asks(p, "spawn", p) /\ Goes(p, "answer")
    BY <1>1, <1>4, <2>1, <2>2, AskStep DEF Execute, OwnRequests
  <2>3. CASE step[p] = "answer" /\ Takes(p) /\ Advances(p)
    BY <1>1, <1>4, <2>1, <2>3, TakeStep DEF Execute
  <2> QED BY <1>4, <2>2, <2>3 DEF Execute
<1> QED BY <1>2, <1>3, <1>4

\* A clone that ends has no request under way.
LEMMA CloneExitsStep == ASSUME CloneInv, NEW p \in Shells, CloneExits(p) PROVE CloneInv'
<1> USE ShellsAre
<1>1. /\ p \in Clones /\ alive[p] = "running" /\ alive' = [alive EXCEPT ![p] = "ended"]
      /\ UNCHANGED <<at, step, broker, channel>>
  BY DEF CloneExits, Shells
<1>2. at[p] \notin DOMAIN Script[p]
  <2>1. Script[p] \in Seq({"pipe", "fork", "shut", "wait", "execute"} \X Nat)
    BY CloneBrokerAssumption
  <2>2. DOMAIN Script[p] = 1..Len(Script[p]) /\ Len(Script[p]) \in Nat /\ at[p] \in Nat
    BY <2>1 DEF CloneInv, BrokerTypes
  <2> QED BY <2>2 DEF CloneExits
<1>3. alive'[p] = "ended" /\ \A q \in Shells \ {p} : alive'[q] = alive[q]
  BY <1>1 DEF CloneInv, BrokerTypes
<1>4. BrokerTypes'
  BY <1>1 DEF CloneInv, BrokerTypes
<1>5. ForkInv'
  BY <1>1, <1>3, StillForks DEF CloneInv
<1>6. ChannelInv' /\ ServesInv'
  BY <1>1, <1>3 DEF CloneInv, ChannelInv, ServesInv
<1>7. AskerInv'
  BY <1>1, <1>2, <1>3 DEF CloneInv, AskerInv
<1> QED BY <1>4, <1>5, <1>6, <1>7 DEF CloneInv

\* What a broker's thread changes for the shells: which process it serves, and that a request is answered.
LEMMA BrokerChange ==
  ASSUME CloneInv, NEW c \in Clones, UNCHANGED <<alive, at, step>>, BrokerTypes',
         \/ channel' = channel /\ \A d \in Clones : broker'[d].serves = broker[d].serves
         \/ /\ Answers(c)
            /\ \A d \in Clones : \/ broker'[d].serves = broker[d].serves
                                 \/ alive[d] = "none"
                                 \/ broker'[d].serves = d,
         channel[c].request = "register" => broker'[c].serves = c \/ channel' = channel,
         \A d \in Clones : broker'[d].does \in {"share", "wait"} =>
           \/ broker'[d].does = broker[d].does /\ (d # c \/ channel' = channel)
           \/ broker'[d].does = "share" /\ channel'[d].request \in {"pipe", "channel"}
           \/ broker'[d].does = "wait" /\ channel'[d].request = "spawn"
  PROVE  CloneInv'
<1> USE ShellsAre
<1>1. CASE channel' = channel /\ \A d \in Clones : broker'[d].serves = broker[d].serves
  <2>1. ForkInv'
    BY <1>1, StillForks DEF CloneInv
  <2>2. ServesInv' /\ AskerInv'
    BY <1>1 DEF CloneInv, ServesInv, AskerInv
  <2>3. ChannelInv'
    BY <1>1 DEF CloneInv, ChannelInv
  <2> QED BY <2>1, <2>2, <2>3 DEF CloneInv
<1>2. CASE /\ Answers(c)
           /\ \A d \in Clones : \/ broker'[d].serves = broker[d].serves
                                \/ alive[d] = "none"
                                \/ broker'[d].serves = d
  <2>1. /\ channel'[c].request = "none" /\ channel'[c].answer /\ "none" \notin OwnRequests
        /\ \A d \in Clones \ {c} : channel'[d] = channel[d]
    BY <1>2, AnswersIs DEF CloneInv, OwnRequests
  <2>2. channel' # channel \/ channel[c].request # "register"
    BY <2>1
  <2>3. ASSUME NEW q \in Shells, NEW d \in Clones, NEW i \in DOMAIN Script[q], Script[q][i] = <<"fork", d>>
        PROVE  ForkAt(q, i, d)'
    <3>1. ForkAt(q, i, d) /\ at[q] \in Nat /\ i \in Nat
      BY <2>3, OperationIs DEF CloneInv, ForkInv, BrokerTypes
    <3>2. broker'[d].serves = broker[d].serves \/ alive[d] = "none" \/ broker'[d].serves = d
      BY <1>2
    <3>3. channel'[d] = channel[d] \/ d = c
      BY <2>1
    <3> QED BY <2>1, <2>2, <3>1, <3>2, <3>3 DEF ForkAt
  <2>4. ForkInv'
    BY <2>3 DEF ForkInv
  <2>5. ServesInv'
    <3> SUFFICES ASSUME NEW d \in Clones, alive'[d] = "running" PROVE broker'[d].serves = d
      BY DEF ServesInv
    <3>1. alive[d] = "running" /\ alive[d] # "none"
      OBVIOUS
    <3>2. broker[d].serves = d
      BY <3>1 DEF CloneInv, ServesInv
    <3> QED BY <1>2, <3>1, <3>2
  <2>6. AskerInv'
    <3> SUFFICES ASSUME NEW d \in Clones, channel'[d].request \in OwnRequests
                 PROVE  /\ alive[d] = "running" /\ step[d] = "answer" /\ at[d] \in DOMAIN Script[d]
                        /\ Script[d][at[d]][1] \in {"pipe", "fork", "execute"}
                        /\ channel'[d].request = "channel" => Script[d][at[d]] = <<"fork", channel'[d].about>>
      BY DEF AskerInv
    <3>1. channel'[d] = channel[d]
      BY <2>1
    <3>2. channel[d].request \in OwnRequests =>
            /\ alive[d] = "running" /\ step[d] = "answer" /\ at[d] \in DOMAIN Script[d]
            /\ Script[d][at[d]][1] \in {"pipe", "fork", "execute"}
            /\ channel[d].request = "channel" => Script[d][at[d]] = <<"fork", channel[d].about>>
      BY DEF CloneInv, AskerInv
    <3> QED BY <3>1, <3>2
  <2>7. ChannelInv'
    <3>1. ASSUME NEW d \in Clones \ {c}
          PROVE  /\ channel'[d].answer => channel'[d].request = "none"
                 /\ channel'[d].request = "register" => channel'[d].about = d
                 /\ broker'[d].does = "share" => channel'[d].request \in {"pipe", "channel"}
                 /\ broker'[d].does = "wait" => channel'[d].request = "spawn"
      <4>1. channel'[d] = channel[d]
        BY <2>1
      <4>2. /\ channel[d].answer => channel[d].request = "none"
            /\ channel[d].request = "register" => channel[d].about = d
            /\ broker[d].does = "share" => channel[d].request \in {"pipe", "channel"}
            /\ broker[d].does = "wait" => channel[d].request = "spawn"
        BY DEF CloneInv, ChannelInv
      <4> QED BY <4>1, <4>2
    <3>2. /\ broker'[c].does = "share" => channel'[c].request \in {"pipe", "channel"}
          /\ broker'[c].does = "wait" => channel'[c].request = "spawn"
      BY DEF CloneInv, ChannelInv
    <3> QED BY <2>1, <3>1, <3>2 DEF ChannelInv
  <2> QED BY <2>4, <2>5, <2>6, <2>7 DEF CloneInv
<1> QED BY <1>1, <1>2

\* A broker starts another only for a clone that does not exist yet.
LEMMA BrokerSteps == ASSUME CloneInv, NEW c \in Clones, BrokerStep(c) PROVE CloneInv'
<1> USE ShellsAre
<1>1. CASE MakeEnds(c)
  <2>1. /\ broker' = [broker EXCEPT ![c].does = "share"] /\ UNCHANGED <<alive, at, step, channel>>
        /\ channel[c].request \in {"pipe", "channel"}
    BY <1>1 DEF MakeEnds, Reads
  <2>2. BrokerTypes' /\ \A d \in Clones : broker'[d].serves = broker[d].serves
    BY <2>1 DEF CloneInv, BrokerTypes
  <2>3. \A d \in Clones : d # c => broker'[d] = broker[d]
    BY <2>1 DEF CloneInv, BrokerTypes
  <2>4. broker'[c].does = "share"
    BY <2>1 DEF CloneInv, BrokerTypes
  <2> QED BY <2>1, <2>2, <2>3, <2>4, BrokerChange
<1>2. CASE ShareEnds(c)
  <2> DEFINE n == channel[c].about
             pipe == channel[c].request = "pipe"
  <2>1. /\ broker[c].does = "share" /\ Answers(c) /\ UNCHANGED <<alive, at, step>>
        /\ broker' = [d \in Clones |->
              IF d = c THEN [broker[c] EXCEPT !.does = "read"]
              ELSE IF d = n /\ ~pipe THEN [does |-> "read", serves |-> broker[c].serves] ELSE broker[d]]
    BY <1>2 DEF ShareEnds
  <2>2. channel[c].request \in {"pipe", "channel"}
    BY <2>1 DEF CloneInv, ChannelInv
  <2>3. BrokerTypes'
    <3>1. channel' \in [Clones -> Message]
      BY <2>1, AnswersIs DEF CloneInv
    <3> QED BY <2>1, <3>1 DEF CloneInv, BrokerTypes
  <2>4. n \in Clones /\ ~pipe => alive[n] = "none"
    <3> SUFFICES ASSUME n \in Clones, ~pipe PROVE alive[n] = "none"
      OBVIOUS
    <3>1. channel[c].request = "channel" /\ "channel" \in OwnRequests
      BY <2>2 DEF OwnRequests
    <3>2. step[c] = "answer" /\ at[c] \in DOMAIN Script[c] /\ Script[c][at[c]] = <<"fork", n>>
      BY <3>1 DEF CloneInv, AskerInv
    <3>3. ForkAt(c, at[c], n)
      BY <3>2 DEF CloneInv, ForkInv
    <3> QED BY <3>2, <3>3 DEF ForkAt
  <2>5. \A d \in Clones : \/ broker'[d].serves = broker[d].serves
                          \/ alive[d] = "none"
    BY <2>1, <2>4 DEF CloneInv, BrokerTypes
  <2>6. \A d \in Clones : broker'[d].does = "read" \/ (d # c /\ broker'[d] = broker[d])
    BY <2>1 DEF CloneInv, BrokerTypes
  <2> QED BY <2>1, <2>2, <2>3, <2>5, <2>6, BrokerChange
<1>3. CASE BrokerRegisters(c)
  <2>1. /\ channel[c].request = "register" /\ Answers(c) /\ UNCHANGED <<alive, at, step>>
        /\ broker' = [broker EXCEPT ![c].serves = channel[c].about] /\ broker[c].does = "read"
    BY <1>3 DEF BrokerRegisters, Reads
  <2>2. channel[c].about = c
    BY <2>1 DEF CloneInv, ChannelInv
  <2>3. BrokerTypes'
    <3>1. channel' \in [Clones -> Message]
      BY <2>1, AnswersIs DEF CloneInv
    <3> QED BY <2>1, <2>2, <3>1 DEF CloneInv, BrokerTypes
  <2>4. broker'[c].serves = c /\ broker'[c].does = "read" /\ \A d \in Clones : d # c => broker'[d] = broker[d]
    BY <2>1, <2>2 DEF CloneInv, BrokerTypes
  <2> QED BY <2>1, <2>3, <2>4, BrokerChange
<1>4. CASE SpawnProgram(c)
  <2>1. /\ broker' = [broker EXCEPT ![c].does = "wait"] /\ UNCHANGED <<alive, at, step, channel>>
        /\ channel[c].request = "spawn"
    BY <1>4 DEF SpawnProgram, Reads
  <2>2. BrokerTypes' /\ \A d \in Clones : broker'[d].serves = broker[d].serves
    BY <2>1 DEF CloneInv, BrokerTypes
  <2>3. broker'[c].does = "wait" /\ \A d \in Clones : d # c => broker'[d] = broker[d]
    BY <2>1 DEF CloneInv, BrokerTypes
  <2> QED BY <2>1, <2>2, <2>3, BrokerChange
<1>5. CASE ProgramWaited(c)
  <2>1. /\ broker' = [broker EXCEPT ![c].does = "read"] /\ UNCHANGED <<alive, at, step>>
        /\ broker[c].does = "wait" /\ Answers(c)
    BY <1>5 DEF ProgramWaited
  <2>2. channel[c].request = "spawn"
    BY <2>1 DEF CloneInv, ChannelInv
  <2>3. BrokerTypes' /\ \A d \in Clones : broker'[d].serves = broker[d].serves
    <3>1. channel' \in [Clones -> Message]
      BY <2>1, AnswersIs DEF CloneInv
    <3> QED BY <2>1, <3>1 DEF CloneInv, BrokerTypes
  <2>4. broker'[c].does = "read" /\ \A d \in Clones : d # c => broker'[d] = broker[d]
    BY <2>1 DEF CloneInv, BrokerTypes
  <2> QED BY <2>1, <2>2, <2>3, <2>4, BrokerChange
<1>6. CASE BrokerEnds(c)
  <2>1. broker' = [broker EXCEPT ![c].does = "ended"] /\ UNCHANGED <<alive, at, step, channel>>
    BY <1>6 DEF BrokerEnds
  <2>2. BrokerTypes' /\ \A d \in Clones : broker'[d].serves = broker[d].serves
    BY <2>1 DEF CloneInv, BrokerTypes
  <2>3. broker'[c].does = "ended" /\ \A d \in Clones : d # c => broker'[d] = broker[d]
    BY <2>1 DEF CloneInv, BrokerTypes
  <2> QED BY <2>1, <2>2, <2>3, BrokerChange
<1> QED BY <1>1, <1>2, <1>3, <1>4, <1>5, <1>6 DEF BrokerStep

\* Every step keeps the invariant.
LEMMA CloneNext == ASSUME CloneInv, [BNext]_bvars PROVE CloneInv'
<1> USE ShellsAre
<1>1. CASE UNCHANGED bvars \/ \E c \in Clones : ProgramEnds(c)
  <2>1. UNCHANGED <<alive, at, step, broker, channel>>
    BY <1>1 DEF bvars, ProgramEnds
  <2> QED
    BY <2>1 DEF CloneInv, BrokerTypes, ChannelInv, AskerInv, ForkInv, ForkAt, ServesInv
<1>2. ASSUME NEW p \in Shells, ShellStep(p) PROVE CloneInv'
  BY <1>2, AskerSteps, CloneStep, RegisterStep, ResumeStep, DirectSteps, CloneExitsStep DEF ShellStep
<1>3. CASE RootStep
  BY <1>2, <1>3, DirectSteps, StartBrokerStep DEF RootStep
<1>4. CASE \E c \in Clones : BrokerStep(c)
  BY <1>4, BrokerSteps
<1> QED BY <1>1, <1>2, <1>3, <1>4 DEF BNext

\* Whatever the shells and their clones do and whichever broker is refused, a broker that works for a
\* clone copies handles into the table of that clone, not of the one that made it.
THEOREM AnswersAreDelivered == BSpec => []AnswersReachTheAsker
<1>1. CloneInv => AnswersReachTheAsker
  BY ShellsAre DEF CloneInv, AskerInv, ServesInv, AnswersReachTheAsker, OwnRequests
<1> QED BY <1>1, CloneInit, CloneNext, PTL DEF BSpec
=============================================================================
