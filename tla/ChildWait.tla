----------------------------- MODULE ChildWait -----------------------------
(***************************************************************************)
(* Collecting children: the reaper of crates/nsh/src/jobs/wait.rs, the set *)
(* of forked children of jobs/children.rs, the signal inbox of             *)
(* signal_inbox.rs and the `wait' built-in of builtins/wait.rs.            *)
(*                                                                         *)
(* Three parties interleave: the kernel (children stop and die, signals    *)
(* become pending), the signal handler (which runs on the shell's own      *)
(* thread, between any two of its steps, unless signals are blocked) and   *)
(* the shell, whose wait loop is followed system call by system call.      *)
(*                                                                         *)
(* Abstractions.  The insertion order of `forked_children' and of the job  *)
(* list is left out: a scan meets the children in any order.  An exit code *)
(* is left out: a child has exited or it has stopped.  The report that     *)
(* `set -b' makes from within wait_once is in module JobTable.             *)
(***************************************************************************)
EXTENDS Naturals, FiniteSets

CONSTANTS
  Proc,        \* processes this shell forks
  Host,        \* children the embedding host forked for itself
  Job,         \* jobs
  Members,     \* Members[j]: the processes of job j's pipeline
  JobControl,  \* shell.jobs.job_control: waits report stopped children
  Trapped,     \* signals with a trap set: the inbox mirror bits
  Sent,        \* asynchronous signals the environment may send
  MaxSent,     \* bound: how many of them it sends
  MaxCommands, \* bound: how many commands the shell runs
  Faults,      \* what may go wrong: "steal" (the host reaps a child of the
               \* shell), "pipe" (a pipeline is abandoned part way), "tty"
               \* (restart_job fails after the job was marked running)
  Mortal,      \* fairness: the children that certainly exit some day
  None         \* the absent signal, job and process

Signal == {"CHLD", "INT", "USR"}

ASSUME ChildWaitAssumption ==
  /\ Proc \cap Host = {}
  /\ Members \in [Job -> SUBSET Proc]
  /\ \A i, j \in Job : i # j => Members[i] \cap Members[j] = {}
  /\ JobControl \in BOOLEAN
  /\ Faults \subseteq {"steal", "pipe", "tty"}
  /\ Mortal \subseteq Proc \cup Host
  /\ Trapped \subseteq Signal
  /\ Sent \subseteq {"INT", "USR"}
  /\ MaxSent \in Nat
  /\ MaxCommands \in Nat
  /\ None \notin Proc \cup Host \cup Job \cup Signal

VARIABLES
  kernel,       \* the operating system's view of every process
  kpend,        \* signals pending in the kernel, not yet delivered
  sent,         \* how many asynchronous signals were sent
  stolen,       \* children of the shell that the host reaped
  hostGot,      \* host children whose status the host itself collected
  childPending, \* signal_inbox: child_pending
  pendingSig,   \* signal_inbox: pending
  intPending,   \* signal_inbox: interrupt_pending
  forked,       \* shell.forked_children
  procs,        \* the processes recorded in each job
  rec,          \* ProcessRecord::status of every process: None, stop or exit
  jobState,     \* JobState, or "free" for a vacant slot
  lastps,       \* shell.last_process_substitution
  pc,           \* where the shell is
  w,            \* the wait in progress: mode, job, caller, deferral, completed
  todo,         \* the rest of the snapshot the scan is walking
  target,       \* the process a blocking wait came to rest on
  outcome,      \* the WaitOutcome of the last wait_for_process
  result,       \* how the last command ended
  commands      \* how many commands were started

osVars     == <<kernel, kpend, sent, stolen, hostGot>>
inboxVars  == <<childPending, pendingSig, intPending>>
tableVars  == <<forked, procs, rec, jobState, lastps>>
waitVars   == <<pc, w, todo, target, outcome, result, commands>>
vars       == <<osVars, inboxVars, tableVars, waitVars>>

ProcState == {"unborn", "running", "stopReady", "stopped", "zombie", "gone"}
Mode      == {"Poll", "Block", "Command", "CommandAll"}
Caller    == {"fg", "poll", "wait", "waitall"}
Wait      == [mode : Mode, job : Job \cup {None}, caller : Caller,
              deferred : BOOLEAN, completed : BOOLEAN]

\* The places the wait loop can be in, and the ones where signals are blocked.
Waiting == {"entry", "clear", "scan", "blocked", "masked", "suspended",
            "unmasked", "observe", "done", "waitall", "pswait", "eintr", "psint"}
Places  == {"idle", "ready"} \cup Waiting
Masked  == {"masked"}

TypeOK ==
  /\ kernel \in [Proc \cup Host -> ProcState]
  /\ kpend \subseteq Signal
  /\ sent \in Nat
  /\ stolen \subseteq Proc
  /\ hostGot \subseteq Host
  /\ childPending \in BOOLEAN
  /\ pendingSig \in Signal \cup {None}
  /\ intPending \in BOOLEAN
  /\ forked \subseteq Proc
  /\ procs \in [Job -> SUBSET Proc]
  /\ rec \in [Proc -> {"none", "stop", "exit"}]
  /\ jobState \in [Job -> {"free", "Running", "Stopped", "Done"}]
  /\ lastps \in Proc \cup {None}
  /\ pc \in Places
  /\ w \in Wait
  /\ todo \subseteq Proc
  /\ target \in Proc \cup {None}
  /\ outcome \in {"none", "reaped", "interrupted", "exhausted"}
  /\ result \in {"none", "ok", "interrupted", "error"}
  /\ commands \in Nat

NoWait == [mode |-> "Poll", job |-> None, caller |-> "poll",
           deferred |-> FALSE, completed |-> TRUE]

Init ==
  /\ kernel = [p \in Proc \cup Host |-> IF p \in Host THEN "running" ELSE "unborn"]
  /\ kpend = {} /\ sent = 0 /\ stolen = {} /\ hostGot = {}
  /\ childPending = FALSE /\ pendingSig = None /\ intPending = FALSE
  /\ forked = {} /\ procs = [j \in Job |-> {}] /\ rec = [p \in Proc |-> "none"]
  /\ jobState = [j \in Job |-> "free"] /\ lastps = None
  /\ pc = "idle" /\ w = NoWait /\ todo = {} /\ target = None
  /\ outcome = "none" /\ result = "none" /\ commands = 0

-----------------------------------------------------------------------------
(* The kernel and the embedding host.                                      *)

\* A child dies; its parent gets SIGCHLD whoever that parent's code is.
Exit(p) ==
  /\ kernel[p] \in {"running", "stopReady", "stopped"}
  /\ kernel' = [kernel EXCEPT ![p] = "zombie"]
  /\ kpend' = kpend \cup {"CHLD"}
  /\ UNCHANGED <<sent, stolen, hostGot, inboxVars, tableVars, waitVars>>

\* A child of the shell is stopped, from the terminal or by kill -STOP.
Stop(p) ==
  /\ kernel[p] = "running"
  /\ kernel' = [kernel EXCEPT ![p] = "stopReady"]
  /\ kpend' = kpend \cup {"CHLD"}
  /\ UNCHANGED <<sent, stolen, hostGot, inboxVars, tableVars, waitVars>>

\* Somebody sends the shell a signal of its own.
Send(s) ==
  /\ sent < MaxSent
  /\ sent' = sent + 1
  /\ kpend' = kpend \cup {s}
  /\ UNCHANGED <<kernel, stolen, hostGot, inboxVars, tableVars, waitVars>>

\* The host waits for its own child by name.
HostReap(h) ==
  /\ kernel[h] = "zombie"
  /\ kernel' = [kernel EXCEPT ![h] = "gone"]
  /\ hostGot' = hostGot \cup {h}
  /\ UNCHANGED <<kpend, sent, stolen, inboxVars, tableVars, waitVars>>

\* A host that ignores the rules reaps a child of the shell.
HostSteal(p) ==
  /\ "steal" \in Faults
  /\ kernel[p] = "zombie"
  /\ kernel' = [kernel EXCEPT ![p] = "gone"]
  /\ stolen' = stolen \cup {p}
  /\ UNCHANGED <<kpend, sent, hostGot, inboxVars, tableVars, waitVars>>

-----------------------------------------------------------------------------
(* The signal handler: SignalSink::raise.  It runs on the shell's thread,  *)
(* so a blocking system call in progress returns EINTR; sigsuspend returns *)
(* with every signal blocked again.                                        *)

raise(s) ==
  /\ childPending' = (childPending \/ s = "CHLD")
  /\ pendingSig' = IF s = "CHLD" /\ s \notin Trapped THEN pendingSig ELSE s
  /\ intPending' = (intPending \/ (s = "INT" /\ s \notin Trapped))

InterruptCall ==
  CASE pc = "blocked"   -> pc' = "eintr"
    [] pc = "pswait"    -> pc' = "psint"
    [] pc = "suspended" -> pc' = "masked"
    [] OTHER            -> pc' = pc

Deliver(s) ==
  /\ s \in kpend
  /\ pc \notin Masked
  /\ kpend' = kpend \ {s}
  /\ raise(s)
  /\ InterruptCall
  /\ UNCHANGED <<kernel, sent, stolen, hostGot, tableVars,
                 w, todo, target, outcome, result, commands>>
-----------------------------------------------------------------------------
(* wait_for_process and wait_once: one status is looked for and recorded.  *)

\* What waitpid(p, WNOHANG | WUNTRACED) would report on.
Reportable(p) ==
  \/ kernel[p] = "zombie"
  \/ kernel[p] = "stopReady" /\ JobControl

Without(p) == forked \ {p}

\* record_child_status, over the statuses r of a job's processes.
StateOf(ps, r) ==
  IF \E p \in ps : r[p] = "none" THEN "Running"
  ELSE IF \E p \in ps : r[p] = "stop" THEN "Stopped"
  ELSE "Done"

\* Mutant: only the job being waited for records the status.
TakeForWaited(p) ==
  LET exits == kernel[p] = "zombie"
      r     == [rec EXCEPT ![p] = IF exits THEN "exit" ELSE "stop"]
      owner == {j \in Job : j = w.job /\ p \in procs[j]}
  IN /\ kernel' = [kernel EXCEPT ![p] = IF exits THEN "gone" ELSE "stopped"]
     /\ forked' = IF exits THEN Without(p) ELSE forked
     /\ rec' = IF owner = {} THEN rec ELSE r
     /\ jobState' = [j \in Job |->
          IF j \in owner /\ StateOf(procs[j], r) # "Running"
          THEN StateOf(procs[j], r) ELSE jobState[j]]

\* A waitpid that answered: the status is taken, a dead child given up, and
\* the first live job that is not done and holds the process records it; a
\* computed state of Running leaves the stored state alone.
Take(p) ==
  LET exits == kernel[p] = "zombie"
      r     == [rec EXCEPT ![p] = IF exits THEN "exit" ELSE "stop"]
      owner == {j \in Job : jobState[j] \in {"Running", "Stopped"} /\ p \in procs[j]}
  IN /\ kernel' = [kernel EXCEPT ![p] = IF exits THEN "gone" ELSE "stopped"]
     /\ forked' = IF exits THEN Without(p) ELSE forked
     /\ rec' = IF owner = {} THEN rec ELSE r
     /\ jobState' = [j \in Job |->
          IF j \in owner /\ StateOf(procs[j], r) # "Running"
          THEN StateOf(procs[j], r) ELSE jobState[j]]

WaitFrame == <<kpend, sent, stolen, hostGot, pendingSig, intPending, procs, lastps,
               w, result, commands>>

\* signals.set_child_pending(false), then snapshot the set.
ClearAndSnapshot ==
  /\ pc = "clear"
  /\ childPending' = FALSE
  /\ todo' = forked
  /\ pc' = "scan"
  /\ UNCHANGED <<WaitFrame, kernel, forked, rec, jobState, target, outcome>>

\* One iteration of scan_forked_children.
ScanReaped(p) ==
  /\ pc = "scan" /\ p \in todo /\ Reportable(p)
  /\ Take(p)
  /\ outcome' = "reaped" /\ pc' = "observe" /\ todo' = {}
  /\ UNCHANGED <<WaitFrame, childPending, target>>

ScanNotReady(p) ==
  /\ pc = "scan" /\ p \in todo /\ ~Reportable(p)
  /\ todo' = todo \ {p}
  /\ forked' = IF kernel[p] = "gone" THEN Without(p) ELSE forked
  /\ UNCHANGED <<WaitFrame, childPending, kernel, rec, jobState, pc, target, outcome>>

\* Mutant: block on any child of the shell.
AnyTarget == forked

\* unfinished_process and ForkedChildren::blocking_target.
BlockingTargets ==
  LET mine == IF w.job = None THEN {} ELSE {p \in procs[w.job] : rec[p] = "none"}
  IN IF mine # {} /\ mine \subseteq forked THEN mine ELSE forked

\* Mutant: child_pending is cleared after the scan instead of before it.
ScanEndsClears ==
  /\ pc = "scan" /\ todo = {}
  /\ \/ /\ forked = {} \/ w.mode = "Poll"
        /\ outcome' = "exhausted" /\ pc' = "observe" /\ UNCHANGED target
     \/ /\ forked # {} /\ w.mode = "Block"
        /\ target' \in BlockingTargets
        /\ pc' = "blocked" /\ UNCHANGED outcome
     \/ /\ forked # {} /\ w.mode \in {"Command", "CommandAll"}
        /\ pc' = "masked" /\ UNCHANGED <<target, outcome>>
  /\ childPending' = FALSE
  /\ UNCHANGED <<WaitFrame, kernel, forked, rec, jobState, todo>>

\* The end of the scan: nothing to wait for, nothing ready, or come to rest.
ScanEnds ==
  /\ pc = "scan" /\ todo = {}
  /\ \/ /\ forked = {} \/ w.mode = "Poll"
        /\ outcome' = "exhausted" /\ pc' = "observe" /\ UNCHANGED target
     \/ /\ forked # {} /\ w.mode = "Block"
        /\ target' \in BlockingTargets
        /\ pc' = "blocked" /\ UNCHANGED outcome
     \/ /\ forked # {} /\ w.mode \in {"Command", "CommandAll"}
        /\ pc' = "masked" /\ UNCHANGED <<target, outcome>>
  /\ UNCHANGED <<WaitFrame, childPending, kernel, forked, rec, jobState, todo>>

\* block_for_child: the blocking waitpid answers, or says ECHILD.
BlockReaped ==
  /\ pc = "blocked" /\ Reportable(target)
  /\ Take(target)
  /\ outcome' = "reaped" /\ pc' = "observe" /\ target' = None
  /\ UNCHANGED <<WaitFrame, childPending, todo>>

BlockGone ==
  /\ pc = "blocked" /\ kernel[target] = "gone"
  /\ forked' = Without(target) /\ target' = None /\ pc' = "clear"
  /\ UNCHANGED <<WaitFrame, childPending, kernel, rec, jobState, todo, outcome>>

\* The EINTR arm: poll_interrupt is asked inside wait_once's deferral scope,
\* where it always answers None, and the loop goes round.
Eintr ==
  /\ pc = "eintr"
  /\ pc' = "clear" /\ target' = None
  /\ UNCHANGED <<WaitFrame, childPending, kernel, forked, rec, jobState, todo, outcome>>

\* Mutant: the wait goes on after one wakeup without asking what it was.
CheckMaskedOnce ==
  /\ pc = "masked"
  /\ pc' = "unmasked"
  /\ UNCHANGED <<WaitFrame, childPending, kernel, forked, rec, jobState, todo, target, outcome>>

\* With every signal blocked: leave the loop, or sigsuspend.
CheckMasked ==
  /\ pc = "masked"
  /\ pc' = IF childPending \/ pendingSig # None THEN "unmasked" ELSE "suspended"
  /\ UNCHANGED <<WaitFrame, childPending, kernel, forked, rec, jobState, todo, target, outcome>>

\* The mask is dropped, so pending signals land before this read.
AfterSuspend ==
  /\ pc = "unmasked"
  /\ IF childPending
     THEN pc' = "clear" /\ UNCHANGED outcome
     ELSE pc' = "observe" /\ outcome' = "interrupted"
  /\ UNCHANGED <<WaitFrame, childPending, kernel, forked, rec, jobState, todo, target>>

-----------------------------------------------------------------------------
(* reap_children around it.                                                *)

\* poll_interrupt in a place whose own deferral depth is known.
Due(deferred) == intPending /\ ~deferred

NotRunning(j) == j # None /\ jobState[j] # "Running"

\* Entry: an already finished target polls; a poll without SIGCHLD is a no-op.
ReapEntry ==
  /\ pc = "entry"
  /\ LET mode == IF w.job # None /\ NotRunning(w.job) THEN "Poll" ELSE w.mode
     IN /\ w' = [w EXCEPT !.mode = mode]
        /\ pc' = IF mode = "Poll" /\ ~childPending THEN "done" ELSE "clear"
  /\ UNCHANGED <<osVars, inboxVars, tableVars, todo, target, outcome, result, commands>>

\* The end of wait_once polls for ^C at the caller's depth ...
ObserveInterrupt ==
  /\ pc = "observe" /\ Due(w.deferred)
  /\ intPending' = FALSE
  /\ pc' = "idle" /\ result' = "error"
  /\ UNCHANGED <<osVars, childPending, pendingSig, tableVars, w, todo, target, outcome, commands>>

\* Mutant: the loop stops as soon as its job is over.
ObserveStopsEarly ==
  /\ pc = "observe" /\ ~Due(w.deferred)
  /\ w' = [w EXCEPT !.completed = @ /\ outcome # "interrupted",
                    !.mode = IF @ = "CommandAll" \/ outcome = "interrupted" THEN "Poll" ELSE @]
  /\ pc' = IF outcome = "exhausted" \/ NotRunning(w.job) THEN "done" ELSE "clear"
  /\ UNCHANGED <<osVars, inboxVars, tableVars, todo, target, outcome, result, commands>>

\* ... and otherwise the loop of reap_children decides whether to go round.
Observe ==
  /\ pc = "observe" /\ ~Due(w.deferred)
  /\ w' = [w EXCEPT
       !.completed = @ /\ outcome # "interrupted",
       !.mode = IF \/ @ = "CommandAll"
                   \/ outcome = "interrupted"
                   \/ w.job # None /\ NotRunning(w.job)
                THEN "Poll" ELSE @]
  /\ pc' = IF outcome = "exhausted" THEN "done" ELSE "clear"
  /\ UNCHANGED <<osVars, inboxVars, tableVars, todo, target, outcome, result, commands>>

-----------------------------------------------------------------------------
(* The callers.                                                            *)

Reap(mode, j, caller, deferred) ==
  /\ w' = [mode |-> mode, job |-> j, caller |-> caller,
           deferred |-> deferred, completed |-> TRUE]
  /\ pc' = "entry"

Free(js) == jobState' = [j \in Job |-> IF j \in js THEN "free" ELSE jobState[j]]
DoneJobs == {j \in Job : jobState[j] = "Done"}

\* run_pending_traps, before every command: the inbox is drained.
Boundary ==
  /\ pc = "idle" /\ commands < MaxCommands
  /\ pendingSig' = None /\ intPending' = FALSE
  /\ pc' = "ready" /\ commands' = commands + 1 /\ result' = "none"
  /\ UNCHANGED <<osVars, childPending, tableVars, w, todo, target, outcome>>

\* create_job and the forks of a pipeline.
LaunchFrame == <<kpend, sent, stolen, hostGot, inboxVars, rec, lastps,
                 todo, target, outcome, commands>>

Forks(j, ps) ==
  /\ pc = "ready" /\ jobState[j] = "free"
  /\ \A p \in Members[j] : kernel[p] = "unborn"
  /\ kernel' = [p \in Proc \cup Host |-> IF p \in ps THEN "running" ELSE kernel[p]]
  /\ forked' = forked \cup ps
  /\ procs' = [procs EXCEPT ![j] = ps]
  /\ jobState' = [jobState EXCEPT ![j] = "Running"]

\* A foreground pipeline is waited for inside its deferral scope.
Foreground(j) ==
  /\ Forks(j, Members[j])
  /\ Reap("Block", j, "fg", TRUE)
  /\ UNCHANGED <<LaunchFrame, result>>

Background(j) ==
  /\ Forks(j, Members[j])
  /\ pc' = "idle" /\ result' = "ok"
  /\ UNCHANGED <<LaunchFrame, w>>

\* create_pipe or prepare_command_hash fails part way: the job keeps the
\* processes it has, and none of them is waited for.
Abandoned(j) ==
  /\ "pipe" \in Faults
  /\ \E ps \in SUBSET Members[j] : ps # Members[j] /\ Forks(j, ps)
  /\ pc' = "idle" /\ result' = "error"
  /\ UNCHANGED <<LaunchFrame, w>>

\* A process substitution is a child and nobody's job.
Substitution(p) ==
  /\ pc = "ready" /\ kernel[p] = "unborn" /\ \A j \in Job : p \notin Members[j]
  /\ kernel' = [kernel EXCEPT ![p] = "running"]
  /\ forked' = forked \cup {p} /\ lastps' = p
  /\ pc' = "idle" /\ result' = "ok"
  /\ UNCHANGED <<kpend, sent, stolen, hostGot, inboxVars, procs, rec, jobState,
                 w, todo, target, outcome, commands>>

CallFrame == <<osVars, inboxVars, tableVars, todo, target, outcome, result, commands>>

\* `jobs', the prompt, and the wait_for_job(None) after a built-in.
PollJobs   == pc = "ready" /\ Reap("Poll", None, "poll", FALSE) /\ UNCHANGED CallFrame
WaitFor(j) == /\ pc = "ready" /\ jobState[j] # "free"
              /\ Reap("Command", j, "wait", FALSE) /\ UNCHANGED CallFrame
WaitAll    == /\ pc = "ready" /\ pc' = "waitall" /\ UNCHANGED <<CallFrame, w>>

\* `wait $!' when $! names the last process substitution.
WaitSubstitution ==
  /\ pc = "ready" /\ lastps # None
  /\ pc' = "pswait" /\ UNCHANGED <<CallFrame, w>>

\* restart_job: mark the job running, SIGCONT its group, forget the stops;
\* `fg' then waits for it inside restart_job's deferral scope.
Continue(j) ==
  /\ kernel' = [p \in Proc \cup Host |->
       IF p \in procs[j] /\ kernel[p] \in {"stopReady", "stopped"} THEN "running"
       ELSE kernel[p]]
  /\ kpend' = kpend \cup {"CHLD"}
  /\ rec' = [p \in Proc |-> IF p \in procs[j] /\ rec[p] = "stop" THEN "none" ELSE rec[p]]
  /\ jobState' = [jobState EXCEPT ![j] = "Running"]

RestartFrame == <<sent, stolen, hostGot, inboxVars, forked, procs, lastps,
                  todo, target, outcome, commands>>

Restart(j) ==
  /\ pc = "ready" /\ JobControl
  /\ jobState[j] \in {"Running", "Stopped"} /\ procs[j] # {}
  /\ Continue(j)
  /\ \/ pc' = "idle" /\ result' = "ok" /\ UNCHANGED w
     \/ Reap("Block", j, "fg", TRUE) /\ UNCHANGED result
  /\ UNCHANGED RestartFrame

\* The error returns of restart_job come after Job::restart.
RestartFails(j) ==
  /\ pc = "ready" /\ JobControl /\ jobState[j] \in {"Running", "Stopped"}
  /\ procs[j] = {} \/ "tty" \in Faults
  /\ jobState' = [jobState EXCEPT ![j] = "Running"]
  /\ pc' = "idle" /\ result' = "error"
  /\ UNCHANGED <<RestartFrame, kernel, kpend, rec, w>>

\* restart_job leaves a completed job alone; `fg' still waits for it.
ForegroundDoneJob(j) ==
  /\ pc = "ready" /\ JobControl /\ jobState[j] = "Done"
  /\ Reap("Block", j, "fg", TRUE) /\ UNCHANGED CallFrame

\* The loop of `wait' without operands: the non-running jobs it passes are
\* waited for and dropped; with none running it turns to the substitution.
WaitAllLoop ==
  /\ pc = "waitall"
  /\ IF \E j \in Job : jobState[j] = "Running"
     THEN /\ \E js \in SUBSET DoneJobs : Free(js)
          /\ Reap("CommandAll", None, "waitall", FALSE)
          /\ UNCHANGED result
     ELSE /\ Free(DoneJobs)
          /\ pc' = IF lastps = None THEN "idle" ELSE "pswait"
          /\ result' = "ok"
          /\ UNCHANGED w
  /\ UNCHANGED <<osVars, inboxVars, forked, procs, rec, lastps, todo, target, outcome, commands>>

\* wait_for_process_substitution: block on that pid and on no other.
PsAnswered ==
  /\ pc = "pswait" /\ (kernel[lastps] = "zombie" \/ kernel[lastps] = "gone")
  /\ kernel' = [kernel EXCEPT ![lastps] = "gone"]
  /\ forked' = Without(lastps) /\ lastps' = None
  /\ pc' = "idle"
  /\ UNCHANGED <<kpend, sent, stolen, hostGot, inboxVars, procs, rec, jobState,
                 w, todo, target, outcome, result, commands>>

PsInterrupted ==
  /\ pc = "psint"
  /\ intPending' = FALSE
  /\ pc' = IF intPending \/ pendingSig # None THEN "idle" ELSE "pswait"
  /\ result' = IF intPending THEN "error"
               ELSE IF pendingSig # None THEN "interrupted" ELSE result
  /\ UNCHANGED <<osVars, childPending, pendingSig, tableVars, w, todo, target, outcome, commands>>

\* The caller takes over again.
ReturnFrame == <<osVars, inboxVars, forked, procs, rec, lastps, w, todo, target,
                 outcome, commands>>

ForegroundDone ==
  /\ pc = "done" /\ w.caller = "fg"
  /\ Free({w.job} \cap DoneJobs)
  /\ pc' = "idle" /\ result' = "ok" /\ UNCHANGED ReturnFrame

PollDone ==
  /\ pc = "done" /\ w.caller = "poll"
  /\ Free(DoneJobs)
  /\ pc' = "idle" /\ result' = "ok" /\ UNCHANGED ReturnFrame

WaitForDone ==
  /\ pc = "done" /\ w.caller = "wait"
  /\ Free(IF w.completed THEN {w.job} \cap DoneJobs ELSE {})
  /\ pc' = "idle" /\ result' = (IF w.completed THEN "ok" ELSE "interrupted")
  /\ UNCHANGED ReturnFrame

WaitAllDone ==
  /\ pc = "done" /\ w.caller = "waitall"
  /\ IF w.completed THEN pc' = "waitall" /\ UNCHANGED result
     ELSE pc' = "idle" /\ result' = "interrupted"
  /\ UNCHANGED <<ReturnFrame, jobState>>

-----------------------------------------------------------------------------
Environment ==
  \/ \E p \in Proc \cup Host : Exit(p)
  \/ \E p \in Proc : Stop(p)
  \/ \E s \in Sent : Send(s)
  \/ \E h \in Host : HostReap(h)
  \/ \E p \in Proc : HostSteal(p)

Commands ==
  \/ Boundary
  \/ \E j \in Job : Foreground(j) \/ Background(j) \/ Abandoned(j) \/ WaitFor(j)
                    \/ Restart(j) \/ RestartFails(j) \/ ForegroundDoneJob(j)
  \/ \E p \in Proc : Substitution(p)
  \/ PollJobs
  \/ WaitAll
  \/ WaitSubstitution

WaitStep ==
  \/ ReapEntry \/ ClearAndSnapshot \/ ScanEnds
  \/ \E p \in todo : ScanReaped(p) \/ ScanNotReady(p)
  \/ BlockReaped \/ BlockGone \/ Eintr
  \/ CheckMasked \/ AfterSuspend
  \/ ObserveInterrupt \/ Observe
  \/ WaitAllLoop \/ PsAnswered \/ PsInterrupted
  \/ ForegroundDone \/ PollDone \/ WaitForDone \/ WaitAllDone

Next == Environment \/ (\E s \in Signal : Deliver(s)) \/ Commands \/ WaitStep

Spec == Init /\ [][Next]_vars

\* The shell runs while it can, the kernel delivers a signal that is unblocked
\* again and again, and the children in Mortal exit.  Nothing else is promised:
\* not that a command is ever typed, nor that any other child ends.
FairSpec ==
  /\ Spec
  /\ WF_vars(WaitStep)
  /\ \A s \in Signal : SF_vars(Deliver(s))
  /\ \A p \in Mortal : WF_vars(Exit(p))

-----------------------------------------------------------------------------
(* Properties.                                                             *)

\* wait_for_process clears child_pending before it scans and checks it again
\* with every signal blocked: a shell that sleeps in sigsuspend while one of
\* its children has a status to report has the SIGCHLD for it still pending in
\* the kernel, so the sleep ends.
NoLostWakeup ==
  (pc = "suspended" /\ \E p \in forked : Reportable(p)) => "CHLD" \in kpend

\* builtins/wait.rs unwraps pending_signal with "an interrupted wait records
\* its signal": whenever reap_children or wait_for_process_substitution reports
\* an interruption to the wait built-in there is a signal to report.
InterruptedHasSignal ==
  (pc = "done" /\ ~w.completed) \/ result = "interrupted" => pendingSig # None

\* Naming the child in every waitpid keeps each status with its owner: a host
\* child's status goes to the host, and a status taken from a process of a live
\* job is in that job's record.
StatusReachesItsOwner ==
  /\ \A h \in Host : kernel[h] = "gone" => h \in hostGot
  /\ \A j \in Job : jobState[j] # "free" =>
       \A p \in procs[j] : kernel[p] = "gone" => p \in stolen \/ rec[p] = "exit"

\* The comment above wait_for_process: the reaper is called over and over until
\* every dead child is collected, "otherwise zombies may linger".  Between
\* commands a dead child is either collected or announced by a SIGCHLD.
NoLingeringZombie ==
  pc = "idle" => \A p \in forked : kernel[p] = "zombie" => childPending \/ "CHLD" \in kpend

\* wait_for_job returns once the processes of its own job are over, whatever
\* the other children of the shell do, and `wait' without operands ends once
\* every child has exited.
WaitsReturn ==
  /\ (pc = "entry" /\ w.caller = "fg" /\ procs[w.job] \subseteq Mortal) ~> (pc = "idle")
  /\ (pc = "waitall" /\ forked \subseteq Mortal) ~> (pc = "idle")
=============================================================================
