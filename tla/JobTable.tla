------------------------------ MODULE JobTable ------------------------------
(***************************************************************************)
(* The job table of crates/nsh/src/jobs/model.rs and jobs.rs: the slots, the *)
(* presentation order that `%+', `%-', `fg' and `exit' go by, and the       *)
(* operations that create, reorder, report and remove jobs (jobs/fork.rs,   *)
(* jobs/wait.rs, builtins/jobs.rs, fg.rs, wait.rs, exit.rs).                *)
(*                                                                         *)
(* The reaper itself is module ChildWait: here a status simply arrives at   *)
(* any time except while a pipeline is being forked, when nothing reaps.    *)
(* Process ids, command texts and the terminal are left out; a process is   *)
(* its position in its job and its last reported status.                    *)
(***************************************************************************)
EXTENDS Integers, Sequences, FiniteSets

CONSTANTS
  MaxSlots,  \* bound: how many slots the table may grow to
  GrowBy,    \* how many slots reserve_job_slot adds (4 in the code)
  MaxProcs,  \* bound: how long a pipeline is
  Faults,    \* "pipe" (a pipeline is abandoned while it is being forked),
             \* "fork" (fork(2) fails), "tty" (restart_job or
             \* wait_for_job fails half way: the terminal, or SIGCONT),
             \* "kill" (a stopped process is killed instead of continued)
  NoJob

ASSUME JobTableAssumption ==
  /\ MaxSlots \in Nat /\ GrowBy \in Nat \ {0} /\ MaxProcs \in Nat \ {0}
  /\ Faults \subseteq {"pipe", "fork", "tty", "kill"}

Id    == 0 .. MaxSlots - 1
State == {"Running", "Stopped", "Done"}
Job   == [state : State, procs : Seq({"none", "stop", "exit"}), stopStatus : BOOLEAN,
          control : BOOLEAN, waited : BOOLEAN, changed : BOOLEAN]

ASSUME NoJobAssumption == NoJob \notin Job /\ NoJob \notin Id

VARIABLES
  slots,      \* shell.jobs.slots: a Job or NoJob for each slot
  size,       \* shell.jobs.slots.len()
  order,      \* shell.jobs.order, front first
  jobControl, \* shell.jobs.job_control
  warning,    \* shell.jobs.job_warning
  phase,      \* what the shell is doing
  cur,        \* the job being forked or waited for in the foreground
  left,       \* how many processes of cur are still to be forked
  mode,       \* the ForkMode of the pipeline being forked
  todo,       \* the rest of the order_snapshot a built-in is walking
  walk,       \* what it does with each: "list", "notify" or "wait"
  since       \* history: records parsed since `exit' was last refused, up to 2

jvars == <<slots, size, order, jobControl, warning, phase, cur, left, mode, todo,
          walk, since>>

Live       == {id \in Id : slots[id] # NoJob}
Is(id, st) == slots[id] # NoJob /\ slots[id].state = st

JTypeOK ==
  /\ slots \in [Id -> Job \cup {NoJob}]
  /\ size \in Nat /\ Live \subseteq 0 .. size - 1
  /\ order \in Seq(Id)
  /\ jobControl \in BOOLEAN
  /\ warning \in {"Ready", "Reported", "Grace"}
  /\ phase \in {"ready", "forking", "waiting", "walking", "exited"}
  /\ cur \in Id \cup {NoJob}
  /\ left \in Nat
  /\ mode \in {"Foreground", "Background"}
  /\ todo \in Seq(Id)
  /\ walk \in {"list", "notify", "wait"}
  /\ since \in 0 .. 2

NewJob == [state |-> "Running", procs |-> <<>>, stopStatus |-> FALSE,
           control |-> jobControl, waited |-> FALSE, changed |-> FALSE]

JInit ==
  /\ slots = [id \in Id |-> NoJob] /\ size = 0
  /\ order = <<>>
  /\ jobControl \in BOOLEAN
  /\ warning = "Ready" /\ phase = "ready" /\ cur = NoJob /\ left = 0
  /\ mode = "Foreground" /\ todo = <<>> /\ walk = "list" /\ since = 2

-----------------------------------------------------------------------------
(* The order.  An id occurs in it at most once (OrderIsLive), so `retain'   *)
(* has at most one element to drop.                                        *)

Retain(o, id) ==
  IF \E k \in 1 .. Len(o) : o[k] = id
  THEN LET k == CHOOSE k \in 1 .. Len(o) : o[k] = id
       IN [i \in 1 .. Len(o) - 1 |-> IF i < k THEN o[i] ELSE o[i + 1]]
  ELSE o

Insert(o, k, id) ==
  [i \in 1 .. Len(o) + 1 |-> IF i < k THEN o[i] ELSE IF i = k THEN id ELSE o[i - 1]]

\* Mutant: a job is put in front without being taken out of its old place.
InFront(o, id) == Insert(o, 1, id)

\* occupy_current and position_stopped.
ToFront(o, id) == Insert(Retain(o, id), 1, id)

\* Mutant: a started job always becomes the current one.
NoneAhead(o, s) == {}

\* The positions of the leading stopped jobs of an order.
LeadingStopped(o, s) ==
  {k \in 1 .. Len(o) : \A i \in 1 .. k : s[o[i]].state = "Stopped"}

\* position_running: in front of the first job that is not stopped.
BehindStopped(o, s, id) ==
  LET r == Retain(o, id)
  IN Insert(r, Cardinality(LeadingStopped(r, s)) + 1, id)

\* remove: the slot is taken and the order repaired.
Drop(id) ==
  /\ slots' = [slots EXCEPT ![id] = NoJob]
  /\ order' = Retain(order, id)

-----------------------------------------------------------------------------
(* Creating a job and forking its processes.                               *)

\* The slots create_job may take: vacant, or done and waited for (a shell with
\* job control keeps those until it has reported them).
Reclaimable(id) ==
  slots[id] = NoJob \/ (Is(id, "Done") /\ slots[id].waited /\ ~jobControl)

\* reserve_job_slot answers the first of the slots it adds.
reserve_job_slot == size

\* create_job: the first such slot, or the first of GrowBy new ones.
create_job(n, m) ==
  LET free == {i \in Id : i < size /\ Reclaimable(i)}
  IN /\ phase = "ready"
     /\ \E id \in Id :
          /\ \/ id \in free /\ (\A i \in free : id <= i) /\ UNCHANGED size
             \/ free = {} /\ id = reserve_job_slot
                /\ size' = size + GrowBy /\ size' <= MaxSlots
          /\ slots' = [slots EXCEPT ![id] = NewJob]
          /\ order' = ToFront(order, id)
          /\ cur' = id
     /\ phase' = "forking" /\ left' = n /\ mode' = m
     /\ UNCHANGED <<jobControl, warning, todo, walk, since>>

\* record_forked_child; the last fork starts the wait or leaves the job behind.
record_forked_child ==
  /\ phase = "forking" /\ left > 0
  /\ order' = IF mode = "Background" THEN BehindStopped(order, slots, cur) ELSE order
  /\ slots' = [slots EXCEPT ![cur].procs = Append(@, "none")]
  /\ left' = left - 1
  /\ phase' = IF left > 1 THEN "forking" ELSE IF mode = "Background" THEN "ready" ELSE "waiting"
  /\ cur' = IF left = 1 /\ mode = "Background" THEN NoJob ELSE cur
  /\ mode' = IF left = 1 THEN "Foreground" ELSE mode
  /\ UNCHANGED <<size, jobControl, warning, todo, walk, since>>

\* fork_shell's error arm removes the job with the processes it already has.
ForkFails ==
  /\ "fork" \in Faults /\ phase = "forking"
  /\ Drop(cur)
  /\ phase' = "ready" /\ cur' = NoJob /\ left' = 0 /\ mode' = "Foreground"
  /\ UNCHANGED <<size, jobControl, warning, todo, walk, since>>

\* create_pipe or prepare_command_hash fails: the job stays where it is.
Abandon ==
  /\ "pipe" \in Faults /\ phase = "forking"
  /\ phase' = "ready" /\ cur' = NoJob /\ left' = 0 /\ mode' = "Foreground"
  /\ UNCHANGED <<slots, size, order, jobControl, warning, todo, walk, since>>

-----------------------------------------------------------------------------
(* Statuses arrive, and the foreground wait ends.                          *)

\* Mutant: a stop decides while another process has not reported.
StopDecides(procs) ==
  IF \E i \in DOMAIN procs : procs[i] = "stop" THEN "Stopped"
  ELSE IF \E i \in DOMAIN procs : procs[i] = "none" THEN "Running"
  ELSE "Done"

\* The state record_child_status computes.
StateOf(procs) ==
  IF \E i \in DOMAIN procs : procs[i] = "none" THEN "Running"
  ELSE IF \E i \in DOMAIN procs : procs[i] = "stop" THEN "Stopped"
  ELSE "Done"

\* notify_completion_now, apart from the option: another job completes while a
\* foreground job is waited for.
notify_completion_now(id, next) ==
  phase = "waiting" /\ id # cur /\ next = "Done" /\ jobControl /\ slots[id].control

\* wait_once's bookkeeping: a done job is skipped, a computed Running changes no
\* state, and a job that has just stopped becomes the current one.  Under set -b
\* a completed background job is written, and so dropped, at once.
ChildReports(id, i, status, notify) ==
  LET procs == [slots[id].procs EXCEPT ![i] = status]
      next  == StateOf(procs)
      job   == [slots[id] EXCEPT !.procs = procs,
                  !.stopStatus = \E k \in DOMAIN procs : procs[k] = "stop",
                  !.state = IF next = "Running" THEN @ ELSE next,
                  !.changed = @ \/ next # "Running"]
  IN /\ phase \in {"ready", "waiting"} /\ slots[id].state # "Done"
     /\ slots[id].procs[i] # "exit"
     /\ slots[id].procs[i] = "stop" => "kill" \in Faults
     /\ status = "stop" => slots[id].control
     /\ IF notify /\ notify_completion_now(id, next) THEN Drop(id)
        ELSE /\ slots' = [slots EXCEPT ![id] = job]
             /\ order' = IF job.state = "Stopped" /\ slots[id].state # "Stopped"
                         THEN ToFront(order, id) ELSE order
     /\ UNCHANGED <<size, jobControl, warning, phase, cur, left, mode, todo, walk, since>>

\* The end of wait_for_job: a done job is removed, a stopped one stays.
ForegroundEnds ==
  /\ phase = "waiting" /\ slots[cur].state # "Running"
  /\ IF Is(cur, "Done") THEN Drop(cur) ELSE UNCHANGED <<slots, order>>
  /\ phase' = "ready" /\ cur' = NoJob
  /\ UNCHANGED <<size, jobControl, warning, left, mode, todo, walk, since>>

\* The terminal cannot be taken back: wait_for_job returns before the removal.
ForegroundFails ==
  /\ "tty" \in Faults
  /\ phase = "waiting" /\ slots[cur].state # "Running" /\ slots[cur].control
  /\ phase' = "ready" /\ cur' = NoJob
  /\ UNCHANGED <<slots, size, order, jobControl, warning, left, mode, todo, walk, since>>

-----------------------------------------------------------------------------
(* Built-ins.                                                              *)

\* write_job: the change is reported, a done job is dropped.
write_job(id) ==
  IF Is(id, "Done") THEN Drop(id)
  ELSE slots' = [slots EXCEPT ![id].changed = FALSE] /\ UNCHANGED order

\* jobs %n (-p writes process ids and changes nothing).
JobsCommand(id) ==
  /\ phase = "ready"
  /\ write_job(id)
  /\ UNCHANGED <<size, jobControl, warning, phase, cur, left, mode, todo, walk, since>>

\* wait: a job that does not run is marked waited for, and dropped if done.
remove_waited_job(id) ==
  IF Is(id, "Done") THEN Drop(id)
  ELSE slots' = [slots EXCEPT ![id].waited = TRUE] /\ UNCHANGED order

\* wait %n once the job no longer runs.
WaitFor(id) ==
  /\ phase = "ready" /\ ~Is(id, "Running")
  /\ remove_waited_job(id)
  /\ UNCHANGED <<size, jobControl, warning, phase, cur, left, mode, todo, walk, since>>

\* jobs, a pass of wait without operands, and (under job control) the prompt
\* walk a copy of the order, because they remove jobs on the way.
StartWalk(w) ==
  /\ phase = "ready" /\ (w = "notify" => jobControl)
  /\ phase' = "walking" /\ todo' = order /\ walk' = w
  /\ UNCHANGED <<slots, size, order, jobControl, warning, cur, left, mode, since>>

\* Mutant: the walk does not move on from a job it has removed.
StaysOnRemoved ==
  /\ phase = "walking" /\ todo # <<>>
  /\ LET id == Head(todo)
     IN /\ walk = "list" \/ (walk = "notify" /\ slots[id].changed)
        /\ write_job(id)
        /\ todo' = IF Is(id, "Done") THEN todo ELSE Tail(todo)
  /\ UNCHANGED <<size, jobControl, warning, phase, cur, left, mode, walk, since>>

\* write_jobs reaches the next job and writes it ...
WalkWrites ==
  /\ phase = "walking" /\ todo # <<>>
  /\ LET id == Head(todo)
     IN /\ walk = "list" \/ (walk = "notify" /\ slots[id].changed)
        /\ write_job(id)
  /\ todo' = Tail(todo)
  /\ UNCHANGED <<size, jobControl, warning, phase, cur, left, mode, walk, since>>

\* ... or passes over one that has not changed.
WalkSkips ==
  /\ phase = "walking" /\ todo # <<>> /\ walk = "notify" /\ ~slots[Head(todo)].changed
  /\ todo' = Tail(todo)
  /\ UNCHANGED <<slots, size, order, jobControl, warning, phase, cur, left, mode, walk, since>>

WalkWaits ==
  /\ phase = "walking" /\ todo # <<>> /\ walk = "wait" /\ ~Is(Head(todo), "Running")
  /\ remove_waited_job(Head(todo))
  /\ todo' = Tail(todo)
  /\ UNCHANGED <<size, jobControl, warning, phase, cur, left, mode, walk, since>>

\* Job::restart, SIGCONT, and the stops forgotten.
Restarted(job) ==
  [job EXCEPT !.state = "Running",
              !.procs = [i \in DOMAIN job.procs |->
                           IF job.procs[i] = "stop" THEN "none" ELSE job.procs[i]]]

\* bg: the job is moved before it is restarted; a done one is left alone.
Bg(id) ==
  /\ phase = "ready" /\ slots[id].control
  /\ order' = BehindStopped(order, slots, id)
  /\ slots' = [slots EXCEPT ![id] = IF Is(id, "Done") THEN @
                                    ELSE IF @.procs = <<>> THEN [@ EXCEPT !.state = "Running"]
                                    ELSE Restarted(@)]
  /\ UNCHANGED <<size, jobControl, warning, phase, cur, left, mode, todo, walk, since>>

\* fg: the order is left alone; a job without processes is an error.
Fg(id) ==
  /\ phase = "ready" /\ slots[id].control
  /\ slots' = [slots EXCEPT ![id] = IF Is(id, "Done") THEN @
                                    ELSE IF @.procs = <<>> THEN [@ EXCEPT !.state = "Running"]
                                    ELSE Restarted(@)]
  /\ IF slots[id].procs = <<>> THEN UNCHANGED <<phase, cur>>
     ELSE phase' = "waiting" /\ cur' = id
  /\ UNCHANGED <<size, order, jobControl, warning, left, mode, todo, walk, since>>

\* restart_job's error returns after Job::restart: the terminal or SIGCONT fails.
RestartFails(id, background) ==
  /\ "tty" \in Faults /\ phase = "ready" /\ slots[id].control
  /\ slots[id].state # "Done" /\ slots[id].procs # <<>>
  /\ order' = IF background THEN BehindStopped(order, slots, id) ELSE order
  /\ slots' = [slots EXCEPT ![id].state = "Running"]
  /\ UNCHANGED <<size, jobControl, warning, phase, cur, left, mode, todo, walk, since>>

SetMonitor ==
  /\ phase = "ready"
  /\ jobControl' = ~jobControl
  /\ UNCHANGED <<slots, size, order, warning, phase, cur, left, mode, todo, walk, since>>

\* Mutant: the grace never ends.
AdvanceSticks(wn) == IF wn = "Reported" THEN "Grace" ELSE wn

advance(wn) == IF wn = "Reported" THEN "Grace" ELSE "Ready"

Aged ==
  /\ warning' = advance(warning)
  /\ since' = IF since < 2 THEN since + 1 ELSE since

\* The end of the walk, or a running job that wait must wait for.  After the
\* notification command_loop parses the next record and the exit warning ages.
EndWalk ==
  /\ phase = "walking"
  /\ todo # <<>> => walk = "wait" /\ Is(Head(todo), "Running")
  /\ todo' = <<>> /\ walk' = "list" /\ phase' = "ready"
  /\ IF walk = "notify" THEN Aged ELSE UNCHANGED <<warning, since>>
  /\ UNCHANGED <<slots, size, order, jobControl, cur, left, mode>>

\* The next record of a shell without job control, which announces nothing.
NextRecord ==
  /\ phase = "ready" /\ ~jobControl
  /\ Aged
  /\ UNCHANGED <<slots, size, order, jobControl, phase, cur, left, mode, todo, walk>>

\* has_stopped_jobs, asked by exit and at end of file.
has_stopped_jobs ==
  warning = "Ready" /\ order # <<>> /\ slots[order[1]].state = "Stopped"

Exit ==
  /\ phase = "ready"
  /\ IF has_stopped_jobs
     THEN warning' = "Reported" /\ since' = 0 /\ UNCHANGED phase
     ELSE phase' = "exited" /\ UNCHANGED <<warning, since>>
  /\ UNCHANGED <<slots, size, order, jobControl, cur, left, mode, todo, walk>>

-----------------------------------------------------------------------------
OnJob(id) ==
  \/ \E i \in DOMAIN slots[id].procs, status \in {"stop", "exit"}, notify \in BOOLEAN :
       ChildReports(id, i, status, notify)
  \/ JobsCommand(id)
  \/ WaitFor(id)
  \/ Bg(id)
  \/ Fg(id)
  \/ \E background \in BOOLEAN : RestartFails(id, background)

JNext ==
  \/ \E n \in 1 .. MaxProcs, m \in {"Foreground", "Background"} : create_job(n, m)
  \/ record_forked_child
  \/ ForkFails
  \/ Abandon
  \/ ForegroundEnds
  \/ ForegroundFails
  \/ \E w \in {"list", "notify", "wait"} : StartWalk(w)
  \/ WalkWrites
  \/ WalkSkips
  \/ WalkWaits
  \/ EndWalk
  \/ SetMonitor
  \/ NextRecord
  \/ Exit
  \/ \E id \in Live : OnJob(id)

JSpec == JInit /\ [][JNext]_jvars

-----------------------------------------------------------------------------
(* Properties.                                                             *)

\* JobTable::tracked: "the presentation order holds exactly the live slots",
\* each of them once.  The indexing of the table by an id from the order would
\* panic otherwise.
OrderIsLive ==
  /\ \A i, j \in 1 .. Len(order) : order[i] = order[j] => i = j
  /\ {order[i] : i \in 1 .. Len(order)} = Live

\* write_jobs and wait index the table with ids from a copy of the order while
\* they remove jobs: an id still to be visited always names a live job.
SnapshotStaysLive ==
  /\ \A i \in 1 .. Len(todo) : todo[i] \in Live
  /\ \A i, j \in 1 .. Len(todo) : todo[i] = todo[j] => i = j

\* write_job unwraps the last process's status of every job that does not run,
\* and the stop status of a stopped one: both are there.
ReportedStatusExists ==
  \A id \in Live : slots[id].state # "Running" =>
    LET procs == slots[id].procs
    IN /\ procs # <<>> /\ procs[Len(procs)] # "none"
       /\ slots[id].state = "Stopped" => slots[id].stopStatus

\* The comment on set_curjob: a started or backgrounded job "ranks behind every
\* stopped one".  Only the job being forked or waited for may be in front.
StoppedBeforeRunning ==
  \A i, j \in 1 .. Len(order) :
    /\ i < j /\ Is(order[j], "Stopped") /\ Is(order[i], "Running")
    => phase \in {"forking", "waiting"} /\ order[i] = cur

\* exit refuses once while the current job is stopped, and the refusal is good
\* for that record and the next one only.
ExitWasWarned ==
  [][phase' = "exited" /\ phase # "exited" /\ order # <<>> /\ Is(order[1], "Stopped")
       => since < 2]_jvars
=============================================================================
