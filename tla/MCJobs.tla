------------------------------- MODULE MCJobs -------------------------------
(* The job table with two slots, pipelines of one or two processes and every  *)
(* fault, and the running of traps with two signals, one of them SIGINT, and  *)
(* up to two deliveries: enough for a signal to arrive inside the action of   *)
(* another.  A behaviour explores one of them (focus); the other stays in its *)
(* initial state.                                                             *)
EXTENDS JobTableHistory, PendingTraps

VARIABLE focus

AllFaults    == {"pipe", "fork", "tty", "kill"}
OnlyDebug    == {"DEBUG"}
AllOutcomes  == {"return", "break", "exit", "end", "error"}

jobs == <<jvars, disturbed>>

MCInit ==
  /\ focus \in {"jobs", "traps"}
  /\ InitHistory /\ Init /\ (focus = "traps" => ~jobControl)

MCNext ==
  /\ UNCHANGED focus
  /\ \/ focus = "jobs"  /\ NextHistory /\ UNCHANGED vars
     \/ focus = "traps" /\ Next /\ UNCHANGED jobs

MCSpec == MCInit /\ [][MCNext]_<<focus, jobs, vars>>
=============================================================================
