--------------------------- MODULE JobTableHistory ---------------------------
(***************************************************************************)
(* The job table with a history variable: whether a fault has disturbed the *)
(* ranking of its jobs.  A pipeline abandoned while it is forked leaves a   *)
(* running job in front, a wait_for_job or restart_job that fails leaves its *)
(* job where it was, and a stopped job that is killed is done in the place  *)
(* of a stopped one.                                                       *)
(***************************************************************************)
EXTENDS JobTable

VARIABLE disturbed

KillsStopped ==
  \E id \in Live : \E i \in DOMAIN slots[id].procs, status \in {"stop", "exit"}, notify \in BOOLEAN :
    slots[id].procs[i] = "stop" /\ ChildReports(id, i, status, notify)

Disturbing ==
  \/ Abandon
  \/ ForegroundFails
  \/ KillsStopped
  \/ \E id \in Live, background \in BOOLEAN : RestartFails(id, background)

InitHistory == JInit /\ disturbed = FALSE
NextHistory == JNext /\ disturbed' = (disturbed \/ Disturbing)
SpecHistory == InitHistory /\ [][NextHistory]_<<jvars, disturbed>>

\* StoppedBeforeRunning in a shell nothing has disturbed: %% and %+ name a
\* stopped job while there is one (jobs/model.rs, insert_behind_stopped_jobs).
StoppedRankFirst == ~disturbed => StoppedBeforeRunning
=============================================================================
