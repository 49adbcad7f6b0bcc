----------------------------- MODULE NoClobber -----------------------------
(***************************************************************************)
(* "> path" under set -C (redirection.rs, open_file_redirection), by       *)
(* several shells at once and with other programs creating, replacing and  *)
(* removing the path between any two of the system calls.                  *)
(*                                                                         *)
(* The idiom this carries is the lock file: `set -C; > lock` succeeds in   *)
(* one shell only, until the file is removed.                              *)
(***************************************************************************)
CONSTANTS
    Shells,     \* processes redirecting to the same path
    Other       \* whoever else creates a regular file there

ASSUME NoClobberAssumption == Other \notin Shells /\ {"nothing", "special"} \cap Shells = {}

VARIABLES
    path,       \* what the path names: nothing, a special file, or a regular file by its creator
    stage,      \* where each shell is in open_file_redirection
    held        \* what the descriptor each shell got refers to

nvars == <<path, stage, held>>

Vacant == "nothing"
Special == "special"        \* a FIFO, a device
Regular == Shells \cup {Other}
Stage == {"exists", "is_file", "create", "open", "fstat", "opened", "refused"}

NCInit ==
    /\ path \in {Vacant, Special, Other}
    /\ stage = [s \in Shells |-> "exists"]
    /\ held = [s \in Shells |-> Vacant]

Goto(s, next) == stage' = [stage EXCEPT ![s] = next]

\* path_exists.
TestExists(s) ==
    /\ stage[s] = "exists"
    /\ Goto(s, IF path = Vacant THEN "create" ELSE "is_file")
    /\ UNCHANGED <<path, held>>

\* Mutant: the file is created without O_EXCL.
CreateShared(s) ==
    /\ stage[s] = "create"
    /\ path' = IF path = Vacant THEN s ELSE path
    /\ held' = [held EXCEPT ![s] = path']
    /\ Goto(s, "opened")

\* WriteCreateExclusive: the kernel creates the file or refuses, in one step.
CreateExclusive(s) ==
    /\ stage[s] = "create"
    /\ IF path = Vacant
       THEN path' = s /\ held' = [held EXCEPT ![s] = s] /\ Goto(s, "opened")
       ELSE Goto(s, "refused") /\ UNCHANGED <<path, held>>

\* path_is_file: false for a path that has gone meanwhile.
TestIsFile(s) ==
    /\ stage[s] = "is_file"
    /\ Goto(s, IF path \in Regular THEN "refused" ELSE "open")
    /\ UNCHANGED <<path, held>>

\* WriteOnly, which neither creates nor truncates.
OpenExisting(s) ==
    /\ stage[s] = "open"
    /\ IF path = Vacant
       THEN Goto(s, "refused") /\ UNCHANGED held
       ELSE held' = [held EXCEPT ![s] = path] /\ Goto(s, "fstat")
    /\ UNCHANGED path

\* Mutant: what was opened is not looked at again.
TrustTheOpen(s) == stage[s] = "fstat" /\ Goto(s, "opened") /\ UNCHANGED <<path, held>>

\* fd_is_regular_file on what was opened, which may not be what was tested.
CheckOpened(s) ==
    /\ stage[s] = "fstat"
    /\ IF held[s] \in Regular
       THEN held' = [held EXCEPT ![s] = Vacant] /\ Goto(s, "refused")
       ELSE UNCHANGED held /\ Goto(s, "opened")
    /\ UNCHANGED path

\* The command is over: its descriptor is closed and the next one may come.
Again(s) ==
    /\ stage[s] \in {"opened", "refused"}
    /\ Goto(s, "exists")
    /\ held' = [held EXCEPT ![s] = Vacant]
    /\ UNCHANGED path

\* Other programs: remove the path, make a FIFO there, create a regular file.
\* A file a shell still holds as its lock is not removed by others.
Meddle ==
    /\ path' \in {Vacant, Special, Other} \ {path}
    /\ \A s \in Shells : path # s
    /\ UNCHANGED <<stage, held>>

\* A shell removes its own lock file.
Unlock(s) ==
    /\ path = s /\ stage[s] # "opened"
    /\ path' = Vacant
    /\ UNCHANGED <<stage, held>>

NCNext ==
    \/ \E s \in Shells :
          \/ TestExists(s) \/ CreateExclusive(s) \/ TestIsFile(s) \/ OpenExisting(s)
          \/ CheckOpened(s) \/ Again(s) \/ Unlock(s)
    \/ Meddle

NCSpec == NCInit /\ [][NCNext]_nvars

-----------------------------------------------------------------------------
\* The type of the state.
NCTypeOK ==
    /\ path \in Regular \cup {Vacant, Special}
    /\ stage \in [Shells -> Stage]
    /\ held \in [Shells -> Regular \cup {Vacant, Special}]

\* redirection.rs:547: under noclobber a shell that got a descriptor has a file
\* it created itself or a special file, never a regular file that was there;
\* and a file that was created stays at the path while its creator holds it, so
\* that as a lock it has one holder.
NothingIsClobbered ==
    \A s \in Shells : stage[s] = "opened" => held[s] \in {s, Special} /\ (held[s] = s => path = s)
=============================================================================
