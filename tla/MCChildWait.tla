---------------------------- MODULE MCChildWait ----------------------------
(* Instances of ChildWait: two jobs, a process substitution, a host child.  *)
EXTENDS ChildWait

CONSTANTS p1, p2, p3, ps, h1, a, b

\* Two one-process jobs.
SimpleMembers == [j \in {a, b} |-> IF j = a THEN {p1} ELSE {p3}]

\* A single job of two processes.
PairMembers == [j \in {a} |-> {p1, p2}]
=============================================================================
