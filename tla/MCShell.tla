------------------------------ MODULE MCShell ------------------------------
(* The state one command loop keeps: the evaluator's counters, the saved      *)
(* descriptors, the variables and their saved frames, and the files two       *)
(* shells race for under noclobber.  No operation of one of these writes the  *)
(* state of another, so a behaviour explores one of them (focus) and leaves   *)
(* the rest in their initial states: the same states as four separate runs.   *)
EXTENDS Redirection, Variables, NoClobber, Evaluation

VARIABLE focus

Machines == {"evaluation", "redirection", "variables", "noclobber"}

\* A machine that is out of focus starts in one of its initial states only.
Init ==
    /\ focus \in Machines
    /\ EInit
    /\ focus # "evaluation" => nested = 0 /\ ~shell.interactive /\ shell.dialect = "posix"
    /\ RInit /\ VInit
    /\ focus # "variables" => dialect = "posix"
    /\ NCInit
    /\ focus # "noclobber" => path = Vacant

Next ==
    /\ UNCHANGED focus
    /\ \/ focus = "evaluation"  /\ ENext  /\ UNCHANGED <<rvars, vvars, nvars>>
       \/ focus = "redirection" /\ RNext  /\ UNCHANGED <<evars, vvars, nvars>>
       \/ focus = "variables"   /\ VNext  /\ UNCHANGED <<evars, rvars, nvars>>
       \/ focus = "noclobber"   /\ NCNext /\ UNCHANGED <<evars, rvars, vvars>>

Spec == Init /\ [][Next]_<<focus, evars, rvars, vvars, nvars>>
=============================================================================
