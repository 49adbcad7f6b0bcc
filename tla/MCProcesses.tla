---------------------------- MODULE MCProcesses ----------------------------
(* What must come to an end: pipelines and substitutions whose processes hold *)
(* each other's pipes, clones that depend on their brokers on Windows, and    *)
(* caught signals.  A behaviour explores one of them (focus); the others stay *)
(* in one state in which they have nothing to do.                             *)
EXTENDS Pipes, CloneBroker, TLC

CONSTANT None
VARIABLES focus, action, trapped, exitAction, bashAction, running, blocked, caught, pending, intPending,
          status, default, depth, stack, pc, arg, flow, raised, shown, owed

\* A script's shell: SIGINT has no handler of its own, and actions end normally.
T == INSTANCE PendingTraps WITH N <- 2, INT <- 0, Interactive <- FALSE, MaxRaise <- 2,
                                Conditions <- {}, Outcomes <- {}

tvars == <<action, trapped, exitAction, bashAction, running, blocked, caught, pending, intPending,
           status, default, depth, stack, pc, arg, flow, raised, shown, owed>>

\* Two units through pipes that hold one: every writer has to wait for its reader.
Reader == Run(TRUE, 2)
Writer == Run(FALSE, 2)
Silent == Run(FALSE, 0)
Piped(stages) == Pipeline(stages, FALSE, FALSE)
Input(body) == [direction |-> "input", body |-> body]
Output(body) == [direction |-> "output", body |-> body]
SomeScripts == {
    <<Piped(<<Writer, Reader, Reader>>)>>,
    <<Piped(<<Writer, Silent>>), Piped(<<Writer, Reader>>)>>,
    <<Pipeline(<<Writer, Reader>>, TRUE, FALSE), Substitution(Piped(<<Writer, Reader>>))>>,
    <<Pipeline(<<Writer, Reader, Silent>>, FALSE, TRUE)>>,
    <<Pipeline(<<Writer, Reader>>, FALSE, TRUE)>>,
    <<Substitution(Substitution(Writer))>>,
    <<Piped(<<Substitution(Writer), Reader>>)>>,
    <<HereDocument(1, Reader)>>,
    <<HereDocument(3, Reader)>>,
    <<HereDocument(3, Silent), HereDocument(1, Silent)>>,
    <<Substitution(HereDocument(3, Reader))>>,
    <<WithNames(<<Input(Writer), Output(Reader)>>, Reader)>>,
    <<WithNames(<<Output(Reader), Output(Reader)>>, Writer)>>,
    <<WithNames(<<Input(Piped(<<Writer, Reader>>)), Output(Silent)>>, Silent)>>,
    <<Piped(<<WithNames(<<Output(Reader)>>, Reader), Reader>>)>>}

\* The root runs a subshell and a program side by side, and the subshell a pipeline of two programs.
FourClones == 1..4
SubshellScript ==
    (0 :> << <<"fork", 1>>, <<"fork", 2>>, <<"wait", 1>>, <<"wait", 2>> >>)
    @@ (1 :> << <<"pipe", 1>>, <<"fork", 3>>, <<"fork", 4>>, <<"shut", 1>>, <<"wait", 3>>, <<"wait", 4>> >>)
    @@ [c \in 2..4 |-> << <<"execute", c>> >>]
SubshellStandard ==
    [c \in 1..4 |-> IF c = 3 THEN {End("data", 1, "w")} ELSE IF c = 4 THEN {End("data", 1, "r")} ELSE {}]

\* The root runs a pipeline of two programs itself.
TwoClones == 1..2
PipelineScript ==
    (0 :> << <<"pipe", 1>>, <<"fork", 1>>, <<"fork", 2>>, <<"shut", 1>>, <<"wait", 1>>, <<"wait", 2>> >>)
    @@ [c \in 1..2 |-> << <<"execute", c>> >>]
PipelineStandard == [c \in 1..2 |-> IF c = 1 THEN {End("data", 1, "w")} ELSE {End("data", 1, "r")}]

Init ==
    /\ focus \in {"pipes", "clones", "traps"}
    /\ PInit /\ BInit /\ T!Init
    /\ focus # "pipes" => script = <<HereDocument(1, Reader)>>

Next ==
    /\ UNCHANGED focus
    /\ \/ focus = "pipes"  /\ PNext  /\ UNCHANGED <<bvars, tvars>>
       \/ focus = "clones" /\ BNext  /\ UNCHANGED <<pvars, tvars>>
       \/ focus = "traps"  /\ T!Next /\ UNCHANGED <<pvars, bvars>>

\* Each machine's own fairness, while it is explored.
mvars == <<focus, pvars, bvars, tvars>>
Fairness ==
    /\ \A p \in Processes : WF_mvars(focus = "pipes" /\ Alive(p) /\ Step(p) /\ UNCHANGED <<focus, bvars, tvars>>)
    /\ WF_mvars(focus = "clones" /\ RootStep /\ UNCHANGED <<focus, pvars, tvars>>)
    /\ \A c \in Clones :
         /\ WF_mvars(focus = "clones" /\ ShellStep(c) /\ UNCHANGED <<focus, pvars, tvars>>)
         /\ WF_mvars(focus = "clones" /\ BrokerStep(c) /\ UNCHANGED <<focus, pvars, tvars>>)
         /\ WF_mvars(focus = "clones" /\ ProgramEnds(c) /\ UNCHANGED <<focus, pvars, tvars>>)
    /\ WF_mvars(focus = "traps" /\ T!Shell /\ UNCHANGED <<focus, pvars, bvars>>)
    /\ SF_mvars(focus = "traps" /\ (T!SignalActionDone \/ T!ExitActionDone) /\ UNCHANGED <<focus, pvars, bvars>>)
Spec == Init /\ [][Next]_mvars /\ Fairness

\* Every process of a script ends, and every clone and its broker: no reader waits for a writer that
\* only an idle process keeps open (evaluation.rs, windows/children.rs).
AllEnd == (focus = "pipes" => EverythingEnds) /\ (focus = "clones" => ClonesAndBrokersEnd)

\* A caught signal is taken out of the inbox, unless the shell ends first (trap.rs).
SignalsAreTaken == T!CaughtIsHandled
=============================================================================
