----------------------------- MODULE Evaluation -----------------------------
(***************************************************************************)
(* The evaluator's control (evaluation.rs and evaluation/, runtime.rs): the *)
(* activations that are open, the flow or the error that is on its way up   *)
(* through them, and the counters they share: loop_depth, the call stack's  *)
(* depth and nested_evaluations.                                            *)
(*                                                                         *)
(* An activation is one evaluate_tree of a compound command, one function,  *)
(* eval or dot, one forked or in-place child, or the loop that reads the    *)
(* shell's input.  A simple command that opens no activation is one step,   *)
(* with every outcome the code lets it have.                                *)
(*                                                                         *)
(* Statuses are 0 (success) and 1 (failure).                               *)
(***************************************************************************)
EXTENDS Naturals, FiniteSets, Sequences, SequencesExt

CONSTANTS
    MaxEvaluations,     \* MAX_EVALUATION_DEPTH
    MaxActivations,     \* bound: activations open at once
    MaxLevels           \* bound: loop_depth, and the operand of break and continue

ASSUME EvaluationAssumption ==
    MaxEvaluations \in Nat \ {0} /\ MaxActivations \in Nat \ {0} /\ MaxLevels \in Nat \ {0}

VARIABLES
    shell,      \* dialect and Interactive, for the life of the shell
    errexit,    \* set -e
    activations,     \* the open activations, innermost last
    value,      \* what the innermost one just got back; none while it is to go on
    loopDepth,  \* EvaluationState.loop_depth
    callDepth,  \* CallStack.depth
    nested,     \* EvaluationState.nested_evaluations
    level,      \* shell_level: 1 in a forked child
    disturbed,  \* an error has left a for or select loop, or the text of an eval was
                \* recovered interactively: what loop_depth then counts is another matter
    spent,      \* a subshell has run in this process's place and is over
    ended       \* "no", "exit", or "panic"

evars == <<shell, errexit, activations, value, loopDepth, callDepth, nested, level, disturbed, spent, ended>>

-----------------------------------------------------------------------------
\* Flow and Error.

Nothing == [tag |-> "none", n |-> 0, cause |-> "none"]
Flow(tag, n) == [tag |-> tag, n |-> n, cause |-> "none"]
Done(s) == Flow("done", s)
Exits(s, cause) == [tag |-> "exit", n |-> s, cause |-> cause]

\* Abandoned: a refusal; an arithmetic error; the arithmetic of a declaration,
\* which only the shell's own input recovers and a built-in passes on.
AbandonedTag == {"refusal", "arithmetic", "declaration"}
ErrorTag == AbandonedTag \cup {"expansion", "other", "interrupt"}
IsError(v) == v.tag \in ErrorTag
ErrorsOf == IF shell.dialect = "bash" THEN ErrorTag ELSE ErrorTag \ AbandonedTag
Errors == {Flow(tag, 1) : tag \in ErrorsOf}

\* EvaluationContext: exit, tested, forked_as_this_command.
Tested == {"tested"}
TestedOnly(context) == context \cap {"tested"}

LoopKind == {"while", "until", "for"}
TextKind == {"string", "eval"}                  \* read by parse_and_execute
ReaderKind == TextKind \cup {"stream", "dot"}   \* evaluate_record for each command read
Kind == ReaderKind \cup LoopKind \cup
        {"group", "sequence", "and", "or", "if", "not", "case", "function", "in_place", "forked"}

Frame(kind, phase, context, saved, special) ==
    [kind |-> kind, phase |-> phase, context |-> context, saved |-> saved, special |-> special]

Innermost == Last(activations)
Resumed == Front(activations)
Running == ended = "no"
Descending == Running /\ value = Nothing
Returning == Running /\ value # Nothing
RoomForOne == Len(activations) < MaxActivations

EInit ==
    /\ shell \in [dialect : {"posix", "bash"}, interactive : BOOLEAN]
    /\ errexit = FALSE
    /\ \/ activations = <<Frame("stream", "record", {}, 0, FALSE)>> /\ nested = 0
       \/ activations = <<Frame("string", "record", {"exit"}, 0, FALSE)>> /\ nested = 1
    /\ value = Nothing
    /\ loopDepth = 0 /\ callDepth = 0
    /\ level = 0 /\ disturbed = FALSE /\ spent = FALSE /\ ended = "no"

-----------------------------------------------------------------------------
\* What the innermost activation evaluates next.

\* Mutant: a function's body is evaluated as if it had been called anywhere.
AnywhereContext(context) == {}

\* evaluate_function: the caller's condition is still a condition in its body.
BodyContext(context) == TestedOnly(context)


\* parse_and_execute: only the last command of a -c text may.
RecordContext(f) == IF f.phase = "last" THEN f.context ELSE TestedOnly(f.context)

\* The contexts its evaluate_tree may be given: the text of -c passes exit on to
\* its last command only, that of eval never.
ContextBelow(f) ==
    IF f.kind \in {"stream", "dot"} THEN {}
    ELSE IF f.kind = "string" THEN RecordContext(f)
    ELSE IF f.kind = "function" THEN BodyContext(f.context)
    ELSE IF f.kind \in {"group", "for", "eval"} \/ (f.kind = "sequence" /\ f.phase = "left") THEN TestedOnly(f.context)
    ELSE IF f.phase \in {"left", "condition"} THEN Tested
    ELSE IF f.kind \in {"while", "until"} THEN TestedOnly(f.context)
    ELSE f.context

\* The foot of evaluate_tree: errexit, and the end of a command that was the
\* last of its process.
Foot(context, checked, v) ==
    LET acted == checked /\ v.n # 0 /\ context \cap {"tested", "forked"} = {}
    IN  IF v.tag # "done" THEN v
        ELSE IF acted /\ errexit THEN Exits(v.n, "errexit")
        ELSE IF "exit" \in context THEN Exits(v.n, "context")
        ELSE v

\* parser_eof before the last command of -c.
LastRecord ==
    /\ Descending /\ Innermost.kind = "string" /\ Innermost.phase = "record"
    /\ activations' = [activations EXCEPT ![Len(activations)].phase = "last"]
    /\ UNCHANGED <<shell, errexit, value, loopDepth, callDepth, nested, level, disturbed, spent, ended>>

Push(f) == activations' = Append(activations, f) /\ value' = Nothing
Counters == <<loopDepth, callDepth, nested>>
Process == <<shell, level, disturbed, spent, ended>>

\* A compound command that counts nothing: a group whose redirections took, a
\* list, if, !, case, time.
EnterCompound ==
    /\ Descending /\ RoomForOne
    /\ LET c == ContextBelow(Innermost) IN \E kind \in {"group", "sequence", "and", "or", "if", "not", "case"} :
          Push(Frame(kind, CASE kind \in {"sequence", "and", "or"} -> "left"
                             [] kind \in {"if", "not"} -> "condition"
                             [] OTHER -> "body", c, 0, FALSE))
    /\ UNCHANGED <<Counters, Process, errexit>>

\* A group whose redirection fails is the group's failure.
GroupRefused ==
    /\ Descending
    /\ LET c == ContextBelow(Innermost) IN
          value' \in {Foot(c, TRUE, Done(1))} \cup {v \in Errors : v.tag \in {"expansion", "interrupt"}}
    /\ UNCHANGED <<Counters, Process, errexit, activations>>

\* while and until; for and select once their words are expanded.
EnterLoop ==
    /\ Descending /\ RoomForOne /\ loopDepth < MaxLevels
    /\ LET c == ContextBelow(Innermost) IN \E kind \in LoopKind :
          Push(Frame(kind, IF kind = "for" THEN "body" ELSE "condition", c, 0, FALSE))
    /\ loopDepth' = loopDepth + 1
    /\ UNCHANGED <<callDepth, nested, Process, errexit>>

\* A function call: its body starts outside every loop of the caller.
TooDeep == callDepth + nested >= MaxEvaluations
EnterFunction ==
    /\ Descending /\ RoomForOne /\ ~TooDeep
    /\ LET c == ContextBelow(Innermost) IN Push(Frame("function", "body", c, loopDepth, FALSE))
    /\ loopDepth' = 0 /\ callDepth' = callDepth + 1
    /\ UNCHANGED <<nested, Process, errexit>>

\* eval: the text is the command's own, loops included.
EnterEval ==
    /\ Descending /\ RoomForOne /\ ~TooDeep
    /\ LET c == ContextBelow(Innermost) IN \E special \in BOOLEAN :
          Push(Frame("eval", "record", c, loopDepth, special))
    /\ nested' = nested + 1
    /\ UNCHANGED <<loopDepth, callDepth, Process, errexit>>

\* . file: read like a script of its own, outside every loop.
EnterDot ==
    /\ Descending /\ RoomForOne /\ ~TooDeep
    /\ LET c == ContextBelow(Innermost) IN \E special \in BOOLEAN :
          Push(Frame("dot", "record", c, loopDepth, special))
    /\ loopDepth' = 0 /\ callDepth' = callDepth + 1
    /\ UNCHANGED <<nested, Process, errexit>>

\* evaluate_subshell without a fork, where the process has nothing left to do.
EnterInPlace ==
    /\ Descending /\ RoomForOne
    /\ LET c == ContextBelow(Innermost) IN \E body \in {{}, {"forked"}} :
          /\ "exit" \in c
          /\ Push(Frame("in_place", "body", (c \ {"forked"}) \cup body, 0, FALSE))
    /\ loopDepth' = 0
    /\ UNCHANGED <<callDepth, nested, Process, errexit>>

\* The child of a subshell, an asynchronous list, a pipeline or a substitution,
\* followed instead of its parent: it never returns through the parent's activations.
Fork ==
    /\ Descending /\ RoomForOne /\ level = 0
    /\ LET c == ContextBelow(Innermost) IN \E background \in BOOLEAN, body \in {{}, {"forked"}} :
          Push(Frame("forked", IF background THEN "background" ELSE "body",
                     {"exit"} \cup body \cup (IF background THEN {} ELSE TestedOnly(c)), 0, FALSE))
    /\ loopDepth' = 0 /\ level' = 1
    /\ UNCHANGED <<callDepth, nested, shell, disturbed, spent, ended, errexit>>

\* A command that opens no activation: an external command, a forked list and its
\* wait, a built-in; a refusal before it ran; an error that leaves it.
SimpleOutcome(c) ==
    {Foot(c, TRUE, Done(s)) : s \in {0, 1}} \cup Errors
BreakOutcome(c, tag, n) ==
    IF loopDepth = 0 THEN Foot(c, TRUE, Done(0)) ELSE Flow(tag, IF n < loopDepth THEN n ELSE loopDepth)
Command ==
    /\ Descending
    /\ LET c == ContextBelow(Innermost) IN value' \in SimpleOutcome(c)
    /\ UNCHANGED <<Counters, Process, errexit, activations>>
BreakOrContinue ==
    /\ Descending
    /\ \E tag \in {"break", "continue"}, n \in 1..MaxLevels :
          value' = BreakOutcome(ContextBelow(Innermost), tag, n)
    /\ UNCHANGED <<Counters, Process, errexit, activations>>
ReturnOrExit ==
    /\ Descending
    /\ value' \in {Flow("return", s) : s \in {0, 1}} \cup {Exits(s, "exit") : s \in {0, 1}}
    /\ UNCHANGED <<Counters, Process, errexit, activations>>
SetErrexit ==
    /\ Descending
    /\ errexit' = ~errexit
    /\ UNCHANGED <<Counters, Process, activations, value>>

-----------------------------------------------------------------------------
\* What the innermost activation makes of what came back.

Back(v) == activations' = Resumed /\ value' = v
GoOn(phase) == activations' = [activations EXCEPT ![Len(activations)].phase = phase] /\ value' = Nothing
Ours(kinds) == Returning /\ activations # <<>> /\ Innermost.kind \in kinds

\* The compound commands: control and errors pass, a status goes through the foot.
LeaveCompound ==
    /\ Ours({"group", "sequence", "and", "or", "if", "not", "case"})
    /\ LET f == Innermost
           more == value.tag = "done" /\
               CASE f.kind = "sequence" -> f.phase = "left"
                 [] f.kind = "and" -> f.phase = "left" /\ value.n = 0
                 [] f.kind = "or" -> f.phase = "left" /\ value.n # 0
                 [] f.kind = "if" -> f.phase = "condition"
                 [] OTHER -> FALSE
           status == IF f.kind = "not" /\ value.tag = "done" THEN Done(1 - value.n) ELSE value
       IN  \/ more /\ GoOn("right")
           \/ more /\ f.kind = "if" /\ value.n # 0 /\ Back(Foot(f.context, FALSE, Done(0)))
           \/ ~more /\ Back(Foot(f.context, FALSE, status))
    /\ UNCHANGED <<Counters, Process, errexit>>

\* catch_one_loop: one level of break or continue is this loop's.
Outward(v) == IF v.tag \in {"break", "continue"} THEN [v EXCEPT !.n = @ - 1] ELSE v
Caught(v, tag) == v.tag = tag /\ v.n = 1

\* evaluate_loop: the body again, the condition again, or the end.
Repeats(f, v) == Caught(v, "continue") \/ (v.tag = "done" /\ f.phase = "body")
Holds(f, v) == v.tag = "done" /\ f.phase = "condition" /\ (v.n = 0) = (f.kind = "while")
LoopResult(f, v) ==
    IF v.tag = "done" \/ Caught(v, "break") THEN Foot(f.context, FALSE, Done(0)) ELSE Outward(v)

\* It gives its level back however it ends.
LeaveWhile ==
    /\ Ours({"while", "until"})
    /\ LET f == Innermost
       IN  \/ Repeats(f, value) /\ GoOn("condition") /\ UNCHANGED loopDepth
           \/ Holds(f, value) /\ GoOn("body") /\ UNCHANGED loopDepth
           \/ /\ ~Repeats(f, value) /\ ~Holds(f, value) /\ loopDepth > 0
              /\ loopDepth' = loopDepth - 1
              /\ Back(LoopResult(f, value))
    /\ UNCHANGED <<callDepth, nested, Process, errexit>>


\* evaluate_for and evaluate_select: an error leaves by the question mark, with
\* the level still counted.
ForLevel(v) == IF IsError(v) THEN loopDepth ELSE loopDepth - 1

\* The words run out, or the body ends the loop.
LeaveFor ==
    /\ Ours({"for"})
    /\ LET f == Innermost
           next == value.tag = "done" \/ Caught(value, "continue")
       IN  \/ next /\ GoOn("body") /\ UNCHANGED loopDepth
           \/ /\ loopDepth > 0 \/ IsError(value)
              /\ loopDepth' = ForLevel(IF next THEN Done(0) ELSE value)
              /\ Back(IF next \/ Caught(value, "break")
                      THEN Foot(f.context, FALSE, Done(IF next THEN value.n ELSE 0))
                      ELSE Outward(value))
    /\ disturbed' = (disturbed \/ IsError(value))
    /\ UNCHANGED <<callDepth, nested, shell, level, spent, ended, errexit>>

\* A loop whose level a recovery inside it has cleared counts below zero.
LeaveBelowZero ==
    /\ Ours(LoopKind) /\ loopDepth = 0
    /\ IF Innermost.kind = "for" THEN ~IsError(value) ELSE ~Repeats(Innermost, value) /\ ~Holds(Innermost, value)
    /\ ended' = "panic"
    /\ UNCHANGED <<shell, errexit, activations, value, Counters, level, disturbed, spent>>

\* evaluate_function: everything it saved comes back on every path.
LeaveFunction ==
    /\ Ours({"function"})
    /\ callDepth' = callDepth - 1 /\ loopDepth' = Innermost.saved
    /\ Back(Foot(Innermost.context, TRUE, IF value.tag = "return" THEN Done(value.n) ELSE value))
    /\ UNCHANGED <<nested, Process, errexit>>

\* A reader's record is over: evaluate_record recovers what is its own to
\* recover, and an interactive one drops every enclosing loop with it.
InteractiveRoot(f) == f.kind \in TextKind \cup {"stream"} /\ shell.interactive /\ level = 0
Recovers(f, v) ==
    \/ v.tag = "expansion" /\ InteractiveRoot(f)
    \/ v.tag \in AbandonedTag /\ (v.tag # "refusal" \/ ~errexit) /\ (v.tag = "declaration" => f.kind = "stream")

RecordRecovered ==
    /\ Ours(ReaderKind) /\ Recovers(Innermost, value)
    /\ value' = Done(1)
    /\ disturbed' = (disturbed \/ (value.tag = "expansion" /\ Len(activations) > 1))
    /\ loopDepth' = IF value.tag = "expansion" THEN 0 ELSE loopDepth
    /\ UNCHANGED <<activations, callDepth, nested, shell, level, spent, ended, errexit>>

\* The next command of the text or the file.
NextRecord ==
    /\ Ours(ReaderKind) /\ value.tag = "done" /\ Innermost.phase # "last"
    /\ GoOn("record")
    /\ UNCHANGED <<Counters, Process, errexit>>

\* builtin_error_is_fatal: what eval and dot pass on of an error in their text.
Fatal(special, v) ==
    \/ v.tag = "declaration" \/ v.tag = "interrupt"
    \/ v.tag \notin AbandonedTag /\ special /\ (shell.dialect = "posix" \/ v.tag = "expansion")
BuiltinResult(f, v) ==
    IF IsError(v) /\ ~Fatal(f.special, v) THEN Foot(f.context, TRUE, Done(v.n)) ELSE Foot(f.context, TRUE, v)

\* Mutant: an error leaves evaluate_string before its count is taken back.
NestedUnlessError(v) == IF IsError(v) THEN nested ELSE nested - 1

\* The count of evaluate_string after its text.
NestedAfter(v) == nested - 1

\* The text of eval ends; control and undisturbed errors leave it.
LeaveEval ==
    /\ Ours({"eval"}) /\ ~Recovers(Innermost, value)
    /\ nested' = NestedAfter(value)
    /\ Back(BuiltinResult(Innermost, value))
    /\ UNCHANGED <<loopDepth, callDepth, Process, errexit>>

\* The file of dot ends; return ends it too.
LeaveDot ==
    /\ Ours({"dot"}) /\ ~Recovers(Innermost, value)
    /\ callDepth' = callDepth - 1 /\ loopDepth' = Innermost.saved
    /\ Back(BuiltinResult(Innermost, IF value.tag = "return" THEN Done(value.n) ELSE value))
    /\ UNCHANGED <<nested, Process, errexit>>

\* evaluate_tree_without_exit: local control ends the process too.
LeaveInPlace ==
    /\ Ours({"in_place"})
    /\ Back(IF value.tag \in {"break", "continue", "return"} THEN Exits(value.n, "control") ELSE value)
    /\ spent' = TRUE
    /\ UNCHANGED <<Counters, shell, level, disturbed, ended, errexit>>

\* exit_from_child takes every outcome.
LeaveForked ==
    /\ Ours({"forked"})
    /\ ended' = "exit"
    /\ UNCHANGED <<shell, errexit, activations, value, Counters, level, disturbed, spent>>

\* runtime::run: the outermost input is over or gave up.  Local control other
\* than return is unreachable!() there.
Finish ==
    /\ Ours({"stream", "string"}) /\ ~Recovers(Innermost, value)
    /\ value.tag \in {"done", "exit", "return", "break", "continue"}
    /\ ended' = IF value.tag \in {"break", "continue"} THEN "panic" ELSE "exit"
    /\ UNCHANGED <<shell, errexit, activations, value, Counters, level, disturbed, spent>>

\* An interactive shell reads on after an error, anything else ends.
TopLevelError ==
    /\ Ours({"stream", "string"}) /\ ~Recovers(Innermost, value) /\ IsError(value)
    /\ loopDepth' = 0
    /\ IF shell.interactive
       THEN /\ activations' = <<Frame("stream", "record", {}, 0, FALSE)>> /\ value' = Nothing
            /\ nested' = 0 /\ disturbed' = FALSE /\ UNCHANGED ended
       ELSE ended' = "exit" /\ UNCHANGED <<activations, value, nested, disturbed>>
    /\ UNCHANGED <<shell, errexit, callDepth, level, spent>>

ENext ==
    \/ LastRecord \/ EnterCompound \/ GroupRefused \/ EnterLoop \/ EnterFunction \/ EnterEval \/ EnterDot
    \/ EnterInPlace \/ Fork \/ Command \/ BreakOrContinue \/ ReturnOrExit \/ SetErrexit
    \/ LeaveCompound \/ LeaveWhile \/ LeaveFor \/ LeaveBelowZero \/ LeaveFunction
    \/ RecordRecovered \/ NextRecord \/ LeaveEval \/ LeaveDot \/ LeaveInPlace \/ LeaveForked
    \/ Finish \/ TopLevelError

ESpec == EInit /\ [][ENext]_evars
-----------------------------------------------------------------------------
\* Properties.

Count(kinds) == Cardinality({i \in DOMAIN activations : activations[i].kind \in kinds})

\* The type of the state.
ETypeOK ==
    /\ \A i \in DOMAIN activations : activations[i].kind \in Kind /\ activations[i].context \subseteq {"exit", "tested", "forked"}
    /\ value.tag \in {"none", "done", "exit", "break", "continue", "return"} \cup ErrorTag
    /\ loopDepth \in Nat /\ callDepth \in Nat /\ nested \in Nat
    /\ ended \in {"no", "exit", "panic"}

\* What bounds recursion counts the functions, files and texts that are really
\* open, whichever way the others were left, so that no sequence of errors uses
\* the bound up and none slips under it.
DepthIsExact ==
    /\ callDepth = Count({"function", "dot"}) /\ nested = Count(TextKind)
    /\ callDepth + nested <= MaxEvaluations

\* Where the condition of an if, a loop, a ! or the left of && and || is being
\* evaluated, in this process and by the commands of this file.
Tests(f) == f.phase \in {"condition"} \/ (f.kind \in {"and", "or"} /\ f.phase = "left")
Boundary(f) == f.kind \in {"dot"} \/ (f.kind = "forked" /\ f.phase = "background")
UnderTest == \E i \in DOMAIN activations :
    Tests(activations[i]) /\ \A j \in i + 1..Len(activations) : ~Boundary(activations[j])

\* evaluation.rs:1042: set -e never ends the shell from inside a condition,
\* through any nesting of functions, groups, eval and subshells.
ErrexitSparesConditions ==
    [][value.cause # "errexit" /\ value'.cause = "errexit" => ~UnderTest]_evars

\* The loops a break can see from the kth activation: those above the innermost
\* function, file or child.
Hiding == {"function", "dot", "in_place", "forked"}
Visible(k) == Cardinality({i \in 1..k : /\ activations[i].kind \in LoopKind
                                        /\ \A j \in i + 1..k : activations[j].kind \notin Hiding})

\* Outside the cases of disturbed, loop_depth is the number of loops a break may
\* leave, through errors, recoveries, functions and files.
LoopDepthIsLexical == (~disturbed /\ value = Nothing) => loopDepth = Visible(Len(activations))

\* After a subshell that took its shell's place, a shell that is not interactive
\* only unwinds: no command of it runs in the subshell's state.
InPlaceIsLast == (spent /\ ~shell.interactive) => value # Nothing

\* evaluation.rs:435, 1752, 160 and 1216: the bounds on recursion and the depth of
\* loops are those of the constructs that are really open, whichever way the
\* others were left, and a subshell in the shell's own place is its last command.
NestingIsExact == DepthIsExact /\ LoopDepthIsLexical /\ InPlaceIsLast

\* runtime.rs:174: "command loop returned local control" is unreachable, and
\* loop_depth never goes below zero.
NoStrayControl == ended # "panic"
=============================================================================
