------------------------------- MODULE Pipes -------------------------------
(* Pipelines, command substitutions, here-documents and process              *)
(* substitutions as a set of processes that hold the ends of pipes.           *)
(* A process is a forked copy of the shell: it evaluates one task and exits.  *)
(* A reader sees the end of its input only when no process holds the write    *)
(* end any more, and a writer is killed only when none holds the read end, so *)
(* everything depends on who drops which end before it waits or reads.        *)
(* Payload is counted in units; job numbers, statuses, signals other than     *)
(* SIGPIPE and the words of a command are left out.                           *)
EXTENDS Integers, Sequences

CONSTANTS
    Scripts,      \* the scripts considered: sequences of tasks
    Processes,    \* process ids, 1..n; 1 is the shell that runs the script
    Capacity,     \* units a kernel pipe holds before a writer blocks
    PipeBuffer,   \* PIPE_BUFFER_SIZE: units the shell writes itself into a pipe
    MaxFaults     \* how many calls of pipe(2) and fork(2) fail

ASSUME PipesAssumption ==
    /\ Capacity \in Nat \ {0} /\ PipeBuffer \in 0..Capacity /\ MaxFaults \in Nat
    /\ 1 \in Processes /\ Processes \subseteq Nat

VARIABLES procs, pipes, script, faults
pvars == <<procs, pipes, script, faults>>

Main == 1
NoEnd == <<0, "none">>          \* a stream that is not one of the pipes

\* Tasks.  A run reads its inputs to their end (or not at all) and writes so
\* many units to each of its outputs, in any order.
Run(reads, writes) == [kind |-> "run", reads |-> reads, writes |-> writes]
Pipeline(stages, background, lastPipe) ==
    [kind |-> "pipe", stages |-> stages, background |-> background, lastPipe |-> lastPipe]
Substitution(body) == [kind |-> "subst", body |-> body]
HereDocument(length, command) == [kind |-> "here", length |-> length, command |-> command]
WithNames(names, command) == [kind |-> "names", names |-> names, command |-> command]

Entry == [run |-> "run", pipe |-> "stage", subst |-> "capture", here |-> "here", names |-> "name"]
Outputs(in, out, subs) == {e \in {in, out} \cup {subs[n] : n \in DOMAIN subs} : e[2] = "w"}

\* A process about to evaluate a task with the given streams.
Evaluating(task, in, out, subs) ==
    [pc   |-> Entry[task.kind], task |-> task, i |-> 1,
     in   |-> in, out |-> out,          \* standard input and output
     prev |-> NoEnd,                    \* evaluate_pipeline's previous
     rd   |-> NoEnd, wr |-> NoEnd,      \* the Pipe being handed out
     home |-> NoEnd,                    \* what standard input goes back to
     subs |-> subs,                     \* the SubstitutionStack
     kids |-> {}, got |-> 0,
     left |-> [e \in Outputs(in, out, subs) |-> IF task.kind = "run" THEN task.writes ELSE 0]]

Absent == [pc |-> "none"]
Alive(p) == procs[p].pc \notin {"none", "exited"}
Ends(p) == {procs[p].in, procs[p].out, procs[p].prev, procs[p].rd, procs[p].wr, procs[p].home}
           \cup {procs[p].subs[n] : n \in DOMAIN procs[p].subs}
Open(end) == \E p \in Processes : Alive(p) /\ end \in Ends(p)
AtEnd(end) == end = NoEnd \/ (pipes[end[1]].n = 0 /\ ~Open(<<end[1], "w">>))

PInit ==
    /\ script \in Scripts
    /\ procs = [p \in Processes |-> IF p = Main THEN Evaluating(Head(script), NoEnd, NoEnd, <<>>) ELSE Absent]
    /\ pipes = <<>> /\ faults = 0

Become(p, state) == procs' = [procs EXCEPT ![p] = state]
Fresh == CHOOSE c \in Processes : procs[c].pc = "none" /\ \A d \in Processes : procs[d].pc = "none" => c <= d
ForkInto(p, state, child) == procs' = [procs EXCEPT ![p] = state, ![Fresh] = child]
Unchanged == UNCHANGED <<script, faults>>
-----------------------------------------------------------------------------
\* create_pipe: both ends in this process.
NewPipe(n, capacity) == pipes' = Append(pipes, [n |-> n, cap |-> capacity])
ReadEnd  == <<Len(pipes) + 1, "r">>
WriteEnd == <<Len(pipes) + 1, "w">>
CreatePipe(p, next) ==
    /\ NewPipe(0, Capacity)
    /\ Become(p, [procs[p] EXCEPT !.pc = next, !.rd = ReadEnd, !.wr = WriteEnd])

\* An error on the way drops every end that the abandoned construct held.
Abandoned(q) ==
    [q EXCEPT !.pc = "done", !.prev = NoEnd, !.rd = NoEnd, !.wr = NoEnd, !.subs = <<>>]
Fails(p) ==
    /\ procs[p].pc \in {"stage", "fork", "capture", "captureFork", "here", "hereFork", "hereRun", "name", "nameFork", "command"}
    /\ faults < MaxFaults
    /\ faults' = faults + 1
    /\ Become(p, Abandoned(procs[p]))
    /\ UNCHANGED <<script, pipes>>

\* evaluate_pipeline.
LastOne(q) == q.i = Len(q.task.stages)
Stage(p) ==
    LET q == procs[p] IN
    /\ q.pc = "stage" /\ ~(LastOne(q) /\ q.task.lastPipe)
    /\ IF LastOne(q)
       THEN Become(p, [q EXCEPT !.pc = "fork"]) /\ UNCHANGED pipes
       ELSE CreatePipe(p, "fork")
    /\ Unchanged

\* In the parent behind the fork: previous is dropped, the read end becomes
\* previous and the write end is dropped.
\* Mutant: the write end stays open in the shell.
KeepsWriteEnd(q) == [q EXCEPT !.prev = q.rd, !.rd = NoEnd]
AfterFork(q) == [q EXCEPT !.prev = q.rd, !.rd = NoEnd, !.wr = NoEnd]

\* In the child: previous on standard input, the write end on standard output.
StageStreams(q) ==
    <<IF q.prev # NoEnd THEN q.prev
      ELSE IF q.task.background /\ q.i = 1 THEN NoEnd  \* /dev/null: no job control
      ELSE q.in,
      IF q.wr # NoEnd THEN q.wr ELSE q.out>>

ForkStage(p) ==
    LET q == procs[p]
        child == Evaluating(q.task.stages[q.i], StageStreams(q)[1], StageStreams(q)[2], q.subs)
        next == IF ~LastOne(q) THEN "stage" ELSE IF q.task.background THEN "done" ELSE "wait"
    IN  /\ q.pc = "fork"
        /\ ForkInto(p, [AfterFork(q) EXCEPT !.pc = next, !.i = q.i + 1, !.kids = @ \cup {Fresh}], child)
        /\ UNCHANGED pipes /\ Unchanged

\* last_pipe::run: the shell itself runs the last stage with previous as its
\* standard input ...
LastStage(p) ==
    LET q == procs[p]
        last == q.task.stages[q.i]
    IN  /\ q.pc = "stage" /\ LastOne(q) /\ q.task.lastPipe
        /\ Become(p, [q EXCEPT !.pc = "inline", !.home = q.in, !.in = q.prev, !.prev = NoEnd,
                               !.task = last, !.left = [e \in DOMAIN q.left |-> last.writes]])
        /\ UNCHANGED pipes /\ Unchanged

\* ... and gives the pipe up before it waits for the other stages.
\* Mutant: it waits first.
WaitsFirst(q) == [q EXCEPT !.pc = "wait"]
LastStageEnds(q) == [q EXCEPT !.pc = "wait", !.in = q.home, !.home = NoEnd]

\* evaluate_command_substitution and the loop that reads its output to the end.
Capture(p) == procs[p].pc = "capture" /\ CreatePipe(p, "captureFork") /\ Unchanged
CaptureFork(p) ==
    LET q == procs[p] IN
    /\ q.pc = "captureFork"
    /\ ForkInto(p, [q EXCEPT !.pc = "read", !.wr = NoEnd, !.kids = {Fresh}],
                Evaluating(q.task.body, q.in, q.wr, q.subs))
    /\ UNCHANGED pipes /\ Unchanged
ReadOutput(p) ==
    LET q == procs[p] IN
    /\ q.pc = "read" /\ pipes[q.rd[1]].n > 0
    /\ pipes' = [pipes EXCEPT ![q.rd[1]].n = @ - 1]
    /\ Become(p, [q EXCEPT !.got = @ + 1])
    /\ Unchanged
OutputEnds(p) ==
    LET q == procs[p] IN
    /\ q.pc = "read" /\ AtEnd(q.rd)
    /\ Become(p, [q EXCEPT !.pc = "wait", !.rd = NoEnd])
    /\ UNCHANGED pipes /\ Unchanged

\* open_here_content: a short text is written before anyone can read it, a long
\* one goes into a file in memory or, without one, comes from a forked writer.
\* Mutant: the shell writes a long text into a pipe by itself.
NeverForks(length) == TRUE
WrittenByShell(length) == length <= PipeBuffer
HereOpen(p) ==
    LET q == procs[p]
        length == q.task.length
    IN  /\ q.pc = "here"
        /\ \/ /\ ~WrittenByShell(length) /\ NewPipe(length, length)      \* anonymous_file
              /\ Become(p, [q EXCEPT !.pc = "hereRun", !.rd = ReadEnd])
           \/ /\ WrittenByShell(length) /\ length <= Capacity /\ NewPipe(length, Capacity)
              /\ Become(p, [q EXCEPT !.pc = "hereRun", !.rd = ReadEnd])
           \/ ~WrittenByShell(length) /\ CreatePipe(p, "hereFork")
        /\ Unchanged
HereFork(p) ==
    LET q == procs[p] IN
    /\ q.pc = "hereFork"
    /\ ForkInto(p, [q EXCEPT !.pc = "hereRun", !.wr = NoEnd],
                Evaluating(Run(FALSE, q.task.length), q.in, q.wr, q.subs))
    /\ UNCHANGED pipes /\ Unchanged

\* The redirected command: the read end is on standard input while it runs.
HereRun(p) ==
    LET q == procs[p] IN
    /\ q.pc = "hereRun"
    /\ ForkInto(p, [q EXCEPT !.pc = "wait", !.home = q.in, !.in = q.rd, !.rd = NoEnd, !.kids = {Fresh}],
                Evaluating(q.task.command, q.rd, q.out, q.subs))
    /\ UNCHANGED pipes /\ Unchanged

\* bash_process_substitution::substitute.  The child forgets the names it
\* inherited; the shell keeps its end until the command is over.
Name(p) == procs[p].pc = "name" /\ CreatePipe(p, "nameFork") /\ Unchanged
NameFork(p) ==
    LET q == procs[p]
        name == q.task.names[q.i]
        child == IF name.direction = "input" THEN Evaluating(name.body, q.in, q.wr, <<>>)
                 ELSE Evaluating(name.body, q.rd, q.out, <<>>)
        mine == IF name.direction = "input" THEN q.rd ELSE q.wr
    IN  /\ q.pc = "nameFork"
        /\ ForkInto(p, [q EXCEPT !.pc = IF q.i = Len(q.task.names) THEN "command" ELSE "name", !.i = @ + 1,
                                 !.subs = Append(@, mine), !.rd = NoEnd, !.wr = NoEnd], child)
        /\ UNCHANGED pipes /\ Unchanged

\* publish_before_exec: the command has the names open.
NamedCommand(p) ==
    LET q == procs[p] IN
    /\ q.pc = "command"
    /\ ForkInto(p, [q EXCEPT !.pc = "wait", !.kids = {Fresh}], Evaluating(q.task.command, q.in, q.out, q.subs))
    /\ UNCHANGED pipes /\ Unchanged

\* wait_for_job, and what the command held behind it: the names, the
\* here-document.  A substitution's output becomes the output of a command.
Waited(p) ==
    LET q == procs[p] IN
    /\ q.pc = "wait" /\ \A c \in q.kids : procs[c].pc = "exited"
    /\ Become(p, IF q.task.kind = "subst"
                 THEN [q EXCEPT !.pc = "run", !.kids = {}, !.task = Run(FALSE, 0), !.left = [e \in DOMAIN @ |-> q.got]]
                 ELSE [q EXCEPT !.pc = "done", !.kids = {}, !.subs = <<>>,
                                !.in = IF q.task.kind = "here" THEN q.home ELSE @, !.home = NoEnd])
    /\ UNCHANGED pipes /\ Unchanged
-----------------------------------------------------------------------------
\* A command that runs: external, or a built-in of a forked shell.
Running(p) == procs[p].pc \in {"run", "inline"}
Inputs(q) == IF q.task.reads THEN {e \in {q.in} \cup {q.subs[n] : n \in DOMAIN q.subs} : e[2] = "r"} ELSE {}
Consume(p) ==
    /\ Running(p)
    /\ \E e \in Inputs(procs[p]) : pipes[e[1]].n > 0 /\ pipes' = [pipes EXCEPT ![e[1]].n = @ - 1]
    /\ UNCHANGED procs /\ Unchanged
Produce(p) ==
    /\ Running(p)
    /\ \E e \in DOMAIN procs[p].left :
        /\ procs[p].left[e] > 0 /\ Open(<<e[1], "r">>) /\ pipes[e[1]].n < pipes[e[1]].cap
        /\ pipes' = [pipes EXCEPT ![e[1]].n = @ + 1]
        /\ Become(p, [procs[p] EXCEPT !.left[e] = @ - 1])
    /\ Unchanged
Killed(p) ==                                                  \* SIGPIPE
    /\ Running(p) /\ \E e \in DOMAIN procs[p].left : procs[p].left[e] > 0 /\ ~Open(<<e[1], "r">>)
    /\ Become(p, [procs[p] EXCEPT !.pc = "exited"])
    /\ UNCHANGED pipes /\ Unchanged
RunEnds(p) ==
    LET q == procs[p] IN
    /\ Running(p) /\ (\A e \in Inputs(q) : AtEnd(e)) /\ (\A e \in DOMAIN q.left : q.left[e] = 0)
    /\ Become(p, IF q.pc = "inline" THEN LastStageEnds(q) ELSE [q EXCEPT !.pc = "done"])
    /\ UNCHANGED pipes /\ Unchanged

\* A forked shell exits; the shell takes the next command of the script.
Done(p) ==
    /\ procs[p].pc = "done"
    /\ IF p = Main /\ Len(script) > 1
       THEN script' = Tail(script) /\ Become(p, Evaluating(script[2], NoEnd, NoEnd, <<>>))
       ELSE UNCHANGED script /\ Become(p, [procs[p] EXCEPT !.pc = "exited"])
    /\ UNCHANGED <<pipes, faults>>

Step(p) ==
    \/ Stage(p) \/ ForkStage(p) \/ LastStage(p) \/ Capture(p) \/ CaptureFork(p) \/ ReadOutput(p)
    \/ OutputEnds(p) \/ HereOpen(p) \/ HereFork(p) \/ HereRun(p) \/ Name(p) \/ NameFork(p) \/ NamedCommand(p)
    \/ Waited(p) \/ Consume(p) \/ Produce(p) \/ Killed(p) \/ RunEnds(p) \/ Done(p)
PNext == \E p \in Processes : Alive(p) /\ (Step(p) \/ Fails(p))

\* The kernel runs every process that can run.  No call has to fail.
PFairness == \A p \in Processes : WF_pvars(Alive(p) /\ Step(p))
PSpec == PInit /\ [][PNext]_pvars /\ PFairness
-----------------------------------------------------------------------------
\* Properties.

\* Every process the script started comes to an end, whatever stages do with
\* their input, whichever pipe or fork failed, and in every interleaving: no
\* reader waits for a writer that only an idle process keeps open, and no writer
\* for a reader.
EverythingEnds == <>(\A p \in Processes : ~Alive(p))
=============================================================================
