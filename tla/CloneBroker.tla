---------------------------- MODULE CloneBroker ----------------------------
(* Child processes on Windows.  A clone of the shell cannot create processes: *)
(* it asks a thread of the root process, its broker, over a pair of pipes,    *)
(* and the broker copies handles from and into the process it serves.         *)
(*                                                                            *)
(* One shell thread in the root, a tree of clones, a broker for each of them, *)
(* and the programs the brokers start.  A handle is one entry in a process's  *)
(* table; a clone is born with a copy of every inheritable entry of its       *)
(* parent's.                                                                  *)
EXTENDS Integers, Sequences, FiniteSets

CONSTANTS
    Clones,     \* positive numbers
    Script,     \* what the shell thread of the root (0) and of each clone does
    Standard,   \* the ends of data pipes each clone keeps as standard handles
    MaxRefused   \* how often a clone cannot be given its broker

Root == 0
Shells == {Root} \cup Clones
Program(c) == -c
Own == 0             \* by: a handle the shell thread knows and will close,
Unknown == -1        \* or a copy nobody in that process knows
ThreadOf(c) == c     \* or one the broker of c closes

\* Only clones are forked, and each of them once: a number names one process.  What runs
\* programs is a clone.
ASSUME CloneBrokerAssumption ==
    /\ Clones \subseteq Nat \ {0} /\ MaxRefused \in Nat
    /\ DOMAIN Script = Shells /\ DOMAIN Standard = Clones
    /\ \A p \in Shells : /\ Script[p] \in Seq({"pipe", "fork", "shut", "wait", "execute"} \X Nat)
                          /\ \A i \in DOMAIN Script[p] : Script[p][i][1] = "fork" => Script[p][i][2] \in Clones
    /\ \A p, q \in Shells : \A i \in DOMAIN Script[p], j \in DOMAIN Script[q] :
          Script[p][i][1] = "fork" /\ Script[q][j] = Script[p][i] => p = q /\ i = j
    /\ \A i \in DOMAIN Script[Root] : Script[Root][i][1] # "execute"

VARIABLES
    handles,    \* the entries of all the tables: [process, end, by, inherits]
    alive,      \* of each shell: "none", "suspended", "running", "ended"
    at,         \* the operation of its script a shell is at, 0 before the first
    step,       \* how far in it
    broker,     \* of each clone: what its thread does, and the process it serves
    channel,    \* of each clone: the request and the answer under way
    program,    \* of each clone: "none", "running", "ended"
    refused
bvars == <<handles, alive, at, step, broker, channel, program, refused>>

End(kind, n, way) == <<kind, n, way>>
Client(c) == {End("request", c, "w"), End("response", c, "r")}
Server(c) == {End("request", c, "r"), End("response", c, "w")}
Data(n) == {End("data", n, "r"), End("data", n, "w")}

Handle(process, end, by, inherits) == [process |-> process, end |-> end, by |-> by, inherits |-> inherits]
Opened(process, ends, by) == {Handle(process, e, by, TRUE) : e \in ends}
OwnEnds(process, ends) == {h \in handles : h.process = process /\ h.end \in ends /\ h.by = Own}
Of(process) == {h \in handles : h.process = process}
ThreadHolds(c) == {h \in handles : h.process = Root /\ h.by = ThreadOf(c)}
Copied(h, process) == [h EXCEPT !.process = process, !.by = IF @ = Own THEN Own ELSE Unknown]

BInit ==
    /\ handles = {} /\ refused = 0
    /\ alive = [p \in Shells |-> IF p = Root THEN "running" ELSE "none"]
    /\ at = [p \in Shells |-> IF p = Root THEN 1 ELSE 0]
    /\ step = [p \in Shells |-> "script"]
    /\ broker = [c \in Clones |-> [does |-> "none", serves |-> Root]]
    /\ channel = [c \in Clones |-> [request |-> "none", about |-> 0, answer |-> FALSE]]
    /\ program = [c \in Clones |-> "none"]

Op(p) == Script[p][at[p]]
Does(p, op) == alive[p] = "running" /\ at[p] \in DOMAIN Script[p] /\ Op(p)[1] = op
Advances(p) == at' = [at EXCEPT ![p] = @ + 1] /\ step' = [step EXCEPT ![p] = "script"]
Goes(p, s) == step' = [step EXCEPT ![p] = s] /\ UNCHANGED at
Asks(c, op, about) ==
    channel' = [channel EXCEPT ![c] = [request |-> op, about |-> about, answer |-> FALSE]]
Quiet(c) == channel[c].request = "none" /\ ~channel[c].answer
Takes(c) == channel[c].answer /\ channel' = [channel EXCEPT ![c].answer = FALSE]
-----------------------------------------------------------------------------
(* A shell thread *)

\* pipe(): the root makes it itself, a clone asks.
DirectPipe ==
    /\ Does(Root, "pipe")
    /\ handles' = handles \cup Opened(Root, Data(Op(Root)[2]), Own) /\ Advances(Root)
    /\ UNCHANGED <<alive, broker, channel, program, refused>>
BrokeredPipe(p) ==
    /\ Does(p, "pipe") /\ p # Root
    /\ \/ step[p] = "script" /\ Quiet(p) /\ Asks(p, "pipe", Op(p)[2]) /\ Goes(p, "answer")
       \/ step[p] = "answer" /\ Takes(p) /\ Advances(p)
    /\ UNCHANGED <<handles, alive, broker, program, refused>>

\* fork_process, up to the clone: a channel to a broker.
DirectChannel ==
    /\ Does(Root, "fork") /\ step[Root] = "script"
    /\ handles' = handles \cup Opened(Root, Client(Op(Root)[2]) \cup Server(Op(Root)[2]), Own)
    /\ Goes(Root, "clone")
    /\ UNCHANGED <<alive, broker, channel, program, refused>>
BrokeredChannel(p) ==
    /\ Does(p, "fork") /\ p # Root
    /\ \/ step[p] = "script" /\ Quiet(p) /\ Asks(p, "channel", Op(p)[2]) /\ Goes(p, "answer")
       \/ step[p] = "answer" /\ Takes(p) /\ Goes(p, "clone")
    /\ UNCHANGED <<handles, alive, broker, program, refused>>

\* Mutant: the clone runs before it has been registered.
ClonedRunning == "running"
CreateSuspended == "suspended"
Clone(p) ==
    /\ Does(p, "fork") /\ step[p] = "clone"
    /\ handles' = handles \cup {Copied(h, Op(p)[2]) : h \in {h \in Of(p) : h.inherits}}
    /\ alive' = [alive EXCEPT ![Op(p)[2]] = CreateSuspended] /\ Goes(p, "serve")
    /\ UNCHANGED <<broker, channel, program, refused>>

\* Mutant: the clone's channel stays open in the process that made it.
KeepsChannel(p, c) == handles
WithoutClient(p, c) == handles \ OwnEnds(p, Client(c))

\* The root starts a broker for its clone, in a thread of its own.
StartBroker ==
    /\ Does(Root, "fork") /\ step[Root] = "serve"
    /\ LET c == Op(Root)[2] IN
         /\ handles' = {IF h \in OwnEnds(Root, Server(c)) THEN [h EXCEPT !.by = ThreadOf(c), !.inherits = FALSE] ELSE h :
                           h \in WithoutClient(Root, c)}
         /\ broker' = [broker EXCEPT ![c] = [does |-> "read", serves |-> c]]
    /\ Goes(Root, "resume")
    /\ UNCHANGED <<alive, channel, program, refused>>
\* A clone registers its clone with the broker of the new channel.
Register(p) ==
    /\ Does(p, "fork") /\ p # Root
    /\ LET c == Op(p)[2] IN
         \/ /\ step[p] = "serve" /\ Quiet(c) /\ Asks(c, "register", c) /\ Goes(p, "registered")
            /\ UNCHANGED handles
         \/ /\ step[p] = "registered" /\ Takes(c) /\ Goes(p, "resume")
            /\ handles' = WithoutClient(p, c)
    /\ UNCHANGED <<alive, broker, program, refused>>
\* Or it cannot: the clone is terminated, and the shell goes on to its next wait, for the others.
NextWait(p) ==
    LET after == at[p] + 1..Len(Script[p]) + 1
        stops == {i \in after : i \in DOMAIN Script[p] => Script[p][i][1] = "wait"}
    IN  CHOOSE i \in stops : \A j \in stops : i <= j
BrokerRefused(p) ==
    /\ refused < MaxRefused /\ refused' = refused + 1
    /\ Does(p, "fork") /\ step[p] = "serve"
    /\ LET c == Op(p)[2]
           data == UNION {Data(h.end[2]) : h \in {h \in Of(p) : h.end[1] = "data"}}
       IN  /\ alive' = [alive EXCEPT ![c] = "ended"]
           /\ handles' = handles \ (Of(c) \cup OwnEnds(p, Client(c) \cup Server(c) \cup data))
    /\ at' = [at EXCEPT ![p] = NextWait(p)] /\ step' = [step EXCEPT ![p] = "script"]
    /\ UNCHANGED <<broker, channel, program>>
Resume(p) ==
    /\ Does(p, "fork") /\ step[p] = "resume"
    /\ alive' = [alive EXCEPT ![Op(p)[2]] = "running"] /\ Advances(p)
    /\ UNCHANGED <<handles, broker, channel, program, refused>>

\* The clone's side of fork_process, and the redirections of its command: of what it knows it keeps
\* the new channel and its standard handles.
Start(c) ==
    /\ c # Root /\ alive[c] = "running" /\ at[c] = 0
    /\ handles' = handles \ {h \in Of(c) : h.by = Own /\ h.end \notin Client(c) \cup Standard[c]}
    /\ Advances(c)
    /\ UNCHANGED <<alive, broker, channel, program, refused>>

Shut(p) ==
    /\ Does(p, "shut")
    /\ handles' = handles \ OwnEnds(p, Data(Op(p)[2])) /\ Advances(p)
    /\ UNCHANGED <<alive, broker, channel, program, refused>>
WaitForChild(p) ==
    /\ Does(p, "wait") /\ alive[Op(p)[2]] \in {"none", "ended"}
    /\ Advances(p)
    /\ UNCHANGED <<handles, alive, broker, channel, program, refused>>
\* execute_program in a clone: the broker spawns it, and its status is the clone's.
Execute(c) ==
    /\ Does(c, "execute")
    /\ \/ step[c] = "script" /\ Quiet(c) /\ Asks(c, "spawn", c) /\ Goes(c, "answer")
       \/ step[c] = "answer" /\ Takes(c) /\ Advances(c)
    /\ UNCHANGED <<handles, alive, broker, program, refused>>
\* The root stays, with its brokers' threads.
CloneExits(p) ==
    /\ p # Root /\ alive[p] = "running" /\ at[p] > Len(Script[p])
    /\ alive' = [alive EXCEPT ![p] = "ended"]
    /\ handles' = handles \ {h \in Of(p) : h.by \in {Own, Unknown}}
    /\ UNCHANGED <<at, step, broker, channel, program, refused>>
-----------------------------------------------------------------------------
(* A broker's thread, clone_broker_main *)

Reads(c, op) == broker[c].does = "read" /\ channel[c].request = op
Answers(c) == channel' = [channel EXCEPT ![c] = [@ EXCEPT !.request = "none", !.answer = TRUE]]

\* BROKER_PIPE and BROKER_CHANNEL: the pipes are made in the root, inheritable at first.
Makes(c) == IF channel[c].request = "pipe" THEN Data(channel[c].about)
            ELSE Client(channel[c].about) \cup Server(channel[c].about)
MakeEnds(c) ==
    /\ Reads(c, "pipe") \/ Reads(c, "channel")
    /\ handles' = handles \cup Opened(Root, Makes(c), ThreadOf(c))
    /\ broker' = [broker EXCEPT ![c].does = "share"]
    /\ UNCHANGED <<alive, at, step, channel, program, refused>>
\* They are copied into the process served, and a nested broker started on the server's.
ShareEnds(c) ==
    /\ broker[c].does = "share"
    /\ LET n == channel[c].about
           pipe == channel[c].request = "pipe"
           made == {h \in ThreadHolds(c) : h.end \in Makes(c)}
           kept == IF pipe THEN {} ELSE {Handle(Root, e, ThreadOf(n), FALSE) : e \in Server(n)}
       IN  /\ handles' = (handles \ made) \cup kept
                         \cup Opened(broker[c].serves, IF pipe THEN Data(n) ELSE Client(n), Own)
           /\ broker' = [d \in Clones |->
                 IF d = c THEN [broker[c] EXCEPT !.does = "read"]
                 ELSE IF d = n /\ ~pipe THEN [does |-> "read", serves |-> broker[c].serves] ELSE broker[d]]
    /\ Answers(c)
    /\ UNCHANGED <<alive, at, step, program, refused>>
BrokerRegisters(c) ==
    /\ Reads(c, "register")
    /\ broker' = [broker EXCEPT ![c].serves = channel[c].about] /\ Answers(c)
    /\ UNCHANGED <<handles, alive, at, step, program, refused>>

\* BROKER_SPAWN: the standard handles are copied into the root, inheritable, for the program, and
\* stay there until it ends.
SpawnProgram(c) ==
    /\ Reads(c, "spawn")
    /\ LET ends == {h.end : h \in OwnEnds(broker[c].serves, Standard[c])}
       IN  handles' = handles \cup Opened(Root, ends, ThreadOf(c)) \cup Opened(Program(c), ends, Own)
    /\ program' = [program EXCEPT ![c] = "running"] /\ broker' = [broker EXCEPT ![c].does = "wait"]
    /\ UNCHANGED <<alive, at, step, channel, refused>>
ProgramWaited(c) ==
    /\ broker[c].does = "wait" /\ program[c] = "ended"
    /\ handles' = handles \ {h \in ThreadHolds(c) : h.end[1] = "data"}
    /\ broker' = [broker EXCEPT ![c].does = "read"] /\ Answers(c)
    /\ UNCHANGED <<alive, at, step, program, refused>>

\* The request pipe has no writer left.
BrokerEnds(c) ==
    /\ broker[c].does = "read" /\ channel[c].request = "none"
    /\ \A h \in handles : h.end # End("request", c, "w")
    /\ broker' = [broker EXCEPT ![c].does = "ended"] /\ handles' = handles \ ThreadHolds(c)
    /\ UNCHANGED <<alive, at, step, channel, program, refused>>

\* A program that reads a pipe ends at its end of file, another one when it likes.
ProgramEnds(c) ==
    /\ program[c] = "running"
    /\ \A h \in Of(Program(c)) : h.end[3] = "r" => \A w \in handles : w.end # End("data", h.end[2], "w")
    /\ program' = [program EXCEPT ![c] = "ended"] /\ handles' = handles \ Of(Program(c))
    /\ UNCHANGED <<alive, at, step, broker, channel, refused>>
-----------------------------------------------------------------------------
ShellStep(p) ==
    \/ BrokeredPipe(p) \/ BrokeredChannel(p) \/ Clone(p) \/ Register(p) \/ BrokerRefused(p) \/ Resume(p)
    \/ Start(p) \/ Shut(p) \/ WaitForChild(p) \/ Execute(p) \/ CloneExits(p)
RootStep == DirectPipe \/ DirectChannel \/ StartBroker \/ ShellStep(Root)
BrokerStep(c) ==
    MakeEnds(c) \/ ShareEnds(c) \/ BrokerRegisters(c) \/ SpawnProgram(c) \/ ProgramWaited(c) \/ BrokerEnds(c)

BNext == RootStep \/ \E c \in Clones : ShellStep(c) \/ BrokerStep(c) \/ ProgramEnds(c)
\* Every thread and every process runs.
BFairness ==
    /\ WF_bvars(RootStep)
    /\ \A c \in Clones : WF_bvars(ShellStep(c)) /\ WF_bvars(BrokerStep(c)) /\ WF_bvars(ProgramEnds(c))
BSpec == BInit /\ [][BNext]_bvars /\ BFairness
-----------------------------------------------------------------------------
\* Handle numbers mean something in one process only: what a clone asks for is copied into the table of
\* that clone and of no other, although its broker began by serving the process that made the clone
\* (windows/broker.rs, BROKER_CHANNEL and BROKER_REGISTER).
AnswersReachTheAsker ==
    \A c \in Clones : channel[c].request \in {"pipe", "channel", "spawn"} => broker[c].serves = c

\* Every clone ends, also those of clones and after a broker could not be had, and then no broker's
\* thread is left in the root (windows/children.rs, fork_process; clone_broker_main).
ClonesAndBrokersEnd ==
    <>[](/\ at[Root] > Len(Script[Root])
         /\ \A c \in Clones : alive[c] \in {"none", "ended"} /\ broker[c].does \in {"none", "ended"})

\* "Broker I/O deliberately avoids making temporary inheritable duplicates.  Another shell child may be
\* cloned while this thread is blocked on a pipe" (windows/broker.rs): no clone is born with a copy of a
\* handle only a broker knows.
NothingIsBorrowed == \A h \in handles : h.by # Unknown
=============================================================================
