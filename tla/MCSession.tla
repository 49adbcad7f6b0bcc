----------------------------- MODULE MCSession -----------------------------
(* What a shell remembers between commands: the locations in the command      *)
(* table, the input frames with the alias texts laid over them, the variables *)
(* of the Bash dialect, and the dispositions of its signals.  No operation of *)
(* one writes the state of another, so a behaviour explores one of them       *)
(* (focus) and leaves the others in their initial state.                      *)
EXTENDS CommandHash, InputStack, Arrays, MCDispositions

VARIABLE focus

StandardPath == <<"B">>
SomeValues == {<<>>, <<"a">>, <<Blank>>, <<"b", Blank>>, <<"b", Blank, "b">>}

\* Commands about the variables a and r: every kind of value, every attribute, and references from one to the other.
One == <<Num(1)>>
X == <<Word("x")>>
Lists == {<<Elem(NoSub, One, FALSE), Elem(NoSub, X, FALSE)>>, <<Elem(1, One, TRUE), Elem(1, X, TRUE)>>,
          <<Elem(2, One, FALSE), Elem(NoSub, X, FALSE)>>}
OddLists == {<<Elem(0, One, FALSE), Elem(EmptySub, X, FALSE)>>, <<Elem(-1, X, FALSE)>>}
Pointers == {<<NameAtom("a")>>, <<NameAtom("r")>>, <<ElemAtom("a", 1)>>}
WantsOf(f, v) == [Request EXCEPT ![f] = v]
Joined(r, s) == [k \in DOMAIN r \cup DOMAIN s |-> IF k \in DOMAIN r THEN r[k] ELSE s[k]]
AsElement(sub, append) == [form |-> "element", sub |-> sub, text |-> X, append |-> append]
AsList(l, append) == [form |-> "compound", elements |-> l, append |-> append]
Bare == [form |-> "none"]
AsText(t) == [form |-> "text", text |-> t]
AsMember == [form |-> "member"]
AsAppend == [form |-> "append", text |-> One]
Declaring(n, r, v) == Joined([does |-> "declare", name |-> n, req |-> r], v)
CommandsOn(n) ==
    {[does |-> "assign", name |-> n, text |-> t] : t \in {One, X, <<NameAtom("r")>>}}
    \cup {Joined([does |-> "array", name |-> n], v) :
            v \in {AsElement(-1, FALSE), AsElement(1, TRUE), AsElement(AllSub, FALSE), AsElement(EmptySub, FALSE), AsAppend, AsMember}
                  \cup {AsList(l, FALSE) : l \in Lists} \cup {AsList(l, TRUE) : l \in OddLists}}
    \cup {Declaring(n, r, v) :
            r \in {Request, WantsOf("int", "on"), WantsOf("ro", "on"), WantsOf("kind", "assoc")},
            v \in {Bare, AsText(X), AsAppend}}
    \cup {Declaring(n, Request, v) : v \in {AsElement(1, FALSE), AsList(CHOOSE l \in Lists : TRUE, FALSE)}}
    \cup {Declaring(n, WantsOf(q[1], q[2]), Bare) :
            q \in {<<"up", "on">>, <<"kind", "indexed">>, <<"ref", "on">>, <<"ref", "off">>, <<"ro", "off">>,
                   <<"destroy", "indexed">>, <<"ex", "off">>}}
    \cup {Declaring(n, WantsOf("ref", "on"), AsText(p)) : p \in Pointers}
    \cup {[does |-> "held", name |-> n, req |-> r, form |-> "compound", elements |-> l, append |-> FALSE] :
            r \in {Request, WantsOf("kind", "assoc"), WantsOf("ref", "on")}, l \in {CHOOSE l \in Lists : TRUE}}
    \cup {Joined([does |-> "export", name |-> n, attrs |-> [ro |-> k, ex |-> ~k], remove |-> FALSE], v) :
            k \in BOOLEAN, v \in {Bare, AsText(X)}}
    \cup {Joined([does |-> "export", name |-> n, attrs |-> [ro |-> FALSE, ex |-> TRUE], remove |-> TRUE], v) :
            v \in {Bare, AsText(X), AsAppend}}
    \cup {[does |-> "unset", name |-> n, sub |-> s] : s \in {NoSub, -1, AllSub}}
SomeOperations == CommandsOn("a") \cup CommandsOn("r")

Init ==
    /\ focus \in {"hash", "input", "variables", "signals"}
    /\ HInit
    /\ focus # "hash" => spec = "none"
    /\ IInit /\ AInit
    /\ ShellsInit
    /\ focus # "signals" => shell = "interactive" /\ ignored = {}

Next ==
    /\ UNCHANGED focus
    /\ \/ focus = "hash"  /\ HNext /\ UNCHANGED <<ivars, avars, shellvars>>
       \/ focus = "input" /\ INext /\ UNCHANGED <<hvars, avars, shellvars>>
       \/ focus = "variables" /\ ANext /\ UNCHANGED <<hvars, ivars, shellvars>>
       \/ focus = "signals" /\ ShellsNext /\ UNCHANGED <<hvars, ivars, avars>>

Spec == Init /\ [][Next]_<<focus, hvars, ivars, avars, shellvars>>

\* What tells states apart: last says which command came before, for the properties about single steps, and no
\* command reads it.
SessionView == <<focus, hvars, ivars, table, commands, shellvars>>
=============================================================================
