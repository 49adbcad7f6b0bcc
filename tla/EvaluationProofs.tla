-------------------------- MODULE EvaluationProofs --------------------------
(* Proofs about Evaluation: however deeply constructs nest and however they   *)
(* are left, the counters are those of what is open, set -e spares the        *)
(* conditions, and a subshell in the shell's place is its last command.       *)
EXTENDS Evaluation, Integers, FiniteSetTheorems, SequenceTheorems, TLAPS

Contexts == SUBSET {"exit", "tested", "forked"}
Phase == {"record", "last", "left", "right", "condition", "body", "background"}
Activation == [kind : Kind, phase : Phase, context : Contexts, saved : Nat, special : BOOLEAN]
Tag == {"done", "exit", "break", "continue", "return"} \cup ErrorTag
Outcome == [tag : Tag, n : Int, cause : {"none", "errexit", "context", "exit", "control"}]

-----------------------------------------------------------------------------
\* Counting the activations of a sequence.

CountIn(s, K) == Cardinality({i \in DOMAIN s : s[i].kind \in K})
VisibleIn(s, k) == Cardinality({i \in 1..k : /\ s[i].kind \in LoopKind
                                             /\ \A j \in i + 1..k : s[j].kind \notin Hiding})
SameKinds(s, t, k) == \A i \in 1..k : s[i].kind = t[i].kind

\* What is counted is finite.
LEMMA CountIsNat ==
  ASSUME NEW S, NEW s \in Seq(S), NEW K
  PROVE  IsFiniteSet({i \in DOMAIN s : s[i].kind \in K}) /\ CountIn(s, K) \in Nat
<1>1. IsFiniteSet(1..Len(s))
  BY FS_Interval
<1>2. IsFiniteSet({i \in DOMAIN s : s[i].kind \in K})
  BY <1>1, FS_Subset
<1> QED
  BY <1>2, FS_CardinalityType DEF CountIn

\* An activation that opens adds one to the counts of its kind.
LEMMA CountPush ==
  ASSUME NEW S, NEW s \in Seq(S), NEW f \in S, NEW K
  PROVE  CountIn(Append(s, f), K) = CountIn(s, K) + (IF f.kind \in K THEN 1 ELSE 0)
<1> DEFINE before == {i \in DOMAIN s : s[i].kind \in K}
           after  == {i \in DOMAIN Append(s, f) : Append(s, f)[i].kind \in K}
<1>1. /\ DOMAIN s = 1..Len(s) /\ DOMAIN Append(s, f) = 1..Len(s) + 1 /\ Len(s) \in Nat
      /\ \A i \in 1..Len(s) : Append(s, f)[i] = s[i]
      /\ Append(s, f)[Len(s) + 1] = f
  OBVIOUS
<1>2. IsFiniteSet(before) /\ Cardinality(before) \in Nat
  BY CountIsNat DEF CountIn
<1>0. CountIn(s, K) = Cardinality(before) /\ CountIn(Append(s, f), K) = Cardinality(after)
  BY DEF CountIn
<1> HIDE DEF before, after
<1>3. CASE f.kind \in K
  <2>1. after = before \cup {Len(s) + 1} /\ Len(s) + 1 \notin before
    BY <1>1, <1>3 DEF before, after
  <2> QED
    BY <2>1, <1>0, <1>2, <1>3, FS_AddElement
<1>4. CASE f.kind \notin K
  <2>1. after = before
    BY <1>1, <1>4 DEF before, after
  <2> QED
    BY <2>1, <1>0, <1>2, <1>4
<1> QED
  BY <1>3, <1>4

\* A sequence without its last element.
LEMMA FrontLast ==
  ASSUME NEW S, NEW s \in Seq(S), s # <<>>
  PROVE  /\ Front(s) \in Seq(S) /\ Len(Front(s)) = Len(s) - 1 /\ Len(s) \in Nat \ {0}
         /\ \A i \in 1..Len(s) - 1 : Front(s)[i] = s[i]
         /\ Last(s) \in S /\ Last(s) = s[Len(s)] /\ s = Append(Front(s), Last(s))
<1>1. Len(s) \in Nat \ {0}
  OBVIOUS
<1>2. /\ Front(s) \in Seq(S) /\ Len(Front(s)) = Len(s) - 1
      /\ \A i \in 1..Len(s) - 1 : Front(s)[i] = s[i]
  <2>1. Len(s) - 1 \in Int /\ 1 \in Int /\ \A i \in 1..Len(s) - 1 : s[i] \in S
    BY <1>1
  <2>2. /\ SubSeq(s, 1, Len(s) - 1) \in Seq(S)
        /\ Len(SubSeq(s, 1, Len(s) - 1)) = IF 1 <= Len(s) - 1 THEN (Len(s) - 1) - 1 + 1 ELSE 0
        /\ \A i \in 1..(Len(s) - 1) - 1 + 1 : SubSeq(s, 1, Len(s) - 1)[i] = s[1 + i - 1]
    BY ONLY <2>1, SubSeqProperties
  <2>3. (Len(s) - 1) - 1 + 1 = Len(s) - 1 /\ \A i \in 1..Len(s) - 1 : 1 + i - 1 = i
    BY <1>1
  <2> QED
    BY <1>1, <2>2, <2>3 DEF Front
<1>3. Last(s) \in S /\ Last(s) = s[Len(s)]
  BY <1>1 DEF Last
<1>4. s = Append(Front(s), Last(s))
  <2> DEFINE t == Append(Front(s), Last(s))
  <2>1. t \in Seq(S) /\ Len(t) = Len(s)
    BY <1>1, <1>2, <1>3
  <2>2. ASSUME NEW i \in 1..Len(s) PROVE t[i] = s[i]
    BY <1>1, <1>2, <1>3
  <2> HIDE DEF t
  <2>3. s = t
    BY <2>1, <2>2
  <2> QED
    BY <2>3 DEF t
<1> QED
  BY <1>1, <1>2, <1>3, <1>4

\* An activation that is over takes one from the counts of its kind.
LEMMA CountPop ==
  ASSUME NEW S, NEW s \in Seq(S), s # <<>>, NEW K
  PROVE  CountIn(s, K) = CountIn(Front(s), K) + (IF Last(s).kind \in K THEN 1 ELSE 0)
<1>1. Front(s) \in Seq(S) /\ Last(s) \in S /\ s = Append(Front(s), Last(s))
  BY FrontLast
<1>2. CountIn(Append(Front(s), Last(s)), K) = CountIn(Front(s), K) + (IF Last(s).kind \in K THEN 1 ELSE 0)
  BY <1>1, CountPush
<1> QED
  BY <1>1, <1>2

\* Counts look at the kinds only.
LEMMA CountKept ==
  ASSUME NEW S, NEW s \in Seq(S), NEW t \in Seq(S), Len(s) = Len(t), SameKinds(s, t, Len(s)), NEW K
  PROVE  CountIn(s, K) = CountIn(t, K)
<1>1. {i \in DOMAIN s : s[i].kind \in K} = {i \in DOMAIN t : t[i].kind \in K}
  BY DEF SameKinds
<1> QED
  BY <1>1 DEF CountIn

\* What can be seen from an activation depends on the kinds up to it.
LEMMA VisibleKept ==
  ASSUME NEW s, NEW t, NEW k \in Nat, SameKinds(s, t, k)
  PROVE  VisibleIn(s, k) = VisibleIn(t, k)
<1>1. \A i \in 1..k : \A j \in i + 1..k : j \in 1..k
  OBVIOUS
<1>2. {i \in 1..k : s[i].kind \in LoopKind /\ \A j \in i + 1..k : s[j].kind \notin Hiding}
      = {i \in 1..k : t[i].kind \in LoopKind /\ \A j \in i + 1..k : t[j].kind \notin Hiding}
  BY <1>1 DEF SameKinds
<1> QED
  BY <1>2 DEF VisibleIn

\* The loops that can be seen are finitely many.
LEMMA VisibleIsNat ==
  ASSUME NEW s, NEW k \in Nat
  PROVE  /\ VisibleIn(s, k) \in Nat
         /\ IsFiniteSet({i \in 1..k : s[i].kind \in LoopKind /\ \A j \in i + 1..k : s[j].kind \notin Hiding})
<1>1. IsFiniteSet(1..k)
  BY FS_Interval
<1>2. IsFiniteSet({i \in 1..k : s[i].kind \in LoopKind /\ \A j \in i + 1..k : s[j].kind \notin Hiding})
  BY <1>1, FS_Subset
<1> QED
  BY <1>2, FS_CardinalityType DEF VisibleIn

\* The loops that can be seen from an activation, in terms of the one below it.
LEMMA VisibleAbove ==
  ASSUME NEW s, NEW k \in Nat \ {0}
  PROVE  VisibleIn(s, k) = IF s[k].kind \in Hiding THEN 0
                           ELSE VisibleIn(s, k - 1) + (IF s[k].kind \in LoopKind THEN 1 ELSE 0)
<1> DEFINE Seen(n) == {i \in 1..n : s[i].kind \in LoopKind /\ \A j \in i + 1..n : s[j].kind \notin Hiding}
<1>0. VisibleIn(s, k) = Cardinality(Seen(k)) /\ VisibleIn(s, k - 1) = Cardinality(Seen(k - 1))
  BY DEF VisibleIn
<1>1. IsFiniteSet(Seen(k - 1)) /\ Cardinality(Seen(k - 1)) \in Nat
  <2>1. k - 1 \in Nat
    OBVIOUS
  <2> QED
    BY <2>1, VisibleIsNat DEF VisibleIn
<1> HIDE DEF Seen
<1>2. CASE s[k].kind \in Hiding
  <2>1. s[k].kind \notin LoopKind
    BY <1>2 DEF Hiding, LoopKind
  <2>2. \A i \in 1..k : i = k \/ k \in i + 1..k
    OBVIOUS
  <2>3. Seen(k) = {}
    BY <1>2, <2>1, <2>2 DEF Seen
  <2> QED
    BY <2>3, <1>0, <1>2, FS_EmptySet
<1>3. CASE s[k].kind \notin Hiding
  <2>1. \A i \in 1..k - 1 : i + 1..k = (i + 1..k - 1) \cup {k}
    OBVIOUS
  <2>2. \A i \in 1..k - 1 : i \in Seen(k) <=> i \in Seen(k - 1)
    BY <2>1, <1>3 DEF Seen
  <2>3. k + 1..k = {} /\ 1..k = (1..k - 1) \cup {k} /\ k \notin 1..k - 1
    OBVIOUS
  <2>4. CASE s[k].kind \in LoopKind
    <3>1. Seen(k) = Seen(k - 1) \cup {k} /\ k \notin Seen(k - 1)
      BY <2>2, <2>3, <2>4 DEF Seen
    <3> QED
      BY <3>1, <1>0, <1>1, <1>3, <2>4, FS_AddElement
  <2>5. CASE s[k].kind \notin LoopKind
    <3>1. Seen(k) = Seen(k - 1)
      BY <2>2, <2>3, <2>5 DEF Seen
    <3> QED
      BY <3>1, <1>0, <1>1, <1>3, <2>5
  <2> QED
    BY <2>4, <2>5
<1> QED
  BY <1>2, <1>3
-----------------------------------------------------------------------------
\* What a step does to the activations and the counters.

CallKind == {"function", "dot"}
CompoundKind == {"group", "sequence", "and", "or", "if", "not", "case"}
One(f, K) == IF f.kind \in K THEN 1 ELSE 0
Fits(f) == /\ f.phase = "condition" => f.kind \in {"if", "not", "while", "until"}
           /\ f.kind = "in_place" => f.phase = "body"
Unwinding == {"exit"} \cup ErrorTag

ActivationsType ==
    /\ activations \in Seq(Activation) /\ activations # <<>>
    /\ \A i \in 1..Len(activations) :
         Fits(activations[i]) /\ (activations[i].kind \in {"stream", "string"} <=> i = 1)
NestType ==
    /\ ActivationsType
    /\ value \in {Nothing} \cup Outcome
    /\ loopDepth \in Nat /\ callDepth \in Nat /\ nested \in Nat

\* The context an activation got from the one below it.
Linked(c, f) ==
    /\ "exit" \in f.context <=> f.kind = "forked" \/ "exit" \in c
    /\ "tested" \in c /\ ~Boundary(f) => "tested" \in f.context
    /\ f.kind = "in_place" => "exit" \in c

Entered(f) ==
    /\ f \in Activation /\ Fits(f) /\ f.kind \notin {"stream", "string"}
    /\ Descending /\ activations' = Append(activations, f) /\ value' = Nothing
    /\ loopDepth' = IF f.kind \in Hiding THEN 0 ELSE loopDepth + One(f, LoopKind)
    /\ callDepth' = callDepth + One(f, CallKind) /\ nested' = nested + One(f, TextKind)
    /\ f.kind \in CallKind \cup TextKind => ~TooDeep
    /\ f.kind \in CallKind => f.saved = loopDepth
    /\ Linked(ContextBelow(Innermost), f)
    /\ UNCHANGED <<shell, disturbed, spent, ended>>

Evaluated ==
    /\ Descending /\ value' \in Outcome
    /\ value'.tag = "done" => "exit" \notin ContextBelow(Innermost)
    /\ value'.cause = "errexit" => "tested" \notin ContextBelow(Innermost)
    /\ UNCHANGED <<shell, activations, loopDepth, callDepth, nested, disturbed, spent, ended>>

Continued ==
    /\ Running /\ value' = Nothing /\ Innermost.kind \notin {"forked", "in_place"}
    /\ \/ value = Nothing
       \/ value.tag \in {"done", "continue"} /\ (Innermost.kind = "string" => Innermost.phase # "last")
    /\ \E phase \in Phase :
         /\ activations' = [activations EXCEPT ![Len(activations)].phase = phase]
         /\ Fits([Innermost EXCEPT !.phase = phase])
    /\ value = Nothing => Innermost.kind = "string"
    /\ ~disturbed' => ~disturbed
    /\ UNCHANGED <<shell, loopDepth, callDepth, nested, spent, ended>>

Left ==
    /\ Returning /\ Len(activations) > 1 /\ activations' = Resumed /\ value' \in Outcome
    /\ loopDepth' \in Nat
    /\ ~disturbed' => ~disturbed /\ loopDepth' = IF Innermost.kind \in CallKind THEN Innermost.saved
                                                ELSE loopDepth - One(Innermost, LoopKind)
    /\ callDepth' = callDepth - One(Innermost, CallKind) /\ nested' = nested - One(Innermost, TextKind)
    /\ value'.tag = "done" => "exit" \notin Innermost.context \/ (Innermost.kind = "in_place" /\ value.tag = "done")
    /\ value'.cause = "errexit" =>
         value.cause = "errexit" \/ (Innermost.kind \in {"function", "eval", "dot"} /\ "tested" \notin Innermost.context)
    /\ spent' => spent \/ Innermost.kind = "in_place"
    /\ Innermost.kind = "in_place" /\ value.tag # "done" => value'.tag \in Unwinding
    /\ Innermost.kind \in CompoundKind /\ value.tag \in Unwinding => value'.tag = value.tag
    /\ Innermost.kind # "forked"
    /\ UNCHANGED <<shell, ended>>

Recovered ==
    /\ Returning /\ Innermost.kind \in ReaderKind /\ value' = Done(1)
    /\ loopDepth' \in Nat
    /\ ~disturbed' => ~disturbed /\ (loopDepth' = loopDepth \/ (loopDepth' = 0 /\ Len(activations) = 1))
    /\ UNCHANGED <<shell, activations, callDepth, nested, spent, ended>>

Ended ==
    /\ Returning /\ ended' # "no"
    /\ loopDepth' = loopDepth \/ (loopDepth' = 0 /\ Len(activations) = 1)
    /\ UNCHANGED <<shell, activations, value, callDepth, nested, disturbed, spent>>

Restarted ==
    /\ Returning /\ shell.interactive /\ Len(activations) = 1
    /\ activations' = <<Frame("stream", "record", {}, 0, FALSE)>> /\ value' = Nothing
    /\ loopDepth' = 0 /\ nested' = 0 /\ UNCHANGED <<shell, callDepth>>

Unmoved == UNCHANGED <<shell, activations, value, loopDepth, callDepth, nested, disturbed, spent, ended>>

Step == (\E f : Entered(f)) \/ Evaluated \/ Continued \/ Left \/ Recovered \/ Ended \/ Restarted \/ Unmoved

\* The innermost activation is one.
LEMMA InnermostType ==
  ASSUME ActivationsType
  PROVE  /\ Innermost \in Activation /\ Innermost = activations[Len(activations)] /\ Len(activations) \in Nat \ {0}
         /\ Fits(Innermost) /\ (Innermost.kind \in {"stream", "string"} <=> Len(activations) = 1)
<1>1. activations \in Seq(Activation) /\ activations # <<>>
  BY DEF ActivationsType
<1>2. Innermost \in Activation /\ Innermost = activations[Len(activations)] /\ Len(activations) \in Nat \ {0}
  BY ONLY <1>1, FrontLast DEF Innermost
<1>3. Len(activations) \in 1..Len(activations)
  BY <1>2
<1> QED
  BY <1>2, <1>3 DEF ActivationsType

\* A context that is passed on is a context.
LEMMA ContextBelowType ==
  ASSUME NEW f \in Activation
  PROVE  ContextBelow(f) \in Contexts
BY DEF ContextBelow, RecordContext, BodyContext, TestedOnly, Tested, Activation, Contexts

\* The foot of evaluate_tree: what may end the process never gets a status back, and errexit acts outside conditions only.
LEMMA FootType ==
  ASSUME NEW c, NEW checked, NEW v \in Outcome
  PROVE  /\ Foot(c, checked, v) \in Outcome
         /\ Foot(c, checked, v).tag = "done" => "exit" \notin c
         /\ Foot(c, checked, v).cause = "errexit" => v.cause = "errexit" \/ (checked /\ "tested" \notin c)
         /\ v.tag # "done" => Foot(c, checked, v) = v
<1>1. \A m \in {"errexit", "context"} : Exits(v.n, m) \in Outcome /\ Exits(v.n, m).tag = "exit" /\ Exits(v.n, m).cause = m
  BY DEF Exits, Outcome, Tag
<1>2. CASE v.tag # "done"
  BY <1>2 DEF Foot
<1>3. CASE v.tag = "done"
  BY <1>1, <1>3 DEF Foot
<1> QED
  BY <1>2, <1>3

\* At the end of a simple command.
LEMMA CheckedFootType ==
  ASSUME NEW c, NEW v \in Outcome
  PROVE  /\ Foot(c, TRUE, v) \in Outcome
         /\ Foot(c, TRUE, v).tag = "done" => "exit" \notin c
         /\ Foot(c, TRUE, v).cause = "errexit" => v.cause = "errexit" \/ "tested" \notin c
<1> DEFINE checked == TRUE
<1> HIDE DEF checked
<1>1. /\ Foot(c, checked, v) \in Outcome
      /\ Foot(c, checked, v).tag = "done" => "exit" \notin c
      /\ Foot(c, checked, v).cause = "errexit" => v.cause = "errexit" \/ "tested" \notin c
  BY FootType
<1> QED
  BY <1>1, Zenon DEF checked

\* The types of flows and errors.
LEMMA OutcomeTypes ==
  /\ \A s \in Int : Done(s) \in Outcome /\ Done(s).tag = "done" /\ Done(s).cause = "none"
  /\ \A tag \in Tag, n \in Int : Flow(tag, n) \in Outcome /\ Flow(tag, n).tag = tag /\ Flow(tag, n).cause = "none"
  /\ \A s \in Int, m \in {"exit", "control"} : Exits(s, m) \in Outcome /\ Exits(s, m).tag = "exit" /\ Exits(s, m).cause = m
  /\ \A v \in Errors : v \in Outcome /\ v.tag \in ErrorTag /\ v.cause = "none"
  /\ Nothing.tag = "none" /\ Nothing.cause = "none"
<1>1. "done" \in Tag /\ ErrorsOf \subseteq Tag /\ ErrorsOf \subseteq ErrorTag /\ "exit" \in Tag
  BY DEF Tag, ErrorsOf, ErrorTag
<1>2. \A tag \in Tag, n \in Int : Flow(tag, n) \in Outcome /\ Flow(tag, n).tag = tag /\ Flow(tag, n).cause = "none"
  BY DEF Flow, Outcome
<1>3. \A v \in Errors : v \in Outcome /\ v.tag \in ErrorTag /\ v.cause = "none"
  BY <1>1, <1>2 DEF Errors
<1>4. \A s \in Int : Done(s) \in Outcome /\ Done(s).tag = "done" /\ Done(s).cause = "none"
  BY <1>1, <1>2 DEF Done
<1>5. \A s \in Int, m \in {"exit", "control"} : Exits(s, m) \in Outcome /\ Exits(s, m).tag = "exit" /\ Exits(s, m).cause = m
  BY <1>1 DEF Exits, Outcome
<1> QED
  BY <1>2, <1>3, <1>4, <1>5 DEF Nothing

\* A flow is neither an error nor nothing.
LEMMA Tags ==
  /\ "none" \notin Tag /\ ErrorTag \subseteq Tag
  /\ {"done", "exit", "break", "continue", "return"} \cap ErrorTag = {}
  /\ \A v \in Outcome : v # Nothing /\ v.tag \in Tag /\ v.n \in Int
BY DEF Tag, ErrorTag, AbandonedTag, Outcome, Nothing-----------------------------------------------------------------------------
\* Every action is one of these.

\* The kinds and phases an activation begins with.
LEMMA KindsAndPhases ==
  /\ CompoundKind \cup LoopKind \cup TextKind \cup CallKind \cup {"stream", "in_place", "forked"} \subseteq Kind
  /\ {"record", "left", "condition", "body", "background"} \subseteq Phase
BY DEF CompoundKind, LoopKind, TextKind, CallKind, Kind, ReaderKind, Phase

\* What opens an activation.
LEMMA EnterSteps ==
  ASSUME NestType,
         EnterCompound \/ EnterLoop \/ EnterFunction \/ EnterEval \/ EnterDot \/ EnterInPlace \/ Fork
  PROVE  \E f : Entered(f)
<1> DEFINE c == ContextBelow(Innermost)
<1>1. ActivationsType /\ Innermost \in Activation /\ loopDepth \in Nat /\ callDepth \in Nat /\ nested \in Nat
  BY InnermostType DEF NestType
<1>2. c \in Contexts
  BY <1>1, ContextBelowType
<1> HIDE DEF c
<1>4. ASSUME EnterCompound PROVE \E f : Entered(f)
  <2>0. Descending /\ UNCHANGED <<loopDepth, callDepth, nested, shell, disturbed, spent, ended>>
    BY <1>4, Zenon DEF EnterCompound, Counters, Process
  <2>1. PICK kind \in CompoundKind :
          Push(Frame(kind, CASE kind \in {"sequence", "and", "or"} -> "left"
                             [] kind \in {"if", "not"} -> "condition"
                             [] OTHER -> "body", c, 0, FALSE))
    BY <1>4 DEF EnterCompound, CompoundKind, c
  <2>2. PICK phase \in {"left", "condition", "body"} :
          /\ Push(Frame(kind, phase, c, 0, FALSE))
          /\ phase = "condition" => kind \in {"if", "not"}
    <3>1. CASE kind \in {"sequence", "and", "or"}
      BY <2>1, <3>1
    <3>2. CASE kind \in {"if", "not"}
      BY <2>1, <3>2
    <3>3. CASE kind \notin {"sequence", "and", "or"} /\ kind \notin {"if", "not"}
      BY <2>1, <3>3
    <3> QED
      BY <3>1, <3>2, <3>3
  <2> DEFINE f == Frame(kind, phase, c, 0, FALSE)
  <2>3. f \in Activation /\ f.kind = kind /\ f.phase = phase /\ f.context = c
    <3>1. kind \in Kind /\ phase \in Phase /\ c \in Contexts /\ 0 \in Nat /\ FALSE \in BOOLEAN
      BY <1>2, <2>2, KindsAndPhases
    <3> QED
      BY <3>1 DEF Frame, Activation
  <2> HIDE DEF f
  <2>4. Entered(f)
    <3>1. Fits(f)
      BY <2>2, <2>3 DEF Fits, CompoundKind
    <3>2. /\ f.kind \notin {"stream", "string"} /\ f.kind \notin Hiding /\ f.kind \notin CallKind \cup TextKind
          /\ f.kind \notin {"forked", "in_place"}
          /\ One(f, LoopKind) = 0 /\ One(f, CallKind) = 0 /\ One(f, TextKind) = 0
      BY <2>3 DEF CompoundKind, Hiding, CallKind, TextKind, One, LoopKind
    <3>3. Linked(c, f)
      BY <2>3, <3>2 DEF Linked
    <3>4. Push(f)
      BY <2>2 DEF f
    <3> QED
      BY <1>1, <2>0, <2>3, <3>1, <3>2, <3>3, <3>4 DEF Entered, Push, c
  <2> QED
    BY <2>4
<1>5. ASSUME EnterLoop PROVE \E f : Entered(f)
  <2>0. Descending /\ loopDepth' = loopDepth + 1 /\ UNCHANGED <<callDepth, nested, shell, disturbed, spent, ended>>
    BY <1>5, Zenon DEF EnterLoop, Process
  <2>1. PICK kind \in LoopKind : Push(Frame(kind, IF kind = "for" THEN "body" ELSE "condition", c, 0, FALSE))
    BY <1>5 DEF EnterLoop, c
  <2> DEFINE f == Frame(kind, IF kind = "for" THEN "body" ELSE "condition", c, 0, FALSE)
  <2>2. f \in Activation /\ f.kind = kind /\ f.phase = (IF kind = "for" THEN "body" ELSE "condition") /\ f.context = c
    <3>1. kind \in Kind /\ (IF kind = "for" THEN "body" ELSE "condition") \in Phase /\ c \in Contexts /\ 0 \in Nat /\ FALSE \in BOOLEAN
      BY <1>2, KindsAndPhases
    <3> QED
      BY <3>1 DEF Frame, Activation
  <2>3. Push(f)
    BY <2>1
  <2> HIDE DEF f
  <2>4. Entered(f)
    <3>1. Fits(f)
      BY <2>2 DEF Fits, LoopKind
    <3>2. /\ f.kind \notin {"stream", "string"} /\ f.kind \notin Hiding /\ f.kind \notin CallKind \cup TextKind
          /\ f.kind \notin {"forked", "in_place"}
          /\ One(f, LoopKind) = 1 /\ One(f, CallKind) = 0 /\ One(f, TextKind) = 0
      BY <2>2 DEF Hiding, CallKind, TextKind, One, LoopKind
    <3>3. Linked(c, f)
      BY <2>2, <3>2 DEF Linked
    <3> QED
      BY <1>1, <2>0, <2>2, <2>3, <3>1, <3>2, <3>3 DEF Entered, Push, c
  <2> QED
    BY <2>4
<1>6. ASSUME EnterFunction PROVE \E f : Entered(f)
  <2>0. Descending /\ ~TooDeep /\ loopDepth' = 0 /\ callDepth' = callDepth + 1 /\ UNCHANGED <<nested, shell, disturbed, spent, ended>>
    BY <1>6, Zenon DEF EnterFunction, Process
  <2> DEFINE f == Frame("function", "body", c, loopDepth, FALSE)
  <2>2. f \in Activation /\ f.kind = "function" /\ f.phase = "body" /\ f.context = c /\ f.saved = loopDepth
    <3>1. "function" \in Kind /\ "body" \in Phase /\ c \in Contexts /\ loopDepth \in Nat /\ 0 \in Nat /\ FALSE \in BOOLEAN
      BY <1>1, <1>2, KindsAndPhases DEF CallKind
    <3> QED
      BY <3>1 DEF Frame, Activation
  <2>3. Push(f)
    BY <1>6 DEF EnterFunction, c
  <2> HIDE DEF f
  <2>4. /\ Fits(f) /\ One(f, CallKind) = 1 /\ One(f, TextKind) = 0 /\ f.kind \in Hiding
        /\ Linked(c, f)
    BY <2>2 DEF Fits, One, CallKind, TextKind, Hiding, Linked
  <2>9. Entered(f)
    BY <1>1, <2>0, <2>2, <2>3, <2>4 DEF Entered, Push, Process, c
  <2> QED
    BY <2>9
<1>7. ASSUME EnterEval PROVE \E f : Entered(f)
  <2>1. PICK special \in BOOLEAN : Push(Frame("eval", "record", c, loopDepth, special))
    BY <1>7 DEF EnterEval, c
  <2> DEFINE f == Frame("eval", "record", c, loopDepth, special)
  <2>2. f \in Activation /\ f.kind = "eval" /\ f.phase = "record" /\ f.context = c
    <3>1. "eval" \in Kind /\ "record" \in Phase /\ c \in Contexts /\ loopDepth \in Nat /\ 0 \in Nat /\ FALSE \in BOOLEAN
      BY <1>1, <1>2, KindsAndPhases DEF TextKind
    <3> QED
      BY <3>1 DEF Frame, Activation
  <2>3. Push(f)
    BY <2>1
  <2> HIDE DEF f
  <2>4. /\ Fits(f) /\ One(f, CallKind) = 0 /\ One(f, TextKind) = 1 /\ One(f, LoopKind) = 0 /\ f.kind \notin Hiding
        /\ f.kind \notin CallKind
        /\ Linked(c, f)
    BY <2>2 DEF Fits, One, CallKind, TextKind, LoopKind, Hiding, Linked
  <2>9. Entered(f)
    BY <1>1, <1>7, <2>2, <2>3, <2>4 DEF EnterEval, Entered, Push, Process, c
  <2> QED
    BY <2>9
<1>8. ASSUME EnterDot PROVE \E f : Entered(f)
  <2>1. PICK special \in BOOLEAN : Push(Frame("dot", "record", c, loopDepth, special))
    BY <1>8 DEF EnterDot, c
  <2> DEFINE f == Frame("dot", "record", c, loopDepth, special)
  <2>2. f \in Activation /\ f.kind = "dot" /\ f.phase = "record" /\ f.context = c /\ f.saved = loopDepth
    <3>1. "dot" \in Kind /\ "record" \in Phase /\ c \in Contexts /\ loopDepth \in Nat /\ 0 \in Nat /\ FALSE \in BOOLEAN
      BY <1>1, <1>2, KindsAndPhases DEF CallKind
    <3> QED
      BY <3>1 DEF Frame, Activation
  <2>3. Push(f)
    BY <2>1
  <2> HIDE DEF f
  <2>4. /\ Fits(f) /\ One(f, CallKind) = 1 /\ One(f, TextKind) = 0 /\ f.kind \in Hiding
        /\ Linked(c, f)
    BY <2>2 DEF Fits, One, CallKind, TextKind, Hiding, Linked
  <2>9. Entered(f)
    BY <1>1, <1>8, <2>2, <2>3, <2>4 DEF EnterDot, Entered, Push, Process, c
  <2> QED
    BY <2>9
<1>9. ASSUME EnterInPlace PROVE \E f : Entered(f)
  <2>0. Descending /\ loopDepth' = 0 /\ UNCHANGED <<callDepth, nested, shell, disturbed, spent, ended>>
    BY <1>9, Zenon DEF EnterInPlace, Process
  <2>1. PICK body \in {{}, {"forked"}} :
          "exit" \in c /\ Push(Frame("in_place", "body", (c \ {"forked"}) \cup body, 0, FALSE))
    BY <1>9 DEF EnterInPlace, c
  <2> DEFINE d == (c \ {"forked"}) \cup body
             f == Frame("in_place", "body", d, 0, FALSE)
  <2>2. d \in Contexts /\ "exit" \in d /\ ("tested" \in c => "tested" \in d)
    BY <1>2, <2>1 DEF Contexts
  <2>3. Push(f)
    BY <2>1
  <2> HIDE DEF d
  <2>4. f \in Activation /\ f.kind = "in_place" /\ f.phase = "body" /\ f.context = d
    <3>1. "in_place" \in Kind /\ "body" \in Phase /\ d \in Contexts /\ 0 \in Nat /\ FALSE \in BOOLEAN
      BY <2>2, KindsAndPhases
    <3> QED
      BY <3>1 DEF Frame, Activation
  <2> HIDE DEF f
  <2>5. /\ Fits(f) /\ One(f, CallKind) = 0 /\ One(f, TextKind) = 0 /\ f.kind \in Hiding
        /\ f.kind \notin CallKind \cup TextKind /\ Linked(c, f)
    BY <2>1, <2>2, <2>4 DEF Fits, One, CallKind, TextKind, Hiding, Linked
  <2>9. Entered(f)
    BY <1>1, <2>0, <2>3, <2>4, <2>5 DEF Entered, Push, Process, c
  <2> QED
    BY <2>9
<1>10. ASSUME Fork PROVE \E f : Entered(f)
  <2>0. Descending /\ loopDepth' = 0 /\ UNCHANGED <<callDepth, nested, shell, disturbed, spent, ended>>
    BY <1>10, Zenon DEF Fork, Process
  <2>1. PICK background \in BOOLEAN, body \in {{}, {"forked"}} :
          Push(Frame("forked", IF background THEN "background" ELSE "body",
                     {"exit"} \cup body \cup (IF background THEN {} ELSE TestedOnly(c)), 0, FALSE))
    BY <1>10 DEF Fork, c
  <2> DEFINE d == {"exit"} \cup body \cup (IF background THEN {} ELSE TestedOnly(c))
             phase == IF background THEN "background" ELSE "body"
             f == Frame("forked", phase, d, 0, FALSE)
  <2>2. /\ d \in Contexts /\ "exit" \in d /\ ("tested" \in c /\ ~background => "tested" \in d)
        /\ phase \in Phase /\ phase # "condition" /\ (background => phase = "background")
    BY <1>2, <2>1 DEF Contexts, TestedOnly, Phase
  <2>3. Push(f)
    BY <2>1
  <2> HIDE DEF d, phase
  <2>4. f \in Activation /\ f.kind = "forked" /\ f.phase = phase /\ f.context = d
    <3>1. "forked" \in Kind /\ phase \in Phase /\ d \in Contexts /\ 0 \in Nat /\ FALSE \in BOOLEAN
      BY <2>2, KindsAndPhases
    <3> QED
      BY <3>1 DEF Frame, Activation
  <2> HIDE DEF f
  <2>5. /\ Fits(f) /\ One(f, CallKind) = 0 /\ One(f, TextKind) = 0 /\ f.kind \in Hiding
        /\ f.kind \notin CallKind \cup TextKind /\ Linked(c, f)
    BY <2>2, <2>4 DEF Fits, One, CallKind, TextKind, Hiding, Linked, Boundary
  <2>9. Entered(f)
    BY <1>1, <2>0, <2>3, <2>4, <2>5 DEF Entered, Push, c
  <2> QED
    BY <2>9
<1> QED
  BY <1>4, <1>5, <1>6, <1>7, <1>8, <1>9, <1>10

\* A command that opens no activation.
LEMMA EvaluateSteps ==
  ASSUME NestType, GroupRefused \/ Command \/ BreakOrContinue \/ ReturnOrExit
  PROVE  Evaluated
<1> DEFINE c == ContextBelow(Innermost)
<1>1. \A s \in {0, 1} : /\ Foot(c, TRUE, Done(s)) \in Outcome
                        /\ Foot(c, TRUE, Done(s)).tag = "done" => "exit" \notin c
                        /\ Foot(c, TRUE, Done(s)).cause = "errexit" => "tested" \notin c
  <2>1. ASSUME NEW s \in {0, 1} PROVE Done(s) \in Outcome /\ Done(s).cause # "errexit"
    BY OutcomeTypes
  <2> QED
    BY <2>1, CheckedFootType
<1>2. \A v \in Errors : v \in Outcome /\ v.tag # "done" /\ v.cause # "errexit"
  BY OutcomeTypes, Tags
<1> DEFINE Good(v) == v \in Outcome /\ (v.tag = "done" => "exit" \notin c) /\ (v.cause = "errexit" => "tested" \notin c)
<1>3. Descending /\ UNCHANGED <<shell, activations, loopDepth, callDepth, nested, disturbed, spent, ended>>
  BY Zenon DEF GroupRefused, Command, BreakOrContinue, ReturnOrExit, Counters, Process
<1>4. Good(value')
  <2>1. CASE GroupRefused
    <3>1. value' = Foot(c, TRUE, Done(1)) \/ value' \in Errors
      BY <2>1 DEF GroupRefused
    <3> QED
      BY <3>1, <1>1, <1>2
  <2>2. CASE Command
    <3>1. (\E s \in {0, 1} : value' = Foot(c, TRUE, Done(s))) \/ value' \in Errors
      BY <2>2 DEF Command, SimpleOutcome
    <3> QED
      BY <3>1, <1>1, <1>2
  <2>3. CASE BreakOrContinue
    <3>1. \/ value' = Foot(c, TRUE, Done(0))
          \/ \E tag \in {"break", "continue"}, n \in 1..MaxLevels :
               value' = Flow(tag, IF n < loopDepth THEN n ELSE loopDepth)
      BY <2>3 DEF BreakOrContinue, BreakOutcome
    <3>2. CASE \E tag \in {"break", "continue"}, n \in 1..MaxLevels :
               value' = Flow(tag, IF n < loopDepth THEN n ELSE loopDepth)
      <4>1. PICK tag \in {"break", "continue"}, n \in Int : value' = Flow(tag, n)
        <5>1. PICK tag \in {"break", "continue"}, n \in 1..MaxLevels :
               value' = Flow(tag, IF n < loopDepth THEN n ELSE loopDepth)
          BY <3>2
        <5>2. (IF n < loopDepth THEN n ELSE loopDepth) \in Int
          BY DEF NestType
        <5> QED
          BY <5>1, <5>2
      <4>2. tag \in Tag
        BY DEF Tag
      <4> QED
        BY <4>1, <4>2, OutcomeTypes
    <3> QED
      BY <3>1, <3>2, <1>1
  <2>4. CASE ReturnOrExit
    <3>1. (\E s \in {0, 1} : value' = Flow("return", s)) \/ (\E s \in {0, 1} : value' = Exits(s, "exit"))
      BY <2>4 DEF ReturnOrExit
    <3>2. "return" \in Tag /\ "exit" \in {"exit", "control"} /\ \A s \in {0, 1} : s \in Int
      BY DEF Tag
    <3>3. \A s \in {0, 1} : Good(Flow("return", s))
      BY <3>2, OutcomeTypes
    <3>4. \A s \in {0, 1} : Good(Exits(s, "exit"))
      BY <3>2, OutcomeTypes
    <3> HIDE DEF Good
    <3> QED
      BY <3>1, <3>3, <3>4
  <2> QED
    BY <2>1, <2>2, <2>3, <2>4
<1> QED
  BY <1>3, <1>4 DEF Evaluated

\* What a frame and a value say of each other when the one got the other back.
LEMMA Returned ==
  ASSUME NestType, Returning
  PROVE  /\ Innermost \in Activation /\ Fits(Innermost) /\ value \in Outcome /\ Running
         /\ Innermost.kind \in {"stream", "string"} <=> Len(activations) = 1
         /\ Innermost.kind \notin {"stream", "string"} => Len(activations) > 1
         /\ Len(activations) \in Nat \ {0}
         /\ value.tag = "done" \/ value.tag \in {"exit", "break", "continue", "return"} \/ value.tag \in ErrorTag
<1>1. value \in Outcome /\ Running
  BY DEF NestType, Returning
<1>2. value.tag \in Tag
  BY <1>1, Tags
<1>3. value.tag = "done" \/ value.tag \in {"exit", "break", "continue", "return"} \/ value.tag \in ErrorTag
  BY <1>2 DEF Tag
<1>4. /\ Innermost \in Activation /\ Fits(Innermost) /\ Len(activations) \in Nat \ {0}
      /\ (Innermost.kind \in {"stream", "string"}) <=> Len(activations) = 1
  BY InnermostType DEF NestType
<1>5. Innermost.kind \notin {"stream", "string"} => Len(activations) > 1
  <2>1. Innermost.kind \notin {"stream", "string"} => Len(activations) # 1
    BY <1>4
  <2>2. Len(activations) \in Nat \ {0}
    BY <1>4
  <2>3. Len(activations) # 1 => Len(activations) > 1
    BY ONLY <2>2
  <2> QED
    BY ONLY <2>1, <2>3
<1> QED
  BY <1>1, <1>3, <1>4, <1>5

\* A break or a continue on its way out.
LEMMA OnwardTypes ==
  ASSUME NEW v \in Outcome, v.tag # "done"
  PROVE  Outward(v) \in Outcome /\ Outward(v).tag = v.tag /\ Outward(v).cause = v.cause
<1>1. v.n \in Int /\ v.n - 1 \in Int
  BY DEF Outcome
<1>2. [v EXCEPT !.n = @ - 1] \in Outcome /\ [v EXCEPT !.n = @ - 1].tag = v.tag /\ [v EXCEPT !.n = @ - 1].cause = v.cause
  BY <1>1 DEF Outcome
<1> QED
  BY <1>2 DEF Outward

\* A reader goes on to its next command.
LEMMA RecordSteps ==
  ASSUME NestType, LastRecord \/ NextRecord
  PROVE  Continued
<1>1. CASE LastRecord
  <2>1. /\ Running /\ value = Nothing /\ value' = Nothing /\ Innermost.kind = "string"
        /\ activations' = [activations EXCEPT ![Len(activations)].phase = "last"]
        /\ UNCHANGED <<shell, loopDepth, callDepth, nested, disturbed, spent, ended>>
    BY <1>1 DEF LastRecord, Descending
  <2>2. "last" \in Phase /\ Fits([Innermost EXCEPT !.phase = "last"])
    BY <2>1, InnermostType DEF Phase, Fits, NestType, Activation
  <2> QED
    BY <2>1, <2>2 DEF Continued
<1>2. CASE NextRecord
  <2>1. /\ Running /\ value # Nothing /\ value' = Nothing /\ Innermost.kind \in ReaderKind
        /\ value.tag = "done" /\ Innermost.phase # "last"
        /\ activations' = [activations EXCEPT ![Len(activations)].phase = "record"]
        /\ UNCHANGED <<shell, loopDepth, callDepth, nested, disturbed, spent, ended>>
    BY <1>2, Zenon DEF NextRecord, Ours, Returning, GoOn, Counters, Process
  <2>2. "record" \in Phase /\ Fits([Innermost EXCEPT !.phase = "record"])
    BY <2>1, InnermostType DEF Phase, Fits, NestType, Activation, ReaderKind, TextKind
  <2>3. Innermost.kind \notin {"forked", "in_place"}
    BY <2>1 DEF ReaderKind, TextKind
  <2> QED
    BY <2>1, <2>2, <2>3 DEF Continued
<1> QED
  BY <1>1, <1>2

\* A list, an if, a !, a case or a group goes on or is over.
LEMMA CompoundSteps ==
  ASSUME NestType, LeaveCompound
  PROVE  Left \/ Continued
<1> DEFINE f == Innermost
           status == IF f.kind = "not" /\ value.tag = "done" THEN Done(1 - value.n) ELSE value
<1>0. /\ Returning /\ f.kind \in CompoundKind
      /\ UNCHANGED <<shell, loopDepth, callDepth, nested, disturbed, spent, ended>>
  BY Zenon DEF LeaveCompound, Ours, Counters, Process, CompoundKind
<1>1. /\ f \in Activation /\ value \in Outcome /\ Running /\ value # Nothing /\ Len(activations) > 1
      /\ f.kind \notin {"stream", "string", "forked", "in_place", "function", "eval", "dot"}
      /\ One(f, CallKind) = 0 /\ One(f, TextKind) = 0 /\ One(f, LoopKind) = 0 /\ f.kind \notin CallKind
      /\ loopDepth \in Nat /\ callDepth \in Nat /\ nested \in Nat
  <2>1. f.kind \notin {"stream", "string", "forked", "in_place", "function", "eval", "dot"} \cup LoopKind
    BY <1>0 DEF CompoundKind, LoopKind
  <2>2. One(f, CallKind) = 0 /\ One(f, TextKind) = 0 /\ One(f, LoopKind) = 0 /\ f.kind \notin CallKind
    BY <2>1 DEF One, CallKind, TextKind, LoopKind
  <2> QED
    BY <1>0, <2>1, <2>2, Returned DEF NestType, Returning
<1>2. \/ value.tag = "done" /\ GoOn("right")
      \/ value.tag = "done" /\ Back(Foot(f.context, FALSE, Done(0)))
      \/ Back(Foot(f.context, FALSE, status))
  BY Zenon DEF LeaveCompound
<1> DEFINE Good(v) == /\ Foot(f.context, FALSE, v) \in Outcome
                      /\ Foot(f.context, FALSE, v).tag = "done" => "exit" \notin f.context
                      /\ Foot(f.context, FALSE, v).cause = "errexit" => value.cause = "errexit"
                      /\ value.tag \in Unwinding => Foot(f.context, FALSE, v).tag = value.tag
<1>3. status \in Outcome /\ (status.cause = "errexit" => value.cause = "errexit") /\ (value.tag # "done" => status = value)
  <2>1. 1 - value.n \in Int
    BY <1>1 DEF Outcome
  <2> QED
    BY <1>1, <2>1, OutcomeTypes
<1>4. "done" \notin Unwinding
  BY Tags DEF Unwinding
<1>5. Good(status) /\ (value.tag = "done" => Good(Done(0)))
  <2>1. Good(status)
    BY <1>3, <1>4, FootType
  <2>2. Done(0) \in Outcome /\ Done(0).cause = "none"
    BY OutcomeTypes
  <2>3. value.tag = "done" => Good(Done(0))
    BY <2>2, <1>4, FootType
  <2> QED
    BY <2>1, <2>3
<1>6. CASE value.tag = "done" /\ GoOn("right")
  <2>1. "right" \in Phase /\ Fits([f EXCEPT !.phase = "right"])
    BY <1>1 DEF Phase, Fits, Activation
  <2> QED
    BY <1>0, <1>1, <1>6, <2>1 DEF Continued, GoOn
<1>7. ASSUME NEW v, Good(v), Back(Foot(f.context, FALSE, v)) PROVE Left
  <2>1. Foot(f.context, FALSE, v) = value'
    BY <1>7 DEF Back
  <2>2. /\ value' \in Outcome /\ (value'.tag = "done" => "exit" \notin f.context)
        /\ value'.cause = "errexit" => value.cause = "errexit"
        /\ value.tag \in Unwinding => value'.tag = value.tag
    BY <1>7, <2>1
  <2>3. activations' = Resumed
    BY <1>7 DEF Back
  <2> HIDE DEF Good, status
  <2> QED
    BY <1>0, <1>1, <2>2, <2>3 DEF Left
<1> HIDE DEF Good, status
<1> QED
  BY <1>2, <1>5, <1>6, <1>7

\* A loop goes on or is over.
LEMMA LoopSteps ==
  ASSUME NestType, LeaveWhile \/ LeaveFor
  PROVE  Left \/ Continued
<1> DEFINE f == Innermost
<1>0. Returning /\ f.kind \in LoopKind /\ UNCHANGED <<shell, callDepth, nested, spent, ended>>
  BY Zenon DEF LeaveWhile, LeaveFor, Ours, Process, LoopKind
<1>1. /\ f \in Activation /\ value \in Outcome /\ Running /\ value # Nothing /\ Len(activations) > 1
      /\ f.kind \notin {"stream", "string", "forked", "in_place", "function", "eval", "dot"} \cup CompoundKind
      /\ One(f, CallKind) = 0 /\ One(f, TextKind) = 0 /\ One(f, LoopKind) = 1 /\ f.kind \notin CallKind
      /\ loopDepth \in Nat /\ callDepth \in Nat /\ nested \in Nat
  <2>1. f.kind \notin {"stream", "string", "forked", "in_place", "function", "eval", "dot"} \cup CompoundKind
    BY <1>0 DEF CompoundKind, LoopKind
  <2>2. One(f, CallKind) = 0 /\ One(f, TextKind) = 0 /\ One(f, LoopKind) = 1 /\ f.kind \notin CallKind
    BY <1>0, <2>1 DEF One, CallKind, TextKind, LoopKind
  <2> QED
    BY <1>0, <2>1, <2>2, Returned DEF NestType, Returning
<1> DEFINE Good(v) == /\ v \in Outcome
                      /\ v.tag = "done" => "exit" \notin f.context
                      /\ v.cause = "errexit" => value.cause = "errexit"
<1>2. ASSUME NEW n \in Int PROVE Good(Foot(f.context, FALSE, Done(n)))
  <2>1. Done(n) \in Outcome /\ Done(n).cause = "none"
    BY OutcomeTypes
  <2> QED
    BY <2>1, FootType
<1>3. value.tag # "done" => Good(Outward(value)) /\ Outward(value).tag = value.tag
  BY <1>1, OnwardTypes
<1>4. ASSUME NEW v, Good(v), Back(v), loopDepth' \in Nat, ~disturbed' => ~disturbed /\ loopDepth' = loopDepth - 1
      PROVE  Left
  <2>1. activations' = Resumed /\ value' = v
    BY <1>4 DEF Back
  <2>2. /\ value' \in Outcome /\ (value'.tag = "done" => "exit" \notin f.context)
        /\ value'.cause = "errexit" => value.cause = "errexit"
    BY <1>4, <2>1
  <2> HIDE DEF Good
  <2> QED
    BY <1>0, <1>1, <1>4, <2>1, <2>2 DEF Left
<1>5. ASSUME NEW phase \in {"condition", "body"}, GoOn(phase), UNCHANGED loopDepth, ~disturbed' => ~disturbed,
             value.tag \in {"done", "continue"}, phase = "condition" => f.kind \in {"while", "until"}
      PROVE  Continued
  <2>1. phase \in Phase /\ Fits([f EXCEPT !.phase = phase])
    BY <1>1, <1>5 DEF Phase, Fits, Activation
  <2> QED
    BY <1>0, <1>1, <1>5, <2>1 DEF Continued, GoOn
<1>6. CASE LeaveWhile
  <2>1. f.kind \in {"while", "until"} /\ UNCHANGED disturbed
    BY <1>6, Zenon DEF LeaveWhile, Ours, Process
  <2>2. \/ Repeats(f, value) /\ GoOn("condition") /\ UNCHANGED loopDepth
        \/ Holds(f, value) /\ GoOn("body") /\ UNCHANGED loopDepth
        \/ loopDepth > 0 /\ loopDepth' = loopDepth - 1 /\ Back(LoopResult(f, value))
    BY <1>6, Zenon DEF LeaveWhile
  <2>3. Repeats(f, value) \/ Holds(f, value) => value.tag \in {"done", "continue"}
    BY DEF Repeats, Holds, Caught
  <2>4. Good(LoopResult(f, value))
    <3> HIDE DEF Good
    <3>1. CASE value.tag = "done" \/ Caught(value, "break")
      <4>0. 0 \in Int
        OBVIOUS
      <4>1. Good(Foot(f.context, FALSE, Done(0)))
        BY ONLY <4>0, <1>2, Zenon
      <4>2. LoopResult(f, value) = Foot(f.context, FALSE, Done(0))
        BY <3>1, Zenon DEF LoopResult
      <4> QED
        BY <4>1, <4>2
    <3>2. CASE ~(value.tag = "done" \/ Caught(value, "break"))
      BY <3>2, <1>3 DEF LoopResult
    <3> QED
      BY <3>1, <3>2
  <2>5. loopDepth > 0 => loopDepth - 1 \in Nat
    BY <1>1
  <2> HIDE DEF Good
  <2> QED
    BY <1>4, <1>5, <2>1, <2>2, <2>3, <2>4, <2>5
<1>7. CASE LeaveFor
  <2> DEFINE next == value.tag = "done" \/ Caught(value, "continue")
             v == IF next \/ Caught(value, "break") THEN Foot(f.context, FALSE, Done(IF next THEN value.n ELSE 0))
                  ELSE Outward(value)
  <2>1. \/ next /\ GoOn("body") /\ UNCHANGED loopDepth
        \/ /\ loopDepth > 0 \/ IsError(value)
           /\ loopDepth' = ForLevel(IF next THEN Done(0) ELSE value) /\ Back(v)
    BY <1>7, Zenon DEF LeaveFor
  <2>2. ~disturbed' => ~disturbed /\ ~IsError(value)
    BY <1>7, Zenon DEF LeaveFor
  <2>3. next => value.tag \in {"done", "continue"}
    BY DEF Caught
  <2>4. next => ~IsError(value)
    BY <2>3, Tags DEF IsError
  <2>5. Good(v)
    <3> HIDE DEF Good
    <3>0. (IF next THEN value.n ELSE 0) \in Int
      BY <1>1 DEF Outcome
    <3>1. CASE next \/ Caught(value, "break")
      BY <3>0, <3>1, <1>2
    <3>2. CASE ~(next \/ Caught(value, "break"))
      BY <3>2, <1>3
    <3> QED
      BY <3>1, <3>2
  <2>6. ASSUME loopDepth > 0 \/ IsError(value), loopDepth' = ForLevel(IF next THEN Done(0) ELSE value)
        PROVE  loopDepth' \in Nat /\ (~disturbed' => ~disturbed /\ loopDepth' = loopDepth - 1)
    <3>1. ~IsError(Done(0))
      <4>1. Done(0).tag = "done"
        BY OutcomeTypes
      <4> QED
        BY <4>1, Tags DEF IsError
    <3>2. IsError(IF next THEN Done(0) ELSE value) <=> IsError(value)
      <4> HIDE DEF next
      <4>1. CASE next
        BY <4>1, <3>1, <2>4
      <4>2. CASE ~next
        BY <4>2
      <4> QED
        BY <4>1, <4>2
    <3>3. loopDepth' = IF IsError(value) THEN loopDepth ELSE loopDepth - 1
      BY <3>2, <2>6 DEF ForLevel
    <3>4. CASE IsError(value)
      <4>1. loopDepth' = loopDepth
        BY <3>3, <3>4
      <4>2. disturbed'
        BY <2>2, <3>4
      <4> QED
        BY <4>1, <4>2, <1>1
    <3>5. CASE ~IsError(value)
      <4>1. loopDepth' = loopDepth - 1
        BY <3>3, <3>5
      <4>2. loopDepth - 1 \in Nat
        BY <1>1, <2>6, <3>5
      <4> QED
        BY <4>1, <4>2, <2>2
    <3> QED
      BY <3>4, <3>5
  <2> HIDE DEF Good, v, next
  <2>7. CASE next /\ GoOn("body") /\ UNCHANGED loopDepth
    BY <1>5, <2>2, <2>3, <2>7
  <2> QED
    BY <1>4, <2>1, <2>5, <2>6, <2>7
<1> HIDE DEF Good
<1> QED
  BY <1>6, <1>7

\* What a built-in makes of what its text gave back.
LEMMA BuiltinTypes ==
  ASSUME NEW f \in Activation, NEW v \in Outcome
  PROVE  /\ BuiltinResult(f, v) \in Outcome
         /\ BuiltinResult(f, v).tag = "done" => "exit" \notin f.context
         /\ BuiltinResult(f, v).cause = "errexit" => v.cause = "errexit" \/ "tested" \notin f.context
<1> DEFINE Good(w) == /\ w \in Outcome
                      /\ w.tag = "done" => "exit" \notin f.context
                      /\ w.cause = "errexit" => v.cause = "errexit" \/ "tested" \notin f.context
<1>1. Good(Foot(f.context, TRUE, v))
  BY CheckedFootType
<1>2. Done(v.n) \in Outcome /\ Done(v.n).cause = "none"
  BY OutcomeTypes DEF Outcome
<1>3. Good(Foot(f.context, TRUE, Done(v.n)))
  BY <1>2, CheckedFootType
<1>4. BuiltinResult(f, v) = Foot(f.context, TRUE, v) \/ BuiltinResult(f, v) = Foot(f.context, TRUE, Done(v.n))
  BY Zenon DEF BuiltinResult
<1>5. Good(BuiltinResult(f, v))
  <2> HIDE DEF Good
  <2> QED
    BY <1>1, <1>3, <1>4
<1> QED
  BY <1>5

\* A function, eval or dot is over.
LEMMA CallSteps ==
  ASSUME NestType, LeaveFunction \/ LeaveEval \/ LeaveDot
  PROVE  Left
<1> DEFINE f == Innermost
           received == IF value.tag = "return" THEN Done(value.n) ELSE value
           Good(w) == /\ w \in Outcome
                      /\ w.tag = "done" => "exit" \notin f.context
                      /\ w.cause = "errexit" => value.cause = "errexit" \/ "tested" \notin f.context
<1>0. Returning /\ f.kind \in {"function", "eval", "dot"} /\ UNCHANGED <<shell, disturbed, spent, ended>>
  BY Zenon DEF LeaveFunction, LeaveEval, LeaveDot, Ours, Process
<1>1. /\ f \in Activation /\ value \in Outcome /\ Len(activations) > 1
      /\ f.kind \notin {"stream", "string", "forked", "in_place"} \cup CompoundKind \cup LoopKind
      /\ loopDepth \in Nat /\ f.saved \in Nat /\ value.n \in Int
  <2>1. f.kind \notin {"stream", "string", "forked", "in_place"} \cup CompoundKind \cup LoopKind
    BY <1>0 DEF CompoundKind, LoopKind
  <2>2. f \in Activation /\ value \in Outcome /\ Len(activations) > 1 /\ loopDepth \in Nat
    BY <1>0, <2>1, Returned DEF NestType
  <2> QED
    BY <2>1, <2>2 DEF Activation, Outcome
<1>2. received \in Outcome /\ (received.cause = "errexit" => value.cause = "errexit")
  <2>1. Done(value.n) \in Outcome /\ Done(value.n).cause = "none"
    BY <1>1, OutcomeTypes
  <2> QED
    BY <1>1, <2>1
<1>3. Good(Foot(f.context, TRUE, received)) /\ Good(BuiltinResult(f, value)) /\ Good(BuiltinResult(f, received))
  <2>1. Good(Foot(f.context, TRUE, received))
    BY <1>2, CheckedFootType
  <2>2. Good(BuiltinResult(f, value))
    BY <1>1, BuiltinTypes
  <2>3. Good(BuiltinResult(f, received))
    BY <1>1, <1>2, BuiltinTypes
  <2> QED
    BY <2>1, <2>2, <2>3
<1>4. PICK w : Good(w) /\ Back(w)
  <2> HIDE DEF Good, received
  <2>1. CASE LeaveFunction
    BY <2>1, <1>3, Zenon DEF LeaveFunction, received
  <2>2. CASE LeaveEval
    BY <2>2, <1>3, Zenon DEF LeaveEval
  <2>3. CASE LeaveDot
    BY <2>3, <1>3, Zenon DEF LeaveDot, received
  <2> QED
    BY <2>1, <2>2, <2>3
<1>5. /\ loopDepth' = IF f.kind \in CallKind THEN f.saved ELSE loopDepth
      /\ callDepth' = callDepth - One(f, CallKind) /\ nested' = nested - One(f, TextKind) /\ One(f, LoopKind) = 0
  <2>0. One(f, LoopKind) = 0
    BY <1>1 DEF One
  <2>1. CASE LeaveFunction \/ LeaveDot
    <3>1. /\ f.kind \in {"function", "dot"} /\ loopDepth' = f.saved
          /\ callDepth' = callDepth - 1 /\ nested' = nested
      BY <2>1, Zenon DEF LeaveFunction, LeaveDot, Ours
    <3>2. One(f, CallKind) = 1 /\ One(f, TextKind) = 0
      BY <3>1 DEF One, CallKind, TextKind
    <3> QED
      BY <2>0, <3>1, <3>2 DEF CallKind, NestType
  <2>2. CASE LeaveEval
    <3>1. f.kind = "eval" /\ loopDepth' = loopDepth /\ callDepth' = callDepth /\ nested' = nested - 1
      BY <2>2, Zenon DEF LeaveEval, NestedAfter, Ours
    <3>2. One(f, CallKind) = 0 /\ One(f, TextKind) = 1
      BY <3>1 DEF One, CallKind, TextKind
    <3> QED
      BY <2>0, <3>1, <3>2 DEF CallKind, NestType
  <2> QED
    BY <2>1, <2>2
<1>6. loopDepth' \in Nat /\ loopDepth' = IF f.kind \in CallKind THEN f.saved ELSE loopDepth - One(f, LoopKind)
  BY <1>1, <1>5
<1>7. activations' = Resumed /\ value' = w
  BY <1>4 DEF Back
<1>8. /\ value' \in Outcome /\ (value'.tag = "done" => "exit" \notin f.context)
      /\ value'.cause = "errexit" => value.cause = "errexit" \/ "tested" \notin f.context
  BY <1>4, <1>7
<1> HIDE DEF Good, received
<1> QED
  BY <1>0, <1>1, <1>5, <1>6, <1>7, <1>8 DEF Left

\* A subshell in the shell's place is over.
LEMMA InPlaceSteps ==
  ASSUME NestType, LeaveInPlace
  PROVE  Left
<1> DEFINE f == Innermost
<1>0. /\ Returning /\ f.kind = "in_place" /\ activations' = Resumed
      /\ value' = IF value.tag \in {"break", "continue", "return"} THEN Exits(value.n, "control") ELSE value
      /\ UNCHANGED <<shell, loopDepth, callDepth, nested, disturbed, ended>>
  BY Zenon DEF LeaveInPlace, Ours, Counters, Back
<1>1. /\ value \in Outcome /\ Len(activations) > 1 /\ value.n \in Int
      /\ loopDepth \in Nat /\ callDepth \in Nat /\ nested \in Nat
      /\ value.tag \in {"done", "break", "continue", "return"} \cup Unwinding
  BY <1>0, Returned DEF NestType, Outcome, Unwinding
<1>2. /\ One(f, CallKind) = 0 /\ One(f, TextKind) = 0 /\ One(f, LoopKind) = 0
      /\ f.kind \notin CallKind \cup CompoundKind
  BY <1>0 DEF One, CallKind, TextKind, LoopKind, CompoundKind
<1>3. /\ Exits(value.n, "control") \in Outcome /\ Exits(value.n, "control").tag = "exit"
      /\ Exits(value.n, "control").cause = "control" /\ "exit" \in Unwinding
  BY <1>1, OutcomeTypes DEF Unwinding
<1>4. /\ value' \in Outcome /\ (value'.tag = "done" => value.tag = "done")
      /\ value'.cause = "errexit" => value.cause = "errexit"
      /\ value.tag # "done" => value'.tag \in Unwinding
  BY <1>0, <1>1, <1>3
<1> QED
  BY <1>0, <1>1, <1>2, <1>4 DEF Left

\* A record's error is recovered, or the process ends or starts afresh.
LEMMA TopSteps ==
  ASSUME NestType, RecordRecovered \/ LeaveBelowZero \/ LeaveForked \/ Finish \/ TopLevelError
  PROVE  Recovered \/ Ended \/ Restarted
<1>1. CASE RecordRecovered
  <2>1. /\ Returning /\ Innermost.kind \in ReaderKind /\ value' = Done(1)
        /\ loopDepth' = IF value.tag = "expansion" THEN 0 ELSE loopDepth
        /\ ~disturbed' => ~disturbed /\ ~(value.tag = "expansion" /\ Len(activations) > 1)
        /\ UNCHANGED <<shell, activations, callDepth, nested, spent, ended>>
    BY <1>1, Zenon DEF RecordRecovered, Ours
  <2>2. loopDepth \in Nat /\ Len(activations) \in Nat \ {0}
    BY <2>1, Returned DEF NestType
  <2> QED
    BY <2>1, <2>2 DEF Recovered
<1>2. CASE LeaveBelowZero
  <2>1. /\ Returning /\ ended' = "panic"
        /\ UNCHANGED <<shell, activations, value, loopDepth, callDepth, nested, disturbed, spent>>
    BY <1>2, Zenon DEF LeaveBelowZero, Ours, Counters
  <2> QED
    BY <2>1 DEF Ended
<1>3. CASE LeaveForked
  <2>1. /\ Returning /\ ended' = "exit"
        /\ UNCHANGED <<shell, activations, value, loopDepth, callDepth, nested, disturbed, spent>>
    BY <1>3, Zenon DEF LeaveForked, Ours, Counters
  <2> QED
    BY <2>1 DEF Ended
<1>4. CASE Finish
  <2>1. /\ Returning /\ ended' = IF value.tag \in {"break", "continue"} THEN "panic" ELSE "exit"
        /\ UNCHANGED <<shell, activations, value, loopDepth, callDepth, nested, disturbed, spent>>
    BY <1>4, Zenon DEF Finish, Ours, Counters
  <2> QED
    BY <2>1 DEF Ended
<1>5. CASE TopLevelError
  <2>1. /\ Returning /\ Innermost.kind \in {"stream", "string"} /\ loopDepth' = 0
        /\ UNCHANGED <<shell, callDepth, spent>>
    BY <1>5, Zenon DEF TopLevelError, Ours
  <2>2. Len(activations) = 1
    BY <2>1, Returned
  <2>3. CASE shell.interactive
    <3>1. activations' = <<Frame("stream", "record", {}, 0, FALSE)>> /\ value' = Nothing /\ nested' = 0
      BY <1>5, <2>3, Zenon DEF TopLevelError
    <3> QED
      BY <2>1, <2>2, <2>3, <3>1, Zenon DEF Restarted
  <2>4. CASE ~shell.interactive
    <3>1. ended' = "exit" /\ UNCHANGED <<activations, value, nested, disturbed>>
      BY <1>5, <2>4, Zenon DEF TopLevelError
    <3> QED
      BY <2>1, <2>2, <3>1 DEF Ended
  <2> QED
    BY <2>3, <2>4
<1> QED
  BY <1>1, <1>2, <1>3, <1>4, <1>5

\* A step of the evaluator is one of those.
LEMMA StepTaken ==
  ASSUME NestType, [ENext]_evars
  PROVE  Step
<1>1. CASE EnterCompound \/ EnterLoop \/ EnterFunction \/ EnterEval \/ EnterDot \/ EnterInPlace \/ Fork
  BY <1>1, EnterSteps DEF Step
<1>2. CASE GroupRefused \/ Command \/ BreakOrContinue \/ ReturnOrExit
  BY <1>2, EvaluateSteps DEF Step
<1>3. CASE LastRecord \/ NextRecord
  BY <1>3, RecordSteps DEF Step
<1>4. CASE LeaveCompound
  BY <1>4, CompoundSteps DEF Step
<1>5. CASE LeaveWhile \/ LeaveFor
  BY <1>5, LoopSteps DEF Step
<1>6. CASE LeaveFunction \/ LeaveEval \/ LeaveDot
  BY <1>6, CallSteps DEF Step
<1>7. CASE LeaveInPlace
  BY <1>7, InPlaceSteps DEF Step
<1>8. CASE RecordRecovered \/ LeaveBelowZero \/ LeaveForked \/ Finish \/ TopLevelError
  BY <1>8, TopSteps DEF Step
<1>9. CASE SetErrexit \/ UNCHANGED evars
  <2>1. Unmoved
    BY <1>9, Zenon DEF SetErrexit, evars, Counters, Process, Unmoved
  <2> QED
    BY <2>1 DEF Step
<1> QED
  BY <1>1, <1>2, <1>3, <1>4, <1>5, <1>6, <1>7, <1>8, <1>9 DEF ENext

-----------------------------------------------------------------------------
\* What the open activations have to do with one another.

\* Each got its context from the one below it.
LinksIn(s) == \A i \in 2..Len(s) : Linked(ContextBelow(s[i - 1]), s[i])

\* A condition is known to be one as far up as its commands go.
CoveredIn(s) == \A k \in 1..Len(s) : \A i \in 1..k :
    Tests(s[i]) /\ (\A j \in i + 1..k : ~Boundary(s[j])) => "tested" \in ContextBelow(s[k])

\* What is the last of its process is in none of the loops of it.
QuietIn(s) == \A k \in 1..Len(s) : "exit" \in ContextBelow(s[k]) => VisibleIn(s, k) = 0

WellFormed(s) ==
    /\ \A i \in 1..Len(s) : Fits(s[i]) /\ (s[i].kind \in {"stream", "string"} <=> i = 1)
    /\ LinksIn(s) /\ CoveredIn(s) /\ QuietIn(s)

\* Below every activation there is no loop.
LEMMA VisibleAtFoot ==
  ASSUME NEW s
  PROVE  VisibleIn(s, 0) = 0
<1>1. {i \in 1..0 : s[i].kind \in LoopKind /\ \A j \in i + 1..0 : s[j].kind \notin Hiding} = {}
  OBVIOUS
<1> QED
  BY <1>1, FS_EmptySet DEF VisibleIn

\* The contexts below an activation, in terms of its own.
LEMMA ContextPassed ==
  ASSUME NEW f \in Activation, Fits(f)
  PROVE  /\ Tests(f) => "tested" \in ContextBelow(f)
         /\ "tested" \in f.context /\ f.kind \notin {"stream", "dot"} => "tested" \in ContextBelow(f)
         /\ "exit" \in ContextBelow(f) => "exit" \in f.context /\ f.kind \notin LoopKind
         /\ f.kind = "in_place" => ContextBelow(f) = f.context
<1>1. f.kind \in Kind /\ f.phase \in Phase /\ f.context \in Contexts
  BY DEF Activation
<1>2. Tests(f) => "tested" \in ContextBelow(f)
  BY DEF Tests, Fits, ContextBelow, RecordContext, BodyContext, TestedOnly, Tested, TextKind
<1>3. "tested" \in f.context /\ f.kind \notin {"stream", "dot"} => "tested" \in ContextBelow(f)
  BY DEF ContextBelow, RecordContext, BodyContext, TestedOnly, Tested
<1>4. "exit" \in ContextBelow(f) => "exit" \in f.context /\ f.kind \notin LoopKind
  BY DEF ContextBelow, RecordContext, BodyContext, TestedOnly, Tested, LoopKind
<1>5. f.kind = "in_place" => ContextBelow(f) = f.context
  BY DEF ContextBelow, RecordContext, BodyContext, TestedOnly, Tested, Fits
<1> QED
  BY <1>2, <1>3, <1>4, <1>5

\* One reader of input is well formed.
LEMMA FirstStands ==
  ASSUME NEW f \in Activation, Fits(f), f.kind \in {"stream", "string"}
  PROVE  <<f>> \in Seq(Activation) /\ <<f>> # <<>> /\ WellFormed(<<f>>) /\ VisibleIn(<<f>>, 1) = 0
<1>1. <<f>> \in Seq(Activation) /\ <<f>> # <<>> /\ Len(<<f>>) = 1 /\ <<f>>[1] = f
  OBVIOUS
<1>2. VisibleIn(<<f>>, 1) = 0
  <2>1. f.kind \notin LoopKind /\ 1 - 1 = 0 /\ 1 \in Nat \ {0}
    BY DEF LoopKind
  <2>2. VisibleIn(<<f>>, 1) = IF <<f>>[1].kind \in Hiding THEN 0
                              ELSE VisibleIn(<<f>>, 0) + (IF <<f>>[1].kind \in LoopKind THEN 1 ELSE 0)
    BY <2>1, VisibleAbove
  <2> QED
    BY <1>1, <2>1, <2>2, VisibleAtFoot
<1>3. ~Tests(f)
  BY DEF Tests, Fits
<1>4. LinksIn(<<f>>) /\ CoveredIn(<<f>>)
  BY <1>1, <1>3 DEF LinksIn, CoveredIn
<1>5. QuietIn(<<f>>)
  BY <1>1, <1>2 DEF QuietIn
<1> QED
  BY <1>1, <1>2, <1>4, <1>5 DEF WellFormed

\* Opening an activation linked to the one below it keeps the rest as it was.
LEMMA PushStands ==
  ASSUME NEW s \in Seq(Activation), s # <<>>, WellFormed(s),
         NEW f \in Activation, Fits(f), f.kind \notin {"stream", "string"}, Linked(ContextBelow(s[Len(s)]), f)
  PROVE  WellFormed(Append(s, f))
<1> DEFINE t == Append(s, f)
           n == Len(s)
<1>1. /\ n \in Nat \ {0} /\ t \in Seq(Activation) /\ Len(t) = n + 1 /\ t[n + 1] = f
      /\ \A i \in 1..n : t[i] = s[i]
  OBVIOUS
<1> HIDE DEF t, n
<1>2. \A i \in 1..Len(t) : Fits(t[i]) /\ (t[i].kind \in {"stream", "string"} <=> i = 1)
  <2>1. \A i \in 1..n : Fits(s[i]) /\ (s[i].kind \in {"stream", "string"} <=> i = 1)
    BY DEF WellFormed, n
  <2>2. \A i \in 1..n + 1 : i \in 1..n \/ i = n + 1
    BY <1>1
  <2> QED
    BY <1>1, <2>1, <2>2
<1>3. LinksIn(t)
  <2> SUFFICES ASSUME NEW i \in 2..n + 1 PROVE Linked(ContextBelow(t[i - 1]), t[i])
    BY <1>1 DEF LinksIn
  <2>1. CASE i = n + 1
    <3>1. i - 1 = n /\ n \in 1..n
      BY <1>1, <2>1
    <3>2. t[i - 1] = s[n] /\ t[i] = f
      BY <1>1, <2>1, <3>1
    <3> QED
      BY <3>2 DEF n
  <2>2. CASE i # n + 1
    <3>1. i \in 2..n /\ i \in 1..n /\ i - 1 \in 1..n
      BY <1>1, <2>2
    <3>2. t[i - 1] = s[i - 1] /\ t[i] = s[i] /\ Linked(ContextBelow(s[i - 1]), s[i])
      BY <1>1, <3>1 DEF WellFormed, LinksIn, n
    <3> QED
      BY <3>2
  <2> QED
    BY <2>1, <2>2
<1>4. CoveredIn(t)
  <2> SUFFICES ASSUME NEW k \in 1..n + 1, NEW i \in 1..k, Tests(t[i]), \A j \in i + 1..k : ~Boundary(t[j])
               PROVE  "tested" \in ContextBelow(t[k])
    BY <1>1 DEF CoveredIn
  <2>1. ASSUME NEW m \in 1..n, i \in 1..m, m <= k PROVE "tested" \in ContextBelow(s[m])
    <3>1. i \in 1..n /\ \A j \in i + 1..m : j \in i + 1..k /\ j \in 1..n
      BY <1>1, <2>1
    <3>2. Tests(s[i]) /\ \A j \in i + 1..m : ~Boundary(s[j])
      BY <1>1, <3>1
    <3> QED
      BY <3>2, <2>1 DEF WellFormed, CoveredIn, n
  <2>2. CASE k # n + 1
    <3>1. k \in 1..n /\ k <= k /\ t[k] = s[k]
      BY <1>1, <2>2
    <3> QED
      BY <2>1, <3>1
  <2>3. CASE k = n + 1 /\ i = n + 1
    BY <1>1, <2>3, ContextPassed
  <2>4. CASE k = n + 1 /\ i # n + 1
    <3>1. n \in 1..n /\ i \in 1..n /\ n <= k /\ n + 1 \in i + 1..k
      BY <1>1, <2>4
    <3>2. "tested" \in ContextBelow(s[n]) /\ ~Boundary(f)
      BY <1>1, <2>1, <3>1
    <3>3. "tested" \in f.context /\ f.kind \notin {"stream", "dot"}
      BY <3>2 DEF Linked, Boundary, n
    <3> QED
      BY <3>3, <1>1, <2>4, ContextPassed
  <2> QED
    BY <2>2, <2>3, <2>4
<1>5. QuietIn(t)
  <2> SUFFICES ASSUME NEW k \in 1..n + 1, "exit" \in ContextBelow(t[k]) PROVE VisibleIn(t, k) = 0
    BY <1>1 DEF QuietIn
  <2>0. ASSUME NEW m \in 1..n PROVE VisibleIn(t, m) = VisibleIn(s, m)
    <3>1. m \in Nat /\ SameKinds(s, t, m)
      BY <1>1 DEF SameKinds
    <3> QED
      BY <3>1, VisibleKept
  <2>1. CASE k # n + 1
    <3>1. k \in 1..n /\ t[k] = s[k]
      BY <1>1, <2>1
    <3> QED
      BY <2>0, <3>1 DEF WellFormed, QuietIn, n
  <2>2. CASE k = n + 1
    <3>1. t[k] = f /\ k \in Nat \ {0} /\ k - 1 = n /\ n \in 1..n
      BY <1>1, <2>2
    <3>2. "exit" \in f.context /\ f.kind \notin LoopKind
      BY <3>1, ContextPassed
    <3>3. CASE f.kind \in Hiding
      BY <3>1, <3>3, VisibleAbove
    <3>4. CASE f.kind \notin Hiding
      <4>1. "exit" \in ContextBelow(s[n])
        BY <3>2, <3>4 DEF Linked, Hiding, n
      <4>2. VisibleIn(t, n) = 0
        BY <4>1, <2>0, <3>1 DEF WellFormed, QuietIn, n
      <4>3. VisibleIn(t, k) = VisibleIn(t, n) + 0
        BY <3>1, <3>2, <3>4, VisibleAbove
      <4> QED
        BY <4>2, <4>3
    <3> QED
      BY <3>3, <3>4
  <2> QED
    BY <2>1, <2>2
<1>6. WellFormed(t)
  BY <1>2, <1>3, <1>4, <1>5 DEF WellFormed
<1> QED
  BY <1>6 DEF t

\* Closing one does, and its context was linked to the one below it.
LEMMA PopStands ==
  ASSUME NEW s \in Seq(Activation), WellFormed(s), Len(s) > 1
  PROVE  /\ Front(s) \in Seq(Activation) /\ Front(s) # <<>> /\ WellFormed(Front(s))
         /\ Linked(ContextBelow(Last(Front(s))), Last(s))
         /\ VisibleIn(s, Len(s) - 1) = VisibleIn(Front(s), Len(Front(s)))
         /\ Last(Front(s)) = s[Len(s) - 1]
<1> DEFINE t == Front(s)
           n == Len(t)
<1>1. /\ t \in Seq(Activation) /\ n = Len(s) - 1 /\ n \in Nat \ {0} /\ t # <<>>
      /\ \A i \in 1..n : t[i] = s[i]
      /\ Last(s) = s[n + 1] /\ Last(t) = t[n]
  <2>1. s # <<>>
    OBVIOUS
  <2>2. t \in Seq(Activation) /\ n = Len(s) - 1 /\ (\A i \in 1..Len(s) - 1 : t[i] = s[i]) /\ Last(s) = s[Len(s)]
    BY <2>1, FrontLast
  <2>3. n \in Nat \ {0} /\ t # <<>> /\ n + 1 = Len(s)
    BY <2>2
  <2>4. Last(t) = t[n]
    BY <2>2, <2>3, FrontLast
  <2> QED
    BY <2>2, <2>3, <2>4
<1> HIDE DEF t, n
<1>2. Len(t) = n /\ Len(s) = n + 1 /\ Last(t) = s[n] /\ n \in 1..n /\ n + 1 \in 2..n + 1
  BY <1>1 DEF n
<1>3. \A k \in 1..n : SameKinds(s, t, k)
  BY <1>1 DEF SameKinds
<1>4. \A k \in 1..n : VisibleIn(s, k) = VisibleIn(t, k)
  <2>1. \A k \in 1..n : k \in Nat
    BY <1>1
  <2> QED
    BY <1>3, <2>1, VisibleKept
<1>5. \A i \in 1..n : i \in 1..n + 1 /\ t[i] = s[i]
  BY <1>1
<1>6. \A i \in 1..n : Fits(t[i]) /\ (t[i].kind \in {"stream", "string"} <=> i = 1)
  BY <1>2, <1>5 DEF WellFormed
<1>7. LinksIn(t)
  <2>1. \A i \in 2..n : i \in 2..n + 1 /\ i \in 1..n /\ i - 1 \in 1..n
    BY <1>1
  <2> QED
    BY <1>2, <1>5, <2>1 DEF WellFormed, LinksIn
<1>8. CoveredIn(t)
  <2> SUFFICES ASSUME NEW k \in 1..n, NEW i \in 1..k, Tests(t[i]), \A j \in i + 1..k : ~Boundary(t[j])
               PROVE  "tested" \in ContextBelow(t[k])
    BY <1>2 DEF CoveredIn
  <2>1. k \in 1..n + 1 /\ i \in 1..n /\ \A j \in i + 1..k : j \in 1..n
    BY <1>1
  <2>2. Tests(s[i]) /\ \A j \in i + 1..k : ~Boundary(s[j])
    BY <1>5, <2>1
  <2> QED
    BY <1>2, <1>5, <2>1, <2>2 DEF WellFormed, CoveredIn
<1>9. QuietIn(t)
  BY <1>2, <1>4, <1>5 DEF WellFormed, QuietIn
<1>10. WellFormed(t)
  BY <1>2, <1>6, <1>7, <1>8, <1>9 DEF WellFormed
<1>11. Linked(ContextBelow(s[n]), s[n + 1])
  <2>1. n + 1 - 1 = n
    BY <1>1
  <2> QED
    BY <1>2, <2>1 DEF WellFormed, LinksIn
<1>12. n \in 1..n /\ Len(s) - 1 = n
  BY <1>1, <1>2
<1> QED
  BY <1>1, <1>2, <1>4, <1>10, <1>11, <1>12 DEF t

\* Going on to another part of the innermost does.
LEMMA GoOnStands ==
  ASSUME NEW s \in Seq(Activation), s # <<>>, WellFormed(s), NEW phase \in Phase,
         Last(s).kind \notin {"forked", "in_place"}, Fits([Last(s) EXCEPT !.phase = phase])
  PROVE  LET t == [s EXCEPT ![Len(s)].phase = phase]
         IN  /\ t \in Seq(Activation) /\ Len(t) = Len(s) /\ WellFormed(t)
             /\ SameKinds(s, t, Len(s)) /\ \A i \in 1..Len(s) : t[i].saved = s[i].saved
<1> DEFINE t == [s EXCEPT ![Len(s)].phase = phase]
           f == [Last(s) EXCEPT !.phase = phase]
           n == Len(s)
<1>1. n \in Nat \ {0} /\ Last(s) = s[n] /\ Last(s) \in Activation /\ n \in 1..n
  <2>1. Len(s) \in Nat \ {0} /\ Last(s) = s[Len(s)] /\ Last(s) \in Activation
    BY FrontLast
  <2> QED
    BY <2>1
<1>2. /\ f \in Activation /\ f.kind = Last(s).kind /\ f.context = Last(s).context
      /\ f.saved = Last(s).saved
  BY <1>1 DEF Activation
<1>3. /\ t \in Seq(Activation) /\ Len(t) = n /\ t[n] = f
      /\ \A i \in 1..n : i # n => t[i] = s[i]
  <2>1. t = [s EXCEPT ![n] = f]
    BY <1>1
  <2>2. [s EXCEPT ![n] = f] \in Seq(Activation) /\ Len([s EXCEPT ![n] = f]) = n
    BY <1>1, <1>2
  <2>3. [s EXCEPT ![n] = f][n] = f /\ \A i \in 1..n : i # n => [s EXCEPT ![n] = f][i] = s[i]
    BY <1>1
  <2> HIDE DEF t, f
  <2> QED
    BY <2>1, <2>2, <2>3
<1> HIDE DEF t
<1>4. SameKinds(s, t, n) /\ \A i \in 1..n : t[i].saved = s[i].saved
  <2> HIDE DEF f, n
  <2>1. ASSUME NEW i \in 1..n PROVE t[i].kind = s[i].kind /\ t[i].saved = s[i].saved
    <3>1. CASE i = n
      BY <1>1, <1>2, <1>3, <3>1
    <3>2. CASE i # n
      BY <1>3, <3>2
    <3> QED
      BY <3>1, <3>2
  <2> QED
    BY <2>1 DEF SameKinds
<1>5. WellFormed(t)
  <2>1. CASE n = 1
    <3>1. f.kind \in {"stream", "string"}
      BY <1>1, <1>2, <2>1 DEF WellFormed
    <3>2. t = <<f>>
      <4>1. <<f>> \in Seq(Activation) /\ Len(<<f>>) = 1 /\ <<f>>[1] = f
        BY <1>2
      <4>2. \A i \in 1..1 : i = 1
        OBVIOUS
      <4> HIDE DEF f, n
      <4> QED
        BY <4>1, <4>2, <1>3, <2>1
    <3>3. Fits(f)
      OBVIOUS
    <3> HIDE DEF f
    <3> QED
      BY <1>2, <3>1, <3>2, <3>3, FirstStands
  <2>2. CASE n > 1
    <3> DEFINE r == Front(s)
    <3>1. /\ r \in Seq(Activation) /\ r # <<>> /\ WellFormed(r) /\ Linked(ContextBelow(Last(r)), Last(s))
      BY <2>2, PopStands
    <3>2. Linked(ContextBelow(Last(r)), f)
      <4>1. Boundary(f) <=> Boundary(Last(s))
        BY <1>2 DEF Boundary
      <4> HIDE DEF r, f
      <4> QED
        BY <3>1, <4>1, <1>2 DEF Linked
    <3>3. f.kind \notin {"stream", "string"} /\ Fits(f)
      BY <1>1, <1>2, <2>2 DEF WellFormed
    <3>4. Last(r) = r[Len(r)]
      BY <3>1, FrontLast
    <3>5. WellFormed(Append(r, f))
      <4> HIDE DEF r, f
      <4> QED
        BY <1>2, <3>1, <3>2, <3>3, <3>4, PushStands
    <3>6. t = Append(r, f)
      <4>1. Len(r) = n - 1 /\ \A i \in 1..n - 1 : r[i] = s[i]
        BY FrontLast
      <4> HIDE DEF r, f, n
      <4>2. Append(r, f) \in Seq(Activation) /\ Len(Append(r, f)) = n /\ Append(r, f)[n] = f
        BY <1>1, <1>2, <3>1, <4>1
      <4>3. ASSUME NEW i \in 1..n PROVE Append(r, f)[i] = t[i]
        <5>1. CASE i = n
          BY <4>2, <1>3, <5>1
        <5>2. CASE i # n
          <6>1. i \in 1..n - 1 /\ i \in 1..Len(r)
            BY <1>1, <4>1, <5>2
          <6>2. Append(r, f)[i] = r[i]
            BY <3>1, <6>1, <1>2
          <6> QED
            BY <4>1, <6>1, <6>2, <1>3, <5>2
        <5> QED
          BY <5>1, <5>2
      <4> QED
        BY <4>2, <4>3, <1>3
    <3> QED
      BY <3>5, <3>6
  <2> HIDE DEF f, n
  <2>3. n = 1 \/ n > 1
    BY <1>1
  <2> QED
    BY <2>1, <2>2, <2>3
<1> QED
  BY <1>3, <1>4, <1>5 DEF t

-----------------------------------------------------------------------------
\* The inductive invariant.

\* What a function or a file put aside is what its caller's commands could see.
SavedIn(s) == \A i \in 1..Len(s) : s[i].kind \in CallKind => s[i].saved = VisibleIn(s, i - 1)

CountsHold ==
    /\ callDepth = CountIn(activations, CallKind) /\ nested = CountIn(activations, TextKind)
    /\ callDepth + nested <= MaxEvaluations

LoopsHold == ~disturbed => /\ loopDepth = VisibleIn(activations, Len(activations))
                           /\ SavedIn(activations)

\* A process that may end with its command does not get its status back, but
\* for the reader that recovered an error of it.
DoneHolds == value.tag = "done" => "exit" \notin ContextBelow(Innermost) \/ Innermost.kind \in ReaderKind

\* What is left to a shell whose place a subshell took.
Leaving ==
    \/ value.tag \in Unwinding /\ "exit" \in ContextBelow(Innermost)
    \/ value # Nothing /\ Innermost.kind = "string" /\ Innermost.phase = "last"
    \/ value # Nothing /\ ended # "no"
SpentHolds == spent /\ ~shell.interactive => Leaving

EInv == NestType /\ WellFormed(activations) /\ CountsHold /\ LoopsHold /\ DoneHolds /\ SpentHolds

\* What leaves has something to carry.
LEMMA LeavingReturns ==
  ASSUME Leaving
  PROVE  value # Nothing
<1>1. Nothing.tag \notin Unwinding
  <2>1. Nothing.tag = "none" /\ "none" \notin Tag /\ ErrorTag \subseteq Tag /\ "none" # "exit"
    BY OutcomeTypes, Tags
  <2> QED
    BY <2>1 DEF Unwinding
<1> QED
  BY <1>1 DEF Leaving

\* The innermost activation is the last.
LEMMA InnermostIsLast ==
  ASSUME NestType
  PROVE  /\ activations \in Seq(Activation) /\ activations # <<>> /\ Len(activations) \in Nat \ {0}
         /\ Innermost = Last(activations) /\ Innermost = activations[Len(activations)] /\ Innermost \in Activation
         /\ Fits(Innermost)
BY InnermostType DEF NestType, ActivationsType, Innermost

\* Opening an activation keeps the invariant.
LEMMA EnteredKeeps ==
  ASSUME EInv, NEW f, Entered(f)
  PROVE  EInv'
<1> DEFINE s == activations
           n == Len(s)
           t == Append(s, f)
<1>0. /\ NestType /\ WellFormed(s) /\ s \in Seq(Activation) /\ s # <<>> /\ n \in Nat \ {0}
      /\ Innermost = s[n] /\ f \in Activation /\ Fits(f) /\ f.kind \notin {"stream", "string"}
      /\ Linked(ContextBelow(s[n]), f)
  <2>1. NestType /\ WellFormed(s)
    BY DEF EInv
  <2>2. f \in Activation /\ Fits(f) /\ f.kind \notin {"stream", "string"} /\ Linked(ContextBelow(Innermost), f)
    BY DEF Entered
  <2> QED
    BY <2>1, <2>2, InnermostIsLast
<1>1. /\ activations' = t /\ t \in Seq(Activation) /\ Len(t) = n + 1 /\ t[n + 1] = f /\ t # <<>>
      /\ \A i \in 1..n : t[i] = s[i]
  <2>1. activations' = t
    BY DEF Entered
  <2> QED
    BY <1>0, <2>1
<1>2. WellFormed(t)
  BY <1>0, PushStands
<1> HIDE DEF t
<1>3. NestType'
  <2>1. ActivationsType'
    BY <1>1, <1>2 DEF ActivationsType, WellFormed
  <2>2. loopDepth' \in Nat /\ callDepth' \in Nat /\ nested' \in Nat
    BY <1>0 DEF Entered, NestType, One
  <2>3. value' = Nothing
    BY DEF Entered
  <2> QED
    BY <2>1, <2>2, <2>3 DEF NestType
<1>4. CountsHold'
  <2>1. \A K : CountIn(t, K) = CountIn(s, K) + One(f, K)
    BY <1>0, CountPush DEF One, t
  <2>2. callDepth' = callDepth + One(f, CallKind) /\ nested' = nested + One(f, TextKind)
    BY DEF Entered
  <2>3. callDepth' = CountIn(t, CallKind) /\ nested' = CountIn(t, TextKind)
    BY <2>1, <2>2 DEF EInv, CountsHold
  <2>4. callDepth' + nested' <= MaxEvaluations
    <3>1. callDepth \in Nat /\ nested \in Nat /\ callDepth + nested <= MaxEvaluations /\ MaxEvaluations \in Nat
      BY <1>0, EvaluationAssumption DEF EInv, CountsHold, NestType
    <3>2. CASE f.kind \in CallKind \cup TextKind
      <4>1. callDepth + nested < MaxEvaluations
        BY <3>1, <3>2 DEF Entered, TooDeep
      <4>2. One(f, CallKind) + One(f, TextKind) = 1 /\ One(f, CallKind) \in {0, 1} /\ One(f, TextKind) \in {0, 1}
        BY <3>2 DEF One, CallKind, TextKind
      <4> QED
        BY <2>2, <3>1, <4>1, <4>2
    <3>3. CASE f.kind \notin CallKind \cup TextKind
      BY <2>2, <3>1, <3>3 DEF One
    <3> QED
      BY <3>2, <3>3
  <2> QED
    BY <1>1, <2>3, <2>4 DEF CountsHold
<1>5. LoopsHold'
  <2> SUFFICES ASSUME ~disturbed' PROVE loopDepth' = VisibleIn(t, n + 1) /\ SavedIn(t)
    BY <1>1 DEF LoopsHold
  <2>1. loopDepth = VisibleIn(s, n) /\ SavedIn(s)
    BY DEF Entered, EInv, LoopsHold
  <2>2. \A k \in 0..n : VisibleIn(t, k) = VisibleIn(s, k)
    <3>1. \A k \in 0..n : k \in Nat /\ SameKinds(s, t, k)
      BY <1>0, <1>1 DEF SameKinds
    <3> QED
      BY <3>1, VisibleKept
  <2>3. n \in 0..n /\ n + 1 \in Nat \ {0} /\ n + 1 - 1 = n
    BY <1>0
  <2>4. loopDepth' = VisibleIn(t, n + 1)
    <3>1. VisibleIn(t, n + 1) = IF f.kind \in Hiding THEN 0 ELSE VisibleIn(t, n) + One(f, LoopKind)
      BY <1>1, <2>3, VisibleAbove DEF One
    <3>2. loopDepth' = IF f.kind \in Hiding THEN 0 ELSE loopDepth + One(f, LoopKind)
      BY DEF Entered
    <3> QED
      BY <2>1, <2>2, <2>3, <3>1, <3>2
  <2>5. SavedIn(t)
    <3> SUFFICES ASSUME NEW i \in 1..n + 1, t[i].kind \in CallKind PROVE t[i].saved = VisibleIn(t, i - 1)
      BY <1>1 DEF SavedIn
    <3>1. CASE i = n + 1
      <4>1. f.saved = loopDepth /\ i - 1 = n
        BY <1>0, <1>1, <3>1 DEF Entered
      <4> QED
        BY <4>1, <1>1, <2>1, <2>2, <2>3, <3>1
    <3>2. CASE i # n + 1
      <4>1. i \in 1..n /\ i - 1 \in 0..n /\ t[i] = s[i]
        BY <1>0, <1>1, <3>2
      <4> QED
        BY <4>1, <2>1, <2>2 DEF SavedIn
    <3> QED
      BY <3>1, <3>2
  <2> QED
    BY <2>4, <2>5
<1>6. DoneHolds'
  <2>1. value'.tag # "done"
    BY OutcomeTypes DEF Entered
  <2> QED
    BY <2>1 DEF DoneHolds
<1>7. SpentHolds'
  <2>1. ~(spent /\ ~shell.interactive)
    BY LeavingReturns DEF EInv, SpentHolds, Entered, Descending
  <2> QED
    BY <2>1 DEF SpentHolds, Entered
<1>8. WellFormed(activations)'
  BY <1>1, <1>2
<1> QED
  BY <1>3, <1>4, <1>5, <1>6, <1>7, <1>8 DEF EInv

\* What reads the shell's input is in no loop.
LEMMA BottomSeesNone ==
  ASSUME NEW s, WellFormed(s), Len(s) = 1
  PROVE  VisibleIn(s, Len(s)) = 0
<1>1. s[1].kind \in {"stream", "string"}
  BY DEF WellFormed
<1>2. s[1].kind \notin LoopKind /\ 1 \in Nat \ {0} /\ 1 - 1 = 0
  BY <1>1 DEF LoopKind
<1> QED
  BY <1>2, VisibleAbove, VisibleAtFoot

\* A step that leaves the activations alone leaves all they say alone.
LEMMA StillStands ==
  ASSUME EInv, UNCHANGED <<activations, callDepth, nested>>,
         loopDepth' \in Nat, value' \in {Nothing} \cup Outcome,
         ~disturbed' => ~disturbed /\ loopDepth' = VisibleIn(activations, Len(activations))
  PROVE  NestType' /\ WellFormed(activations)' /\ CountsHold' /\ LoopsHold'
<1>1. NestType'
  <2>1. ActivationsType'
    BY DEF EInv, NestType, ActivationsType
  <2> QED
    BY <2>1 DEF EInv, NestType
<1>2. WellFormed(activations)' /\ CountsHold'
  BY DEF EInv, CountsHold
<1>3. LoopsHold'
  BY DEF EInv, LoopsHold
<1> QED
  BY <1>1, <1>2, <1>3

\* So does a simple command,
LEMMA EvaluatedKeeps ==
  ASSUME EInv, Evaluated
  PROVE  EInv'
<1>0. /\ Descending /\ value' \in Outcome /\ (value'.tag = "done" => "exit" \notin ContextBelow(Innermost))
      /\ UNCHANGED <<shell, activations, loopDepth, callDepth, nested, disturbed, spent, ended>>
  BY DEF Evaluated
<1>1. NestType' /\ WellFormed(activations)' /\ CountsHold' /\ LoopsHold'
  BY <1>0, StillStands DEF EInv, NestType, LoopsHold
<1>2. DoneHolds'
  BY <1>0 DEF DoneHolds, Innermost
<1>3. SpentHolds'
  <2>1. ~(spent /\ ~shell.interactive)
    BY <1>0, LeavingReturns DEF EInv, SpentHolds, Descending
  <2> QED
    BY <1>0, <2>1 DEF SpentHolds
<1> QED
  BY <1>1, <1>2, <1>3 DEF EInv

\* a recovered record,
LEMMA RecoveredKeeps ==
  ASSUME EInv, Recovered
  PROVE  EInv'
<1>0. /\ Returning /\ Innermost.kind \in ReaderKind /\ value' = Done(1) /\ loopDepth' \in Nat
      /\ ~disturbed' => ~disturbed /\ (loopDepth' = loopDepth \/ (loopDepth' = 0 /\ Len(activations) = 1))
      /\ UNCHANGED <<shell, activations, callDepth, nested, spent, ended>>
  BY DEF Recovered
<1>1. value' \in Outcome /\ value' # Nothing
  BY <1>0, OutcomeTypes, Tags
<1>2. Len(activations) = 1 => VisibleIn(activations, Len(activations)) = 0
  BY BottomSeesNone DEF EInv
<1>3. NestType' /\ WellFormed(activations)' /\ CountsHold' /\ LoopsHold'
  BY <1>0, <1>1, <1>2, StillStands DEF EInv, LoopsHold
<1>4. DoneHolds'
  BY <1>0 DEF DoneHolds, Innermost
<1>5. SpentHolds'
  <2>1. /\ Fits(Innermost) /\ Innermost \in Activation
        /\ "exit" \in ContextBelow(Innermost) => Innermost.kind = "string" /\ Innermost.phase = "last"
    <3>1. Fits(Innermost) /\ Innermost \in Activation
      BY InnermostIsLast DEF EInv
    <3>2. "exit" \in ContextBelow(Innermost) => Innermost.kind = "string" /\ Innermost.phase = "last"
      BY <1>0 DEF ContextBelow, RecordContext, TestedOnly, ReaderKind, TextKind
    <3> QED
      BY <3>1, <3>2
  <2>2. Leaving => Leaving'
    BY <1>0, <1>1, <2>1 DEF Leaving, Innermost
  <2> QED
    BY <1>0, <2>2 DEF EInv, SpentHolds
<1> QED
  BY <1>3, <1>4, <1>5 DEF EInv

\* the end of the process,
LEMMA EndedKeeps ==
  ASSUME EInv, Ended
  PROVE  EInv'
<1>0. /\ Returning /\ ended' # "no" /\ (loopDepth' = loopDepth \/ (loopDepth' = 0 /\ Len(activations) = 1))
      /\ UNCHANGED <<shell, activations, value, callDepth, nested, disturbed, spent>>
  BY DEF Ended
<1>1. Len(activations) = 1 => VisibleIn(activations, Len(activations)) = 0
  BY BottomSeesNone DEF EInv
<1>2. NestType' /\ WellFormed(activations)' /\ CountsHold' /\ LoopsHold'
  BY <1>0, <1>1, StillStands DEF EInv, LoopsHold, NestType
<1>3. DoneHolds'
  BY <1>0 DEF EInv, DoneHolds, Innermost
<1>4. SpentHolds'
  BY <1>0 DEF SpentHolds, Leaving, Returning
<1> QED
  BY <1>2, <1>3, <1>4 DEF EInv

\* a step that touches none of this,
LEMMA UnmovedKeeps ==
  ASSUME EInv, Unmoved
  PROVE  EInv'
<1>0. UNCHANGED <<shell, activations, value, loopDepth, callDepth, nested, disturbed, spent, ended>>
  BY DEF Unmoved
<1>1. NestType' /\ WellFormed(activations)' /\ CountsHold' /\ LoopsHold'
  BY <1>0, StillStands DEF EInv, LoopsHold, NestType
<1>2. DoneHolds' /\ SpentHolds'
  BY <1>0 DEF EInv, DoneHolds, SpentHolds, Leaving, Innermost
<1> QED
  BY <1>1, <1>2 DEF EInv

\* an activation that goes on,
LEMMA ContinuedKeeps ==
  ASSUME EInv, Continued
  PROVE  EInv'
<1> DEFINE s == activations
           n == Len(s)
<1>0. PICK phase \in Phase : /\ s' = [s EXCEPT ![n].phase = phase]
                             /\ Fits([Innermost EXCEPT !.phase = phase])
  BY DEF Continued
<1> DEFINE t == [s EXCEPT ![n].phase = phase]
<1>1. /\ s \in Seq(Activation) /\ s # <<>> /\ WellFormed(s) /\ n \in Nat \ {0} /\ Innermost = Last(s)
      /\ Last(s).kind \notin {"forked", "in_place"} /\ Fits([Last(s) EXCEPT !.phase = phase])
  <2>1. NestType /\ WellFormed(s)
    BY DEF EInv
  <2>2. Innermost.kind \notin {"forked", "in_place"}
    BY DEF Continued
  <2> QED
    BY <1>0, <2>1, <2>2, InnermostIsLast
<1>2. /\ t \in Seq(Activation) /\ Len(t) = n /\ WellFormed(t)
      /\ SameKinds(s, t, n) /\ \A i \in 1..n : t[i].saved = s[i].saved
  BY <1>1, GoOnStands
<1>3. s' = t
  BY <1>0
<1> HIDE DEF t, n
<1>4. /\ value' = Nothing
      /\ ~disturbed' => ~disturbed
      /\ UNCHANGED <<shell, loopDepth, callDepth, nested, spent, ended>>
  BY DEF Continued
<1>5. NestType'
  <2>1. t # <<>>
    BY <1>1, <1>2
  <2>2. ActivationsType'
    BY <1>2, <1>3, <2>1 DEF ActivationsType, WellFormed
  <2> QED
    BY <1>4, <2>2 DEF NestType, EInv
<1>6. CountsHold'
  <2>1. \A K : CountIn(s, K) = CountIn(t, K)
    BY <1>1, <1>2, CountKept DEF n
  <2> QED
    BY <1>3, <1>4, <2>1 DEF EInv, CountsHold
<1>7. LoopsHold'
  <2>1. \A k \in 0..n : VisibleIn(s, k) = VisibleIn(t, k)
    <3>1. \A k \in 0..n : k \in Nat /\ SameKinds(s, t, k)
      BY <1>1, <1>2 DEF SameKinds
    <3> QED
      BY <3>1, VisibleKept
  <2>2. n \in 0..n /\ \A i \in 1..n : i - 1 \in 0..n
    BY <1>1
  <2> SUFFICES ASSUME ~disturbed' PROVE loopDepth' = VisibleIn(t, n) /\ SavedIn(t)
    BY <1>2, <1>3 DEF LoopsHold
  <2>3. loopDepth = VisibleIn(s, n) /\ SavedIn(s)
    BY <1>4 DEF EInv, LoopsHold, n
  <2>4. SavedIn(t)
    BY <1>2, <2>1, <2>2, <2>3 DEF SavedIn, SameKinds, n
  <2> QED
    BY <1>4, <2>1, <2>2, <2>3, <2>4
<1>8. DoneHolds'
  <2>1. value'.tag # "done"
    BY <1>4, OutcomeTypes
  <2> QED
    BY <2>1 DEF DoneHolds
<1>9. SpentHolds'
  <2>1. ~Leaving
    <3>1. CASE value = Nothing
      BY <3>1, LeavingReturns
    <3>2. CASE value.tag \in {"done", "continue"} /\ (Innermost.kind = "string" => Innermost.phase # "last")
      <4>1. value.tag \notin Unwinding
        BY <3>2, Tags DEF Unwinding
      <4>2. ended = "no"
        BY DEF Continued, Running
      <4> QED
        BY <3>2, <4>1, <4>2 DEF Leaving
    <3> QED
      BY <3>1, <3>2 DEF Continued
  <2> QED
    BY <1>4, <2>1 DEF EInv, SpentHolds
<1>10. WellFormed(activations)'
  BY <1>2, <1>3
<1> QED
  BY <1>5, <1>6, <1>7, <1>8, <1>9, <1>10 DEF EInv

\* one that is over,
LEMMA LeftKeeps ==
  ASSUME EInv, Left
  PROVE  EInv'
<1> DEFINE s == activations
           n == Len(s)
           t == Front(s)
           f == Last(s)
           c == ContextBelow(Last(t))
<1>1. /\ NestType /\ s \in Seq(Activation) /\ s # <<>> /\ WellFormed(s) /\ n \in Nat \ {0}
      /\ Innermost = f /\ f = s[n] /\ f \in Activation /\ Fits(f) /\ n > 1 /\ s' = t
  <2>1. NestType /\ WellFormed(s)
    BY DEF EInv
  <2> QED
    BY <2>1, InnermostIsLast DEF Left, Resumed
<1>2. /\ t \in Seq(Activation) /\ t # <<>> /\ WellFormed(t) /\ Linked(c, f)
      /\ VisibleIn(s, n - 1) = VisibleIn(t, Len(t)) /\ Last(t) = s[n - 1]
  BY <1>1, PopStands
<1>3. Len(t) = n - 1 /\ \A i \in 1..n - 1 : t[i] = s[i]
  BY <1>1, FrontLast
<1>4. Innermost' = Last(t)
  BY <1>1 DEF Innermost
<1> HIDE DEF t, n, f, c
<1>5. /\ Returning /\ value' \in Outcome /\ loopDepth' \in Nat
      /\ ~disturbed' => ~disturbed /\ loopDepth' = IF f.kind \in CallKind THEN f.saved ELSE loopDepth - One(f, LoopKind)
      /\ callDepth' = callDepth - One(f, CallKind) /\ nested' = nested - One(f, TextKind)
      /\ value'.tag = "done" => "exit" \notin f.context \/ (f.kind = "in_place" /\ value.tag = "done")
      /\ spent' => spent \/ f.kind = "in_place"
      /\ f.kind = "in_place" /\ value.tag # "done" => value'.tag \in Unwinding
      /\ f.kind \in CompoundKind /\ value.tag \in Unwinding => value'.tag = value.tag
      /\ f.kind # "forked"
      /\ UNCHANGED <<shell, ended>>
  BY <1>1 DEF Left
<1>6. CountsHold' /\ callDepth' \in Nat /\ nested' \in Nat
  <2>1. \A K : CountIn(s, K) = CountIn(t, K) + One(f, K) /\ CountIn(t, K) \in Nat
    <3>1. \A K : CountIn(s, K) = CountIn(t, K) + One(f, K)
      BY <1>1, CountPop DEF One, t, f
    <3> QED
      BY <1>2, <3>1, CountIsNat
  <2>2. One(f, CallKind) \in {0, 1} /\ One(f, TextKind) \in {0, 1}
    BY DEF One
  <2>3. callDepth' = CountIn(t, CallKind) /\ nested' = CountIn(t, TextKind)
    BY <1>5, <2>1, <2>2 DEF EInv, CountsHold
  <2>4. callDepth' + nested' <= MaxEvaluations
    <3>1. callDepth \in Nat /\ nested \in Nat /\ callDepth + nested <= MaxEvaluations /\ MaxEvaluations \in Nat
      BY <1>1, EvaluationAssumption DEF EInv, CountsHold, NestType
    <3> QED
      BY <1>5, <2>2, <3>1
  <2> QED
    BY <1>1, <2>1, <2>3, <2>4 DEF CountsHold
<1>7. NestType'
  <2>1. ActivationsType'
    BY <1>1, <1>2 DEF ActivationsType, WellFormed
  <2> QED
    BY <1>5, <1>6, <2>1 DEF NestType
<1>8. "exit" \in c => "exit" \in f.context
  BY <1>2 DEF Linked
<1>9. LoopsHold'
  <2> SUFFICES ASSUME ~disturbed' PROVE loopDepth' = VisibleIn(t, Len(t)) /\ SavedIn(t)
    BY <1>1 DEF LoopsHold
  <2>1. loopDepth = VisibleIn(s, n) /\ SavedIn(s)
    BY <1>5 DEF EInv, LoopsHold, n
  <2>2. SavedIn(t)
    <3> SUFFICES ASSUME NEW i \in 1..n - 1, t[i].kind \in CallKind PROVE t[i].saved = VisibleIn(t, i - 1)
      BY <1>3 DEF SavedIn
    <3>1. i \in 1..n /\ i - 1 \in Nat /\ SameKinds(s, t, i - 1)
      BY <1>1, <1>3 DEF SameKinds
    <3>2. t[i].saved = VisibleIn(s, i - 1)
      BY <1>3, <2>1, <3>1 DEF SavedIn, n
    <3> QED
      BY <3>1, <3>2, VisibleKept
  <2>3. VisibleIn(s, n) = IF f.kind \in Hiding THEN 0 ELSE VisibleIn(s, n - 1) + One(f, LoopKind)
    BY <1>1, VisibleAbove DEF One
  <2>4. VisibleIn(s, n - 1) \in Nat
    <3>1. n - 1 \in Nat
      BY <1>1
    <3> QED
      BY <3>1, VisibleIsNat
  <2>5. loopDepth' = VisibleIn(s, n - 1)
    <3>1. CASE f.kind \in CallKind
      <4>1. f.saved = VisibleIn(s, n - 1) /\ n \in 1..n
        BY <1>1, <2>1, <3>1 DEF SavedIn, n
      <4> QED
        BY <1>5, <3>1, <4>1
    <3>2. CASE f.kind = "in_place"
      <4>1. "exit" \in c /\ f.kind \in Hiding /\ f.kind \notin CallKind /\ One(f, LoopKind) = 0
        BY <1>2, <3>2 DEF Linked, Hiding, CallKind, One, LoopKind
      <4>2. VisibleIn(t, Len(t)) = 0
        <5>1. Len(t) \in 1..Len(t) /\ t[Len(t)] = Last(t)
          BY <1>1, <1>2, <1>3, FrontLast
        <5> QED
          BY <4>1, <5>1, <1>2 DEF WellFormed, QuietIn, c
      <4> QED
        BY <1>2, <1>5, <2>1, <2>3, <2>4, <4>1, <4>2
    <3>3. CASE f.kind \notin CallKind /\ f.kind # "in_place"
      <4>1. f.kind \notin Hiding
        BY <1>5, <3>3 DEF Hiding, CallKind
      <4>2. One(f, LoopKind) \in {0, 1}
        BY DEF One
      <4> QED
        BY <1>5, <2>1, <2>3, <2>4, <3>3, <4>1, <4>2
    <3> QED
      BY <3>1, <3>2, <3>3
  <2> QED
    BY <1>2, <2>2, <2>5
\* A subshell in the shell's place is the last thing: its status is not the shell's.
<1>10. f.kind = "in_place" => value.tag # "done" /\ "exit" \in c
  <2> SUFFICES ASSUME f.kind = "in_place" PROVE value.tag # "done" /\ "exit" \in c
    OBVIOUS
  <2>1. "exit" \in c /\ "exit" \in f.context
    BY <1>2 DEF Linked
  <2>2. "exit" \in ContextBelow(f) /\ f.kind \notin ReaderKind
    BY <1>1, <2>1, ContextPassed DEF ReaderKind, TextKind
  <2> QED
    BY <1>1, <2>1, <2>2 DEF EInv, DoneHolds
<1>11. DoneHolds'
  <2>1. value'.tag = "done" => "exit" \notin c
    BY <1>5, <1>8, <1>10
  <2> QED
    BY <1>4, <2>1 DEF DoneHolds, c
<1>12. SpentHolds'
  <2> SUFFICES ASSUME spent', ~shell'.interactive PROVE Leaving'
    BY DEF SpentHolds
  <2>1. CASE f.kind = "in_place"
    <3>1. value'.tag \in Unwinding /\ "exit" \in c
      BY <1>5, <1>10, <2>1
    <3> QED
      BY <1>4, <3>1 DEF Leaving, c
  <2>2. CASE f.kind # "in_place"
    <3>1. Leaving
      BY <1>5, <2>2 DEF EInv, SpentHolds
    <3>2. value.tag \in Unwinding /\ "exit" \in ContextBelow(f)
      <4>1. f.kind # "string"
        BY <1>1 DEF WellFormed, n
      <4>2. ended = "no"
        BY <1>5 DEF Returning, Running
      <4> QED
        BY <1>1, <3>1, <4>1, <4>2 DEF Leaving
    <3>3. "exit" \in f.context /\ f.kind \in CompoundKind
      <4>1. f.kind \in Kind
        BY <1>1 DEF Activation
      <4>2. f.kind \notin {"stream", "string"}
        BY <1>1 DEF WellFormed, n
      <4> QED
        BY <1>5, <2>2, <3>2, <4>1, <4>2
           DEF ContextBelow, RecordContext, BodyContext, TestedOnly, Tested, Kind, ReaderKind, TextKind, LoopKind, CompoundKind
    <3>4. "exit" \in c /\ value'.tag \in Unwinding
      BY <1>2, <1>5, <3>2, <3>3 DEF Linked, CompoundKind
    <3> QED
      BY <1>4, <3>4 DEF Leaving, c
  <2> QED
    BY <2>1, <2>2
<1>13. WellFormed(activations)'
  BY <1>1, <1>2
<1> QED
  BY <1>6, <1>7, <1>9, <1>11, <1>12, <1>13 DEF EInv

\* The readers a shell starts with.
LEMMA FrontFrames ==
  ASSUME NEW kind \in {"stream", "string"}, NEW context \in Contexts
  PROVE  /\ Frame(kind, "record", context, 0, FALSE) \in Activation
         /\ Frame(kind, "record", context, 0, FALSE).kind = kind
         /\ Fits(Frame(kind, "record", context, 0, FALSE))
<1>1. kind \in Kind /\ "record" \in Phase /\ 0 \in Nat /\ FALSE \in BOOLEAN
  BY DEF Kind, ReaderKind, TextKind, Phase
<1> QED
  BY <1>1 DEF Frame, Activation, Fits

\* A shell that reads its first command, or an interactive one that reads on.
LEMMA FirstCounts ==
  ASSUME NEW f \in Activation, f.kind \in {"stream", "string"}
  PROVE  CountIn(<<f>>, CallKind) = 0 /\ CountIn(<<f>>, TextKind) = One(f, TextKind) /\ SavedIn(<<f>>)
<1>1. DOMAIN <<f>> = {1} /\ <<f>>[1] = f /\ Len(<<f>>) = 1
  OBVIOUS
<1>2. f.kind \notin CallKind
  BY DEF CallKind
<1>3. {i \in DOMAIN <<f>> : <<f>>[i].kind \in CallKind} = {}
  BY <1>1, <1>2
<1>4. CountIn(<<f>>, CallKind) = 0
  BY <1>3, FS_EmptySet DEF CountIn
<1>5. SavedIn(<<f>>)
  BY <1>1, <1>2 DEF SavedIn
<1>6. CASE f.kind \in TextKind
  <2>1. {i \in DOMAIN <<f>> : <<f>>[i].kind \in TextKind} = {1}
    BY <1>1, <1>6
  <2>2. CountIn(<<f>>, TextKind) = 1
    BY <2>1, FS_Singleton DEF CountIn
  <2> QED
    BY <1>4, <1>5, <1>6, <2>2 DEF One
<1>7. CASE f.kind \notin TextKind
  <2>1. {i \in DOMAIN <<f>> : <<f>>[i].kind \in TextKind} = {}
    BY <1>1, <1>7
  <2>2. CountIn(<<f>>, TextKind) = 0
    BY <2>1, FS_EmptySet DEF CountIn
  <2> QED
    BY <1>4, <1>5, <1>7, <2>2 DEF One
<1> QED
  BY <1>6, <1>7

\* and an interactive shell that gives everything up and reads on.
LEMMA RestartedKeeps ==
  ASSUME EInv, Restarted
  PROVE  EInv'
<1> DEFINE f == Frame("stream", "record", {}, 0, FALSE)
<1>1. f \in Activation /\ f.kind = "stream" /\ Fits(f)
  <2>1. "stream" \in {"stream", "string"} /\ {} \in Contexts
    BY DEF Contexts
  <2> QED
    BY <2>1, FrontFrames
<1>2. /\ activations' = <<f>> /\ value' = Nothing /\ loopDepth' = 0 /\ nested' = 0 /\ callDepth' = callDepth
      /\ shell' = shell /\ shell.interactive /\ Len(activations) = 1
  BY Zenon DEF Restarted
<1> HIDE DEF f
<1>3. callDepth = 0
  <2>1. activations \in Seq(Activation) /\ activations[1].kind \in {"stream", "string"} /\ activations[1] \in Activation
    BY <1>2, InnermostIsLast DEF EInv, WellFormed
  <2>2. activations = <<activations[1]>>
    <3>1. <<activations[1]>> \in Seq(Activation) /\ Len(<<activations[1]>>) = 1 /\ <<activations[1]>>[1] = activations[1]
      BY <2>1
    <3>2. \A i \in 1..1 : i = 1
      OBVIOUS
    <3> QED
      BY <1>2, <2>1, <3>1, <3>2
  <2>3. CountIn(activations, CallKind) = 0
    BY <2>1, <2>2, FirstCounts
  <2> QED
    BY <2>3 DEF EInv, CountsHold
<1>4. /\ <<f>> \in Seq(Activation) /\ <<f>> # <<>> /\ WellFormed(<<f>>) /\ VisibleIn(<<f>>, 1) = 0 /\ Len(<<f>>) = 1
      /\ CountIn(<<f>>, CallKind) = 0 /\ CountIn(<<f>>, TextKind) = 0 /\ SavedIn(<<f>>)
  <2>1. One(f, TextKind) = 0
    BY <1>1 DEF One, TextKind
  <2> QED
    BY <1>1, <2>1, FirstStands, FirstCounts
<1>5. NestType'
  <2>1. ActivationsType'
    BY <1>2, <1>4 DEF ActivationsType, WellFormed
  <2> QED
    BY <1>2, <1>3, <2>1 DEF NestType
<1>6. CountsHold'
  BY <1>2, <1>3, <1>4, EvaluationAssumption DEF CountsHold
<1>7. LoopsHold'
  BY <1>2, <1>4 DEF LoopsHold
<1>8. DoneHolds'
  <2>1. value'.tag # "done"
    BY <1>2, OutcomeTypes
  <2> QED
    BY <2>1 DEF DoneHolds
<1>9. SpentHolds'
  BY <1>2 DEF SpentHolds
<1>10. WellFormed(activations)'
  BY <1>2, <1>4
<1> QED
  BY <1>5, <1>6, <1>7, <1>8, <1>9, <1>10 DEF EInv

\* It holds in the beginning,
LEMMA EInit_EInv ==
  ASSUME EInit
  PROVE  EInv
<1>0. /\ value = Nothing /\ loopDepth = 0 /\ callDepth = 0
      /\ ~spent /\ ended = "no"
  BY DEF EInit
<1>1. PICK f \in Activation : /\ activations = <<f>> /\ Fits(f) /\ f.kind \in {"stream", "string"}
                              /\ nested = One(f, TextKind)
  <2>1. CASE activations = <<Frame("stream", "record", {}, 0, FALSE)>> /\ nested = 0
    <3>1. "stream" \in {"stream", "string"} /\ {} \in Contexts
      BY DEF Contexts
    <3>2. /\ Frame("stream", "record", {}, 0, FALSE) \in Activation
          /\ Frame("stream", "record", {}, 0, FALSE).kind = "stream"
          /\ Fits(Frame("stream", "record", {}, 0, FALSE))
      BY <3>1, FrontFrames
    <3>3. One(Frame("stream", "record", {}, 0, FALSE), TextKind) = 0
      BY <3>2 DEF One, TextKind
    <3> QED
      BY <2>1, <3>2, <3>3, Zenon
  <2>2. CASE activations = <<Frame("string", "record", {"exit"}, 0, FALSE)>> /\ nested = 1
    <3>1. "string" \in {"stream", "string"} /\ {"exit"} \in Contexts
      BY DEF Contexts
    <3>2. /\ Frame("string", "record", {"exit"}, 0, FALSE) \in Activation
          /\ Frame("string", "record", {"exit"}, 0, FALSE).kind = "string"
          /\ Fits(Frame("string", "record", {"exit"}, 0, FALSE))
      BY <3>1, FrontFrames
    <3>3. One(Frame("string", "record", {"exit"}, 0, FALSE), TextKind) = 1
      BY <3>2 DEF One, TextKind
    <3> QED
      BY <2>2, <3>2, <3>3, Zenon
  <2> QED
    BY <2>1, <2>2 DEF EInit
<1>2. /\ <<f>> \in Seq(Activation) /\ <<f>> # <<>> /\ WellFormed(<<f>>) /\ VisibleIn(<<f>>, 1) = 0 /\ Len(<<f>>) = 1
      /\ CountIn(<<f>>, CallKind) = 0 /\ CountIn(<<f>>, TextKind) = One(f, TextKind) /\ SavedIn(<<f>>)
  BY <1>1, FirstStands, FirstCounts
<1>3. NestType
  <2>1. ActivationsType
    BY <1>1, <1>2 DEF ActivationsType, WellFormed
  <2> QED
    BY <1>0, <1>1, <2>1 DEF NestType, One
<1>4. CountsHold
  <2>1. One(f, TextKind) \in {0, 1} /\ MaxEvaluations \in Nat \ {0}
    BY EvaluationAssumption DEF One
  <2> QED
    BY <1>0, <1>1, <1>2, <2>1 DEF CountsHold
<1>5. LoopsHold
  BY <1>0, <1>1, <1>2 DEF LoopsHold
<1>6. DoneHolds
  <2>1. value.tag # "done"
    BY <1>0, OutcomeTypes
  <2> QED
    BY <2>1 DEF DoneHolds
<1> QED
  BY <1>0, <1>1, <1>2, <1>3, <1>4, <1>5, <1>6 DEF EInv, SpentHolds

\* and every step keeps it.
LEMMA EInvKept ==
  ASSUME EInv, [ENext]_evars
  PROVE  EInv'
<1>1. Step
  BY StepTaken DEF EInv
<1> QED
  BY <1>1, EnteredKeeps, EvaluatedKeeps, ContinuedKeeps, LeftKeeps, RecoveredKeeps, EndedKeeps, RestartedKeeps,
     UnmovedKeeps DEF Step

-----------------------------------------------------------------------------
\* The theorems.

\* What bounds recursion counts the constructs that are open, the loops a break
\* may leave are the ones around it, and a subshell in the shell's own place is
\* the last thing it does: for every nesting, every way to leave it, every bound.
THEOREM NestingIsKept == ESpec => []NestingIsExact
<1>1. EInv => NestingIsExact
  <2> SUFFICES ASSUME EInv PROVE NestingIsExact
    OBVIOUS
  <2>1. DepthIsExact
    BY DEF EInv, CountsHold, DepthIsExact, Count, CountIn, CallKind
  <2>2. LoopDepthIsLexical
    BY DEF EInv, LoopsHold, LoopDepthIsLexical, Visible, VisibleIn
  <2>3. InPlaceIsLast
    BY LeavingReturns DEF EInv, SpentHolds, InPlaceIsLast
  <2> QED
    BY <2>1, <2>2, <2>3 DEF NestingIsExact
<1> QED
  BY <1>1, EInit_EInv, EInvKept, PTL DEF ESpec

\* set -e never ends the shell from inside a condition, however deep.
THEOREM ConditionsAreSpared == ESpec => ErrexitSparesConditions
<1>1. ASSUME EInv, [ENext]_evars, value.cause # "errexit", value'.cause = "errexit"
      PROVE  ~UnderTest
  <2> DEFINE n == Len(activations)
  <2>0. /\ NestType /\ WellFormed(activations) /\ n \in Nat \ {0} /\ n \in 1..n /\ Innermost = activations[n]
        /\ Innermost \in Activation /\ Fits(Innermost)
    BY <1>1, InnermostIsLast DEF EInv
  <2>1. Step
    BY <1>1, StepTaken DEF EInv
  <2>2. Nothing.cause # "errexit" /\ Done(1).cause # "errexit"
    BY OutcomeTypes
  <2>3. Evaluated \/ Left
    BY <1>1, <2>1, <2>2 DEF Step, Entered, Continued, Recovered, Ended, Restarted, Unmoved
  <2> SUFFICES ASSUME UnderTest PROVE FALSE
    OBVIOUS
  <2>4. PICK i \in 1..n : Tests(activations[i]) /\ \A j \in i + 1..n : ~Boundary(activations[j])
    <3>1. DOMAIN activations = 1..n
      BY <2>0, InnermostIsLast
    <3> QED
      BY <3>1 DEF UnderTest
  <2>5. "tested" \in ContextBelow(activations[n])
    BY <2>0, <2>4 DEF WellFormed, CoveredIn
  <2>6. CASE Evaluated
    BY <1>1, <2>0, <2>5, <2>6 DEF Evaluated
  <2>7. CASE Left
    <3>1. Innermost.kind \in {"function", "eval", "dot"} /\ "tested" \notin Innermost.context /\ n > 1
      BY <1>1, <2>7 DEF Left
    <3>2. ~Tests(Innermost)
      BY <2>0, <3>1 DEF Tests, Fits
    <3>3. i # n
      BY <2>0, <2>4, <3>2
    <3>4. i \in 1..n - 1 /\ n - 1 \in 1..n /\ n \in i + 1..n /\ n \in 2..n
      BY <2>0, <3>1, <3>3
    <3>5. "tested" \in ContextBelow(activations[n - 1])
      <4>1. \A j \in i + 1..n - 1 : j \in i + 1..n
        BY <2>0
      <4> QED
        BY <2>0, <2>4, <3>4, <4>1 DEF WellFormed, CoveredIn
    <3>6. Linked(ContextBelow(activations[n - 1]), Innermost)
      BY <2>0, <3>4 DEF WellFormed, LinksIn
    <3>7. ~Boundary(Innermost)
      BY <2>0, <2>4, <3>4
    <3> QED
      BY <3>1, <3>5, <3>6, <3>7 DEF Linked
  <2> QED
    BY <2>3, <2>6, <2>7
<1>2. EInv /\ [ENext]_evars => [value.cause # "errexit" /\ value'.cause = "errexit" => ~UnderTest]_evars
  BY <1>1
<1> QED
  BY <1>2, EInit_EInv, EInvKept, PTL DEF ESpec, ErrexitSparesConditions
=============================================================================
