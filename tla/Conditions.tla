----------------------------- MODULE Conditions -----------------------------
(* The two ways to ask: test with its operators -a, -o, !, ( ), which are     *)
(* words like the operands, and [[ ]] with a grammar of its own.              *)
(* A word is its value; a quoted operator is another word.  One file exists   *)
(* beside an older one.  To test the number of a word is what it spells; to   *)
(* [[ ]] it is what the word evaluates to as an arithmetic expression, which  *)
(* may assign variables that the operands to its right then read.             *)
EXTENDS Arithmetic

CONSTANTS
    TestArguments,      \* the word lists given to test
    ConditionTexts,     \* the token lists between [[ and ]]
    ConditionTrees,     \* expressions, given to both
    ConditionEnvironments, \* what the names hold when [[ ]] is asked
    MaxConditionDepth   \* bound of keywords::nested

ASSUME ConditionsAssumption == MaxConditionDepth \in Nat

VARIABLES question, answered
cvars == <<question, answered>>

UnaryOperator == {"-n", "-z", "-f"}
FileComparison == {"-nt", "-ot", "-ef"}
IntegerComparison == {"-eq", "-lt"}
BinaryTestOperator == {"=", "!=", "<"} \cup FileComparison \cup IntegerComparison

\* The operator a word is, for test.
OperatorKind(w) ==
    CASE w \in UnaryOperator -> "unary"
      [] w \in BinaryTestOperator -> "binary"
      [] w = "!" -> "not"
      [] w = "-a" -> "and"
      [] w = "-o" -> "or"
      [] w = "(" -> "left"
      [] w = ")" -> "right"
      [] OTHER -> "operand"

\* The files: f is newer than g, and l is a link to g.
Exists(w) == w \in {"f", "g", "l"}
Modified(w) == IF w = "f" THEN 2 ELSE 1
FileOf(w) == IF w = "l" THEN "g" ELSE w
Newer(l, r) == Exists(l) /\ (Exists(r) => Modified(l) > Modified(r))
Older(l, r) == Exists(r) /\ (Exists(l) => Modified(l) < Modified(r))
SameFile(l, r) == Exists(l) /\ Exists(r) /\ FileOf(l) = FileOf(r)

\* parse_operand_integer.
IsNumber(w) == w \in {"1", "2"}
TestNumber(w) == IF w = "1" THEN 1 ELSE 2
Collates(l, r) == l = "" /\ r # ""      \* external: the locale's order, of which one pair is enough

UnaryTest(op, w) == CASE op = "-z" -> w = "" [] op = "-n" -> w # "" [] op = "-f" -> Exists(w)
BinaryTest(op, l, r) ==
    CASE op = "=" -> l = r
      [] op = "!=" -> l # r
      [] op = "<" -> Collates(l, r)
      [] op = "-nt" -> Newer(l, r)
      [] op = "-ot" -> Older(l, r)
      [] op = "-ef" -> SameFile(l, r)
      [] op = "-eq" -> TestNumber(l) = TestNumber(r)
      [] op = "-lt" -> TestNumber(l) < TestNumber(r)
\* What test refuses; [[ ]] has no such check.
IllFormed(op, l, r) == op \in IntegerComparison /\ ~(IsNumber(l) /\ IsNumber(r))
-----------------------------------------------------------------------------
(* test: a result is the value, where the parser stands, and whether it gave up. *)

Has(w, i) == i <= Len(w)
Found(v, i) == [v |-> v, at |-> i, err |-> FALSE]
GaveUp == [v |-> FALSE, at |-> 0, err |-> TRUE]

IsOperand(w, i) == ~Has(w, i + 1) \/ (Has(w, i + 2) /\ OperatorKind(w[i + 1]) = "binary")
Lex(w, i) ==
    CASE ~Has(w, i) -> "end"
      [] OperatorKind(w[i]) = "unary" /\ IsOperand(w, i) -> "operand"
      [] w[i] = "(" /\ ~Has(w, i + 1) -> "operand"
      [] OTHER -> OperatorKind(w[i])

RECURSIVE OrExpr(_, _, _, _)
TestParenthesis(w, r) == IF r.err \/ Lex(w, r.at + 1) # "right" THEN GaveUp ELSE Found(r.v, r.at + 1)
TestBinary(w, i) ==
    IF ~Has(w, i + 2) \/ IllFormed(w[i + 1], w[i], w[i + 2]) THEN GaveUp
    ELSE Found(BinaryTest(w[i + 1], w[i], w[i + 2]), i + 2)
TestPrimary(w, i, token) ==
    CASE token = "end" -> Found(FALSE, i)
      [] token = "left" -> IF Lex(w, i + 1) = "right" THEN Found(FALSE, i + 1)
                           ELSE TestParenthesis(w, OrExpr(w, i + 1, Lex(w, i + 1), FALSE))
      [] token = "unary" -> IF Has(w, i + 1) THEN Found(UnaryTest(w[i], w[i + 1]), i + 1) ELSE GaveUp
      [] Lex(w, i + 1) = "binary" -> TestBinary(w, i)
      [] OTHER -> Found(Has(w, i) /\ w[i] # "", i)
NegatedTest(r) == [r EXCEPT !.v = ~r.v]
RECURSIVE NotExpr(_, _, _)
NotExpr(w, i, token) ==
    IF token # "not" THEN TestPrimary(w, i, token)
    ELSE NegatedTest(NotExpr(w, IF Lex(w, i + 1) = "end" THEN i ELSE i + 1, Lex(w, i + 1)))
RECURSIVE AndExpr(_, _, _, _)
AndRest(w, r, sofar) ==
    IF r.err THEN r
    ELSE IF Has(w, r.at) /\ Lex(w, r.at + 1) = "and" THEN AndExpr(w, r.at + 2, Lex(w, r.at + 2), sofar /\ r.v)
    ELSE Found(sofar /\ r.v, r.at)
AndExpr(w, i, token, sofar) == AndRest(w, NotExpr(w, i, token), sofar)
OrRest(w, r, sofar) ==
    IF r.err THEN r
    ELSE IF Has(w, r.at) /\ Lex(w, r.at + 1) = "or" THEN OrExpr(w, r.at + 2, Lex(w, r.at + 2), sofar \/ r.v)
    ELSE Found(sofar \/ r.v, r.at)
OrExpr(w, i, token, sofar) == OrRest(w, AndExpr(w, i, token, TRUE), sofar)

TruthOf(b) == IF b THEN "true" ELSE "false"
Parsed(w, r, negate) ==
    IF r.err \/ (Has(w, r.at) /\ Has(w, r.at + 1)) THEN "error" ELSE TruthOf(r.v # negate)
\* run: with three or four words the place of each decides.
RECURSIVE TestRun(_, _)
TestRun(w, negate) ==
    LET forced == Len(w) = 3 /\ OperatorKind(w[2]) = "binary"
        counted == ~forced /\ Len(w) \in {3, 4}
        inner == IF counted /\ w[1] = "(" /\ w[Len(w)] = ")" THEN SubSeq(w, 2, Len(w) - 1) ELSE w
    IN  CASE w = <<>> -> TruthOf(negate)
          [] counted /\ inner = w /\ w[1] = "!" -> TestRun(Tail(w), TRUE)
          [] OTHER -> Parsed(inner, OrExpr(inner, 1, IF forced THEN "operand" ELSE Lex(inner, 1), FALSE), negate)
-----------------------------------------------------------------------------
(* [[ ]]: a result is the expression, where the next token is, and whether there was an error. *)

ClosingTest == "]]"
Reads(e, i) == [e |-> e, at |-> i, err |-> FALSE]
SyntaxError == [e |-> <<"none">>, at |-> 0, err |-> TRUE]
Token(t, i) == IF i <= Len(t) THEN t[i] ELSE "end"
RECURSIVE Skipped(_, _)
Skipped(t, i) == IF Token(t, i) = "nl" THEN Skipped(t, i + 1) ELSE i
IsWord(t, i) == i <= Len(t) /\ t[i] \notin {"(", ")", "&&", "||", "nl", "<", "<<"}
IsOperandAt(t, i) == IsWord(t, i) /\ t[i] # ClosingTest

RECURSIVE ConditionalOr(_, _, _)
ParenEnds(t, r) == IF r.err \/ Token(t, r.at) # ")" THEN SyntaxError ELSE Reads(<<"group", r.e>>, r.at + 1)
Negation(r) == IF r.err THEN r ELSE Reads(<<"not", r.e>>, r.at)
ConditionalTest(t, i) ==
    CASE Token(t, i + 1) \in BinaryTestOperator ->
           IF IsOperandAt(t, i + 2) THEN Reads(<<"binary", t[i], t[i + 1], t[i + 2]>>, i + 3) ELSE SyntaxError
      [] Token(t, i + 1) \in {"<<", "nl"} -> SyntaxError
      [] OTHER -> Reads(<<"word", t[i]>>, i + 1)
RECURSIVE ConditionalPrimary(_, _, _)
ConditionalPrimary(t, from, depth) ==
    LET i == Skipped(t, from) IN
    CASE Token(t, i) = "(" -> IF depth = 0 THEN SyntaxError ELSE ParenEnds(t, ConditionalOr(t, i + 1, depth - 1))
      [] ~IsOperandAt(t, i) -> SyntaxError
      [] t[i] = "!" -> IF depth = 0 THEN SyntaxError ELSE Negation(ConditionalPrimary(t, i + 1, depth - 1))
      [] t[i] \in UnaryOperator ->
           IF IsOperandAt(t, i + 1) THEN Reads(<<"unary", t[i], t[i + 1]>>, i + 2) ELSE SyntaxError
      [] OTHER -> ConditionalTest(t, i)
RECURSIVE AndChain(_, _, _)
AndChain(t, r, depth) ==
    LET i == Skipped(t, r.at)
        right == ConditionalPrimary(t, i + 1, depth)
    IN  IF r.err THEN r
        ELSE IF Token(t, i) # "&&" THEN Reads(r.e, i)
        ELSE IF right.err THEN right ELSE AndChain(t, Reads(<<"and", r.e, right.e>>, right.at), depth)
ConditionalAnd(t, i, depth) == AndChain(t, ConditionalPrimary(t, i, depth), depth)
RECURSIVE OrChain(_, _, _)
OrChain(t, r, depth) ==
    LET i == Skipped(t, r.at)
        right == ConditionalAnd(t, i + 1, depth)
    IN  IF r.err THEN r
        ELSE IF Token(t, i) # "||" THEN Reads(r.e, i)
        ELSE IF right.err THEN right ELSE OrChain(t, Reads(<<"or", r.e, right.e>>, right.at), depth)
ConditionalOr(t, i, depth) == OrChain(t, ConditionalAnd(t, i, depth), depth)
ConditionalExpression(t) ==
    LET r == ConditionalOr(t, 1, MaxConditionDepth) IN
    IF r.err \/ Token(t, r.at) # ClosingTest THEN SyntaxError ELSE r

\* The lexer of arithmetic, on the words that stand beside -eq and -lt.
Tokens(w) ==
    CASE w = "" -> <<>>
      [] w = "x=2" -> <<"x", "=", "2">>
      [] w = "x++" -> <<"x", "++">>
      [] w = "1+1" -> <<"1", "+", "1">>
      [] w = "1+" -> <<"1", "+">>
      [] w = "1/y" -> <<"1", "/", "y">>
      [] OTHER -> <<w>>

\* evaluate: s has the truth of what was asked last and the variables.  An operand that reads an unset name
\* under set -u is "invalid"; any other arithmetic error abandons the record.
Turned(truth) == CASE truth = "true" -> "false" [] truth = "false" -> "true" [] OTHER -> truth
Answered(s, truth) == [s EXCEPT !.truth = truth]
number(w, s) == evaluate(Tokens(w), s)
After(s, n) == [s EXCEPT !.vars = n.env]
Raises(n) == n.bad /\ ~n.unset
Compared(op, s, m, n) ==
    Answered(After(s, n), IF Raises(n) THEN "abandoned" ELSE IF m.bad \/ n.bad THEN "invalid"
                          ELSE TruthOf(IF op = "-eq" THEN m.v = n.v ELSE m.v < n.v))
\* Mutant: the value of the left operand is not looked at before the right one is evaluated.
NeverAbandoned(op, r, s, m) == Compared(op, After(s, m), m, number(r, After(s, m)))
RightCompared(op, r, s, m) ==
    IF Raises(m) THEN Answered(After(s, m), "abandoned") ELSE Compared(op, After(s, m), m, number(r, After(s, m)))
arithmetic_comparison(op, l, r, s) == RightCompared(op, r, s, number(l, s))

Negated(s) == Answered(s, Turned(s.truth))
RECURSIVE Expression(_, _)
IfAsked(e, s, goes_on) == IF s.truth = goes_on THEN Expression(e, s) ELSE s
Expression(e, s) ==
    CASE e[1] = "word" -> Answered(s, TruthOf(e[2] # ""))
      [] e[1] = "unary" -> Answered(s, TruthOf(UnaryTest(e[2], e[3])))
      [] e[1] = "binary" -> IF e[3] \in IntegerComparison THEN arithmetic_comparison(e[3], e[2], e[4], s)
                            ELSE Answered(s, TruthOf(BinaryTest(e[3], e[2], e[4])))
      [] e[1] = "not" -> Negated(Expression(e[2], s))
      [] e[1] = "and" -> IfAsked(e[3], Expression(e[2], s), "true")
      [] e[1] = "or" -> IfAsked(e[3], Expression(e[2], s), "false")
      [] e[1] = "group" -> Expression(e[2], s)
Unasked(env) == [truth |-> "none", vars |-> env.vars, nounset |-> env.nounset]
Conditional(t, env) ==
    LET r == ConditionalExpression(t) IN
    IF r.err THEN Answered(Unasked(env), "error") ELSE Expression(r.e, Unasked(env))
-----------------------------------------------------------------------------
\* An expression as words for test and as tokens for [[ ]].
RECURSIVE AsWords(_, _, _)
AsWords(e, both, either) ==
    CASE e[1] \in {"word", "unary", "binary"} -> Tail(e)
      [] e[1] = "not" -> <<"!">> \o AsWords(e[2], both, either)
      [] e[1] = "and" -> AsWords(e[2], both, either) \o both \o AsWords(e[3], both, either)
      [] e[1] = "or" -> AsWords(e[2], both, either) \o either \o AsWords(e[3], both, either)
      [] e[1] = "group" -> <<"(">> \o AsWords(e[2], both, either) \o <<")">>
AsTest(e) == AsWords(e, <<"-a">>, <<"-o">>)
AsCondition(e) == AsWords(e, <<"&&", "nl">>, <<"||">>) \o <<ClosingTest>>

NothingAsked == [kind |-> "nothing"]
NoEnvironment == [vars |-> <<>>, nounset |-> FALSE]
NotAnswered(env) == [test |-> "none", condition |-> Unasked(env)]
CIdle == question = NothingAsked /\ answered = NotAnswered(NoEnvironment)
CInit ==
    \/ \E w \in TestArguments : question = [kind |-> "test", words |-> w] /\ answered = NotAnswered(NoEnvironment)
    \/ \E t \in ConditionTexts : question = [kind |-> "condition", tokens |-> t] /\ answered = NotAnswered(NoEnvironment)
    \/ \E e \in ConditionTrees, env \in ConditionEnvironments :
          question = [kind |-> "tree", tree |-> e, env |-> env] /\ answered = NotAnswered(env)
WordsOf(q) == IF q.kind = "test" THEN q.words ELSE AsTest(q.tree)
TokensOf(q) == IF q.kind = "condition" THEN q.tokens ELSE AsCondition(q.tree)
AskTest(w) == answered' = [answered EXCEPT !.test = TestRun(w, FALSE)]
AskCondition(t) ==
    /\ answered.condition.truth = "none"
    /\ answered' = [answered EXCEPT !.condition = Conditional(t, [vars |-> @.vars, nounset |-> @.nounset])]
CNext ==
    /\ \/ question.kind \in {"test", "tree"} /\ AskTest(WordsOf(question))
       \/ question.kind \in {"condition", "tree"} /\ AskCondition(TokensOf(question))
    /\ UNCHANGED question
-----------------------------------------------------------------------------
\* Reference for up to four words, by their number, as POSIX lists the cases; "open" where it says nothing.
Opposite(a) == IF a = "open" THEN a ELSE Turned(a)
ByTwo(w) ==
    IF w[1] = "!" THEN TruthOf(w[2] = "") ELSE IF w[1] \in UnaryOperator THEN TruthOf(UnaryTest(w[1], w[2])) ELSE "open"
ByThree(w) ==
    CASE w[2] \in BinaryTestOperator ->
           IF IllFormed(w[2], w[1], w[3]) THEN "error" ELSE TruthOf(BinaryTest(w[2], w[1], w[3]))
      [] w[1] = "!" -> Opposite(ByTwo(Tail(w)))
      [] w[1] = "(" /\ w[3] = ")" -> TruthOf(w[2] # "")
      [] OTHER -> "open"
ByCount(w) ==
    CASE Len(w) = 0 -> "false"
      [] Len(w) = 1 -> TruthOf(w[1] # "")
      [] Len(w) = 2 -> ByTwo(w)
      [] Len(w) = 3 -> ByThree(w)
      [] Len(w) = 4 /\ w[1] = "!" -> Opposite(ByThree(Tail(w)))
      [] Len(w) = 4 /\ w[1] = "(" /\ w[4] = ")" -> ByTwo(SubSeq(w, 2, 3))
      [] OTHER -> "open"

\* Four words that begin with two negations: run's loop sets its result to 0 at each instead of turning it
\* (builtins/test.rs:483), so that test ! ! -n x is false.
NegatedTwice(w) == Len(w) = 4 /\ w[1] = "!" /\ w[2] = "!" /\ w[3] \notin BinaryTestOperator

\* Reference for expressions.  The leaves are numbered from left to right; a is what each of them says.
RECURSIVE Leaves(_), Says(_, _)
Leaves(e) ==
    CASE e[1] \in {"word", "unary", "binary"} -> <<e>>
      [] e[1] \in {"not", "group"} -> Leaves(e[2])
      [] OTHER -> Leaves(e[2]) \o Leaves(e[3])
LeavesBehind(a, k) == SubSeq(a, k + 1, Len(a))
Says(e, a) ==
    CASE e[1] \in {"word", "unary", "binary"} -> a[1]
      [] e[1] \in {"not", "group"} -> (e[1] = "not") # Says(e[2], a)
      [] e[1] = "and" -> Says(e[2], a) /\ Says(e[3], LeavesBehind(a, Len(Leaves(e[2]))))
      [] e[1] = "or" -> Says(e[2], a) \/ Says(e[3], LeavesBehind(a, Len(Leaves(e[2]))))

\* To test every leaf has an answer, and one that is ill-formed is an error.
LeafHolds(l) ==
    CASE l[1] = "word" -> l[2] # "" [] l[1] = "unary" -> UnaryTest(l[2], l[3]) [] l[1] = "binary" -> BinaryTest(l[3], l[2], l[4])
TestMeans(e) ==
    LET ls == Leaves(e) IN
    IF \E i \in DOMAIN ls : ls[i][1] = "binary" /\ IllFormed(ls[i][3], ls[i][2], ls[i][4]) THEN "error"
    ELSE TruthOf(Says(e, [i \in DOMAIN ls |-> LeafHolds(ls[i])]))

\* [[ ]] asks a leaf exactly when what the leaves before it said leaves the answer open, and this leaf can
\* decide it; a leaf without an answer ends the asking.  m has what was said, the variables and that end.
Agreeing(said, n) == {a \in [1..n -> BOOLEAN] : \A i \in DOMAIN said : a[i] = said[i]}
Decides(e, said, k) == \E a \in Agreeing(said, Len(Leaves(e))) : Says(e, a) # Says(e, [a EXCEPT ![k] = ~@])
Saying(m, k, b) == [m EXCEPT !.said = (k :> b) @@ @]
OperandMeans(m, w) == Means(Tokens(w), m)
Fails(n) == n.bad /\ ~n.unset
Compares(m, k, op, left, right) ==
    IF Fails(left) \/ Fails(right) THEN [m EXCEPT !.end = "abandoned"]
    ELSE IF left.unset \/ right.unset THEN [m EXCEPT !.end = "invalid"]
    ELSE Saying([m EXCEPT !.vars = right.env], k, IF op = "-eq" THEN left.v = right.v ELSE left.v < right.v)
ComparesWith(m, k, l, left) == Compares(m, k, l[3], left, OperandMeans([m EXCEPT !.vars = left.env], l[4]))
Said(m, l, k) ==
    IF l[1] = "binary" /\ l[3] \in IntegerComparison THEN ComparesWith(m, k, l, OperandMeans(m, l[2]))
    ELSE Saying(m, k, LeafHolds(l))
RECURSIVE Asking(_, _, _)
Asking(e, m, k) ==
    IF k > Len(Leaves(e)) \/ m.end # "none" THEN m
    ELSE Asking(e, IF Decides(e, m.said, k) THEN Said(m, Leaves(e)[k], k) ELSE m, k + 1)
Concluded(e, m) ==
    IF m.end # "none" THEN m
    ELSE [m EXCEPT !.end = TruthOf(\E a \in Agreeing(m.said, Len(Leaves(e))) : Says(e, a))]
ConditionMeans(e, env) ==
    Concluded(e, Asking(e, [said |-> <<>>, vars |-> env.vars, nounset |-> env.nounset, end |-> "none"], 1))

\* With three or four words a leading negation is of all the others.
ByPlace(w) == Len(w) \in {3, 4} /\ w[1] = "!"

\* test decides as POSIX prescribes where it does; test and [[ ]] answer what an expression means to them, and
\* [[ ]] leaves the variables as the operands it had to evaluate left them; and what [[ ]] accepts is what was
\* written, with newlines beside its connectives only (builtins/test.rs, parser/bash/conditional.rs,
\* evaluation/bash_conditional.rs).
Sounding(t) == SelectSeq(t, LAMBDA x : x # "nl")
ConditionsAgree ==
    CASE question.kind = "test" ->
           answered.test \in {"none", ByCount(question.words)} \/ ByCount(question.words) = "open" \/ NegatedTwice(question.words)
      [] question.kind = "condition" ->
           LET r == ConditionalExpression(question.tokens)
           IN  r.err \/ Sounding(SubSeq(question.tokens, 1, r.at)) = AsWords(r.e, <<"&&">>, <<"||">>) \o <<ClosingTest>>
      [] question.kind = "tree" ->
           /\ answered.test = "none" \/ ByPlace(AsTest(question.tree)) \/ answered.test = TestMeans(question.tree)
           /\ answered.condition.truth # "none" =>
                \E m \in {ConditionMeans(question.tree, question.env)} :
                   /\ answered.condition.truth = m.end
                   /\ m.end \in {"true", "false"} => answered.condition.vars = m.vars
      [] OTHER -> TRUE
=============================================================================
