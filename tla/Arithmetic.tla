----------------------------- MODULE Arithmetic -----------------------------
(* $(( )): the recursive-descent evaluator, which parses and evaluates in one *)
(* pass and parses what a short circuit skips with evaluate = FALSE.  It is   *)
(* checked against a meaning that splits the whole token list at its loosest  *)
(* operator.                                                                  *)
(*                                                                            *)
(* An expression is a sequence of tokens.  A variable holds text: the tokens  *)
(* of an expression, as Bash reads it, or of the number last written.         *)
(* Numbers have Width bits and wrap; a literal saturates.  An environment is  *)
(* the variables that are set and whether set -u is on.                       *)
EXTENDS FiniteSetsExt, Integers, Sequences, TLC

CONSTANTS
    Expressions,    \* the token sequences tried
    Environments,   \* what the names that are set hold before
    Names,
    Width,          \* bits of a number (64)
    MaxDepth        \* MAX_NAME_DEPTH

ASSUME ArithmeticAssumption == Width \in Nat \ {0} /\ MaxDepth \in Nat

VARIABLES expression, before, result

avars == <<expression, before, result>>

-----------------------------------------------------------------------------
(* Numbers *)

Wrap(n) == ((n + 2^(Width - 1)) % 2^Width) - 2^(Width - 1)
Least == -(2^(Width - 1))
Clamp(n) == Min({Max({n, Least}), -Least - 1})
Bits(n) == {k \in 0..Width - 1 : ((n % 2^Width) \div 2^k) % 2 = 1}
OfBits(s) == Wrap(MapThenSumSet(LAMBDA k : 2^k, s))
Quotient(m, n) == LET q == (IF m < 0 THEN -m ELSE m) \div (IF n < 0 THEN -n ELSE n)
                  IN  IF (m < 0) = (n < 0) THEN q ELSE -q

\* What the lexer makes of digits, and the text a number is written as.
Spelled == 0..3 * 2^(Width - 1)
Digits == {ToString(n) : n \in Spelled}
Denotes == [t \in Digits |-> CHOOSE n \in Spelled : ToString(n) = t]
AppendDigit(v, d) == Clamp(Clamp(v * 10) + d)
Literal(t) == AppendDigit(AppendDigit(0, Denotes[t] \div 10), Denotes[t] % 10)
Decimal(n) == IF n < 0 THEN <<"-", ToString(-n)>> ELSE <<ToString(n)>>
Truth(b) == IF b THEN 1 ELSE 0

BinaryOperator == {"*", "/", "%", "+", "-", "<<", "<", "==", "&", "^", "|"}
binding_power(op) ==
    CASE op \in {"*", "/", "%"} -> 8 [] op \in {"+", "-"} -> 7 [] op = "<<" -> 6 [] op = "<" -> 5
      [] op = "==" -> 4 [] op = "&" -> 3 [] op = "^" -> 2 [] op = "|" -> 1
Unary == {"+", "-", "!", "~"}
Assigns == {"=", "+=", "**="}
Operator(assign) == CASE assign = "+=" -> "+" [] assign = "**=" -> "**"

\* Mutant: the one quotient that does not fit is forgotten.
FaultsByZero(op, l, r) == (op \in {"/", "%"} /\ r = 0) \/ (op = "**" /\ r < 0)
\* apply: what it refuses, and what it answers otherwise.
Faults(op, l, r) ==
    \/ op \in {"/", "%"} /\ (r = 0 \/ (l = Least /\ r = -1))
    \/ op = "**" /\ r < 0
apply(op, l, r) ==
    CASE op = "*" -> Wrap(l * r) [] op = "+" -> Wrap(l + r) [] op = "-" -> Wrap(l - r)
      [] op = "<<" -> Wrap(l * 2^(r % Width))
      [] op = "<" -> Truth(l < r) [] op = "==" -> Truth(l = r)
      [] op = "&" -> OfBits(Bits(l) \cap Bits(r)) [] op = "|" -> OfBits(Bits(l) \cup Bits(r))
      [] op = "^" -> OfBits((Bits(l) \cup Bits(r)) \ (Bits(l) \cap Bits(r)))
      [] op = "**" -> Clamp(IF r = 0 THEN 1 ELSE l ^ r)
      [] op = "/" -> Quotient(l, r) [] op = "%" -> l - r * Quotient(l, r)
Signed(op, v) == CASE op = "+" -> v [] op = "-" -> Wrap(-v) [] op = "!" -> Truth(v = 0) [] op = "~" -> -v - 1

-----------------------------------------------------------------------------
(* The parser: a state s has the position, the depth, the variables, the      *)
(* value returned last, whether an error is on its way out and whether it is  *)
(* the one of set -u.                                                         *)

Tok(ts, s, k) == IF s.at + k <= Len(ts) THEN ts[s.at + k] ELSE "end"
advance(s, k) == [s EXCEPT !.at = @ + k]
error(s) == [s EXCEPT !.bad = TRUE]
unset_error(s) == [s EXCEPT !.bad = TRUE, !.unset = TRUE]
Give(s, v) == IF s.bad THEN s ELSE [s EXCEPT !.v = v]

\* Parse is the one knot of the recursion: the rule of the grammar by its name.
RECURSIVE Parse(_, _, _, _), CommaRest(_, _, _), binary_rhs(_, _, _, _), evaluate_at_depth(_, _)

\* A name that is not set is 0 or, under set -u, an error; the text of the others is an expression of its
\* own, one level further down.
read(s, name) ==
    IF s.bad THEN s
    ELSE IF name \notin DOMAIN s.env THEN IF s.nounset THEN unset_error(s) ELSE Give(s, 0)
    ELSE IF s.env[name] = <<>> THEN Give(s, 0)
    ELSE IF s.depth >= MaxDepth THEN error(s)
    ELSE LET x == evaluate_at_depth(s.env[name], [s EXCEPT !.depth = @ + 1])
         IN  [s EXCEPT !.env = x.env, !.v = x.v, !.bad = x.bad, !.unset = x.unset]
write(s, name, value) == IF s.bad THEN s ELSE [s EXCEPT !.env = (name :> Decimal(value)) @@ @, !.v = value]
Applied(s, op, l, r) == IF s.bad THEN s ELSE IF Faults(op, l, r) THEN error(s) ELSE Give(s, apply(op, l, r))

CommaRest(ts, s, ev) ==
    IF s.bad \/ Tok(ts, s, 0) # "," THEN s ELSE CommaRest(ts, Parse("assignment", ts, advance(s, 1), ev), ev)
comma(ts, s, ev) == CommaRest(ts, Parse("assignment", ts, s, ev), ev)

assignment(ts, s, ev) ==
    LET name == Tok(ts, s, 0)
        op   == Tok(ts, s, 1)
        x    == Parse("assignment", ts, advance(s, 2), ev)
        old  == read(x, name)
        new  == Applied(old, Operator(op), old.v, x.v)
    IN  IF ~(name \in Names /\ op \in Assigns) THEN Parse("conditional", ts, s, ev)
        ELSE IF ~ev \/ x.bad THEN x
        ELSE IF op = "=" THEN write(x, name, x.v) ELSE write(new, name, new.v)

\* The branch not taken is parsed and not evaluated.
Branch(ev, taken) == ev /\ taken

conditional(ts, s, ev) ==
    LET c == Parse("logical_or", ts, s, ev)
        t == Parse("assignment", ts, advance(c, 1), Branch(ev, c.v # 0))
        e == Parse("conditional", ts, advance(t, 1), Branch(ev, c.v = 0))
    IN  IF c.bad \/ Tok(ts, c, 0) # "?" THEN c
        ELSE IF t.bad THEN t
        ELSE IF Tok(ts, t, 0) # ":" THEN error(t)
        ELSE Give(e, IF c.v # 0 THEN t.v ELSE e.v)

logical_or(ts, s, ev) ==
    LET l == Parse("logical_and", ts, s, ev)
        r == Parse("logical_or", ts, advance(l, 1), ev /\ l.v = 0)
    IN  IF l.bad \/ Tok(ts, l, 0) # "||" THEN l ELSE Give(r, Truth(l.v # 0 \/ r.v # 0))

logical_and(ts, s, ev) ==
    LET base == Parse("power", ts, s, ev)
        l == binary_rhs(ts, base, 1, ev)
        r == Parse("logical_and", ts, advance(l, 1), ev /\ l.v # 0)
    IN  IF l.bad \/ Tok(ts, l, 0) # "&&" THEN l ELSE Give(r, Truth(l.v # 0 /\ r.v # 0))

power(ts, s, ev) ==
    LET b == Parse("primary", ts, s, ev)
        e == Parse("power", ts, advance(b, 1), ev)
    IN  IF b.bad \/ Tok(ts, b, 0) # "**" THEN b
        ELSE IF ~ev THEN e ELSE Applied(e, "**", b.v, e.v)

binary_rhs(ts, s, least, ev) ==
    LET op == Tok(ts, s, 0)
        r  == Parse("power", ts, advance(s, 1), ev)
        next == Tok(ts, r, 0)
        right == IF next \in BinaryOperator /\ binding_power(next) > binding_power(op)
                 THEN binary_rhs(ts, r, binding_power(op) + 1, ev) ELSE r
    IN  IF s.bad \/ op \notin BinaryOperator THEN s
        ELSE IF binding_power(op) < least THEN s
        ELSE IF r.bad THEN r
        ELSE binary_rhs(ts, IF ev THEN Applied(right, op, s.v, right.v) ELSE right, least, ev)

primary(ts, s, ev) ==
    LET t    == Tok(ts, s, 0)
        one  == advance(s, 1)
        next == Tok(ts, s, 1)
        down == [one EXCEPT !.depth = @ + 1]
        Up(x) == [x EXCEPT !.depth = s.depth]
        paren == Up(Parse("comma", ts, down, ev))
        sign == Up(Parse("power", ts, down, ev))
        old  == IF ev THEN read(one, t) ELSE Give(one, 0)
        step == IF next \in Names THEN read(advance(s, 2), next) ELSE s
    IN  CASE s.bad -> s
          [] ~s.bad /\ t \in Digits -> Give(one, Literal(t))
          [] ~s.bad /\ t \in Names ->
                IF next # "++" \/ old.bad THEN old
                ELSE IF ~ev THEN advance(old, 1)
                ELSE Give(write(advance(old, 1), t, Wrap(old.v + 1)), old.v)
          [] ~s.bad /\ t = "++" ->
                IF next \notin Names THEN error(s)
                ELSE IF ~ev THEN Give(advance(s, 2), 0) ELSE write(step, next, Wrap(step.v + 1))
          [] ~s.bad /\ t = "(" ->
                IF s.depth >= MaxDepth THEN error(s)
                ELSE IF paren.bad THEN paren
                ELSE IF Tok(ts, paren, 0) = ")" THEN advance(paren, 1) ELSE error(paren)
          [] ~s.bad /\ t \in Unary ->
                IF s.depth >= MaxDepth THEN error(s) ELSE Give(sign, Signed(t, sign.v))
          [] OTHER -> error(s)

Parse(rule, ts, s, ev) ==
    CASE rule = "comma" -> comma(ts, s, ev)               [] rule = "assignment" -> assignment(ts, s, ev)
      [] rule = "conditional" -> conditional(ts, s, ev)   [] rule = "logical_or" -> logical_or(ts, s, ev)
      [] rule = "logical_and" -> logical_and(ts, s, ev)   [] rule = "power" -> power(ts, s, ev)
      [] rule = "primary" -> primary(ts, s, ev)

evaluate_at_depth(ts, s) ==
    LET start == [s EXCEPT !.at = 1]
        x     == Parse("comma", ts, start, TRUE)
    IN  IF ts = <<>> THEN Give(start, 0)
        ELSE IF ~x.bad /\ x.at <= Len(ts) THEN error(x) ELSE x

NewParser(env) ==
    [at |-> 1, depth |-> 0, env |-> env.vars, nounset |-> env.nounset, v |-> 0, bad |-> FALSE, unset |-> FALSE]
evaluate(ts, env) == evaluate_at_depth(ts, NewParser(env))

-----------------------------------------------------------------------------
(* One expansion *)

Pending == [NewParser([vars |-> <<>>, nounset |-> FALSE]) EXCEPT !.at = 0]
BeginExpanding(inputs, environments) == expression \in inputs /\ before \in environments /\ result = Pending
AInit == BeginExpanding(Expressions, Environments)
Expand == result = Pending /\ result' = evaluate(expression, before) /\ UNCHANGED <<expression, before>>
ANext == Expand
ASpec == AInit /\ [][ANext]_avars

-----------------------------------------------------------------------------
(* What the operators mean, in the terms of the numbers: nothing here is      *)
(* what the evaluator computes with.                                          *)

Numbers == Least..-Least - 1
Distance(m, n) == IF m < n THEN n - m ELSE m - n
Congruent(n) == CHOOSE v \in Numbers : (v - n) % 2^Width = 0
Nearest(n) == CHOOSE v \in Numbers : \A u \in Numbers : Distance(v, n) <= Distance(u, n)
\* The number whose places are those of s: the highest one counts against the others.
Places == 0..Width - 1
Weight(s) == MapThenSumSet(LAMBDA k : IF k = Width - 1 THEN Least ELSE 2^k, s)
PlacesOf == [v \in Numbers |-> CHOOSE s \in SUBSET Places : Weight(s) = v]
\* A shift moves the places by the count modulo Width; what leaves at the top is lost.
Moved(s, n) == {k \in Places : \E j \in s, c \in Places : k = j + c /\ (n - c) % Width = 0}
\* The quotient leaves a remainder smaller than the divisor, of the sign of the dividend.
Remains(l, r, q) == l - q * r
IsQuotient(l, r, q) ==
    /\ Distance(Remains(l, r, q), 0) < Distance(r, 0)
    /\ Remains(l, r, q) # 0 => (Remains(l, r, q) < 0) = (l < 0)
Quotients(l, r) == {q \in Numbers : IsQuotient(l, r, q)}
Product(l, r) == LET p[k \in 0..r] == IF k = 0 THEN 1 ELSE l * p[k - 1] IN p[r]

HasAnswer(op, l, r) ==
    /\ op \in {"/", "%"} => Quotients(l, r) # {}
    /\ op = "**" => r >= 0
Answer(op, l, r) ==
    CASE op = "*" -> Congruent(l * r) [] op = "+" -> Congruent(l + r) [] op = "-" -> Congruent(l - r)
      [] op = "/" -> CHOOSE q \in Quotients(l, r) : TRUE
      [] op = "%" -> Remains(l, r, CHOOSE q \in Quotients(l, r) : TRUE)
      [] op = "**" -> Nearest(Product(l, r))
      [] op = "<<" -> Weight(Moved(PlacesOf[l], r))
      [] op = "&" -> Weight({k \in Places : k \in PlacesOf[l] /\ k \in PlacesOf[r]})
      [] op = "|" -> Weight({k \in Places : k \in PlacesOf[l] \/ k \in PlacesOf[r]})
      [] op = "^" -> Weight({k \in Places : (k \in PlacesOf[l]) # (k \in PlacesOf[r])})
      [] op = "<" -> Truth(\E d \in 1..2^Width : l + d = r)
      [] op = "==" -> Truth(Distance(l, r) = 0)
SignedAnswer(op, v) ==
    CASE op = "+" -> v [] op = "-" -> Congruent(0 - v) [] op = "!" -> Truth(v = 0)
      [] op = "~" -> Weight(Places \ PlacesOf[v])

-----------------------------------------------------------------------------
(* What an expression means: m has the variables, the value, whether the text *)
(* is no expression or its evaluation faults, and whether set -u is why.      *)

Open(ts, k) == Cardinality({j \in 1..k : ts[j] = "("}) - Cardinality({j \in 1..k : ts[j] = ")"})
\* The places outside parentheses where one of ops stands.
At(ts, ops) == {k \in DOMAIN ts : ts[k] \in ops /\ Open(ts, k) = 0}
\* An operator behind an operand is binary; any other one is a sign.
EndsOperand(t) == t \in Digits \cup Names \cup {")"}
Behind(ts, k) == k > 1 /\ (EndsOperand(ts[k - 1]) \/ (ts[k - 1] = "++" /\ k > 2 /\ ts[k - 2] \in Names))
Left(ts, k)  == SubSeq(ts, 1, k - 1)
Right(ts, k) == SubSeq(ts, k + 1, Len(ts))
Bad(m) == [m EXCEPT !.bad = TRUE]
Value(m, v) == IF m.bad THEN m ELSE [m EXCEPT !.v = v]
\* The ":" that belongs to the "?" at k.
Colon(ts, k) == {c \in At(ts, {":"}) : c > k /\
    LET q == Cardinality({j \in At(ts, {"?"}) : k < j /\ j < c})
        d == Cardinality({j \in At(ts, {":"}) : k < j /\ j < c})
    IN  q = d}

RECURSIVE Meaning(_, _, _, _)
\* Level 1 is a comma list, 2 an assignment, 3 a conditional, 4 and 5 the logical operators, 6 the
\* binary ones, 7 a power, 8 an operand.
Split(ts, level) ==
    CASE level = 1 -> At(ts, {","})
      [] level = 3 -> At(ts, {"?"})
      [] level = 4 -> At(ts, {"||"})
      [] level = 5 -> At(ts, {"&&"})
      [] level = 6 -> LET bs == {k \in At(ts, BinaryOperator) : Behind(ts, k)}
                      IN  {k \in bs : \A j \in bs : binding_power(ts[k]) <= binding_power(ts[j])}
      [] level = 7 -> At(ts, {"**"})
      [] OTHER -> {}
IsAssignment(ts) == Len(ts) > 2 /\ ts[1] \in Names /\ ts[2] \in Assigns
IsSigned(ts) == ts # <<>> /\ ts[1] \in Unary
IsParen(ts) == Len(ts) > 1 /\ ts[1] = "(" /\ ts[Len(ts)] = ")" /\ \A k \in 1..Len(ts) - 1 : Open(ts, k) > 0
Inner(ts) == SubSeq(ts, 2, Len(ts) - 1)

Meaning(ts, level, m, ev) ==
    LET cut   == Split(ts, level)
        k     == IF level \in {1, 6} THEN Max(cut) ELSE Min(cut)
        down(t, n) == Meaning(t, level + 1, n, ev)
        deep  == [m EXCEPT !.depth = @ + 1]
        up(n) == [n EXCEPT !.depth = m.depth]
        look(n, x) == IF ~n.bad /\ n.nounset /\ x \notin DOMAIN n.env THEN [Bad(n) EXCEPT !.unset = TRUE]
                      ELSE IF n.bad \/ x \notin DOMAIN n.env \/ n.env[x] = <<>> THEN Value(n, 0)
                      ELSE IF n.depth >= MaxDepth THEN Bad(n)
                      ELSE [Meaning(n.env[x], 1, [n EXCEPT !.depth = @ + 1], TRUE) EXCEPT !.depth = n.depth]
        store(n, x, v) == IF n.bad THEN n
                          ELSE [n EXCEPT !.env = [y \in DOMAIN n.env \cup {x} |-> IF y = x THEN Decimal(v) ELSE n.env[y]],
                                         !.v = v]
        calc(n, op, l, r) == IF n.bad THEN n ELSE IF ~ev THEN n
                             ELSE IF HasAnswer(op, l, r) THEN Value(n, Answer(op, l, r)) ELSE Bad(n)
    IN  CASE m.bad -> m
          [] ts = <<>> -> Bad(m)
          [] level = 2 /\ IsAssignment(ts) ->
               LET r == Meaning(Right(ts, 2), 2, m, ev)
                   o == look(r, ts[1])
                   c == calc(o, Operator(ts[2]), o.v, r.v)
               IN  IF ~ev THEN r ELSE IF ts[2] = "=" THEN store(r, ts[1], r.v) ELSE store(c, ts[1], c.v)
          [] level = 3 /\ cut # {} ->
               LET c  == down(Left(ts, k), m)
                   co == Colon(ts, k)
                   t  == Meaning(SubSeq(ts, k + 1, Min(co) - 1), 2, c, ev /\ c.v # 0)
                   e  == Meaning(Right(ts, Min(co)), 3, t, ev /\ c.v = 0)
               IN  IF co = {} THEN Bad(c) ELSE Value(e, IF c.v # 0 THEN t.v ELSE e.v)
          [] level \in {4, 5} /\ cut # {} ->
               LET l == down(Left(ts, k), m)
                   r == Meaning(Right(ts, k), level, l, ev /\ (l.v = 0) = (level = 4))
               IN  Value(r, Truth(IF level = 4 THEN l.v # 0 \/ r.v # 0 ELSE l.v # 0 /\ r.v # 0))
          [] level \in {1, 6} /\ cut # {} ->
               LET l == Meaning(Left(ts, k), level, m, ev)
                   r == Meaning(Right(ts, k), IF level = 1 THEN 2 ELSE 6, l, ev)
               IN  IF level = 1 THEN r ELSE calc(r, ts[k], l.v, r.v)
          [] level = 7 /\ IsSigned(ts) ->
               IF m.depth >= MaxDepth THEN Bad(m)
               ELSE LET x == up(Meaning(Tail(ts), 7, deep, ev)) IN Value(x, SignedAnswer(ts[1], x.v))
          [] level = 7 /\ ~IsSigned(ts) /\ cut # {} ->
               LET l == down(Left(ts, k), m)
                   r == Meaning(Right(ts, k), 7, l, ev)
               IN  calc(r, "**", l.v, r.v)
          [] level = 8 /\ Len(ts) = 1 /\ ts[1] \in Digits -> Value(m, Nearest(Denotes[ts[1]]))
          [] level = 8 /\ Len(ts) = 1 /\ ts[1] \in Names -> IF ev THEN look(m, ts[1]) ELSE Value(m, 0)
          [] level = 8 /\ Len(ts) = 2 /\ ts[1] \in Names /\ ts[2] = "++" ->
               IF ~ev THEN Value(m, 0) ELSE LET o == look(m, ts[1]) IN Value(store(o, ts[1], Congruent(o.v + 1)), o.v)
          [] level = 8 /\ Len(ts) = 2 /\ ts[1] = "++" /\ ts[2] \in Names ->
               IF ~ev THEN Value(m, 0) ELSE LET o == look(m, ts[2]) IN store(o, ts[2], Congruent(o.v + 1))
          [] level = 8 /\ IsParen(ts) ->
               IF m.depth >= MaxDepth THEN Bad(m) ELSE up(Meaning(Inner(ts), 1, deep, ev))
          [] level = 8 /\ Len(ts) > 1 /\ ~IsParen(ts) /\ ~(Len(ts) = 2 /\ {ts[1], ts[2]} \cap Names # {} /\ "++" \in {ts[1], ts[2]}) -> Bad(m)
          [] OTHER -> IF level = 8 THEN Bad(m) ELSE down(ts, m)

Means(ts, env) ==
    LET start == [env |-> env.vars, nounset |-> env.nounset, depth |-> 0, v |-> 0, bad |-> FALSE, unset |-> FALSE]
    IN  IF ts = <<>> THEN start ELSE Meaning(ts, 1, start, TRUE)

\* One pass gives what the expression means: the same value and the same variables afterwards, with
\* nothing assigned in a branch that is skipped, and an error for exactly the same expressions
\* (arithmetic.rs, lexer.rs).
EvaluatesAsWritten ==
    result # Pending =>
      \E m \in {Means(expression, before)} :
      /\ result.bad = m.bad /\ result.unset = m.unset
      /\ ~result.bad => result.v = m.v /\ result.env = m.env

\* $((x)) after x is assigned a number is that number, unless that is the least one, whose digits saturate
\* before their sign is read (arithmetic/lexer.rs:324-351).
ValuesReadBack ==
    result # Pending /\ ~result.bad =>
      \A x \in DOMAIN result.env : x \notin DOMAIN before.vars \/ result.env[x] # before.vars[x] =>
         \E n \in Numbers :
            /\ result.env[x] = Decimal(n)
            /\ n # Least => evaluate(<<x>>, [before EXCEPT !.vars = result.env]).v = n
=============================================================================
