------------------------------- MODULE Regex -------------------------------
(* The extended regular expressions of =~: the compiler and the matcher,      *)
(* which walks every way to match from one start and keeps the longest, under *)
(* a budget of steps for the whole search and a bound on how deeply it nests. *)
(* A pattern is a sequence of units, which are characters with the quote bit  *)
(* they carry out of expansion.  Positions count from 1; Absent is None.      *)
(* The class [:b:] has the one member b; collating elements and case folding  *)
(* belong to the locale and are left out.                                     *)
EXTENDS Integers, Sequences, SequencesExt

CONSTANTS
    Regexes,        \* the patterns tried
    Subjects,       \* the texts searched
    StepBudgets,    \* STEP_BUDGET, and smaller ones that run out
    MaxNesting,     \* MAX_DEPTH
    MaxRepeat,      \* MAX_REPEAT
    MaxGroupDepth   \* MAX_GROUP_DEPTH

ASSUME RegexAssumption ==
    Regexes # {} /\ Subjects # {} /\ StepBudgets \subseteq Nat /\ {MaxNesting, MaxRepeat, MaxGroupDepth} \subseteq Nat

VARIABLES
    compiled,       \* the expression of the right operand of =~, or the error
    subject,        \* the left operand
    stepBudget,
    start,          \* the offset the next attempt begins at
    spent,          \* steps taken, and whether a bound has cut an attempt short
    captures        \* the groups of the match, <<>> when there is none, "pending" in kind while searching
rvars == <<compiled, subject, stepBudget, start, spent, captures>>

PlainUnit(c) == [c |-> c, quoted |-> FALSE]
QuotedUnit(c) == [c |-> c, quoted |-> TRUE]
Here(p, i, c) == i <= Len(p) /\ p[i].c = c /\ ~p[i].quoted
Digit(p, i) == i <= Len(p) /\ ~p[i].quoted /\ p[i].c \in {"0", "1", "2", "9"}
DigitValue(c) == CASE c = "0" -> 0 [] c = "1" -> 1 [] c = "2" -> 2 [] c = "9" -> 9
Absent == -1
-----------------------------------------------------------------------------
(* compile: [err, e, at, n], the expression, where it ends and the groups so far. *)

Compiled(e, at, n) == [err |-> FALSE, e |-> e, at |-> at, n |-> n]
Malformed == [err |-> TRUE, e |-> <<"empty">>, at |-> 0, n |-> 0]

RECURSIVE DigitRun(_, _, _)
DigitRun(p, i, v) == IF Digit(p, i) THEN DigitRun(p, i + 1, 10 * v + DigitValue(p[i].c)) ELSE [at |-> i, v |-> v]
\* {n}, {n,} and {n,m}.
Counts(p, min, max, end) ==
    [bad |-> ~Here(p, end, "}") \/ min > MaxRepeat \/ max > MaxRepeat \/ (max # Absent /\ max < min),
     min |-> min, max |-> max, at |-> end + 1]
UpTo(p, low, high) == Counts(p, low.v, IF high.at = low.at + 1 THEN Absent ELSE high.v, high.at)
IntervalFrom(p, low) ==
    IF Here(p, low.at, ",") THEN UpTo(p, low, DigitRun(p, low.at + 1, 0)) ELSE Counts(p, low.v, low.v, low.at)
Interval(p, at) ==
    IF Digit(p, at + 1) THEN IntervalFrom(p, DigitRun(p, at + 1, 0)) ELSE [bad |-> TRUE, min |-> 0, max |-> 0, at |-> at]
Quantifier(p, at) ==
    CASE Here(p, at, "*") -> [bad |-> FALSE, min |-> 0, max |-> Absent, at |-> at + 1]
      [] Here(p, at, "+") -> [bad |-> FALSE, min |-> 1, max |-> Absent, at |-> at + 1]
      [] Here(p, at, "?") -> [bad |-> FALSE, min |-> 0, max |-> 1, at |-> at + 1]
      [] Here(p, at, "{") -> Interval(p, at)
RECURSIVE Quantified(_, _)
RepeatedAs(p, r, q) ==
    IF q.bad \/ r.e[1] \in {"start", "end"} THEN Malformed
    ELSE Quantified(p, Compiled(<<"repeat", r.e, q.min, q.max>>, q.at, r.n))
Quantified(p, r) ==
    IF r.err \/ ~\E c \in {"*", "+", "?", "{"} : Here(p, r.at, c) THEN r ELSE RepeatedAs(p, r, Quantifier(p, r.at))

\* A bracket expression, inside which quoting counts for nothing.
Is(p, i, c) == i <= Len(p) /\ p[i].c = c
ClassEnd(p, i) ==
    LET ends == {k \in i + 3..Len(p) - 1 : Is(p, k, ":") /\ Is(p, k + 1, "]")}
    IN  IF Is(p, i, "[") /\ Is(p, i + 1, ":") /\ ends # {} THEN CHOOSE k \in ends : \A j \in ends : k <= j ELSE 0
RECURSIVE BracketFrom(_, _, _, _, _, _)
Member(p, i) == \* bracket_member: the member that begins at i, and where the next one does
    CASE ClassEnd(p, i) # 0 -> <<<<"class", p[i + 2].c>>, ClassEnd(p, i) + 2>>
      [] Is(p, i + 1, "-") /\ i + 2 <= Len(p) /\ ~Is(p, i + 2, "]") -> <<<<"range", p[i].c, p[i + 2].c>>, i + 3>>
      [] OTHER -> <<<<"character", p[i].c>>, i + 1>>
BracketFrom(p, i, first, negated, members, n) ==
    CASE i > Len(p) -> Malformed
      [] Is(p, i, "]") /\ ~first -> Compiled(<<"bracket", negated, members>>, i + 1, n)
      [] OTHER -> BracketFrom(p, Member(p, i)[2], FALSE, negated, members \cup {Member(p, i)[1]}, n)
Bracket(p, at, n) ==
    BracketFrom(p, IF Is(p, at + 1, "^") THEN at + 2 ELSE at + 1, TRUE, Is(p, at + 1, "^"), {}, n)

RECURSIVE Alternation(_, _, _, _)
GroupClosed(p, r, index) ==
    IF r.err \/ ~Here(p, r.at, ")") THEN Malformed ELSE Compiled(<<"group", index, r.e>>, r.at + 1, r.n)
Atom(p, at, n, depth) ==
    CASE Here(p, at, "(") -> IF depth >= MaxGroupDepth THEN Malformed
                             ELSE GroupClosed(p, Alternation(p, at + 1, n + 1, depth + 1), n + 1)
      [] Here(p, at, "[") -> Bracket(p, at, n)
      [] Here(p, at, "^") -> Compiled(<<"start">>, at + 1, n)
      [] Here(p, at, "$") -> Compiled(<<"end">>, at + 1, n)
      [] Here(p, at, ".") -> Compiled(<<"any">>, at + 1, n)
      [] \E c \in {"*", "+", "?", "{"} : Here(p, at, c) -> Malformed
      [] OTHER -> Compiled(<<"literal", p[at].c>>, at + 1, n)
InSequence(pieces) == IF pieces = <<>> THEN <<"empty">> ELSE IF Len(pieces) = 1 THEN pieces[1] ELSE <<"sequence", pieces>>
RECURSIVE Pieces(_, _, _, _)
Pieces(p, r, depth, pieces) == \* sequence
    IF r.err THEN r
    ELSE IF r.at > Len(p) \/ Here(p, r.at, "|") \/ Here(p, r.at, ")") THEN [r EXCEPT !.e = InSequence(Append(pieces, r.e))]
    ELSE Pieces(p, Quantified(p, Atom(p, r.at, r.n, depth)), depth, Append(pieces, r.e))
RegexSequence(p, at, n, depth) ==
    IF at > Len(p) \/ Here(p, at, "|") \/ Here(p, at, ")") THEN Compiled(<<"empty">>, at, n)
    ELSE Pieces(p, Quantified(p, Atom(p, at, n, depth)), depth, <<>>)
RECURSIVE AlternatesFrom(_, _, _, _)
AlternatesFrom(p, r, depth, done) ==
    IF r.err THEN r
    ELSE IF Here(p, r.at, "|") THEN AlternatesFrom(p, RegexSequence(p, r.at + 1, r.n, depth), depth, Append(done, r.e))
    ELSE [r EXCEPT !.e = IF done = <<>> THEN r.e ELSE <<"alternation", Append(done, r.e)>>]
Alternation(p, at, n, depth) == AlternatesFrom(p, RegexSequence(p, at, n, depth), depth, <<>>)

Compile(p) == LET r == Alternation(p, 1, 0, 0) IN IF r.err \/ r.at # Len(p) + 1 THEN Malformed ELSE r
-----------------------------------------------------------------------------
(* The matcher.  st is what it carries along: groups, steps, the longest match so far.  Every continuation answers *)
(* false, so that all ways are walked; k is the continuation, a sequence of what is still to be matched.            *)

Order(c) == CASE c = "a" -> 1 [] c = "b" -> 2 [] c = "c" -> 3 [] OTHER -> 9
MemberMatches(m, c) ==
    CASE m[1] = "character" -> m[2] = c
      [] m[1] = "range" -> Order(m[2]) <= Order(c) /\ Order(c) <= Order(m[3])
      [] m[1] = "class" -> m[2] = c
Single(e, s, i) ==
    /\ i <= Len(s)
    /\ CASE e[1] = "any" -> TRUE
         [] e[1] = "literal" -> s[i] = e[2]
         [] e[1] = "bracket" -> (\E m \in e[3] : MemberMatches(m, s[i])) # e[2]
         [] OTHER -> FALSE
Simple(e) == e[1] \in {"any", "literal", "bracket"}

Restored(groups, index, old) == [groups EXCEPT ![index] = old]
Undone(st, index, old) == [st EXCEPT !.groups = Restored(@, index, old)]

RECURSIVE Matches(_, _, _, _, _, _), Continue(_, _, _, _, _), Repetitions(_, _, _, _, _, _), Ways(_, _, _, _)
\* repeat_single: the longest run first.  The run is as long as the text and max allow.
RunLength(e, s, i, max) ==
    CHOOSE n \in 0..Len(s) + 1 - i :
        /\ \A j \in 0..n - 1 : Single(e, s, i + j)
        /\ n = max \/ ~Single(e, s, i + n)
Again(e, count, i, strict, k) == <<<<"again", e, count + 1, i, strict>>>> \o k
RepeatAtom(e, count, i, s, k, st, depth) ==
    CASE count = 0 /\ Simple(e[2]) -> Repetitions(i + RunLength(e[2], s, i, e[4]), i + e[3], s, k, st, depth)
      [] count < e[3] -> Matches(e[2], i, s, Again(e, count, i, FALSE, k), st, depth)
      [] count = e[4] -> Continue(k, i, s, st, depth)
      [] OTHER -> Continue(k, i, s, Matches(e[2], i, s, Again(e, count, i, TRUE, k), st, depth), depth)
Repetitions(to, least, s, k, st, depth) ==
    IF to < least THEN st ELSE Repetitions(to - 1, least, s, k, Continue(k, to, s, st, depth), depth)
Passes(e, s, i) ==
    CASE Simple(e) -> Single(e, s, i)
      [] e[1] = "start" -> i = 1
      [] e[1] = "end" -> i = Len(s) + 1
      [] OTHER -> TRUE
Explore(e, i, s, k, st, depth) ==
    CASE e[1] = "alternation" -> FoldLeft(LAMBDA acc, branch : Matches(branch, i, s, k, acc, depth), st, e[2])
      [] e[1] = "repeat" -> Continue(<<<<"again", e, 0, i, FALSE>>>> \o k, i, s, st, depth)
      [] e[1] = "group" -> Undone(Matches(e[3], i, s, <<<<"close", e[2], i>>>> \o k, st, depth), e[2], st.groups[e[2]])
      [] OTHER -> IF ~Passes(e, s, i) THEN st
                  ELSE Continue(IF e[1] = "sequence" THEN <<<<"parts", e[2]>>>> \o k ELSE k,
                                IF Simple(e) THEN i + 1 ELSE i, s, st, depth)
Matches(e, i, s, k, st, depth) ==
    IF st.steps + 1 > stepBudget \/ depth >= MaxNesting THEN [st EXCEPT !.steps = @ + 1, !.cut = TRUE]
    ELSE Explore(e, i, s, k, [st EXCEPT !.steps = @ + 1], depth + 1)
Longer(st, i) == IF st.found = <<>> \/ i > st.end THEN [st EXCEPT !.found = <<st.groups>>, !.end = i] ELSE st
ResumeMatch(f, k, i, s, st, depth) ==
    CASE f[1] = "parts" ->
           IF f[2] = <<>> THEN Continue(k, i, s, st, depth)
           ELSE Matches(Head(f[2]), i, s, <<<<"parts", Tail(f[2])>>>> \o k, st, depth)
      [] f[1] = "close" -> Undone(Continue(k, i, s, [st EXCEPT !.groups[f[2]] = <<f[3], i>>], depth), f[2], st.groups[f[2]])
      [] f[1] = "again" -> IF f[5] /\ i = f[4] THEN st ELSE RepeatAtom(f[2], f[3], i, s, k, st, depth)
Continue(k, i, s, st, depth) == IF k = <<>> THEN Longer(st, i) ELSE ResumeMatch(Head(k), Tail(k), i, s, st, depth)

NoGroups(n) == [g \in 1..n |-> <<>>]
MatchAt(i) ==
    Matches(compiled.e, i, subject, <<>>,
            [groups |-> NoGroups(compiled.n), steps |-> spent.steps, cut |-> spent.cut, found |-> <<>>, end |-> 0], 0)
-----------------------------------------------------------------------------
Searching == captures.state = "searching"
BeginSearching(ps, ss, budgets) ==
    /\ \E p \in ps : compiled = Compile(p)
    /\ subject \in ss /\ stepBudget \in budgets
    /\ start = 1 /\ spent = [steps |-> 0, cut |-> FALSE]
    /\ captures = [state |-> IF compiled.err THEN "invalid" ELSE "searching", groups |-> <<>>, span |-> <<>>]
RInit == BeginSearching(Regexes, Subjects, StepBudgets)
\* One attempt of search's loop, and what it makes of the answer.
Attempted(st) ==
    /\ spent' = [steps |-> st.steps, cut |-> st.cut]
    /\ IF st.found # <<>>
       THEN captures' = [state |-> "matched", groups |-> st.found[1], span |-> <<start, st.end>>] /\ UNCHANGED start
       ELSE IF start = Len(subject) + 1 THEN captures' = [captures EXCEPT !.state = "failed"] /\ UNCHANGED start
       ELSE start' = start + 1 /\ UNCHANGED captures
Attempt ==
    /\ Searching
    /\ Attempted(MatchAt(start))
    /\ UNCHANGED <<compiled, subject, stepBudget>>
RNext == Attempt
-----------------------------------------------------------------------------
\* Reference: all ways to match e from i with the groups g, as a set, without budget, order or continuation.
RECURSIVE AllRepeats(_, _, _, _)
AllRepeats(e, s, from, count) ==
    LET more == UNION {Ways(e[2], s, w.at, w.groups) : w \in from}
        last == IF e[4] = Absent THEN e[3] + Len(s) ELSE e[4]
    IN  (IF count >= e[3] THEN from ELSE {}) \cup (IF count >= last THEN {} ELSE AllRepeats(e, s, more, count + 1))
Way(i, g) == [at |-> i, groups |-> g]
Ways(e, s, i, g) ==
    CASE e[1] = "empty" -> {Way(i, g)}
      [] Simple(e) -> IF Single(e, s, i) THEN {Way(i + 1, g)} ELSE {}
      [] e[1] = "start" -> IF i = 1 THEN {Way(i, g)} ELSE {}
      [] e[1] = "end" -> IF i = Len(s) + 1 THEN {Way(i, g)} ELSE {}
      [] e[1] = "sequence" -> FoldLeft(LAMBDA ws, part : UNION {Ways(part, s, w.at, w.groups) : w \in ws}, {Way(i, g)}, e[2])
      [] e[1] = "alternation" -> UNION {Ways(e[2][b], s, i, g) : b \in DOMAIN e[2]}
      [] e[1] = "repeat" -> AllRepeats(e, s, {Way(i, g)}, 0)
      [] e[1] = "group" -> {Way(w.at, [w.groups EXCEPT ![e[2]] = <<i, w.at>>]) : w \in Ways(e[3], s, i, g)}
WaysFrom(i) == Ways(compiled.e, subject, i, NoGroups(compiled.n))

\* =~ finds the leftmost match and the longest there, and its groups are those of one way to match; a search that
\* a bound cut short may miss, or find less, but what it reports is a way to match all the same (regex.rs).
SearchIsExact ==
    CASE captures.state = "matched" ->
           /\ \E w \in WaysFrom(start) : w = Way(captures.span[2], captures.groups)
           /\ spent.cut \/ ( /\ \A w \in WaysFrom(start) : w.at <= captures.span[2]
                             /\ \A i \in 1..start - 1 : WaysFrom(i) = {} )
      [] captures.state = "failed" -> spent.cut \/ \A i \in 1..Len(subject) + 1 : WaysFrom(i) = {}
      [] OTHER -> TRUE
=============================================================================
