------------------------------ MODULE Patterns ------------------------------
(* Pattern matching as ${x%p}, ${x#p} and ${x/p/r} use it: one Trial of a     *)
(* pattern over a text answers a question per offset (matches_from,           *)
(* ends_from, furthest_end) and keeps a memo between the questions.  A walk   *)
(* of an extended pattern has a budget, and what a question that ran out      *)
(* wrote into the memo is thrown away.                                        *)
(*                                                                            *)
(* A text is a sequence of characters and positions are offsets plus one, so  *)
(* Len(text) + 1 is its end and 0 stands for None.  A quoted byte is a        *)
(* literal like any other.  Inside a bracket the member "ab" stands for the   *)
(* collating element [.ab.], the one member that is wider than a character.   *)
EXTENDS FiniteSetsExt, Naturals, Sequences, SequencesExt, TLC

CONSTANTS
    Globs,          \* the patterns tried: sequences of pattern characters
    Texts,          \* the texts they are put to
    Budgets         \* EXTENDED_MATCH_BUDGET, and smaller ones that run out

ASSUME PatternsAssumption == Globs # {} /\ Texts # {} /\ Budgets \subseteq Nat \ {0}

SuffixOps  == {"%", "%%", "/%"}
PrefixOps  == {"#", "##"}
ReplaceOps == {"/", "//", "/#"}

VARIABLES
    glob, text,     \* the pattern and the value
    op,             \* the parameter operation
    budget,         \* what one question may cost
    at,             \* the offset the next question is about
    memo,           \* Trial.memo, or Trial.spans for a substitution
    out,            \* the spans <<from, to>> of the text that are cut or replaced
    asked,          \* the last question, its answer and whether it ran out of budget
    ranOut,         \* some question did
    over            \* the operation has returned

pvars == <<glob, text, op, budget, at, memo, out, asked, ranOut, over>>

Fresh == [reaches |-> [k \in {} |-> 0], groups |-> [k \in {} |-> <<>>]]
End == Len(text) + 1
Later(a, b) == IF a < b THEN b ELSE a

-----------------------------------------------------------------------------
(* The shape of a pattern *)

active(p, i, c) == i <= Len(p) /\ p[i] = c

\* How many groups opened behind i and before k are still open at k.
Depth(p, i, k) == Cardinality({j \in i..k : p[j] = "("}) - Cardinality({j \in i..k : p[j] = ")"})

NoGroup == [kind |-> "none", alternatives |-> <<>>, next |-> 0]

\* extended_group: ?(..) *(..) +(..) @(..) !(..) at i, with its closing parenthesis.
extended_group(p, i) ==
    LET closes == {k \in i + 2..Len(p) : p[k] = ")" /\ Cardinality({j \in i + 2..k : p[j] = ")"})
                                            > Cardinality({j \in i + 2..k : p[j] = "("})}
        close  == Min(closes)
        bars   == {k \in i + 2..close - 1 : p[k] = "|" /\ Depth(p, i + 2, k) = 0}
        cuts   == SetToSortSeq(bars \cup {i + 1, close}, <)
    IN  IF ~(i <= Len(p) /\ p[i] \in {"?", "*", "+", "@", "!"} /\ active(p, i + 1, "(") /\ closes # {})
        THEN NoGroup
        ELSE [kind |-> p[i], next |-> close + 1,
              alternatives |-> [n \in 1..Len(cuts) - 1 |-> SubSeq(p, cuts[n] + 1, cuts[n + 1] - 1)]]

\* bracket: the expression opened at i, and the widths of the text it takes at s.
MemberWidth(member) == IF member = "ab" THEN 2 ELSE 1
Takes(member, s) ==
    IF member = "ab" THEN s + 1 < End /\ text[s] = "a" /\ text[s + 1] = "b"
                     ELSE s < End /\ text[s] = member
bracket(p, i, s) ==
    LET inverted == active(p, i + 1, "!")
        first  == IF inverted THEN i + 2 ELSE i + 1
        closes == {k \in first + 1..Len(p) : p[k] = "]"}
        close  == Min(closes)
        widths == {MemberWidth(p[k]) : k \in {k \in first..close - 1 : Takes(p[k], s)}}
        order  == SetToSortSeq(widths, LAMBDA v, w :      \* in the order of the members
                     Min({k \in first..close - 1 : Takes(p[k], s) /\ MemberWidth(p[k]) = v})
                   < Min({k \in first..close - 1 : Takes(p[k], s) /\ MemberWidth(p[k]) = w}))
    IN  IF closes = {} THEN [next |-> 0, widths |-> <<>>]
        ELSE [next |-> close + 1,
              widths |-> IF ~inverted THEN order
                         ELSE IF s < End /\ 1 \notin widths THEN <<1>> ELSE <<>>]

-----------------------------------------------------------------------------
(* The walk: a matcher w carries its memo, the budget it shares, its goal and *)
(* the ends it has collected; every operator returns the matcher after it and *)
(* how far it reached.                                                       *)

Reached(w, r) == [w |-> w, reach |-> r]

\* Only a yes-or-no question ends with its first reach.
settles(w, r) == r # 0 /\ w.goal = "whole"

ran_out(w, s) ==
    CASE w.goal = "whole"    -> Reached(w, IF s = End THEN s ELSE 0)
      [] w.goal = "furthest" -> Reached(w, s)
      [] w.goal = "every"    -> Reached([w EXCEPT !.ends = @ \cup {s}], 0)

RECURSIVE reach_from(_, _, _, _), reach_uncached(_, _, _, _, _), reach_star(_, _, _, _, _, _),
          best_reach(_, _, _, _, _), ends_within(_, _, _), reach_group(_, _, _, _, _),
          Repeat(_, _, _, _, _, _)

\* A state answers once; a new one costs one of the budget.
Remembered(x, i, s) == Reached([x.w EXCEPT !.reaches = (<<i, s>> :> x.reach) @@ @], x.reach)
reach_from(p, w, i, s) ==
    IF <<i, s>> \in DOMAIN w.reaches THEN Reached(w, w.reaches[<<i, s>>])
    ELSE IF w.budget = 0 THEN Reached(w, 0)
    ELSE Remembered(reach_uncached(p, [w EXCEPT !.budget = @ - 1], i, s, 0), i, s)

\* aside is the furthest reach of the widths of a bracket that were tried already.
FurthestOf(x, aside) == Reached(x.w, Later(x.reach, aside))
BehindStars(p, i) == Min({k \in i..Len(p) + 1 : ~active(p, k, "*")})
LastWidth(others, p, br, s, aside) ==
    IF settles(others.w, others.reach) THEN others
    ELSE reach_uncached(p, others.w, br.next, s + Head(br.widths), Later(aside, others.reach))
ReachBracket(p, w, br, s, aside) ==
    IF br.widths = <<>> THEN Reached(w, aside)
    ELSE LastWidth(best_reach(p, w, br.next, [n \in 1..Len(br.widths) - 1 |-> s + br.widths[n + 1]], 0), p, br, s, aside)
ReachStars(p, w, i, after, s) ==
    IF after > Len(p) /\ w.goal # "every" THEN Reached(w, End) ELSE reach_star(p, w, i, after, s, <<>>)
ReachUnit(p, w, i, s, aside, group, br) ==
    CASE i > Len(p) -> FurthestOf(ran_out(w, s), aside)
      [] i <= Len(p) /\ group # NoGroup -> FurthestOf(reach_group(p, w, i, group, s), aside)
      [] active(p, i, "*") /\ group = NoGroup -> FurthestOf(ReachStars(p, w, i, BehindStars(p, i), s), aside)
      [] active(p, i, "[") /\ br.next # 0 -> ReachBracket(p, w, br, s, aside)
      [] OTHER -> IF s = End \/ (p[i] # text[s] /\ ~active(p, i, "?")) THEN Reached(w, aside)
                  ELSE reach_uncached(p, w, i + 1, s + 1, aside)
reach_uncached(p, w, i, s, aside) == ReachUnit(p, w, i, s, aside, extended_group(p, i), bracket(p, i, s))

\* The stars at i, tried from s on; what each later start can reach bounds the earlier ones.
Wound(v, best, i, steps) ==
    LET reach(n) == Max({best} \cup {steps[k][2] : k \in n..Len(steps)})
        known == [key \in {<<i, steps[n][1]>> : n \in DOMAIN steps} |->
                    reach(CHOOSE n \in DOMAIN steps : steps[n][1] = key[2])]
    IN  Reached(IF v.budget > 0 THEN [v EXCEPT !.reaches = known @@ @] ELSE v, reach(1))
StarFrom(x, p, i, after, s, stepped) ==
    IF settles(x.w, x.reach) THEN Wound(x.w, x.reach, i, stepped)
    ELSE IF s = End THEN Wound(x.w, 0, i, Append(stepped, <<s, x.reach>>))
    ELSE reach_star(p, x.w, i, after, s + 1, Append(stepped, <<s, x.reach>>))
reach_star(p, w, i, after, s, stepped) ==
    IF <<i, s>> \in DOMAIN w.reaches THEN Wound(w, w.reaches[<<i, s>>], i, stepped)
    ELSE StarFrom(reach_from(p, w, after, s), p, i, after, s, stepped)

\* The rest of the pattern from each of the ends in turn.
BestOf(x, p, next, ends, best) ==
    IF settles(x.w, x.reach) THEN x ELSE best_reach(p, x.w, next, ends, Later(best, x.reach))
best_reach(p, w, next, ends, best) ==
    IF ends = <<>> THEN Reached(w, best) ELSE BestOf(reach_from(p, w, next, Head(ends)), p, next, Tail(ends), best)

Matcher(known, left, goal) ==
    [reaches |-> known.reaches, groups |-> known.groups, budget |-> left, goal |-> goal, ends |-> {}]

\* The ends of the alternatives from s, each walked by a matcher with a memo of its own.
EndsWith(x, alternatives, w, s) ==
    ends_within(alternatives, [w EXCEPT !.budget = x.budget, !.ends = @ \cup x.ends], s)
ends_within(alternatives, w, s) ==
    IF alternatives = <<>> THEN w
    ELSE EndsWith(reach_from(Head(alternatives), Matcher(Fresh, w.budget, "every"), 1, s).w, Tail(alternatives), w, s)

\* alternative_ends: asked once for each group and offset.
Entered(w, i, s, budgetLeft, ends) ==
    [w |-> [w EXCEPT !.budget = budgetLeft, !.groups = (<<i, s>> :> ends) @@ @], ends |-> ends]
AskedEnds(x, w, i, s) == Entered(w, i, s, x.budget, SetToSortSeq(x.ends, <))
alternative_ends(w, i, g, s) ==
    IF <<i, s>> \in DOMAIN w.groups THEN [w |-> w, ends |-> w.groups[<<i, s>>]]
    ELSE AskedEnds(ends_within(g.alternatives, [w EXCEPT !.ends = {}], s), w, i, s)

\* reach_group_repeated: pending is a stack, and every end is entered once.
Repeated(x, i, g, s, e, pending, ends) ==
    LET seen  == ToSet(pending) \cup ToSet(ends) \cup {e}
        fresh == SelectSeq(x.ends, LAMBDA k : k > e /\ k \notin seen)
    IN  Repeat(x.w, i, g, s, pending \o fresh, Append(ends, e))
Repeat(w, i, g, s, pending, ends) ==
    IF pending = <<>> THEN [w |-> w, ends |-> ends]
    ELSE IF Last(pending) <= s THEN Repeat(w, i, g, s, Front(pending), Append(ends, Last(pending)))
    ELSE Repeated(alternative_ends(w, i, g, Last(pending)), i, g, s, Last(pending), Front(pending), ends)

\* What a group ends at: x once, or none of it (?), or none of these ends (!), or repeated.
WithNone(ends, s) == IF s \in ToSet(ends) THEN ends ELSE Append(ends, s)
Outside(ends, s) == SelectSeq([n \in 1..End - s + 1 |-> s + n - 1], LAMBDA k : k \notin ToSet(ends))
GroupEnds(x, i, g, s) ==
    CASE g.kind = "!" -> [x EXCEPT !.ends = Outside(@, s)]
      [] g.kind = "?" -> [x EXCEPT !.ends = WithNone(@, s)]
      [] g.kind = "@" -> x
      [] g.kind \in {"*", "+"} -> Repeat(x.w, i, g, s, x.ends, <<>>)
RestOfGroup(y, p, g, s) == best_reach(p, y.w, g.next, IF g.kind = "*" THEN WithNone(y.ends, s) ELSE y.ends, 0)
reach_group(p, w, i, g, s) == RestOfGroup(GroupEnds(alternative_ends(w, i, g, s), i, g, s), p, g, s)

\* Trial::ask
ask(known, from, goal) == reach_from(glob, Matcher(known, budget, goal), 1, from)

\* Mutant: the memo of a question that ran out is kept.
KeepAll(w) == [reaches |-> w.reaches, groups |-> w.groups]

\* What the next question may read.
Kept(w) == IF w.budget > 0 THEN [reaches |-> w.reaches, groups |-> w.groups] ELSE Fresh

-----------------------------------------------------------------------------
(* The operations *)

NoQuestion == [goal |-> "none", from |-> 0, reach |-> 0, ends |-> {}, ranOut |-> FALSE]

BeginMatching(globs, texts, ops, budgets) ==
    /\ glob \in globs /\ text \in texts /\ budget \in budgets /\ op \in ops
    /\ at = IF op = "%" THEN End ELSE 1
    /\ memo = Fresh /\ out = <<>> /\ asked = NoQuestion /\ ranOut = FALSE /\ over = FALSE
PInit == BeginMatching(Globs, Texts, SuffixOps \cup PrefixOps \cup ReplaceOps, Budgets)

Asked(from, x) ==
    /\ asked' = [goal |-> x.w.goal, from |-> from, reach |-> x.reach, ends |-> x.w.ends, ranOut |-> x.w.budget = 0]
    /\ ranOut' = (ranOut \/ x.w.budget = 0)
Given == <<glob, text, op, budget>>

\* trim of a suffix, and a substitution anchored at the end: the first offset that matches.
FindSuffix ==
    /\ ~over /\ op \in SuffixOps
    /\ LET x == ask(memo, at, "whole") IN
          /\ Asked(at, x) /\ memo' = Kept(x.w)
          /\ out' = IF x.reach # 0 THEN <<<<at, End>>>> ELSE <<>>
          /\ over' = (x.reach # 0 \/ at = IF op = "%" THEN 1 ELSE End)
    /\ at' = IF over' THEN at ELSE IF op = "%" THEN at - 1 ELSE at + 1
    /\ UNCHANGED Given

\* trim of a prefix: one question for every end.
CutPrefix ==
    /\ ~over /\ op \in PrefixOps
    /\ LET x == ask(Fresh, 1, "every") IN
          /\ Asked(1, x)
          /\ out' = IF x.w.ends = {} THEN <<>> ELSE <<<<1, IF op = "#" THEN Min(x.w.ends) ELSE Max(x.w.ends)>>>>
    /\ over' = TRUE
    /\ UNCHANGED <<Given, at, memo>>

\* Mutant: the search goes on one character behind the start of a match.
ResumeInside(reach) == at + 1

\* Where replace asks next: an empty match replaces nothing and is stepped over.
Resume(reach) == IF reach > at THEN reach ELSE at + 1

\* replace: the furthest end from each offset, and on from there.
Replace ==
    /\ ~over /\ op \in ReplaceOps
    /\ IF at = End THEN over' = TRUE /\ UNCHANGED <<at, memo, out, asked, ranOut>>
       ELSE IF op # "//" /\ out # <<>> THEN at' = at + 1 /\ UNCHANGED <<memo, out, asked, ranOut, over>>
       ELSE LET x == ask(memo, at, "furthest") IN
          /\ Asked(at, x) /\ memo' = Kept(x.w)
          /\ out' = IF x.reach > at THEN Append(out, <<at, x.reach>>) ELSE out
          /\ at' = Resume(x.reach)
          /\ over' = (op = "/#")
    /\ UNCHANGED Given

PNext == FindSuffix \/ CutPrefix \/ Replace
PSpec == PInit /\ [][PNext]_pvars

-----------------------------------------------------------------------------
(* What a pattern means: the ends of what it matches from s. *)

RECURSIVE Ends(_, _), Closure(_, _)
\* Everything repetitions of the alternatives can reach from the ends already reached.
Closure(alternatives, reached) ==
    LET more == UNION {UNION {Ends(alternatives[n], s) : n \in DOMAIN alternatives} : s \in reached}
    IN  IF more \subseteq reached THEN reached ELSE Closure(alternatives, reached \cup more)
Ends(p, s) ==
    LET g     == extended_group(p, 1)
        once  == UNION {Ends(g.alternatives[n], s) : n \in DOMAIN g.alternatives}
        taken == CASE g.kind = "!" -> (s..End) \ once
                   [] g.kind = "?" -> once \cup {s}
                   [] g.kind = "@" -> once
                   [] g.kind = "*" -> Closure(g.alternatives, {s})
                   [] g.kind = "+" -> Closure(g.alternatives, once)
        br    == bracket(p, 1, s)
        then(next, from) == UNION {Ends(SubSeq(p, next, Len(p)), k) : k \in from}
    IN  IF p = <<>> THEN {s}
        ELSE IF g # NoGroup THEN then(g.next, taken)
        ELSE IF Head(p) = "*" THEN then(2, s..End)
        ELSE IF Head(p) = "?" THEN then(2, {s + 1} \cap 1..End)
        ELSE IF Head(p) = "[" /\ br.next # 0 THEN then(br.next, {s + br.widths[n] : n \in DOMAIN br.widths})
        ELSE IF s < End /\ Head(p) = text[s] THEN then(2, {s + 1}) ELSE {}

SuffixStarts == {s \in 1..End : End \in Ends(glob, s)}
Starts == {s \in 1..End - 1 : \E e \in Ends(glob, s) : e > s}
Covered == UNION {out[n][1]..out[n][2] - 1 : n \in DOMAIN out}

\* Whatever earlier questions left in the memo, a question that did not run out of budget has the
\* answer the pattern's meaning gives, and one that did run out may miss a match and never invents
\* one ("running out answers no match").
AnswerIsExact ==
    LET ends == Ends(glob, asked.from) IN
    /\ asked.goal = "whole" => (asked.reach # 0 => End \in ends) /\ (~asked.ranOut => (asked.reach # 0) = (End \in ends))
    /\ asked.goal = "every" => asked.ends \subseteq ends /\ (~asked.ranOut => asked.ends = ends)
    /\ asked.goal = "furthest" => asked.reach \in ends \cup {0} /\ (~asked.ranOut => asked.reach = Max(ends \cup {0}))

\* ${x%p} and ${x#p} cut the shortest match, ${x%%p} and ${x##p} the longest, and ${x//p/r} replaces
\* the longest match at every place that no earlier replacement covers.
OperationIsExact ==
    over /\ ~ranOut =>
      CASE op = "%" -> out = IF SuffixStarts = {} THEN <<>> ELSE <<<<Max(SuffixStarts), End>>>>
        [] op \in {"%%", "/%"} -> out = IF SuffixStarts = {} THEN <<>> ELSE <<<<Min(SuffixStarts), End>>>>
        [] op \in PrefixOps ->
             out = IF Ends(glob, 1) = {} THEN <<>>
                   ELSE <<<<1, IF op = "#" THEN Min(Ends(glob, 1)) ELSE Max(Ends(glob, 1))>>>>
        [] op \in ReplaceOps ->
             /\ \A n \in DOMAIN out : out[n][2] = Max(Ends(glob, out[n][1]))
             /\ \A n \in DOMAIN out : n > 1 => out[n - 1][2] <= out[n][1]
             /\ op = "//" => Starts \subseteq Covered
             /\ op = "/"  => IF Starts = {} THEN out = <<>> ELSE out # <<>> /\ out[1][1] = Min(Starts)
             /\ op = "/#" => (1 \in Starts) = (out # <<>>)
=============================================================================
