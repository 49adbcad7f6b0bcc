----------------------------- MODULE Expansions -----------------------------
(* What the Bash dialect writes with braces (expand/typed/brace.rs), and the   *)
(* operands of its parameter operators (expand/typed/bash.rs): where an        *)
(* operand divides, which characters or elements a slice takes, how a          *)
(* replacement is read, and what an operator does to a list of values.         *)
(* A word is a sequence of units: unquoted characters, or "Q" for one that is  *)
(* quoted or is an expansion.  What a pattern matches is in Patterns.          *)
EXTENDS Integers, Sequences, FiniteSets, SequencesExt

CONSTANTS
    BraceWords,         \* sets of words to expand
    WordLimit,          \* WORD_LIMIT
    DepthLimit,         \* DEPTH_LIMIT
    Slices,             \* sets of slices: [kind, elements, keys, offset, length]
    DividedOperands,    \* sets of operands: [left, right], written on the two sides of a colon
    Replacements,       \* sets of replacements: [units, runs], a text and the runs it was made of
    MappedValues,       \* sets of values to apply an operator to: [kind, words, full, quoted]
    MaxInteger          \* the largest number of the machine: 2^63 - 1

ASSUME ExpansionsAssumption ==
    WordLimit \in Nat /\ DepthLimit \in Nat /\ MaxInteger \in Nat \ {0}

VARIABLES operand,      \* what is expanded
          produced      \* what it is expanded to
xvars == <<operand, produced>>

Magnitude(n) == IF n < 0 THEN -n ELSE n
Least(S) == CHOOSE i \in S : \A j \in S : i <= j
Wrapping(n) == ((n + MaxInteger + 1) % (2 * MaxInteger + 2)) - MaxInteger - 1

-----------------------------------------------------------------------------
(* Sequences: {first..last} and {first..last..step}.                          *)
Figures == <<"0", "1", "2", "3", "4", "5", "6", "7", "8", "9">>
\* Six neighbours of the ASCII table, two of which are not letters.
Table == <<"Y", "Z", "[", "bq", "a", "b">>
Letter == {"Y", "Z", "a", "b"}
PlaceIn(s, c) == CHOOSE i \in DOMAIN s : s[i] = c

\* parse_integer: a sign and figures that fit, or nothing.
Amount(digits) == FoldLeft(LAMBDA v, d : IF v < 0 \/ 10 * v + PlaceIn(Figures, d) - 1 > MaxInteger THEN -1
                                         ELSE 10 * v + PlaceIn(Figures, d) - 1, 0, digits)
Signed(sign, amount) == IF amount < 0 THEN <<>> ELSE <<IF sign = "-" THEN -amount ELSE amount>>
OfDigits(sign, digits) == IF digits = <<>> \/ ~(ToSet(digits) \subseteq ToSet(Figures)) THEN <<>> ELSE Signed(sign, Amount(digits))
Integer(t) == IF t = <<>> THEN <<>> ELSE IF t[1] \in {"-", "+"} THEN OfDigits(t[1], Tail(t)) ELSE OfDigits("+", t)

RECURSIVE Decimal(_)
Decimal(n) == IF n < 10 THEN <<Figures[n + 1]>> ELSE Append(Decimal(n \div 10), Figures[(n % 10) + 1])
Padded(t) == LET d == IF t[1] = "-" THEN Tail(t) ELSE t IN Len(d) > 1 /\ d[1] = "0"
PaddedWidth(first, last) ==
    IF ~(Padded(first) \/ Padded(last)) THEN 0 ELSE IF Len(first) > Len(last) THEN Len(first) ELSE Len(last)
Zeros(width, taken) == [i \in 1..(IF width > taken THEN width - taken ELSE 0) |-> "0"]
SignedAt(width, sign, digits) == sign \o Zeros(width, Len(sign) + Len(digits)) \o digits
Rendered(n, width) == SignedAt(width, IF n < 0 THEN <<"-">> ELSE <<>>, Decimal(Magnitude(n)))

\* A result of expanding: "words" with what is left of the budget, "none" where there is nothing to
\* expand, or the limit that was met.
Expands(words, left) == [kind |-> "words", words |-> words, left |-> left]
Nothing(left) == [kind |-> "none", words |-> <<>>, left |-> left]
RefusedFor(limit) == [kind |-> limit, words |-> <<>>, left |-> 0]
OverLimit(r) == r.kind \in {"too many", "too deep"}

Increment(step, start, end) ==
    LET size == IF step = 0 THEN 1 ELSE Magnitude(step) IN IF start <= end THEN size ELSE -size
Charged(start, span, stride, count, item(_), left) ==
    IF span > MaxInteger \/ span < -MaxInteger - 1 \/ count > left THEN RefusedFor("too many")
    ELSE Expands([k \in 1..count |-> item(start + (k - 1) * stride)], left - count)
InSteps(start, span, stride, item(_), left) ==
    Charged(start, span, stride, Magnitude(span) \div Magnitude(stride) + 1, item, left)
Counted(start, end, step, item(_), left) == InSteps(start, end - start, Increment(step, start, end), item, left)
RECURSIVE SplitAtDots(_, _)
SplitAtDots(t, at) ==
    IF at >= Len(t) THEN <<t>>
    ELSE IF t[at] = "." /\ t[at + 1] = "." THEN <<SubSeq(t, 1, at - 1)>> \o SplitAtDots(SubSeq(t, at + 2, Len(t)), 1)
    ELSE SplitAtDots(t, at + 1)
\* The numbers are as wide as the wider operand where one is padded; `first` and the others are numbers or nothing.
Enumerated(terms, first, last, step, left) ==
    CASE first # <<>> /\ last # <<>> /\ step # <<>> ->
           Counted(first[1], last[1], step[1], LAMBDA n : Rendered(n, PaddedWidth(terms[1], terms[2])), left)
      [] step # <<>> /\ ~(first # <<>> /\ last # <<>>) /\ Len(terms[1]) = 1 /\ Len(terms[2]) = 1
         /\ terms[1][1] \in Letter /\ terms[2][1] \in Letter ->
           Counted(PlaceIn(Table, terms[1][1]), PlaceIn(Table, terms[2][1]), step[1], LAMBDA n : <<Table[n]>>, left)
      [] OTHER -> Nothing(left)
OfTerms(terms, left) ==
    IF Len(terms) \notin 2..3 THEN Nothing(left)
    ELSE Enumerated(terms, Integer(terms[1]), Integer(terms[2]), IF Len(terms) = 3 THEN Integer(terms[3]) ELSE <<1>>, left)
Sequence(amble, left) == IF "Q" \in ToSet(amble) THEN Nothing(left) ELSE OfTerms(SplitAtDots(amble, 1), left)

-----------------------------------------------------------------------------
(* Braces.                                                                    *)
\* The brace that closes the one at `open`, 0 if none does.
RECURSIVE ClosingFrom(_, _, _)
ClosingFrom(u, at, depth) ==
    CASE at > Len(u) -> 0
      [] at <= Len(u) /\ u[at] = "}" /\ depth = 0 -> at
      [] OTHER -> ClosingFrom(u, at + 1, CASE u[at] = "{" -> depth + 1 [] u[at] = "}" -> depth - 1 [] OTHER -> depth)
ClosingBrace(u, open) == ClosingFrom(u, open + 1, 0)

\* Mutant: a comma inside a nested brace divides the outer one.
DividedAnywhere(amble) ==
    LET cuts == SelectSeq([i \in DOMAIN amble |-> i], LAMBDA i : amble[i] = ",")
        bounds == <<0>> \o cuts \o <<Len(amble) + 1>>
    IN  [k \in 1..Len(cuts) + 1 |-> SubSeq(amble, bounds[k] + 1, bounds[k + 1] - 1)]

\* The parts between the commas that are in no brace of their own.
Divided(amble) ==
    LET depth(i) == FoldLeft(LAMBDA d, c : CASE c = "{" -> d + 1 [] c = "}" -> (IF d = 0 THEN 0 ELSE d - 1) [] OTHER -> d,
                             0, SubSeq(amble, 1, i - 1))
        cuts == SelectSeq([i \in DOMAIN amble |-> i], LAMBDA i : amble[i] = "," /\ depth(i) = 0)
        bounds == <<0>> \o cuts \o <<Len(amble) + 1>>
    IN  [k \in 1..Len(cuts) + 1 |-> SubSeq(amble, bounds[k] + 1, bounds[k + 1] - 1)]

RECURSIVE ExpandUnits(_, _, _, _)
OrSelf(u, r) ==
    IF r.kind # "none" THEN r ELSE IF r.left = 0 THEN RefusedFor("too many") ELSE Expands(<<u>>, r.left - 1)
ExpandedOrSelf(u, left, depth) ==
    IF depth = 0 THEN RefusedFor("too deep") ELSE OrSelf(u, ExpandUnits(u, 1, left, depth - 1))
Extended(r, more) == IF OverLimit(more) THEN more ELSE Expands(r.words \o more.words, more.left)
CommaSeparated(parts, left, depth) ==
    IF Len(parts) = 1 THEN Nothing(left)
    ELSE FoldLeft(LAMBDA r, part : IF OverLimit(r) THEN r ELSE Extended(r, ExpandedOrSelf(part, r.left, depth)),
                  Expands(<<>>, left), parts)
\* Every alternative in front of every expansion of the rest of the word.
Crossed(front, inner, tails, count) ==
    CASE OverLimit(inner) -> inner
      [] OverLimit(tails) -> tails
      [] ~OverLimit(inner) /\ ~OverLimit(tails) ->
           IF count > tails.left THEN RefusedFor("too many")
           ELSE Expands([k \in 1..count |-> front \o inner.words[((k - 1) \div Len(tails.words)) + 1]
                                                 \o tails.words[((k - 1) % Len(tails.words)) + 1]], tails.left - count)
AgainstTails(front, inner, tails) == Crossed(front, inner, tails, Len(inner.words) * Len(tails.words))
OrCommas(counted, amble, left, depth) == IF counted.kind # "none" THEN counted ELSE CommaSeparated(Divided(amble), left, depth)
Alternatives(amble, left, depth) == OrCommas(Sequence(amble, left), amble, left, depth)
WithRest(u, open, close, inner, left, depth) ==
    IF inner.kind = "none" THEN ExpandUnits(u, open + 1, left, depth)
    ELSE AgainstTails(SubSeq(u, 1, open - 1), inner, ExpandedOrSelf(SubSeq(u, close + 1, Len(u)), inner.left, depth))
ExpandPair(u, open, close, left, depth) ==
    IF close = 0 THEN ExpandUnits(u, open + 1, left, depth)
    ELSE WithRest(u, open, close, Alternatives(SubSeq(u, open + 1, close - 1), left, depth), left, depth)
ExpandAt(u, opens, left, depth) ==
    IF opens = {} THEN Nothing(left) ELSE ExpandPair(u, Least(opens), ClosingBrace(u, Least(opens)), left, depth)
ExpandUnits(u, from, left, depth) == ExpandAt(u, {i \in from..Len(u) : u[i] = "{"}, left, depth)
Expanded(u) == ExpandUnits(u, 1, WordLimit, DepthLimit)

-----------------------------------------------------------------------------
(* Slices: ${name:offset:length}; a length is a sequence of at most one number. *)
Sliced(elements) == [kind |-> "words", words |-> elements]
NegativeLength == [kind |-> "error", words |-> <<>>]

\* slice_characters: a string; the sum of the start and the length wraps.
SliceCharacters(text, offset, length) ==
    LET count == Len(text)
        start == IF offset < 0 THEN count + offset ELSE offset
        sum == Wrapping(start + length[1])
        end == CASE length = <<>> -> count
                 [] length # <<>> /\ length[1] < 0 -> count + length[1]
                 [] length # <<>> /\ length[1] >= 0 -> IF sum < count THEN sum ELSE count
    IN  IF start < 0 \/ start > count THEN Sliced(<<>>)
        ELSE IF length # <<>> /\ length[1] < 0 /\ end < start THEN NegativeLength
        ELSE Sliced(SubSeq(text, start + 1, IF end > start THEN end ELSE start))

\* select: a list, or the elements of an indexed array by their subscripts.
Select(elements, keys, offset, length) ==
    LET total == Len(elements)
        bound == IF keys = <<>> THEN total ELSE Last(keys) + 1
        first == IF offset < 0 THEN bound + offset ELSE offset
        reached == {i \in DOMAIN keys : keys[i] >= first}
        start == IF keys # <<>> THEN IF reached = {} THEN total ELSE Least(reached) - 1
                 ELSE IF first < total THEN first ELSE total
    IN  IF offset < 0 /\ first < 0 THEN Sliced(<<>>)
        ELSE IF length # <<>> /\ length[1] < 0 THEN NegativeLength
        ELSE Sliced(SubSeq(elements, start + 1, IF length = <<>> \/ length[1] > total - start THEN total ELSE start + length[1]))

\* substring: the positional parameters are sliced with the name of the shell in front of them.
Substring(s) ==
    CASE s.kind = "text" -> SliceCharacters(s.elements, s.offset, s.length)
      [] s.kind = "array" -> Select(s.elements, s.keys, s.offset, s.length)
      [] s.kind = "positional" -> Select(<<"sh">> \o s.elements, <<>>, s.offset, s.length)

-----------------------------------------------------------------------------
(* Where an operand divides (scan_units): 0 where it does not.                *)
\* What the scan keeps: how deep it is, the conditionals that want their colon, and the division.
Scanned(u, separator, skipFirst, arithmetic) ==
    LET step(s, i) ==
            IF s.cut # 0 THEN s
            ELSE CASE arithmetic /\ u[i] \in {"(", "["} -> [s EXCEPT !.depth = @ + 1]
                   [] arithmetic /\ u[i] \in {")", "]"} -> [s EXCEPT !.depth = IF @ = 0 THEN 0 ELSE @ - 1]
                   [] arithmetic /\ u[i] = "?" -> [s EXCEPT !.conditionals = @ + 1]
                   [] u[i] = separator /\ s.depth = 0 /\ s.conditionals = 0 ->
                        [s EXCEPT !.cut = IF skipFirst /\ i = 1 THEN 0 ELSE i]
                   [] u[i] = separator /\ s.conditionals # 0 -> [s EXCEPT !.conditionals = @ - 1]
                   [] OTHER -> s
    IN  FoldLeft(step, [depth |-> 0, conditionals |-> 0, cut |-> 0], [i \in DOMAIN u |-> i]).cut

BoundaryAt(u) == Scanned(u, ":", FALSE, TRUE)
SeparatorAt(u) == Scanned(u, "/", TRUE, FALSE)

\* A replacement is runs of text with what was matched between them (Replacement::read, write).
\* A unit "q&" or "q\\" is quoted: the replacement's own backslashes have left these behind.
ByteOf(unit) == CASE unit = "q&" -> "&" [] unit = "q\\" -> "\\" [] OTHER -> unit
RECURSIVE Runs(_, _, _)
Runs(u, at, run) ==
    IF at > Len(u) THEN <<run>>
    ELSE IF u[at] = "\\" /\ at < Len(u) /\ u[at + 1] \in {"&", "\\"} THEN Runs(u, at + 2, Append(run, u[at + 1]))
    ELSE IF u[at] = "&" THEN <<run>> \o Runs(u, at + 1, <<>>)
    ELSE Runs(u, at + 1, Append(run, ByteOf(u[at])))
Written(runs, matched) ==
    FlattenSeq([k \in DOMAIN runs |-> IF k = 1 THEN runs[k] ELSE matched \o runs[k]])

\* The operand of / divided, with its anchor, its pattern and its replacement (substitute).
Substitution(u, all) ==
    LET cut == SeparatorAt(u)
        pattern == IF cut = 0 THEN u ELSE SubSeq(u, 1, cut - 1)
        anchor == IF all \/ pattern = <<>> \/ pattern[1] \notin {"#", "%"} THEN "none" ELSE pattern[1]
    IN  [anchor |-> anchor, pattern |-> IF anchor = "none" THEN pattern ELSE Tail(pattern),
         runs |-> Runs(IF cut = 0 THEN <<>> ELSE SubSeq(u, cut + 1, Len(u)), 1, <<>>)]
\* An empty pattern matches where it is anchored only.
WithEmptyPattern(s, text) ==
    (IF s.anchor = "#" THEN Written(s.runs, <<>>) ELSE <<>>) \o text
    \o (IF s.anchor = "%" THEN Written(s.runs, <<>>) ELSE <<>>)

-----------------------------------------------------------------------------
(* What an operator does to a value (map_value): it is applied to each word,  *)
(* before the words are joined.                                               *)
Lower == [c \in {"A", "B", "a", "b"} |-> CASE c = "A" -> "a" [] c = "B" -> "b" [] OTHER -> c]
Upper == [c \in {"A", "B", "a", "b"} |-> CASE c = "a" -> "A" [] c = "b" -> "B" [] OTHER -> c]
\* recase: the first character or every one, of those the pattern matches.
Recased(text, matching, upper, every) ==
    [i \in DOMAIN text |-> IF (every \/ i = 1) /\ text[i] \in matching
                           THEN IF upper THEN Upper[text[i]] ELSE Lower[text[i]] ELSE text[i]]
JoinedBy(words, c) == FlattenSeq([k \in DOMAIN words |-> IF k = 1 THEN words[k] ELSE <<c>> \o words[k]])
Mapped(value, op(_)) ==
    LET words == [k \in DOMAIN value.words |-> op(value.words[k])]
        list == value.full /\ (value.kind = "at" \/ (value.kind = "star" /\ ~value.quoted))
    IN  CASE value.kind \in {"at", "star"} -> IF list THEN words ELSE <<JoinedBy(words, "-")>>
          [] value.kind = "one" -> words
          [] value.kind = "unset" -> <<op(<<>>)>>

-----------------------------------------------------------------------------
(* One operand is expanded.                                                   *)
XInit ==
    /\ \/ \E words \in BraceWords : \E w \in words : operand = [of |-> "braces", case |-> w]
       \/ \E slices \in Slices : \E s \in slices : operand = [of |-> "slice", case |-> s]
       \/ \E divided \in DividedOperands : \E d \in divided : operand = [of |-> "division", case |-> d]
       \/ \E replacements \in Replacements : \E r \in replacements : operand = [of |-> "replacement", case |-> r]
       \/ \E values \in MappedValues : \E v \in values : operand = [of |-> "value", case |-> v]
    /\ produced = <<>>

Produces(of, result) == operand.of = of /\ produced = <<>> /\ produced' = <<result>> /\ UNCHANGED operand
FirstUpper(text) == Recased(text, {"a", "b"}, TRUE, FALSE)

ExpandBraces == Produces("braces", Expanded(operand.case))
Slice == Produces("slice", Substring(operand.case))
Divide == Produces("division", BoundaryAt(operand.case.left \o operand.case.right))
Replace == Produces("replacement", Substitution(operand.case.pattern \o <<"/">> \o operand.case.units, operand.case.all))
ChangeCase == Produces("value", Mapped(operand.case, FirstUpper))

XNext == ExpandBraces \/ Slice \/ Divide \/ Replace \/ ChangeCase

-----------------------------------------------------------------------------
(* What braces mean: the first pair that is a sequence or has a comma of its  *)
(* own stands for its alternatives, and the rest of the word for its own.     *)
Number(u, c, i, j) == Cardinality({k \in i..j : u[k] = c})
Balanced(u, i, j) == Number(u, "{", i, j) = Number(u, "}", i, j)
PairOf(u, open) == {c \in open + 1..Len(u) : Balanced(u, open, c)}
Commas(amble) == {i \in DOMAIN amble : amble[i] = "," /\ Balanced(amble, 1, i)}
\* What lies between the places where a separator of that width begins.
Between(text, ends, width) ==
    [k \in DOMAIN ends |-> SubSeq(text, IF k = 1 THEN 1 ELSE ends[k - 1] + width, ends[k] - 1)]
\* The numbers of a set between two, in order.
InOrder(S, low, high) == SelectSeq([k \in 1..high - low + 1 |-> low + k - 1], LAMBDA n : n \in S)
Parts(amble) == Between(amble, InOrder(Commas(amble) \cup {Len(amble) + 1}, 1, Len(amble) + 1), 1)
DotsOf(amble) == {i \in 1..Len(amble) - 1 : amble[i] = "." /\ amble[i + 1] = "." /\ ~(i > 1 /\ amble[i - 1] = ".")}
TermsOf(amble) == Between(amble, InOrder(DotsOf(amble) \cup {Len(amble) + 1}, 1, Len(amble) + 1), 2)
\* The terms of a progression: from the first towards the last, in steps of the size that is asked for.
Progression(first, last, stride) ==
    IF first <= last THEN InOrder({n \in first..last : (n - first) % stride = 0}, first, last)
    ELSE Reverse(InOrder({n \in last..first : (first - n) % stride = 0}, last, first))
AreTerms(terms) ==
    /\ Len(terms) \in 2..3 /\ (Len(terms) = 3 => Integer(terms[3]) # <<>>)
    /\ \/ \A t \in {terms[1], terms[2]} : Integer(t) # <<>>
       \/ \A t \in {terms[1], terms[2]} : Len(t) = 1 /\ t[1] \in Letter
IsExpression(amble) == AreTerms(TermsOf(amble)) \/ Commas(amble) # {}
IsPairWith(u, open, closes) ==
    u[open] = "{" /\ closes # {} /\ IsExpression(SubSeq(u, open + 1, Least(closes) - 1))
IsPair(u, open) == IsPairWith(u, open, PairOf(u, open))

\* What a word stands for, what it costs (one for each word that is built, the words of the parts
\* included), and how deep its parts are.
Meaning(words, cost, deep) == [words |-> words, cost |-> cost, deep |-> deep]
WidthOf(first, last) ==
    IF \E t \in {first, last} : Len(t) > 1 /\ (t[1] = "0" \/ (t[1] = "-" /\ Len(t) > 2 /\ t[2] = "0"))
    THEN CHOOSE n \in {Len(first), Len(last)} : n >= Len(first) /\ n >= Len(last) ELSE 0
StrideOf(step) == IF step = 0 THEN 1 ELSE Magnitude(step)
Spelt(numbers, width) == [k \in DOMAIN numbers |-> Rendered(numbers[k], width)]
Lettered(places) == [k \in DOMAIN places |-> <<Table[places[k]]>>]
Counts(words) == Meaning(words, Len(words), 0)
SequenceMeans(terms, stride) ==
    Counts(IF \A t \in {terms[1], terms[2]} : Integer(t) # <<>>
           THEN Spelt(Progression(Integer(terms[1])[1], Integer(terms[2])[1], stride), WidthOf(terms[1], terms[2]))
           ELSE Lettered(Progression(PlaceIn(Table, terms[1][1]), PlaceIn(Table, terms[2][1]), stride)))
\* A progression between numbers whose distance is not a number of the machine is refused as too long.
Measurable(m, distance) == IF distance > MaxInteger \/ distance < -MaxInteger - 1 THEN [m EXCEPT !.cost = WordLimit + 1] ELSE m
Distance(first, last) == IF first # <<>> /\ last # <<>> THEN last[1] - first[1] ELSE 0
TermsMean(terms) ==
    Measurable(SequenceMeans(terms, IF Len(terms) = 3 THEN StrideOf(Integer(terms[3])[1]) ELSE 1),
               Distance(Integer(terms[1]), Integer(terms[2])))
Together(meant) ==
    FoldLeft(LAMBDA n, m : Meaning(n.words \o m.words, n.cost + m.cost, IF m.deep >= n.deep THEN m.deep + 1 ELSE n.deep),
             Meaning(<<>>, 0, 1), meant)
Product(front, inner, tail) ==
    LET count == Len(inner.words) * Len(tail.words)
    IN  Meaning([k \in 1..count |-> front \o inner.words[((k - 1) \div Len(tail.words)) + 1]
                                          \o tail.words[((k - 1) % Len(tail.words)) + 1]],
                inner.cost + tail.cost + count, IF inner.deep > tail.deep + 1 THEN inner.deep ELSE tail.deep + 1)
RECURSIVE Means(_)
AmbleMeans(amble) ==
    IF AreTerms(TermsOf(amble)) THEN TermsMean(TermsOf(amble))
    ELSE Together([k \in 1..Cardinality(Commas(amble)) + 1 |-> Means(Parts(amble)[k])])
PairMeans(u, open, close) ==
    Product(SubSeq(u, 1, open - 1), AmbleMeans(SubSeq(u, open + 1, close - 1)), Means(SubSeq(u, close + 1, Len(u))))
FirstMeans(u, pairs) ==
    IF pairs = {} THEN Meaning(<<u>>, 1, 0) ELSE PairMeans(u, Least(pairs), Least(PairOf(u, Least(pairs))))
Means(u) == FirstMeans(u, {i \in DOMAIN u : IsPair(u, i)})

\* A word stands for what its braces say, each word once and in order, or is refused where building that
\* takes more words or a deeper descent than the limits: neither the order in which the budget is
\* charged nor a brace that turns out to be text ever changes the words (expand, expand_units).
WithinLimits(m) == m.cost <= WordLimit /\ m.deep <= DepthLimit
SameWords(r, m) == IF WithinLimits(m) THEN r.kind = "words" /\ r.words = m.words ELSE OverLimit(r)
BracesAreExact ==
    (operand.of = "braces" /\ produced # <<>>) =>
        IF \A i \in DOMAIN operand.case : ~IsPair(operand.case, i) THEN produced[1].kind = "none"
        ELSE SameWords(produced[1], Means(operand.case))

-----------------------------------------------------------------------------
(* What the operands mean.                                                    *)
\* The places a slice keeps: those from the offset on, up to the end or as many as are asked for; an
\* offset from the end that is in front of the first place keeps none.
SliceMeans(s) ==
    LET list == IF s.kind = "positional" THEN <<"sh">> \o s.elements ELSE s.elements
        place(i) == IF s.kind = "array" THEN s.keys[i] ELSE i - 1
        beyond == IF list = <<>> THEN 0 ELSE place(Len(list)) + 1
        first == IF s.offset < 0 THEN beyond + s.offset ELSE s.offset
        from == {i \in DOMAIN list : place(i) >= first}
        kept == {i \in from : \/ s.length = <<>>
                              \/ s.length[1] >= 0 /\ Cardinality({j \in from : j < i}) < s.length[1]
                              \/ s.length[1] < 0 /\ i <= Len(list) + s.length[1]}
    IN  [k \in 1..Cardinality(IF first < 0 THEN {} ELSE kept) |-> list[InOrder(kept, 1, Len(list))[k]]]
\* A negative length is the end of a text, which must not lie in front of the start; of a list it is an error.
IsRefused(s) ==
    LET first == IF s.offset < 0 THEN Len(s.elements) + s.offset ELSE s.offset
    IN  /\ s.length # <<>> /\ s.length[1] < 0
        /\ IF s.kind = "text" THEN first \in 0..Len(s.elements) /\ Len(s.elements) + s.length[1] < first
           ELSE ~(s.offset < 0 /\ (IF s.kind = "positional" THEN Len(s.elements) + 1
                                   ELSE IF s.keys = <<>> THEN 0 ELSE Last(s.keys) + 1) + s.offset < 0)
\* The sum of the start and the length of a text is a number of the machine.
Sums(s) == s.kind = "text" /\ s.length # <<>> =>
              (IF s.offset < 0 THEN Len(s.elements) + s.offset ELSE s.offset) + s.length[1] <= MaxInteger

\* A slice keeps exactly the places that are asked for - of a text its characters, of an array with gaps
\* its subscripts, of the positional parameters with $0 in front - as long as the start and the length
\* have a sum (slice_characters, select).
SlicesAreExact ==
    (operand.of = "slice" /\ produced # <<>> /\ Sums(operand.case)) =>
        produced[1] = IF IsRefused(operand.case) THEN NegativeLength ELSE Sliced(SliceMeans(operand.case))

\* An operand is divided at the colon between two expressions, whatever conditionals, parentheses and
\* subscripts the expressions hold, and one expression is not divided (scan_units).
DivisionsAreExact ==
    (operand.of = "division" /\ produced # <<>>) =>
        produced[1] = IF operand.case.right = <<>> THEN 0 ELSE Len(operand.case.left) + 1

\* A replacement is the runs of text it was written as, around what is matched, and its pattern and
\* anchor are what is in front of the first slash but for one that begins the pattern (substitute).
ReplacementsAreExact ==
    (operand.of = "replacement" /\ produced # <<>>) =>
        LET r == operand.case
            s == produced[1]
        IN  /\ s.runs = r.runs
            /\ (IF s.anchor = "none" THEN <<>> ELSE <<s.anchor>>) \o s.pattern = r.pattern
            /\ s.anchor # "none" <=> ~r.all /\ r.pattern # <<>> /\ r.pattern[1] \in {"#", "%"}
            /\ s.pattern = <<>> /\ s.anchor # "none" => Len(WithEmptyPattern(s, <<"t">>)) = 1 + Len(Written(r.runs, <<>>))

\* An operator applied to a list that is to be one field gives the join of what it gives for the list: it
\* never sees a separator (map_value).
ListsAreMappedFirst ==
    (operand.of = "value" /\ produced # <<>> /\ operand.case.kind \in {"at", "star"}) =>
        LET v == operand.case
            fields == Mapped([v EXCEPT !.kind = "at", !.full = TRUE], FirstUpper)
        IN  produced[1] = IF v.full /\ ~(v.kind = "star" /\ v.quoted) THEN fields ELSE <<JoinedBy(fields, "-")>>
=============================================================================
