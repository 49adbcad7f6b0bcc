------------------------------- MODULE Words -------------------------------
(* Word expansion: the parts of a word (text, parameters with their           *)
(* operators, command output) become fields, tildes are replaced, and what    *)
(* came out of an expansion is split at IFS; and read's splitting of a line.  *)
(*                                                                            *)
(* The code keeps a word as a list of fields.  A field has bytes, an          *)
(* eligibility for each byte, and zero-width anchors that keep it alive       *)
(* although it is empty.  The reference definition below has none of that: a  *)
(* word means one sequence of items, and the fields are what lies between its *)
(* delimiters.                                                                *)
(* A character is a string; multibyte characters, arrays and the operators    *)
(* that match patterns are not here.                                          *)
EXTENDS Integers, Sequences, SequencesExt

CONSTANTS
    WordsTried,   \* words
    Modes,        \* what they are expanded for
    WordEnvironments,
    Lines,        \* lines, each byte protected by a backslash or not
    NamesRead,    \* how many names read is given
    Separators    \* values of IFS for it

VARIABLES
    word,         \* the parts of the word, or the bytes of the line
    mode,         \* what the word is expanded for, "read", or "idle"
    env,          \* the variable v, the positional parameters, IFS, set -u
    reached,           \* the next part, or byte
    sofar,        \* the fields of the parts before it, or the state of read's splitting
    tilde,        \* where a tilde would begin a prefix
    expansion,       \* "none", "error" or the fields
    given         \* the environment and the number of names it began with
wvars == <<word, mode, env, reached, sofar, tilde, expansion, given>>

Unset == <<"unset">>
Home == <<"h", " ">>
White == {" ", "nl"}

\* Parts of a word.
Text(bytes, quoted) == [kind |-> "text", bytes |-> bytes, quoted |-> quoted]
Output(bytes, quoted) == [kind |-> "command", bytes |-> bytes, quoted |-> quoted]
Parameter(name, quoted) == [kind |-> "parameter", name |-> name, op |-> "value", colon |-> FALSE,
                        operand |-> <<>>, quoted |-> quoted]
Operation(op, colon, operand, quoted) ==
    [kind |-> "parameter", name |-> "v", op |-> op, colon |-> colon, operand |-> operand, quoted |-> quoted]

\* Context::top for the modes in use.
Top == [argument   |-> [quoted |-> FALSE, full |-> TRUE, operand |-> FALSE, start |-> TRUE, equal |-> FALSE, colon |-> FALSE],
        assignment |-> [quoted |-> FALSE, full |-> FALSE, operand |-> FALSE, start |-> FALSE, equal |-> TRUE, colon |-> TRUE],
        value      |-> [quoted |-> FALSE, full |-> FALSE, operand |-> FALSE, start |-> TRUE, equal |-> FALSE, colon |-> TRUE],
        here       |-> [quoted |-> TRUE, full |-> FALSE, operand |-> FALSE, start |-> FALSE, equal |-> FALSE, colon |-> FALSE]]
Quoted(context) == [context EXCEPT !.quoted = TRUE, !.start = FALSE, !.equal = FALSE, !.colon = FALSE]
Quoting(context, quoted) == IF quoted THEN Quoted(context) ELSE context
OperandContext(context) == [context EXCEPT !.operand = TRUE, !.start = TRUE, !.equal = FALSE]
Splits(context) == context.full /\ ~context.quoted
LiteralSplits(context) == context.operand /\ Splits(context)
-----------------------------------------------------------------------------
\* Fields and lists of fields.

Field(bytes, quoted, splittable, keep) ==
    [units |-> [i \in DOMAIN bytes |-> [c |-> bytes[i], quoted |-> quoted, splittable |-> splittable]],
     anchors |-> IF keep THEN {Len(bytes)} ELSE {}]
JoinFields(f, g) == [units |-> f.units \o g.units, anchors |-> f.anchors \cup {Len(f.units) + a : a \in g.anchors}]
Slice(f, from, to) ==                       \* bytes from+1..to
    [units |-> SubSeq(f.units, from + 1, to), anchors |-> {a - from : a \in {b \in f.anchors : b >= from /\ b <= to}}]
Anchored(f) == IF f.units = <<>> /\ f.anchors = {} THEN [f EXCEPT !.anchors = {0}] ELSE f
Nothing == Field(<<>>, FALSE, FALSE, FALSE)

\* Expansion::append: the first field joins the last one before it.
\* Mutant: an expansion to several fields starts a field of its own.
ApartFrom(e, f) == e \o f
Joined(e, f) ==
    IF f = <<>> THEN e ELSE IF e = <<>> THEN f
    ELSE SubSeq(e, 1, Len(e) - 1) \o <<JoinFields(Last(e), Head(f))>> \o Tail(f)
PreserveEmpty(e) == [i \in DOMAIN e |-> Anchored(e[i])]
Collapse(e) == FoldLeft(JoinFields, Nothing, e)

\* append_literal: runs up to the next of ~ = :, a tilde replaced where the run
\* before it (or the start of the word) allows one.
TildeSignificant == {"~", "=", ":"}
Ending(bytes, from, chars) ==
    LET found == {i \in from..Len(bytes) : bytes[i] \in chars}
    IN  IF found = {} THEN Len(bytes) + 1 ELSE CHOOSE i \in found : \A j \in found : i <= j

\* Mutant: a tilde prefix may end where the text does although a part follows.
EndsAnywhere(bytes, end, following) == TRUE
PrefixIsWhole(bytes, end, following) == ~(end > Len(bytes) /\ following)

RECURSIVE AppendLiteral(_, _, _, _, _, _)
\* A run that is no tilde prefix goes up to the next character that matters to one.
RunEnd(bytes, i) == IF bytes[i] \in TildeSignificant THEN i + 1 ELSE Ending(bytes, i + 1, TildeSignificant)
PrefixEnd(bytes, i, t) == Ending(bytes, i + 1, {"/"} \cup IF t.position = "assignment" THEN {":"} ELSE {})
TildeBehind(last, context, t) ==
    CASE last = "=" /\ t.equal -> [position |-> "assignment", equal |-> FALSE]
      [] last = ":" /\ context.colon -> [t EXCEPT !.position = "assignment"]
      [] OTHER -> [t EXCEPT !.position = "none"]
TildePrefix(bytes, i, end, context, following, t) ==
    /\ t.position # "none" /\ bytes[i] = "~" /\ ~context.quoted
    /\ PrefixIsWhole(bytes, end, following)
    /\ end = i + 1                               \* tilde_home knows the nameless user
AppendRun(e, bytes, i, stop, context, following, t) ==
    AppendLiteral(Joined(e, <<Field(SubSeq(bytes, i, stop - 1), context.quoted, LiteralSplits(context), context.quoted)>>),
                  bytes, stop, context, following, TildeBehind(bytes[stop - 1], context, t))
AppendLiteral(e, bytes, i, context, following, t) ==
    IF i > Len(bytes) THEN [fields |-> e, tilde |-> t]
    ELSE IF TildePrefix(bytes, i, PrefixEnd(bytes, i, t), context, following, t)
    THEN AppendLiteral(Joined(e, <<Field(Home, TRUE, FALSE, FALSE)>>), bytes, i + 1, context, following,
                       [t EXCEPT !.position = "none"])
    ELSE AppendRun(e, bytes, i, RunEnd(bytes, i), context, following, t)

NoTilde == [position |-> "none", equal |-> FALSE]
FirstTilde(context) ==
    [position |-> IF ~context.start \/ context.quoted THEN "none" ELSE IF context.colon THEN "assignment" ELSE "word",
     equal |-> context.equal]
-----------------------------------------------------------------------------
\* Parameters.

FirstOf(ifs) == IF ifs = <<>> THEN <<>> ELSE <<ifs[1]>>
JoinParameters(words, separator) ==
    FlattenSeq([i \in DOMAIN words |-> IF i = 1 THEN words[i] ELSE separator \o words[i]])
EmptyValue(context) == <<Field(<<>>, FALSE, FALSE, context.quoted)>>

Failed(environment) == [fields |-> <<>>, env |-> environment, error |-> TRUE]
Expanded(fields, environment) == [fields |-> fields, env |-> environment, error |-> FALSE]

\* value_expansion.
ValueExpansion(name, context, environment) ==
    LET words == environment.params
        scalar == IF name = "v" THEN environment.v
                  ELSE JoinParameters(words, IF name = "@" THEN <<" ">> ELSE FirstOf(environment.ifs))
    IN  IF name = "v" /\ environment.v = Unset
        THEN IF environment.nounset THEN Failed(environment) ELSE Expanded(EmptyValue(context), environment)
        ELSE Expanded(
             IF name = "@" /\ context.full /\ context.quoted
             THEN [i \in DOMAIN words |-> Field(words[i], TRUE, FALSE, TRUE)]
             ELSE IF name # "v" /\ context.full /\ ~context.quoted
             THEN IF words = <<>> THEN <<>>
                  ELSE IF environment.ifs = <<>> THEN [i \in DOMAIN words |-> Field(words[i], FALSE, TRUE, FALSE)]
                  ELSE <<Field(JoinParameters(words, FirstOf(environment.ifs)), FALSE, TRUE, FALSE)>>
             ELSE <<Field(scalar, context.quoted, Splits(context), context.quoted)>>, environment)

\* Mutant: an empty value is unavailable without the colon too.
EmptyIsUnset(p, environment) == environment.v \in {Unset, <<>>}
Unavailable(p, environment) == environment.v = Unset \/ (p.colon /\ environment.v = <<>>)

RECURSIVE ExpandParts(_, _, _, _, _, _)

\* The operand of an operator, and what it assigns.
Operand(p, context, environment) ==
    ExpandParts(p.operand, 1, OperandContext(context), <<>>, FirstTilde(OperandContext(context)), environment)
OperandFields(o, context) == IF o.error \/ o.fields # <<>> THEN o ELSE [o EXCEPT !.fields = EmptyValue(context)]
Characters(f) == [i \in DOMAIN f.units |-> f.units[i].c]
Assigned(o, context) ==
    IF o.error THEN o ELSE ValueExpansion("v", context, [o.env EXCEPT !.v = Characters(Collapse(o.fields))])
LengthExpansion(context, environment) ==
    IF environment.v = Unset /\ environment.nounset THEN Failed(environment)
    ELSE Expanded(<<Field(<<ToString(IF environment.v = Unset THEN 0 ELSE Len(environment.v))>>,
                          context.quoted, Splits(context), context.quoted)>>, environment)

\* expand_parameter.
ExpandMissing(p, context, environment) ==
    CASE p.op = "-" -> OperandFields(Operand(p, context, environment), context)
      [] p.op = "+" -> Expanded(EmptyValue(context), environment)
      [] p.op = "?" -> Failed(Operand(p, [context EXCEPT !.full = FALSE], environment).env)
      [] p.op = "=" -> Assigned(OperandFields(Operand(p, [context EXCEPT !.full = FALSE], environment), context), context)
ExpandParameter(p, context, environment) ==
    CASE p.op = "#" -> LengthExpansion(context, environment)
      [] p.op \notin {"#", "value"} /\ Unavailable(p, environment) -> ExpandMissing(p, context, environment)
      [] p.op = "+" /\ ~Unavailable(p, environment) -> OperandFields(Operand(p, context, environment), context)
      [] OTHER -> ValueExpansion(p.name, context, environment)

\* command_substitution drops the newlines at the end.
RECURSIVE Chomped(_)
Chomped(bytes) == IF bytes # <<>> /\ Last(bytes) = "nl" THEN Chomped(SubSeq(bytes, 1, Len(bytes) - 1)) ELSE bytes

\* One turn of the loop of expand_parts.
Part(fields, tilde_after, environment, failed) ==
    [fields |-> fields, tilde |-> tilde_after, env |-> environment, error |-> failed]
AppendText(x, environment) == Part(x.fields, x.tilde, environment, FALSE)
AppendExpansion(x, e, quoted, t) ==
    Part(Joined(e, IF quoted THEN PreserveEmpty(x.fields) ELSE x.fields), [t EXCEPT !.position = "none"], x.env, x.error)
Inert(p, context, following) ==
    IF p.bytes = <<>> THEN <<Anchored(Nothing)>>
    ELSE AppendLiteral(<<>>, p.bytes, 1, Quoted(context), following, NoTilde).fields
CommandOutput(p, context) == <<Field(Chomped(p.bytes), context.quoted, Splits(context), context.quoted)>>
ExpandPart(parts, n, context, e, t, environment) ==
    LET p == parts[n] IN
    CASE p.kind = "text" /\ ~p.quoted -> AppendText(AppendLiteral(e, p.bytes, 1, context, n < Len(parts), t), environment)
      [] p.kind = "text" /\ p.quoted ->
           AppendExpansion(Expanded(Inert(p, context, n < Len(parts)), environment), e, TRUE, t)
      [] p.kind = "command" ->
           AppendExpansion(Expanded(CommandOutput(p, Quoting(context, p.quoted)), environment), e, p.quoted, t)
      [] p.kind = "parameter" -> AppendExpansion(ExpandParameter(p, Quoting(context, p.quoted), environment), e, p.quoted, t)

ExpandRest(one, parts, n, context) ==
    IF one.error THEN Failed(one.env) ELSE ExpandParts(parts, n + 1, context, one.fields, one.tilde, one.env)
ExpandParts(parts, n, context, e, t, environment) ==
    IF n > Len(parts) THEN Expanded(e, environment)
    ELSE ExpandRest(ExpandPart(parts, n, context, e, t, environment), parts, n, context)
-----------------------------------------------------------------------------
\* Field splitting (typed/split.rs).

SeparatorAt(f, ifs, i) == f.units[i + 1].splittable /\ f.units[i + 1].c \in ToSet(ifs)
WhiteAt(f, ifs, i) == i < Len(f.units) /\ SeparatorAt(f, ifs, i) /\ f.units[i + 1].c \in White
HasAnchor(f, from, to) == \E a \in f.anchors : a >= from /\ a <= to

SkipWhitespace(f, ifs, i) ==
    CHOOSE j \in i..Len(f.units) : ~WhiteAt(f, ifs, j) /\ \A k \in i..j - 1 : WhiteAt(f, ifs, k)

\* Mutant: white space in front of another separator delimits a field by itself.
NeverFollowed(f, ifs, next) == FALSE
NonwhiteFollows(f, ifs, next) == next < Len(f.units) /\ SeparatorAt(f, ifs, next) /\ ~WhiteAt(f, ifs, next)

RECURSIVE SplitFrom(_, _, _, _, _)
LastOfSplit(f, start, out) ==
    IF start < Len(f.units) THEN Append(out, Slice(f, start, Len(f.units)))
    ELSE IF HasAnchor(f, start, Len(f.units)) THEN Append(out, Anchored(Nothing)) ELSE out
SplitAtWhite(f, ifs, start, i, out, next) ==
    IF NonwhiteFollows(f, ifs, next)
    THEN SplitFrom(f, ifs, SkipWhitespace(f, ifs, next + 1), SkipWhitespace(f, ifs, next + 1), Append(out, Slice(f, start, i)))
    ELSE SplitFrom(f, ifs, next, next, IF i > start \/ HasAnchor(f, start, i) THEN Append(out, Slice(f, start, i)) ELSE out)
SplitFrom(f, ifs, start, i, out) ==
    IF i >= Len(f.units) THEN LastOfSplit(f, start, out)
    ELSE IF ~SeparatorAt(f, ifs, i) THEN SplitFrom(f, ifs, start, i + 1, out)
    ELSE IF WhiteAt(f, ifs, i) THEN SplitAtWhite(f, ifs, start, i, out, SkipWhitespace(f, ifs, i + 1))
    ELSE SplitFrom(f, ifs, SkipWhitespace(f, ifs, i + 1), SkipWhitespace(f, ifs, i + 1), Append(out, Slice(f, start, i)))

FieldIntoFields(f, ifs) ==
    IF ifs = <<>> \/ \A i \in DOMAIN f.units : ~f.units[i].splittable
    THEN IF f.units = <<>> /\ 0 \notin f.anchors THEN <<>> ELSE <<f>>
    ELSE SplitFrom(f, ifs, 0, 0, <<>>)
Bytes(f) == [i \in DOMAIN f.units |-> f.units[i].c]
-----------------------------------------------------------------------------
\* read: split_fields over the bytes no backslash protected (expand.rs).

IsSeparator(line, ifs, i) == ~line[i].protected /\ line[i].c \in ToSet(ifs)

\* Mutant: white space that may be the end of the line stays so although a protected byte follows.
Continues(s) == [s EXCEPT !.white = FALSE]
\* A region of unprotected bytes begins behind protected ones.
BehindProtected(s) == [s EXCEPT !.trailing = -1, !.white = FALSE]

Unread(names) == [start |-> 0, trailing |-> -1, left |-> names, white |-> FALSE, out |-> <<>>]
Between(line, from, to) == [n \in 1..to - from |-> line[from + n].c]

\* split_fields_slow, at byte i; start and trailing count the bytes in front.
Scanned(s, line, i, separator, white) ==
    CASE s.left = 0 /\ white -> [s EXCEPT !.trailing = IF @ = -1 THEN i - 1 ELSE @]
      [] s.left = 0 /\ ~white -> [s EXCEPT !.trailing = IF separator /\ s.white THEN @ ELSE -1, !.white = FALSE]
      [] s.left > 0 /\ s.white -> [s EXCEPT !.start = IF separator THEN i ELSE i - 1, !.white = white]
      [] s.left > 0 /\ ~s.white /\ ~separator -> s
      [] s.left > 0 /\ ~s.white /\ separator ->
           IF white /\ i - 1 = s.start THEN [s EXCEPT !.start = i]
           ELSE IF s.left = 1 THEN [s EXCEPT !.left = 0, !.white = white, !.trailing = i - 1]
           ELSE [s EXCEPT !.left = @ - 1, !.white = white, !.out = Append(@, Between(line, s.start, i - 1)), !.start = i]
ScannedByte(s, line, ifs, i) ==
    IF line[i].protected THEN BehindProtected(s)
    ELSE Scanned(s, line, i, IsSeparator(line, ifs, i), IsSeparator(line, ifs, i) /\ line[i].c \in White)

\* split_regions_into_fields: the field that is left.
FinalField(s, line) ==
    LET end == IF s.trailing # -1 THEN s.trailing ELSE Len(line)
    IN  IF s.start >= end THEN s.out ELSE Append(s.out, Between(line, s.start, end))
-----------------------------------------------------------------------------
(* One word, a part at a time, or one line, a byte at a time *)

Gave(is, fields) == [is |-> is, fields |-> fields]
NotYet == Gave("none", <<>>)
Environment(v, params, ifs, nounset) == [v |-> v, params |-> params, ifs |-> ifs, nounset |-> nounset]
BeginWord(words, modes, environments) ==
    /\ mode \in modes /\ word \in words /\ env \in environments
    /\ reached = 1 /\ sofar = <<>> /\ tilde = FirstTilde(Top[mode]) /\ expansion = NotYet
    /\ given = [env |-> env, names |-> 0]
BeginLine(lines, names, separators) ==
    /\ mode = "read" /\ word \in lines /\ \E ifs \in separators : env = Environment(Unset, <<>>, ifs, FALSE)
    /\ \E n \in names : sofar = Unread(n) /\ given = [env |-> env, names |-> n]
    /\ reached = 1 /\ tilde = NoTilde /\ expansion = NotYet
WInit == BeginWord(WordsTried, Modes, WordEnvironments) \/ BeginLine(Lines, NamesRead, Separators)
WIdle == /\ mode = "idle" /\ word = <<>> /\ env = Environment(Unset, <<>>, <<>>, FALSE)
         /\ reached = 1 /\ sofar = <<>> /\ tilde = NoTilde /\ expansion = NotYet /\ given = [env |-> env, names |-> 0]

Goes(one) ==
    /\ sofar' = one.fields /\ tilde' = one.tilde /\ env' = one.env
    /\ IF one.error THEN expansion' = Gave("error", <<>>) /\ reached' = reached ELSE reached' = reached + 1 /\ UNCHANGED expansion
ExpandOne ==
    /\ mode \in DOMAIN Top /\ expansion = NotYet /\ reached <= Len(word)
    /\ Goes(ExpandPart(word, reached, Top[mode], sofar, tilde, env))
    /\ UNCHANGED <<word, mode, given>>

FieldsOf(e, context, ifs) ==
    IF context.full THEN FlattenSeq([i \in DOMAIN e |-> FieldIntoFields(e[i], ifs)]) ELSE <<Collapse(e)>>
AllBytes(fields) == [i \in DOMAIN fields |-> Bytes(fields[i])]
FinishWord ==
    /\ mode \in DOMAIN Top /\ expansion = NotYet /\ reached > Len(word)
    /\ expansion' = Gave("fields", AllBytes(FieldsOf(sofar, Top[mode], env.ifs)))
    /\ UNCHANGED <<word, mode, env, reached, sofar, tilde, given>>

ScanByte ==
    /\ mode = "read" /\ expansion = NotYet /\ reached <= Len(word)
    /\ sofar' = ScannedByte(sofar, word, env.ifs, reached) /\ reached' = reached + 1
    /\ UNCHANGED <<word, mode, env, tilde, expansion, given>>
FinishLine ==
    /\ mode = "read" /\ expansion = NotYet /\ reached > Len(word)
    /\ expansion' = Gave("fields", FinalField(sofar, word))
    /\ UNCHANGED <<word, mode, env, reached, sofar, tilde, given>>

WNext == ExpandOne \/ FinishWord \/ ScanByte \/ FinishLine
WSpec == WInit /\ [][WNext]_wvars
-----------------------------------------------------------------------------
(* What a word means: one sequence of items.  An item is a character, an      *)
(* empty string that quotes keep ("null"), or the break between two words of  *)
(* "$@".  A soft character can be a separator.                                *)

Item(kind, c, soft) == [kind |-> kind, c |-> c, soft |-> soft]
Items(bytes, soft) == [i \in DOMAIN bytes |-> Item("char", bytes[i], soft)]
Null == <<Item("null", "", FALSE)>>
Break == <<Item("break", "", FALSE)>>
KeptText(bytes) == Null \o Items(bytes, FALSE)
Joining(words, between) == FlattenSeq([i \in DOMAIN words |-> IF i = 1 THEN words[i] ELSE between \o words[i]])

\* The tilde at k of the unquoted text of part n stands for the home directory.
IsTilde(parts, n, k, where) ==
    LET bytes == parts[n].bytes
        texts == {m \in 1..n - 1 : parts[m].kind = "text" /\ ~parts[m].quoted}
        begins == n = 1 /\ k = 1 /\ where.start
        equals == \/ \E m \in texts : "=" \in ToSet(parts[m].bytes)
                  \/ "=" \in ToSet(SubSeq(bytes, 1, k - 2))
        assigns == \/ begins /\ where.colon
                   \/ k > 1 /\ bytes[k - 1] = "=" /\ where.equal /\ ~equals
                   \/ k > 1 /\ bytes[k - 1] = ":" /\ where.colon
    IN  /\ bytes[k] = "~" /\ (begins \/ assigns)
        /\ IF k = Len(bytes) THEN n = Len(parts) ELSE bytes[k + 1] \in {"/"} \cup IF assigns THEN {":"} ELSE {}

\* What POSIX says an operator does with a parameter that is set, set to nothing, or not set.
State(v) == IF v = Unset THEN "unset" ELSE IF v = <<>> THEN "null" ELSE "set"
Outcome(op, colon, state) ==
    CASE op = "+" -> IF state = "set" \/ (state = "null" /\ ~colon) THEN "word" ELSE "nothing"
      [] op \in {"-", "=", "?"} /\ (state = "set" \/ (state = "null" /\ ~colon)) -> "value"
      [] op = "-" -> "word" [] op = "=" -> "assign" [] op = "?" -> "fail"
      [] op = "#" -> "length" [] op = "value" -> "value"

RECURSIVE MeaningOf(_, _, _, _)
Meant(items, e) == [items |-> items, env |-> e, bad |-> FALSE]
NoMeaning(e) == [items |-> <<>>, env |-> e, bad |-> TRUE]
\* where: quoted, whether it is a place for several fields, in an operand, and for tildes.
ValueMeaning(name, where, e) ==
    LET many == where.full
        hard == where.quoted
        soft == many /\ ~hard
        sep == IF name = "@" /\ ~many THEN <<" ">> ELSE FirstOf(e.ifs)
        keep(bytes) == IF hard THEN KeptText(bytes) ELSE Items(bytes, soft)
    IN  CASE name = "v" -> IF e.v = Unset THEN IF e.nounset THEN NoMeaning(e) ELSE Meant(keep(<<>>), e)
                           ELSE Meant(keep(e.v), e)
          [] name = "@" /\ many /\ hard -> Meant(Joining([i \in DOMAIN e.params |-> KeptText(e.params[i])], Break), e)
          [] name # "v" /\ soft /\ e.ifs = <<>> ->
               Meant(Joining([i \in DOMAIN e.params |-> Items(e.params[i], FALSE)], Break), e)
          [] OTHER -> Meant(keep(Joining(e.params, IF name = "@" /\ hard THEN <<" ">> ELSE sep)), e)
OperatorMeaning(p, where, e, outcome) ==
    LET inner == [where EXCEPT !.operand = TRUE, !.start = TRUE, !.equal = FALSE]
        one == [inner EXCEPT !.full = FALSE]
        assigned(m) == IF m.bad THEN m
                       ELSE ValueMeaning("v", where, [m.env EXCEPT !.v =
                              LET cs == SelectSeq(m.items, LAMBDA x : x.kind = "char") IN [i \in DOMAIN cs |-> cs[i].c]])
    IN  CASE outcome = "value" -> ValueMeaning(p.name, where, e)
          [] outcome = "nothing" -> Meant(<<>>, e)
          [] outcome = "word" -> MeaningOf(p.operand, 1, inner, e)
          [] outcome = "assign" -> assigned(MeaningOf(p.operand, 1, one, e))
          [] outcome = "fail" -> NoMeaning(MeaningOf(p.operand, 1, one, e).env)
          [] outcome = "length" ->
               IF e.v = Unset /\ e.nounset THEN NoMeaning(e)
               ELSE Meant(Items(<<ToString(IF e.v = Unset THEN 0 ELSE Len(e.v))>>, where.full /\ ~where.quoted), e)

PartMeaning(parts, n, where, e) ==
    LET p == parts[n]
        hard == p.quoted \/ where.quoted
        soft == where.operand /\ where.full /\ ~hard
        inside == IF p.quoted THEN [where EXCEPT !.quoted = TRUE, !.start = FALSE, !.equal = FALSE, !.colon = FALSE] ELSE where
        text(k) == IF ~hard /\ IsTilde(parts, n, k, where) THEN Items(Home, FALSE) ELSE Items(<<p.bytes[k]>>, soft)
        chopped == {k \in 0..Len(p.bytes) : \A j \in k + 1..Len(p.bytes) : p.bytes[j] = "nl"}
        out == SubSeq(p.bytes, 1, CHOOSE k \in chopped : \A j \in chopped : k <= j)
    IN  CASE p.kind = "text" -> Meant((IF hard THEN Null ELSE <<>>) \o FlattenSeq([k \in DOMAIN p.bytes |-> text(k)]), e)
          [] p.kind = "command" -> Meant(IF hard THEN KeptText(out) ELSE Items(out, where.full), e)
          [] p.kind = "parameter" -> OperatorMeaning(p, inside, e, Outcome(p.op, p.colon, State(e.v)))

\* "$@" without parameters is nothing; anything else in quotes is kept although it is empty.
KeptInQuotes(m, p, e) ==
    IF p.quoted /\ ~(p.kind = "parameter" /\ p.name = "@" /\ p.op = "value" /\ e.params = <<>>)
    THEN [m EXCEPT !.items = Null \o @] ELSE m
Followed(m, rest) == IF m.bad THEN m ELSE [rest EXCEPT !.items = m.items \o @]
MeaningFrom(m, parts, n, where) == Followed(m, IF m.bad THEN m ELSE MeaningOf(parts, n + 1, where, m.env))
MeaningOf(parts, n, where, e) ==
    IF n > Len(parts) THEN Meant(<<>>, e)
    ELSE MeaningFrom(KeptInQuotes(PartMeaning(parts, n, where, e), parts[n], e), parts, n, where)

\* The fields are the runs between separators, and one for each separator that is no white space and
\* has no field in front of it.
Separates(x, ifs) == x.kind = "char" /\ x.soft /\ x.c \in ToSet(ifs)
Hard(x, ifs) == Separates(x, ifs) /\ x.c \notin White
Plain(x, ifs) == x.kind # "break" /\ ~Separates(x, ifs)
Emitted(items, ifs, i) ==
    LET start(k) == k = 1 \/ ~Plain(items[k - 1], ifs)
        ends == {j \in i..Len(items) : \A k \in i..j : Plain(items[k], ifs)}
        run == SubSeq(items, i, CHOOSE j \in ends : \A k \in ends : k <= j)
        chars == SelectSeq(run, LAMBDA x : x.kind = "char")
        before == {k \in 1..i - 1 : ~(Separates(items[k], ifs) /\ ~Hard(items[k], ifs))}
        empty == before = {} \/ LET k == CHOOSE k \in before : \A j \in before : j <= k IN ~Plain(items[k], ifs)
    IN  IF Plain(items[i], ifs) THEN IF start(i) THEN <<[k \in DOMAIN chars |-> chars[k].c]>> ELSE <<>>
        ELSE IF Hard(items[i], ifs) /\ empty THEN << <<>> >> ELSE <<>>
FieldsOfItems(items, ifs) == FlattenSeq([i \in DOMAIN items |-> Emitted(items, ifs, i)])
OneField(items) ==
    LET chars == SelectSeq(items, LAMBDA x : x.kind = "char") IN <<[k \in DOMAIN chars |-> chars[k].c]>>

\* An empty string in quotes between two separators one of which is white space.
NullBetweenSeparators(items, ifs) ==
    \E i, j \in DOMAIN items :
        /\ i + 1 < j /\ Separates(items[i], ifs) /\ Separates(items[j], ifs)
        /\ ~(Hard(items[i], ifs) /\ Hard(items[j], ifs))
        /\ \A k \in i + 1..j - 1 : items[k].kind = "null"

\* Parameters, operators, tildes, quotes and IFS, in every combination, give the fields the word
\* means: quoted text is never split nor lost, and what an operator did not choose has no effect.
\* (typed/split.rs, typed/field.rs; but for an empty string between white separators, which the
\* splitting skips.)
FieldsAreExact ==
    mode \in DOMAIN Top /\ expansion.is # "none" =>
        LET m == MeaningOf(word, 1, Top[mode], given.env)
        IN  IF m.bad THEN expansion.is = "error"
            ELSE \/ expansion = Gave("fields", IF Top[mode].full THEN FieldsOfItems(m.items, env.ifs) ELSE OneField(m.items))
                 \/ Top[mode].full /\ NullBetweenSeparators(m.items, env.ifs)

\* read gives each name but the last one field, and the last one the rest of the line without the
\* white space behind it, or its field alone if that is all (expand.rs, split_regions_into_fields).
ReadIsExact ==
    mode = "read" /\ expansion.is # "none" =>
        LET items == [i \in DOMAIN word |-> Item("char", word[i].c, ~word[i].protected)]
            begins == SelectSeq([i \in DOMAIN items |-> i], LAMBDA i : Emitted(items, env.ifs, i) # <<>>)
            written == {i \in DOMAIN items : ~Separates(items[i], env.ifs) \/ Hard(items[i], env.ifs)}
            rest == SubSeq(items, begins[given.names], CHOOSE i \in written : \A j \in written : j <= i)
            all == FieldsOfItems(items, env.ifs)
            value(fields, n) == IF n <= Len(fields) THEN fields[n] ELSE <<>>
        IN  /\ Len(expansion.fields) <= given.names
            /\ \A n \in 1..given.names :
                 value(expansion.fields, n) = IF n = given.names /\ Len(all) > n THEN OneField(rest)[1] ELSE value(all, n)
=============================================================================
