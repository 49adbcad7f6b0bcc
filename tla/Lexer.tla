------------------------------- MODULE Lexer -------------------------------
(* The word lexer (parser/word_lexer.rs, parser/expansion.rs, syntax.rs): it  *)
(* reads a word, a here-document delimiter or a here-document body one unit   *)
(* at a time, with a stack of syntax frames for what the unit is inside of.   *)
(* A command substitution is read by the command parser on the same input:    *)
(* the lexer that met it waits on `suspended` until the substitution closes.  *)
(* What was read is decoded into parts (word.rs) and spelled back             *)
(* (nodes/source/word.rs); the spelling is then read in turn.                 *)
(* A text is a sequence of one-byte characters; "nl", "tab" and "bq" are a    *)
(* newline, a tab and a backquote, "end" is the end of the input.             *)
EXTENDS Integers, Sequences, FiniteSets, SequencesExt

CONSTANTS LexerCases   \* what is read: sets of [mode, text, bash, extended, mark, strip]

VARIABLES lexer,       \* the lexer that is reading
          suspended,   \* the ones that wait for a command substitution to close
          reading      \* which reading this is: "source" or "respelled", and what the first one gave
lvars == <<lexer, suspended, reading>>

Letters == {"a", "b", "E"}
Digits == {"0", "1"}
SpecialParameter == Digits \cup {"!", "$", "-", "?", "@", "#", "*"}
InName(u) == u \in Letters \cup Digits

-----------------------------------------------------------------------------
(* The syntax classes of a unit in a context (syntax.rs).                     *)
ControlUnits == {"!", "*", "-", "/", ":", "=", "?", "[", "]", "^", "~"}
Metacharacters == {" ", "tab", "&", ";", "<", ">", "|", "(", ")"}
ArithmeticContext == {"arithmetic", "bracket", "bracketDouble"}

Outside(syntax) == syntax \in {"base", "regex"}
Classify(syntax, u) ==
    IF u = "end" THEN "EndOfInput"
    ELSE IF u = "nl" THEN "Newline"
    ELSE IF syntax = "single" THEN
        CASE u = "'" -> "EndQuote" [] u \in ControlUnits \cup {"\\"} -> "Control" [] OTHER -> "Word"
    ELSE IF syntax = "bracketSingle" THEN "Word"
    ELSE IF u \in {"\\", "bq", "$", "}"} THEN
        CASE u = "\\" -> "Backslash" [] u = "bq" -> "Backquote" [] u = "$" -> "Variable" [] u = "}" -> "EndVariable"
    ELSE IF syntax = "double" THEN
        CASE u = "\"" -> "EndQuote" [] u \in ControlUnits -> "Control" [] OTHER -> "Word"
    ELSE IF syntax \in {"arithmetic", "regex"} /\ u \in {"(", ")"} THEN
        IF u = "(" THEN "LeftParen" ELSE "RightParen"
    ELSE IF Outside(syntax) /\ u \in Metacharacters \ (IF syntax = "regex" THEN {"|"} ELSE {}) THEN "WordSeparator"
    ELSE IF Outside(syntax) /\ u \in {"'", "\""} THEN
        IF u = "'" THEN "SingleQuote" ELSE "DoubleQuote"
    ELSE "Word"

-----------------------------------------------------------------------------
(* A lexer and its reads.                                                     *)
Frame(syntax) ==
    [syntax |-> syntax, inner |-> FALSE, pushed |-> FALSE, quoted |-> FALSE, back |-> "none",
     depth |-> 0, parens |-> 0, quotedDepth |-> 0]
TopFrame(L) == Last(L.frames)
Set(L, f) == [L EXCEPT !.frames = Append(Front(@), f)]
Push(L, f) == [L EXCEPT !.frames = Append(@, f)]
Pop(L) == [L EXCEPT !.frames = Front(@)]

UnitAt(L, i) == IF i <= Len(L.text) THEN L.text[i] ELSE "end"
Raw(L) == [L EXCEPT !.unit = UnitAt(L, L.at), !.at = L.at + 1]
RECURSIVE PastContinuations(_, _)
PastContinuations(t, i) ==
    IF i < Len(t) /\ t[i] = "\\" /\ t[i + 1] = "nl" THEN PastContinuations(t, i + 2) ELSE i
Skip(L) == Raw([L EXCEPT !.at = PastContinuations(L.text, @)])
Unget(L) == [L EXCEPT !.at = @ - 1]
Advance(L) == IF TopFrame(L).syntax = "single" THEN Raw(L) ELSE Skip(L)

\* A byte that is taken from the end of the input is a panic (expect_byte).
Emit(L, token) == [L EXCEPT !.out = Append(@, token)]
PutByte(L, kind, u) == IF u = "end" THEN [L EXCEPT !.state = "panic"] ELSE Emit(L, <<kind, u>>)
Literal(L) == PutByte(L, "literal", L.unit)
InertByte(L) == PutByte(L, "inert", L.unit)
Truncate(L, n) == [L EXCEPT !.out = SubSeq(@, 1, n)]
Refused(L) == [L EXCEPT !.state = "error"]
Recording(L) == L.mode = "delimiter"
Body(L) == L.mode \in {"body", "quotedBody"}
Record(L) == IF Recording(L) /\ L.unit # "end" THEN Literal(L) ELSE L
RecordThis(L, u) == IF Recording(L) THEN Emit(L, <<"literal", u>>) ELSE L

QuoteBoundary(L, opening, toggle) ==
    LET f == TopFrame(L)
        M == Set(L, [f EXCEPT !.inner = IF toggle /\ f.depth # 0 THEN ~@ ELSE @])
    IN  IF Body(L) THEN M ELSE Emit(M, IF opening THEN <<"open">> ELSE <<"close">>)

\* What a word's first unit is read with (read_next_token, parse_here_documents).
FirstSyntax(mode) ==
    CASE mode = "body" -> "double" [] mode = "quotedBody" -> "single" [] mode = "regex" -> "regex" [] OTHER -> "base"
Blank(c, at) ==
    [text |-> c.text, at |-> at, unit |-> "end", out |-> <<>>, state |-> "reading", line |-> TRUE,
     frames |-> <<[Frame(FirstSyntax(c.mode)) EXCEPT !.quoted = c.mode = "body"]>>,
     quoted |-> FALSE, ansi |-> FALSE, groups |-> 0, subscripts |-> 0,
     mode |-> c.mode, bash |-> c.bash, extended |-> c.extended, mark |-> c.mark, strip |-> c.strip]
Begun(c) == IF c.mode = "quotedBody" THEN Raw(Blank(c, 1)) ELSE Skip(Blank(c, 1))

-----------------------------------------------------------------------------
(* A parameter expansion (expansion.rs, parser/bash.rs).  P is the lexer and  *)
(* what the expansion has turned out to be.                                   *)
RECURSIVE NameRun(_), DigitsOf(_, _), Subscript(_, _, _, _)
NameRun(L) == IF InName(L.unit) THEN NameRun(Skip(Literal(L))) ELSE L
DigitsOf(L, many) ==
    LET M == Skip(Literal(L)) IN IF many /\ M.unit \in Digits THEN DigitsOf(M, many) ELSE M

\* ${name[...]}: to the bracket that closes, over quotes and backslashes.
Subscript(L, depth, quote, escaped) ==
    LET next(d, q, e) == Subscript(Skip(Literal(L)), d, q, e)
        u == L.unit
    IN  IF u = "end" THEN Refused(L)
        ELSE IF escaped THEN next(depth, quote, FALSE)
        ELSE IF quote # "none" THEN
            CASE u = quote -> next(depth, "none", FALSE)
              [] quote = "\"" /\ u = "\\" -> next(depth, quote, TRUE)
              [] OTHER -> next(depth, quote, FALSE)
        ELSE IF u = "]" /\ depth = 1 THEN Skip(Literal(L))
        ELSE next(CASE u = "[" -> depth + 1 [] u = "]" -> depth - 1 [] OTHER -> depth,
                  IF u \in {"'", "\""} THEN u ELSE "none", u = "\\")

Indirected(P) ==
    LET L == P.lexer
        M == Skip(L)
        N == Skip(M)
    IN  IF ~(P.braced /\ L.bash /\ L.unit = "!") THEN P
        ELSE IF M.unit \in Letters \cup Digits \cup {"@", "*"} THEN [P EXCEPT !.lexer = M, !.indirect = TRUE]
        ELSE IF M.unit = "#" /\ N.unit # "}" THEN [P EXCEPT !.lexer = [Unget(N) EXCEPT !.unit = "#"], !.bad = TRUE]
        ELSE [P EXCEPT !.lexer = [(IF M.unit = "#" THEN Unget(Unget(N)) ELSE Unget(M)) EXCEPT !.unit = "!"]]

\* A name, a number or a special parameter; ${#...} asks for a length unless # is the parameter.
Plainly(P, many) ==
    IF P.lexer.unit \in Letters THEN [P EXCEPT !.lexer = NameRun(P.lexer)]
    ELSE [P EXCEPT !.lexer = DigitsOf(P.lexer, many)]
Special(P, L, u) ==
    IF u \in SpecialParameter THEN [P EXCEPT !.lexer = PutByte(L, "literal", u)]
    ELSE [P EXCEPT !.lexer = L, !.bad = TRUE, !.op = "invalid"]
Hash(P, M) ==
    LET N == Skip(M)
    IN  IF InName(M.unit) THEN Plainly([P EXCEPT !.lexer = RecordThis(M, "#"), !.op = "length"], TRUE)
        ELSE IF M.unit = "}" \/ N.unit # "}" THEN Special(P, [Unget(N) EXCEPT !.unit = M.unit], "#")
        ELSE Special([P EXCEPT !.op = "length"], RecordThis(N, "#"), M.unit)
Named(P) ==
    LET L == P.lexer
    IN  IF P.bad THEN P
        ELSE IF InName(L.unit) THEN Plainly(P, P.braced)
        ELSE IF L.unit = "}" THEN [P EXCEPT !.bad = TRUE]
        ELSE IF P.braced /\ L.unit = "#" THEN Hash(P, Skip(L))
        ELSE Special(P, Skip(L), L.unit)

Subscripted(P) ==
    IF ~P.bad /\ P.braced /\ P.lexer.unit = "[" /\ P.lexer.bash
    THEN [P EXCEPT !.lexer = Subscript(P.lexer, 0, "none", FALSE)] ELSE P
Selected(P) ==
    LET L == P.lexer
        M == Skip(L)
    IN  IF ~(P.indirect /\ ~P.bad) THEN P
        ELSE IF L.unit = "*" THEN [P EXCEPT !.lexer = Skip(Literal(L))]
        ELSE IF L.unit = "@" /\ M.unit = "}" THEN [P EXCEPT !.lexer = Skip(Literal(L))]
        ELSE IF L.unit = "@" THEN [P EXCEPT !.lexer = [Unget(M) EXCEPT !.unit = "@"]]
        ELSE P

\* An operator that may be written twice, and the ones that may follow a colon.
Doubled == [u \in {"%", "#", "/", "^", ","} |->
              CASE u = "%" -> "%%" [] u = "#" -> "##" [] u = "/" -> "//" [] u = "^" -> "^^" [] u = "," -> ",,"]
Repeated(P, L) ==
    LET M == Skip(L)
    IN  IF M.unit = L.unit THEN [P EXCEPT !.lexer = Record(M), !.op = Doubled[L.unit], !.nested = "base"]
        ELSE [P EXCEPT !.lexer = Unget(M), !.op = L.unit, !.nested = "base"]
Coloned(P, L) ==
    LET c == P.colon
    IN  IF L.unit = "}" /\ ~(c /\ L.bash) THEN [P EXCEPT !.lexer = L, !.op = "value"]
        ELSE IF L.unit \in {"-", "+", "?", "="} THEN [P EXCEPT !.lexer = L, !.op = L.unit]
        ELSE IF c /\ L.bash THEN [P EXCEPT !.lexer = Unget(L), !.op = ":", !.colon = FALSE, !.nested = "base"]
        ELSE [P EXCEPT !.lexer = L, !.op = "invalid"]
Operated(P) ==
    LET L == Record(P.lexer)
    IN  IF P.bad THEN [P EXCEPT !.lexer = Unget(P.lexer)]
        ELSE IF P.op # "invalid" THEN
            [P EXCEPT !.lexer = Unget(P.lexer), !.op = IF @ = "length" /\ P.lexer.unit # "}" THEN "invalid" ELSE @]
        ELSE IF L.bash /\ L.unit = "@" THEN [P EXCEPT !.lexer = L, !.op = "@", !.nested = "base"]
        ELSE IF L.unit \in {"%", "#"} \/ (L.bash /\ L.unit \in {"/", "^", ","}) THEN Repeated(P, L)
        ELSE IF L.unit = ":" THEN Coloned([P EXCEPT !.colon = TRUE], Record(Skip(L)))
        ELSE Coloned(P, L)

\* The operand is read in a frame of its own when its syntax is not the one around it.
OperandSyntax(P) == IF P.nested \in ArithmeticContext THEN "double" ELSE P.nested
Framed(P) ==
    LET L == P.lexer
        syntax == OperandSyntax(P)
        own == P.op # "value" /\ (syntax # TopFrame(L).syntax \/ TopFrame(L).inner)
        M == IF own THEN Push(L, [Frame(syntax) EXCEPT !.pushed = TRUE, !.quoted = syntax # "base"]) ELSE L
        f == TopFrame(M)
    IN  IF P.op = "value" THEN L
        ELSE Set(M, [f EXCEPT !.depth = @ + 1, !.quotedDepth = IF f.quoted THEN @ + 1 ELSE @])

LiteralBytes(tokens) ==
    IF \A i \in DOMAIN tokens : tokens[i][1] = "literal" THEN [i \in DOMAIN tokens |-> tokens[i][2]] ELSE <<>>
Braced(L) == IF L.unit = "{" THEN Skip(RecordThis(L, "{")) ELSE L
Expansion(L, start) ==
    LET P0 == Indirected([lexer |-> Braced(L), braced |-> L.unit = "{", op |-> IF L.unit = "{" THEN "invalid" ELSE "value",
                          colon |-> FALSE, indirect |-> FALSE, bad |-> FALSE, nested |-> TopFrame(L).syntax])
        P1 == Selected(Subscripted(Named(P0)))
        P2 == Operated(P1)
        M  == Framed(P2)
        name == LiteralBytes(SubSeq(P1.lexer.out, Len(P0.lexer.out) + 1, Len(P1.lexer.out)))
    IN  IF Recording(L) \/ M.state # "reading" THEN M
        ELSE Emit(Truncate(M, start), <<"parameter", name, P2.op, P2.colon, P2.indirect>>)

-----------------------------------------------------------------------------
(* What each class of unit does to the lexer (read_word_token).               *)
Outermost(f) == f.depth = 0 /\ f.back = "none"
RegexWord(L) == TopFrame(L).syntax = "regex" /\ Outermost(TopFrame(L))
RegexBoundary(L) == RegexWord(L) /\ TopFrame(L).parens = 0
FieldSplitting(L) == TopFrame(L).syntax = "base" /\ Outermost(TopFrame(L)) /\ L.groups = 0 /\ L.subscripts = 0

\* A subscript in an assignment hides the blanks inside it (track_assignment_subscript).
OpensSubscript(L) ==
    \/ L.mode = "element" /\ L.out = <<>>
    \/ L.mode = "assignment" /\ LET name == LiteralBytes(L.out)
                                IN name # <<>> /\ name[1] \in Letters /\ \A i \in DOMAIN name : InName(name[i])
Tracked(L) ==
    IF ~(L.bash /\ TopFrame(L).syntax = "base" /\ TopFrame(L).depth = 0) THEN L
    ELSE IF L.unit = "[" /\ (L.subscripts > 0 \/ OpensSubscript(L)) THEN [L EXCEPT !.subscripts = @ + 1]
    ELSE IF L.unit = "]" /\ L.subscripts > 0 THEN [L EXCEPT !.subscripts = @ - 1]
    ELSE L

\* The bracket form of an arithmetic expansion ends at its own bracket (scan_arithmetic_bracket).
InBracket(L) ==
    LET f == TopFrame(L)
    IN  IF f.syntax \in {"bracketSingle", "bracketDouble"} THEN
            Literal(IF L.unit = (IF f.syntax = "bracketSingle" THEN "'" ELSE "\"")
                    THEN Set(L, [f EXCEPT !.syntax = "bracket"]) ELSE L)
        ELSE IF f.syntax # "bracket" THEN Literal(L)
        ELSE CASE L.unit = "'"  -> Literal(Set(L, [f EXCEPT !.syntax = "bracketSingle"]))
               [] L.unit = "\"" -> Literal(Set(L, [f EXCEPT !.syntax = "bracketDouble"]))
               [] L.unit = "["  -> Literal(Set(L, [f EXCEPT !.parens = @ + 1]))
               [] L.unit = "]" /\ f.parens > 0 -> Literal(Set(L, [f EXCEPT !.parens = @ - 1]))
               [] L.unit = "]" /\ f.parens = 0 -> Emit(Pop(L), <<"arithmeticEnd">>)
               [] OTHER -> Literal(L)

\* $'...': a named escape, up to three octal digits, or a backslash that stays (parse_dollar_single_quote_escape).
NamedEscape == [u \in {"\\", "'", "\"", "a", "b", "E"} |->
                  CASE u = "a" -> "BEL" [] u = "b" -> "BS" [] u = "E" -> "ESC" [] OTHER -> u]
OctalRun(L) ==
    CHOOSE n \in 1..3 : /\ \A i \in 1..n : UnitAt(L, L.at + i - 1) \in Digits
                        /\ n = 3 \/ UnitAt(L, L.at + n) \notin Digits
AnsiEscape(L) ==
    LET u == UnitAt(L, L.at)
        n == OctalRun(L)
        zero == \A i \in 1..n : UnitAt(L, L.at + i - 1) = "0"
    IN  IF u \in DOMAIN NamedEscape THEN Emit(Raw(L), <<"literal", NamedEscape[u]>>)
        ELSE IF u \in Digits THEN Emit([L EXCEPT !.at = @ + n], <<"literal", IF zero THEN "NUL" ELSE "SOH">>)
        ELSE Emit(L, <<"literal", "\\">>)
\* A $'...' string ends at its first NUL, and takes what follows it in the word's output with it.
CutAtNul(L) ==
    LET nul == {i \in DOMAIN L.out : Len(L.out[i]) = 2 /\ L.out[i][2] = "NUL"}
    IN  IF ~L.ansi \/ nul = {} THEN L ELSE Truncate(L, (CHOOSE i \in nul : \A j \in nul : i <= j) - 1)
ControlStep(L) ==
    IF L.ansi /\ L.unit = "\\" THEN AnsiEscape(L)
    ELSE IF ~Body(L) \/ TopFrame(L).quoted \/ TopFrame(L).depth # 0 THEN InertByte(L)
    ELSE Literal(L)

\* Inside double quotes a backslash escapes only what means something there (read_backslash).
StaysData(L, u) ==
    /\ TopFrame(L).quoted \/ TopFrame(L).back # "none"
    /\ u \notin {"\\", "bq", "$"}
    /\ u # "\"" \/ (Body(L) /\ TopFrame(L).depth = 0)
    /\ u # "}" \/ TopFrame(L).depth = 0
BackslashStep(L) ==
    LET M == Raw(L)
        Q == [M EXCEPT !.quoted = TRUE]
    IN  IF M.unit = "end" THEN Unget(M)
        ELSE IF TopFrame(L).syntax \in ArithmeticContext THEN Literal(Q)
        ELSE InertByte(IF StaysData(M, M.unit) THEN Emit(Q, <<"inert", "\\">>) ELSE Q)

SingleQuoteStep(L) == QuoteBoundary(Set(L, [TopFrame(L) EXCEPT !.syntax = "single"]), TRUE, FALSE)
DoubleQuoteStep(L) == QuoteBoundary(Set(L, [TopFrame(L) EXCEPT !.syntax = "double", !.quoted = TRUE]), TRUE, TRUE)
EndQuoteStep(L) ==
    LET f == TopFrame(L)
        base == IF L.mode = "regex" THEN "regex" ELSE "base"
        M == IF f.quotedDepth = 0
             THEN [Set(CutAtNul(L), [f EXCEPT !.syntax = base, !.quoted = FALSE]) EXCEPT !.ansi = FALSE] ELSE L
    IN  IF Body(L) /\ f.depth = 0 THEN Literal(L)
        ELSE QuoteBoundary([M EXCEPT !.quoted = TRUE], FALSE, L.unit = "\"")

EndVariableStep(L) ==
    LET f == TopFrame(L)
        g == [f EXCEPT !.depth = @ - 1]
        M == IF g.depth = 0 /\ f.pushed THEN Pop(L)
             ELSE Set(L, [g EXCEPT !.quotedDepth = IF @ > 0 THEN @ - 1 ELSE @])
    IN  IF f.inner \/ f.depth = 0 THEN Literal(L)
        ELSE IF Recording(L) THEN Literal(M) ELSE Emit(M, <<"parameterEnd">>)

LeftParenStep(L) == Literal(Set(L, [TopFrame(L) EXCEPT !.parens = @ + 1]))
\* The parenthesis of a regular expression, one inside an arithmetic expansion, or the two that end it.
RightParenStep(L) ==
    LET f == TopFrame(L)
        M == Skip(L)
        fewer == Set(L, [f EXCEPT !.parens = @ - 1])
        ended == Pop(M)
        single == [Unget(M) EXCEPT !.unit = ")"]
    IN  IF RegexWord(L) \/ f.parens > 0 THEN (IF RegexWord(L) \/ f.syntax = "arithmetic" THEN Literal(fewer) ELSE fewer)
        ELSE IF M.unit = ")" THEN (IF Recording(L) THEN Literal(Literal(ended)) ELSE Emit(ended, <<"arithmeticEnd">>))
        ELSE IF f.syntax = "arithmetic" THEN Literal(single) ELSE single

SeparatorStep(L) ==
    IF L.groups > 0 THEN Literal([L EXCEPT !.groups = IF L.unit = ")" THEN @ - 1 ELSE @])
    ELSE IF L.unit = ")" /\ TopFrame(L).back = "modern" THEN Literal(Pop(L))
    ELSE Literal(L)

\* Mutant: a line that begins with the delimiter ends the body.
LineStepByPrefix(L) ==
    LET at == L.at - 1
        ends == \A k \in 1..Len(L.mark) : UnitAt(L, at + k - 1) = L.mark[k]
        M == [L EXCEPT !.line = FALSE]
    IN  IF ~Body(L) \/ at > Len(L.text) THEN M
        ELSE IF ends THEN [M EXCEPT !.unit = "end", !.at = at + Len(L.mark) + 1]
        ELSE M

\* The line the lexer is at the start of may be the one that ends the body (finish_word_if_delimited).
LineStep(L) ==
    LET from == L.at - 1
        first == CHOOSE i \in from..Len(L.text) + 1 :
                    /\ ~(L.strip /\ UnitAt(L, i) = "tab") \/ i = Len(L.text) + 1
                    /\ \A j \in from..i - 1 : L.strip /\ UnitAt(L, j) = "tab"
        after == first + Len(L.mark)
        ends == /\ \A k \in 1..Len(L.mark) : UnitAt(L, first + k - 1) = L.mark[k]
                /\ UnitAt(L, after) \in {"nl", "end"}
        M == [L EXCEPT !.line = FALSE]
    IN  IF ~Body(L) \/ from > Len(L.text) THEN M
        ELSE IF ends THEN [M EXCEPT !.unit = "end", !.at = after + 1]
        ELSE [M EXCEPT !.unit = UnitAt(L, first), !.at = first + 1]

-----------------------------------------------------------------------------
(* The end of a word (finish_word_token).                                     *)
\* {name} in front of a redirection names the variable that gets the descriptor (allocated_descriptor).
ValidName(n) == n # <<>> /\ n[1] \in Letters /\ \A i \in DOMAIN n : InName(n[i])
Allocated(bytes) ==
    LET inside == SubSeq(bytes, 2, Len(bytes) - 1)
        open == {i \in DOMAIN inside : inside[i] = "["}
        first == CHOOSE i \in open : \A j \in open : i <= j
    IN  /\ Len(bytes) > 2 /\ bytes[1] = "{" /\ Last(bytes) = "}"
        /\ IF open = {} THEN ValidName(inside)
           ELSE Last(inside) = "]" /\ first + 1 < Len(inside) /\ ValidName(SubSeq(inside, 1, first - 1))
IsDescriptor(L) ==
    LET bytes == LiteralBytes(L.out)
    IN  \/ L.out = <<>>
        \/ bytes # <<>> /\ \A i \in DOMAIN bytes : bytes[i] \in Digits
        \/ bytes # <<>> /\ L.bash /\ Allocated(bytes)

\* The operator that begins at the unit in hand (parse_redirection).
Operator(L) ==
    LET M == Skip(L)
        N == Skip(M)
        took(K, o) == [K EXCEPT !.state = "redirection", !.out = <<o>>]
        left(K, o) == took(Unget(K), o)
    IN  IF L.unit = ">" THEN
            CASE M.unit = ">" -> took(M, ">>") [] M.unit = "|" -> took(M, ">|") [] M.unit = "&" -> took(M, ">&")
              [] OTHER -> left(M, ">")
        ELSE CASE M.unit = "&" -> took(M, "<&") [] M.unit = ">" -> took(M, "<>")
               [] M.unit = "<" /\ N.unit = "<" /\ L.bash -> took(N, "<<<")
               [] M.unit = "<" /\ N.unit = "-" -> took(N, "<<-")
               [] M.unit = "<" /\ ~(N.unit = "-" \/ (N.unit = "<" /\ L.bash)) -> left(N, "<<")
               [] OTHER -> left(M, "<")
Finish(L) ==
    LET f == TopFrame(L)
    IN  IF \/ f.syntax \in {"arithmetic", "bracket"} \/ f.back # "none" \/ f.depth # 0
           \/ ~(Outside(f.syntax) \/ Body(L)) \/ L.subscripts # 0 \/ L.groups # 0 THEN Refused(L)
        ELSE IF Body(L) THEN [L EXCEPT !.state = "word"]
        ELSE IF L.unit \in {"<", ">"} /\ ~L.quoted /\ IsDescriptor(L) THEN Operator(L)
        ELSE [Unget(L) EXCEPT !.state = "word"]

-----------------------------------------------------------------------------
(* The tokens decoded into a word's parts (word.rs).                          *)
TextPart(bytes, q) == [kind |-> "text", bytes |-> bytes, quoted |-> q]
PushText(parts, bytes, q) ==
    IF parts # <<>> /\ Last(parts).kind = "text" /\ Last(parts).quoted = q
    THEN Append(Front(parts), TextPart(Last(parts).bytes \o bytes, q)) ELSE Append(parts, TextPart(bytes, q))
WrittenSoFar(parts) ==
    <<Len(parts), IF parts # <<>> /\ Last(parts).kind = "text" THEN Len(Last(parts).bytes) ELSE 0>>
FromParts(parts) == SelectSeq(parts, LAMBDA p : ~(p.kind = "text" /\ ~p.quoted /\ p.bytes = <<>>))

RECURSIVE WordUntil(_, _, _, _)
WordUntil(tokens, at, parts, opened) ==
    LET q == opened # <<>>
        t == tokens[at]
        shut == IF Last(opened) = WrittenSoFar(parts) THEN PushText(parts, <<>>, TRUE) ELSE parts
        inner == WordUntil(tokens, at + 1, <<>>, <<>>)
        parameter(operand, next) ==
            WordUntil(tokens, next, Append(parts, [kind |-> "parameter", name |-> t[2], op |-> t[3], colon |-> t[4],
                                                   indirect |-> t[5], operand |-> operand, quoted |-> q]), opened)
    IN  IF at > Len(tokens) THEN [parts |-> FromParts(parts), at |-> at]
        ELSE CASE t[1] = "literal" -> WordUntil(tokens, at + 1, PushText(parts, <<t[2]>>, q), opened)
               [] t[1] = "inert" -> WordUntil(tokens, at + 1, PushText(parts, <<t[2]>>, TRUE), opened)
               [] t[1] = "open" -> WordUntil(tokens, at + 1, parts, Append(opened, WrittenSoFar(parts)))
               [] t[1] = "close" -> WordUntil(tokens, at + 1, IF q THEN shut ELSE parts, IF q THEN Front(opened) ELSE <<>>)
               [] t[1] = "command" ->
                    WordUntil(tokens, at + 1, Append(parts, [kind |-> "command", as |-> t[2], words |-> t[3], quoted |-> q]), opened)
               [] t[1] = "parameter" /\ t[3] = "value" -> parameter(<<>>, at + 1)
               [] t[1] = "parameter" /\ t[3] # "value" -> parameter(inner.parts, inner.at)
               [] t[1] = "arithmetic" ->
                    WordUntil(tokens, inner.at, Append(parts, [kind |-> "arithmetic", expression |-> inner.parts, quoted |-> q]), opened)
               [] t[1] \in {"parameterEnd", "arithmeticEnd"} -> [parts |-> FromParts(parts), at |-> at + 1]
Decoded(L) == WordUntil(L.out, 1, <<>>, <<>>).parts

-----------------------------------------------------------------------------
(* A word spelled from its parts (nodes/source/word.rs).                      *)
OperatorText(op) ==
    CASE op \in {"value", "length", "invalid"} -> <<>>
      [] op = "%%" -> <<"%", "%">> [] op = "##" -> <<"#", "#">> [] op = "//" -> <<"/", "/">>
      [] op = "^^" -> <<"^", "^">> [] op = ",," -> <<",", ",">> [] OTHER -> <<op>>
InSingleQuotes(bytes) ==
    LET edge(i) == i \notin DOMAIN bytes \/ bytes[i] = "'"
        spelled(i) == IF bytes[i] = "'" THEN <<"\\", "'">>
                      ELSE (IF edge(i - 1) THEN <<"'">> ELSE <<>>) \o <<bytes[i]>> \o (IF edge(i + 1) THEN <<"'">> ELSE <<>>)
    IN  IF bytes = <<>> THEN <<"'", "'">> ELSE FlattenSeq([i \in DOMAIN bytes |-> spelled(i)])
Escaped(bytes, among) ==
    FlattenSeq([i \in DOMAIN bytes |-> IF among[bytes[i]] THEN <<"\\", bytes[i]>> ELSE <<bytes[i]>>])
Every(bytes) == [u \in ToSet(bytes) |-> u # "nl"]
Expanding(bytes) == [u \in ToSet(bytes) |-> u \in {"\\", "$", "bq"}]

\* Mutant: quotes that follow a $ are spelled like any others, which makes them $'...'.
PushInertAnywhere(out, bytes, inBody) ==
    IF inBody THEN out \o Escaped(bytes, Every(bytes)) ELSE out \o InSingleQuotes(bytes)

\* An inert run, in quotes where quotes read as quotes (push_inert).
PushInert(out, bytes, inBody) ==
    IF inBody THEN out \o Escaped(bytes, Every(bytes))
    ELSE IF out # <<>> /\ Last(out) = "$" /\ bytes # <<>> /\ bytes[1] # "nl"
    THEN out \o <<"\\", bytes[1]>> \o (IF Len(bytes) > 1 THEN InSingleQuotes(Tail(bytes)) ELSE <<>>)
    ELSE out \o InSingleQuotes(bytes)

RECURSIVE SpelledOnto(_, _, _)
SpelledPart(out, part, inBody) ==
    CASE part.kind = "text" ->
            IF part.quoted THEN PushInert(out, part.bytes, inBody) ELSE out \o part.bytes
      [] part.kind = "parameter" ->
            (LET head == out \o <<"$", "{">> \o (IF part.op = "length" THEN <<"#">> ELSE <<>>)
                         \o (IF part.indirect THEN <<"!">> ELSE <<>>) \o part.name
                         \o (IF part.colon THEN <<":">> ELSE <<>>) \o OperatorText(part.op)
             IN  Append(IF part.operand = <<>> THEN head ELSE SpelledOnto(head, part.operand, inBody), "}"))
      [] part.kind = "arithmetic" -> SpelledOnto(out \o <<"$", "(", "(">>, part.expression, inBody) \o <<")", ")">>
      [] part.kind = "command" ->
            (LET open == out \o (IF part.as \in {"<", ">"} THEN <<part.as>> ELSE <<"$">>) \o <<"(">>
                 word(o, i) == SpelledOnto(IF i = 1 THEN o ELSE Append(o, " "), part.words[i], FALSE)
             IN  Append(FoldLeft(word, open, [i \in DOMAIN part.words |-> i]), ")"))
SpelledOnto(out, parts, inBody) ==
    LET around(o, p) ==
            IF p.kind # "text" /\ p.quoted THEN Append(SpelledPart(Append(o, "\""), p, inBody), "\"")
            ELSE SpelledPart(o, p, inBody)
    IN  IF parts = <<>> THEN out \o <<"'", "'">> ELSE FoldLeft(around, out, parts)

\* A body has no quotes: only what would expand is escaped, when the body expands (spelled_body).
SpelledBody(parts, expand) ==
    LET onto(o, p) == IF p.kind # "text" THEN SpelledPart(o, p, TRUE)
                      ELSE o \o (IF expand THEN Escaped(p.bytes, Expanding(p.bytes)) ELSE p.bytes)
    IN  FoldLeft(onto, <<>>, parts)
WithNewline(text) == IF text = <<>> \/ Last(text) = "nl" THEN text ELSE Append(text, "nl")

-----------------------------------------------------------------------------
(* The lexer's steps.                                                         *)
Moved(L) == IF L.state = "reading" THEN Advance(L) ELSE L
ProcessOpens(L) == L.bash /\ ~Body(L) /\ FieldSplitting(L) /\ L.unit \in {"<", ">"} /\ Skip(L).unit = "("
GroupOpens(L) ==
    L.bash /\ L.extended /\ TopFrame(L).syntax = "base" /\ L.unit \in {"?", "*", "+", "@", "!"} /\ Skip(L).unit = "("
\* The look past a unit for a parenthesis stays past the line continuations it met.
Looked(L) ==
    IF \/ L.bash /\ ~Body(L) /\ FieldSplitting(L) /\ L.unit \in {"<", ">"}
       \/ L.bash /\ L.extended /\ TopFrame(L).syntax = "base" /\ L.unit \in {"?", "*", "+", "@", "!"}
    THEN [Unget(Skip(L)) EXCEPT !.unit = L.unit] ELSE L

Meets(class) ==
    /\ lexer.state = "reading" /\ ~lexer.line /\ ~ProcessOpens(lexer) /\ ~GroupOpens(lexer)
    /\ Classify(TopFrame(lexer).syntax, lexer.unit) = class
Takes(L) == lexer' = Moved(L) /\ UNCHANGED <<suspended, reading>>
Ends(L) == lexer' = Finish(L) /\ UNCHANGED <<suspended, reading>>

\* A command substitution: the text from here on is the command parser's until it closes.
Inside(L, text, at) ==
    [Blank([mode |-> "word", text |-> text, bash |-> L.bash, extended |-> L.extended, mark |-> <<>>, strip |-> FALSE], at)
     EXCEPT !.state = "between"]
Suspend(L, kind, text, at) ==
    /\ suspended' = Append(suspended, [lexer |-> L, kind |-> kind, words |-> <<>>])
    /\ lexer' = Inside(L, text, at)
    /\ UNCHANGED reading

StartLine == lexer.state = "reading" /\ lexer.line /\ lexer' = LineStep(lexer) /\ UNCHANGED <<suspended, reading>>
OpenProcess ==
    /\ lexer.state = "reading" /\ ~lexer.line /\ ProcessOpens(lexer)
    /\ Suspend(lexer, lexer.unit, lexer.text, Skip(lexer).at)
OpenGroup ==
    /\ lexer.state = "reading" /\ ~lexer.line /\ GroupOpens(lexer)
    /\ Takes([Emit(Literal(lexer), <<"literal", "(">>) EXCEPT !.groups = @ + 1, !.at = Skip(lexer).at])
Newline ==
    /\ Meets("Newline")
    /\ IF FieldSplitting(lexer) \/ RegexWord(lexer) THEN Ends(lexer) ELSE Takes([Literal(lexer) EXCEPT !.line = TRUE])
WordByte == Meets("Word") /\ Takes(InBracket(Tracked(Looked(lexer))))
Control == Meets("Control") /\ Takes(ControlStep(lexer))
BackslashUnit == Meets("Backslash") /\ Takes(BackslashStep(lexer))
SingleQuote == Meets("SingleQuote") /\ Takes(SingleQuoteStep(lexer))
DoubleQuote == Meets("DoubleQuote") /\ Takes(DoubleQuoteStep(lexer))
EndQuote == Meets("EndQuote") /\ Takes(EndQuoteStep(lexer))
EndVariable == Meets("EndVariable") /\ Takes(EndVariableStep(lexer))
LeftParen == Meets("LeftParen") /\ Takes(LeftParenStep(lexer))
RightParen == Meets("RightParen") /\ IF RegexBoundary(lexer) THEN Ends(lexer) ELSE Takes(RightParenStep(lexer))
EndOfInput == Meets("EndOfInput") /\ Ends(lexer)
WordSeparator ==
    /\ Meets("WordSeparator")
    /\ LET L == Looked(lexer)
       IN  IF L.groups = 0 /\ ~(L.unit = ")" /\ TopFrame(L).back = "modern") /\ (FieldSplitting(L) \/ RegexBoundary(L))
           THEN Ends(L) ELSE Takes(SeparatorStep(L))

\* In a delimiter a substitution is text: only a frame says where it ends.
RecordsCommand(L, back) == Push(L, [Frame("base") EXCEPT !.back = back])
Variable ==
    /\ Meets("Variable")
    /\ LET L == Skip(Emit(lexer, <<"literal", "$">>))
           start == Len(lexer.out)
           paren == Literal(L)
           next == Skip(paren)
           arithmetic == Push([next EXCEPT !.unit = "("], [Frame("arithmetic") EXCEPT !.quoted = TRUE])
           syntax == TopFrame(L).syntax
       IN  CASE L.unit = "(" /\ next.unit = "(" ->
                  Takes(IF Recording(L) THEN Record(arithmetic) ELSE Emit(Truncate(arithmetic, start), <<"arithmetic">>))
             [] L.unit = "(" /\ next.unit # "(" ->
                  IF Recording(L) THEN Takes(RecordsCommand(Unget(next), "modern"))
                  ELSE Suspend(Truncate(paren, start), "modern", L.text, next.at - 1)
             [] L.unit = "'" /\ Outside(syntax) -> Takes([SingleQuoteStep(Truncate(L, start)) EXCEPT !.ansi = TRUE])
             [] L.unit = "\"" /\ L.bash /\ Outside(syntax) -> Takes(DoubleQuoteStep(Truncate(L, start)))
             [] L.unit = "[" /\ L.bash /\ ~Recording(L) ->
                  Takes(Emit(Push(Truncate(L, start), [Frame("bracket") EXCEPT !.quoted = TRUE]), <<"arithmetic">>))
             [] L.unit \in {"{"} \cup Letters \cup SpecialParameter -> Takes(Expansion(L, start))
             [] OTHER -> Takes(Unget(L))

\* `...` is read as text, its backslashes removed, before it is parsed (parse_command_substitution).
RECURSIVE Backquoted(_, _)
Backquoted(L, text) ==
    LET M == Skip(L)
        N == Raw(M)
        keeps == N.unit \notin {"\\", "bq", "$"} /\ ~(TopFrame(L).quoted /\ N.unit = "\"")
    IN  IF M.unit = "bq" THEN [lexer |-> M, text |-> text]
        ELSE IF M.unit = "end" \/ (M.unit = "\\" /\ N.unit = "end") THEN [lexer |-> Refused(M), text |-> text]
        ELSE IF M.unit = "\\" THEN Backquoted(N, text \o (IF keeps THEN <<"\\", N.unit>> ELSE <<N.unit>>))
        ELSE Backquoted(M, Append(text, M.unit))
Backquote ==
    /\ Meets("Backquote")
    /\ LET old == Backquoted(lexer, <<>>)
       IN  IF Recording(lexer)
           THEN Takes(IF TopFrame(lexer).back = "legacy" THEN Literal(Pop(lexer)) ELSE RecordsCommand(Literal(lexer), "legacy"))
           ELSE IF old.lexer.state # "reading" THEN Takes(old.lexer) ELSE Suspend(old.lexer, "legacy", old.text, 1)

\* Between the words of a nested command.  The model has simple commands of words only: it stops
\* ("beyond") at what begins anything else.
RECURSIVE PastBlanks(_)
PastBlanks(L) == LET M == Skip(L) IN IF M.unit \in {" ", "tab"} THEN PastBlanks(M) ELSE M
Beyond(L) == [L EXCEPT !.state = "beyond"]
NextToken ==
    /\ lexer.state = "between"
    /\ LET L == PastBlanks(lexer)
           s == Last(suspended)
           close(at) == /\ suspended' = Front(suspended)
                        /\ lexer' = Moved(Emit([s.lexer EXCEPT !.at = at], <<"command", IF s.kind = "legacy" THEN "modern" ELSE s.kind, s.words>>))
           stop(M) == suspended' = <<>> /\ lexer' = M
       IN  CASE L.unit = ")" \/ (L.unit = "end" /\ s.kind = "legacy") -> close(IF s.kind = "legacy" THEN s.lexer.at ELSE L.at)
             [] L.unit = "end" /\ s.kind # "legacy" -> stop(Refused(L))
             [] L.unit \in {"nl", "#", "&", "|", ";", "("} -> stop(Beyond(L))
             [] OTHER -> lexer' = [L EXCEPT !.state = "reading"] /\ UNCHANGED suspended
    /\ UNCHANGED reading
ReservedAlone(parts) == Len(parts) = 1 /\ parts[1].kind = "text" /\ parts[1].bytes \in {<<"!">>, <<"{">>, <<"}">>}
EndNestedWord ==
    /\ suspended # <<>> /\ lexer.state \in {"word", "redirection", "error", "panic"}
    /\ LET parts == Decoded(lexer)
           s == Last(suspended)
           bracketed == lexer.bash /\ \E i \in DOMAIN lexer.out : lexer.out[i] = <<"literal", "[">>
       IN  IF lexer.state \in {"error", "panic"} THEN suspended' = <<>> /\ UNCHANGED lexer
           ELSE IF lexer.state = "redirection" \/ bracketed \/ (~lexer.quoted /\ s.words = <<>> /\ ReservedAlone(parts))
           THEN suspended' = <<>> /\ lexer' = Beyond(lexer)
           ELSE /\ suspended' = Append(Front(suspended), [s EXCEPT !.words = Append(@, parts)])
                /\ lexer' = Inside(lexer, lexer.text, lexer.at)
    /\ UNCHANGED reading

\* What was read is spelled from its parts, and the spelling is read.
\* A body ends in a newline whatever it was read from (parse_here_documents).
Complete(L) ==
    LET parts == Decoded(L)
    IN  IF ~Body(L) \/ parts = <<>> \/ (Last(parts).kind = "text" /\ Last(Last(parts).bytes) = "nl") THEN parts
        ELSE PushText(parts, <<"nl">>, FALSE)
LinesOf(text) ==
    LET ends == {i \in DOMAIN text : text[i] = "nl"} \cup {Len(text) + 1}
        starts == {1} \cup {i + 1 : i \in ends \ {Len(text) + 1}}
    IN  {SubSeq(text, i, (CHOOSE j \in ends : j >= i /\ \A k \in ends : k >= i => j <= k) - 1) : i \in starts}
BodyText(c, word) == WithNewline(SpelledBody(word, c.mode = "body"))
\* The delimiter it was read with, unless that is a line of the spelling (unused_delimiter).
FreeMark(mark, body) == IF mark = <<>> \/ mark \in LinesOf(body) THEN <<"NSH_HERE">> ELSE mark
Respell ==
    /\ suspended = <<>> /\ lexer.state = "word" /\ reading.of = "source" /\ lexer.mode # "delimiter"
    /\ LET word == Complete(lexer)
           body == BodyText(reading.case, word)
           mark == FreeMark(reading.case.mark, body)
           again == IF Body(lexer)
                    THEN [reading.case EXCEPT !.text = body \o Append(mark, "nl"), !.mark = mark, !.strip = FALSE]
                    ELSE [reading.case EXCEPT !.text = SpelledOnto(<<>>, word, FALSE)]
       IN  /\ lexer' = Begun(again)
           /\ reading' = [of |-> "respelled", case |-> again, word |-> word]
    /\ UNCHANGED suspended

LInit ==
    /\ \E cases \in LexerCases : \E c \in cases : reading = [of |-> "source", case |-> c, word |-> <<>>] /\ lexer = Begun(c)
    /\ suspended = <<>>
LNext ==
    \/ StartLine \/ OpenProcess \/ OpenGroup \/ Newline \/ WordByte \/ Control \/ BackslashUnit \/ SingleQuote
    \/ DoubleQuote \/ EndQuote \/ EndVariable \/ LeftParen \/ RightParen \/ EndOfInput \/ WordSeparator \/ Variable
    \/ Backquote \/ NextToken \/ EndNestedWord \/ Respell

-----------------------------------------------------------------------------
(* Properties.                                                                *)
LexFinished == suspended = <<>> /\ lexer.state \notin {"reading", "between"}

\* What the printer cannot spell: a $ that is text in front of an expansion, of a newline or of nothing in
\* quotes, a word or an expression of nothing, an expansion that was refused, and inert text where single quotes are text.
Arithmetics == {"\\", "bq", "$", "(", ")"}
Guarded(p) == p.kind = "text" /\ p.bytes # <<>> /\ p.bytes[1] # "nl"
RECURSIVE Spellable(_, _, _)
Spellable(parts, quotes, calculated) ==
    /\ parts # <<>>
    /\ \A i \in DOMAIN parts :
         LET p == parts[i]
         IN  CASE p.kind = "text" -> IF p.quoted THEN quotes
                                    ELSE (Last(p.bytes) = "$" /\ i < Len(parts) => Guarded(parts[i + 1])) /\ (calculated => ToSet(p.bytes) \cap Arithmetics = {})
               [] p.kind = "parameter" ->
                    p.op # "invalid" /\ (p.operand = <<>> \/ Spellable(p.operand, ~p.quoted /\ quotes, FALSE))
               [] p.kind = "arithmetic" -> Spellable(p.expression, FALSE, TRUE)
               [] p.kind = "command" -> \A j \in DOMAIN p.words : Spellable(p.words[j], TRUE, FALSE)
\* In a body quoted and plain text are the same text.
PlainText(parts) ==
    FoldLeft(LAMBDA ps, p : IF p.kind = "text" THEN PushText(ps, p.bytes, FALSE) ELSE Append(ps, p), <<>>, parts)
SameWord(w, v) == IF Body(lexer) THEN PlainText(w) = PlainText(v) ELSE w = v
Expansions(parts) == SelectSeq(parts, LAMBDA p : p.kind # "text")
\* A word that can be spelled reads back as the word it was spelled from (fuzzing.rs asks it of every program).
ReadsBack ==
    /\ LexFinished /\ reading.of = "respelled"
    /\ IF Body(lexer) THEN Expansions(reading.word) = <<>> \/ Spellable(Expansions(reading.word), FALSE, FALSE)
       ELSE Spellable(reading.word, TRUE, FALSE)
    => lexer.state = "word" /\ SameWord(Complete(lexer), reading.word) /\ lexer.at > Len(lexer.text)
\* A word stops in front of the unit that ended it, which the next token is read from.
StopsBefore ==
    lexer.state = "word" /\ ~Body(lexer) /\ lexer.unit # "<" => UnitAt(lexer, lexer.at) = lexer.unit
\* No byte is taken from the end of the input (expect_byte), and a word ends with the frame it began with.
EndsInItsFrame ==
    /\ lexer.state # "panic" /\ lexer.frames # <<>>
    /\ lexer.state = "word" => Len(lexer.frames) = 1
\* A here-document's delimiter without quotes is its own source, the line continuations and a last backslash
\* left out.
Unfolded(t) == FlattenSeq([i \in DOMAIN t |-> IF (t[i] = "\\" /\ UnitAt([text |-> t], i + 1) \in {"nl", "end"}) \/ (i > 1 /\ t[i] = "nl" /\ t[i - 1] = "\\")
                                            THEN <<>> ELSE <<t[i]>>])
OpensBadly(t, i) == t[i] = "$" /\ UnitAt([text |-> t], i + 1) = "{" /\ ~InName(UnitAt([text |-> t], i + 2))
Usual(t) ==
    /\ \A i \in DOMAIN t : ~OpensBadly(t, i)
    /\ ~({"{", ":"} \subseteq ToSet(t)) /\ ~({"\"", "bq"} \subseteq ToSet(t))
DelimiterIsItsSource ==
    lexer.mode = "delimiter" /\ lexer.state = "word" /\ ~lexer.quoted =>
        LET source == Unfolded(SubSeq(lexer.text, 1, lexer.at - 1))
        IN  Usual(source) /\ lexer.unit # "<" => LiteralBytes(lexer.out) = source

\* A body is the lines in front of the first one that is the delimiter.
BodyReference(c) ==
    LET text == IF c.mode = "body" THEN Unfolded(c.text) ELSE c.text
        ends == SelectSeq([i \in DOMAIN text |-> i], LAMBDA i : text[i] = "nl") \o (IF text = <<>> \/ Last(text) = "nl" THEN <<>> ELSE <<Len(text) + 1>>)
        start(k) == IF k = 1 THEN 1 ELSE ends[k - 1] + 1
        tabs(k) == CHOOSE n \in 0..ends[k] - start(k) :
                      /\ \A i \in 0..n - 1 : text[start(k) + i] = "tab"
                      /\ start(k) + n = ends[k] \/ text[start(k) + n] # "tab"
        line(k) == SubSeq(text, start(k) + (IF c.strip THEN tabs(k) ELSE 0), ends[k] - 1)
        upto == {k \in DOMAIN ends : \A j \in 1..k : line(j) # c.mark}
    IN  FlattenSeq([k \in 1..Cardinality(upto) |->
                       IF ends[k] > Len(text) /\ line(k) = <<>> THEN <<>> ELSE Append(line(k), "nl")])
\* (A line continuation inside the delimiter's line or behind its tabs is left out.)
PlainBody(c) ==
    \/ c.mode = "quotedBody"
    \/ /\ ToSet(c.text) \cap {"$", "bq"} = {}
       /\ \A i \in DOMAIN c.text : c.text[i] = "\\" => /\ UnitAt(c, i + 1) = "nl"
                                                       /\ i > 1 => c.text[i - 1] \notin {"tab"} \cup ToSet(c.mark)
BodyEndsAtDelimiter ==
    Body(lexer) /\ lexer.state = "word" /\ reading.of = "source" /\ PlainBody(reading.case) =>
        LET parts == Complete(lexer) IN FlattenSeq([i \in DOMAIN parts |-> parts[i].bytes]) = BodyReference(reading.case)
=============================================================================
