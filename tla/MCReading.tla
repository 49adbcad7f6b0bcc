----------------------------- MODULE MCReading ------------------------------
(* Reading a program: the word lexer, the command parser and the operands of  *)
(* the Bash expansions over bounded inputs.  A behaviour is one input of one  *)
(* of them (focus).                                                           *)
EXTENDS Lexer, Grammar, Expansions

VARIABLE focus

\* Words: all texts of up to three fragments, in both dialects, and longer ones made of few.
Read(mode, text, bash) ==
    [mode |-> mode, text |-> text, bash |-> bash, extended |-> bash, mark |-> <<>>, strip |-> FALSE]
OfTwo(fragments) == {a \o b : a, b \in fragments \cup {<<>>}}
OfThree(fragments) == {a \o b \o c : a, b, c \in fragments \cup {<<>>}}
OfFour(fragments) == {a \o b \o c \o d : a, b, c, d \in fragments \cup {<<>>}}
Openings == {<<"'">>, <<"\"">>, <<"$">>, <<"$", "{", "a">>, <<"$", "(">>, <<"$", "(", "(">>, <<"bq">>}
Closings == {<<"}">>, <<")">>, <<")", ")">>}
Plain == {<<"a">>, <<" ">>, <<"\\">>, <<"\\", "nl">>, <<"nl">>}
WordFragments == Openings \cup Closings \cup Plain
    \cup {<<"$", "{", "#">>, <<"$", "{", "!", "a">>, <<":", "-">>, <<"%">>, <<"0">>, <<"<">>, <<"{">>, <<"$", "[">>, <<"]">>}
FewFragments == {<<"'">>, <<"\"">>, <<"$", "{", "a", "-">>, <<"$", "(">>, <<"bq">>, <<"}">>, <<")">>, <<"a">>, <<"\\">>}
BashFragments == {<<"a">>, <<"@", "(">>, <<")">>, <<"<", "(">>, <<"[">>, <<"]">>, <<"$", "'">>, <<"'">>, <<" ">>, <<"=">>, <<"|">>, <<"\\">>}
WordCases == {
    {Read("word", t, FALSE) : t \in OfTwo(WordFragments)}, {Read("word", t, FALSE) : t \in OfFour(FewFragments)},
    {Read("word", t, TRUE) : t \in OfThree(WordFragments)},
    {Read(mode, t, TRUE) : mode \in {"word", "assignment", "element", "regex"}, t \in OfThree(BashFragments)}}

\* Here-documents: the delimiter behind the operator, and bodies of up to four characters and of lines.
DelimiterFragments == Openings \cup Closings \cup Plain \cup {<<"E">>, <<"{">>, <<"-">>, <<"<">>}
BodyBytes == UNION {[1..n -> {"a", "E", "nl", "tab", "\\", "$", "bq"}] : n \in 0..4}
BodyLines == OfFour({<<"a">>, <<"nl">>, <<"E">>, <<"$", "{", "a", "-">>, <<"$", "(", "a", ")">>, <<"}">>, <<"\"">>, <<"'">>})
HereCases == {
    {Read("delimiter", t, bash) : t \in OfThree(DelimiterFragments), bash \in BOOLEAN},
    {[Read(mode, t, FALSE) EXCEPT !.mark = <<"E">>, !.strip = strip] :
       mode \in {"body", "quotedBody"}, t \in BodyBytes, strip \in BOOLEAN},
    {[Read("body", t, FALSE) EXCEPT !.mark = <<"E">>] : t \in BodyLines},
    {[Read("body", t, FALSE) EXCEPT !.mark = <<>>] : t \in {<<"a", "nl", "nl", "E">>, <<"nl", "a">>}}}
SomeCases == WordCases \cup HereCases

\* Commands: all sources of up to three tokens, and the compound commands with
\* one to three lists in them, the lists with and without what must end them.
CommandTokens == {"w", "x=", "&", ";", "nl", "{", "}", "(", ")", "|", "&&", "!", "if", "then", "fi", ">",
                  "while", "do", "done", "for", "in", "case", "esac", ";;"}
Lists == {<<"w", ";">>, <<"w", "nl">>, <<"w", "&">>, <<"w">>, <<"w", "<<", "A", ";">>,
          <<"{", "w", ";", "}">>, <<"(", "w", "&", ")">>, <<"x=", "if", "nl">>,
          <<"{", "w", "<<", "A", ";", "}", "<<", "B", "nl">>,
          <<"w", "&&", "nl", "w", "||", "w", ";">>, <<"!", "w", "|", "nl", "w", "&">>,
          <<"w", ";", "nl", "w", "}", "nl", "w", "nl">>}
FewLists == {<<"w", ";">>, <<"w", "&">>, <<"w", "<<", "A", "nl">>, <<"(", "w", ")">>, <<"w">>}
One == UNION {{<<"{">> \o l \o <<"}">>,
               <<"(">> \o l \o <<")">>,
               <<"w", "(", ")", "nl", "{">> \o l \o <<"}">>,
               <<"for", "w", "nl", "do">> \o l \o <<"done">>,
               <<"for", "w", "in", "nl", "do">> \o l \o <<"done">>,
               <<"for", "w", "in", "w", ";", "do">> \o l \o <<"done">>,
               <<"for", "w", ";", "nl", "do">> \o l \o <<"done">>,
               <<"case", "w", "nl", "in", "nl", "w", ")">> \o l \o <<";&", "w", ")", "esac">>} : l \in Lists}
Two == UNION {{<<"if">> \o l \o <<"then">> \o m \o <<"fi">>,
               <<"case", "w", "in", "w", ")">> \o l \o <<";;", "nl", "(", "w", "|", "if", ")">> \o m \o <<"esac">>} :
              l \in Lists, m \in FewLists}
Loops == {<<"while">> \o l \o <<"do">> \o m \o <<"done">> : l, m \in FewLists}
Three == UNION {{<<"if">> \o l \o <<"then">> \o m \o <<"else">> \o n \o <<"fi">>,
                 <<"if">> \o l \o <<"then">> \o m \o <<"elif">> \o n \o <<"then", "w", ";", "fi">>} :
                l, m, n \in FewLists}
InFront == {<<>>, <<"w", "<<", "A", "&&">>}
InBack == {<<>>, <<">", "w">>, <<"<<", "B">>, <<"&">>, <<"|", "w", "(", ")", "{", "w", ";", "}">>}

\* The texts behind the newline that ends the line of their operators.
Laid(ts) ==
    LET opened(k) == SelectSeq(Numbered(ts), LAMBDA i : i < k /\ ts[i] = "<<" /\ \A j \in i..k - 1 : ts[j] # "nl")
        line(k) == IF ts[k] # "nl" THEN <<ts[k]>>
                 ELSE <<"nl">> \o [i \in DOMAIN opened(k) |-> HereText[ts[opened(k)[i] + 1]]]
    IN  FlattenSeq([k \in DOMAIN ts |-> line(k)])
WithSpecial == {<<"set", "w", "nl">>, <<"set", "(", ")", "{", "w", ";", "}", "nl">>, <<"w", "(", ")", "set", "nl">>,
                <<"for", "set", "nl", "do", "w", ";", "done", "nl">>}
SomeSources == WithSpecial \cup UNION {[1..n -> CommandTokens] : n \in 1..3}
               \cup {Laid(a \o c \o b \o <<"nl">>) : a \in InFront, c \in One \cup Two \cup Loops \cup Three, b \in InBack}

\* Braces: all words of up to seven characters, and those of a few fragments with sequences in them.
BraceFragments == {<<"{">>, <<"}">>, <<",">>, <<"a">>, <<"Q">>, <<"{", ",", "}">>, <<"0", "1">>, <<"-", "2">>, <<".", ".">>,
                   <<"{", "1", ".", ".", "3">>, <<"{", "Z", ".", ".", "a">>}
SequenceTerms == {<<"0">>, <<"3">>, <<"-", "1">>, <<"+", "0", "2">>, <<"1", "1">>, <<"-", "2", "0">>, <<"2", "1">>, <<"a">>, <<"Y">>, <<"a", "b">>, <<"Q">>}
SomeBraceWords == {[1..n -> {"{", "}", ",", "a"}] : n \in 0..7} \cup {OfFour(BraceFragments),
                   {<<"{">> \o a \o <<".", ".">> \o b \o <<"}">> \o c : a, b \in SequenceTerms, c \in {<<>>, <<"{", ",", "}">>}},
                   {<<"{">> \o a \o <<".", ".">> \o b \o <<".", ".">> \o c \o <<"}">> : a, b, c \in SequenceTerms}}

\* Slices: texts, lists, and arrays with and without gaps.
SliceOf(kind, elements, keys, offset, length) ==
    [kind |-> kind, elements |-> elements, keys |-> keys, offset |-> offset, length |-> length]
SliceOffsets == {-20, -6, -4, -3, -2, -1, 0, 1, 2, 3, 4, 5, 6, 20}
SliceLengths == {<<>>} \cup {<<n>> : n \in SliceOffsets}
SomeSlices == {{SliceOf("text", t, <<>>, o, n) : t \in {<<>>, <<"a">>, <<"a", "b">>, <<"a", "b", "c">>}, o \in SliceOffsets, n \in SliceLengths},
               {SliceOf("positional", t, <<>>, o, n) : t \in {<<>>, <<"a">>, <<"a", "b">>}, o \in SliceOffsets, n \in SliceLengths},
               {SliceOf("array", <<"a", "b", "c">>, k, o, n) : k \in {<<0, 1, 2>>, <<0, 2, 3>>, <<1, 3, 5>>}, o \in SliceOffsets, n \in SliceLengths},
               {SliceOf("array", <<>>, <<>>, o, n) : o \in SliceOffsets, n \in SliceLengths}}

\* Divisions: expressions with conditionals, parentheses and subscripts nested in each other.
PlainExpressions == {<<>>, <<"a">>, <<"Q">>}
InBrackets(E) == E \cup {<<"(">> \o e \o <<")">> : e \in E} \cup {<<"a", "[">> \o e \o <<"]">> : e \in E}
Conditional(C, D, E) == {c \o <<"?">> \o d \o <<":">> \o e : c \in C, d \in D, e \in E}
NestedExpressions == InBrackets(PlainExpressions \cup Conditional(PlainExpressions, PlainExpressions, {<<"a">>}))
SomeExpressionTexts ==
    NestedExpressions \cup Conditional({<<"a">>}, NestedExpressions, {<<"a">>})
    \cup Conditional({<<"a">>}, {<<"a">>}, NestedExpressions) \cup Conditional(NestedExpressions, {<<>>}, {<<"a">>})
SomeDivisions == {{[left |-> e, right |-> <<>>] : e \in SomeExpressionTexts},
                  {[left |-> e, right |-> <<":">> \o f] : e \in SomeExpressionTexts, f \in {<<>>, <<"a", ":", "?">>}}}

\* Replacements: up to three runs of text, each character of which has some way to be written.
Spellings == [c \in {"a", "&", "\\"} |-> CASE c = "a" -> {<<"a">>} [] c = "&" -> {<<"q&">>, <<"\\", "&">>}
                                           [] c = "\\" -> {<<"q\\">>, <<"\\", "\\">>}]
RunSpellings == {[run |-> <<>>, units |-> <<>>], [run |-> <<"\\", "a">>, units |-> <<"\\", "a">>]}
    \cup UNION {{[run |-> <<c>>, units |-> u] : u \in Spellings[c]} : c \in DOMAIN Spellings}
    \cup UNION {{[run |-> <<c, d>>, units |-> u \o v] : u \in Spellings[c], v \in Spellings[d]} : c, d \in DOMAIN Spellings}
ReplacedPatterns == {<<"a">>, <<"#">>, <<"%", "a">>, <<"/">>, <<"/", "Q">>}
SomeReplacements == {{[pattern |-> p, all |-> all, units |-> s.units \o <<"&">> \o t.units, runs |-> <<s.run, t.run>>] :
                        p \in ReplacedPatterns, all \in BOOLEAN, s, t \in RunSpellings},
                     {[pattern |-> p, all |-> all, units |-> s.units \o <<"&", "&">>, runs |-> <<s.run, <<>>, <<>>>>] :
                        p \in ReplacedPatterns, all \in BOOLEAN, s \in RunSpellings}}

\* Values: lists of up to three words in every context.
ValueWords == {<<>>, <<"a">>, <<"a", "b">>}
SomeValues == {{[kind |-> kind, words |-> w, full |-> full, quoted |-> shut] :
                 kind \in {"at", "star"}, w \in UNION {[1..n -> ValueWords] : n \in 0..3}, full, shut \in BOOLEAN},
               {[kind |-> "one", words |-> <<w>>, full |-> FALSE, quoted |-> FALSE] : w \in ValueWords},
               {[kind |-> "unset", words |-> <<>>, full |-> FALSE, quoted |-> FALSE]}}

\* A reader that is out of focus has one empty input only.
IdleLexer   == reading = [of |-> "source", case |-> Read("word", <<>>, FALSE), word |-> <<>>]
               /\ lexer = [Begun(Read("word", <<>>, FALSE)) EXCEPT !.state = "error"] /\ suspended = <<>>
IdleGrammar == BeginReading({<<>>})
IdleExpansion == operand = [of |-> "none", case |-> <<>>] /\ produced = <<>>

Init ==
    \/ focus = "word"    /\ LInit /\ IdleGrammar /\ IdleExpansion
    \/ focus = "grammar" /\ GInit /\ IdleLexer /\ IdleExpansion
    \/ focus = "expansion" /\ XInit /\ IdleLexer /\ IdleGrammar

Next ==
    /\ UNCHANGED focus
    /\ \/ focus = "word"    /\ LNext /\ UNCHANGED <<gvars, xvars>>
       \/ focus = "grammar" /\ GNext /\ UNCHANGED <<lvars, xvars>>
       \/ focus = "expansion" /\ XNext /\ UNCHANGED <<lvars, gvars>>

Spec == Init /\ [][Next]_<<focus, lvars, gvars, xvars>>

\* A word ends where it should, in the frame it began in, and its spelling reads back as the same word
\* (word_lexer.rs, nodes/source/word.rs).
WordsReadBack == StopsBefore /\ EndsInItsFrame /\ ReadsBack

\* A here-document is delimited by what was written and holds the lines in front of it (parse_here_documents).
HereDocumentsAreExact == DelimiterIsItsSource /\ BodyEndsAtDelimiter

\* A program is parsed as its tokens read, its here-documents in the order of their operators, and is
\* printed as a program that parses to the same tree (grammar.rs, nodes/source.rs).
CommandsAreExact == ParsesAsWritten /\ RespelledReadsBack

\* Braces, slices, divided operands, replacements and lists are what they were written as, within the
\* limits of the expansion (brace.rs, typed/bash.rs).
ExpansionsAreExact ==
    BracesAreExact /\ SlicesAreExact /\ DivisionsAreExact /\ ReplacementsAreExact /\ ListsAreMappedFirst
=============================================================================
