----------------------------- MODULE MCLanguage -----------------------------
(* The shell's languages over bounded inputs: patterns, regular expressions,  *)
(* arithmetic, conditions and words.  A behaviour is one input of one of them *)
(* (focus).                                                                   *)
EXTENDS Patterns, Regex, Conditions, Words

VARIABLE focus

\* Patterns: an atom or a group followed by an atom, and a star or a question
\* mark in front of a group (but not the two stars of "**(").
Atoms == {<<"a">>, <<"b">>, <<"?">>, <<"*">>, <<"[", "a", "ab", "]">>, <<"[", "!", "a", "]">>, <<"[">>}
Alts == {<<"a">>, <<"a", "|", "a", "b">>, <<"|", "b">>, <<"*", "b">>, <<"!", "(", "a", ")">>}
Groups == {<<kind, "(">> \o alt \o <<")">> : kind \in {"?", "*", "+", "@", "!"}, alt \in Alts}
AllGlobs == {a \o b : a \in Atoms \cup Groups, b \in Atoms \cup {<<>>}}
            \cup {a \o g : a \in {<<"*">>, <<"?">>}, g \in Groups} \cup {<<"@", "(", "a">>}
SomeGlobs == {g \in AllGlobs : \A i \in 1..Len(g) - 2 : SubSeq(g, i, i + 2) # <<"*", "*", "(">>}
SomeTexts == UNION {[1..n -> {"a", "b"}] : n \in 0..3}

\* Expressions: all token lists of up to three tokens, chains of two operators, parenthesised ones, and every
\* operator at the edges of the numbers.
ArithmeticTokens == {"1", "2", "x", "=", "+=", ",", "?", ":", "||", "&&", "+", "*", "<", "**", "-", "!", "++", "(", ")"}
Short == UNION {[1..n -> ArithmeticTokens] : n \in 0..3}
Operands == {<<"2">>, <<"x">>, <<"x", "++">>}
Infix == BinaryOperator \cup {",", "?", ":", "||", "&&", "**"}
Chains == {a \o <<o>> \o b \o <<p>> \o c : a, b \in Operands, c \in {<<"2">>, <<"x">>}, o, p \in Infix}
Nested == {<<"(">> \o a \o <<o>> \o b \o <<")">> \o <<p>> \o c :
              a, c \in Operands, b \in {<<"2">>, <<"-", "x">>}, o \in Infix \cup {"="},
              p \in {"*", "**", "&&", "?"}}
Long == {<<"x", "=", "1", "<<", "3">>,
         <<"x", "=", "1", "?", "y", "=", "2", ":", "x", "++">>,
         <<"0", "?", "x", "++", ":", "1", "?", "y", ":", "2">>,
         <<"1", "?", "0", "?", "2", ":", "3", ":", "4">>}
LeastTokens == <<"(", "-", "7", "-", "1", ")">>
EdgeOperands == {LeastTokens, <<"-", "7">>, <<"-", "3">>, <<"-", "1">>, <<"0">>, <<"1">>, <<"3">>, <<"5">>, <<"7">>, <<"12">>}
Edges == {a \o <<o>> \o b : a, b \in EdgeOperands, o \in BinaryOperator \cup {"**"}}
         \cup {<<u>> \o a : u \in Unary, a \in EdgeOperands}
         \cup {<<"x", "=">> \o a \o <<",", "x", o>> \o b : a, b \in EdgeOperands, o \in {"+=", "**="}}
         \cup {<<"x", "=">> \o a \o <<",">> \o b : a \in EdgeOperands, b \in {<<"x", "++">>, <<"++", "x">>, <<"x">>}}
SomeExpressions == UNION {Short, Chains, Nested, Long, Edges}
Holding(vars, nounset) == [vars |-> vars, nounset |-> nounset]
SomeEnvironments == {Holding([x |-> <<"y", "+", "1">>, y |-> <<"2">>], FALSE),
                     Holding([x |-> <<"y">>, y |-> <<"x">>], FALSE),
                     Holding([x |-> <<>>], FALSE),
                     Holding([x |-> <<"3">>], TRUE)}

\* Words: one part, an operator beside a part, and three parts; tildes in one text.
Parts == {Text(b, TRUE) : b \in {<<>>, <<" ">>}} \cup {Text(b, FALSE) : b \in {<<"a">>, <<"~">>, <<"=">>, <<":">>}}
         \cup {Parameter(n, q) : n \in {"v", "@", "*"}, q \in BOOLEAN}
         \cup {Output(<<"a", " ", "nl">>, q) : q \in BOOLEAN}
Outer == {Text(<<>>, TRUE), Text(<<"a">>, FALSE), Parameter("v", FALSE), Parameter("@", TRUE)}
Alternates == {<<>>, <<Text(<<"~">>, FALSE)>>, <<Text(<<"a", " ", "b">>, FALSE), Parameter("@", TRUE)>>,
               <<Text(<<" ">>, TRUE), Parameter("v", FALSE)>>}
Operations == {Operation(o, colon, a, q) : o \in {"-", "+", "?", "="}, colon \in BOOLEAN, a \in Alternates, q \in BOOLEAN}
              \cup {Operation("#", FALSE, <<>>, q) : q \in BOOLEAN}
Tildes == {<<Text(b, FALSE)>> : b \in UNION {[1..n -> {"a", "~", "=", ":", "/"}] : n \in 1..4}}
Bare(p) == p.kind = "text" /\ ~p.quoted
SomeWords ==
    {w \in {<<a>> : a \in Parts \cup Operations} \cup {<<a, b>> : a \in Operations, b \in Outer}
           \cup {<<b, a>> : a \in Operations, b \in Outer} \cup {<<a, b>> : a, b \in Parts}
           \cup {<<a, b, c>> : a, c \in Outer, b \in Parts} :
       \A i \in 1..Len(w) - 1 : ~(Bare(w[i]) /\ Bare(w[i + 1]))} \cup Tildes
SomeWordEnvironments ==
    {Environment(v, <<>>, <<" ", ":">>, v = Unset) : v \in {Unset, <<>>, <<" ", "a">>, <<"a", " ", ":", " ", "b">>}}
    \cup {Environment(<<"a", ":", " ", "b">>, p, i, FALSE) :
            p \in {<<<<>>, <<"a">>>>, <<<<" ">>, <<>>, <<"b">>>>}, i \in {<<>>, <<":">>, <<" ", ":">>}}
    \cup {Environment(Unset, <<<<"a">>>>, <<" ">>, FALSE)}
SomeLines == UNION {[1..n -> [c : {"a", " ", ":"}, protected : {FALSE}] \cup [c : {"a", " "}, protected : {TRUE}]] : n \in 0..5}
SomeSeparators == {<<>>, <<" ">>, <<" ", ":">>}

\* Regular expressions: all patterns of up to three characters, and the ones whose groups, repeats and
\* brackets meet; quoted characters are literal.
PlainUnits(t) == [i \in DOMAIN t |-> PlainUnit(t[i])]
ShortRegexes == UNION {[1..n -> {"a", "b", "(", ")", "|", "*", "?"}] : n \in 1..3}
LongRegexes ==
    {<<"(", "a", "|", "a", "b", ")", "(", "c", "|", "b", ")">>, <<"(", "a", "*", ")", "*", "b">>,
     <<"(", "(", "a", ")", "|", "b", ")", "*">>, <<"(", "(", "(", "a", ")", ")", ")">>,
     <<"(", "a", "|", "b", "?", ")", "{", "2", "}">>, <<"a", "{", "1", ",", "}", "$">>,
     <<"(", "a", "|", "b", ")", "{", "1", ",", "2", "}", "b">>, <<"a", "{", "2", ",", "1", "}">>,
     <<"a", "{", "9", "}">>, <<"[", "^", "a", "]", "+">>, <<"[", "a", "-", "b", "]", "{", "2", "}">>,
     <<"[", "]", "]">>, <<"[", "[", ":", "b", ":", "]", "c", "]", ".">>, <<"[", "a">>,
     <<"(", "a", "?", ")", "(", "a", "b", ")", "?">>, <<"(", "^", "a", ")", "*", "b">>}
QuotedRegexes ==
    {<<QuotedUnit("*"), PlainUnit("a")>>, <<PlainUnit("a"), QuotedUnit("+")>>,
     <<PlainUnit("["), QuotedUnit("a"), QuotedUnit("-"), PlainUnit("b"), PlainUnit("]"), PlainUnit("$")>>}
SomeRegexes == {PlainUnits(t) : t \in ShortRegexes \cup LongRegexes} \cup QuotedRegexes
SomeSubjects == UNION {[1..n -> {"a", "b"}] : n \in 0..2}
                \cup {<<"a", "b", "c">>, <<"a", "a", "b", "b">>, <<"*", "a">>}

\* Conditions: all argument lists of test of up to four words, all token lists of up to three in [[ ]], and
\* expressions with up to two connectives.
SomeArguments == UNION {[1..n -> {"", "x", "1", "!", "(", ")", "-n", "=", "-eq", "-a", "-o"}] : n \in 0..4}
SomeConditionTexts ==
    {t \o <<"]]">> : t \in UNION {[1..n -> {"x", "!", "(", ")", "&&", "||", "nl", "-n", "=", "<<", "]]"}] : n \in 0..3}}
Leaf == {<<"word", "">>, <<"word", "x">>, <<"unary", "-n", "x">>, <<"unary", "-f", "x">>, <<"binary", "f", "-nt", "g">>,
         <<"binary", "g", "-ot", "y">>, <<"binary", "l", "-ef", "g">>, <<"binary", "1", "-eq", "2">>,
         <<"binary", "1", "-lt", "x">>, <<"binary", "", "<", "x">>,
         <<"binary", "1+1", "-eq", "2">>, <<"binary", "", "-eq", "y">>, <<"binary", "x++", "-lt", "x">>,
         <<"binary", "x=2", "-eq", "1+">>, <<"binary", "1/y", "-lt", "x=2">>, <<"binary", "x", "-eq", "y">>}
FewLeaf == {<<"word", "">>, <<"word", "x">>, <<"binary", "1", "-lt", "x">>, <<"binary", "x=2", "-eq", "y">>}
Either(es) == es \cup {<<"not", e>> : e \in es}
Grouped == {<<"group", <<"or", a, b>>>> : a, b \in FewLeaf}
Conjunctions == {<<"and", a, b>> : a \in Either(FewLeaf), b \in FewLeaf}
SomeTrees == Either(Leaf) \cup {<<"and", a, b>> : a, b \in Either(Leaf) \cup Either(Grouped)}
             \cup {<<"or", a, b>> : a, b \in Conjunctions \cup FewLeaf}
             \cup {<<"and", a, b>> : a \in Conjunctions, b \in Either(FewLeaf)}
SomeConditionEnvironments ==
    {Holding([x |-> <<"1">>, y |-> <<"0">>], FALSE), Holding(<<>>, FALSE), Holding([x |-> <<"1">>], TRUE)}

\* A language that is out of focus has one empty input only.
IdlePattern    == BeginMatching({<<>>}, {<<>>}, {"#"}, {1})
IdleArithmetic == BeginExpanding({<<>>}, {<<>>})
IdleRegex      == BeginSearching({<<>>}, {<<>>}, {1})

Init ==
    \/ focus = "pattern"    /\ PInit /\ IdleRegex /\ IdleArithmetic /\ CIdle /\ WIdle
    \/ focus = "regex"      /\ RInit /\ IdlePattern /\ IdleArithmetic /\ CIdle /\ WIdle
    \/ focus = "arithmetic" /\ AInit /\ IdlePattern /\ IdleRegex /\ CIdle /\ WIdle
    \/ focus = "condition"  /\ CInit /\ IdlePattern /\ IdleRegex /\ IdleArithmetic /\ WIdle
    \/ focus = "word"       /\ WInit /\ IdlePattern /\ IdleRegex /\ IdleArithmetic /\ CIdle

Next ==
    /\ UNCHANGED focus
    /\ \/ focus = "pattern"    /\ PNext /\ UNCHANGED <<rvars, avars, cvars, wvars>>
       \/ focus = "regex"      /\ RNext /\ UNCHANGED <<pvars, avars, cvars, wvars>>
       \/ focus = "arithmetic" /\ ANext /\ UNCHANGED <<pvars, rvars, cvars, wvars>>
       \/ focus = "condition"  /\ CNext /\ UNCHANGED <<pvars, rvars, avars, wvars>>
       \/ focus = "word"       /\ WNext /\ UNCHANGED <<pvars, rvars, avars, cvars>>

Spec == Init /\ [][Next]_<<focus, pvars, rvars, avars, cvars, wvars>>

\* A pattern is matched, and cut from or replaced in a text, as what it means says, whatever the memo
\* has kept of earlier questions; a regular expression finds the leftmost match and its groups (pattern.rs,
\* regex.rs).
MatchesAreExact == AnswerIsExact /\ OperationIsExact /\ SearchIsExact

\* An arithmetic expression has the value, the effects and the errors that its grammar and its numbers give
\* it, and what is assigned reads back (arithmetic.rs, lexer.rs).
ArithmeticIsExact == EvaluatesAsWritten /\ ValuesReadBack

\* A word expands to the fields it means, and read splits a line the same way (typed.rs, expand.rs).
WordsAreExact == FieldsAreExact /\ ReadIsExact
=============================================================================
