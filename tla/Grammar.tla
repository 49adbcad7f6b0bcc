------------------------------ MODULE Grammar ------------------------------
(* The parser over tokens, and the printer that spells a tree back            *)
(* (parser/grammar.rs, parser/keywords.rs, parser/finalize.rs, read_token of  *)
(* parser.rs; nodes/source.rs).  The parser reads one token ahead and pushes  *)
(* it back, decides by its context whether a word is reserved, and reads the  *)
(* bodies of here-documents when it consumes a newline; the operators are     *)
(* joined to the bodies afterwards, in the order of the tree.                 *)
(*                                                                            *)
(* A source is a sequence of tokens.  The text of a here-document is one      *)
(* token, named by its delimiter; where the parser does not expect it, it is  *)
(* a word like any other.  Aliases are in InputStack; the Bash forms, the     *)
(* spelling of words and the limit on nesting are left out.                   *)
EXTENDS FiniteSetsExt, Naturals, Sequences, SequencesExt

CONSTANT Sources    \* the token sequences tried

ASSUME GrammarAssumption == Sources # {}

Reserved == {"!", "case", "do", "done", "elif", "else", "esac", "fi", "for", "if", "in", "then",
             "until", "while", "{", "}"}
Operators == {";", "&", "&&", "||", "|", "(", ")", ";;", ";&", "nl", ">", "<<"}
Redirecting == {">", "<<"}
Assignment == "x="
AllArguments == "$@"        \* the words of a for without in
quoted == [t \in Reserved |-> "'" \o t \o "'"]
HereText == [A |-> "text of A", B |-> "text of B"]
IsText(t) == \E d \in DOMAIN HereText : t = HereText[d]

\* A node: the words spelled in it, what is under it in order, its redirections.
Node(kind, words, kids, redirections) ==
    [kind |-> kind, words |-> words, kids |-> kids, redirections |-> redirections]
NoNode == Node("none", <<>>, <<>>, <<>>)

-----------------------------------------------------------------------------
(* Reading tokens.  p is the parser: the source and the place in it, the last *)
(* token and whether it is pushed back, the operators still without a body,   *)
(* the bodies read, and the node the last rule has built.                     *)

Parser(ts, at) == [ts |-> ts, at |-> at, back |-> FALSE, last |-> "none", word |-> "none",
                   pending |-> <<>>, bodies |-> <<>>, bad |-> FALSE, node |-> NoNode]
expected_token_error(p) == [p EXCEPT !.bad = TRUE, !.node = NoNode]
PushBack(p) == [p EXCEPT !.back = TRUE]
Built(p, node) == IF p.bad THEN p ELSE [p EXCEPT !.node = node]

\* A token that was pushed back keeps the kind it was given.
read_next_token(p) ==
    CASE p.back           -> [p EXCEPT !.back = FALSE]
      [] p.at > Len(p.ts) -> [p EXCEPT !.last = "eof"]
      [] OTHER            -> LET t == p.ts[p.at] IN
            [p EXCEPT !.at = @ + 1, !.word = t, !.last = IF t \in Operators THEN t ELSE "word"]

\* One body is the text up to the line that is its delimiter.
ReadBody(p, d) ==
    LET closes == {k \in p.at..Len(p.ts) : p.ts[k] = HereText[d]} IN
    [p EXCEPT !.at = IF closes = {} THEN Len(p.ts) + 1 ELSE Min(closes) + 1,
              !.bodies = Append(@, IF closes # {} /\ Min(closes) = p.at THEN d ELSE "other")]

parse_here_documents(p) == FoldLeft(ReadBody, [p EXCEPT !.pending = <<>>], p.pending)

\* TokenContext; {} is NONE.
COMMAND_START == {"reserved"}
COMMAND_START_AFTER_NEWLINES == {"reserved", "newlines"}

RECURSIVE read_token(_, _)
Recognised(q, context) ==
    CASE q.bad -> q
      [] "newlines" \in context /\ q.last = "nl" -> read_token(parse_here_documents(q), context)
      [] "reserved" \in context /\ q.last = "word" /\ q.word \in Reserved -> [q EXCEPT !.last = q.word]
      [] OTHER -> q
read_token(p, context) == IF p.bad THEN p ELSE Recognised(read_next_token(p), context)

Matching(q, kind) == IF q.bad \/ q.last = kind THEN q ELSE expected_token_error(q)
Expect(p, context, kind) == Matching(read_token(p, context), kind)

ends_list(kind) ==
    kind \in {"eof", ")", ";;", ";&", "do", "done", "elif", "else", "esac", "fi", "then", "}"}
can_be_case_pattern(kind) == kind = "word" \/ kind \in Reserved

-----------------------------------------------------------------------------
(* The rules *)

RECURSIVE list_from(_, _, _, _), parse_and_or(_, _), stages_from(_, _), parse_simple_command(_, _, _)
RECURSIVE redirections_from(_, _, _), if_command(_), clauses_from(_, _), patterns_from(_, _), words_from(_, _)
\* The rules that nest in one another: a list in a mode, a command in a context.
RECURSIVE ParseRule(_, _, _), here_documents(_)

list(p, mode) == ParseRule("list", p, mode)
required(p) == IF ~p.bad /\ p.node = NoNode THEN expected_token_error(p) ELSE p
Compound(p) == required(list(p, "compound"))

Backgrounded(n) ==
    CASE n.kind = "pipeline" -> [n EXCEPT !.words = <<"&">>]
      [] n.kind = "redirect" -> [n EXCEPT !.kind = "background"]
      [] OTHER               -> Node("background", <<>>, <<n>>, <<>>)

\* list: sofar is what it has read, stop whether a terminator may come now; q is the first token, x
\* the command read and y the token behind it.
ListBehind(x, y, mode, sofar) ==
    LET n == IF y.last = "&" THEN Backgrounded(x.node) ELSE x.node
        l == IF sofar = NoNode THEN n ELSE Node("sequence", <<>>, <<sofar, n>>, <<>>)
    IN  CASE y.bad                 -> y
          [] y.last = "eof"        -> Built(PushBack(parse_here_documents(y)), l)
          [] y.last = "nl"         -> list_from(PushBack(y), mode, l, mode # "top")
          [] y.last \in {";", "&"} -> list_from(y, mode, l, mode # "top")
          [] mode = "top"          -> expected_token_error(y)
          [] OTHER                 -> Built(PushBack(y), l)
ListItem(x, mode, sofar) == ListBehind(x, read_token(x, {}), mode, sofar)
ListAt(q, mode, sofar, stop) ==
    CASE q.bad -> q
      [] q.last = "nl"  -> Built(parse_here_documents(q), sofar)
      [] q.last = "eof" -> Built(PushBack(parse_here_documents(q)), sofar)
      [] stop /\ ends_list(q.last) -> Built(PushBack(q), sofar)
      [] OTHER -> ListItem(parse_and_or(PushBack(q), NoNode), mode, sofar)
list_from(p, mode, sofar, stop) ==
    ListAt(read_token(p, COMMAND_START \cup IF mode = "top" THEN {} ELSE {"newlines"}), mode, sofar, stop)

\* The commands of a pipeline behind the first ones.
Staged(z, stages) == IF z.bad THEN z ELSE stages_from(z, Append(stages, z.node))
StageBehind(y, stages) ==
    CASE y.bad        -> y
      [] y.last = "|" -> Staged(ParseRule("command", y, COMMAND_START_AFTER_NEWLINES), stages)
      [] OTHER        -> Built(PushBack(y), IF Len(stages) = 1 THEN stages[1]
                                            ELSE Node("pipeline", <<>>, stages, <<>>))
stages_from(p, stages) == StageBehind(read_token(p, {}), stages)

Negated(x) == Built(x, Node("not", <<>>, <<x.node>>, <<>>))
PipelineAt(q) ==
    CASE q.bad -> q
      [] q.last = "!" ->
           Negated(Staged(ParseRule("command", PushBack(read_token(q, COMMAND_START)), COMMAND_START), <<>>))
      [] OTHER -> Staged(ParseRule("command", PushBack(q), {}), <<>>)
pipeline(p, context) == PipelineAt(read_token(p, context))

\* parse_and_or: joins pipelines to the left one, a newline may follow the operator.
AndOrNext(x, op, left) ==
    IF x.bad THEN x
    ELSE parse_and_or(x, IF left = NoNode THEN x.node
                         ELSE Node(IF op = "&&" THEN "and" ELSE "or", <<>>, <<left, x.node>>, <<>>))
AndOrBehind(y, left) ==
    CASE y.bad -> y
      [] y.last \in {"&&", "||"} -> AndOrNext(pipeline(y, COMMAND_START_AFTER_NEWLINES), y.last, left)
      [] OTHER -> Built(PushBack(y), left)
parse_and_or(p, left) ==
    IF left = NoNode THEN AndOrNext(pipeline(p, {}), "none", NoNode) ELSE AndOrBehind(read_token(p, {}), left)

\* if_command and its elif parts; the closing fi is the caller's.
IfElse(e, c, b) == Built(e, Node("if", <<>>, <<c, b, e.node>>, <<>>))
IfBehind(y, c, b) ==
    CASE y.bad -> y
      [] y.last = "elif" -> IfElse(if_command(y), c, b)
      [] y.last = "else" -> IfElse(list(y, "compound"), c, b)
      [] OTHER -> Built(PushBack(y), Node("if", <<>>, <<c, b>>, <<>>))
IfThen(b, c) == IfBehind(read_token(b, {}), c, b.node)
IfCondition(c) == IfThen(Compound(Expect(c, {}, "then")), c.node)
if_command(p) == IfCondition(Compound(p))

WordsAt(y, words) ==
    CASE ~y.bad /\ y.last = "word" -> words_from(y, Append(words, y.word))
      [] y.last \in {"nl", ";"} -> Built(y, Node("words", words, <<>>, <<>>))
      [] OTHER -> expected_token_error(y)
words_from(p, words) == WordsAt(read_token(p, {}), words)

is_valid_name(t) == t \notin {"!", "{", "}", Assignment, AllArguments} /\ ~IsText(t)
                    /\ t \notin {quoted[r] : r \in Reserved}

SpecialBuiltins == {"set"}                  \* one of the special built-ins
accepts_function_name(t) == is_valid_name(t) /\ t \notin SpecialBuiltins

IterationBody(b, name, words) == Built(b, Node("for", <<name>> \o words, <<b.node>>, <<>>))
IterationWords(w, name) ==
    IterationBody(Compound(Expect(w, COMMAND_START_AFTER_NEWLINES, "do")), name, w.node.words)
IterationIn(y) ==
    IF y.last = "in" THEN words_from(y, <<>>)
    ELSE Built(IF y.last = ";" THEN y ELSE PushBack(y), Node("words", <<AllArguments>>, <<>>, <<>>))
IterationName(v) ==
    IF v.bad \/ v.last # "word" \/ ~is_valid_name(v.word) THEN expected_token_error(v)
    ELSE IterationWords(IterationIn(read_token(v, COMMAND_START_AFTER_NEWLINES)), v.word)
iteration_command(p) == IterationName(read_token(p, {}))

\* The patterns of a clause from the one just read to the closing parenthesis.
PatternBehind(y, patterns) ==
    CASE y.last = "|" -> patterns_from(read_token(y, {}), patterns)
      [] y.last = ")" -> Built(y, Node("patterns", patterns, <<>>, <<>>))
      [] OTHER        -> expected_token_error(y)
patterns_from(p, patterns) ==
    IF p.bad \/ ~can_be_case_pattern(p.last) THEN expected_token_error(p)
    ELSE PatternBehind(read_token(p, {}), Append(patterns, p.word))

ClauseBehind(y, patterns, node, clauses) ==
    LET c == Node(IF y.last = ";&" THEN "fallthrough" ELSE "clause", patterns,
                  IF node = NoNode THEN <<>> ELSE <<node>>, <<>>)
        all == Append(clauses, c)
    IN  CASE y.bad -> y
          [] y.last = "esac" -> Built(y, Node("clauses", <<>>, all, <<>>))
          [] y.last \in {";;", ";&"} -> clauses_from(y, all)
          [] OTHER -> expected_token_error(y)
ClauseBody(b, patterns, clauses) ==
    ClauseBehind(read_token(b, COMMAND_START_AFTER_NEWLINES), patterns, b.node, clauses)
ClausePatterns(w, clauses) == ClauseBody(list(w, "stop"), w.node.words, clauses)
ClauseAt(q, clauses) ==
    CASE q.bad -> q
      [] q.last = "esac" -> Built(q, Node("clauses", <<>>, clauses, <<>>))
      [] OTHER -> ClausePatterns(patterns_from(IF q.last = "(" THEN read_token(q, {}) ELSE q, <<>>), clauses)
clauses_from(p, clauses) == ClauseAt(read_token(p, COMMAND_START_AFTER_NEWLINES), clauses)

CaseClauses(c, word) == Built(c, Node("case", <<word>>, c.node.kids, <<>>))
CaseWord(w) == CaseClauses(clauses_from(Expect(w, COMMAND_START_AFTER_NEWLINES, "in"), <<>>), w.word)
case_command(p) == CaseWord(Expect(p, {}, "word"))

\* parse_redirection_target.
TargetOf(z, op) == IF ~z.bad /\ op = "<<" THEN [z EXCEPT !.pending = Append(@, z.word)] ELSE z
Target(p) == TargetOf(Expect(p, {}, "word"), p.last)

RedirectionTarget(z, op, sofar) == IF z.bad THEN z ELSE redirections_from(z, {}, Append(sofar, <<op, z.word>>))
RedirectionAt(y, sofar) ==
    CASE y.bad -> y
      [] y.last \in Redirecting -> RedirectionTarget(Target(y), y.last, sofar)
      [] OTHER -> Built(PushBack(y), Node("redirections", <<>>, <<>>, sofar))
redirections_from(p, context, sofar) == RedirectionAt(read_token(p, context), sofar)

\* The words (assignments first) and redirections so far; a lone word and a parenthesis define a
\* function.
SimpleTarget(z, op, words, redirections) ==
    IF z.bad THEN z ELSE parse_simple_command(z, words, Append(redirections, <<op, z.word>>))
FunctionBody(body, name) == Built(body, Node("function", <<name>>, <<body.node>>, <<>>))
SimpleAt(y, words, redirections) ==
    CASE y.bad -> y
      [] y.last = "word" -> parse_simple_command(y, Append(words, y.word), redirections)
      [] y.last \in Redirecting -> SimpleTarget(Target(y), y.last, words, redirections)
      [] y.last = "(" /\ Len(words) = 1 /\ words[1] # Assignment /\ redirections = <<>> ->
           IF ~accepts_function_name(words[1]) THEN expected_token_error(y)
           ELSE FunctionBody(ParseRule("command", Expect(y, {}, ")"), COMMAND_START_AFTER_NEWLINES), words[1])
      [] OTHER -> Built(PushBack(y), Node("command", words, <<>>, redirections))
parse_simple_command(p, words, redirections) == SimpleAt(read_token(p, {}), words, redirections)

\* A compound command and the redirections behind it.
Redirected(n, with) ==
    CASE with = <<>> -> n
      [] with # <<>> /\ n.kind \in {"subshell", "group"} -> [n EXCEPT !.redirections = with]
      [] OTHER -> Node("redirect", <<>>, <<n>>, with)
WrappedIn(r, node) == IF r.bad THEN expected_token_error(r) ELSE Built(r, Redirected(node, r.node.redirections))
Wrapped(x) == IF x.bad THEN expected_token_error(x) ELSE WrappedIn(redirections_from(x, COMMAND_START, <<>>), x.node)

LoopBody(b, kind, condition) == Built(b, Node(kind, <<>>, <<condition, b.node>>, <<>>))
LoopCondition(c, kind) == LoopBody(Compound(Expect(c, {}, "do")), kind, c.node)
Enclosed(b, kind) == Built(b, Node(kind, <<>>, <<b.node>>, <<>>))

\* What stands in front of the token that closes it.
CompoundOf(q) ==
    CASE q.last = "if"   -> if_command(q)
      [] q.last \in {"while", "until"} -> LoopCondition(Compound(q), q.last)
      [] q.last = "for"  -> iteration_command(q)
      [] q.last = "case" -> case_command(q)
      [] q.last = "("    -> Enclosed(Compound(q), "subshell")
      [] q.last = "{"    -> Enclosed(Compound(q), "group")
Closing == [t \in {"if", "while", "until", "for", "(", "{"} |->
              CASE t = "if" -> "fi" [] t = "(" -> ")" [] t = "{" -> "}" [] OTHER -> "done"]
CommandAt(q) ==
    CASE q.bad -> q
      [] q.last = "case" -> Wrapped(CompoundOf(q))
      [] q.last \in DOMAIN Closing -> Wrapped(Expect(CompoundOf(q), {}, Closing[q.last]))
      [] q.last \in {"word"} \cup Redirecting -> parse_simple_command(PushBack(q), <<>>, <<>>)
      [] OTHER            -> expected_token_error(q)
command(p, context) == CommandAt(read_token(p, context))

ParseRule(rule, p, how) ==
    IF rule = "list" THEN list_from(p, how, NoNode, how = "stop") ELSE command(p, how)

-----------------------------------------------------------------------------
(* finalize.rs, and the units of a source *)

\* Mutant: a compound command's own operators take their bodies before those inside it.
OutsideFirst(node) ==
    LET own == SelectSeq(node.redirections, LAMBDA r : r[1] = "<<")
    IN  [i \in DOMAIN own |-> own[i][2]] \o FlattenSeq([i \in DOMAIN node.kids |-> here_documents(node.kids[i])])

\* The here-document operators in the order they are given the bodies.
here_documents(node) ==
    LET own == SelectSeq(node.redirections, LAMBDA r : r[1] = "<<")
    IN  FlattenSeq([i \in DOMAIN node.kids |-> here_documents(node.kids[i])]) \o [i \in DOMAIN own |-> own[i][2]]

\* One unit; a body without an operator, or the reverse, is an error.
JoinedToBodies(p) == IF ~p.bad /\ Len(here_documents(p.node)) # Len(p.bodies) THEN expected_token_error(p) ELSE p
parse_command(ts, at) == JoinedToBodies(list(Parser(ts, at), "top"))

-----------------------------------------------------------------------------
(* The printer.  o has the tokens written and the bodies for the next newline. *)

Put(o, ts) == [o EXCEPT !.out = @ \o ts]
newline(o) == [out |-> o.out \o <<"nl">> \o o.pending, pending |-> <<>>]
ends_asynchronously(o) == o.out # <<>> /\ Last(o.out) = "&"
\* Mutant: a command in the background is followed by a semicolon too.
SeparatedAlways(o) == Put(o, <<";">>)

Separated(o) == IF ends_asynchronously(o) THEN o ELSE Put(o, <<";">>)

PutRedirection(o, r) ==
    [Put(o, r) EXCEPT !.pending = IF r[1] = "<<" THEN Append(@, HereText[r[2]]) ELSE @]
redirections(o, node) == FoldLeft(PutRedirection, o, node.redirections)

RECURSIVE flatten(_), Spell(_, _), SpellList(_, _), SpellClauses(_, _)
flatten(node) == IF node.kind = "sequence" THEN flatten(node.kids[1]) \o flatten(node.kids[2]) ELSE <<node>>

\* list: the commands on lines of their own.
SpellItems(o, items) ==
    LET Item(x, i) == Spell(IF i = 1 THEN x ELSE newline(Separated(x)), items[i])
    IN  FoldLeft(Item, o, [i \in DOMAIN items |-> i])
SpellList(o, node) == SpellItems(o, flatten(node))
terminated_list(o, node) == Separated(SpellList(o, node))
brace_group(o, node) == Put(newline(SpellList(newline(Put(o, <<"{">>)), node)), <<"}">>)

\* simple_command: a reserved word in command position is quoted.
Spelled(words) ==
    LET first == {i \in DOMAIN words : words[i] # Assignment}
    IN  [i \in DOMAIN words |->
            IF first # {} /\ i = Min(first) /\ words[i] \in Reserved THEN quoted[words[i]] ELSE words[i]]

SpellClauses(o, clauses) ==
    IF clauses = <<>> THEN o
    ELSE LET c == Head(clauses)
             patterns == FlattenSeq([i \in DOMAIN c.words |-> IF i = 1 THEN <<c.words[i]>> ELSE <<"|", c.words[i]>>])
             open == newline(Put(newline(o), patterns \o <<")">>))
             body == IF c.kids = <<>> THEN open ELSE SpellList(open, c.kids[1])
         IN  SpellClauses(Put(newline(body), <<IF c.kind = "fallthrough" THEN ";&" ELSE ";;">>), Tail(clauses))

if_form(o, node) ==
    LET c == newline(Put(SpellList(Put(o, <<"if">>), node.kids[1]), <<";", "then">>))
        t == newline(terminated_list(c, node.kids[2]))
        e == newline(terminated_list(newline(Put(t, <<"else">>)), node.kids[3]))
    IN  Put(IF Len(node.kids) = 3 THEN e ELSE t, <<"fi">>)
loop_command(o, node) ==
    LET c == newline(Put(SpellList(Put(o, <<node.kind>>), node.kids[1]), <<";", "do">>))
    IN  Put(newline(terminated_list(c, node.kids[2])), <<"done">>)
iteration(o, node) ==
    LET words == IF Len(node.words) = 1 THEN <<AllArguments>> ELSE Tail(node.words)
        h == newline(Put(newline(Put(o, <<"for", node.words[1], "in">> \o words \o <<";">>)), <<"do">>))
    IN  Put(newline(terminated_list(h, node.kids[1])), <<"done">>)

\* A function's body is on a line of its own, which is not newline's.
nested_function(o, node) ==
    LET h == Put(o, <<node.words[1], "(", ")", "nl">>)
        body == node.kids[1]
    IN  IF body.kind = "group" /\ body.redirections = <<>> THEN brace_group(h, body.kids[1]) ELSE Spell(h, body)

Spell(o, node) ==
    LET kid(i, x) == Spell(x, node.kids[i])
        joined(op) == Spell(Put(Spell(o, node.kids[1]), <<op>>), node.kids[2])
        Stage(x, i) == Spell(IF i = 1 THEN x ELSE Put(x, <<"|">>), node.kids[i])
    IN  CASE node.kind = "command"  -> redirections(Put(o, Spelled(node.words)), node)
          [] node.kind = "pipeline" -> Put(FoldLeft(Stage, o, [i \in DOMAIN node.kids |-> i]), node.words)
          [] node.kind = "redirect" -> redirections(kid(1, o), node)
          [] node.kind = "background" -> Put(redirections(kid(1, o), node), <<"&">>)
          [] node.kind = "subshell" -> redirections(Put(SpellList(Put(o, <<"(">>), node.kids[1]), <<")">>), node)
          [] node.kind = "group"    -> redirections(brace_group(o, node.kids[1]), node)
          [] node.kind = "and"      -> joined("&&")
          [] node.kind = "or"       -> joined("||")
          [] node.kind = "not"      -> kid(1, Put(o, <<"!">>))
          [] node.kind = "sequence" -> SpellList(o, node)
          [] node.kind = "if"       -> if_form(o, node)
          [] node.kind \in {"while", "until"} -> loop_command(o, node)
          [] node.kind = "for"      -> iteration(o, node)
          [] node.kind = "case"     -> Put(newline(SpellClauses(Put(o, <<"case", node.words[1], "in">>), node.kids)), <<"esac">>)
          [] node.kind = "function" -> nested_function(o, node)

Finished(o) == IF o.pending = <<>> THEN o ELSE newline(o)
respelled(node) == Finished(SpellList([out |-> <<>>, pending |-> <<>>], node)).out

-----------------------------------------------------------------------------
(* The command loop's reading of a source *)

VARIABLES
    source,     \* the tokens
    began,      \* the token the last unit begins with
    cursor,     \* the token the next one begins with
    unit        \* the last unit: the parser that has read it

gvars == <<source, began, cursor, unit>>

\* The reading of one of the inputs begins.
BeginReading(inputs) == source \in inputs /\ began = 1 /\ cursor = 1 /\ unit = Parser(<<>>, 1)
GInit == BeginReading(Sources)

\* A syntax error ends the reading.
ReadUnit ==
    /\ cursor <= Len(source) /\ ~unit.bad
    /\ unit' = [parse_command(source, cursor) EXCEPT !.ts = <<>>]
    /\ began' = cursor /\ cursor' = unit'.at
    /\ UNCHANGED source

GNext == ReadUnit
GSpec == GInit /\ [][GNext]_gvars

-----------------------------------------------------------------------------
(* The grammar: the trees a run of tokens without here-document texts has.    *)

RECURSIVE Terms(_, _), AndOrs(_), StageLists(_), Commands(_), Branches(_), ClauseLists(_), ListsOf(_, _)

From(ts, k)   == SubSeq(ts, k, Len(ts))
Upto(ts, k)   == SubSeq(ts, 1, k)
Places(ts, set) == {k \in DOMAIN ts : ts[k] \in set}
NoOperator(ts) == \A k \in DOMAIN ts : ts[k] \notin Operators

\* Without the newlines in front, or behind.
Trimmed(ts) == LET at == {k \in DOMAIN ts : ts[k] # "nl"} IN IF at = {} THEN <<>> ELSE From(ts, Min(at))
Chopped(ts) == LET at == {k \in DOMAIN ts : ts[k] # "nl"} IN IF at = {} THEN <<>> ELSE Upto(ts, Max(at))

LastInBackground(n) ==
    IF n.kind = "sequence" THEN [n EXCEPT !.kids[2] = Backgrounded(@)] ELSE Backgrounded(n)

\* A list that ends in a command; a newline separates its commands if separators says so.
Terms(ts, separators) ==
    UNION {{IF k = 0 THEN r ELSE Node("sequence", <<>>, <<IF ts[k] = "&" THEN LastInBackground(l) ELSE l, r>>, <<>>) :
              l \in IF k = 0 THEN {NoNode} ELSE Terms(Upto(ts, k - 1), separators),
              r \in AndOrs(IF k > 0 /\ "nl" \in separators THEN Trimmed(From(ts, k + 1)) ELSE From(ts, k + 1))} :
           k \in {0} \cup {k \in Places(ts, separators) : k > 1 /\ (ts[k] = "nl" => ts[k - 1] \notin separators)}}

\* A list that ends in a separator.
TermsBefore(t, ts, separators) ==
    LET separated == t # <<>> /\ Last(t) \in {";", "&"} IN
    IF t = <<>> \/ (~separated /\ t = ts) THEN {}
    ELSE {IF Last(t) = "&" THEN LastInBackground(l) ELSE l : l \in Terms(IF separated THEN Front(t) ELSE t, separators)}
Terminated(ts, separators) == TermsBefore(IF "nl" \in separators THEN Chopped(ts) ELSE ts, ts, separators)

\* A reserved word is recognised behind a separator and behind a compound command.
RECURSIVE Closed(_)
Closed(n) ==
    CASE n.kind \in {"pipeline", "and", "or", "sequence", "not", "function"} -> Closed(Last(n.kids))
      [] n.kind \in {"group", "subshell"} -> n.redirections = <<>>
      [] OTHER -> n.kind \notin {"command", "redirect"}

\* The lists between two reserved words or parentheses; Commands and ListsOf are the knot here.
TrimmedLists(t, closed) ==
    Terminated(t, {";", "&", "nl"}) \cup {n \in Terms(t, {";", "&", "nl"}) : closed => Closed(n)}
ListsOf(ts, closed) == TrimmedLists(Trimmed(ts), closed)
AnyLists(ts) == ListsOf(ts, FALSE)
ClosedLists(ts) == ListsOf(ts, TRUE)

\* k is the last operator, 0 if there is none.
StageLists(ts) ==
    UNION {{Append(l, c) : l \in IF k = 0 THEN {<<>>} ELSE StageLists(Upto(ts, k - 1)),
                           c \in Commands(IF k = 0 THEN ts ELSE Trimmed(From(ts, k + 1)))} :
           k \in {0} \cup Places(ts, {"|"})}
PipeOf(stages) == IF Len(stages) = 1 THEN stages[1] ELSE Node("pipeline", <<>>, stages, <<>>)
Pipes(ts) ==
    LET negated == ts # <<>> /\ ts[1] = "!" IN
    {IF negated THEN Node("not", <<>>, <<PipeOf(l)>>, <<>>) ELSE PipeOf(l) :
       l \in StageLists(IF negated THEN Tail(ts) ELSE ts)}
AndOrs(ts) ==
    UNION {{IF k = 0 THEN r ELSE Node(IF ts[k] = "&&" THEN "and" ELSE "or", <<>>, <<l, r>>, <<>>) :
              l \in IF k = 0 THEN {NoNode} ELSE AndOrs(Upto(ts, k - 1)),
              r \in Pipes(IF k = 0 THEN ts ELSE Trimmed(From(ts, k + 1)))} :
           k \in {0} \cup Places(ts, {"&&", "||"})}

\* Redirections and the words between them.
WellRedirected(ts) ==
    \A k \in DOMAIN ts : ts[k] \in Operators =>
        ts[k] \in Redirecting /\ k < Len(ts) /\ ts[k + 1] \notin Operators
Numbered(ts) == [k \in DOMAIN ts |-> k]
RedirectionsOf(ts) ==
    LET at == SelectSeq(Numbered(ts), LAMBDA k : ts[k] \in Redirecting) IN
    [i \in DOMAIN at |-> <<ts[at[i]], ts[at[i] + 1]>>]
WordsOf(ts) ==
    LET at == SelectSeq(Numbered(ts), LAMBDA k : ts[k] \notin Operators /\ (k > 1 => ts[k - 1] \notin Redirecting)) IN
    [i \in DOMAIN at |-> ts[at[i]]]

Branches(ts) ==     \* between if and fi
    UNION {UNION {{Node("if", <<>>, <<c, b>>, <<>>) : b \in ClosedLists(From(ts, k + 1))} \cup
                  UNION {{Node("if", <<>>, <<c, b, e>>, <<>>) :
                            b \in ClosedLists(SubSeq(ts, k + 1, j - 1)),
                            e \in IF ts[j] = "else" THEN ClosedLists(From(ts, j + 1)) ELSE Branches(From(ts, j + 1))} :
                         j \in {j \in Places(ts, {"elif", "else"}) : j > k}} :
                  c \in ClosedLists(Upto(ts, k - 1))} :
           k \in Places(ts, {"then"})}

\* From a clause's pattern on.
ClauseLists(ts) ==
    LET t == Trimmed(ts)
        open == IF t[1] = "(" THEN 2 ELSE 1
        close == Min(Places(t, {")"}))
        head == SubSeq(t, open, close - 1)
        patterns == SelectSeq(head, LAMBDA w : w # "|")
        wellFormed == /\ Places(t, {")"}) # {} /\ (open = 2 \/ t[1] # "esac")
                      /\ Len(head) % 2 = 1
                      /\ \A i \in DOMAIN head : IF i % 2 = 0 THEN head[i] = "|" ELSE head[i] \notin Operators
        kids(b, closes) == IF Chopped(b) = <<>> THEN {<<>>}
                           ELSE {<<n>> : n \in IF closes THEN ClosedLists(b) ELSE AnyLists(b)}
        clause(kind, k) == Node(kind, patterns, k, <<>>)
    IN  IF t = <<>> THEN {<<>>}
        ELSE IF ~wellFormed THEN {}
        ELSE {<<clause("clause", k)>> : k \in kids(From(t, close + 1), TRUE)} \cup
             UNION {{<<clause(IF t[j] = ";&" THEN "fallthrough" ELSE "clause", k)>> \o rest :
                       k \in kids(SubSeq(t, close + 1, j - 1), FALSE), rest \in ClauseLists(From(t, j + 1))} :
                    j \in {j \in Places(t, {";;", ";&"}) : j > close}}

\* for: what stands between the name and do, a newline or a semicolon before do.
ForWords(ts) ==
    LET t == Trimmed(ts) IN
    IF t # <<>> /\ t[1] = "in"
    THEN LET c == Chopped(Tail(t))
             w == IF c # <<>> /\ Last(c) = ";" THEN Front(c) ELSE c
         IN  IF NoOperator(w) /\ (w # Tail(t)) THEN {w} ELSE {}
    ELSE IF Chopped(t) \in {<<>>, <<";">>} THEN {<<AllArguments>>} ELSE {}

Cores(ts) ==
    LET n == Len(ts)
        inside == SubSeq(ts, 2, n - 1)
        one(kind, lists) == {Node(kind, <<>>, <<l>>, <<>>) : l \in lists}
    IN  IF n < 3 THEN {}
        ELSE CASE ts[1] = "(" /\ ts[n] = ")" -> one("subshell", AnyLists(inside))
               [] ts[1] = "{" /\ ts[n] = "}" -> one("group", ClosedLists(inside))
               [] ts[1] = "if" /\ ts[n] = "fi" -> Branches(inside)
               [] ts[1] \in {"while", "until"} /\ ts[n] = "done" ->
                    UNION {{Node(ts[1], <<>>, <<c, b>>, <<>>) :
                              c \in ClosedLists(Upto(inside, k - 1)), b \in ClosedLists(From(inside, k + 1))} :
                           k \in Places(inside, {"do"})}
               [] ts[1] = "for" /\ ts[n] = "done" /\ ts[2] \notin Operators /\ is_valid_name(ts[2]) ->
                    UNION {{Node("for", <<ts[2]>> \o w, <<b>>, <<>>) :
                              w \in ForWords(SubSeq(inside, 2, k - 1)), b \in ClosedLists(From(inside, k + 1))} :
                           k \in {k \in Places(inside, {"do"}) : k > 1}}
               [] ts[1] = "case" /\ ts[n] = "esac" /\ ts[2] \notin Operators ->
                    LET t == Trimmed(Tail(inside)) IN
                    IF t # <<>> /\ t[1] = "in"
                    THEN {Node("case", <<ts[2]>>, c, <<>>) : c \in ClauseLists(Tail(t))} ELSE {}
               [] OTHER -> {}

Commands(ts) ==
    LET n == Len(ts)
        tails == {k \in 1..n : LET r == From(ts, k + 1) IN WellRedirected(r) /\ WordsOf(r) = <<>>}
        simple == ts # <<>> /\ ts[1] \notin Reserved /\ WellRedirected(ts)
        defines == n > 3 /\ is_valid_name(ts[1]) /\ ts[1] \notin SpecialBuiltins \cup Reserved \cup Operators /\ ts[2] = "(" /\ ts[3] = ")"
    IN  (IF simple THEN {Node("command", WordsOf(ts), <<>>, RedirectionsOf(ts))} ELSE {}) \cup
        (IF defines THEN {Node("function", <<ts[1]>>, <<b>>, <<>>) : b \in Commands(Trimmed(From(ts, 4)))} ELSE {}) \cup
        UNION {{Redirected(c, RedirectionsOf(From(ts, k + 1))) : c \in Cores(Upto(ts, k))} : k \in tails}

\* The trees of a unit that is the line, or lines, ts.
Units(ts) ==
    LET t == SelectSeq(ts, LAMBDA x : ~IsText(x)) IN
    IF t = <<>> THEN {NoNode} ELSE Terms(t, {";", "&"}) \cup Terminated(t, {";", "&"})

-----------------------------------------------------------------------------
(* Properties *)

\* Where a unit that begins at k may end: before a newline, or at the end.
LineEnds(k) == {e \in k - 1..Len(source) : e = Len(source) \/ source[e + 1] = "nl"}
UnitEnds(k) == {e \in LineEnds(k) : Units(SubSeq(source, k, e)) # {}}

\* A line whose for list ends at the newline and that has a here-document in front of it.
ForEndsTheLine ==
    \E j, i \in DOMAIN source :
        /\ j + 2 < i /\ source[j] = "for" /\ source[j + 2] = "in" /\ source[i] = "nl"
        /\ NoOperator(SubSeq(source, j, i - 1)) /\ i < Len(source) /\ IsText(source[i + 1])

\* A unit is the first run of lines the grammar derives, its tree is the only one the grammar
\* gives it, whatever was pushed back and wherever newlines and reserved words stand, anything
\* else is an error, and every here-document has its own body (but a for that ends the line
\* behind a here-document reads the body as its loop).
ParsesAsWritten ==
    (cursor > 1 \/ unit.bad) /\ ~ForEndsTheLine =>
        LET ends == UnitEnds(began)
            whole == SubSeq(source, began, Min(ends))
        IN  IF ends = {} THEN unit.bad
            ELSE /\ ~unit.bad /\ Units(whole) = {unit.node}
                 /\ unit.bodies = here_documents(unit.node)

\* Flattened, the units of a text (fuzzing.rs).
RECURSIVE UnitsFrom(_, _)
UnitsBehind(p, ts) ==
    IF p.bad \/ p.bodies # here_documents(p.node) THEN <<NoNode>>
    ELSE (IF p.node = NoNode THEN <<>> ELSE flatten(p.node)) \o UnitsFrom(ts, p.at)
UnitsFrom(ts, at) == IF at > Len(ts) THEN <<>> ELSE UnitsBehind(parse_command(ts, at), ts)

RECURSIVE Within(_), Unquoted(_)
Within(n) == {n} \cup UNION {Within(n.kids[i]) : i \in DOMAIN n.kids}
Unquoted(n) ==
    [n EXCEPT !.words = [i \in DOMAIN @ |-> LET r == {r \in Reserved : quoted[r] = @[i]} IN
                                             IF r = {} THEN @[i] ELSE CHOOSE t \in r : TRUE],
              !.kids  = [i \in DOMAIN @ |-> Unquoted(@[i])]]
AllUnquoted(nodes) == [i \in DOMAIN nodes |-> Unquoted(nodes[i])]

\* The three shapes that are not spelled as they were read: a condition that ends in a background
\* command ("&;"), a for over no words, and a function on the line of an earlier here-document.
EndsInBackground(n) == LET l == Last(flatten(n)) IN l.kind = "background" \/ (l.kind = "pipeline" /\ l.words # <<>>)
Misspelled(n) ==
    \/ n.kind \in {"if", "while", "until"} /\ EndsInBackground(n.kids[1])
    \/ n.kind = "for" /\ Len(n.words) = 1
    \/ /\ n.kind \in {"and", "or", "pipeline"}
       /\ \E i, j \in DOMAIN n.kids :
            i < j /\ here_documents(n.kids[i]) # <<>> /\ \E f \in Within(n.kids[j]) : f.kind = "function"

\* The printer and the parser agree ("Requiring the two to parse equal is canonicity", fuzzing.rs):
\* what a tree is spelled as is read back as the same commands, with every body at its operator,
\* however the original was laid out, but for the misspelled shapes.
RespelledReadsBack ==
    cursor > 1 /\ ~unit.bad /\ unit.node # NoNode /\ (\A n \in Within(unit.node) : ~Misspelled(n)) =>
        AllUnquoted(UnitsFrom(respelled(unit.node), 1)) = flatten(Unquoted(unit.node))
=============================================================================
