----------------------------- MODULE InputStack -----------------------------
(***************************************************************************)
(* Where the lexer's next unit comes from: input frames, the texts laid    *)
(* over a frame, and the marks that keep an alias from being expanded      *)
(* inside its own text (input.rs, input/overlay.rs, input/read.rs,         *)
(* alias.rs, read_token of parser.rs).                                     *)
(*                                                                         *)
(* A frame is a source of its own: the shell's input, an eval string, a    *)
(* dotted file.  An overlay is an alias value (or, in a here-document, text *)
(* read too far) pushed in front of the frame's text.  Popping an overlay  *)
(* parks it on the frame; the alias is free again at the next read.        *)
(*                                                                         *)
(* A unit is a one-letter word, a blank or a newline; what a frame's own   *)
(* text holds is chosen as it is read.                                     *)
(***************************************************************************)
EXTENDS FiniteSets, Naturals, Sequences, SequencesExt

CONSTANTS
    Name,         \* the words that can be aliases
    Values,       \* the alias values a script gives: non-empty texts, and <<>>
    NoName,       \* no alias
    MaxFrames,    \* bound: nested input frames
    MaxUnits      \* bound: units read from frames' own texts

Blank == "blank"
Newline == "newline"
EndOfInput == "end"
Unit == Name \cup {Blank, Newline}

ASSUME InputStackAssumption ==
    /\ IsFiniteSet(Name) /\ Name \cap {NoName, Blank, Newline, EndOfInput} = {}
    /\ Values \subseteq Seq(Unit)
    /\ MaxFrames \in Nat \ {0} /\ MaxUnits \in Nat

NoAlias == [exists |-> FALSE, value |-> <<>>, inUse |-> FALSE, dead |-> FALSE]
AtStart == [phase |-> "start", word |-> NoName, context |-> TRUE]

VARIABLES
    aliases,    \* AliasTable
    input,      \* the frames, the current one last
    diverted,   \* push_standard_input has put the first frame in front
    boundary,   \* InputStack::alias_boundary
    lexer,      \* read_token: what it is doing, and TokenContext
    consumed,   \* finish_word_if_delimited: the units matched so far
    units,      \* units read from frames' own texts
    chain,      \* history: the expansions the next word has come through
    lost        \* history: aliases whose mark nobody will take back

ivars == <<aliases, input, diverted, boundary, lexer, consumed, units, chain, lost>>

\* unread: whether the last unit is to be read again (unread_count);
\* last: that unit.
NewFrame == [last |-> EndOfInput, unread |-> FALSE, overlays |-> <<>>, deferred |-> <<>>]

IInit ==
    /\ aliases = [n \in Name |-> NoAlias]
    /\ input = <<NewFrame>> /\ diverted = FALSE /\ boundary = FALSE
    /\ lexer = AtStart /\ consumed = <<>> /\ units = 0 /\ chain = 0 /\ lost = {}

----------------------------------------------------------------------------
(* Aliases and overlays *)

\* finish_expansion.
FinishExpansion(alias) == IF alias.dead THEN NoAlias ELSE [alias EXCEPT !.inUse = FALSE]

\* release_input_overlays: these aliases may be expanded again.
Released(table, names) == [n \in Name |-> IF n \in names THEN FinishExpansion(table[n]) ELSE table[n]]

current == IF diverted THEN 1 ELSE Len(input)
Frame == input[current]
Covered(f) == f.overlays # <<>>
Top(f) == Len(f.overlays)

\* push_string_input.
Pushed(f, text, n) ==
    [f EXCEPT !.overlays = Append(@, [alias |-> n, text |-> text, position |-> 0,
                                      unread |-> FALSE, deferred |-> f.deferred]),
              !.deferred = <<>>]

\* Mutant: the alias is free as soon as its text has been read.
ParkedNothing(o) == o.deferred

\* pop_string_input parks what was parked before the overlay, and the overlay.
Parked(o) == Append(o.deferred, o.alias)

\* The alias text ended in a blank (alias_boundary).
EndsInBlank(o) == o.alias # NoName /\ o.position > 0 /\ o.text[o.position] = Blank

Exhausted(o) == ~o.unread /\ o.position = Len(o.text)

\* read_input_unit up to the text that has a unit, 0 for the frame's own: every
\* overlay at its end is popped on the way.
Reached(f) == Max({0} \cup {k \in DOMAIN f.overlays : ~Exhausted(f.overlays[k])})

Uncovered(f) ==
    [f EXCEPT !.overlays = SubSeq(@, 1, Reached(f)),
              !.deferred = IF Reached(f) = Top(f) THEN <<>> ELSE Parked(f.overlays[Reached(f) + 1])]

ReachesBoundary(f) == \E k \in Reached(f) + 1 .. Top(f) : EndsInBlank(f.overlays[k])

\* A second pop drops what the first has parked; lost are the aliases that were
\* parked below a here-document's text.
Dropped(f) ==
    {n \in Name : \E k \in Reached(f) + 2 .. Top(f) :
                   f.overlays[k].alias = NoName /\ n \in ToSet(f.overlays[k].deferred)}

\* One read: the unit u, the frame after it and whether it was a new unit of
\* the frame's own text.
Reads ==
    LET f == Uncovered(Frame)
        over == Top(f)
        o == f.overlays[over]
    IN IF Covered(f)
       THEN {[unit |-> IF o.unread THEN o.text[o.position] ELSE o.text[o.position + 1],
              frame |-> [f EXCEPT !.overlays[over].unread = FALSE,
                                  !.overlays[over].position = IF o.unread THEN @ ELSE @ + 1],
              new |-> 0]}
       ELSE IF f.unread
       THEN {[unit |-> f.last, frame |-> [f EXCEPT !.unread = FALSE], new |-> 0]}
       ELSE {[unit |-> u, frame |-> [f EXCEPT !.last = u], new |-> 1] :
                u \in {EndOfInput} \cup (IF units < MaxUnits THEN Unit ELSE {})}

\* unread_input_unit: does nothing after the end of input.
Unread(r) ==
    CASE r.unit = EndOfInput -> r.frame
      [] Covered(r.frame)    -> [r.frame EXCEPT !.overlays[Top(r.frame)].unread = TRUE]
      [] OTHER               -> [r.frame EXCEPT !.unread = TRUE]

\* The effect of a read r that leaves the frame as f.
Take(r, f) ==
    /\ aliases' = Released(aliases, ToSet(Frame.deferred))
    /\ input' = [input EXCEPT ![current] = f]
    /\ units' = IF r.unit = EndOfInput THEN units ELSE units + r.new
    /\ boundary' = (boundary \/ ReachesBoundary(Frame))
    /\ lost' = lost \cup Dropped(Frame)

----------------------------------------------------------------------------
(* read_token *)

\* Blanks in front of a token, and the token itself.
StartToken ==
    /\ lexer.phase = "start" /\ ~diverted
    /\ \E r \in Reads :
         /\ Take(r, r.frame)
         /\ lexer' = CASE r.unit = Blank   -> lexer
                       [] r.unit \in Name -> [lexer EXCEPT !.phase = "word", !.word = r.unit]
                       [] r.unit = Newline -> [AtStart EXCEPT !.phase = "record"]
                       [] OTHER            -> [AtStart EXCEPT !.phase = "ended"]
         /\ chain' = IF r.unit \in Name \cup {Blank} /\ Reached(Frame) = Top(Frame) THEN chain ELSE 0
    /\ UNCHANGED <<diverted, consumed>>

\* The unit after a word's letter belongs to the word or is put back.
EndWord ==
    /\ lexer.phase = "word"
    /\ \E r \in Reads :
         IF r.unit \in Name
         THEN Take(r, r.frame) /\ lexer' = [lexer EXCEPT !.word = NoName]
         ELSE Take(r, Unread(r)) /\ lexer' = [lexer EXCEPT !.phase = "found"]
    /\ UNCHANGED <<diverted, consumed, chain>>

\* Mutant: an alias in use is expanded again.
lookup_again(n) == n \in Name /\ aliases[n].exists

lookup(n) == n \in Name /\ aliases[n].exists /\ ~aliases[n].inUse

Substituted == lexer.context \/ boundary

\* An alias: its value is laid over the frame and the search for a token
\* starts again.
Expand ==
    /\ lexer.phase = "found" /\ Substituted /\ lookup(lexer.word)
    /\ LET n == lexer.word  value == aliases[n].value IN
       IF value = <<>>
       THEN UNCHANGED <<aliases, input>> /\ chain' = 0
       ELSE /\ aliases' = [aliases EXCEPT ![n].inUse = TRUE]
            /\ input' = [input EXCEPT ![current] = Pushed(Frame, value, n)]
            /\ chain' = chain + 1
    /\ lexer' = [lexer EXCEPT !.phase = "start", !.word = NoName, !.context = TRUE]
    /\ boundary' = FALSE
    /\ UNCHANGED <<diverted, consumed, units, lost>>

\* The word is delivered; a redirection that announces a here-document may
\* follow it.
Deliver ==
    /\ lexer.phase = "found" /\ ~(Substituted /\ lookup(lexer.word))
    /\ lexer' = [lexer EXCEPT !.phase = "start", !.word = NoName, !.context = FALSE]
    /\ boundary' = FALSE /\ chain' = 0
    /\ UNCHANGED <<aliases, input, diverted, consumed, units, lost>>

----------------------------------------------------------------------------
(* Here-documents *)

BeginHereDoc ==
    /\ lexer.phase = "record"
    /\ lexer' = [AtStart EXCEPT !.phase = "here"]
    /\ UNCHANGED <<aliases, input, diverted, boundary, consumed, units, chain, lost>>

\* Matching the delimiter.
MatchDelimiter ==
    /\ lexer.phase = "here" /\ Len(consumed) < 2
    /\ \E r \in Reads :
         /\ Take(r, r.frame)
         /\ IF r.unit \in {Newline, EndOfInput}
            THEN consumed' = <<>> /\ lexer' = [lexer EXCEPT !.phase = "record"]
            ELSE consumed' = Append(consumed, r.unit) /\ lexer' = lexer
    /\ UNCHANGED <<diverted, chain>>

\* The line was not the delimiter: all but its first unit are read again.
MismatchDelimiter ==
    /\ lexer.phase = "here" /\ consumed # <<>>
    /\ input' = IF Len(consumed) = 1 THEN input
                ELSE [input EXCEPT ![current] = Pushed(Frame, Tail(consumed), NoName)]
    /\ consumed' = <<>> /\ lexer' = [lexer EXCEPT !.phase = "line"]
    /\ UNCHANGED <<aliases, diverted, boundary, units, chain, lost>>

HereDocLine ==
    /\ lexer.phase = "line"
    /\ \E r \in Reads :
         /\ Take(r, r.frame)
         /\ lexer' = [lexer EXCEPT !.phase = CASE r.unit = Newline -> "here"
                                              [] r.unit = EndOfInput -> "record"
                                              [] OTHER -> "line"]
    /\ UNCHANGED <<diverted, consumed, chain>>

----------------------------------------------------------------------------
(* The commands that run between records *)

Running == lexer.phase = "record"

\* The next record of the same frame: the command loop reads on.
NextRecord ==
    /\ Running /\ ~diverted
    /\ lexer' = AtStart /\ boundary' = FALSE
    /\ UNCHANGED <<aliases, input, diverted, consumed, units, chain, lost>>

set_alias(n, v) ==
    /\ Running
    /\ aliases' = [aliases EXCEPT ![n] = [@ EXCEPT !.exists = TRUE, !.value = v, !.dead = FALSE]]
    /\ UNCHANGED <<input, diverted, boundary, lexer, consumed, units, chain, lost>>

\* Mutant: unalias forgets the alias although its text is being read.
unalias_now(n) ==
    /\ Running /\ aliases[n].exists
    /\ aliases' = [aliases EXCEPT ![n] = NoAlias]
    /\ UNCHANGED <<input, diverted, boundary, lexer, consumed, units, chain, lost>>

unalias(n) ==
    /\ Running /\ aliases[n].exists
    /\ aliases' = IF aliases[n].inUse THEN [aliases EXCEPT ![n].dead = TRUE]
                                      ELSE [aliases EXCEPT ![n] = NoAlias]
    /\ UNCHANGED <<input, diverted, boundary, lexer, consumed, units, chain, lost>>

\* eval, a trap action, a dotted file.
set_input_string ==
    /\ Running /\ ~diverted /\ Len(input) < MaxFrames
    /\ input' = Append(input, NewFrame) /\ lexer' = AtStart
    /\ UNCHANGED <<aliases, diverted, boundary, consumed, units, chain, lost>>

\* The aliases whose text a frame still holds, live or parked.
Held(f) ==
    ToSet(f.deferred)
    \cup UNION {ToSet(f.overlays[k].deferred) \cup {f.overlays[k].alias} : k \in DOMAIN f.overlays}

\* pop_input_frame at the end of the string, or because its command failed.
PopFrame ==
    /\ lexer.phase \in {"ended", "record"} /\ Len(input) > 1 /\ ~diverted
    /\ aliases' = Released(aliases, ToSet(input[Len(input) - 1].deferred) \cup Held(Last(input)))
    /\ input' = [Front(input) EXCEPT ![Len(input) - 1].deferred = <<>>]
    /\ lexer' = [AtStart EXCEPT !.phase = "record"]
    /\ consumed' = <<>> /\ UNCHANGED <<diverted, boundary, units, chain, lost>>

\* The read built-in: it reads from the first frame, whatever is laid over it.
push_standard_input ==
    /\ Running /\ ~diverted
    /\ diverted' = TRUE
    /\ UNCHANGED <<aliases, input, boundary, lexer, consumed, units, chain, lost>>

ReadCommand ==
    /\ diverted
    /\ \E r \in Reads :
         /\ Take(r, r.frame)
         /\ diverted' = (r.unit \notin {Newline, EndOfInput})
    /\ UNCHANGED <<lexer, consumed, chain>>

EndsLine(u) == u \in {Newline, EndOfInput}

\* An error or an interrupt, anywhere: unwind_input_frames pops to the first
\* frame. The rest of its line is discarded unless the last unit read ended it;
\* of a frame with a unit to be read again, the last unit is the one before.
Abandon ==
    /\ aliases' = Released(aliases, UNION {ToSet(input[i].deferred) \cup Held(input[i + 1]) :
                                             i \in 1 .. Len(input) - 1})
    /\ input' = <<IF Len(input) = 1 THEN input[1] ELSE [input[1] EXCEPT !.deferred = <<>>]>>
    /\ diverted' = FALSE /\ consumed' = <<>> /\ chain' = 0
    /\ \/ (input[1].unread \/ EndsLine(input[1].last)) /\ lexer' = AtStart
       \/ (input[1].unread \/ ~EndsLine(input[1].last)) /\ lexer' = [AtStart EXCEPT !.phase = "discard"]
    /\ UNCHANGED <<boundary, units, lost>>

\* discard_interrupted_input up to the end of the line, or to a read that fails.
DiscardLine ==
    /\ lexer.phase = "discard"
    /\ \/ \E r \in Reads :
            /\ Take(r, r.frame)
            /\ lexer' = IF EndsLine(r.unit) THEN AtStart ELSE lexer
       \/ lexer' = AtStart /\ UNCHANGED <<aliases, input, boundary, units, lost>>
    /\ UNCHANGED <<diverted, consumed, chain>>

INext ==
    \/ StartToken \/ EndWord \/ Expand \/ Deliver
    \/ BeginHereDoc \/ MatchDelimiter \/ MismatchDelimiter \/ HereDocLine
    \/ NextRecord \/ set_input_string \/ PopFrame \/ push_standard_input \/ ReadCommand
    \/ \E n \in Name, v \in Values : set_alias(n, v)
    \/ \E n \in Name : unalias(n)
    \/ Abandon \/ DiscardLine

ISpec == IInit /\ [][INext]_ivars

----------------------------------------------------------------------------
(* Properties *)

ITypeOK ==
    /\ \A n \in Name : aliases[n].inUse \in BOOLEAN /\ aliases[n].value \in Values \cup {<<>>}
    /\ Len(input) \in 1..MaxFrames /\ diverted \in BOOLEAN /\ boundary \in BOOLEAN
    /\ lexer.word \in Name \cup {NoName} /\ consumed \in Seq(Unit)

HeldBy(n) == {i \in DOMAIN input : n \in Held(input[i])}

\* An alias is marked in use exactly while some frame still holds its text,
\* live or parked: after nested expansions, redefinition and removal while in
\* use, eval frames and errors no alias stays switched off, and none is
\* expanded inside its own text (pop_string_input drops what the frame had
\* parked, which must be nothing; it is not for the aliases that are lost).
MarksAreExact ==
    \A n \in Name \ lost : (aliases[n].exists /\ aliases[n].inUse) <=> HeldBy(n) # {}

\* input/overlay.rs:10-15 says that the mark of a popped overlay is "released at
\* the next read"; here-document text pushed over an alias at its end breaks it.
NothingIsLost == lost = {}

\* While no token comes out and no alias text comes to its end, each alias is
\* expanded at most once: texts are nested no deeper than there are aliases, so
\* read_token's loop ends for any set of them.
ExpansionIsBounded == chain <= Cardinality(Name)

\* Both: an alias is in use exactly while its own text is being read, and never
\* expands inside it (input/overlay.rs, read_token of parser.rs).
AliasesAreExact == MarksAreExact /\ ExpansionIsBounded
=============================================================================
