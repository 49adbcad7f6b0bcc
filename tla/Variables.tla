----------------------------- MODULE Variables -----------------------------
(***************************************************************************)
(* The variable table (variables.rs): entries with attributes, the frames  *)
(* that restore what a command or a function hid, and the caches that a    *)
(* variable's callback keeps (the IFS table, the command hash's PATH, the  *)
(* locale).                                                                *)
(*                                                                         *)
(* A frame lists what to restore, oldest first; popping it restores from   *)
(* the newest back.  A declaration in Bash mode saves into the frame of    *)
(* the running function, which need not be the innermost one; local in the *)
(* POSIX dialect and an assignment in front of a command save into the     *)
(* innermost.                                                              *)
(***************************************************************************)
EXTENDS Naturals, Sequences, SequencesExt

CONSTANTS
    Names,          \* variables; each has a callback
    Fixed,          \* the ones initialize_variables creates, never removed (IFS, PATH)
    MaxValue,       \* values are 1..MaxValue, 0 is unset
    MaxCalls,       \* bound: nested commands and functions
    MaxSaved,       \* bound: entries saved in all frames together
    PrefixedDeclare \* whether x=1 declare x=2 occurs inside a function

ASSUME VariablesAssumption ==
    /\ Fixed \subseteq Names
    /\ MaxValue \in Nat \ {0} /\ MaxCalls \in Nat /\ MaxSaved \in Nat
    /\ PrefixedDeclare \in BOOLEAN

VARIABLES
    dialect,        \* "posix" or "bash", for the life of the shell
    entries,        \* VariableTable.entries
    locals,         \* VariableTable.locals: frames of saved entries
    functionFrames, \* the frame of each running function
    calls,          \* the Rust activations: kind and mark of each command being run
    cache           \* what the callback of each variable was last told

vvars == <<dialect, entries, locals, functionFrames, calls, cache>>

Value == 0..MaxValue
Entry == [present : BOOLEAN, val : Value, readonly : BOOLEAN, fixed : BOOLEAN, callback : BOOLEAN]
Absent == [present |-> FALSE, val |-> 0, readonly |-> FALSE, fixed |-> FALSE, callback |-> FALSE]
Plain == [readonly |-> FALSE, fixed |-> FALSE]
ReadOnly == [Plain EXCEPT !.readonly = TRUE]

Present(n) == entries[n].present
\* Only the locale names get their callback back when they are created again.
FreshCallback(n) == n \notin Fixed

VInit ==
    /\ dialect \in {"posix", "bash"}
    /\ entries = [n \in Names |->
          IF n \in Fixed
          THEN [present |-> TRUE, val |-> 1, readonly |-> FALSE, fixed |-> TRUE, callback |-> TRUE]
          ELSE Absent]
    /\ cache = [n \in Names |-> entries[n].val]
    /\ locals = <<>> /\ functionFrames = <<>> /\ calls = <<>>

-----------------------------------------------------------------------------
\* The table.

Make(v, attrs, cb) == [present |-> TRUE, val |-> v, readonly |-> attrs.readonly, fixed |-> attrs.fixed, callback |-> cb]
Joined(n, attrs) ==
    [readonly |-> attrs.readonly \/ entries[n].readonly,
     fixed |-> attrs.fixed \/ entries[n].fixed]

\* declaration::is_local: the running function's frame or one above it saved n.
SavedIn(frame, n) == \E i \in DOMAIN frame : frame[i].name = n
IsLocal(n) ==
    /\ functionFrames # <<>>
    /\ \E f \in functionFrames[Len(functionFrames)]..Len(locals) : SavedIn(locals[f], n)

\* What set_entry leaves behind; it refuses a read-only entry before that.
Refused(n) == Present(n) /\ entries[n].readonly
AfterSet(n, v, attrs) ==
    IF ~Present(n)
    THEN IF v = 0 /\ attrs = Plain THEN Absent ELSE Make(v, attrs, FreshCallback(n))
    ELSE IF v # 0 \/ attrs # Plain THEN Make(v, Joined(n, attrs), entries[n].callback)
    ELSE IF entries[n].fixed THEN Make(0, [Plain EXCEPT !.fixed = TRUE], entries[n].callback)
    ELSE IF dialect = "bash" /\ IsLocal(n) THEN Make(0, Plain, entries[n].callback)
    ELSE Absent

\* Mutant: an attribute without a value is added without telling the callback.
ToldOfValues(n, v, attrs) ==
    IF v # 0 /\ AfterSet(n, v, attrs).callback THEN [cache EXCEPT ![n] = v] ELSE cache

\* The entry that goes away takes its callback with it, except the locale's.
Told(n, v, attrs) ==
    LET after == AfterSet(n, v, attrs)
    IN  IF after = Absent
        THEN IF Present(n) /\ entries[n].callback /\ FreshCallback(n)
             THEN [cache EXCEPT ![n] = 0] ELSE cache
        ELSE IF after.callback THEN [cache EXCEPT ![n] = after.val] ELSE cache

\* The whole of set_entry, refusal included.
SetEntry(n, v, attrs) ==
    /\ ~Refused(n)
    /\ entries' = [entries EXCEPT ![n] = AfterSet(n, v, attrs)]
    /\ cache' = Told(n, v, attrs)

\* x=v, read, for: set_bytes.
Assign(n, v) ==
    /\ SetEntry(n, v, Plain)
    /\ UNCHANGED <<dialect, locals, functionFrames, calls>>

\* export x, readonly x without a value: add_attributes on an entry that is there.
Mark(n, attrs) ==
    /\ IF Present(n)
       THEN entries' = [entries EXCEPT ![n] = Make(@.val, Joined(n, attrs), @.callback)] /\ UNCHANGED cache
       ELSE SetEntry(n, 0, attrs)
    /\ UNCHANGED <<dialect, locals, functionFrames, calls>>

\* unset x.
Unset(n) ==
    /\ SetEntry(n, 0, Plain)
    /\ UNCHANGED <<dialect, locals, functionFrames, calls>>

-----------------------------------------------------------------------------
\* Frames.

Save(f, n) == [locals EXCEPT ![f] = Append(@, [name |-> n, previous |-> entries[n]])]
SavedInAll == FoldSeq(LAMBDA frame, sum : sum + Len(frame), 0, locals)
CanSave(f) == f \in DOMAIN locals /\ SavedInAll < MaxSaved

\* local, POSIX dialect (make_local_bytes): the old entry is saved before the
\* assignment that a read-only one refuses, and without a value it keeps its own.
Local(n, v) ==
    LET f == Len(locals)
        attrs == IF Present(n) THEN Plain ELSE [Plain EXCEPT !.fixed = TRUE]
    IN  /\ dialect = "posix" /\ CanSave(f)
        /\ locals' = Save(f, n)
        /\ IF Present(n) /\ (v = 0 \/ Refused(n)) THEN UNCHANGED <<entries, cache>>
                                                  ELSE SetEntry(n, v, attrs)
        /\ UNCHANGED <<dialect, functionFrames, calls>>

\* make_local saves a name once per function.
NotYetSaved(f, n) == ~SavedIn(locals[f], n)

\* make_local, ensure_entry and the assignment of local and declare in Bash mode.
Declare(n, v) ==
    LET f == functionFrames[Len(functionFrames)]
        fresh == [entries EXCEPT ![n] = Make(v, Plain, IF Present(n) THEN @.callback ELSE FALSE)]
    IN  /\ dialect = "bash" /\ functionFrames # <<>>
        /\ CanSave(f) /\ NotYetSaved(f, n)
        /\ PrefixedDeclare \/ \A g \in f + 1..Len(locals) : ~SavedIn(locals[g], n)
        /\ locals' = Save(f, n)
        /\ entries' = fresh
        /\ cache' = IF fresh[n].callback THEN [cache EXCEPT ![n] = v] ELSE cache
        /\ UNCHANGED <<dialect, functionFrames, calls>>

\* A function or a command with its own frame starts, with at most one
\* assignment in front of it (make_local_bytes, exported for its time); one that
\* is refused ends the command before it began.
Starts(kind, frame) ==
    /\ Len(calls) < MaxCalls
    /\ calls' = Append(calls, [kind |-> kind, mark |-> Len(locals)])
    /\ locals' = Append(locals, frame)
    /\ functionFrames' = IF kind = "function" THEN Append(functionFrames, Len(locals) + 1)
                         ELSE functionFrames
    /\ UNCHANGED dialect
Call(kind) == Starts(kind, <<>>) /\ UNCHANGED <<entries, cache>>
CallWith(kind, n, v) ==
    /\ SavedInAll < MaxSaved
    /\ Starts(kind, <<[name |-> n, previous |-> entries[n]]>>)
    /\ SetEntry(n, v, IF Present(n) THEN Plain ELSE [Plain EXCEPT !.fixed = TRUE])

\* One saved entry goes back: it tells its callback; one that was created is
\* removed and only the locale is told.
PutBack(saved, table) ==
    LET n == saved.name
        told == IF saved.previous # Absent
                THEN IF saved.previous.callback THEN saved.previous.val ELSE table.cache[n]
                ELSE IF table.entries[n].callback /\ FreshCallback(n) THEN 0 ELSE table.cache[n]
    IN  [entries |-> [table.entries EXCEPT ![n] = saved.previous],
         cache |-> [table.cache EXCEPT ![n] = told]]

\* Mutant: the frame is restored from its oldest entry on.
PoppedFromOldest(frame, table) == FoldLeft(LAMBDA t, saved : PutBack(saved, t), table, frame)

\* pop_local_scope: the newest entry first.
Popped(frame, table) ==
    LET left[i \in 0..Len(frame)] ==
          IF i = 0 THEN table ELSE PutBack(frame[Len(frame) + 1 - i], left[i - 1])
    IN  left[Len(frame)]
\* unwind_local_variables: the newest frame first.
Unwound(frames, table) ==
    LET left[i \in 0..Len(frames)] ==
          IF i = 0 THEN table ELSE Popped(frames[Len(frames) + 1 - i], left[i - 1])
    IN  left[Len(frames)]
Table == [entries |-> entries, cache |-> cache]

\* Leaving a command: unwind_local_scopes to its mark, which a recovery in
\* between may already have passed.
Return ==
    /\ calls # <<>>
    /\ calls' = SubSeq(calls, 1, Len(calls) - 1)
    /\ functionFrames' = IF calls[Len(calls)].kind = "function" /\ functionFrames # <<>>
                         THEN SubSeq(functionFrames, 1, Len(functionFrames) - 1) ELSE functionFrames
    /\ IF Len(locals) > calls[Len(calls)].mark
       THEN LET after == Popped(locals[Len(locals)], Table)
            IN  /\ locals' = SubSeq(locals, 1, Len(locals) - 1)
                /\ entries' = after.entries /\ cache' = after.cache
       ELSE UNCHANGED <<locals, entries, cache>>
    /\ UNCHANGED dialect

\* unwind_local_variables: the interactive loop, or the text of an eval in it,
\* recovers from an error and forgets every frame.
Recover ==
    /\ locals # <<>>
    /\ LET after == Unwound(locals, Table)
       IN  entries' = after.entries /\ cache' = after.cache
    /\ locals' = <<>> /\ functionFrames' = <<>>
    /\ UNCHANGED <<dialect, calls>>

VNext ==
    \/ \E n \in Names, v \in Value \ {0} : Assign(n, v)
    \/ \E n \in Names, v \in Value : Local(n, v) \/ Declare(n, v)
    \/ \E n \in Names : Mark(n, ReadOnly) \/ Unset(n)
    \/ \E kind \in {"function", "command"} :
          Call(kind) \/ \E n \in Names, v \in Value \ {0} : CallWith(kind, n, v)
    \/ Return \/ Recover

VSpec == VInit /\ [][VNext]_vvars
-----------------------------------------------------------------------------
\* Properties.

\* The type of the state.
VTypeOK ==
    /\ dialect \in {"posix", "bash"}
    /\ entries \in [Names -> Entry]
    /\ cache \in [Names -> Value]
    /\ \A f \in DOMAIN locals : \A i \in DOMAIN locals[f] :
          locals[f][i].name \in Names /\ locals[f][i].previous \in Entry
    /\ \A i \in DOMAIN functionFrames : functionFrames[i] \in DOMAIN locals
    /\ \A i \in DOMAIN calls : calls[i].kind \in {"function", "command"} /\ calls[i].mark \in 0..MaxCalls

\* What a frame saved of n first is what n had when the frame was made.
Oldest(frame, n) ==
    LET saves == {i \in DOMAIN frame : frame[i].name = n}
    IN  frame[CHOOSE i \in saves : \A j \in saves : i <= j].previous

\* The entry n has under the frames above frame f, in a table with these entries and frames.
EntryIn(table, frames, f, n) ==
    LET hiding == {g \in f + 1..Len(frames) : SavedIn(frames[g], n)}
    IN  IF hiding = {} THEN table[n]
        ELSE Oldest(frames[CHOOSE g \in hiding : \A h \in hiding : g <= h], n)
EntryAt(f, n) == EntryIn(entries, locals, f, n)

Scoped == INSTANCE Bindings WITH
    Key <- Names, Val <- Entry,
    base <- [n \in Names |-> EntryAt(0, n)],
    stack <- [f \in 1..Len(locals) |->
                [n \in {m \in Names : SavedIn(locals[f], m)} |-> EntryAt(f, n)]]

\* variables.rs: saving into frames and restoring them implements scoped
\* variables, in both dialects: what a function or a command declared is gone
\* when it ends, attributes included, and nothing else is.
VariablesAreScoped == Scoped!BSpec

\* variables.rs:508: a cache that depends on a variable agrees with the variable
\* as long as the entry carries its callback, through locals, unset and recovery.
CacheFollowsValue == \A n \in Names : entries[n].callback => cache[n] = entries[n].val

\* variables.rs:599: what is read-only outside every function stays as it is,
\* whatever functions and commands hide it.
ReadOnlyIsForever ==
    [][\A n \in Names : EntryAt(0, n).readonly =>
          EntryAt(0, n)'.readonly /\ EntryAt(0, n)'.val = EntryAt(0, n).val]_vvars

\* variables.rs:512: "If IFS is unset the default applies": the cache of a variable
\* that is unset holds no value.
UnsetClearsCache == \A n \in Names : ~Present(n) => cache[n] = 0
=============================================================================
