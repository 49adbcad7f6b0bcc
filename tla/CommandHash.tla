---------------------------- MODULE CommandHash ----------------------------
(***************************************************************************)
(* The command table: where a command name was found, remembered between   *)
(* runs (execution.rs, execution/dialect_dispatch.rs, builtins/hash.rs,    *)
(* builtins/enable.rs, the end of builtins/cd.rs).                         *)
(*                                                                         *)
(* The table is a map from names and no operation relates two names, so    *)
(* the model follows one.  An external command is remembered by the index  *)
(* of its PATH component, never by its path: the index means something     *)
(* only for the PATH it was found in, and for a relative component only in *)
(* the directory the shell was in.  Hit counts are left out.               *)
(***************************************************************************)
EXTENDS FiniteSetsExt, Naturals, Sequences

CONSTANTS
    Absolute,     \* absolute PATH components
    Relative,     \* relative PATH components
    BuiltinSlot,  \* the component %builtin
    FuncDir,      \* a component with the %func option
    Cwds,         \* working directories
    Start,        \* the one the shell starts in
    Standard,     \* the standard path command -p searches
    MaxPath       \* bound: components of a PATH

ASSUME CommandHashAssumption ==
    /\ Start \in Cwds /\ MaxPath \in Nat \ {0} /\ Standard \in Seq(Absolute)
    /\ Absolute \cap Relative = {} /\ {BuiltinSlot, FuncDir} \cap (Absolute \cup Relative) = {}
    /\ Absolute # {} /\ BuiltinSlot # FuncDir

Component == Absolute \cup Relative \cup {BuiltinSlot, FuncDir}
Paths == UNION {[1..n -> Component] : n \in 1..MaxPath}
Places == (Absolute \cup {FuncDir}) \X {"/"} \cup Relative \X Cwds

NoEntry == [kind |-> "none", index |-> 0, rehash |-> FALSE, pinned |-> FALSE]
HashEntry(kind, index) == [NoEntry EXCEPT !.kind = kind, !.index = index]
Pin == [HashEntry("external", 0) EXCEPT !.pinned = TRUE]

VARIABLES
    spec,       \* the registry's row for the name: "none", "regular", "plain", "bash"
    bash,       \* the dialect
    disabled,   \* DisabledBuiltins holds the name
    search,     \* the value of PATH
    location,   \* CommandTable::builtin_location, counted from 1; 0 is None
    cwd,        \* the working directory
    present,    \* the places with an executable file of that name
    entry,      \* the CommandEntry of the name
    meddled     \* history: files or the registry changed under the entry

hvars == <<spec, bash, disabled, search, location, cwd, present, entry, meddled>>

HInit ==
    /\ spec \in {"none", "regular", "plain", "bash"}
    /\ bash = FALSE /\ disabled = FALSE
    /\ search = <<CHOOSE d \in Absolute : TRUE>> /\ location = 0
    /\ cwd = Start /\ present = {}
    /\ entry = NoEntry /\ meddled = FALSE

----------------------------------------------------------------------------
(* find_command, over the entry e the table has *)

builtin == ~disabled /\ (spec \in {"regular", "plain"} \/ (spec = "bash" /\ bash))

Place(d) == <<d, IF d \in Relative THEN cwd ELSE "/">>

\* CommandEntry::path_dependent: what a change of PATH or directory can move.
PathDependent(e, loc) ==
    \/ e.kind = "external"
    \/ e.kind = "builtin" /\ spec # "regular" /\ loc > 1

\* CommandSearch: who is asking, in PATH or, for command -p, in the standard
\* path.
Asking == [skipFunctions : BOOLEAN, regularOnly : BOOLEAN, path : {search, Standard}]
Default == [skipFunctions |-> FALSE, regularOnly |-> FALSE, path |-> search]

Conflicts(e, s) ==
    CASE e.kind = "function" -> s.skipFunctions
      [] e.kind = "builtin"  -> spec # "regular" /\ s.regularOnly
      [] e.kind = "external" -> s.path # search \/ s.regularOnly
      [] OTHER               -> FALSE

BuiltinAtOnce(s) == builtin /\ (spec = "regular" \/ s.path # search \/ location <= 1)

\* The component a stale entry was found at; 0 when there is none.
Previous(e) == CASE e.kind = "builtin"  -> location
                 [] e.kind = "external" -> e.index
                 [] OTHER               -> 0

\* Mutant: components before the remembered one are skipped, relative ones too.
StopsBehind(i, prev, s) ==
    LET d == s.path[i] IN
    CASE d = BuiltinSlot -> builtin
      [] d = FuncDir     -> ~s.skipFunctions /\ ~(i < prev) /\ Place(d) \in present
      [] OTHER           -> i = prev \/ (i > prev /\ Place(d) \in present)

\* A component ends the walk.  Absolute ones in front of the remembered one
\* were searched before and the remembered one is not examined again.
Stops(i, prev, s) ==
    LET d == s.path[i] IN
    CASE d = BuiltinSlot -> builtin
      [] d = FuncDir     -> ~s.skipFunctions /\ ~(i < prev) /\ Place(d) \in present
      [] d \in Absolute  -> i = prev \/ (i > prev /\ Place(d) \in present)
      [] OTHER           -> Place(d) \in present

Walk(prev, s) ==
    LET stops == {i \in DOMAIN s.path : Stops(i, prev, s)} IN
    IF stops = {} THEN NoEntry
    ELSE LET i == Min(stops) IN
         CASE s.path[i] = BuiltinSlot -> HashEntry("builtin", 0)
           [] s.path[i] = FuncDir     -> HashEntry("function", 0)
           [] OTHER                   -> HashEntry("external", i)

\* A disabled built-in that is to be searched for again is answered, by the
\* external component of another path in the place of its %builtin.
AtRemembered(e, walked, s) ==
    /\ e.kind = "builtin" /\ s.path # search
    /\ walked.kind = "external" /\ walked.index = location

\* What the search answers (NoEntry: Command::Unknown) and what it leaves in
\* the table.
Found(e, s) ==
    LET conflicts == Conflicts(e, s)
        update    == s.path = search /\ ~conflicts
        known     == IF conflicts THEN NoEntry ELSE e
        walked    == Walk(Previous(known), s)
        refused   == [answer |-> NoEntry, table |-> e]
        kept(r)   == [answer |-> r, table |-> IF update \/ r.kind = "function" THEN r ELSE e]
        again     == [known EXCEPT !.rehash = FALSE]
    IN  IF conflicts /\ s.regularOnly /\ e.kind # "function" THEN refused
        ELSE IF known # NoEntry /\ ~known.rehash THEN [answer |-> known, table |-> e]
        ELSE IF BuiltinAtOnce(s) THEN kept(HashEntry("builtin", 0))
        ELSE IF s.regularOnly THEN refused
        ELSE IF AtRemembered(known, walked, s) THEN [answer |-> again, table |-> again]
        ELSE kept(walked)

----------------------------------------------------------------------------
(* The operations *)

Becomes(e) == entry' = e /\ meddled' = (meddled /\ e # NoEntry)
Registry == <<spec, bash, disabled>>
Outside == <<search, location, cwd, present>>

\* Running, type, command -v and the like.  A file in a %func directory that
\* does not define the function is an error and leaves the table alone.
FindCommand(s) ==
    /\ \/ Becomes(Found(entry, s).table)
       \/ /\ Found(entry, s).answer.kind = "function" /\ entry.kind # "function"
          /\ UNCHANGED <<entry, meddled>>
    /\ UNCHANGED <<Registry, Outside>>

define_function ==
    /\ Becomes(HashEntry("function", 0)) /\ UNCHANGED <<Registry, Outside>>

unset_function ==
    /\ entry.kind = "function"
    /\ Becomes(NoEntry) /\ UNCHANGED <<Registry, Outside>>

BuiltinLocation(p) ==
    LET at == {i \in DOMAIN p : p[i] = BuiltinSlot} IN IF at = {} THEN 0 ELSE Min(at)

\* Mutant: the entry is judged by the location in the old PATH.
ClearedBefore(e, loc) == IF PathDependent(e, location) THEN NoEntry ELSE e

\* clear_command_cache.
Cleared(e, loc) == IF PathDependent(e, loc) THEN NoEntry ELSE e

\* An assignment to PATH, a restored prefix assignment included: the variable's
\* callback runs before the value is seen by anyone.
update_search_path(p) ==
    /\ search' = p /\ location' = BuiltinLocation(p)
    /\ Becomes(Cleared(entry, BuiltinLocation(p)))
    /\ UNCHANGED <<Registry, cwd, present>>

\* Mutant: cd leaves the table alone.
cd_only(c) ==
    /\ cwd' = c
    /\ UNCHANGED <<Registry, search, location, present, meddled, entry>>

\* A successful cd.
invalidate_cache_after_directory_change(c) ==
    /\ cwd' = c
    /\ entry' = [entry EXCEPT !.rehash = @ \/ PathDependent(entry, location)]
    /\ UNCHANGED <<Registry, search, location, present, meddled>>

HashClear == Becomes(Cleared(entry, location)) /\ UNCHANGED <<Registry, Outside>>

\* hash name.
populate ==
    /\ Becomes(Found(Cleared(entry, location), Default).table)
    /\ UNCHANGED <<Registry, Outside>>

HashForget ==
    /\ bash /\ entry.kind = "external"
    /\ Becomes(NoEntry) /\ UNCHANGED <<Registry, Outside>>

HashPin == bash /\ Becomes(Pin) /\ UNCHANGED <<Registry, Outside>>

\* enable and enable -n.
Enable(off) ==
    /\ bash /\ spec # "none" /\ off # disabled
    /\ disabled' = off /\ meddled' = (entry # NoEntry)
    /\ UNCHANGED <<spec, bash, Outside, entry>>

\* options_changed: invalidate_dispatch drops the built-ins found in the old
\* registry, and keeps a command found in PATH for want of a built-in.
SetDialect(on) ==
    /\ on # bash /\ bash' = on
    /\ entry' = IF entry.kind = "builtin" THEN NoEntry ELSE entry
    /\ meddled' = (entry.kind = "external" /\ (meddled \/ spec = "bash"))
    /\ UNCHANGED <<spec, disabled, Outside>>

\* Somebody creates or removes a file.
Touch(p) ==
    /\ present' = IF p \in present THEN present \ {p} ELSE present \cup {p}
    /\ meddled' = (entry # NoEntry)
    /\ UNCHANGED <<Registry, search, location, cwd, entry>>

HNext ==
    \/ \E s \in Asking : FindCommand(s)
    \/ define_function \/ unset_function
    \/ \E p \in Paths : update_search_path(p)
    \/ \E c \in Cwds \ {cwd} : invalidate_cache_after_directory_change(c)
    \/ HashClear \/ populate \/ HashForget \/ HashPin
    \/ \E off \in BOOLEAN : Enable(off)
    \/ \E on \in BOOLEAN : SetDialect(on)
    \/ \E p \in Places : Touch(p)

HSpec == HInit /\ [][HNext]_hvars

----------------------------------------------------------------------------
(* Properties *)

HTypeOK ==
    /\ spec \in {"none", "regular", "plain", "bash"}
    /\ bash \in BOOLEAN /\ disabled \in BOOLEAN /\ meddled \in BOOLEAN
    /\ search \in Paths /\ location \in 0..MaxPath
    /\ cwd \in Cwds /\ present \subseteq Places
    /\ entry \in [kind : {"none", "function", "builtin", "external"},
                  index : 0..MaxPath, rehash : BOOLEAN, pinned : BOOLEAN]

\* While nobody changes files or the registry under it, a remembered command
\* is the one a search of PATH from the beginning would find now, after any
\* sequence of cd, PATH assignments, hash and lookups with other paths (the
\* search may be one that skips %func directories, as command's is)
\* (find_command, update_search_path, invalidate_cache_after_directory_change).
HashAgreesWithSearch ==
    (~meddled /\ entry.kind \in {"builtin", "external"} /\ ~entry.pinned) =>
        \E skips \in BOOLEAN :
            LET s == [Default EXCEPT !.skipFunctions = skips]
                fresh == Found(NoEntry, s).answer
                remembered == Found(entry, s).answer
            IN fresh.kind = remembered.kind /\ fresh.index = remembered.index

\* enable.rs:1 says that enable chooses "which built-ins the command lookup is
\* allowed to find": a disabled built-in is not found.
DisabledIsNotFound == disabled => Found(entry, Default).answer.kind # "builtin"

\* execution.rs says of a pinned name that find_command "never walks PATH for
\* the name again" until the table is cleared or the name forgotten.
PinIsKept == entry.pinned => ~entry.rehash
=============================================================================
