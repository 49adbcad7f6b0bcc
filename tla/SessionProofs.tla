---------------------------- MODULE SessionProofs ----------------------------
(* Proofs about what the shell remembers from one command to the next:        *)
(* CommandHash, for any PATH, any number of directories and any sequence of   *)
(* operations: a remembered command is the one a search would find;           *)
(* InputStack, for any aliases, values, frames and here-documents: an alias   *)
(* is marked in use exactly while its text is being read, and a word is not   *)
(* expanded for ever; and Arrays, for any names, texts and commands: what is  *)
(* read-only stays, but for the two ways round it that the module names.      *)
EXTENDS CommandHash, InputStack, Arrays, SharedLemmas

-----------------------------------------------------------------------------
(* CommandHash. *)

\* The invariant.  What makes a remembered command sound is knowledge about the
\* components in front of it: those the table is still sure of hold no such
\* file.  A stale entry is sure of the absolute ones only.
SureOf(d, stale) == d \in Absolute \/ (d \in Relative /\ ~stale)
NothingBefore(i, stale) ==
    \A j \in DOMAIN search : j < i /\ SureOf(search[j], stale) => Place(search[j]) \notin present

AtOnce == builtin /\ (spec = "regular" \/ location <= 1)

SoundBuiltin(e) ==
    e.kind = "builtin" =>
        /\ builtin /\ e.index = 0
        /\ AtOnce \/ NothingBefore(location, e.rehash)
SoundExternal(e) ==
    e.kind = "external" =>
        /\ e.index \in DOMAIN search /\ search[e.index] \in Absolute \cup Relative
        /\ SureOf(search[e.index], e.rehash) => Place(search[e.index]) \in present
        /\ NothingBefore(e.index, e.rehash)
        /\ ~AtOnce /\ (builtin => e.index < location)
Sound(e) == SoundBuiltin(e) /\ SoundExternal(e)

\* hash -p remembers a path and no component.
Pinned(e) == e.pinned => e.kind = "external" /\ e.index = 0

HInv ==
    /\ HTypeOK /\ location = BuiltinLocation(search) /\ Pinned(entry)
    /\ ~meddled /\ ~entry.pinned => Sound(entry)

-----------------------------------------------------------------------------
\* Searches.

EntryType == [kind : {"none", "function", "builtin", "external"},
              index : 0..MaxPath, rehash : BOOLEAN, pinned : BOOLEAN]

LEMMA PathIsSeq ==
  ASSUME NEW p \in Paths
  PROVE  \E n \in 1..MaxPath : DOMAIN p = 1..n /\ \A j \in 1..n : p[j] \in Component
BY DEF Paths

LEMMA LeastIs ==
  ASSUME NEW S \in SUBSET Nat, NEW i \in S, \A j \in S : i <= j
  PROVE  Min(S) = i
<1>1. ASSUME NEW m \in S, \A j \in S : m <= j PROVE m = i
  <2>1. m <= i /\ i <= m /\ m \in Nat /\ i \in Nat
    BY <1>1
  <2>2. QED BY <2>1
<1>2. QED BY <1>1 DEF Min

LEMMA LeastOf ==
  ASSUME NEW S \in SUBSET Nat, S # {}
  PROVE  Min(S) \in S /\ \A j \in S : Min(S) <= j
BY LeastExists DEF Min

LEMMA LocationIs ==
  ASSUME NEW p \in Paths
  PROVE  /\ BuiltinLocation(p) \in 0..MaxPath
         /\ BuiltinLocation(p) = 0 => \A j \in DOMAIN p : p[j] # BuiltinSlot
         /\ BuiltinLocation(p) # 0 => BuiltinLocation(p) \in DOMAIN p /\ p[BuiltinLocation(p)] = BuiltinSlot
         /\ \A j \in DOMAIN p : p[j] = BuiltinSlot => BuiltinLocation(p) <= j /\ BuiltinLocation(p) # 0
<1> DEFINE at == {i \in DOMAIN p : p[i] = BuiltinSlot}
<1>1. PICK n \in 1..MaxPath : DOMAIN p = 1..n
  BY PathIsSeq
<1>2. at \in SUBSET Nat
  BY <1>1
<1>3. BuiltinLocation(p) = IF at = {} THEN 0 ELSE Min(at)
  BY DEF BuiltinLocation
<1>4. CASE at = {}
  BY <1>3, <1>4, CommandHashAssumption
<1>5. CASE at # {}
  <2>1. Min(at) \in at /\ \A j \in at : Min(at) <= j
    BY <1>2, <1>5, LeastOf
  <2>2. Min(at) \in 1..n /\ n \in 1..MaxPath /\ MaxPath \in Nat
    BY <1>1, <2>1, CommandHashAssumption
  <2>3. Min(at) \in 0..MaxPath /\ Min(at) # 0
    BY <2>2
  <2>4. QED BY <1>3, <1>5, <2>1, <2>3
<1>6. QED BY <1>4, <1>5

\* What ends a search, component by component.
LEMMA StopsIs ==
  ASSUME NEW s, s.path = search, NEW prev, NEW i
  PROVE  /\ search[i] = BuiltinSlot => (Stops(i, prev, s) <=> builtin)
         /\ search[i] = FuncDir => (Stops(i, prev, s) <=>
               ~s.skipFunctions /\ ~(i < prev) /\ Place(search[i]) \in present)
         /\ search[i] \in Absolute => (Stops(i, prev, s) <=>
               i = prev \/ (i > prev /\ Place(search[i]) \in present))
         /\ search[i] \in Relative => (Stops(i, prev, s) <=> Place(search[i]) \in present)
<1>1. CASE search[i] = BuiltinSlot
  BY <1>1, CommandHashAssumption DEF Stops, builtin
<1>2. CASE search[i] = FuncDir
  BY <1>2, CommandHashAssumption DEF Stops, builtin
<1>3. CASE search[i] \in Absolute
  BY <1>3, CommandHashAssumption DEF Stops, builtin
<1>4. CASE search[i] \in Relative
  BY <1>4, CommandHashAssumption DEF Stops, builtin
<1>5. QED BY <1>1, <1>2, <1>3, <1>4

LEMMA WalkFinds ==
  ASSUME HTypeOK, NEW s, s.path = search, NEW prev,
         NEW i \in DOMAIN search, Stops(i, prev, s), \A j \in DOMAIN search : j < i => ~Stops(j, prev, s)
  PROVE  /\ search[i] = BuiltinSlot => Walk(prev, s) = HashEntry("builtin", 0)
         /\ search[i] = FuncDir => Walk(prev, s) = HashEntry("function", 0)
         /\ search[i] \in Absolute \cup Relative => Walk(prev, s) = HashEntry("external", i)
<1> DEFINE stops == {j \in DOMAIN search : Stops(j, prev, s)}
<1>1. PICK n \in 1..MaxPath : DOMAIN search = 1..n
  BY PathIsSeq DEF HTypeOK
<1>2. stops \in SUBSET Nat /\ i \in stops /\ \A j \in stops : i <= j
  BY <1>1
<1>3. Min(stops) = i
  BY <1>2, LeastIs
<1> HIDE DEF stops
<1>4. Walk(prev, s) = IF stops = {} THEN NoEntry
                      ELSE CASE search[Min(stops)] = BuiltinSlot -> HashEntry("builtin", 0)
                             [] search[Min(stops)] = FuncDir     -> HashEntry("function", 0)
                             [] OTHER                            -> HashEntry("external", Min(stops))
  BY DEF Walk, stops
<1>5. Walk(prev, s) = CASE search[i] = BuiltinSlot -> HashEntry("builtin", 0)
                        [] search[i] = FuncDir     -> HashEntry("function", 0)
                        [] OTHER                   -> HashEntry("external", i)
  BY <1>2, <1>3, <1>4
<1> DEFINE bi == HashEntry("builtin", 0)
           fu == HashEntry("function", 0)
           ex == HashEntry("external", i)
<1>6. Walk(prev, s) = CASE search[i] = BuiltinSlot -> bi [] search[i] = FuncDir -> fu [] OTHER -> ex
  BY <1>5
<1> HIDE DEF bi, fu, ex
<1>7. /\ search[i] = BuiltinSlot => Walk(prev, s) = bi
      /\ search[i] = FuncDir => Walk(prev, s) = fu
      /\ search[i] \in Absolute \cup Relative => Walk(prev, s) = ex
  BY <1>6, CommandHashAssumption
<1>8. QED BY <1>7 DEF bi, fu, ex

LEMMA WalkStops ==
  ASSUME HTypeOK, NEW s, s.path = search, NEW prev
  PROVE  \/ Walk(prev, s) = NoEntry
         \/ \E i \in DOMAIN search : Stops(i, prev, s) /\ \A j \in DOMAIN search : j < i => ~Stops(j, prev, s)
<1> DEFINE stops == {j \in DOMAIN search : Stops(j, prev, s)}
<1>1. PICK n \in 1..MaxPath : DOMAIN search = 1..n
  BY PathIsSeq DEF HTypeOK
<1>2. CASE stops = {}
  BY <1>2 DEF Walk
<1>3. CASE stops # {}
  <2>1. stops \in SUBSET Nat
    BY <1>1
  <2>2. PICK i \in stops : \A j \in stops : i <= j
    BY <1>3, <2>1, LeastExists
  <2>3. \A j \in DOMAIN search : j < i => j \notin stops
    BY <1>1, <2>1, <2>2
  <2>4. QED BY <2>2, <2>3
<1>4. QED BY <1>2, <1>3
\* The components before the one that stops a search from a remembered position.
LEMMA PassedOver ==
  ASSUME HTypeOK, location = BuiltinLocation(search), NEW e, Sound(e), e.rehash \/ e = NoEntry,
         ~AtOnce \/ e.kind # "builtin",
         NEW s, s.path = search, NEW i \in DOMAIN search, \A j \in DOMAIN search : j < i => ~Stops(j, Previous(e), s)
  PROVE  NothingBefore(i, FALSE)
<1> DEFINE prev == Previous(e)
<1>1. PICK n \in 1..MaxPath : DOMAIN search = 1..n /\ \A j \in 1..n : search[j] \in Component
  BY PathIsSeq DEF HTypeOK
<1>2. prev \in Nat
  BY <1>1, CommandHashAssumption DEF Previous, HTypeOK, Sound, SoundExternal, NoEntry
<1> SUFFICES ASSUME NEW j \in DOMAIN search, j < i, SureOf(search[j], FALSE), Place(search[j]) \in present
             PROVE  FALSE
  BY DEF NothingBefore
<1>3. j \in Nat /\ ~Stops(j, prev, s) /\ s.path[j] = search[j]
  BY <1>1
<1>4. search[j] # BuiltinSlot /\ search[j] # FuncDir
  BY CommandHashAssumption DEF SureOf
<1>5. CASE search[j] \in Relative
  BY <1>3, <1>4, <1>5, StopsIs
<1>6. CASE search[j] \in Absolute
  <2>1. j < prev
    <3>1. ~(j = prev) /\ ~(j > prev)
      BY <1>3, <1>4, <1>6, StopsIs
    <3>2. QED BY <1>2, <1>3, <3>1
  <2>2. NothingBefore(prev, e.rehash)
    BY <1>3, <2>1 DEF Previous, Sound, SoundBuiltin, SoundExternal, NothingBefore
  <2>3. QED BY <1>6, <2>1, <2>2 DEF NothingBefore, SureOf
<1>7. QED BY <1>5, <1>6 DEF SureOf

\* What a search that began at a sound stale entry, or at none, leaves in the table is sound.
LEMMA WalkSound ==
  ASSUME HTypeOK, location = BuiltinLocation(search), NEW e, Sound(e), e.rehash \/ e = NoEntry, ~AtOnce,
         NEW s, s.path = search
  PROVE  Sound(Walk(Previous(e), s)) /\ Walk(Previous(e), s) \in EntryType
<1> DEFINE prev == Previous(e)
           r == Walk(prev, s)
<1>1. PICK n \in 1..MaxPath : DOMAIN search = 1..n /\ \A j \in 1..n : search[j] \in Component
  BY PathIsSeq DEF HTypeOK
<1>2. CASE r = NoEntry
  BY <1>2, CommandHashAssumption DEF Sound, SoundBuiltin, SoundExternal, NoEntry, EntryType
<1>3. CASE r # NoEntry
  <2>1. PICK i \in DOMAIN search : Stops(i, prev, s) /\ \A j \in DOMAIN search : j < i => ~Stops(j, prev, s)
    BY <1>3, WalkStops
  <2>2. /\ search[i] = BuiltinSlot => r = HashEntry("builtin", 0)
        /\ search[i] = FuncDir => r = HashEntry("function", 0)
        /\ search[i] \in Absolute \cup Relative => r = HashEntry("external", i)
    BY <2>1, WalkFinds
  <2>3. NothingBefore(i, FALSE)
    BY <2>1, PassedOver
  <2>4. /\ i \in 0..MaxPath /\ i \in Nat /\ 0 \in 0..MaxPath /\ location \in Nat
        /\ \A j \in DOMAIN search : j \in Nat
    BY <1>1, CommandHashAssumption, LocationIs DEF HTypeOK
  <2>5. CASE search[i] = BuiltinSlot
    <3>1. builtin
      BY <2>1, <2>5, StopsIs
    <3>2. location \in DOMAIN search /\ search[location] = BuiltinSlot /\ location <= i
      BY <2>5, LocationIs DEF HTypeOK
    <3>3. Stops(location, prev, s)
      BY <3>1, <3>2, StopsIs
    <3>4. location = i
      BY <2>1, <2>4, <3>2, <3>3
    <3>5. r = HashEntry("builtin", 0)
      BY <2>2, <2>5
    <3>6. r.kind = "builtin" /\ r.index = 0 /\ r.rehash = FALSE /\ r \in EntryType
      BY <2>4, <3>5 DEF HashEntry, NoEntry, EntryType
    <3>7. QED BY <2>3, <3>1, <3>4, <3>6 DEF Sound, SoundBuiltin, SoundExternal
  <2>6. CASE search[i] = FuncDir
    <3>1. r = HashEntry("function", 0)
      BY <2>2, <2>6, CommandHashAssumption
    <3>2. r.kind = "function" /\ r \in EntryType
      BY <2>4, <3>1 DEF HashEntry, NoEntry, EntryType
    <3>3. QED BY <3>2 DEF Sound, SoundBuiltin, SoundExternal
  <2>7. CASE search[i] \in Absolute \cup Relative
    <3>1. r = HashEntry("external", i) /\ search[i] # BuiltinSlot /\ search[i] # FuncDir
      BY <2>2, <2>7, CommandHashAssumption
    <3>2. r.kind = "external" /\ r.index = i /\ r.rehash = FALSE /\ r \in EntryType
      BY <2>4, <3>1 DEF HashEntry, NoEntry, EntryType
    <3>3. Place(search[i]) \in present
      <4>1. CASE search[i] \in Relative
        BY <2>1, <3>1, <4>1, StopsIs
      <4>2. CASE search[i] \in Absolute
        <5>1. i = prev \/ Place(search[i]) \in present
          BY <2>1, <3>1, <4>2, StopsIs
        <5>2. CASE i = prev
          <6>1. e.kind # "none"
            BY <1>1, <5>2 DEF Previous
          <6>2. ASSUME e.kind = "builtin" PROVE FALSE
            <7>1. i = location
              BY <5>2, <6>2 DEF Previous
            <7>2. search[location] = BuiltinSlot
              BY <1>1, <7>1, LocationIs DEF HTypeOK
            <7>3. QED BY <3>1, <7>1, <7>2
          <6>3. e.kind = "external" /\ e.index = i
            BY <1>1, <5>2, <6>1, <6>2 DEF Previous
          <6>4. QED BY <4>2, <6>3 DEF Sound, SoundExternal, SureOf
        <5>3. QED BY <5>1, <5>2
      <4>3. QED BY <2>7, <4>1, <4>2
    <3>4. ASSUME builtin PROVE i < location
      <4>1. location > 1
        BY <2>4, <3>4 DEF AtOnce
      <4>2. location \in DOMAIN search /\ search[location] = BuiltinSlot
        BY <2>4, <4>1, LocationIs DEF HTypeOK
      <4>3. Stops(location, prev, s)
        BY <3>4, <4>2, StopsIs
      <4>4. ~(location < i)
        BY <2>1, <4>2, <4>3
      <4>5. QED BY <2>4, <3>1, <4>2, <4>4
    <3>5. QED BY <2>3, <2>7, <3>2, <3>3, <3>4 DEF Sound, SoundBuiltin, SoundExternal
  <2>8. QED BY <1>1, <2>5, <2>6, <2>7 DEF Component
<1>4. QED BY <1>2, <1>3
-----------------------------------------------------------------------------
\* Lookups.

\* The built-in answers before any component of PATH is looked at.
LEMMA AtOnceIs ==
  ASSUME NEW s, s.path = search PROVE BuiltinAtOnce(s) <=> AtOnce
BY DEF BuiltinAtOnce, AtOnce, builtin

\* A walk that ends at a function remembers no position.
LEMMA FunctionIs ==
  ASSUME NEW prev, NEW s, Walk(prev, s).kind = "function"
  PROVE  Walk(prev, s) = HashEntry("function", 0)
<1> DEFINE stops == {i \in DOMAIN s.path : Stops(i, prev, s)}
           i == Min(stops)
           bi == HashEntry("builtin", 0)
           fu == HashEntry("function", 0)
           ex == HashEntry("external", i)
<1>1. bi.kind = "builtin" /\ ex.kind = "external" /\ NoEntry.kind = "none"
  BY DEF HashEntry, NoEntry
<1>2. Walk(prev, s) = IF stops = {} THEN NoEntry
                      ELSE CASE s.path[i] = BuiltinSlot -> bi [] s.path[i] = FuncDir -> fu [] OTHER -> ex
  BY DEF Walk
<1> HIDE DEF stops, i, bi, fu, ex
<1>3. Walk(prev, s) = NoEntry \/ Walk(prev, s) = bi \/ Walk(prev, s) = fu \/ Walk(prev, s) = ex
  BY <1>2
<1>4. QED BY <1>1, <1>3 DEF fu

\* The cases of a lookup, by the entry e of the table.
LEMMA FoundIs ==
  ASSUME NEW e, NEW s
  PROVE  \/ Found(e, s) = [answer |-> NoEntry, table |-> e] /\ s.regularOnly
         \/ Found(e, s) = [answer |-> e, table |-> e] /\ ~Conflicts(e, s) /\ e # NoEntry /\ ~e.rehash
         \/ /\ e.kind = "builtin" /\ ~BuiltinAtOnce(s) /\ s.path # search
            /\ Found(e, s) = [answer |-> [e EXCEPT !.rehash = FALSE], table |-> [e EXCEPT !.rehash = FALSE]]
         \/ \E r : /\ Found(e, s) = [answer |-> r,
                            table |-> IF (s.path = search /\ ~Conflicts(e, s)) \/ r.kind = "function" THEN r ELSE e]
                   /\ ~Conflicts(e, s) => e = NoEntry \/ e.rehash
                   /\ \/ BuiltinAtOnce(s) /\ r = HashEntry("builtin", 0)
                      \/ ~BuiltinAtOnce(s) /\ ~s.regularOnly
                         /\ r = Walk(Previous(IF Conflicts(e, s) THEN NoEntry ELSE e), s)
<1> DEFINE conflicts == Conflicts(e, s)
           known == IF conflicts THEN NoEntry ELSE e
           walked == Walk(Previous(known), s)
           atOnce == BuiltinAtOnce(s)
           bi == HashEntry("builtin", 0)
           refused == [answer |-> NoEntry, table |-> e]
           Answered(r) == [answer |-> r, table |-> IF (s.path = search /\ ~conflicts) \/ r.kind = "function" THEN r ELSE e]
           keptBuiltin == Answered(bi)
           keptWalked == Answered(walked)
           asKnown == [answer |-> known, table |-> e]
           again == [answer |-> [known EXCEPT !.rehash = FALSE], table |-> [known EXCEPT !.rehash = FALSE]]
<1>1. Found(e, s) =
        IF conflicts /\ s.regularOnly /\ e.kind # "function" THEN refused
        ELSE IF known # NoEntry /\ ~known.rehash THEN asKnown
        ELSE IF atOnce THEN keptBuiltin
        ELSE IF s.regularOnly THEN refused
        ELSE IF AtRemembered(known, walked, s) THEN again
        ELSE keptWalked
  BY DEF Found
<1>2. NoEntry.rehash = FALSE
  BY DEF NoEntry
<1>9. AtRemembered(known, walked, s) => e.kind = "builtin" /\ known = e /\ s.path # search
  BY DEF AtRemembered, NoEntry
<1> HIDE DEF refused, keptBuiltin, keptWalked, again, atOnce, asKnown, walked, known, conflicts
<1>3. \/ Found(e, s) = refused /\ s.regularOnly
      \/ Found(e, s) = asKnown /\ known # NoEntry /\ ~known.rehash
      \/ Found(e, s) = keptBuiltin /\ atOnce /\ ~(known # NoEntry /\ ~known.rehash)
      \/ Found(e, s) = keptWalked /\ ~atOnce /\ ~s.regularOnly /\ ~(known # NoEntry /\ ~known.rehash)
      \/ Found(e, s) = again /\ ~atOnce /\ AtRemembered(known, walked, s)
  BY <1>1
<1> USE DEF known, conflicts, walked
<1>4. CASE Found(e, s) = refused /\ s.regularOnly
  BY <1>4 DEF refused
<1>5. CASE Found(e, s) = asKnown /\ known # NoEntry /\ ~known.rehash
  BY <1>5 DEF asKnown
<1>6. CASE Found(e, s) = keptBuiltin /\ atOnce /\ ~(known # NoEntry /\ ~known.rehash)
  BY <1>6 DEF keptBuiltin, atOnce
<1>7. CASE Found(e, s) = keptWalked /\ ~atOnce /\ ~s.regularOnly /\ ~(known # NoEntry /\ ~known.rehash)
  BY <1>7 DEF keptWalked, atOnce
<1>8. CASE Found(e, s) = again /\ ~atOnce /\ AtRemembered(known, walked, s)
  BY <1>8, <1>9 DEF again, atOnce
<1>10. QED BY <1>3, <1>4, <1>5, <1>6, <1>7, <1>8

LEMMA HashEntryIs ==
  \A kind \in {"builtin", "function", "external"}, k \in 0..MaxPath :
     /\ HashEntry(kind, k) \in EntryType
     /\ HashEntry(kind, k).kind = kind /\ HashEntry(kind, k).index = k
     /\ ~HashEntry(kind, k).pinned /\ ~HashEntry(kind, k).rehash
<1>1. 0 \in 0..MaxPath
  BY CommandHashAssumption
<1>2. NoEntry \in EntryType /\ ~NoEntry.pinned /\ ~NoEntry.rehash
  BY <1>1 DEF NoEntry, EntryType
<1>3. QED BY <1>2 DEF HashEntry, EntryType

\* A walk along PATH finds an entry of the table's type, which nobody pinned.
LEMMA WalkType ==
  ASSUME HTypeOK, NEW prev, NEW s, s.path = search
  PROVE  Walk(prev, s) \in EntryType /\ ~Walk(prev, s).pinned /\ ~Walk(prev, s).rehash
<1>1. PICK n \in 1..MaxPath : DOMAIN search = 1..n /\ \A j \in 1..n : search[j] \in Component
  BY PathIsSeq DEF HTypeOK
<1>2. CASE Walk(prev, s) = NoEntry
  BY <1>2, CommandHashAssumption DEF NoEntry, EntryType
<1>3. CASE Walk(prev, s) # NoEntry
  <2>1. PICK i \in DOMAIN search : Stops(i, prev, s) /\ \A j \in DOMAIN search : j < i => ~Stops(j, prev, s)
    BY <1>3, WalkStops
  <2>2. i \in 0..MaxPath /\ 0 \in 0..MaxPath
    BY <1>1, CommandHashAssumption
  <2>3. search[i] = BuiltinSlot \/ search[i] = FuncDir \/ search[i] \in Absolute \cup Relative
    BY <1>1 DEF Component
  <2>4. \E kind \in {"builtin", "function", "external"}, k \in 0..MaxPath : Walk(prev, s) = HashEntry(kind, k)
    BY <2>1, <2>2, <2>3, WalkFinds
  <2>5. QED BY <2>4 DEF HashEntry, NoEntry, EntryType
<1>4. QED BY <1>2, <1>3

\* A lookup leaves the entry it met, or a sound one.
LEMMA TableSound ==
  ASSUME HTypeOK, location = BuiltinLocation(search), NEW e \in EntryType, Pinned(e), NEW s
  PROVE  /\ Found(e, s).table \in EntryType
         /\ \/ Found(e, s).table = e
            \/ /\ ~Found(e, s).table.pinned
               /\ e.pinned \/ Sound(e) => Sound(Found(e, s).table)
<1> DEFINE t == Found(e, s).table
           fu == HashEntry("function", 0)
           bi == HashEntry("builtin", 0)
<1>1. /\ fu \in EntryType /\ bi \in EntryType /\ ~fu.pinned /\ ~bi.pinned
      /\ fu.kind = "function" /\ bi.kind = "builtin" /\ bi.index = 0
  <2>1. 0 \in 0..MaxPath
    BY CommandHashAssumption
  <2>2. QED BY <2>1, HashEntryIs
<1>2. Sound(fu)
  BY <1>1 DEF Sound, SoundBuiltin, SoundExternal
<1> HIDE DEF fu, bi
<1>3. CASE Found(e, s) = [answer |-> NoEntry, table |-> e] \/ Found(e, s) = [answer |-> e, table |-> e]
  BY <1>3
<1>4. ASSUME NEW r,
             Found(e, s) = [answer |-> r,
                            table |-> IF (s.path = search /\ ~Conflicts(e, s)) \/ r.kind = "function" THEN r ELSE e],
             ~Conflicts(e, s) => e = NoEntry \/ e.rehash,
             \/ BuiltinAtOnce(s) /\ r = HashEntry("builtin", 0)
             \/ ~BuiltinAtOnce(s) /\ ~s.regularOnly
                /\ r = Walk(Previous(IF Conflicts(e, s) THEN NoEntry ELSE e), s)
      PROVE  t \in EntryType /\ (t = e \/ (~t.pinned /\ (e.pinned \/ Sound(e) => Sound(t))))
  <2>1. CASE r.kind = "function"
    <3>1. r = fu
      BY <1>1, <1>4, <2>1, FunctionIs DEF fu, bi
    <3>2. t = fu
      BY <1>4, <2>1, <3>1
    <3>3. QED BY <1>1, <1>2, <3>2
  <2>2. CASE r.kind # "function" /\ ~(s.path = search /\ ~Conflicts(e, s))
    BY <1>4, <2>2
  <2>3. CASE r.kind # "function" /\ s.path = search /\ ~Conflicts(e, s)
    <3>1. t = r
      BY <1>4, <2>3
    <3>2. CASE BuiltinAtOnce(s)
      <4>1. AtOnce /\ t = bi
        BY <1>4, <2>3, <3>1, <3>2, AtOnceIs DEF bi
      <4>2. Sound(bi)
        BY <1>1, <4>1 DEF Sound, SoundBuiltin, SoundExternal, AtOnce
      <4>3. QED BY <1>1, <4>1, <4>2
    <3>3. CASE ~BuiltinAtOnce(s)
      <4>1. ~AtOnce /\ t = Walk(Previous(e), s)
        BY <1>4, <2>3, <3>1, <3>3, AtOnceIs
      <4>2. t \in EntryType /\ ~t.pinned
        BY <2>3, <4>1, WalkType
      <4>3. CASE e.pinned
        <5>1. Previous(e) = 0 /\ Previous(NoEntry) = 0
          BY <4>3 DEF Previous, NoEntry, Pinned
        <5>2. Sound(NoEntry)
          BY DEF Sound, SoundBuiltin, SoundExternal, NoEntry
        <5>3. Sound(Walk(Previous(NoEntry), s))
          BY <2>3, <4>1, <5>2, WalkSound
        <5>4. QED BY <4>1, <4>2, <5>1, <5>3
      <4>4. CASE ~e.pinned
        <5>1. e.rehash \/ e = NoEntry
          BY <1>4, <2>3
        <5>2. Sound(e) => Sound(t)
          BY <2>3, <4>1, <5>1, WalkSound
        <5>3. QED BY <4>2, <4>4, <5>2
      <4>5. QED BY <4>3, <4>4
    <3>4. QED BY <3>2, <3>3
  <2>4. QED BY <2>1, <2>2, <2>3
<1>5. CASE /\ e.kind = "builtin" /\ ~BuiltinAtOnce(s) /\ s.path # search
           /\ Found(e, s) = [answer |-> [e EXCEPT !.rehash = FALSE], table |-> [e EXCEPT !.rehash = FALSE]]
  <2>1. t = [e EXCEPT !.rehash = FALSE]
    BY <1>5
  <2>2. t \in EntryType /\ ~e.pinned /\ ~t.pinned
    BY <1>5, <2>1 DEF EntryType, Pinned
  <2>3. ~builtin
    BY <1>5 DEF BuiltinAtOnce
  <2>4. ~Sound(e)
    BY <1>5, <2>3 DEF Sound, SoundBuiltin
  <2>5. QED BY <2>2, <2>4
<1>6. QED BY <1>3, <1>4, <1>5, FoundIs
\* A search from a sound entry's position and one from the beginning of PATH
\* stop at the same components, if functions are skipped.
LEMMA SameStops ==
  ASSUME HTypeOK, location = BuiltinLocation(search), NEW e, Sound(e), e.kind \in {"builtin", "external"}, ~AtOnce,
         NEW s, s.path = search, s.skipFunctions, NEW j \in DOMAIN search
  PROVE  Stops(j, Previous(e), s) <=> Stops(j, 0, s)
<1> DEFINE prev == Previous(e)
<1>1. PICK n \in 1..MaxPath : DOMAIN search = 1..n /\ \A k \in 1..n : search[k] \in Component
  BY PathIsSeq DEF HTypeOK
<1>2. prev \in Nat /\ j \in Nat /\ j > 0 /\ location \in Nat
  BY <1>1, CommandHashAssumption DEF Previous, HTypeOK, Sound, SoundExternal
<1>3. search[j] \in Absolute \/ search[j] \in Relative \/ search[j] = BuiltinSlot \/ search[j] = FuncDir
  BY <1>1 DEF Component
<1>4. ASSUME search[j] \in Absolute PROVE Stops(j, prev, s) <=> Stops(j, 0, s)
  <2>1. Stops(j, prev, s) <=> j = prev \/ (j > prev /\ Place(search[j]) \in present)
    BY <1>4, StopsIs
  <2>2. Stops(j, 0, s) <=> Place(search[j]) \in present
    BY <1>2, <1>4, StopsIs
  <2>3. CASE j < prev
    <3>1. NothingBefore(prev, e.rehash)
      BY DEF Previous, Sound, SoundBuiltin, SoundExternal
    <3>2. Place(search[j]) \notin present
      BY <1>4, <2>3, <3>1 DEF NothingBefore, SureOf
    <3>3. QED BY <1>2, <2>1, <2>2, <2>3, <3>2
  <2>4. CASE j = prev
    <3>1. e.kind = "external"
      <4>1. ASSUME e.kind = "builtin" PROVE FALSE
        <5>1. j = location
          BY <2>4, <4>1 DEF Previous
        <5>2. search[location] = BuiltinSlot
          BY <1>2, <5>1, LocationIs DEF HTypeOK
        <5>3. QED BY <1>4, <5>1, <5>2, CommandHashAssumption
      <4>2. QED BY <4>1
    <3>2. e.index = j
      BY <2>4, <3>1 DEF Previous
    <3>3. Place(search[j]) \in present
      BY <1>4, <3>1, <3>2 DEF Sound, SoundExternal, SureOf
    <3>4. QED BY <2>1, <2>2, <2>4, <3>3
  <2>5. CASE j > prev
    BY <1>2, <2>1, <2>2, <2>5
  <2>6. QED BY <1>2, <2>3, <2>4, <2>5
<1>5. CASE search[j] \in Relative
  BY <1>5, StopsIs
<1>6. CASE search[j] = BuiltinSlot
  BY <1>6, StopsIs
<1>7. CASE search[j] = FuncDir
  BY <1>7, StopsIs
<1>8. QED BY <1>3, <1>4, <1>5, <1>6, <1>7

\* A search from the beginning finds what a sound and fresh entry remembers.
LEMMA FreshFinds ==
  ASSUME HTypeOK, location = BuiltinLocation(search), NEW e, Sound(e), e.kind \in {"builtin", "external"},
         ~e.rehash, ~AtOnce, NEW s, s.path = search, s.skipFunctions
  PROVE  Walk(0, s) = HashEntry(e.kind, e.index)
<1> DEFINE i == Previous(e)
<1>1. PICK n \in 1..MaxPath : DOMAIN search = 1..n /\ \A k \in 1..n : search[k] \in Component
  BY PathIsSeq DEF HTypeOK
<1>2. i \in DOMAIN search /\ NothingBefore(i, FALSE) /\ location \in Nat
  <2>1. location \in Nat
    BY CommandHashAssumption DEF HTypeOK
  <2>2. CASE e.kind = "external"
    BY <2>1, <2>2 DEF Previous, Sound, SoundExternal, NothingBefore, SureOf
  <2>3. CASE e.kind = "builtin"
    <3>1. builtin /\ NothingBefore(location, FALSE)
      BY <2>3 DEF Sound, SoundBuiltin, NothingBefore, SureOf
    <3>2. location \in DOMAIN search
      BY <2>1, <3>1, LocationIs DEF AtOnce, HTypeOK
    <3>3. QED BY <2>1, <2>3, <3>1, <3>2 DEF Previous
  <2>4. QED BY <2>2, <2>3
<1>3. \A j \in DOMAIN search : j \in Nat /\ j > 0
  BY <1>1
<1>4. ASSUME NEW j \in DOMAIN search, j < i PROVE ~Stops(j, 0, s)
  <2>1. search[j] \in Absolute \/ search[j] \in Relative \/ search[j] = BuiltinSlot \/ search[j] = FuncDir
    BY <1>1 DEF Component
  <2>2. CASE search[j] \in Absolute \/ search[j] \in Relative
    <3>1. Place(search[j]) \notin present
      BY <1>2, <1>4, <2>2 DEF NothingBefore, SureOf
    <3>2. QED BY <1>3, <2>2, <3>1, StopsIs
  <2>3. CASE search[j] = BuiltinSlot
    <3>1. location <= j
      BY <2>3, LocationIs DEF HTypeOK
    <3>2. e.kind = "external"
      BY <1>2, <1>3, <1>4, <3>1 DEF Previous
    <3>3. ~builtin
      BY <1>2, <1>3, <1>4, <3>1, <3>2 DEF Previous, Sound, SoundExternal
    <3>4. QED BY <2>3, <3>3, StopsIs
  <2>4. CASE search[j] = FuncDir
    BY <2>4, StopsIs
  <2>5. QED BY <2>1, <2>2, <2>3, <2>4
<1>5. CASE e.kind = "builtin"
  <2>1. i = location /\ builtin /\ e.index = 0
    BY <1>5 DEF Previous, Sound, SoundBuiltin
  <2>2. search[i] = BuiltinSlot
    BY <1>2, <1>3, <2>1, LocationIs DEF HTypeOK
  <2>3. Stops(i, 0, s)
    BY <2>1, <2>2, StopsIs
  <2>4. QED BY <1>2, <1>4, <1>5, <2>1, <2>2, <2>3, WalkFinds
<1>6. CASE e.kind = "external"
  <2>1. i = e.index /\ search[i] \in Absolute \cup Relative /\ Place(search[i]) \in present
    BY <1>1, <1>6 DEF Previous, Sound, SoundExternal, SureOf
  <2>2. Stops(i, 0, s)
    BY <1>2, <1>3, <2>1, StopsIs
  <2>3. QED BY <1>2, <1>4, <1>6, <2>1, <2>2, WalkFinds
<1>7. QED BY <1>5, <1>6

LEMMA SameWalk ==
  ASSUME NEW p, NEW q, NEW s, \A j \in DOMAIN s.path : Stops(j, p, s) <=> Stops(j, q, s)
  PROVE  Walk(p, s) = Walk(q, s)
<1>1. {i \in DOMAIN s.path : Stops(i, p, s)} = {i \in DOMAIN s.path : Stops(i, q, s)}
  OBVIOUS
<1>2. QED BY <1>1 DEF Walk

LEMMA SoundAgrees ==
  ASSUME HInv PROVE HashAgreesWithSearch
<1> SUFFICES ASSUME ~meddled, entry.kind \in {"builtin", "external"}, ~entry.pinned
             PROVE  LET s == [Default EXCEPT !.skipFunctions = TRUE]
                    IN  /\ Found(NoEntry, s).answer.kind = Found(entry, s).answer.kind
                        /\ Found(NoEntry, s).answer.index = Found(entry, s).answer.index
  BY DEF HashAgreesWithSearch
<1> DEFINE s == [Default EXCEPT !.skipFunctions = TRUE]
           fresh == Found(NoEntry, s).answer
           remembered == Found(entry, s).answer
<1>1. s.path = search /\ s.skipFunctions /\ ~s.regularOnly
  BY DEF Default
<1> HIDE DEF s
<1>2. HTypeOK /\ location = BuiltinLocation(search) /\ Sound(entry) /\ entry \in EntryType
  BY DEF HInv, HTypeOK, EntryType
<1>3. ~Conflicts(entry, s) /\ ~Conflicts(NoEntry, s)
  BY <1>1 DEF Conflicts, NoEntry
<1>4. entry # NoEntry /\ NoEntry.kind = "none" /\ ~NoEntry.rehash /\ Previous(NoEntry) = 0
  BY DEF NoEntry, Previous
<1>12. \A e, w : ~AtRemembered(e, w, s)
  BY <1>1 DEF AtRemembered
<1>5. fresh = IF AtOnce THEN HashEntry("builtin", 0) ELSE Walk(0, s)
  BY <1>1, <1>3, <1>4, <1>12, AtOnceIs DEF Found
<1>6. remembered = IF ~entry.rehash THEN entry
                   ELSE IF AtOnce THEN HashEntry("builtin", 0) ELSE Walk(Previous(entry), s)
  BY <1>1, <1>3, <1>4, <1>12, AtOnceIs DEF Found
<1>7. 0 \in 0..MaxPath /\ entry.index \in 0..MaxPath
  BY <1>2, CommandHashAssumption DEF EntryType
<1>8. ASSUME AtOnce PROVE fresh.kind = remembered.kind /\ fresh.index = remembered.index
  <2>1. entry.kind = "builtin" /\ entry.index = 0
    BY <1>2, <1>8 DEF Sound, SoundBuiltin, SoundExternal
  <2>2. fresh.kind = "builtin" /\ fresh.index = 0
    BY <1>5, <1>7, <1>8, HashEntryIs
  <2>3. QED BY <1>5, <1>6, <1>8, <2>1, <2>2
<1>9. ASSUME ~AtOnce /\ entry.rehash PROVE fresh.kind = remembered.kind /\ fresh.index = remembered.index
  <2>1. Walk(Previous(entry), s) = Walk(0, s)
    BY <1>1, <1>2, <1>9, SameStops, SameWalk
  <2>2. QED BY <1>5, <1>6, <1>9, <2>1
<1>10. ASSUME ~AtOnce /\ ~entry.rehash PROVE fresh.kind = remembered.kind /\ fresh.index = remembered.index
  <2>1. fresh = HashEntry(entry.kind, entry.index)
    BY <1>1, <1>2, <1>5, <1>10, FreshFinds
  <2>2. fresh.kind = entry.kind /\ fresh.index = entry.index
    BY <1>7, <2>1, HashEntryIs
  <2>3. QED BY <1>6, <1>10, <2>2
<1>11. QED BY <1>8, <1>9, <1>10 DEF s
-----------------------------------------------------------------------------
\* The steps.

LEMMA SameSound ==
  ASSUME UNCHANGED <<Registry, Outside>>, NEW t, entry' = t, Sound(t)
  PROVE  Sound(entry)'
<1>1. (builtin <=> builtin') /\ (AtOnce <=> AtOnce')
  BY DEF Registry, Outside, builtin, AtOnce
<1>2. \A d : Place(d)' = Place(d)
  BY DEF Outside, Place
<1>3. \A i, stale : NothingBefore(i, stale) => NothingBefore(i, stale)'
  BY <1>2 DEF Outside, NothingBefore, SureOf
<1>4. SoundBuiltin(entry)'
  BY <1>1, <1>3 DEF Outside, Sound, SoundBuiltin
<1>5. SoundExternal(entry)'
  BY <1>1, <1>2, <1>3 DEF Outside, Sound, SoundExternal, SureOf
<1>6. QED BY <1>4, <1>5 DEF Sound

\* The table changes and nothing around it.
LEMMA EntryStep ==
  ASSUME HInv, UNCHANGED <<Registry, Outside>>, NEW t \in EntryType, Becomes(t), Pinned(t),
         t = NoEntry \/ (~meddled /\ ~t.pinned => Sound(t))
  PROVE  HInv'
<1>1. entry' = t /\ meddled' = (meddled /\ t # NoEntry)
  BY DEF Becomes
<1>2. HTypeOK'
  BY <1>1 DEF HInv, HTypeOK, EntryType, Registry, Outside
<1>3. location' = BuiltinLocation(search)'
  BY DEF HInv, Outside, BuiltinLocation
<1>4. Sound(NoEntry)
  BY DEF NoEntry, Sound, SoundBuiltin, SoundExternal
<1>5. ASSUME ~meddled', ~entry'.pinned PROVE Sound(entry)'
  BY <1>1, <1>4, <1>5, SameSound
<1>6. QED BY <1>1, <1>2, <1>3, <1>5 DEF HInv, Pinned

LEMMA NoEntryIs == NoEntry \in EntryType /\ Pinned(NoEntry) /\ Sound(NoEntry)
<1>1. 0 \in 0..MaxPath
  BY CommandHashAssumption
<1>2. QED BY <1>1 DEF NoEntry, EntryType, Pinned, Sound, SoundBuiltin, SoundExternal

\* A lookup of an entry that is there, or of none.
LEMMA LookupStep ==
  ASSUME HInv, UNCHANGED <<Registry, Outside>>, NEW e, e = entry \/ e = NoEntry, NEW s,
         Becomes(Found(e, s).table)
  PROVE  HInv'
<1> DEFINE t == Found(e, s).table
<1>1. HTypeOK /\ location = BuiltinLocation(search) /\ e \in EntryType /\ Pinned(e)
  BY NoEntryIs DEF HInv, HTypeOK, EntryType
<1>2. ~meddled => e.pinned \/ Sound(e)
  BY NoEntryIs DEF HInv
<1>3. /\ t \in EntryType
      /\ t = e \/ (~t.pinned /\ (e.pinned \/ Sound(e) => Sound(t)))
  BY <1>1, TableSound
<1> HIDE DEF t
<1>4. Pinned(t)
  BY <1>1, <1>3 DEF Pinned
<1>5. ~meddled /\ ~t.pinned => Sound(t)
  BY <1>2, <1>3
<1>6. Becomes(t)
  BY DEF t
<1>7. QED BY <1>3, <1>4, <1>5, <1>6, EntryStep

\* cd: what is not sure any more is marked.
LEMMA CdStep ==
  ASSUME HInv, NEW c \in Cwds, invalidate_cache_after_directory_change(c)
  PROVE  HInv'
<1> DEFINE stale == PathDependent(entry, location)
<1>1. /\ entry' = [entry EXCEPT !.rehash = @ \/ stale] /\ cwd' = c
      /\ UNCHANGED <<spec, bash, disabled, search, location, present, meddled>>
  BY DEF invalidate_cache_after_directory_change, Registry
<1>2. entry \in EntryType /\ stale \in BOOLEAN
  BY DEF HInv, HTypeOK, EntryType, PathDependent
<1>3. /\ entry' \in EntryType /\ entry'.kind = entry.kind /\ entry'.index = entry.index
      /\ entry'.pinned = entry.pinned /\ entry'.rehash = (entry.rehash \/ stale)
  <2> HIDE DEF stale
  <2>1. QED BY <1>1, <1>2 DEF EntryType
<1>4. HTypeOK'
  BY <1>1, <1>3 DEF HInv, HTypeOK, EntryType
<1>5. location' = BuiltinLocation(search)' /\ Pinned(entry)'
  BY <1>1, <1>3 DEF HInv, BuiltinLocation, Pinned
<1>6. ASSUME ~meddled', ~entry'.pinned PROVE Sound(entry)'
  <2>1. Sound(entry)
    BY <1>1, <1>3, <1>6 DEF HInv
  <2>2. (builtin <=> builtin') /\ (AtOnce <=> AtOnce')
    BY <1>1 DEF builtin, AtOnce
  <2>3. \A d \in Absolute : Place(d)' = Place(d)
    BY CommandHashAssumption DEF Place
  <2>5. SoundBuiltin(entry)'
    <3>1. CASE AtOnce
      BY <1>1, <1>3, <2>1, <2>2, <3>1 DEF Sound, SoundBuiltin
    <3>2. CASE ~AtOnce /\ entry.kind = "builtin"
      <4>1. builtin /\ entry.index = 0 /\ NothingBefore(location, entry.rehash)
        BY <2>1, <3>2 DEF Sound, SoundBuiltin
      <4>2. location \in Nat
        BY CommandHashAssumption DEF HInv, HTypeOK
      <4>3. stale
        BY <3>2, <4>1, <4>2 DEF AtOnce, PathDependent
      <4>4. entry'.rehash
        BY <1>3, <4>3
      <4>5. NothingBefore(location, TRUE)'
        BY <1>1, <2>3, <4>1 DEF NothingBefore, SureOf
      <4>6. entry'.rehash = TRUE
        BY <1>3, <4>4 DEF EntryType
      <4>7. QED BY <1>1, <1>3, <2>2, <4>1, <4>5, <4>6 DEF SoundBuiltin
    <3>3. CASE entry.kind # "builtin"
      BY <1>3, <3>3 DEF SoundBuiltin
    <3>4. QED BY <3>1, <3>2, <3>3
  <2>6. SoundExternal(entry)'
    <3>1. CASE entry.kind # "external"
      BY <1>3, <3>1 DEF SoundExternal
    <3>2. CASE entry.kind = "external"
      <4>1. stale
        BY <3>2 DEF PathDependent
      <4>2. entry'.rehash = TRUE
        BY <1>3, <4>1 DEF EntryType
      <4>3. /\ entry.index \in DOMAIN search /\ search[entry.index] \in Absolute \cup Relative
            /\ SureOf(search[entry.index], entry.rehash) => Place(search[entry.index]) \in present
            /\ NothingBefore(entry.index, entry.rehash)
            /\ ~AtOnce /\ (builtin => entry.index < location)
        BY <2>1, <3>2 DEF Sound, SoundExternal
      <4>4. NothingBefore(entry.index, TRUE)'
        BY <1>1, <1>3, <2>3, <4>3 DEF NothingBefore, SureOf
      <4>5. SureOf(search[entry.index], TRUE)' => Place(search[entry.index])' \in present
        BY <1>1, <1>3, <4>3, CommandHashAssumption DEF SureOf, Place
      <4>6. QED BY <1>1, <1>3, <2>2, <4>2, <4>3, <4>4, <4>5 DEF SoundExternal
    <3>3. QED BY <3>1, <3>2
  <2>7. QED BY <2>5, <2>6 DEF Sound
<1>7. QED BY <1>4, <1>5, <1>6 DEF HInv
\* An assignment to PATH drops every entry that depends on it.
LEMMA PathStep ==
  ASSUME HInv, NEW p \in Paths, update_search_path(p)
  PROVE  HInv'
<1> DEFINE t == Cleared(entry, BuiltinLocation(p))
<1>1. /\ search' = p /\ location' = BuiltinLocation(p) /\ entry' = t
      /\ meddled' = (meddled /\ t # NoEntry) /\ UNCHANGED <<spec, bash, disabled, cwd, present>>
  BY DEF update_search_path, Becomes, Registry
<1>2. t = NoEntry \/ (t = entry /\ ~PathDependent(entry, BuiltinLocation(p)))
  BY DEF Cleared
<1>3. entry \in EntryType /\ Pinned(entry) /\ BuiltinLocation(p) \in 0..MaxPath
  BY LocationIs DEF HInv, HTypeOK, EntryType
<1> HIDE DEF t
<1>4. HTypeOK'
  BY <1>1, <1>2, <1>3, NoEntryIs DEF HInv, HTypeOK, EntryType
<1>5. location' = BuiltinLocation(search)' /\ Pinned(entry)'
  BY <1>1, <1>2, <1>3, NoEntryIs DEF BuiltinLocation, Pinned
<1>6. ASSUME ~meddled', ~entry'.pinned PROVE Sound(entry)'
  <2>1. CASE t = NoEntry
    BY <1>1, <2>1 DEF NoEntry, Sound, SoundBuiltin, SoundExternal
  <2>2. CASE t # NoEntry
    <3>1. Sound(entry) /\ entry' = entry /\ ~PathDependent(entry, BuiltinLocation(p))
      BY <1>1, <1>2, <1>6, <2>2 DEF HInv
    <3>2. entry.kind # "external"
      BY <3>1 DEF PathDependent
    <3>3. entry.kind = "builtin" => spec = "regular" \/ ~(BuiltinLocation(p) > 1)
      BY <3>1 DEF PathDependent
    <3>4. spec = "regular" \/ ~(BuiltinLocation(p) > 1) => (builtin => AtOnce)'
      BY <1>1, <1>3, CommandHashAssumption DEF AtOnce, builtin
    <3>5. builtin => builtin'
      BY <1>1 DEF builtin
    <3>6. SoundBuiltin(entry)'
      BY <3>1, <3>3, <3>4, <3>5 DEF Sound, SoundBuiltin
    <3>7. SoundExternal(entry)'
      BY <3>1, <3>2 DEF SoundExternal
    <3>8. QED BY <3>6, <3>7 DEF Sound
  <2>3. QED BY <2>1, <2>2
<1>7. QED BY <1>4, <1>5, <1>6 DEF HInv

\* What others do to the files and the registry is seen or noted in meddled.
LEMMA MeddleStep ==
  ASSUME HInv, entry' = entry \/ entry' = NoEntry, HTypeOK', UNCHANGED <<search, location>>,
         entry' = NoEntry \/ meddled'
  PROVE  HInv'
<1>1. location' = BuiltinLocation(search)'
  BY DEF HInv, BuiltinLocation
<1>2. Pinned(entry)'
  BY NoEntryIs DEF HInv, Pinned
<1>3. ~meddled' => Sound(entry)'
  <2>1. entry' = NoEntry => Sound(entry)'
    BY DEF NoEntry, Sound, SoundBuiltin, SoundExternal
  <2>2. QED BY <2>1
<1>4. QED BY <1>1, <1>2, <1>3 DEF HInv

LEMMA DialectStep ==
  ASSUME HInv, NEW on \in BOOLEAN, SetDialect(on)
  PROVE  HInv'
<1>1. /\ bash' = on /\ UNCHANGED <<spec, disabled, search, location, cwd, present>>
      /\ entry' = IF entry.kind = "builtin" THEN NoEntry ELSE entry
      /\ meddled' = (entry.kind = "external" /\ (meddled \/ spec = "bash"))
  BY DEF SetDialect, Outside
<1>2. HTypeOK'
  BY <1>1, NoEntryIs DEF HInv, HTypeOK, EntryType
<1>3. location' = BuiltinLocation(search)' /\ Pinned(entry)'
  BY <1>1, NoEntryIs DEF HInv, BuiltinLocation, Pinned
<1>4. ASSUME ~meddled', ~entry'.pinned PROVE Sound(entry)'
  <2>1. CASE entry.kind # "external"
    <3>1. entry'.kind # "builtin" /\ entry'.kind # "external"
      BY <1>1, <2>1 DEF NoEntry
    <3>2. QED BY <3>1 DEF Sound, SoundBuiltin, SoundExternal
  <2>2. CASE entry.kind = "external"
    <3>1. entry' = entry /\ ~meddled /\ spec # "bash" /\ Sound(entry)
      BY <1>1, <1>4, <2>2 DEF HInv
    <3>2. (builtin <=> builtin') /\ (AtOnce <=> AtOnce')
      BY <1>1, <3>1 DEF builtin, AtOnce
    <3>3. UNCHANGED <<search, location, cwd, present>>
      BY <1>1
    <3>4. SoundExternal(entry)'
      BY <3>1, <3>2, <3>3 DEF Sound, SoundExternal, NothingBefore, SureOf, Place
    <3>5. SoundBuiltin(entry)'
      BY <2>2, <3>1 DEF SoundBuiltin
    <3>6. QED BY <3>4, <3>5 DEF Sound
  <2>3. QED BY <2>1, <2>2
<1>5. QED BY <1>2, <1>3, <1>4 DEF HInv

LEMMA InitHash == ASSUME HInit PROVE HInv
<1> DEFINE d == CHOOSE d \in Absolute : TRUE
<1>1. d \in Absolute
  BY CommandHashAssumption
<1> HIDE DEF d
<1>2. search = <<d>> /\ location = 0 /\ entry = NoEntry /\ present = {} /\ cwd = Start /\ meddled = FALSE
      /\ spec \in {"none", "regular", "plain", "bash"} /\ bash = FALSE /\ disabled = FALSE
  BY DEF HInit, d
<1>3. search \in [1..1 -> Component] /\ 1 \in 1..MaxPath /\ 0 \in 0..MaxPath
  BY <1>1, <1>2, CommandHashAssumption DEF Component
<1>4. search \in Paths
  BY <1>3 DEF Paths
<1>5. HTypeOK
  BY <1>2, <1>3, <1>4, NoEntryIs, CommandHashAssumption DEF HTypeOK, EntryType
<1>6. \A j \in DOMAIN search : search[j] # BuiltinSlot
  BY <1>1, <1>2, CommandHashAssumption
<1>7. location = BuiltinLocation(search)
  BY <1>2, <1>6 DEF BuiltinLocation
<1>8. QED BY <1>2, <1>5, <1>7, NoEntryIs DEF HInv

LEMMA StepHash == ASSUME HInv, [HNext]_hvars PROVE HInv'
<1>0. entry \in EntryType /\ HTypeOK /\ Pinned(entry) /\ (~meddled /\ ~entry.pinned => Sound(entry))
  BY DEF HInv, HTypeOK, EntryType
<1>1. ASSUME NEW s \in Asking, FindCommand(s) PROVE HInv'
  <2>1. CASE Becomes(Found(entry, s).table)
    BY <1>1, <2>1, LookupStep DEF FindCommand
  <2>2. CASE UNCHANGED <<entry, meddled>>
    <3>1. Becomes(entry) \/ entry = NoEntry
      BY <2>2, <1>0 DEF Becomes, HTypeOK
    <3>2. UNCHANGED <<Registry, Outside>>
      BY <1>1 DEF FindCommand
    <3>3. HTypeOK' /\ location' = BuiltinLocation(search)' /\ Pinned(entry)'
      BY <2>2, <3>2 DEF HInv, HTypeOK, Registry, Outside, BuiltinLocation, Pinned
    <3>4. ~meddled' /\ ~entry'.pinned => Sound(entry)'
      BY <1>0, <2>2, <3>2, SameSound
    <3>5. QED BY <3>3, <3>4 DEF HInv
  <2>3. QED BY <1>1, <2>1, <2>2 DEF FindCommand
<1>2. ASSUME define_function PROVE HInv'
  <2>1. HashEntry("function", 0) \in EntryType /\ HashEntry("function", 0).kind = "function"
        /\ ~HashEntry("function", 0).pinned
    <3>1. 0 \in 0..MaxPath
      BY CommandHashAssumption
    <3>2. QED BY <3>1, HashEntryIs
  <2>2. Pinned(HashEntry("function", 0)) /\ Sound(HashEntry("function", 0))
    BY <2>1 DEF Pinned, Sound, SoundBuiltin, SoundExternal
  <2>3. QED BY <1>2, <2>1, <2>2, EntryStep DEF define_function
<1>3. ASSUME unset_function \/ HashForget PROVE HInv'
  BY <1>3, NoEntryIs, EntryStep DEF unset_function, HashForget
<1>4. ASSUME NEW p \in Paths, update_search_path(p) PROVE HInv'
  BY <1>4, PathStep
<1>5. ASSUME NEW c \in Cwds, invalidate_cache_after_directory_change(c) PROVE HInv'
  BY <1>5, CdStep
<1>6. ASSUME HashClear PROVE HInv'
  <2>1. Cleared(entry, location) = NoEntry \/ Cleared(entry, location) = entry
    BY DEF Cleared
  <2>2. QED BY <1>0, <1>6, <2>1, NoEntryIs, EntryStep DEF HashClear
<1>7. ASSUME populate PROVE HInv'
  <2>1. Cleared(entry, location) = NoEntry \/ Cleared(entry, location) = entry
    BY DEF Cleared
  <2>2. QED BY <1>7, <2>1, LookupStep DEF populate
<1>8. ASSUME HashPin PROVE HInv'
  <2>1. 0 \in 0..MaxPath
    BY CommandHashAssumption
  <2>2. HashEntry("external", 0) \in EntryType /\ HashEntry("external", 0).kind = "external"
        /\ HashEntry("external", 0).index = 0
    BY <2>1, HashEntryIs
  <2>3. Pin \in EntryType /\ Pinned(Pin) /\ Pin.pinned
    BY <2>2 DEF Pin, EntryType, Pinned
  <2>4. QED BY <1>8, <2>3, EntryStep DEF HashPin
<1>9. ASSUME NEW off \in BOOLEAN, Enable(off) PROVE HInv'
  <2>1. HTypeOK'
    BY <1>0, <1>9 DEF Enable, HTypeOK, Outside
  <2>2. QED BY <1>9, <2>1, MeddleStep DEF Enable, Outside
<1>10. ASSUME NEW on \in BOOLEAN, SetDialect(on) PROVE HInv'
  BY <1>10, DialectStep
<1>11. ASSUME NEW p \in Places, Touch(p) PROVE HInv'
  <2>1. HTypeOK'
    BY <1>0, <1>11 DEF Touch, HTypeOK, Registry
  <2>2. QED BY <1>11, <2>1, MeddleStep DEF Touch
<1>12. CASE UNCHANGED hvars
  <2>1. UNCHANGED <<Registry, Outside>> /\ UNCHANGED <<entry, meddled>>
    BY <1>12 DEF hvars, Registry, Outside
  <2>2. HTypeOK' /\ location' = BuiltinLocation(search)' /\ Pinned(entry)'
    BY <2>1 DEF HInv, HTypeOK, Registry, Outside, BuiltinLocation, Pinned
  <2>3. ~meddled' /\ ~entry'.pinned => Sound(entry)'
    BY <1>0, <2>1, SameSound
  <2>4. QED BY <2>2, <2>3 DEF HInv
<1>13. QED
  BY <1>1, <1>2, <1>3, <1>4, <1>5, <1>6, <1>7, <1>8, <1>9, <1>10, <1>11, <1>12 DEF HNext

\* execution.rs (find_command, update_search_path, clear_command_cache), cd.rs: while
\* nobody meddles with files or built-ins, what the table remembers, marked for
\* another look or not, is what a search of PATH from its beginning finds.
THEOREM HashIsHonest == HSpec => []HashAgreesWithSearch
<1>1. HInit => HInv
  BY InitHash
<1>2. HInv /\ [HNext]_hvars => HInv'
  BY StepHash
<1>3. HInv => HashAgreesWithSearch
  BY SoundAgrees
<1>4. QED BY <1>1, <1>2, <1>3, PTL DEF HSpec
-----------------------------------------------------------------------------
(* InputStack.  The texts over a frame are its levels: level 0 is what has   *)
(* been popped and waits for the next read, level k is overlay k with what   *)
(* was waiting when it was pushed.                                           *)

Alias   == [exists : BOOLEAN, value : Values \cup {<<>>}, inUse : BOOLEAN, dead : BOOLEAN]
Names   == Seq(Name \cup {NoName})
Overlay == [alias : Name \cup {NoName}, text : Seq(Unit), position : Nat, unread : BOOLEAN,
            deferred : Names]
FrameSet == [last : Unit \cup {EndOfInput}, unread : BOOLEAN, overlays : Seq(Overlay),
             deferred : Names]

HeldAt(f, k) ==
  IF k = 0 THEN ToSet(f.deferred) ELSE ToSet(f.overlays[k].deferred) \cup {f.overlays[k].alias}

\* No alias is held at two levels.
Sole(f) == \A n \in Name, j, k \in 0 .. Top(f) : n \in HeldAt(f, j) /\ n \in HeldAt(f, k) => j = k

\* An alias text never lies over a text that is at its end: the word that was
\* replaced has been followed by a unit, which is to be read again.
Settled(f) ==
  \A k \in 2 .. Top(f) : f.overlays[k].alias # NoName => ~Exhausted(f.overlays[k - 1])

Placed(f) == \A k \in 1 .. Top(f) : LET o == f.overlays[k]
                                    IN o.position <= Len(o.text) /\ (o.unread => o.position > 0)

FrameOK(f) == f \in FrameSet /\ Sole(f) /\ Settled(f) /\ Placed(f)

-----------------------------------------------------------------------------
(* Levels.                                                                 *)

LEMMA TopType == ASSUME NEW f \in FrameSet PROVE Top(f) \in Nat /\ DOMAIN f.overlays = 1 .. Top(f)
BY DEF FrameSet, Top

LEMMA OverlayIs ==
  ASSUME NEW f \in FrameSet, NEW k \in 1 .. Top(f)
  PROVE  f.overlays[k] \in Overlay
BY DEF FrameSet, Top

LEMMA HeldIs ==
  ASSUME NEW f \in FrameSet, NEW n
  PROVE  n \in Held(f) <=> \E k \in 0 .. Top(f) : n \in HeldAt(f, k)
<1>1. Top(f) \in Nat /\ DOMAIN f.overlays = 1 .. Top(f)
  BY TopType
<1>2. n \in Held(f) <=> \/ n \in ToSet(f.deferred)
                        \/ \E k \in 1 .. Top(f) : n \in ToSet(f.overlays[k].deferred) \cup {f.overlays[k].alias}
  BY <1>1 DEF Held
<1>3. ASSUME NEW k \in 0 .. Top(f), n \in HeldAt(f, k) PROVE n \in Held(f)
  BY <1>1, <1>2, <1>3 DEF HeldAt
<1>4. ASSUME n \in Held(f) PROVE \E k \in 0 .. Top(f) : n \in HeldAt(f, k)
  <2>1. CASE n \in ToSet(f.deferred)
    <3>1. 0 \in 0 .. Top(f) /\ n \in HeldAt(f, 0)
      BY <1>1, <2>1 DEF HeldAt
    <3> QED
      BY <3>1
  <2>2. ASSUME NEW k \in 1 .. Top(f), n \in ToSet(f.overlays[k].deferred) \cup {f.overlays[k].alias}
        PROVE  \E j \in 0 .. Top(f) : n \in HeldAt(f, j)
    <3>1. k \in 0 .. Top(f) /\ n \in HeldAt(f, k)
      BY <1>1, <2>2 DEF HeldAt
    <3> QED
      BY <3>1
  <2> QED
    BY <1>2, <1>4, <2>1, <2>2
<1> QED
  BY <1>3, <1>4

\* Frames that hold the same at every level.
LEMMA SameLevels ==
  ASSUME NEW f \in FrameSet, NEW g \in FrameSet, Top(g) = Top(f),
         \A k \in 0 .. Top(f) : HeldAt(g, k) = HeldAt(f, k)
  PROVE  /\ \A n : n \in Held(g) <=> n \in Held(f)
         /\ Sole(f) => Sole(g)
<1>1. ASSUME NEW n PROVE n \in Held(g) <=> n \in Held(f)
  <2>1. n \in Held(f) <=> \E k \in 0 .. Top(f) : n \in HeldAt(f, k)
    BY HeldIs
  <2>2. n \in Held(g) <=> \E k \in 0 .. Top(f) : n \in HeldAt(g, k)
    BY HeldIs
  <2> QED
    BY <2>1, <2>2
<1>2. Sole(f) => Sole(g)
  BY DEF Sole
<1> QED
  BY <1>1, <1>2

-----------------------------------------------------------------------------
(* Popping.                                                                *)

LEMMA ReachedIs ==
  ASSUME NEW f \in FrameSet
  PROVE  /\ Reached(f) \in 0 .. Top(f)
         /\ Reached(f) > 0 => ~Exhausted(f.overlays[Reached(f)])
         /\ \A k \in Reached(f) + 1 .. Top(f) : Exhausted(f.overlays[k])
<1> DEFINE S == {k \in DOMAIN f.overlays : ~Exhausted(f.overlays[k])}
           T == {0} \cup S
<1>1. Top(f) \in Nat /\ DOMAIN f.overlays = 1 .. Top(f)
  BY TopType
<1>2. S \in SUBSET (1 .. Top(f)) /\ T \subseteq 0 .. Top(f)
  BY <1>1
<1>3. \E m \in T : \A k \in T : m >= k
  <2>1. CASE S = {}
    BY <2>1
  <2>2. CASE S # {}
    <3> HIDE DEF S
    <3>1. PICK m \in S : \A k \in S : k <= m
      BY <1>1, <1>2, <2>2, GreatestExists
    <3>2. m \in T /\ \A k \in T : m >= k
      BY <1>1, <1>2, <3>1
    <3> QED
      BY <3>2
  <2> QED
    BY <2>1, <2>2
<1>4. Reached(f) \in T /\ \A k \in T : Reached(f) >= k
  <2>1. Reached(f) = CHOOSE m \in T : \A k \in T : m >= k
    BY DEF Reached, Max
  <2> HIDE DEF T
  <2> QED
    BY <1>3, <2>1
<1>5. Reached(f) \in 0 .. Top(f)
  BY <1>2, <1>4
<1>6. Reached(f) > 0 => ~Exhausted(f.overlays[Reached(f)])
  BY <1>4, <1>5
<1>7. ASSUME NEW k \in Reached(f) + 1 .. Top(f) PROVE Exhausted(f.overlays[k])
  <2>1. k \in DOMAIN f.overlays /\ ~(Reached(f) >= k)
    BY <1>1, <1>5
  <2> QED
    BY <1>4, <2>1
<1> QED
  BY <1>5, <1>6, <1>7

LEMMA ToSetAppend ==
  ASSUME NEW S, NEW s \in Seq(S), NEW x \in S
  PROVE  Append(s, x) \in Seq(S) /\ ToSet(Append(s, x)) = ToSet(s) \cup {x}
<1>1. Append(s, x) \in Seq(S) /\ Len(Append(s, x)) = Len(s) + 1 /\ Len(s) \in Nat
  OBVIOUS
<1>2. \A i \in 1 .. Len(s) : Append(s, x)[i] = s[i]
  OBVIOUS
<1>3. Append(s, x)[Len(s) + 1] = x
  OBVIOUS
<1>4. ToSet(Append(s, x)) \subseteq ToSet(s) \cup {x}
  BY <1>1, <1>2, <1>3 DEF ToSet
<1>5. ToSet(s) \cup {x} \subseteq ToSet(Append(s, x))
  BY <1>1, <1>2, <1>3 DEF ToSet
<1> QED
  BY <1>1, <1>4, <1>5

LEMMA ParkedIs ==
  ASSUME NEW o \in Overlay
  PROVE  Parked(o) \in Names /\ ToSet(Parked(o)) = ToSet(o.deferred) \cup {o.alias}
<1>1. o.deferred \in Seq(Name \cup {NoName}) /\ o.alias \in Name \cup {NoName}
  BY DEF Overlay, Names
<1> QED
  BY <1>1, ToSetAppend DEF Parked, Names

LEMMA UncoveredIs ==
  ASSUME NEW f \in FrameSet
  PROVE  /\ Uncovered(f) \in FrameSet /\ Top(Uncovered(f)) = Reached(f)
         /\ \A k \in 1 .. Reached(f) : Uncovered(f).overlays[k] = f.overlays[k]
         /\ Reached(f) = Top(f) => Uncovered(f).deferred = <<>>
         /\ Reached(f) < Top(f) => Uncovered(f).deferred = Parked(f.overlays[Reached(f) + 1])
<1> DEFINE u == Uncovered(f)
           d == IF Reached(f) = Top(f) THEN <<>> ELSE Parked(f.overlays[Reached(f) + 1])
<1>1. Top(f) \in Nat /\ Reached(f) \in 0 .. Top(f) /\ f.overlays \in Seq(Overlay) /\ Top(f) = Len(f.overlays)
  BY TopType, ReachedIs DEF FrameSet, Top
<1>2. /\ SubSeq(f.overlays, 1, Reached(f)) \in Seq(Overlay)
      /\ Len(SubSeq(f.overlays, 1, Reached(f))) = Reached(f)
      /\ \A k \in 1 .. Reached(f) : SubSeq(f.overlays, 1, Reached(f))[k] = f.overlays[k]
  BY <1>1, PrefixIs
<1>3. d \in Names
  <2>1. CASE Reached(f) = Top(f)
    BY <2>1 DEF Names
  <2>2. CASE Reached(f) # Top(f)
    <3>1. Reached(f) + 1 \in 1 .. Top(f)
      BY <1>1, <2>2
    <3> QED
      BY <2>2, <3>1, OverlayIs, ParkedIs
  <2> QED
    BY <2>1, <2>2
<1> HIDE DEF d
<1>4. u = [f EXCEPT !.overlays = SubSeq(f.overlays, 1, Reached(f)), !.deferred = d]
  BY DEF Uncovered, d
<1>5. u \in FrameSet
  BY <1>2, <1>3, <1>4 DEF FrameSet
<1>6. u.overlays = SubSeq(f.overlays, 1, Reached(f)) /\ u.deferred = d
  BY <1>4 DEF FrameSet
<1>7. Top(u) = Reached(f)
  BY <1>2, <1>6 DEF Top
<1> QED
  BY <1>1, <1>2, <1>5, <1>6, <1>7 DEF d

LEMMA UncoveredLevels ==
  ASSUME NEW f \in FrameSet
  PROVE  /\ \A k \in 1 .. Reached(f) : HeldAt(Uncovered(f), k) = HeldAt(f, k)
         /\ Reached(f) = Top(f) => HeldAt(Uncovered(f), 0) = {}
         /\ Reached(f) < Top(f) => HeldAt(Uncovered(f), 0) = HeldAt(f, Reached(f) + 1)
<1>1. Top(f) \in Nat /\ Reached(f) \in 0 .. Top(f)
  BY TopType, ReachedIs
<1>2. ASSUME NEW k \in 1 .. Reached(f) PROVE HeldAt(Uncovered(f), k) = HeldAt(f, k)
  <2>1. k # 0
    BY <1>1
  <2>2. Uncovered(f).overlays[k] = f.overlays[k]
    BY UncoveredIs
  <2> QED
    BY <2>1, <2>2 DEF HeldAt
<1>3. ASSUME Reached(f) = Top(f) PROVE HeldAt(Uncovered(f), 0) = {}
  BY <1>3, UncoveredIs DEF HeldAt, ToSet
<1>4. ASSUME Reached(f) < Top(f) PROVE HeldAt(Uncovered(f), 0) = HeldAt(f, Reached(f) + 1)
  <2>1. Reached(f) + 1 \in 1 .. Top(f) /\ Reached(f) + 1 # 0
    BY <1>1, <1>4
  <2>2. Uncovered(f).deferred = Parked(f.overlays[Reached(f) + 1])
    BY <1>4, UncoveredIs
  <2> QED
    BY <2>1, <2>2, OverlayIs, ParkedIs DEF HeldAt
<1> QED
  BY <1>2, <1>3, <1>4

\* A read lets go of what waited for it and of what is dropped, and of nothing else.
LetsGo(f, g) == \A n \in Name : n \in Held(g) <=> n \in Held(f) /\ n \notin ToSet(f.deferred) /\ n \notin Dropped(f)

LEMMA UncoverKeeps ==
  ASSUME NEW f, FrameOK(f)
  PROVE  FrameOK(Uncovered(f)) /\ LetsGo(f, Uncovered(f))
<1> DEFINE u == Uncovered(f)
           R == Reached(f)
<1>1. f \in FrameSet /\ Top(f) \in Nat /\ R \in 0 .. Top(f) /\ u \in FrameSet /\ Top(u) = R
  BY TopType, ReachedIs, UncoveredIs DEF FrameOK
<1>2. \A k \in 1 .. R : u.overlays[k] = f.overlays[k] /\ HeldAt(u, k) = HeldAt(f, k)
  BY <1>1, UncoveredIs, UncoveredLevels
<1>3. /\ R = Top(f) => HeldAt(u, 0) = {}
      /\ R < Top(f) => HeldAt(u, 0) = HeldAt(f, R + 1)
  BY <1>1, UncoveredLevels
<1>4. \A k \in R + 1 .. Top(f) : Exhausted(f.overlays[k])
  BY <1>1, ReachedIs
<1> HIDE DEF u, R
<1>5. Settled(u) /\ Placed(u)
  BY <1>1, <1>2 DEF Settled, Placed, FrameOK
<1>6. \A n \in Name, k \in 0 .. R : n \in HeldAt(u, k) =>
        \E j \in 1 .. R + 1 : /\ j <= Top(f) /\ n \in HeldAt(f, j)
                              /\ j = IF k = 0 THEN R + 1 ELSE k
  BY <1>1, <1>2, <1>3
<1>7. Sole(u)
  <2> SUFFICES ASSUME NEW n \in Name, NEW j \in 0 .. R, NEW k \in 0 .. R, n \in HeldAt(u, j), n \in HeldAt(u, k)
               PROVE  j = k
    BY <1>1 DEF Sole
  <2>1. PICK a \in 1 .. R + 1 : a <= Top(f) /\ n \in HeldAt(f, a) /\ a = IF j = 0 THEN R + 1 ELSE j
    BY <1>6
  <2>2. PICK b \in 1 .. R + 1 : b <= Top(f) /\ n \in HeldAt(f, b) /\ b = IF k = 0 THEN R + 1 ELSE k
    BY <1>6
  <2>3. a \in 0 .. Top(f) /\ b \in 0 .. Top(f)
    BY <1>1, <2>1, <2>2
  <2>4. a = b
    BY <2>1, <2>2, <2>3 DEF FrameOK, Sole
  <2> QED
    BY <1>1, <2>1, <2>2, <2>4
\* What is dropped are the levels above the first popped, all below here-document texts.
<1>8. ASSUME NEW n \in Name, NEW k \in 0 .. Top(f), n \in HeldAt(f, k)
      PROVE  n \in Dropped(f) <=> k > R + 1
  <2>1. ASSUME k > R + 1 PROVE n \in Dropped(f)
    <3>1. k \in R + 2 .. Top(f) /\ k - 1 \in R + 1 .. Top(f) /\ k \in 2 .. Top(f) /\ k # 0
      BY <1>1, <2>1
    <3>2. Exhausted(f.overlays[k - 1])
      BY <1>4, <3>1
    <3>3. f.overlays[k].alias = NoName
      BY <3>1, <3>2 DEF FrameOK, Settled
    <3>4. n \in ToSet(f.overlays[k].deferred)
      BY <1>8, <3>1, <3>3, InputStackAssumption DEF HeldAt
    <3> QED
      BY <3>1, <3>3, <3>4 DEF Dropped, R
  <2>2. ASSUME n \in Dropped(f) PROVE k > R + 1
    <3>1. PICK j \in R + 2 .. Top(f) : n \in ToSet(f.overlays[j].deferred)
      BY <2>2 DEF Dropped, R
    <3>2. j \in 0 .. Top(f) /\ n \in HeldAt(f, j)
      BY <1>1, <3>1 DEF HeldAt
    <3>3. j = k
      BY <1>8, <3>2 DEF FrameOK, Sole
    <3> QED
      BY <1>1, <3>1, <3>3
  <2> QED
    BY <2>1, <2>2
<1>9. ASSUME NEW n \in Name, NEW k \in 0 .. Top(f), n \in HeldAt(f, k)
      PROVE  n \in ToSet(f.deferred) <=> k = 0
  <2>1. n \in ToSet(f.deferred) <=> n \in HeldAt(f, 0)
    BY DEF HeldAt
  <2>2. 0 \in 0 .. Top(f)
    BY <1>1
  <2> QED
    BY <1>9, <2>1, <2>2 DEF FrameOK, Sole
<1>10. LetsGo(f, u)
  <2> SUFFICES ASSUME NEW n \in Name
               PROVE  n \in Held(u) <=> n \in Held(f) /\ n \notin ToSet(f.deferred) /\ n \notin Dropped(f)
    BY DEF LetsGo
  <2>1. n \in Held(f) <=> \E k \in 0 .. Top(f) : n \in HeldAt(f, k)
    BY <1>1, HeldIs
  <2>2. n \in Held(u) <=> \E k \in 0 .. R : n \in HeldAt(u, k)
    BY <1>1, HeldIs
  <2>3. ASSUME NEW k \in 0 .. R, n \in HeldAt(u, k)
        PROVE  n \in Held(f) /\ n \notin ToSet(f.deferred) /\ n \notin Dropped(f)
    <3>1. PICK j \in 1 .. R + 1 : j <= Top(f) /\ n \in HeldAt(f, j)
      BY <1>6, <2>3
    <3>2. j \in 0 .. Top(f) /\ j # 0 /\ ~(j > R + 1)
      BY <1>1, <3>1
    <3> QED
      BY <1>8, <1>9, <2>1, <3>1, <3>2
  <2>4. ASSUME NEW k \in 0 .. Top(f), n \in HeldAt(f, k), n \notin ToSet(f.deferred), n \notin Dropped(f)
        PROVE  n \in Held(u)
    <3>1. k # 0 /\ ~(k > R + 1)
      BY <1>8, <1>9, <2>4
    <3>2. CASE k = R + 1
      <4>1. R < Top(f) /\ 0 \in 0 .. R
        BY <1>1, <3>2
      <4>2. n \in HeldAt(u, 0)
        BY <1>3, <2>4, <3>2, <4>1
      <4> QED
        BY <2>2, <4>1, <4>2
    <3>3. CASE k # R + 1
      <4>1. k \in 1 .. R /\ k \in 0 .. R
        BY <1>1, <3>1, <3>3
      <4> QED
        BY <1>2, <2>2, <2>4, <4>1
    <3> QED
      BY <3>2, <3>3
  <2> QED
    BY <2>1, <2>2, <2>3, <2>4
<1> QED
  BY <1>1, <1>5, <1>7, <1>10 DEF FrameOK, u

-----------------------------------------------------------------------------
(* Reading.                                                                *)

\* Only the text on top may have moved on.
Alike(g, f) ==
  /\ Top(g) = Top(f) /\ g.deferred = f.deferred
  /\ \A k \in 1 .. Top(f) : /\ g.overlays[k].alias = f.overlays[k].alias
                            /\ g.overlays[k].deferred = f.overlays[k].deferred
  /\ \A k \in 1 .. Top(f) - 1 : g.overlays[k] = f.overlays[k]

LEMMA AlikeKeeps ==
  ASSUME NEW f, FrameOK(f), NEW g \in FrameSet, Alike(g, f), Placed(g)
  PROVE  FrameOK(g) /\ \A n : n \in Held(g) <=> n \in Held(f)
<1>1. f \in FrameSet /\ Top(f) \in Nat /\ Top(g) = Top(f)
  BY TopType DEF FrameOK, Alike
<1>2. ASSUME NEW k \in 0 .. Top(f) PROVE HeldAt(g, k) = HeldAt(f, k)
  <2>1. k = 0 \/ (k \in 1 .. Top(f) /\ k # 0)
    BY <1>1
  <2>2. k \in 1 .. Top(f) => g.overlays[k].alias = f.overlays[k].alias /\ g.overlays[k].deferred = f.overlays[k].deferred
    BY DEF Alike
  <2>3. g.deferred = f.deferred
    BY DEF Alike
  <2> QED
    BY <2>1, <2>2, <2>3 DEF HeldAt
<1>3. Sole(g) /\ \A n : n \in Held(g) <=> n \in Held(f)
  BY <1>1, <1>2, SameLevels DEF FrameOK
<1>4. Settled(g)
  BY <1>1 DEF FrameOK, Alike, Settled
<1> QED
  BY <1>3, <1>4 DEF FrameOK

\* A new state of the text on top.
Turned(f, u, p) == [f EXCEPT !.overlays[Top(f)].unread = u, !.overlays[Top(f)].position = p]

LEMMA TurnedIs ==
  ASSUME NEW f, FrameOK(f), Covered(f), NEW u \in BOOLEAN, NEW p \in Nat,
         p <= Len(f.overlays[Top(f)].text), p > 0
  PROVE  /\ Turned(f, u, p) \in FrameSet /\ Alike(Turned(f, u, p), f) /\ Placed(Turned(f, u, p))
         /\ Turned(f, u, p).overlays[Top(f)].position = p
         /\ Turned(f, u, p).overlays[Top(f)].text = f.overlays[Top(f)].text
         /\ Turned(f, u, p).overlays[Top(f)].unread = u
<1> DEFINE t == Top(f)
           g == Turned(f, u, p)
           o == f.overlays[t]
           q == [o EXCEPT !.unread = u, !.position = p]
<1>1. f \in FrameSet /\ f.overlays \in Seq(Overlay) /\ t = Len(f.overlays) /\ t \in Nat /\ t # 0
  BY DEF FrameOK, FrameSet, Top, Covered
<1>2. t \in 1 .. t /\ o \in Overlay /\ DOMAIN f.overlays = 1 .. t
  BY <1>1
<1>3. q \in Overlay /\ q.alias = o.alias /\ q.deferred = o.deferred /\ q.text = o.text /\ q.unread = u /\ q.position = p
  BY <1>2 DEF Overlay
<1>4. g = [f EXCEPT !.overlays = [f.overlays EXCEPT ![t] = q]]
  BY <1>1, <1>2 DEF Turned, FrameSet, Overlay
<1> HIDE DEF q
<1>5. [f.overlays EXCEPT ![t] = q] \in Seq(Overlay) /\ Len([f.overlays EXCEPT ![t] = q]) = t
  BY <1>1, <1>2, <1>3
<1>6. g.overlays = [f.overlays EXCEPT ![t] = q] /\ g.deferred = f.deferred
  BY <1>1, <1>4 DEF FrameSet
<1>7. g \in FrameSet
  BY <1>1, <1>4, <1>5 DEF FrameSet
<1> HIDE DEF g
<1>8. Top(g) = t /\ g.overlays[t] = q /\ \A k \in 1 .. t - 1 : g.overlays[k] = f.overlays[k]
  BY <1>1, <1>2, <1>5, <1>6 DEF Top
<1>9. Alike(g, f)
  <2>1. ASSUME NEW k \in 1 .. t PROVE g.overlays[k].alias = f.overlays[k].alias /\ g.overlays[k].deferred = f.overlays[k].deferred
    <3>1. k = t \/ k \in 1 .. t - 1
      BY <1>1
    <3> QED
      BY <1>3, <1>8, <3>1
  <2> QED
    BY <1>6, <1>8, <2>1 DEF Alike
<1>10. Placed(g)
  <2>1. ASSUME NEW k \in 1 .. t PROVE LET e == g.overlays[k] IN e.position <= Len(e.text) /\ (e.unread => e.position > 0)
    <3>1. k = t \/ k \in 1 .. t - 1
      BY <1>1
    <3>2. CASE k = t
      BY <1>3, <1>8, <3>2
    <3>3. CASE k \in 1 .. t - 1
      BY <1>8, <3>3 DEF FrameOK, Placed
    <3> QED
      BY <3>1, <3>2, <3>3
  <2> QED
    BY <1>8, <2>1 DEF Placed
<1> QED
  BY <1>3, <1>7, <1>8, <1>9, <1>10 DEF g

\* What a read gives: the frame is as after the pops but for the text on top.
LEMMA ReadIs ==
  ASSUME FrameOK(Frame), NEW r \in Reads
  PROVE  LET f == Uncovered(Frame)
             o == f.overlays[Top(f)]
         IN /\ r.frame \in FrameSet /\ Alike(r.frame, f) /\ Placed(r.frame)
            /\ r.unit \in Unit \cup {EndOfInput} /\ r.new \in {0, 1}
            /\ Covered(f) => /\ r.unit \in Unit
                             /\ r.frame.overlays[Top(f)].position \in 1 .. Len(r.frame.overlays[Top(f)].text)
<1> DEFINE f == Uncovered(Frame)
           t == Top(f)
           o == f.overlays[t]
           p == IF o.unread THEN o.position ELSE o.position + 1
<1>1. FrameOK(f) /\ f \in FrameSet /\ t = Reached(Frame) /\ t \in Nat
  BY UncoverKeeps, UncoveredIs, ReachedIs, TopType DEF FrameOK
<1>2. Alike(f, f) /\ Placed(f)
  BY <1>1 DEF Alike, FrameOK
<1>3. CASE Covered(f)
  <2>1. t # 0 /\ t \in 1 .. t /\ t > 0
    BY <1>1, <1>3 DEF Covered, FrameSet, Top
  <2>2. o \in Overlay
    BY <1>1, <2>1, OverlayIs
  <2>3. o.position <= Len(o.text) /\ (o.unread => o.position > 0)
    BY <1>1, <2>1 DEF FrameOK, Placed
  <2>4. ~Exhausted(o)
    <3>1. ~Exhausted(Frame.overlays[Reached(Frame)]) /\ o = Frame.overlays[Reached(Frame)]
      BY <1>1, <2>1, ReachedIs, UncoveredIs DEF FrameOK
    <3> QED
      BY <3>1
  <2>5. p \in 1 .. Len(o.text) /\ p \in Nat
    BY <2>2, <2>3, <2>4 DEF Exhausted, Overlay
  <2>6. /\ r.unit = IF o.unread THEN o.text[o.position] ELSE o.text[o.position + 1]
        /\ r.frame = [f EXCEPT !.overlays[t].unread = FALSE,
                               !.overlays[t].position = IF o.unread THEN @ ELSE @ + 1]
        /\ r.new = 0
    BY <1>3 DEF Reads
  <2>7. r.unit = o.text[p]
    BY <2>6
  <2>8. r.unit \in Unit
    BY <2>2, <2>5, <2>7 DEF Overlay
  <2>9. r.frame = Turned(f, FALSE, p)
    BY <1>1, <2>1, <2>2, <2>6 DEF Turned, FrameSet, Overlay
  <2> HIDE DEF f
  <2>13. p \in Nat /\ p <= Len(f.overlays[Top(f)].text) /\ p > 0 /\ FALSE \in BOOLEAN
    <3>1. Len(o.text) \in Nat
      BY <2>2 DEF Overlay
    <3> QED
      BY <2>5, <3>1
  <2> HIDE DEF p
  <2>10. /\ r.frame \in FrameSet /\ Alike(r.frame, f) /\ Placed(r.frame)
         /\ r.frame.overlays[Top(f)].position = p /\ r.frame.overlays[Top(f)].text = f.overlays[Top(f)].text
    <3>1. /\ Turned(f, FALSE, p) \in FrameSet /\ Alike(Turned(f, FALSE, p), f) /\ Placed(Turned(f, FALSE, p))
          /\ Turned(f, FALSE, p).overlays[Top(f)].position = p
          /\ Turned(f, FALSE, p).overlays[Top(f)].text = f.overlays[Top(f)].text
      <4>1. ASSUME NEW v \in BOOLEAN
            PROVE  /\ Turned(f, v, p) \in FrameSet /\ Alike(Turned(f, v, p), f) /\ Placed(Turned(f, v, p))
                   /\ Turned(f, v, p).overlays[Top(f)].position = p
                   /\ Turned(f, v, p).overlays[Top(f)].text = f.overlays[Top(f)].text
        BY <1>1, <1>3, <2>13, TurnedIs
      <4> QED
        BY <4>1, Zenon
    <3> QED
      BY <2>9, <3>1
  <2>11. Top(r.frame) = t
    BY <2>10 DEF Alike
  <2>12. r.frame.overlays[t].position = p /\ r.frame.overlays[t].text = o.text
    BY <2>2, <2>10, <2>11 DEF Overlay
  <2> QED
    BY <2>5, <2>6, <2>8, <2>10, <2>12 DEF f
<1>4. CASE ~Covered(f)
  <2>1. \/ r = [unit |-> f.last, frame |-> [f EXCEPT !.unread = FALSE], new |-> 0]
        \/ \E u \in {EndOfInput} \cup Unit : r = [unit |-> u, frame |-> [f EXCEPT !.last = u], new |-> 1]
    BY <1>4 DEF Reads
  <2> HIDE DEF f
  <2>2. /\ r.unit \in Unit \cup {EndOfInput} /\ r.new \in {0, 1} /\ r.frame \in FrameSet
        /\ r.frame.overlays = f.overlays /\ r.frame.deferred = f.deferred
    <3>1. CASE r = [unit |-> f.last, frame |-> [f EXCEPT !.unread = FALSE], new |-> 0]
      BY <1>1, <3>1 DEF FrameSet
    <3>2. ASSUME NEW u \in {EndOfInput} \cup Unit, r = [unit |-> u, frame |-> [f EXCEPT !.last = u], new |-> 1]
          PROVE  /\ r.unit \in Unit \cup {EndOfInput} /\ r.new \in {0, 1} /\ r.frame \in FrameSet
                 /\ r.frame.overlays = f.overlays /\ r.frame.deferred = f.deferred
      BY <1>1, <3>2 DEF FrameSet
    <3> QED
      BY <2>1, <3>1, <3>2
  <2>3. Alike(r.frame, f) /\ Placed(r.frame)
    BY <1>2, <2>2 DEF Alike, Placed, Top
  <2> QED
    BY <1>4, <2>2, <2>3 DEF f
<1> QED
  BY <1>3, <1>4

\* A unit that is put back is on the text on top, which is not at its end then.
LEMMA UnreadIs ==
  ASSUME FrameOK(Frame), NEW r \in Reads
  PROVE  LET f == Uncovered(Frame)
             g == Unread(r)
         IN /\ g \in FrameSet /\ Alike(g, f) /\ Placed(g)
            /\ Covered(g) => ~Exhausted(g.overlays[Top(g)])
<1> DEFINE f == Uncovered(Frame)
           h == r.frame
           g == Unread(r)
           t == Top(f)
<1>1. FrameOK(f) /\ f \in FrameSet /\ t \in Nat
  BY UncoverKeeps, UncoveredIs, TopType DEF FrameOK
<1>2. /\ h \in FrameSet /\ Alike(h, f) /\ Placed(h)
      /\ Covered(f) => r.unit \in Unit /\ h.overlays[t].position \in 1 .. Len(h.overlays[t].text)
  BY ReadIs
<1> HIDE DEF f, h
<1>3. FrameOK(h)
  BY <1>1, <1>2, AlikeKeeps
<1>4. Top(h) = t /\ (Covered(h) <=> Covered(f))
  BY <1>1, <1>2 DEF Alike, Covered, Top, FrameSet
<1>5. CASE ~Covered(f)
  <2>1. \/ g = h
        \/ g = [h EXCEPT !.unread = TRUE]
    BY <1>4, <1>5 DEF Unread, h
  <2>2. g \in FrameSet /\ g.overlays = h.overlays /\ g.deferred = h.deferred
    BY <1>2, <2>1 DEF FrameSet
  <2> HIDE DEF g
  <2>3. Alike(g, f) /\ Placed(g) /\ ~Covered(g)
    BY <1>2, <1>4, <1>5, <2>2 DEF Alike, Placed, Top, Covered
  <2> QED
    BY <2>2, <2>3 DEF g, f
<1>6. CASE Covered(f)
  <2>1. r.unit # EndOfInput
    BY <1>2, <1>6, InputStackAssumption DEF Unit, EndOfInput, Blank, Newline
  <2>2. g = [h EXCEPT !.overlays[t].unread = TRUE]
    BY <1>4, <1>6, <2>1 DEF Unread, h
  <2> DEFINE p == h.overlays[t].position
             o == h.overlays[t]
  <2>3. t \in 1 .. t
    BY <1>1, <1>6 DEF Covered, FrameSet, Top
  <2>4. o \in Overlay /\ p \in Nat /\ p > 0 /\ p <= Len(o.text)
    BY <1>2, <1>4, <1>6, <2>3, OverlayIs DEF Overlay
  <2>5. g = Turned(h, TRUE, p)
    <3>1. o = [o EXCEPT !.position = p] /\ [o EXCEPT !.unread = TRUE] = [o EXCEPT !.unread = TRUE, !.position = p]
      BY <2>4 DEF Overlay
    <3>2. h.overlays \in Seq(Overlay) /\ t \in DOMAIN h.overlays
      BY <1>2, <1>4, <2>3 DEF FrameSet, Top
    <3>3. g = [h EXCEPT !.overlays = [h.overlays EXCEPT ![t] = [o EXCEPT !.unread = TRUE]]]
      BY <2>2
    <3>4. Turned(h, TRUE, p) = [h EXCEPT !.overlays = [h.overlays EXCEPT ![t] = [o EXCEPT !.unread = TRUE, !.position = p]]]
      BY <1>2, <1>4, <3>2, <2>4 DEF Turned, FrameSet, Overlay
    <3> QED
      BY <3>1, <3>3, <3>4
  <2>9. p \in Nat /\ p <= Len(h.overlays[Top(h)].text) /\ p > 0 /\ TRUE \in BOOLEAN /\ Covered(h)
    BY <1>4, <1>6, <2>4
  <2> HIDE DEF g, p
  <2>6. g \in FrameSet /\ Alike(g, h) /\ Placed(g) /\ g.overlays[Top(h)].unread = TRUE
    <3>1. Top(h) = t
      BY <1>4
    <3> QED
      BY <1>3, <2>9, <2>5, <3>1, TurnedIs
  <2>7. Alike(g, f)
    BY <1>1, <1>2, <2>6 DEF Alike
  <2>8. ~Exhausted(g.overlays[Top(g)])
    BY <1>4, <2>6, <2>7 DEF Exhausted, Alike
  <2> QED
    BY <2>6, <2>7, <2>8 DEF g, f
<1> QED
  BY <1>5, <1>6

LEMMA ReadKeeps ==
  ASSUME FrameOK(Frame), NEW r \in Reads, NEW g \in {r.frame, Unread(r)}
  PROVE  /\ FrameOK(g) /\ LetsGo(Frame, g)
         /\ Top(g) = Reached(Frame) /\ g.deferred = Uncovered(Frame).deferred
         /\ \A k \in 1 .. Top(g) : g.overlays[k].alias = Frame.overlays[k].alias
<1> DEFINE f == Uncovered(Frame)
<1>1. Frame \in FrameSet /\ FrameOK(f) /\ LetsGo(Frame, f) /\ Top(f) = Reached(Frame)
  BY UncoverKeeps, UncoveredIs DEF FrameOK
<1>2. \A k \in 1 .. Reached(Frame) : f.overlays[k] = Frame.overlays[k]
  BY <1>1, UncoveredIs
<1>3. g \in FrameSet /\ Alike(g, f) /\ Placed(g)
  BY ReadIs, UnreadIs
<1> HIDE DEF f
<1>4. FrameOK(g) /\ \A n : n \in Held(g) <=> n \in Held(f)
  BY <1>1, <1>3, AlikeKeeps
<1>5. LetsGo(Frame, g)
  BY <1>1, <1>4 DEF LetsGo
<1>6. Top(g) = Top(f) /\ g.deferred = f.deferred /\ \A k \in 1 .. Top(f) : g.overlays[k].alias = f.overlays[k].alias
  BY <1>3 DEF Alike
<1>7. \A k \in 1 .. Top(g) : g.overlays[k].alias = Frame.overlays[k].alias
  BY <1>1, <1>2, <1>6
<1> QED
  BY <1>1, <1>4, <1>5, <1>6, <1>7 DEF f

LEMMA LetGoOnce ==
  ASSUME NEW f, FrameOK(f), NEW n \in Name
  PROVE  /\ n \in ToSet(f.deferred) => n \in Held(f)
         /\ n \in Dropped(f) => n \in Held(f) /\ n \notin ToSet(f.deferred)
<1>1. f \in FrameSet /\ Top(f) \in Nat /\ Reached(f) \in 0 .. Top(f)
  BY TopType, ReachedIs DEF FrameOK
<1>2. 0 \in 0 .. Top(f) /\ HeldAt(f, 0) = ToSet(f.deferred)
  BY <1>1 DEF HeldAt
<1>3. n \in Held(f) <=> \E k \in 0 .. Top(f) : n \in HeldAt(f, k)
  BY <1>1, HeldIs
<1>4. ASSUME n \in Dropped(f) PROVE n \in Held(f) /\ n \notin ToSet(f.deferred)
  <2>1. PICK k \in Reached(f) + 2 .. Top(f) : n \in ToSet(f.overlays[k].deferred)
    BY <1>4 DEF Dropped
  <2>2. k \in 0 .. Top(f) /\ k # 0
    BY <1>1
  <2>3. n \in HeldAt(f, k)
    BY <2>1, <2>2 DEF HeldAt
  <2>4. n \notin HeldAt(f, 0)
    BY <1>2, <2>2, <2>3 DEF FrameOK, Sole
  <2> QED
    BY <1>2, <1>3, <2>2, <2>3, <2>4
<1> QED
  BY <1>2, <1>3, <1>4

-----------------------------------------------------------------------------
(* The marks.                                                              *)

Phase == {"start", "word", "found", "record", "here", "line", "ended", "discard"}

InputTyped ==
  /\ aliases \in [Name -> Alias]
  /\ input \in Seq(FrameSet) /\ Len(input) \in 1 .. MaxFrames
  /\ diverted \in BOOLEAN /\ boundary \in BOOLEAN
  /\ lexer \in [phase : Phase, word : Name \cup {NoName}, context : BOOLEAN]
  /\ consumed \in Seq(Unit) /\ chain \in Nat /\ lost \subseteq Name

IsHeld(n) == \E i \in DOMAIN input : n \in Held(input[i])

\* No alias is held by two frames.
FramesInv ==
  /\ \A i \in DOMAIN input : FrameOK(input[i])
  /\ \A n \in Name, i, j \in DOMAIN input : n \in Held(input[i]) /\ n \in Held(input[j]) => i = j

MarksInv ==
  /\ \A n \in Name : aliases[n].inUse <=> n \in lost \/ IsHeld(n)
  /\ \A n \in lost : ~IsHeld(n)
  /\ \A n \in Name : (aliases[n].dead => aliases[n].inUse) /\ (aliases[n].inUse => aliases[n].exists)

\* A word that has been found was followed by a unit, which has been put back.
LexerInv ==
  /\ lexer.phase = "found" => (Covered(Frame) => ~Exhausted(Frame.overlays[Top(Frame)]))
  /\ diverted => lexer.phase \in {"record", "here", "line"}

InUse == {n \in Name : aliases[n].inUse}

\* While a chain of expansions lasts, nothing waits for the next read.
ChainInv ==
  /\ chain <= Cardinality(Name)
  /\ lexer.phase \notin {"start", "word", "found"} => chain = 0
  /\ lexer.phase = "start" \/ lexer.word # NoName => chain <= Cardinality(InUse)
  /\ lexer.phase = "start" \/ (lexer.phase = "word" /\ lexer.word # NoName) =>
       chain = 0 \/ (Covered(Frame) /\ Frame.overlays[Top(Frame)].alias # NoName /\ Frame.deferred = <<>>)

InputInv == InputTyped /\ FramesInv /\ MarksInv /\ LexerInv /\ ChainInv

LEMMA ReleasedIs ==
  ASSUME NEW t \in [Name -> Alias], NEW R
  PROVE  /\ Released(t, R) \in [Name -> Alias]
         /\ \A n \in Name \ R : Released(t, R)[n] = t[n]
         /\ \A n \in Name \cap R : LET a == Released(t, R)[n]
                                   IN ~a.inUse /\ ~a.dead
<1>1. ASSUME NEW a \in Alias PROVE FinishExpansion(a) \in Alias /\ ~FinishExpansion(a).inUse /\ ~FinishExpansion(a).dead
  <2>1. CASE a.dead
    BY <2>1 DEF FinishExpansion, NoAlias, Alias
  <2>2. CASE ~a.dead
    BY <2>2 DEF FinishExpansion, Alias
  <2> QED
    BY <2>1, <2>2
<1>2. \A n \in Name : Released(t, R)[n] = IF n \in R THEN FinishExpansion(t[n]) ELSE t[n]
  BY DEF Released
<1>3. \A n \in Name : t[n] \in Alias /\ FinishExpansion(t[n]) \in Alias /\ ~FinishExpansion(t[n]).inUse /\ ~FinishExpansion(t[n]).dead
  BY <1>1
<1>4. Released(t, R) \in [Name -> Alias]
  BY <1>3 DEF Released
<1> QED
  BY <1>2, <1>3, <1>4

LEMMA CurrentIs ==
  ASSUME InputTyped, FramesInv
  PROVE  /\ current \in DOMAIN input /\ DOMAIN input = 1 .. Len(input) /\ Len(input) \in Nat
         /\ Frame \in FrameSet /\ FrameOK(Frame)
<1>1. current \in DOMAIN input /\ DOMAIN input = 1 .. Len(input) /\ Len(input) \in Nat
  BY InputStackAssumption DEF InputTyped, current
<1> QED
  BY <1>1 DEF Frame, FramesInv, FrameOK

\* A step that lets go of the aliases R and D, of R by freeing them, keeps the marks.
LEMMA LettingGoKeeps ==
  ASSUME InputTyped, MarksInv, NEW R, NEW D \in SUBSET Name,
         aliases' = Released(aliases, R), lost' = lost \cup D,
         \A n \in Name : IsHeld(n)' <=> IsHeld(n) /\ n \notin R /\ n \notin D,
         \A n \in Name : n \in R => IsHeld(n),
         \A n \in Name : n \in D => IsHeld(n) /\ n \notin R
  PROVE  MarksInv' /\ aliases' \in [Name -> Alias]
<1>1. aliases \in [Name -> Alias] /\ lost \subseteq Name
  BY DEF InputTyped
<1>2. /\ aliases' \in [Name -> Alias]
      /\ \A n \in Name \ R : aliases'[n] = aliases[n]
      /\ \A n \in Name \cap R : ~aliases'[n].inUse /\ ~aliases'[n].dead
  BY <1>1, ReleasedIs
<1>3. ASSUME NEW n \in Name
      PROVE  /\ aliases'[n].inUse <=> n \in lost' \/ IsHeld(n)'
             /\ n \in lost' => ~IsHeld(n)'
             /\ (aliases'[n].dead => aliases'[n].inUse) /\ (aliases'[n].inUse => aliases'[n].exists)
  <2>1. /\ aliases[n].inUse <=> n \in lost \/ IsHeld(n)
        /\ n \in lost => ~IsHeld(n)
        /\ (aliases[n].dead => aliases[n].inUse) /\ (aliases[n].inUse => aliases[n].exists)
    BY DEF MarksInv
  <2>2. CASE n \in R
    BY <1>2, <2>1, <2>2
  <2>3. CASE n \notin R
    BY <1>2, <2>1, <2>3
  <2> QED
    BY <2>2, <2>3
<1>4. lost' \subseteq Name
  BY <1>1
<1> QED
  BY <1>2, <1>3, <1>4 DEF MarksInv

-----------------------------------------------------------------------------
(* Steps.                                                                  *)

LEMMA FrameStep ==
  ASSUME InputTyped, FramesInv, NEW c \in DOMAIN input, NEW g, FrameOK(g), input' = [input EXCEPT ![c] = g],
         \A n \in Name : n \in Held(g) => n \in Held(input[c]) \/ ~IsHeld(n)
  PROVE  /\ input' \in Seq(FrameSet) /\ Len(input') = Len(input) /\ input'[c] = g /\ FramesInv'
         /\ \A n \in Name : IsHeld(n)' <=> n \in Held(g) \/ (IsHeld(n) /\ n \notin Held(input[c]))
<1>1. input \in Seq(FrameSet) /\ DOMAIN input = 1 .. Len(input) /\ Len(input) \in Nat /\ g \in FrameSet
  BY CurrentIs DEF InputTyped, FrameOK
<1>2. /\ input' \in Seq(FrameSet) /\ Len(input') = Len(input) /\ DOMAIN input' = DOMAIN input
      /\ input'[c] = g /\ \A i \in DOMAIN input \ {c} : input'[i] = input[i]
  BY <1>1
<1>3. \A i \in DOMAIN input' : FrameOK(input'[i])
  BY <1>2 DEF FramesInv
<1>4. ASSUME NEW n \in Name, NEW i \in DOMAIN input', NEW j \in DOMAIN input', n \in Held(input'[i]), n \in Held(input'[j])
      PROVE  i = j
  <2>1. CASE i = c /\ j # c
    <3>1. n \in Held(g) /\ n \in Held(input[j]) /\ IsHeld(n)
      BY <1>2, <1>4, <2>1 DEF IsHeld
    <3>2. n \in Held(input[c])
      BY <3>1
    <3> QED
      BY <1>2, <2>1, <3>1, <3>2 DEF FramesInv
  <2>2. CASE j = c /\ i # c
    <3>1. n \in Held(g) /\ n \in Held(input[i]) /\ IsHeld(n)
      BY <1>2, <1>4, <2>2 DEF IsHeld
    <3>2. n \in Held(input[c])
      BY <3>1
    <3> QED
      BY <1>2, <2>2, <3>1, <3>2 DEF FramesInv
  <2>3. CASE i # c /\ j # c
    BY <1>2, <1>4, <2>3 DEF FramesInv
  <2> QED
    BY <2>1, <2>2, <2>3
<1>5. FramesInv'
  BY <1>3, <1>4 DEF FramesInv
<1>6. ASSUME NEW n \in Name PROVE IsHeld(n)' <=> n \in Held(g) \/ (IsHeld(n) /\ n \notin Held(input[c]))
  <2>1. IsHeld(n)' <=> \E i \in DOMAIN input' : n \in Held(input'[i])
    BY DEF IsHeld
  <2>2. ASSUME NEW i \in DOMAIN input', n \in Held(input'[i])
        PROVE  n \in Held(g) \/ (IsHeld(n) /\ n \notin Held(input[c]))
    <3>1. CASE i = c
      BY <1>2, <2>2, <3>1
    <3>2. CASE i # c
      <4>1. n \in Held(input[i]) /\ i \in DOMAIN input
        BY <1>2, <2>2, <3>2
      <4> QED
        BY <3>2, <4>1 DEF IsHeld, FramesInv
    <3> QED
      BY <3>1, <3>2
  <2>3. ASSUME n \in Held(g) PROVE IsHeld(n)'
    BY <1>2, <2>1, <2>3
  <2>4. ASSUME IsHeld(n), n \notin Held(input[c]) PROVE IsHeld(n)'
    <3>1. PICK i \in DOMAIN input : n \in Held(input[i])
      BY <2>4 DEF IsHeld
    <3>2. i # c
      BY <2>4, <3>1
    <3> QED
      BY <1>2, <2>1, <3>1, <3>2
  <2> QED
    BY <2>1, <2>2, <2>3, <2>4
<1> QED
  BY <1>2, <1>5, <1>6

\* Every read: what it leaves of the invariant, and of the frame.
LEMMA TakeKeeps ==
  ASSUME InputInv, NEW r \in Reads, NEW g \in {r.frame, Unread(r)}, Take(r, g)
  PROVE  /\ aliases' \in [Name -> Alias] /\ input' \in Seq(FrameSet) /\ Len(input') = Len(input)
         /\ boundary' \in BOOLEAN /\ lost' \subseteq Name /\ r.unit \in Unit \cup {EndOfInput}
         /\ FramesInv' /\ MarksInv' /\ input'[current] = g
         /\ Frame.deferred = <<>> => InUse' = InUse
<1>1. /\ InputTyped /\ FramesInv /\ MarksInv /\ FrameOK(Frame) /\ current \in DOMAIN input /\ Frame = input[current]
      /\ lost \subseteq Name /\ boundary \in BOOLEAN
  BY CurrentIs DEF InputInv, InputTyped, Frame
<1> DEFINE R == ToSet(Frame.deferred)
           D == Dropped(Frame)
<1>2. /\ aliases' = Released(aliases, R) /\ lost' = lost \cup D /\ input' = [input EXCEPT ![current] = g]
      /\ boundary' = (boundary \/ ReachesBoundary(Frame))
  BY DEF Take
<1>3. D \in SUBSET Name
  BY DEF Dropped
<1>4. FrameOK(g) /\ LetsGo(Frame, g) /\ r.unit \in Unit \cup {EndOfInput}
  BY <1>1, ReadKeeps, ReadIs
<1>5. \A n \in Name : n \in Held(g) <=> n \in Held(Frame) /\ n \notin R /\ n \notin D
  BY <1>4 DEF LetsGo
<1>6. \A n \in Name : (n \in R => n \in Held(Frame)) /\ (n \in D => n \in Held(Frame) /\ n \notin R)
  BY <1>1, LetGoOnce
<1>7. \A n \in Name : n \in Held(Frame) => IsHeld(n)
  BY <1>1 DEF IsHeld
<1> HIDE DEF R, D
<1>8. /\ input' \in Seq(FrameSet) /\ Len(input') = Len(input) /\ input'[current] = g /\ FramesInv'
      /\ \A n \in Name : IsHeld(n)' <=> n \in Held(g) \/ (IsHeld(n) /\ n \notin Held(Frame))
  BY <1>1, <1>2, <1>4, <1>5, FrameStep
<1>9. MarksInv' /\ aliases' \in [Name -> Alias]
  <2>1. \A n \in Name : IsHeld(n)' <=> IsHeld(n) /\ n \notin R /\ n \notin D
    BY <1>5, <1>6, <1>7, <1>8
  <2>2. \A n \in Name : (n \in R => IsHeld(n)) /\ (n \in D => IsHeld(n) /\ n \notin R)
    BY <1>6, <1>7
  <2> QED
    BY <1>1, <1>2, <1>3, <2>1, <2>2, LettingGoKeeps
<1>10. ASSUME Frame.deferred = <<>> PROVE InUse' = InUse
  <2>1. R = {}
    BY <1>10 DEF R, ToSet
  <2>2. aliases \in [Name -> Alias] /\ \A n \in Name : aliases'[n] = aliases[n]
    BY <1>1, <1>2, <2>1, ReleasedIs DEF InputTyped
  <2> QED
    BY <2>2 DEF InUse
<1>11. boundary' \in BOOLEAN /\ lost' \subseteq Name
  <2>1. ReachesBoundary(Frame) \in BOOLEAN
    BY DEF ReachesBoundary
  <2> QED
    BY <1>1, <1>2, <1>3, <2>1
<1> QED
  BY <1>4, <1>8, <1>9, <1>10, <1>11

LEMMA InUseIs ==
  ASSUME NEW S \in SUBSET Name
  PROVE  IsFiniteSet(S) /\ Cardinality(S) \in Nat /\ Cardinality(S) <= Cardinality(Name)
BY InputStackAssumption, FS_Subset, FS_CardinalityType

LEMMA NoChain ==
  ASSUME chain' = 0
  PROVE  ChainInv'
<1>1. Cardinality(InUse') \in Nat /\ Cardinality(Name) \in Nat
  <2>1. InUse' \in SUBSET Name /\ Name \in SUBSET Name
    BY DEF InUse
  <2> QED
    BY <2>1, InUseIs
<1> QED
  BY <1>1 DEF ChainInv

\* A text laid over a frame: what waited for the next read waits with it.
LEMMA PushedIs ==
  ASSUME NEW f, FrameOK(f), NEW text \in Seq(Unit), NEW a \in Name \cup {NoName},
         a \in Name => a \notin Held(f) /\ (Covered(f) => ~Exhausted(f.overlays[Top(f)]))
  PROVE  /\ FrameOK(Pushed(f, text, a)) /\ Pushed(f, text, a).deferred = <<>>
         /\ Covered(Pushed(f, text, a)) /\ Pushed(f, text, a).overlays[Top(Pushed(f, text, a))].alias = a
         /\ \A n \in Name : n \in Held(Pushed(f, text, a)) <=> n \in Held(f) \/ n = a
<1> DEFINE g == Pushed(f, text, a)
           t == Top(f)
           o == [alias |-> a, text |-> text, position |-> 0, unread |-> FALSE, deferred |-> f.deferred]
<1>1. f \in FrameSet /\ f.overlays \in Seq(Overlay) /\ t = Len(f.overlays) /\ t \in Nat /\ f.deferred \in Names
  BY DEF FrameOK, FrameSet, Top
<1>2. /\ o \in Overlay /\ o.alias = a /\ o.deferred = f.deferred /\ o.text = text /\ o.position = 0 /\ ~o.unread
  BY <1>1 DEF Overlay
<1>3. g = [f EXCEPT !.overlays = Append(f.overlays, o), !.deferred = <<>>]
  BY DEF Pushed
<1> HIDE DEF o
<1>4. /\ Append(f.overlays, o) \in Seq(Overlay) /\ Len(Append(f.overlays, o)) = t + 1
      /\ Append(f.overlays, o)[t + 1] = o /\ \A k \in 1 .. t : Append(f.overlays, o)[k] = f.overlays[k]
  BY <1>1, <1>2
<1>5. g \in FrameSet /\ g.overlays = Append(f.overlays, o) /\ g.deferred = <<>>
  <2>1. <<>> \in Names
    BY DEF Names
  <2> QED
    BY <1>1, <1>3, <1>4, <2>1 DEF FrameSet
<1> HIDE DEF g
<1>6. Top(g) = t + 1 /\ g.overlays[t + 1] = o /\ \A k \in 1 .. t : g.overlays[k] = f.overlays[k]
  BY <1>4, <1>5 DEF Top
<1>7. Placed(g)
  <2>1. ASSUME NEW k \in 1 .. t + 1 PROVE LET e == g.overlays[k] IN e.position <= Len(e.text) /\ (e.unread => e.position > 0)
    <3>1. k = t + 1 \/ k \in 1 .. t
      BY <1>1
    <3>2. CASE k = t + 1
      BY <1>2, <1>6, <3>2
    <3>3. CASE k \in 1 .. t
      BY <1>6, <3>3 DEF FrameOK, Placed
    <3> QED
      BY <3>1, <3>2, <3>3
  <2> QED
    BY <1>6, <2>1 DEF Placed
<1>8. Settled(g)
  <2>1. ASSUME NEW k \in 2 .. t + 1, g.overlays[k].alias # NoName PROVE ~Exhausted(g.overlays[k - 1])
    <3>1. k - 1 \in 1 .. t /\ (k = t + 1 \/ k \in 2 .. t)
      BY <1>1
    <3>2. CASE k = t + 1
      <4>1. a \in Name /\ Covered(f) /\ k - 1 = t
        BY <1>1, <1>2, <1>6, <2>1, <3>1, <3>2 DEF Covered
      <4> QED
        BY <1>6, <3>1, <4>1
    <3>3. CASE k \in 2 .. t
      <4>1. g.overlays[k] = f.overlays[k] /\ g.overlays[k - 1] = f.overlays[k - 1]
        BY <1>1, <1>6, <3>1, <3>3
      <4> QED
        BY <2>1, <3>3, <4>1 DEF FrameOK, Settled
    <3> QED
      BY <3>1, <3>2, <3>3
  <2> QED
    BY <1>6, <2>1 DEF Settled
<1>9. HeldAt(g, 0) = {}
  BY <1>5 DEF HeldAt, ToSet
<1>10. HeldAt(g, t + 1) = HeldAt(f, 0) \cup {a}
  <2>1. t + 1 # 0
    BY <1>1
  <2> QED
    BY <1>2, <1>6, <2>1 DEF HeldAt
<1>11. ASSUME NEW k \in 1 .. t PROVE HeldAt(g, k) = HeldAt(f, k)
  <2>1. k # 0 /\ g.overlays[k] = f.overlays[k]
    BY <1>1, <1>6
  <2> QED
    BY <2>1 DEF HeldAt
<1>12. \A n : n \in Held(f) <=> \E k \in 0 .. t : n \in HeldAt(f, k)
  BY <1>1, HeldIs
<1>13. \A n : n \in Held(g) <=> \E k \in 0 .. t + 1 : n \in HeldAt(g, k)
  BY <1>5, <1>6, HeldIs
\* Level by level, the alias itself apart.
<1>14. \A n, k : k \in 0 .. t + 1 /\ n \in HeldAt(g, k) =>
         \/ n = a /\ k = t + 1
         \/ k \in 1 .. t /\ n \in HeldAt(f, k)
         \/ k = t + 1 /\ n \in HeldAt(f, 0)
  BY <1>1, <1>9, <1>10, <1>11
<1>15. Sole(g)
  <2> SUFFICES ASSUME NEW n \in Name, NEW j \in 0 .. t + 1, NEW k \in 0 .. t + 1, n \in HeldAt(g, j), n \in HeldAt(g, k)
               PROVE  j = k
    BY <1>6 DEF Sole
  <2>1. CASE n = a
    <3>1. \A i \in 0 .. t : n \notin HeldAt(f, i)
      BY <1>12, <2>1
    <3>2. \A i \in 1 .. t : i \in 0 .. t
      BY <1>1
    <3>3. 0 \in 0 .. t
      BY <1>1
    <3> QED
      BY <1>14, <3>1, <3>2, <3>3
  <2>2. CASE n # a
    <3>1. \A i, l \in 0 .. t : n \in HeldAt(f, i) /\ n \in HeldAt(f, l) => i = l
      BY DEF FrameOK, Sole
    <3>2. PICK i \in 0 .. t : n \in HeldAt(f, i) /\ j = IF i = 0 THEN t + 1 ELSE i
      BY <1>1, <1>14, <2>2
    <3>3. PICK l \in 0 .. t : n \in HeldAt(f, l) /\ k = IF l = 0 THEN t + 1 ELSE l
      BY <1>1, <1>14, <2>2
    <3> QED
      BY <3>1, <3>2, <3>3
  <2> QED
    BY <2>1, <2>2
<1>16. ASSUME NEW n \in Name PROVE n \in Held(g) <=> n \in Held(f) \/ n = a
  <2>1. t + 1 \in 0 .. t + 1 /\ 0 \in 0 .. t /\ \A k \in 1 .. t : k \in 0 .. t + 1 /\ k \in 0 .. t
    BY <1>1
  <2>2. ASSUME n \in Held(g) PROVE n \in Held(f) \/ n = a
    <3>1. PICK k \in 0 .. t + 1 : n \in HeldAt(g, k)
      BY <1>13, <2>2
    <3> QED
      BY <1>12, <1>14, <2>1, <3>1
  <2>3. ASSUME n \in Held(f) PROVE n \in Held(g)
    <3>1. PICK k \in 0 .. t : n \in HeldAt(f, k)
      BY <1>12, <2>3
    <3>2. k = 0 \/ k \in 1 .. t
      BY <1>1
    <3> QED
      BY <1>10, <1>11, <1>13, <2>1, <3>1, <3>2
  <2>4. ASSUME n = a PROVE n \in Held(g)
    BY <1>10, <1>13, <2>1, <2>4
  <2> QED
    BY <2>2, <2>3, <2>4
<1>17. Covered(g) /\ g.overlays[Top(g)].alias = a
  <2>1. g.overlays # <<>>
    BY <1>1, <1>4, <1>5
  <2> QED
    BY <1>2, <1>6, <2>1 DEF Covered
<1> QED
  BY <1>5, <1>7, <1>8, <1>15, <1>16, <1>17 DEF FrameOK, g

\* What waits for the next read is let go of when the frame above is popped.
LEMMA ClearedIs ==
  ASSUME NEW f, FrameOK(f)
  PROVE  /\ FrameOK([f EXCEPT !.deferred = <<>>])
         /\ \A n \in Name : n \in Held([f EXCEPT !.deferred = <<>>]) <=> n \in Held(f) /\ n \notin ToSet(f.deferred)
<1> DEFINE g == [f EXCEPT !.deferred = <<>>]
<1>1. f \in FrameSet /\ Top(f) \in Nat
  BY TopType DEF FrameOK
<1>2. g \in FrameSet /\ g.overlays = f.overlays /\ g.deferred = <<>>
  <2>1. <<>> \in Names
    BY DEF Names
  <2> QED
    BY <1>1, <2>1 DEF FrameSet
<1> HIDE DEF g
<1>3. Top(g) = Top(f)
  BY <1>2 DEF Top
<1>4. Settled(g) /\ Placed(g)
  BY <1>2, <1>3 DEF FrameOK, Settled, Placed
<1>5. HeldAt(g, 0) = {} /\ HeldAt(f, 0) = ToSet(f.deferred)
  BY <1>2 DEF HeldAt, ToSet
<1>6. \A k \in 1 .. Top(f) : HeldAt(g, k) = HeldAt(f, k)
  <2>1. ASSUME NEW k \in 1 .. Top(f) PROVE HeldAt(g, k) = HeldAt(f, k)
    <3>1. k # 0
      BY <1>1
    <3> QED
      BY <1>2, <3>1 DEF HeldAt
  <2> QED
    BY <2>1
<1>7. \A n \in Name, k \in 0 .. Top(f) : n \in HeldAt(g, k) <=> k # 0 /\ n \in HeldAt(f, k)
  BY <1>1, <1>5, <1>6
<1>8. Sole(g)
  BY <1>3, <1>7 DEF FrameOK, Sole
<1>9. ASSUME NEW n \in Name PROVE n \in Held(g) <=> n \in Held(f) /\ n \notin ToSet(f.deferred)
  <2>1. n \in Held(f) <=> \E k \in 0 .. Top(f) : n \in HeldAt(f, k)
    BY <1>1, HeldIs
  <2>2. n \in Held(g) <=> \E k \in 0 .. Top(f) : n \in HeldAt(g, k)
    BY <1>2, <1>3, HeldIs
  <2>3. ASSUME NEW k \in 0 .. Top(f), n \in HeldAt(f, k) PROVE n \in HeldAt(f, 0) <=> k = 0
    <3>1. 0 \in 0 .. Top(f)
      BY <1>1
    <3> QED
      BY <2>3, <3>1 DEF FrameOK, Sole
  <2> QED
    BY <1>5, <1>7, <2>1, <2>2, <2>3
<1> QED
  BY <1>2, <1>4, <1>8, <1>9 DEF FrameOK, g

LEMMA StartTokenKeeps == ASSUME InputInv, StartToken PROVE InputInv'
<1>1. PICK r \in Reads :
        /\ Take(r, r.frame)
        /\ lexer' = CASE r.unit = Blank   -> lexer
                      [] r.unit \in Name -> [lexer EXCEPT !.phase = "word", !.word = r.unit]
                      [] r.unit = Newline -> [AtStart EXCEPT !.phase = "record"]
                      [] OTHER            -> [AtStart EXCEPT !.phase = "ended"]
        /\ chain' = IF r.unit \in Name \cup {Blank} /\ Reached(Frame) = Top(Frame) THEN chain ELSE 0
  BY DEF StartToken
<1>2. lexer.phase = "start" /\ ~diverted /\ diverted' = diverted /\ consumed' = consumed
  BY DEF StartToken
<1>3. /\ aliases' \in [Name -> Alias] /\ input' \in Seq(FrameSet) /\ Len(input') = Len(input)
      /\ boundary' \in BOOLEAN /\ lost' \subseteq Name /\ r.unit \in Unit \cup {EndOfInput}
      /\ FramesInv' /\ MarksInv' /\ input'[current] = r.frame
      /\ Frame.deferred = <<>> => InUse' = InUse
  BY <1>1, TakeKeeps
<1>4. /\ InputTyped /\ ChainInv /\ FrameOK(Frame)
      /\ lexer \in [phase : Phase, word : Name \cup {NoName}, context : BOOLEAN] /\ chain \in Nat
  BY CurrentIs DEF InputInv, InputTyped
<1>5. \/ r.unit = Blank /\ lexer' = lexer
      \/ r.unit \in Name /\ lexer' = [lexer EXCEPT !.phase = "word", !.word = r.unit]
      \/ r.unit \notin Name \cup {Blank} /\ lexer' = [AtStart EXCEPT !.phase = "record"]
      \/ r.unit \notin Name \cup {Blank} /\ lexer' = [AtStart EXCEPT !.phase = "ended"]
  BY <1>1, InputStackAssumption DEF Blank, Newline
<1>6. /\ lexer' \in [phase : Phase, word : Name \cup {NoName}, context : BOOLEAN]
      /\ lexer'.phase \in {"start", "word", "record", "ended"}
      /\ r.unit \in Name \cup {Blank} \/ lexer'.phase \in {"record", "ended"}
  BY <1>2, <1>4, <1>5 DEF Phase, AtStart
<1>7. InputTyped'
  BY <1>1, <1>2, <1>3, <1>4, <1>6 DEF InputTyped
<1>8. LexerInv'
  BY <1>2, <1>6 DEF LexerInv
<1>9. ChainInv'
  <2>1. CASE chain' = 0
    BY <2>1, NoChain
  <2>2. CASE chain' # 0
    <3>1. chain' = chain /\ Reached(Frame) = Top(Frame) /\ r.unit \in Name \cup {Blank}
      BY <1>1, <2>2
    <3>2. /\ chain <= Cardinality(Name) /\ chain <= Cardinality(InUse)
          /\ Covered(Frame) /\ Frame.overlays[Top(Frame)].alias # NoName /\ Frame.deferred = <<>>
      BY <1>2, <1>4, <2>2, <3>1 DEF ChainInv
    <3>3. InUse' = InUse
      BY <1>3, <3>2
    <3>4. Frame' = r.frame
      BY <1>2, <1>3 DEF Frame, current
    <3>5. /\ FrameOK(r.frame) /\ Top(r.frame) = Top(Frame) /\ r.frame.deferred = Uncovered(Frame).deferred
          /\ \A k \in 1 .. Top(Frame) : r.frame.overlays[k].alias = Frame.overlays[k].alias
      BY <1>4, <3>1, ReadKeeps
    <3>6. Uncovered(Frame).deferred = <<>>
      BY <1>4, <3>1, UncoveredIs DEF FrameOK
    <3>7. Top(Frame) \in 1 .. Top(Frame)
      BY <1>4, <3>2 DEF FrameOK, FrameSet, Top, Covered
    <3>8. Covered(r.frame)
      BY <3>5, <3>7 DEF Covered, Top
    <3>9. Covered(Frame') /\ Frame'.overlays[Top(Frame')].alias # NoName /\ Frame'.deferred = <<>>
      BY <3>2, <3>4, <3>5, <3>6, <3>7, <3>8
    <3>10. lexer'.phase \in {"start", "word"}
      BY <1>2, <1>4, <1>5, <3>1
    <3> QED
      BY <3>1, <3>2, <3>3, <3>9, <3>10 DEF ChainInv
  <2> QED
    BY <2>1, <2>2
<1> QED
  BY <1>3, <1>7, <1>8, <1>9 DEF InputInv

LEMMA EndWordKeeps == ASSUME InputInv, EndWord PROVE InputInv'
<1>1. PICK r \in Reads : IF r.unit \in Name
                         THEN Take(r, r.frame) /\ lexer' = [lexer EXCEPT !.word = NoName]
                         ELSE Take(r, Unread(r)) /\ lexer' = [lexer EXCEPT !.phase = "found"]
  BY DEF EndWord
<1>2. lexer.phase = "word" /\ diverted' = diverted /\ consumed' = consumed /\ chain' = chain
  BY DEF EndWord
<1>3. PICK g \in {r.frame, Unread(r)} : Take(r, g) /\ (lexer'.phase = "found" => g = Unread(r))
  <2>1. CASE r.unit \in Name
    <3>1. lexer'.phase # "found"
      BY <1>1, <1>2, <2>1 DEF InputInv, InputTyped
    <3> QED
      BY <1>1, <2>1, <3>1
  <2>2. CASE r.unit \notin Name
    BY <1>1, <2>2
  <2> QED
    BY <2>1, <2>2
<1>4. /\ aliases' \in [Name -> Alias] /\ input' \in Seq(FrameSet) /\ Len(input') = Len(input)
      /\ boundary' \in BOOLEAN /\ lost' \subseteq Name
      /\ FramesInv' /\ MarksInv' /\ input'[current] = g
      /\ Frame.deferred = <<>> => InUse' = InUse
  BY <1>3, TakeKeeps
<1>5. /\ InputTyped /\ ChainInv /\ LexerInv /\ FrameOK(Frame)
      /\ lexer \in [phase : Phase, word : Name \cup {NoName}, context : BOOLEAN] /\ chain \in Nat
  BY CurrentIs DEF InputInv, InputTyped
<1>6. \/ lexer' = [lexer EXCEPT !.word = NoName]
      \/ lexer' = [lexer EXCEPT !.phase = "found"]
  BY <1>1
<1>7. /\ lexer' \in [phase : Phase, word : Name \cup {NoName}, context : BOOLEAN]
      /\ (lexer'.phase = "word" /\ lexer'.word = NoName) \/ (lexer'.phase = "found" /\ lexer'.word = lexer.word)
  BY <1>2, <1>5, <1>6 DEF Phase
<1>8. InputTyped'
  BY <1>2, <1>4, <1>5, <1>7 DEF InputTyped
<1>9. Frame' = g /\ ~diverted
  BY <1>2, <1>4, <1>5 DEF Frame, current, LexerInv
<1>10. LexerInv'
  <2>1. lexer'.phase = "found" => (Covered(Frame') => ~Exhausted(Frame'.overlays[Top(Frame')]))
    BY <1>3, <1>5, <1>9, UnreadIs
  <2> QED
    BY <1>2, <1>9, <2>1 DEF LexerInv
<1>11. ChainInv'
  <2>1. CASE chain = 0
    BY <1>2, <2>1, NoChain
  <2>2. CASE chain # 0
    <3>1. chain <= Cardinality(Name)
      BY <1>5 DEF ChainInv
    <3>2. lexer'.word # NoName => chain <= Cardinality(InUse')
      <4>1. ASSUME lexer'.word # NoName PROVE chain <= Cardinality(InUse) /\ Frame.deferred = <<>>
        BY <1>2, <1>5, <1>7, <2>2, <4>1 DEF ChainInv
      <4> QED
        BY <1>4, <4>1
    <3> QED
      BY <1>2, <1>7, <3>1, <3>2 DEF ChainInv
  <2> QED
    BY <2>1, <2>2
<1> QED
  BY <1>4, <1>8, <1>10, <1>11 DEF InputInv

LEMMA ExpandKeeps == ASSUME InputInv, Expand PROVE InputInv'
<1> DEFINE n == lexer.word
           value == aliases[n].value
<1>1. /\ lexer.phase = "found" /\ n \in Name /\ aliases[n].exists /\ ~aliases[n].inUse
      /\ lexer' = [lexer EXCEPT !.phase = "start", !.word = NoName, !.context = TRUE]
      /\ boundary' = FALSE /\ UNCHANGED <<diverted, consumed, units, lost>>
      /\ IF value = <<>>
         THEN UNCHANGED <<aliases, input>> /\ chain' = 0
         ELSE /\ aliases' = [aliases EXCEPT ![n].inUse = TRUE]
              /\ input' = [input EXCEPT ![current] = Pushed(Frame, value, n)]
              /\ chain' = chain + 1
  BY DEF Expand, lookup
<1>2. /\ InputTyped /\ FramesInv /\ MarksInv /\ ChainInv /\ LexerInv /\ FrameOK(Frame)
      /\ current \in DOMAIN input /\ Frame = input[current]
      /\ lexer \in [phase : Phase, word : Name \cup {NoName}, context : BOOLEAN] /\ chain \in Nat
      /\ aliases \in [Name -> Alias] /\ lost \subseteq Name
  BY CurrentIs DEF InputInv, InputTyped, Frame
<1>3. lexer' \in [phase : Phase, word : Name \cup {NoName}, context : BOOLEAN] /\ lexer'.phase = "start"
  BY <1>1, <1>2 DEF Phase
<1>4. ~diverted /\ LexerInv'
  BY <1>1, <1>2, <1>3 DEF LexerInv
<1>5. CASE value = <<>>
  <2>1. UNCHANGED <<aliases, input>> /\ chain' = 0
    BY <1>1, <1>5
  <2>2. InputTyped'
    BY <1>1, <1>2, <1>3, <2>1 DEF InputTyped
  <2>3. FramesInv' /\ MarksInv'
    BY <1>1, <1>2, <2>1 DEF FramesInv, MarksInv, IsHeld
  <2> QED
    BY <1>4, <2>1, <2>2, <2>3, NoChain DEF InputInv
<1>6. CASE value # <<>>
  <2> DEFINE g == Pushed(Frame, value, n)
  <2>1. aliases' = [aliases EXCEPT ![n].inUse = TRUE] /\ input' = [input EXCEPT ![current] = g] /\ chain' = chain + 1
    BY <1>1, <1>6
  <2>2. value \in Seq(Unit) /\ aliases[n] \in Alias
    <3>1. aliases[n] \in Alias
      BY <1>1, <1>2
    <3>2. value \in Values \cup {<<>>}
      BY <3>1 DEF Alias
    <3>3. Values \cup {<<>>} \subseteq Seq(Unit)
      <4>1. Values \subseteq Seq(Unit)
        BY InputStackAssumption, Zenon
      <4>2. <<>> \in Seq(Unit)
        OBVIOUS
      <4> QED
        BY <4>1, <4>2
    <3> QED
      BY <3>1, <3>2, <3>3
  <2>3. ~IsHeld(n) /\ n \notin lost
    BY <1>1, <1>2 DEF MarksInv
  <2>4. n \notin Held(Frame)
    BY <1>2, <2>3 DEF IsHeld
  <2>5. Covered(Frame) => ~Exhausted(Frame.overlays[Top(Frame)])
    BY <1>1, <1>2 DEF LexerInv
  <2>6. n \in Name \cup {NoName} /\ n # NoName
    BY <1>1, InputStackAssumption
  <2> HIDE DEF value, n
  <2>7. /\ FrameOK(g) /\ g.deferred = <<>> /\ Covered(g) /\ g.overlays[Top(g)].alias = n
        /\ \A m \in Name : m \in Held(g) <=> m \in Held(Frame) \/ m = n
    BY <1>2, <2>2, <2>4, <2>5, <2>6, PushedIs
  <2> HIDE DEF g
  <2>8. /\ input' \in Seq(FrameSet) /\ Len(input') = Len(input) /\ input'[current] = g /\ FramesInv'
        /\ \A m \in Name : IsHeld(m)' <=> m \in Held(g) \/ (IsHeld(m) /\ m \notin Held(Frame))
    <3>1. \A m \in Name : m \in Held(g) => m \in Held(Frame) \/ ~IsHeld(m)
      BY <2>3, <2>7
    <3>2. input' = [input EXCEPT ![current] = g]
      BY <2>1
    <3> QED
      BY <1>2, <2>7, <3>1, <3>2, FrameStep
  <2>9. \A m \in Name : IsHeld(m)' <=> IsHeld(m) \/ m = n
    BY <1>2, <2>7, <2>8 DEF IsHeld
  <2>10. /\ aliases' \in [Name -> Alias] /\ aliases'[n].inUse /\ aliases'[n].exists
         /\ \A m \in Name \ {n} : aliases'[m] = aliases[m]
    BY <1>1, <1>2, <2>1, <2>2 DEF Alias, n
  <2>11. MarksInv'
    <3>1. lost' = lost
      BY <1>1
    <3>2. \A m \in Name : aliases'[m].inUse <=> m \in lost' \/ IsHeld(m)'
      BY <1>2, <2>9, <2>10, <3>1 DEF MarksInv
    <3>3. \A m \in lost' : ~IsHeld(m)'
      BY <1>2, <2>3, <2>9, <3>1 DEF MarksInv
    <3>4. \A m \in Name : (aliases'[m].dead => aliases'[m].inUse) /\ (aliases'[m].inUse => aliases'[m].exists)
      BY <1>2, <2>10 DEF MarksInv
    <3> QED
      BY <3>2, <3>3, <3>4 DEF MarksInv
  <2>12. InputTyped'
    <3>1. chain' \in Nat
      BY <1>2, <2>1
    <3>2. boundary' \in BOOLEAN /\ UNCHANGED <<diverted, consumed, lost>>
      BY <1>1
    <3> QED
      BY <1>2, <1>3, <2>8, <2>10, <3>1, <3>2 DEF InputTyped
  <2>13. ChainInv'
    <3>1. InUse' = InUse \cup {n} /\ n \notin InUse
      BY <1>1, <2>10 DEF InUse, n
    <3>2. InUse \in SUBSET Name /\ InUse' \in SUBSET Name
      BY DEF InUse
    <3>3. Cardinality(InUse') = Cardinality(InUse) + 1
      BY <3>1, <3>2, InUseIs, FS_AddElement
    <3>4. chain <= Cardinality(InUse)
      BY <1>2, <2>6 DEF ChainInv, n
    <3>5. /\ Cardinality(InUse) \in Nat /\ Cardinality(InUse') <= Cardinality(Name) /\ Cardinality(Name) \in Nat
      BY <3>2, InUseIs
    <3>6. chain' <= Cardinality(InUse') /\ chain' <= Cardinality(Name)
      BY <1>2, <2>1, <3>3, <3>4, <3>5
    <3>7. Frame' = g
      BY <1>1, <1>4, <2>8 DEF Frame, current
    <3> QED
      BY <1>3, <2>6, <2>7, <3>6, <3>7 DEF ChainInv
  <2> QED
    BY <1>4, <2>8, <2>11, <2>12, <2>13 DEF InputInv
<1> QED
  BY <1>5, <1>6

\* Steps that read in a here-document or for the read built-in: there is no chain of expansions then.
LEMMA ReadingKeeps ==
  ASSUME InputInv, NEW r \in Reads, Take(r, r.frame), lexer.phase \in {"record", "here", "line"}, chain' = chain,
         diverted' \in BOOLEAN, consumed' \in Seq(Unit),
         lexer' = [lexer EXCEPT !.phase = lexer'.phase] \/ lexer' = lexer, lexer'.phase \in {"record", "here", "line"}
  PROVE  InputInv'
<1>1. /\ aliases' \in [Name -> Alias] /\ input' \in Seq(FrameSet) /\ Len(input') = Len(input)
      /\ boundary' \in BOOLEAN /\ lost' \subseteq Name /\ FramesInv' /\ MarksInv'
  BY TakeKeeps
<1>2. /\ InputTyped /\ ChainInv /\ lexer \in [phase : Phase, word : Name \cup {NoName}, context : BOOLEAN]
  BY DEF InputInv, InputTyped
<1>3. chain' = 0 /\ chain' \in Nat
  BY <1>2 DEF ChainInv
<1>4. lexer' \in [phase : Phase, word : Name \cup {NoName}, context : BOOLEAN]
  BY <1>2 DEF Phase
<1>5. InputTyped'
  BY <1>1, <1>2, <1>3, <1>4 DEF InputTyped
<1>6. LexerInv'
  BY DEF LexerInv
<1> QED
  BY <1>1, <1>3, <1>5, <1>6, NoChain DEF InputInv

LEMMA MatchDelimiterKeeps == ASSUME InputInv, MatchDelimiter PROVE InputInv'
<1>1. PICK r \in Reads :
        /\ Take(r, r.frame)
        /\ IF r.unit \in {Newline, EndOfInput}
           THEN consumed' = <<>> /\ lexer' = [lexer EXCEPT !.phase = "record"]
           ELSE consumed' = Append(consumed, r.unit) /\ lexer' = lexer
  BY DEF MatchDelimiter
<1>2. lexer.phase = "here" /\ UNCHANGED <<diverted, chain>> /\ consumed \in Seq(Unit) /\ diverted \in BOOLEAN
      /\ lexer \in [phase : Phase, word : Name \cup {NoName}, context : BOOLEAN] /\ FrameOK(Frame)
  BY CurrentIs DEF MatchDelimiter, InputInv, InputTyped
<1>3. consumed' \in Seq(Unit)
  <2>1. r.unit \in Unit \cup {EndOfInput}
    BY <1>2, ReadIs
  <2>2. CASE r.unit \in {Newline, EndOfInput}
    BY <1>1, <2>2
  <2>3. CASE r.unit \notin {Newline, EndOfInput}
    <3>1. r.unit \in Unit /\ consumed' = Append(consumed, r.unit)
      BY <1>1, <2>1, <2>3
    <3> QED
      BY <1>2, <3>1
  <2> QED
    BY <2>2, <2>3
<1>4. lexer'.phase \in {"record", "here"} /\ (lexer' = [lexer EXCEPT !.phase = lexer'.phase] \/ lexer' = lexer)
  BY <1>1, <1>2
<1> QED
  BY <1>1, <1>2, <1>3, <1>4, ReadingKeeps

LEMMA HereDocLineKeeps == ASSUME InputInv, HereDocLine PROVE InputInv'
<1>1. PICK r \in Reads :
        /\ Take(r, r.frame)
        /\ lexer' = [lexer EXCEPT !.phase = CASE r.unit = Newline -> "here"
                                              [] r.unit = EndOfInput -> "record"
                                              [] OTHER -> "line"]
  BY DEF HereDocLine
<1>2. lexer.phase = "line" /\ UNCHANGED <<diverted, consumed, chain>> /\ consumed \in Seq(Unit) /\ diverted \in BOOLEAN
      /\ lexer \in [phase : Phase, word : Name \cup {NoName}, context : BOOLEAN]
  BY DEF HereDocLine, InputInv, InputTyped
<1>3. PICK p \in {"here", "record", "line"} : lexer' = [lexer EXCEPT !.phase = p]
  BY <1>1
<1>4. lexer'.phase = p
  BY <1>2, <1>3
<1> QED
  BY <1>1, <1>2, <1>3, <1>4, ReadingKeeps

LEMMA ReadCommandKeeps == ASSUME InputInv, ReadCommand PROVE InputInv'
<1>1. PICK r \in Reads : Take(r, r.frame) /\ diverted' = (r.unit \notin {Newline, EndOfInput})
  BY DEF ReadCommand
<1>2. diverted /\ UNCHANGED <<lexer, consumed, chain>> /\ consumed \in Seq(Unit) /\ lexer.phase \in {"record", "here", "line"}
  BY DEF ReadCommand, InputInv, InputTyped, LexerInv
<1>3. diverted' \in BOOLEAN
  BY <1>1
<1> QED
  BY <1>1, <1>2, <1>3, ReadingKeeps

LEMMA DiscardLineKeeps == ASSUME InputInv, DiscardLine PROVE InputInv'
<1>1. /\ lexer.phase = "discard" /\ UNCHANGED <<diverted, consumed, chain>> /\ diverted = FALSE /\ chain = 0
      /\ InputTyped /\ FramesInv /\ MarksInv
  BY DEF DiscardLine, InputInv, InputTyped, LexerInv, ChainInv
<1>2. AtStart \in [phase : Phase, word : Name \cup {NoName}, context : BOOLEAN] /\ AtStart.phase = "start"
  BY DEF AtStart, Phase
<1>3. lexer \in [phase : Phase, word : Name \cup {NoName}, context : BOOLEAN]
  BY <1>1 DEF InputTyped
<1>4. lexer' = AtStart \/ lexer' = lexer
  BY DEF DiscardLine
<1>5. /\ aliases' \in [Name -> Alias] /\ input' \in Seq(FrameSet) /\ Len(input') = Len(input)
      /\ boundary' \in BOOLEAN /\ lost' \subseteq Name /\ FramesInv' /\ MarksInv'
  <2>1. CASE \E r \in Reads : Take(r, r.frame)
    BY <2>1, TakeKeeps
  <2>2. CASE UNCHANGED <<aliases, input, boundary, units, lost>>
    BY <1>1, <2>2 DEF InputTyped, FramesInv, MarksInv, IsHeld
  <2> QED
    BY <2>1, <2>2 DEF DiscardLine
<1>6. InputTyped'
  BY <1>1, <1>2, <1>3, <1>4, <1>5 DEF InputTyped
<1>7. LexerInv'
  BY <1>1, <1>2, <1>4 DEF LexerInv
<1> QED
  BY <1>1, <1>5, <1>6, <1>7, NoChain DEF InputInv

LEMMA MismatchDelimiterKeeps == ASSUME InputInv, MismatchDelimiter PROVE InputInv'
<1>1. /\ lexer.phase = "here" /\ consumed # <<>> /\ consumed' = <<>> /\ lexer' = [lexer EXCEPT !.phase = "line"]
      /\ UNCHANGED <<aliases, diverted, boundary, units, chain, lost>>
      /\ input' = input \/ input' = [input EXCEPT ![current] = Pushed(Frame, Tail(consumed), NoName)]
  BY DEF MismatchDelimiter
<1>2. /\ InputTyped /\ FramesInv /\ MarksInv /\ ChainInv /\ FrameOK(Frame)
      /\ current \in DOMAIN input /\ Frame = input[current] /\ input \in Seq(FrameSet)
      /\ lexer \in [phase : Phase, word : Name \cup {NoName}, context : BOOLEAN] /\ consumed \in Seq(Unit)
  BY CurrentIs DEF InputInv, InputTyped, Frame
<1>3. lexer' \in [phase : Phase, word : Name \cup {NoName}, context : BOOLEAN] /\ lexer'.phase = "line"
  BY <1>1, <1>2 DEF Phase
<1>4. /\ input' \in Seq(FrameSet) /\ Len(input') = Len(input) /\ FramesInv'
      /\ \A n \in Name : IsHeld(n)' <=> IsHeld(n)
  <2>1. CASE input' = input
    BY <1>2, <2>1 DEF FramesInv, IsHeld
  <2>2. CASE input' = [input EXCEPT ![current] = Pushed(Frame, Tail(consumed), NoName)]
    <3> DEFINE g == Pushed(Frame, Tail(consumed), NoName)
    <3>1. Tail(consumed) \in Seq(Unit) /\ NoName \notin Name /\ NoName \in Name \cup {NoName}
      BY <1>1, <1>2, InputStackAssumption
    <3>2. FrameOK(g) /\ \A n \in Name : n \in Held(g) <=> n \in Held(Frame) \/ n = NoName
      <4>1. ASSUME NEW text \in Seq(Unit), NEW a \in Name \cup {NoName}, a \notin Name
            PROVE  FrameOK(Pushed(Frame, text, a)) /\ \A n \in Name : n \in Held(Pushed(Frame, text, a)) <=> n \in Held(Frame) \/ n = a
        BY <1>2, <4>1, PushedIs
      <4> QED
        BY <3>1, <4>1
    <3> HIDE DEF g
    <3>3. \A n \in Name : n \in Held(g) <=> n \in Held(Frame)
      BY <3>1, <3>2
    <3>4. /\ input' \in Seq(FrameSet) /\ Len(input') = Len(input) /\ FramesInv'
          /\ \A n \in Name : IsHeld(n)' <=> n \in Held(g) \/ (IsHeld(n) /\ n \notin Held(Frame))
      BY <1>2, <2>2, <3>2, <3>3, FrameStep DEF g
    <3> QED
      BY <1>2, <3>3, <3>4 DEF IsHeld
  <2> QED
    BY <1>1, <2>1, <2>2
<1>5. MarksInv'
  BY <1>1, <1>2, <1>4 DEF MarksInv, InputTyped
<1>6. InputTyped'
  BY <1>1, <1>2, <1>3, <1>4 DEF InputTyped
<1>7. LexerInv'
  BY <1>1, <1>3 DEF LexerInv
<1>8. chain' = 0
  BY <1>1, <1>2 DEF ChainInv
<1> QED
  BY <1>4, <1>5, <1>6, <1>7, <1>8, NoChain DEF InputInv

\* Steps that leave the aliases and the frames alone and are not about a chain of expansions.
LEMMA QuietKeeps ==
  ASSUME InputInv, UNCHANGED <<aliases, input, lost>>, chain' = 0, boundary' \in BOOLEAN, diverted' \in BOOLEAN,
         consumed' = consumed, lexer' \in [phase : Phase, word : Name \cup {NoName}, context : BOOLEAN],
         lexer'.phase # "found", diverted' => lexer'.phase \in {"record", "here", "line"}
  PROVE  InputInv'
<1>1. InputTyped /\ FramesInv /\ MarksInv
  BY DEF InputInv
<1>2. InputTyped'
  BY <1>1 DEF InputTyped
<1>3. FramesInv' /\ MarksInv'
  BY <1>1 DEF FramesInv, MarksInv, IsHeld
<1>4. LexerInv'
  BY DEF LexerInv
<1> QED
  BY <1>2, <1>3, <1>4, NoChain DEF InputInv

LEMMA QuietStepsKeep ==
  ASSUME InputInv, Deliver \/ BeginHereDoc \/ NextRecord \/ push_standard_input
  PROVE  InputInv'
<1>1. /\ lexer \in [phase : Phase, word : Name \cup {NoName}, context : BOOLEAN]
      /\ boundary \in BOOLEAN /\ diverted \in BOOLEAN /\ ChainInv /\ LexerInv
  BY DEF InputInv, InputTyped
<1>2. CASE Deliver
  <2>1. /\ lexer' = [lexer EXCEPT !.phase = "start", !.word = NoName, !.context = FALSE]
        /\ UNCHANGED <<aliases, input, diverted, consumed, lost>> /\ boundary' = FALSE /\ chain' = 0 /\ ~diverted
    BY <1>1, <1>2 DEF Deliver, LexerInv
  <2>2. lexer' \in [phase : Phase, word : Name \cup {NoName}, context : BOOLEAN] /\ lexer'.phase = "start"
    BY <1>1, <2>1 DEF Phase
  <2> QED
    BY <1>1, <2>1, <2>2, QuietKeeps
<1>3. CASE BeginHereDoc
  <2>1. /\ lexer.phase = "record" /\ lexer' = [AtStart EXCEPT !.phase = "here"]
        /\ UNCHANGED <<aliases, input, diverted, boundary, consumed, lost, chain>>
    BY <1>3 DEF BeginHereDoc
  <2>2. lexer' \in [phase : Phase, word : Name \cup {NoName}, context : BOOLEAN] /\ lexer'.phase = "here"
    BY <2>1 DEF Phase, AtStart
  <2>3. chain' = 0
    BY <1>1, <2>1 DEF ChainInv
  <2> QED
    BY <1>1, <2>1, <2>2, <2>3, QuietKeeps
<1>4. CASE NextRecord
  <2>1. /\ lexer.phase = "record" /\ ~diverted /\ lexer' = AtStart /\ boundary' = FALSE
        /\ UNCHANGED <<aliases, input, diverted, consumed, lost, chain>>
    BY <1>4 DEF NextRecord, Running
  <2>2. lexer' \in [phase : Phase, word : Name \cup {NoName}, context : BOOLEAN] /\ lexer'.phase = "start"
    BY <2>1 DEF Phase, AtStart
  <2>3. chain' = 0
    BY <1>1, <2>1 DEF ChainInv
  <2> QED
    BY <1>1, <2>1, <2>2, <2>3, QuietKeeps
<1>5. CASE push_standard_input
  <2>1. /\ lexer.phase = "record" /\ diverted' = TRUE
        /\ UNCHANGED <<aliases, input, boundary, lexer, consumed, lost, chain>>
    BY <1>5 DEF push_standard_input, Running
  <2>2. chain' = 0
    BY <1>1, <2>1 DEF ChainInv
  <2> QED
    BY <1>1, <2>1, <2>2, QuietKeeps
<1> QED
  BY <1>2, <1>3, <1>4, <1>5

\* alias and unalias change no mark.
LEMMA TableStepsKeep ==
  ASSUME InputInv, NEW n \in Name, unalias(n) \/ \E v \in Values : set_alias(n, v)
  PROVE  InputInv'
<1>1. /\ InputTyped /\ FramesInv /\ MarksInv /\ LexerInv /\ ChainInv /\ aliases \in [Name -> Alias] /\ lexer.phase = "record"
      /\ UNCHANGED <<input, diverted, boundary, lexer, consumed, chain, lost>>
  BY DEF InputInv, InputTyped, set_alias, unalias, Running
<1>2. PICK a \in Alias : /\ aliases' = [aliases EXCEPT ![n] = a] /\ a.inUse = aliases[n].inUse
                         /\ (a.dead => a.inUse) /\ (a.inUse => a.exists)
  <2>1. /\ aliases[n] \in Alias
        /\ (aliases[n].dead => aliases[n].inUse) /\ (aliases[n].inUse => aliases[n].exists)
    BY <1>1 DEF MarksInv
  <2>2. ASSUME NEW v \in Values, set_alias(n, v)
        PROVE  \E a \in Alias : /\ aliases' = [aliases EXCEPT ![n] = a] /\ a.inUse = aliases[n].inUse
                                /\ (a.dead => a.inUse) /\ (a.inUse => a.exists)
    <3> DEFINE a == [aliases[n] EXCEPT !.exists = TRUE, !.value = v, !.dead = FALSE]
    <3>1. a \in Alias /\ a.inUse = aliases[n].inUse /\ ~a.dead /\ a.exists
      BY <2>1 DEF Alias
    <3>2. aliases' = [aliases EXCEPT ![n] = a]
      BY <2>2 DEF set_alias
    <3> QED
      BY <3>1, <3>2
  <2>3. CASE unalias(n) /\ aliases[n].inUse
    <3> DEFINE a == [aliases[n] EXCEPT !.dead = TRUE]
    <3>1. a \in Alias /\ a.inUse = aliases[n].inUse /\ a.exists = aliases[n].exists
      BY <2>1 DEF Alias
    <3>2. aliases' = [aliases EXCEPT ![n] = a]
      BY <2>3 DEF unalias
    <3> QED
      BY <2>1, <2>3, <3>1, <3>2
  <2>4. CASE unalias(n) /\ ~aliases[n].inUse
    <3>1. NoAlias \in Alias /\ ~NoAlias.inUse /\ ~NoAlias.dead
      BY DEF NoAlias, Alias
    <3>2. aliases' = [aliases EXCEPT ![n] = NoAlias]
      BY <2>4 DEF unalias
    <3>3. NoAlias.inUse = aliases[n].inUse
      BY <2>1, <2>4, <3>1 DEF NoAlias, Alias
    <3> QED
      BY <3>1, <3>2, <3>3
  <2> QED
    BY <2>2, <2>3, <2>4
<1>3. /\ aliases' \in [Name -> Alias] /\ aliases'[n] = a /\ \A m \in Name \ {n} : aliases'[m] = aliases[m]
  BY <1>1, <1>2
<1>4. InputTyped'
  BY <1>1, <1>3 DEF InputTyped
<1>5. FramesInv' /\ \A m \in Name : IsHeld(m)' <=> IsHeld(m)
  BY <1>1 DEF FramesInv, IsHeld
<1>6. MarksInv'
  <2>1. \A m \in Name : aliases'[m].inUse = aliases[m].inUse
    BY <1>2, <1>3
  <2>2. \A m \in Name : (aliases'[m].dead => aliases'[m].inUse) /\ (aliases'[m].inUse => aliases'[m].exists)
    BY <1>1, <1>2, <1>3 DEF MarksInv
  <2> QED
    BY <1>1, <1>5, <2>1, <2>2 DEF MarksInv, InputTyped
<1>7. LexerInv'
  BY <1>1 DEF LexerInv
<1>8. chain' = 0
  BY <1>1 DEF ChainInv
<1> QED
  BY <1>4, <1>5, <1>6, <1>7, <1>8, NoChain DEF InputInv

LEMMA NewFrameIs == FrameOK(NewFrame) /\ NewFrame \in FrameSet /\ \A n : n \notin Held(NewFrame)
<1>1. NewFrame \in FrameSet /\ NewFrame.overlays = <<>> /\ NewFrame.deferred = <<>>
  BY DEF NewFrame, FrameSet, Names
<1>2. Top(NewFrame) = 0
  BY <1>1 DEF Top
<1>3. HeldAt(NewFrame, 0) = {}
  BY <1>1 DEF HeldAt, ToSet
<1>4. Sole(NewFrame) /\ Settled(NewFrame) /\ Placed(NewFrame)
  BY <1>2 DEF Sole, Settled, Placed
<1>5. ASSUME NEW n PROVE n \notin Held(NewFrame)
  <2>1. n \in Held(NewFrame) <=> \E k \in 0 .. Top(NewFrame) : n \in HeldAt(NewFrame, k)
    BY <1>1, HeldIs
  <2> QED
    BY <1>2, <1>3, <2>1
<1> QED
  BY <1>1, <1>4, <1>5 DEF FrameOK

LEMMA SetInputStringKeeps == ASSUME InputInv, set_input_string PROVE InputInv'
<1>1. /\ lexer.phase = "record" /\ ~diverted /\ Len(input) < MaxFrames /\ input' = Append(input, NewFrame) /\ lexer' = AtStart
      /\ UNCHANGED <<aliases, diverted, boundary, consumed, chain, lost>>
  BY DEF set_input_string, Running
<1>2. /\ InputTyped /\ FramesInv /\ MarksInv /\ ChainInv
      /\ input \in Seq(FrameSet) /\ Len(input) \in Nat /\ Len(input) > 0 /\ DOMAIN input = 1 .. Len(input)
      /\ aliases \in [Name -> Alias] /\ lost \subseteq Name
  BY CurrentIs DEF InputInv, InputTyped
<1>3. /\ input' \in Seq(FrameSet) /\ Len(input') = Len(input) + 1 /\ DOMAIN input' = 1 .. Len(input) + 1
      /\ input'[Len(input) + 1] = NewFrame /\ \A i \in DOMAIN input : input'[i] = input[i]
  BY <1>1, <1>2, NewFrameIs
<1>4. \A n : \A i \in DOMAIN input' : n \in Held(input'[i]) => i \in DOMAIN input /\ n \in Held(input[i])
  <2>1. ASSUME NEW n, NEW i \in DOMAIN input', n \in Held(input'[i]) PROVE i \in DOMAIN input /\ n \in Held(input[i])
    <3>1. i = Len(input) + 1 \/ i \in DOMAIN input
      BY <1>2, <1>3
    <3> QED
      BY <1>3, <2>1, <3>1, NewFrameIs
  <2> QED
    BY <2>1
<1>5. \A i \in DOMAIN input' : FrameOK(input'[i])
  <2>1. ASSUME NEW i \in DOMAIN input' PROVE FrameOK(input'[i])
    <3>1. i = Len(input) + 1 \/ i \in DOMAIN input
      BY <1>2, <1>3
    <3> QED
      BY <1>2, <1>3, <3>1, NewFrameIs DEF FramesInv
  <2> QED
    BY <2>1
<1>6. FramesInv'
  BY <1>2, <1>4, <1>5 DEF FramesInv
<1>7. \A n \in Name : IsHeld(n)' <=> IsHeld(n)
  BY <1>2, <1>3, <1>4 DEF IsHeld
<1>8. MarksInv'
  BY <1>1, <1>2, <1>7 DEF MarksInv
<1>9. InputTyped'
  <2>1. Len(input') \in 1 .. MaxFrames
    BY <1>1, <1>2, <1>3, InputStackAssumption
  <2>2. AtStart \in [phase : Phase, word : Name \cup {NoName}, context : BOOLEAN]
    BY DEF AtStart, Phase
  <2> QED
    BY <1>1, <1>2, <1>3, <2>1, <2>2 DEF InputTyped
<1>10. LexerInv'
  BY <1>1 DEF LexerInv, AtStart
<1>11. chain' = 0
  BY <1>1, <1>2 DEF ChainInv
<1> QED
  BY <1>6, <1>8, <1>9, <1>10, <1>11, NoChain DEF InputInv

\* Frames popped down to frame c, which lets go of what waits for its next read.
LEMMA UnwindKeeps ==
  ASSUME InputInv, NEW c \in DOMAIN input, NEW R,
         input' \in Seq(FrameSet), Len(input') = c,
         \A i \in 1 .. c - 1 : input'[i] = input[i],
         input'[c] = [input[c] EXCEPT !.deferred = <<>>],
         aliases' = Released(aliases, R), lost' = lost,
         \A n \in Name : n \in R <=> n \in ToSet(input[c].deferred) \/ \E i \in c + 1 .. Len(input) : n \in Held(input[i]),
         boundary' = boundary, diverted' = FALSE, consumed' = <<>>, chain' = 0,
         lexer' \in [phase : Phase, word : Name \cup {NoName}, context : BOOLEAN], lexer'.phase # "found"
  PROVE  InputInv'
<1>1. /\ InputTyped /\ FramesInv /\ MarksInv /\ input \in Seq(FrameSet) /\ Len(input) \in 1 .. MaxFrames
      /\ DOMAIN input = 1 .. Len(input) /\ Len(input) \in Nat
      /\ boundary \in BOOLEAN /\ lost \subseteq Name
  BY CurrentIs DEF InputInv, InputTyped
<1>2. c \in 1 .. Len(input) /\ DOMAIN input' = 1 .. c /\ \A i \in 1 .. c : i \in DOMAIN input
  BY <1>1
<1>3. /\ FrameOK(input'[c])
      /\ \A n \in Name : n \in Held(input'[c]) <=> n \in Held(input[c]) /\ n \notin ToSet(input[c].deferred)
  <2>1. FrameOK(input[c])
    BY <1>1 DEF FramesInv
  <2> QED
    BY <2>1, ClearedIs
<1>4. \A i \in 1 .. c : i = c \/ i \in 1 .. c - 1
  BY <1>1, <1>2
<1>5. \A n \in Name, i \in 1 .. c : n \in Held(input'[i]) <=> n \in Held(input[i]) /\ (i = c => n \notin ToSet(input[c].deferred))
  BY <1>2, <1>3, <1>4
<1>6. \A i \in 1 .. c : FrameOK(input'[i])
  BY <1>1, <1>2, <1>3, <1>4 DEF FramesInv
<1>7. \A n \in Name, i, j \in DOMAIN input : n \in Held(input[i]) /\ n \in Held(input[j]) => i = j
  BY <1>1 DEF FramesInv
<1>8. FramesInv'
  BY <1>2, <1>5, <1>6, <1>7 DEF FramesInv
<1>9. \A n \in Name : n \in ToSet(input[c].deferred) => n \in Held(input[c])
  BY DEF Held
<1>10. ASSUME NEW n \in Name PROVE (IsHeld(n)' <=> IsHeld(n) /\ n \notin R) /\ (n \in R => IsHeld(n))
  <2>1. ASSUME NEW i \in 1 .. c, n \in Held(input'[i]) PROVE IsHeld(n) /\ n \notin R
    <3>1. n \in Held(input[i]) /\ i \in DOMAIN input /\ (i = c => n \notin ToSet(input[c].deferred))
      BY <1>2, <1>5, <2>1
    <3>2. ASSUME NEW j \in c + 1 .. Len(input), n \in Held(input[j]) PROVE FALSE
      <4>1. j \in DOMAIN input /\ j # i
        BY <1>1, <1>2
      <4> QED
        BY <1>7, <3>1, <3>2, <4>1
    <3>3. n \in ToSet(input[c].deferred) => i = c
      BY <1>7, <1>9, <3>1
    <3> QED
      BY <3>1, <3>2, <3>3 DEF IsHeld
  <2>2. ASSUME NEW i \in DOMAIN input, n \in Held(input[i]), n \notin R PROVE IsHeld(n)'
    <3>1. i \in 1 .. c
      BY <1>1, <1>2, <2>2
    <3>2. n \in Held(input'[i])
      BY <1>5, <2>2, <3>1
    <3> QED
      BY <1>2, <3>1, <3>2 DEF IsHeld
  <2>3. ASSUME n \in R PROVE IsHeld(n)
    <3>1. \A j \in c + 1 .. Len(input) : j \in DOMAIN input
      BY <1>1, <1>2
    <3> QED
      BY <1>9, <2>3, <3>1 DEF IsHeld
  <2>4. IsHeld(n)' => \E i \in 1 .. c : n \in Held(input'[i])
    BY <1>2 DEF IsHeld
  <2>5. IsHeld(n) => \E i \in DOMAIN input : n \in Held(input[i])
    BY DEF IsHeld
  <2> QED
    BY <2>1, <2>2, <2>3, <2>4, <2>5
<1>11. MarksInv' /\ aliases' \in [Name -> Alias]
  <2> DEFINE D == {}
  <2>1. D \in SUBSET Name /\ lost' = lost \cup D /\ \A n \in Name : n \notin D
    OBVIOUS
  <2> HIDE DEF D
  <2>2. \A n \in Name : IsHeld(n)' <=> IsHeld(n) /\ n \notin R /\ n \notin D
    BY <1>10, <2>1
  <2>3. \A n \in Name : (n \in R => IsHeld(n)) /\ (n \in D => IsHeld(n) /\ n \notin R)
    BY <1>10, <2>1
  <2> QED
    BY <1>1, <2>1, <2>2, <2>3, LettingGoKeeps
<1>12. InputTyped'
  <2>1. Len(input') \in 1 .. MaxFrames
    BY <1>1, <1>2, InputStackAssumption
  <2>2. consumed' \in Seq(Unit) /\ chain' \in Nat /\ diverted' \in BOOLEAN /\ boundary' \in BOOLEAN /\ lost' \subseteq Name
    <3>1. consumed' \in Seq(Unit)
      OBVIOUS
    <3>2. chain' \in Nat
      OBVIOUS
    <3>3. diverted' \in BOOLEAN
      OBVIOUS
    <3>4. boundary' \in BOOLEAN /\ lost' \subseteq Name
      BY <1>1
    <3> QED
      BY <3>1, <3>2, <3>3, <3>4
  <2> QED
    BY <1>11, <2>1, <2>2 DEF InputTyped
<1>13. LexerInv'
  BY DEF LexerInv
<1> QED
  BY <1>8, <1>11, <1>12, <1>13, NoChain DEF InputInv

LEMMA PopFrameKeeps == ASSUME InputInv, PopFrame PROVE InputInv'
<1> DEFINE L == Len(input)
           R == ToSet(input[L - 1].deferred) \cup Held(Last(input))
<1>1. /\ lexer.phase \in {"ended", "record"} /\ L > 1 /\ ~diverted
      /\ aliases' = Released(aliases, R)
      /\ input' = [Front(input) EXCEPT ![L - 1].deferred = <<>>]
      /\ lexer' = [AtStart EXCEPT !.phase = "record"]
      /\ consumed' = <<>> /\ UNCHANGED <<diverted, boundary, chain, lost>>
  BY DEF PopFrame
<1>2. /\ input \in Seq(FrameSet) /\ L \in Nat /\ DOMAIN input = 1 .. L /\ ChainInv /\ diverted \in BOOLEAN
  BY CurrentIs DEF InputInv, InputTyped
<1>3. Front(input) \in Seq(FrameSet) /\ Len(Front(input)) = L - 1 /\ \A i \in 1 .. L - 1 : Front(input)[i] = input[i]
  BY <1>1, <1>2, PrefixIs DEF Front
<1>4. L - 1 \in DOMAIN input /\ L - 1 \in 1 .. L - 1 /\ input[L - 1] \in FrameSet
  BY <1>1, <1>2
<1>5. [input[L - 1] EXCEPT !.deferred = <<>>] \in FrameSet
  <2>1. <<>> \in Names
    BY DEF Names
  <2> QED
    BY <1>4, <2>1 DEF FrameSet
<1>6. /\ input' \in Seq(FrameSet) /\ Len(input') = L - 1
      /\ \A i \in 1 .. (L - 1) - 1 : input'[i] = input[i]
      /\ input'[L - 1] = [input[L - 1] EXCEPT !.deferred = <<>>]
  <2> DEFINE g == [input[L - 1] EXCEPT !.deferred = <<>>]
  <2>1. input' = [Front(input) EXCEPT ![L - 1] = g]
    BY <1>1, <1>3, <1>4
  <2> HIDE DEF g
  <2>2. g \in FrameSet
    BY <1>5 DEF g
  <2>5. DOMAIN Front(input) = 1 .. L - 1
    BY <1>3
  <2>3. input' \in Seq(FrameSet) /\ Len(input') = L - 1 /\ input'[L - 1] = g /\ \A i \in 1 .. L - 2 : input'[i] = Front(input)[i]
    <3> DEFINE s == Front(input)
               m == L - 1
    <3>4. L \in Nat /\ L > 1
      BY <1>1, <1>2
    <3> HIDE DEF L
    <3>5. m \in 1 .. m /\ m \in Nat
      BY <3>4
    <3>1. s \in Seq(FrameSet) /\ Len(s) = m /\ input' = [s EXCEPT ![m] = g]
      BY <1>3, <2>1
    <3>2. \A i \in 1 .. L - 2 : i \in 1 .. m /\ i # m
      BY <3>4
    <3> HIDE DEF s, m
    <3>3. input' \in Seq(FrameSet) /\ Len(input') = m /\ input'[m] = g /\ \A i \in 1 .. m : i # m => input'[i] = s[i]
      BY <2>2, <3>1, <3>5
    <3> QED
      BY <3>2, <3>3 DEF s, m, L
  <2>4. \A i \in 1 .. (L - 1) - 1 : i \in 1 .. L - 2 /\ i \in 1 .. L - 1
    BY <1>2
  <2> QED
    BY <1>3, <2>3, <2>4 DEF g
<1>7. \A n \in Name : n \in R <=> n \in ToSet(input[L - 1].deferred) \/ \E i \in (L - 1) + 1 .. Len(input) : n \in Held(input[i])
  <2>1. Last(input) = input[L] /\ (L - 1) + 1 .. L = {L}
    BY <1>2 DEF Last
  <2> QED
    BY <2>1
<1>8. lexer' \in [phase : Phase, word : Name \cup {NoName}, context : BOOLEAN] /\ lexer'.phase # "found"
  BY <1>1 DEF AtStart, Phase
<1>9. chain' = 0 /\ diverted' = FALSE
  BY <1>1, <1>2 DEF ChainInv
<1> HIDE DEF R
<1> QED
  BY <1>1, <1>4, <1>6, <1>7, <1>8, <1>9, UnwindKeeps

LEMMA AbandonKeeps == ASSUME InputInv, Abandon PROVE InputInv'
<1> DEFINE L == Len(input)
           R == UNION {ToSet(input[i].deferred) \cup Held(input[i + 1]) : i \in 1 .. L - 1}
<1>1. /\ aliases' = Released(aliases, R)
      /\ input' = <<IF L = 1 THEN input[1] ELSE [input[1] EXCEPT !.deferred = <<>>]>>
      /\ diverted' = FALSE /\ consumed' = <<>> /\ chain' = 0 /\ UNCHANGED <<boundary, lost>>
      /\ lexer' = AtStart \/ lexer' = [AtStart EXCEPT !.phase = "discard"]
  BY DEF Abandon
<1>2. /\ input \in Seq(FrameSet) /\ L \in Nat /\ L > 0 /\ DOMAIN input = 1 .. L /\ InputTyped /\ FramesInv /\ MarksInv
      /\ aliases \in [Name -> Alias] /\ lost \subseteq Name /\ boundary \in BOOLEAN /\ L \in 1 .. MaxFrames
  BY CurrentIs DEF InputInv, InputTyped
<1>3. lexer' \in [phase : Phase, word : Name \cup {NoName}, context : BOOLEAN] /\ lexer'.phase # "found"
  <2>1. \A p \in {"start", "discard"} :
          /\ [AtStart EXCEPT !.phase = p] \in [phase : Phase, word : Name \cup {NoName}, context : BOOLEAN]
          /\ [AtStart EXCEPT !.phase = p].phase = p
    BY DEF AtStart, Phase
  <2>2. CASE lexer' = AtStart
    BY <2>2 DEF AtStart, Phase
  <2>3. CASE lexer' = [AtStart EXCEPT !.phase = "discard"]
    BY <2>1, <2>3
  <2> QED
    BY <1>1, <2>2, <2>3
<1>4. CASE L = 1
  <2>1. R = {}
    BY <1>4
  <2>2. aliases' = aliases
    <3>1. aliases' = Released(aliases, {})
      BY <1>1, <2>1
    <3>2. aliases' \in [Name -> Alias] /\ \A n \in Name : aliases'[n] = aliases[n]
      BY <1>2, <3>1, ReleasedIs
    <3> QED
      BY <1>2, <3>2
  <2>3. input' = input
    BY <1>1, <1>2, <1>4
  <2>4. InputTyped'
    <3>1. consumed' \in Seq(Unit) /\ diverted' \in BOOLEAN /\ chain' \in Nat
      <4>1. consumed' \in Seq(Unit)
        BY <1>1
      <4>2. diverted' \in BOOLEAN /\ chain' \in Nat
        BY <1>1
      <4> QED
        BY <4>1, <4>2
    <3> QED
      BY <1>1, <1>2, <1>3, <2>2, <2>3, <3>1 DEF InputTyped
  <2>5. FramesInv' /\ MarksInv'
    BY <1>1, <1>2, <2>2, <2>3 DEF FramesInv, MarksInv, IsHeld
  <2>6. LexerInv'
    BY <1>1, <1>3 DEF LexerInv
  <2> QED
    BY <1>1, <2>4, <2>5, <2>6, NoChain DEF InputInv
<1>5. CASE L # 1
  <2>1. 1 \in DOMAIN input /\ input[1] \in FrameSet
    BY <1>2
  <2>2. [input[1] EXCEPT !.deferred = <<>>] \in FrameSet
    <3>1. <<>> \in Names
      BY DEF Names
    <3> QED
      BY <2>1, <3>1 DEF FrameSet
  <2>3. /\ input' \in Seq(FrameSet) /\ Len(input') = 1 /\ input'[1] = [input[1] EXCEPT !.deferred = <<>>]
        /\ \A i \in 1 .. 1 - 1 : input'[i] = input[i]
    BY <1>1, <1>5, <2>2
  <2>4. ASSUME NEW n \in Name
        PROVE  n \in R <=> n \in ToSet(input[1].deferred) \/ \E i \in 1 + 1 .. Len(input) : n \in Held(input[i])
    <3>1. n \in R <=> \E i \in 1 .. L - 1 : n \in ToSet(input[i].deferred) \/ n \in Held(input[i + 1])
      OBVIOUS
    <3>2. \A i \in DOMAIN input : n \in ToSet(input[i].deferred) => n \in Held(input[i])
      BY DEF Held
    <3>3. ASSUME NEW i \in 1 .. L - 1, n \in ToSet(input[i].deferred) \/ n \in Held(input[i + 1])
          PROVE  n \in ToSet(input[1].deferred) \/ \E k \in 1 + 1 .. L : n \in Held(input[k])
      <4>1. i = 1 \/ (i \in 1 + 1 .. L /\ i \in DOMAIN input)
        BY <1>2
      <4>2. i + 1 \in 1 + 1 .. L
        BY <1>2
      <4> QED
        BY <3>2, <3>3, <4>1, <4>2
    <3>4. ASSUME n \in ToSet(input[1].deferred) PROVE \E i \in 1 .. L - 1 : n \in ToSet(input[i].deferred)
      <4>1. 1 \in 1 .. L - 1
        BY <1>2, <1>5
      <4> QED
        BY <3>4, <4>1
    <3>5. ASSUME NEW k \in 1 + 1 .. L, n \in Held(input[k]) PROVE \E i \in 1 .. L - 1 : n \in Held(input[i + 1])
      <4>1. k - 1 \in 1 .. L - 1 /\ (k - 1) + 1 = k
        BY <1>2
      <4> QED
        BY <3>5, <4>1
    <3> HIDE DEF R
    <3> QED
      BY <3>1, <3>3, <3>4, <3>5
  <2> HIDE DEF R
  <2> QED
    BY <1>1, <1>3, <2>1, <2>3, <2>4, UnwindKeeps
<1> QED
  BY <1>4, <1>5

-----------------------------------------------------------------------------

LEMMA InputInvInit == IInit => InputInv
<1> SUFFICES ASSUME IInit PROVE InputInv
  OBVIOUS
<1>1. /\ aliases = [n \in Name |-> NoAlias] /\ input = <<NewFrame>> /\ diverted = FALSE /\ boundary = FALSE
      /\ lexer = AtStart /\ consumed = <<>> /\ chain = 0 /\ lost = {}
  BY DEF IInit
<1>2. NoAlias \in Alias /\ ~NoAlias.inUse /\ ~NoAlias.dead
  BY DEF NoAlias, Alias
<1>3. Len(input) = 1 /\ DOMAIN input = {1} /\ input[1] = NewFrame /\ input \in Seq(FrameSet)
  BY <1>1, NewFrameIs
<1>4. InputTyped
  <2>1. AtStart \in [phase : Phase, word : Name \cup {NoName}, context : BOOLEAN]
    BY DEF AtStart, Phase
  <2>2. 1 \in 1 .. MaxFrames
    BY InputStackAssumption
  <2>3. consumed \in Seq(Unit) /\ diverted \in BOOLEAN /\ boundary \in BOOLEAN
    <3>1. consumed \in Seq(Unit)
      BY <1>1
    <3> QED
      BY <1>1, <3>1
  <2>4. chain \in Nat /\ lost \subseteq Name /\ aliases \in [Name -> Alias]
    BY <1>1, <1>2
  <2> QED
    BY <1>1, <1>3, <2>1, <2>2, <2>3, <2>4 DEF InputTyped
<1>5. FramesInv
  BY <1>3, NewFrameIs DEF FramesInv
<1>6. MarksInv
  BY <1>1, <1>2, <1>3, NewFrameIs DEF MarksInv, IsHeld
<1>7. LexerInv
  BY <1>1 DEF LexerInv, AtStart
<1>8. ChainInv
  <2>1. InUse \in SUBSET Name /\ Name \in SUBSET Name
    BY DEF InUse
  <2>2. Cardinality(InUse) \in Nat /\ Cardinality(Name) \in Nat
    BY <2>1, InUseIs
  <2> QED
    BY <1>1, <2>2 DEF ChainInv
<1> QED
  BY <1>4, <1>5, <1>6, <1>7, <1>8 DEF InputInv

LEMMA InputInvStep == InputInv /\ [INext]_ivars => InputInv'
<1> SUFFICES ASSUME InputInv, [INext]_ivars PROVE InputInv'
  OBVIOUS
<1>1. CASE StartToken
  BY <1>1, StartTokenKeeps
<1>2. CASE EndWord
  BY <1>2, EndWordKeeps
<1>3. CASE Expand
  BY <1>3, ExpandKeeps
<1>4. CASE Deliver \/ BeginHereDoc \/ NextRecord \/ push_standard_input
  BY <1>4, QuietStepsKeep
<1>5. CASE MatchDelimiter
  BY <1>5, MatchDelimiterKeeps
<1>6. CASE MismatchDelimiter
  BY <1>6, MismatchDelimiterKeeps
<1>7. CASE HereDocLine
  BY <1>7, HereDocLineKeeps
<1>8. CASE set_input_string
  BY <1>8, SetInputStringKeeps
<1>9. CASE PopFrame
  BY <1>9, PopFrameKeeps
<1>10. CASE ReadCommand
  BY <1>10, ReadCommandKeeps
<1>11. CASE Abandon
  BY <1>11, AbandonKeeps
<1>12. ASSUME NEW n \in Name, NEW v \in Values, set_alias(n, v) PROVE InputInv'
  BY <1>12, TableStepsKeep
<1>13. ASSUME NEW n \in Name, unalias(n) PROVE InputInv'
  BY <1>13, TableStepsKeep
<1>14. CASE UNCHANGED ivars
  BY <1>14 DEF ivars, InputInv, InputTyped, FramesInv, MarksInv, IsHeld, LexerInv, ChainInv, InUse, Frame, current
<1>15. CASE DiscardLine
  BY <1>15, DiscardLineKeeps
<1> QED
  BY <1>1, <1>2, <1>3, <1>4, <1>5, <1>6, <1>7, <1>8, <1>9, <1>10, <1>11, <1>12, <1>13, <1>14, <1>15 DEF INext

\* An alias is marked in use exactly while a frame still holds its text, whatever the nesting of
\* expansions, frames and here-documents, and no chain of expansions is longer than there are aliases
\* (input/overlay.rs, alias.rs, read_token of parser.rs).
THEOREM AliasesStayExact == ISpec => []AliasesAreExact
<1>1. InputInv => AliasesAreExact
  <2> SUFFICES ASSUME InputInv PROVE AliasesAreExact
    OBVIOUS
  <2>1. MarksInv /\ ChainInv
    BY DEF InputInv
  <2>2. \A n \in Name : HeldBy(n) # {} <=> IsHeld(n)
    BY DEF HeldBy, IsHeld
  <2>3. MarksAreExact
    BY <2>1, <2>2 DEF MarksAreExact, MarksInv
  <2>4. ExpansionIsBounded
    BY <2>1 DEF ExpansionIsBounded, ChainInv
  <2> QED
    BY <2>3, <2>4 DEF AliasesAreExact
<1> QED
  BY <1>1, InputInvInit, InputInvStep, PTL DEF ISpec

-----------------------------------------------------------------------------
(* Arrays. *)

\* What a table of variables is, as far as the attribute is concerned: a record for each name.
Fields == {"is", "kind", "val", "ro", "ex", "int", "up", "ref"}
IsEntry(e) == e = [f \in Fields |-> e[f]] /\ e.ro \in BOOLEAN
IsTable(T) == T = [n \in VarNames |-> T[n]] /\ \A n \in VarNames : IsEntry(T[n])

\* U keeps what T protects.
Keeps(T, U) ==
    /\ IsTable(U)
    /\ \A n \in VarNames : T[n].ro => U[n].ro /\ U[n].val = T[n].val
\* U is T with another value for n: no attribute is touched, and no other variable.
Rewrites(T, U, n) ==
    /\ IsTable(U)
    /\ \A m \in VarNames : U[m].ro = T[m].ro /\ U[m].ref = T[m].ref /\ (m # n => U[m].val = T[m].val)
\* U is T with an array stored in n, unless the guard forbids it.
StoredAt(T, U, n, guard) == U = T \/ (~Refuses(T, n, guard) /\ \E kind, val : U = Store(T, n, kind, val))

\* A table keeps what it protects itself, and keeping goes through several steps.
LEMMA KeepsItself == ASSUME NEW T, IsTable(T) PROVE Keeps(T, T) BY DEF Keeps
LEMMA KeepsThrough ==
    ASSUME NEW T, NEW U, NEW V, Keeps(T, U), Keeps(U, V)
    PROVE  Keeps(T, V)
BY DEF Keeps

\* An entry that is put in the place of one that is not read-only, or that carries its value and its attribute on.
LEMMA EntryChanged ==
    ASSUME NEW T, IsTable(T), NEW n, NEW e,
           n \in VarNames => IsEntry(e) /\ (T[n].ro => e.ro /\ e.val = T[n].val)
    PROVE  Keeps(T, [T EXCEPT ![n] = e])
<1> DEFINE U == [T EXCEPT ![n] = e]
<1>1. U = [m \in VarNames |-> IF m = n THEN e ELSE T[m]]
  BY DEF IsTable
<1>2. IsTable(U)
  BY <1>1 DEF IsTable
<1> QED
  BY <1>1, <1>2 DEF Keeps

\* An array is stored in the entry of the variable and nowhere else.
LEMMA StoreRewrites ==
    ASSUME NEW T, IsTable(T), NEW n, NEW kind, NEW val
    PROVE  Rewrites(T, Store(T, n, kind, val), n)
<1> DEFINE e == [T[n] EXCEPT !.is = "set", !.kind = kind, !.val = val]
           U == Store(T, n, kind, val)
<1>1. U = [m \in VarNames |-> IF m = n THEN e ELSE T[m]]
  BY DEF IsTable, Store
<1>2. ASSUME n \in VarNames PROVE IsEntry(e) /\ e.ro = T[n].ro /\ e.ref = T[n].ref
  <2>1. IsEntry(T[n])
    BY <1>2 DEF IsTable
  <2> HIDE DEF U
  <2> QED
    BY <2>1 DEF IsEntry, Fields
<1>3. IsTable(U)
  BY <1>1, <1>2 DEF IsTable
<1> QED
  BY <1>1, <1>2, <1>3 DEF Rewrites

LEMMA StoredRewrites ==
    ASSUME NEW T, IsTable(T), NEW U, NEW n, NEW guard, StoredAt(T, U, n, guard)
    PROVE  Rewrites(T, U, n)
<1>1. CASE U = T BY <1>1 DEF Rewrites
<1>2. CASE \E kind, val : U = Store(T, n, kind, val) BY <1>2, StoreRewrites
<1> QED
  BY <1>1, <1>2 DEF StoredAt

LEMMA StoredKeeps ==
    ASSUME NEW T, IsTable(T), NEW U, NEW n, StoredAt(T, U, n, "enforce")
    PROVE  Keeps(T, U)
<1>1. CASE U = T BY <1>1, KeepsItself
<1>2. CASE U # T
  <2>1. ~T[n].ro BY <1>2 DEF StoredAt, Refuses
  <2>2. Rewrites(T, U, n) BY StoredRewrites
  <2> QED
    BY <2>1, <2>2 DEF Rewrites, Keeps, IsTable
<1> QED
  BY <1>1, <1>2

\* The array assignments store in the variable they are given, behind the guard.
LEMMA ElementStores ==
    ASSUME NEW T, NEW n, NEW sel, NEW text, NEW append, NEW guard
    PROVE  StoredAt(T, AssignElement(T, n, sel, text, append, guard).table, n, guard)
BY DEF AssignElement, StoredAt, Error, Done, Outcome

LEMMA AppendStores ==
    ASSUME NEW T, NEW n, NEW text, NEW guard
    PROVE  StoredAt(T, AppendUnsubscripted(T, n, text, guard).table, n, guard)
<1>1. CASE IsArray(T[n])
  BY <1>1, ElementStores DEF AppendUnsubscripted
<1>2. CASE ~IsArray(T[n])
  BY <1>2 DEF AppendUnsubscripted, StoredAt, Error, Done, Outcome
<1> QED
  BY <1>1, <1>2

LEMMA CompoundStores ==
    ASSUME NEW T, NEW n, NEW elements, NEW form, NEW append, NEW guard
    PROVE  StoredAt(T, AssignCompound(T, n, elements, form, append, guard).table, n, guard)
<1>1. ASSUME NEW es, NEW now, NEW next, NEW before
      PROVE  LET U == Compound(T, n, es, form, now, next, before).table
             IN  U = T \/ \E kind, val : U = Store(T, n, kind, val)
  BY DEF Compound, Built, Error, Done, Outcome
<1>2. CASE Refuses(T, n, guard)
  BY <1>2 DEF AssignCompound, StoredAt, Error, Outcome
<1>3. CASE ~Refuses(T, n, guard)
  <2>1. PICK es, now, next, before :
          AssignCompound(T, n, elements, form, append, guard) = Compound(T, n, es, form, now, next, before)
    BY <1>3 DEF AssignCompound
  <2> QED
    BY <1>1, <1>3, <2>1 DEF StoredAt
<1> QED
  BY <1>2, <1>3

-----------------------------------------------------------------------------
\* Every operation keeps what is read-only: first those that a declaration or an assignment is made of.

LEMMA ElementKeeps ==
    ASSUME NEW T, IsTable(T), NEW n, NEW sel, NEW text, NEW append
    PROVE  Keeps(T, AssignElement(T, n, sel, text, append, "enforce").table)
BY ElementStores, StoredKeeps

LEMMA AppendKeeps ==
    ASSUME NEW T, IsTable(T), NEW n, NEW text
    PROVE  Keeps(T, AppendUnsubscripted(T, n, text, "enforce").table)
BY AppendStores, StoredKeeps

\* A value and attributes make an entry of an entry.
LEMMA EntryMarked ==
    ASSUME NEW e, IsEntry(e), NEW attrs
    PROVE  LET f == Marked(e, attrs) IN IsEntry(f) /\ (e.ro => f.ro) /\ f.val = e.val
BY DEF IsEntry, Fields, Marked

LEMMA EntryStored == ASSUME NEW e, IsEntry(e), NEW text PROVE IsEntry(Stored(e, text))
BY DEF IsEntry, Fields, Stored

LEMMA SetEntryKeeps ==
    ASSUME NEW T, IsTable(T), NEW n, NEW text, NEW attrs
    PROVE  Keeps(T, SetEntry(T, n, text, attrs).table)
<1>1. CASE T[n].ro
  BY <1>1, KeepsItself DEF SetEntry, Error, Outcome
<1>2. CASE ~T[n].ro
  <2> DEFINE e == Marked(Stored(T[n], text), attrs)
  <2>1. ASSUME n \in VarNames PROVE IsEntry(e)
    <3>1. IsEntry(T[n])
      BY <2>1 DEF IsTable
    <3> QED
      BY <3>1, EntryStored, EntryMarked
  <2>2. SetEntry(T, n, text, attrs).table = [T EXCEPT ![n] = e]
    BY <1>2 DEF SetEntry, Done, Outcome
  <2> HIDE DEF e
  <2> QED
    BY <1>2, <2>1, <2>2, EntryChanged
<1> QED
  BY <1>1, <1>2

LEMMA ClearKeeps ==
    ASSUME NEW T, IsTable(T), NEW n
    PROVE  Keeps(T, ClearReference(T, n))
<1> DEFINE e == [T[n] EXCEPT !.ref = FALSE]
<1>1. ASSUME n \in VarNames PROVE IsEntry(e) /\ e.ro = T[n].ro /\ e.val = T[n].val
  BY <1>1 DEF IsTable, IsEntry, Fields
<1>2. ClearReference(T, n) = [T EXCEPT ![n] = e]
  BY DEF ClearReference
<1> HIDE DEF e
<1>3. n \in VarNames => IsEntry(e) /\ (T[n].ro => e.ro /\ e.val = T[n].val)
  BY <1>1
<1>4. Keeps(T, [T EXCEPT ![n] = e])
  BY <1>3, EntryChanged
<1> QED
  BY <1>2, <1>4

LEMMA SetDirectlyKeeps ==
    ASSUME NEW T, IsTable(T), NEW n, NEW text, NEW attrs
    PROVE  Keeps(T, SetDirectly(T, n, text, attrs).table)
<1>1. Error(T).table = T
  BY DEF Error, Outcome
<1> QED
  BY <1>1, SetEntryKeeps, KeepsItself DEF SetDirectly

LEMMA SetBytesKeeps ==
    ASSUME NEW T, IsTable(T), NEW n, NEW text, NEW attrs
    PROVE  Keeps(T, SetBytes(T, n, text, attrs).table)
<1> DEFINE f == Follow(T, n)
           C == ClearReference(T, n)
<1>1. Keeps(T, SetDirectly(C, n, text, attrs).table)
  BY ClearKeeps, SetDirectlyKeeps, KeepsThrough DEF Keeps
<1>2. Keeps(T, Done(T).table)
  BY KeepsItself DEF Done, Outcome
<1>3. Keeps(T, SetDirectly(T, n, text, attrs).table) /\ Keeps(T, SetDirectly(T, f[2], text, attrs).table)
  BY SetDirectlyKeeps
<1>4. Keeps(T, AssignElement(T, f[2], Selector(T, f[2], f[3]), text, FALSE, "enforce").table)
  BY ElementKeeps
<1> QED
  BY <1>1, <1>2, <1>3, <1>4 DEF SetBytes

LEMMA TextTargetKeeps ==
    ASSUME NEW T, IsTable(T), NEW n, NEW op
    PROVE  Keeps(T, AssignTextTarget(T, n, op).table)
BY ElementKeeps, AppendKeeps, SetBytesKeeps DEF AssignTextTarget

\* unset.
LEMMA UnsetElementKeeps ==
    ASSUME NEW T, IsTable(T), NEW n, NEW sel
    PROVE  Keeps(T, UnsetElement(T, n, sel).table)
<1>1. StoredAt(T, UnsetElement(T, n, sel).table, n, "enforce")
  BY DEF UnsetElement, StoredAt, Refuses, Error, Done, Outcome
<1> QED
  BY <1>1, StoredKeeps

LEMMA UnsetKeeps ==
    ASSUME NEW T, IsTable(T), NEW n, NEW sub
    PROVE  Keeps(T, Unset(T, n, sub).table)
<1>1. ASSUME NEW m, ~T[m].ro PROVE Keeps(T, Removed(T, m).table)
  <2>1. Removed(T, m).table = [T EXCEPT ![m] = NoVariable]
    BY <1>1 DEF Removed, Done, Outcome
  <2>2. IsEntry(NoVariable)
    BY DEF IsEntry, Fields, NoVariable
  <2>3. Keeps(T, [T EXCEPT ![m] = NoVariable])
    <3>1. m \in VarNames => IsEntry(NoVariable) /\ (T[m].ro => NoVariable.ro /\ NoVariable.val = T[m].val)
      BY <1>1, <2>2
    <3> QED
      BY <3>1, EntryChanged
  <2> QED
    BY <2>1, <2>3
<1>2. Refusal(T).table = T
  BY DEF Refusal, Outcome
<1>3. ASSUME NEW m PROVE Keeps(T, (IF T[m].ro THEN Refusal(T) ELSE Removed(T, m)).table)
  BY <1>1, <1>2, KeepsItself
<1> QED
  BY <1>3, UnsetElementKeeps DEF Unset

\* export and readonly.
LEMMA GiveKeeps ==
    ASSUME NEW T, IsTable(T), NEW n, NEW attrs, NEW remove
    PROVE  Keeps(T, GiveAttribute(T, n, attrs, remove).table)
<1>1. CASE remove
  <2> DEFINE e == [T[n] EXCEPT !.ex = @ /\ ~attrs.ex]
  <2>1. ASSUME n \in VarNames PROVE IsEntry(e) /\ e.ro = T[n].ro /\ e.val = T[n].val
    BY <2>1 DEF IsTable, IsEntry, Fields
  <2>2. GiveAttribute(T, n, attrs, remove).table = [T EXCEPT ![n] = e]
    BY <1>1 DEF GiveAttribute, Done, Outcome
  <2> HIDE DEF e
  <2> QED
    BY <2>1, <2>2, EntryChanged
<1>2. CASE ~remove
  <2> DEFINE d == Known(T[n])
             e == Marked(d, attrs)
  <2>1. ASSUME n \in VarNames PROVE IsEntry(d) /\ d.ro = T[n].ro /\ d.val = T[n].val
    BY <2>1 DEF IsTable, IsEntry, Fields, Known
  <2>2. GiveAttribute(T, n, attrs, remove).table = [T EXCEPT ![n] = e]
    <3> HIDE DEF e
    <3>1. GiveAttribute(T, n, attrs, remove) = Done([T EXCEPT ![n] = e])
      BY <1>2 DEF GiveAttribute, e
    <3> QED
      BY <3>1 DEF Done, Outcome
  <2> HIDE DEF d
  <2>3. n \in VarNames => IsEntry(e) /\ (T[n].ro => e.ro /\ e.val = T[n].val)
    BY <2>1, EntryMarked
  <2> HIDE DEF e
  <2> QED
    BY <2>2, <2>3, EntryChanged
<1> QED
  BY <1>1, <1>2

LEMMA ThenGivenKeeps ==
    ASSUME NEW T, NEW outcome, IsTable(T), Keeps(T, outcome.table), NEW n, NEW attrs, NEW remove
    PROVE  Keeps(T, ThenGiven(outcome, n, attrs, remove).table)
<1>1. IsTable(outcome.table)
  BY DEF Keeps
<1>2. ASSUME NEW m PROVE Keeps(T, GiveAttribute(outcome.table, m, attrs, remove).table)
  BY <1>1, GiveKeeps, KeepsThrough
<1> QED
  BY <1>2 DEF ThenGiven

LEMMA ExportKeeps ==
    ASSUME NEW T, IsTable(T), NEW n, NEW attrs, NEW remove, NEW op
    PROVE  Keeps(T, Export(T, n, attrs, remove, op).table)
<1>1. Keeps(T, Error(T).table) /\ Keeps(T, Done(T).table)
  BY KeepsItself DEF Error, Done, Outcome
<1>2. /\ Keeps(T, ThenGiven(Done(T), n, attrs, remove).table)
      /\ Keeps(T, ThenGiven(AssignTextTarget(T, n, op), n, attrs, remove).table)
      /\ Keeps(T, ThenGiven(SetBytes(T, n, op.text, Plainly), n, attrs, remove).table)
  BY <1>1, TextTargetKeeps, SetBytesKeeps, ThenGivenKeeps
<1>3. Keeps(T, SetBytes(T, n, op.text, attrs).table)
  BY SetBytesKeeps
<1> QED
  BY <1>1, <1>2, <1>3 DEF Export

-----------------------------------------------------------------------------
\* declare, step by step.  U gives no name the attribute -n that did not have it in T.
NoNewReference(T, U) == \A m \in VarNames : ~T[m].ref => ~U[m].ref

LEMMA EntryEnsured ==
    ASSUME NEW T, IsTable(T), NEW n
    PROVE  Keeps(T, EnsureEntry(T, n)) /\ NoNewReference(T, EnsureEntry(T, n))
<1>1. CASE EnsureEntry(T, n) = T
  BY <1>1, KeepsItself DEF NoNewReference
<1>2. CASE EnsureEntry(T, n) # T
  <2> DEFINE e == [T[n] EXCEPT !.is = "declared", !.kind = "scalar"]
  <2>1. EnsureEntry(T, n) = [T EXCEPT ![n] = e]
    BY <1>2 DEF EnsureEntry, IsTable
  <2>2. ASSUME n \in VarNames PROVE IsEntry(e) /\ e.ro = T[n].ro /\ e.val = T[n].val /\ e.ref = T[n].ref
    BY <2>2 DEF IsTable, IsEntry, Fields
  <2> HIDE DEF e
  <2>3. Keeps(T, [T EXCEPT ![n] = e])
    BY <2>2, EntryChanged
  <2>4. NoNewReference(T, [T EXCEPT ![n] = e])
    BY <2>2 DEF NoNewReference, IsTable
  <2> QED
    BY <2>1, <2>3, <2>4
<1> QED
  BY <1>1, <1>2

LEMMA KindEnsured ==
    ASSUME NEW T, IsTable(T), NEW n, NEW kind
    PROVE  LET U == EnsureKind(T, n, kind, "enforce").table IN Keeps(T, U) /\ NoNewReference(T, U)
<1> DEFINE U == EnsureKind(T, n, kind, "enforce").table
<1>1. CASE Refuses(T, n, "enforce") \/ KindOf(T[n]) = kind
  <2>1. U = T
    BY <1>1 DEF EnsureKind, Error, Done, Outcome
  <2> QED
    BY <2>1, KeepsItself DEF NoNewReference
<1>2. CASE ~Refuses(T, n, "enforce") /\ KindOf(T[n]) # kind /\ Valued(T[n])
  <2>1. U = Store(T, n, kind, Converted(T[n], kind))
    BY <1>2 DEF EnsureKind, Done, Outcome
  <2>2. StoredAt(T, U, n, "enforce")
    BY <1>2, <2>1 DEF StoredAt
  <2>3. Keeps(T, U) /\ Rewrites(T, U, n)
    BY <2>2, StoredKeeps, StoredRewrites
  <2> QED
    BY <2>3 DEF NoNewReference, Rewrites
<1>3. CASE ~Refuses(T, n, "enforce") /\ KindOf(T[n]) # kind /\ ~Valued(T[n])
  <2> DEFINE e == [T[n] EXCEPT !.is = "declared", !.kind = kind]
  <2>1. U = [T EXCEPT ![n] = e]
    BY <1>3 DEF EnsureKind, Done, Outcome, IsTable
  <2>2. ASSUME n \in VarNames PROVE IsEntry(e) /\ e.ro = T[n].ro /\ e.val = T[n].val /\ e.ref = T[n].ref
    BY <2>2 DEF IsTable, IsEntry, Fields
  <2> HIDE DEF e
  <2>3. Keeps(T, [T EXCEPT ![n] = e])
    BY <2>2, EntryChanged
  <2>4. NoNewReference(T, [T EXCEPT ![n] = e])
    BY <2>2 DEF NoNewReference, IsTable
  <2>5. Keeps(T, U) /\ NoNewReference(T, U)
    <3> HIDE DEF U
    <3> QED
      BY <2>1, <2>3, <2>4
  <2> QED
    BY <2>5
<1> QED
  BY <1>1, <1>2, <1>3

LEMMA FirstAttributes ==
    ASSUME NEW T, IsTable(T), NEW n, NEW req
    PROVE  Keeps(T, Reattributed(T, n, req)) /\ NoNewReference(T, Reattributed(T, n, req))
<1> DEFINE e == FirstOf(T[n], req)
<1>1. ASSUME n \in VarNames PROVE IsEntry(e) /\ e.ro = T[n].ro /\ e.val = T[n].val /\ (~T[n].ref => ~e.ref)
  BY <1>1 DEF IsTable, IsEntry, Fields, FirstOf
<1>2. Reattributed(T, n, req) = [T EXCEPT ![n] = e]
  BY DEF Reattributed
<1> HIDE DEF e
<1>3. Keeps(T, [T EXCEPT ![n] = e])
  BY <1>1, EntryChanged
<1>4. NoNewReference(T, [T EXCEPT ![n] = e])
  BY <1>1 DEF NoNewReference, IsTable
<1> QED
  BY <1>2, <1>3, <1>4

LEMMA LastAttributes ==
    ASSUME NEW T, IsTable(T), NEW n, NEW req
    PROVE  /\ Keeps(T, Attributed(T, n, req))
           /\ req.ref # "on" => NoNewReference(T, Attributed(T, n, req))
<1> DEFINE e == LastOf(T[n], req)
<1>1. ASSUME n \in VarNames
      PROVE  IsEntry(e) /\ (T[n].ro => e.ro) /\ e.val = T[n].val /\ (req.ref # "on" => e.ref = T[n].ref)
  BY <1>1 DEF IsTable, IsEntry, Fields, LastOf
<1>2. Attributed(T, n, req) = [T EXCEPT ![n] = e]
  BY DEF Attributed
<1> HIDE DEF e
<1>3. Keeps(T, [T EXCEPT ![n] = e])
  BY <1>1, EntryChanged
<1>4. req.ref # "on" => NoNewReference(T, [T EXCEPT ![n] = e])
  BY <1>1 DEF NoNewReference, IsTable
<1> QED
  BY <1>2, <1>3, <1>4

\* Everything apply does before it comes to the value.
LEMMA BeforeTheValue ==
    ASSUME NEW T, IsTable(T), NEW n, NEW req
    PROVE  LET T1 == EnsureEntry(T, n)
               O  == IF req.kind = "none" THEN Done(T1) ELSE EnsureKind(T1, n, req.kind, "enforce")
               U  == Reattributed(O.table, n, req)
           IN  /\ Keeps(T, T1) /\ NoNewReference(T, T1)
               /\ Keeps(T, O.table) /\ NoNewReference(T, O.table)
               /\ Keeps(T, U) /\ NoNewReference(T, U)
<1> DEFINE T1 == EnsureEntry(T, n)
           O  == IF req.kind = "none" THEN Done(T1) ELSE EnsureKind(T1, n, req.kind, "enforce")
           U  == Reattributed(O.table, n, req)
<1>1. Keeps(T, T1) /\ NoNewReference(T, T1) /\ IsTable(T1)
  BY EntryEnsured DEF Keeps
<1>2. Done(T1).table = T1
  BY DEF Done, Outcome
<1> HIDE DEF T1
<1>3. Keeps(T1, O.table) /\ NoNewReference(T1, O.table)
  BY <1>1, <1>2, KindEnsured, KeepsItself DEF NoNewReference
<1>4. Keeps(T, O.table) /\ NoNewReference(T, O.table) /\ IsTable(O.table)
  <2> HIDE DEF O
  <2> QED
    BY <1>1, <1>3, KeepsThrough DEF NoNewReference, Keeps
<1>5. Keeps(T, U) /\ NoNewReference(T, U)
  <2> HIDE DEF O
  <2>1. Keeps(O.table, U) /\ NoNewReference(O.table, U)
    BY <1>4, FirstAttributes
  <2> HIDE DEF U
  <2> QED
    BY <1>4, <2>1, KeepsThrough DEF NoNewReference
<1> QED
  BY <1>1, <1>4, <1>5 DEF T1

\* A declaration whose value is not a list spelled inside a text.
LEMMA ValueKeeps ==
    ASSUME NEW T, IsTable(T), NEW n, NEW base, NEW op, op.form # "compound"
    PROVE  Keeps(T, ValueGiven(T, n, base, op).table)
<1>1. Keeps(T, Done(T).table)
  BY KeepsItself DEF Done, Outcome
<1> QED
  BY <1>1, TextTargetKeeps DEF ValueGiven

LEMMA ThenKeeps ==
    ASSUME NEW T, NEW outcome, IsTable(T), Keeps(T, outcome.table), NEW base, NEW req
    PROVE  /\ Keeps(T, ThenAttributed(outcome, base, req).table)
           /\ req.ref # "on" /\ NoNewReference(T, outcome.table)
                => NoNewReference(T, ThenAttributed(outcome, base, req).table)
<1> DEFINE U == outcome.table
           V == Attributed(U, base, req)
<1>1. Keeps(U, V) /\ (req.ref # "on" => NoNewReference(U, V))
  BY LastAttributes DEF Keeps
<1>2. ThenAttributed(outcome, base, req).table \in {U, V}
  BY DEF ThenAttributed, Done, Outcome
<1> HIDE DEF U, V
<1>3. Keeps(T, U)
  BY DEF U
<1>4. Keeps(T, V)
  BY <1>1, <1>3, KeepsThrough
<1>5. req.ref # "on" /\ NoNewReference(T, U) => NoNewReference(T, V)
  BY <1>1 DEF NoNewReference
<1>6. req.ref # "on" /\ NoNewReference(T, U) => NoNewReference(T, ThenAttributed(outcome, base, req).table)
  BY <1>2, <1>5
<1>7. Keeps(T, ThenAttributed(outcome, base, req).table)
  BY <1>2, <1>3, <1>4
<1> QED
  BY <1>6, <1>7 DEF U

LEMMA ApplyKeeps ==
    ASSUME NEW T, IsTable(T), NEW n, NEW req, NEW op, op.form # "compound"
    PROVE  /\ Keeps(T, Apply(T, n, req, op).table)
           /\ op.form = "none" /\ req.ref # "on" => NoNewReference(T, Apply(T, n, req, op).table)
<1> DEFINE base == IF req.ref # "keep" THEN n ELSE DeclaredName(T, n)
           T1 == EnsureEntry(T, base)
           O  == IF req.kind = "none" THEN Done(T1) ELSE EnsureKind(T1, base, req.kind, "enforce")
           U  == Reattributed(O.table, base, req)
           W  == ValueGiven(U, n, base, op)
           A  == Apply(T, n, req, op)
<1>1. A = Refusal(T) \/ A = Done(T) \/ A = Refusal(T1) \/ A = ThenValued(O, n, base, req, op)
  BY DEF Apply
<1>2. ThenValued(O, n, base, req, op) = O \/ ThenValued(O, n, base, req, op) = ThenAttributed(W, base, req)
  BY DEF ThenValued
<1> HIDE DEF base
<1>3. /\ Keeps(T, T1) /\ NoNewReference(T, T1)
      /\ Keeps(T, O.table) /\ NoNewReference(T, O.table)
      /\ Keeps(T, U) /\ NoNewReference(T, U)
  BY BeforeTheValue
<1> HIDE DEF T1, O, U
<1>4. Keeps(T, W.table)
  BY <1>3, ValueKeeps, KeepsThrough DEF Keeps
<1>5. op.form = "none" => W.table = U
  BY DEF ValueGiven, Done, Outcome
<1> HIDE DEF W, A
<1>6. /\ Keeps(T, ThenAttributed(W, base, req).table)
      /\ op.form = "none" /\ req.ref # "on" => NoNewReference(T, ThenAttributed(W, base, req).table)
  BY <1>3, <1>4, <1>5, ThenKeeps
<1>7. Refusal(T).table = T /\ Done(T).table = T /\ Refusal(T1).table = T1
  BY DEF Refusal, Done, Outcome
<1>8. Keeps(T, T) /\ NoNewReference(T, T)
  BY KeepsItself DEF NoNewReference
<1>9. Keeps(T, A.table) /\ (op.form = "none" /\ req.ref # "on" => NoNewReference(T, A.table))
  BY <1>1, <1>2, <1>3, <1>6, <1>7, <1>8
<1> QED
  BY <1>9 DEF A

\* The array assignments of the grammar: behind the guard; or into a variable that was not read-only before the
\* declaration, if it is no reference.
LEMMA StoreThrough ==
    ASSUME NEW T, NEW U, NEW V, NEW n, Keeps(T, U), Rewrites(U, V, n), ~T[n].ro
    PROVE  Keeps(T, V)
BY DEF Keeps, Rewrites

LEMMA ArrayAssignStores ==
    ASSUME NEW T, IsTable(T), NEW n, NEW op, op.form \in {"compound", "element", "append", "member"}, NEW guard
    PROVE  LET V == ArrayAssign(T, n, op, guard).table
               m == ElementBase(T, n)[2]
           IN  V = T \/ \E U \in {T, ClearReference(T, n)} : StoredAt(U, V, m, guard)
<1> DEFINE U == Freed(T, n)
           f == ElementBase(T, n)
           m == f[2]
           A == ArrayAssign(T, n, op, guard)
<1>1. U \in {T, ClearReference(T, n)}
  BY DEF Freed
<1>2. \/ A = Refusal(T) \/ A = Done(T) \/ A = Error(U) \/ A = Refusal(U)
      \/ A = AssignCompound(U, m, op.elements, CompoundForm(U, m, op.elements), op.append, guard)
      \/ A = AssignElement(U, m, Selector(U, m, op.sub), op.text, op.append, guard)
      \/ A = AppendUnsubscripted(U, m, op.text, guard)
  BY DEF ArrayAssign
<1>3. /\ Refusal(T).table = T /\ Done(T).table = T
      /\ Error(U).table = U /\ Refusal(U).table = U /\ StoredAt(U, U, m, guard)
  BY DEF Refusal, Done, Error, Outcome, StoredAt
<1> HIDE DEF A, U, m
<1>4. A.table = T \/ StoredAt(U, A.table, m, guard)
  BY <1>2, <1>3, CompoundStores, ElementStores, AppendStores
<1> QED
  BY <1>1, <1>4 DEF A, m

LEMMA ArrayAssignKeeps ==
    ASSUME NEW T, IsTable(T), NEW n, NEW op, op.form \in {"compound", "element", "append", "member"}
    PROVE  Keeps(T, ArrayAssign(T, n, op, "enforce").table)
<1> DEFINE V == ArrayAssign(T, n, op, "enforce").table
           m == ElementBase(T, n)[2]
<1>1. V = T \/ \E U \in {T, ClearReference(T, n)} : StoredAt(U, V, m, "enforce")
  BY ArrayAssignStores
<1>2. ASSUME NEW U \in {T, ClearReference(T, n)} PROVE IsTable(U) /\ Keeps(T, U)
  BY KeepsItself, ClearKeeps DEF Keeps
<1> HIDE DEF V, m
<1>3. Keeps(T, V)
  BY <1>1, <1>2, KeepsItself, StoredKeeps, KeepsThrough
<1> QED
  BY <1>3 DEF V

LEMMA HeldKeeps ==
    ASSUME NEW T, IsTable(T), NEW n \in VarNames, NEW req, NEW op, op.form \in {"compound", "element", "append", "member"},
           ~T[n].ref, req.ref # "on"
    PROVE  Keeps(T, DeclareHeld(T, n, req, op).table)
<1> DEFINE bare == [form |-> "none"]
           A == Apply(T, n, req, bare)
           U == A.table
           guard == HeldGuard(T, n)
           V == ArrayAssign(U, n, op, guard).table
<1>1. bare.form = "none"
  OBVIOUS
<1> HIDE DEF bare
<1>2. Keeps(T, U) /\ NoNewReference(T, U) /\ IsTable(U) /\ ~U[n].ref
  BY <1>1, ApplyKeeps DEF NoNewReference, Keeps
<1>3. DeclareHeld(T, n, req, op).table \in {U, V}
  BY DEF DeclareHeld, ApplyDeclaration, bare
<1> HIDE DEF A, U
<1>4. CASE guard = "enforce"
  <2>1. Keeps(U, V)
    BY <1>2, <1>4, ArrayAssignKeeps
  <2>2. Keeps(T, V)
    BY <1>2, <2>1, KeepsThrough
  <2> QED
    BY <1>2, <1>3, <2>2
<1>5. CASE guard # "enforce"
  <2>1. ~T[n].ro
    BY <1>5 DEF HeldGuard
  <2>2. ElementBase(U, n)[2] = n
    BY <1>2 DEF ElementBase, Follow, NameAtom
  <2>3. V = U \/ \E W \in {U, ClearReference(U, n)} : StoredAt(W, V, n, guard)
    BY <1>2, <2>2, ArrayAssignStores
  <2>4. ASSUME NEW W \in {U, ClearReference(U, n)} PROVE IsTable(W) /\ Keeps(T, W)
    <3>1. Keeps(U, W)
      BY <1>2, KeepsItself, ClearKeeps
    <3> QED
      BY <1>2, <3>1, KeepsThrough DEF Keeps
  <2> HIDE DEF V, guard
  <2>5. Keeps(T, V)
    BY <1>2, <2>1, <2>3, <2>4, StoredRewrites, StoreThrough
  <2> QED
    BY <1>2, <1>3, <2>5
<1> QED
  BY <1>4, <1>5

-----------------------------------------------------------------------------
\* What is left of a table is a table, also where nothing guards the attribute.
LEMMA ArrayAssignTable ==
    ASSUME NEW T, IsTable(T), NEW n, NEW op, op.form \in {"compound", "element", "append", "member"}, NEW guard
    PROVE  IsTable(ArrayAssign(T, n, op, guard).table)
<1> DEFINE V == ArrayAssign(T, n, op, guard).table
           m == ElementBase(T, n)[2]
<1>1. V = T \/ \E U \in {T, ClearReference(T, n)} : StoredAt(U, V, m, guard)
  BY ArrayAssignStores
<1>2. ASSUME NEW U \in {T, ClearReference(T, n)} PROVE IsTable(U)
  BY ClearKeeps DEF Keeps
<1> HIDE DEF V, m
<1>3. IsTable(V)
  BY <1>1, <1>2, StoredRewrites DEF Rewrites
<1> QED
  BY <1>3 DEF V

LEMMA ValueTable ==
    ASSUME NEW T, IsTable(T), NEW n, NEW base, NEW op
    PROVE  IsTable(ValueGiven(T, n, base, op).table)
<1>1. IsTable(Done(T).table)
  BY DEF Done, Outcome
<1>2. IsTable(CompoundText(T, base, op.elements).table)
  BY CompoundStores, StoredRewrites DEF CompoundText, Rewrites
<1>3. IsTable(AssignTextTarget(T, n, op).table)
  BY TextTargetKeeps DEF Keeps
<1> QED
  BY <1>1, <1>2, <1>3 DEF ValueGiven

LEMMA ApplyTable ==
    ASSUME NEW T, IsTable(T), NEW n, NEW req, NEW op
    PROVE  IsTable(Apply(T, n, req, op).table)
<1> DEFINE base == IF req.ref # "keep" THEN n ELSE DeclaredName(T, n)
           T1 == EnsureEntry(T, base)
           O  == IF req.kind = "none" THEN Done(T1) ELSE EnsureKind(T1, base, req.kind, "enforce")
           U  == Reattributed(O.table, base, req)
           W  == ValueGiven(U, n, base, op)
           A  == Apply(T, n, req, op)
<1>1. A = Refusal(T) \/ A = Done(T) \/ A = Refusal(T1) \/ A = ThenValued(O, n, base, req, op)
  BY DEF Apply
<1>2. ThenValued(O, n, base, req, op) = O \/ ThenValued(O, n, base, req, op) = ThenAttributed(W, base, req)
  BY DEF ThenValued
<1> HIDE DEF base
<1>3. IsTable(T1) /\ IsTable(O.table) /\ IsTable(U)
  BY BeforeTheValue DEF Keeps
<1> HIDE DEF T1, O, U
<1>4. IsTable(W.table)
  BY <1>3, ValueTable
<1> HIDE DEF W, A
<1>5. IsTable(ThenAttributed(W, base, req).table)
  BY <1>4, KeepsItself, ThenKeeps DEF Keeps
<1>6. Refusal(T).table = T /\ Done(T).table = T /\ Refusal(T1).table = T1
  BY DEF Refusal, Done, Outcome
<1>7. IsTable(A.table)
  BY <1>1, <1>2, <1>3, <1>5, <1>6
<1> QED
  BY <1>7 DEF A

\* Every command leaves a table, and keeps what is read-only unless it is one of the two that go round the attribute.
LEMMA PerformKeeps ==
    ASSUME NEW T, IsTable(T), NEW op \in Operations
    PROVE  IsTable(Perform(T, op).table) /\ (~Unguarded(T, op) => Keeps(T, Perform(T, op).table))
<1> DEFINE U == Perform(T, op).table
<1>0. /\ op.does \in {"assign", "array", "declare", "held", "export", "unset"} /\ op.name \in VarNames
      /\ op.does \in {"array", "held"} => op.form \in {"compound", "element", "append", "member"}
  BY OperationsAssumption
<1>1. CASE op.does = "assign"
  <2>1. U = SetBytes(T, op.name, op.text, Plainly).table
    BY <1>1 DEF Perform
  <2> QED
    BY <2>1, SetBytesKeeps DEF Keeps
<1>2. CASE op.does = "array"
  <2>1. U = ArrayAssign(T, op.name, op, "enforce").table
    BY <1>2 DEF Perform
  <2> QED
    BY <1>0, <1>2, <2>1, ArrayAssignKeeps DEF Keeps
<1>3. CASE op.does = "declare"
  <2>1. U = Apply(T, op.name, op.req, op).table
    BY <1>3 DEF Perform
  <2>2. ~Unguarded(T, op) => op.form # "compound"
    BY <1>3 DEF Unguarded
  <2> QED
    BY <2>1, <2>2, ApplyKeeps, ApplyTable
<1>4. CASE op.does = "held"
  <2>1. U = DeclareHeld(T, op.name, op.req, op).table
    BY <1>4 DEF Perform
  <2>2. ~Unguarded(T, op) => ~T[op.name].ref /\ op.req.ref # "on"
    BY <1>4 DEF Unguarded
  <2>3. IsTable(U)
    <3> DEFINE A == Apply(T, op.name, op.req, [form |-> "none"])
    <3>1. IsTable(A.table)
      BY ApplyTable
    <3>2. IsTable(ArrayAssign(A.table, op.name, op, HeldGuard(T, op.name)).table)
      BY <1>0, <1>4, <3>1, ArrayAssignTable
    <3> QED
      BY <2>1, <3>1, <3>2 DEF DeclareHeld, ApplyDeclaration
  <2>4. ~Unguarded(T, op) => Keeps(T, U)
    BY <1>0, <1>4, <2>1, <2>2, HeldKeeps
  <2> QED
    BY <2>3, <2>4
<1>5. CASE op.does = "export"
  <2>1. U = Export(T, op.name, op.attrs, op.remove, op).table
    BY <1>5 DEF Perform
  <2> QED
    BY <2>1, ExportKeeps DEF Keeps
<1>6. CASE op.does = "unset"
  <2>1. U = Unset(T, op.name, op.sub).table
    BY <1>6 DEF Perform
  <2> QED
    BY <2>1, UnsetKeeps DEF Keeps
<1> QED
  BY <1>0, <1>1, <1>2, <1>3, <1>4, <1>5, <1>6

LEMMA TableIsTable == ASpec => []IsTable(table)
<1>1. AInit => IsTable(table)
  <2>1. IsEntry(NoVariable)
    BY DEF IsEntry, Fields, NoVariable
  <2> QED
    BY <2>1 DEF AInit, IsTable
<1>2. IsTable(table) /\ [ANext]_avars => IsTable(table)'
  <2> SUFFICES ASSUME IsTable(table), [ANext]_avars PROVE IsTable(table')
    BY DEF IsTable, IsEntry
  <2>1. CASE ANext
    BY <2>1, PerformKeeps DEF ANext, Command
  <2>2. CASE UNCHANGED avars
    BY <2>2 DEF avars
  <2> QED
    BY <2>1, <2>2
<1> QED
  BY <1>1, <1>2, PTL DEF ASpec

\* Whatever the names, the texts and the commands a script is made of: no command changes an element of a read-only
\* variable or takes the attribute from it, through no chain of references, but the two that Unguarded names
\* (variables/arrays.rs ReadOnlyGuard, variables/nameref.rs, builtins/declare.rs, evaluation/bash_arrays.rs).
THEOREM ReadOnlyArraysStay == ASpec => ReadOnlyStays
<1>1. ASSUME IsTable(table), [ANext]_avars
      PROVE  [\A n \in VarNames :
                table[n].ro => (table'[n].ro /\ table'[n].val = table[n].val) \/ Unguarded(table, last'.op)]_avars
  <2>1. CASE ANext
    <3>1. PICK op \in Operations : Command(op)
      BY <2>1 DEF ANext
    <3>2. last'.op = op /\ table' = Perform(table, op).table
      BY <3>1 DEF Command
    <3>3. ~Unguarded(table, op) => Keeps(table, table')
      BY <1>1, <3>2, PerformKeeps
    <3> QED
      BY <3>2, <3>3 DEF Keeps
  <2>2. CASE UNCHANGED avars
    BY <2>2
  <2> QED
    BY <1>1, <2>1, <2>2
<1> QED
  BY <1>1, TableIsTable, PTL DEF ASpec, ReadOnlyStays
=============================================================================
