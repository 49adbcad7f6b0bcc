---------------------------- MODULE ScopesProofs ----------------------------
(* Proofs about what the shell changes for the length of a command and puts   *)
(* back: Redirection, whose saved slots implement the scoped environments of  *)
(* Bindings for any number of slots, files and nested commands; Variables,    *)
(* whose frames are scopes and whose callbacks follow every value, for any    *)
(* variables and nesting; and NoClobber: for any number of shells, whatever   *)
(* others do at the path between two system calls.                            *)
EXTENDS Redirection, NoClobber, Variables, SharedLemmas

-----------------------------------------------------------------------------
\* The actions of Bindings, under the mapping.

LEMMA MappedInit == Slots!BInit <=> Base(Slot, slots, frames) \in [Slot -> Content] /\ Stack(slots, frames) = <<>>
BY DEF Slots!BInit, Base, Stack, Layer, Seen, SeenAt, Savers

LEMMA MappedVars ==
  Slots!bvars' = Slots!bvars <=> Base(Slot, slots', frames') = Base(Slot, slots, frames) /\ Stack(slots', frames') = Stack(slots, frames)
BY DEF Slots!bvars, Base, Stack, Layer, Seen, SeenAt, Savers

LEMMA MappedOpen ==
  Slots!Open <=> Stack(slots', frames') = Append(Stack(slots, frames), <<>>) /\ Base(Slot, slots', frames') = Base(Slot, slots, frames)
BY DEF Slots!Open, Base, Stack, Layer, Seen, SeenAt, Savers

LEMMA MappedBind ==
  ASSUME NEW i, NEW k
  PROVE  Slots!Bind(i, k) <=>
           /\ Slots!Binder(k) <= i
           /\ Len(Stack(slots', frames')) = Len(Stack(slots, frames)) 
           /\ k \in DOMAIN Stack(slots', frames')[i] /\ Stack(slots', frames')[i][k] \in Content
           /\ Stack(slots', frames') = [Stack(slots, frames) EXCEPT ![i] =
                 [x \in DOMAIN @ \cup {k} |-> IF x = k THEN Stack(slots', frames')[i][k] ELSE @[x]]]
           /\ Base(Slot, slots', frames') = Base(Slot, slots, frames)
BY DEF Slots!Bind, Base, Stack, Layer, Seen, SeenAt, Savers

LEMMA MappedClose ==
  Slots!Close <=>
    /\ Stack(slots, frames) # <<>> 
    /\ Stack(slots', frames') = SubSeq(Stack(slots, frames), 1, Len(Stack(slots, frames)) - 1)
    /\ Base(Slot, slots', frames') = Base(Slot, slots, frames)
BY DEF Slots!Close, Base, Stack, Layer, Seen, SeenAt, Savers

LEMMA MappedCloseAll ==
  Slots!CloseAll <=> Stack(slots', frames') = <<>> /\ Base(Slot, slots', frames') = Base(Slot, slots, frames)
BY DEF Slots!CloseAll, Base, Stack, Layer, Seen, SeenAt, Savers

LEMMA MappedSettle ==
  Slots!Settle <=> Base(Slot, slots', frames') = [k \in Slot |-> Slots!Visible(k)] /\ Stack(slots', frames') = <<>>
BY DEF Slots!Settle, Base, Stack, Layer, Seen, SeenAt, Savers

LEMMA BinderIs ==
  ASSUME Len(frames) \in Nat, NEW k
  PROVE  Slots!Binder(k) = Inner(frames, k)
<1> DEFINE S == Stack(slots, frames)
           B == {i \in 1..Len(S) : k \in DOMAIN S[i]}
<1>1. Slots!Binder(k) = IF B = {} THEN 0 ELSE CHOOSE i \in B : \A j \in B : j <= i
  BY DEF Slots!Binder, Stack, Layer, Seen, SeenAt, Savers
<1>2. B = Savers(frames, 0, k)
  BY StackShape DEF Savers
<1>3. QED BY <1>1, <1>2 DEF Inner

\* A name under the mapping means what its slot holds.
LEMMA VisibleIs ==
  ASSUME Len(frames) \in Nat, NEW d \in Slot
  PROVE  Slots!Visible(d) = slots[d]
<1>1. Slots!Visible(d) = IF Slots!Binder(d) = 0 THEN Base(Slot, slots, frames)[d]
                         ELSE Stack(slots, frames)[Slots!Binder(d)][d]
  BY DEF Slots!Visible, Base, Stack, Layer, Seen, SeenAt, Savers
<1>2. CASE Inner(frames, d) = 0
  <2>1. Seen(slots, frames, 0, d) = slots[d]
    BY <1>2, SeenFromInner
  <2>2. QED BY <1>1, <1>2, <2>1, BinderIs DEF Base
<1>3. CASE Inner(frames, d) # 0
  <2>1. Inner(frames, d) \in 1..Len(frames) /\ d \in DOMAIN frames[Inner(frames, d)]
    BY <1>3, InnerIs
  <2>2. Seen(slots, frames, Inner(frames, d), d) = slots[d]
    BY <2>1, SeenFromInner
  <2>3. Slots!Visible(d) = Stack(slots, frames)[Inner(frames, d)][d]
    BY <1>1, <1>3, BinderIs
  <2>4. Stack(slots, frames)[Inner(frames, d)] = Layer(slots, frames, Inner(frames, d))
    BY <2>1, StackShape
  <2>5. Layer(slots, frames, Inner(frames, d))[d] = Seen(slots, frames, Inner(frames, d), d)
    BY <2>1 DEF Layer
  <2>6. QED BY <2>2, <2>3, <2>4, <2>5
<1>4. QED BY <1>2, <1>3

-----------------------------------------------------------------------------
\* What the concrete changes of slots and frames are under the mapping.

LEMMA MappedAssign ==
  ASSUME NEW k
  PROVE  Slots!Assign(k) <=>
           IF Slots!Binder(k) = 0
           THEN /\ Base(Slot, slots', frames')[k] \in Content
                /\ Base(Slot, slots', frames') = [Base(Slot, slots, frames) EXCEPT ![k] = Base(Slot, slots', frames')[k]]
                /\ Stack(slots', frames') = Stack(slots, frames)
           ELSE Slots!Bind(Slots!Binder(k), k)
BY DEF Slots!Assign, Base, Stack, Layer, Seen, SeenAt, Savers

\* An innermost binding that is given a value, or a new binding in the innermost frame, is a Bind.
LEMMA RebindsBinds ==
  ASSUME frames \in Seq(Kept(Slot, Content)), frames' \in Seq(Kept(Slot, Content)), Len(frames') = Len(frames), NEW m \in 1..Len(frames),
         NEW d, NEW v \in Content,
         Inner(frames, d) <= m, Rebinds(Slot, slots, frames, slots', frames', m, d, v)
  PROVE  Slots!Bind(m, d)
<1>1. Len(frames) \in Nat /\ Len(frames') \in Nat
  OBVIOUS
<1>2. Slots!Binder(d) <= m
  BY <1>1, BinderIs
<1>3. Len(Stack(slots', frames')) = Len(Stack(slots, frames))
  BY <1>1, StackShape
<1>4. QED BY <1>2, <1>3, MappedBind DEF Rebinds

\* A slot is written: its innermost binding changes.
LEMMA WriteAssigns ==
  ASSUME frames \in Seq(Kept(Slot, Content)), NEW d \in Slot, NEW v \in Content,
         Wrote(Slot, Content, slots, slots', d, v), UNCHANGED frames
  PROVE  Slots!Assign(d)
<1>1. Len(frames) \in Nat /\ frames' = frames
  OBVIOUS
<1>2. Reassigns(Slot, slots, frames, slots', frames', d, v)
  BY <1>1, WriteReassigns
<1>3. CASE Inner(frames, d) = 0
  <2>1. Base(Slot, slots', frames') = [Base(Slot, slots, frames) EXCEPT ![d] = v]
        /\ Stack(slots', frames') = Stack(slots, frames)
    BY <1>2, <1>3 DEF Reassigns
  <2>2. Base(Slot, slots', frames')[d] = v
    BY <2>1 DEF Base
  <2> QED BY <1>1, <1>3, <2>1, <2>2, MappedAssign, BinderIs
<1>4. CASE Inner(frames, d) # 0
  <2>1. Inner(frames, d) \in 1..Len(frames) /\ Inner(frames, d) <= Inner(frames, d)
        /\ Rebinds(Slot, slots, frames, slots', frames', Inner(frames, d), d, v)
    BY <1>1, <1>2, <1>4 DEF Reassigns
  <2>2. Slots!Bind(Inner(frames, d), d)
    BY <1>1, <2>1, RebindsBinds
  <2> QED BY <1>1, <1>4, <2>2, MappedAssign, BinderIs
<1> QED BY <1>3, <1>4

LEMMA SaveBinds ==
  ASSUME slots \in [Slot -> Content], frames \in Seq(Kept(Slot, Content)), NEW d \in Slot, NEW v \in Content, NEW m,
         Wrote(Slot, Content, slots, slots', d, v), SavedTo(Slot, Content, slots, frames, frames', m, d)
  PROVE  Slots!Bind(m, d)
<1>1. m \in 1..Len(frames) /\ frames' \in Seq(Kept(Slot, Content)) /\ Len(frames') = Len(frames)
  BY DEF SavedTo
<1>2. Rebinds(Slot, slots, frames, slots', frames', m, d, v) /\ Inner(frames, d) <= m
  BY SaveRebinds
<1> QED BY <1>1, <1>2, RebindsBinds

LEMMA UnwindIsClose ==
  ASSUME frames \in Seq(Kept(Slot, Content)), Unwinds(Slot, Content, slots, frames, slots', frames')
  PROVE  Slots!Close
<1>1. Closes(Slot, slots, frames, slots', frames')
  BY UnwindCloses
<1> QED BY <1>1, MappedClose DEF Closes

-----------------------------------------------------------------------------
\* A frame that is dropped leaves its slots as they are.

Below(fr, d) == {i \in 1..Len(fr) - 1 : d \in DOMAIN fr[i]}
Lands(fr, d, i) == d \in DOMAIN fr[Len(fr)] /\ i \in Below(fr, d) /\ \A j \in Below(fr, d) : j <= i

LEMMA MappedKeep ==
  ASSUME frames \in Seq(Kept(Slot, Content)), frames # <<>>,
         Stack(slots', frames') = [i \in 1..Len(frames) - 1 |-> [d \in DOMAIN frames[i] |->
             IF Lands(frames, d, i) THEN Stack(slots, frames)[Len(frames)][d] ELSE Stack(slots, frames)[i][d]]],
         Base(Slot, slots', frames') = [d \in Slot |->
             IF d \in DOMAIN frames[Len(frames)] /\ Below(frames, d) = {}
             THEN Stack(slots, frames)[Len(frames)][d] ELSE Base(Slot, slots, frames)[d]]
  PROVE  Slots!Keep
<1> DEFINE S == Stack(slots, frames)
           top == Len(S)
           B(k) == {i \in 1..top - 1 : k \in DOMAIN S[i]}
           L(k, i) == k \in DOMAIN S[top] /\ i \in B(k) /\ \A j \in B(k) : j <= i
<1>1. Slots!Keep <=>
        /\ top > 0
        /\ Stack(slots', frames') = [i \in 1..top - 1 |->
              [k \in DOMAIN S[i] |-> IF L(k, i) THEN S[top][k] ELSE S[i][k]]]
        /\ Base(Slot, slots', frames') = [k \in Slot |->
              IF k \in DOMAIN S[top] /\ B(k) = {} THEN S[top][k] ELSE Base(Slot, slots, frames)[k]]
  BY DEF Slots!Keep, Base, Stack, Layer, Seen, SeenAt, Savers
<1>2. Len(frames) \in Nat /\ Len(frames) > 0
  OBVIOUS
<1>3. top = Len(frames) /\ \A i \in 1..Len(frames) : DOMAIN S[i] = DOMAIN frames[i]
  BY <1>2, StackShape
<1>4. \A k : B(k) = Below(frames, k)
  BY <1>2, <1>3 DEF Below
<1>5. \A k, i : L(k, i) <=> Lands(frames, k, i)
  BY <1>2, <1>3, <1>4 DEF Lands
<1> HIDE DEF S, top, B, L
<1>6. [i \in 1..top - 1 |-> [k \in DOMAIN S[i] |-> IF L(k, i) THEN S[top][k] ELSE S[i][k]]]
      = [i \in 1..Len(frames) - 1 |-> [d \in DOMAIN frames[i] |->
             IF Lands(frames, d, i) THEN S[Len(frames)][d] ELSE S[i][d]]]
  BY <1>2, <1>3, <1>5
<1>7. [k \in Slot |-> IF k \in DOMAIN S[top] /\ B(k) = {} THEN S[top][k] ELSE Base(Slot, slots, frames)[k]]
      = [d \in Slot |-> IF d \in DOMAIN frames[Len(frames)] /\ Below(frames, d) = {}
                        THEN S[Len(frames)][d] ELSE Base(Slot, slots, frames)[d]]
  BY <1>2, <1>3, <1>4
<1>8. QED BY <1>1, <1>2, <1>3, <1>6, <1>7 DEF S

LEMMA DropSeen ==
  ASSUME NEW sl, NEW fr \in Seq(Kept(Slot, Content)), fr # <<>>, NEW fr2, Len(fr2) = Len(fr) - 1,
         \A j \in 1..Len(fr) - 1 : fr2[j] = fr[j], NEW i \in 0..Len(fr) - 1, NEW d
  PROVE  Seen(sl, fr2, i, d) = IF d \in DOMAIN fr[Len(fr)] /\ Savers(fr2, i, d) = {}
                               THEN sl[d] ELSE Seen(sl, fr, i, d)
<1>1. /\ Savers(fr2, i, d) = Savers(fr, i, d) \ {Len(fr)}
      /\ Savers(fr2, i, d) \subseteq Nat
      /\ \A j \in Savers(fr2, i, d) : fr2[j][d] = fr[j][d] /\ j < Len(fr)
      /\ Len(fr) \in Savers(fr, i, d) <=> d \in DOMAIN fr[Len(fr)]
      /\ Len(fr) \in Nat /\ Len(fr2) \in Nat /\ i \in Nat
  BY ShorterSavers
<1>2. CASE Savers(fr2, i, d) = {}
  <2>1. Seen(sl, fr2, i, d) = sl[d]
    BY <1>2, SeenUnsaved
  <2>2. CASE d \in DOMAIN fr[Len(fr)]
    BY <1>2, <2>1, <2>2
  <2>3. CASE d \notin DOMAIN fr[Len(fr)]
    <3>1. Seen(sl, fr, i, d) = sl[d]
      BY <1>1, <1>2, <2>3, SeenUnsaved
    <3>2. QED BY <2>1, <2>3, <3>1
  <2>4. QED BY <2>2, <2>3
<1>3. CASE Savers(fr2, i, d) # {}
  <2>1. PICK j \in Savers(fr2, i, d) : \A k \in Savers(fr2, i, d) : j <= k
    BY <1>1, <1>3, FirstSaver
  <2>2. Seen(sl, fr2, i, d) = fr2[j][d]
    BY <1>1, <2>1, SeenSaved
  <2>3. j \in Savers(fr, i, d) /\ \A k \in Savers(fr, i, d) : j <= k
    BY <1>1, <2>1
  <2>4. Seen(sl, fr, i, d) = fr[j][d]
    BY <1>1, <2>3, SeenSaved
  <2>5. QED BY <1>1, <1>3, <2>2, <2>4
<1>4. QED BY <1>2, <1>3

LEMMA DropKeeps ==
  ASSUME frames \in Seq(Kept(Slot, Content)), frames # <<>>, UNCHANGED slots, frames' \in Seq(Kept(Slot, Content)),
         Len(frames') = Len(frames) - 1, \A j \in 1..Len(frames) - 1 : frames'[j] = frames[j]
  PROVE  Slots!Keep
<1> DEFINE n == Len(frames)
<1>1. n \in Nat /\ n > 0 /\ n = Len(frames)
  OBVIOUS
<1>2. \A i \in 0..n - 1 : \A d : Seen(slots, frames', i, d) =
          IF d \in DOMAIN frames[n] /\ Savers(frames', i, d) = {} THEN slots[d] ELSE Seen(slots, frames, i, d)
  BY DropSeen
<1>3. Stack(slots, frames)[n] = Layer(slots, frames, n) /\ \A i \in 1..n - 1 : Stack(slots, frames)[i] = Layer(slots, frames, i)
  BY <1>1, StackShape
<1>4. \A d \in DOMAIN frames[n] : Stack(slots, frames)[n][d] = slots[d]
  <2>1. \A d : Savers(frames, n, d) = {}
    BY <1>1 DEF Savers
  <2>2. \A d : Seen(slots, frames, n, d) = slots[d]
    BY <2>1, SeenUnsaved
  <2>3. QED BY <1>3, <2>2 DEF Layer
<1>5. \A d : \A i \in 1..n - 1 : d \in DOMAIN frames[i] =>
         (Lands(frames, d, i) <=> d \in DOMAIN frames[n] /\ Savers(frames', i, d) = {})
  <2> SUFFICES ASSUME NEW d, NEW i \in 1..n - 1, d \in DOMAIN frames[i]
               PROVE  (\A j \in Below(frames, d) : j <= i) <=> Savers(frames', i, d) = {}
    BY DEF Lands, Below
  <2>1. Savers(frames', i, d) = {j \in Below(frames, d) : ~(j <= i)}
    BY <1>1, SMTT(30) DEF Savers, Below
  <2>2. QED BY <2>1
<1>6. \A d : Below(frames, d) = Savers(frames', 0, d)
  BY <1>1 DEF Savers, Below
<1> HIDE DEF n
<1>7. Stack(slots', frames') = [i \in 1..n - 1 |-> [d \in DOMAIN frames[i] |->
             IF Lands(frames, d, i) THEN Stack(slots, frames)[n][d] ELSE Stack(slots, frames)[i][d]]]
  <2>1. ASSUME NEW i \in 1..n - 1
        PROVE  Layer(slots', frames', i) = [d \in DOMAIN frames[i] |->
             IF Lands(frames, d, i) THEN Stack(slots, frames)[n][d] ELSE Stack(slots, frames)[i][d]]
    <3>1. \A d \in DOMAIN frames[i] : Seen(slots', frames', i, d) =
             IF Lands(frames, d, i) THEN Stack(slots, frames)[n][d] ELSE Stack(slots, frames)[i][d]
      <4> SUFFICES ASSUME NEW d \in DOMAIN frames[i]
                   PROVE  Seen(slots, frames', i, d) =
             IF Lands(frames, d, i) THEN Stack(slots, frames)[n][d] ELSE Stack(slots, frames)[i][d]
        OBVIOUS
      <4>1. Stack(slots, frames)[i][d] = Seen(slots, frames, i, d)
        <5>1. Stack(slots, frames)[i] = Layer(slots, frames, i)
          BY <1>3
        <5> QED
          BY <5>1 DEF Layer
      <4>2. i \in 0..n - 1
        BY <1>1
      <4>3. Lands(frames, d, i) <=> d \in DOMAIN frames[n] /\ Savers(frames', i, d) = {}
        BY <1>5
      <4>4. Seen(slots, frames', i, d) = IF Lands(frames, d, i) THEN slots[d] ELSE Seen(slots, frames, i, d)
        BY <1>2, <4>2, <4>3
      <4>5. QED BY <1>4, <4>1, <4>3, <4>4
    <3>2. frames'[i] = frames[i]
      BY <1>1
    <3>3. QED BY <3>1, <3>2 DEF Layer
  <2>2. QED BY <1>1, <2>1 DEF Stack
<1>8. Base(Slot, slots', frames') = [d \in Slot |->
             IF d \in DOMAIN frames[n] /\ Below(frames, d) = {}
             THEN Stack(slots, frames)[n][d] ELSE Base(Slot, slots, frames)[d]]
  <2>1. 0 \in 0..n - 1
    BY <1>1
  <2>2. QED BY <1>2, <1>4, <1>6, <2>1 DEF Base
<1>9. QED BY <1>1, <1>7, <1>8, MappedKeep

\* Every frame is put back: the slots are what they are seen as from below all frames.
LEMMA RecoverClosesAll ==
  ASSUME slots' = Base(Slot, slots, frames), frames' = <<>>, Base(Slot, slots, frames) \in [Slot -> Content]
  PROVE  Slots!CloseAll
<1>1. Stack(slots', frames') = <<>> /\ Base(Slot, slots', frames') = slots'
  BY DropSettles
<1>2. QED BY <1>1, MappedCloseAll

-----------------------------------------------------------------------------
\* A scope's mark is below its place among the scopes and there are no more
\* frames than scopes, so that marks stay within their bound.

SlotsInv == slots \in [Slot -> Content] /\ frames \in Seq(Kept(Slot, Content)) /\ BufferFollowsStdin
ScopesInv ==
    /\ scopes \in Seq(Scope) /\ Len(scopes) <= MaxScopes
    /\ Len(frames) <= Len(scopes)
    /\ \A i \in 1..Len(scopes) : scopes[i].mark < i
RInv ==
    /\ SlotsInv /\ ScopesInv
    /\ named \in Slot \cup {NoSlot}
    /\ buffered \in Content \cup {NoBuffer}
    /\ panicked \in BOOLEAN

LEMMA StdinIsSlot == STDIN \in Slot
BY RedirectionAssumption DEF STDIN, Slot

LEMMA ReplaceInSeq ==
  ASSUME NEW S, NEW s \in Seq(S), NEW i \in 1..Len(s), NEW e \in S
  PROVE  /\ [s EXCEPT ![i] = e] \in Seq(S) /\ Len([s EXCEPT ![i] = e]) = Len(s)
         /\ [s EXCEPT ![i] = e][i] = e
         /\ \A j \in 1..Len(s) : j # i => [s EXCEPT ![i] = e][j] = s[j]
OBVIOUS

LEMMA SavedIs ==
  ASSUME slots \in [Slot -> Content], frames \in Seq(Kept(Slot, Content)), NEW d \in Slot
  PROVE  /\ Saved(d) \in Seq(Kept(Slot, Content)) /\ Len(Saved(d)) = Len(frames)
         /\ Saved(d) = frames \/ SavedTo(Slot, Content, slots, frames, Saved(d), Len(frames), d)
<1> DEFINE n == Len(frames)
<1>1. SaveFrame = 0 \/ SaveFrame = n
  BY DEF SaveFrame
<1>2. CASE Saved(d) = frames
  BY <1>2
<1>3. CASE Saved(d) # frames
  <2>0. SaveFrame = n /\ n # 0 /\ d \notin DOMAIN frames[SaveFrame]
    BY <1>1, <1>3 DEF Saved
  <2>1. /\ frames # <<>> /\ n \in 1..Len(frames) /\ d \notin DOMAIN frames[n]
        /\ Saved(d) = [frames EXCEPT ![n] = [x \in DOMAIN @ \cup {d} |-> IF x = d THEN slots[d] ELSE @[x]]]
    BY <2>0 DEF Saved
  <2>2. frames[n] \in Kept(Slot, Content)
    BY <2>1
  <2>3. PICK D \in SUBSET Slot : frames[n] \in [D -> Content]
    BY <2>2 DEF Kept
  <2>4. PICK new : new = [x \in D \cup {d} |-> IF x = d THEN slots[d] ELSE frames[n][x]]
    OBVIOUS
  <2>5. new \in [D \cup {d} -> Content] /\ D \cup {d} \in SUBSET Slot
    BY <2>3, <2>4
  <2>6. new \in Kept(Slot, Content)
    BY <2>5 DEF Kept
  <2>7. Saved(d) = [frames EXCEPT ![n] = new]
    BY <2>1, <2>3, <2>4
  <2>8. Saved(d) \in Seq(Kept(Slot, Content)) /\ Len(Saved(d)) = Len(frames) /\ Saved(d)[n] = new
        /\ \A j \in 1..Len(frames) : j # n => Saved(d)[j] = frames[j]
    <3>1. n \in 1..Len(frames)
      BY <2>1
    <3> HIDE DEF n
    <3>2. QED BY <3>1, <2>6, <2>7, ReplaceInSeq
  <2>9. /\ DOMAIN new = DOMAIN frames[n] \cup {d} /\ new[d] = slots[d]
        /\ \A y \in DOMAIN frames[n] : new[y] = frames[n][y]
    BY <2>1, <2>3, <2>4
  <2>10. QED BY <2>1, <2>8, <2>9 DEF SavedTo
<1>4. QED BY <1>2, <1>3

LEMMA StepsOfBindings ==
  ASSUME Len(frames) \in Nat,
         \/ Slots!Open \/ Slots!Close \/ Slots!Settle \/ Slots!Keep \/ Slots!CloseAll
         \/ \E k \in Slot : Slots!Assign(k) \/ \E i \in 1..Len(frames) : Slots!Bind(i, k)
  PROVE  Slots!BNext
<1>1. Slots!BNext <=>
         \/ Slots!Open \/ Slots!Close \/ Slots!Settle \/ Slots!Keep \/ Slots!CloseAll
         \/ \E k \in Slot : Slots!Assign(k) \/ Slots!OpenWith(k)
               \/ \E i \in 1..Len(Stack(slots, frames)) : Slots!Bind(i, k)
  BY DEF Slots!BNext, Stack, Layer, Seen, SeenAt, Savers
<1>2. QED BY <1>1, StackShape

\* A redirection of one slot: the innermost frame saves it unless it has, and it is written.
LEMMA ReplaceStep ==
  ASSUME SlotsInv, NEW d \in Slot, NEW v \in Content, Wrote(Slot, Content, slots, slots', d, v), frames' = Saved(d),
         buffered' = buffered \/ buffered' = NoBuffer, d = STDIN => buffered' = NoBuffer
  PROVE  SlotsInv' /\ Slots!BNext
<1>1. /\ frames' \in Seq(Kept(Slot, Content)) /\ Len(frames') = Len(frames)
      /\ frames' = frames \/ SavedTo(Slot, Content, slots, frames, frames', Len(frames), d)
  BY SavedIs DEF SlotsInv
<1>2. slots' \in [Slot -> Content]
  BY DEF Wrote
<1>3. BufferFollowsStdin'
  BY StdinIsSlot DEF Wrote, SlotsInv, BufferFollowsStdin
<1>4. Slots!BNext
  <2>1. Len(frames) \in Nat /\ slots \in [Slot -> Content] /\ frames \in Seq(Kept(Slot, Content))
    BY DEF SlotsInv
  <2>2. CASE frames' = frames
    <3>1. Slots!Assign(d)
      BY <2>1, <2>2, WriteAssigns
    <3>2. QED BY <2>1, <3>1, StepsOfBindings
  <2>3. CASE SavedTo(Slot, Content, slots, frames, frames', Len(frames), d)
    <3>1. Slots!Bind(Len(frames), d)
      BY <2>1, <2>3, SaveBinds
    <3>2. Len(frames) \in 1..Len(frames)
      BY <2>1, <2>3 DEF SavedTo
    <3>3. QED BY <2>1, <3>1, <3>2, StepsOfBindings
  <2>4. QED BY <1>1, <2>2, <2>3
<1>5. QED BY <1>1, <1>2, <1>3, <1>4 DEF SlotsInv

LEMMA AllocatedIs == ASSUME Free # {} PROVE Allocated \in Free /\ Allocated \in Slot /\ Allocated # STDIN
<1>1. Free \in SUBSET Nat
  BY RedirectionAssumption DEF Free
<1>2. \E d \in Free : \A e \in Free : d <= e
  BY <1>1, LeastExists
<1>3. Allocated \in Free
  BY <1>2 DEF Allocated
<1>4. QED BY <1>3, RedirectionAssumption DEF Free, Slot, STDIN

\* What no redirection touches stays as it is under the mapping.
LEMMA SlotsStutter ==
  ASSUME SlotsInv, UNCHANGED <<slots, frames>>, buffered' = buffered \/ buffered' = slots[STDIN]
  PROVE  SlotsInv' /\ UNCHANGED Slots!bvars
<1>1. SlotsInv'
  BY DEF SlotsInv, BufferFollowsStdin
<1>2. UNCHANGED Slots!bvars
  BY MappedVars
<1>3. QED BY <1>1, <1>2

LEMMA TopIsScope == ASSUME ScopesInv, scopes # <<>> PROVE Top \in Scope /\ Top.mark < Len(scopes)
<1>1. Len(scopes) \in 1..Len(scopes)
  BY DEF ScopesInv
<1>2. QED BY <1>1 DEF ScopesInv, Top

LEMMA LeaveStep ==
  ASSUME SlotsInv, ScopesInv, NEW retain \in BOOLEAN, Leave(retain)
  PROVE  SlotsInv' /\ (Slots!BNext \/ UNCHANGED Slots!bvars)
<1> DEFINE n == Len(frames)
<1>1. n \in Nat /\ n = Len(frames) /\ slots \in [Slot -> Content] /\ frames \in Seq(Kept(Slot, Content))
  BY DEF SlotsInv
<1>2. CASE UNCHANGED <<slots, frames, buffered>>
  BY <1>2, SlotsStutter
<1>3. CASE ~UNCHANGED <<slots, frames, buffered>>
  <2>1. /\ n > Top.mark /\ scopes # <<>> /\ frames' = Shorter
        /\ IF retain THEN UNCHANGED <<slots, buffered>>
           ELSE /\ slots' = Restored(frames[n])
                /\ buffered' = IF STDIN \in DOMAIN frames[n] THEN NoBuffer ELSE buffered
    BY <1>3 DEF Leave
  <2>2. Top.mark \in Nat
    BY <2>1, TopIsScope DEF Scope
  <2>3. n > 0 /\ frames # <<>>
    BY <1>1, <2>1, <2>2
  <2>4. frames' \in Seq(Kept(Slot, Content)) /\ Len(frames') = n - 1 /\ \A j \in 1..n - 1 : frames'[j] = frames[j]
    BY <1>1, <2>1, <2>3, FrontIsSeq DEF Shorter
  <2>5. CASE retain
    <3>1. Slots!Keep
      BY <1>1, <2>1, <2>3, <2>4, <2>5, DropKeeps
    <3>2. SlotsInv'
      BY <2>1, <2>4, <2>5 DEF SlotsInv, BufferFollowsStdin
    <3>3. QED BY <1>1, <3>1, <3>2, StepsOfBindings
  <2>6. CASE ~retain
    <3>1. frames[n] \in Kept(Slot, Content)
      BY <1>1, <2>3
    <3>2. \A d \in DOMAIN frames[n] : frames[n][d] \in Content
      BY <3>1 DEF Kept
    <3>3. slots' \in [Slot -> Content]
          /\ \A d \in Slot : slots'[d] = IF d \in DOMAIN frames[n] THEN frames[n][d] ELSE slots[d]
      BY <1>1, <2>1, <2>6, <3>2 DEF Restored
    <3>4. Unwinds(Slot, Content, slots, frames, slots', frames')
      BY <1>1, <2>3, <2>4, <3>3 DEF Unwinds
    <3>5. Slots!Close
      BY <1>1, <3>4, UnwindIsClose
    <3>6. BufferFollowsStdin'
      BY <2>1, <2>6, <3>3, StdinIsSlot DEF SlotsInv, BufferFollowsStdin
    <3>7. SlotsInv'
      BY <2>4, <3>3, <3>6 DEF SlotsInv
    <3>8. QED BY <1>1, <3>5, <3>7, StepsOfBindings
  <2>7. QED BY <2>5, <2>6
<1>4. QED BY <1>2, <1>3

LEMMA RecoverStep ==
  ASSUME SlotsInv, RecoverInteractive
  PROVE  SlotsInv' /\ Slots!BNext
<1>1. frames \in Seq(Kept(Slot, Content)) /\ slots \in [Slot -> Content] /\ Len(frames) \in Nat /\ frames' = <<>>
  BY DEF SlotsInv, RecoverInteractive
<1>2. \A d : OldestSaved(d) = Savers(frames, 0, d)
  BY DEF OldestSaved, Savers
<1>3. slots' = Base(Slot, slots, frames)
  BY <1>2 DEF RecoverInteractive, Base, Seen
<1>4. Base(Slot, slots, frames) \in [Slot -> Content]
  BY <1>1, BaseType
<1>5. Slots!CloseAll
  BY <1>1, <1>3, <1>4, RecoverClosesAll
<1>6. BufferFollowsStdin'
  <2>1. CASE Savers(frames, 0, STDIN) = {}
    <3>1. slots'[STDIN] = slots[STDIN]
      BY <1>3, <2>1, SeenUnsaved, StdinIsSlot DEF Base
    <3>2. QED BY <1>2, <2>1, <3>1 DEF RecoverInteractive, SlotsInv, BufferFollowsStdin
  <2>2. CASE Savers(frames, 0, STDIN) # {}
    BY <1>2, <2>2 DEF RecoverInteractive, BufferFollowsStdin
  <2>3. QED BY <2>1, <2>2
<1>7. QED BY <1>1, <1>3, <1>4, <1>5, <1>6, StepsOfBindings DEF SlotsInv

LEMMA SlotsStep ==
  ASSUME SlotsInv, ScopesInv, [RNext]_rvars
  PROVE  SlotsInv' /\ (Slots!BNext \/ UNCHANGED Slots!bvars)
<1>1. slots \in [Slot -> Content] /\ frames \in Seq(Kept(Slot, Content)) /\ Len(frames) \in Nat
  BY DEF SlotsInv
<1>2. ASSUME NEW kind, EnterPlain(kind) PROVE SlotsInv' /\ UNCHANGED Slots!bvars
  BY <1>2, SlotsStutter DEF EnterPlain
<1>3. ASSUME NEW kind, Enter(kind) PROVE SlotsInv' /\ Slots!BNext
  <2>1. frames' = Append(frames, <<>>) /\ UNCHANGED <<slots, buffered>>
    BY <1>3 DEF Enter
  <2>2. <<>> \in [{} -> Content]
    OBVIOUS
  <2>3. <<>> \in Kept(Slot, Content)
    BY <2>2 DEF Kept
  <2>4. frames' \in Seq(Kept(Slot, Content))
    BY <1>1, <2>1, <2>3
  <2>5. Slots!Open
    BY <1>1, <2>1, PushOpens, MappedOpen
  <2>6. QED BY <1>1, <2>1, <2>4, <2>5, StepsOfBindings DEF SlotsInv, BufferFollowsStdin
<1>4. ASSUME ForkChild PROVE SlotsInv' /\ Slots!BNext
  <2>1. frames' = <<>> /\ UNCHANGED <<slots, buffered>>
    BY <1>4 DEF ForkChild
  <2>2. Stack(slots', frames') = <<>> /\ Base(Slot, slots', frames') = slots
    BY <1>1, <2>1, DropSettles
  <2>3. slots = [d \in Slot |-> Slots!Visible(d)]
    BY <1>1, VisibleIs
  <2>4. Slots!Settle
    BY <2>2, <2>3, MappedSettle
  <2>5. QED BY <1>1, <2>1, <2>4, StepsOfBindings DEF SlotsInv, BufferFollowsStdin
<1>5. ASSUME RedirectRefused \/ RedirectNoop \/ AllApplied \/ ReadAhead PROVE SlotsInv' /\ UNCHANGED Slots!bvars
  BY <1>5, SlotsStutter DEF RedirectRefused, RedirectNoop, AllApplied, ReadAhead
<1>6. ASSUME NEW d \in Slot, InstallFails(d) PROVE SlotsInv' /\ Slots!BNext
  <2>1. Wrote(Slot, Content, slots, slots', d, slots[d])
    BY <1>1, <1>6 DEF InstallFails, Wrote
  <2>2. slots[d] \in Content
    BY <1>1
  <2>3. QED BY <1>6, <2>1, <2>2, ReplaceStep DEF InstallFails, ResetInput
<1>7. ASSUME NEW d \in Slot, NEW v \in Content, RedirectFixed(d, v) PROVE SlotsInv' /\ Slots!BNext
  <2>1. Wrote(Slot, Content, slots, slots', d, v)
    BY <1>1, <1>7 DEF RedirectFixed, Wrote
  <2>2. /\ frames' = Saved(d) /\ (buffered' = buffered \/ buffered' = NoBuffer)
        /\ d = STDIN => buffered' = NoBuffer
    BY <1>7 DEF RedirectFixed, ResetInput
  <2>3. QED BY <2>1, <2>2, ReplaceStep
<1>8. ASSUME NEW v \in Content, NEW assigned \in BOOLEAN, RedirectAllocated(v, assigned)
      PROVE  SlotsInv' /\ Slots!BNext
  <2>1. Allocated \in Slot /\ Allocated # STDIN
    BY <1>8, AllocatedIs DEF RedirectAllocated
  <2>2. UNCHANGED <<frames, buffered>> /\ slots' = [slots EXCEPT ![Allocated] = v]
    BY <1>8 DEF RedirectAllocated
  <2>3. Wrote(Slot, Content, slots, slots', Allocated, v)
    BY <1>1, <2>1, <2>2 DEF Wrote
  <2>4. Slots!Assign(Allocated)
    BY <1>1, <2>1, <2>2, <2>3, WriteAssigns
  <2>5. slots'[STDIN] = slots[STDIN] /\ slots' \in [Slot -> Content]
    BY <2>1, <2>3, StdinIsSlot DEF Wrote
  <2>6. QED BY <1>1, <2>1, <2>2, <2>4, <2>5, StepsOfBindings DEF SlotsInv, BufferFollowsStdin
<1>9. ASSUME CloseNamed PROVE SlotsInv' /\ Slots!BNext
  <2>1. named \in Slot /\ Closed \in Content
    BY <1>9 DEF CloseNamed, Content
  <2>2. Wrote(Slot, Content, slots, slots', named, Closed)
    BY <1>1, <1>9, <2>1 DEF CloseNamed, Wrote
  <2>3. /\ frames' = Saved(named) /\ (buffered' = buffered \/ buffered' = NoBuffer)
        /\ named = STDIN => buffered' = NoBuffer
    BY <1>9 DEF CloseNamed, ResetInput
  <2>4. QED BY <2>1, <2>2, <2>3, ReplaceStep
<1>10. ASSUME NEW retain \in BOOLEAN, CommandEnds(retain)
       PROVE  SlotsInv' /\ (Slots!BNext \/ UNCHANGED Slots!bvars)
  BY <1>10, LeaveStep DEF CommandEnds
<1>11. ASSUME RecoverInteractive PROVE SlotsInv' /\ Slots!BNext
  BY <1>11, RecoverStep
<1>12. ASSUME UNCHANGED rvars PROVE SlotsInv' /\ UNCHANGED Slots!bvars
  BY <1>12, SlotsStutter DEF rvars
<1>13. QED
  BY <1>2, <1>3, <1>4, <1>5, <1>6, <1>7, <1>8, <1>9, <1>10, <1>11, <1>12 DEF RNext
-----------------------------------------------------------------------------
\* The scopes.

LEMMA AppendScope ==
  ASSUME ScopesInv, Len(scopes) < MaxScopes, NEW e \in Scope, e.mark = Len(frames),
         scopes' = Append(scopes, e), NEW f \in Nat, f <= Len(frames) + 1, f = Len(frames')
  PROVE  ScopesInv'
<1>1. scopes \in Seq(Scope) /\ Len(scopes) \in Nat /\ Len(frames) <= Len(scopes)
  BY DEF ScopesInv
<1>2. scopes' \in Seq(Scope) /\ Len(scopes') = Len(scopes) + 1
  BY <1>1
<1>3. ASSUME NEW i \in 1..Len(scopes') PROVE scopes'[i].mark < i
  <2>1. CASE i = Len(scopes) + 1
    <3>1. scopes'[i] = e
      BY <1>1, <2>1
    <3>2. e.mark \in Nat
      BY DEF Scope
    <3>3. QED BY <1>1, <2>1, <3>1, <3>2
  <2>2. CASE i \in 1..Len(scopes)
    <3>1. scopes'[i] = scopes[i]
      BY <1>1, <2>2
    <3>2. QED BY <2>2, <3>1 DEF ScopesInv
  <2>3. QED BY <1>1, <1>2, <2>1, <2>2
<1>4. Len(frames') <= Len(scopes')
  <2>1. Len(frames) \in Nat
    BY DEF Scope
  <2>2. QED BY <1>1, <1>2, <2>1
<1>5. Len(scopes') <= MaxScopes
  BY <1>1, <1>2, RedirectionAssumption
<1>6. QED BY <1>2, <1>3, <1>4, <1>5 DEF ScopesInv

\* The innermost scope changes and stays at its mark.
LEMMA ChangeScope ==
  ASSUME ScopesInv, scopes # <<>>, NEW e \in Scope, e.mark = Top.mark,
         scopes' = [scopes EXCEPT ![Len(scopes)] = e], Len(frames') = Len(frames)
  PROVE  ScopesInv'
<1>1. scopes \in Seq(Scope) /\ Len(scopes) \in Nat
  BY DEF ScopesInv
<1>2. Len(scopes) \in 1..Len(scopes)
  BY <1>1
<1>3. /\ scopes' \in Seq(Scope) /\ Len(scopes') = Len(scopes) /\ scopes'[Len(scopes)] = e
      /\ \A j \in 1..Len(scopes) : j # Len(scopes) => scopes'[j] = scopes[j]
  BY <1>1, <1>2, ReplaceInSeq
<1>4. \A i \in 1..Len(scopes) : scopes'[i].mark = scopes[i].mark
  BY <1>3 DEF Top
<1>5. QED BY <1>3, <1>4 DEF ScopesInv

LEMMA NowChanges ==
  ASSUME ScopesInv, scopes # <<>>, NEW phase \in {"running", "failed"}, Now(phase)
  PROVE  scopes' = [scopes EXCEPT ![Len(scopes)] = [Top EXCEPT !.phase = phase, !.left = 0]]
         /\ [Top EXCEPT !.phase = phase, !.left = 0] \in Scope
         /\ [Top EXCEPT !.phase = phase, !.left = 0].mark = Top.mark
<1>1. Top \in Scope
  BY TopIsScope
<1>2. 0 \in 0..MaxList
  BY RedirectionAssumption
<1>3. [Top EXCEPT !.phase = phase, !.left = 0] \in Scope
         /\ [Top EXCEPT !.phase = phase, !.left = 0].mark = Top.mark
  BY <1>1, <1>2 DEF Scope
<1>4. scopes \in Seq(Scope) /\ Len(scopes) \in 1..Len(scopes)
  BY DEF ScopesInv
<1>5. scopes' = [scopes EXCEPT ![Len(scopes)] = [Top EXCEPT !.phase = phase, !.left = 0]]
  BY <1>4 DEF Now, Top
<1>6. QED BY <1>3, <1>5

LEMMA OneDoneChanges ==
  ASSUME ScopesInv, Opening, OneDone
  PROVE  scopes' = [scopes EXCEPT ![Len(scopes)] = [Top EXCEPT !.left = @ - 1]]
         /\ [Top EXCEPT !.left = @ - 1] \in Scope
         /\ [Top EXCEPT !.left = @ - 1].mark = Top.mark
<1>1. Top \in Scope /\ Top.left > 0
  BY TopIsScope DEF Opening
<1>2. Top.left - 1 \in 0..MaxList
  BY <1>1, RedirectionAssumption DEF Scope
<1>3. [Top EXCEPT !.left = @ - 1] \in Scope /\ [Top EXCEPT !.left = @ - 1].mark = Top.mark
  BY <1>1, <1>2 DEF Scope
<1>4. scopes \in Seq(Scope) /\ Len(scopes) \in 1..Len(scopes)
  BY DEF ScopesInv, Opening
<1>5. scopes' = [scopes EXCEPT ![Len(scopes)] = [Top EXCEPT !.left = @ - 1]]
  BY <1>4 DEF OneDone, Top
<1>6. QED BY <1>3, <1>5

\* A step of a list of redirections keeps the frames' number and changes the
\* innermost scope at most in how far the list has come.
LEMMA ListStep ==
  ASSUME ScopesInv, scopes # <<>>, Len(frames') = Len(frames), Fail \/ Now("running") \/ (Opening /\ OneDone)
  PROVE  ScopesInv'
<1>1. CASE Fail
  BY <1>1, NowChanges, ChangeScope DEF Fail
<1>2. CASE Now("running")
  BY <1>2, NowChanges, ChangeScope
<1>3. CASE Opening /\ OneDone
  BY <1>3, OneDoneChanges, ChangeScope
<1>4. QED BY <1>1, <1>2, <1>3

LEMMA ScopesStutter ==
  ASSUME ScopesInv, UNCHANGED scopes, Len(frames') = Len(frames) \/ Len(frames') = 0 PROVE ScopesInv'
BY DEF ScopesInv

LEMMA LeaveScopes ==
  ASSUME SlotsInv, ScopesInv, NEW retain \in BOOLEAN, Leave(retain) PROVE ScopesInv'
<1>1. scopes \in Seq(Scope) /\ Len(scopes) > 0 /\ frames \in Seq(Kept(Slot, Content)) /\ Len(frames) <= Len(scopes)
  BY DEF ScopesInv, SlotsInv, Leave
<1>2. /\ scopes' \in Seq(Scope) /\ Len(scopes') = Len(scopes) - 1
      /\ \A j \in 1..Len(scopes) - 1 : scopes'[j] = scopes[j]
  BY <1>1, FrontIsSeq DEF Leave
<1>3. Len(scopes') <= MaxScopes /\ \A i \in 1..Len(scopes') : scopes'[i].mark < i
  BY <1>1, <1>2, RedirectionAssumption DEF ScopesInv
<1>4. Top.mark \in Nat /\ Top.mark < Len(scopes)
  BY <1>1, TopIsScope DEF Scope
<1>5. Len(frames') <= Len(scopes')
  <2>1. CASE Len(frames) > Top.mark
    <3>1. Len(frames) > 0 /\ frames' = Shorter
      BY <1>1, <1>4, <2>1 DEF Leave
    <3>2. Len(frames') = Len(frames) - 1
      BY <1>1, <3>1, FrontIsSeq DEF Shorter
    <3>3. QED BY <1>1, <1>2, <3>2
  <2>2. CASE ~(Len(frames) > Top.mark)
    <3>1. frames' = frames
      BY <1>1, <1>4, <2>2 DEF Leave
    <3>2. QED BY <1>1, <1>2, <1>4, <2>2, <3>1
  <2>3. QED BY <2>1, <2>2
<1>6. QED BY <1>2, <1>3, <1>5 DEF ScopesInv

LEMMA ScopesStep ==
  ASSUME SlotsInv, ScopesInv, [RNext]_rvars PROVE ScopesInv'
<1>1. frames \in Seq(Kept(Slot, Content)) /\ slots \in [Slot -> Content] /\ Len(frames) \in Nat
  BY DEF SlotsInv
<1>2. ASSUME NEW d \in Slot PROVE Len(Saved(d)) = Len(frames)
  BY <1>1, SavedIs
<1>3. ASSUME NEW kind \in {"group", "exec", "text"}, EnterPlain(kind) PROVE ScopesInv'
  <2> DEFINE e == [mark |-> Len(frames), owns |-> FALSE, left |-> 0, kind |-> kind, phase |-> "running"]
  <2>1. scopes' = Append(scopes, e) /\ Len(scopes) < MaxScopes /\ Len(frames') = Len(frames)
    BY <1>3 DEF EnterPlain, Room
  <2>2. Len(frames) \in 0..MaxScopes
    BY <1>1, <2>1, RedirectionAssumption DEF ScopesInv
  <2>3. e \in Scope /\ e.mark = Len(frames)
    BY <2>2, RedirectionAssumption DEF Scope
  <2> HIDE DEF e
  <2>4. Len(frames) <= Len(frames) + 1
    BY <1>1
  <2>5. QED BY <1>1, <2>1, <2>3, <2>4, AppendScope
<1>4. ASSUME NEW kind \in {"group", "exec", "text"}, Enter(kind) PROVE ScopesInv'
  <2> DEFINE e == [mark |-> Len(frames), owns |-> TRUE, left |-> MaxList, kind |-> kind, phase |-> "opening"]
  <2>1. scopes' = Append(scopes, e) /\ Len(scopes) < MaxScopes /\ frames' = Append(frames, <<>>)
    BY <1>4 DEF Enter, Room
  <2>2. Len(frames) \in 0..MaxScopes
    BY <1>1, <2>1, RedirectionAssumption DEF ScopesInv
  <2>3. e \in Scope /\ e.mark = Len(frames)
    BY <2>2, RedirectionAssumption DEF Scope
  <2> HIDE DEF e
  <2>4. Len(frames') = Len(frames) + 1
    BY <1>1, <2>1
  <2>5. Len(frames) + 1 \in Nat /\ Len(frames) + 1 <= Len(frames) + 1
    BY <1>1
  <2>6. QED BY <2>1, <2>3, <2>4, <2>5, AppendScope
<1>5. ASSUME ForkChild PROVE ScopesInv'
  <2> DEFINE e == [mark |-> 0, owns |-> FALSE, left |-> MaxList, kind |-> "child", phase |-> "opening"]
  <2>1. scopes' = <<e>> /\ frames' = <<>> /\ Len(scopes) < MaxScopes /\ Len(scopes) \in Nat
    BY <1>5 DEF ForkChild, Room, ScopesInv
  <2>2. e \in Scope /\ e.mark = 0
    BY RedirectionAssumption DEF Scope
  <2> HIDE DEF e
  <2>3. scopes' \in Seq(Scope) /\ Len(scopes') = 1 /\ scopes'[1] = e
    BY <2>1, <2>2
  <2>4. 1 <= MaxScopes
    BY <2>1, RedirectionAssumption
  <2>5. QED BY <2>1, <2>2, <2>3, <2>4 DEF ScopesInv
<1>6. ASSUME RedirectRefused \/ RedirectNoop PROVE ScopesInv'
  BY <1>6, ListStep DEF RedirectRefused, RedirectNoop, Opening
<1>7. ASSUME CloseNamed PROVE ScopesInv'
  BY <1>2, <1>7, ListStep DEF CloseNamed, Opening
<1>8. ASSUME AllApplied PROVE ScopesInv'
  BY <1>8, ListStep DEF AllApplied
<1>9. ASSUME NEW d \in Slot, InstallFails(d) PROVE ScopesInv'
  BY <1>2, <1>9, ListStep DEF InstallFails, Opening
<1>10. ASSUME NEW d \in Slot, NEW v \in Content, RedirectFixed(d, v) PROVE ScopesInv'
  BY <1>2, <1>10, ListStep DEF RedirectFixed, Opening
<1>11. ASSUME NEW v \in Content, NEW assigned \in BOOLEAN, RedirectAllocated(v, assigned) PROVE ScopesInv'
  BY <1>11, ListStep DEF RedirectAllocated, Opening
<1>12. ASSUME NEW retain \in BOOLEAN, CommandEnds(retain) PROVE ScopesInv'
  BY <1>12, LeaveScopes DEF CommandEnds
<1>13. ASSUME RecoverInteractive PROVE ScopesInv'
  BY <1>13, ScopesStutter DEF RecoverInteractive
<1>14. ASSUME ReadAhead \/ UNCHANGED rvars PROVE ScopesInv'
  BY <1>14, ScopesStutter DEF ReadAhead, rvars
<1>15. QED
  BY <1>3, <1>4, <1>5, <1>6, <1>7, <1>8, <1>9, <1>10, <1>11, <1>12, <1>13, <1>14 DEF RNext

-----------------------------------------------------------------------------
\* The theorems.

LEMMA InitRedirection == ASSUME RInit PROVE RInv /\ Slots!BInit
<1>1. /\ slots = [d \in Slot |-> IF d < 3 THEN Terminal ELSE Closed]
      /\ frames = <<>> /\ scopes = <<>> /\ named = NoSlot /\ buffered = NoBuffer /\ panicked = FALSE
  BY DEF RInit
<1>2. slots \in [Slot -> Content]
  BY <1>1 DEF Content
<1>3. frames \in Seq(Kept(Slot, Content)) /\ scopes \in Seq(Scope) /\ Len(frames) = 0 /\ Len(scopes) = 0
  BY <1>1
<1>4. RInv
  <2>1. SlotsInv
    BY <1>1, <1>2, <1>3 DEF SlotsInv, BufferFollowsStdin
  <2>2. ScopesInv
    <3>1. \A i \in 1..Len(scopes) : scopes[i].mark < i
      BY <1>3
    <3>2. QED BY <1>3, <3>1, RedirectionAssumption DEF ScopesInv
  <2>3. QED BY <1>1, <2>1, <2>2 DEF RInv
<1>5. Base(Slot, slots, frames) \in [Slot -> Content]
  BY <1>2, <1>3, BaseType
<1>6. Stack(slots, frames) = <<>>
  BY <1>3 DEF Stack
<1>7. QED BY <1>4, <1>5, <1>6, MappedInit

LEMMA StepRedirection == ASSUME RInv, [RNext]_rvars PROVE RInv' /\ (Slots!BNext \/ UNCHANGED Slots!bvars)
<1>1. SlotsInv' /\ (Slots!BNext \/ UNCHANGED Slots!bvars) /\ ScopesInv'
  BY SlotsStep, ScopesStep DEF RInv
<1>2. named' \in Slot \cup {NoSlot}
  <2>1. \A v, assigned : RedirectAllocated(v, assigned) => named' = named \/ named' \in Slot
    BY AllocatedIs DEF RedirectAllocated
  <2>2. named' = named \/ named' \in Slot
    BY <2>1 DEF RNext, rvars, EnterPlain, Enter, ForkChild, RedirectRefused, RedirectNoop, CloseNamed,
       AllApplied, InstallFails, RedirectFixed, CommandEnds, Leave, RecoverInteractive, ReadAhead
  <2>3. QED BY <2>2 DEF RInv
<1>3. panicked' \in BOOLEAN
  BY DEF RInv, RNext, rvars, EnterPlain, Enter, ForkChild, RedirectRefused, RedirectNoop, CloseNamed,
     AllApplied, InstallFails, RedirectFixed, RedirectAllocated, CommandEnds, Leave, RecoverInteractive, ReadAhead
<1>4. buffered' \in Content \cup {NoBuffer}
  BY <1>1, StdinIsSlot DEF SlotsInv, BufferFollowsStdin
<1>5. QED BY <1>1, <1>2, <1>3, <1>4 DEF RInv

LEMMA RInvTypes == ASSUME RInv PROVE RTypeOK
<1>1. frames \in Seq(Kept(Slot, Content)) /\ scopes \in Seq(Scope)
  BY DEF RInv, SlotsInv, ScopesInv
<1>2. \A i \in DOMAIN frames : frames[i] \in Kept(Slot, Content)
  BY <1>1
<1>3. \A i \in DOMAIN frames : DOMAIN frames[i] \subseteq Slot /\ \A d \in DOMAIN frames[i] : frames[i][d] \in Content
  BY <1>2 DEF Kept
<1>4. \A i \in DOMAIN scopes : scopes[i] \in Scope
  BY <1>1
<1>5. QED BY <1>3, <1>4 DEF RTypeOK, RInv, SlotsInv

\* resource.rs, redirection.rs: frames save known slots, and every scope in
\* evaluation is one of the commands the bounds allow.
THEOREM RedirectionsAreTyped == RSpec => []RTypeOK
<1>1. RInit => RInv
  BY InitRedirection
<1>2. RInv /\ [RNext]_rvars => RInv'
  BY StepRedirection
<1>3. RInv => RTypeOK
  BY RInvTypes
<1>4. QED BY <1>1, <1>2, <1>3, PTL DEF RSpec

\* redirection.rs:255, 786 and 900: however redirections, restorations, children
\* and reads ahead alternate, bytes the parser has buffered come from what
\* standard input is now.
THEOREM BufferIsStdins == RSpec => []BufferFollowsStdin
<1>1. RInit => RInv
  BY InitRedirection
<1>2. RInv /\ [RNext]_rvars => RInv'
  BY StepRedirection
<1>3. RInv => BufferFollowsStdin
  BY DEF RInv, SlotsInv
<1>4. QED BY <1>1, <1>2, <1>3, PTL DEF RSpec

\* redirection.rs: frames of saved values implement scoped environments, so that
\* leaving a scope, on any way out, forgets what it redirected and nothing else.
THEOREM FramesAreScopes == RSpec => RedirectionsAreScoped
<1>1. RInit => RInv /\ Slots!BInit
  BY InitRedirection
<1>2. RInv /\ [RNext]_rvars => RInv' /\ [Slots!BNext]_(Slots!bvars)
  BY StepRedirection
<1>3. QED BY <1>1, <1>2, PTL DEF RSpec, RedirectionsAreScoped, Slots!BSpec

-----------------------------------------------------------------------------
\* The file opened under noclobber.

\* What was opened and is about to be looked at is something.
OpenedSomething == \A s \in Shells : stage[s] = "fstat" => held[s] # Vacant

LockInv == NCTypeOK /\ OpenedSomething /\ NothingIsClobbered

LEMMA InitLock == ASSUME NCInit PROVE LockInv
  BY DEF NCInit, LockInv, NCTypeOK, OpenedSomething, NothingIsClobbered, Stage, Regular, Vacant, Special

LEMMA StepLock == ASSUME LockInv, [NCNext]_nvars PROVE LockInv'
  <1> USE NoClobberAssumption DEF LockInv, NCTypeOK, OpenedSomething, NothingIsClobbered, Stage, Regular, Vacant, Special, Goto
  <1>1. ASSUME NEW s \in Shells, TestExists(s) PROVE LockInv'
    BY <1>1 DEF TestExists
  <1>2. ASSUME NEW s \in Shells, CreateExclusive(s) PROVE LockInv'
    <2>1. CASE path = Vacant
      BY <1>2, <2>1 DEF CreateExclusive
    <2>2. CASE path # Vacant
      BY <1>2, <2>2 DEF CreateExclusive
    <2>3. QED BY <2>1, <2>2
  <1>3. ASSUME NEW s \in Shells, TestIsFile(s) PROVE LockInv'
    BY <1>3 DEF TestIsFile
  <1>4. ASSUME NEW s \in Shells, OpenExisting(s) PROVE LockInv'
    BY <1>4 DEF OpenExisting
  <1>5. ASSUME NEW s \in Shells, CheckOpened(s) PROVE LockInv'
    BY <1>5 DEF CheckOpened
  <1>6. ASSUME NEW s \in Shells, Again(s) PROVE LockInv'
    BY <1>6 DEF Again
  <1>7. ASSUME NEW s \in Shells, Unlock(s) PROVE LockInv'
    BY <1>7 DEF Unlock
  <1>8. CASE Meddle
    BY <1>8 DEF Meddle
  <1>9. CASE UNCHANGED nvars
    BY <1>9 DEF nvars
  <1>10. QED BY <1>1, <1>2, <1>3, <1>4, <1>5, <1>6, <1>7, <1>8, <1>9 DEF NCNext

\* Under noclobber a shell holds what it created itself or a special file, and what it created is at the
\* path as long as it holds it (redirection.rs, open_file_redirection).
THEOREM LockHasOneHolder == NCSpec => []NothingIsClobbered
  <1>1. NCInit => LockInv BY InitLock
  <1>2. LockInv /\ [NCNext]_nvars => LockInv' BY StepLock
  <1>3. LockInv => NothingIsClobbered BY DEF LockInv
  <1>4. QED BY <1>1, <1>2, <1>3, PTL DEF NCSpec

-----------------------------------------------------------------------------
(* Variables: what a callback was told last is what its variable holds. *)

SavedEntry == [name : Names, previous : Entry]

\* Tables in which every callback knows its variable.
CallbacksKnow(t) == \A n \in Names : t.entries[n].callback => t.cache[n] = t.entries[n].val
HonestTable == {t \in [entries : [Names -> Entry], cache : [Names -> Value]] : CallbacksKnow(t)}

Activation == [kind : {"function", "command"}, mark : Nat]

CacheInv ==
  /\ Table \in HonestTable
  /\ locals \in Seq(Seq(SavedEntry))
  /\ calls \in Seq(Activation)

\* Putting one saved entry back tells its callback.
LEMMA PutBackTells ==
  ASSUME NEW s \in SavedEntry, NEW t \in HonestTable
  PROVE  PutBack(s, t) \in HonestTable
<1> DEFINE n == s.name
           told == IF s.previous # Absent
                   THEN IF s.previous.callback THEN s.previous.val ELSE t.cache[n]
                   ELSE IF t.entries[n].callback /\ FreshCallback(n) THEN 0 ELSE t.cache[n]
<1>1. n \in Names /\ s.previous \in Entry /\ t.entries \in [Names -> Entry] /\ t.cache \in [Names -> Value]
  BY DEF SavedEntry, HonestTable
<1>2. 0 \in Value /\ s.previous.val \in Value /\ s.previous.callback \in BOOLEAN
  BY <1>1, VariablesAssumption DEF Value, Entry
<1>3. told \in Value
  BY <1>1, <1>2
<1>4. s.previous.callback => told = s.previous.val
  BY DEF Absent
<1>5. PutBack(s, t) = [entries |-> [t.entries EXCEPT ![n] = s.previous], cache |-> [t.cache EXCEPT ![n] = told]]
  BY DEF PutBack
<1> HIDE DEF told, n
<1>6. CallbacksKnow(PutBack(s, t))
  <2> SUFFICES ASSUME NEW m \in Names, PutBack(s, t).entries[m].callback
               PROVE  PutBack(s, t).cache[m] = PutBack(s, t).entries[m].val
    BY DEF CallbacksKnow
  <2>1. CASE m = n
    BY <1>1, <1>4, <1>5, <2>1
  <2>2. CASE m # n
    BY <1>1, <1>5, <2>2 DEF HonestTable, CallbacksKnow
  <2> QED BY <2>1, <2>2
<1> QED BY <1>1, <1>3, <1>5, <1>6 DEF HonestTable

\* The tables a frame of any length is popped through, from the newest entry back.
PutsBack(g, frame, t) ==
    g[0] = t /\ \A i \in 1..Len(frame) : g[i] = PutBack(frame[Len(frame) + 1 - i], g[i - 1])

LEMMA PoppedSteps ==
  ASSUME NEW frame \in Seq(SavedEntry), NEW t \in HonestTable
  PROVE  \E g \in [0..Len(frame) -> HonestTable] : PutsBack(g, frame, t) /\ Popped(frame, t) = g[Len(frame)]
<1> DEFINE n == Len(frame)
           F == [i \in 1..n |-> [x \in HonestTable |-> PutBack(frame[n + 1 - i], x)]]
           left == CHOOSE g : g = [i \in 0..n |-> IF i = 0 THEN t ELSE PutBack(frame[n + 1 - i], g[i - 1])]
<1>1. n \in Nat /\ \A i \in 1..n : frame[n + 1 - i] \in SavedEntry
  OBVIOUS
<1>2. F \in [1..n -> [HonestTable -> HonestTable]]
  BY <1>1, PutBackTells
<1>3. PICK g \in [0..n -> HonestTable] : Iterates(g, t, F, n)
  <2> HIDE DEF F, left, n
  <2> QED BY <1>1, <1>2, IterationExists
<1>4. g = [i \in 0..n |-> IF i = 0 THEN t ELSE PutBack(frame[n + 1 - i], g[i - 1])]
  <2>1. ASSUME NEW i \in 0..n, i # 0 PROVE F[i][g[i - 1]] = PutBack(frame[n + 1 - i], g[i - 1])
    <3>1. i \in 1..n /\ i - 1 \in 0..n
      BY <1>1, <2>1
    <3>2. g[i - 1] \in HonestTable
      BY <1>3, <3>1
    <3> QED BY <3>1, <3>2
  <2>2. ASSUME NEW i \in 0..n PROVE g[i] = IF i = 0 THEN t ELSE PutBack(frame[n + 1 - i], g[i - 1])
    <3>1. i # 0 => i \in 1..n
      BY <1>1
    <3> HIDE DEF F, n
    <3> QED BY <1>3, <2>1, <3>1 DEF Iterates
  <2> HIDE DEF F, n
  <2> QED BY <2>2
<1>5. left = [i \in 0..n |-> IF i = 0 THEN t ELSE PutBack(frame[n + 1 - i], left[i - 1])]
  BY <1>4
<1>6. Popped(frame, t) = left[n]
  BY DEF Popped
<1> HIDE DEF left, F, n
<1>7. left[0] \in HonestTable /\ \A i \in 1..n : left[i - 1] \in HonestTable => left[i] \in HonestTable
  BY <1>1, <1>5, PutBackTells
<1>8. \A i \in 0..n : left[i] \in HonestTable
  BY <1>1, <1>7, StepwiseIn
<1>9. left \in [0..n -> HonestTable]
  BY <1>5, <1>8
<1>10. PutsBack(left, frame, t)
  <2>1. left[0] = t
    BY <1>1, <1>5
  <2>2. \A i \in 1..n : left[i] = PutBack(frame[n + 1 - i], left[i - 1])
    BY <1>1, <1>5
  <2> QED BY <2>1, <2>2 DEF PutsBack, n
<1> QED BY <1>6, <1>9, <1>10 DEF n

\* Popping a frame tells its callbacks.
LEMMA PoppedTells ==
  ASSUME NEW frame \in Seq(SavedEntry), NEW t \in HonestTable
  PROVE  Popped(frame, t) \in HonestTable
BY PoppedSteps

\* Recovery pops all of them, from the innermost out.
Pops(g, lists, t) ==
    g[0] = t /\ \A i \in 1..Len(lists) : g[i] = Popped(lists[Len(lists) + 1 - i], g[i - 1])

LEMMA RecoveredSteps ==
  ASSUME NEW lists \in Seq(Seq(SavedEntry)), NEW t \in HonestTable
  PROVE  \E g \in [0..Len(lists) -> HonestTable] : Pops(g, lists, t) /\ Unwound(lists, t) = g[Len(lists)]
<1> DEFINE n == Len(lists)
           F == [i \in 1..n |-> [x \in HonestTable |-> Popped(lists[n + 1 - i], x)]]
           left == CHOOSE g : g = [i \in 0..n |-> IF i = 0 THEN t ELSE Popped(lists[n + 1 - i], g[i - 1])]
<1>1. n \in Nat /\ \A i \in 1..n : lists[n + 1 - i] \in Seq(SavedEntry)
  OBVIOUS
<1>2. F \in [1..n -> [HonestTable -> HonestTable]]
  BY <1>1, PoppedTells
<1>3. PICK g \in [0..n -> HonestTable] : Iterates(g, t, F, n)
  <2> HIDE DEF F, left, n
  <2> QED BY <1>1, <1>2, IterationExists
<1>4. g = [i \in 0..n |-> IF i = 0 THEN t ELSE Popped(lists[n + 1 - i], g[i - 1])]
  <2>1. ASSUME NEW i \in 0..n, i # 0 PROVE F[i][g[i - 1]] = Popped(lists[n + 1 - i], g[i - 1])
    <3>1. i \in 1..n /\ i - 1 \in 0..n
      BY <1>1, <2>1
    <3>2. g[i - 1] \in HonestTable
      BY <1>3, <3>1
    <3> QED BY <3>1, <3>2
  <2>2. ASSUME NEW i \in 0..n PROVE g[i] = IF i = 0 THEN t ELSE Popped(lists[n + 1 - i], g[i - 1])
    <3>1. i # 0 => i \in 1..n
      BY <1>1
    <3> HIDE DEF F, n
    <3> QED BY <1>3, <2>1, <3>1 DEF Iterates
  <2> HIDE DEF F, n
  <2> QED BY <2>2
<1>5. left = [i \in 0..n |-> IF i = 0 THEN t ELSE Popped(lists[n + 1 - i], left[i - 1])]
  BY <1>4
<1>6. Unwound(lists, t) = left[n]
  BY DEF Unwound
<1> HIDE DEF left, F, n
<1>7. left[0] \in HonestTable /\ \A i \in 1..n : left[i - 1] \in HonestTable => left[i] \in HonestTable
  BY <1>1, <1>5, PoppedTells
<1>8. \A i \in 0..n : left[i] \in HonestTable
  BY <1>1, <1>7, StepwiseIn
<1>9. left \in [0..n -> HonestTable]
  BY <1>5, <1>8
<1>10. Pops(left, lists, t)
  <2>1. left[0] = t
    BY <1>1, <1>5
  <2>2. \A i \in 1..n : left[i] = Popped(lists[n + 1 - i], left[i - 1])
    BY <1>1, <1>5
  <2> QED BY <2>1, <2>2 DEF Pops, n
<1> QED BY <1>6, <1>9, <1>10 DEF n

LEMMA RecoveredTells ==
  ASSUME NEW lists \in Seq(Seq(SavedEntry)), NEW t \in HonestTable
  PROVE  Unwound(lists, t) \in HonestTable
<1>1. Len(lists) \in Nat /\ Len(lists) \in 0..Len(lists)
  OBVIOUS
<1> QED BY <1>1, RecoveredSteps

\* What set_entry leaves behind is an entry, and its callback was told of it.
LEMMA SetTells ==
  ASSUME CacheInv, NEW n \in Names, NEW v \in Value, NEW attrs \in [readonly : BOOLEAN, fixed : BOOLEAN],
         SetEntry(n, v, attrs)
  PROVE  Table' \in HonestTable
<1> DEFINE after == AfterSet(n, v, attrs)
<1>1. entries \in [Names -> Entry] /\ cache \in [Names -> Value] /\ CallbacksKnow(Table)
  BY DEF CacheInv, HonestTable, Table
<1>2. 0 \in Value
  BY VariablesAssumption DEF Value
<1>3. entries[n].callback \in BOOLEAN /\ entries[n].readonly \in BOOLEAN /\ entries[n].fixed \in BOOLEAN
  BY <1>1 DEF Entry
<1>4. after \in Entry
  <2>1. Joined(n, attrs) \in [readonly : BOOLEAN, fixed : BOOLEAN]
    BY <1>3 DEF Joined
  <2>2. FreshCallback(n) \in BOOLEAN
    BY DEF FreshCallback
  <2>3. \A w \in Value, a \in [readonly : BOOLEAN, fixed : BOOLEAN], c \in BOOLEAN : Make(w, a, c) \in Entry
    BY DEF Make, Entry
  <2>4. Absent \in Entry /\ Plain \in [readonly : BOOLEAN, fixed : BOOLEAN]
        /\ [Plain EXCEPT !.fixed = TRUE] \in [readonly : BOOLEAN, fixed : BOOLEAN]
    BY <1>2 DEF Absent, Entry, Plain
  <2> QED BY <1>2, <1>3, <2>1, <2>2, <2>3, <2>4 DEF AfterSet
<1>5. entries' = [entries EXCEPT ![n] = after] /\ cache' = Told(n, v, attrs)
  BY DEF SetEntry
<1>6. cache' \in [Names -> Value] /\ (after.callback => cache'[n] = after.val)
      /\ \A m \in Names \ {n} : cache'[m] = cache[m]
  <2> HIDE DEF after
  <2>1. after.val \in Value
    BY <1>4 DEF Entry
  <2>2. CASE after = Absent
    <3>1. ~after.callback
      BY <2>2 DEF Absent
    <3>2. cache' = IF Present(n) /\ entries[n].callback /\ FreshCallback(n)
                   THEN [cache EXCEPT ![n] = 0] ELSE cache
      BY <1>5, <2>2 DEF Told, after
    <3> QED BY <1>1, <1>2, <3>1, <3>2
  <2>3. CASE after # Absent
    <3>1. cache' = IF after.callback THEN [cache EXCEPT ![n] = after.val] ELSE cache
      BY <1>5, <2>3 DEF Told, after
    <3> QED BY <1>1, <2>1, <3>1
  <2> QED BY <2>2, <2>3
<1> HIDE DEF after
<1>7. CallbacksKnow(Table')
  <2> SUFFICES ASSUME NEW m \in Names, entries'[m].callback PROVE cache'[m] = entries'[m].val
    BY DEF CallbacksKnow, Table
  <2>1. CASE m = n
    BY <1>1, <1>5, <1>6, <2>1
  <2>2. CASE m # n
    BY <1>1, <1>5, <1>6, <2>2 DEF CallbacksKnow, Table
  <2> QED BY <2>1, <2>2
<1> QED BY <1>1, <1>4, <1>5, <1>6, <1>7 DEF HonestTable, Table

\* Saving an entry into a frame leaves frames of saved entries.
LEMMA SaveKeepsFrames ==
  ASSUME CacheInv, NEW f \in DOMAIN locals, NEW n \in Names
  PROVE  Save(f, n) \in Seq(Seq(SavedEntry))
<1>1. [name |-> n, previous |-> entries[n]] \in SavedEntry
  BY DEF CacheInv, HonestTable, Table, SavedEntry
<1>2. locals \in Seq(Seq(SavedEntry)) /\ locals[f] \in Seq(SavedEntry)
  BY DEF CacheInv
<1>3. Append(locals[f], [name |-> n, previous |-> entries[n]]) \in Seq(SavedEntry)
  BY <1>1, <1>2
<1> QED BY <1>2, <1>3 DEF Save

\* The table, the frames and the activations stay what they are.
LEMMA CacheInvHolds == VSpec => []CacheInv
<1>1. VInit => CacheInv
  <2> SUFFICES ASSUME VInit PROVE CacheInv
    OBVIOUS
  <2>1. 0 \in Value /\ 1 \in Value
    BY VariablesAssumption DEF Value
  <2>2. entries \in [Names -> Entry]
    BY <2>1 DEF VInit, Absent, Entry
  <2>3. \A n \in Names : entries[n].val \in Value
    BY <2>2 DEF Entry
  <2>4. cache \in [Names -> Value] /\ CallbacksKnow(Table)
    BY <2>3 DEF VInit, CallbacksKnow, Table
  <2>5. locals \in Seq(Seq(SavedEntry))
    BY DEF VInit
  <2>6. calls \in Seq(Activation)
    BY DEF VInit
  <2> QED BY <2>2, <2>4, <2>5, <2>6 DEF CacheInv, HonestTable, Table
<1>2. CacheInv /\ [VNext]_vvars => CacheInv'
  <2> SUFFICES ASSUME CacheInv, [VNext]_vvars PROVE CacheInv'
    OBVIOUS
  <2> DEFINE A == [readonly : BOOLEAN, fixed : BOOLEAN]
  <2>1. 0 \in Value /\ Plain \in A /\ ReadOnly \in A /\ [Plain EXCEPT !.fixed = TRUE] \in A
    <3>1. 0 \in Value
      BY VariablesAssumption DEF Value
    <3>2. Plain \in A
      BY DEF Plain
    <3>3. [Plain EXCEPT !.fixed = TRUE] \in A /\ [Plain EXCEPT !.readonly = TRUE] \in A
      BY <3>2
    <3> QED BY <3>1, <3>2, <3>3 DEF ReadOnly
  <2>2. locals \in Seq(Seq(SavedEntry)) /\ Table \in HonestTable
        /\ entries \in [Names -> Entry] /\ cache \in [Names -> Value]
    BY DEF CacheInv, HonestTable, Table
  <2> HIDE DEF A
  <2>3. ASSUME NEW n \in Names, NEW v \in Value \ {0}, Assign(n, v) PROVE CacheInv'
    <3>1. Table' \in HonestTable
      BY <2>1, <2>3, SetTells DEF Assign, A
    <3> QED BY <2>2, <2>3, <3>1 DEF Assign, CacheInv
  <2>4. ASSUME NEW n \in Names, NEW v \in Value, Local(n, v) PROVE CacheInv'
    <3>1. locals' \in Seq(Seq(SavedEntry))
      BY <2>4, SaveKeepsFrames DEF Local, CanSave
    <3>2. CASE Present(n) /\ (v = 0 \/ Refused(n))
      BY <2>2, <2>4, <3>1, <3>2 DEF Local, CacheInv, Table
    <3>3. CASE ~(Present(n) /\ (v = 0 \/ Refused(n)))
      <4> DEFINE attrs == IF Present(n) THEN Plain ELSE [Plain EXCEPT !.fixed = TRUE]
      <4>1. attrs \in A /\ SetEntry(n, v, attrs)
        BY <2>1, <2>4, <3>3 DEF Local
      <4> HIDE DEF attrs
      <4>2. Table' \in HonestTable
        BY <4>1, SetTells DEF A
      <4> QED BY <2>4, <3>1, <4>2 DEF CacheInv, Local
    <3> QED BY <3>2, <3>3
  <2>5. ASSUME NEW n \in Names, NEW v \in Value, Declare(n, v) PROVE CacheInv'
    <3>1. locals' \in Seq(Seq(SavedEntry))
      BY <2>5, SaveKeepsFrames DEF Declare, CanSave
    <3>2. PICK c \in BOOLEAN : /\ entries' = [entries EXCEPT ![n] = Make(v, Plain, c)]
                               /\ cache' = IF c THEN [cache EXCEPT ![n] = v] ELSE cache
      <4>1. entries[n].callback \in BOOLEAN
        BY <2>2 DEF Entry
      <4>2. entries' = [entries EXCEPT ![n] = Make(v, Plain, IF Present(n) THEN entries[n].callback ELSE FALSE)]
        BY <2>2, <2>5 DEF Declare
      <4>3. cache' = IF entries'[n].callback THEN [cache EXCEPT ![n] = v] ELSE cache
        BY <2>5 DEF Declare
      <4>4. entries'[n].callback = IF Present(n) THEN entries[n].callback ELSE FALSE
        BY <2>2, <4>2 DEF Make
      <4> QED BY <4>1, <4>2, <4>3, <4>4
    <3>3. Make(v, Plain, c) \in Entry /\ Make(v, Plain, c).val = v /\ Make(v, Plain, c).callback = c
      BY DEF Make, Entry, Plain
    <3>4. entries' \in [Names -> Entry] /\ cache' \in [Names -> Value]
      BY <2>2, <3>2, <3>3
    <3>5. \A m \in Names : entries'[m].callback => cache'[m] = entries'[m].val
      <4> SUFFICES ASSUME NEW m \in Names, entries'[m].callback PROVE cache'[m] = entries'[m].val
        OBVIOUS
      <4>1. CASE m = n
        BY <2>2, <3>2, <3>3, <4>1
      <4>2. CASE m # n
        BY <2>2, <3>2, <4>2 DEF HonestTable, CallbacksKnow, Table
      <4> QED BY <4>1, <4>2
    <3> QED BY <2>5, <3>1, <3>4, <3>5 DEF Declare, CacheInv, HonestTable, CallbacksKnow, Table
  <2>6. ASSUME NEW n \in Names, Mark(n, ReadOnly) PROVE CacheInv'
    <3>1. CASE Present(n)
      <4>1. entries[n] \in Entry
        BY <2>2
      <4>2. Make(entries[n].val, Joined(n, ReadOnly), entries[n].callback) \in Entry
        BY <4>1 DEF Make, Joined, ReadOnly, Plain, Entry
      <4>3. entries' = [entries EXCEPT ![n] = Make(entries[n].val, Joined(n, ReadOnly), entries[n].callback)]
            /\ cache' = cache /\ locals' = locals /\ calls' = calls
        BY <2>2, <2>6, <3>1 DEF Mark
      <4>4. \A m \in Names : entries'[m].val = entries[m].val /\ entries'[m].callback = entries[m].callback
        BY <2>2, <4>3 DEF Make
      <4> QED BY <2>2, <4>2, <4>3, <4>4 DEF CacheInv, HonestTable, CallbacksKnow, Table
    <3>2. CASE ~Present(n)
      <4>1. Table' \in HonestTable
        BY <2>1, <2>6, <3>2, SetTells DEF Mark, A
      <4> QED BY <2>2, <2>6, <4>1 DEF Mark, CacheInv
    <3> QED BY <3>1, <3>2
  <2>7. ASSUME NEW n \in Names, Unset(n) PROVE CacheInv'
    <3>1. Table' \in HonestTable
      BY <2>1, <2>7, SetTells DEF Unset, A
    <3> QED BY <2>2, <2>7, <3>1 DEF Unset, CacheInv
  <2>8. ASSUME NEW kind \in {"function", "command"}, Call(kind) PROVE CacheInv'
    <3>1. locals' = Append(locals, <<>>) /\ Table' = Table
      BY <2>8 DEF Call, Starts, Table
    <3>2. <<>> \in Seq(SavedEntry)
      OBVIOUS
    <3>3. calls' \in Seq(Activation)
      BY <2>2, <2>8 DEF Call, Starts, Activation, CacheInv
    <3> QED BY <2>2, <3>1, <3>2, <3>3 DEF CacheInv
  <2>9. ASSUME NEW kind \in {"function", "command"}, NEW n \in Names, NEW v \in Value \ {0}, CallWith(kind, n, v)
        PROVE  CacheInv'
    <3> DEFINE attrs == IF Present(n) THEN Plain ELSE [Plain EXCEPT !.fixed = TRUE]
               saved == [name |-> n, previous |-> entries[n]]
    <3>1. attrs \in A /\ SetEntry(n, v, attrs) /\ locals' = Append(locals, <<saved>>)
      BY <2>1, <2>9 DEF CallWith, Starts
    <3>2. saved \in SavedEntry
      BY <2>2 DEF SavedEntry
    <3> HIDE DEF attrs, saved
    <3>3. Table' \in HonestTable
      BY <3>1, SetTells DEF A
    <3>4. <<saved>> \in Seq(SavedEntry)
      BY <3>2
    <3>5. calls' \in Seq(Activation)
      BY <2>2, <2>9 DEF CallWith, Starts, Activation, CacheInv
    <3> QED BY <2>2, <3>1, <3>3, <3>4, <3>5 DEF CacheInv
  <2>10. CASE Return
    <3>1. CASE Len(locals) > calls[Len(calls)].mark
      <4> DEFINE after == Popped(locals[Len(locals)], Table)
      <4>1. entries' = after.entries /\ cache' = after.cache /\ locals' = SubSeq(locals, 1, Len(locals) - 1)
        BY <2>10, <3>1 DEF Return
      <4> HIDE DEF after
      <4>2. Len(locals) \in DOMAIN locals
        <5>1. calls \in Seq(Activation) /\ calls # <<>>
          BY <2>10 DEF Return, CacheInv
        <5>2. calls[Len(calls)].mark \in Nat
          <6>1. Len(calls) \in DOMAIN calls
            BY <5>1
          <6>2. calls[Len(calls)] \in Activation
            BY <5>1, <6>1
          <6> QED BY <6>2 DEF Activation
        <5> QED BY <2>2, <3>1, <5>2
      <4>3. after \in HonestTable
        BY <2>2, <4>2, PoppedTells DEF after
      <4>4. Table' = after
        BY <4>1, <4>3 DEF HonestTable, Table
      <4>5. locals' \in Seq(Seq(SavedEntry)) /\ calls' \in Seq(Activation)
        BY <2>2, <2>10, <4>1, <4>2, FrontIsSeq DEF Return, CacheInv
      <4> QED BY <4>3, <4>4, <4>5 DEF CacheInv
    <3>2. CASE ~(Len(locals) > calls[Len(calls)].mark)
      <4>1. calls' \in Seq(Activation)
        BY <2>10, FrontIsSeq DEF Return, CacheInv
      <4> QED BY <2>2, <2>10, <3>2, <4>1 DEF Return, CacheInv, Table
    <3> QED BY <3>1, <3>2
  <2>11. CASE Recover
    <3> DEFINE after == Unwound(locals, Table)
    <3>1. entries' = after.entries /\ cache' = after.cache /\ locals' = <<>>
      BY <2>11 DEF Recover
    <3>2. after \in HonestTable
      BY <2>2, RecoveredTells
    <3> HIDE DEF after
    <3>3. Table' = after
      BY <3>1, <3>2 DEF HonestTable, Table
    <3> QED BY <2>11, <3>1, <3>2, <3>3 DEF Recover, CacheInv
  <2>12. CASE UNCHANGED vvars
    BY <2>2, <2>12 DEF vvars, CacheInv, Table
  <2> QED BY <2>3, <2>4, <2>5, <2>6, <2>7, <2>8, <2>9, <2>10, <2>11, <2>12 DEF VNext
<1> QED BY <1>1, <1>2, PTL DEF VSpec

\* variables.rs:508: a cache that depends on a variable agrees with the variable
\* as long as the entry carries its callback, through locals, unset and recovery.
THEOREM CachesFollow == VSpec => []CacheFollowsValue
<1>1. CacheInv => CacheFollowsValue
  BY DEF CacheInv, HonestTable, CallbacksKnow, Table, CacheFollowsValue
<1> QED BY <1>1, CacheInvHolds, PTL

-----------------------------------------------------------------------------
(* Variables: frames of saved entries are the scopes of Bindings.            *)

\* The frame of slots that a list of saved entries is, and all of them.
KeptBy(q) == [n \in {m \in Names : SavedIn(q, m)} |-> Oldest(q, n)]
Keeps(l) == [j \in 1..Len(l) |-> KeptBy(l[j])]

\* The oldest of the entries saved for a name, where they are.
LEMMA OldestIs ==
  ASSUME NEW q \in Seq(SavedEntry), NEW i \in DOMAIN q,
         \A j \in DOMAIN q : q[j].name = q[i].name => i <= j
  PROVE  Oldest(q, q[i].name) = q[i].previous
<1> DEFINE saves == {j \in DOMAIN q : q[j].name = q[i].name}
           first == CHOOSE j \in saves : \A k \in saves : j <= k
<1>1. first \in saves /\ \A k \in saves : first <= k
  OBVIOUS
<1>2. first = i
  BY <1>1
<1>3. Oldest(q, q[i].name) = q[first].previous
  BY DEF Oldest
<1> QED BY <1>2, <1>3

LEMMA OldestExists ==
  ASSUME NEW q \in Seq(SavedEntry), NEW n, SavedIn(q, n)
  PROVE  \E i \in DOMAIN q : q[i].name = n /\ (\A j \in DOMAIN q : q[j].name = n => i <= j)
                             /\ Oldest(q, n) = q[i].previous
<1> DEFINE saves == {j \in DOMAIN q : q[j].name = n}
<1>1. saves \in SUBSET Nat /\ saves # {}
  BY DEF SavedIn
<1>2. PICK i \in saves : \A j \in saves : i <= j
  <2> HIDE DEF saves
  <2> QED BY <1>1, LeastExists
<1>3. Oldest(q, n) = q[i].previous
  BY <1>2, OldestIs
<1> QED BY <1>2, <1>3

\* A list of saved entries keeps names with entries.
LEMMA KeptByType ==
  ASSUME NEW q \in Seq(SavedEntry)
  PROVE  KeptBy(q) \in Kept(Names, Entry)
<1> DEFINE D == {m \in Names : SavedIn(q, m)}
<1>1. \A n \in D : Oldest(q, n) \in Entry
  <2> SUFFICES ASSUME NEW n \in D PROVE Oldest(q, n) \in Entry
    OBVIOUS
  <2>1. PICK i \in DOMAIN q : Oldest(q, n) = q[i].previous
    BY OldestExists
  <2>2. q[i] \in SavedEntry
    OBVIOUS
  <2> QED BY <2>1, <2>2 DEF SavedEntry
<1>2. KeptBy(q) \in [D -> Entry]
  BY <1>1 DEF KeptBy
<1>3. D \in SUBSET Names
  OBVIOUS
<1> QED BY <1>2, <1>3 DEF Kept

LEMMA KeepsType ==
  ASSUME NEW l \in Seq(Seq(SavedEntry))
  PROVE  /\ Keeps(l) \in Seq(Kept(Names, Entry)) /\ Len(Keeps(l)) = Len(l)
         /\ \A j \in 1..Len(l) : /\ Keeps(l)[j] = KeptBy(l[j])
                                 /\ DOMAIN Keeps(l)[j] = {m \in Names : SavedIn(l[j], m)}
<1>1. \A j \in 1..Len(l) : KeptBy(l[j]) \in Kept(Names, Entry)
  BY KeptByType
<1>2. Len(l) \in Nat
  OBVIOUS
<1>3. Keeps(l) \in Seq(Kept(Names, Entry)) /\ Len(Keeps(l)) = Len(l)
  BY <1>1, <1>2 DEF Keeps
<1>4. \A j \in 1..Len(l) : Keeps(l)[j] = KeptBy(l[j])
  BY DEF Keeps
<1>5. \A j \in 1..Len(l) : DOMAIN KeptBy(l[j]) = {m \in Names : SavedIn(l[j], m)}
  BY DEF KeptBy
<1> QED BY <1>3, <1>4, <1>5

\* An entry is seen from above a frame as slots are.
LEMMA EntryIsSeen ==
  ASSUME NEW l \in Seq(Seq(SavedEntry)), NEW e, NEW f \in Nat, NEW n \in Names
  PROVE  EntryIn(e, l, f, n) = Seen(e, Keeps(l), f, n)
<1> DEFINE S == Savers(Keeps(l), f, n)
           hiding == {g \in f + 1..Len(l) : SavedIn(l[g], n)}
           first == CHOOSE g \in S : \A h \in S : g <= h
<1>1. hiding = S
  BY KeepsType DEF Savers
<1>2. EntryIn(e, l, f, n) = IF hiding = {} THEN e[n]
                            ELSE Oldest(l[CHOOSE g \in hiding : \A h \in hiding : g <= h], n)
  BY DEF EntryIn
<1>3. Seen(e, Keeps(l), f, n) = IF S = {} THEN e[n] ELSE Keeps(l)[first][n]
  BY DEF Seen
<1>4. CASE S = {}
  BY <1>1, <1>2, <1>3, <1>4
<1>5. CASE S # {}
  <2>1. PICK j \in S : \A k \in S : j <= k
    BY <1>5, KeepsType, FirstSaver
  <2>2. first \in S
    BY <2>1
  <2>3. first \in 1..Len(l) /\ SavedIn(l[first], n)
    BY <1>1, <2>2
  <2> HIDE DEF first
  <2>4. Keeps(l)[first][n] = Oldest(l[first], n)
    BY <2>3, KeepsType DEF KeptBy
  <2>5. EntryIn(e, l, f, n) = Oldest(l[first], n)
    BY <1>1, <1>2, <1>5 DEF first
  <2> QED BY <1>3, <1>5, <2>4, <2>5
<1> QED BY <1>4, <1>5

\* The mapping, of a table and its frames.
BaseOf(e, l) == [n \in Names |-> EntryIn(e, l, 0, n)]
StackOf(e, l) == [f \in 1..Len(l) |-> [n \in {m \in Names : SavedIn(l[f], m)} |-> EntryIn(e, l, f, n)]]

LEMMA MappingIs ==
  ASSUME NEW l \in Seq(Seq(SavedEntry)), NEW e
  PROVE  BaseOf(e, l) = Base(Names, e, Keeps(l)) /\ StackOf(e, l) = Stack(e, Keeps(l))
<1>1. BaseOf(e, l) = Base(Names, e, Keeps(l))
  BY EntryIsSeen DEF BaseOf, Base
<1>2. ASSUME NEW f \in 1..Len(l)
      PROVE  [n \in {m \in Names : SavedIn(l[f], m)} |-> EntryIn(e, l, f, n)] = Layer(e, Keeps(l), f)
  <2>1. DOMAIN Keeps(l)[f] = {m \in Names : SavedIn(l[f], m)}
    BY KeepsType
  <2>2. \A n \in DOMAIN Keeps(l)[f] : EntryIn(e, l, f, n) = Seen(e, Keeps(l), f, n)
    BY <2>1, EntryIsSeen
  <2> QED BY <2>1, <2>2 DEF Layer
<1>3. StackOf(e, l) = Stack(e, Keeps(l))
  BY <1>2, KeepsType DEF StackOf, Stack
<1> QED BY <1>1, <1>3

-----------------------------------------------------------------------------
\* The actions of Bindings, under the mapping.

LEMMA ScopedInit == Scoped!BInit <=> BaseOf(entries, locals) \in [Names -> Entry] /\ StackOf(entries, locals) = <<>>
BY DEF Scoped!BInit, BaseOf, StackOf, EntryAt

LEMMA ScopedVars ==
  Scoped!bvars' = Scoped!bvars <=>
     BaseOf(entries', locals') = BaseOf(entries, locals) /\ StackOf(entries', locals') = StackOf(entries, locals)
BY DEF Scoped!bvars, BaseOf, StackOf, EntryAt

LEMMA ScopedOpen ==
  Scoped!Open <=> /\ StackOf(entries', locals') = Append(StackOf(entries, locals), <<>>)
                  /\ BaseOf(entries', locals') = BaseOf(entries, locals)
BY DEF Scoped!Open, BaseOf, StackOf, EntryAt

LEMMA ScopedOpenWith ==
  ASSUME NEW k
  PROVE  LET s == StackOf(entries, locals)  t == StackOf(entries', locals')
         IN  Scoped!OpenWith(k) <=>
               /\ Len(t) = Len(s) + 1 /\ k \in DOMAIN t[Len(t)] /\ t[Len(t)][k] \in Entry
               /\ t = Append(s, [x \in {k} |-> t[Len(t)][k]])
               /\ BaseOf(entries', locals') = BaseOf(entries, locals)
BY DEF Scoped!OpenWith, BaseOf, StackOf, EntryAt

LEMMA ScopedBind ==
  ASSUME NEW i, NEW k
  PROVE  LET s == StackOf(entries, locals)  t == StackOf(entries', locals')
         IN  Scoped!Bind(i, k) <=>
               /\ Scoped!Binder(k) <= i
               /\ Len(t) = Len(s) /\ k \in DOMAIN t[i] /\ t[i][k] \in Entry
               /\ t = [s EXCEPT ![i] = [x \in DOMAIN @ \cup {k} |-> IF x = k THEN t[i][k] ELSE @[x]]]
               /\ BaseOf(entries', locals') = BaseOf(entries, locals)
BY DEF Scoped!Bind, BaseOf, StackOf, EntryAt

LEMMA ScopedAssign ==
  ASSUME NEW k
  PROVE  LET b == BaseOf(entries, locals)  c == BaseOf(entries', locals')
         IN  Scoped!Assign(k) <=>
               IF Scoped!Binder(k) = 0
               THEN c[k] \in Entry /\ c = [b EXCEPT ![k] = c[k]] /\ StackOf(entries', locals') = StackOf(entries, locals)
               ELSE Scoped!Bind(Scoped!Binder(k), k)
BY DEF Scoped!Assign, BaseOf, StackOf, EntryAt

LEMMA ScopedClose ==
  LET s == StackOf(entries, locals)
  IN  Scoped!Close <=> /\ s # <<>> /\ StackOf(entries', locals') = SubSeq(s, 1, Len(s) - 1)
                       /\ BaseOf(entries', locals') = BaseOf(entries, locals)
BY DEF Scoped!Close, BaseOf, StackOf, EntryAt

LEMMA ScopedCloseAll ==
  Scoped!CloseAll <=> StackOf(entries', locals') = <<>> /\ BaseOf(entries', locals') = BaseOf(entries, locals)
BY DEF Scoped!CloseAll, BaseOf, StackOf, EntryAt

LEMMA ScopedBinder ==
  ASSUME locals \in Seq(Seq(SavedEntry)), NEW k
  PROVE  Scoped!Binder(k) = Inner(Keeps(locals), k)
<1> DEFINE s == StackOf(entries, locals)
           B == {i \in 1..Len(s) : k \in DOMAIN s[i]}
<1>1. Scoped!Binder(k) = IF B = {} THEN 0 ELSE CHOOSE i \in B : \A j \in B : j <= i
  BY DEF Scoped!Binder, StackOf, EntryAt
<1>2. B = Savers(Keeps(locals), 0, k)
  <2>1. s = Stack(entries, Keeps(locals)) /\ Len(Keeps(locals)) \in Nat
    BY MappingIs, KeepsType
  <2> HIDE DEF s
  <2> QED BY <2>1, StackShape DEF Savers
<1> QED BY <1>1, <1>2 DEF Inner

LEMMA ScopedNext ==
  ASSUME locals \in Seq(Seq(SavedEntry)),
         \/ Scoped!Open \/ Scoped!Close \/ Scoped!CloseAll
         \/ \E k \in Names : Scoped!Assign(k) \/ Scoped!OpenWith(k) \/ \E i \in 1..Len(locals) : Scoped!Bind(i, k)
  PROVE  Scoped!BNext
<1>1. Scoped!BNext <=>
         \/ Scoped!Open \/ Scoped!Close \/ Scoped!Settle \/ Scoped!Keep \/ Scoped!CloseAll
         \/ \E k \in Names : Scoped!Assign(k) \/ Scoped!OpenWith(k)
               \/ \E i \in 1..Len(StackOf(entries, locals)) : Scoped!Bind(i, k)
  BY DEF Scoped!BNext, StackOf, EntryAt
<1>2. Len(StackOf(entries, locals)) = Len(locals)
  BY DEF StackOf
<1> QED BY <1>1, <1>2

-----------------------------------------------------------------------------
\* What changes of the table and its frames are under the mapping.

\* A binding that is not hidden changes.
LEMMA RebindsIsBind ==
  ASSUME locals \in Seq(Seq(SavedEntry)), locals' \in Seq(Seq(SavedEntry)), Len(Keeps(locals')) = Len(Keeps(locals)),
         NEW m \in 1..Len(locals), NEW n, NEW v \in Entry, Inner(Keeps(locals), n) <= m,
         Rebinds(Names, entries, Keeps(locals), entries', Keeps(locals'), m, n, v)
  PROVE  Scoped!Bind(m, n)
<1> DEFINE k == Keeps(locals)
           k2 == Keeps(locals')
<1>1. /\ BaseOf(entries, locals) = Base(Names, entries, k) /\ BaseOf(entries', locals') = Base(Names, entries', k2)
      /\ StackOf(entries, locals) = Stack(entries, k) /\ StackOf(entries', locals') = Stack(entries', k2)
  BY MappingIs
<1>2. Scoped!Binder(n) <= m
  BY ScopedBinder
<1>3. Len(k) \in Nat /\ Len(k2) = Len(k)
  BY KeepsType
<1> HIDE DEF k, k2
<1>4. Len(Stack(entries', k2)) = Len(Stack(entries, k))
  BY <1>3, StackShape
<1>5. Rebinds(Names, entries, k, entries', k2, m, n, v)
  BY DEF k, k2
<1> QED BY <1>1, <1>2, <1>4, <1>5, ScopedBind DEF Rebinds

\* A name is written: its innermost binding changes.
LEMMA WriteIsAssign ==
  ASSUME CacheInv, CacheInv', NEW n \in Names,
         Wrote(Names, Entry, entries, entries', n, entries'[n]), Keeps(locals') = Keeps(locals)
  PROVE  Scoped!Assign(n)
<1> DEFINE k == Keeps(locals)
           v == entries'[n]
<1>1. locals \in Seq(Seq(SavedEntry)) /\ locals' \in Seq(Seq(SavedEntry)) /\ v \in Entry
  BY DEF CacheInv, HonestTable, Table
<1>2. k \in Seq(Kept(Names, Entry)) /\ Len(k) = Len(locals) /\ Len(k) \in Nat
  BY <1>1, KeepsType
<1>3. /\ BaseOf(entries, locals) = Base(Names, entries, k) /\ BaseOf(entries', locals') = Base(Names, entries', k)
      /\ StackOf(entries, locals) = Stack(entries, k) /\ StackOf(entries', locals') = Stack(entries', k)
  BY <1>1, MappingIs
<1>4. Scoped!Binder(n) = Inner(k, n)
  BY <1>1, ScopedBinder
<1>5. Reassigns(Names, entries, k, entries', k, n, v)
  <2> HIDE DEF k, v
  <2> QED BY <1>2, WriteReassigns DEF v
<1> HIDE DEF k, v
<1>6. CASE Inner(k, n) = 0
  <2>1. Base(Names, entries', k) = [Base(Names, entries, k) EXCEPT ![n] = v] /\ Stack(entries', k) = Stack(entries, k)
    BY <1>5, <1>6 DEF Reassigns
  <2>2. Base(Names, entries', k)[n] = v
    BY <2>1 DEF Base
  <2> QED BY <1>1, <1>3, <1>4, <1>6, <2>1, <2>2, ScopedAssign
<1>7. CASE Inner(k, n) # 0
  <2>1. /\ Inner(k, n) \in 1..Len(locals) /\ Inner(k, n) <= Inner(k, n)
        /\ Rebinds(Names, entries, k, entries', k, Inner(k, n), n, v)
    BY <1>2, <1>5, <1>7 DEF Reassigns
  <2>2. Scoped!Bind(Inner(k, n), n)
    BY <1>1, <2>1, RebindsIsBind DEF k
  <2> QED BY <1>4, <1>7, <2>2, ScopedAssign
<1> QED BY <1>6, <1>7

\* A frame saves a name that is written: it binds it.
LEMMA SaveIsBind ==
  ASSUME CacheInv, CacheInv', NEW n \in Names, NEW m,
         Wrote(Names, Entry, entries, entries', n, entries'[n]),
         SavedTo(Names, Entry, entries, Keeps(locals), Keeps(locals'), m, n)
  PROVE  m \in 1..Len(locals) /\ Scoped!Bind(m, n)
<1> DEFINE k == Keeps(locals)
           k2 == Keeps(locals')
           v == entries'[n]
<1>1. /\ locals \in Seq(Seq(SavedEntry)) /\ locals' \in Seq(Seq(SavedEntry)) /\ v \in Entry
      /\ entries \in [Names -> Entry]
  BY DEF CacheInv, HonestTable, Table
<1>2. k \in Seq(Kept(Names, Entry)) /\ Len(k) = Len(locals)
  BY <1>1, KeepsType
<1> HIDE DEF k, k2, v
<1>3. Rebinds(Names, entries, k, entries', k2, m, n, v) /\ Inner(k, n) <= m
  BY <1>1, <1>2, SaveRebinds DEF k, k2, v
<1>4. m \in 1..Len(locals) /\ Len(k2) = Len(k)
  BY <1>2 DEF SavedTo, k, k2
<1> QED BY <1>1, <1>3, <1>4, RebindsIsBind DEF k, k2

\* What one more saved entry is to the slots a frame keeps: nothing if the frame has the name.
LEMMA OneMoreSaved ==
  ASSUME NEW q \in Seq(SavedEntry), NEW s \in SavedEntry
  PROVE  LET k == KeptBy(q)  k2 == KeptBy(Append(q, s))
         IN  /\ s.name \in DOMAIN k => k2 = k
             /\ DOMAIN k2 = DOMAIN k \cup {s.name}
             /\ \A m \in DOMAIN k : k2[m] = k[m]
             /\ s.name \notin DOMAIN k => k2[s.name] = s.previous
<1> DEFINE q2 == Append(q, s)
<1>1. /\ q2 \in Seq(SavedEntry) /\ Len(q) \in Nat /\ DOMAIN q = 1..Len(q) /\ DOMAIN q2 = 1..Len(q) + 1
      /\ q2[Len(q) + 1] = s /\ \A i \in 1..Len(q) : q2[i] = q[i]
  OBVIOUS
<1>2. s.name \in Names
  BY DEF SavedEntry
<1> HIDE DEF q2
<1>3. \A m : SavedIn(q2, m) <=> SavedIn(q, m) \/ m = s.name
  BY <1>1 DEF SavedIn
<1>4. DOMAIN KeptBy(q2) = DOMAIN KeptBy(q) \cup {s.name}
  BY <1>2, <1>3 DEF KeptBy
<1>5. ASSUME NEW m \in Names, SavedIn(q, m) PROVE Oldest(q2, m) = Oldest(q, m)
  <2>1. PICK i \in DOMAIN q : q[i].name = m /\ (\A j \in DOMAIN q : q[j].name = m => i <= j)
                              /\ Oldest(q, m) = q[i].previous
    BY <1>5, OldestExists
  <2>2. i \in DOMAIN q2 /\ q2[i].name = m /\ q2[i].previous = q[i].previous
    BY <1>1, <2>1
  <2>3. \A j \in DOMAIN q2 : q2[j].name = q2[i].name => i <= j
    BY <1>1, <2>1, <2>2
  <2>4. Oldest(q2, q2[i].name) = q2[i].previous
    BY <1>1, <2>2, <2>3, OldestIs
  <2> QED BY <2>1, <2>2, <2>4
<1>6. \A m \in DOMAIN KeptBy(q) : KeptBy(q2)[m] = KeptBy(q)[m]
  <2> SUFFICES ASSUME NEW m \in DOMAIN KeptBy(q) PROVE KeptBy(q2)[m] = KeptBy(q)[m]
    OBVIOUS
  <2>1. m \in Names /\ SavedIn(q, m) /\ SavedIn(q2, m)
    BY <1>3 DEF KeptBy
  <2> QED BY <1>5, <2>1 DEF KeptBy
<1>7. s.name \notin DOMAIN KeptBy(q) => KeptBy(q2)[s.name] = s.previous
  <2> SUFFICES ASSUME s.name \notin DOMAIN KeptBy(q) PROVE KeptBy(q2)[s.name] = s.previous
    OBVIOUS
  <2>1. ~SavedIn(q, s.name) /\ SavedIn(q2, s.name)
    BY <1>2, <1>3 DEF KeptBy
  <2>2. Len(q) + 1 \in DOMAIN q2 /\ \A j \in DOMAIN q2 : q2[j].name = q2[Len(q) + 1].name => Len(q) + 1 <= j
    BY <1>1, <2>1 DEF SavedIn
  <2>3. Oldest(q2, q2[Len(q) + 1].name) = q2[Len(q) + 1].previous
    BY <1>1, <2>2, OldestIs
  <2> QED BY <1>1, <1>2, <2>1, <2>3 DEF KeptBy
<1>8. s.name \in DOMAIN KeptBy(q) => KeptBy(q2) = KeptBy(q)
  <2> SUFFICES ASSUME s.name \in DOMAIN KeptBy(q) PROVE KeptBy(q2) = KeptBy(q)
    OBVIOUS
  <2>1. DOMAIN KeptBy(q2) = DOMAIN KeptBy(q)
    BY <1>4
  <2>2. KeptBy(q) = [m \in DOMAIN KeptBy(q) |-> KeptBy(q)[m]] /\ KeptBy(q2) = [m \in DOMAIN KeptBy(q2) |-> KeptBy(q2)[m]]
    BY DEF KeptBy
  <2> QED BY <1>6, <2>1, <2>2
<1> QED BY <1>4, <1>6, <1>7, <1>8 DEF q2

\* Saving an entry into a frame that has the name leaves what the frames keep;
\* into one that has not, with no frame above it that has, it is saved there.
LEMMA SaveIs ==
  ASSUME CacheInv, NEW f \in DOMAIN locals, NEW n \in Names
  PROVE  /\ SavedIn(locals[f], n) => Keeps(Save(f, n)) = Keeps(locals)
         /\ (\A g \in f..Len(locals) : ~SavedIn(locals[g], n))
               => SavedTo(Names, Entry, entries, Keeps(locals), Keeps(Save(f, n)), f, n)
<1> DEFINE s == [name |-> n, previous |-> entries[n]]
           l2 == Save(f, n)
           k == Keeps(locals)
           k2 == Keeps(l2)
<1>1. /\ locals \in Seq(Seq(SavedEntry)) /\ l2 \in Seq(Seq(SavedEntry)) /\ s \in SavedEntry
      /\ locals[f] \in Seq(SavedEntry) /\ s.name = n /\ s.previous = entries[n]
  <2>1. entries[n] \in Entry /\ locals \in Seq(Seq(SavedEntry))
    BY DEF CacheInv, HonestTable, Table
  <2>2. l2 \in Seq(Seq(SavedEntry))
    BY SaveKeepsFrames
  <2>3. s \in SavedEntry
    BY <2>1 DEF SavedEntry
  <2> QED BY <2>1, <2>2, <2>3
<1>2. /\ Len(l2) = Len(locals) /\ l2[f] = Append(locals[f], s) /\ f \in 1..Len(locals)
      /\ \A j \in 1..Len(locals) : j # f => l2[j] = locals[j]
  BY <1>1 DEF Save
<1> HIDE DEF l2, s
<1>3. /\ k \in Seq(Kept(Names, Entry)) /\ Len(k) = Len(locals)
      /\ k2 \in Seq(Kept(Names, Entry)) /\ Len(k2) = Len(locals) /\ Len(locals) \in Nat
      /\ \A j \in 1..Len(locals) : k[j] = KeptBy(locals[j]) /\ k2[j] = KeptBy(l2[j])
      /\ \A j \in 1..Len(locals) : DOMAIN k[j] = {m \in Names : SavedIn(locals[j], m)}
  <2>1. /\ k \in Seq(Kept(Names, Entry)) /\ Len(k) = Len(locals)
        /\ \A j \in 1..Len(locals) : k[j] = KeptBy(locals[j]) /\ DOMAIN k[j] = {m \in Names : SavedIn(locals[j], m)}
    BY <1>1, KeepsType
  <2>2. /\ k2 \in Seq(Kept(Names, Entry)) /\ Len(k2) = Len(l2)
        /\ \A j \in 1..Len(l2) : k2[j] = KeptBy(l2[j])
    BY <1>1, KeepsType
  <2>3. Len(locals) \in Nat
    BY <1>1
  <2> QED BY <1>2, <2>1, <2>2, <2>3
<1> HIDE DEF k, k2
<1>4. \A j \in 1..Len(locals) : j # f => k2[j] = k[j]
  BY <1>2, <1>3
<1>5. /\ n \in DOMAIN k[f] => k2[f] = k[f]
      /\ DOMAIN k2[f] = DOMAIN k[f] \cup {n}
      /\ \A m \in DOMAIN k[f] : k2[f][m] = k[f][m]
      /\ n \notin DOMAIN k[f] => k2[f][n] = entries[n]
  <2>1. k[f] = KeptBy(locals[f]) /\ k2[f] = KeptBy(Append(locals[f], s))
    BY <1>2, <1>3
  <2>2. LET one == KeptBy(locals[f])  two == KeptBy(Append(locals[f], s))
        IN  /\ n \in DOMAIN one => two = one
            /\ DOMAIN two = DOMAIN one \cup {n}
            /\ \A m \in DOMAIN one : two[m] = one[m]
            /\ n \notin DOMAIN one => two[n] = entries[n]
    BY <1>1, OneMoreSaved
  <2> QED BY <2>1, <2>2
<1>6. SavedIn(locals[f], n) => k2 = k
  <2> SUFFICES ASSUME SavedIn(locals[f], n) PROVE k2 = k
    OBVIOUS
  <2>1. n \in DOMAIN k[f]
    BY <1>2, <1>3
  <2>2. \A j \in 1..Len(locals) : k2[j] = k[j]
    BY <1>4, <1>5, <2>1
  <2> QED BY <1>3, <2>2
<1>7. (\A g \in f..Len(locals) : ~SavedIn(locals[g], n)) => SavedTo(Names, Entry, entries, k, k2, f, n)
  <2> SUFFICES ASSUME \A g \in f..Len(locals) : ~SavedIn(locals[g], n)
               PROVE  SavedTo(Names, Entry, entries, k, k2, f, n)
    OBVIOUS
  <2>1. \A j \in f..Len(locals) : n \notin DOMAIN k[j]
    BY <1>2, <1>3
  <2> QED BY <1>2, <1>3, <1>4, <1>5, <2>1 DEF SavedTo
<1> QED BY <1>6, <1>7 DEF k, k2, l2

-----------------------------------------------------------------------------
\* What popping a frame leaves: the oldest entry of each name it saved.

LEMMA PutBackIs ==
  ASSUME NEW s \in SavedEntry, NEW t \in HonestTable, NEW n \in Names
  PROVE  PutBack(s, t).entries[n] = IF s.name = n THEN s.previous ELSE t.entries[n]
BY DEF PutBack, HonestTable

\* After the i newest entries went back, a name has what the oldest of them says.
LEMMA PoppedIs ==
  ASSUME NEW q \in Seq(SavedEntry), NEW t \in HonestTable, NEW n \in Names
  PROVE  Popped(q, t).entries[n] = IF SavedIn(q, n) THEN Oldest(q, n) ELSE t.entries[n]
<1> DEFINE N == Len(q)
           Good(i, x) == /\ (\A j \in N + 1 - i..N : q[j].name # n) => x.entries[n] = t.entries[n]
                         /\ \A j \in N + 1 - i..N :
                               q[j].name = n /\ (\A k \in N + 1 - i..N : q[k].name = n => j <= k)
                                  => x.entries[n] = q[j].previous
<1>1. N \in Nat /\ DOMAIN q = 1..N /\ \A j \in 1..N : q[j] \in SavedEntry
  OBVIOUS
<1>2. PICK g \in [0..N -> HonestTable] : PutsBack(g, q, t) /\ Popped(q, t) = g[N]
  BY PoppedSteps
<1> DEFINE S == {i \in Nat : i <= N => Good(i, g[i])}
<1>3. 0 \in S
  <2>1. g[0] = t
    BY <1>2 DEF PutsBack
  <2>2. \A j \in N + 1 - 0..N : FALSE
    BY <1>1
  <2> QED BY <2>1, <2>2
<1>4. ASSUME NEW i \in S PROVE i + 1 \in S
  <2> HIDE DEF Good, N
  <2>0. i \in Nat /\ (i <= N => Good(i, g[i]))
    OBVIOUS
  <2> SUFFICES ASSUME i + 1 <= N PROVE Good(i + 1, g[i + 1])
    BY <2>0
  <2> HIDE DEF S
  <2> DEFINE m == N - i
  <2>1. i \in Nat /\ i + 1 \in 1..N /\ i \in 0..N /\ m \in 1..N /\ (i + 1) - 1 = i
        /\ N + 1 - (i + 1) = m /\ N + 1 - i = m + 1
    BY <1>1, <2>0
  <2>2. Good(i, g[i])
    BY <1>1, <2>0
  <2>3. g[i + 1] = PutBack(q[m], g[i])
    <3>1. g[i + 1] = PutBack(q[Len(q) + 1 - (i + 1)], g[(i + 1) - 1])
      BY <1>2, <2>1 DEF PutsBack, N
    <3> QED BY <2>1, <3>1 DEF N
  <2>4. g[i + 1].entries[n] = IF q[m].name = n THEN q[m].previous ELSE g[i].entries[n]
    <3>1. g[i] \in HonestTable /\ q[m] \in SavedEntry
      BY <1>1, <1>2, <2>1
    <3> QED BY <2>3, <3>1, PutBackIs
  <2>5. /\ (\A j \in m + 1..N : q[j].name # n) => g[i].entries[n] = t.entries[n]
        /\ \A j \in m + 1..N : q[j].name = n /\ (\A k \in m + 1..N : q[k].name = n => j <= k)
                                 => g[i].entries[n] = q[j].previous
    BY <2>1, <2>2 DEF Good
  <2> HIDE DEF m
  <2>6. (\A j \in m..N : q[j].name # n) => g[i + 1].entries[n] = t.entries[n]
    BY <1>1, <2>1, <2>4, <2>5
  <2>7. ASSUME NEW j \in m..N, q[j].name = n, \A k \in m..N : q[k].name = n => j <= k
        PROVE  g[i + 1].entries[n] = q[j].previous
    <3>1. CASE j = m
      BY <2>4, <2>7, <3>1
    <3>2. CASE j # m
      <4>1. j \in m + 1..N /\ m \in m..N /\ ~(j <= m)
        BY <1>1, <2>1, <3>2
      <4>2. q[m].name # n
        BY <2>7, <4>1
      <4>3. \A k \in m + 1..N : q[k].name = n => j <= k
        BY <1>1, <2>1, <2>7
      <4> QED BY <2>4, <2>5, <2>7, <4>1, <4>2, <4>3
    <3> QED BY <3>1, <3>2
  <2> QED BY <2>1, <2>6, <2>7 DEF Good
<1>5. N \in S
  <2>1. S \in SUBSET Nat
    OBVIOUS
  <2> HIDE DEF S
  <2>2. S = Nat
    BY <1>3, <1>4, <2>1, SetInduction
  <2> QED BY <1>1, <2>2
<1>6. Good(N, g[N]) /\ N + 1 - N = 1
  BY <1>1, <1>5
<1>7. /\ (\A j \in 1..N : q[j].name # n) => g[N].entries[n] = t.entries[n]
      /\ \A j \in 1..N : q[j].name = n /\ (\A k \in 1..N : q[k].name = n => j <= k)
                           => g[N].entries[n] = q[j].previous
  BY <1>6
<1> HIDE DEF S, Good, N
<1>8. CASE SavedIn(q, n)
  <2>1. PICK j \in DOMAIN q : q[j].name = n /\ (\A k \in DOMAIN q : q[k].name = n => j <= k)
                              /\ Oldest(q, n) = q[j].previous
    BY <1>8, OldestExists
  <2> QED BY <1>1, <1>2, <1>7, <1>8, <2>1
<1>9. CASE ~SavedIn(q, n)
  BY <1>1, <1>2, <1>7, <1>9 DEF SavedIn
<1> QED BY <1>8, <1>9

\* So what the frame kept goes back and the frame goes away.
LEMMA PopUnwinds ==
  ASSUME NEW l \in Seq(Seq(SavedEntry)), l # <<>>, NEW t \in HonestTable
  PROVE  Unwinds(Names, Entry, t.entries, Keeps(l), Popped(l[Len(l)], t).entries, Keeps(SubSeq(l, 1, Len(l) - 1)))
<1> DEFINE N == Len(l)
           l2 == SubSeq(l, 1, N - 1)
           q == l[N]
<1>1. /\ N \in Nat /\ N > 0 /\ l2 \in Seq(Seq(SavedEntry)) /\ Len(l2) = N - 1 /\ q \in Seq(SavedEntry)
      /\ \A j \in 1..N - 1 : l2[j] = l[j]
  <2>1. l2 \in Seq(Seq(SavedEntry)) /\ Len(l2) = N - 1 /\ \A j \in 1..N - 1 : l2[j] = l[j]
    BY FrontIsSeq
  <2>2. N \in Nat /\ N > 0 /\ N \in 1..Len(l)
    OBVIOUS
  <2> QED BY <2>1, <2>2
<1> HIDE DEF l2, q, N
<1>2. /\ Keeps(l2) \in Seq(Kept(Names, Entry)) /\ Len(Keeps(l2)) = N - 1 /\ Len(Keeps(l)) = N
      /\ \A j \in 1..N : Keeps(l)[j] = KeptBy(l[j])
      /\ \A j \in 1..N - 1 : Keeps(l2)[j] = KeptBy(l2[j])
  BY <1>1, KeepsType DEF N
<1>3. Keeps(l)[N] = KeptBy(q) /\ \A j \in 1..N - 1 : Keeps(l2)[j] = Keeps(l)[j]
  BY <1>1, <1>2 DEF q
<1>4. \A n \in Names : Popped(q, t).entries[n] = IF n \in DOMAIN KeptBy(q) THEN KeptBy(q)[n] ELSE t.entries[n]
  <2> SUFFICES ASSUME NEW n \in Names
               PROVE  Popped(q, t).entries[n] = IF n \in DOMAIN KeptBy(q) THEN KeptBy(q)[n] ELSE t.entries[n]
    OBVIOUS
  <2>1. Popped(q, t).entries[n] = IF SavedIn(q, n) THEN Oldest(q, n) ELSE t.entries[n]
    BY <1>1, PoppedIs
  <2> QED BY <2>1 DEF KeptBy
<1>5. Keeps(l) # <<>>
  BY <1>1, <1>2
<1> QED BY <1>1, <1>2, <1>3, <1>4, <1>5 DEF Unwinds, N, q, l2

\* Leaving a command or a function closes its scope.
LEMMA PopIsClose ==
  ASSUME CacheInv, CacheInv', locals # <<>>,
         locals' = SubSeq(locals, 1, Len(locals) - 1), entries' = Popped(locals[Len(locals)], Table).entries
  PROVE  Scoped!Close
<1> DEFINE k == Keeps(locals)
           k2 == Keeps(locals')
<1>1. locals \in Seq(Seq(SavedEntry)) /\ locals' \in Seq(Seq(SavedEntry)) /\ Table \in HonestTable
  BY DEF CacheInv
<1>2. /\ BaseOf(entries, locals) = Base(Names, entries, k) /\ BaseOf(entries', locals') = Base(Names, entries', k2)
      /\ StackOf(entries, locals) = Stack(entries, k) /\ StackOf(entries', locals') = Stack(entries', k2)
  BY <1>1, MappingIs
<1>3. Unwinds(Names, Entry, entries, k, entries', k2)
  <2>1. Unwinds(Names, Entry, Table.entries, k, entries', k2)
    BY <1>1, PopUnwinds
  <2> QED BY <2>1 DEF Table
<1>4. k \in Seq(Kept(Names, Entry))
  BY <1>1, KeepsType
<1> HIDE DEF k, k2
<1>5. /\ Stack(entries, k) # <<>> /\ Stack(entries', k2) = SubSeq(Stack(entries, k), 1, Len(Stack(entries, k)) - 1)
      /\ Base(Names, entries', k2) = Base(Names, entries, k)
  <2>1. Closes(Names, entries, k, entries', k2)
    BY <1>3, <1>4, UnwindCloses
  <2> QED BY <2>1 DEF Closes
<1> QED BY <1>2, <1>5, ScopedClose

\* With every frame popped, from the innermost out, the table is what it was below all of them.
LEMMA UnwoundIs ==
  ASSUME NEW l \in Seq(Seq(SavedEntry)), NEW t \in HonestTable
  PROVE  Unwound(l, t).entries = Base(Names, t.entries, Keeps(l))
<1> DEFINE N == Len(l)
           rest(i) == SubSeq(l, 1, N - i)
           Same(i, x) == Base(Names, x.entries, Keeps(rest(i))) = Base(Names, t.entries, Keeps(l))
<1>1. N \in Nat
  OBVIOUS
<1>2. PICK g \in [0..N -> HonestTable] : Pops(g, l, t) /\ Unwound(l, t) = g[N]
  BY RecoveredSteps
<1> DEFINE S == {i \in Nat : i <= N => Same(i, g[i])}
<1>3. 0 \in S
  <2>1. g[0] = t
    BY <1>2 DEF Pops
  <2>2. rest(0) = l
    BY <1>1
  <2> QED BY <2>1, <2>2
<1>4. ASSUME NEW i \in S PROVE i + 1 \in S
  <2> HIDE DEF Same, N
  <2>1. i \in Nat /\ (i <= N => Same(i, g[i]))
    OBVIOUS
  <2> SUFFICES ASSUME i + 1 <= N PROVE Same(i + 1, g[i + 1])
    BY <2>1
  <2> HIDE DEF S
  <2> DEFINE m == N - i
             a == rest(i)
  <2>2. i + 1 \in 1..N /\ i \in 0..N /\ m \in 1..N /\ (i + 1) - 1 = i /\ N + 1 - (i + 1) = m /\ N - (i + 1) = m - 1
    BY <1>1, <2>1
  <2>3. g[i + 1] = Popped(l[m], g[i])
    <3>1. g[i + 1] = Popped(l[Len(l) + 1 - (i + 1)], g[(i + 1) - 1])
      BY <1>2, <2>2 DEF Pops, N
    <3> QED BY <2>2, <3>1 DEF N
  <2>4. a \in Seq(Seq(SavedEntry)) /\ Len(a) = m /\ a # <<>> /\ a[Len(a)] = l[m] /\ SubSeq(a, 1, Len(a) - 1) = rest(i + 1)
    <3>1. N = Len(l)
      BY DEF N
    <3>2. a = SubSeq(l, 1, m) /\ rest(i + 1) = SubSeq(l, 1, m - 1)
      BY <2>2
    <3> HIDE DEF a, rest, m
    <3>3. a \in Seq(Seq(SavedEntry)) /\ Len(a) = m /\ a # <<>> /\ \A j \in 1..m : a[j] = l[j]
      <4>1. m \in 0..Len(l) /\ m > 0
        BY <2>2, <3>1
      <4>2. a \in Seq(Seq(SavedEntry)) /\ Len(a) = m /\ \A j \in 1..m : a[j] = l[j]
        BY <3>2, <4>1, PrefixIs
      <4> QED BY <4>1, <4>2
    <3>4. a[m] = l[m]
      BY <2>2, <3>3
    <3>5. SubSeq(a, 1, m - 1) = SubSeq(l, 1, m - 1)
      BY <2>2, <3>1, <3>3
    <3> QED BY <3>2, <3>3, <3>4, <3>5
  <2>5. g[i] \in HonestTable
    BY <1>2, <2>2
  <2> HIDE DEF m, a
  <2>6. Unwinds(Names, Entry, g[i].entries, Keeps(a), g[i + 1].entries, Keeps(rest(i + 1)))
    BY <2>3, <2>4, <2>5, PopUnwinds
  <2>7. Keeps(a) \in Seq(Kept(Names, Entry))
    BY <2>4, KeepsType
  <2> HIDE DEF rest
  <2>8. Base(Names, g[i + 1].entries, Keeps(rest(i + 1))) = Base(Names, g[i].entries, Keeps(a))
    <3>1. Closes(Names, g[i].entries, Keeps(a), g[i + 1].entries, Keeps(rest(i + 1)))
      BY <2>6, <2>7, UnwindCloses
    <3> QED BY <3>1 DEF Closes
  <2>9. Base(Names, g[i].entries, Keeps(a)) = Base(Names, t.entries, Keeps(l))
    BY <2>1, <1>1 DEF Same, a
  <2> QED BY <2>8, <2>9 DEF Same
<1>5. N \in S
  <2>1. S \in SUBSET Nat
    OBVIOUS
  <2> HIDE DEF S
  <2>2. S = Nat
    BY <1>3, <1>4, <2>1, SetInduction
  <2> QED BY <1>1, <2>2
<1>6. Same(N, g[N])
  BY <1>1, <1>5
<1>7. rest(N) = <<>> /\ Keeps(<<>>) = <<>>
  BY <1>1 DEF Keeps
<1>8. g[N].entries \in [Names -> Entry]
  BY <1>1, <1>2 DEF HonestTable
<1> HIDE DEF S
<1>9. Base(Names, g[N].entries, <<>>) = Base(Names, t.entries, Keeps(l))
  BY <1>6, <1>7
<1> QED BY <1>2, <1>8, <1>9, DropSettles

\* So recovery closes every scope.
LEMMA UnwindIsCloseAll ==
  ASSUME CacheInv, CacheInv', locals' = <<>>, entries' = Unwound(locals, Table).entries
  PROVE  Scoped!CloseAll
<1>1. /\ locals \in Seq(Seq(SavedEntry)) /\ locals' \in Seq(Seq(SavedEntry)) /\ Table \in HonestTable
      /\ entries' \in [Names -> Entry]
  BY DEF CacheInv, HonestTable, Table
<1>2. Keeps(locals') = <<>>
  BY DEF Keeps
<1>3. entries' = Base(Names, entries, Keeps(locals))
  <2>1. entries' = Base(Names, Table.entries, Keeps(locals))
    BY <1>1, UnwoundIs
  <2> QED BY <2>1 DEF Table
<1>4. /\ BaseOf(entries, locals) = Base(Names, entries, Keeps(locals))
      /\ BaseOf(entries', locals') = Base(Names, entries', <<>>)
      /\ StackOf(entries', locals') = Stack(entries', <<>>)
  BY <1>1, <1>2, MappingIs
<1>5. Stack(entries', <<>>) = <<>> /\ Base(Names, entries', <<>>) = entries'
  BY <1>1, DropSettles
<1> QED BY <1>3, <1>4, <1>5, ScopedCloseAll

\* A command or a function starts: its frame is a scope.
LEMMA PushIs ==
  ASSUME NEW l \in Seq(Seq(SavedEntry)), NEW q \in Seq(SavedEntry)
  PROVE  Keeps(Append(l, q)) = Append(Keeps(l), KeptBy(q))
<1> DEFINE l2 == Append(l, q)
<1>1. /\ l2 \in Seq(Seq(SavedEntry)) /\ Len(l) \in Nat /\ Len(l2) = Len(l) + 1 /\ l2[Len(l) + 1] = q
      /\ \A j \in 1..Len(l) : l2[j] = l[j]
  OBVIOUS
<1> HIDE DEF l2
<1>2. /\ Len(Keeps(l2)) = Len(l) + 1 /\ Keeps(l2)[Len(l) + 1] = KeptBy(q)
      /\ \A j \in 1..Len(l) : Keeps(l2)[j] = Keeps(l)[j]
      /\ Len(Keeps(l)) = Len(l) /\ Keeps(l) \in Seq(Kept(Names, Entry)) /\ Keeps(l2) \in Seq(Kept(Names, Entry))
  <2>1. /\ Len(Keeps(l)) = Len(l) /\ Keeps(l) \in Seq(Kept(Names, Entry))
        /\ \A j \in 1..Len(l) : Keeps(l)[j] = KeptBy(l[j])
    BY KeepsType
  <2>2. /\ Len(Keeps(l2)) = Len(l2) /\ Keeps(l2) \in Seq(Kept(Names, Entry))
        /\ \A j \in 1..Len(l2) : Keeps(l2)[j] = KeptBy(l2[j])
    BY <1>1, KeepsType
  <2> QED BY <1>1, <2>1, <2>2
<1>3. KeptBy(q) \in Kept(Names, Entry)
  BY KeptByType
<1> QED BY <1>1, <1>2, <1>3 DEF l2

LEMMA PushIsOpen ==
  ASSUME CacheInv, CacheInv', locals' = Append(locals, <<>>), entries' = entries
  PROVE  Scoped!Open
<1>1. locals \in Seq(Seq(SavedEntry)) /\ locals' \in Seq(Seq(SavedEntry)) /\ entries \in [Names -> Entry]
      /\ <<>> \in Seq(SavedEntry)
  BY DEF CacheInv, HonestTable, Table
<1>2. KeptBy(<<>>) = <<>>
  BY DEF KeptBy, SavedIn
<1>3. Keeps(locals') = Append(Keeps(locals), <<>>) /\ Keeps(locals) \in Seq(Kept(Names, Entry))
  BY <1>1, <1>2, PushIs, KeepsType
<1>4. /\ BaseOf(entries, locals) = Base(Names, entries, Keeps(locals))
      /\ BaseOf(entries', locals') = Base(Names, entries', Keeps(locals'))
      /\ StackOf(entries, locals) = Stack(entries, Keeps(locals))
      /\ StackOf(entries', locals') = Stack(entries', Keeps(locals'))
  BY <1>1, MappingIs
<1>5. /\ Stack(entries, Append(Keeps(locals), <<>>)) = Append(Stack(entries, Keeps(locals)), <<>>)
      /\ Base(Names, entries, Append(Keeps(locals), <<>>)) = Base(Names, entries, Keeps(locals))
  BY <1>1, <1>3, PushOpens
<1> QED BY <1>3, <1>4, <1>5, ScopedOpen

LEMMA PushIsOpenWith ==
  ASSUME CacheInv, CacheInv', NEW n \in Names, locals' = Append(locals, <<[name |-> n, previous |-> entries[n]]>>),
         Wrote(Names, Entry, entries, entries', n, entries'[n])
  PROVE  Scoped!OpenWith(n)
<1> DEFINE q == <<[name |-> n, previous |-> entries[n]]>>
           k == Keeps(locals)
           v == entries'[n]
<1>1. locals \in Seq(Seq(SavedEntry)) /\ locals' \in Seq(Seq(SavedEntry)) /\ entries \in [Names -> Entry] /\ v \in Entry
  BY DEF CacheInv, HonestTable, Table
<1>2. q \in Seq(SavedEntry)
  BY <1>1 DEF SavedEntry
<1>3. KeptBy(q) = [x \in {n} |-> entries[n]]
  <2>1. /\ 1 \in DOMAIN q /\ q[1].name = n /\ q[1].previous = entries[n]
        /\ \A j \in DOMAIN q : q[j].name = q[1].name => 1 <= j
    OBVIOUS
  <2>2. \A m : SavedIn(q, m) <=> m = n
    BY DEF SavedIn
  <2> HIDE DEF q
  <2>3. Oldest(q, n) = entries[n]
    BY <1>2, <2>1, OldestIs
  <2> QED BY <2>2, <2>3 DEF KeptBy
<1>4. Keeps(locals') = Append(k, [x \in {n} |-> entries[n]]) /\ k \in Seq(Kept(Names, Entry))
  <2> HIDE DEF q
  <2> QED BY <1>1, <1>2, <1>3, PushIs, KeepsType DEF q
<1>5. /\ BaseOf(entries, locals) = Base(Names, entries, k)
      /\ BaseOf(entries', locals') = Base(Names, entries', Keeps(locals'))
      /\ StackOf(entries, locals) = Stack(entries, k)
      /\ StackOf(entries', locals') = Stack(entries', Keeps(locals'))
  BY <1>1, MappingIs
<1> HIDE DEF k, v
<1>6. /\ Stack(entries', Keeps(locals')) = Append(Stack(entries, k), [x \in {n} |-> v])
      /\ Base(Names, entries', Keeps(locals')) = Base(Names, entries, k)
  <2> DEFINE one == [x \in {n} |-> entries[n]]
  <2>1. one \in [{n} -> Entry] /\ one[n] = entries[n]
    BY <1>1
  <2> HIDE DEF one
  <2>2. OpensWith(Names, entries, k, entries', Append(k, one), n, v)
    BY <1>1, <1>4, <2>1, PushBinds DEF v
  <2> QED BY <1>4, <2>2 DEF OpensWith, one
<1> DEFINE s == Stack(entries, k)
           u == StackOf(entries', locals')
<1>7. u = Append(s, [x \in {n} |-> v]) /\ s = StackOf(entries, locals)
  BY <1>5, <1>6
<1>8. Len(s) \in Nat /\ DOMAIN s = 1..Len(s)
  <2>1. Len(k) \in Nat
    BY <1>4
  <2> QED BY <2>1, StackShape
<1> HIDE DEF s, u
<1>9. Len(u) = Len(s) + 1 /\ u[Len(u)] = [x \in {n} |-> v]
  BY <1>7, <1>8
<1>10. n \in DOMAIN u[Len(u)] /\ u[Len(u)][n] = v
  BY <1>9
<1> QED BY <1>1, <1>5, <1>6, <1>7, <1>9, <1>10, ScopedOpenWith DEF u

-----------------------------------------------------------------------------
\* Each operation is a step of Bindings.

\* set_entry writes one name.
LEMMA SetWrites ==
  ASSUME CacheInv, CacheInv', NEW n \in Names, NEW v, NEW attrs, SetEntry(n, v, attrs)
  PROVE  Wrote(Names, Entry, entries, entries', n, entries'[n])
<1>1. entries \in [Names -> Entry] /\ entries' \in [Names -> Entry]
  BY DEF CacheInv, HonestTable, Table
<1>2. \A m \in Names : m # n => entries'[m] = entries[m]
  BY <1>1 DEF SetEntry
<1> QED BY <1>1, <1>2 DEF Wrote

\* Nothing written is a name that is written with what it holds.
LEMMA SameWrites ==
  ASSUME CacheInv, NEW n \in Names, entries' = entries
  PROVE  Wrote(Names, Entry, entries, entries', n, entries'[n])
BY DEF CacheInv, HonestTable, Table, Wrote

LEMMA MarkWrites ==
  ASSUME CacheInv, CacheInv', NEW n \in Names, NEW attrs, Mark(n, attrs)
  PROVE  Wrote(Names, Entry, entries, entries', n, entries'[n])
<1>1. CASE Present(n)
  <2>1. entries \in [Names -> Entry] /\ entries' \in [Names -> Entry]
    BY DEF CacheInv, HonestTable, Table
  <2>2. \A m \in Names : m # n => entries'[m] = entries[m]
    BY <1>1, <2>1 DEF Mark
  <2> QED BY <2>1, <2>2 DEF Wrote
<1>2. CASE ~Present(n)
  BY <1>2, SetWrites DEF Mark
<1> QED BY <1>1, <1>2

LEMMA LocalWrites ==
  ASSUME CacheInv, CacheInv', NEW n \in Names, NEW v \in Value, Local(n, v)
  PROVE  Wrote(Names, Entry, entries, entries', n, entries'[n])
<1>1. CASE Present(n) /\ (v = 0 \/ Refused(n))
  BY <1>1, SameWrites DEF Local
<1>2. CASE ~(Present(n) /\ (v = 0 \/ Refused(n)))
  BY <1>2, SetWrites DEF Local
<1> QED BY <1>1, <1>2

LEMMA DeclareWrites ==
  ASSUME CacheInv, CacheInv', NEW n \in Names, NEW v \in Value, Declare(n, v)
  PROVE  Wrote(Names, Entry, entries, entries', n, entries'[n])
<1>1. entries \in [Names -> Entry] /\ entries' \in [Names -> Entry]
  BY DEF CacheInv, HonestTable, Table
<1>2. \A m \in Names : m # n => entries'[m] = entries[m]
  BY <1>1 DEF Declare
<1> QED BY <1>1, <1>2 DEF Wrote

LEMMA LocalStep ==
  ASSUME CacheInv, CacheInv', NEW n \in Names, NEW v \in Value, Local(n, v)
  PROVE  Scoped!Assign(n) \/ \E i \in 1..Len(locals) : Scoped!Bind(i, n)
<1> DEFINE f == Len(locals)
<1>1. f \in DOMAIN locals /\ locals' = Save(f, n)
  BY DEF Local, CanSave
<1>2. Wrote(Names, Entry, entries, entries', n, entries'[n])
  BY LocalWrites
<1>3. CASE SavedIn(locals[f], n)
  BY <1>1, <1>2, <1>3, SaveIs, WriteIsAssign
<1>4. CASE ~SavedIn(locals[f], n)
  <2>1. \A g \in f..Len(locals) : ~SavedIn(locals[g], n)
    <3>1. f \in Nat
      BY DEF CacheInv
    <3> QED BY <1>4, <3>1
  <2>2. SavedTo(Names, Entry, entries, Keeps(locals), Keeps(locals'), f, n)
    BY <1>1, <2>1, SaveIs
  <2> QED BY <1>2, <2>2, SaveIsBind
<1> QED BY <1>3, <1>4

LEMMA DeclareStep ==
  ASSUME ~PrefixedDeclare, CacheInv, CacheInv', NEW n \in Names, NEW v \in Value, Declare(n, v)
  PROVE  \E i \in 1..Len(locals) : Scoped!Bind(i, n)
<1> DEFINE f == functionFrames[Len(functionFrames)]
<1>1. /\ f \in DOMAIN locals /\ locals' = Save(f, n) /\ ~SavedIn(locals[f], n)
      /\ \A g \in f + 1..Len(locals) : ~SavedIn(locals[g], n)
  BY DEF Declare, CanSave, NotYetSaved
<1> HIDE DEF f
<1>2. \A g \in f..Len(locals) : ~SavedIn(locals[g], n)
  <2>1. f \in Nat /\ Len(locals) \in Nat
    BY <1>1 DEF CacheInv
  <2>2. \A g \in f..Len(locals) : g = f \/ g \in f + 1..Len(locals)
    BY <2>1
  <2> QED BY <1>1, <2>2
<1>3. SavedTo(Names, Entry, entries, Keeps(locals), Keeps(locals'), f, n)
  BY <1>1, <1>2, SaveIs
<1> QED BY <1>3, DeclareWrites, SaveIsBind

\* The table and the frames stay as they are.
LEMMA SameIsSame ==
  ASSUME entries' = entries, locals' = locals
  PROVE  Scoped!bvars' = Scoped!bvars
BY ScopedVars

LEMMA ReturnStep ==
  ASSUME CacheInv, CacheInv', Return
  PROVE  Scoped!Close \/ UNCHANGED Scoped!bvars
<1>1. CASE Len(locals) > calls[Len(calls)].mark
  <2>1. calls \in Seq(Activation) /\ calls # <<>> /\ locals \in Seq(Seq(SavedEntry))
    BY DEF Return, CacheInv
  <2>2. Len(calls) \in DOMAIN calls
    BY <2>1
  <2>3. calls[Len(calls)] \in Activation
    BY <2>1, <2>2
  <2>4. Len(locals) > 0
    BY <1>1, <2>1, <2>3 DEF Activation
  <2>5. locals # <<>>
    BY <2>4
  <2>6. locals' = SubSeq(locals, 1, Len(locals) - 1) /\ entries' = Popped(locals[Len(locals)], Table).entries
    BY <1>1 DEF Return
  <2> QED BY <2>5, <2>6, PopIsClose
<1>2. CASE ~(Len(locals) > calls[Len(calls)].mark)
  BY <1>2, SameIsSame DEF Return
<1> QED BY <1>1, <1>2

LEMMA ScopedStep ==
  ASSUME ~PrefixedDeclare, CacheInv, CacheInv', [VNext]_vvars
  PROVE  Scoped!BNext \/ UNCHANGED Scoped!bvars
<1>1. locals \in Seq(Seq(SavedEntry))
  BY DEF CacheInv
<1>2. ASSUME NEW n \in Names, NEW v \in Value \ {0}, Assign(n, v) PROVE Scoped!BNext
  <2>1. Wrote(Names, Entry, entries, entries', n, entries'[n]) /\ locals' = locals
    BY <1>2, SetWrites DEF Assign
  <2>2. Scoped!Assign(n)
    BY <2>1, WriteIsAssign
  <2> QED BY <1>1, <2>2, ScopedNext
<1>3. ASSUME NEW n \in Names, NEW v \in Value, Local(n, v) PROVE Scoped!BNext
  BY <1>1, <1>3, LocalStep, ScopedNext
<1>4. ASSUME NEW n \in Names, NEW v \in Value, Declare(n, v) PROVE Scoped!BNext
  BY <1>1, <1>4, DeclareStep, ScopedNext
<1>5. ASSUME NEW n \in Names, Mark(n, ReadOnly) PROVE Scoped!BNext
  <2>1. Wrote(Names, Entry, entries, entries', n, entries'[n]) /\ locals' = locals
    BY <1>5, MarkWrites DEF Mark
  <2>2. Scoped!Assign(n)
    BY <2>1, WriteIsAssign
  <2> QED BY <1>1, <2>2, ScopedNext
<1>6. ASSUME NEW n \in Names, Unset(n) PROVE Scoped!BNext
  <2>1. Wrote(Names, Entry, entries, entries', n, entries'[n]) /\ locals' = locals
    BY <1>6, SetWrites DEF Unset
  <2>2. Scoped!Assign(n)
    BY <2>1, WriteIsAssign
  <2> QED BY <1>1, <2>2, ScopedNext
<1>7. ASSUME NEW kind \in {"function", "command"}, Call(kind) PROVE Scoped!BNext
  <2>1. Scoped!Open
    BY <1>7, PushIsOpen DEF Call, Starts
  <2> QED BY <1>1, <2>1, ScopedNext
<1>8. ASSUME NEW kind \in {"function", "command"}, NEW n \in Names, NEW v \in Value \ {0}, CallWith(kind, n, v)
      PROVE  Scoped!BNext
  <2>1. Wrote(Names, Entry, entries, entries', n, entries'[n])
    BY <1>8, SetWrites DEF CallWith
  <2>2. locals' = Append(locals, <<[name |-> n, previous |-> entries[n]]>>)
    BY <1>8 DEF CallWith, Starts
  <2>3. Scoped!OpenWith(n)
    BY <2>1, <2>2, PushIsOpenWith
  <2> QED BY <1>1, <2>3, ScopedNext
<1>9. CASE Return
  BY <1>1, <1>9, ReturnStep, ScopedNext
<1>10. CASE Recover
  <2>1. locals' = <<>> /\ entries' = Unwound(locals, Table).entries
    BY <1>10 DEF Recover
  <2>2. Scoped!CloseAll
    BY <2>1, UnwindIsCloseAll
  <2> QED BY <1>1, <2>2, ScopedNext
<1>11. CASE UNCHANGED vvars
  BY <1>11, SameIsSame DEF vvars
<1> QED BY <1>2, <1>3, <1>4, <1>5, <1>6, <1>7, <1>8, <1>9, <1>10, <1>11 DEF VNext

\* variables.rs: saving into frames and restoring them implements scoped variables,
\* in both dialects, where no prefix assignment hides a name that the function then
\* declares: what a function or a command declared is gone when it ends, attributes
\* included, and nothing else is.
THEOREM LocalsAreScopes ==
  ASSUME ~PrefixedDeclare
  PROVE  VSpec => VariablesAreScoped
<1>1. VInit /\ CacheInv => Scoped!BInit
  <2> SUFFICES ASSUME VInit, CacheInv PROVE Scoped!BInit
    OBVIOUS
  <2>1. locals = <<>> /\ locals \in Seq(Seq(SavedEntry)) /\ entries \in [Names -> Entry]
    BY DEF VInit, CacheInv, HonestTable, Table
  <2>2. Keeps(locals) = <<>>
    BY <2>1 DEF Keeps
  <2>3. BaseOf(entries, locals) = Base(Names, entries, <<>>) /\ StackOf(entries, locals) = Stack(entries, <<>>)
    BY <2>1, <2>2, MappingIs
  <2>4. Base(Names, entries, <<>>) = entries /\ Stack(entries, <<>>) = <<>>
    BY <2>1, DropSettles
  <2> QED BY <2>1, <2>3, <2>4, ScopedInit
<1>2. CacheInv /\ CacheInv' /\ [VNext]_vvars => [Scoped!BNext]_(Scoped!bvars)
  BY ScopedStep
<1>3. VSpec => []CacheInv
  BY CacheInvHolds
<1> QED BY <1>1, <1>2, <1>3, PTL DEF VSpec, VariablesAreScoped, Scoped!BSpec
=============================================================================
