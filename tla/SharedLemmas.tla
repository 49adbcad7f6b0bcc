---------------------------- MODULE SharedLemmas ----------------------------
(* What several of the proofs need.  Least and greatest elements of sets of   *)
(* natural numbers, and induction over a set of them, in a form the provers   *)
(* can use: the induction theorems of the library take an operator, these     *)
(* take a set.  And frames: what is saved above a place is what was there.    *)
EXTENDS Naturals, Sequences, FiniteSetTheorems, WellFoundedInduction, TLAPS

\* The initial segments of a set of numbers are ordered by inclusion.
UpTo(S, m) == {k \in S : k <= m}

LEMMA LeastExists ==
  ASSUME NEW S \in SUBSET Nat, S # {}
  PROVE  \E m \in S : \A k \in S : m <= k
<1>1. PICK n \in S : TRUE
  OBVIOUS
<1> DEFINE N == 0..n
           R == StrictSubsetOrdering(N)
           F == {UpTo(S, m) : m \in UpTo(S, n)}
<1>2. IsWellFoundedOn(R, FiniteSubsetsOf(N))
  BY FS_StrictSubsetOrderingWellFounded
<1>3. FiniteSubsetsOf(N) = SUBSET N
  <2>1. n \in Int /\ 0 \in Int
    BY <1>1
  <2>2. IsFiniteSet(N)
    BY <2>1, FS_Interval
  <2>3. QED BY <2>2, FS_FiniteSubsetsOfFinite
<1>4. F \subseteq SUBSET N
  <2> SUFFICES ASSUME NEW m \in UpTo(S, n) PROVE UpTo(S, m) \subseteq N
    OBVIOUS
  <2>1. m \in Nat /\ m <= n
    BY DEF UpTo
  <2>2. ASSUME NEW x \in S, x <= m PROVE x \in N
    <3>1. x \in Nat /\ n \in Nat
      OBVIOUS
    <3>2. QED BY <2>1, <2>2, <3>1
  <2>3. QED BY <2>2 DEF UpTo
<1>5. UpTo(S, n) \in F
  BY <1>1 DEF UpTo
<1>6. PICK U \in F : \A V \in F : ~(<<V, U>> \in R)
  <2> HIDE DEF N, R, F
  <2>1. IsWellFoundedOn(R, SUBSET N) BY <1>2, <1>3
  <2>2. F # {} BY <1>5
  <2>3. QED BY <2>1, <2>2, <1>4, WFMin
<1>7. PICK m \in UpTo(S, n) : U = UpTo(S, m)
  OBVIOUS
<1>8. ASSUME NEW k \in S, ~(m <= k) PROVE FALSE
  <2>1. m \in Nat /\ k \in Nat /\ k < m /\ m <= n
    BY <1>7, <1>8 DEF UpTo
  <2>2. UpTo(S, k) \in F
    BY <1>1, <2>1, <1>8 DEF UpTo
  <2>3. UpTo(S, k) \subseteq U /\ m \in U /\ m \notin UpTo(S, k)
    <3>1. m \in S
      BY DEF UpTo
    <3>2. \A x \in S : x <= k => x <= m
      BY <2>1
    <3>3. U = {x \in S : x <= m} /\ UpTo(S, k) = {x \in S : x <= k} /\ ~(m <= k) /\ m <= m
      BY <1>7, <2>1 DEF UpTo
    <3>4. QED BY <3>1, <3>2, <3>3
  <2>4. <<UpTo(S, k), U>> \in R
    <3>1. UpTo(S, k) \in SUBSET N /\ U \in SUBSET N
      BY <1>4, <2>2
    <3>2. UpTo(S, k) # U
      BY <2>3
    <3>3. QED BY <2>3, <3>1, <3>2 DEF StrictSubsetOrdering
  <2>5. QED BY <1>6, <2>2, <2>4
<1>9. QED BY <1>7, <1>8 DEF UpTo

LEMMA GreatestExists ==
  ASSUME NEW n \in Nat, NEW S \in SUBSET (1..n), S # {}
  PROVE  \E m \in S : \A k \in S : k <= m
<1> DEFINE T == {n - k : k \in S}
<1>1. T \in SUBSET Nat /\ T # {}
  OBVIOUS
<1>2. PICK t \in T : \A u \in T : t <= u
  <2> HIDE DEF T
  <2>1. QED BY <1>1, LeastExists
<1>3. PICK m \in S : t = n - m
  OBVIOUS
<1>4. ASSUME NEW k \in S PROVE k <= m
  <2>1. n - m <= n - k
    BY <1>2, <1>3
  <2>2. QED BY <2>1
<1>5. QED BY <1>3, <1>4

\* Induction over a set of numbers.
LEMMA SetInduction ==
  ASSUME NEW S \in SUBSET Nat, 0 \in S, \A n \in S : n + 1 \in S
  PROVE  S = Nat
<1>1. SUFFICES ASSUME Nat \ S # {} PROVE FALSE
  OBVIOUS
<1>2. PICK m \in Nat \ S : \A k \in Nat \ S : m <= k
  BY <1>1, LeastExists
<1>3. m # 0 /\ m - 1 \in Nat
  BY <1>2
<1>4. m - 1 \in S
  BY <1>2, <1>3
<1>5. (m - 1) + 1 = m
  BY <1>2
<1>6. QED BY <1>2, <1>4, <1>5

\* What holds first and is kept from each number to the next holds up to the last.
LEMMA StepwiseIn ==
  ASSUME NEW T, NEW n \in Nat, NEW g, g[0] \in T, \A i \in 1..n : g[i - 1] \in T => g[i] \in T
  PROVE  \A i \in 0..n : g[i] \in T
<1> DEFINE S == {i \in Nat : i <= n => g[i] \in T}
<1>1. S \in SUBSET Nat /\ 0 \in S
  OBVIOUS
<1>2. ASSUME NEW i \in S PROVE i + 1 \in S
  <2>1. i + 1 \in Nat /\ (i + 1) - 1 = i
    OBVIOUS
  <2>2. i + 1 <= n => i + 1 \in 1..n /\ g[i] \in T
    OBVIOUS
  <2> QED BY <2>1, <2>2
<1> HIDE DEF S
<1>3. S = Nat
  BY <1>1, <1>2, SetInduction
<1> QED BY <1>3 DEF S

\* g is what the steps F make of t, one after the other.
Iterates(g, t, F, n) == g[0] = t /\ \A i \in 1..n : g[i] = F[i][g[i - 1]]

\* Steps of a finite list can be taken one after the other.
LEMMA IterationExists ==
  ASSUME NEW T, NEW n \in Nat, NEW F \in [1..n -> [T -> T]], NEW t \in T
  PROVE  \E g \in [0..n -> T] : Iterates(g, t, F, n)
<1> DEFINE S == {m \in Nat : m <= n => \E g \in [0..m -> T] : Iterates(g, t, F, m)}
<1>1. 0 \in S
  <2> DEFINE g == [i \in 0..0 |-> t]
  <2>1. g \in [0..0 -> T] /\ Iterates(g, t, F, 0)
    BY DEF Iterates
  <2> QED BY <2>1
<1>2. ASSUME NEW m \in S PROVE m + 1 \in S
  <2> SUFFICES ASSUME m + 1 <= n PROVE \E g \in [0..m + 1 -> T] : Iterates(g, t, F, m + 1)
    OBVIOUS
  <2>1. m \in Nat /\ m <= n /\ m + 1 \in 1..n
    OBVIOUS
  <2>2. PICK f \in [0..m -> T] : Iterates(f, t, F, m)
    BY <2>1
  <2> DEFINE g == [i \in 0..m + 1 |-> IF i <= m THEN f[i] ELSE F[m + 1][f[m]]]
  <2>3. F[m + 1] \in [T -> T] /\ f[m] \in T
    BY <2>1
  <2>4. g \in [0..m + 1 -> T]
    BY <2>1, <2>3
  <2>5. ASSUME NEW i \in 1..m + 1 PROVE g[i] = F[i][g[i - 1]]
    <3>1. CASE i <= m
      <4>1. f[i] = F[i][f[i - 1]]
        BY <2>1, <2>2, <3>1 DEF Iterates
      <4>2. g[i] = f[i] /\ g[i - 1] = f[i - 1]
        BY <2>1, <3>1
      <4> QED BY <4>1, <4>2
    <3>2. CASE i = m + 1
      <4>1. g[i] = F[m + 1][f[m]] /\ g[m] = f[m] /\ i - 1 = m
        BY <2>1, <3>2
      <4> QED BY <3>2, <4>1
    <3> QED BY <2>1, <3>1, <3>2
  <2>6. Iterates(g, t, F, m + 1)
    <3>1. g[0] = f[0]
      BY <2>1
    <3> QED BY <2>2, <2>5, <3>1 DEF Iterates
  <2> QED BY <2>4, <2>6
<1> HIDE DEF S
<1>3. S = Nat
  <2>1. S \in SUBSET Nat
    BY DEF S
  <2> QED BY <1>1, <1>2, <2>1, SetInduction
<1> QED BY <1>3 DEF S

-----------------------------------------------------------------------------
\* What is in front of a place of a sequence.
LEMMA PrefixIs ==
  ASSUME NEW S, NEW s \in Seq(S), NEW m \in 0..Len(s)
  PROVE  /\ SubSeq(s, 1, m) \in Seq(S) /\ Len(SubSeq(s, 1, m)) = m
         /\ \A j \in 1..m : SubSeq(s, 1, m)[j] = s[j]
<1>1. Len(s) \in Nat /\ m \in Nat /\ m <= Len(s)
  OBVIOUS
<1>2. SubSeq(s, 1, m) = [j \in 1..m |-> s[j]]
  BY <1>1
<1>3. \A j \in 1..m : s[j] \in S
  BY <1>1
<1> QED BY <1>1, <1>2, <1>3

\* A sequence without its last element is one of the same elements.
LEMMA FrontIsSeq ==
  ASSUME NEW S, NEW s \in Seq(S), s # <<>>
  PROVE  /\ SubSeq(s, 1, Len(s) - 1) \in Seq(S) /\ Len(SubSeq(s, 1, Len(s) - 1)) = Len(s) - 1
         /\ \A j \in 1..Len(s) - 1 : SubSeq(s, 1, Len(s) - 1)[j] = s[j]
<1>1. Len(s) - 1 \in 0..Len(s)
  OBVIOUS
<1> QED BY <1>1, PrefixIs

-----------------------------------------------------------------------------
(* Frames: slots sl, which hold what was bound last, and a sequence fr of frames, *)
(* each of which keeps what some slots held when it was innermost.  S are the     *)
(* slots and C what they can hold.                                                *)

Kept(S, C) == UNION {[D -> C] : D \in SUBSET S}

\* What a slot was when frame i was the innermost: what the first frame above saved.
Savers(fr, i, d) == {j \in i + 1..Len(fr) : d \in DOMAIN fr[j]}
Seen(sl, fr, i, d) ==
    IF Savers(fr, i, d) = {} THEN sl[d]
    ELSE fr[CHOOSE j \in Savers(fr, i, d) : \A k \in Savers(fr, i, d) : j <= k][d]

\* The environment below all frames and the layers over it.
Base(S, sl, fr) == [d \in S |-> Seen(sl, fr, 0, d)]
Layer(sl, fr, i) == [d \in DOMAIN fr[i] |-> Seen(sl, fr, i, d)]
Stack(sl, fr) == [i \in 1..Len(fr) |-> Layer(sl, fr, i)]
Inner(fr, d) ==
    IF Savers(fr, 0, d) = {} THEN 0
    ELSE CHOOSE i \in Savers(fr, 0, d) : \A j \in Savers(fr, 0, d) : j <= i

\* Where no frame above saved a slot, it is seen as what it holds.
LEMMA SeenUnsaved ==
  ASSUME NEW sl, NEW fr, NEW i, NEW d, Savers(fr, i, d) = {}
  PROVE  Seen(sl, fr, i, d) = sl[d]
BY DEF Seen

\* Otherwise as what the first of these frames kept.
LEMMA SeenSaved ==
  ASSUME NEW sl, NEW fr, NEW i \in Nat, NEW d, NEW j \in Savers(fr, i, d),
         \A k \in Savers(fr, i, d) : j <= k, Len(fr) \in Nat
  PROVE  Seen(sl, fr, i, d) = fr[j][d]
<1> DEFINE S == Savers(fr, i, d)
           m == CHOOSE x \in S : \A k \in S : x <= k
<1>1. m \in S /\ \A k \in S : m <= k
  OBVIOUS
<1>2. S \subseteq Nat
  BY DEF Savers
<1>3. m = j
  BY <1>1, <1>2
<1>4. Seen(sl, fr, i, d) = fr[m][d]
  BY DEF Seen
<1>5. QED BY <1>3, <1>4

\* There is a first one.
LEMMA FirstSaver ==
  ASSUME NEW fr, NEW i \in Nat, NEW d, Savers(fr, i, d) # {}, Len(fr) \in Nat
  PROVE  \E j \in Savers(fr, i, d) : \A k \in Savers(fr, i, d) : j <= k
<1>1. Savers(fr, i, d) \in SUBSET Nat
  BY DEF Savers
<1>2. QED BY <1>1, LeastExists

\* What is seen depends on the savers, on what the first of them kept and, without one, on the slot.
LEMMA SeenSame ==
  ASSUME NEW sl, NEW fr, NEW sl2, NEW fr2, NEW i \in Nat, NEW d, Len(fr) \in Nat, Len(fr2) \in Nat,
         Savers(fr2, i, d) = Savers(fr, i, d),
         \A j \in Savers(fr, i, d) : fr2[j][d] = fr[j][d],
         Savers(fr, i, d) = {} => sl2[d] = sl[d]
  PROVE  Seen(sl2, fr2, i, d) = Seen(sl, fr, i, d)
<1>1. CASE Savers(fr, i, d) = {}
  BY <1>1, SeenUnsaved
<1>2. CASE Savers(fr, i, d) # {}
  <2>1. PICK j \in Savers(fr, i, d) : \A k \in Savers(fr, i, d) : j <= k
    BY <1>2, FirstSaver
  <2>2. Seen(sl, fr, i, d) = fr[j][d] /\ Seen(sl2, fr2, i, d) = fr2[j][d]
    BY <2>1, SeenSaved
  <2>3. QED BY <2>2
<1>3. QED BY <1>1, <1>2

\* What is seen is something a slot can hold.
LEMMA SeenType ==
  ASSUME NEW S, NEW C, NEW sl \in [S -> C], NEW fr \in Seq(Kept(S, C)), NEW i \in Nat, NEW d \in S
  PROVE  Seen(sl, fr, i, d) \in C
<1>1. CASE Savers(fr, i, d) = {}
  BY <1>1, SeenUnsaved
<1>2. CASE Savers(fr, i, d) # {}
  <2>1. PICK j \in Savers(fr, i, d) : \A k \in Savers(fr, i, d) : j <= k
    BY <1>2, FirstSaver
  <2>2. Seen(sl, fr, i, d) = fr[j][d]
    BY <2>1, SeenSaved
  <2>3. fr[j] \in Kept(S, C) /\ d \in DOMAIN fr[j]
    BY DEF Savers
  <2>4. QED BY <2>2, <2>3 DEF Kept
<1>3. QED BY <1>1, <1>2

\* What is seen below all frames is an environment.
LEMMA BaseType ==
  ASSUME NEW S, NEW C, NEW sl \in [S -> C], NEW fr \in Seq(Kept(S, C))
  PROVE  Base(S, sl, fr) \in [S -> C]
BY SeenType DEF Base

\* The innermost saver, if there is one.
LEMMA InnerIs ==
  ASSUME NEW fr, Len(fr) \in Nat, NEW d
  PROVE  \/ Inner(fr, d) = 0 /\ Savers(fr, 0, d) = {}
         \/ /\ Inner(fr, d) \in 1..Len(fr) /\ d \in DOMAIN fr[Inner(fr, d)]
            /\ \A j \in 1..Len(fr) : d \in DOMAIN fr[j] => j <= Inner(fr, d)
<1>1. CASE Savers(fr, 0, d) = {}
  BY <1>1 DEF Inner
<1>2. CASE Savers(fr, 0, d) # {}
  <2>1. Savers(fr, 0, d) \in SUBSET (1..Len(fr))
    BY DEF Savers
  <2>2. \E i \in Savers(fr, 0, d) : \A j \in Savers(fr, 0, d) : j <= i
    BY <1>2, <2>1, GreatestExists
  <2>3. Inner(fr, d) \in Savers(fr, 0, d) /\ \A j \in Savers(fr, 0, d) : j <= Inner(fr, d)
    BY <1>2, <2>2 DEF Inner
  <2>4. QED BY <2>3 DEF Savers
<1>3. QED BY <1>1, <1>2

\* From its innermost saver on, a slot is seen as what it holds now.
LEMMA SeenFromInner ==
  ASSUME NEW sl, NEW fr, Len(fr) \in Nat, NEW d, NEW i \in Nat, Inner(fr, d) <= i
  PROVE  Savers(fr, i, d) = {} /\ Seen(sl, fr, i, d) = sl[d]
<1>1. Savers(fr, i, d) = {}
  <2>1. Savers(fr, i, d) \subseteq Savers(fr, 0, d)
    BY DEF Savers
  <2>2. ASSUME NEW j \in Savers(fr, i, d) PROVE FALSE
    <3>1. j \in 1..Len(fr) /\ d \in DOMAIN fr[j] /\ i < j
      BY DEF Savers
    <3>2. j <= Inner(fr, d) /\ Inner(fr, d) \in Nat
      BY <3>1, <2>1, InnerIs
    <3>3. QED BY <3>1, <3>2
  <2>3. QED BY <2>2
<1>2. QED BY <1>1, SeenUnsaved

\* A layer for each frame, of what the frame keeps.
LEMMA StackShape ==
  ASSUME NEW sl, NEW fr, Len(fr) \in Nat
  PROVE  /\ Len(Stack(sl, fr)) = Len(fr) /\ DOMAIN Stack(sl, fr) = 1..Len(fr)
         /\ \A i \in 1..Len(fr) : Stack(sl, fr)[i] = Layer(sl, fr, i) /\ DOMAIN Layer(sl, fr, i) = DOMAIN fr[i]
BY DEF Stack, Layer

\* A frame keeps slots.
LEMMA KeptSlots == ASSUME NEW S, NEW C, NEW fr \in Seq(Kept(S, C)), NEW i \in 1..Len(fr) PROVE DOMAIN fr[i] \subseteq S
<1>1. fr[i] \in Kept(S, C)
  OBVIOUS
<1>2. QED BY <1>1 DEF Kept

-----------------------------------------------------------------------------
(* What changes of slots and frames are to the layers. *)

\* A frame that keeps nothing hides nothing.
LEMMA PushSeen ==
  ASSUME NEW S, NEW C, NEW sl \in [S -> C], NEW fr \in Seq(Kept(S, C)), NEW i \in Nat, NEW d
  PROVE  Seen(sl, Append(fr, <<>>), i, d) = Seen(sl, fr, i, d)
<1> DEFINE fr2 == Append(fr, <<>>)
           n == Len(fr)
<1>1. Len(fr2) = n + 1 /\ n \in Nat /\ \A j \in 1..n : fr2[j] = fr[j]
  OBVIOUS
<1>2. fr2[n + 1] = <<>> /\ DOMAIN fr2[n + 1] = {}
  OBVIOUS
<1> HIDE DEF fr2
<1>3. Savers(fr2, i, d) = Savers(fr, i, d)
  BY <1>1, <1>2 DEF Savers
<1>4. \A j \in Savers(fr, i, d) : fr2[j][d] = fr[j][d]
  BY <1>1 DEF Savers
<1>5. Len(fr) \in Nat /\ Len(fr2) \in Nat
  BY <1>1
<1> HIDE DEF n
<1>6. Seen(sl, fr2, i, d) = Seen(sl, fr, i, d)
  BY <1>3, <1>4, <1>5, SeenSame
<1> QED BY <1>6 DEF fr2

\* A frame that keeps nothing is pushed.
LEMMA PushOpens ==
  ASSUME NEW S, NEW C, NEW sl \in [S -> C], NEW fr \in Seq(Kept(S, C))
  PROVE  /\ Stack(sl, Append(fr, <<>>)) = Append(Stack(sl, fr), <<>>)
         /\ Base(S, sl, Append(fr, <<>>)) = Base(S, sl, fr)
<1> DEFINE fr2 == Append(fr, <<>>)
           n == Len(fr)
<1>1. Len(fr2) = n + 1 /\ n \in Nat /\ \A i \in 1..n : fr2[i] = fr[i]
  OBVIOUS
<1>2. fr2[n + 1] = <<>> /\ DOMAIN fr2[n + 1] = {}
  OBVIOUS
<1> HIDE DEF fr2
<1>3. \A i \in Nat : \A d : Seen(sl, fr2, i, d) = Seen(sl, fr, i, d)
  BY PushSeen DEF fr2
<1>4. Base(S, sl, fr2) = Base(S, sl, fr)
  BY <1>3 DEF Base
<1>5. \A i \in 1..n : Layer(sl, fr2, i) = Layer(sl, fr, i)
  BY <1>1, <1>3 DEF Layer
<1>6. Layer(sl, fr2, n + 1) = <<>>
  BY <1>2 DEF Layer
<1>7. Stack(sl, fr2) = Append(Stack(sl, fr), <<>>)
  BY <1>1, <1>5, <1>6 DEF Stack
<1>8. QED BY <1>4, <1>7 DEF fr2

\* Every frame is dropped and the slots stay.
LEMMA DropSettles ==
  ASSUME NEW S, NEW C, NEW sl \in [S -> C]
  PROVE  Stack(sl, <<>>) = <<>> /\ Base(S, sl, <<>>) = sl
<1>1. \A d \in S : Seen(sl, <<>>, 0, d) = sl[d]
  BY SeenUnsaved DEF Savers
<1>2. QED BY <1>1 DEF Stack, Base

\* One slot is written.
Wrote(S, C, sl, sl2, d, v) == sl2 \in [S -> C] /\ sl2[d] = v /\ \A y \in S : y # d => sl2[y] = sl[y]

\* It is seen from the innermost saver on.
LEMMA WriteSeen ==
  ASSUME NEW S, NEW C, NEW sl, NEW sl2, NEW fr \in Seq(Kept(S, C)), NEW d \in S, NEW v, Wrote(S, C, sl, sl2, d, v),
         NEW i \in Nat, NEW x \in S
  PROVE  Seen(sl2, fr, i, x) = IF x = d /\ Inner(fr, d) <= i THEN v ELSE Seen(sl, fr, i, x)
<1>1. sl2[d] = v /\ \A y \in S : y # d => sl2[y] = sl[y]
  BY DEF Wrote
<1>2. CASE x = d /\ Inner(fr, d) <= i
  <2>1. Seen(sl2, fr, i, d) = sl2[d]
    BY <1>2, SeenFromInner
  <2>2. QED BY <1>1, <1>2, <2>1
<1>3. CASE x # d
  <2>1. Seen(sl2, fr, i, x) = Seen(sl, fr, i, x)
    BY <1>1, <1>3, SeenSame
  <2>2. QED BY <1>3, <2>1
<1>4. CASE x = d /\ ~(Inner(fr, d) <= i)
  <2>1. Inner(fr, d) \in 1..Len(fr) /\ d \in DOMAIN fr[Inner(fr, d)] /\ i < Inner(fr, d)
    BY <1>4, InnerIs
  <2>2. Savers(fr, i, x) # {}
    BY <1>4, <2>1 DEF Savers
  <2>3. Seen(sl2, fr, i, x) = Seen(sl, fr, i, x)
    BY <2>2 DEF Seen
  <2>4. QED BY <1>4, <2>3
<1>5. QED BY <1>2, <1>3, <1>4

\* One slot gets a value from frame m on, and frame m binds it.
Rebinds(S, sl, fr, sl2, fr2, m, d, v) ==
    /\ Base(S, sl2, fr2) = Base(S, sl, fr)
    /\ Stack(sl2, fr2) = [Stack(sl, fr) EXCEPT ![m] = [x \in DOMAIN @ \cup {d} |-> IF x = d THEN v ELSE @[x]]]
    /\ d \in DOMAIN Stack(sl2, fr2)[m] /\ Stack(sl2, fr2)[m][d] = v

\* What that means for the layers.
LEMMA SeenRebinds ==
  ASSUME NEW S, NEW C, NEW sl, NEW sl2, NEW fr \in Seq(Kept(S, C)), NEW fr2 \in Seq(Kept(S, C)), Len(fr2) = Len(fr),
         NEW m \in 1..Len(fr), NEW d \in S, NEW v,
         DOMAIN fr2[m] = DOMAIN fr[m] \cup {d},
         \A i \in 1..Len(fr) : i # m => DOMAIN fr2[i] = DOMAIN fr[i],
         \A i \in m + 1..Len(fr) : d \notin DOMAIN fr[i],
         \A i \in Nat, x \in S : Seen(sl2, fr2, i, x) = IF x = d /\ m <= i THEN v ELSE Seen(sl, fr, i, x)
  PROVE  Rebinds(S, sl, fr, sl2, fr2, m, d, v)
<1>1. \A i \in 1..Len(fr) : DOMAIN fr[i] \subseteq S
  BY KeptSlots
<1>2. Base(S, sl2, fr2) = Base(S, sl, fr)
  <2>1. \A x \in S : Seen(sl2, fr2, 0, x) = Seen(sl, fr, 0, x)
    OBVIOUS
  <2>2. QED BY <2>1 DEF Base
<1>3. ASSUME NEW i \in 1..Len(fr), i # m PROVE Layer(sl2, fr2, i) = Layer(sl, fr, i)
  <2>1. DOMAIN fr2[i] = DOMAIN fr[i]
    BY <1>3
  <2>2. \A x \in DOMAIN fr[i] : ~(x = d /\ m <= i)
    BY <1>3
  <2>3. \A x \in DOMAIN fr[i] : Seen(sl2, fr2, i, x) = Seen(sl, fr, i, x)
    BY <1>1, <2>2
  <2>4. QED BY <2>1, <2>3 DEF Layer
<1>4. Layer(sl2, fr2, m) = [x \in DOMAIN fr[m] \cup {d} |-> IF x = d THEN v ELSE Layer(sl, fr, m)[x]]
  <2>1. \A x \in DOMAIN fr[m] : Layer(sl, fr, m)[x] = Seen(sl, fr, m, x)
    BY DEF Layer
  <2>2. DOMAIN fr[m] \subseteq S /\ m \in Nat /\ m <= m
    BY <1>1
  <2>3. Seen(sl2, fr2, m, d) = v
    BY <2>2
  <2>4. \A x \in DOMAIN fr[m] : x # d => Seen(sl2, fr2, m, x) = Seen(sl, fr, m, x)
    BY <2>2
  <2>5. \A x \in DOMAIN fr[m] \cup {d} :
           Seen(sl2, fr2, m, x) = IF x = d THEN v ELSE Layer(sl, fr, m)[x]
    BY <2>1, <2>3, <2>4
  <2>6. QED BY <2>5 DEF Layer
<1>5. Len(fr) \in Nat /\ Len(fr2) \in Nat
  OBVIOUS
<1>6. DOMAIN Stack(sl, fr) = 1..Len(fr) /\ DOMAIN Layer(sl, fr, m) = DOMAIN fr[m]
  BY <1>5 DEF Stack, Layer
<1>7. Stack(sl2, fr2) = [Stack(sl, fr) EXCEPT ![m] = [x \in DOMAIN @ \cup {d} |-> IF x = d THEN v ELSE @[x]]]
  <2>1. \A i \in 1..Len(fr) : Stack(sl, fr)[i] = Layer(sl, fr, i)
    BY <1>5, StackShape
  <2>2. Stack(sl2, fr2) = [i \in 1..Len(fr) |-> Layer(sl2, fr2, i)]
    BY DEF Stack
  <2>3. QED BY <1>3, <1>4, <1>6, <2>1, <2>2, ZenonT(40)
<1>8. Stack(sl2, fr2)[m] = Layer(sl2, fr2, m)
  BY <1>5, StackShape
<1>9. d \in DOMAIN Layer(sl2, fr2, m) /\ Layer(sl2, fr2, m)[d] = v
  BY <1>4
<1>10. QED BY <1>2, <1>7, <1>8, <1>9 DEF Rebinds

\* One slot gets a value where it is bound now.
Reassigns(S, sl, fr, sl2, fr2, d, v) ==
    IF Inner(fr, d) = 0
    THEN /\ Base(S, sl2, fr2) = [Base(S, sl, fr) EXCEPT ![d] = v]
         /\ Stack(sl2, fr2) = Stack(sl, fr)
    ELSE Inner(fr, d) \in 1..Len(fr) /\ Rebinds(S, sl, fr, sl2, fr2, Inner(fr, d), d, v)

\* That is what writing it does.
LEMMA WriteReassigns ==
  ASSUME NEW S, NEW C, NEW sl, NEW sl2, NEW fr \in Seq(Kept(S, C)), NEW d \in S, NEW v, Wrote(S, C, sl, sl2, d, v)
  PROVE  Reassigns(S, sl, fr, sl2, fr, d, v)
<1>1. Len(fr) \in Nat
  OBVIOUS
<1>2. \A i \in Nat, x \in S : Seen(sl2, fr, i, x) = IF x = d /\ Inner(fr, d) <= i THEN v ELSE Seen(sl, fr, i, x)
  BY WriteSeen
<1>3. CASE Inner(fr, d) = 0
  <2>1. \A i \in 1..Len(fr) : d \notin DOMAIN fr[i]
    BY <1>1, <1>3, InnerIs DEF Savers
  <2>2. Base(S, sl2, fr) = [Base(S, sl, fr) EXCEPT ![d] = v]
    <3>1. Seen(sl2, fr, 0, d) = v
      BY <1>2, <1>3
    <3>2. \A x \in S : x # d => Seen(sl2, fr, 0, x) = Seen(sl, fr, 0, x)
      BY <1>2
    <3> QED BY <3>1, <3>2 DEF Base
  <2>3. ASSUME NEW i \in 1..Len(fr) PROVE Layer(sl2, fr, i) = Layer(sl, fr, i)
    <3>1. DOMAIN fr[i] \subseteq S
      BY KeptSlots
    <3>2. \A x \in DOMAIN fr[i] : Seen(sl2, fr, i, x) = Seen(sl, fr, i, x)
      BY <1>2, <2>1, <3>1
    <3> QED BY <3>2 DEF Layer
  <2>4. Stack(sl2, fr) = Stack(sl, fr)
    BY <2>3 DEF Stack
  <2> QED BY <1>3, <2>2, <2>4 DEF Reassigns
<1>4. CASE Inner(fr, d) # 0
  <2>1. PICK m \in 1..Len(fr) :
           m = Inner(fr, d) /\ d \in DOMAIN fr[m] /\ \A j \in 1..Len(fr) : d \in DOMAIN fr[j] => j <= m
    BY <1>1, <1>4, InnerIs
  <2>2. DOMAIN fr[m] = DOMAIN fr[m] \cup {d}
    BY <2>1
  <2>3. \A i \in m + 1..Len(fr) : d \notin DOMAIN fr[i]
    BY <2>1
  <2>4. Rebinds(S, sl, fr, sl2, fr, m, d, v)
    BY <1>2, <2>1, <2>2, <2>3, SeenRebinds
  <2> QED BY <1>4, <2>1, <2>4 DEF Reassigns
<1> QED BY <1>3, <1>4

\* Frame m saves slot d, which neither it nor one above it had saved.
SavedTo(S, C, sl, fr, fr2, m, d) ==
    /\ m \in 1..Len(fr) /\ \A j \in m..Len(fr) : d \notin DOMAIN fr[j]
    /\ fr2 \in Seq(Kept(S, C)) /\ Len(fr2) = Len(fr)
    /\ \A j \in 1..Len(fr) : j # m => fr2[j] = fr[j]
    /\ DOMAIN fr2[m] = DOMAIN fr[m] \cup {d}
    /\ fr2[m][d] = sl[d]
    /\ \A y \in DOMAIN fr[m] : fr2[m][y] = fr[m][y]

\* It is seen from that frame on.
LEMMA SaveSeen ==
  ASSUME NEW S, NEW C, NEW sl \in [S -> C], NEW fr \in Seq(Kept(S, C)), NEW d \in S, NEW v,
         NEW sl2, Wrote(S, C, sl, sl2, d, v), NEW fr2, NEW m, SavedTo(S, C, sl, fr, fr2, m, d),
         NEW i \in Nat, NEW x \in S
  PROVE  Seen(sl2, fr2, i, x) = IF x = d /\ m <= i THEN v ELSE Seen(sl, fr, i, x)
<1>1. Len(fr) \in Nat
  OBVIOUS
<1>2. m \in 1..Len(fr) /\ Len(fr2) = Len(fr) /\ \A j \in m + 1..Len(fr) : d \notin DOMAIN fr[j]
  BY DEF SavedTo
<1>3. \A y \in S, k \in Nat : y # d => /\ Savers(fr2, k, y) = Savers(fr, k, y)
                                          /\ \A j \in Savers(fr, k, y) : fr2[j][y] = fr[j][y]
  BY <1>1, <1>2 DEF SavedTo, Savers
<1>4. m \in DOMAIN fr2 /\ d \in DOMAIN fr2[m] /\ d \notin DOMAIN fr[m] /\ fr2[m][d] = sl[d]
  BY <1>1, <1>2 DEF SavedTo
<1>5. \A j \in 1..Len(fr) : j # m => fr2[j] = fr[j]
  BY DEF SavedTo
<1>6. sl2[d] = v /\ \A y \in S : y # d => sl2[y] = sl[y]
  BY DEF Wrote
<1>7. CASE x # d
  <2>1. Seen(sl2, fr2, i, x) = Seen(sl, fr, i, x)
    <3>1. Savers(fr2, i, x) = Savers(fr, i, x) /\ \A j \in Savers(fr, i, x) : fr2[j][x] = fr[j][x]
      BY <1>3, <1>7
    <3>2. sl2[x] = sl[x] /\ Len(fr) \in Nat /\ Len(fr2) \in Nat
      BY <1>1, <1>2, <1>6, <1>7
    <3>3. QED BY <3>1, <3>2, SeenSame
  <2>2. QED BY <1>7, <2>1
<1>8. CASE x = d /\ m <= i
  <2>1. Savers(fr2, i, d) = {}
    <3>1. ASSUME NEW j \in i + 1..Len(fr2) PROVE d \notin DOMAIN fr2[j]
      <4>1. j \in m + 1..Len(fr) /\ j # m
        BY <1>1, <1>2, <1>8
      <4> QED BY <1>1, <1>2, <1>5, <4>1
    <3> QED BY <3>1 DEF Savers
  <2>2. Seen(sl2, fr2, i, d) = v
    BY <1>6, <2>1, SeenUnsaved
  <2>3. QED BY <1>1, <1>2, <1>8, <2>2
<1>9. CASE x = d /\ ~(m <= i)
  <2>1. Savers(fr2, i, d) = Savers(fr, i, d) \cup {m}
    BY <1>1, <1>2, <1>4, <1>5, <1>9 DEF Savers
  <2>2. Seen(sl2, fr2, i, d) = Seen(sl, fr, i, d)
    <3>1. CASE Savers(fr, i, d) = {}
      <4>1. m \in Savers(fr2, i, d) /\ \A k \in Savers(fr2, i, d) : m <= k
        BY <1>1, <1>2, <2>1, <3>1
      <4>2. Seen(sl2, fr2, i, d) = fr2[m][d]
        BY <1>1, <1>2, <4>1, SeenSaved
      <4>3. Seen(sl, fr, i, d) = sl[d]
        BY <3>1, SeenUnsaved
      <4>4. QED BY <1>4, <4>2, <4>3
    <3>2. CASE Savers(fr, i, d) # {}
      <4>1. PICK j \in Savers(fr, i, d) : \A k \in Savers(fr, i, d) : j <= k
        BY <1>1, <1>2, <3>2, FirstSaver
      <4>2. j \in 1..Len(fr) /\ j # m /\ ~(m < j)
        BY <1>1, <1>2, <1>4, <4>1 DEF Savers
      <4>3. j \in Savers(fr2, i, d) /\ \A k \in Savers(fr2, i, d) : j <= k
        BY <1>1, <1>2, <2>1, <4>1, <4>2
      <4>4. Seen(sl, fr, i, d) = fr[j][d]
        BY <1>1, <1>2, <4>1, SeenSaved
      <4>5. Seen(sl2, fr2, i, d) = fr2[j][d]
        BY <1>1, <1>2, <4>3, SeenSaved
      <4>6. QED BY <1>5, <4>2, <4>4, <4>5
    <3>3. QED BY <3>1, <3>2
  <2>3. QED BY <1>1, <1>2, <1>9, <2>2
<1>10. QED BY <1>7, <1>8, <1>9

\* So the frame binds it.
LEMMA SaveRebinds ==
  ASSUME NEW S, NEW C, NEW sl \in [S -> C], NEW fr \in Seq(Kept(S, C)), NEW d \in S, NEW v,
         NEW sl2, Wrote(S, C, sl, sl2, d, v), NEW fr2, NEW m, SavedTo(S, C, sl, fr, fr2, m, d)
  PROVE  Rebinds(S, sl, fr, sl2, fr2, m, d, v) /\ Inner(fr, d) <= m
<1>1. m \in 1..Len(fr) /\ Len(fr) \in Nat /\ fr2 \in Seq(Kept(S, C)) /\ Len(fr2) = Len(fr)
  BY DEF SavedTo
<1>2. /\ DOMAIN fr2[m] = DOMAIN fr[m] \cup {d}
      /\ \A i \in 1..Len(fr) : i # m => DOMAIN fr2[i] = DOMAIN fr[i]
      /\ \A i \in m..Len(fr) : d \notin DOMAIN fr[i]
  BY DEF SavedTo
<1>3. \A i \in Nat, x \in S : Seen(sl2, fr2, i, x) = IF x = d /\ m <= i THEN v ELSE Seen(sl, fr, i, x)
  BY SaveSeen
<1>4. Rebinds(S, sl, fr, sl2, fr2, m, d, v)
  <2>1. \A i \in m + 1..Len(fr) : d \notin DOMAIN fr[i]
    BY <1>1, <1>2
  <2> QED BY <1>1, <1>2, <1>3, <2>1, SeenRebinds
<1>5. Inner(fr, d) <= m
  BY <1>1, <1>2, InnerIs
<1> QED BY <1>4, <1>5

\* A layer opens that binds one slot.
OpensWith(S, sl, fr, sl2, fr2, d, v) ==
    Stack(sl2, fr2) = Append(Stack(sl, fr), [x \in {d} |-> v]) /\ Base(S, sl2, fr2) = Base(S, sl, fr)

\* A frame is pushed that keeps the one slot which is written.
LEMMA PushBinds ==
  ASSUME NEW S, NEW C, NEW sl \in [S -> C], NEW fr \in Seq(Kept(S, C)), NEW d \in S, NEW v,
         NEW sl2, Wrote(S, C, sl, sl2, d, v), NEW one \in [{d} -> C], one[d] = sl[d]
  PROVE  OpensWith(S, sl, fr, sl2, Append(fr, one), d, v)
<1> DEFINE n == Len(fr)
           fr1 == Append(fr, <<>>)
           fr2 == Append(fr, one)
<1>1. n \in Nat /\ one \in Kept(S, C) /\ <<>> \in Kept(S, C)
  <2>1. one \in [{d} -> C] /\ {d} \in SUBSET S
    OBVIOUS
  <2>2. <<>> \in [{} -> C] /\ {} \in SUBSET S
    OBVIOUS
  <2>3. one \in Kept(S, C)
    BY <2>1 DEF Kept
  <2>4. <<>> \in Kept(S, C)
    BY <2>2 DEF Kept
  <2> QED BY <2>3, <2>4
<1>2. fr1 \in Seq(Kept(S, C)) /\ fr2 \in Seq(Kept(S, C)) /\ Len(fr1) = n + 1 /\ Len(fr2) = n + 1
      /\ fr1[n + 1] = <<>> /\ fr2[n + 1] = one /\ \A j \in 1..n : fr2[j] = fr1[j]
  BY <1>1
<1>3. SavedTo(S, C, sl, fr1, fr2, n + 1, d)
  BY <1>1, <1>2 DEF SavedTo
<1>4. \A i \in Nat, x \in S : Seen(sl, fr1, i, x) = Seen(sl, fr, i, x)
  BY PushSeen
<1> HIDE DEF fr1, fr2, n
<1>5. \A i \in Nat, x \in S : Seen(sl2, fr2, i, x) = IF x = d /\ n + 1 <= i THEN v ELSE Seen(sl, fr, i, x)
  BY <1>2, <1>3, <1>4, SaveSeen
<1>6. Base(S, sl2, fr2) = Base(S, sl, fr)
  <2>1. \A x \in S : Seen(sl2, fr2, 0, x) = Seen(sl, fr, 0, x)
    BY <1>1, <1>5
  <2> QED BY <2>1 DEF Base
<1>7. ASSUME NEW i \in 1..n PROVE Layer(sl2, fr2, i) = Layer(sl, fr, i)
  <2>1. fr2[i] = fr[i] /\ DOMAIN fr[i] \subseteq S
    BY KeptSlots DEF fr2, n
  <2>2. \A x \in DOMAIN fr[i] : Seen(sl2, fr2, i, x) = Seen(sl, fr, i, x)
    BY <1>1, <1>5, <2>1
  <2> QED BY <2>1, <2>2 DEF Layer
<1>8. Layer(sl2, fr2, n + 1) = [x \in {d} |-> v]
  <2>1. DOMAIN fr2[n + 1] = {d} /\ Seen(sl2, fr2, n + 1, d) = v
    BY <1>1, <1>2, <1>5
  <2> QED BY <2>1 DEF Layer
<1>9. Stack(sl2, fr2) = Append(Stack(sl, fr), [x \in {d} |-> v])
  BY <1>1, <1>2, <1>7, <1>8 DEF Stack, n
<1> QED BY <1>6, <1>9 DEF fr2, OpensWith

\* What the innermost frame kept goes back and the frame goes away.
Unwinds(S, C, sl, fr, sl2, fr2) ==
    /\ fr # <<>> /\ fr2 \in Seq(Kept(S, C)) /\ Len(fr2) = Len(fr) - 1
    /\ \A j \in 1..Len(fr) - 1 : fr2[j] = fr[j]
    /\ \A d \in S : sl2[d] = IF d \in DOMAIN fr[Len(fr)] THEN fr[Len(fr)][d] ELSE sl[d]

\* Below a frame that goes away, what is seen depends on it only where it is the first saver.
LEMMA ShorterSavers ==
  ASSUME NEW S, NEW C, NEW fr \in Seq(Kept(S, C)), fr # <<>>, NEW fr2, Len(fr2) = Len(fr) - 1,
         \A j \in 1..Len(fr) - 1 : fr2[j] = fr[j], NEW i \in 0..Len(fr) - 1, NEW d
  PROVE  /\ Savers(fr2, i, d) = Savers(fr, i, d) \ {Len(fr)}
         /\ Savers(fr2, i, d) \subseteq Nat
         /\ \A j \in Savers(fr2, i, d) : fr2[j][d] = fr[j][d] /\ j < Len(fr)
         /\ Len(fr) \in Savers(fr, i, d) <=> d \in DOMAIN fr[Len(fr)]
         /\ Len(fr) \in Nat /\ Len(fr2) \in Nat /\ i \in Nat
<1>1. Len(fr) \in Nat /\ Len(fr) > 0
  OBVIOUS
<1>2. QED BY <1>1 DEF Savers

\* Below the frame nothing is seen to change.
LEMMA UnwindSeen ==
  ASSUME NEW S, NEW C, NEW sl, NEW sl2, NEW fr \in Seq(Kept(S, C)), NEW fr2, Unwinds(S, C, sl, fr, sl2, fr2),
         NEW i \in 0..Len(fr) - 1, NEW d \in S
  PROVE  Seen(sl2, fr2, i, d) = Seen(sl, fr, i, d)
<1> DEFINE n == Len(fr)
<1>1. /\ Savers(fr2, i, d) = Savers(fr, i, d) \ {n}
      /\ Savers(fr2, i, d) \subseteq Nat
      /\ \A j \in Savers(fr2, i, d) : fr2[j][d] = fr[j][d] /\ j < n
      /\ n \in Savers(fr, i, d) <=> d \in DOMAIN fr[n]
      /\ n \in Nat /\ Len(fr2) \in Nat /\ i \in Nat /\ n = Len(fr)
  <2>1. fr # <<>> /\ Len(fr2) = Len(fr) - 1 /\ \A j \in 1..Len(fr) - 1 : fr2[j] = fr[j]
    BY DEF Unwinds
  <2> QED BY <2>1, ShorterSavers
<1>2. sl2[d] = IF d \in DOMAIN fr[n] THEN fr[n][d] ELSE sl[d]
  BY DEF Unwinds
<1> HIDE DEF n
<1>3. CASE Savers(fr2, i, d) = {}
  <2>1. Seen(sl2, fr2, i, d) = sl2[d]
    BY <1>3, SeenUnsaved
  <2>2. CASE d \in DOMAIN fr[n]
    <3>1. n \in Savers(fr, i, d) /\ \A k \in Savers(fr, i, d) : n <= k
      BY <1>1, <1>3, <2>2
    <3>2. Seen(sl, fr, i, d) = fr[n][d]
      BY <1>1, <3>1, SeenSaved
    <3>3. QED BY <1>2, <2>1, <2>2, <3>2
  <2>3. CASE d \notin DOMAIN fr[n]
    <3>1. Seen(sl, fr, i, d) = sl[d]
      BY <1>1, <1>3, <2>3, SeenUnsaved
    <3>2. QED BY <1>2, <2>1, <2>3, <3>1
  <2>4. QED BY <2>2, <2>3
<1>4. CASE Savers(fr2, i, d) # {}
  <2>1. PICK j \in Savers(fr2, i, d) : \A k \in Savers(fr2, i, d) : j <= k
    BY <1>1, <1>4, FirstSaver
  <2>2. Seen(sl2, fr2, i, d) = fr2[j][d]
    BY <1>1, <2>1, SeenSaved
  <2>3. j \in Savers(fr, i, d) /\ \A k \in Savers(fr, i, d) : j <= k
    BY <1>1, <2>1
  <2>4. Seen(sl, fr, i, d) = fr[j][d]
    BY <1>1, <2>3, SeenSaved
  <2>5. QED BY <1>1, <2>2, <2>4
<1>5. QED BY <1>3, <1>4

\* The innermost layer goes away and everything else stays.
Closes(S, sl, fr, sl2, fr2) ==
    /\ Stack(sl, fr) # <<>> /\ Stack(sl2, fr2) = SubSeq(Stack(sl, fr), 1, Len(Stack(sl, fr)) - 1)
    /\ Base(S, sl2, fr2) = Base(S, sl, fr)

\* That is what it is for them.
LEMMA UnwindCloses ==
  ASSUME NEW S, NEW C, NEW sl, NEW sl2, NEW fr \in Seq(Kept(S, C)), NEW fr2, Unwinds(S, C, sl, fr, sl2, fr2)
  PROVE  Closes(S, sl, fr, sl2, fr2)
<1>1. /\ Len(fr) \in Nat /\ Len(fr) > 0 /\ Len(fr2) = Len(fr) - 1
      /\ \A j \in 1..Len(fr) - 1 : fr2[j] = fr[j]
  BY DEF Unwinds
<1>2. \A i \in 0..Len(fr) - 1, d \in S : Seen(sl2, fr2, i, d) = Seen(sl, fr, i, d)
  BY UnwindSeen
<1>3. Base(S, sl2, fr2) = Base(S, sl, fr)
  <2>1. \A d \in S : Seen(sl2, fr2, 0, d) = Seen(sl, fr, 0, d)
    BY <1>1, <1>2
  <2> QED BY <2>1 DEF Base
<1>4. ASSUME NEW i \in 1..Len(fr) - 1 PROVE Layer(sl2, fr2, i) = Layer(sl, fr, i)
  <2>1. DOMAIN fr[i] \subseteq S /\ fr2[i] = fr[i]
    BY <1>1, KeptSlots
  <2>2. \A d \in DOMAIN fr[i] : Seen(sl2, fr2, i, d) = Seen(sl, fr, i, d)
    BY <1>1, <1>2, <2>1
  <2> QED BY <2>1, <2>2 DEF Layer
<1>5. Stack(sl2, fr2) = [i \in 1..Len(fr) - 1 |-> Layer(sl, fr, i)]
  BY <1>1, <1>4 DEF Stack
<1>6. SubSeq(Stack(sl, fr), 1, Len(fr) - 1) = [i \in 1..Len(fr) - 1 |-> Layer(sl, fr, i)]
  BY <1>1 DEF Stack
<1>7. Len(Stack(sl, fr)) = Len(fr) /\ Stack(sl, fr) # <<>>
  BY <1>1, StackShape
<1> QED BY <1>3, <1>5, <1>6, <1>7 DEF Closes
=============================================================================
