--------------------------- MODULE JobTableProofs ---------------------------
(***************************************************************************)
(* For any number of slots and processes and with every fault: the order of *)
(* the job table holds exactly the live jobs, a report finds its status,    *)
(* and exit has warned.  As long as no fault has disturbed their ranking, a *)
(* running job never ranks before a stopped one.                            *)
(***************************************************************************)
EXTENDS JobTableHistory, SharedLemmas

Uniq(o)  == \A i, j \in 1 .. Len(o) : o[i] = o[j] => i = j
Elems(o) == {o[i] : i \in 1 .. Len(o)}

-----------------------------------------------------------------------------
(* The operations on an order.                                             *)

\* retain drops one id and keeps the rest, each once.
LEMMA RetainDrops ==
  ASSUME NEW S, NEW o \in Seq(S), NEW id, Uniq(o)
  PROVE  /\ Retain(o, id) \in Seq(S) /\ Uniq(Retain(o, id))
         /\ Elems(Retain(o, id)) = Elems(o) \ {id}
<1>1. CASE \E k \in 1 .. Len(o) : o[k] = id
  <2>1. PICK k \in 1 .. Len(o) : k = CHOOSE x \in 1 .. Len(o) : o[x] = id
    BY <1>1
  <2>2. o[k] = id
    BY <1>1, <2>1
  <2>3. Len(o) \in Nat /\ Len(o) >= 1 /\ k \in Nat
    BY <2>1
  <2> DEFINE r == [i \in 1 .. Len(o) - 1 |-> IF i < k THEN o[i] ELSE o[i + 1]]
  <2>4. Retain(o, id) = r
    BY <1>1, <2>1 DEF Retain
  <2>5. \A i \in 1 .. Len(o) - 1 : r[i] \in S
    BY <2>3
  <2>6. r \in Seq(S) /\ Len(r) = Len(o) - 1
    BY <2>3, <2>5
  <2>7. Uniq(r)
    <3> SUFFICES ASSUME NEW i \in 1 .. Len(o) - 1, NEW j \in 1 .. Len(o) - 1, r[i] = r[j]
                 PROVE  i = j
      BY <2>6 DEF Uniq
    <3> QED
      BY <2>3 DEF Uniq
  <2>8. Elems(r) \subseteq Elems(o) \ {id}
    <3> SUFFICES ASSUME NEW i \in 1 .. Len(o) - 1 PROVE r[i] \in Elems(o) \ {id}
      BY <2>6 DEF Elems
    <3> QED
      BY <2>2, <2>3 DEF Uniq, Elems
  <2>9. Elems(o) \ {id} \subseteq Elems(r)
    <3> SUFFICES ASSUME NEW i \in 1 .. Len(o), o[i] # id PROVE o[i] \in Elems(r)
      BY DEF Elems
    <3>1. CASE i < k
      <4>1. i \in 1 .. Len(r) /\ r[i] = o[i]
        BY <2>3, <2>6, <3>1
      <4> QED
        BY <4>1 DEF Elems
    <3>2. CASE i > k
      <4>1. i - 1 \in 1 .. Len(r) /\ r[i - 1] = o[i]
        BY <2>3, <2>6, <3>2
      <4> QED
        BY <4>1 DEF Elems
    <3> QED
      BY <2>2, <2>3, <3>1, <3>2
  <2> QED
    BY <2>4, <2>6, <2>7, <2>8, <2>9
<1>2. CASE ~ \E k \in 1 .. Len(o) : o[k] = id
  <2>1. Retain(o, id) = o
    BY <1>2 DEF Retain
  <2> QED
    BY <1>2, <2>1 DEF Elems
<1> QED
  BY <1>1, <1>2

\* A new id is inserted once and displaces nothing.
LEMMA InsertAdds ==
  ASSUME NEW S, NEW o \in Seq(S), NEW id \in S, id \notin Elems(o), Uniq(o),
         NEW k \in 1 .. Len(o) + 1
  PROVE  /\ Insert(o, k, id) \in Seq(S) /\ Uniq(Insert(o, k, id))
         /\ Elems(Insert(o, k, id)) = Elems(o) \cup {id}
<1> DEFINE r == [i \in 1 .. Len(o) + 1 |-> IF i < k THEN o[i] ELSE IF i = k THEN id ELSE o[i - 1]]
<1>1. Insert(o, k, id) = r
  BY DEF Insert
<1>2. Len(o) \in Nat /\ k \in Nat
  OBVIOUS
<1>3. \A i \in 1 .. Len(o) + 1 : r[i] \in S
  BY <1>2
<1>4. r \in Seq(S) /\ Len(r) = Len(o) + 1
  BY <1>2, <1>3
<1>5. \A i \in 1 .. Len(o) : o[i] # id
  BY DEF Elems
<1>6. Uniq(r)
  <2> SUFFICES ASSUME NEW i \in 1 .. Len(o) + 1, NEW j \in 1 .. Len(o) + 1, r[i] = r[j]
               PROVE  i = j
    BY <1>4 DEF Uniq
  <2> QED
    BY <1>2, <1>5 DEF Uniq
<1>7. Elems(r) \subseteq Elems(o) \cup {id}
  <2> SUFFICES ASSUME NEW i \in 1 .. Len(o) + 1 PROVE r[i] \in Elems(o) \cup {id}
    BY <1>4 DEF Elems
  <2> QED
    BY <1>2 DEF Elems
<1>8. Elems(o) \cup {id} \subseteq Elems(r)
  <2>1. id \in Elems(r)
    <3>1. k \in 1 .. Len(r) /\ r[k] = id
      BY <1>2, <1>4
    <3> QED
      BY <3>1 DEF Elems
  <2>2. ASSUME NEW i \in 1 .. Len(o) PROVE o[i] \in Elems(r)
    <3>1. CASE i < k
      <4>1. i \in 1 .. Len(r) /\ r[i] = o[i]
        BY <1>2, <1>4, <3>1
      <4> QED
        BY <4>1 DEF Elems
    <3>2. CASE i >= k
      <4>1. i + 1 \in 1 .. Len(r) /\ r[i + 1] = o[i]
        BY <1>2, <1>4, <3>2
      <4> QED
        BY <4>1 DEF Elems
    <3> QED
      BY <1>2, <3>1, <3>2
  <2> QED
    BY <2>1, <2>2 DEF Elems
<1> QED
  BY <1>1, <1>4, <1>6, <1>7, <1>8

\* occupy_current and position_stopped keep every id once and add theirs.
LEMMA FrontAdds ==
  ASSUME NEW S, NEW o \in Seq(S), NEW id \in S, Uniq(o)
  PROVE  /\ ToFront(o, id) \in Seq(S) /\ Uniq(ToFront(o, id))
         /\ Elems(ToFront(o, id)) = Elems(o) \cup {id}
<1>1. /\ Retain(o, id) \in Seq(S) /\ Uniq(Retain(o, id))
      /\ Elems(Retain(o, id)) = Elems(o) \ {id}
  BY RetainDrops
<1>2. 1 \in 1 .. Len(Retain(o, id)) + 1
  BY <1>1
<1> QED
  BY <1>1, <1>2, InsertAdds DEF ToFront

\* position_running does too: the number of leading stopped jobs is a position.
LEMMA BehindAdds ==
  ASSUME NEW S, NEW o \in Seq(S), NEW id \in S, Uniq(o), NEW s
  PROVE  /\ BehindStopped(o, s, id) \in Seq(S) /\ Uniq(BehindStopped(o, s, id))
         /\ Elems(BehindStopped(o, s, id)) = Elems(o) \cup {id}
<1> DEFINE r == Retain(o, id)
           ahead == LeadingStopped(r, s)
<1>1. r \in Seq(S) /\ Uniq(r) /\ Elems(r) = Elems(o) \ {id}
  BY RetainDrops
<1>2. Len(r) \in Nat
  BY <1>1
<1>3. ahead \subseteq 1 .. Len(r)
  BY DEF LeadingStopped
<1>4. IsFiniteSet(1 .. Len(r)) /\ Cardinality(1 .. Len(r)) = Len(r)
  <2>1. ASSUME NEW n \in Nat PROVE IsFiniteSet(1 .. n) /\ Cardinality(1 .. n) = n
    <3>1. /\ IsFiniteSet(1 .. n)
          /\ Cardinality(1 .. n) = IF 1 > n THEN 0 ELSE n - 1 + 1
      BY FS_Interval
    <3> QED
      BY <3>1
  <2> QED
    BY <1>2, <2>1
<1>5. Cardinality(ahead) \in Nat /\ Cardinality(ahead) <= Len(r)
  BY <1>3, <1>4, FS_Subset, FS_CardinalityType
<1>6. Cardinality(ahead) + 1 \in 1 .. Len(r) + 1
  BY <1>2, <1>5
<1>7. BehindStopped(o, s, id) = Insert(r, Cardinality(ahead) + 1, id)
  BY DEF BehindStopped
<1> HIDE DEF r, ahead
<1> QED
  BY <1>1, <1>6, <1>7, InsertAdds
-----------------------------------------------------------------------------
\* The inductive invariant: OrderIsLive and SnapshotStaysLive need the types of
\* the jobs, that the job being forked or waited for is live, and that no copy
\* of the order is left over when nobody walks it.
TableInv ==
  /\ slots \in [Id -> Job \cup {NoJob}]
  /\ order \in Seq(Id) /\ Uniq(order) /\ Elems(order) = Live
  /\ todo \in Seq(Id) /\ Uniq(todo) /\ Elems(todo) \subseteq Live
  /\ phase # "walking" => todo = <<>>
  /\ phase \in {"forking", "waiting"} => cur \in Live

\* Removing a live job keeps the order in step with the slots.
LEMMA DropKeeps ==
  ASSUME TableInv, NEW id \in Live, Drop(id)
  PROVE  /\ slots' \in [Id -> Job \cup {NoJob}]
         /\ order' \in Seq(Id) /\ Uniq(order') /\ Elems(order') = Live'
         /\ Live' = Live \ {id}
<1>1. order' \in Seq(Id) /\ Uniq(order') /\ Elems(order') = Live \ {id}
  BY RetainDrops DEF Drop, TableInv
<1>2. slots' \in [Id -> Job \cup {NoJob}] /\ Live' = Live \ {id}
  BY DEF Drop, TableInv, Live
<1> QED
  BY <1>1, <1>2

\* Replacing a live job by another job changes no order.
LEMMA UpdateKeeps ==
  ASSUME TableInv, NEW id \in Live, NEW job \in Job, slots' = [slots EXCEPT ![id] = job]
  PROVE  slots' \in [Id -> Job \cup {NoJob}] /\ Live' = Live
BY NoJobAssumption DEF TableInv, Live

\* The head of a walk is live and the rest of it survives its removal.
LEMMA WalkOn ==
  ASSUME TableInv, todo # <<>>
  PROVE  /\ Head(todo) \in Live
         /\ Tail(todo) \in Seq(Id) /\ Uniq(Tail(todo))
         /\ Elems(Tail(todo)) \subseteq Live \ {Head(todo)}
<1>1. todo \in Seq(Id) /\ Uniq(todo) /\ Elems(todo) \subseteq Live
  BY DEF TableInv
<1>2. Len(todo) \in Nat /\ Len(todo) >= 1 /\ Head(todo) = todo[1]
  BY <1>1
<1>3. Tail(todo) \in Seq(Id) /\ Len(Tail(todo)) = Len(todo) - 1
  BY <1>1, <1>2
<1>4. \A i \in 1 .. Len(todo) - 1 : Tail(todo)[i] = todo[i + 1]
  BY <1>1, <1>2
<1>5. \A i \in 1 .. Len(todo) : todo[i] \in Live
  BY <1>1 DEF Elems
<1>6. Uniq(Tail(todo))
  BY <1>1, <1>2, <1>3, <1>4 DEF Uniq
<1>7. \A i \in 1 .. Len(todo) - 1 : Tail(todo)[i] \in Live \ {Head(todo)}
  BY <1>1, <1>2, <1>4, <1>5 DEF Uniq
<1> QED
  BY <1>2, <1>3, <1>5, <1>6, <1>7 DEF Elems

\* A live slot holds a job.
LEMMA LiveJob ==
  ASSUME TableInv, NEW id \in Live
  PROVE  id \in Id /\ slots[id] \in Job
BY DEF TableInv, Live

\* What the operations store in a slot is a job.
LEMMA StoredJobs ==
  ASSUME NEW j \in Job
  PROVE  /\ \A st \in State : [j EXCEPT !.state = st] \in Job
         /\ [j EXCEPT !.changed = FALSE] \in Job
         /\ [j EXCEPT !.waited = TRUE] \in Job
         /\ [j EXCEPT !.procs = Append(@, "none")] \in Job
         /\ Restarted(j) \in Job
<1>1. j.procs \in Seq({"none", "stop", "exit"})
  BY DEF Job
<1>2. Append(j.procs, "none") \in Seq({"none", "stop", "exit"})
  BY <1>1
<1> DEFINE again == [i \in DOMAIN j.procs |-> IF j.procs[i] = "stop" THEN "none" ELSE j.procs[i]]
<1>3. again \in Seq({"none", "stop", "exit"})
  <2>1. Len(j.procs) \in Nat /\ DOMAIN j.procs = 1 .. Len(j.procs)
    BY <1>1
  <2>2. \A i \in 1 .. Len(j.procs) : j.procs[i] \in {"none", "stop", "exit"}
    BY <1>1
  <2> QED
    BY <2>1, <2>2
<1>4. Restarted(j) = [j EXCEPT !.state = "Running", !.procs = again]
  BY DEF Restarted
<1> HIDE DEF again
<1>5. Restarted(j) \in Job
  BY <1>3, <1>4 DEF Job, State
<1> QED
  BY <1>2, <1>5 DEF Job, State

\* A step that ends outside a walk and keeps slots and order in step.
LEMMA OutsideWalk ==
  ASSUME slots' \in [Id -> Job \cup {NoJob}],
         order' \in Seq(Id), Uniq(order'), Elems(order') = Live',
         todo' = <<>>, phase' # "walking",
         phase' \in {"forking", "waiting"} => cur' \in Live'
  PROVE  TableInv'
<1>1. <<>> \in Seq(Id) /\ Uniq(<<>>) /\ Elems(<<>>) = {}
  BY DEF Uniq, Elems
<1> QED
  BY <1>1 DEF TableInv

\* A step of a walk that keeps slots and order in step.
LEMMA DuringWalk ==
  ASSUME slots' \in [Id -> Job \cup {NoJob}],
         order' \in Seq(Id), Uniq(order'), Elems(order') = Live',
         todo' \in Seq(Id), Uniq(todo'), Elems(todo') \subseteq Live',
         phase' = "walking"
  PROVE  TableInv'
BY DEF TableInv

\* write_job and remove_waited_job keep slots and order in step.
LEMMA WritesKeep ==
  ASSUME TableInv, NEW id \in Live, write_job(id) \/ remove_waited_job(id)
  PROVE  /\ slots' \in [Id -> Job \cup {NoJob}]
         /\ order' \in Seq(Id) /\ Uniq(order') /\ Elems(order') = Live'
         /\ Live \ {id} \subseteq Live'
<1>1. id \in Id /\ slots[id] \in Job
  BY LiveJob
<1>2. CASE Drop(id)
  BY <1>2, DropKeeps
<1>3. ASSUME NEW job \in Job, slots' = [slots EXCEPT ![id] = job], UNCHANGED order
      PROVE  /\ slots' \in [Id -> Job \cup {NoJob}]
             /\ order' \in Seq(Id) /\ Uniq(order') /\ Elems(order') = Live'
             /\ Live \ {id} \subseteq Live'
  BY <1>3, UpdateKeeps DEF TableInv
<1>4. CASE slots' = [slots EXCEPT ![id].changed = FALSE] /\ UNCHANGED order
  <2>1. slots' = [slots EXCEPT ![id] = [slots[id] EXCEPT !.changed = FALSE]]
    BY <1>4
  <2>2. [slots[id] EXCEPT !.changed = FALSE] \in Job
    BY <1>1, StoredJobs
  <2> QED
    BY <1>3, <1>4, <2>1, <2>2
<1>5. CASE slots' = [slots EXCEPT ![id].waited = TRUE] /\ UNCHANGED order
  <2>1. slots' = [slots EXCEPT ![id] = [slots[id] EXCEPT !.waited = TRUE]]
    BY <1>5
  <2>2. [slots[id] EXCEPT !.waited = TRUE] \in Job
    BY <1>1, StoredJobs
  <2> QED
    BY <1>3, <1>5, <2>1, <2>2
<1> QED
  BY <1>2, <1>4, <1>5 DEF write_job, remove_waited_job

\* Moving a live job to the front or behind the stopped ones loses nothing.
LEMMA MoveKeeps ==
  ASSUME TableInv, NEW id \in Live, Live' = Live,
         order' = order \/ order' = ToFront(order, id) \/ order' = BehindStopped(order, slots, id)
  PROVE  order' \in Seq(Id) /\ Uniq(order') /\ Elems(order') = Live'
<1>1. /\ order \in Seq(Id) /\ Uniq(order) /\ Elems(order) = Live /\ id \in Id
      /\ Elems(order) \cup {id} = Live
  BY LiveJob DEF TableInv
<1>2. /\ ToFront(order, id) \in Seq(Id) /\ Uniq(ToFront(order, id))
      /\ Elems(ToFront(order, id)) = Elems(order) \cup {id}
  BY ONLY <1>1, FrontAdds
<1>3. /\ BehindStopped(order, slots, id) \in Seq(Id) /\ Uniq(BehindStopped(order, slots, id))
      /\ Elems(BehindStopped(order, slots, id)) = Elems(order) \cup {id}
  BY ONLY <1>1, BehindAdds
<1> QED
  BY <1>1, <1>2, <1>3

-----------------------------------------------------------------------------
(* Every step keeps the invariant.                                         *)

LEMMA InitTable == ASSUME JInit PROVE TableInv
<1>1. <<>> \in Seq(Id) /\ Uniq(<<>>) /\ Elems(<<>>) = {}
  BY DEF Uniq, Elems
<1>2. slots \in [Id -> Job \cup {NoJob}] /\ Live = {}
  BY DEF JInit, Live
<1> QED
  BY <1>1, <1>2 DEF JInit, TableInv

\* create_job puts its new job in the slot and at the front of the order.
LEMMA CreateKeeps ==
  ASSUME TableInv, jobControl \in BOOLEAN,
         NEW n, NEW m, create_job(n, m)
  PROVE  TableInv'
<1>1. PICK id \in Id : /\ slots' = [slots EXCEPT ![id] = NewJob]
                       /\ order' = ToFront(order, id) /\ cur' = id
  BY DEF create_job
<1>2. NewJob \in Job /\ NewJob # NoJob
  <2>1. NewJob \in Job
    <3>1. <<>> \in Seq({"none", "stop", "exit"})
      OBVIOUS
    <3> QED
      BY <3>1 DEF NewJob, Job, State
  <2> QED
    BY <2>1, NoJobAssumption
<1>3. slots' \in [Id -> Job \cup {NoJob}] /\ Live' = Live \cup {id}
  BY <1>1, <1>2 DEF TableInv, Live
<1>4. order' \in Seq(Id) /\ Uniq(order') /\ Elems(order') = Live'
  <2>1. order \in Seq(Id) /\ Uniq(order) /\ Elems(order) = Live
    BY DEF TableInv
  <2>2. /\ ToFront(order, id) \in Seq(Id) /\ Uniq(ToFront(order, id))
        /\ Elems(ToFront(order, id)) = Elems(order) \cup {id}
    BY <2>1, FrontAdds
  <2> QED
    BY <1>1, <1>3, <2>1, <2>2
<1>5. phase' = "forking" /\ todo' = <<>>
  BY DEF create_job, TableInv
<1> QED
  BY <1>1, <1>3, <1>4, <1>5, OutsideWalk

\* record_forked_child gives the live job one more process.
LEMMA ForkKeeps ==
  ASSUME TableInv, record_forked_child
  PROVE  TableInv'
<1>1. cur \in Live /\ todo' = <<>> /\ phase' # "walking"
  BY DEF record_forked_child, TableInv
<1>2. slots[cur] \in Job /\ cur \in Id
  BY <1>1, LiveJob
<1>3. [slots[cur] EXCEPT !.procs = Append(@, "none")] \in Job
  BY <1>2, StoredJobs
<1>4. slots' = [slots EXCEPT ![cur] = [slots[cur] EXCEPT !.procs = Append(@, "none")]]
  BY DEF record_forked_child
<1>5. slots' \in [Id -> Job \cup {NoJob}] /\ Live' = Live
  BY <1>1, <1>3, <1>4, UpdateKeeps
<1>6. order' \in Seq(Id) /\ Uniq(order') /\ Elems(order') = Live'
  BY <1>1, <1>5, MoveKeeps DEF record_forked_child
<1>7. phase' \in {"forking", "waiting"} => cur' \in Live'
  BY <1>1, <1>5 DEF record_forked_child
<1> QED
  BY <1>1, <1>5, <1>6, <1>7, OutsideWalk

\* A status changes its own job and may bring it to the front.
LEMMA ReportKeeps ==
  ASSUME TableInv, NEW id \in Live, NEW i \in DOMAIN slots[id].procs,
         NEW status \in {"stop", "exit"}, NEW notify \in BOOLEAN,
         ChildReports(id, i, status, notify)
  PROVE  TableInv'
<1> DEFINE procs == [slots[id].procs EXCEPT ![i] = status]
           next  == StateOf(procs)
           job   == [slots[id] EXCEPT !.procs = procs,
                       !.stopStatus = \E k \in DOMAIN procs : procs[k] = "stop",
                       !.state = IF next = "Running" THEN @ ELSE next,
                       !.changed = @ \/ next # "Running"]
<1>1. id \in Id /\ slots[id] \in Job
  BY LiveJob
<1>2. procs \in Seq({"none", "stop", "exit"})
  BY <1>1 DEF Job
<1>3. next \in State
  BY DEF StateOf, State
<1>4. (\E k \in DOMAIN procs : procs[k] = "stop") \in BOOLEAN
  OBVIOUS
<1>5. \/ Drop(id)
      \/ /\ slots' = [slots EXCEPT ![id] = job]
         /\ order' = IF job.state = "Stopped" /\ slots[id].state # "Stopped"
                     THEN ToFront(order, id) ELSE order
  BY DEF ChildReports
<1>6. /\ todo' = <<>> /\ phase' # "walking" /\ cur' = cur
      /\ phase' \in {"forking", "waiting"} => cur \in Live
  BY DEF ChildReports, TableInv
<1>7. Drop(id) => \/ phase' \notin {"forking", "waiting"} \/ cur # id
                  \/ /\ slots' = [slots EXCEPT ![id] = job]
                     /\ order' = IF job.state = "Stopped" /\ slots[id].state # "Stopped"
                                 THEN ToFront(order, id) ELSE order
  BY DEF ChildReports, notify_completion_now
<1> HIDE DEF procs, next
<1>8. job \in Job
  <2>1. slots[id].state \in State /\ slots[id].changed \in BOOLEAN
    BY <1>1 DEF Job
  <2>2. (slots[id].changed \/ next # "Running") \in BOOLEAN
    BY <2>1
  <2> QED
    BY <1>1, <1>2, <1>3, <1>4, <2>1, <2>2 DEF Job
<1> HIDE DEF job
<1>9. CASE Drop(id) /\ (phase' \notin {"forking", "waiting"} \/ cur # id)
  <2>1. phase' \in {"forking", "waiting"} => cur' \in Live'
    BY <1>6, <1>9, DropKeeps
  <2> QED
    BY <1>6, <1>9, <2>1, DropKeeps, OutsideWalk
<1>10. CASE /\ slots' = [slots EXCEPT ![id] = job]
            /\ order' = IF job.state = "Stopped" /\ slots[id].state # "Stopped"
                        THEN ToFront(order, id) ELSE order
  <2>1. slots' \in [Id -> Job \cup {NoJob}] /\ Live' = Live
    BY <1>8, <1>10, UpdateKeeps
  <2>2. order' = order \/ order' = ToFront(order, id)
    BY <1>10
  <2>3. order' \in Seq(Id) /\ Uniq(order') /\ Elems(order') = Live'
    BY <2>1, <2>2, MoveKeeps
  <2> QED
    BY <1>6, <2>1, <2>3, OutsideWalk
<1> QED
  BY <1>5, <1>7, <1>9, <1>10

\* fg, bg and a restart that fails write one live job and may move it.
LEMMA RestartKeeps ==
  ASSUME TableInv, NEW id \in Live,
         Bg(id) \/ Fg(id) \/ \E background \in BOOLEAN : RestartFails(id, background)
  PROVE  TableInv'
<1>1. id \in Id /\ slots[id] \in Job
  BY LiveJob
<1>2. PICK job \in Job : slots' = [slots EXCEPT ![id] = job]
  <2>1. /\ [slots[id] EXCEPT !.state = "Running"] \in Job
        /\ Restarted(slots[id]) \in Job
    BY <1>1, StoredJobs DEF State
  <2>2. CASE Bg(id) \/ Fg(id)
    BY <1>1, <2>1, <2>2 DEF Bg, Fg
  <2>3. CASE \E background \in BOOLEAN : RestartFails(id, background)
    <3>1. slots' = [slots EXCEPT ![id] = [slots[id] EXCEPT !.state = "Running"]]
      BY <2>3 DEF RestartFails
    <3> QED
      BY <2>1, <3>1
  <2> QED
    BY <2>2, <2>3
<1>3. slots' \in [Id -> Job \cup {NoJob}] /\ Live' = Live
  BY <1>2, UpdateKeeps
<1>4. order' \in Seq(Id) /\ Uniq(order') /\ Elems(order') = Live'
  BY <1>3, MoveKeeps DEF Bg, Fg, RestartFails
<1>5. /\ todo' = <<>> /\ phase' # "walking"
      /\ phase' \in {"forking", "waiting"} => cur' \in Live'
  BY <1>3 DEF Bg, Fg, RestartFails, TableInv
<1> QED
  BY <1>3, <1>4, <1>5, OutsideWalk

LEMMA NextTable ==
  ASSUME TableInv, jobControl \in BOOLEAN, [JNext]_jvars
  PROVE  TableInv' /\ jobControl' \in BOOLEAN
<1>1. jobControl' \in BOOLEAN
  <2>1. CASE SetMonitor
    BY <2>1 DEF SetMonitor
  <2>2. ASSUME NEW id \in Live, OnJob(id) PROVE jobControl' = jobControl
    BY <2>2 DEF OnJob, ChildReports, JobsCommand, WaitFor, Bg, Fg, RestartFails
  <2>3. ASSUME NEW n, NEW m, create_job(n, m) PROVE jobControl' = jobControl
    BY <2>3 DEF create_job
  <2>4. CASE record_forked_child \/ ForkFails \/ Abandon \/ ForegroundEnds \/ ForegroundFails
    BY <2>4 DEF record_forked_child, ForkFails, Abandon, ForegroundEnds, ForegroundFails
  <2>5. ASSUME NEW w, StartWalk(w) PROVE jobControl' = jobControl
    BY <2>5 DEF StartWalk
  <2>6. CASE WalkWrites \/ WalkSkips \/ WalkWaits \/ EndWalk \/ NextRecord \/ Exit
    BY <2>6 DEF WalkWrites, WalkSkips, WalkWaits, EndWalk, NextRecord, Exit
  <2>7. CASE UNCHANGED jvars
    BY <2>7 DEF jvars
  <2> QED
    BY <2>1, <2>2, <2>3, <2>4, <2>5, <2>6, <2>7 DEF JNext
<1> SUFFICES TableInv'
  BY <1>1
<1>2. ASSUME NEW n, NEW m, create_job(n, m) PROVE TableInv'
  BY <1>2, CreateKeeps
<1>3. CASE record_forked_child
  BY <1>3, ForkKeeps
<1>4. CASE ForkFails
  <2>1. cur \in Live /\ Drop(cur) /\ todo' = <<>> /\ phase' = "ready"
    BY <1>4 DEF ForkFails, TableInv
  <2> QED
    BY <2>1, DropKeeps, OutsideWalk
<1>5. CASE ForegroundEnds
  <2>1. cur \in Live /\ todo' = <<>> /\ phase' = "ready"
    BY <1>5 DEF ForegroundEnds, TableInv
  <2>2. CASE Drop(cur)
    BY <2>1, <2>2, DropKeeps, OutsideWalk
  <2>3. CASE UNCHANGED <<slots, order>>
    <3>1. Live' = Live
      BY <2>3 DEF Live
    <3> QED
      BY <2>1, <2>3, <3>1, OutsideWalk DEF TableInv
  <2> QED
    BY <1>5, <2>2, <2>3 DEF ForegroundEnds
<1>6. CASE Abandon \/ ForegroundFails \/ SetMonitor \/ NextRecord \/ Exit \/ EndWalk
  <2>1. slots' = slots /\ order' = order /\ Live' = Live
    BY <1>6 DEF Abandon, ForegroundFails, SetMonitor, NextRecord, Exit, EndWalk, Live
  <2>2. todo' = <<>> /\ phase' \in {"ready", "exited"}
    BY <1>6 DEF Abandon, ForegroundFails, SetMonitor, NextRecord, Exit, EndWalk, TableInv
  <2> QED
    BY <2>1, <2>2, OutsideWalk DEF TableInv
<1>7. ASSUME NEW w, StartWalk(w) PROVE TableInv'
  <2>1. /\ slots' = slots /\ order' = order /\ Live' = Live
        /\ todo' = order /\ phase' = "walking"
    BY <1>7 DEF StartWalk, Live
  <2> QED
    BY <2>1, DuringWalk DEF TableInv
<1>8. CASE WalkWrites \/ WalkWaits
  <2>1. /\ todo # <<>> /\ todo' = Tail(todo) /\ phase' = "walking"
        /\ write_job(Head(todo)) \/ remove_waited_job(Head(todo))
    BY <1>8 DEF WalkWrites, WalkWaits
  <2>2. /\ Head(todo) \in Live
        /\ Tail(todo) \in Seq(Id) /\ Uniq(Tail(todo))
        /\ Elems(Tail(todo)) \subseteq Live \ {Head(todo)}
    BY <2>1, WalkOn
  <2>3. /\ slots' \in [Id -> Job \cup {NoJob}]
        /\ order' \in Seq(Id) /\ Uniq(order') /\ Elems(order') = Live'
        /\ Live \ {Head(todo)} \subseteq Live'
    BY <2>1, <2>2, WritesKeep
  <2>4. todo' \in Seq(Id) /\ Uniq(todo') /\ Elems(todo') \subseteq Live'
    BY <2>1, <2>2, <2>3
  <2> QED
    BY <2>1, <2>3, <2>4, DuringWalk
<1>9. CASE WalkSkips
  <2>1. /\ todo # <<>> /\ todo' = Tail(todo) /\ phase' = "walking"
        /\ slots' = slots /\ order' = order /\ Live' = Live
    BY <1>9 DEF WalkSkips, Live
  <2>2. todo' \in Seq(Id) /\ Uniq(todo') /\ Elems(todo') \subseteq Live'
    BY <2>1, WalkOn
  <2> QED
    BY <2>1, <2>2, DuringWalk DEF TableInv
<1>10. ASSUME NEW id \in Live, JobsCommand(id) \/ WaitFor(id) PROVE TableInv'
  <2>1. /\ write_job(id) \/ remove_waited_job(id)
        /\ todo' = <<>> /\ phase' = "ready"
    BY <1>10 DEF JobsCommand, WaitFor, TableInv
  <2> QED
    BY <2>1, WritesKeep, OutsideWalk
<1>11. ASSUME NEW id \in Live, OnJob(id) PROVE TableInv'
  BY <1>10, <1>11, ReportKeeps, RestartKeeps DEF OnJob
<1>12. CASE UNCHANGED jvars
  <2>1. Live' = Live
    BY <1>12 DEF jvars, Live
  <2> QED
    BY <1>12, <2>1 DEF jvars, TableInv
<1> QED
  BY <1>2, <1>3, <1>4, <1>5, <1>6, <1>7, <1>8, <1>9, <1>11, <1>12 DEF JNext

LEMMA TableIsConsistent == JSpec => []TableInv
<1>1. JInit => TableInv /\ jobControl \in BOOLEAN
  BY InitTable DEF JInit
<1>2. (TableInv /\ jobControl \in BOOLEAN) /\ [JNext]_jvars
      => (TableInv /\ jobControl \in BOOLEAN)'
  BY NextTable
<1> QED
  BY <1>1, <1>2, PTL DEF JSpec

\* The presentation order holds exactly the live slots of the table, each once,
\* in every state of every shell: no operation of model.rs, and none of their
\* interleavings with arriving statuses, leaves a stale or a missing id.
THEOREM OrderIsKept == JSpec => []OrderIsLive
<1>1. TableInv => OrderIsLive
  BY DEF TableInv, OrderIsLive, Uniq, Elems
<1> QED
  BY <1>1, TableIsConsistent, PTL

\* The copy of the order that jobs, wait and the prompt walk names only live
\* jobs, although they remove jobs as they go.
THEOREM SnapshotIsKept == JSpec => []SnapshotStaysLive
<1>1. TableInv => SnapshotStaysLive
  BY DEF TableInv, SnapshotStaysLive, Uniq, Elems
<1> QED
  BY <1>1, TableIsConsistent, PTL
-----------------------------------------------------------------------------
(* The statuses of the jobs, and the warning of exit.                      *)

\* A job that does not run has a status from each of its processes.
Reported(j) == j.state # "Running" =>
  /\ j.procs # <<>> /\ \A i \in DOMAIN j.procs : j.procs[i] # "none"
  /\ j.state = "Stopped" => j.stopStatus

\* A job whose processes are still being forked counts as running: nobody
\* collects statuses meanwhile.
StatusInv ==
  /\ \A id \in Live : Reported(slots[id])
  /\ phase = "forking" => slots[cur].state = "Running"

LEMMA StatusIsThere == ASSUME TableInv, StatusInv PROVE ReportedStatusExists
<1> SUFFICES ASSUME NEW id \in Live, slots[id].state # "Running"
             PROVE  /\ slots[id].procs # <<>> /\ slots[id].procs[Len(slots[id].procs)] # "none"
                    /\ slots[id].state = "Stopped" => slots[id].stopStatus
  BY DEF ReportedStatusExists
<1>1. /\ slots[id].procs # <<>> /\ \A i \in DOMAIN slots[id].procs : slots[id].procs[i] # "none"
      /\ slots[id].state = "Stopped" => slots[id].stopStatus
  BY DEF StatusInv, Reported
<1>2. slots[id].procs \in Seq({"none", "stop", "exit"})
  BY LiveJob DEF Job
<1>3. Len(slots[id].procs) \in DOMAIN slots[id].procs
  BY <1>1, <1>2
<1> QED
  BY <1>1, <1>3

\* One job is replaced, dropped or created.
LEMMA JobChanges ==
  ASSUME TableInv, StatusInv, NEW id \in Id,
         \/ \E job : slots' = [slots EXCEPT ![id] = job] /\ Reported(job)
         \/ slots' = [slots EXCEPT ![id] = NoJob]
  PROVE  \A other \in Live' : Reported(slots'[other])
<1> SUFFICES ASSUME NEW other \in Live' PROVE Reported(slots'[other])
  OBVIOUS
<1>1. other \in Id /\ slots'[other] # NoJob
  BY DEF Live
<1>2. CASE other = id
  BY <1>1, <1>2 DEF TableInv
<1>3. CASE other # id
  <2>1. slots'[other] = slots[other]
    BY <1>1, <1>3 DEF TableInv
  <2>2. other \in Live
    BY <1>1, <2>1 DEF Live
  <2> QED
    BY <2>1, <2>2 DEF StatusInv
<1> QED
  BY <1>2, <1>3

\* What is done to a job whose statuses are in leaves them in.
LEMMA StillReported ==
  ASSUME NEW j \in Job
  PROVE  /\ Reported([j EXCEPT !.state = "Running"])
         /\ Reported(Restarted(j))
         /\ Reported(j) => Reported([j EXCEPT !.changed = FALSE]) /\ Reported([j EXCEPT !.waited = TRUE])
BY DEF Job, Reported, Restarted

LEMMA ReportIsReported ==
  ASSUME TableInv, StatusInv, NEW id \in Live, NEW i \in DOMAIN slots[id].procs,
         NEW status \in {"stop", "exit"}, NEW notify \in BOOLEAN,
         ChildReports(id, i, status, notify)
  PROVE  \A other \in Live' : Reported(slots'[other])
<1> DEFINE procs == [slots[id].procs EXCEPT ![i] = status]
           next  == StateOf(procs)
           stops == \E k \in DOMAIN procs : procs[k] = "stop"
           job   == [slots[id] EXCEPT !.procs = procs, !.stopStatus = stops,
                       !.state = IF next = "Running" THEN @ ELSE next,
                       !.changed = @ \/ next # "Running"]
<1>1. id \in Id /\ slots[id] \in Job /\ Reported(slots[id]) /\ slots[id].state # "Done"
  BY LiveJob DEF StatusInv, ChildReports
<1>2. slots' = [slots EXCEPT ![id] = NoJob] \/ slots' = [slots EXCEPT ![id] = job]
  BY DEF ChildReports, Drop
<1>3. /\ procs # <<>> /\ next \in {"Running", "Stopped", "Done"}
      /\ next # "Running" => \A k \in DOMAIN procs : procs[k] # "none"
      /\ next = "Running" => \E k \in DOMAIN procs : procs[k] = "none"
      /\ next = "Stopped" => stops
  <2>1. slots[id].procs \in Seq({"none", "stop", "exit"})
    BY <1>1 DEF Job
  <2>2. i \in DOMAIN procs
    BY <2>1
  <2> QED
    BY <2>2 DEF StateOf
<1>4. next = "Running" => slots[id].state = "Running"
  <2>1. SUFFICES ASSUME next = "Running", slots[id].state # "Running" PROVE FALSE
    OBVIOUS
  <2>2. \A k \in DOMAIN slots[id].procs : slots[id].procs[k] # "none"
    BY <1>1, <2>1 DEF Reported
  <2>3. \A k \in DOMAIN procs : procs[k] # "none"
    BY <2>2
  <2> QED
    BY <1>3, <2>1, <2>3
<1> HIDE DEF procs, next, stops
<1>5. /\ job.procs = procs /\ job.stopStatus = stops
      /\ job.state = IF next = "Running" THEN slots[id].state ELSE next
  BY <1>1 DEF Job
<1>6. Reported(job)
  BY <1>3, <1>4, <1>5 DEF Reported
<1> HIDE DEF job
<1> QED
  BY <1>1, <1>2, <1>6, JobChanges

LEMMA NextStatus ==
  ASSUME TableInv, StatusInv, [JNext]_jvars
  PROVE  StatusInv'
<1>1. ASSUME NEW n, NEW m, create_job(n, m) PROVE StatusInv'
  <2>1. PICK id \in Id : slots' = [slots EXCEPT ![id] = NewJob] /\ cur' = id
    BY <1>1 DEF create_job
  <2>2. Reported(NewJob) /\ NewJob.state = "Running"
    BY DEF Reported, NewJob
  <2>3. slots'[cur'].state = "Running"
    BY <2>1, <2>2 DEF TableInv
  <2> QED
    BY <2>1, <2>2, <2>3, JobChanges DEF StatusInv
<1>2. ASSUME record_forked_child PROVE StatusInv'
  <2>1. cur \in Live /\ slots[cur] \in Job /\ cur \in Id /\ slots[cur].state = "Running"
    BY <1>2, LiveJob DEF record_forked_child, TableInv, StatusInv
  <2> DEFINE job == [slots[cur] EXCEPT !.procs = Append(@, "none")]
  <2>2. slots' = [slots EXCEPT ![cur] = job] /\ (phase' = "forking" => cur' = cur)
    BY <1>2 DEF record_forked_child
  <2>3. Reported(job) /\ job.state = "Running"
    BY <2>1 DEF Reported, Job
  <2>4. phase' = "forking" => slots'[cur'].state = "Running"
    BY <2>1, <2>2, <2>3 DEF TableInv
  <2> HIDE DEF job
  <2> QED
    BY <2>1, <2>2, <2>3, <2>4, JobChanges DEF StatusInv
<1>3. ASSUME NEW id \in Id, slots' = [slots EXCEPT ![id] = NoJob], phase' # "forking" PROVE StatusInv'
  BY <1>3, JobChanges DEF StatusInv
<1>4. ASSUME UNCHANGED slots, phase' # "forking" PROVE StatusInv'
  BY <1>4 DEF StatusInv, Live
<1>5. ASSUME NEW id \in Live, write_job(id) \/ remove_waited_job(id), phase' # "forking" PROVE StatusInv'
  <2>1. id \in Id /\ slots[id] \in Job /\ Reported(slots[id])
    BY LiveJob DEF StatusInv
  <2>2. /\ Reported([slots[id] EXCEPT !.changed = FALSE])
        /\ Reported([slots[id] EXCEPT !.waited = TRUE])
    BY <2>1, StillReported
  <2>3. \/ slots' = [slots EXCEPT ![id] = NoJob]
        \/ slots' = [slots EXCEPT ![id] = [slots[id] EXCEPT !.changed = FALSE]]
        \/ slots' = [slots EXCEPT ![id] = [slots[id] EXCEPT !.waited = TRUE]]
    BY <1>5 DEF write_job, remove_waited_job, Drop
  <2> QED
    BY <1>5, <2>1, <2>2, <2>3, JobChanges DEF StatusInv
<1>6. ASSUME ForkFails \/ ForegroundEnds PROVE StatusInv'
  <2>1. cur \in Id /\ phase' # "forking"
    BY <1>6, LiveJob DEF ForkFails, ForegroundEnds, TableInv
  <2>2. slots' = [slots EXCEPT ![cur] = NoJob] \/ UNCHANGED slots
    BY <1>6 DEF ForkFails, ForegroundEnds, Drop
  <2> QED
    BY <1>3, <1>4, <2>1, <2>2
<1>7. ASSUME \/ Abandon \/ ForegroundFails \/ SetMonitor \/ NextRecord \/ Exit \/ EndWalk \/ WalkSkips
             \/ \E w \in {"list", "notify", "wait"} : StartWalk(w)
      PROVE  StatusInv'
  BY <1>4, <1>7 DEF Abandon, ForegroundFails, SetMonitor, NextRecord, Exit, EndWalk, WalkSkips, StartWalk
<1>8. ASSUME WalkWrites \/ WalkWaits PROVE StatusInv'
  <2>1. Head(todo) \in Live
    BY <1>8, WalkOn DEF WalkWrites, WalkWaits
  <2> QED
    BY <1>5, <1>8, <2>1 DEF WalkWrites, WalkWaits
<1>9. ASSUME NEW id \in Live, JobsCommand(id) \/ WaitFor(id) PROVE StatusInv'
  BY <1>5, <1>9 DEF JobsCommand, WaitFor
<1>10. ASSUME NEW id \in Live, Bg(id) \/ Fg(id) \/ \E background \in BOOLEAN : RestartFails(id, background)
       PROVE  StatusInv'
  <2>1. id \in Id /\ slots[id] \in Job /\ Reported(slots[id]) /\ phase' # "forking"
    BY <1>10, LiveJob DEF StatusInv, Bg, Fg, RestartFails
  <2>2. Reported([slots[id] EXCEPT !.state = "Running"]) /\ Reported(Restarted(slots[id]))
    BY <2>1, StillReported
  <2>3. \/ slots' = [slots EXCEPT ![id] = slots[id]]
        \/ slots' = [slots EXCEPT ![id] = [slots[id] EXCEPT !.state = "Running"]]
        \/ slots' = [slots EXCEPT ![id] = Restarted(slots[id])]
    BY <1>10 DEF Bg, Fg, RestartFails
  <2>4. \A other \in Live' : Reported(slots'[other])
    BY <2>1, <2>2, <2>3, JobChanges
  <2> QED
    BY <2>1, <2>4 DEF StatusInv
<1>11. ASSUME NEW id \in Live, OnJob(id) PROVE StatusInv'
  <2>1. ASSUME NEW i \in DOMAIN slots[id].procs, NEW status \in {"stop", "exit"}, NEW notify \in BOOLEAN,
               ChildReports(id, i, status, notify)
        PROVE  StatusInv'
    <3>1. phase' # "forking"
      BY <2>1 DEF ChildReports
    <3> QED
      BY <2>1, <3>1, ReportIsReported DEF StatusInv
  <2> QED
    BY <1>9, <1>10, <1>11, <2>1 DEF OnJob
<1>12. CASE UNCHANGED jvars
  BY <1>12 DEF jvars, StatusInv, Live
<1> QED
  BY <1>1, <1>2, <1>6, <1>7, <1>8, <1>11, <1>12 DEF JNext

\* Every job that is shown or waited for as no longer running has the statuses
\* that write_job and wait unwrap, however stops, continuations, failed forks and
\* failed restarts interleave.
THEOREM StatusesAreThere == JSpec => []ReportedStatusExists
<1>1. JInit => TableInv /\ StatusInv /\ jobControl \in BOOLEAN
  BY InitTable DEF JInit, StatusInv, Live
<1>2. (TableInv /\ StatusInv /\ jobControl \in BOOLEAN) /\ [JNext]_jvars
      => (TableInv /\ StatusInv /\ jobControl \in BOOLEAN)'
  BY NextTable, NextStatus
<1>3. TableInv /\ StatusInv => ReportedStatusExists
  BY StatusIsThere
<1> QED
  BY <1>1, <1>2, <1>3, PTL DEF JSpec

\* How many records ago exit was refused is what job_warning stands for.
WarningInv ==
  /\ warning \in {"Ready", "Reported", "Grace"} /\ since \in 0 .. 2
  /\ warning = "Reported" => since = 0
  /\ warning = "Grace" => since = 1

LEMMA NextWarning ==
  ASSUME WarningInv, [JNext]_jvars
  PROVE  WarningInv'
<1>1. CASE UNCHANGED <<warning, since>>
  BY <1>1 DEF WarningInv
<1>2. CASE Aged
  BY <1>2 DEF Aged, advance, WarningInv
<1>3. CASE Exit
  BY <1>1, <1>3 DEF Exit, WarningInv
<1>4. UNCHANGED <<warning, since>> \/ Aged \/ Exit
  <2>1. ASSUME NEW id \in Live, OnJob(id) PROVE UNCHANGED <<warning, since>>
    BY <2>1 DEF OnJob, ChildReports, JobsCommand, WaitFor, Bg, Fg, RestartFails
  <2>2. ASSUME NEW n, NEW m, create_job(n, m) PROVE UNCHANGED <<warning, since>>
    BY <2>2 DEF create_job
  <2>3. CASE record_forked_child \/ ForkFails \/ Abandon \/ ForegroundEnds \/ ForegroundFails
    BY <2>3 DEF record_forked_child, ForkFails, Abandon, ForegroundEnds, ForegroundFails
  <2>4. ASSUME NEW w, StartWalk(w) PROVE UNCHANGED <<warning, since>>
    BY <2>4 DEF StartWalk
  <2>5. CASE WalkWrites \/ WalkSkips \/ WalkWaits \/ SetMonitor \/ UNCHANGED jvars
    BY <2>5 DEF WalkWrites, WalkSkips, WalkWaits, SetMonitor, jvars
  <2>6. CASE EndWalk \/ NextRecord
    BY <2>6 DEF EndWalk, NextRecord
  <2> QED
    BY <2>1, <2>2, <2>3, <2>4, <2>5, <2>6 DEF JNext
<1> QED
  BY <1>1, <1>2, <1>3, <1>4

\* exit and end of file leave stopped jobs behind only within a record of having
\* said so, whatever happened in between.
THEOREM ExitIsWarned == JSpec => ExitWasWarned
<1>1. JInit => WarningInv
  BY DEF JInit, WarningInv
<1>2. WarningInv /\ [JNext]_jvars => WarningInv'
  BY NextWarning
<1>3. ASSUME WarningInv, [JNext]_jvars
      PROVE  [phase' = "exited" /\ phase # "exited" /\ order # <<>> /\ Is(order[1], "Stopped")
              => since < 2]_jvars
  <2> SUFFICES ASSUME phase' = "exited", phase # "exited", order # <<>>, Is(order[1], "Stopped")
               PROVE  since < 2
    OBVIOUS
  <2>1. Exit
    <3>1. ASSUME NEW id \in Live, OnJob(id) PROVE phase' \in {phase, "waiting"}
      BY <3>1 DEF OnJob, ChildReports, JobsCommand, WaitFor, Bg, Fg, RestartFails
    <3>2. ASSUME NEW n, NEW m, create_job(n, m) PROVE phase' # "exited"
      BY <3>2 DEF create_job
    <3>3. ASSUME record_forked_child \/ ForkFails \/ Abandon \/ ForegroundEnds \/ ForegroundFails
          PROVE  phase' # "exited"
      BY <3>3 DEF record_forked_child, ForkFails, Abandon, ForegroundEnds, ForegroundFails
    <3>4. ASSUME NEW w, StartWalk(w) PROVE phase' # "exited"
      BY <3>4 DEF StartWalk
    <3>5. ASSUME \/ WalkWrites \/ WalkSkips \/ WalkWaits \/ SetMonitor \/ EndWalk \/ NextRecord
                 \/ UNCHANGED jvars
          PROVE  phase' \in {phase, "ready"}
      BY <3>5 DEF WalkWrites, WalkSkips, WalkWaits, SetMonitor, EndWalk, NextRecord, jvars
    <3> QED
      BY <1>3, <3>1, <3>2, <3>3, <3>4, <3>5 DEF JNext
  <2>2. ~has_stopped_jobs
    BY <2>1 DEF Exit
  <2>3. warning # "Ready"
    BY <2>2 DEF has_stopped_jobs, Is
  <2> QED
    BY <1>3, <2>3 DEF WarningInv
<1> QED
  BY <1>1, <1>2, <1>3, PTL DEF JSpec, ExitWasWarned

-----------------------------------------------------------------------------
(* The ranking, until a fault disturbs it.                                 *)

\* a stands somewhere in front of b.
Ahead(o, a, b) == \E i, j \in 1 .. Len(o) : i < j /\ o[i] = a /\ o[j] = b

LEMMA AheadIn ==
  ASSUME NEW S, NEW o \in Seq(S), Uniq(o), NEW a, NEW b, Ahead(o, a, b)
  PROVE  a \in S /\ b \in S /\ a # b
BY DEF Ahead, Uniq

\* retain puts nobody in front of anybody.
LEMMA RetainAhead ==
  ASSUME NEW S, NEW o \in Seq(S), NEW id, Uniq(o), NEW a, NEW b, Ahead(Retain(o, id), a, b)
  PROVE  Ahead(o, a, b) /\ a # id /\ b # id
<1>1. CASE \E k \in 1 .. Len(o) : o[k] = id
  <2>1. PICK k \in 1 .. Len(o) : k = CHOOSE x \in 1 .. Len(o) : o[x] = id
    BY <1>1
  <2>2. o[k] = id
    BY <1>1, <2>1
  <2>3. Len(o) \in Nat /\ Len(o) >= 1 /\ k \in Nat
    BY <2>1
  <2> DEFINE r == [i \in 1 .. Len(o) - 1 |-> IF i < k THEN o[i] ELSE o[i + 1]]
  <2>4. Retain(o, id) = r /\ Len(r) = Len(o) - 1
    BY <1>1, <2>1, <2>3 DEF Retain
  <2>5. PICK i \in 1 .. Len(o) - 1, j \in 1 .. Len(o) - 1 : i < j /\ r[i] = a /\ r[j] = b
    BY <2>4 DEF Ahead
  <2>6. PICK p \in 1 .. Len(o) : o[p] = a /\ p # k /\ p = IF i < k THEN i ELSE i + 1
    BY <2>3, <2>5
  <2>7. PICK q \in 1 .. Len(o) : o[q] = b /\ q # k /\ q = IF j < k THEN j ELSE j + 1
    BY <2>3, <2>5
  <2>8. p < q
    BY <2>3, <2>5, <2>6, <2>7
  <2> QED
    BY <2>2, <2>6, <2>7, <2>8 DEF Ahead, Uniq
<1>2. CASE ~ \E k \in 1 .. Len(o) : o[k] = id
  <2>1. Retain(o, id) = o
    BY <1>2 DEF Retain
  <2> QED
    BY <1>2, <2>1 DEF Ahead
<1> QED
  BY <1>1, <1>2

\* insert relates only the new id to the others.
LEMMA InsertAhead ==
  ASSUME NEW S, NEW o \in Seq(S), NEW id, NEW k \in 1 .. Len(o) + 1, NEW a, NEW b,
         Ahead(Insert(o, k, id), a, b)
  PROVE  \/ Ahead(o, a, b)
         \/ a = id /\ \E j \in k .. Len(o) : o[j] = b
         \/ b = id /\ \E i \in 1 .. k - 1 : o[i] = a
<1> DEFINE r == [i \in 1 .. Len(o) + 1 |-> IF i < k THEN o[i] ELSE IF i = k THEN id ELSE o[i - 1]]
<1>1. Insert(o, k, id) = r /\ Len(o) \in Nat /\ k \in Nat
  BY DEF Insert
<1>2. Len(r) = Len(o) + 1
  BY <1>1
<1>3. PICK i \in 1 .. Len(o) + 1, j \in 1 .. Len(o) + 1 : i < j /\ r[i] = a /\ r[j] = b
  BY <1>1, <1>2 DEF Ahead
<1>4. CASE i = k
  <2>1. a = id /\ j - 1 \in k .. Len(o) /\ o[j - 1] = b
    BY <1>1, <1>3, <1>4
  <2> QED
    BY <2>1
<1>5. CASE j = k
  <2>1. b = id /\ i \in 1 .. k - 1 /\ o[i] = a
    BY <1>1, <1>3, <1>5
  <2> QED
    BY <2>1
<1>6. CASE i # k /\ j # k
  <2>1. PICK p \in 1 .. Len(o) : o[p] = a /\ p = IF i < k THEN i ELSE i - 1
    BY <1>1, <1>3, <1>6
  <2>2. PICK q \in 1 .. Len(o) : o[q] = b /\ q = IF j < k THEN j ELSE j - 1
    BY <1>1, <1>3, <1>6
  <2>3. p < q
    BY <1>1, <1>3, <1>6, <2>1, <2>2
  <2> QED
    BY <2>1, <2>2, <2>3 DEF Ahead
<1> QED
  BY <1>4, <1>5, <1>6

\* occupy_current and position_stopped put only their id in front of others.
LEMMA FrontAhead ==
  ASSUME NEW S, NEW o \in Seq(S), NEW id, Uniq(o), NEW a, NEW b, Ahead(ToFront(o, id), a, b)
  PROVE  b # id /\ (a = id \/ Ahead(o, a, b))
<1> DEFINE r == Retain(o, id)
<1>1. r \in Seq(S) /\ Uniq(r) /\ Elems(r) = Elems(o) \ {id}
  BY RetainDrops
<1>2. Ahead(Insert(r, 1, id), a, b)
  BY DEF ToFront
<1>3. Ahead(r, a, b) => Ahead(o, a, b) /\ b # id
  BY RetainAhead
<1> HIDE DEF r
<1>4. \/ Ahead(r, a, b)
      \/ a = id /\ \E j \in 1 .. Len(r) : r[j] = b
      \/ b = id /\ \E i \in 1 .. 1 - 1 : r[i] = a
  <2>1. 1 \in 1 .. Len(r) + 1
    BY <1>1
  <2> QED
    BY <1>1, <1>2, <2>1, InsertAhead
<1>5. (\E j \in 1 .. Len(r) : r[j] = b) => b # id
  BY <1>1 DEF Elems
<1>6. ~ \E i \in 1 .. 1 - 1 : r[i] = a
  OBVIOUS
<1> QED
  BY <1>3, <1>4, <1>5, <1>6

\* The leading stopped jobs are those up to their number.
LEMMA LeadingIs ==
  ASSUME NEW S, NEW o \in Seq(S), NEW s
  PROVE  /\ Cardinality(LeadingStopped(o, s)) \in 0 .. Len(o)
         /\ LeadingStopped(o, s) = 1 .. Cardinality(LeadingStopped(o, s))
<1> DEFINE L == LeadingStopped(o, s)
<1>1. Len(o) \in Nat /\ L \subseteq 1 .. Len(o)
  BY DEF LeadingStopped
<1>2. ASSUME NEW k \in L, NEW i \in 1 .. k PROVE i \in L
  BY <1>1, <1>2 DEF LeadingStopped
<1>3. \E m \in 0 .. Len(o) : L = 1 .. m
  <2>1. CASE L = {}
    <3>1. L = 1 .. 0 /\ 0 \in 0 .. Len(o)
      BY <1>1, <2>1
    <3> QED
      BY <3>1
  <2>2. CASE L # {}
    <3> HIDE DEF L
    <3>1. PICK m \in L : \A k \in L : k <= m
      BY <1>1, <2>2, GreatestExists
    <3>2. L = 1 .. m
      <4>1. L \subseteq 1 .. m
        BY <1>1, <3>1
      <4>2. 1 .. m \subseteq L
        BY <1>2
      <4> QED
        BY <4>1, <4>2
    <3> QED
      BY <1>1, <3>1, <3>2
  <2> QED
    BY <2>1, <2>2
<1>4. PICK m \in 0 .. Len(o) : L = 1 .. m
  BY <1>3
<1>5. Cardinality(1 .. m) = m
  <2>1. Cardinality(1 .. m) = IF 1 > m THEN 0 ELSE m - 1 + 1
    BY <1>1, FS_Interval
  <2> QED
    BY <1>1, <2>1
<1> QED
  BY <1>4, <1>5

\* position_running puts its id in front of a stopped job only when another job
\* that is not stopped is in front of that one already.
LEMMA BehindAhead ==
  ASSUME NEW S, NEW o \in Seq(S), NEW id, NEW s, Uniq(o), NEW a, NEW b,
         Ahead(BehindStopped(o, s, id), a, b), b # id, s[b].state = "Stopped"
  PROVE  \/ Ahead(o, a, b) /\ a # id
         \/ a = id /\ \E c : c # id /\ Ahead(o, c, b) /\ s[c].state # "Stopped"
<1> DEFINE r == Retain(o, id)
           m == Cardinality(LeadingStopped(r, s))
<1>1. r \in Seq(S) /\ Uniq(r) /\ Elems(r) = Elems(o) \ {id} /\ Len(r) \in Nat
  BY RetainDrops
<1>2. \A c : Ahead(r, c, b) => Ahead(o, c, b) /\ c # id
  BY RetainAhead
<1>3. m \in 0 .. Len(r) /\ LeadingStopped(r, s) = 1 .. m
  BY <1>1, LeadingIs
<1>4. Ahead(Insert(r, m + 1, id), a, b)
  BY DEF BehindStopped
<1> HIDE DEF r, m
<1>5. Ahead(r, a, b) \/ (a = id /\ \E j \in m + 1 .. Len(r) : r[j] = b)
  BY <1>1, <1>3, <1>4, InsertAhead
<1>6. ASSUME NEW j \in m + 1 .. Len(r), r[j] = b
      PROVE  \E c : Ahead(r, c, b) /\ s[c].state # "Stopped"
  <2>1. j \in 1 .. Len(r) /\ j \notin LeadingStopped(r, s)
    BY <1>1, <1>3
  <2>2. PICK i \in 1 .. j : s[r[i]].state # "Stopped"
    BY <2>1 DEF LeadingStopped
  <2>3. i < j /\ i \in 1 .. Len(r)
    BY <1>1, <1>6, <2>1, <2>2
  <2>4. Ahead(r, r[i], b)
    BY <1>6, <2>1, <2>3 DEF Ahead
  <2> QED
    BY <2>2, <2>4
<1> QED
  BY <1>2, <1>5, <1>6

\* The inductive invariant.  It says more than the property, in two ways: no job
\* that is not stopped, done ones included, is in front of a stopped one, because
\* position_running stops at the first of them; and a stopped job still has a
\* stopped process, so that only killing that one can make the job done.
InRank ==
  \A a, b : Ahead(order, a, b) /\ Is(b, "Stopped") /\ ~Is(a, "Stopped")
            => phase \in {"forking", "waiting"} /\ a = cur

HasStop(j)  == j.state = "Stopped" => \E i \in DOMAIN j.procs : j.procs[i] = "stop"
StopsRemain == \A id \in Live : HasStop(slots[id])

RankInv == left \in Nat /\ StopsRemain /\ (~disturbed => InRank)

\* One job is replaced or dropped, or created.
LEMMA StopsWritten ==
  ASSUME TableInv, StopsRemain, NEW id \in Id,
         \/ \E job : slots' = [slots EXCEPT ![id] = job] /\ HasStop(job)
         \/ slots' = [slots EXCEPT ![id] = NoJob]
  PROVE  StopsRemain'
<1> SUFFICES ASSUME NEW other \in Live' PROVE HasStop(slots'[other])
  BY DEF StopsRemain
<1>1. other \in Id /\ slots'[other] # NoJob
  BY DEF Live
<1>2. CASE other = id
  BY <1>1, <1>2 DEF TableInv
<1>3. CASE other # id
  <2>1. slots'[other] = slots[other]
    BY <1>1, <1>3 DEF TableInv
  <2>2. other \in Live
    BY <1>1, <2>1 DEF Live
  <2> QED
    BY <2>1, <2>2 DEF StopsRemain
<1> QED
  BY <1>2, <1>3

LEMMA StopsStay == ASSUME StopsRemain, UNCHANGED slots PROVE StopsRemain'
BY DEF StopsRemain, Live

\* A step after which the order and the states of its jobs are what they were.
LEMMA RankStays ==
  ASSUME InRank, order' = order,
         \A x \in Elems(order) : slots'[x] # NoJob <=> slots[x] # NoJob,
         \A x \in Elems(order) : slots'[x].state = slots[x].state,
         \/ phase' = phase /\ cur' = cur
         \/ phase \notin {"forking", "waiting"}
         \/ phase = "forking" /\ phase' = "waiting" /\ cur' = cur
  PROVE  InRank'
<1> SUFFICES ASSUME NEW a, NEW b, Ahead(order, a, b), Is(b, "Stopped")', ~Is(a, "Stopped")'
             PROVE  phase' \in {"forking", "waiting"} /\ a = cur'
  BY DEF InRank
<1>1. a \in Elems(order) /\ b \in Elems(order)
  BY DEF Ahead, Elems
<1>2. Is(b, "Stopped") /\ ~Is(a, "Stopped")
  BY <1>1 DEF Is
<1> QED
  BY <1>2 DEF InRank

\* The removal of a job leaves the ranking of the others.
LEMMA RankDrops ==
  ASSUME TableInv, InRank, NEW id \in Live, Drop(id),
         \/ phase' = phase /\ cur' = cur
         \/ phase \notin {"forking", "waiting"}
         \/ id = cur
  PROVE  InRank'
<1> SUFFICES ASSUME NEW a, NEW b, Ahead(order', a, b), Is(b, "Stopped")', ~Is(a, "Stopped")'
             PROVE  phase' \in {"forking", "waiting"} /\ a = cur'
  BY DEF InRank
<1>1. order \in Seq(Id) /\ Uniq(order)
  BY DEF TableInv
<1>2. Ahead(order, a, b) /\ a # id /\ b # id
  BY <1>1, RetainAhead DEF Drop
<1>3. a \in Id /\ b \in Id
  BY <1>1, <1>2, AheadIn
<1>4. slots'[a] = slots[a] /\ slots'[b] = slots[b]
  BY <1>2, <1>3 DEF Drop, TableInv
<1>5. Is(b, "Stopped") /\ ~Is(a, "Stopped")
  BY <1>4 DEF Is
<1> QED
  BY <1>2, <1>5 DEF InRank

\* A job that is written and moved to the front: a job just created, which is
\* the current one, or one that has stopped.
LEMMA RankFronts ==
  ASSUME TableInv, InRank, NEW id \in Id, NEW job \in Job, slots' = [slots EXCEPT ![id] = job],
         order' = ToFront(order, id),
         \/ /\ job.state = "Stopped"
            /\ phase' = phase /\ cur' = cur
         \/ /\ phase = "ready" /\ phase' = "forking" /\ cur' = id
  PROVE  InRank'
<1> SUFFICES ASSUME NEW a, NEW b, Ahead(order', a, b), Is(b, "Stopped")', ~Is(a, "Stopped")'
             PROVE  phase' \in {"forking", "waiting"} /\ a = cur'
  BY DEF InRank
<1>1. order \in Seq(Id) /\ Uniq(order) /\ slots'[id] = job /\ job # NoJob
  BY NoJobAssumption DEF TableInv
<1>2. b # id /\ (a = id \/ Ahead(order, a, b))
  BY <1>1, FrontAhead
<1>3. CASE a = id
  BY <1>1, <1>3 DEF Is
<1>4. CASE a # id
  <2>1. Ahead(order, a, b)
    BY <1>2, <1>4
  <2>2. a \in Id /\ b \in Id
    BY <1>1, <2>1, AheadIn
  <2>3. slots'[a] = slots[a] /\ slots'[b] = slots[b]
    BY <1>2, <1>4, <2>2 DEF TableInv
  <2>4. Is(b, "Stopped") /\ ~Is(a, "Stopped")
    BY <2>3 DEF Is
  <2> QED
    BY <2>1, <2>4 DEF InRank
<1> QED
  BY <1>3, <1>4

\* A job that is written and started in the background, from the prompt or at
\* the end of its fork.
LEMMA RankBehinds ==
  ASSUME TableInv, InRank, NEW id \in Id, NEW job \in Job, slots' = [slots EXCEPT ![id] = job],
         order' = BehindStopped(order, slots, id), job.state # "Stopped",
         phase \notin {"forking", "waiting"} \/ id = cur
  PROVE  InRank'
<1> SUFFICES ASSUME NEW a, NEW b, Ahead(order', a, b), Is(b, "Stopped")', ~Is(a, "Stopped")'
             PROVE  FALSE
  BY DEF InRank
<1>1. order \in Seq(Id) /\ Uniq(order) /\ slots'[id] = job
  BY DEF TableInv
<1>2. b # id
  BY <1>1 DEF Is
<1>3. order' \in Seq(Id) /\ Uniq(order')
  BY <1>1, BehindAdds
<1>4. a \in Id /\ b \in Id
  BY <1>3, AheadIn
<1>5. slots'[b] = slots[b] /\ Is(b, "Stopped")
  BY <1>2, <1>4 DEF TableInv, Is
<1>6. \/ Ahead(order, a, b) /\ a # id
      \/ a = id /\ \E c : c # id /\ Ahead(order, c, b) /\ slots[c].state # "Stopped"
  <2>1. slots[b].state = "Stopped"
    BY <1>5 DEF Is
  <2> QED
    BY <1>1, <1>2, <2>1, BehindAhead
<1>7. CASE Ahead(order, a, b) /\ a # id
  <2>1. ~Is(a, "Stopped")
    BY <1>4, <1>7 DEF TableInv, Is
  <2> QED
    BY <1>5, <1>7, <2>1 DEF InRank
<1>8. ASSUME NEW c, c # id, Ahead(order, c, b), slots[c].state # "Stopped" PROVE FALSE
  BY <1>5, <1>8 DEF InRank, Is
<1> QED
  BY <1>6, <1>7, <1>8

-----------------------------------------------------------------------------
(* Every step keeps it.                                                    *)

LEMMA LeftIsCounted == ASSUME left \in Nat, [JNext]_jvars PROVE left' \in Nat
<1>1. ASSUME NEW n \in 1 .. MaxProcs, NEW m, create_job(n, m) PROVE left' \in Nat
  BY <1>1, JobTableAssumption DEF create_job
<1>2. CASE record_forked_child \/ ForkFails \/ Abandon
  BY <1>2 DEF record_forked_child, ForkFails, Abandon
<1>3. CASE \/ ForegroundEnds \/ ForegroundFails \/ WalkWrites \/ WalkSkips \/ WalkWaits \/ EndWalk
           \/ SetMonitor \/ NextRecord \/ Exit \/ UNCHANGED jvars
           \/ \E w \in {"list", "notify", "wait"} : StartWalk(w)
  BY <1>3 DEF ForegroundEnds, ForegroundFails, WalkWrites, WalkSkips, WalkWaits, EndWalk,
              SetMonitor, NextRecord, Exit, StartWalk, jvars
<1>4. ASSUME NEW id \in Live, OnJob(id) PROVE left' \in Nat
  BY <1>4 DEF OnJob, ChildReports, JobsCommand, WaitFor, Bg, Fg, RestartFails
<1> QED
  BY <1>1, <1>2, <1>3, <1>4 DEF JNext

\* What becomes of the job a report is about, and of its state.
LEMMA ReportWrites ==
  ASSUME TableInv, StatusInv, StopsRemain, NEW id \in Live, NEW i \in DOMAIN slots[id].procs,
         NEW status \in {"stop", "exit"}, NEW notify \in BOOLEAN,
         ChildReports(id, i, status, notify)
  PROVE  \/ Drop(id)
         \/ \E job \in Job :
              /\ slots' = [slots EXCEPT ![id] = job] /\ HasStop(job)
              /\ job.state = "Stopped" /\ slots[id].state # "Stopped" => order' = ToFront(order, id)
              /\ job.state # "Stopped" \/ slots[id].state = "Stopped" => order' = order
              /\ slots[id].state = "Stopped" /\ job.state # "Stopped" => slots[id].procs[i] = "stop"
<1> DEFINE procs == [slots[id].procs EXCEPT ![i] = status]
           next  == StateOf(procs)
           stops == \E k \in DOMAIN procs : procs[k] = "stop"
           job   == [slots[id] EXCEPT !.procs = procs, !.stopStatus = stops,
                       !.state = IF next = "Running" THEN @ ELSE next,
                       !.changed = @ \/ next # "Running"]
<1>1. id \in Id /\ slots[id] \in Job /\ Reported(slots[id]) /\ HasStop(slots[id])
  BY LiveJob DEF StatusInv, StopsRemain
<1>2. slots[id].procs \in Seq({"none", "stop", "exit"}) /\ slots[id].state \in State
      /\ slots[id].changed \in BOOLEAN
  BY <1>1 DEF Job
<1>3. procs \in Seq({"none", "stop", "exit"}) /\ DOMAIN procs = DOMAIN slots[id].procs
  BY <1>2
<1>4. \A k \in DOMAIN procs : k # i => procs[k] = slots[id].procs[k]
  BY <1>2
<1>5. /\ next \in {"Running", "Stopped", "Done"}
      /\ next = "Stopped" => stops
      /\ next = "Done" => ~stops
      /\ next = "Running" => \E k \in DOMAIN procs : procs[k] = "none"
  BY DEF StateOf
<1>6. \/ Drop(id)
      \/ /\ slots' = [slots EXCEPT ![id] = job]
         /\ order' = IF job.state = "Stopped" /\ slots[id].state # "Stopped"
                     THEN ToFront(order, id) ELSE order
  BY DEF ChildReports
<1>7. procs[i] = status
  BY <1>2
<1>8. next = "Running" => slots[id].state # "Stopped"
  BY <1>1, <1>3, <1>4, <1>5, <1>7 DEF Reported
<1>9. slots[id].state = "Stopped" /\ next # "Stopped" => slots[id].procs[i] = "stop"
  <2> SUFFICES ASSUME slots[id].state = "Stopped", next # "Stopped" PROVE slots[id].procs[i] = "stop"
    OBVIOUS
  <2>1. PICK k \in DOMAIN slots[id].procs : slots[id].procs[k] = "stop"
    BY <1>1 DEF HasStop
  <2>2. ~stops
    BY <1>5, <1>8
  <2> QED
    BY <1>3, <1>4, <2>1, <2>2
<1> HIDE DEF procs, next
<1>10. /\ job.procs = procs /\ job.stopStatus = stops
       /\ job.state = IF next = "Running" THEN slots[id].state ELSE next
  BY <1>1 DEF Job
<1>11. job \in Job
  <2>1. stops \in BOOLEAN /\ (slots[id].changed \/ next # "Running") \in BOOLEAN /\ next \in State
    BY <1>2, <1>5 DEF State
  <2> HIDE DEF stops
  <2> QED
    BY <1>1, <1>2, <1>3, <2>1 DEF Job
<1>12. HasStop(job)
  BY <1>5, <1>8, <1>10 DEF HasStop
<1>13. job.state = "Stopped" => next = "Stopped"
  BY <1>8, <1>10
<1> HIDE DEF job, stops
<1>14. slots[id].state = "Stopped" /\ job.state # "Stopped" => slots[id].procs[i] = "stop"
  BY <1>5, <1>8, <1>9, <1>10
<1> QED
  BY <1>6, <1>11, <1>12, <1>14

\* What write_job, remove_waited_job, fg and bg write.
LEMMA StillHasStop ==
  ASSUME NEW j \in Job
  PROVE  /\ HasStop([j EXCEPT !.state = "Running"]) /\ HasStop(Restarted(j))
         /\ HasStop(j) => HasStop([j EXCEPT !.changed = FALSE]) /\ HasStop([j EXCEPT !.waited = TRUE])
BY DEF Job, HasStop, Restarted

LEMMA NextStops ==
  ASSUME TableInv, StatusInv, StopsRemain, [JNext]_jvars
  PROVE  StopsRemain'
<1>1. ASSUME NEW n, NEW m, create_job(n, m) PROVE StopsRemain'
  <2>1. PICK id \in Id : slots' = [slots EXCEPT ![id] = NewJob]
    BY <1>1 DEF create_job
  <2>2. HasStop(NewJob)
    BY DEF HasStop, NewJob
  <2> QED
    BY <2>1, <2>2, StopsWritten
<1>2. ASSUME record_forked_child PROVE StopsRemain'
  <2>1. cur \in Id /\ slots[cur] \in Job /\ slots[cur].state = "Running"
    BY <1>2, LiveJob DEF record_forked_child, TableInv, StatusInv
  <2> DEFINE job == [slots[cur] EXCEPT !.procs = Append(@, "none")]
  <2>2. slots' = [slots EXCEPT ![cur] = job]
    BY <1>2 DEF record_forked_child
  <2>3. HasStop(job)
    BY <2>1 DEF HasStop, Job
  <2> HIDE DEF job
  <2> QED
    BY <2>1, <2>2, <2>3, StopsWritten
<1>3. ASSUME NEW id \in Live, write_job(id) \/ remove_waited_job(id) PROVE StopsRemain'
  <2>1. id \in Id /\ slots[id] \in Job /\ HasStop(slots[id])
    BY LiveJob DEF StopsRemain
  <2>2. /\ HasStop([slots[id] EXCEPT !.changed = FALSE])
        /\ HasStop([slots[id] EXCEPT !.waited = TRUE])
    BY <2>1, StillHasStop
  <2>3. \/ slots' = [slots EXCEPT ![id] = NoJob]
        \/ slots' = [slots EXCEPT ![id] = [slots[id] EXCEPT !.changed = FALSE]]
        \/ slots' = [slots EXCEPT ![id] = [slots[id] EXCEPT !.waited = TRUE]]
    BY <1>3 DEF write_job, remove_waited_job, Drop
  <2> QED
    BY <2>1, <2>2, <2>3, StopsWritten
<1>4. ASSUME ForkFails \/ ForegroundEnds PROVE StopsRemain'
  <2>1. cur \in Id
    BY <1>4, LiveJob DEF ForkFails, ForegroundEnds, TableInv
  <2>2. slots' = [slots EXCEPT ![cur] = NoJob] \/ UNCHANGED slots
    BY <1>4 DEF ForkFails, ForegroundEnds, Drop
  <2> QED
    BY <2>1, <2>2, StopsWritten, StopsStay
<1>5. ASSUME \/ Abandon \/ ForegroundFails \/ SetMonitor \/ NextRecord \/ Exit \/ EndWalk \/ WalkSkips
             \/ UNCHANGED jvars
             \/ \E w \in {"list", "notify", "wait"} : StartWalk(w)
      PROVE  StopsRemain'
  BY <1>5, StopsStay DEF Abandon, ForegroundFails, SetMonitor, NextRecord, Exit, EndWalk, WalkSkips,
                         StartWalk, jvars
<1>6. ASSUME WalkWrites \/ WalkWaits PROVE StopsRemain'
  <2>1. Head(todo) \in Live
    BY <1>6, WalkOn DEF WalkWrites, WalkWaits
  <2> QED
    BY <1>3, <1>6, <2>1 DEF WalkWrites, WalkWaits
<1>7. ASSUME NEW id \in Live, Bg(id) \/ Fg(id) \/ \E background \in BOOLEAN : RestartFails(id, background)
      PROVE  StopsRemain'
  <2>1. id \in Id /\ slots[id] \in Job /\ HasStop(slots[id])
    BY LiveJob DEF StopsRemain
  <2>2. HasStop([slots[id] EXCEPT !.state = "Running"]) /\ HasStop(Restarted(slots[id]))
    BY <2>1, StillHasStop
  <2>3. \/ slots' = [slots EXCEPT ![id] = slots[id]]
        \/ slots' = [slots EXCEPT ![id] = [slots[id] EXCEPT !.state = "Running"]]
        \/ slots' = [slots EXCEPT ![id] = Restarted(slots[id])]
    BY <1>7 DEF Bg, Fg, RestartFails
  <2> QED
    BY <2>1, <2>2, <2>3, StopsWritten
<1>8. ASSUME NEW id \in Live, OnJob(id) PROVE StopsRemain'
  <2>1. ASSUME NEW i \in DOMAIN slots[id].procs, NEW status \in {"stop", "exit"}, NEW notify \in BOOLEAN,
               ChildReports(id, i, status, notify)
        PROVE  StopsRemain'
    <3>1. id \in Id
      BY LiveJob
    <3> QED
      BY <2>1, <3>1, ReportWrites, StopsWritten DEF Drop
  <2>2. CASE JobsCommand(id) \/ WaitFor(id)
    BY <1>3, <2>2 DEF JobsCommand, WaitFor
  <2> QED
    BY <1>7, <1>8, <2>1, <2>2 DEF OnJob
<1> QED
  BY <1>1, <1>2, <1>4, <1>5, <1>6, <1>8 DEF JNext

LEMMA NextInRank ==
  ASSUME TableInv, StatusInv, RankInv, jobControl \in BOOLEAN, ~disturbed, [JNext]_jvars, ~Disturbing
  PROVE  InRank'
<1> USE DEF RankInv
<1>1. ASSUME NEW n, NEW m, create_job(n, m) PROVE InRank'
  <2>1. PICK id \in Id : /\ slots' = [slots EXCEPT ![id] = NewJob]
                         /\ order' = ToFront(order, id) /\ cur' = id
    BY <1>1 DEF create_job
  <2>2. NewJob \in Job
    <3>1. <<>> \in Seq({"none", "stop", "exit"})
      OBVIOUS
    <3> QED
      BY <3>1 DEF NewJob, Job, State
  <2>3. phase = "ready" /\ phase' = "forking"
    BY <1>1 DEF create_job
  <2> QED
    BY <2>1, <2>2, <2>3, RankFronts
<1>2. ASSUME record_forked_child PROVE InRank'
  <2>1. cur \in Live /\ cur \in Id /\ slots[cur] \in Job /\ slots[cur].state = "Running" /\ phase = "forking"
    BY <1>2, LiveJob DEF record_forked_child, TableInv, StatusInv
  <2> DEFINE job == [slots[cur] EXCEPT !.procs = Append(@, "none")]
  <2>2. slots' = [slots EXCEPT ![cur] = job]
    BY <1>2 DEF record_forked_child
  <2>3. job \in Job /\ job.state = "Running"
    BY <2>1, StoredJobs DEF Job
  <2> HIDE DEF job
  <2>4. CASE mode = "Background"
    <3>1. order' = BehindStopped(order, slots, cur)
      BY <1>2, <2>4 DEF record_forked_child
    <3> QED
      BY <2>1, <2>2, <2>3, <3>1, RankBehinds
  <2>5. CASE mode # "Background"
    <3>1. order' = order /\ cur' = cur /\ phase' \in {"forking", "waiting"}
      BY <1>2, <2>5 DEF record_forked_child
    <3>2. \A x \in Elems(order) : /\ slots'[x] # NoJob <=> slots[x] # NoJob
                                  /\ slots'[x].state = slots[x].state
      BY <2>1, <2>2, <2>3, NoJobAssumption DEF TableInv, Live
    <3> QED
      BY <2>1, <3>1, <3>2, RankStays
  <2> QED
    BY <2>4, <2>5
<1>3. ASSUME ForkFails PROVE InRank'
  <2>1. cur \in Live /\ Drop(cur)
    BY <1>3 DEF ForkFails, TableInv
  <2> QED
    BY <2>1, RankDrops
<1>4. ASSUME ForegroundEnds PROVE InRank'
  <2>1. cur \in Live /\ phase = "waiting"
    BY <1>4 DEF ForegroundEnds, TableInv
  <2>2. CASE Is(cur, "Done")
    <3>1. Drop(cur)
      BY <1>4, <2>2 DEF ForegroundEnds
    <3> QED
      BY <2>1, <3>1, RankDrops
  <2>3. CASE ~Is(cur, "Done")
    <3>1. UNCHANGED <<slots, order>> /\ slots[cur].state # "Running"
      BY <1>4, <2>3 DEF ForegroundEnds
    <3>2. Is(cur, "Stopped")
      <4>1. slots[cur] # NoJob /\ slots[cur] \in Job
        BY <2>1, LiveJob DEF Live
      <4> QED
        BY <2>3, <3>1, <4>1 DEF Is, Job, State
    <3> QED
      BY <3>1, <3>2 DEF InRank, Is
  <2> QED
    BY <2>2, <2>3
<1>5. ASSUME \/ SetMonitor \/ NextRecord \/ Exit \/ EndWalk \/ WalkSkips \/ UNCHANGED jvars
             \/ \E w \in {"list", "notify", "wait"} : StartWalk(w)
      PROVE  InRank'
  <2>1. /\ slots' = slots /\ order' = order
        /\ \/ phase' = phase /\ cur' = cur
           \/ phase \notin {"forking", "waiting"}
    BY <1>5 DEF SetMonitor, NextRecord, Exit, EndWalk, WalkSkips, StartWalk, jvars
  <2> QED
    BY <2>1, RankStays
<1>6. ASSUME NEW id \in Live, write_job(id) \/ remove_waited_job(id), phase' = phase, cur' = cur
      PROVE  InRank'
  <2>1. CASE Drop(id)
    BY <1>6, <2>1, RankDrops
  <2>2. CASE ~Drop(id)
    <3>1. id \in Id /\ slots[id] \in Job
      BY LiveJob
    <3>2. /\ order' = order
          /\ \/ slots' = [slots EXCEPT ![id] = [slots[id] EXCEPT !.changed = FALSE]]
             \/ slots' = [slots EXCEPT ![id] = [slots[id] EXCEPT !.waited = TRUE]]
      BY <1>6, <2>2 DEF write_job, remove_waited_job
    <3>3. PICK job \in Job : slots' = [slots EXCEPT ![id] = job] /\ job.state = slots[id].state
      <4>1. /\ [slots[id] EXCEPT !.changed = FALSE] \in Job /\ [slots[id] EXCEPT !.waited = TRUE] \in Job
            /\ [slots[id] EXCEPT !.changed = FALSE].state = slots[id].state
            /\ [slots[id] EXCEPT !.waited = TRUE].state = slots[id].state
        BY <3>1, StoredJobs DEF Job
      <4> QED
        BY <3>2, <4>1
    <3>4. \A x \in Elems(order) : /\ slots'[x] # NoJob <=> slots[x] # NoJob
                                  /\ slots'[x].state = slots[x].state
      BY <3>1, <3>3, NoJobAssumption DEF TableInv, Live
    <3> QED
      BY <1>6, <3>2, <3>4, RankStays
  <2> QED
    BY <2>1, <2>2
<1>7. ASSUME WalkWrites \/ WalkWaits PROVE InRank'
  <2>1. Head(todo) \in Live
    BY <1>7, WalkOn DEF WalkWrites, WalkWaits
  <2> QED
    BY <1>6, <1>7, <2>1 DEF WalkWrites, WalkWaits
<1>8. ASSUME NEW id \in Live, NEW i \in DOMAIN slots[id].procs, NEW status \in {"stop", "exit"},
             NEW notify \in BOOLEAN, ChildReports(id, i, status, notify)
      PROVE  InRank'
  <2>1. phase' = phase /\ cur' = cur
    BY <1>8 DEF ChildReports
  <2>2. slots[id].procs[i] # "stop"
    BY <1>8 DEF Disturbing, KillsStopped
  <2>3. CASE Drop(id)
    BY <2>1, <2>3, RankDrops
  <2>4. ASSUME NEW job \in Job, slots' = [slots EXCEPT ![id] = job],
               job.state = "Stopped" /\ slots[id].state # "Stopped" => order' = ToFront(order, id),
               job.state # "Stopped" \/ slots[id].state = "Stopped" => order' = order,
               slots[id].state = "Stopped" /\ job.state # "Stopped" => slots[id].procs[i] = "stop"
        PROVE  InRank'
    <3>1. id \in Id /\ slots[id] \in Job
      BY LiveJob
    <3>2. CASE order' = ToFront(order, id) /\ job.state = "Stopped"
      BY <2>1, <2>4, <3>1, <3>2, RankFronts
    <3>3. CASE order' = order /\ (job.state = "Stopped" <=> slots[id].state = "Stopped")
      <4> SUFFICES ASSUME NEW a, NEW b, Ahead(order, a, b), Is(b, "Stopped")', ~Is(a, "Stopped")'
                   PROVE  phase' \in {"forking", "waiting"} /\ a = cur'
        BY <3>3 DEF InRank
      <4>1. a \in Id /\ b \in Id
        BY AheadIn DEF TableInv
      <4>2. Is(b, "Stopped") /\ ~Is(a, "Stopped")
        BY <2>4, <3>1, <3>3, <4>1, NoJobAssumption DEF TableInv, Is
      <4> QED
        BY <2>1, <4>2 DEF InRank
    <3> QED
      BY <2>2, <2>4, <3>2, <3>3
  <2> QED
    BY <1>8, <2>3, <2>4, ReportWrites
<1>9. ASSUME NEW id \in Live, Bg(id) PROVE InRank'
  <2>1. id \in Id /\ slots[id] \in Job
    BY LiveJob
  <2>2. /\ [slots[id] EXCEPT !.state = "Running"] \in Job /\ Restarted(slots[id]) \in Job
        /\ [slots[id] EXCEPT !.state = "Running"].state = "Running"
        /\ Restarted(slots[id]).state = "Running"
    <3>1. [slots[id] EXCEPT !.state = "Running"] \in Job /\ Restarted(slots[id]) \in Job
      BY <2>1, StoredJobs DEF State
    <3>2. /\ [slots[id] EXCEPT !.state = "Running"].state = "Running"
          /\ Restarted(slots[id]).state = "Running"
      BY <2>1 DEF Restarted, Job
    <3> QED
      BY <3>1, <3>2
  <2>3. PICK job \in Job : slots' = [slots EXCEPT ![id] = job] /\ job.state # "Stopped"
    BY <1>9, <2>1, <2>2 DEF Bg, Is
  <2>4. order' = BehindStopped(order, slots, id) /\ phase = "ready"
    BY <1>9 DEF Bg
  <2> QED
    BY <2>1, <2>3, <2>4, RankBehinds
<1>10. ASSUME NEW id \in Live, Fg(id) PROVE InRank'
  <2>1. id \in Id /\ slots[id] \in Job /\ Reported(slots[id])
    BY LiveJob DEF StatusInv
  <2>2. order' = order /\ phase = "ready"
    BY <1>10 DEF Fg
  <2> SUFFICES ASSUME NEW a, NEW b, Ahead(order, a, b), Is(b, "Stopped")', ~Is(a, "Stopped")'
               PROVE  phase' \in {"forking", "waiting"} /\ a = cur'
    BY <2>2 DEF InRank
  <2>3. a \in Id /\ b \in Id
    BY AheadIn DEF TableInv
  <2>4. /\ [slots[id] EXCEPT !.state = "Running"].state = "Running"
        /\ Restarted(slots[id]).state = "Running"
    BY <2>1 DEF Restarted, Job
  <2>5. slots'[id].state # "Stopped" /\ \A x \in Id : x # id => slots'[x] = slots[x]
    BY <1>10, <2>1, <2>4 DEF Fg, TableInv, Is, Live
  <2>6. b # id /\ Is(b, "Stopped")
    BY <2>3, <2>5 DEF Is
  <2>7. Is(a, "Stopped")
    BY <2>2, <2>6 DEF InRank
  <2>8. a = id /\ slots[id].state = "Stopped"
    BY <2>3, <2>5, <2>7 DEF Is
  <2>9. slots[id].procs # <<>>
    BY <2>1, <2>8 DEF Reported
  <2> QED
    BY <1>10, <2>8, <2>9 DEF Fg
<1>11. ASSUME NEW id \in Live, OnJob(id) PROVE InRank'
  <2>1. CASE JobsCommand(id) \/ WaitFor(id)
    BY <1>6, <2>1 DEF JobsCommand, WaitFor
  <2>2. ~ \E background \in BOOLEAN : RestartFails(id, background)
    BY DEF Disturbing
  <2> QED
    BY <1>8, <1>9, <1>10, <1>11, <2>1, <2>2 DEF OnJob
<1>12. ~Abandon /\ ~ForegroundFails
  BY DEF Disturbing
<1> QED
  BY <1>1, <1>2, <1>3, <1>4, <1>5, <1>7, <1>11, <1>12 DEF JNext

LEMMA RankIsFirst == ASSUME TableInv, RankInv PROVE StoppedRankFirst
<1> SUFFICES ASSUME ~disturbed, NEW i \in 1 .. Len(order), NEW j \in 1 .. Len(order),
                    i < j, Is(order[j], "Stopped"), Is(order[i], "Running")
             PROVE  phase \in {"forking", "waiting"} /\ order[i] = cur
  BY DEF StoppedRankFirst, StoppedBeforeRunning
<1>1. Ahead(order, order[i], order[j]) /\ ~Is(order[i], "Stopped")
  BY DEF Ahead, Is
<1> QED
  BY <1>1 DEF RankInv, InRank

\* Until a fault disturbs the table, every stopped job ranks before every job
\* that runs, whatever is started, stopped, continued, waited for and reported
\* in between: only the job in the foreground may be in front.  So %% and %+
\* name a stopped job while there is one.
THEOREM StoppedJobsRankFirst == SpecHistory => []StoppedRankFirst
<1> DEFINE I == TableInv /\ StatusInv /\ RankInv /\ jobControl \in BOOLEAN
<1>1. InitHistory => I
  <2> SUFFICES ASSUME InitHistory PROVE I
    OBVIOUS
  <2>1. TableInv /\ StatusInv /\ jobControl \in BOOLEAN /\ Live = {}
    BY InitTable DEF InitHistory, JInit, StatusInv, Live
  <2>2. RankInv
    <3>1. StopsRemain /\ left \in Nat
      BY <2>1 DEF InitHistory, JInit, StopsRemain
    <3>2. order = <<>> /\ \A a, b : ~Ahead(<<>>, a, b)
      BY DEF InitHistory, JInit, Ahead
    <3> QED
      BY <3>1, <3>2 DEF RankInv, InRank
  <2> QED
    BY <2>1, <2>2
<1>2. I /\ [NextHistory]_<<jvars, disturbed>> => I'
  <2> SUFFICES ASSUME I, [NextHistory]_<<jvars, disturbed>> PROVE I'
    OBVIOUS
  <2>1. [JNext]_jvars
    BY DEF NextHistory
  <2>2. TableInv' /\ StatusInv' /\ jobControl' \in BOOLEAN
    BY <2>1, NextTable, NextStatus
  <2>3. left' \in Nat /\ StopsRemain'
    BY <2>1, LeftIsCounted, NextStops DEF RankInv
  <2>4. ASSUME ~disturbed' PROVE InRank'
    <3>1. CASE NextHistory
      <4>1. ~disturbed /\ ~Disturbing
        BY <2>4, <3>1 DEF NextHistory
      <4> QED
        BY <2>1, <4>1, NextInRank
    <3>2. CASE UNCHANGED <<jvars, disturbed>>
      BY <2>4, <3>2 DEF jvars, RankInv, InRank, Is
    <3> QED
      BY <3>1, <3>2
  <2> QED
    BY <2>2, <2>3, <2>4 DEF RankInv
<1>3. I => StoppedRankFirst
  BY RankIsFirst
<1> QED
  BY <1>1, <1>2, <1>3, PTL DEF SpecHistory
=============================================================================
