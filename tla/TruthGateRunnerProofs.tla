------------------------ MODULE TruthGateRunnerProofs ------------------------
(***************************************************************************)
(* The order of submissions through the queue, the worker's hand and the   *)
(* results, for every queue size, number of submissions and frames, and    *)
(* across stops and restarts of the runner.                                *)
(***************************************************************************)
EXTENDS TruthGateRunner, FiniteSetTheorems, TLAPS

\* The inductive invariant: numbers only grow from the results through the
\* worker's hand and the queue to the next submission.
OrderInv ==
  /\ submits \in Nat
  /\ queue \in Seq(Nat)
  /\ results \in [Frames -> Nat \cup {None}]
  /\ inHand \in Nat \cup {None}
  /\ inHand # None <=> worker = "evaluating"
  /\ \A i, j \in 1..Len(queue) : i < j => queue[i] < queue[j]
  /\ queue # <<>> => queue[Len(queue)] = submits - 1
  /\ \A i \in 1..Len(queue) : queue[i] < submits
  /\ inHand # None => inHand < submits /\ \A i \in 1..Len(queue) : inHand < queue[i]
  /\ \A f \in Frames : results[f] # None =>
       /\ results[f] < submits
       /\ inHand # None => results[f] < inHand
       /\ \A i \in 1..Len(queue) : results[f] < queue[i]

\* Nobody starts a second worker: while the runner is stopped and no stop is
\* under way, there is none.
OneWorker == owner = "idle" /\ ~running => worker = "none"

LEMMA OneWorkerStep == OneWorker /\ [Next]_vars => OneWorker'
<1> SUFFICES ASSUME OneWorker, [Next]_vars PROVE OneWorker'
  OBVIOUS
<1> USE DEF OneWorker
<1>1. CASE Start \/ Stop \/ Owner
  BY <1>1 DEF Start, Stop, Owner, NotifyAll, Join
<1>2. CASE Submit
  BY <1>2 DEF Submit, NotifiedBySubmit, Notified
<1>3. ASSUME NEW f \in Frames, GetResult(f) PROVE OneWorker'
  BY <1>3 DEF GetResult
<1>4. CASE Worker \/ WakeUnasked \/ UNCHANGED vars
  BY <1>4 DEF Worker, WorkerEnds, Decide, Block, Take, Store, WakeUnasked, vars
<1> QED BY <1>1, <1>2, <1>3, <1>4 DEF Next

LEMMA OrderImplies == OrderInv => InOrder /\ NewestResult
<1> SUFFICES ASSUME OrderInv PROVE InOrder /\ NewestResult
  OBVIOUS
<1>1. DOMAIN queue = 1..Len(queue)
  BY DEF OrderInv
<1>2. Range(queue) = {queue[i] : i \in 1..Len(queue)}
  BY <1>1 DEF Range
<1>3. queue # <<>> => Last(queue) = submits - 1
  BY DEF OrderInv, Last
<1>4. \A i, j \in DOMAIN queue : i < j => queue[i] < queue[j]
  BY <1>1 DEF OrderInv
<1>5. inHand # None => \A n \in Range(queue) : inHand < n
  BY <1>2 DEF OrderInv
<1>6. NewestResult
  BY <1>2 DEF OrderInv, NewestResult
<1> QED BY <1>3, <1>4, <1>5, <1>6 DEF InOrder

\* A step that leaves the order of things alone.
LEMMA SameOrder ==
  ASSUME OrderInv, submits' = submits, queue' = queue, inHand' = inHand,
         results' = results \/ \E f \in Frames : results' = [results EXCEPT ![f] = None],
         worker' = "evaluating" <=> worker = "evaluating"
  PROVE  OrderInv'
<1>1. /\ results' \in [Frames -> Nat \cup {None}]
      /\ \A f \in Frames : results'[f] # None => results'[f] = results[f]
  BY DEF OrderInv
<1> QED BY <1>1 DEF OrderInv

LEMMA SubmitKeepsOrder == OrderInv /\ Submit => OrderInv'
<1>0. SUFFICES ASSUME OrderInv, Submit PROVE OrderInv'
  OBVIOUS
<1> USE <1>0
<1>1. /\ queue' = Append(Room, submits) /\ submits' = submits + 1
      /\ inHand' = inHand /\ results' = results
      /\ worker' = "evaluating" <=> worker = "evaluating"
  BY DEF Submit, Pushed, NotifiedBySubmit, Notified
<1>2. /\ Room \in Seq(Nat)
      /\ \A i, j \in 1..Len(Room) : i < j => Room[i] < Room[j]
      /\ \A i \in 1..Len(Room) : \E j \in 1..Len(queue) : Room[i] = queue[j]
  <2>1. CASE Len(queue) >= MaxQueueSize
    <3>1. queue # <<>> /\ Room = Tail(queue)
      BY <2>1, TruthGateRunnerAssumption DEF Room, OrderInv
    <3>2. /\ Room \in Seq(Nat) /\ Len(Room) = Len(queue) - 1
          /\ \A i \in 1..Len(Room) : Room[i] = queue[i + 1]
      BY <3>1 DEF OrderInv
    <3>3. \A i \in 1..Len(Room) : i + 1 \in 1..Len(queue)
      BY <3>2 DEF OrderInv
    <3>4. ASSUME NEW i \in 1..Len(Room), NEW j \in 1..Len(Room), i < j
          PROVE  Room[i] < Room[j]
      <4>1. i + 1 \in 1..Len(queue) /\ j + 1 \in 1..Len(queue) /\ i + 1 < j + 1
        BY <3>3, <3>4
      <4> QED BY <3>2, <4>1 DEF OrderInv
    <3> QED BY <3>2, <3>3, <3>4
  <2>2. CASE ~(Len(queue) >= MaxQueueSize)
    BY <2>2 DEF Room, OrderInv
  <2> QED BY <2>1, <2>2
<1> HIDE DEF Room
<1>3. /\ queue' \in Seq(Nat) /\ Len(queue') = Len(Room) + 1
      /\ queue'[Len(queue')] = submits
      /\ \A i \in 1..Len(Room) : queue'[i] = Room[i]
  BY <1>1, <1>2 DEF OrderInv
<1>4. \A i \in 1..Len(Room) :
        /\ Room[i] < submits
        /\ inHand # None => inHand < Room[i]
        /\ \A f \in Frames : results[f] # None => results[f] < Room[i]
  BY <1>2 DEF OrderInv
<1>5. \A i \in 1..Len(queue') : i = Len(queue') \/ i \in 1..Len(Room)
  BY <1>2, <1>3
<1>6. \A i \in 1..Len(queue') : queue'[i] \in Nat /\ queue'[i] < submits'
  BY <1>1, <1>2, <1>3, <1>4, <1>5 DEF OrderInv
<1>7. ASSUME NEW i \in 1..Len(queue'), NEW j \in 1..Len(queue'), i < j
      PROVE  queue'[i] < queue'[j]
  <2>1. i \in 1..Len(Room) /\ Len(Room) \in Nat
    BY <1>2, <1>3, <1>7
  <2>2. CASE j = Len(queue')
    BY <1>3, <1>4, <2>1, <2>2
  <2>3. CASE j \in 1..Len(Room)
    BY <1>2, <1>3, <1>7, <2>1, <2>3
  <2> QED BY <1>5, <2>2, <2>3
<1>8. inHand' # None => inHand' < submits' /\ \A i \in 1..Len(queue') : inHand' < queue'[i]
  BY <1>1, <1>3, <1>4, <1>5 DEF OrderInv
<1>9. \A f \in Frames : results'[f] # None =>
        /\ results'[f] < submits'
        /\ inHand' # None => results'[f] < inHand'
        /\ \A i \in 1..Len(queue') : results'[f] < queue'[i]
  BY <1>1, <1>3, <1>4, <1>5 DEF OrderInv
<1>10. /\ submits' \in Nat /\ queue' \in Seq(Nat)
       /\ results' \in [Frames -> Nat \cup {None}] /\ inHand' \in Nat \cup {None}
       /\ inHand' # None <=> worker' = "evaluating"
  BY <1>1, <1>3 DEF OrderInv
<1>11. queue'[Len(queue')] = submits' - 1
  BY <1>1, <1>3 DEF OrderInv
<1> HIDE <1>0
<1> QED BY <1>6, <1>7, <1>8, <1>9, <1>10, <1>11 DEF OrderInv

LEMMA TakeKeepsOrder == OrderInv /\ Take => OrderInv'
<1>0. SUFFICES ASSUME OrderInv, Take PROVE OrderInv'
  OBVIOUS
<1> USE <1>0
<1>1. /\ queue # <<>> /\ queue' = Tail(queue) /\ inHand' = queue[1]
      /\ worker' = "evaluating" /\ submits' = submits /\ results' = results
  BY DEF Take
<1>2. /\ queue' \in Seq(Nat) /\ Len(queue') = Len(queue) - 1 /\ Len(queue) > 0
      /\ \A i \in 1..Len(queue') : queue'[i] = queue[i + 1]
  BY <1>1 DEF OrderInv
<1>3. \A i \in 1..Len(queue') : i + 1 \in 1..Len(queue) /\ 1 < i + 1
  BY <1>2 DEF OrderInv
<1>4. 1 \in 1..Len(queue) /\ inHand' \in Nat /\ inHand' < submits
  BY <1>1, <1>2 DEF OrderInv
<1>5. inHand' # None
  BY <1>4 DEF None
<1>6. \A i \in 1..Len(queue') : inHand' < queue'[i] /\ queue'[i] < submits'
  BY <1>1, <1>2, <1>3, <1>4 DEF OrderInv
<1>7. ASSUME NEW i \in 1..Len(queue'), NEW j \in 1..Len(queue'), i < j
      PROVE  queue'[i] < queue'[j]
  <2>1. i + 1 \in 1..Len(queue) /\ j + 1 \in 1..Len(queue) /\ i + 1 < j + 1
    BY <1>3, <1>7
  <2> QED BY <1>2, <2>1 DEF OrderInv
<1>8. queue' # <<>> => queue'[Len(queue')] = submits' - 1
  BY <1>1, <1>2 DEF OrderInv
<1>9. \A f \in Frames : results'[f] # None =>
        /\ results'[f] < submits' /\ results'[f] < inHand'
        /\ \A i \in 1..Len(queue') : results'[f] < queue'[i]
  BY <1>1, <1>2, <1>3, <1>4 DEF OrderInv
<1>10. /\ submits' \in Nat /\ queue' \in Seq(Nat)
       /\ results' \in [Frames -> Nat \cup {None}]
       /\ inHand' \in Nat /\ inHand' < submits' /\ worker' = "evaluating"
  BY <1>1, <1>2, <1>4 DEF OrderInv
<1> HIDE <1>0
<1> QED BY <1>5, <1>6, <1>7, <1>8, <1>9, <1>10 DEF OrderInv

LEMMA StoreKeepsOrder == OrderInv /\ Store => OrderInv'
<1> SUFFICES ASSUME OrderInv, Store PROVE OrderInv'
  OBVIOUS
<1>1. /\ inHand \in Nat /\ inHand < submits
      /\ \A i \in 1..Len(queue) : inHand < queue[i]
  BY DEF Store, OrderInv
<1>2. /\ results' = [results EXCEPT ![frameOf[inHand]] = inHand]
      /\ inHand' = None /\ worker' = "top" /\ queue' = queue /\ submits' = submits
  BY DEF Store, Stored
<1>3. /\ results' \in [Frames -> Nat \cup {None}]
      /\ \A f \in Frames : results'[f] \in {results[f], inHand}
  BY <1>1, <1>2 DEF OrderInv
<1>4. \A f \in Frames : results'[f] # None =>
        results'[f] < submits' /\ \A i \in 1..Len(queue') : results'[f] < queue'[i]
  BY <1>1, <1>2, <1>3 DEF OrderInv
<1> QED BY <1>2, <1>3, <1>4 DEF OrderInv

LEMMA OrderStep == OneWorker /\ OrderInv /\ [Next]_vars => OrderInv'
<1> SUFFICES ASSUME OneWorker, OrderInv, [Next]_vars PROVE OrderInv'
  OBVIOUS
<1>1. CASE Start \/ Stop \/ Owner
  <2>1. CASE Start
    BY <2>1, SameOrder DEF Start, OneWorker
  <2>2. CASE Stop \/ NotifyAll
    BY <2>2, SameOrder DEF Stop, NotifyAll, Notified
  <2>3. CASE Join
    BY <2>3, SameOrder DEF Join
  <2> QED BY <1>1, <2>1, <2>2, <2>3 DEF Owner
<1>2. ASSUME NEW f \in Frames, GetResult(f) PROVE OrderInv'
  BY <1>2, SameOrder DEF GetResult
<1>3. CASE WorkerEnds \/ Decide \/ Block \/ WakeUnasked
  BY <1>3, SameOrder DEF WorkerEnds, Decide, Block, WakeUnasked
<1>4. CASE UNCHANGED vars
  BY <1>4, SameOrder DEF vars
<1> QED
  BY <1>1, <1>2, <1>3, <1>4, SubmitKeepsOrder, TakeKeepsOrder, StoreKeepsOrder DEF Next, Worker

LEMMA OrderHolds == Spec => []OrderInv
<1>1. Init => OneWorker /\ OrderInv
  BY DEF Init, OneWorker, OrderInv, None
<1> QED BY <1>1, OneWorkerStep, OrderStep, PTL DEF Spec

\* A submission's number, and the queue's bound.
LEMMA RoomFacts ==
  ASSUME TypeOK
  PROVE  /\ Room \in Seq(Submissions)
         /\ Len(Room) < MaxQueueSize
         /\ Range(queue) \subseteq Submissions
<1> USE TruthGateRunnerAssumption
<1>1. queue \in Seq(Submissions) /\ Len(queue) <= MaxQueueSize
  BY DEF TypeOK
<1>2. Range(queue) \subseteq Submissions
  BY <1>1 DEF Range
<1>3. CASE Len(queue) >= MaxQueueSize
  <2>1. Room = Tail(queue) /\ queue # <<>>
    BY <1>1, <1>3 DEF Room
  <2>2. Tail(queue) \in Seq(Submissions) /\ Len(Tail(queue)) = Len(queue) - 1
    BY <1>1, <2>1
  <2> QED BY <1>1, <1>2, <2>1, <2>2
<1>4. CASE ~(Len(queue) >= MaxQueueSize)
  BY <1>1, <1>2, <1>4 DEF Room
<1> QED BY <1>3, <1>4

LEMMA TypesStep == OrderInv /\ TypeOK /\ [Next]_vars => TypeOK'
<1> SUFFICES ASSUME OrderInv, TypeOK, [Next]_vars PROVE TypeOK'
  OBVIOUS
<1>1. CASE Start
  BY <1>1 DEF Start, TypeOK, WorkerPlaces
<1>2. CASE Stop
  BY <1>2 DEF Stop, TypeOK, OwnerPlaces
<1>3. CASE NotifyAll
  BY <1>3 DEF NotifyAll, Notified, TypeOK, WorkerPlaces, OwnerPlaces
<1>4. CASE Join
  BY <1>4 DEF Join, TypeOK, WorkerPlaces, OwnerPlaces
<1>5. CASE Submit
  <2>1. submits \in Submissions /\ submits' \in 0..MaxSubmits
    BY <1>5, TruthGateRunnerAssumption DEF Submit, TypeOK, Submissions
  <2>2. queue' \in Seq(Submissions) /\ Len(queue') <= MaxQueueSize
    <3>1. queue' = Append(Room, submits)
      BY <1>5 DEF Submit, Pushed
    <3> HIDE DEF Room
    <3> QED BY <2>1, <3>1, RoomFacts, TruthGateRunnerAssumption
  <2>3. gone' \subseteq Submissions
    BY <1>5, RoomFacts DEF Submit, TypeOK
  <2>4. worker' \in WorkerPlaces
    BY <1>5 DEF Submit, NotifiedBySubmit, Notified, TypeOK, WorkerPlaces
  <2> QED BY <1>5, <2>1, <2>2, <2>3, <2>4 DEF Submit, TypeOK
<1>6. ASSUME NEW f \in Frames, GetResult(f) PROVE TypeOK'
  <2>1. results' \in [Frames -> Submissions \cup {None}]
    BY <1>6 DEF GetResult, TypeOK
  <2>2. gone' \subseteq Submissions
    BY <1>6 DEF GetResult, TypeOK
  <2> QED BY <1>6, <2>1, <2>2 DEF GetResult, TypeOK
<1>7. CASE WorkerEnds \/ Decide \/ Block \/ WakeUnasked
  BY <1>7 DEF WorkerEnds, Decide, Block, WakeUnasked, TypeOK, WorkerPlaces
<1>8. CASE Take
  <2>1. queue \in Seq(Submissions) /\ queue # <<>> /\ queue' = Tail(queue)
        /\ inHand' = Head(queue) /\ Len(queue) <= MaxQueueSize
    BY <1>8 DEF Take, TypeOK
  <2>2. /\ queue' \in Seq(Submissions) /\ Len(queue') = Len(queue) - 1
        /\ inHand' \in Submissions
    BY <2>1
  <2>3. Len(queue') <= MaxQueueSize
    BY <2>1, <2>2, TruthGateRunnerAssumption
  <2> QED BY <1>8, <2>2, <2>3 DEF Take, TypeOK, WorkerPlaces
<1>9. CASE Store
  <2>1. inHand \in Submissions
    BY <1>9 DEF Store, OrderInv, TypeOK
  <2>2. frameOf[inHand] \in Frames
    BY <2>1 DEF TypeOK
  <2>3. results' \in [Frames -> Submissions \cup {None}]
    BY <1>9, <2>1 DEF Store, Stored, TypeOK
  <2>4. gone' \subseteq Submissions
    BY <1>9, <2>2 DEF Store, TypeOK
  <2> QED BY <1>9, <2>3, <2>4 DEF Store, TypeOK, WorkerPlaces
<1>10. CASE UNCHANGED vars
  BY <1>10 DEF vars, TypeOK
<1> QED
  BY <1>1, <1>2, <1>3, <1>4, <1>5, <1>6, <1>7, <1>8, <1>9, <1>10 DEF Next, Owner, Worker

\* The types of the runner's state, and with them the queue's bound: a full
\* queue gives up an entry before it takes one (submit).
THEOREM TypesHold == Spec => []TypeOK
<1>1. ASSUME Init PROVE TypeOK
  <2>1. submits \in 0..MaxSubmits /\ queue \in Seq(Submissions) /\ Len(queue) <= MaxQueueSize
    BY <1>1, TruthGateRunnerAssumption DEF Init
  <2>2. results \in [Frames -> Submissions \cup {None}]
    BY <1>1 DEF Init
  <2>3. running \in BOOLEAN /\ worker \in WorkerPlaces /\ owner \in OwnerPlaces
    BY <1>1 DEF Init, WorkerPlaces, OwnerPlaces
  <2> QED BY <1>1, <2>1, <2>2, <2>3 DEF Init, TypeOK
<1> QED BY <1>1, TypesStep, OrderHolds, PTL DEF Spec

\* Estimates are evaluated in the order of their submission, and the newest
\* one is never the one a full queue gives up (submit, workerLoop).
THEOREM InOrderHolds == Spec => []InOrder
BY OrderHolds, OrderImplies, PTL

\* A result is only ever replaced by that of a newer estimate (results_): what
\* is queued or in hand for its frame came after it.
THEOREM NewestResultHolds == Spec => []NewestResult
BY OrderHolds, OrderImplies, PTL

-----------------------------------------------------------------------------
(* Where a submission is *)

\* Every submission so far is somewhere, what is gone is nowhere else, and a
\* result is kept under its own frame, so it is there once.
PlaceInv ==
  /\ \A n \in Submissions :
       n < submits <=> \E i \in 1..4 : n \in Contents[i]
  /\ \A n \in gone : n \notin Range(queue) /\ n # inHand /\ n \notin Range(results)
  /\ \A f \in Frames : results[f] # None => frameOf[results[f]] = f

\* The three other places exclude each other because of the order.
LEMMA OrderSeparates ==
  ASSUME OrderInv, TypeOK
  PROVE  /\ IsInjective(queue)
         /\ Range(queue) = {queue[i] : i \in 1..Len(queue)}
         /\ Range(results) = {results[f] : f \in Frames}
         /\ \A n \in Range(queue) : n # inHand /\ n \notin Range(results)
         /\ inHand # None => inHand \notin Range(results)
<1>1. DOMAIN queue = 1..Len(queue) /\ Len(queue) \in Nat /\ \A i \in 1..Len(queue) : queue[i] \in Nat
  BY DEF OrderInv
<1>2. Range(queue) = {queue[i] : i \in 1..Len(queue)}
  BY <1>1 DEF Range
<1>3. Range(results) = {results[f] : f \in Frames}
  BY DEF OrderInv, Range
<1>4. IsInjective(queue)
  <2>1. ASSUME NEW i \in 1..Len(queue), NEW j \in 1..Len(queue), queue[i] = queue[j]
        PROVE  i = j
    <3>1. CASE i < j
      BY <1>1, <2>1, <3>1 DEF OrderInv
    <3>2. CASE j < i
      BY <1>1, <2>1, <3>2 DEF OrderInv
    <3> QED BY <1>1, <3>1, <3>2
  <2> QED BY <1>1, <2>1 DEF IsInjective
<1>5. ASSUME NEW i \in 1..Len(queue)
      PROVE  queue[i] # inHand /\ \A f \in Frames : queue[i] # results[f]
  BY <1>1 DEF OrderInv, None
<1>6. ASSUME inHand # None, NEW f \in Frames PROVE inHand # results[f]
  BY <1>6 DEF OrderInv
<1> QED BY <1>2, <1>3, <1>4, <1>5, <1>6

LEMMA PlacedIs ==
  ASSUME NEW n
  PROVE  (\E i \in 1..4 : n \in Contents[i]) <=>
           n \in Range(queue) \/ n = inHand \/ n \in Range(results) \/ n \in gone
<1>1. 1..4 = {1, 2, 3, 4}
  OBVIOUS
<1> QED BY <1>1 DEF Contents

LEMMA PlaceImplies == OrderInv /\ TypeOK /\ PlaceInv => InOnePlace
<1> SUFFICES ASSUME OrderInv, TypeOK, PlaceInv PROVE InOnePlace
  OBVIOUS
<1>1. ASSUME NEW n \in Submissions
      PROVE  Cardinality({i \in 1..4 : n \in Contents[i]}) = IF n < submits THEN 1 ELSE 0
  <2> DEFINE Where == {i \in 1..4 : n \in Contents[i]}
  <2>0. n # None
    BY TruthGateRunnerAssumption DEF Submissions, None
  <2>1. CASE ~(n < submits)
    <3>1. Where = {}
      BY <2>1 DEF PlaceInv
    <3> QED BY <2>1, <3>1, FS_EmptySet
  <2>2. CASE n < submits
    <3>1. \E k \in 1..4 : n \in Contents[k]
      BY <2>2 DEF PlaceInv
    <3>2. \E k \in 1..4 : Where = {k}
      <4>1. 1..4 = {1, 2, 3, 4}
        OBVIOUS
      <4>2. CASE n \in Range(queue)
        <5>1. n # inHand /\ n \notin Range(results) /\ n \notin gone
          BY <4>2, OrderSeparates DEF PlaceInv
        <5>2. Where = {1}
          BY <4>1, <4>2, <5>1 DEF Contents
        <5> QED BY <5>2
      <4>3. CASE n = inHand
        <5>1. n \notin Range(queue) /\ n \notin Range(results) /\ n \notin gone
          BY <2>0, <4>3, OrderSeparates DEF PlaceInv
        <5>2. Where = {2}
          BY <4>1, <4>3, <5>1 DEF Contents
        <5> QED BY <5>2
      <4>4. CASE n \in Range(results)
        <5>1. n \notin Range(queue) /\ n # inHand /\ n \notin gone
          BY <2>0, <4>4, OrderSeparates DEF PlaceInv
        <5>2. Where = {3}
          BY <4>1, <4>4, <5>1 DEF Contents
        <5> QED BY <5>2
      <4>5. CASE n \in gone
        <5>1. n \notin Range(queue) /\ n # inHand /\ n \notin Range(results)
          BY <4>5 DEF PlaceInv
        <5>2. Where = {4}
          BY <4>1, <4>5, <5>1 DEF Contents
        <5> QED BY <5>2
      <4> QED BY <3>1, <4>2, <4>3, <4>4, <4>5, PlacedIs
    <3> QED BY <2>2, <3>2, FS_Singleton
  <2> QED BY <2>1, <2>2
<1> QED BY <1>1, OrderSeparates DEF InOnePlace

LEMMA InitPlaces == Init => PlaceInv
<1> SUFFICES ASSUME Init PROVE PlaceInv
  OBVIOUS
<1>1. Range(queue) = {} /\ \A n \in Range(results) : n = None
  BY DEF Init, Range
<1>2. \A n \in Submissions : n # None /\ ~(n < submits)
  BY TruthGateRunnerAssumption DEF Init, Submissions, None
<1>3. \A n \in Submissions : ~\E i \in 1..4 : n \in Contents[i]
  BY <1>1, <1>2, PlacedIs DEF Init
<1> QED BY <1>1, <1>2, <1>3 DEF Init, PlaceInv

\* What a step has to show: the places of the old submissions only change
\* hands, and a new number is in one of them.
LEMMA PlacesMove ==
  ASSUME \A n \in Submissions : n < submits' <=>
           n \in Range(queue') \/ n = inHand' \/ n \in Range(results') \/ n \in gone',
         \A n \in gone' : n \notin Range(queue') /\ n # inHand' /\ n \notin Range(results'),
         \A f \in Frames : results'[f] # None => frameOf'[results'[f]] = f
  PROVE  PlaceInv'
<1>1. 1..4 = {1, 2, 3, 4}
  OBVIOUS
<1>2. ASSUME NEW n
      PROVE  (\E i \in 1..4 : n \in Contents'[i]) <=>
               n \in Range(queue') \/ n = inHand' \/ n \in Range(results') \/ n \in gone'
  BY <1>1 DEF Contents
<1> QED BY <1>2 DEF PlaceInv

\* The same for the state before the step, in the form the cases use it.
LEMMA PlacesBefore ==
  ASSUME PlaceInv
  PROVE  \A n \in Submissions : n < submits <=>
           n \in Range(queue) \/ n = inHand \/ n \in Range(results) \/ n \in gone
BY PlacedIs DEF PlaceInv

\* What Append and Tail do to the elements of a sequence.
LEMMA AppendRange ==
  ASSUME NEW S, NEW q \in Seq(S), NEW x
  PROVE  Range(Append(q, x)) = Range(q) \cup {x}
<1>1. /\ DOMAIN Append(q, x) = 1..(Len(q) + 1) /\ DOMAIN q = 1..Len(q)
      /\ Len(q) \in Nat /\ Append(q, x)[Len(q) + 1] = x
      /\ \A i \in 1..Len(q) : Append(q, x)[i] = q[i]
  OBVIOUS
<1>2. 1..(Len(q) + 1) = 1..Len(q) \cup {Len(q) + 1}
  BY <1>1
<1> QED BY <1>1, <1>2 DEF Range

LEMMA TailRange ==
  ASSUME NEW S, NEW q \in Seq(S), q # <<>>
  PROVE  Range(q) = {q[1]} \cup Range(Tail(q))
<1>1. Len(q) \in Nat \ {0}
  OBVIOUS
<1>2. /\ DOMAIN q = 1..Len(q) /\ DOMAIN Tail(q) = 1..(Len(q) - 1)
      /\ \A i \in 1..(Len(q) - 1) : Tail(q)[i] = q[i + 1]
  BY <1>1
<1>3. \A k \in 1..Len(q) : k = 1 \/ (k - 1 \in 1..(Len(q) - 1) /\ k = (k - 1) + 1)
  BY <1>1
<1>4. \A i \in 1..(Len(q) - 1) : i + 1 \in 1..Len(q)
  BY <1>1
<1>5. ASSUME NEW n \in Range(q) PROVE n = q[1] \/ n \in Range(Tail(q))
  <2>1. PICK k \in 1..Len(q) : n = q[k]
    BY <1>2 DEF Range
  <2>2. CASE k # 1
    <3>1. k - 1 \in 1..(Len(q) - 1) /\ Tail(q)[k - 1] = q[k]
      BY <1>2, <1>3, <2>2
    <3> QED BY <1>2, <2>1, <3>1 DEF Range
  <2> QED BY <2>1, <2>2
<1>6. q[1] \in Range(q)
  BY <1>1, <1>2 DEF Range
<1>7. Range(Tail(q)) \subseteq Range(q)
  BY <1>2, <1>4 DEF Range
<1> QED BY <1>5, <1>6, <1>7

LEMMA SubmitKeepsPlaces == OrderInv /\ TypeOK /\ PlaceInv /\ Submit => PlaceInv'
<1> SUFFICES ASSUME OrderInv, TypeOK, PlaceInv, Submit PROVE PlaceInv'
  OBVIOUS
<1>1. /\ queue' = Append(Room, submits) /\ submits' = submits + 1 /\ submits \in Nat
      /\ inHand' = inHand /\ results' = results /\ frameOf' = frameOf
      /\ gone' = gone \cup (Range(queue) \ Range(Room))
  BY DEF Submit, Pushed, TypeOK
<1>2. Room \in Seq(Submissions) /\ Range(queue) \subseteq Submissions
  BY RoomFacts
<1>3. Range(Room) \subseteq Range(queue)
  <2>1. queue \in Seq(Submissions)
    BY DEF TypeOK
  <2>2. Len(queue) >= MaxQueueSize => queue # <<>>
    BY <2>1, TruthGateRunnerAssumption
  <2> QED BY <2>1, <2>2, TailRange DEF Room
<1> HIDE DEF Room
<1>4. Range(queue') = Range(Room) \cup {submits}
  BY <1>1, <1>2, AppendRange
<1>5. \A n \in Submissions : n < submits' <=> n < submits \/ n = submits
  BY <1>1, TruthGateRunnerAssumption DEF Submissions
<1>6. /\ submits \notin Range(queue) /\ submits # inHand
      /\ submits \notin Range(results) /\ submits \notin gone
  <2>1. submits \in Submissions /\ ~(submits < submits)
    BY <1>1, TruthGateRunnerAssumption DEF Submit, Submissions, TypeOK
  <2> QED BY <2>1, PlacesBefore
<1>7. \A n \in Range(queue) : n # inHand /\ n \notin Range(results)
  BY OrderSeparates
<1>8. \A n \in Submissions : n < submits' <=>
        n \in Range(queue') \/ n = inHand' \/ n \in Range(results') \/ n \in gone'
  BY <1>1, <1>3, <1>4, <1>5, PlacesBefore
<1>9. \A n \in gone' : n \notin Range(queue') /\ n # inHand' /\ n \notin Range(results')
  BY <1>1, <1>2, <1>3, <1>4, <1>6, <1>7 DEF PlaceInv
<1>10. \A f \in Frames : results'[f] # None => frameOf'[results'[f]] = f
  BY <1>1 DEF PlaceInv
<1> QED BY <1>8, <1>9, <1>10, PlacesMove

LEMMA TakeKeepsPlaces == OrderInv /\ TypeOK /\ PlaceInv /\ Take => PlaceInv'
<1> SUFFICES ASSUME OrderInv, TypeOK, PlaceInv, Take PROVE PlaceInv'
  OBVIOUS
<1>1. /\ queue # <<>> /\ queue' = Tail(queue) /\ inHand' = queue[1] /\ inHand = None
      /\ submits' = submits /\ results' = results /\ gone' = gone /\ frameOf' = frameOf
  BY DEF Take, OrderInv
<1>2. queue \in Seq(Submissions)
  BY DEF TypeOK
<1>3. Range(queue) = {queue[1]} \cup Range(queue')
  BY <1>1, <1>2, TailRange
<1>4. \A n \in Submissions : n # None
  BY TruthGateRunnerAssumption DEF Submissions, None
<1>5. \A n \in Submissions : n < submits' <=>
        n \in Range(queue') \/ n = inHand' \/ n \in Range(results') \/ n \in gone'
  BY <1>1, <1>3, <1>4, PlacesBefore
<1>6. \A n \in gone' : n \notin Range(queue') /\ n # inHand' /\ n \notin Range(results')
  BY <1>1, <1>3 DEF PlaceInv
<1>7. \A f \in Frames : results'[f] # None => frameOf'[results'[f]] = f
  BY <1>1 DEF PlaceInv
<1> QED BY <1>5, <1>6, <1>7, PlacesMove

\* A result put in, or taken out, at one frame: what was there is there no more.
LEMMA ResultReplaced ==
  ASSUME TypeOK, PlaceInv, NEW f \in Frames, NEW new \in Submissions \cup {None},
         results' = [results EXCEPT ![f] = new],
         new \notin Range(results) \/ new = None
  PROVE  /\ results[f] # None /\ new # results[f] => results[f] \notin Range(results')
         /\ \A n \in Submissions :
              n \in Range(results') <=> n = new \/ (n \in Range(results) /\ n # results[f])
<1>1. /\ DOMAIN results = Frames /\ DOMAIN results' = Frames /\ results'[f] = new
      /\ \A g \in Frames : g # f => results'[g] = results[g]
  BY DEF TypeOK
<1>2. \A g \in Frames : results[f] # None /\ results[g] = results[f] => g = f
  BY DEF PlaceInv
<1>3. \A n \in Submissions : n # None
  BY TruthGateRunnerAssumption DEF Submissions, None
<1>4. results[f] # None /\ new # results[f] => results[f] \notin Range(results')
  BY <1>1, <1>2 DEF Range
<1>5. ASSUME NEW n \in Submissions, n \in Range(results')
      PROVE  n = new \/ (n \in Range(results) /\ n # results[f])
  BY <1>1, <1>2, <1>3, <1>5 DEF Range
<1>6. ASSUME NEW n \in Submissions, n = new \/ (n \in Range(results) /\ n # results[f])
      PROVE  n \in Range(results')
  BY <1>1, <1>6 DEF Range
<1> QED BY <1>4, <1>5, <1>6

LEMMA GetResultKeepsPlaces ==
  ASSUME OrderInv, TypeOK, PlaceInv, NEW f \in Frames, GetResult(f)
  PROVE  PlaceInv'
<1>1. /\ results[f] # None /\ gone' = gone \cup {results[f]}
      /\ results' = [results EXCEPT ![f] = None]
      /\ submits' = submits /\ queue' = queue /\ inHand' = inHand /\ frameOf' = frameOf
  BY DEF GetResult
<1>2. results[f] \in Submissions /\ results[f] \in Range(results)
  BY <1>1 DEF TypeOK, Range
<1>3. /\ results[f] \notin Range(results')
      /\ \A n \in Submissions :
           n \in Range(results') <=> n = None \/ (n \in Range(results) /\ n # results[f])
  BY <1>1, ResultReplaced
<1>4. \A n \in Submissions : n # None
  BY TruthGateRunnerAssumption DEF Submissions, None
<1>5. results[f] \notin Range(queue) /\ results[f] # inHand
  BY <1>1, <1>2, OrderSeparates
<1>6. \A n \in Submissions : n < submits' <=>
        n \in Range(queue') \/ n = inHand' \/ n \in Range(results') \/ n \in gone'
  BY <1>1, <1>2, <1>3, <1>4, PlacesBefore
<1>7. gone \subseteq Submissions
  BY DEF TypeOK
<1>8. ASSUME NEW n \in gone'
      PROVE  n \notin Range(queue') /\ n # inHand' /\ n \notin Range(results')
  <2>1. CASE n \in gone
    <3>1. n \notin Range(queue) /\ n # inHand /\ n \notin Range(results) /\ n \in Submissions
      BY <1>7, <2>1 DEF PlaceInv
    <3> QED BY <1>1, <1>3, <1>4, <3>1
  <2>2. CASE n = results[f]
    BY <1>1, <1>3, <1>5, <2>2
  <2> QED BY <1>1, <2>1, <2>2
<1>9. \A g \in Frames : results'[g] # None => frameOf'[results'[g]] = g
  BY <1>1 DEF PlaceInv, TypeOK
<1> QED BY <1>6, <1>8, <1>9, PlacesMove

LEMMA StoreKeepsPlaces == OrderInv /\ TypeOK /\ PlaceInv /\ Store => PlaceInv'
<1> SUFFICES ASSUME OrderInv, TypeOK, PlaceInv, Store PROVE PlaceInv'
  OBVIOUS
<1> DEFINE f == frameOf[inHand]
           old == results[f]
<1>1. /\ inHand \in Submissions /\ inHand # None /\ f \in Frames
      /\ results' = [results EXCEPT ![f] = inHand]
      /\ gone' = gone \cup ({old} \ {None})
      /\ inHand' = None /\ submits' = submits /\ queue' = queue /\ frameOf' = frameOf
  <2>1. inHand \in Submissions /\ inHand # None
    BY DEF Store, OrderInv, TypeOK
  <2> QED BY <2>1 DEF Store, Stored, TypeOK
<1>2. inHand \notin Range(results) /\ \A n \in Range(queue) : n \notin Range(results)
  BY <1>1, OrderSeparates
<1>3. old \in Range(results) /\ old # inHand /\ old \notin Range(queue)
  <2>1. old \in Range(results)
    BY <1>1 DEF TypeOK, Range
  <2> QED BY <1>2, <2>1
<1>4. /\ old # None => old \notin Range(results')
      /\ \A n \in Submissions :
           n \in Range(results') <=> n = inHand \/ (n \in Range(results) /\ n # old)
  <2> HIDE DEF f
  <2> QED BY <1>1, <1>2, <1>3, ResultReplaced
<1>5. \A n \in Submissions : n # None
  BY TruthGateRunnerAssumption DEF Submissions, None
<1>6. \A n \in Submissions : n < submits' <=>
        n \in Range(queue') \/ n = inHand' \/ n \in Range(results') \/ n \in gone'
  <2> HIDE DEF old
  <2> QED BY <1>1, <1>3, <1>4, <1>5, PlacesBefore
<1>7. gone \subseteq Submissions /\ gone' \subseteq Submissions
  BY <1>1 DEF TypeOK
<1>8. ASSUME NEW n \in gone'
      PROVE  n \notin Range(queue') /\ n # inHand' /\ n \notin Range(results')
  <2>1. n \in Submissions /\ n # None
    BY <1>5, <1>7
  <2>2. CASE n \in gone
    BY <1>1, <1>4, <2>1, <2>2 DEF PlaceInv
  <2>3. CASE n = old
    BY <1>1, <1>3, <1>4, <2>1, <2>3
  <2> QED BY <1>1, <2>2, <2>3
<1>9. \A g \in Frames : results'[g] # None => frameOf'[results'[g]] = g
  BY <1>1 DEF PlaceInv, TypeOK
<1> QED BY <1>6, <1>8, <1>9, PlacesMove

LEMMA PlaceStep == OrderInv /\ TypeOK /\ PlaceInv /\ [Next]_vars => PlaceInv'
<1> SUFFICES ASSUME OrderInv, TypeOK, PlaceInv, [Next]_vars PROVE PlaceInv'
  OBVIOUS
<1>1. ASSUME UNCHANGED <<submits, queue, frameOf, results, inHand, gone>> PROVE PlaceInv'
  BY <1>1, PlacesMove, PlacesBefore DEF PlaceInv
<1>2. CASE Start \/ Stop \/ NotifyAll \/ Join
  BY <1>1, <1>2 DEF Start, Stop, NotifyAll, Join
<1>3. CASE WorkerEnds \/ Decide \/ Block \/ WakeUnasked \/ UNCHANGED vars
  BY <1>1, <1>3 DEF WorkerEnds, Decide, Block, WakeUnasked, vars
<1> QED
  BY <1>2, <1>3, SubmitKeepsPlaces, TakeKeepsPlaces, StoreKeepsPlaces, GetResultKeepsPlaces
     DEF Next, Owner, Worker

\* No submission is lost, repeated or in two places, whatever the order of
\* submits, stops, restarts and results fetched (queue_, results_).
THEOREM InOnePlaceHolds == Spec => []InOnePlace
<1>1. Init => PlaceInv
  BY InitPlaces
<1> QED BY <1>1, PlaceStep, PlaceImplies, OrderHolds, TypesHold, PTL DEF Spec

-----------------------------------------------------------------------------
(* The life of a submission *)

\* The stages, read off the places.
LEMMA StageIs ==
  ASSUME OrderInv, TypeOK, PlaceInv, NEW n \in Submissions
  PROVE  /\ Stage[n] = "ahead" <=> n >= submits
         /\ Stage[n] = "waiting" <=> n \in Range(queue)
         /\ Stage[n] = "evaluated" <=> n = inHand
         /\ Stage[n] = "answered" <=> n \in Range(results)
         /\ n # None
<1>1. n \in Nat /\ submits \in Nat /\ n # None
  BY TruthGateRunnerAssumption DEF Submissions, TypeOK, None
<1>2. n \in Range(queue) \/ n = inHand \/ n \in Range(results) => ~(n >= submits)
  BY <1>1, PlacesBefore
<1>3. /\ n \in Range(queue) => n # inHand /\ n \notin Range(results)
      /\ n = inHand => n \notin Range(results)
  BY <1>1, OrderSeparates
<1> QED BY <1>1, <1>2, <1>3 DEF Stage

LEMMA AtIs ==
  ASSUME OrderInv, TypeOK, PlaceInv
  PROVE  /\ Evaluations!At("waiting") = Range(queue)
         /\ inHand = None => Evaluations!At("evaluated") = {}
         /\ Evaluations!At("ahead") = {n \in Submissions : n >= submits}
         /\ Evaluations!At("answered") \subseteq Range(results)
<1>1. Range(queue) \subseteq Submissions
  BY RoomFacts
<1> QED BY <1>1, StageIs DEF Evaluations!At

\* As many wait as the queue is long.
LEMMA WaitingCount ==
  ASSUME OrderInv, TypeOK
  PROVE  Cardinality(Range(queue)) = Len(queue)
<1>1. Len(queue) \in Nat /\ DOMAIN queue = 1..Len(queue)
  BY DEF TypeOK
<1>2. IsInjective(queue)
  BY OrderSeparates
<1>3. queue \in Bijection(1..Len(queue), Range(queue))
  <2>1. queue \in [1..Len(queue) -> Range(queue)]
    BY <1>1 DEF TypeOK, Range
  <2>2. \A i, j \in 1..Len(queue) : queue[i] = queue[j] => i = j
    BY <1>1, <1>2 DEF IsInjective
  <2>3. \A n \in Range(queue) : \E i \in 1..Len(queue) : queue[i] = n
    BY <1>1 DEF Range
  <2> QED BY <2>1, <2>2, <2>3 DEF Bijection, Injection, Surjection, IsInjective
<1>4. ExistsBijection(1..Len(queue), Range(queue))
  BY <1>3 DEF ExistsBijection
<1>5. IsFiniteSet(1..Len(queue)) /\ Cardinality(1..Len(queue)) = Len(queue)
  <2>1. 1 \in Int /\ Len(queue) \in Int /\ (1 > Len(queue) => Len(queue) = 0)
    BY <1>1
  <2> QED BY <1>1, <2>1, FS_Interval
<1> QED BY <1>4, <1>5, FS_Bijection

\* The head of the queue is the oldest that waits, and waits there once.
LEMMA HeadIsFirst ==
  ASSUME OrderInv, TypeOK, PlaceInv, queue # <<>>
  PROVE  /\ queue[1] \in Submissions
         /\ Evaluations!First(queue[1], "waiting")
         /\ Range(queue) = {queue[1]} \cup Range(Tail(queue))
         /\ queue[1] \notin Range(Tail(queue))
<1>1. queue \in Seq(Submissions) /\ queue \in Seq(Nat) /\ Len(queue) \in Nat \ {0}
  BY DEF TypeOK, OrderInv
<1>2. /\ DOMAIN queue = 1..Len(queue) /\ 1 \in 1..Len(queue)
      /\ \A i \in 1..Len(queue) : queue[i] \in Nat /\ (i # 1 => queue[1] < queue[i])
  BY <1>1 DEF OrderInv
<1>3. queue[1] \in Submissions /\ queue[1] \in Range(queue)
  BY <1>1, <1>2 DEF Range
<1>4. \A n \in Range(queue) : queue[1] <= n
  BY <1>2 DEF Range
<1>5. queue[1] \notin Range(Tail(queue))
  <2>1. /\ DOMAIN Tail(queue) = 1..(Len(queue) - 1)
        /\ \A i \in 1..(Len(queue) - 1) :
             Tail(queue)[i] = queue[i + 1] /\ i + 1 \in 1..Len(queue) /\ i + 1 # 1
    BY <1>1
  <2>2. \A i \in 1..(Len(queue) - 1) : Tail(queue)[i] # queue[1]
    BY <1>2, <2>1
  <2> QED BY <2>1, <2>2 DEF Range
<1>6. Evaluations!First(queue[1], "waiting")
  BY <1>3, <1>4, AtIs DEF Evaluations!First
<1> QED BY <1>1, <1>3, <1>5, <1>6, TailRange

LEMMA SubmitEnters ==
  ASSUME OrderInv, TypeOK, PlaceInv, Submit
  PROVE  submits \in Submissions /\ Evaluations!Enter(submits)
<1>1. /\ queue' = Append(Room, submits) /\ submits' = submits + 1 /\ submits \in Nat
      /\ inHand' = inHand /\ results' = results
  BY DEF Submit, Pushed, TypeOK
<1>2. submits \in Submissions
  BY <1>1, TruthGateRunnerAssumption DEF Submit, Submissions
<1>3. Room \in Seq(Submissions) /\ Len(queue) <= MaxQueueSize /\ queue \in Seq(Submissions)
  BY RoomFacts DEF TypeOK
<1>4. Range(queue') = Range(Room) \cup {submits}
  BY <1>1, <1>3, AppendRange
<1>5. Evaluations!First(submits, "ahead")
  BY <1>1, <1>2, AtIs DEF Evaluations!First, Submissions
<1>6. Evaluations!Cardinality(Evaluations!At("waiting")) = Len(queue)
  <2>1. Cardinality(Evaluations!At("waiting")) = Len(queue)
    BY AtIs, WaitingCount
  <2>2. \A S : Evaluations!Cardinality(S) = Cardinality(S)
    BY DEF Evaluations!Cardinality, Cardinality
  <2> QED BY <2>1, <2>2
<1>7. /\ \A m \in Submissions : m \in Nat
      /\ DOMAIN Stage = Submissions
      /\ Stage' = [m \in Submissions |->
           IF m >= submits + 1 THEN "ahead"
           ELSE IF m = submits \/ m \in Range(Room) THEN "waiting"
           ELSE IF m = inHand THEN "evaluated"
           ELSE IF m \in Range(results) THEN "answered"
           ELSE "over"]
  BY <1>1, <1>4 DEF Stage, Submissions
<1>8. CASE Len(queue) < MaxQueueSize
  <2>1. Room = queue
    BY <1>3, <1>8, TruthGateRunnerAssumption DEF Room
  <2>2. \A m \in Submissions :
          Stage'[m] = IF m = submits THEN "waiting" ELSE Stage[m]
    BY <1>1, <1>7, <2>1 DEF Stage
  <2>3. Stage' = [Stage EXCEPT ![submits] = "waiting"]
    BY <1>7, <2>2
  <2> QED BY <1>2, <1>5, <1>6, <1>8, <2>3 DEF Evaluations!Enter
<1>9. CASE Len(queue) = MaxQueueSize
  <2>1. queue # <<>> /\ Room = Tail(queue)
    BY <1>3, <1>9, TruthGateRunnerAssumption DEF Room
  <2> DEFINE old == queue[1]
  <2>2. /\ old \in Submissions /\ Evaluations!First(old, "waiting")
        /\ Range(queue) = {old} \cup Range(Room) /\ old \notin Range(Room)
    BY <2>1, HeadIsFirst
  <2> HIDE DEF old
  <2>3. old # submits /\ old # inHand /\ old \notin Range(results) /\ ~(old >= submits)
    BY <1>1, <2>2, StageIs
  <2>4. \A m \in Submissions :
          Stage'[m] = IF m = old THEN "over" ELSE IF m = submits THEN "waiting" ELSE Stage[m]
    BY <1>1, <1>7, <2>2, <2>3 DEF Stage
  <2>5. Stage' = [Stage EXCEPT ![submits] = "waiting", ![old] = "over"]
    BY <1>7, <2>4
  <2> QED BY <1>2, <1>5, <1>6, <1>9, <2>2, <2>5 DEF Evaluations!Enter
<1> QED BY <1>2, <1>3, <1>8, <1>9, TruthGateRunnerAssumption

LEMMA TakeBegins ==
  ASSUME OrderInv, TypeOK, PlaceInv, Take
  PROVE  \E n \in Submissions : Evaluations!Begin(n)
<1>1. /\ queue # <<>> /\ queue' = Tail(queue) /\ inHand' = queue[1] /\ inHand = None
      /\ submits' = submits /\ results' = results
  BY DEF Take, OrderInv
<1> DEFINE n == queue[1]
<1>2. /\ n \in Submissions /\ Evaluations!First(n, "waiting")
      /\ Range(queue) = {n} \cup Range(queue') /\ n \notin Range(queue')
  BY <1>1, HeadIsFirst
<1> HIDE DEF n
<1>3. Evaluations!At("evaluated") = {}
  BY <1>1, AtIs
<1>4. ~(n >= submits) /\ n \notin Range(results) /\ \A m \in Submissions : m # None
  BY <1>2, StageIs
<1>5. inHand' = n
  BY <1>1 DEF n
<1>6. \A m \in Submissions : Stage'[m] = IF m = n THEN "evaluated" ELSE Stage[m]
  BY <1>1, <1>2, <1>4, <1>5 DEF Stage
<1>7. Stage' = [Stage EXCEPT ![n] = "evaluated"]
  BY <1>6 DEF Stage
<1> QED BY <1>2, <1>3, <1>7 DEF Evaluations!Begin

LEMMA StoreAnswers ==
  ASSUME OrderInv, TypeOK, PlaceInv, Store
  PROVE  \E n \in Submissions : Evaluations!Answer(n)
<1> DEFINE n == inHand
           f == frameOf[inHand]
<1>1. /\ n \in Submissions /\ n # None /\ f \in Frames
      /\ results' = [results EXCEPT ![f] = n] /\ inHand' = None
      /\ submits' = submits /\ queue' = queue
  <2>1. inHand \in Submissions /\ inHand # None
    BY DEF Store, OrderInv, TypeOK
  <2> QED BY <2>1 DEF Store, Stored, TypeOK
<1>2. n \notin Range(results) /\ n \notin Range(queue) /\ ~(n >= submits)
  BY <1>1, StageIs
<1>3. \A m \in Submissions :
        m \in Range(results') <=> m = n \/ (m \in Range(results) /\ m # results[f])
  <2> HIDE DEF n, f
  <2> QED BY <1>1, <1>2, ResultReplaced
<1>4. /\ \A m \in Range(results) : m # None => (frameOf[m] = f <=> m = results[f])
      /\ \A m \in Range(results) : m # None /\ frameOf[m] = f => m < n
  <2>1. ASSUME NEW m \in Range(results), m # None
        PROVE  (frameOf[m] = f <=> m = results[f]) /\ (frameOf[m] = f => m < n)
    <3>1. PICK g \in Frames : m = results[g]
      BY DEF TypeOK, Range
    <3>2. frameOf[m] = g
      BY <2>1, <3>1 DEF PlaceInv
    <3>3. m < n
      BY <1>1, <2>1, <3>1 DEF OrderInv
    <3>4. m = results[f] => frameOf[m] = f
      BY <1>1, <2>1 DEF PlaceInv
    <3> QED BY <3>1, <3>2, <3>3, <3>4
  <2> QED BY <2>1
<1> HIDE DEF f
<1>5. \A m \in Submissions : m # None /\ (Stage[m] = "answered" <=> m \in Range(results))
  BY StageIs
<1>6. \A m \in Submissions :
        Stage'[m] = IF m = n THEN "answered"
                    ELSE IF Stage[m] = "answered" /\ frameOf[m] = f THEN "over"
                    ELSE Stage[m]
  <2>1. ASSUME NEW m \in Submissions, m = n PROVE Stage'[m] = "answered"
    BY <1>1, <1>2, <1>3, <1>5, <2>1 DEF Stage
  <2>2. ASSUME NEW m \in Submissions, m # n, Stage[m] = "answered", frameOf[m] = f
        PROVE  Stage'[m] = "over"
    <3>1. m \in Range(results) /\ m \notin Range(results') /\ m # None
      BY <1>3, <1>4, <1>5, <2>2
    <3>2. ~(m >= submits) /\ m \notin Range(queue)
      BY <3>1, StageIs
    <3> QED BY <1>1, <3>1, <3>2 DEF Stage
  <2>3. ASSUME NEW m \in Submissions, m # n, ~(Stage[m] = "answered" /\ frameOf[m] = f)
        PROVE  Stage'[m] = Stage[m]
    <3>1. m \in Range(results') <=> m \in Range(results)
      BY <1>3, <1>4, <1>5, <2>3
    <3> QED BY <1>1, <1>5, <2>3, <3>1 DEF Stage
  <2> QED BY <2>1, <2>2, <2>3
<1>7. DOMAIN Stage' = Submissions /\ Stage' = [m \in Submissions |-> Stage'[m]]
  BY DEF Stage
<1>8. Stage[n] = "evaluated"
  BY <1>1, StageIs
<1>9. \A m \in Evaluations!At("answered") : frameOf[m] = f => m < n
  BY <1>4, <1>5 DEF Evaluations!At
<1> HIDE DEF n
<1>10. frameOf[n] = f
  BY DEF f, n
<1>11. Evaluations!Answer(n)
  BY <1>1, <1>6, <1>7, <1>8, <1>9, <1>10 DEF Evaluations!Answer
<1> QED BY <1>1, <1>11

LEMMA GetResultReads ==
  ASSUME OrderInv, TypeOK, PlaceInv, NEW f \in Frames, GetResult(f)
  PROVE  \E n \in Submissions : Evaluations!Read(n)
<1> DEFINE n == results[f]
<1>1. /\ n # None /\ n \in Submissions /\ n \in Range(results)
      /\ results' = [results EXCEPT ![f] = None]
      /\ submits' = submits /\ queue' = queue /\ inHand' = inHand
  BY DEF GetResult, TypeOK, Range
<1>2. \A m \in Submissions : m \in Range(results') <=> m \in Range(results) /\ m # n
  <2>1. \A m \in Submissions : m # None
    BY StageIs
  <2> QED BY <1>1, <2>1, ResultReplaced
<1> HIDE DEF n
<1>3. Stage[n] = "answered" /\ n \notin Range(queue) /\ n # inHand /\ ~(n >= submits)
  BY <1>1, StageIs
<1>4. \A m \in Submissions : Stage'[m] = IF m = n THEN "over" ELSE Stage[m]
  BY <1>1, <1>2, <1>3 DEF Stage
<1>5. Stage' = [Stage EXCEPT ![n] = "over"]
  BY <1>4 DEF Stage
<1> QED BY <1>1, <1>3, <1>5 DEF Evaluations!Read

LEMMA InitQueue == Init => Evaluations!Init
<1> SUFFICES ASSUME Init PROVE Evaluations!Init
  OBVIOUS
<1>1. \A n \in Submissions : n >= submits
  BY TruthGateRunnerAssumption DEF Init, Submissions
<1>2. Stage = [n \in Submissions |-> "ahead"]
  BY <1>1 DEF Stage
<1> QED BY <1>2 DEF Init, Evaluations!Init

LEMMA QueueStep ==
  ASSUME OrderInv, TypeOK, PlaceInv, [Next]_vars
  PROVE  [Evaluations!Next]_<<Stage, frameOf>>
<1>1. frameOf' = frameOf
  BY DEF Next, Owner, Worker, Start, Stop, NotifyAll, Join, Submit, GetResult, WorkerEnds, Decide,
         Block, WakeUnasked, Take, Store, vars
<1>2. ASSUME UNCHANGED <<submits, queue, inHand, results>> PROVE Stage' = Stage
  BY <1>2 DEF Stage
<1>3. CASE Start \/ Stop \/ NotifyAll \/ Join
  BY <1>1, <1>2, <1>3 DEF Start, Stop, NotifyAll, Join
<1>4. CASE WorkerEnds \/ Decide \/ Block \/ WakeUnasked \/ UNCHANGED vars
  BY <1>1, <1>2, <1>4 DEF WorkerEnds, Decide, Block, WakeUnasked, vars
<1>5. CASE Submit
  BY <1>1, <1>5, SubmitEnters DEF Evaluations!Next
<1>6. CASE Take
  BY <1>1, <1>6, TakeBegins DEF Evaluations!Next
<1>7. CASE Store
  BY <1>1, <1>7, StoreAnswers DEF Evaluations!Next
<1>8. ASSUME NEW f \in Frames, GetResult(f) PROVE Evaluations!Next
  BY <1>1, <1>8, GetResultReads DEF Evaluations!Next
<1> QED BY <1>3, <1>4, <1>5, <1>6, <1>7, <1>8 DEF Next, Owner, Worker

\* The runner implements the queue of evaluations: whatever stops and starts
\* come in between, each step moves one submission on in its life, and only a
\* full queue's oldest with it (submit, workerLoop, getResult).
THEOREM QueueImplemented == Spec => QueueSpec
<1>1. OrderInv /\ TypeOK /\ PlaceInv /\ [Next]_vars => [Evaluations!Next]_<<Stage, frameOf>>
  BY QueueStep
<1>2. Init => PlaceInv /\ Evaluations!Init
  BY InitPlaces, InitQueue
<1> QED BY <1>1, <1>2, PlaceStep, OrderHolds, TypesHold, PTL DEF Spec, QueueSpec, Evaluations!Spec
=============================================================================
