----------------------------- MODULE RFIDProofs -----------------------------
(***************************************************************************)
(* The way of a read: the reader it comes from, the filter of repetitions, *)
(* and the buffer it waits in.                                             *)
(***************************************************************************)
EXTENDS Reader, EPCProcessor, EPCBuffer, FiniteSetTheorems, SequenceTheorems, TLAPS

-----------------------------------------------------------------------------
(* The buffer: whatever readers, flushes, the processing thread and its       *)
(* callback do, an accepted read is in exactly one place, and the buffer      *)
(* stays bounded.                                                             *)

Everywhere == buffered \cup inHand \cup delivered \cup gone

\* The inductive invariant: serial numbers are used once, and only a thread
\* about to call has reads in its hand.
PlaceInv ==
  /\ reads \in Nat
  /\ processed \in Nat
  /\ IsFiniteSet(Everywhere)
  /\ \A r \in Everywhere : r.id \in Nat /\ r.id < reads
  /\ inHand # {} => thread = "calling"
  /\ InOnePlace
  /\ Bounded

LEMMA InitPlace == Init => PlaceInv
<1> SUFFICES ASSUME Init PROVE PlaceInv
  OBVIOUS
<1>1. Everywhere = {} /\ buffered = {}
  BY DEF Init, Everywhere
<1>2. IsFiniteSet({}) /\ Cardinality({}) = 0
  BY FS_EmptySet
<1>3. InOnePlace
  BY <1>1, <1>2 DEF Init, InOnePlace
<1>4. Bounded
  BY <1>1, <1>2, EPCBufferAssumption DEF Bounded
<1> QED BY <1>1, <1>2, <1>3, <1>4 DEF Init, PlaceInv

\* A step that moves reads between places and accepts none.
LEMMA MoveKeeps ==
  ASSUME PlaceInv, Everywhere' = Everywhere, processed' = processed,
         reads' \in Nat, reads' >= reads, buffered' \subseteq buffered,
         inHand' # {} => thread' = "calling",
         buffered' \cap (inHand' \cup delivered' \cup gone') = {},
         inHand' \cap (delivered' \cup gone') = {},
         delivered' \cap gone' = {}
  PROVE  PlaceInv'
<1>1. \A r \in Everywhere' : r.id \in Nat /\ r.id < reads'
  BY DEF PlaceInv
<1>2. InOnePlace'
  BY DEF PlaceInv, InOnePlace, Everywhere
<1>3. Bounded'
  <2>1. IsFiniteSet(buffered)
    BY FS_Subset DEF PlaceInv, Everywhere
  <2>2. /\ Cardinality(buffered') <= Cardinality(buffered)
        /\ Cardinality(buffered') \in Nat /\ Cardinality(buffered) \in Nat
    BY <2>1, FS_Subset, FS_CardinalityType
  <2> QED BY <2>2, EPCBufferAssumption DEF PlaceInv, Bounded
<1> QED BY <1>1, <1>2, <1>3 DEF PlaceInv

LEMMA PushKeeps ==
  ASSUME PlaceInv, NEW e \in EPCs, NEW k \in Tasks, NEW stamp \in PushTimes, Push(e, k, stamp)
  PROVE  PlaceInv'
<1> DEFINE r == [id |-> reads, epc |-> e, task |-> k]
<1>1. /\ buffered' = buffered \cup {r}
      /\ inHand' = inHand /\ delivered' = delivered /\ gone' = gone
      /\ thread' = thread
      /\ reads' = reads + 1 /\ processed' = processed + 1
      /\ Cardinality(buffered) < MaxBufferSize
  BY DEF Push, HasRoom, threadVars
<1>2. r \notin Everywhere
  BY DEF PlaceInv
<1>3. Everywhere' = Everywhere \cup {r}
  BY <1>1 DEF Everywhere
<1>4. r.id = reads
  OBVIOUS
<1> HIDE DEF r
<1>5. IsFiniteSet(Everywhere') /\ Cardinality(Everywhere') = Cardinality(Everywhere) + 1
  BY <1>2, <1>3, FS_AddElement DEF PlaceInv
<1>6. \A x \in Everywhere' : x.id \in Nat /\ x.id < reads'
  BY <1>1, <1>3, <1>4 DEF PlaceInv
<1>7. InOnePlace'
  BY <1>1, <1>2, <1>5 DEF PlaceInv, InOnePlace, Everywhere
<1>8. Bounded'
  <2>1. IsFiniteSet(buffered)
    BY FS_Subset DEF PlaceInv, Everywhere
  <2>2. r \notin buffered
    BY <1>2 DEF Everywhere
  <2>3. Cardinality(buffered') = Cardinality(buffered) + 1 /\ Cardinality(buffered) \in Nat
    BY <1>1, <2>1, <2>2, FS_AddElement, FS_CardinalityType
  <2> QED BY <1>1, <2>3, EPCBufferAssumption DEF Bounded
<1> QED BY <1>1, <1>5, <1>6, <1>7, <1>8 DEF PlaceInv

LEMMA PlaceStep == PlaceInv /\ [Next]_vars => PlaceInv'
<1> SUFFICES ASSUME PlaceInv, [Next]_vars PROVE PlaceInv'
  OBVIOUS
<1>0. /\ reads \in Nat
      /\ buffered \cap (inHand \cup delivered \cup gone) = {}
      /\ inHand \cap (delivered \cup gone) = {}
      /\ delivered \cap gone = {}
      /\ inHand # {} => thread = "calling"
  BY DEF PlaceInv, InOnePlace
\* Steps that leave every read where it is.
<1>1. ASSUME /\ UNCHANGED <<buffered, inHand, delivered, gone, processed>>
             /\ reads' \in {reads, reads + 1}
             /\ inHand # {} => thread' = "calling"
      PROVE  PlaceInv'
  BY <1>0, <1>1, MoveKeeps DEF Everywhere
<1>3. ASSUME NEW e \in EPCs, PushDuplicate(e) \/ PushFull(e)
      PROVE  PlaceInv'
  BY <1>0, <1>1, <1>3 DEF PushDuplicate, PushFull, bufferVars, threadVars
<1>4. ASSUME NEW k \in Tasks, FlushOrClear(k)
      PROVE  PlaceInv'
  <2>1. /\ buffered' = buffered \ Of(k) /\ gone' = gone \cup Of(k) /\ Of(k) \subseteq buffered
        /\ UNCHANGED <<inHand, delivered, processed, reads, thread>>
    BY <1>4 DEF FlushOrClear, Of, threadVars
  <2>2. Everywhere' = Everywhere
    BY <2>1 DEF Everywhere
  <2> QED BY <1>0, <2>1, <2>2, MoveKeeps
<1>5. CASE ClearAll
  <2>1. /\ buffered' = {} /\ gone' = gone \cup buffered
        /\ UNCHANGED <<inHand, delivered, processed, reads, thread>>
    BY <1>5 DEF ClearAll, threadVars
  <2>2. Everywhere' = Everywhere
    BY <2>1 DEF Everywhere
  <2> QED BY <1>0, <2>1, <2>2, MoveKeeps
<1>6. CASE Start \/ Stop \/ Wake
  BY <1>0, <1>1, <1>6 DEF Start, Stop, Wake, bufferVars
<1>7. CASE FlushAll
  <2>1. /\ buffered' = {} /\ inHand' = buffered /\ inHand = {} /\ thread' = "calling"
        /\ UNCHANGED <<delivered, gone, processed, reads>>
    BY <1>0, <1>7 DEF FlushAll, AfterFlush
  <2>2. Everywhere' = Everywhere
    BY <2>1 DEF Everywhere
  <2> QED BY <1>0, <2>1, <2>2, MoveKeeps
<1>8. CASE Deliver
  <2>1. /\ delivered' = delivered \cup inHand /\ inHand' = {}
        /\ UNCHANGED <<buffered, gone, processed, reads>>
    BY <1>8 DEF Deliver, bufferVars
  <2>2. Everywhere' = Everywhere
    BY <2>1 DEF Everywhere
  <2> QED BY <1>0, <2>1, <2>2, MoveKeeps
<1>9. CASE CallbackThrows
  <2>1. /\ gone' = gone \cup inHand /\ inHand' = {}
        /\ UNCHANGED <<buffered, delivered, processed, reads>>
    BY <1>9 DEF CallbackThrows, bufferVars
  <2>2. Everywhere' = Everywhere
    BY <2>1 DEF Everywhere
  <2> QED BY <1>0, <2>1, <2>2, MoveKeeps
<1>10. CASE UNCHANGED vars
  BY <1>0, <1>1, <1>10 DEF vars, bufferVars, threadVars
<1> QED
  BY <1>3, <1>4, <1>5, <1>6, <1>7, <1>8, <1>9, <1>10, PushKeeps DEF Next, Loop

\* A read that the buffer accepted is in one place only, whatever is flushed,
\* cleared, delivered or lost in a callback (EPCBuffer and EPCProcessor).
THEOREM InOnePlaceHolds == Spec => []InOnePlace
<1>1. PlaceInv => InOnePlace
  BY DEF PlaceInv
<1> QED BY <1>1, InitPlace, PlaceStep, PTL DEF Spec

\* The buffer never holds more than MAX_BUFFER_SIZE reads (EPCBuffer::push).
THEOREM BoundedHolds == Spec => []Bounded
<1>1. PlaceInv => Bounded
  BY DEF PlaceInv
<1> QED BY <1>1, InitPlace, PlaceStep, PTL DEF Spec

-----------------------------------------------------------------------------
(* Repetitions: how often an EPC may be accepted, whatever its stamps         *)

\* lastCleanup_ is the stamp of the latest clean-up, and firstCleanup that of
\* the first one.
CleanupInv ==
  /\ lastCleanup \in Int /\ firstCleanup \in Int
  /\ cleanups \in Nat /\ clears \in Nat
  /\ accepts \in [EPCs -> Nat]
  /\ cleanups = 0 => lastCleanup = firstCleanup
  /\ AcceptedPerCleanup

LEMMA InitCleanup == Init => CleanupInv
<1> SUFFICES ASSUME Init PROVE CleanupInv
  OBVIOUS
<1>1. accepts \in [EPCs -> Nat] /\ \A e \in EPCs : accepts[e] = 0
  BY DEF Init
<1> QED BY <1>1 DEF Init, CleanupInv, AcceptedPerCleanup, Never

LEMMA CleanupStep == CleanupInv /\ [Next]_vars => CleanupInv'
<1> SUFFICES ASSUME CleanupInv, [Next]_vars PROVE CleanupInv'
  OBVIOUS
<1> USE DEF CleanupInv, AcceptedPerCleanup, Window, history
<1>1. ASSUME NEW e \in EPCs, NEW k \in Tasks, NEW stamp \in PushTimes, Push(e, k, stamp)
      PROVE  CleanupInv'
  <2>1. /\ accepts' = [accepts EXCEPT ![e] = @ + 1] /\ clears' = clears
        /\ recent' = RecentAfter(e, stamp)
        /\ lastCleanup' = CleanedAt(stamp)
        /\ cleanups' = IF CleanupDue(stamp) THEN cleanups + 1 ELSE cleanups
        /\ firstCleanup' = IF CleanupDue(stamp) /\ cleanups = 0 THEN stamp ELSE firstCleanup
        /\ e \notin recent
    BY <1>1 DEF Push
  <2>2. stamp \in Int
    BY EPCBufferAssumption
  <2>3. accepts' \in [EPCs -> Nat]
    BY <2>1
  <2>4. accepts'[e] = accepts[e] + 1 /\ accepts[e] <= clears + cleanups
    BY <2>1
  <2>5. \A f \in EPCs \ {e} : accepts'[f] = accepts[f]
    BY <2>1
  <2>6. CASE CleanupDue(stamp)
    <3>1. /\ recent' = {} /\ lastCleanup' = stamp /\ cleanups' = cleanups + 1
          /\ stamp - lastCleanup > 2
      BY <2>1, <2>6 DEF RecentAfter, CleanedAt, CleanupDue
    <3>2. \A f \in EPCs : accepts'[f] <= clears' + cleanups'
      BY <2>1, <2>3, <2>4, <2>5, <3>1
    <3>3. CASE cleanups = 0
      BY <2>1, <2>2, <2>3, <2>6, <3>1, <3>2, <3>3
    <3>4. CASE cleanups # 0
      <4>1. firstCleanup' = firstCleanup
        BY <2>1, <3>4
      <4>2. lastCleanup - firstCleanup >= (cleanups - 1) * 3
        BY <3>4
      <4>3. lastCleanup' - firstCleanup' >= (cleanups' - 1) * 3
        BY <2>2, <3>1, <4>1, <4>2
      <4> QED BY <2>1, <2>2, <2>3, <3>1, <3>2, <4>1, <4>3
    <3> QED BY <3>3, <3>4
  <2>7. CASE ~CleanupDue(stamp)
    <3>1. /\ recent' = recent \cup {e}
          /\ UNCHANGED <<lastCleanup, firstCleanup, cleanups, clears>>
      BY <2>1, <2>7 DEF RecentAfter, CleanedAt
    <3>2. ASSUME NEW f \in EPCs
          PROVE  /\ accepts'[f] <= clears' + cleanups' + (IF f \in recent' THEN 1 ELSE 0)
                 /\ f \in recent' => accepts'[f] > 0
      <4>1. CASE f = e
        BY <2>3, <2>4, <3>1, <4>1
      <4>2. CASE f # e
        BY <2>5, <3>1, <4>2
      <4> QED BY <4>1, <4>2
    <3> QED BY <2>3, <3>1, <3>2
  <2> QED BY <2>6, <2>7
<1>2. CASE ClearAll
  <2>1. /\ recent' = {} /\ clears' = clears + 1
        /\ UNCHANGED <<accepts, lastCleanup, firstCleanup, cleanups>>
    BY <1>2 DEF ClearAll
  <2> QED BY <2>1
<1>3. ASSUME UNCHANGED <<recent, lastCleanup, accepts, clears, cleanups, firstCleanup>>
      PROVE  CleanupInv'
  BY <1>3
<1>4. ASSUME NEW e \in EPCs, PushDuplicate(e) \/ PushFull(e) PROVE CleanupInv'
  BY <1>3, <1>4 DEF PushDuplicate, PushFull, bufferVars
<1>5. ASSUME NEW k \in Tasks, FlushOrClear(k) PROVE CleanupInv'
  BY <1>3, <1>5 DEF FlushOrClear
<1>6. CASE Start \/ Stop \/ Loop \/ UNCHANGED vars
  BY <1>3, <1>6 DEF Start, Stop, Loop, Wake, FlushAll, Deliver, CallbackThrows, bufferVars, vars
<1> QED BY <1>1, <1>2, <1>4, <1>5, <1>6 DEF Next

\* Whatever stamps the readers' reads carry and in whatever order they come, an
\* EPC is accepted at most once for each emptying of recentEPCs_, and the
\* clean-ups that empty it are more than two windows apart (EPCBuffer::push).
THEOREM AcceptedPerCleanupHolds == Spec => []AcceptedPerCleanup
<1>1. CleanupInv => AcceptedPerCleanup
  BY DEF CleanupInv
<1> QED BY <1>1, InitCleanup, CleanupStep, PTL DEF Spec

-----------------------------------------------------------------------------
(* The buffer's types *)

LEMMA TypesStep == TypeOK /\ [Next]_vars => TypeOK'
<1> SUFFICES ASSUME TypeOK, [Next]_vars PROVE TypeOK'
  OBVIOUS
<1> USE DEF TypeOK, bufferVars, threadVars, history
<1>2. ASSUME NEW e \in EPCs, NEW k \in Tasks, NEW stamp \in PushTimes, Push(e, k, stamp)
      PROVE  TypeOK'
  <2>1. [id |-> reads, epc |-> e, task |-> k] \in Read
    BY DEF Read
  <2>2. RecentAfter(e, stamp) \subseteq EPCs
    BY DEF RecentAfter
  <2>3. accepts' \in [EPCs -> Nat]
    BY <1>2 DEF Push
  <2>4. CleanedAt(stamp) \in Int /\ firstCleanup' \in Int /\ cleanups' \in Nat
    BY <1>2, EPCBufferAssumption DEF Push, CleanedAt
  <2> QED BY <1>2, <2>1, <2>2, <2>3, <2>4 DEF Push
<1>3. ASSUME NEW e \in EPCs, PushDuplicate(e) \/ PushFull(e) PROVE TypeOK'
  BY <1>3 DEF PushDuplicate, PushFull
<1>4. ASSUME NEW k \in Tasks, FlushOrClear(k) PROVE TypeOK'
  BY <1>4 DEF FlushOrClear, Of
<1>5. CASE ClearAll
  BY <1>5 DEF ClearAll
<1>6. CASE Start \/ Stop \/ Wake
  <2>1. CASE Start
    BY <2>1 DEF Start
  <2>2. CASE Stop
    BY <2>2 DEF Stop
  <2>3. CASE Wake
    BY <2>3 DEF Wake
  <2> QED BY <1>6, <2>1, <2>2, <2>3
<1>7. CASE FlushAll
  BY <1>7 DEF FlushAll, AfterFlush
<1>8. CASE Deliver \/ CallbackThrows
  BY <1>8 DEF Deliver, CallbackThrows, Looped
<1>9. CASE UNCHANGED vars
  BY <1>9 DEF vars
<1> QED
  BY <1>2, <1>3, <1>4, <1>5, <1>6, <1>7, <1>8, <1>9 DEF Next, Loop

\* The state keeps its types, and a processor that runs has its thread (start,
\* stop, processingLoop).
THEOREM TypesHold == Spec => []TypeOK
<1>1. Init => TypeOK
  <2> SUFFICES ASSUME Init PROVE TypeOK
    OBVIOUS
  <2>1. accepts \in [EPCs -> Nat] /\ lastCleanup \in Int /\ firstCleanup \in Int
    BY DEF Init, Never
  <2>2. running = FALSE /\ thread = "none"
    BY DEF Init
  <2> QED BY <2>1, <2>2 DEF Init, TypeOK
<1> QED BY <1>1, TypesStep, PTL DEF Spec

-----------------------------------------------------------------------------
(* The reader: reconnecting_ is exact, for every number of attempts, losses   *)
(* and calls, whether or not readers reconnect.                               *)

\* While the read thread is in the join of triggerReconnect, the reconnect
\* thread it joins has reset the flag already: only that makes setting it again
\* safe.
ReconnectInv ==
  /\ ReconnectingExact
  /\ read = "joining" => ~AtWork

LEMMA InitReconnect == ReaderInit => ReconnectInv
BY DEF ReaderInit, ReconnectInv, ReconnectingExact, AtWork

LEMMA ReconnectStep == ReconnectInv /\ [ReaderNext]_readerVars => ReconnectInv'
<1> SUFFICES ASSUME ReconnectInv, [ReaderNext]_readerVars PROVE ReconnectInv'
  OBVIOUS
<1> USE DEF ReconnectInv, ReconnectingExact, AtWork, Finished, UnderWay
<1>1. CASE StartAll \/ StopScanning
  BY <1>1 DEF StartAll, StopScanning
<1>2. CASE InCall
  <2>1. CASE ManagerOpens \/ ManagerConnects \/ StartScanning
    BY <2>1 DEF ManagerOpens, ManagerConnects, StartScanning
  <2>2. CASE SpawnRead \/ JoinRead
    BY <2>2 DEF SpawnRead, JoinRead, ReadJoined
  <2>3. CASE Disconnect \/ Destroy
    BY <2>3 DEF Disconnect, Destroy
  <2> QED BY <1>2, <2>1, <2>2, <2>3 DEF InCall
<1>3. CASE ReadThread
  <2>1. CASE LoopEnds \/ LoopFails
    BY <2>1 DEF LoopEnds, LoopFails
  <2>2. CASE ConnectionLost \/ TriggerIgnored
    BY <2>2 DEF ConnectionLost, TriggerIgnored
  <2>3. CASE Trigger
    BY <2>3 DEF Trigger
  <2>4. CASE SpawnReconnect
    BY <2>4 DEF SpawnReconnect
  <2> QED BY <1>3, <2>1, <2>2, <2>3, <2>4 DEF ReadThread
<1>4. CASE ReconnectThread
  <2>1. CASE ReconnectOpens \/ Reconnected \/ ConnectionRestored
    BY <2>1 DEF ReconnectOpens, Reconnected, ConnectionRestored
  <2>2. CASE ReconnectFails
    BY <2>2 DEF ReconnectFails, AfterFailure
  <2>3. CASE ReconnectResets \/ ReconnectReturns
    BY <2>3 DEF ReconnectResets, ReconnectReturns, ReconnectingAfter
  <2> QED BY <1>4, <2>1, <2>2, <2>3 DEF ReconnectThread
<1>5. CASE Loss
  BY <1>5 DEF Loss
<1>6. CASE UNCHANGED readerVars
  BY <1>6 DEF readerVars
<1> QED BY <1>1, <1>2, <1>3, <1>4, <1>5, <1>6 DEF ReaderNext

\* reconnecting_ is set exactly while a reconnect is about to start or at work
\* (Reader::triggerReconnect, Reader::reconnectLoop).
THEOREM ReconnectingExactHolds == ReaderSpec => []ReconnectingExact
<1>1. ReconnectInv => ReconnectingExact
  BY DEF ReconnectInv
<1> QED BY <1>1, InitReconnect, ReconnectStep, PTL DEF ReaderSpec

\* The join inside triggerReconnect, which holds reconnectMutex_ and is in the
\* thread that stopScanning joins, waits for no attempt and no delay: the thread
\* it joins has nothing left but to return.
JoinWaitsForNoAttempt == read = "joining" => ~AtWork
THEOREM JoinWaitsForNoAttemptHolds == ReaderSpec => []JoinWaitsForNoAttempt
<1>1. ReconnectInv => JoinWaitsForNoAttempt
  BY DEF ReconnectInv, JoinWaitsForNoAttempt, AtWork
<1> QED BY <1>1, InitReconnect, ReconnectStep, PTL DEF ReaderSpec

-----------------------------------------------------------------------------
(* The reader's types, and the limit on attempts *)

\* An attempt under way is one of the first MaxAttempts.
AttemptLeft == reconnect \in {"attempt", "connecting"} => attempts < MaxAttempts

LEMMA InitReaderTypes == ReaderInit => ReaderTypeOK /\ AttemptLeft
<1> SUFFICES ASSUME ReaderInit PROVE ReaderTypeOK /\ AttemptLeft
  OBVIOUS
<1>1. attempts \in 0..MaxAttempts BY ReaderAssumption DEF ReaderInit
<1>2. AttemptLeft BY DEF ReaderInit, AttemptLeft
<1>3. /\ sock \in {"none", "fresh", "good", "dead"} /\ losses \in Nat /\ calls \in Nat
      /\ connected = FALSE /\ scanning = FALSE /\ reconnecting = FALSE /\ removing = FALSE
      /\ manager \in ManagerPlaces /\ read \in ReadPlaces /\ reconnect \in ReconnectPlaces
  BY DEF ReaderInit, ManagerPlaces, ReadPlaces, ReconnectPlaces
<1> QED BY <1>1, <1>2, <1>3 DEF ReaderTypeOK

LEMMA ReaderTypesStep == ReaderTypeOK /\ AttemptLeft /\ [ReaderNext]_readerVars => ReaderTypeOK' /\ AttemptLeft'
<1> SUFFICES ASSUME ReaderTypeOK, AttemptLeft, [ReaderNext]_readerVars PROVE ReaderTypeOK' /\ AttemptLeft'
  OBVIOUS
<1> USE ReaderAssumption
    DEF ReaderTypeOK, AttemptLeft, ManagerPlaces, ReadPlaces, ReconnectPlaces, link
<1>1. CASE StartAll \/ StopScanning
  <2>1. CASE StartAll
    <3>1. manager' \in {"start", "connect"} /\ calls' = calls + 1 /\ removing' = removing
      BY <2>1 DEF StartAll
    <3>2. UNCHANGED <<link, scanning, reconnecting, attempts, read, reconnect>>
      BY <2>1 DEF StartAll
    <3> QED BY <3>1, <3>2
  <2>2. CASE StopScanning
    <3>1. manager' = "stop" /\ calls' = calls + 1 /\ scanning' \in BOOLEAN /\ removing' \in BOOLEAN
      BY <2>2 DEF StopScanning, ScanningAfterStop
    <3>2. UNCHANGED <<link, reconnecting, attempts, read, reconnect>>
      BY <2>2 DEF StopScanning
    <3> QED BY <3>1, <3>2
  <2> QED BY <1>1, <2>1, <2>2
<1>2. CASE InCall
  <2>1. CASE ManagerOpens \/ ManagerConnects
    <3>1. CASE ManagerOpens
      BY <3>1 DEF ManagerOpens, OpenSocket
    <3>2. CASE ManagerConnects /\ ConnectSucceeds
      BY <3>2 DEF ManagerConnects, ConnectSucceeds
    <3>3. CASE ManagerConnects /\ ConnectFails
      BY <3>3 DEF ManagerConnects, ConnectFails
    <3> QED BY <2>1, <3>1, <3>2, <3>3 DEF ManagerConnects
  <2>2. CASE StartScanning \/ SpawnRead
    BY <2>2 DEF StartScanning, SpawnRead
  <2>3. CASE JoinRead \/ Disconnect \/ Destroy
    <3>1. CASE JoinRead
      BY <3>1 DEF JoinRead
    <3>2. CASE Disconnect
      BY <3>2 DEF Disconnect
    <3>3. CASE Destroy
      BY <3>3 DEF Destroy
    <3> QED BY <2>3, <3>1, <3>2, <3>3
  <2> QED BY <1>2, <2>1, <2>2, <2>3 DEF InCall
<1>3. CASE ReadThread
  <2>1. CASE LoopEnds \/ LoopFails \/ ConnectionLost
    BY <2>1 DEF LoopEnds, LoopFails, ConnectionLost
  <2>2. CASE TriggerIgnored
    BY <2>2 DEF TriggerIgnored
  <2>3. CASE Trigger
    BY <2>3 DEF Trigger
  <2>4. CASE SpawnReconnect
    BY <2>4 DEF SpawnReconnect
  <2> QED BY <1>3, <2>1, <2>2, <2>3, <2>4 DEF ReadThread
<1>4. CASE ReconnectThread
  <2>1. CASE ReconnectOpens \/ Reconnected
    <3>1. CASE ReconnectOpens
      BY <3>1 DEF ReconnectOpens, OpenSocket
    <3>2. CASE Reconnected
      BY <3>2 DEF Reconnected, ConnectSucceeds
    <3> QED BY <2>1, <3>1, <3>2
  <2>2. CASE ReconnectFails
    BY <2>2 DEF ReconnectFails, ConnectFails, AfterFailure
  <2>3. CASE ConnectionRestored \/ ReconnectResets \/ ReconnectReturns
    <3>1. CASE ConnectionRestored
      BY <3>1 DEF ConnectionRestored
    <3>2. CASE ReconnectResets
      BY <3>2 DEF ReconnectResets, ReconnectingAfter
    <3>3. CASE ReconnectReturns
      BY <3>3 DEF ReconnectReturns
    <3> QED BY <2>3, <3>1, <3>2, <3>3
  <2> QED BY <1>4, <2>1, <2>2, <2>3 DEF ReconnectThread
<1>5. CASE Loss
  BY <1>5 DEF Loss
<1>6. CASE UNCHANGED readerVars
  BY <1>6 DEF readerVars
<1> QED BY <1>1, <1>2, <1>3, <1>4, <1>5, <1>6 DEF ReaderNext

\* The reader's state keeps its types, and a reconnect that is about to connect
\* or in connect has made fewer than MAX_RECONNECT_ATTEMPTS attempts before
\* (reader.cpp:36).
THEOREM ReaderTypesHold == ReaderSpec => [](ReaderTypeOK /\ AttemptLeft)
BY InitReaderTypes, ReaderTypesStep, PTL DEF ReaderSpec

-----------------------------------------------------------------------------
(* The filter: what it forgets of a tag was outside of the window when it was *)
(* forgotten, and the clock that says so does not run back.                   *)

Stamps == Times \cup {NeverKept}

\* What the cache still says of e, and what it may not say any more.
Remembered(e) ==
  /\ cache[e] # NeverKept => kept[e].time = cache[e]
  /\ kept[e].reads > 0 => kept[e].time # NeverKept
  /\ kept[e].reads > 0 /\ e \notin excused /\ cache[e] = NeverKept
       => kept[e].time + window < swept

FilterInv ==
  /\ cache \in [Tags -> Stamps]
  /\ kept \in [Tags -> [time : Stamps, reads : Nat]]
  /\ batch \in Seq(Event)
  /\ window \in Nat /\ clock \in Nat /\ swept \in Nat /\ swept <= clock
  /\ \A e \in Tags : Remembered(e)

LEMMA InitFilter == FilterInit => FilterInv
<1> SUFFICES ASSUME FilterInit PROVE FilterInv
  OBVIOUS
<1>1. /\ cache = [e \in Tags |-> NeverKept] /\ NeverKept \in Stamps
      /\ kept = [e \in Tags |-> [time |-> NeverKept, reads |-> 0]]
      /\ batch = <<>> /\ clock = 0 /\ swept = 0
  BY DEF FilterInit, Stamps
<1>2. window \in Nat
  BY EPCProcessorAssumption DEF FilterInit
<1>3. \A e \in Tags : cache[e] = NeverKept /\ kept[e].reads = 0
  BY <1>1
<1>4. \A e \in Tags : Remembered(e)
  BY <1>3 DEF Remembered
<1>5. kept \in [Tags -> [time : Stamps, reads : Nat]] /\ cache \in [Tags -> Stamps]
  BY <1>1
<1> QED BY <1>1, <1>2, <1>4, <1>5, EmptySeq DEF FilterInv

\* The event at the head of a batch.
LEMMA HeadFacts ==
  ASSUME FilterInv, batch # <<>>
  PROVE  /\ Head(batch).epc \in Tags /\ Head(batch).time \in Times
         /\ Tail(batch) \in Seq(Event)
<1>1. Head(batch) \in Event /\ Tail(batch) \in Seq(Event)
  BY HeadTailProperties DEF FilterInv
<1> QED BY <1>1 DEF Event

LEMMA FilterKeeps == FilterInv /\ Filter => FilterInv'
<1> SUFFICES ASSUME FilterInv, Filter PROVE FilterInv'
  OBVIOUS
<1>1. PICK e \in Tags, t \in Times :
        /\ batch' \in Seq(Event) /\ UNCHANGED <<window, clock, swept>>
        /\ \/ UNCHANGED <<cache, kept, excused>>
           \/ /\ cache' = [cache EXCEPT ![e] = t]
              /\ kept' = [kept EXCEPT ![e] = [time |-> t, reads |-> @.reads + 1]]
              /\ excused' = excused \ {e}
  <2>1. batch # <<>>
    BY DEF Filter
  <2>2. Head(batch).epc \in Tags /\ Head(batch).time \in Times /\ Tail(batch) \in Seq(Event)
    BY <2>1, HeadFacts
  <2> QED BY <2>2 DEF Filter, Stamped
<1>2. CASE UNCHANGED <<cache, kept, excused>>
  BY <1>1, <1>2 DEF FilterInv, Remembered
<1>3. CASE /\ cache' = [cache EXCEPT ![e] = t]
           /\ kept' = [kept EXCEPT ![e] = [time |-> t, reads |-> @.reads + 1]]
           /\ excused' = excused \ {e}
  <2>1. t \in Stamps /\ t # NeverKept
    BY EPCProcessorAssumption DEF Stamps
  <2>2. /\ cache \in [Tags -> Stamps] /\ kept \in [Tags -> [time : Stamps, reads : Nat]]
        /\ \A f \in Tags : Remembered(f)
    BY DEF FilterInv
  <2>3. cache' \in [Tags -> Stamps] /\ kept' \in [Tags -> [time : Stamps, reads : Nat]]
    BY <1>3, <2>1, <2>2
  <2>4. kept'[e].time = t /\ cache'[e] = t
    BY <1>3, <2>2
  <2>5. \A f \in Tags \ {e} :
          /\ kept'[f] = kept[f] /\ cache'[f] = cache[f] /\ (f \in excused' <=> f \in excused)
    BY <1>3, <2>2
  <2>6. \A f \in Tags : Remembered(f)'
    BY <1>1, <2>1, <2>2, <2>4, <2>5 DEF Remembered
  <2> QED BY <1>1, <2>3, <2>6 DEF FilterInv
<1> QED BY <1>1, <1>2, <1>3

LEMMA FilterStep == FilterInv /\ [FilterNext]_filterVars => FilterInv'
<1> SUFFICES ASSUME FilterInv, [FilterNext]_filterVars PROVE FilterInv'
  OBVIOUS
<1>0. /\ cache \in [Tags -> Stamps] /\ kept \in [Tags -> [time : Stamps, reads : Nat]]
      /\ batch \in Seq(Event)
      /\ window \in Nat /\ clock \in Nat /\ swept \in Nat /\ swept <= clock
      /\ \A e \in Tags : Remembered(e)
      /\ NeverKept \in Stamps /\ NeverKept \notin Int /\ Times \subseteq Nat
  BY EPCProcessorAssumption DEF FilterInv, Stamps
\* Steps that only take entries away, and excuse them.
<1>1. ASSUME UNCHANGED <<kept, batch, window, clock, swept>>,
             cache' \in [Tags -> Stamps],
             \A e \in Tags :
               \/ cache'[e] = cache[e] /\ (e \in excused => e \in excused')
               \/ cache'[e] = NeverKept /\ e \in excused'
      PROVE  FilterInv'
  BY <1>0, <1>1 DEF FilterInv, Remembered
<1>2. ASSUME NEW b \in Batches, ProcessEvents(b) PROVE FilterInv'
  <2>1. b \in Seq(Event)
    <3>1. PICK n \in 1..MaxBatch : b \in [1..n -> Event]
      BY DEF Batches
    <3>2. n \in Nat
      BY EPCProcessorAssumption
    <3> QED BY <3>1, <3>2
  <2>2. batch' = b /\ UNCHANGED <<cache, kept, window, clock, swept, excused>>
    BY <1>2 DEF ProcessEvents
  <2> QED BY <1>0, <2>1, <2>2 DEF FilterInv, Remembered
<1>3. CASE Filter
  BY <1>3, FilterKeeps
<1>4. CASE Expire
  <2>1. /\ cache' = [e \in Tags |-> IF e \in Expired THEN NeverKept ELSE cache[e]]
        /\ swept' = clock /\ UNCHANGED <<kept, batch, window, clock, excused>>
    BY <1>4 DEF Expire
  <2>2. cache' \in [Tags -> Stamps]
    BY <1>0, <2>1
  <2>3. ASSUME NEW e \in Tags PROVE Remembered(e)'
    <3>1. CASE e \in Expired
      <4>1. kept[e].time = cache[e] /\ cache[e] < clock - window /\ cache[e] \in Nat
        BY <1>0, <3>1 DEF Expired, Remembered, Stamps
      <4>2. kept[e].time + window < clock
        BY <1>0, <4>1
      <4>3. cache'[e] = NeverKept
        BY <2>1, <3>1
      <4>4. Remembered(e)
        BY <1>0
      <4> QED BY <2>1, <4>2, <4>3, <4>4 DEF Remembered
    <3>2. CASE e \notin Expired
      <4>1. cache'[e] = cache[e] /\ Remembered(e)
        BY <1>0, <2>1, <3>2
      <4>2. ASSUME kept[e].reads > 0, e \notin excused, cache[e] = NeverKept
            PROVE  kept[e].time + window < clock
        <5>1. kept[e].time + window < swept /\ kept[e].time \in Nat
          BY <1>0, <4>1, <4>2 DEF Remembered, Stamps
        <5> QED BY <1>0, <5>1
      <4> QED BY <2>1, <4>1, <4>2 DEF Remembered
    <3> QED BY <3>1, <3>2
  <2> QED BY <1>0, <2>1, <2>2, <2>3 DEF FilterInv
<1>5. ASSUME NEW e \in Tags, Evict(e) PROVE FilterInv'
  <2>1. /\ cache' = [cache EXCEPT ![e] = NeverKept] /\ excused' = excused \cup {e}
        /\ UNCHANGED <<kept, batch, window, clock, swept>>
    BY <1>5 DEF Evict, Without
  <2> QED BY <1>0, <1>1, <2>1
<1>6. CASE ClearCache
  <2>1. /\ cache' = [e \in Tags |-> NeverKept] /\ excused' = Tags
        /\ UNCHANGED <<kept, batch, window, clock, swept>>
    BY <1>6 DEF ClearCache
  <2> QED BY <1>0, <1>1, <2>1
<1>7. ASSUME NEW w \in Windows, SetDuplicateFilterWindow(w) PROVE FilterInv'
  <2>1. /\ window' = w /\ excused' = (IF w > window THEN Tags ELSE excused)
        /\ UNCHANGED <<cache, kept, batch, clock, swept>>
    BY <1>7 DEF SetDuplicateFilterWindow
  <2>2. w \in Nat
    BY EPCProcessorAssumption
  <2>3. ASSUME NEW e \in Tags PROVE Remembered(e)'
    <3>1. Remembered(e)
      BY <1>0
    <3>2. CASE w > window
      BY <2>1, <3>1, <3>2 DEF Remembered
    <3>3. CASE w <= window
      <4>1. excused' = excused
        BY <1>0, <2>1, <2>2, <3>3
      <4>2. ASSUME kept[e].reads > 0, e \notin excused, cache[e] = NeverKept
            PROVE  kept[e].time + w < swept
        <5>1. kept[e].time + window < swept /\ kept[e].time \in Nat
          BY <1>0, <3>1, <4>2 DEF Remembered, Stamps
        <5> QED BY <1>0, <2>2, <3>3, <5>1
      <4> QED BY <2>1, <3>1, <4>1, <4>2 DEF Remembered
    <3> QED BY <1>0, <2>2, <3>2, <3>3
  <2> QED BY <1>0, <2>1, <2>2, <2>3 DEF FilterInv
<1>8. CASE ClockTick
  <2>1. clock' = clock + 1 /\ UNCHANGED <<cache, kept, batch, window, swept, excused>>
    BY <1>8 DEF ClockTick
  <2>2. \A e \in Tags : Remembered(e)'
    BY <1>0, <2>1 DEF Remembered
  <2>3. PICK c \in Nat : clock' = c /\ swept <= c
    BY <1>0, <2>1
  <2> QED BY <1>0, <2>1, <2>2, <2>3 DEF FilterInv
<1>9. CASE Processed \/ \E n \in Sizes : SetMaxCacheSize(n)
  BY <1>0, <1>1, <1>9 DEF Processed, SetMaxCacheSize
<1>10. CASE UNCHANGED filterVars
  BY <1>0, <1>1, <1>10 DEF filterVars
<1> QED BY <1>2, <1>3, <1>4, <1>5, <1>6, <1>7, <1>8, <1>9, <1>10 DEF FilterNext

\* However the readers' clocks differ from the server's, a read that comes no
\* later than the last cleanup is kept a second time only outside of the
\* window, unless its entry was evicted or cleared or the window widened
\* (EPCProcessor::isDuplicate, cleanupCache).
THEOREM KeptOncePerWindowHolds == FilterSpec => KeptOncePerWindow
<1>1. ASSUME FilterInv, [FilterNext]_filterVars, NEW e \in Tags,
             kept'[e].reads > kept[e].reads, kept[e].reads > 0
      PROVE  \/ kept'[e].time - kept[e].time >= window
             \/ kept'[e].time < swept
             \/ e \in excused
  <2>0. /\ cache \in [Tags -> Stamps] /\ kept \in [Tags -> [time : Stamps, reads : Nat]]
        /\ window \in Nat /\ swept \in Nat /\ Remembered(e)
        /\ NeverKept \notin Int /\ Times \subseteq Nat
    BY <1>1, EPCProcessorAssumption DEF FilterInv
  <2>1. kept' # kept
    BY <1>1, <2>0
  <2>2. Filter
    BY <1>1, <2>1
       DEF FilterNext, ProcessEvents, Expire, Processed, Evict, ClearCache,
           SetDuplicateFilterWindow, SetMaxCacheSize, ClockTick, filterVars
  <2>3. PICK t \in Times :
          /\ ~(cache[e] # NeverKept /\ t - cache[e] < window)
          /\ kept'[e].time = t
    <3> DEFINE event == Head(batch)
    <3>1. event.epc \in Tags /\ event.time \in Times
      BY <1>1, <2>2, HeadFacts DEF Filter
    <3>2. /\ ~(cache[event.epc] # NeverKept /\ event.time - cache[event.epc] < window)
          /\ kept' = [kept EXCEPT ![event.epc] = [time |-> event.time, reads |-> @.reads + 1]]
      BY <2>1, <2>2 DEF Filter, IsDuplicate
    <3> HIDE DEF event
    <3>3. event.epc = e
      BY <1>1, <2>0, <3>1, <3>2
    <3> QED BY <2>0, <3>1, <3>2, <3>3
  <2>4. kept[e].time \in Nat /\ t \in Nat
    BY <1>1, <2>0 DEF Remembered, Stamps
  <2>5. CASE cache[e] # NeverKept
    <3>1. cache[e] = kept[e].time
      BY <2>0, <2>5 DEF Remembered
    <3> QED BY <2>0, <2>3, <2>4, <2>5, <3>1
  <2>6. CASE cache[e] = NeverKept /\ e \notin excused
    <3>1. kept[e].time + window < swept
      BY <1>1, <2>0, <2>6 DEF Remembered
    <3> QED BY <2>0, <2>3, <2>4, <3>1
  <2> QED BY <2>5, <2>6
<1>2. FilterInv /\ [FilterNext]_filterVars =>
        [\A e \in Tags :
           kept'[e].reads > kept[e].reads /\ kept[e].reads > 0
             => \/ kept'[e].time - kept[e].time >= window
                \/ kept'[e].time < swept
                \/ e \in excused]_filterVars
  BY <1>1
<1> QED BY <1>2, InitFilter, FilterStep, PTL DEF FilterSpec, KeptOncePerWindow

=============================================================================
