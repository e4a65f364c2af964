--------------------------- MODULE InventoryProofs ---------------------------
(***************************************************************************)
(* No scan is lost as long as no database step fails, for every number of  *)
(* threads, tasks, tags and restarts.                                      *)
(***************************************************************************)
EXTENDS InventoryService, FiniteSetTheorems, TLAPS

\* The inductive invariant: as long as no database step has failed, what is
\* processed is recorded or in hand; and a thread that is idle has nothing in
\* hand.
ScanInv ==
  /\ scan = [t \in Threads |-> scan[t]]
  /\ records \in [Tasks -> [EPCs -> Nat]]
  /\ faults \in Nat
  /\ \A t \in Threads :
       /\ scan[t] \in Scan
       /\ scan[t].pc \in {"idle", "dirty"} => scan[t].batch = {}
  /\ NoLostScan

\* What a step of a thread in the middle of a scan has to respect: it drops no
\* tag from its batch, stays in its task, and changes nothing else.
LEMMA KeepsHand ==
  ASSUME ScanInv, NEW t \in Threads, NEW s \in Scan, scan' = [scan EXCEPT ![t] = s],
         s.task = scan[t].task \/ scan[t].batch = {},
         scan[t].batch \subseteq s.batch,
         s.pc \in {"idle", "dirty"} => s.batch = {},
         records' = records, faults' \in Nat, faults' >= faults,
         processed' \subseteq processed \cup {<<s.task, e>> : e \in s.batch}
  PROVE  ScanInv'
<1>1. /\ scan' = [u \in Threads |-> scan'[u]]
      /\ scan'[t] = s
      /\ \A u \in Threads : u # t => scan'[u] = scan[u]
  BY DEF ScanInv
<1>2. ASSUME NEW k \in Tasks, NEW e \in AssetEPCs, InHand(k, e) PROVE InHand(k, e)'
  <2>1. PICK u \in Threads : scan[u].task = k /\ e \in scan[u].batch
    BY <1>2 DEF InHand
  <2>2. scan'[u].task = k /\ e \in scan'[u].batch
    <3>1. CASE u = t
      BY <1>1, <2>1, <3>1
    <3>2. CASE u # t
      BY <1>1, <2>1, <3>2
    <3> QED BY <3>1, <3>2
  <2> QED BY <2>2 DEF InHand
<1>0. faults' = 0 => faults = 0
  BY DEF ScanInv
<1>3. ASSUME faults' = 0, NEW k \in Tasks, NEW e \in AssetEPCs, <<k, e>> \in processed'
      PROVE  records'[k][e] > 0 \/ InHand(k, e)'
  <2>1. CASE <<k, e>> \in processed
    BY <1>0, <1>2, <1>3, <2>1 DEF ScanInv, NoLostScan, SkippedIsKept
  <2>2. CASE <<k, e>> \notin processed
    <3>1. PICK f \in s.batch : <<k, e>> = <<s.task, f>>
      BY <1>3, <2>2
    <3>2. s.task = k /\ e \in s.batch
      BY <3>1
    <3> QED BY <1>1, <3>2 DEF InHand
  <2> QED BY <2>1, <2>2
<1>4. \A u \in Threads :
        scan'[u] \in Scan /\ (scan'[u].pc \in {"idle", "dirty"} => scan'[u].batch = {})
  <2>1. ASSUME NEW u \in Threads
        PROVE  scan'[u] \in Scan /\ (scan'[u].pc \in {"idle", "dirty"} => scan'[u].batch = {})
    <3>1. CASE u = t
      BY <1>1, <3>1
    <3>2. CASE u # t
      BY <1>1, <3>2 DEF ScanInv
    <3> QED BY <3>1, <3>2
  <2> QED BY <2>1
<1> QED BY <1>1, <1>3, <1>4 DEF ScanInv, NoLostScan, SkippedIsKept

LEMMA IdleFacts ==
  ASSUME NEW t \in Threads, ScanInv
  PROVE  Idle.batch = {} /\ Idle.pc = "idle" /\ Idle \in Scan
<1>1. \E k \in Tasks : TRUE
  BY DEF ScanInv, Scan
<1>2. (CHOOSE k \in Tasks : TRUE) \in Tasks
  BY <1>1
<1> QED BY <1>2 DEF Idle, Scan, Places

LEMMA ScanStep ==
  ASSUME ScanInv, [Next]_vars
  PROVE  ScanInv'
<1>1. ASSUME NEW t \in Threads, NEW k \in Tasks, NEW counted \in BOOLEAN,
             NEW epcs \in SUBSET EPCs, Begin(t, k, counted, epcs)
      PROVE  ScanInv'
  <2> DEFINE s == [pc |-> "dirty", task |-> k, counted |-> counted,
                   todo |-> epcs, pending |-> {}, batch |-> {}]
  <2>1. s \in Scan /\ s.batch = {}
    BY DEF Scan, Places
  <2>2. scan[t].batch = {}
    BY <1>1 DEF Begin, At, ScanInv
  <2>3. /\ scan' = [scan EXCEPT ![t] = s]
        /\ records' = records /\ processed' = processed /\ faults' = faults
    BY <1>1 DEF Begin
  <2>4. faults' \in Nat /\ faults' >= faults
    BY <2>3 DEF ScanInv
  <2> HIDE DEF s
  <2> QED BY <2>1, <2>2, <2>3, <2>4, KeepsHand
<1>2. ASSUME NEW t \in Threads, RecordDirty(t) PROVE ScanInv'
  <2> DEFINE s == [scan[t] EXCEPT !.pc = "lookup", !.todo = @ \ InvalidEPCs]
  <2>1. scan[t] \in Scan
    BY DEF ScanInv
  <2>2. s \in Scan /\ s.pc = "lookup" /\ s.task = scan[t].task /\ s.batch = scan[t].batch
    BY <2>1 DEF Scan, Places
  <2>3. scan' = [scan EXCEPT ![t] = s]
    BY <1>2 DEF RecordDirty, ScanInv
  <2>4. records' = records /\ processed' = processed /\ faults' \in Nat /\ faults' >= faults
    BY <1>2 DEF RecordDirty, ScanInv
  <2> HIDE DEF s
  <2> QED BY <2>2, <2>3, <2>4, KeepsHand
<1>3. ASSUME NEW t \in Threads, NEW e \in EPCs, LookUp(t, e) PROVE ScanInv'
  <2> DEFINE p == IF <<scan[t].task, e>> \in processed THEN {} ELSE {e}
             s == [scan[t] EXCEPT !.todo = @ \ {e}, !.pending = p]
  <2>1. scan[t] \in Scan /\ p \in SUBSET EPCs
    BY DEF ScanInv
  <2>2. /\ s \in Scan /\ s.pc = scan[t].pc
        /\ s.task = scan[t].task /\ s.batch = scan[t].batch
    <3> HIDE DEF p
    <3> QED BY <2>1 DEF Scan
  <2>3. scan' = [scan EXCEPT ![t] = s] /\ scan[t].pc = "lookup"
    BY <1>3 DEF LookUp, At, ScanInv
  <2>4. records' = records /\ processed' = processed /\ faults' \in Nat /\ faults' >= faults
    BY <1>3 DEF LookUp, ScanInv
  <2> HIDE DEF s
  <2> QED BY <2>2, <2>3, <2>4, KeepsHand
<1>4. ASSUME NEW t \in Threads, Mark(t) PROVE ScanInv'
  <2> DEFINE s == [scan[t] EXCEPT !.pending = {}, !.batch = Collected(t)]
  <2>1. scan[t] \in Scan /\ Collected(t) \in SUBSET EPCs
    BY DEF ScanInv, Scan, Collected
  <2>2. /\ s \in Scan /\ s.pc = scan[t].pc
        /\ s.task = scan[t].task /\ s.batch = Collected(t)
    BY <2>1 DEF Scan
  <2>3. scan' = [scan EXCEPT ![t] = s] /\ scan[t].pc = "lookup"
    BY <1>4 DEF Mark, At, ScanInv
  <2>4. records' = records /\ faults' \in Nat /\ faults' >= faults
    BY <1>4 DEF Mark, ScanInv
  <2>5. processed' \subseteq processed \cup {<<s.task, e>> : e \in s.batch}
    BY <1>4, <2>2 DEF Mark, Marked, Collected
  <2> HIDE DEF s
  <2> QED BY <2>2, <2>3, <2>4, <2>5, KeepsHand DEF Collected
<1>5. ASSUME NEW t \in Threads, LookedUp(t) \/ Query(t) \/ UpdateTask(t) PROVE ScanInv'
  <2>1. PICK pc \in {"database", "counters", "commit"} : scan' = [scan EXCEPT ![t].pc = pc]
    BY <1>5 DEF LookedUp, Query, UpdateTask
  <2> DEFINE s == [scan[t] EXCEPT !.pc = pc]
  <2>2. scan[t] \in Scan
    BY DEF ScanInv
  <2>3. s \in Scan /\ s.pc = pc /\ s.task = scan[t].task /\ s.batch = scan[t].batch
    BY <2>2 DEF Scan, Places
  <2>4. scan' = [scan EXCEPT ![t] = s]
    BY <2>1 DEF ScanInv
  <2>5. records' = records /\ processed' = processed /\ faults' = faults
    BY <1>5 DEF LookedUp, Query, UpdateTask
  <2>6. faults' \in Nat /\ faults' >= faults
    BY <2>5 DEF ScanInv
  <2> HIDE DEF s
  <2> QED BY <2>3, <2>4, <2>5, <2>6, KeepsHand
<1>6. ASSUME NEW t \in Threads, NothingToDo(t) PROVE ScanInv'
  <2>1. /\ scan' = [scan EXCEPT ![t] = Idle] /\ scan[t].batch = {}
        /\ records' = records /\ processed' = processed /\ faults' \in Nat /\ faults' >= faults
    BY <1>6 DEF NothingToDo, Finish, ScanInv
  <2> QED BY <2>1, IdleFacts, KeepsHand
<1>7. ASSUME NEW t \in Threads, Commit(t) PROVE ScanInv'
  <2>1. /\ scan' = [scan EXCEPT ![t] = Idle] /\ records' = Recorded(t)
        /\ processed' = processed /\ faults' = faults
    BY <1>7 DEF Commit, Finish
  <2>2. /\ scan' = [u \in Threads |-> scan'[u]]
        /\ scan'[t] = Idle
        /\ \A u \in Threads : u # t => scan'[u] = scan[u]
    BY <2>1 DEF ScanInv
  <2>3. scan[t] \in Scan
    BY DEF ScanInv
  <2>4. records' \in [Tasks -> [EPCs -> Nat]]
    BY <2>1, <2>3 DEF ScanInv, Recorded, Scan
  <2>5. ASSUME NEW k \in Tasks, NEW e \in AssetEPCs
        PROVE  /\ records[k][e] > 0 => records'[k][e] > 0
               /\ k = scan[t].task /\ e \in scan[t].batch => records'[k][e] > 0
    <3>1. e \in EPCs /\ records[k][e] \in Nat
      BY InventoryAssumption DEF ScanInv
    <3>2. CASE k = scan[t].task
      <4>1. records'[k][e] = IF e \in Found(t) THEN records[k][e] + 1 ELSE records[k][e]
        BY <2>1, <3>1, <3>2 DEF Recorded, ScanInv
      <4> QED BY <3>1, <4>1 DEF Found
    <3>3. CASE k # scan[t].task
      BY <2>1, <3>1, <3>3 DEF Recorded, ScanInv
    <3> QED BY <3>2, <3>3
  <2>6. ASSUME faults' = 0, NEW k \in Tasks, NEW e \in AssetEPCs, <<k, e>> \in processed'
        PROVE  records'[k][e] > 0 \/ InHand(k, e)'
    <3>1. records[k][e] > 0 \/ InHand(k, e)
      BY <2>1, <2>6 DEF ScanInv, NoLostScan, SkippedIsKept
    <3>2. CASE records[k][e] > 0
      BY <2>5, <3>2
    <3>3. CASE InHand(k, e)
      <4>1. PICK u \in Threads : scan[u].task = k /\ e \in scan[u].batch
        BY <3>3 DEF InHand
      <4>2. CASE u = t
        BY <2>5, <4>1, <4>2
      <4>3. CASE u # t
        BY <2>2, <4>1, <4>3 DEF InHand
      <4> QED BY <4>2, <4>3
    <3> QED BY <3>1, <3>2, <3>3
  <2>7. ASSUME NEW u \in Threads
        PROVE  scan'[u] \in Scan /\ (scan'[u].pc \in {"idle", "dirty"} => scan'[u].batch = {})
    <3>1. CASE u = t
      BY <2>2, <3>1, IdleFacts
    <3>2. CASE u # t
      BY <2>2, <3>2 DEF ScanInv
    <3> QED BY <3>1, <3>2
  <2> QED BY <2>1, <2>2, <2>4, <2>6, <2>7 DEF ScanInv, NoLostScan, SkippedIsKept
<1>8. ASSUME NEW t \in Threads, Fail(t) PROVE ScanInv'
  <2>1. /\ scan' = [scan EXCEPT ![t] = Idle] /\ records' = records
        /\ faults' = faults + 1
    BY <1>8 DEF Fail, Finish
  <2>2. faults' \in Nat /\ faults' # 0
    BY <2>1 DEF ScanInv
  <2>3. /\ scan' = [u \in Threads |-> scan'[u]]
        /\ \A u \in Threads : scan'[u] = IF u = t THEN Idle ELSE scan[u]
    BY <2>1 DEF ScanInv
  <2>4. \A u \in Threads :
          scan'[u] \in Scan /\ (scan'[u].pc \in {"idle", "dirty"} => scan'[u].batch = {})
    BY <2>3, IdleFacts DEF ScanInv
  <2> QED BY <2>1, <2>2, <2>3, <2>4 DEF ScanInv, NoLostScan
<1>9. ASSUME scan' = scan, records' = records, faults' = faults,
             processed' \subseteq processed
      PROVE  ScanInv'
  BY <1>9 DEF ScanInv, NoLostScan, SkippedIsKept, InHand
<1>10. ASSUME NEW k \in Tasks, StartTask(k) \/ CompleteTask(k) \/ ForgetTask(k)
       PROVE  ScanInv'
  <2>1. scan' = scan /\ records' = records /\ faults' = faults /\ processed' \subseteq processed
    BY <1>10 DEF StartTask, CompleteTask, ForgetTask
  <2> QED BY <1>9, <2>1
<1>11. CASE ClearDirtyData \/ UNCHANGED vars
  BY <1>9, <1>11 DEF ClearDirtyData, vars
<1>12. CASE Restart
  <2>1. /\ scan' = [t \in Threads |-> Idle] /\ processed' = {}
        /\ records' = records /\ faults' = faults
    BY <1>12 DEF Restart
  <2>2. \A t \in Threads : scan'[t] = Idle /\ Idle \in Scan /\ Idle.batch = {}
    BY <2>1, IdleFacts
  <2> QED BY <2>1, <2>2 DEF ScanInv, NoLostScan, SkippedIsKept
<1> QED BY <1>1, <1>2, <1>3, <1>4, <1>5, <1>6, <1>7, <1>8, <1>10, <1>11, <1>12 DEF Next, Step

LEMMA InitScan == Init => ScanInv
<1> SUFFICES ASSUME Init PROVE ScanInv
  OBVIOUS
<1>1. (CHOOSE k \in Tasks : TRUE) \in Tasks
  BY InventoryAssumption
<1>2. Idle \in Scan /\ Idle.batch = {}
  BY <1>1 DEF Idle, Scan, Places
<1>3. \A t \in Threads : scan[t] = Idle
  BY DEF Init
<1>4. records \in [Tasks -> [EPCs -> Nat]] /\ processed = {} /\ faults = 0
      /\ scan = [t \in Threads |-> scan[t]]
  BY DEF Init
<1> QED BY <1>2, <1>3, <1>4 DEF ScanInv, NoLostScan, SkippedIsKept

LEMMA ScanHolds == Spec => []ScanInv
<1>1. ScanInv /\ [Next]_vars => ScanInv'
  BY ScanStep
<1> QED BY <1>1, InitScan, PTL DEF Spec

\* As long as no database step has failed, a tag that the idempotency manager skips
\* is recorded or about to be, also across restarts and racing scans.
THEOREM NoLostScanHolds == Spec => []NoLostScan
<1>1. ScanInv => NoLostScan
  BY DEF ScanInv
<1> QED BY <1>1, ScanHolds, PTL

-----------------------------------------------------------------------------
(* Types *)

\* The tables and the marks: what TypeOK says beyond the scans themselves.
TaskRow == [status : {"NONE", "PENDING", "IN_PROGRESS", "COMPLETED"},
            scanned : Nat, found : Nat, missing : Nat, extra : Nat]
TablesOK ==
  /\ task \in [Tasks -> TaskRow]
  /\ dirty \subseteq InvalidEPCs
  /\ processed \subseteq Tasks \X EPCs

\* The counters of a task are counts of finite sets.
LEMMA CountersAreNumbers ==
  ASSUME ScanInv, NEW t \in Threads
  PROVE  /\ Cardinality(scan[t].batch) \in Nat
         /\ Cardinality(Found(t)) \in Nat
         /\ Cardinality(Missing(t)) \in Nat
         /\ Cardinality(Extra(t)) \in Nat
<1>1. scan[t].batch \subseteq EPCs
  BY DEF ScanInv, Scan
<1>2. Found(t) \subseteq EPCs /\ Missing(t) \subseteq EPCs /\ Extra(t) \subseteq EPCs
  BY <1>1, InventoryAssumption DEF Found, Missing, Extra
<1>3. \A S \in SUBSET EPCs : Cardinality(S) \in Nat
  BY InventoryAssumption, FS_Subset, FS_CardinalityType
<1> QED BY <1>1, <1>2, <1>3

LEMMA TablesStep == ScanInv /\ TablesOK /\ [Next]_vars => TablesOK'
<1> SUFFICES ASSUME ScanInv, TablesOK, [Next]_vars PROVE TablesOK'
  OBVIOUS
<1>1. ASSUME UNCHANGED <<task, dirty, processed>> PROVE TablesOK'
  BY <1>1 DEF TablesOK
<1>2. ASSUME NEW t \in Threads, Step(t) PROVE TablesOK'
  <2>1. CASE \E k \in Tasks, counted \in BOOLEAN, epcs \in SUBSET EPCs : Begin(t, k, counted, epcs)
    BY <1>1, <2>1 DEF Begin
  <2>2. CASE RecordDirty(t)
    BY <2>2 DEF RecordDirty, Refused, TablesOK
  <2>3. CASE \E e \in EPCs : LookUp(t, e)
    BY <1>1, <2>3 DEF LookUp
  <2>4. CASE Mark(t)
    <3>1. scan[t].task \in Tasks /\ scan[t].pending \subseteq EPCs
      BY DEF ScanInv, Scan
    <3>2. processed' \subseteq Tasks \X EPCs
      BY <2>4, <3>1 DEF Mark, Marked, TablesOK
    <3> QED BY <2>4, <3>2 DEF Mark, TablesOK
  <2>5. CASE LookedUp(t) \/ NothingToDo(t) \/ Query(t)
    BY <1>1, <2>5 DEF LookedUp, NothingToDo, Query
  <2>6. CASE UpdateTask(t)
    <3> DEFINE row == [status  |-> "IN_PROGRESS",
                       scanned |-> Cardinality(scan[t].batch),
                       found   |-> Cardinality(Found(t)),
                       missing |-> Cardinality(Missing(t)),
                       extra   |-> Cardinality(Extra(t))]
    <3>1. row \in TaskRow
      BY CountersAreNumbers DEF TaskRow
    <3>2. task' = [task EXCEPT ![scan[t].task] = row]
      BY <2>6 DEF UpdateTask, FoundCount
    <3> HIDE DEF row
    <3>3. task' \in [Tasks -> TaskRow]
      BY <3>1, <3>2 DEF TablesOK
    <3> QED BY <2>6, <3>3 DEF UpdateTask, FoundCount, TablesOK
  <2>7. CASE Commit(t) \/ Fail(t)
    BY <1>1, <2>7 DEF Commit, Fail
  <2> QED BY <1>2, <2>1, <2>2, <2>3, <2>4, <2>5, <2>6, <2>7 DEF Step
<1>3. ASSUME NEW k \in Tasks, StartTask(k) \/ CompleteTask(k) \/ ForgetTask(k)
      PROVE  TablesOK'
  <2>1. CASE StartTask(k)
    <3>1. NewTask \in TaskRow
      BY DEF NewTask, NoTask, TaskRow
    <3> QED BY <2>1, <3>1 DEF StartTask, TablesOK
  <2>2. CASE CompleteTask(k)
    <3>1. [task[k] EXCEPT !.status = "COMPLETED"] \in TaskRow
      BY DEF TablesOK, TaskRow
    <3>2. task' = [task EXCEPT ![k] = [task[k] EXCEPT !.status = "COMPLETED"]]
      BY <2>2 DEF CompleteTask
    <3>3. task' \in [Tasks -> TaskRow]
      BY <3>1, <3>2 DEF TablesOK
    <3> QED BY <2>2, <3>3 DEF CompleteTask, TablesOK
  <2>3. CASE ForgetTask(k)
    BY <2>3 DEF ForgetTask, TablesOK
  <2> QED BY <1>3, <2>1, <2>2, <2>3
<1>4. CASE ClearDirtyData \/ Restart
  BY <1>4 DEF ClearDirtyData, Restart, TablesOK
<1>5. CASE UNCHANGED vars
  BY <1>1, <1>5 DEF vars
<1> QED BY <1>2, <1>3, <1>4, <1>5 DEF Next

LEMMA InitTables == Init => TablesOK
<1> SUFFICES ASSUME Init PROVE TablesOK
  OBVIOUS
<1>1. NoTask \in TaskRow
  BY DEF NoTask, TaskRow
<1> QED BY <1>1 DEF Init, TablesOK

\* The types of the tables, the marks and the scans: only invalid EPCs are dirty,
\* only tags of known tasks are marked, and no counter is negative (updateTask).
THEOREM TypesHold == Spec => []TypeOK
<1>1. ScanInv /\ TablesOK => TypeOK
  <2> SUFFICES ASSUME ScanInv, TablesOK PROVE TypeOK
    OBVIOUS
  <2>1. scan \in [Threads -> Scan]
    BY DEF ScanInv
  <2> QED BY <2>1 DEF ScanInv, TablesOK, TaskRow, TypeOK
<1> QED BY <1>1, InitTables, TablesStep, ScanHolds, PTL DEF Spec

-----------------------------------------------------------------------------
(* The counters and the records *)

\* What a task can count on: the tags of assets it has records of, or will have
\* when the scans that hold them commit.
Kept(k) == {e \in AssetEPCs : records[k][e] > 0 \/ InHand(k, e)}

LEMMA KeptFinite == \A k : IsFiniteSet(Kept(k)) /\ Cardinality(Kept(k)) \in Nat
<1> TAKE k
<1>1. Kept(k) \subseteq EPCs
  BY InventoryAssumption DEF Kept
<1>2. IsFiniteSet(Kept(k))
  BY <1>1, InventoryAssumption, FS_Subset
<1> QED BY <1>2, FS_CardinalityType

\* The inductive invariant: the property, and what the scans and tables are.
FoundInv ==
  /\ ScanInv /\ TablesOK
  /\ restarts \in Nat
  /\ faults = 0 /\ restarts = 0 =>
       \A k \in Tasks : task[k].found <= Cardinality(Kept(k))

\* A count stays covered while what covers it grows.
LEMMA FoundKept ==
  ASSUME FoundInv, ScanInv', TablesOK', restarts' \in Nat,
         faults' = 0 /\ restarts' = 0 =>
           /\ faults = 0 /\ restarts = 0
           /\ \A k \in Tasks :
                /\ Kept(k) \subseteq Kept(k)'
                /\ \/ task'[k].found = task[k].found
                   \/ task'[k].found <= Cardinality(Kept(k))
  PROVE  FoundInv'
<1>1. ASSUME faults' = 0, restarts' = 0, NEW k \in Tasks
      PROVE  task'[k].found <= Cardinality(Kept(k)')
  <2>1. task'[k].found <= Cardinality(Kept(k))
    BY <1>1 DEF FoundInv
  <2>2. IsFiniteSet(Kept(k)')
    <3>1. Kept(k)' \subseteq EPCs
      BY InventoryAssumption DEF Kept
    <3> QED BY <3>1, InventoryAssumption, FS_Subset
  <2>3. Kept(k) \subseteq Kept(k)'
    BY <1>1
  <2> DEFINE G == Kept(k)'
  <2>4. Cardinality(Kept(k)) <= Cardinality(G) /\ Cardinality(G) \in Nat
    <3> HIDE DEF G
    <3>1. IsFiniteSet(G) /\ Kept(k) \subseteq G
      BY <2>2, <2>3 DEF G
    <3> QED BY <3>1, FS_Subset, FS_CardinalityType
  <2>5. Cardinality(Kept(k)) \in Nat /\ task'[k].found \in Nat
    BY KeptFinite DEF TablesOK, TaskRow
  <2> HIDE DEF G
  <2>6. task'[k].found <= Cardinality(G)
    BY <2>1, <2>4, <2>5
  <2> QED BY <2>6 DEF G
<1> QED BY <1>1 DEF FoundInv

\* A thread that keeps its batch, or had none, keeps what is in hand.
LEMMA HandGrows ==
  ASSUME ScanInv, NEW t \in Threads, NEW s, scan' = [scan EXCEPT ![t] = s],
         scan[t].batch \subseteq s.batch,
         s.task = scan[t].task \/ scan[t].batch = {},
         records' = records
  PROVE  \A k \in Tasks : Kept(k) \subseteq Kept(k)'
<1>1. /\ scan'[t] = s
      /\ \A u \in Threads : u # t => scan'[u] = scan[u]
  BY DEF ScanInv
<1>2. ASSUME NEW k \in Tasks, NEW e \in AssetEPCs, InHand(k, e) PROVE InHand(k, e)'
  <2>1. PICK u \in Threads : scan[u].task = k /\ e \in scan[u].batch
    BY <1>2 DEF InHand
  <2>2. CASE u = t
    BY <1>1, <2>1, <2>2 DEF InHand
  <2>3. CASE u # t
    BY <1>1, <2>1, <2>3 DEF InHand
  <2> QED BY <2>2, <2>3
<1> QED BY <1>2 DEF Kept

\* The commit turns what the scan had in hand into records.
LEMMA CommitKeeps ==
  ASSUME ScanInv, NEW t \in Threads, Commit(t)
  PROVE  \A k \in Tasks : Kept(k) \subseteq Kept(k)'
<1>1. scan'[t] = Idle /\ \A u \in Threads : u # t => scan'[u] = scan[u]
  BY DEF Commit, Finish, ScanInv
<1>2. ASSUME NEW k \in Tasks, NEW e \in AssetEPCs
      PROVE  /\ records[k][e] > 0 => records'[k][e] > 0
             /\ k = scan[t].task /\ e \in scan[t].batch => records'[k][e] > 0
  <2>1. e \in EPCs /\ records[k][e] \in Nat
    BY InventoryAssumption DEF ScanInv
  <2>2. CASE k = scan[t].task
    <3>1. records'[k][e] = IF e \in Found(t) THEN records[k][e] + 1 ELSE records[k][e]
      BY <2>1, <2>2 DEF Commit, Recorded, ScanInv
    <3> QED BY <2>1, <3>1 DEF Found
  <2>3. CASE k # scan[t].task
    BY <2>1, <2>3 DEF Commit, Recorded, ScanInv
  <2> QED BY <2>2, <2>3
<1>3. ASSUME NEW k \in Tasks, NEW e \in AssetEPCs, InHand(k, e)
      PROVE  records'[k][e] > 0 \/ InHand(k, e)'
  <2>1. PICK u \in Threads : scan[u].task = k /\ e \in scan[u].batch
    BY <1>3 DEF InHand
  <2>2. CASE u = t
    BY <1>2, <2>1, <2>2
  <2>3. CASE u # t
    BY <1>1, <2>1, <2>3 DEF InHand
  <2> QED BY <2>2, <2>3
<1> QED BY <1>2, <1>3 DEF Kept

LEMMA FoundStep == FoundInv /\ [Next]_vars => FoundInv'
<1> SUFFICES ASSUME FoundInv, [Next]_vars PROVE FoundInv'
  OBVIOUS
<1>0. ScanInv /\ TablesOK /\ ScanInv' /\ TablesOK'
  BY ScanStep, TablesStep DEF FoundInv
<1>1. faults \in Nat /\ restarts \in Nat
  BY DEF FoundInv, ScanInv
\* A thread goes on with its scan; the task keeps its count or gets one that
\* is covered.
<1>2. ASSUME NEW t \in Threads, NEW s, scan' = [scan EXCEPT ![t] = s],
             scan[t].batch \subseteq s.batch,
             s.task = scan[t].task \/ scan[t].batch = {},
             records' = records, restarts' = restarts, faults' = 0 => faults = 0,
             \A k \in Tasks : \/ task'[k].found = task[k].found
                              \/ task'[k].found <= Cardinality(Kept(k))
      PROVE  FoundInv'
  <2>1. \A k \in Tasks : Kept(k) \subseteq Kept(k)'
    BY <1>0, <1>2, HandGrows
  <2> QED BY <1>0, <1>1, <1>2, <2>1, FoundKept
<1>3. ASSUME NEW t \in Threads, NEW k \in Tasks, NEW counted \in BOOLEAN,
             NEW epcs \in SUBSET EPCs, Begin(t, k, counted, epcs)
      PROVE  FoundInv'
  <2> DEFINE s == [pc |-> "dirty", task |-> k, counted |-> counted,
                   todo |-> epcs, pending |-> {}, batch |-> {}]
  <2>1. scan[t].batch = {}
    BY <1>0, <1>3 DEF Begin, At, ScanInv
  <2>2. scan' = [scan EXCEPT ![t] = s] /\ UNCHANGED <<task, records, restarts, faults>>
    BY <1>3, Zenon DEF Begin
  <2> HIDE DEF s
  <2> QED BY <1>2, <2>1, <2>2
<1>4. ASSUME NEW t \in Threads, RecordDirty(t) PROVE FoundInv'
  <2> DEFINE s == [scan[t] EXCEPT !.pc = "lookup", !.todo = @ \ InvalidEPCs]
  <2>1. scan[t] \in Scan
    BY <1>0 DEF ScanInv
  <2>2. s.task = scan[t].task /\ s.batch = scan[t].batch
    BY <2>1 DEF Scan
  <2>3. scan' = [scan EXCEPT ![t] = s]
    BY <1>0, <1>4 DEF RecordDirty, ScanInv
  <2>4. UNCHANGED <<task, records, restarts>> /\ (faults' = 0 => faults = 0)
    BY <1>1, <1>4 DEF RecordDirty
  <2> HIDE DEF s
  <2> QED BY <1>2, <2>2, <2>3, <2>4
<1>5. ASSUME NEW t \in Threads, NEW e \in EPCs, LookUp(t, e) PROVE FoundInv'
  <2> DEFINE p == IF <<scan[t].task, e>> \in processed THEN {} ELSE {e}
             s == [scan[t] EXCEPT !.todo = @ \ {e}, !.pending = p]
  <2>1. scan[t] \in Scan
    BY <1>0 DEF ScanInv
  <2>2. s.task = scan[t].task /\ s.batch = scan[t].batch
    <3> HIDE DEF p
    <3> QED BY <2>1 DEF Scan
  <2>3. scan' = [scan EXCEPT ![t] = s]
    BY <1>0, <1>5 DEF LookUp, ScanInv
  <2>4. UNCHANGED <<task, records, restarts, faults>>
    BY <1>5 DEF LookUp
  <2> HIDE DEF s
  <2> QED BY <1>2, <2>2, <2>3, <2>4
<1>6. ASSUME NEW t \in Threads, Mark(t) PROVE FoundInv'
  <2> DEFINE s == [scan[t] EXCEPT !.pending = {}, !.batch = Collected(t)]
  <2>1. scan[t] \in Scan
    BY <1>0 DEF ScanInv
  <2>2. s.task = scan[t].task /\ scan[t].batch \subseteq s.batch
    BY <2>1 DEF Scan, Collected
  <2>3. scan' = [scan EXCEPT ![t] = s]
    BY <1>0, <1>6 DEF Mark, ScanInv
  <2>4. UNCHANGED <<task, records, restarts, faults>>
    BY <1>6 DEF Mark
  <2> HIDE DEF s
  <2> QED BY <1>2, <2>2, <2>3, <2>4
<1>7. ASSUME NEW t \in Threads, LookedUp(t) \/ Query(t) \/ UpdateTask(t) PROVE FoundInv'
  <2>1. PICK pc : scan' = [scan EXCEPT ![t].pc = pc]
    BY <1>7 DEF LookedUp, Query, UpdateTask
  <2> DEFINE s == [scan[t] EXCEPT !.pc = pc]
  <2>2. scan[t] \in Scan
    BY <1>0 DEF ScanInv
  <2>3. s.task = scan[t].task /\ s.batch = scan[t].batch
    BY <2>2 DEF Scan
  <2>4. scan' = [scan EXCEPT ![t] = s]
    BY <1>0, <2>1 DEF ScanInv
  <2>5. UNCHANGED <<records, restarts, faults>>
    BY <1>7 DEF LookedUp, Query, UpdateTask
  <2>6. ASSUME NEW k \in Tasks
        PROVE  task'[k].found = task[k].found \/ task'[k].found <= Cardinality(Kept(k))
    <3>1. CASE UNCHANGED task
      BY <3>1
    <3>2. CASE UpdateTask(t) /\ k # scan[t].task
      BY <1>0, <3>2 DEF UpdateTask, FoundCount, TablesOK
    <3>3. CASE UpdateTask(t) /\ k = scan[t].task
      <4>1. task'[k].found = Cardinality(Found(t))
        BY <1>0, <3>3 DEF UpdateTask, FoundCount, TablesOK
      <4>2. Found(t) \subseteq Kept(k)
        BY <3>3 DEF Found, Kept, InHand
      <4>3. Cardinality(Found(t)) <= Cardinality(Kept(k))
        BY <4>2, KeptFinite, FS_Subset
      <4> QED BY <4>1, <4>3
    <3> QED BY <1>7, <3>1, <3>2, <3>3 DEF LookedUp, Query
  <2> HIDE DEF s
  <2> QED BY <1>2, <2>3, <2>4, <2>5, <2>6
<1>8. ASSUME NEW t \in Threads, NothingToDo(t) PROVE FoundInv'
  <2>1. /\ scan' = [scan EXCEPT ![t] = Idle] /\ scan[t].batch = {}
        /\ UNCHANGED <<task, records, restarts, faults>>
    BY <1>8 DEF NothingToDo, Finish
  <2>2. scan[t].batch \subseteq Idle.batch
    BY <2>1
  <2> QED BY <1>2, <2>1, <2>2
<1>9. ASSUME NEW t \in Threads, Commit(t) PROVE FoundInv'
  <2>1. \A k \in Tasks : Kept(k) \subseteq Kept(k)'
    BY <1>0, <1>9, CommitKeeps
  <2>2. UNCHANGED <<task, restarts, faults>>
    BY <1>9 DEF Commit
  <2> QED BY <1>0, <1>1, <2>1, <2>2, FoundKept
<1>10. ASSUME NEW t \in Threads, Fail(t) PROVE FoundInv'
  <2>1. faults' # 0 /\ restarts' \in Nat
    BY <1>1, <1>10 DEF Fail
  <2> QED BY <1>0, <2>1 DEF FoundInv
<1>11. ASSUME UNCHANGED <<scan, records, restarts, faults>>,
              \A k \in Tasks : \/ task'[k].found = task[k].found
                               \/ task'[k].found = 0
       PROVE  FoundInv'
  <2>1. \A k \in Tasks : Kept(k)' = Kept(k)
    BY <1>11 DEF Kept, InHand
  <2>2. \A k \in Tasks : task'[k].found = 0 => task'[k].found <= Cardinality(Kept(k))
    BY KeptFinite
  <2> QED BY <1>0, <1>1, <1>11, <2>1, <2>2, FoundKept
<1>12. ASSUME NEW k \in Tasks, StartTask(k) \/ CompleteTask(k) \/ ForgetTask(k)
       PROVE  FoundInv'
  <2>1. UNCHANGED <<scan, records, restarts, faults>>
    BY <1>12 DEF StartTask, CompleteTask, ForgetTask
  <2>2. ASSUME NEW j \in Tasks
        PROVE  task'[j].found = task[j].found \/ task'[j].found = 0
    <3>1. CASE StartTask(k)
      BY <1>0, <3>1 DEF StartTask, TablesOK, NewTask, NoTask
    <3>2. CASE CompleteTask(k)
      BY <1>0, <3>2 DEF CompleteTask, TablesOK, TaskRow
    <3>3. CASE ForgetTask(k)
      BY <3>3 DEF ForgetTask
    <3> QED BY <1>12, <3>1, <3>2, <3>3
  <2> QED BY <1>11, <2>1, <2>2
<1>13. CASE ClearDirtyData \/ UNCHANGED vars
  BY <1>11, <1>13 DEF ClearDirtyData, vars
<1>14. CASE Restart
  <2>1. restarts' \in Nat /\ restarts' # 0
    BY <1>1, <1>14 DEF Restart
  <2> QED BY <1>0, <2>1 DEF FoundInv
<1> QED
  BY <1>3, <1>4, <1>5, <1>6, <1>7, <1>8, <1>9, <1>10, <1>12, <1>13, <1>14 DEF Next, Step

\* The tags a task counts as found have scan records, or a scan that is about
\* to commit holds them, as long as no step fails and the server does not crash:
\* whatever scans of a task run at once, and for every number of tags.
THEOREM FoundIsRecordedHolds == Spec => []FoundIsRecorded
<1>1. Init => restarts \in Nat /\ (faults = 0 /\ restarts = 0 =>
                  \A k \in Tasks : task[k].found <= Cardinality(Kept(k)))
  BY KeptFinite DEF Init, NoTask
<1>2. Init => FoundInv
  BY <1>1, InitScan, InitTables DEF FoundInv
<1>3. FoundInv => FoundIsRecorded
  BY DEF FoundInv, FoundIsRecorded, Kept
<1> QED BY <1>2, <1>3, FoundStep, PTL DEF Spec

-----------------------------------------------------------------------------
(* How often a tag is counted *)

\* A scan that has tag e of task k in its batch, and one that has found it
\* unprocessed and not marked it yet.
Has(s, k, e)   == s.task = k /\ e \in s.batch
Wants(s, k, e) == s.task = k /\ e \in s.pending
Having(k, e)   == {t \in Threads : Has(scan[t], k, e)}
Wanting(k, e)  == {t \in Threads : Wants(scan[t], k, e)}

\* What the lives before this one, and before the last forgetting, can have
\* counted.
Spent == Cardinality(Threads) * (restarts + forgets)

\* Once a tag is marked, only the threads that looked it up before can still
\* count it; as long as it is not, nobody has counted it since the marks were
\* last forgotten.
Tally(k, e) ==
  IF <<k, e>> \in processed
  THEN records[k][e] + Cardinality(Having(k, e)) + Cardinality(Wanting(k, e))
         <= Spent + Cardinality(Threads)
  ELSE records[k][e] + Cardinality(Having(k, e)) <= Spent

TallyInv ==
  /\ ScanInv
  /\ restarts \in Nat /\ forgets \in Nat
  /\ \A k \in Tasks, e \in EPCs : Tally(k, e)

LEMMA ThreadCounts ==
  /\ Cardinality(Threads) \in Nat
  /\ \A S \in SUBSET Threads :
       IsFiniteSet(S) /\ Cardinality(S) \in Nat /\ Cardinality(S) <= Cardinality(Threads)
BY InventoryAssumption, FS_Subset, FS_CardinalityType

LEMMA SpentFacts ==
  ASSUME restarts \in Nat, forgets \in Nat
  PROVE  /\ Spent \in Nat
         /\ Cardinality(Threads) * (1 + restarts + forgets) = Spent + Cardinality(Threads)
         /\ Cardinality(Threads) * (restarts + (forgets + 1)) = Spent + Cardinality(Threads)
         /\ Cardinality(Threads) * ((restarts + 1) + forgets) = Spent + Cardinality(Threads)
<1>1. Cardinality(Threads) \in Nat
  BY ThreadCounts
<1>2. \A n, m \in Nat : n * m \in Nat /\ n * (m + 1) = n * m + n
  OBVIOUS
<1>3. /\ restarts + forgets \in Nat
      /\ 1 + restarts + forgets = (restarts + forgets) + 1
      /\ restarts + (forgets + 1) = (restarts + forgets) + 1
      /\ (restarts + 1) + forgets = (restarts + forgets) + 1
  OBVIOUS
<1> QED BY <1>1, <1>2, <1>3 DEF Spent

\* When a thread moves from one scan to another, what the others hold stays: the
\* two sets change by that thread at most.
LEMMA HandsMove ==
  ASSUME ScanInv, NEW t \in Threads, NEW s, scan' = [scan EXCEPT ![t] = s],
         NEW k, NEW e
  PROVE  /\ Having(k, e)' = IF Has(s, k, e) THEN Having(k, e) \cup {t}
                                            ELSE Having(k, e) \ {t}
         /\ Wanting(k, e)' = IF Wants(s, k, e) THEN Wanting(k, e) \cup {t}
                                               ELSE Wanting(k, e) \ {t}
         /\ t \in Having(k, e) <=> Has(scan[t], k, e)
         /\ t \in Wanting(k, e) <=> Wants(scan[t], k, e)
<1>1. scan'[t] = s /\ \A u \in Threads : u # t => scan'[u] = scan[u]
  BY DEF ScanInv
<1>2. \A u : u \in Having(k, e) <=> u \in Threads /\ Has(scan[u], k, e)
  BY DEF Having
<1>3. \A u : u \in Having(k, e)' <=> u \in Threads /\ Has(scan'[u], k, e)
  BY DEF Having, Has
<1>4. \A u : u \in Wanting(k, e) <=> u \in Threads /\ Wants(scan[u], k, e)
  BY DEF Wanting
<1>5. \A u : u \in Wanting(k, e)' <=> u \in Threads /\ Wants(scan'[u], k, e)
  BY DEF Wanting, Wants
<1> QED BY <1>1, <1>2, <1>3, <1>4, <1>5

\* A smaller tally against a bound that is not smaller.
LEMMA TallyShrinks ==
  ASSUME TallyInv, NEW k \in Tasks, NEW e \in EPCs,
         records'[k][e] = records[k][e], processed' = processed,
         UNCHANGED <<restarts, forgets>>,
         Having(k, e)' \subseteq Having(k, e),
         <<k, e>> \in processed => Wanting(k, e)' \subseteq Wanting(k, e)
  PROVE  Tally(k, e)'
<1> DEFINE H == Having(k, e)'
           W == Wanting(k, e)'
<1>1. Spent' = Spent /\ Spent \in Nat
  BY SpentFacts DEF TallyInv, Spent
<1>2. Having(k, e) \in SUBSET Threads /\ Wanting(k, e) \in SUBSET Threads
  BY DEF Having, Wanting
<1>3. H \in SUBSET Threads /\ W \in SUBSET Threads
  BY DEF Having, Wanting
<1>4. records[k][e] \in Nat /\ Tally(k, e)
  BY DEF TallyInv, ScanInv
<1>5. /\ H \subseteq Having(k, e)
      /\ <<k, e>> \in processed => W \subseteq Wanting(k, e)
  OBVIOUS
<1>6. Tally(k, e)' <=>
        IF <<k, e>> \in processed
        THEN records[k][e] + Cardinality(H) + Cardinality(W) <= Spent + Cardinality(Threads)
        ELSE records[k][e] + Cardinality(H) <= Spent
  BY <1>1 DEF Tally
<1> HIDE DEF H, W
<1>7. Cardinality(H) <= Cardinality(Having(k, e))
  BY <1>2, <1>5, ThreadCounts, FS_Subset
<1>8. <<k, e>> \in processed => Cardinality(W) <= Cardinality(Wanting(k, e))
  BY <1>2, <1>5, ThreadCounts, FS_Subset
<1>9. /\ Cardinality(H) \in Nat /\ Cardinality(W) \in Nat
      /\ Cardinality(Having(k, e)) \in Nat /\ Cardinality(Wanting(k, e)) \in Nat
      /\ Cardinality(Threads) \in Nat
  BY <1>2, <1>3, ThreadCounts
<1> QED BY <1>1, <1>4, <1>6, <1>7, <1>8, <1>9 DEF Tally

\* A thread that puts nothing into its batch, and wants only what is not marked.
LEMMA TallyMove ==
  ASSUME TallyInv, ScanInv', NEW t \in Threads, NEW s, scan' = [scan EXCEPT ![t] = s],
         \A k \in Tasks, e \in EPCs : Has(s, k, e) => Has(scan[t], k, e),
         \A k \in Tasks, e \in EPCs :
           Wants(s, k, e) /\ <<k, e>> \in processed => Wants(scan[t], k, e),
         records' = records, processed' = processed, UNCHANGED <<restarts, forgets>>
  PROVE  TallyInv'
<1>1. ASSUME NEW k \in Tasks, NEW e \in EPCs PROVE Tally(k, e)'
  <2>1. /\ Having(k, e)' = IF Has(s, k, e) THEN Having(k, e) \cup {t}
                                           ELSE Having(k, e) \ {t}
        /\ Wanting(k, e)' = IF Wants(s, k, e) THEN Wanting(k, e) \cup {t}
                                              ELSE Wanting(k, e) \ {t}
        /\ t \in Having(k, e) <=> Has(scan[t], k, e)
        /\ t \in Wanting(k, e) <=> Wants(scan[t], k, e)
    BY HandsMove DEF TallyInv
  <2>2. Having(k, e)' \subseteq Having(k, e)
    BY <2>1
  <2>3. <<k, e>> \in processed => Wanting(k, e)' \subseteq Wanting(k, e)
    BY <2>1
  <2> QED BY <2>2, <2>3, TallyShrinks
<1> QED BY <1>1 DEF TallyInv

\* The tag a thread wanted goes into its batch, and is marked.
LEMMA TallyMark ==
  ASSUME TallyInv, ScanInv', NEW t \in Threads, Mark(t)
  PROVE  TallyInv'
<1> DEFINE s == [scan[t] EXCEPT !.pending = {}, !.batch = Collected(t)]
<1>1. scan[t] \in Scan
  BY DEF TallyInv, ScanInv
<1>2. s.task = scan[t].task /\ s.pending = {} /\ s.batch = scan[t].batch \cup scan[t].pending
  BY <1>1 DEF Scan, Collected
<1>3. scan' = [scan EXCEPT ![t] = s]
  BY DEF Mark, TallyInv, ScanInv
<1>4. UNCHANGED <<records, restarts, forgets>>
  BY DEF Mark
<1>5. processed' = processed \cup {<<scan[t].task, f>> : f \in scan[t].pending}
  BY DEF Mark, Marked
<1> HIDE DEF s
<1>6. ASSUME NEW k \in Tasks, NEW e \in EPCs PROVE Tally(k, e)'
  <2> DEFINE H == Having(k, e)'
             W == Wanting(k, e)'
  <2>1. /\ H = IF Has(s, k, e) THEN Having(k, e) \cup {t} ELSE Having(k, e) \ {t}
        /\ W = IF Wants(s, k, e) THEN Wanting(k, e) \cup {t} ELSE Wanting(k, e) \ {t}
        /\ t \in Having(k, e) <=> Has(scan[t], k, e)
        /\ t \in Wanting(k, e) <=> Wants(scan[t], k, e)
    BY <1>3, HandsMove DEF TallyInv
  <2>2. W = Wanting(k, e) \ {t}
    BY <1>2, <2>1 DEF Wants
  <2>3. Spent' = Spent /\ Spent \in Nat /\ records[k][e] \in Nat /\ Tally(k, e)
    BY <1>4, SpentFacts DEF TallyInv, Spent, ScanInv
  <2>4. Having(k, e) \in SUBSET Threads /\ Wanting(k, e) \in SUBSET Threads
    BY DEF Having, Wanting
  <2>5. <<k, e>> \in processed' <=> <<k, e>> \in processed \/ Wants(scan[t], k, e)
    BY <1>5 DEF Wants
  <2>6. CASE ~Wants(scan[t], k, e)
    <3>1. Has(s, k, e) <=> Has(scan[t], k, e)
      BY <1>2, <2>6 DEF Has, Wants
    <3>2. Having(k, e)' = Having(k, e) /\ Wanting(k, e)' = Wanting(k, e)
      BY <2>1, <2>2, <2>6, <3>1
    <3>3. <<k, e>> \in processed' <=> <<k, e>> \in processed
      BY <2>5, <2>6
    <3> QED BY <1>4, <2>3, <3>2, <3>3 DEF Tally
  <2>7. CASE Wants(scan[t], k, e)
    <3>1. H = Having(k, e) \cup {t} /\ t \in Wanting(k, e)
      BY <1>2, <2>1, <2>7 DEF Has, Wants
    <3>2. Tally(k, e)' <=>
            records[k][e] + Cardinality(H) + Cardinality(W) <= Spent + Cardinality(Threads)
      BY <1>4, <2>3, <2>5, <2>7 DEF Tally
    <3> HIDE DEF H, W
    <3>3. Cardinality(W) = Cardinality(Wanting(k, e)) - 1
      BY <2>2, <2>4, <3>1, ThreadCounts, FS_RemoveElement
    <3>4. Cardinality(H) <= Cardinality(Having(k, e)) + 1 /\ Cardinality(H) \in Nat
      <4>1. CASE t \in Having(k, e)
        <5>1. H = Having(k, e)
          BY <3>1, <4>1
        <5> QED BY <2>4, <5>1, ThreadCounts
      <4>2. CASE t \notin Having(k, e)
        <5>1. Cardinality(H) = Cardinality(Having(k, e)) + 1
          BY <2>4, <3>1, <4>2, ThreadCounts, FS_AddElement
        <5> QED BY <2>4, <5>1, ThreadCounts
      <4> QED BY <4>1, <4>2
    <3>5. /\ Cardinality(Having(k, e)) \in Nat
          /\ Cardinality(Wanting(k, e)) \in Nat
          /\ Cardinality(Wanting(k, e)) <= Cardinality(Threads)
          /\ Cardinality(Threads) \in Nat
      BY <2>4, ThreadCounts
    <3>6. records[k][e] + Cardinality(H) + Cardinality(W) <= Spent + Cardinality(Threads)
      BY <2>3, <3>3, <3>4, <3>5 DEF Tally
    <3> QED BY <3>2, <3>6
  <2> QED BY <2>6, <2>7
<1>7. restarts' \in Nat /\ forgets' \in Nat
  BY <1>4 DEF TallyInv
<1> QED BY <1>6, <1>7 DEF TallyInv

\* What is committed is no longer in the batch.
LEMMA TallyCommit ==
  ASSUME TallyInv, ScanInv', NEW t \in Threads, Commit(t)
  PROVE  TallyInv'
<1>1. /\ scan' = [scan EXCEPT ![t] = Idle] /\ records' = Recorded(t)
      /\ UNCHANGED <<processed, restarts, forgets>>
  BY DEF Commit, Finish
<1>2. Idle.batch = {} /\ Idle.pending = {}
  BY DEF Idle
<1>3. ASSUME NEW k \in Tasks, NEW e \in EPCs PROVE Tally(k, e)'
  <2> DEFINE H == Having(k, e)'
             W == Wanting(k, e)'
  <2>1. /\ H = IF Has(Idle, k, e) THEN Having(k, e) \cup {t} ELSE Having(k, e) \ {t}
        /\ W = IF Wants(Idle, k, e) THEN Wanting(k, e) \cup {t} ELSE Wanting(k, e) \ {t}
        /\ t \in Having(k, e) <=> Has(scan[t], k, e)
    BY <1>1, HandsMove DEF TallyInv
  <2>2. H = Having(k, e) \ {t} /\ W = Wanting(k, e) \ {t}
    BY <1>2, <2>1 DEF Has, Wants
  <2>3. Spent' = Spent /\ Spent \in Nat /\ records[k][e] \in Nat /\ Tally(k, e)
    BY <1>1, SpentFacts DEF TallyInv, Spent, ScanInv
  <2>4. Having(k, e) \in SUBSET Threads /\ Wanting(k, e) \in SUBSET Threads
    BY DEF Having, Wanting
  <2>5. \/ records'[k][e] = records[k][e]
        \/ records'[k][e] = records[k][e] + 1 /\ Has(scan[t], k, e)
    <3>1. CASE k = scan[t].task
      <4>1. records'[k][e] = IF e \in Found(t) THEN records[k][e] + 1 ELSE records[k][e]
        BY <1>1, <3>1 DEF Recorded, TallyInv, ScanInv
      <4> QED BY <3>1, <4>1 DEF Found, Has
    <3>2. CASE k # scan[t].task
      BY <1>1, <3>2 DEF Recorded, TallyInv, ScanInv
    <3> QED BY <3>1, <3>2
  <2>6. CASE records'[k][e] = records[k][e]
    BY <1>1, <2>2, <2>6, TallyShrinks
  <2>7. CASE records'[k][e] = records[k][e] + 1 /\ Has(scan[t], k, e)
    <3>1. Tally(k, e)' <=>
            IF <<k, e>> \in processed
            THEN records[k][e] + 1 + Cardinality(H) + Cardinality(W) <= Spent + Cardinality(Threads)
            ELSE records[k][e] + 1 + Cardinality(H) <= Spent
      BY <1>1, <2>3, <2>7 DEF Tally
    <3> HIDE DEF H, W
    <3>2. Cardinality(H) = Cardinality(Having(k, e)) - 1 /\ Cardinality(H) \in Nat
      BY <2>1, <2>2, <2>4, <2>7, ThreadCounts, FS_RemoveElement, FS_CardinalityType
    <3>3. Cardinality(W) <= Cardinality(Wanting(k, e)) /\ Cardinality(W) \in Nat
      <4>1. W \subseteq Wanting(k, e) /\ W \in SUBSET Threads
        BY <2>2, <2>4
      <4> QED BY <2>4, <4>1, ThreadCounts, FS_Subset
    <3>4. /\ Cardinality(Having(k, e)) \in Nat /\ Cardinality(Wanting(k, e)) \in Nat
          /\ Cardinality(Threads) \in Nat
      BY <2>4, ThreadCounts
    <3> QED BY <2>3, <3>1, <3>2, <3>3, <3>4 DEF Tally
  <2> QED BY <2>5, <2>6, <2>7
<1>4. restarts' \in Nat /\ forgets' \in Nat
  BY <1>1 DEF TallyInv
<1> QED BY <1>3, <1>4 DEF TallyInv

\* Forgetting marks, and a new life, raise the bound by a count per thread.
LEMMA TallyForget ==
  ASSUME TallyInv, ScanInv', NEW S, processed' = processed \ S,
         UNCHANGED <<scan, records, restarts>>, forgets' = forgets + 1
  PROVE  TallyInv'
<1>1. Spent' = Spent + Cardinality(Threads)
  BY SpentFacts DEF TallyInv, Spent
<1>2. Spent \in Nat
  BY SpentFacts DEF TallyInv
<1>3. ASSUME NEW k \in Tasks, NEW e \in EPCs PROVE Tally(k, e)'
  <2>1. Having(k, e)' = Having(k, e) /\ Wanting(k, e)' = Wanting(k, e)
    BY DEF Having, Wanting
  <2>2. Having(k, e) \in SUBSET Threads /\ Wanting(k, e) \in SUBSET Threads
    BY DEF Having, Wanting
  <2>3. /\ Cardinality(Having(k, e)) \in Nat /\ Cardinality(Wanting(k, e)) \in Nat
        /\ Cardinality(Wanting(k, e)) <= Cardinality(Threads)
        /\ Cardinality(Threads) \in Nat
    BY <2>2, ThreadCounts
  <2>4. records[k][e] \in Nat /\ Tally(k, e)
    BY DEF TallyInv, ScanInv
  <2>5. Tally(k, e)' <=>
          IF <<k, e>> \in processed'
          THEN records[k][e] + Cardinality(Having(k, e)) + Cardinality(Wanting(k, e))
                 <= (Spent + Cardinality(Threads)) + Cardinality(Threads)
          ELSE records[k][e] + Cardinality(Having(k, e)) <= Spent + Cardinality(Threads)
    BY <1>1, <2>1 DEF Tally
  <2> QED BY <1>2, <2>3, <2>4, <2>5 DEF Tally
<1>4. restarts' \in Nat /\ forgets' \in Nat
  BY DEF TallyInv
<1> QED BY <1>3, <1>4 DEF TallyInv

LEMMA TallyRestart ==
  ASSUME TallyInv, ScanInv', Restart
  PROVE  TallyInv'
<1>1. Spent' = Spent + Cardinality(Threads)
  BY SpentFacts DEF TallyInv, Spent, Restart
<1>2. Spent \in Nat
  BY SpentFacts DEF TallyInv
<1>3. ASSUME NEW k \in Tasks, NEW e \in EPCs PROVE Tally(k, e)'
  <2>1. \A t \in Threads : scan'[t] = Idle /\ Idle.batch = {}
    BY DEF Restart, Idle
  <2>2. Having(k, e)' = {}
    BY <2>1 DEF Having, Has
  <2>3. /\ Cardinality(Having(k, e)) \in Nat /\ Cardinality(Wanting(k, e)) \in Nat
        /\ Cardinality(Threads) \in Nat
    BY ThreadCounts DEF Having, Wanting
  <2>4. records[k][e] \in Nat /\ Tally(k, e)
    BY DEF TallyInv, ScanInv
  <2>5. processed' = {} /\ records' = records
    BY DEF Restart
  <2>6. Tally(k, e)' <=> records[k][e] + 0 <= Spent + Cardinality(Threads)
    BY <1>1, <2>2, <2>5, FS_EmptySet DEF Tally
  <2> QED BY <1>2, <2>3, <2>4, <2>6 DEF Tally
<1>4. restarts' \in Nat /\ forgets' \in Nat
  BY DEF TallyInv, Restart
<1> QED BY <1>3, <1>4 DEF TallyInv

LEMMA TallyStep == TallyInv /\ [Next]_vars => TallyInv'
<1> SUFFICES ASSUME TallyInv, [Next]_vars PROVE TallyInv'
  OBVIOUS
<1>0. ScanInv /\ ScanInv'
  BY ScanStep DEF TallyInv
<1>1. ASSUME NEW t \in Threads, NEW k \in Tasks, NEW counted \in BOOLEAN,
             NEW epcs \in SUBSET EPCs, Begin(t, k, counted, epcs)
      PROVE  TallyInv'
  <2> DEFINE s == [pc |-> "dirty", task |-> k, counted |-> counted,
                   todo |-> epcs, pending |-> {}, batch |-> {}]
  <2>1. s.batch = {} /\ s.pending = {}
    OBVIOUS
  <2>2. scan' = [scan EXCEPT ![t] = s] /\ UNCHANGED <<records, processed, restarts, forgets>>
    BY <1>1, Zenon DEF Begin
  <2> HIDE DEF s
  <2> QED BY <1>0, <2>1, <2>2, TallyMove DEF Has, Wants
<1>2. ASSUME NEW t \in Threads, RecordDirty(t) PROVE TallyInv'
  <2> DEFINE s == [scan[t] EXCEPT !.pc = "lookup", !.todo = @ \ InvalidEPCs]
  <2>1. scan[t] \in Scan
    BY <1>0 DEF ScanInv
  <2>2. s.task = scan[t].task /\ s.batch = scan[t].batch /\ s.pending = scan[t].pending
    BY <2>1 DEF Scan
  <2>3. scan' = [scan EXCEPT ![t] = s]
    BY <1>0, <1>2 DEF RecordDirty, ScanInv
  <2>4. UNCHANGED <<records, processed, restarts, forgets>>
    BY <1>2 DEF RecordDirty
  <2> HIDE DEF s
  <2> QED BY <1>0, <2>2, <2>3, <2>4, TallyMove DEF Has, Wants
<1>3. ASSUME NEW t \in Threads, NEW e \in EPCs, LookUp(t, e) PROVE TallyInv'
  <2> DEFINE p == IF <<scan[t].task, e>> \in processed THEN {} ELSE {e}
             s == [scan[t] EXCEPT !.todo = @ \ {e}, !.pending = p]
  <2>1. scan[t] \in Scan
    BY <1>0 DEF ScanInv
  <2>2. s.task = scan[t].task /\ s.batch = scan[t].batch /\ s.pending = p
    <3> HIDE DEF p
    <3> QED BY <2>1 DEF Scan
  <2>3. scan' = [scan EXCEPT ![t] = s]
    BY <1>0, <1>3 DEF LookUp, ScanInv
  <2>4. UNCHANGED <<records, processed, restarts, forgets>>
    BY <1>3 DEF LookUp
  <2> HIDE DEF s
  <2>5. \A k \in Tasks, f \in EPCs : Has(s, k, f) => Has(scan[t], k, f)
    BY <2>2 DEF Has
  <2>6. \A k \in Tasks, f \in EPCs : Wants(s, k, f) => <<k, f>> \notin processed
    BY <2>2 DEF Wants
  <2> QED BY <1>0, <2>3, <2>4, <2>5, <2>6, TallyMove
<1>4. ASSUME NEW t \in Threads, LookedUp(t) \/ Query(t) \/ UpdateTask(t) PROVE TallyInv'
  <2>1. PICK pc : scan' = [scan EXCEPT ![t].pc = pc]
    BY <1>4 DEF LookedUp, Query, UpdateTask
  <2> DEFINE s == [scan[t] EXCEPT !.pc = pc]
  <2>2. scan[t] \in Scan
    BY <1>0 DEF ScanInv
  <2>3. s.task = scan[t].task /\ s.batch = scan[t].batch /\ s.pending = scan[t].pending
    BY <2>2 DEF Scan
  <2>4. scan' = [scan EXCEPT ![t] = s]
    BY <1>0, <2>1 DEF ScanInv
  <2>5. UNCHANGED <<records, processed, restarts, forgets>>
    BY <1>4 DEF LookedUp, Query, UpdateTask
  <2> HIDE DEF s
  <2> QED BY <1>0, <2>3, <2>4, <2>5, TallyMove DEF Has, Wants
<1>5. ASSUME NEW t \in Threads, NothingToDo(t) \/ Fail(t) PROVE TallyInv'
  <2>1. Idle.batch = {} /\ Idle.pending = {}
    BY DEF Idle
  <2>2. scan' = [scan EXCEPT ![t] = Idle] /\ UNCHANGED <<records, processed, restarts, forgets>>
    BY <1>5 DEF NothingToDo, Fail, Finish
  <2> QED BY <1>0, <2>1, <2>2, TallyMove DEF Has, Wants
<1>6. ASSUME NEW t \in Threads, Mark(t) \/ Commit(t) PROVE TallyInv'
  BY <1>0, <1>6, TallyMark, TallyCommit
<1>7. ASSUME UNCHANGED <<scan, records, processed, restarts, forgets>> PROVE TallyInv'
  <2>1. \A k, e : Having(k, e)' = Having(k, e) /\ Wanting(k, e)' = Wanting(k, e)
    BY <1>7 DEF Having, Wanting
  <2>2. \A k \in Tasks, e \in EPCs : Tally(k, e)'
    BY <1>7, <2>1, TallyShrinks
  <2> QED BY <1>0, <1>7, <2>2 DEF TallyInv
<1>8. ASSUME NEW k \in Tasks, StartTask(k) \/ CompleteTask(k) PROVE TallyInv'
  BY <1>7, <1>8 DEF StartTask, CompleteTask
<1>9. ASSUME NEW k \in Tasks, ForgetTask(k) PROVE TallyInv'
  BY <1>0, <1>9, TallyForget DEF ForgetTask
<1>10. CASE ClearDirtyData \/ UNCHANGED vars
  BY <1>7, <1>10 DEF ClearDirtyData, vars
<1>11. CASE Restart
  BY <1>0, <1>11, TallyRestart
<1> QED
  BY <1>1, <1>2, <1>3, <1>4, <1>5, <1>6, <1>8, <1>9, <1>10, <1>11 DEF Next, Step

\* A tag is counted at most once per scanning thread in each life of the marks:
\* however many threads race between isProcessed and markProcessed, however often
\* a tag is read, and whatever database step fails.
THEOREM CountedOncePerThreadHolds == Spec => []CountedOncePerThread
<1>1. Init => TallyInv
  <2> SUFFICES ASSUME Init PROVE TallyInv
    OBVIOUS
  <2>1. ScanInv /\ restarts = 0 /\ forgets = 0 /\ processed = {}
    BY InitScan DEF Init
  <2>2. Spent \in Nat
    BY <2>1, SpentFacts
  <2>3. ASSUME NEW k \in Tasks, NEW e \in EPCs PROVE Tally(k, e)
    <3>1. Idle.batch = {} /\ records[k][e] = 0 /\ \A t \in Threads : scan[t] = Idle
      BY DEF Init, Idle
    <3>2. Having(k, e) = {}
      BY <3>1 DEF Having, Has
    <3> QED BY <2>1, <2>2, <3>1, <3>2, FS_EmptySet DEF Tally
  <2> QED BY <2>1, <2>3 DEF TallyInv
<1>2. TallyInv => CountedOncePerThread
  <2> SUFFICES ASSUME TallyInv, NEW k \in Tasks, NEW e \in EPCs
               PROVE  records[k][e] <= Cardinality(Threads) * (1 + restarts + forgets)
    BY DEF CountedOncePerThread
  <2>1. records[k][e] \in Nat /\ Tally(k, e)
    BY DEF TallyInv, ScanInv
  <2>2. /\ Cardinality(Having(k, e)) \in Nat /\ Cardinality(Wanting(k, e)) \in Nat
        /\ Cardinality(Threads) \in Nat
    BY ThreadCounts DEF Having, Wanting
  <2>3. Spent \in Nat
    BY SpentFacts DEF TallyInv
  <2>4. records[k][e] <= Spent + Cardinality(Threads)
    BY <2>1, <2>2, <2>3 DEF Tally
  <2> QED BY <2>4, SpentFacts DEF TallyInv
<1> QED BY <1>1, <1>2, TallyStep, PTL DEF Spec
=============================================================================
