-------------------------- MODULE InventoryService --------------------------
(***************************************************************************)
(* Inventory tasks and scans (server/services/inventory_service.cpp), the  *)
(* idempotency manager that keeps a tag from being counted twice           *)
(* (server/core/idempotency_manager.cpp), and the table of dirty EPCs      *)
(* (server/services/reconciliation_service.cpp).                           *)
(*                                                                         *)
(* A scan looks every tag of its batch up in the idempotency manager and   *)
(* marks it, one short lock after another, before it touches the database. *)
(* scanEPCs then updates the task's counters on a second connection, which *)
(* commits before the scan's own transaction does.  Any database step may  *)
(* fail: a statement, or an acquire that times out.                        *)
(*                                                                         *)
(* Scans with taskId 0 keep nothing and are left out.                      *)
(***************************************************************************)
EXTENDS Integers, FiniteSets

CONSTANTS
  Threads,      \* threads that scan
  Tasks,        \* ids of inventory tasks
  EPCs,         \* what readers report
  InvalidEPCs,  \* ... that isValidEPC refuses
  AssetEPCs,    \* rfid_epc of the assets
  ScrappedEPCs, \* ... of the scrapped ones
  MaxScans,     \* bound: scans begun
  MaxFaults,    \* bound: failing database steps
  MaxRestarts,  \* bound: restarts of the server
  MaxForgets    \* bound: calls of removeTask and clear (nobody calls them)

ASSUME InventoryAssumption ==
  /\ Tasks # {}
  /\ IsFiniteSet(Threads)
  /\ IsFiniteSet(EPCs)
  /\ InvalidEPCs \subseteq EPCs
  /\ AssetEPCs \subseteq EPCs \ InvalidEPCs
  /\ ScrappedEPCs \subseteq AssetEPCs
  /\ MaxScans \in Nat /\ MaxFaults \in Nat
  /\ MaxRestarts \in Nat /\ MaxForgets \in Nat

VARIABLES
  task,       \* table inventory_tasks
  records,    \* table scan_records: scan_count per task and tag, 0 if no row
  dirty,      \* raw EPCs in table dirty_epcs
  processed,  \* processedKeys_
  scan,       \* per thread, the scan it is in
  scans, faults, restarts, forgets

vars == <<task, records, dirty, processed, scan, scans, faults, restarts, forgets>>

NoTask  == [status |-> "NONE", scanned |-> 0, found |-> 0, missing |-> 0, extra |-> 0]
NewTask == [NoTask EXCEPT !.status = "PENDING"]
Started(k) == task[k].status # "NONE"

\* pc: the place in the call; counted: whether it is scanEPCs, which keeps the
\* task's counters, or scanEPCsWithDetails, which does not; todo: tags not yet
\* looked up; pending: the tag found unprocessed and not yet marked; batch:
\* toProcess.
Idle == [pc |-> "idle", task |-> CHOOSE k \in Tasks : TRUE, counted |-> FALSE,
         todo |-> {}, pending |-> {}, batch |-> {}]

Places == {"idle", "dirty", "lookup", "database", "counters", "commit"}
Scan == [pc : Places, task : Tasks, counted : BOOLEAN,
         todo : SUBSET EPCs, pending : SUBSET EPCs, batch : SUBSET EPCs]

Init ==
  /\ task = [k \in Tasks |-> NoTask]
  /\ records = [k \in Tasks |-> [e \in EPCs |-> 0]]
  /\ dirty = {}
  /\ processed = {}
  /\ scan = [t \in Threads |-> Idle]
  /\ scans = 0
  /\ faults = 0
  /\ restarts = 0
  /\ forgets = 0

At(t, pc) == scan[t].pc = pc
Finish(t) == scan' = [scan EXCEPT ![t] = Idle]

-----------------------------------------------------------------------------
(* Tasks *)

StartTask(k) ==
  /\ ~Started(k)
  /\ task' = [task EXCEPT ![k] = NewTask]
  /\ UNCHANGED <<records, dirty, processed, scan, scans, faults, restarts, forgets>>

CompleteTask(k) ==
  /\ Started(k)
  /\ task' = [task EXCEPT ![k].status = "COMPLETED"]
  /\ UNCHANGED <<records, dirty, processed, scan, scans, faults, restarts, forgets>>

-----------------------------------------------------------------------------
(* A scan, before the database *)

Begin(t, k, counted, epcs) ==
  /\ At(t, "idle")
  /\ scans < MaxScans
  /\ Started(k)
  /\ scans' = scans + 1
  /\ scan' = [scan EXCEPT ![t] =
        [pc |-> "dirty", task |-> k, counted |-> counted,
         todo |-> epcs, pending |-> {}, batch |-> {}]]
  /\ UNCHANGED <<task, records, dirty, processed, faults, restarts, forgets>>

Refused(t) == scan[t].todo \cap InvalidEPCs   \* filterInvalidEPCs

\* recordDirtyData for each invalid EPC; what fails in it is caught and lost.
RecordDirty(t) ==
  /\ At(t, "dirty")
  /\ \E written \in SUBSET Refused(t) :
        /\ dirty' = dirty \cup written
        /\ faults' = faults + Cardinality(Refused(t) \ written)
  /\ faults' \in faults..MaxFaults
  /\ scan' = [scan EXCEPT ![t].pc = "lookup", ![t].todo = @ \ InvalidEPCs]
  /\ UNCHANGED <<task, records, processed, scans, restarts, forgets>>

\* isProcessed, for the next tag of the set
LookUp(t, e) ==
  /\ At(t, "lookup")
  /\ scan[t].pending = {}
  /\ e \in scan[t].todo
  /\ scan' = [scan EXCEPT
        ![t].todo = @ \ {e},
        ![t].pending = IF <<scan[t].task, e>> \in processed THEN {} ELSE {e}]
  /\ UNCHANGED <<task, records, dirty, processed, scans, faults, restarts, forgets>>

BugForgetsMark(t) == processed
Marked(t) == processed \cup {<<scan[t].task, e>> : e \in scan[t].pending}

Collected(t) == scan[t].batch \cup scan[t].pending

\* toProcess.push_back and markProcessed
Mark(t) ==
  /\ At(t, "lookup")
  /\ scan[t].pending # {}
  /\ processed' = Marked(t)
  /\ scan' = [scan EXCEPT ![t].pending = {}, ![t].batch = Collected(t)]
  /\ UNCHANGED <<task, records, dirty, scans, faults, restarts, forgets>>

LookedUp(t) ==
  /\ At(t, "lookup")
  /\ scan[t].todo = {} /\ scan[t].pending = {}
  /\ scan' = [scan EXCEPT ![t].pc = "database"]
  /\ UNCHANGED <<task, records, dirty, processed, scans, faults, restarts, forgets>>

-----------------------------------------------------------------------------
(* A scan, in the database *)

Found(t) == scan[t].batch \cap AssetEPCs
Missing(t) == (AssetEPCs \ ScrappedEPCs) \ Found(t)
Extra(t) == scan[t].batch \ AssetEPCs

\* scanEPCs asks for "IN ()", a syntax error, when nothing is left to process;
\* scanEPCsWithDetails returns.
NothingToDo(t) ==
  /\ At(t, "database")
  /\ scan[t].batch = {}
  /\ Finish(t)
  /\ UNCHANGED <<task, records, dirty, processed, scans, faults, restarts, forgets>>

\* The SELECTs and the INSERTs, which nobody sees before the commit.
Query(t) ==
  /\ At(t, "database")
  /\ scan[t].batch # {}
  /\ scan' = [scan EXCEPT ![t].pc = IF scan[t].counted THEN "counters" ELSE "commit"]
  /\ UNCHANGED <<task, records, dirty, processed, scans, faults, restarts, forgets>>

BugAddsUp(t) == task[scan[t].task].found + Cardinality(Found(t))
FoundCount(t) == Cardinality(Found(t))

\* updateTask, in a transaction of its own
UpdateTask(t) ==
  /\ At(t, "counters")
  /\ task' = [task EXCEPT ![scan[t].task] =
        [status  |-> "IN_PROGRESS",
         scanned |-> Cardinality(scan[t].batch),
         found   |-> FoundCount(t),
         missing |-> Cardinality(Missing(t)),
         extra   |-> Cardinality(Extra(t))]]
  /\ scan' = [scan EXCEPT ![t].pc = "commit"]
  /\ UNCHANGED <<records, dirty, processed, scans, faults, restarts, forgets>>

BugCommitNothing(t) == records
\* ON CONFLICT (task_id, epc) DO UPDATE SET scan_count = scan_count + 1
Recorded(t) == [records EXCEPT ![scan[t].task] =
                  [e \in EPCs |-> IF e \in Found(t) THEN @[e] + 1 ELSE @[e]]]

Commit(t) ==
  /\ At(t, "commit")
  /\ records' = Recorded(t)
  /\ Finish(t)
  /\ UNCHANGED <<task, dirty, processed, scans, faults, restarts, forgets>>

\* A failing step: the exception ends the scan and undoes its transaction.
\* Neither the marks nor the counters belong to it.
Fail(t) ==
  /\ faults < MaxFaults
  /\ scan[t].pc \in {"database", "counters", "commit"}
  /\ faults' = faults + 1
  /\ Finish(t)
  /\ UNCHANGED <<task, records, dirty, processed, scans, restarts, forgets>>

-----------------------------------------------------------------------------
(* The other operations *)

\* IdempotencyManager::removeTask; clear is removeTask of every task.
ForgetTask(k) ==
  /\ forgets < MaxForgets
  /\ forgets' = forgets + 1
  /\ processed' = processed \ ({k} \X EPCs)
  /\ UNCHANGED <<task, records, dirty, scan, scans, faults, restarts>>

ClearDirtyData ==
  /\ dirty' = {}
  /\ UNCHANGED <<task, records, processed, scan, scans, faults, restarts, forgets>>

Restart ==
  /\ restarts < MaxRestarts
  /\ restarts' = restarts + 1
  /\ processed' = {}
  /\ scan' = [t \in Threads |-> Idle]
  /\ UNCHANGED <<task, records, dirty, scans, faults, forgets>>

Step(t) ==
  \/ \E k \in Tasks, counted \in BOOLEAN, epcs \in SUBSET EPCs : Begin(t, k, counted, epcs)
  \/ RecordDirty(t)
  \/ \E e \in EPCs : LookUp(t, e)
  \/ Mark(t) \/ LookedUp(t)
  \/ NothingToDo(t) \/ Query(t) \/ UpdateTask(t) \/ Commit(t) \/ Fail(t)

Next ==
  \/ \E t \in Threads : Step(t)
  \/ \E k \in Tasks : StartTask(k) \/ CompleteTask(k) \/ ForgetTask(k)
  \/ ClearDirtyData
  \/ Restart

Spec == Init /\ [][Next]_vars

-----------------------------------------------------------------------------
(* Properties *)

\* The tables, the idempotency manager and the scans keep their types.
TypeOK ==
  /\ task \in [Tasks -> [status : {"NONE", "PENDING", "IN_PROGRESS", "COMPLETED"},
                         scanned : Nat, found : Nat, missing : Nat, extra : Nat]]
  /\ records \in [Tasks -> [EPCs -> Nat]]
  /\ dirty \subseteq InvalidEPCs
  /\ processed \subseteq Tasks \X EPCs
  /\ scan \in [Threads -> Scan]

\* A tag that isProcessed will skip from now on has been recorded, or a running
\* scan still has it in hand: nothing read is lost between the mark and the
\* commit, so repeating a scan is harmless.  The marks are set before the
\* database work and never taken back, so a failing database breaks it.
InHand(k, e) == \E t \in Threads : scan[t].task = k /\ e \in scan[t].batch
SkippedIsKept ==
  \A k \in Tasks, e \in AssetEPCs :
    <<k, e>> \in processed => records[k][e] > 0 \/ InHand(k, e)

\* The same, as long as no database step has failed.
NoLostScan == faults = 0 => SkippedIsKept

\* As long as no step fails and the server does not crash, the tags a task
\* counts as found have scan records, or a scan that is about to commit holds
\* them: the counters, which commit first and on another connection
\* (inventory_service.cpp:260), are never ahead of the records for good.
FoundIsRecorded ==
  faults = 0 /\ restarts = 0 =>
    \A k \in Tasks :
      task[k].found <= Cardinality({e \in AssetEPCs : records[k][e] > 0 \/ InHand(k, e)})

\* A tag is counted at most once per scanning thread, however often it is read
\* and whatever fails, until its marks are forgotten: isProcessed and
\* markProcessed are two critical sections, so each thread can be between them
\* once, and no more.
CountedOncePerThread ==
  \A k \in Tasks, e \in EPCs :
    records[k][e] <= Cardinality(Threads) * (1 + restarts + forgets)
=============================================================================
