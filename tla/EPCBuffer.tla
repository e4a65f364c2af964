------------------------------ MODULE EPCBuffer ------------------------------
(***************************************************************************)
(* The EPC buffer and the thread that empties it                           *)
(* (server/core/epc_buffer.cpp).  Readers push tag reads from their own    *)
(* threads; every EPCBuffer operation is one critical section.  The        *)
(* processing thread sleeps, takes everything, and hands it to a callback  *)
(* outside the lock.                                                       *)
(*                                                                         *)
(* A read is an identity of its own (its serial number), so that losing or *)
(* repeating one is visible.  Time is counted in DUPLICATE_WINDOW_MS.      *)
(* A read has its stamp before its push takes the mutex, or from its       *)
(* caller, so stamps enter the buffer in any order.                        *)
(***************************************************************************)
EXTENDS Integers, FiniteSets

CONSTANTS
  EPCs,
  Tasks,
  MaxBufferSize, \* MAX_BUFFER_SIZE
  MaxReads,      \* bound: reads pushed
  PushTimes,     \* the times the readers stamp their reads with
  MaxThrows      \* bound: callbacks that throw

ASSUME EPCBufferAssumption ==
  /\ MaxBufferSize \in Nat
  /\ PushTimes \subseteq Nat
  /\ MaxReads \in Nat /\ MaxThrows \in Nat

Window == 1

VARIABLES
  reads,       \* reads pushed so far: the next serial number
  buffered,    \* taskBuffers_: the reads waiting, each with its task
  recent,      \* recentEPCs_
  lastCleanup, \* lastCleanupTime_
  processed,   \* totalProcessed_
  running,     \* running_
  thread,      \* the processing thread: "none", "asleep", "awake", "calling"
  inHand,      \* the reads flushAll returned to it
  delivered,   \* reads the callback took
  gone,        \* reads cleared, taken by flush, or lost in a callback that threw
  throws,
  accepts,     \* per EPC, how often it was put in the buffer
  clears,      \* calls of clearAll
  cleanups,    \* clean-ups of recentEPCs_
  firstCleanup \* the stamp of the first of them

history == <<accepts, clears, cleanups, firstCleanup>>
bufferVars == <<buffered, recent, lastCleanup, processed, history>>
threadVars == <<running, thread, inHand, delivered, throws>>
vars == <<reads, bufferVars, threadVars, gone>>

Never == -3   \* long enough ago
Read == [id : Nat, epc : EPCs, task : Tasks]

Init ==
  /\ reads = 0
  /\ buffered = {}
  /\ recent = {}
  /\ lastCleanup = Never
  /\ processed = 0
  /\ running = FALSE
  /\ thread = "none"
  /\ inHand = {}
  /\ delivered = {}
  /\ gone = {}
  /\ throws = 0
  /\ accepts = [e \in EPCs |-> 0]
  /\ clears = 0
  /\ cleanups = 0
  /\ firstCleanup = Never

-----------------------------------------------------------------------------
(* EPCBuffer::push *)

BugRoomAtLimit == Cardinality(buffered) <= MaxBufferSize
HasRoom == Cardinality(buffered) < MaxBufferSize

CleanupDue(stamp) == stamp - lastCleanup > 2 * Window

\* The clean-up empties the whole set, the EPC just inserted included.
RecentAfter(e, stamp) == IF CleanupDue(stamp) THEN {} ELSE recent \cup {e}

BugNotNoted(stamp) == lastCleanup
CleanedAt(stamp) == IF CleanupDue(stamp) THEN stamp ELSE lastCleanup

Push(e, k, stamp) ==
  /\ reads < MaxReads
  /\ reads' = reads + 1
  /\ e \notin recent
  /\ HasRoom
  /\ buffered' = buffered \cup {[id |-> reads, epc |-> e, task |-> k]}
  /\ processed' = processed + 1
  /\ recent' = RecentAfter(e, stamp)
  /\ lastCleanup' = CleanedAt(stamp)
  /\ accepts' = [accepts EXCEPT ![e] = @ + 1]
  /\ cleanups' = IF CleanupDue(stamp) THEN cleanups + 1 ELSE cleanups
  /\ firstCleanup' = IF CleanupDue(stamp) /\ cleanups = 0 THEN stamp ELSE firstCleanup
  /\ UNCHANGED <<clears, threadVars, gone>>

\* A duplicate returns before the cleanup could happen.
PushDuplicate(e) ==
  /\ reads < MaxReads
  /\ reads' = reads + 1
  /\ e \in recent
  /\ UNCHANGED <<bufferVars, threadVars, gone>>

PushFull(e) ==
  /\ reads < MaxReads
  /\ reads' = reads + 1
  /\ e \notin recent
  /\ ~HasRoom
  /\ UNCHANGED <<bufferVars, threadVars, gone>>

-----------------------------------------------------------------------------
(* The other operations of the buffer *)

Of(k) == {r \in buffered : r.task = k}

\* flush(k) gives its caller the reads of one task; clear(k) drops them.
FlushOrClear(k) ==
  /\ Of(k) # {}
  /\ buffered' = buffered \ Of(k)
  /\ gone' = gone \cup Of(k)
  /\ UNCHANGED <<reads, recent, lastCleanup, processed, history, threadVars>>

ClearAll ==
  /\ buffered # {} \/ recent # {}
  /\ buffered' = {}
  /\ gone' = gone \cup buffered
  /\ recent' = {}
  /\ clears' = clears + 1
  /\ UNCHANGED <<reads, lastCleanup, processed, accepts, cleanups, firstCleanup, threadVars>>

-----------------------------------------------------------------------------
(* EPCProcessor *)

Start ==
  /\ ~running
  /\ thread = "none"
  /\ running' = TRUE
  /\ thread' = "asleep"
  /\ UNCHANGED <<reads, bufferVars, inHand, delivered, gone, throws>>

\* stop, before the join; the join waits for the thread to leave its loop, so
\* nothing can be started until then.
Stop ==
  /\ running
  /\ running' = FALSE
  /\ UNCHANGED <<reads, bufferVars, thread, inHand, delivered, gone, throws>>

\* The sleep ends; the flag is looked at again before the buffer is.
Wake ==
  /\ thread = "asleep"
  /\ thread' = IF running THEN "awake" ELSE "none"
  /\ UNCHANGED <<reads, bufferVars, running, inHand, delivered, gone, throws>>

BugFlushKeeps == buffered
AfterFlush == {}

FlushAll ==
  /\ thread = "awake"
  /\ inHand' = buffered
  /\ buffered' = AfterFlush
  /\ thread' = "calling"
  /\ UNCHANGED <<reads, recent, lastCleanup, processed, history, running,
                 delivered, gone, throws>>

BugLoopEnds == "none"
\* The loop condition reads running_ once more after the callback.
Looped == IF running THEN "asleep" ELSE "none"

Deliver ==
  /\ thread = "calling"
  /\ delivered' = delivered \cup inHand
  /\ inHand' = {}
  /\ thread' = Looped
  /\ UNCHANGED <<reads, bufferVars, running, gone, throws>>

\* No callback was set, or it throws: what was taken is not put back.
CallbackThrows ==
  /\ thread = "calling"
  /\ inHand # {}
  /\ throws < MaxThrows
  /\ throws' = throws + 1
  /\ gone' = gone \cup inHand
  /\ inHand' = {}
  /\ thread' = Looped
  /\ UNCHANGED <<reads, bufferVars, running, delivered>>

Loop == Wake \/ FlushAll \/ Deliver \/ CallbackThrows

Next ==
  \/ \E e \in EPCs :
       \/ \E k \in Tasks, stamp \in PushTimes : Push(e, k, stamp)
       \/ PushDuplicate(e) \/ PushFull(e)
  \/ \E k \in Tasks : FlushOrClear(k)
  \/ ClearAll
  \/ Start \/ Stop
  \/ Loop

Spec == Init /\ [][Next]_vars

\* The processing thread is scheduled.
FairSpec == Spec /\ WF_vars(Loop)

-----------------------------------------------------------------------------
(* Properties *)

\* The buffer's and the thread's variables keep their types, and a running
\* processor has its thread.
TypeOK ==
  /\ reads \in Nat /\ processed \in Nat /\ throws \in Nat
  /\ lastCleanup \in Int /\ firstCleanup \in Int
  /\ buffered \subseteq Read /\ inHand \subseteq Read
  /\ delivered \subseteq Read /\ gone \subseteq Read
  /\ recent \subseteq EPCs
  /\ running \in BOOLEAN
  /\ thread \in {"none", "asleep", "awake", "calling"}
  /\ running => thread # "none"
  /\ accepts \in [EPCs -> Nat] /\ clears \in Nat /\ cleanups \in Nat

\* A read that was accepted is in exactly one place: waiting, in the thread's
\* hand, delivered or given up; the flush that races a push neither loses nor
\* repeats one.
InOnePlace ==
  /\ buffered \cap (inHand \cup delivered \cup gone) = {}
  /\ inHand \cap (delivered \cup gone) = {}
  /\ delivered \cap gone = {}
  /\ processed = Cardinality(buffered \cup inHand \cup delivered \cup gone)

\* The buffer never holds more than MAX_BUFFER_SIZE reads.
Bounded == Cardinality(buffered) <= MaxBufferSize

\* While the processor runs, what is buffered is taken out of the buffer.
Drains ==
  \A n \in 0..(MaxReads - 1) :
    (running /\ \E r \in buffered : r.id = n) ~> (~running \/ ~\E r \in buffered : r.id = n)

\* Whatever the order the stamps come in, an EPC is accepted again only after
\* recentEPCs_ was emptied: once for each clearAll and each clean-up, and once
\* more if it is still in the set.  And clean-ups are rare: two of them are more
\* than two windows apart by the stamps that caused them.  That is what the code
\* keeps of its one-second window; an EPC may still be dropped long after it,
\* because only an accepted push empties the set.
AcceptedPerCleanup ==
  /\ \A e \in EPCs :
       /\ accepts[e] <= clears + cleanups + (IF e \in recent THEN 1 ELSE 0)
       /\ e \in recent => accepts[e] > 0
  /\ cleanups > 0 => lastCleanup - firstCleanup >= (cleanups - 1) * (2 * Window + 1)
=============================================================================
