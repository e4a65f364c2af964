# A TLA+ verification of RFIDSYSTEM

RFIDSYSTEM manages fixed assets that carry RFID tags. A C++ server
(`server/CMakeLists.txt`) keeps the assets and the inventory tasks in PostgreSQL,
answers gRPC calls on a pool of threads, reads tags from networked or serial
readers, estimates positions and produces reports; a Qt client and a Python web
backend use it. This directory holds TLA+ models of the concurrent core of that
server, the TLC configurations that check them on small instances, and proofs of
the most important results for every instance. Some of the modelled parts are
in no build of this commit, or have no caller yet; the inventory says which.

Paths below are relative to the repository root. Line numbers are those of the
files at the modelled commit; `PROJECT.json` maps every definition to its lines.

* [1 Inventory](#1-inventory) – the system's parts, their state and what makes them hard
* [2 The modules and the code](#2-the-modules-and-the-code)
* [3 The runs](#3-the-runs) – questions, bounds, results
* [4 Fairness](#4-fairness)
* [5 What is proved](#5-what-is-proved)
* [6 What is only model-checked](#6-what-is-only-model-checked)
* [7 Where code and documents disagree](#7-where-code-and-documents-disagree)
* [8 What is not modelled, and why](#8-what-is-not-modelled-and-why)
* [9 Plan](#9-plan)
* [10 Running it](#10-running-it)

## 1 Inventory

### 1.1 How the parts interact

```
 gRPC clients                     readers (TCP, serial)
      |                                 | lines
  rpc/*  ---- analytics/*,       rfid/reader.cpp
      |       bi/*, repository/*   (read thread, reconnect thread)
      v             |                   :
 services/asset_service.cpp  |     rfid/epc_processor.cpp   core/epc_buffer.cpp
      |             |                   :                     (queue + thread)
      +------+------+                   :                          :
             v                    services/inventory_service.cpp <.'
      db/db_pool.cpp  <---------  services/reconciliation_service.cpp
             |                    core/idempotency_manager.cpp
         PostgreSQL
                                  spatial_truth/truth_gate/*  (queue + worker)
                                  spatial_truth/coordinate_system/*
  bi/task_scheduler.cpp           runtime/spatial_frame_recorder.cpp
   (tasks + thread)                      : file of frames
                                  runtime/spatial_frame_player.cpp (thread)
```

Solid lines are calls the code makes. Dotted ones are hand-overs the interfaces
offer (`setCallback`, scan operations) and no code of this commit connects: the
server's start-up registers neither callbacks nor readers' scans, the RPC
handlers of inventory are stubs, `core/epc_buffer.cpp` and all of `runtime/` are in
no build target, nobody starts the truth-gate runner or the report scheduler,
and nobody creates an `EPCProcessor` or, besides the transformer, uses a
`CoordinateSystemManager`. The components are complete all the same,
with their own threads and locks, so each is modelled with the callers its
interface and its mutexes are made for: any thread, at any time, in any order
the interface permits. The chain pool – asset service – RPC is connected, and
its callers are those of the code.

Three kinds of interaction make up the concurrency:

* **gRPC threads** call the services in parallel. They share the connection
  pool and the idempotency manager (each with a mutex), the code generator (an
  atomic counter), and the database tables (transactions at READ COMMITTED, no
  `FOR UPDATE`).
* **Background threads**, two per reader, one for the EPC buffer's processor, one
  for the truth-gate runner, one for the report scheduler, one for a player of
  recorded frames. Each has an atomic or plain flag, a loop, and a `stop` or
  `close` that joins; they differ in which of flag, notification and join is
  under the mutex, and each difference is another hazard.
* **Callbacks** that a background thread runs outside (EPC buffer) or under (EPC
  processor) its component's lock, and that may throw.

One more meets through a **file**: the recorder appends frames, may die in the
middle of one, and is started again; a player in another process reads.

### 1.2 Components, state, operations, properties

| Component (source under `server/`) | State | Operations | Hard behaviour | What makes it correct |
|---|---|---|---|---|
| **Connection pool** `db/db_pool.cpp` | `pool_`, `availableConnections_`, `inUseCount_`, condition variable | `acquire_with_timeout`, `release`, `reconnectAll` | callers wait with a deadline; a wait ends with a connection that has died meanwhile; a service holds two connections; exceptions skip `release`; the database drops connections or goes down | a connection has one holder; no open transaction is passed on; counters exact; size limit; every `acquire` returns |
| **Asset service** `services/asset_service.cpp`, `models/asset.cpp`, `services/asset_code_generator.cpp` | tables `assets`, `asset_logs`; `lastGeneratedCode_` | create, update status, queries | check and UPDATE in separate statements; log on a second connection; exceptions and leaks; restart resets the generator | statuses follow `canTransition`; the log is truthful, and every gap in it has a cause; codes are unique; no connection is counted twice |
| **Inventory service, idempotency manager, dirty EPCs** `services/inventory_service.cpp`, `core/idempotency_manager.cpp`, `services/reconciliation_service.cpp` | tables `inventory_tasks`, `scan_records`, `dirty_epcs`; `processedKeys_` | start/complete task, two kinds of scan, forget marks | check-then-mark in two locks; marks set before the database work; counters committed before the scan | what is skipped as "processed" is recorded; a tag is not counted again and again |
| **EPC buffer and its thread** `core/epc_buffer.cpp` | `taskBuffers_`, `recentEPCs_`, `totalProcessed_`, `running_` | push, flush, clear, start, stop, loop | many pushers against one drainer; callback outside the lock may throw; window clean-up | an accepted read is in one place, once; bound; duplicates dropped are real duplicates; the buffer drains |
| **Readers** `rfid/reader.cpp` | `sock_`, `connected_`, `scanning_`, `reconnecting_`, two threads | startAll, stopAll, removeReader, read loop, reconnect loop | three threads on plain variables; threads joining threads; a destructor that joins only one of them | `reconnecting_` is never stuck; `stopAll` returns; reconnects end; a restored reader reads |
| **Truth-gate runner** `spatial_truth/truth_gate/truth_gate_async_runner.cpp` | `queue_`, `results_`, `running_` | start, stop, submit, getResult, worker loop | `stop` notifies without the mutex; full queue; unread results replaced | no submission lost or repeated; order; newest result wins; worker wakes up |
| **EPC processor** `rfid/epc_processor.cpp` | `epcCache_`: EPC → time of the read kept last; window and size | processEvents, clearCache, two settings | the readers' times against an ageing by the server's clock; eviction; callback under the mutex | two reads of a tag less than a window apart are not both kept |
| **Task scheduler** of the reports `bi/task_scheduler.cpp` | `tasks_`, `running_`, one thread | add, update, remove, enable, disable, start, stop, loop | the loop works on a copy of the tasks; `stop` joins under the mutex the loop needs; the next run is computed after the time it is compared with | a changed task is not run as it was; a thread is not assigned over; `stop` returns; what is due runs, and nothing before it is |
| **Coordinate systems** `spatial_truth/coordinate_system/*` | versions by identifier, `next_version_` | create, update, queries | cycle search of limited depth; the default system's version is not counted | no cycle of parents; a version number names one version |
| **Recorder and player of frames** `runtime/spatial_frame_{recorder,player}.cpp` (in no build) | the file, the stream's buffer; `framePositions_`, `currentFrameIndex_`, `state_`, `running_`, `frameQueue_`, one thread | open, append, flush, close; open, play, pause, stop, seek, nextFrame, close, loop | a crash in the middle of a record, appending behind it; state changed and notified without the mutex | what is shown was recorded, in its order; a crash costs little; `stop` stops, `close` returns |
| **Calibration sessions, ground truth, drift chain** `spatial_truth/*` | session states; points per zone; counters of bad frames | session operations; addPoint; chain step | order of operations; thresholds | sessions move along their table; degradation after three bad frames |
| **Control plane, failure bus, recovery** `runtime/runtime_*.cpp` (not in the server's build) | runtime state, failures, flags | transitions, publish, acknowledge, recover | callbacks across mutexes; bounded history with cached flags | state table; flags agree with the history |
| **Bandit rewards** `tuning/bandit/*` (not in the build) | pending rewards | add, process, update | self-deadlock; eviction | every decision gets at most one reward |
| **Rate limiter, authentication, audit, proof ledger** | token bucket; sessions; none; hash chain | | small and sequential | |
| **Logging, metrics, alerts, RPC stubs, reports, geometry, client, web, tools** | output, queries or user interface | | no state that others rely on | |

`PROJECT.json` lists all 34 components with their files and status, and 40
hazards at the lines where they bite. 37 of them have properties; the other
three (a scan after `completeTask`, a restored reader that reads nothing, a
second `startScanning`) have a note: the code has each of them on its plain
path, the models show it, and there is nothing left that could hold. Where a
property stops short of its hazard, because the code has the flaw, the hazard's
note says what is left out and section 7 tells of it.

## 2 The modules and the code

Every model takes one critical section of the code as one step, because that is
what the mutexes make of it, and splits where a lock is released, a condition
variable waits, a transaction commits or another thread's plain variable is read.

| Module | Models | Abstract specification |
|---|---|---|
| `DBPool` | the pool, its callers and the database server | `ConnectionLease` |
| `AssetService` | asset calls, status machine, code generator, log | `AssetLifecycle` |
| `InventoryService` | tasks, scans, idempotency marks, dirty EPCs | – |
| `EPCBuffer` | buffer and processing thread | – |
| `Reader` | one reader, its three threads | – |
| `TruthGateRunner` | queue, worker, owner | `EvaluationQueue` |
| `CoordinateSystems` | the hierarchy of coordinate systems and their versions | – |
| `TaskScheduler` | tasks, the loop's thread, callers | – |
| `EPCProcessor` | the filter of repeated reads | – |
| `FrameRecording` | the file of frames, its recorder and its reader | – |
| `FramePlayer` | the playback thread and its controller | – |
| `DBPoolProofs`, `AssetServiceProofs`, `InventoryProofs`, `TruthGateRunnerProofs`, `CoordinateSystemsProofs`, `TaskSchedulerProofs` | theorems and proofs about the model of that name | |
| `RFIDProofs` | theorems and proofs about `EPCBuffer`, `Reader`, `EPCProcessor` | |
| `SpatialFrameProofs` | theorems and proofs about `FrameRecording`, `FramePlayer` | |
| `MC*` | one per model, small sets for TLC | |

### 2.1 DBPool and ConnectionLease

| Code (`server/db/db_pool.cpp`) | Model |
|---|---|
| `pool_`, `availableConnections_`, `inUseCount_` | `pool` (a set), `available` (a sequence), `inUse` |
| `acquire_with_timeout`, scan of the idle ones | `AcquireIdle`: invalid ones at the front are dropped from `available` and stay in `pool` |
| …, creating a connection | `AcquireNew` |
| …, `cv_.wait_for` begins | `AcquireWait` |
| …, the wait ends | `WakeValid`, `WakeReplace`, `WakeFail`, `WaitTimeout` |
| `release` | `ReleaseValid`, `ReleaseReplace`, `ReleaseLost` |
| `reconnectAll` | `ReconnectAll` |
| `isValidConnection` | `Valid`: neither closed by the server nor with an open transaction |
| services: `pqxx::work`, `commit`, end of scope, exception | `BeginWork`, `Commit`, `ScopeEnd`, `Throw` |
| the PostgreSQL server (external) | `Outage`, `Restore`, `DropConnection` |

Two details of the code matter and are kept. First, a service that calls
`release` while its `pqxx::work` is still in scope hands back a connection on
which `SELECT 1` in a `nontransaction` throws; `release` then discards it and
creates another, and the work is closed only at the end of the scope
(`closing`). Second, a connection replaced in the woken branch (line 124) never
enters `pool_`.

The client side does not notice a closed socket until it uses it, so
`reconnectAll`'s `is_open()` may or may not be true of a broken connection: the
model chooses (`stale`). `reconnectAll` tries each entry of `pool_` on its own,
and gives up on any number of them: those are `kept`, the others are new. An
entry that stays while a caller holds it is then listed as idle. The constant
`HeldMayStay` says whether that may happen; section 3 tells why the run and the
theorems leave it out.

`ConnectionLease` states what the pool is for: a connection nobody has is
granted, or one the caller has is given up. The mapping is
`leases[t] = Range(held[t])`.

### 2.2 AssetService and AssetLifecycle

Each thread carries the place and the arguments of the call it is in
(`call[t]`). The actions follow the statements of `createAsset`
(`CreateGenerated` / `CreateGiven`, `Insert`, `InsertRefused`),
`updateAssetStatus` (`BeginUpdate`, `Select`, `SelectRefuses`, `Update`),
`logAssetOperation` (`LogAcquire`, `LogTimeout`, `WriteLog`, `LogFails`,
`Finish`) and the queries (`BeginQuery`, `QueryReturns`, `SummaryThrows`).
`Fault` is a failing statement, whose exception skips the release; `Restart`
loses the memory and keeps the tables.

The pool is a number of free connections here: who holds which one is
`DBPool`'s matter. `changes` is a history variable, the bag of committed changes
as they really were; `log` is the bag of rows as the service wrote them;
`failed` and `starved` count the rows an INSERT refused and those no connection
was found for.

The code writes to `asset_logs`, and the scripts under `scripts/` create
`operation_logs` only (init_db.sql:23). So `logTable` is chosen at the start and
never changes: a database as the scripts leave it, or one whose owner has added
the table. Without it every log write fails and loses a connection.

`AssetLifecycle` states that an asset enters as `IN_STOCK` and moves only along
`canTransition`. The mapping is `status[a] = assets[a].status`, with `UNKNOWN`
for a row that does not exist.

### 2.3 InventoryService

`scanEPCs` and `scanEPCsWithDetails` share their structure; `counted` tells
which of them a scan is. `RecordDirty` is the treatment of invalid EPCs,
`LookUp` and `Mark` are `isProcessed` and `markProcessed` (two locks), `Query`
the statements of the transaction, `UpdateTask` the counters on a second
connection, `Commit` the transaction's end and `Fail` a failing step. Two
returns without database work are `NothingToDo`: `scanEPCsWithDetails` has an
early return, `scanEPCs` builds `IN ()` and fails, with the same effect on
everything modelled. `ForgetTask` is `removeTask`/`clear`, which nobody calls
yet (`MaxForgets` bounds it).

### 2.4 EPCBuffer

A read is an identity of its own (a serial number), so that a lost or repeated
one shows. `Push`, `PushDuplicate`, `PushFull` are the three outcomes of `push`;
the clean-up of `recentEPCs_` is part of `Push`, after the insertion, as in the
code. A read is stamped before its push takes the mutex (epc_buffer.cpp:18-20),
or by the caller of `push(EPCEntry)`, so `Push` takes any stamp of `PushTimes`,
in any order, and there is no clock. `FlushOrClear`, `ClearAll` are the other
buffer operations; `Start`, `Stop`, `Wake`, `FlushAll`, `Deliver`,
`CallbackThrows` the processor. The history variables `accepts`, `clears`,
`cleanups` and `firstCleanup` count how often an EPC entered the buffer and how
often the set of recent ones was emptied.

### 2.5 Reader

The three threads are the manager's caller, the read thread and the reconnect
thread; their places are `manager`, `read` and `reconnect`, and the plain
variables they share (`sock_`, `connected_`, `scanning_`, `reconnecting_`) are
read and written one step at a time. `OpenSocket` and
`ConnectSucceeds`/`ConnectFails` are the two halves of `connect`, because two
threads may be in it at once on the same `sock_`. Joins are guards on the
joined thread's place. `Loss` is the device closing the connection.

The reconnect thread resets `reconnecting_` (`ReconnectResets`) before it returns
(`ReconnectReturns`): in between a new loss may set the flag again and join it.
`removing` marks a stop that the reader's destructor makes: after `Disconnect`
the base class destroys `reconnectThread_`, which nobody but the next
`triggerReconnect` joins, so `Destroy` ends in `gone` if no reconnect was ever
spawned, and in `terminated`, where nothing moves any more, if one was.

### 2.6 TruthGateRunner and EvaluationQueue

`queue_mutex_` makes `Submit` and the worker's look at the predicate atomic; the
worker's `deciding` place is the moment between a false predicate and blocking,
which excludes `Submit` (it needs the mutex) but not `Stop`/`NotifyAll` (they do
not take it). `WakeUnasked` is the spurious wakeup the standard permits.
Submissions are numbers; `frameOf` is the frame each of them is about, chosen
once in `Init`.

`EvaluationQueue` states what a submission lives through: it waits, is evaluated,
answered, over, the oldest first. It ends unevaluated only as the oldest of a
full queue, and an unread answer gives way only to a later one of its frame.
Threads, stops and wakeups do not occur in it. The mapping (`Stage`) reads a
submission's stage off the queue, the worker's hand and the results; the history
variable `gone` plays no part in it.

### 2.7 CoordinateSystems

`create` and `update` hold the mutex from end to end: `Create` and `Update` are
their successful ends, and a refusal changes nothing. A version is its number
and, for the current one, its parent; `WouldCreateCycle` is the bounded walk of
`wouldCreateCycle`, stated as "the system is among the first `MaxDepth` nodes of
a walk from the new parent to the root". Kept from the code: `update` asks
nothing when a system becomes its own parent, the empty identifier may be
created again and again (`create` overwrites it), and `initDefault`
gives `"global"` version 1 without taking it from `next_version_`.

### 2.8 TaskScheduler

| Code (`server/bi/task_scheduler.cpp`) | Model |
|---|---|
| `tasks_`, `running_`, `mutex_` while it is held over several steps | `tasks`, `running`, `holder` |
| `schedulerLoop`: test of `running_`, copy under the mutex, `parseCron` and comparison per task, `executeTask`, sleep | `LoopTest`, `LoopCopy`, `LoopNext`, `LoopExecute`, `LoopSleep`, `LoopWake` |
| `parseCron` | `NextRun`, a function from the three expressions to a time |
| `addTask`, `updateTask`, `removeTask`, `enableTask`, `disableTask` | actions of these names |
| `start`; `stop` up to its join, and the join | `Start`; `Stop`, `StopJoins` |

Time is in halves of a day, before and from nine o'clock on, since that is all
`parseCron` tells apart. The clock runs between any two steps, in particular
between the `now` of a round and the clock `parseCron` reads. `stale` is a
history variable: runs, since a task was last changed, of what it was before.

### 2.9 EPCProcessor

`processEvents` is one call under `mutex_`; it takes a step for each event
(`Filter`), one for the ageing (`Expire`) and one for each entry evicted
(`Evict`, of an oldest one), so that the server's clock may run meanwhile.
`Stamped` is the update of an entry for a read that is kept. The events' times
are any of `Times`, in any order: readers have clocks of their own. The callback
gets every event of the batch, duplicates included, so it is no part of what
the filter decides. The server's clock only advances here; `system_clock`
(epc_processor.cpp:110) may also be set back, which would delay an ageing.
`kept`, `swept` and `excused` are history variables that let
the property speak of the earlier read, the last clean-up and the other reasons
an entry may have gone.

### 2.10 FrameRecording

| Code | Model |
|---|---|
| `SpatialFrameRecorder::open`, `append`, `flush` and the stream, `close` | `OpenRecorder`, `AppendFrame`, `Write`, `CloseRecorder` |
| the end of the recorder's process | `Crash` |
| `SpatialFramePlayer::open` with `loadIndex` | `OpenPlayer`, `LoadHeader` for each turn of its loop, `EndLoad` |
| `readHeader`, the jump to the next header | `HeaderAt`, `NextHeader` |
| `readFrameAt`, `nextFrame`, `verifyChecksum` | `NextFrame`, `ChecksumMatches` |
| `seek`, `seekToFrame`, `close` | `Seek`, `ClosePlayer` |

The file is a sequence of cells: two for a header and one up to three for a
payload, so that every place a write can be torn at is there. Of the bytes of
another record taken for a header, only the length matters (`garbage`): too
short, and the index goes on inside; too long, and it ends. `open` holds the
player's mutex until the index is loaded, so its other calls wait (`Ready`); the
recorder, in another process, goes on writing between two headers.

### 2.11 FramePlayer

The other half of the player: the thread of `playbackLoop` (`LoopTest` to
`LoopSleep`) and the calls of its controller, whose assignments to `state_`,
`currentFrameIndex_` (`position`) and `running_` are separate steps where no
mutex joins them. As in the truth gate, `block` is the moment between a false predicate and
blocking; unlike there, `close` sets its flag under the mutex, while `play` and
`stop` notify without it.

## 3 The runs

Passing runs, with the instance they check:

| Run | Instance | States | Shows |
|---|---|---|---|
| `pool_shared` | 2 threads, 2 connections each, pool of 2, 5 identities, 1 outage, drop or `reconnectAll`, 1 exception | 609 k | `Exclusive`, `NoWorkOnIdle`, `InUseExact`, `LimitWithoutFaults`, the lease refinement, and that waiting ends |
| `asset_own_writer` | 2 threads, 2 assets, each asset changed by one thread, 4 connections, with or without the log's table, 3 changes, 1 fault, 1 restart | 6.3 M up to symmetry | lifecycle refinement, `LogTruthful`, `LogGapsExplained`, `ConnectionsConserved`, `GeneratedFresh` |
| `inv_shared` | 2 threads, 1 task, 3 EPCs (in use, scrapped, invalid), 3 scans, 1 fault, 1 restart, 1 forgotten task | 2.9 M | `NoLostScan`, `FoundIsRecorded`, `CountedOncePerThread` |
| `epc_loop` | 2 EPCs, 2 tasks, buffer of 2, 4 reads stamped 0 or 3, 1 exception | 2.1 M | `InOnePlace`, `Bounded`, `AcceptedPerCleanup`, `Drains` |
| `reader_threads` | 3 attempts, 3 losses, 5 calls | 19 k | `ReconnectingExact`, `StopReturns`, `ReconnectEnds` |
| `gate_queue` | 2 frames, queue of 2, 5 submissions | 19 k | the `EvaluationQueue` refinement, `InOnePlace`, `NewestResult`, `Evaluated` |
| `coordinates` | 5 systems (4 interchangeable), checks of depth 3, 5 versions | 39 k up to symmetry | `NoShortCycle`, `VersionsIncrease` |
| `task_scheduler` | 2 tasks, a week of 2 days, a month of 3, 4 days, 5 calls | 790 k | `OneStaleRun`, `StartFindsNoThread`, `NeverEarly`, `StopReturns` |
| `epc_processor` | 3 tags, times 0 to 4, windows and sizes 1 and 2, 3 calls, batches of 2 | 4.9 M up to symmetry | `KeptOncePerWindow` |
| `frame_recording` | 4 frames of 1 or 3 cells, 2 crashes, 2 openings, stray lengths 2 and 20 | 1.2 M | `ShownIsWhole`, `WholeIsIndexed`, `ReplayInOrder`, `OnlyLastFails` |
| `frame_player` | 4 frames, the third torn, queue of 3, 7 calls | 63 k | `OneLateFrame`, `CloseReturns`, `PlaysOn` |

One run shows a disagreement, by a short counterexample (section 7):
`asset_race` violates `LifecycleSpec`, since the second of two updates that both
read `IN_STOCK` moves an asset from `REPAIR` to `IN_USE`. The other
disagreements follow from the models too, and are
listed in section 7 with the path that shows them.

### Why the bounds are enough

The hazards are about *pairs*: two threads on one connection, row, tag or
wakeup. Two threads give every pair, and the interesting third state (the
limit) is reached because the limits are 2.

* **Pool.** Two threads holding up to two connections each want four from a pool
  of two, so threads wait for each other. Five identities are two in the pool,
  and enough for the replacements one fault and two releases with open work
  cause. One fault shows every path after a loss; several faults differ only in
  how often. `HeldMayStay = FALSE` keeps one case out: a `reconnectAll` that
  fails for a connection somebody holds, or that has an open transaction, lists
  it as idle, and `Exclusive` is plainly violated. It still may fail for any of
  the others. Nothing in the repository calls `reconnectAll`.
* **Assets.** Four connections are two for each thread, so no log starves at
  first, and one leaked connection is enough to make `LogTimeout` happen: both
  sides of `PoolTooSmall` occur. The symmetry exchanges the threads together
  with the assets they change, which nothing else tells apart. Three
  committed changes are a creation, a change of it, and another asset's. The
  code 99 given by a caller is outside the generated ones of the instance;
  `InsertRefused` still happens, by the given code, and by the tag.
* **Inventory.** One task suffices, since nothing relates two tasks except the
  key they are part of. Three scans let a thread repeat what it did while the
  other thread is in the middle.
* **EPC buffer.** The window is one unit of time, the first stamp of any value
  cleans up, and of two stamps 3 apart the later one cleans up after the earlier
  and the earlier one does not after the later. Four reads fill a buffer of two
  twice; two tasks make its bound a sum.
* **Reader.** Three losses and five calls allow a start, a loss during a
  reconnect, a stop during that reconnect, another start, and a removal.
* **Gate.** Five submissions push an old one out twice, with a result of the
  same frame in the result table, one in the worker's hand, and stops between.
* **Coordinate systems.** With a depth of 3, five systems make a cycle of four,
  which the check misses, next to those of two and three, which it must not; a
  cycle of four takes three creations and an update of `"global"`, which leaves
  one more call. `"global"` is not interchangeable, the others are.
* **Scheduler.** A month of three days has a first, a day before one and a day in
  the middle; four days are that month and the next first, after and before
  nine. A week of two days contains a Monday twice. Five calls add a task, start,
  change the task twice and stop.
* **EPC processor.** Three tags overflow both sizes. Times up to 4 hold two
  windows of 2 and a clock that is behind, in and beyond each; three calls are
  two batches with a clean-up, a clearing or another window between.
* **Recording.** Two crashes tear two of four records, each at any cell; a
  payload of three cells is as long as a whole short record, so an index that
  goes astray may meet another one's header. Two openings show the file before
  and after.
* **Player.** Four frames overflow the queue of three, the torn one stops the
  playback in the middle; seven calls are open, play, stop, play, seek, close
  and one more in any order.

Deadlock is checked except where the system may really stop, or the bounds stop
it. In `AssetService` every connection may be lost to exceptions, after which
each call times out and changes nothing. In `Reader` the bounded calls end with
a reader that is idle, has given up, is removed or has ended the process.
`TaskScheduler` has the deadlock of
`stop` and the loop. `FramePlayer` may end with a playback thread that nobody
wakes. `CoordinateSystems`, `EPCProcessor` and `FrameRecording` are driven by
calls alone, and their numbers are bounded.

## 4 Fairness

Each liveness property names the fairness it needs, in `FairSpec`
(`FairReaderSpec` of the reader, `Spec` of the scheduler, `PlaybackSpec` of the
player), and no more.

* `AcquireReturns`: weak fairness of `Wake(t)`. A thread in `cv_.wait_for` is
  woken by the notification or by its deadline of 3 s. Nothing is assumed of
  the callers: the property holds although holders may never release.
* `Drains`: weak fairness of the processing thread (`Loop`). It only sleeps, and
  the callback is assumed to return or to throw. Nothing is assumed of `stop`
  or the pushers.
* `StopReturns`, `ReconnectEnds` of the reader: weak fairness of the three
  threads. `select` has a timeout of a second and `connect` returns with an
  error in the end, so each thread moves. No fairness of `startAll`, `stopAll`,
  `Loss`. It is assumed of the manager only inside a call it has begun.
* `Evaluated` of the runner: weak fairness of the worker and of a `stop` under
  way. There is none on `WakeUnasked`, because nothing promises a spurious
  wakeup.
* `StopReturns` of the scheduler: weak fairness of the loop's steps and of the
  join, strong fairness of the loop's lock, which calls may take again and
  again. The exception it states, a `stop` that got the mutex between the loop's
  test and its lock, is a deadlock no fairness helps against.
* `CloseReturns`, `PlaysOn`: weak fairness of both threads' steps, strong
  fairness of those that lock `mutex_`, since a paused loop takes it again and
  again without sleeping. A `std::mutex` promises less than that, but the
  schedulers it runs on let a waiting thread in eventually. Again nothing is
  assumed of spurious wakeups or of further calls.

No symmetry is used in the runs with liveness properties.

## 5 What is proved

TLAPS proves the following for every value of the constants. Every invariant
and every action property of the passing runs is among them, and so are the
three refinements. The first column is the theorem.

| Theorem | Module | Result | Assumption |
|---|---|---|---|
| `TypeCorrect` | `DBPoolProofs` | `[]TypeOK` | – |
| `ExclusiveHolds` | `DBPoolProofs` | `[]Exclusive` | `~HeldMayStay` |
| `NoWorkOnIdleHolds` | `DBPoolProofs` | `[]NoWorkOnIdle` | `~HeldMayStay` |
| `LeaseImplemented` | `DBPoolProofs` | the pool implements `ConnectionLease` | `~HeldMayStay` |
| `InUseExactHolds` | `DBPoolProofs` | `[]InUseExact`: the counter is the connections out, whatever is dropped, broken or reconnected | – |
| `LimitWithoutFaultsHolds` | `DBPoolProofs` | `[]LimitWithoutFaults` | – |
| `LifecycleImplemented` | `AssetServiceProofs` | the service implements `AssetLifecycle` | one writer per asset |
| `GeneratedFreshHolds` | `AssetServiceProofs` | `[]GeneratedFresh` | callers give no codes |
| `ConnectionsConservedHolds` | `AssetServiceProofs` | `[]ConnectionsConserved`: free, held and leaked connections make up the pool | – |
| `LogTruthfulHolds` | `AssetServiceProofs` | no row for a change that did not happen, and no two rows for one | one writer per asset |
| `LogGapsExplainedHolds` | `AssetServiceProofs` | no change lacks more rows than failed INSERTs, timed-out acquires and restarts explain; and an acquire times out only when the pool has lost too many connections | one writer per asset |
| `TypesHold` | `AssetServiceProofs` | `[]TypeOK`: among others, an update finds its row | – |
| `NoLostScanHolds`, `TypesHold` | `InventoryProofs` | `[]NoLostScan`, `[]TypeOK` | – |
| `FoundIsRecordedHolds` | `InventoryProofs` | `[]FoundIsRecorded`: until the first fault or restart, a task's counter is covered by records, or by a scan that will commit them | – |
| `CountedOncePerThreadHolds` | `InventoryProofs` | `[]CountedOncePerThread`: at most one record of a tag per thread, for each life of the marks | – |
| `TypesHold`, `InOnePlaceHolds`, `BoundedHolds`, `AcceptedPerCleanupHolds` | `RFIDProofs` | types and the three invariants of the EPC buffer | – |
| `ReconnectingExactHolds`, `ReaderTypesHold` | `RFIDProofs` | the reader's `[]ReconnectingExact` and `[]ReaderTypeOK`, and that a reconnect about to connect has attempts left (`AttemptLeft`) | – |
| `JoinWaitsForNoAttemptHolds` | `RFIDProofs` | the join in `triggerReconnect` waits for no attempt and no delay, only for a thread to return | – |
| `KeptOncePerWindowHolds` | `RFIDProofs` | `KeptOncePerWindow` of the EPC processor, for clocks and event times of any order | – |
| `QueueImplemented` | `TruthGateRunnerProofs` | the runner implements `EvaluationQueue` | – |
| `InOrderHolds`, `NewestResultHolds`, `InOnePlaceHolds`, `TypesHold` | `TruthGateRunnerProofs` | order, newest result, nothing lost or repeated, types | – |
| `NoShortCycleHolds`, `VersionsIncreaseHolds`, `TypesHold` | `CoordinateSystemsProofs` | no cycle of two up to `MaxDepth`; versions grow; types | – |
| `OneStaleRunHolds`, `StartFindsNoThreadHolds`, `NeverEarlyHolds`, `TypesHold` | `TaskSchedulerProofs` | the scheduler's three invariants and its types | – |
| `ShownIsWholeHolds`, `ReplayInOrderHolds` | `SpatialFrameProofs` | what the player shows was recorded whole, in the recording's order, for any crashes | – |
| `WholeIsIndexedHolds` | `SpatialFrameProofs` | a loaded index holds every frame with no torn record before it | – |
| `OnlyLastFailsHolds` | `SpatialFrameProofs` | only reading the last indexed frame can end the stream | – |
| `OneLateFrameHolds` | `SpatialFrameProofs` | after `stop`, at most one frame is still queued and counted | – |

The dash means: nothing beyond the named `ASSUME` of the component's module
(types of the constants; `AssetServiceAssumption` and `InventoryAssumption` also
say that the threads, and in the latter the EPCs, are finitely many, since
counts are sizes of sets of them). The type invariants named here are proved
and, but for the pool's, not run again.

The restricting assumptions are real. Without `~HeldMayStay`, a `reconnectAll`
that fails for a connection lists it as idle although a caller holds it; without one
writer per asset, `asset_race` is a counterexample. `GeneratedFreshHolds` assumes
that callers choose no codes, since a caller may choose the generator's next
one; the run `asset_own_writer` has a caller's code outside the generated range
instead.

### The inductive invariants

* **`PoolInv`** (`DBPoolProofs`). `Exclusive` alone is not inductive.
  `AcquireIdle` hands out an element of `available`, so the elements must be
  distinct and nobody's; `ReleaseValid` appends, so what a thread holds must be
  nobody else's and not idle; and a connection just created must be new to all
  of them, which is why `Creatable` is stated over `Live`. `NoWorkOnIdle` has to
  go along: what protects it is that `Valid` refuses a connection with an open
  transaction at both ends, and that `closing` keeps such a connection away from
  `Creatable` until its scope ends. `reconnectAll` keeps the invariant only if what
  it could not replace is nobody's: the rest of what it lists is new.
* **`CountInv`** (`DBPoolProofs`). What is out is a set of pairs, a thread and a
  place among those it holds, rather than a sum over threads; taking a
  connection adds one pair, giving one up removes one, so that the size of the
  set moves with `inUseCount_` in each case of `acquire` and `release`.
  **`LimitInv`** is about the time before the first fault: the server is up,
  nothing is broken, and `pool_` contains every connection held or idle. So
  `release` has nothing to replace but what left `pool_` in the same step.
* **`StatusInv`** (`AssetServiceProofs`). A thread past its `SELECT` acts on a
  status it remembers. `ReadStillTrue` says the remembered one is the row's and
  the step it will take is allowed; it survives other threads' steps because of
  the one-writer assumption, and would not without it (`asset_race`).
* **`CodeInv`** (`AssetServiceProofs`). Codes in the table and in pending INSERTs
  are at most `lastCode`; those in pending INSERTs are pairwise different and not
  in the table. A restart ends it, hence `restarts = 0`.
* **`ConnInv`** (`AssetServiceProofs`). A call holds no connection when it is
  over, two while it writes its log row and one at every other place; the two
  sets of threads that say so change by one member per step.
* **`LogInv`** (`AssetServiceProofs`), per row: the copies in the log, and the calls
  that have committed the change and not logged it yet, are at most the copies
  that really happened, and fall short of them by no more than `Gaps`: what
  failed, what starved, and one for each thread and restart. It needs
  `StatusInv`, since the row says the status the SELECT saw. That a call starves
  in a small pool only follows from `ConnInv`: if every other thread holds two
  connections at most and none is free, the rest have leaked.
* **`ScanInv`** (`InventoryProofs`). A tag is put into the batch in the step that
  marks it, the batch only grows until `Commit`, and `Commit` records all of it
  that are assets. The batch is empty at the beginning of a scan, so `Begin`
  drops nothing. `NoLostScan` is conditional on `faults = 0`; a restart forgets
  the marks with the batches and so keeps it.
* **`FoundInv`** (`InventoryProofs`). `found_count` is committed before the scan it
  counts, so it is covered by `Kept`: the tags with a record and those in the
  batch of a scan that can still commit. Before the first fault nothing leaves
  `Kept`.
* **`TallyInv`** (`InventoryProofs`). For a tag that is not marked, its records and
  the batches it is in are at most what earlier lives and forgotten tasks could
  spend, a scan of each thread for each of them. Once it is marked, only
  threads that looked it up before may still add it, so those count too, and
  the sum is at most one per thread more. The step that marks the tag moves a
  thread from wanting it to having it.
* **`PlaceInv`** (`RFIDProofs`, the buffer). The four places are disjoint, every read in
  them has a number below the next one (so a new read is in none), the sets are
  finite and their joint size is `totalProcessed_`; the hand is empty except
  during a callback (so `FlushAll` overwrites nothing). **`CleanupInv`** is
  `AcceptedPerCleanup` with the ordering it needs: an EPC is put in the buffer
  only when it is not in the set, and leaves the set only when the whole set is
  emptied, which counts; each clean-up is noted with its stamp, and the next
  needs a stamp more than two windows later.
* **`ReconnectInv`** (`RFIDProofs`, the reader). While the read thread is about to
  spawn a reconnect thread, the earlier one has reset the flag and is only
  returning, if it has not returned. The flag, set under the mutex and reset
  outside of it, is what guarantees that.
* **`FilterInv`** (`RFIDProofs`, the EPC processor). An entry the cache has is the
  time of the read kept last. An entry it has no more, and that is not excused
  by an eviction or a clearing, was outside of the window at the last sweep, and
  the sweep is not later than the clock. So a read that finds no entry is
  either a window later or excused.
* **`OneWorker`, `OrderInv`** (`TruthGateRunnerProofs`). There is no worker when
  the runner is stopped and no stop is under way, so a second `start` does not
  create two. `OrderInv` orders results, hand and queue by number: the newest
  stored result of a frame is older than the hand, which is older than
  everything queued, whose last element is the last submission.
* **`PlaceInv`** (`TruthGateRunnerProofs`), on top of `OrderInv`: every submission
  so far is in the queue, in the hand, a result or gone, what is gone is nowhere
  else, and a result stands under its own frame. That the other three places
  are disjoint then follows from the order: their numbers cannot be equal.
  `QueueImplemented` rests on both: the places say each submission's stage, the
  order says that the head of the queue is the oldest that waits and that a
  stored result is older than the one that replaces it. The queue's length is
  the number of those that wait because no number is in it twice.
* **`TypeInv`** (`AssetServiceProofs`) is `TypeOK` with `Selected`: between its
  SELECT and its UPDATE a call's asset has a row, because rows are never
  deleted. Without it the status an update returns to might be `UNKNOWN`.
* **`IInv`** (`CoordinateSystemsProofs`). `NoShortCycle` needs
  `ParentsRegistered`: a system that is created is nobody's parent yet, so its
  creation closes no cycle. For an update, the cycle it would close is read from
  the new parent on, round to the system itself: that is a walk of the old
  hierarchy, of as many nodes as the cycle has, and the check would have found
  it. `VersionsIncrease` needs `VersionsBelow`: the numbers in use are below
  `next_version_`, but for the default's.
* **`IInv`** (`TaskSchedulerProofs`). `OneStaleRun` rests on `FreshCopy`: an entry
  of the copy that is no longer what the task is has had no stale run yet, so
  running it makes one. `NeverEarly` rests on `Past`: a round's `now` is not
  later than the clock `parseCron` reads, so a run that is due was not
  computed from an earlier day than it is for.
* **`RecorderInv`** (`SpatialFrameProofs`). Of the file followed by the stream's
  buffer, each cell is part of a record, and is its first cell or follows the
  one before it in that record; records begin in the order of their frames. A
  crash cuts the end off, which keeps this: a torn record is one whose next cell
  is missing, and what is appended begins a record of its own.
* **`PlayerInv`** (`SpatialFrameProofs`). The index is a chain: it begins at the
  front, and each entry is where the header before it leads, so the entries
  ascend. While it is loaded, each cell before `place` lies between an entry and
  where that entry leads, so a header that is not torn away cannot be passed
  over; and that remains so when the recorder writes. A chain is a
  statement about neighbours: no recursive function of the file is needed, and
  none is in the model.
* **`LateInv`** (`SpatialFrameProofs`). From the moment `stop` has set the state, no
  step of the loop finds it playing, so the thread reads at most the frame it
  had already decided on; it counts towards the rewound position and the
  cleared queue once each.

A step lemma has one case per action; actions that leave the invariant's
variables alone are grouped. Each temporal theorem ends in
`BY ..., PTL DEF Spec`.

## 6 What is only model-checked

* **Liveness** (`AcquireReturns`, `Drains`, `ReconnectEnds`, `Evaluated`,
  `CloseReturns`, `PlaysOn`, `StopReturns` of the reader and the scheduler):
  temporal reasoning with fairness and `ENABLED` is out of the prover's reach.
The runs also evaluate every invariant and action property of section 5 on their
instances: that is how they were found to hold before they were proved, and how
the mutants show that each of them depends on the code. `LifecycleSpec` without
one writer per asset is false, as `asset_race` shows.

## 7 Where code and documents disagree

One disagreement has a run, with the quoted lines in `PROJECT.json`:

* **A status moves as the table forbids** (`asset_race`). `updateAssetStatus` checks
  `canTransition` on what it selected, then updates by id alone. Two calls that
  both read `IN_STOCK` commit `REPAIR`, then `IN_USE`, though
  models/asset.cpp:9-10 lets `REPAIR` go to `IN_STOCK` or `SCRAPPED` only. The
  log row of the second says `IN_STOCK → IN_USE`, which did not happen. In the
  same way two calls that both read `IN_USE` bring an asset back from `SCRAPPED`.

The models show the following too, and no run states them: what they violate is
a reader's expectation rather than a statement of the repository, or the path is
plain once it is named.

*Connections, assets and inventory*

* the pool outgrows its limit: the connection created for a woken caller whose
  own had died (db_pool.cpp:124) is not entered into `pool_`; when it is itself
  released broken, its replacement is, although nothing left. This takes a
  fault, and `LimitWithoutFaults` says that it takes one;
* generated codes collide after a restart: the counter starts at 1 again, and
  `setStartNumber` has no caller. `GeneratedFresh` covers the first life;
* the service logs to `asset_logs`; the scripts create `operation_logs`
  (init_db.sql:23). On a database they set up each change loses a connection,
  and the pool is empty after twenty; `LogGapsExplained` is what holds with the
  table and without it;
* an asset without tag stores the empty string in the UNIQUE column `rfid_epc`,
  so the second one is refused (`TagFree` models it);
* statistics of an empty table throw (`SummaryThrows`), and lose a connection;
* a failed scan swallows its tags: they stay marked, so repeating the scan skips
  them. `NoLostScan` covers the time before the first fault;
* two scans between `isProcessed` and `markProcessed` of the same tag count it
  twice; after a restart, or once its marks are forgotten, one thread alone
  does. `CountedOncePerThread` says that it gets no worse;
* a scan after `completeTask` sets the task back to `IN_PROGRESS`, and the
  task's counters are those of the last batch, not of the task.

*Reads*

* the push that cleans `recentEPCs_` forgets its own EPC, and a duplicate
  returns before the clean-up, so an EPC read alone may be dropped for ever; a
  stamp that comes late cleans nothing (`AcceptedPerCleanup` is what remains of
  the one-second window);
* a restored reader is silent: the read thread has ended and the reconnect
  thread starts no other;
* a loss that happens after a reconnect succeeded and before `reconnecting_` is
  reset is ignored; `isConnected` stays true after a loss; `stopAll` does not
  stop a reconnect, which then reopens the connection; `startAll` on a reader
  that is scanning joins a thread that will not end;
* a reader that ever spawned a reconnect ends the process when it is destroyed:
  `~Reader` is the default one, and `reconnectThread_` is still joinable
  (`Destroy`). Nobody calls `removeReader`, but at exit the manager, a static,
  destroys its readers in the same way;
* the EPC processor's callback gets all events of a batch, so whoever listens
  sees no filter; a reader whose clock is ahead silences a tag for the others
  until they have caught up, as an event older than the entry counts as a
  duplicate.

*Threads*

* `stop` of the truth-gate runner may never return: it sets the flag and
  notifies without the mutex, and both may fall between the worker's look and
  its sleep;
* `stop` of the scheduler deadlocks when it gets the mutex between the loop's
  test of `running_` and its lock; the destructor calls it;
* daily and weekly reports never run, because `parseCron` returns the run after
  the present one and it is compared with an earlier `now`. The client offers
  them: client/pages/bi/bi_report_page.cpp:168-181 adds the task "每日报表任务" with
  "0 9 * * *" and reports "定时任务添加成功！", and bi_service.h:12-16 has `DAILY` and
  `WEEKLY`. One step of `LoopNext` shows it: `NextRun` of the two is after `Today`
  at every clock. No property asserts it; `NeverEarly` is the half of the
  schedule that the code keeps;
* monthly reports run every round, once a minute, from nine to midnight on a
  first of the month; two tasks added within a second get the same id and are
  one;
* a `play` may be lost to a playback thread that is about to block; `stop` may
  leave one frame in the queue and the position at 1; the end of the file may
  overwrite a `play` that came meanwhile; a paused loop never sleeps; nobody
  takes frames from `frameQueue_`, and `close` keeps them.

*Frames and coordinates*

* README.md:65 and :77 promise a replay that repeats the recording ("可回放",
  "回放一致性"); frames behind a torn record may be missing from the index, a
  torn one stops the playback, and a read beyond the end makes the stream
  unusable until the file is opened again. `open` of an open recorder or player
  locks its own mutex twice;
* `spatial_truth/coordinate_system/README.md:7` promises "循环引用检测" and
  "版本单调递增": a system may be updated to be its own parent, a cycle of more
  than ten is not found, and `"global"` may have two versions 1. `NoShortCycle`
  and `VersionsIncrease` are what remains of the two;
* `getHierarchyTree` locks its own mutex twice; nobody calls it.

## 8 What is not modelled, and why

* **Planned** (section 9): calibration sessions, ground truth, drift chain,
  control plane, failure bus, recovery, the bandits' delayed rewards, rate
  limiter, the proof ledger's chain.
* **Generated code** – `asset.pb.*`, `bi.pb.*` and the gRPC stubs, which the
  protobuf compiler writes from `proto/` and which are checked in twice. They
  are the largest part of the repository's lines and have no logic of its own.
* **Numeric code** – truth-gate score, trajectory and graph analytics, bandits'
  and Bayesian estimators, geometry: floating-point arithmetic without protocol
  state.
* **Pure input and output** – logging, metrics, alerts, health monitor, report
  queries, configuration parsing, database scripts.
* **RPC stubs** – handlers that return fixed answers or forward a call. What
  they forward is in the service's model.
* **Not part of the server's build** – most of `server/runtime`, the agent,
  society, economy, civilization, governance, graph and topology directories,
  `edge_runtime`, `tools`; the audit service calls an operation `DBPool` does not
  have, and `LocalizationWorkerPool` and `DecisionFeedbackManager` lock mutexes
  that are not `mutable` in `const` members, so none of the three compiles.
* **Other programs** – the Qt client, the web backend.
* **Inside modelled components** – EPC parsing and normalisation, SQL text, the
  serial port's and simulator's I/O, the map of readers, log output, the pool's
  and services' getters; the reports a task writes, the fields of a frame, the
  coordinate transformer's arithmetic, the counters of the EPC processor that
  nothing reads. `TruthGateAsyncRunner::setQueueSize` has no caller.

## 9 Plan

The order is by how much of the system depends on a part, then by how hard it is
to test.

1. **Done.** The pool with its abstract specification; the asset service with
   its own; inventory with idempotency; the EPC buffer; the reader; the
   truth-gate runner; coordinate systems; the task scheduler; the EPC processor;
   recording and replay of frames; proofs of each one's safety and action
   properties.
2. **Next models.**
   * `CalibrationSession`, `DriftChain` and the store of ground truth: small
     state machines whose operations come in any order.
   * `RuntimeControl`: state table, failure bus with its cached
     `has_critical_`, recovery engine and emergency mode, composed, since they
     interact through callbacks. No build contains them at this commit.
   * `DelayedRewards`: pending rewards by decision, a worker that locks again
     what it holds, at most one reward for a decision.
   * `RateLimiter`, `ProofLedger`: small and sequential, and last for that.
3. **Compositions.** `AssetService` with `DBPool` in place of its count of
   connections; the reader's callback into `EPCProcessor`, and the player's
   thread over a file that `FrameRecording` writes.
4. **Abstract specifications.** A bounded multiset for the EPC buffer; "marked
   implies kept" as an abstract scan for the inventory; a log whose readers see
   a prefix of what was written, for the recording without crashes.
5. **Proofs.** The refinements of 4, step by step; the properties of the next models.

## 10 Running it

```
tlc -config MCDBPoolShared.cfg MCDBPool        # any run: cfg and module of PROJECT.json
tlapm DBPoolProofs.tla                         # any proof module
```

The longest run takes about three minutes with two workers; every proof
module is checked in a few minutes. The mutants in `PROJECT.json` replace one
definition by a plausible bug (`Bug…` operators in the modules, named for what
they get wrong) and each of them breaks its property under the run's own cfg.
