---------------------------- MODULE AssetService ----------------------------
(***************************************************************************)
(* The asset service (server/services/asset_service.cpp): gRPC threads run *)
(* its calls concurrently, each against its own pooled connection and its  *)
(* own PostgreSQL transaction (READ COMMITTED).  A call that changes an    *)
(* asset takes a second connection, while it holds the first, to write the *)
(* operation log.  An exception skips the release of the connection that   *)
(* was acquired last.                                                      *)
(*                                                                         *)
(* The pool appears as the number of connections it can still hand out:    *)
(* DBPool models the rest.  UPDATE and COMMIT are one step, as are INSERT  *)
(* and COMMIT: nobody sees what is in between.  A call whose first acquire *)
(* times out, or that is refused before it, changes nothing and is not a   *)
(* step.                                                                   *)
(***************************************************************************)
EXTENDS Integers, FiniteSets, BagsExt

Bag == INSTANCE Bags

CONSTANTS
  Threads,         \* the gRPC threads
  Assets,          \* the ids the serial column can produce
  Targets,         \* per thread, the assets its callers change
  GivenCodes,      \* asset codes the callers choose themselves
  Tags,            \* EPCs; NoTag is the empty string of an untagged asset
  NoTag,
  MaxConnections,
  MaxChanges,      \* bound: committed changes after which no call starts
  MaxFaults,       \* bound: failing statements
  MaxRestarts      \* bound: restarts of the server

ASSUME AssetServiceAssumption ==
  /\ IsFiniteSet(Threads)
  /\ Targets \in [Threads -> SUBSET Assets]
  /\ GivenCodes \subseteq Nat
  /\ NoTag \in Tags
  /\ MaxConnections \in Nat /\ MaxChanges \in Nat /\ MaxFaults \in Nat /\ MaxRestarts \in Nat

VARIABLES
  assets,    \* table assets: Absent, or its status, code and EPC
  changes,   \* bag of the committed changes, as they really happened
  log,       \* table asset_logs, a bag of changes as the service reports them
  call,      \* per thread, the call it is in
  free,      \* connections the pool can hand out
  leaked,    \* connections an exception gave up
  lastCode,  \* lastGeneratedCode_
  logTable,  \* whether there is a table asset_logs: no script creates it
  faults, restarts,
  failed,    \* history: log rows whose INSERT failed
  starved    \* history: log rows no connection was found for

vars == <<assets, changes, log, call, free, leaked, lastCode, logTable, faults, restarts,
          failed, starved>>

Unknown  == "UNKNOWN"
Statuses == {"IN_STOCK", "IN_USE", "REPAIR", "SCRAPPED"}

Row    == [status : Statuses, code : Nat, tag : Tags]
Absent == [status |-> Unknown, code |-> 0, tag |-> NoTag]
Exists(a) == assets[a] # Absent

Change == [asset : Assets, old : Statuses \cup {Unknown}, new : Statuses]

\* The program counter of a call, its arguments, and the status it read.
Idle == [pc |-> "idle"]
Calls ==
  {Idle}
  \cup [pc : {"insert"}, code : Nat, generated : BOOLEAN, tag : Tags]
  \cup [pc : {"select"}, asset : Assets, new : Statuses]
  \cup [pc : {"update", "log", "write"}, asset : Assets,
        old : Statuses \cup {Unknown}, new : Statuses]
  \cup [pc : {"query", "return"}]

BugAnyTransition(from, to) == TRUE
\* AssetStatusMachine::canTransition
CanTransition(from, to) ==
  CASE from = "IN_STOCK" -> to \in {"IN_USE", "REPAIR"}
    [] from = "IN_USE"   -> to \in {"IN_STOCK", "REPAIR", "SCRAPPED"}
    [] from = "REPAIR"   -> to \in {"IN_STOCK", "SCRAPPED"}
    [] OTHER             -> FALSE

Init ==
  /\ assets = [a \in Assets |-> Absent]
  /\ changes = Bag!EmptyBag
  /\ log = Bag!EmptyBag
  /\ call = [t \in Threads |-> Idle]
  /\ free = MaxConnections
  /\ leaked = 0
  /\ lastCode = 0
  /\ logTable \in BOOLEAN
  /\ faults = 0 /\ restarts = 0
  /\ failed = 0 /\ starved = 0

-----------------------------------------------------------------------------
At(t, pc) == call[t].pc = pc
Goto(t, c) == call' = [call EXCEPT ![t] = c]
GoOn(t, pc) ==   \* with the same asset and statuses
  Goto(t, [pc |-> pc, asset |-> call[t].asset, old |-> call[t].old, new |-> call[t].new])

\* acquire: the calling thread leaves the idle state with one connection.
Begin(t, c) ==
  /\ At(t, "idle")
  /\ free > 0
  /\ free' = free - 1
  /\ Goto(t, c)

\* Bound on the calls that change something.
MayChange == Bag!BagCardinality(changes) < MaxChanges

\* release, and the call returns.
BugKeepsConnection == free
Released == free + 1
Return(t) ==
  /\ free' = Released
  /\ Goto(t, Idle)

\* An exception leaves the function: its connection is never released.
Leak == leaked' = leaked + 1

-----------------------------------------------------------------------------
(* createAsset *)

BugNextCode == lastCode
NextCode == lastCode + 1

CreateGenerated(t, tag) ==
  /\ MayChange
  /\ Begin(t, [pc |-> "insert", code |-> NextCode, generated |-> TRUE, tag |-> tag])
  /\ lastCode' = NextCode
  /\ UNCHANGED <<assets, changes, log, leaked, logTable, faults, restarts, failed, starved>>

CreateGiven(t, code, tag) ==
  /\ MayChange
  /\ Begin(t, [pc |-> "insert", code |-> code, generated |-> FALSE, tag |-> tag])
  /\ UNCHANGED <<assets, changes, log, leaked, lastCode, logTable, faults, restarts,
                 failed, starved>>

\* The UNIQUE columns: NULL would not count, the empty string does.
CodeFree(c) == \A a \in Assets : Exists(a) => assets[a].code # c
TagFree(g)  == \A a \in Assets : Exists(a) => assets[a].tag # g

Report(a, old, new) == [asset |-> a, old |-> old, new |-> new]

Insert(t) ==
  /\ At(t, "insert")
  /\ CodeFree(call[t].code) /\ TagFree(call[t].tag)
  /\ \E a \in Assets :
        /\ ~Exists(a)
        /\ assets' = [assets EXCEPT ![a] =
              [status |-> "IN_STOCK", code |-> call[t].code, tag |-> call[t].tag]]
        /\ changes' = BagAdd(changes, Report(a, Unknown, "IN_STOCK"))
        /\ Goto(t, [pc |-> "log", asset |-> a, old |-> Unknown, new |-> "IN_STOCK"])
  /\ UNCHANGED <<log, free, leaked, lastCode, logTable, faults, restarts, failed, starved>>

InsertRefused(t) ==
  /\ At(t, "insert")
  /\ ~(CodeFree(call[t].code) /\ TagFree(call[t].tag))
  /\ Goto(t, Idle)
  /\ Leak
  /\ UNCHANGED <<assets, changes, log, free, lastCode, logTable, faults, restarts, failed,
                 starved>>

-----------------------------------------------------------------------------
(* updateAssetStatus *)

BeginUpdate(t, a, new) ==
  /\ MayChange
  /\ Begin(t, [pc |-> "select", asset |-> a, new |-> new])
  /\ UNCHANGED <<assets, changes, log, leaked, lastCode, logTable, faults, restarts,
                 failed, starved>>

Select(t) ==
  /\ At(t, "select")
  /\ LET a == call[t].asset  new == call[t].new IN
     /\ CanTransition(assets[a].status, new)
     /\ Goto(t, [pc |-> "update", asset |-> a, old |-> assets[a].status, new |-> new])
  /\ UNCHANGED <<assets, changes, log, free, leaked, lastCode, logTable, faults, restarts,
                 failed, starved>>

\* AssetNotFoundException or InvalidStatusTransitionException, both after a
\* release.
SelectRefuses(t) ==
  /\ At(t, "select")
  /\ ~CanTransition(assets[call[t].asset].status, call[t].new)
  /\ Return(t)
  /\ UNCHANGED <<assets, changes, log, leaked, lastCode, logTable, faults, restarts,
                 failed, starved>>

\* The row is not read again, and the UPDATE names only its id.
Update(t) ==
  /\ At(t, "update")
  /\ LET a == call[t].asset  new == call[t].new IN
     /\ assets' = [assets EXCEPT ![a].status = new]
     /\ changes' = BagAdd(changes, Report(a, assets[a].status, new))
  /\ GoOn(t, "log")
  /\ UNCHANGED <<log, free, leaked, lastCode, logTable, faults, restarts, failed, starved>>

-----------------------------------------------------------------------------
(* logAssetOperation: its failures are caught *)

LogAcquire(t) ==
  /\ At(t, "log")
  /\ free > 0
  /\ free' = free - 1
  /\ GoOn(t, "write")
  /\ UNCHANGED <<assets, changes, log, leaked, lastCode, logTable, faults, restarts,
                 failed, starved>>

LogTimeout(t) ==
  /\ At(t, "log")
  /\ free = 0
  /\ starved' = starved + 1
  /\ Goto(t, [pc |-> "return"])
  /\ UNCHANGED <<assets, changes, log, free, leaked, lastCode, logTable, faults, restarts,
                 failed>>

BugLogsCurrent(t) == Report(call[t].asset, assets[call[t].asset].status, call[t].new)
Reported(t) == Report(call[t].asset, call[t].old, call[t].new)

BugSkipsLog(t) == log
Logged(t) == BagAdd(log, Reported(t))

WriteLog(t) ==
  /\ At(t, "write")
  /\ logTable
  /\ log' = Logged(t)
  /\ free' = Released
  /\ Goto(t, [pc |-> "return"])
  /\ UNCHANGED <<assets, changes, leaked, lastCode, logTable, faults, restarts, failed,
                 starved>>

\* The INSERT fails, always if there is no such table; the exception is caught,
\* but its connection is lost.
LogFails(t) ==
  /\ At(t, "write")
  /\ logTable => faults < MaxFaults
  /\ faults' = IF logTable THEN faults + 1 ELSE faults
  /\ failed' = failed + 1
  /\ Leak
  /\ Goto(t, [pc |-> "return"])
  /\ UNCHANGED <<assets, changes, log, free, lastCode, logTable, restarts, starved>>

Finish(t) ==
  /\ At(t, "return")
  /\ Return(t)
  /\ UNCHANGED <<assets, changes, log, leaked, lastCode, logTable, faults, restarts,
                 failed, starved>>

-----------------------------------------------------------------------------
(* getAsset, listAssets, getTotalCount, getAssetStatistics: which one it is, *)
(* and what its caller gets, is left out                                    *)

BeginQuery(t) ==
  /\ Begin(t, [pc |-> "query"])
  /\ UNCHANGED <<assets, changes, log, leaked, lastCode, logTable, faults, restarts,
                 failed, starved>>

QueryReturns(t) ==
  /\ At(t, "query")
  /\ Return(t)
  /\ UNCHANGED <<assets, changes, log, leaked, lastCode, logTable, faults, restarts,
                 failed, starved>>

\* The statistics of an empty table: SUM over no rows is NULL, which
\* as<int64_t>() refuses.
SummaryThrows(t) ==
  /\ At(t, "query")
  /\ \A a \in Assets : ~Exists(a)
  /\ Goto(t, Idle)
  /\ Leak
  /\ UNCHANGED <<assets, changes, log, free, lastCode, logTable, faults, restarts, failed,
                 starved>>

-----------------------------------------------------------------------------
\* A statement fails, and its transaction with it.
Fault(t) ==
  /\ faults < MaxFaults
  /\ faults' = faults + 1
  /\ call[t].pc \in {"insert", "select", "update", "query"}
  /\ Goto(t, Idle)
  /\ Leak
  /\ UNCHANGED <<assets, changes, log, free, lastCode, logTable, restarts, failed, starved>>

\* The process dies and starts again: only the tables remain.
Restart ==
  /\ restarts < MaxRestarts
  /\ restarts' = restarts + 1
  /\ call' = [t \in Threads |-> Idle]
  /\ free' = MaxConnections
  /\ leaked' = 0
  /\ lastCode' = 0
  /\ UNCHANGED <<assets, changes, log, logTable, faults, failed, starved>>

Create(t) ==
  \E tag \in Tags :
    \/ CreateGenerated(t, tag)
    \/ \E c \in GivenCodes : CreateGiven(t, c, tag)

Step(t) ==
  \/ Create(t) \/ Insert(t) \/ InsertRefused(t)
  \/ \E a \in Targets[t], new \in Statuses : BeginUpdate(t, a, new)
  \/ Select(t) \/ SelectRefuses(t) \/ Update(t)
  \/ LogAcquire(t) \/ LogTimeout(t) \/ WriteLog(t) \/ LogFails(t) \/ Finish(t)
  \/ BeginQuery(t) \/ QueryReturns(t) \/ SummaryThrows(t)
  \/ Fault(t)

Next == Restart \/ \E t \in Threads : Step(t)

Spec == Init /\ [][Next]_vars

-----------------------------------------------------------------------------
(* Properties *)

\* The tables, the calls and the pool's counters keep their types.
TypeOK ==
  /\ assets \in [Assets -> Row \cup {Absent}]
  /\ Bag!IsABag(changes) /\ DOMAIN changes \subseteq Change
  /\ Bag!IsABag(log) /\ DOMAIN log \subseteq Change
  /\ call \in [Threads -> Calls]
  /\ free \in Nat
  /\ leaked \in Nat
  /\ lastCode \in Nat

\* Every committed change of an asset's status is one canTransition allows,
\* although the check and the UPDATE are apart; SCRAPPED stays final.
Status == [a \in Assets |-> assets[a].status]
Lifecycle == INSTANCE AssetLifecycle WITH status <- Status
LifecycleSpec == Lifecycle!Spec

\* Every row of one bag is in another one, and there as often at least.
Copies(r, bag) == IF r \in DOMAIN bag THEN bag[r] ELSE 0
Within(part, bag) == \A r \in DOMAIN part : part[r] <= Copies(r, bag)

\* The operation log tells of nothing that did not happen: each row is a
\* committed change, from the status the asset really had.
LogTruthful == Within(log, changes)

Unlogged == {t \in Threads : call[t].pc \in {"log", "write"}}
Pending(r) == {t \in Unlogged : Reported(t) = r}
MissingAtMost(n) ==
  \A r \in DOMAIN changes : changes[r] <= Copies(r, log) + Cardinality(Pending(r)) + n
Starving == \E t \in Threads : At(t, "log") /\ free = 0
PoolTooSmall == leaked + 2 * Cardinality(Threads) > MaxConnections

\* A committed change misses its row in the operation log for one of four
\* reasons: its call is still on the way to write it, the INSERT failed, the
\* pool had no connection left for it, or the server died in between, which
\* costs a thread one row at most. So no change lacks more rows than these add
\* up to; while the table is there, no INSERT fails but for a failing
\* statement; and a call finds no connection for its row only where exceptions
\* have lost so many that the pool holds less than two for every thread
\* (asset_service.cpp:35-37, :109-111, :211-230).
LogGapsExplained ==
  /\ MissingAtMost(failed + starved + Cardinality(Threads) * restarts)
  /\ logTable => failed <= faults
  /\ Starving => PoolTooSmall

\* Connections are idle, in a call (a second one while it writes the log), or
\* lost to an exception; none is counted twice, whatever path a call takes.
InCall == {t \in Threads : ~At(t, "idle")}
InLog  == {t \in Threads : At(t, "write")}
ConnectionsConserved ==
  free + leaked + Cardinality(InCall) + Cardinality(InLog) = MaxConnections

\* An INSERT with a generated code is never refused because of the code, in
\* every life of the server.
CodeIsNew ==
  \A t \in Threads :
    At(t, "insert") /\ call[t].generated => CodeFree(call[t].code)

\* ... at least in its first life: two threads never generate the same code.
GeneratedFresh == restarts = 0 => CodeIsNew
=============================================================================
