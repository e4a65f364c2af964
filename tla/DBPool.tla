------------------------------- MODULE DBPool -------------------------------
(***************************************************************************)
(* The PostgreSQL connection pool (server/db/db_pool.cpp) and the way the  *)
(* services use it.  The pool's mutex makes every critical section one     *)
(* step; cv_.wait_for splits acquire_with_timeout into the part before the *)
(* wait and the part after it.  A thread may hold two connections: the     *)
(* services acquire a second one (operation log, task counters) while the  *)
(* first is still theirs.                                                  *)
(*                                                                         *)
(* A connection is an identity.  It is `broken' once the server closed it  *)
(* and `inTxn' while a pqxx::work is open on it; isValidConnection fails   *)
(* on both, because its pqxx::nontransaction cannot start on a connection  *)
(* whose transaction is still active.                                      *)
(***************************************************************************)
EXTENDS Integers, FiniteSets, Sequences, SequencesExt

CONSTANTS
  Threads,            \* the gRPC threads that call the services
  Conns,              \* identities a pqxx::connection can have
  MaxConnections,     \* MAX_CONNECTIONS
  InitialConnections, \* RFID_DB_MAX_CONNECTIONS, or MAX_CONNECTIONS
  CallDepth,          \* connections one thread may hold at a time
  HeldMayStay,        \* whether reconnectAll may fail for a connection in use
  MaxFaults,          \* bound: outages, dropped connections, reconnectAll calls
  MaxThrows           \* bound: exceptions that skip a release

ASSUME DBPoolAssumption ==
  /\ IsFiniteSet(Conns)
  /\ MaxConnections \in Nat
  /\ InitialConnections \in 0..Cardinality(Conns)
  /\ CallDepth \in Nat
  /\ HeldMayStay \in BOOLEAN
  /\ MaxFaults \in Nat
  /\ MaxThrows \in Nat

VARIABLES
  pool,      \* pool_: every connection the pool counts
  available, \* availableConnections_
  inUse,     \* inUseCount_
  waiting,   \* threads inside cv_.wait_for
  held,      \* per thread, the connections it acquired, innermost call last
  inTxn,     \* connections with an open pqxx::work
  closing,   \* per thread, connections it released with the work still open
  dropped,   \* acquired, and given up without release (an exception)
  broken,    \* connections the server has closed
  dbUp,      \* the server accepts connections
  faults     \* outages, drops and reconnectAll calls so far

poolVars == <<pool, available, inUse, waiting>>
callVars == <<held, inTxn, closing, dropped>>
dbVars   == <<broken, dbUp, faults>>
vars     == <<pool, available, inUse, waiting, held, inTxn, closing, dropped,
              broken, dbUp, faults>>

Held(t)  == Range(held[t])
HeldBy   == UNION {Held(t) : t \in Threads}
Live     == pool \cup Range(available) \cup HeldBy

\* isValidConnection: "SELECT 1" inside a nontransaction.
BugOpenIsEnough(c) == c \notin broken
Valid(c) == c \notin broken /\ c \notin inTxn

\* createConnection: succeeds with a connection nobody refers to.
Creatable(c) == dbUp /\ c \in Conns \ (Live \cup inTxn)

Init ==
  /\ pool \in {S \in SUBSET Conns : Cardinality(S) = InitialConnections}
  /\ available \in SetToSeqs(pool)
  /\ inUse = 0
  /\ waiting = {}
  /\ held = [t \in Threads |-> <<>>]
  /\ inTxn = {}
  /\ closing = [t \in Threads |-> {}]
  /\ dropped = 0
  /\ broken = {}
  /\ dbUp = TRUE
  /\ faults = 0

-----------------------------------------------------------------------------
(* acquire_with_timeout, before the wait *)

MayAcquire(t) == t \notin waiting /\ closing[t] = {} /\ Len(held[t]) < CallDepth

FirstValid(i) ==
  /\ i \in DOMAIN available
  /\ Valid(available[i])
  /\ \A j \in 1..(i - 1) : ~Valid(available[j])

NoneValid == \A i \in DOMAIN available : ~Valid(available[i])

BugScanKeeps(i) == SubSeq(available, i, Len(available))
AfterScan(i) == SubSeq(available, i + 1, Len(available))

BugRoomAtLimit == Cardinality(pool) <= MaxConnections
PoolHasRoom == Cardinality(pool) < MaxConnections

Take(t, c) == held' = [held EXCEPT ![t] = Append(@, c)]

\* The scan drops invalid connections from the front (they stay in pool_)
\* and hands out the first valid one.
AcquireIdle(t) ==
  /\ MayAcquire(t)
  /\ \E i \in DOMAIN available :
        /\ FirstValid(i)
        /\ available' = AfterScan(i)
        /\ Take(t, available[i])
  /\ inUse' = inUse + 1
  /\ UNCHANGED <<pool, waiting, inTxn, closing, dropped, dbVars>>

AcquireNew(t) ==
  /\ MayAcquire(t)
  /\ NoneValid
  /\ PoolHasRoom
  /\ \E c \in Conns :
        /\ Creatable(c)
        /\ pool' = pool \cup {c}
        /\ Take(t, c)
        /\ broken' = broken \ {c}
  /\ available' = <<>>
  /\ inUse' = inUse + 1
  /\ UNCHANGED <<waiting, inTxn, closing, dropped, dbUp, faults>>

\* The pool is full, or the new connection could not be made.
AcquireWait(t) ==
  /\ MayAcquire(t)
  /\ NoneValid
  /\ PoolHasRoom => ~dbUp
  /\ available' = <<>>
  /\ waiting' = waiting \cup {t}
  /\ UNCHANGED <<pool, inUse, callVars, dbVars>>

-----------------------------------------------------------------------------
(* acquire_with_timeout, after the wait *)

BugStillWaiting(t) == waiting
Woken(t) == waiting \ {t}

BugBackStays == available
AfterBack == Front(available)

\* wait_for returns with the predicate true: the newest one is taken.
WakeValid(t) ==
  /\ t \in waiting
  /\ available # <<>>
  /\ Valid(Last(available))
  /\ available' = AfterBack
  /\ Take(t, Last(available))
  /\ inUse' = inUse + 1
  /\ waiting' = Woken(t)
  /\ UNCHANGED <<pool, inTxn, closing, dropped, dbVars>>

\* It went bad during the wait: the caller gets a new connection, which
\* pool_ does not learn about; the bad one stays in pool_.
WakeReplace(t) ==
  /\ t \in waiting
  /\ available # <<>>
  /\ ~Valid(Last(available))
  /\ available' = AfterBack
  /\ \E c \in Conns :
        /\ Creatable(c)
        /\ Take(t, c)
        /\ broken' = broken \ {c}
  /\ inUse' = inUse + 1
  /\ waiting' = Woken(t)
  /\ UNCHANGED <<pool, inTxn, closing, dropped, dbUp, faults>>

\* ... or DBConnectionError when that fails too.
WakeFail(t) ==
  /\ t \in waiting
  /\ available # <<>>
  /\ ~Valid(Last(available))
  /\ ~dbUp
  /\ available' = AfterBack
  /\ waiting' = Woken(t)
  /\ UNCHANGED <<pool, inUse, callVars, dbVars>>

BugWaitAgain(t) == t \in waiting /\ available = <<>> /\ UNCHANGED vars
\* ACQUIRE_TIMEOUT passes with nothing available: DBConnectionTimeout.
WaitTimeout(t) ==
  /\ t \in waiting
  /\ available = <<>>
  /\ waiting' = Woken(t)
  /\ UNCHANGED <<pool, available, inUse, callVars, dbVars>>

-----------------------------------------------------------------------------
(* release *)

Current(t) == Last(held[t])
Running(t) == t \notin waiting /\ closing[t] = {} /\ held[t] # <<>>

\* The caller is done with its innermost connection.
Drop(t) == held' = [held EXCEPT ![t] = Front(@)]

BugNotDecremented == inUse
Decremented == IF inUse > 0 THEN inUse - 1 ELSE inUse

ReleaseValid(t) ==
  /\ Running(t)
  /\ Valid(Current(t))
  /\ available' = Append(available, Current(t))
  /\ Drop(t)
  /\ inUse' = Decremented
  /\ UNCHANGED <<pool, waiting, inTxn, closing, dropped, dbVars>>

ReleaseReplace(t) ==
  /\ Running(t)
  /\ ~Valid(Current(t))
  /\ \E c \in Conns :
        /\ Creatable(c)
        /\ pool' = (pool \ {Current(t)}) \cup {c}
        /\ available' = Append(available, c)
        /\ broken' = broken \ {c}
  /\ Drop(t)
  /\ closing' = [closing EXCEPT ![t] = inTxn \cap {Current(t)}]
  /\ inUse' = Decremented
  /\ UNCHANGED <<waiting, inTxn, dropped, dbUp, faults>>

ReleaseLost(t) ==
  /\ Running(t)
  /\ ~Valid(Current(t))
  /\ ~dbUp
  /\ pool' = pool \ {Current(t)}
  /\ Drop(t)
  /\ closing' = [closing EXCEPT ![t] = inTxn \cap {Current(t)}]
  /\ inUse' = Decremented
  /\ UNCHANGED <<available, waiting, inTxn, dropped, dbVars>>

-----------------------------------------------------------------------------
(* reconnectAll *)

\* Each entry of pool_ is tried on its own, the connections in use included;
\* one whose attempts all fail stays as it is, and all do while the server is
\* down.  available_ is rebuilt from the entries that say is_open(); the client
\* side does not notice a closed socket until it uses it, so a broken entry may
\* say so too.
ReconnectAll ==
  /\ faults < MaxFaults
  /\ faults' = faults + 1
  /\ \E kept \in SUBSET pool, stale \in SUBSET broken :
        /\ ~dbUp => kept = pool
        /\ ~HeldMayStay => kept \cap (HeldBy \cup inTxn) = {}
        /\ \E new \in SUBSET (Conns \ (kept \cup HeldBy \cup inTxn)) :
              /\ Cardinality(new) = Cardinality(pool \ kept)
              /\ pool' = kept \cup new
              /\ broken' = broken \ new
        /\ available' \in SetToSeqs(pool' \ (broken' \ stale))
  /\ UNCHANGED <<inUse, waiting, callVars, dbUp>>

-----------------------------------------------------------------------------
(* What the services do with a connection between acquire and release *)

\* pqxx::work W(*C)
BeginWork(t) ==
  /\ Running(t)
  /\ Valid(Current(t))
  /\ inTxn' = inTxn \cup {Current(t)}
  /\ UNCHANGED <<poolVars, held, closing, dropped, dbVars>>

\* W.commit()
Commit(t) ==
  /\ Running(t)
  /\ Current(t) \in inTxn
  /\ Current(t) \notin broken
  /\ inTxn' = inTxn \ {Current(t)}
  /\ UNCHANGED <<poolVars, held, closing, dropped, dbVars>>

\* The service returns: a work it had not committed when it called release
\* is closed only now, because the pqxx::work lives to the end of its scope.
ScopeEnd(t) ==
  /\ closing[t] # {}
  /\ inTxn' = inTxn \ closing[t]
  /\ closing' = [closing EXCEPT ![t] = {}]
  /\ UNCHANGED <<poolVars, held, dropped, dbVars>>

\* An exception leaves the service before it reaches release.
Throw(t) ==
  /\ Running(t)
  /\ dropped < MaxThrows
  /\ Drop(t)
  /\ inTxn' = inTxn \ {Current(t)}
  /\ dropped' = dropped + 1
  /\ UNCHANGED <<poolVars, closing, dbVars>>

-----------------------------------------------------------------------------
(* The database server *)

Outage ==
  /\ dbUp
  /\ faults < MaxFaults
  /\ faults' = faults + 1
  /\ dbUp' = FALSE
  /\ broken' = broken \cup Live
  /\ UNCHANGED <<poolVars, callVars>>

Restore ==
  /\ ~dbUp
  /\ dbUp' = TRUE
  /\ UNCHANGED <<poolVars, callVars, broken, faults>>

DropConnection(c) ==
  /\ faults < MaxFaults
  /\ c \in Live \ broken
  /\ broken' = broken \cup {c}
  /\ faults' = faults + 1
  /\ UNCHANGED <<poolVars, callVars, dbUp>>

-----------------------------------------------------------------------------
Acquire(t)  == AcquireIdle(t) \/ AcquireNew(t) \/ AcquireWait(t)
Wake(t)     == WakeValid(t) \/ WakeReplace(t) \/ WakeFail(t) \/ WaitTimeout(t)
Release(t)  == ReleaseValid(t) \/ ReleaseReplace(t) \/ ReleaseLost(t)
Database    == Outage \/ Restore \/ (\E c \in Conns : DropConnection(c))

Next ==
  \/ \E t \in Threads :
        \/ Acquire(t) \/ Wake(t) \/ Release(t)
        \/ BeginWork(t) \/ Commit(t) \/ ScopeEnd(t) \/ Throw(t)
  \/ ReconnectAll
  \/ Database

Spec == Init /\ [][Next]_vars

\* A waiting thread is scheduled, and its deadline passes.
FairSpec == Spec /\ \A t \in Threads : WF_vars(Wake(t))

-----------------------------------------------------------------------------
(* Properties *)

\* The pool's bookkeeping and the callers' connections keep their types.
TypeOK ==
  /\ pool \subseteq Conns
  /\ available \in Seq(Conns)
  /\ inUse \in Nat
  /\ waiting \subseteq Threads
  /\ held \in [Threads -> Seq(Conns)]
  /\ \A t \in Threads : Len(held[t]) + (IF t \in waiting THEN 1 ELSE 0) <= CallDepth
  /\ inTxn \subseteq Conns
  /\ closing \in [Threads -> SUBSET Conns]
  /\ dropped \in Nat
  /\ broken \subseteq Conns
  /\ dbUp \in BOOLEAN
  /\ faults \in Nat

\* No connection is handed to two callers, or is idle while somebody still
\* uses it: what acquire and release exist for.
Exclusive ==
  /\ IsInjective(available)
  /\ Range(available) \cap HeldBy = {}
  /\ \A t \in Threads : IsInjective(held[t])
  /\ \A t, u \in Threads : t # u => Held(t) \cap Held(u) = {}

\* No idle connection carries an open transaction, so nobody is ever handed
\* another caller's half-done work: a service that releases before its
\* pqxx::work ends gets its connection refused by isValidConnection.
NoWorkOnIdle == Range(available) \cap inTxn = {}

\* The acquisitions not yet released: a thread, and a place in its stack.
Acquired == UNION {{t} \X DOMAIN held[t] : t \in Threads}

\* inUseCount_ is the number of acquisitions not yet released, the ones that
\* an exception gave up included: the "> 0" guard in release never acts.
InUseExact == inUse = dropped + Cardinality(Acquired)

\* Acquire and release are leases: each call grants one connection nobody has
\* or gives up one the caller has, and no other step moves a connection.
Leases == [t \in Threads |-> Held(t)]
Lease == INSTANCE ConnectionLease WITH leases <- Leases
LeaseSpec == Lease!Spec

Limit == IF InitialConnections > MaxConnections THEN InitialConnections ELSE MaxConnections

\* As long as the server keeps its connections and nobody calls reconnectAll,
\* the pool stays within its limit, also when services release connections
\* with open work and leave exceptions behind.
LimitWithoutFaults == faults = 0 => Cardinality(pool) <= Limit

\* Threads that each hold a connection and wait for another do not wait
\* forever: the deadline of acquire_with_timeout gets them out.
AcquireReturns ==
  \A t \in Threads : t \in waiting ~> t \notin waiting
=============================================================================
