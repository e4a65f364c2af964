-------------------------- MODULE AssetServiceProofs --------------------------
(***************************************************************************)
(* What holds of the asset service for every number of threads, assets and *)
(* connections, through failing statements and restarts.                   *)
(***************************************************************************)
EXTENDS AssetService, FiniteSetTheorems, TLAPS

\* Every asset is changed by the callers of one thread only.
OneWriterPerAsset ==
  \A t, u \in Threads : t # u => Targets[t] \cap Targets[u] = {}

-----------------------------------------------------------------------------
(* The lifecycle of an asset *)

\* What a thread between its SELECT and its UPDATE relies on: the status it
\* read is still the asset's.
ReadStillTrue(t) ==
  /\ At(t, "select") => call[t].asset \in Targets[t]
  /\ At(t, "update") =>
       /\ call[t].asset \in Targets[t]
       /\ call[t].new \in Statuses
       /\ call[t].old = assets[call[t].asset].status
       /\ CanTransition(call[t].old, call[t].new)

StatusInv ==
  /\ assets \in [Assets -> Row \cup {Absent}]
  /\ call = [t \in Threads |-> call[t]]
  /\ \A t \in Threads : At(t, "select") => call[t].new \in Statuses
  /\ \A t \in Threads : At(t, "insert") => call[t].code \in Nat /\ call[t].tag \in Tags
  /\ lastCode \in Nat
  /\ \A t \in Threads : ReadStillTrue(t)

LEMMA RowFacts ==
  ASSUME NEW r \in Row \cup {Absent}
  PROVE  /\ r.status \in Statuses \cup {Unknown}
         /\ r = Absent <=> r.status = Unknown
         /\ \A s \in Statuses : r \in Row => [r EXCEPT !.status = s] \in Row
                                             /\ [r EXCEPT !.status = s].status = s
BY DEF Row, Absent, Statuses, Unknown

LEMMA GotoFacts ==
  ASSUME call = [t \in Threads |-> call[t]], NEW t \in Threads, NEW c, Goto(t, c)
  PROVE  /\ call' = [u \in Threads |-> call'[u]]
         /\ call'[t] = c
         /\ \A u \in Threads : u # t => call'[u] = call[u]
BY DEF Goto

\* A call may move to c: what ReadStillTrue and the types ask of it.
MayMoveTo(t, c) ==
  /\ c.pc = "insert" => c.code \in Nat /\ c.tag \in Tags
  /\ c.pc = "select" => c.asset \in Targets[t] /\ c.new \in Statuses
  /\ c.pc = "update" =>
       /\ c.asset \in Targets[t]
       /\ c.new \in Statuses
       /\ c.old = assets[c.asset].status
       /\ CanTransition(c.old, c.new)

\* A thread that moves on without touching the table keeps the invariant.
LEMMA MoveKeepsInv ==
  ASSUME StatusInv, NEW t \in Threads, NEW c, Goto(t, c), MayMoveTo(t, c),
         assets' = assets, lastCode' \in Nat
  PROVE  StatusInv'
<1>1. /\ call' = [u \in Threads |-> call'[u]]
      /\ call'[t] = c
      /\ \A u \in Threads : u # t => call'[u] = call[u]
  BY GotoFacts DEF StatusInv
<1>2. ASSUME NEW u \in Threads
      PROVE  /\ At(u, "select")' => call'[u].new \in Statuses
             /\ At(u, "insert")' => call'[u].code \in Nat /\ call'[u].tag \in Tags
             /\ ReadStillTrue(u)'
  <2>1. CASE u = t
    BY <1>1, <2>1 DEF MayMoveTo, At, ReadStillTrue
  <2>2. CASE u # t
    BY <1>1, <2>2 DEF At, ReadStillTrue, StatusInv
  <2> QED BY <2>1, <2>2
<1> QED BY <1>1, <1>2 DEF StatusInv

\* A thread that changes the row of asset a, which no other thread is about
\* to change, keeps the invariant.
LEMMA WriteKeepsInv ==
  ASSUME StatusInv, NEW t \in Threads, NEW c, Goto(t, c), c.pc = "log",
         NEW a \in Assets, NEW r \in Row, assets' = [assets EXCEPT ![a] = r],
         \A u \in Threads : u # t => ~(At(u, "update") /\ call[u].asset = a),
         lastCode' \in Nat
  PROVE  StatusInv'
<1>1. /\ call' = [u \in Threads |-> call'[u]]
      /\ call'[t] = c
      /\ \A u \in Threads : u # t => call'[u] = call[u]
  BY GotoFacts DEF StatusInv
<1>2. /\ assets' \in [Assets -> Row \cup {Absent}]
      /\ \A b : b # a => assets'[b] = assets[b]
  BY DEF StatusInv
<1>3. ASSUME NEW u \in Threads
      PROVE  /\ At(u, "select")' => call'[u].new \in Statuses
             /\ At(u, "insert")' => call'[u].code \in Nat /\ call'[u].tag \in Tags
             /\ ReadStillTrue(u)'
  <2>1. CASE u = t
    BY <1>1, <2>1 DEF At, ReadStillTrue
  <2>2. CASE u # t
    <3>1. call'[u] = call[u] /\ (At(u, "update") => call[u].asset # a)
      BY <1>1, <2>2
    <3>2. At(u, "update") => assets'[call[u].asset] = assets[call[u].asset]
      BY <1>2, <3>1
    <3> QED BY <3>1, <3>2 DEF At, ReadStillTrue, StatusInv
  <2> QED BY <2>1, <2>2
<1> QED BY <1>1, <1>2, <1>3 DEF StatusInv

\* No transition starts where there is no row.
LEMMA NoTransitionFromUnknown == \A s : ~CanTransition(Unknown, s)
BY DEF CanTransition, Unknown

\* The table's two writes, with what they do to an asset's status.
LEMMA InsertFacts ==
  ASSUME StatusInv, OneWriterPerAsset, NEW t \in Threads, Insert(t)
  PROVE  StatusInv' /\ Lifecycle!Next
<1>1. PICK a \in Assets :
        /\ ~Exists(a)
        /\ assets' = [assets EXCEPT ![a] =
              [status |-> "IN_STOCK", code |-> call[t].code, tag |-> call[t].tag]]
        /\ Goto(t, [pc |-> "log", asset |-> a, old |-> Unknown, new |-> "IN_STOCK"])
  BY DEF Insert
<1> DEFINE r == [status |-> "IN_STOCK", code |-> call[t].code, tag |-> call[t].tag]
<1>2. r \in Row /\ r.status = "IN_STOCK"
  BY DEF Insert, StatusInv, Row, Statuses
<1>3. assets[a] \in Row \cup {Absent} /\ assets[a].status = Unknown
  BY <1>1 DEF Exists, StatusInv, Absent
<1>4. \A u \in Threads : u # t => ~(At(u, "update") /\ call[u].asset = a)
  BY <1>3, NoTransitionFromUnknown DEF StatusInv, ReadStillTrue
<1>5. lastCode' \in Nat
  BY DEF Insert, StatusInv
<1>6. StatusInv'
  BY <1>1, <1>2, <1>4, <1>5, WriteKeepsInv
<1>7. Status' = [Status EXCEPT ![a] = "IN_STOCK"]
  BY <1>1, <1>2 DEF Status, StatusInv
<1>8. Lifecycle!Enter(a)
  BY <1>3, <1>7 DEF Lifecycle!Enter, Lifecycle!Unknown, Unknown, Status
<1> QED BY <1>6, <1>8 DEF Lifecycle!Next

LEMMA UpdateFacts ==
  ASSUME StatusInv, OneWriterPerAsset, NEW t \in Threads, Update(t)
  PROVE  StatusInv' /\ Lifecycle!Next
<1> DEFINE a == call[t].asset
           new == call[t].new
           r == [assets[a] EXCEPT !.status = new]
<1>1. /\ a \in Targets[t] /\ new \in Statuses
      /\ CanTransition(assets[a].status, new)
  BY DEF Update, StatusInv, ReadStillTrue
<1>2. a \in Assets
  BY <1>1, AssetServiceAssumption
<1>3. assets[a] \in Row
  <2>1. assets[a] \in Row \cup {Absent}
    BY <1>2 DEF StatusInv
  <2>2. assets[a].status # Unknown
    BY <1>1, NoTransitionFromUnknown
  <2> QED BY <2>1, <2>2, RowFacts
<1>4. r \in Row /\ r.status = new
  BY <1>1, <1>3, RowFacts
<1>5. assets' = [assets EXCEPT ![a] = r] /\ lastCode' \in Nat
  BY DEF Update, StatusInv
<1>6. \A u \in Threads : u # t => ~(At(u, "update") /\ call[u].asset = a)
  BY <1>1 DEF OneWriterPerAsset, StatusInv, ReadStillTrue
<1>7. StatusInv'
  <2>1. PICK c : Goto(t, c) /\ c.pc = "log"
    BY DEF Update, GoOn
  <2> HIDE DEF a, new, r
  <2> QED BY <1>2, <1>4, <1>5, <1>6, <2>1, WriteKeepsInv
<1>8. Status' = [Status EXCEPT ![a] = new]
  <2> HIDE DEF a, new, r
  <2> QED BY <1>2, <1>4, <1>5 DEF Status, StatusInv
<1>9. Lifecycle!Move(a)
  <2>1. <<Status[a], new>> \in Lifecycle!Allowed
    BY <1>1, <1>2 DEF Status, CanTransition, Lifecycle!Allowed
  <2>2. new \in Lifecycle!Statuses
    BY <1>1 DEF Lifecycle!Statuses, Statuses
  <2> QED BY <1>8, <2>1, <2>2 DEF Lifecycle!Move
<1> QED BY <1>2, <1>7, <1>9 DEF Lifecycle!Next

\* The steps that touch neither the table nor the code counter.
Quiet(t) ==
  \/ InsertRefused(t) \/ SelectRefuses(t) \/ LogAcquire(t) \/ LogTimeout(t)
  \/ WriteLog(t) \/ LogFails(t) \/ Finish(t) \/ QueryReturns(t)
  \/ SummaryThrows(t) \/ Fault(t)
  \/ BeginQuery(t)

LEMMA QuietFacts ==
  ASSUME NEW t \in Threads, Quiet(t)
  PROVE  /\ \/ Goto(t, [pc |-> "idle"]) \/ Goto(t, [pc |-> "return"])
            \/ Goto(t, [pc |-> "query"]) \/ GoOn(t, "write")
         /\ assets' = assets
         /\ lastCode' = lastCode
<1>1. CASE \/ InsertRefused(t) \/ SelectRefuses(t) \/ Finish(t)
           \/ QueryReturns(t) \/ SummaryThrows(t)
  BY <1>1, Zenon DEF InsertRefused, SelectRefuses, Finish, QueryReturns,
                     SummaryThrows, Return, Idle
<1>2. CASE LogAcquire(t) \/ LogTimeout(t) \/ WriteLog(t) \/ LogFails(t)
  BY <1>2, Zenon DEF LogAcquire, LogTimeout, WriteLog, LogFails
<1>3. CASE Fault(t)
  BY <1>3, Zenon DEF Fault, Idle
<1>4. CASE BeginQuery(t)
  BY <1>4, Zenon DEF BeginQuery, Begin
<1> QED BY <1>1, <1>2, <1>3, <1>4 DEF Quiet

LEMMA InitStatus == Init => StatusInv
BY DEF Init, StatusInv, ReadStillTrue, At, Idle

LEMMA StatusStep ==
  ASSUME StatusInv, OneWriterPerAsset, [Next]_vars
  PROVE  StatusInv' /\ [Lifecycle!Next]_Status
<1>1. ASSUME NEW t \in Threads, Insert(t) \/ Update(t)
      PROVE  StatusInv' /\ Lifecycle!Next
  BY <1>1, InsertFacts, UpdateFacts
<1>2. ASSUME NEW t \in Threads, Create(t) PROVE StatusInv' /\ assets' = assets
  <2> DEFINE c(n, g, tag) == [pc |-> "insert", code |-> n, generated |-> g, tag |-> tag]
  <2>1. lastCode \in Nat /\ lastCode + 1 \in Nat
    BY DEF StatusInv
  <2>2. \A n \in Nat, g \in BOOLEAN, tag \in Tags : MayMoveTo(t, c(n, g, tag))
    BY DEF MayMoveTo
  <2>3. ASSUME NEW tag \in Tags, CreateGenerated(t, tag)
        PROVE  StatusInv' /\ assets' = assets
    <3>1. /\ Goto(t, c(lastCode + 1, TRUE, tag))
          /\ assets' = assets /\ lastCode' = lastCode + 1
      BY <2>3, Zenon DEF CreateGenerated, Begin, NextCode
    <3> HIDE DEF c
    <3> QED BY <2>1, <2>2, <3>1, MoveKeepsInv
  <2>4. ASSUME NEW tag \in Tags, NEW n \in GivenCodes, CreateGiven(t, n, tag)
        PROVE  StatusInv' /\ assets' = assets
    <3>1. /\ Goto(t, c(n, FALSE, tag))
          /\ assets' = assets /\ lastCode' = lastCode
      BY <2>4, Zenon DEF CreateGiven, Begin
    <3>2. n \in Nat
      BY AssetServiceAssumption
    <3> HIDE DEF c
    <3> QED BY <2>1, <2>2, <3>1, <3>2, MoveKeepsInv
  <2> QED BY <1>2, <2>3, <2>4, Zenon DEF Create
<1>3. ASSUME NEW t \in Threads, NEW a \in Targets[t], NEW new \in Statuses,
             BeginUpdate(t, a, new)
      PROVE  StatusInv' /\ assets' = assets
  <2>1. /\ Goto(t, [pc |-> "select", asset |-> a, new |-> new])
        /\ assets' = assets /\ lastCode' \in Nat
    BY <1>3 DEF BeginUpdate, Begin, StatusInv
  <2>2. MayMoveTo(t, [pc |-> "select", asset |-> a, new |-> new])
    BY DEF MayMoveTo
  <2> QED BY <2>1, <2>2, MoveKeepsInv
<1>4. ASSUME NEW t \in Threads, Select(t) PROVE StatusInv' /\ assets' = assets
  <2> DEFINE c == [pc |-> "update", asset |-> call[t].asset,
                   old |-> assets[call[t].asset].status, new |-> call[t].new]
  <2>1. Goto(t, c) /\ assets' = assets /\ lastCode' \in Nat
    BY <1>4 DEF Select, StatusInv
  <2>2. MayMoveTo(t, c)
    BY <1>4 DEF MayMoveTo, Select, StatusInv, ReadStillTrue
  <2> QED BY <2>1, <2>2, MoveKeepsInv
<1>5. ASSUME NEW t \in Threads, Quiet(t) PROVE StatusInv' /\ assets' = assets
  <2>1. assets' = assets /\ lastCode' \in Nat
    BY <1>5, QuietFacts DEF StatusInv
  <2>2. \A pc \in {"idle", "return", "query"} : MayMoveTo(t, [pc |-> pc])
    BY DEF MayMoveTo
  <2>3. MayMoveTo(t, [pc |-> "write", asset |-> call[t].asset,
                      old |-> call[t].old, new |-> call[t].new])
    BY DEF MayMoveTo
  <2> QED BY <1>5, <2>1, <2>2, <2>3, QuietFacts, MoveKeepsInv DEF GoOn
<1>6. CASE Restart
  BY <1>6 DEF Restart, StatusInv, ReadStillTrue, At, Idle, Status
<1>7. CASE UNCHANGED vars
  BY <1>7 DEF vars, StatusInv, ReadStillTrue, At, Status
<1>8. assets' = assets => Status' = Status
  BY DEF Status
<1> QED BY <1>1, <1>2, <1>3, <1>4, <1>5, <1>6, <1>7, <1>8 DEF Next, Step, Quiet

\* If the callers of one thread only change an asset, the service implements
\* the lifecycle: however calls interleave, fail or are cut off by a restart,
\* an asset moves only along canTransition, and never out of SCRAPPED.
THEOREM LifecycleImplemented ==
  ASSUME OneWriterPerAsset
  PROVE  Spec => LifecycleSpec
<1>1. Init => Lifecycle!Init
  BY DEF Init, Lifecycle!Init, Lifecycle!Unknown, Unknown, Absent, Status
<1>2. StatusInv /\ [Next]_vars => StatusInv' /\ [Lifecycle!Next]_Status
  BY StatusStep
<1> QED BY <1>1, <1>2, InitStatus, PTL DEF Spec, LifecycleSpec, Lifecycle!Spec

-----------------------------------------------------------------------------
(* Generated asset codes *)

IsRow(r) == r = [status |-> r.status, code |-> r.code, tag |-> r.tag]

\* Within one life of the server, without codes the callers choose, every
\* code in the table or in a pending INSERT has been generated once.
CodeInv ==
  /\ lastCode \in Nat
  /\ assets = [a \in Assets |-> assets[a]]
  /\ call = [t \in Threads |-> call[t]]
  /\ \A a \in Assets : assets[a].code \in 0..lastCode /\ IsRow(assets[a])
  /\ \A t \in Threads : At(t, "insert") =>
       /\ call[t].code \in 1..lastCode
       /\ \A a \in Assets : assets[a].code # call[t].code
  /\ \A t, u \in Threads : At(t, "insert") /\ At(u, "insert") /\ t # u =>
       call[t].code # call[u].code

\* A thread that goes on to anything but an INSERT keeps the invariant, if no
\* row changes its code.
LEMMA MoveKeepsCodes ==
  ASSUME CodeInv, NEW t \in Threads, NEW c, Goto(t, c), c.pc # "insert",
         lastCode' = lastCode, assets' = [a \in Assets |-> assets'[a]],
         \A a \in Assets : assets'[a].code = assets[a].code /\ IsRow(assets'[a])
  PROVE  CodeInv'
<1>1. /\ call' = [u \in Threads |-> call'[u]]
      /\ call'[t] = c
      /\ \A u \in Threads : u # t => call'[u] = call[u]
  BY GotoFacts DEF CodeInv
<1>2. \A u \in Threads : At(u, "insert")' => u # t /\ At(u, "insert") /\ call'[u] = call[u]
  BY <1>1 DEF At
<1> QED BY <1>1, <1>2 DEF CodeInv

LEMMA CodeStep ==
  ASSUME CodeInv, GivenCodes = {}, restarts \in Nat, restarts' = 0, [Next]_vars
  PROVE  CodeInv'
<1>1. ASSUME NEW t \in Threads, NEW tag \in Tags, CreateGenerated(t, tag) PROVE CodeInv'
  <2> DEFINE c == [pc |-> "insert", code |-> lastCode + 1, generated |-> TRUE, tag |-> tag]
  <2>1. Goto(t, c) /\ assets' = assets /\ lastCode' = lastCode + 1
    BY <1>1, Zenon DEF CreateGenerated, Begin, NextCode
  <2>2. c.pc = "insert" /\ c.code = lastCode + 1
    OBVIOUS
  <2> HIDE DEF c
  <2>3. /\ call' = [u \in Threads |-> call'[u]]
        /\ call'[t] = c
        /\ \A u \in Threads : u # t => call'[u] = call[u]
    BY <2>1, GotoFacts DEF CodeInv
  <2>4. lastCode \in Nat /\ \A n \in 0..lastCode : n \in 0..lastCode' /\ n # lastCode + 1
    BY <2>1 DEF CodeInv
  <2>5. ASSUME NEW u \in Threads, At(u, "insert")'
        PROVE  /\ call'[u].code \in 1..lastCode'
               /\ \A a \in Assets : assets'[a].code # call'[u].code
    <3>1. CASE u = t
      BY <2>1, <2>2, <2>3, <2>4, <3>1 DEF CodeInv
    <3>2. CASE u # t
      BY <2>1, <2>3, <2>4, <2>5, <3>2 DEF CodeInv, At
    <3> QED BY <3>1, <3>2
  <2>6. ASSUME NEW u \in Threads, NEW v \in Threads, At(u, "insert")', At(v, "insert")', u # v
        PROVE  call'[u].code # call'[v].code
    <3>1. \A w \in Threads : At(w, "insert")' /\ w # t => call'[w].code \in 1..lastCode
      BY <2>3 DEF CodeInv, At
    <3> QED BY <2>2, <2>3, <2>4, <2>6, <3>1 DEF CodeInv, At
  <2>7. \A a \in Assets : assets'[a].code \in 0..lastCode' /\ IsRow(assets'[a])
    BY <2>1, <2>4 DEF CodeInv
  <2>8. lastCode' \in Nat /\ assets' = [a \in Assets |-> assets'[a]]
    BY <2>1, <2>4 DEF CodeInv
  <2> QED BY <2>3, <2>5, <2>6, <2>7, <2>8 DEF CodeInv
<1>2. ASSUME NEW t \in Threads, Insert(t) PROVE CodeInv'
  <2>1. PICK a \in Assets :
          /\ assets' = [assets EXCEPT ![a] =
                [status |-> "IN_STOCK", code |-> call[t].code, tag |-> call[t].tag]]
          /\ Goto(t, [pc |-> "log", asset |-> a, old |-> Unknown, new |-> "IN_STOCK"])
    BY <1>2 DEF Insert
  <2>2. At(t, "insert") /\ lastCode' = lastCode
    BY <1>2 DEF Insert
  <2>3. /\ assets' = [b \in Assets |-> assets'[b]]
        /\ assets'[a].code = call[t].code /\ IsRow(assets'[a])
        /\ \A b \in Assets : b # a => assets'[b] = assets[b]
    BY <2>1 DEF CodeInv, IsRow
  <2>4. /\ call' = [u \in Threads |-> call'[u]]
        /\ ~At(t, "insert")'
        /\ \A u \in Threads : u # t => call'[u] = call[u]
    BY <2>1, GotoFacts DEF CodeInv, At
  <2>5. ASSUME NEW u \in Threads, At(u, "insert")'
        PROVE  /\ call'[u].code \in 1..lastCode'
               /\ \A b \in Assets : assets'[b].code # call'[u].code
    <3>1. u # t /\ At(u, "insert") /\ call'[u] = call[u]
      BY <2>4, <2>5 DEF At
    <3>2. call[u].code # call[t].code
      BY <2>2, <3>1 DEF CodeInv
    <3> QED BY <2>2, <2>3, <3>1, <3>2 DEF CodeInv
  <2>6. \A u, v \in Threads : At(u, "insert")' /\ At(v, "insert")' /\ u # v =>
          call'[u].code # call'[v].code
    BY <2>4 DEF CodeInv, At
  <2>7. \A b \in Assets : assets'[b].code \in 0..lastCode' /\ IsRow(assets'[b])
    <3>1. call[t].code \in 0..lastCode
      BY <2>2 DEF CodeInv
    <3> QED BY <2>2, <2>3, <3>1 DEF CodeInv
  <2> QED BY <2>2, <2>3, <2>4, <2>5, <2>6, <2>7 DEF CodeInv
<1>3. ASSUME NEW t \in Threads, Update(t) PROVE CodeInv'
  <2>1. /\ assets' = [assets EXCEPT ![call[t].asset].status = call[t].new]
        /\ lastCode' = lastCode
    BY <1>3 DEF Update
  <2>2. PICK c : Goto(t, c) /\ c.pc # "insert"
    <3>1. Goto(t, [pc |-> "log", asset |-> call[t].asset, old |-> call[t].old, new |-> call[t].new])
      BY <1>3, Zenon DEF Update, GoOn
    <3> QED BY <3>1
  <2>3. assets' = [a \in Assets |-> assets'[a]]
    BY <2>1 DEF CodeInv
  <2>4. ASSUME NEW a \in Assets
        PROVE  assets'[a].code = assets[a].code /\ IsRow(assets'[a])
    <3> DEFINE r == assets[a]
    <3>1. r = [status |-> r.status, code |-> r.code, tag |-> r.tag]
      BY DEF CodeInv, IsRow
    <3>2. assets'[a] = r \/ assets'[a] = [r EXCEPT !.status = call[t].new]
      BY <2>1 DEF CodeInv
    <3>3. [r EXCEPT !.status = call[t].new] = [status |-> call[t].new, code |-> r.code, tag |-> r.tag]
      <4> HIDE DEF r
      <4> QED BY <3>1
    <3> HIDE DEF r
    <3>4. CASE assets'[a] = r
      BY <3>1, <3>4 DEF r, IsRow
    <3>5. CASE assets'[a] = [r EXCEPT !.status = call[t].new]
      <4>1. assets'[a] = [status |-> call[t].new, code |-> r.code, tag |-> r.tag]
        BY <3>3, <3>5
      <4> QED BY <4>1 DEF r, IsRow
    <3> QED BY <3>2, <3>4, <3>5
  <2> QED BY <2>1, <2>2, <2>3, <2>4, MoveKeepsCodes
<1>4. ASSUME NEW t \in Threads, NEW a, NEW new, BeginUpdate(t, a, new) PROVE CodeInv'
  <2> DEFINE c == [pc |-> "select", asset |-> a, new |-> new]
  <2>1. Goto(t, c) /\ assets' = assets /\ lastCode' = lastCode
    BY <1>4, Zenon DEF BeginUpdate, Begin
  <2>2. c.pc # "insert" /\ assets' = [b \in Assets |-> assets'[b]]
        /\ \A b \in Assets : IsRow(assets'[b])
    BY <2>1 DEF CodeInv
  <2> HIDE DEF c
  <2> QED BY <2>1, <2>2, MoveKeepsCodes
<1>5. ASSUME NEW t \in Threads, Select(t) PROVE CodeInv'
  <2> DEFINE c == [pc |-> "update", asset |-> call[t].asset,
                   old |-> assets[call[t].asset].status, new |-> call[t].new]
  <2>1. Goto(t, c) /\ assets' = assets /\ lastCode' = lastCode
    BY <1>5, Zenon DEF Select
  <2>2. c.pc # "insert" /\ assets' = [b \in Assets |-> assets'[b]]
        /\ \A b \in Assets : IsRow(assets'[b])
    BY <2>1 DEF CodeInv
  <2> HIDE DEF c
  <2> QED BY <2>1, <2>2, MoveKeepsCodes
<1>6. ASSUME NEW t \in Threads, Quiet(t) PROVE CodeInv'
  <2>1. assets' = assets /\ lastCode' = lastCode
    BY <1>6, QuietFacts
  <2>2. assets' = [b \in Assets |-> assets'[b]] /\ \A b \in Assets : IsRow(assets'[b])
    BY <2>1 DEF CodeInv
  <2>3. /\ \A pc \in {"idle", "return", "query"} : [pc |-> pc].pc # "insert"
        /\ [pc |-> "write", asset |-> call[t].asset,
            old |-> call[t].old, new |-> call[t].new].pc # "insert"
    OBVIOUS
  <2> QED BY <1>6, <2>1, <2>2, <2>3, QuietFacts, MoveKeepsCodes DEF GoOn
<1>7. ~Restart
  BY DEF Restart
<1>8. CASE UNCHANGED vars
  BY <1>8 DEF vars, CodeInv, At
<1> QED BY <1>1, <1>2, <1>3, <1>4, <1>5, <1>6, <1>7, <1>8, Zenon DEF Next, Step, Create, Quiet

\* As long as the server is not restarted and the callers choose no codes, an
\* INSERT is never refused because of the code it generated.
THEOREM GeneratedFreshHolds ==
  ASSUME GivenCodes = {}
  PROVE  Spec => []GeneratedFresh
<1> DEFINE Inv == restarts \in Nat /\ (restarts = 0 => CodeInv)
<1>1. Init => Inv
  BY DEF Init, CodeInv, At, Idle, Absent, IsRow
<1>2. Inv /\ [Next]_vars => Inv'
  <2> SUFFICES ASSUME Inv, [Next]_vars PROVE Inv'
    OBVIOUS
  <2>1. restarts' = restarts \/ restarts' = restarts + 1
    BY Zenon DEF Next, Step, Create, CreateGenerated, CreateGiven, Insert,
       InsertRefused, BeginUpdate, Select, SelectRefuses, Update, LogAcquire, LogTimeout,
       WriteLog, LogFails, Finish, BeginQuery, QueryReturns, SummaryThrows, Fault,
       Restart, vars
  <2>2. restarts' \in Nat /\ (restarts' = 0 => restarts = 0)
    BY <2>1
  <2>3. restarts' = 0 => CodeInv'
    BY <2>2, CodeStep
  <2> QED BY <2>2, <2>3
<1>3. Inv => GeneratedFresh
  BY DEF CodeInv, GeneratedFresh, CodeIsNew, CodeFree
<1> QED BY <1>1, <1>2, <1>3, PTL DEF Spec

-----------------------------------------------------------------------------
(* Types *)

\* The inductive invariant: TypeOK, and a call that is past its SELECT names an
\* asset that exists, since no operation deletes a row.
Selected == \A t \in Threads : At(t, "update") => assets[call[t].asset] \in Row
TypeInv == TypeOK /\ Selected

IsChangeBag(b) == Bag!IsABag(b) /\ DOMAIN b \subseteq Change

LEMMA BagAddType ==
  ASSUME NEW b, IsChangeBag(b), NEW x \in Change
  PROVE  IsChangeBag(BagAdd(b, x))
<1>1. b \in [DOMAIN b -> {n \in Nat : n > 0}]
  BY DEF IsChangeBag, Bag!IsABag
<1>2. CASE x \in DOMAIN b
  <2> DEFINE c == [e \in DOMAIN b |-> IF e = x THEN b[e] + 1 ELSE b[e]]
  <2>1. BagAdd(b, x) = c
    BY <1>2 DEF BagAdd
  <2>2. DOMAIN c = DOMAIN b /\ c \in [DOMAIN b -> {n \in Nat : n > 0}]
    BY <1>1
  <2> HIDE DEF c
  <2> QED BY <2>1, <2>2 DEF IsChangeBag, Bag!IsABag
<1>3. CASE x \notin DOMAIN b
  <2> DEFINE c == [e \in DOMAIN b \cup {x} |-> IF e = x THEN 1 ELSE b[e]]
  <2>1. BagAdd(b, x) = c
    BY <1>3 DEF BagAdd
  <2>2. DOMAIN c = DOMAIN b \cup {x} /\ c \in [DOMAIN b \cup {x} -> {n \in Nat : n > 0}]
    BY <1>1
  <2> HIDE DEF c
  <2> QED BY <2>1, <2>2 DEF IsChangeBag, Bag!IsABag
<1> QED BY <1>2, <1>3

LEMMA CallFacts ==
  ASSUME NEW c \in Calls
  PROVE  /\ c.pc = "insert" => c.code \in Nat /\ c.tag \in Tags
         /\ c.pc = "select" => c.asset \in Assets /\ c.new \in Statuses
         /\ c.pc \in {"update", "log", "write"} =>
              c.asset \in Assets /\ c.old \in Statuses \cup {Unknown} /\ c.new \in Statuses
<1>1. CASE c = Idle
  BY <1>1 DEF Idle
<1>2. CASE c \in [pc : {"insert"}, code : Nat, generated : BOOLEAN, tag : Tags]
  BY <1>2
<1>3. CASE c \in [pc : {"select"}, asset : Assets, new : Statuses]
  BY <1>3
<1>4. CASE c \in [pc : {"update", "log", "write"}, asset : Assets,
                  old : Statuses \cup {Unknown}, new : Statuses]
  BY <1>4
<1>5. CASE c \in [pc : {"query", "return"}]
  BY <1>5
<1> QED BY <1>1, <1>2, <1>3, <1>4, <1>5 DEF Calls

\* The calls a thread moves to.
LEMMA CallTypes ==
  /\ Idle \in Calls /\ [pc |-> "query"] \in Calls /\ [pc |-> "return"] \in Calls
  /\ \A n \in Nat, g \in BOOLEAN, tag \in Tags :
       [pc |-> "insert", code |-> n, generated |-> g, tag |-> tag] \in Calls
  /\ \A a \in Assets, new \in Statuses :
       /\ [pc |-> "select", asset |-> a, new |-> new] \in Calls
       /\ \A old \in Statuses \cup {Unknown}, pc \in {"update", "log", "write"} :
            [pc |-> pc, asset |-> a, old |-> old, new |-> new] \in Calls
BY DEF Calls, Idle

\* A step that changes neither the table nor the bag of changes.
LEMMA MoveKeepsTypes ==
  ASSUME TypeInv, NEW t \in Threads, NEW c \in Calls, Goto(t, c),
         c.pc = "update" => assets[c.asset] \in Row,
         UNCHANGED <<assets, changes>>, IsChangeBag(log'),
         free' \in Nat, leaked' \in Nat, lastCode' \in Nat
  PROVE  TypeInv'
<1>1. call' \in [Threads -> Calls] /\ call'[t] = c /\ \A u \in Threads : u # t => call'[u] = call[u]
  BY DEF Goto, TypeInv, TypeOK
<1>2. Selected'
  BY <1>1 DEF TypeInv, Selected, At
<1> QED BY <1>1, <1>2 DEF TypeInv, TypeOK, IsChangeBag

\* A step that writes a row of the table and a change.
LEMMA WriteKeepsTypes ==
  ASSUME TypeInv, NEW t \in Threads, NEW c \in Calls, Goto(t, c), c.pc # "update",
         NEW a \in Assets, NEW r \in Row, assets' = [assets EXCEPT ![a] = r],
         NEW x \in Change, changes' = BagAdd(changes, x),
         UNCHANGED <<log, free, leaked, lastCode>>
  PROVE  TypeInv'
<1>1. call' \in [Threads -> Calls] /\ call'[t] = c /\ \A u \in Threads : u # t => call'[u] = call[u]
  BY DEF Goto, TypeInv, TypeOK
<1>2. assets' \in [Assets -> Row \cup {Absent}]
      /\ \A b \in Assets : assets'[b] = IF b = a THEN r ELSE assets[b]
  BY DEF TypeInv, TypeOK
<1>3. IsChangeBag(changes')
  BY BagAddType DEF TypeInv, TypeOK, IsChangeBag
<1>4. ASSUME NEW u \in Threads, At(u, "update")' PROVE assets'[call'[u].asset] \in Row
  <2>1. u # t /\ call'[u] = call[u]
    BY <1>1, <1>4 DEF At
  <2>2. call[u].pc = "update" /\ call[u].asset \in Assets
    BY <1>4, <2>1, CallFacts DEF At, TypeInv, TypeOK
  <2> QED BY <1>2, <2>1, <2>2 DEF TypeInv, Selected, At
<1>5. Selected'
  BY <1>4 DEF Selected
<1> QED BY <1>1, <1>2, <1>3, <1>5 DEF TypeInv, TypeOK, IsChangeBag

LEMMA NumbersGrow ==
  ASSUME TypeInv
  PROVE  /\ free \in Nat /\ leaked \in Nat /\ lastCode \in Nat
         /\ Released \in Nat /\ leaked + 1 \in Nat /\ NextCode \in Nat
         /\ free > 0 => free - 1 \in Nat
BY DEF TypeInv, TypeOK, Released, NextCode

LEMMA TypesStep == TypeInv /\ [Next]_vars => TypeInv'
<1> SUFFICES ASSUME TypeInv, [Next]_vars PROVE TypeInv'
  OBVIOUS
<1> USE NumbersGrow
<1>1. \A t \in Threads : call[t] \in Calls
  BY DEF TypeInv, TypeOK
<1>2. UNCHANGED log => IsChangeBag(log')
  BY DEF TypeInv, TypeOK, IsChangeBag
<1>3. ASSUME NEW t \in Threads, NEW n \in Nat, NEW g \in BOOLEAN, NEW tag \in Tags,
             Goto(t, [pc |-> "insert", code |-> n, generated |-> g, tag |-> tag]),
             free' \in Nat, lastCode' \in Nat, UNCHANGED <<assets, changes, log, leaked>>
      PROVE  TypeInv'
  <2> DEFINE c == [pc |-> "insert", code |-> n, generated |-> g, tag |-> tag]
  <2>1. c \in Calls /\ c.pc # "update" /\ Goto(t, c)
    BY <1>3, CallTypes
  <2> HIDE DEF c
  <2> QED BY <1>3, <1>2, <2>1, MoveKeepsTypes
<1>4. ASSUME NEW t \in Threads, Create(t) PROVE TypeInv'
  <2>1. ASSUME NEW tag \in Tags, CreateGenerated(t, tag) PROVE TypeInv'
    <3>1. /\ Goto(t, [pc |-> "insert", code |-> NextCode, generated |-> TRUE, tag |-> tag])
          /\ free' \in Nat /\ lastCode' \in Nat /\ UNCHANGED <<assets, changes, log, leaked>>
      BY <2>1 DEF CreateGenerated, Begin
    <3> HIDE DEF NextCode
    <3> QED BY <1>3, <3>1
  <2>2. ASSUME NEW tag \in Tags, NEW n \in GivenCodes, CreateGiven(t, n, tag) PROVE TypeInv'
    <3>1. /\ Goto(t, [pc |-> "insert", code |-> n, generated |-> FALSE, tag |-> tag])
          /\ free' \in Nat /\ lastCode' \in Nat /\ UNCHANGED <<assets, changes, log, leaked>>
      BY <2>2 DEF CreateGiven, Begin
    <3> QED BY <1>3, <3>1, AssetServiceAssumption
  <2> QED BY <1>4, <2>1, <2>2 DEF Create
<1>5. ASSUME NEW t \in Threads, Insert(t) PROVE TypeInv'
  <2>1. PICK a \in Assets :
          /\ assets' = [assets EXCEPT ![a] =
               [status |-> "IN_STOCK", code |-> call[t].code, tag |-> call[t].tag]]
          /\ changes' = BagAdd(changes, Report(a, Unknown, "IN_STOCK"))
          /\ Goto(t, [pc |-> "log", asset |-> a, old |-> Unknown, new |-> "IN_STOCK"])
    BY <1>5 DEF Insert
  <2>2. [status |-> "IN_STOCK", code |-> call[t].code, tag |-> call[t].tag] \in Row
    BY <1>1, <1>5, CallFacts DEF Insert, At, Row, Statuses
  <2>3. Report(a, Unknown, "IN_STOCK") \in Change
    BY DEF Report, Change, Statuses
  <2>4. [pc |-> "log", asset |-> a, old |-> Unknown, new |-> "IN_STOCK"] \in Calls
    BY CallTypes DEF Statuses
  <2>5. UNCHANGED <<log, free, leaked, lastCode>>
    BY <1>5 DEF Insert
  <2> QED BY <2>1, <2>2, <2>3, <2>4, <2>5, WriteKeepsTypes
<1>6. ASSUME NEW t \in Threads, NEW a \in Targets[t], NEW new \in Statuses, BeginUpdate(t, a, new)
      PROVE  TypeInv'
  <2>1. [pc |-> "select", asset |-> a, new |-> new] \in Calls
    BY CallTypes, AssetServiceAssumption
  <2>2. /\ Goto(t, [pc |-> "select", asset |-> a, new |-> new])
        /\ free' \in Nat
        /\ UNCHANGED <<assets, changes, log, leaked, lastCode>>
    BY <1>6 DEF BeginUpdate, Begin
  <2> QED BY <1>2, <2>1, <2>2, MoveKeepsTypes
<1>7. ASSUME NEW t \in Threads, Select(t) PROVE TypeInv'
  <2> DEFINE a == call[t].asset
             c == [pc |-> "update", asset |-> a, old |-> assets[a].status, new |-> call[t].new]
  <2>1. a \in Assets /\ call[t].new \in Statuses
    BY <1>1, <1>7, CallFacts DEF Select, At
  <2>2. assets[a] \in Row \cup {Absent} /\ CanTransition(assets[a].status, call[t].new)
    BY <1>7, <2>1 DEF Select, TypeInv, TypeOK
  <2>3. assets[a] \in Row /\ assets[a].status \in Statuses
    BY <2>2, NoTransitionFromUnknown, RowFacts DEF Absent, Row
  <2>4. c \in Calls
    BY <2>1, <2>3, CallTypes
  <2>5. Goto(t, c) /\ UNCHANGED <<assets, changes, log, free, leaked, lastCode>>
    BY <1>7 DEF Select
  <2>6. c.pc = "update" /\ c.asset = a
    OBVIOUS
  <2> HIDE DEF a, c
  <2> QED BY <1>2, <2>3, <2>4, <2>5, <2>6, MoveKeepsTypes
<1>8. ASSUME NEW t \in Threads, Update(t) PROVE TypeInv'
  <2> DEFINE a == call[t].asset
             new == call[t].new
             c == [pc |-> "log", asset |-> a, old |-> call[t].old, new |-> new]
             r == [assets[a] EXCEPT !.status = new]
  <2>1. a \in Assets /\ new \in Statuses /\ call[t].old \in Statuses \cup {Unknown}
    BY <1>1, <1>8, CallFacts DEF Update, At
  <2>2. assets[a] \in Row
    BY <1>8 DEF Update, TypeInv, Selected
  <2>3. r \in Row
    BY <2>1, <2>2, RowFacts
  <2>4. Report(a, assets[a].status, new) \in Change
    BY <2>1, <2>2 DEF Report, Change, Row
  <2>5. c \in Calls /\ c.pc # "update"
    BY <2>1, CallTypes
  <2>6. /\ assets' = [assets EXCEPT ![a] = r]
        /\ changes' = BagAdd(changes, Report(a, assets[a].status, new))
        /\ Goto(t, c)
        /\ UNCHANGED <<log, free, leaked, lastCode>>
    BY <1>8 DEF Update, GoOn
  <2> HIDE DEF a, new, c, r
  <2> QED BY <2>1, <2>3, <2>4, <2>5, <2>6, WriteKeepsTypes
<1>9. ASSUME NEW t \in Threads, LogAcquire(t) PROVE TypeInv'
  <2> DEFINE c == [pc |-> "write", asset |-> call[t].asset, old |-> call[t].old, new |-> call[t].new]
  <2>1. c \in Calls /\ c.pc # "update"
    BY <1>1, <1>9, CallFacts, CallTypes DEF LogAcquire, At
  <2>2. Goto(t, c) /\ free' \in Nat /\ UNCHANGED <<assets, changes, log, leaked, lastCode>>
    BY <1>9 DEF LogAcquire, GoOn
  <2> HIDE DEF c
  <2> QED BY <1>2, <2>1, <2>2, MoveKeepsTypes
<1>10. ASSUME NEW t \in Threads, WriteLog(t) PROVE TypeInv'
  <2>1. Reported(t) \in Change
    BY <1>1, <1>10, CallFacts DEF WriteLog, At, Reported, Report, Change
  <2>2. IsChangeBag(log')
    BY <1>10, <2>1, BagAddType DEF WriteLog, Logged, TypeInv, TypeOK, IsChangeBag
  <2>3. [pc |-> "return"] \in Calls /\ Goto(t, [pc |-> "return"])
    BY <1>10, CallTypes DEF WriteLog
  <2>4. free' \in Nat /\ UNCHANGED <<assets, changes, leaked, lastCode>>
    BY <1>10 DEF WriteLog
  <2> QED BY <2>2, <2>3, <2>4, MoveKeepsTypes
<1>11. ASSUME NEW t \in Threads, NEW c \in Calls, Goto(t, c), c.pc # "update",
             UNCHANGED <<assets, changes, log, lastCode>>, free' \in Nat,
             leaked' = leaked \/ leaked' = leaked + 1
      PROVE  TypeInv'
  BY <1>11, <1>2, MoveKeepsTypes
<1>12. ASSUME NEW t \in Threads, InsertRefused(t) \/ SummaryThrows(t) \/ Fault(t)
       PROVE  TypeInv'
  <2>1. /\ Goto(t, Idle) /\ leaked' = leaked + 1
        /\ UNCHANGED <<assets, changes, log, free, lastCode>>
    BY <1>12 DEF InsertRefused, SummaryThrows, Fault, Leak
  <2>2. Idle \in Calls /\ Idle.pc # "update"
    BY CallTypes DEF Idle
  <2> QED BY <1>11, <2>1, <2>2
<1>13. ASSUME NEW t \in Threads, SelectRefuses(t) \/ Finish(t) \/ QueryReturns(t)
       PROVE  TypeInv'
  <2>1. /\ Goto(t, Idle) /\ free' = Released
        /\ UNCHANGED <<assets, changes, log, leaked, lastCode>>
    BY <1>13 DEF SelectRefuses, Finish, QueryReturns, Return
  <2>2. Idle \in Calls /\ Idle.pc # "update"
    BY CallTypes DEF Idle
  <2> QED BY <1>11, <2>1, <2>2
<1>14. ASSUME NEW t \in Threads, LogTimeout(t) \/ LogFails(t) PROVE TypeInv'
  <2> DEFINE c == [pc |-> "return"]
  <2>1. /\ Goto(t, c) /\ UNCHANGED <<assets, changes, log, free, lastCode>>
        /\ leaked' = leaked \/ leaked' = leaked + 1
    <3>1. CASE LogTimeout(t)
      BY <3>1 DEF LogTimeout
    <3>2. CASE LogFails(t)
      BY <3>2 DEF LogFails, Leak
    <3> QED BY <1>14, <3>1, <3>2
  <2>2. c \in Calls /\ c.pc # "update"
    BY CallTypes
  <2> HIDE DEF c
  <2> QED BY <1>11, <2>1, <2>2
<1>15. ASSUME NEW t \in Threads, BeginQuery(t) PROVE TypeInv'
  <2> DEFINE c == [pc |-> "query"]
  <2>1. Goto(t, c) /\ free' \in Nat /\ UNCHANGED <<assets, changes, log, leaked, lastCode>>
    BY <1>15 DEF BeginQuery, Begin
  <2>2. c \in Calls /\ c.pc # "update"
    BY CallTypes
  <2> HIDE DEF c
  <2> QED BY <1>11, <2>1, <2>2
<1>16. CASE Restart
  <2>1. call' \in [Threads -> Calls] /\ \A t \in Threads : call'[t].pc = "idle"
    BY <1>16, CallTypes DEF Restart, Idle
  <2>2. Selected'
    BY <2>1 DEF Selected, At
  <2> QED BY <1>16, <2>1, <2>2, AssetServiceAssumption DEF Restart, TypeInv, TypeOK
<1>17. CASE UNCHANGED vars
  BY <1>17 DEF vars, TypeInv, TypeOK, Selected, At
<1> QED
  BY <1>5, <1>6, <1>7, <1>8, <1>9, <1>10, <1>16, <1>17, <1>4, <1>12, <1>13, <1>14,
     <1>15, Zenon DEF Next, Step

LEMMA InitTypes == Init => TypeInv
<1> SUFFICES ASSUME Init PROVE TypeInv
  OBVIOUS
<1>1. IsChangeBag(Bag!EmptyBag)
  BY DEF IsChangeBag, Bag!IsABag, Bag!EmptyBag, Bag!SetToBag
<1>2. call \in [Threads -> Calls] /\ \A t \in Threads : call[t].pc = "idle"
  BY CallTypes DEF Init, Idle
<1>3. Selected
  BY <1>2 DEF Selected, At
<1>4. assets \in [Assets -> Row \cup {Absent}]
  BY DEF Init
<1> QED
  BY <1>1, <1>2, <1>3, <1>4, AssetServiceAssumption DEF Init, TypeInv, TypeOK, IsChangeBag

\* The types of the tables, the log and the calls, for every number of threads and
\* assets: an update finds a row, since none is ever deleted (updateAssetStatus).
THEOREM TypesHold == Spec => []TypeOK
<1>1. TypeInv => TypeOK
  BY DEF TypeInv
<1> QED BY <1>1, InitTypes, TypesStep, PTL DEF Spec

-----------------------------------------------------------------------------
(* Connections *)

\* The connections a call holds at each of its places.
Holds(pc, n) ==
  \/ pc = "idle" /\ n = 0
  \/ pc = "write" /\ n = 2
  \/ pc \notin {"idle", "write"} /\ n = 1

ConnInv == TypeInv /\ ConnectionsConserved

\* A set of threads that one of them joins or leaves.
LEMMA OneMore ==
  ASSUME NEW S, NEW T, NEW t, IsFiniteSet(S), IsFiniteSet(T),
         T = S \cup {t} \/ T = S \ {t}
  PROVE  Cardinality(T) = Cardinality(S) + (IF t \in T THEN 1 ELSE 0) - (IF t \in S THEN 1 ELSE 0)
<1>1. Cardinality(S) \in Nat /\ Cardinality(T) \in Nat
  BY FS_CardinalityType
<1>2. /\ Cardinality(S \cup {t}) = IF t \in S THEN Cardinality(S) ELSE Cardinality(S) + 1
      /\ Cardinality(S \ {t}) = IF t \in S THEN Cardinality(S) - 1 ELSE Cardinality(S)
  BY FS_AddElement, FS_RemoveElement
<1>3. CASE T = S \cup {t}
  <2>1. t \in T /\ Cardinality(T) = IF t \in S THEN Cardinality(S) ELSE Cardinality(S) + 1
    BY <1>2, <1>3
  <2> QED BY <1>1, <2>1
<1>4. CASE T = S \ {t}
  <2>1. t \notin T /\ Cardinality(T) = IF t \in S THEN Cardinality(S) - 1 ELSE Cardinality(S)
    BY <1>2, <1>4
  <2> QED BY <1>1, <2>1
<1> QED BY <1>3, <1>4

\* What a thread takes or gives up when it moves is what free and leaked
\* account for.
LEMMA Balance ==
  ASSUME ConnInv, TypeInv', NEW t \in Threads, NEW c, Goto(t, c),
         NEW before \in Nat, NEW after \in Nat,
         Holds(call[t].pc, before), Holds(c.pc, after),
         NEW f \in Nat, NEW l \in Nat, free' = f, leaked' = l,
         f + l + after = free + leaked + before
  PROVE  ConnInv'
<1>1. call' \in [Threads -> Calls] /\ call'[t] = c /\ \A u \in Threads : u # t => call'[u] = call[u]
  BY DEF ConnInv, TypeInv, TypeOK, Goto
<1>2. /\ InCall' = InCall \cup {t} \/ InCall' = InCall \ {t}
      /\ InLog' = InLog \cup {t} \/ InLog' = InLog \ {t}
      /\ t \in InCall <=> call[t].pc # "idle"
      /\ t \in InCall' <=> c.pc # "idle"
      /\ t \in InLog <=> call[t].pc = "write"
      /\ t \in InLog' <=> c.pc = "write"
  BY <1>1 DEF InCall, InLog, At
<1>3. /\ IsFiniteSet(InCall) /\ IsFiniteSet(InCall')
      /\ IsFiniteSet(InLog) /\ IsFiniteSet(InLog')
  <2>1. /\ InCall \subseteq Threads /\ InCall' \subseteq Threads
        /\ InLog \subseteq Threads /\ InLog' \subseteq Threads
    BY DEF InCall, InLog
  <2> QED BY <2>1, AssetServiceAssumption, FS_Subset
<1>4. /\ Cardinality(InCall) \in Nat /\ Cardinality(InCall') \in Nat
      /\ Cardinality(InLog) \in Nat /\ Cardinality(InLog') \in Nat
  BY <1>3, FS_CardinalityType
<1>5. Cardinality(InCall') = Cardinality(InCall) + (IF c.pc # "idle" THEN 1 ELSE 0)
                                              - (IF call[t].pc # "idle" THEN 1 ELSE 0)
  BY <1>2, <1>3, OneMore
<1>6. Cardinality(InLog') = Cardinality(InLog) + (IF c.pc = "write" THEN 1 ELSE 0)
                                            - (IF call[t].pc = "write" THEN 1 ELSE 0)
  BY <1>2, <1>3, OneMore
<1>7. free \in Nat /\ leaked \in Nat /\ MaxConnections \in Nat
  BY AssetServiceAssumption DEF ConnInv, TypeInv, TypeOK
<1>8. free' + leaked' + Cardinality(InCall') + Cardinality(InLog') = MaxConnections
  <2>1. free + leaked + Cardinality(InCall) + Cardinality(InLog) = MaxConnections
    BY DEF ConnInv, ConnectionsConserved
  <2>2. \A pc, n : Holds(pc, n) =>
          n = (IF pc # "idle" THEN 1 ELSE 0) + (IF pc = "write" THEN 1 ELSE 0)
    BY DEF Holds
  <2> DEFINE i  == IF call[t].pc # "idle" THEN 1 ELSE 0
             i2 == IF c.pc # "idle" THEN 1 ELSE 0
             w  == IF call[t].pc = "write" THEN 1 ELSE 0
             w2 == IF c.pc = "write" THEN 1 ELSE 0
  <2>3. before = i + w /\ after = i2 + w2
    BY <2>2
  <2>4. i \in Nat /\ i2 \in Nat /\ w \in Nat /\ w2 \in Nat
    OBVIOUS
  <2>5. Cardinality(InCall') = Cardinality(InCall) + i2 - i
    BY <1>5
  <2>6. Cardinality(InLog') = Cardinality(InLog) + w2 - w
    BY <1>6
  <2> HIDE DEF i, i2, w, w2
  <2>7. Cardinality(InCall') + Cardinality(InLog') + before
          = Cardinality(InCall) + Cardinality(InLog) + after
    BY <1>4, <2>3, <2>4, <2>5, <2>6
  <2>8. f + l + Cardinality(InCall') + Cardinality(InLog') = MaxConnections
    BY <1>4, <1>7, <2>1, <2>7
  <2> QED BY <2>8
<1> QED BY <1>8 DEF ConnInv, ConnectionsConserved

LEMMA ConnStep == ConnInv /\ [Next]_vars => ConnInv'
<1> SUFFICES ASSUME ConnInv, [Next]_vars PROVE ConnInv'
  OBVIOUS
<1>1. TypeInv /\ TypeInv' /\ free \in Nat /\ leaked \in Nat
  BY TypesStep DEF ConnInv, TypeInv, TypeOK
<1>2. ASSUME NEW t \in Threads, NEW c, Begin(t, c), leaked' = leaked,
             c.pc \notin {"idle", "write"}
      PROVE  ConnInv'
  <2>1. Goto(t, c) /\ call[t].pc = "idle" /\ free' = free - 1 /\ leaked' = leaked
    BY <1>2 DEF Begin, At
  <2>2. Holds(call[t].pc, 0) /\ Holds(c.pc, 1)
    BY <1>2, <2>1 DEF Holds
  <2>3. free - 1 \in Nat /\ (free - 1) + leaked + 1 = free + leaked + 0
    BY <1>1, <1>2 DEF Begin
  <2> QED BY <1>1, <2>1, <2>2, <2>3, Balance
<1>3. ASSUME NEW t \in Threads, Create(t) PROVE ConnInv'
  <2> DEFINE c(n, g, tag) == [pc |-> "insert", code |-> n, generated |-> g, tag |-> tag]
  <2>1. PICK n, g, tag : Begin(t, c(n, g, tag)) /\ leaked' = leaked
    BY <1>3, Zenon DEF Create, CreateGenerated, CreateGiven
  <2>2. c(n, g, tag).pc = "insert"
    OBVIOUS
  <2> HIDE DEF c
  <2> QED BY <1>2, <2>1, <2>2
<1>4. ASSUME NEW t \in Threads, NEW a, NEW new, BeginUpdate(t, a, new) PROVE ConnInv'
  <2> DEFINE c == [pc |-> "select", asset |-> a, new |-> new]
  <2>1. Begin(t, c) /\ leaked' = leaked /\ c.pc = "select"
    BY <1>4 DEF BeginUpdate
  <2> HIDE DEF c
  <2> QED BY <1>2, <2>1
<1>5. ASSUME NEW t \in Threads, BeginQuery(t) PROVE ConnInv'
  <2> DEFINE c == [pc |-> "query"]
  <2>1. Begin(t, c) /\ leaked' = leaked /\ c.pc = "query"
    BY <1>5 DEF BeginQuery
  <2> HIDE DEF c
  <2> QED BY <1>2, <2>1
<1>6. ASSUME NEW t \in Threads, NEW c, Goto(t, c), UNCHANGED <<free, leaked>>,
             {c.pc, call[t].pc} \cap {"idle", "write"} = {}
      PROVE  ConnInv'
  <2>1. Holds(call[t].pc, 1) /\ Holds(c.pc, 1)
    BY <1>6 DEF Holds
  <2> QED BY <1>1, <1>6, <2>1, Balance
<1>7. ASSUME NEW t \in Threads, Insert(t) \/ Update(t) PROVE ConnInv'
  <2>1. PICK c : Goto(t, c) /\ c.pc = "log"
    <3>1. CASE Insert(t)
      <4>1. PICK a \in Assets :
              Goto(t, [pc |-> "log", asset |-> a, old |-> Unknown, new |-> "IN_STOCK"])
        BY <3>1 DEF Insert
      <4> QED BY <4>1
    <3>2. CASE Update(t)
      <4>1. Goto(t, [pc |-> "log", asset |-> call[t].asset, old |-> call[t].old,
                     new |-> call[t].new])
        BY <3>2, Zenon DEF Update, GoOn
      <4> QED BY <4>1
    <3> QED BY <1>7, <3>1, <3>2
  <2>2. call[t].pc \in {"insert", "update"} /\ UNCHANGED <<free, leaked>>
    BY <1>7 DEF Insert, Update, At
  <2> QED BY <1>6, <2>1, <2>2
<1>8. ASSUME NEW t \in Threads, Select(t) PROVE ConnInv'
  <2> DEFINE c == [pc |-> "update", asset |-> call[t].asset,
                   old |-> assets[call[t].asset].status, new |-> call[t].new]
  <2>1. Goto(t, c) /\ c.pc = "update" /\ call[t].pc = "select" /\ UNCHANGED <<free, leaked>>
    BY <1>8 DEF Select, At
  <2> HIDE DEF c
  <2> QED BY <1>6, <2>1
<1>9. ASSUME NEW t \in Threads, LogTimeout(t) PROVE ConnInv'
  <2> DEFINE c == [pc |-> "return"]
  <2>1. Goto(t, c) /\ c.pc = "return" /\ call[t].pc = "log" /\ UNCHANGED <<free, leaked>>
    BY <1>9 DEF LogTimeout, At
  <2> HIDE DEF c
  <2> QED BY <1>6, <2>1
<1>10. ASSUME NEW t \in Threads, LogAcquire(t) PROVE ConnInv'
  <2> DEFINE c == [pc |-> "write", asset |-> call[t].asset, old |-> call[t].old,
                   new |-> call[t].new]
  <2>1. /\ Goto(t, c) /\ c.pc = "write" /\ call[t].pc = "log"
        /\ free > 0 /\ free' = free - 1 /\ leaked' = leaked
    BY <1>10 DEF LogAcquire, GoOn, At
  <2>2. Holds(call[t].pc, 1) /\ Holds(c.pc, 2)
    BY <2>1 DEF Holds
  <2>3. free - 1 \in Nat /\ (free - 1) + leaked + 2 = free + leaked + 1
    BY <1>1, <2>1
  <2> HIDE DEF c
  <2> QED BY <1>1, <2>1, <2>2, <2>3, Balance
<1>11. ASSUME NEW t \in Threads, WriteLog(t) \/ LogFails(t) PROVE ConnInv'
  <2> DEFINE c == [pc |-> "return"]
  <2>1. /\ Goto(t, c) /\ call[t].pc = "write"
        /\ \/ free' = free + 1 /\ leaked' = leaked
           \/ free' = free /\ leaked' = leaked + 1
    BY <1>11 DEF WriteLog, LogFails, Released, Leak, At
  <2>2. Holds(call[t].pc, 2) /\ Holds(c.pc, 1)
    BY <2>1 DEF Holds
  <2> HIDE DEF c
  <2>5. CASE free' = free + 1 /\ leaked' = leaked
    <3>1. free + 1 \in Nat /\ (free + 1) + leaked + 1 = free + leaked + 2
      BY <1>1
    <3> QED BY <1>1, <2>1, <2>2, <2>5, <3>1, Balance
  <2>6. CASE free' = free /\ leaked' = leaked + 1
    <3>1. leaked + 1 \in Nat /\ free + (leaked + 1) + 1 = free + leaked + 2
      BY <1>1
    <3> QED BY <1>1, <2>1, <2>2, <2>6, <3>1, Balance
  <2> QED BY <2>1, <2>5, <2>6
<1>12. ASSUME NEW t \in Threads,
              \/ InsertRefused(t) \/ SummaryThrows(t) \/ Fault(t)
              \/ SelectRefuses(t) \/ Finish(t) \/ QueryReturns(t)
       PROVE  ConnInv'
  <2>1. Goto(t, Idle) /\ Idle.pc = "idle"
    BY <1>12 DEF InsertRefused, SummaryThrows, Fault, SelectRefuses, Finish, QueryReturns,
                 Return, Idle
  <2>2. call[t].pc \in {"insert", "select", "update", "query", "return"}
    BY <1>12 DEF InsertRefused, SummaryThrows, Fault, SelectRefuses, Finish, QueryReturns, At
  <2>3. (free' = free + 1 /\ leaked' = leaked) \/ (free' = free /\ leaked' = leaked + 1)
    BY <1>12 DEF InsertRefused, SummaryThrows, Fault, SelectRefuses, Finish, QueryReturns,
                 Return, Released, Leak
  <2>4. Holds(call[t].pc, 1) /\ Holds(Idle.pc, 0)
    BY <2>1, <2>2 DEF Holds
  <2>5. CASE free' = free + 1 /\ leaked' = leaked
    <3>1. free + 1 \in Nat /\ (free + 1) + leaked + 0 = free + leaked + 1
      BY <1>1
    <3> QED BY <1>1, <2>1, <2>4, <2>5, <3>1, Balance
  <2>6. CASE free' = free /\ leaked' = leaked + 1
    <3>1. leaked + 1 \in Nat /\ free + (leaked + 1) + 0 = free + leaked + 1
      BY <1>1
    <3> QED BY <1>1, <2>1, <2>4, <2>6, <3>1, Balance
  <2> QED BY <2>3, <2>5, <2>6
<1>13. CASE Restart
  <2>1. InCall' = {} /\ InLog' = {}
    BY <1>13 DEF Restart, InCall, InLog, At, Idle
  <2>2. free' = MaxConnections /\ leaked' = 0
    BY <1>13 DEF Restart
  <2> QED BY <1>1, <2>1, <2>2, FS_EmptySet, AssetServiceAssumption
          DEF ConnInv, ConnectionsConserved
<1>14. CASE UNCHANGED vars
  <2>1. InCall' = InCall /\ InLog' = InLog /\ UNCHANGED <<free, leaked>>
    BY <1>14 DEF vars, InCall, InLog, At
  <2> QED BY <1>1, <2>1 DEF ConnInv, ConnectionsConserved
<1> QED
  BY <1>3, <1>4, <1>5, <1>7, <1>8, <1>9, <1>10, <1>11, <1>12, <1>13, <1>14, Zenon
     DEF Next, Step

LEMMA InitConn == Init => ConnInv
<1> SUFFICES ASSUME Init PROVE ConnInv
  OBVIOUS
<1>1. InCall = {} /\ InLog = {}
  BY DEF Init, InCall, InLog, At, Idle
<1>2. free = MaxConnections /\ leaked = 0
  BY DEF Init
<1> QED BY <1>1, <1>2, InitTypes, FS_EmptySet, AssetServiceAssumption
        DEF ConnInv, ConnectionsConserved

\* Every connection is free, held by a call, or lost to an exception, for
\* every number of threads and through every failing statement, whether or not
\* the table asset_logs exists.
THEOREM ConnectionsConservedHolds == Spec => []ConnectionsConserved
<1>1. ConnInv => ConnectionsConserved
  BY DEF ConnInv
<1> QED BY InitConn, ConnStep, <1>1, PTL DEF Spec

-----------------------------------------------------------------------------
(* The operation log *)

Accounted(r) == Copies(r, log) + Cardinality(Pending(r))

\* The rows the log has lost, at most.
Gaps == failed + starved + Cardinality(Threads) * restarts

\* The inductive invariant: each row of the log, and each call that is about to
\* write one, stands for a committed change of its own, and no more changes
\* have neither than there are gaps.
LogInv ==
  /\ ConnInv /\ StatusInv
  /\ faults \in Nat /\ restarts \in Nat /\ failed \in Nat /\ starved \in Nat
  /\ logTable => failed <= faults
  /\ \A r \in Change : Accounted(r) <= Copies(r, changes)
  /\ \A r \in Change : Copies(r, changes) <= Accounted(r) + Gaps

LEMMA CopiesFacts ==
  ASSUME NEW b, IsChangeBag(b), NEW x, NEW r
  PROVE  /\ Copies(r, b) \in Nat
         /\ r = x => Copies(r, BagAdd(b, x)) = Copies(r, b) + 1
         /\ r # x => Copies(r, BagAdd(b, x)) = Copies(r, b)
<1>1. b \in [DOMAIN b -> {n \in Nat : n > 0}]
  BY DEF IsChangeBag, Bag!IsABag
<1>2. Copies(r, b) \in Nat
  BY <1>1 DEF Copies
<1>3. CASE x \in DOMAIN b
  <2> DEFINE d == [e \in DOMAIN b |-> IF e = x THEN b[e] + 1 ELSE b[e]]
  <2>1. BagAdd(b, x) = d
    BY <1>3 DEF BagAdd
  <2>2. DOMAIN d = DOMAIN b /\ \A e \in DOMAIN b : d[e] = IF e = x THEN b[e] + 1 ELSE b[e]
    OBVIOUS
  <2> HIDE DEF d
  <2> QED BY <1>2, <1>3, <2>1, <2>2 DEF Copies
<1>4. CASE x \notin DOMAIN b
  <2> DEFINE d == [e \in DOMAIN b \cup {x} |-> IF e = x THEN 1 ELSE b[e]]
  <2>1. BagAdd(b, x) = d
    BY <1>4 DEF BagAdd
  <2>2. /\ DOMAIN d = DOMAIN b \cup {x}
        /\ \A e \in DOMAIN b \cup {x} : d[e] = IF e = x THEN 1 ELSE b[e]
    OBVIOUS
  <2> HIDE DEF d
  <2> QED BY <1>2, <1>4, <2>1, <2>2 DEF Copies
<1> QED BY <1>2, <1>3, <1>4

LEMMA PendingFinite == \A r : IsFiniteSet(Pending(r)) /\ Cardinality(Pending(r)) \in Nat
<1> TAKE r
<1>1. Pending(r) \subseteq Threads
  BY DEF Pending, Unlogged
<1>2. IsFiniteSet(Pending(r))
  BY <1>1, AssetServiceAssumption, FS_Subset
<1> QED BY <1>2, FS_CardinalityType

\* A call that is about to write a row for r.
Writes(c, r) == c.pc \in {"log", "write"} /\ Report(c.asset, c.old, c.new) = r

LEMMA PendingMove ==
  ASSUME TypeOK, NEW t \in Threads, NEW c, Goto(t, c), NEW r
  PROVE  /\ Writes(c, r) => Pending(r)' = Pending(r) \cup {t}
         /\ ~Writes(c, r) => Pending(r)' = Pending(r) \ {t}
         /\ t \in Pending(r) <=> Writes(call[t], r)
<1>1. call' \in [Threads -> Calls \cup {c}]
      /\ call'[t] = c /\ \A u \in Threads : u # t => call'[u] = call[u]
  BY DEF TypeOK, Goto
<1>2. \A u : u \in Pending(r) <=> u \in Threads /\ Writes(call[u], r)
  BY DEF Pending, Unlogged, Reported, Writes
<1>3. \A u : u \in Pending(r)' <=> u \in Threads /\ Writes(call'[u], r)
  BY DEF Pending, Unlogged, Reported, Writes
<1> QED BY <1>1, <1>2, <1>3

LEMMA GapsGrow ==
  ASSUME LogInv
  PROVE  /\ Gaps \in Nat /\ Cardinality(Threads) \in Nat
         /\ (failed + 1) + starved + Cardinality(Threads) * restarts = Gaps + 1
         /\ failed + (starved + 1) + Cardinality(Threads) * restarts = Gaps + 1
         /\ failed + starved + Cardinality(Threads) * (restarts + 1) = Gaps + Cardinality(Threads)
<1> DEFINE T == Cardinality(Threads)
<1>1. T \in Nat
  BY AssetServiceAssumption, FS_CardinalityType
<1>2. failed \in Nat /\ starved \in Nat /\ restarts \in Nat
  BY DEF LogInv
<1> HIDE DEF T
<1>3. T * restarts \in Nat /\ T * (restarts + 1) = T * restarts + T
  BY <1>1, <1>2
<1>4. Gaps = failed + starved + T * restarts
  BY DEF Gaps, T
<1>5. /\ Gaps \in Nat
      /\ (failed + 1) + starved + T * restarts = Gaps + 1
      /\ failed + (starved + 1) + T * restarts = Gaps + 1
      /\ failed + starved + T * (restarts + 1) = Gaps + T
  <2> DEFINE p == T * restarts
  <2>1. p \in Nat BY <1>3
  <2>2. T * (restarts + 1) = p + T BY <1>3
  <2>3. Gaps = failed + starved + p BY <1>4
  <2> HIDE DEF p
  <2>4. /\ failed + starved + p \in Nat
        /\ (failed + 1) + starved + p = (failed + starved + p) + 1
        /\ failed + (starved + 1) + p = (failed + starved + p) + 1
        /\ failed + starved + (p + T) = (failed + starved + p) + T
    BY <1>1, <1>2, <2>1
  <2> QED BY <2>2, <2>3, <2>4 DEF p
<1> QED BY <1>1, <1>5 DEF T

\* A move between two places where nothing is owed to the log, or where the
\* same row is, leaves the account alone.
LEMMA LogMove ==
  ASSUME LogInv, ConnInv', StatusInv', NEW t \in Threads, NEW c, Goto(t, c),
         \A r : Writes(c, r) <=> Writes(call[t], r),
         UNCHANGED <<log, changes, logTable, restarts, failed, starved>>,
         faults' = faults \/ faults' = faults + 1
  PROVE  LogInv'
<1>1. TypeOK
  BY DEF LogInv, ConnInv, TypeInv
<1>2. \A r : Pending(r)' = Pending(r)
  <2> TAKE r
  <2>1. /\ Writes(c, r) => Pending(r)' = Pending(r) \cup {t}
        /\ ~Writes(c, r) => Pending(r)' = Pending(r) \ {t}
        /\ t \in Pending(r) <=> Writes(call[t], r)
    BY <1>1, PendingMove
  <2> QED BY <2>1
<1>3. \A r \in Change : Accounted(r)' = Accounted(r) /\ Copies(r, changes)' = Copies(r, changes)
  BY <1>2 DEF Accounted, Copies
<1>4. Gaps' = Gaps
  BY DEF Gaps
<1>5. faults' \in Nat /\ (logTable' => failed' <= faults')
  BY DEF LogInv
<1> QED BY <1>3, <1>4, <1>5 DEF LogInv

\* A committed change is owed to the log at once.
LEMMA LogChange ==
  ASSUME LogInv, ConnInv', StatusInv', NEW t \in Threads, NEW c, Goto(t, c),
         NEW x, \A r : Writes(c, r) <=> r = x, \A r : ~Writes(call[t], r),
         changes' = BagAdd(changes, x),
         UNCHANGED <<log, logTable, faults, restarts, failed, starved>>
  PROVE  LogInv'
<1>1. TypeOK /\ IsChangeBag(changes) /\ IsChangeBag(log)
  BY DEF LogInv, ConnInv, TypeInv, TypeOK, IsChangeBag
<1>2. ASSUME NEW r \in Change
      PROVE  \E n \in Nat : /\ Accounted(r)' = Accounted(r) + n
                            /\ Copies(r, changes)' = Copies(r, changes) + n
  <2>1. /\ Writes(c, r) => Pending(r)' = Pending(r) \cup {t}
        /\ ~Writes(c, r) => Pending(r)' = Pending(r) \ {t}
        /\ t \notin Pending(r)
    BY <1>1, PendingMove
  <2>2. Copies(r, log)' = Copies(r, log) /\ Copies(r, log) \in Nat
    BY <1>1, CopiesFacts DEF Copies
  <2>3. Copies(r, changes)' = Copies(r, BagAdd(changes, x))
    BY DEF Copies
  <2>4. /\ Copies(r, changes) \in Nat
        /\ r = x => Copies(r, changes)' = Copies(r, changes) + 1
        /\ r # x => Copies(r, changes)' = Copies(r, changes)
    BY <1>1, <2>3, CopiesFacts
  <2>5. IsFiniteSet(Pending(r)) /\ Cardinality(Pending(r)) \in Nat
    BY PendingFinite
  <2>6. CASE r = x
    <3>1. Pending(r)' = Pending(r) \cup {t}
      BY <2>1, <2>6
    <3>2. Cardinality(Pending(r) \cup {t}) = Cardinality(Pending(r)) + 1
      BY <2>1, <2>5, FS_AddElement
    <3>3. Accounted(r)' = Accounted(r) + 1
      BY <2>2, <2>5, <3>1, <3>2 DEF Accounted
    <3> QED BY <2>4, <2>6, <3>3
  <2>7. CASE r # x
    <3>1. Pending(r)' = Pending(r)
      BY <2>1, <2>7
    <3>2. Accounted(r)' = Accounted(r) + 0 /\ Copies(r, changes)' = Copies(r, changes) + 0
      BY <2>2, <2>4, <2>5, <2>7, <3>1 DEF Accounted
    <3> QED BY <3>2
  <2> QED BY <2>6, <2>7
<1>3. \A r \in Change : Accounted(r) \in Nat /\ Copies(r, changes) \in Nat
  BY <1>1, CopiesFacts, PendingFinite DEF Accounted
<1>4. Gaps' = Gaps /\ Gaps \in Nat
  BY GapsGrow DEF Gaps
<1>5. ASSUME NEW r \in Change
      PROVE  /\ Accounted(r)' <= Copies(r, changes)'
             /\ Copies(r, changes)' <= Accounted(r)' + Gaps'
  BY <1>2, <1>3, <1>4, <1>5 DEF LogInv
<1> QED BY <1>5 DEF LogInv

\* Writing the row settles it.
LEMMA LogWrite ==
  ASSUME LogInv, ConnInv', StatusInv', NEW t \in Threads, NEW c, Goto(t, c),
         NEW x, \A r : ~Writes(c, r), \A r : Writes(call[t], r) <=> r = x,
         log' = BagAdd(log, x),
         UNCHANGED <<changes, logTable, faults, restarts, failed, starved>>
  PROVE  LogInv'
<1>1. TypeOK /\ IsChangeBag(changes) /\ IsChangeBag(log)
  BY DEF LogInv, ConnInv, TypeInv, TypeOK, IsChangeBag
<1>2. ASSUME NEW r \in Change PROVE Accounted(r)' = Accounted(r)
  <2>1. /\ Pending(r)' = Pending(r) \ {t}
        /\ t \in Pending(r) <=> r = x
    BY <1>1, PendingMove
  <2>2. Copies(r, log)' = Copies(r, BagAdd(log, x))
    BY DEF Copies
  <2>3. /\ Copies(r, log) \in Nat
        /\ r = x => Copies(r, log)' = Copies(r, log) + 1
        /\ r # x => Copies(r, log)' = Copies(r, log)
    BY <1>1, <2>2, CopiesFacts
  <2>4. IsFiniteSet(Pending(r)) /\ Cardinality(Pending(r)) \in Nat
    BY PendingFinite
  <2>5. CASE r = x
    <3>1. Cardinality(Pending(r) \ {t}) = Cardinality(Pending(r)) - 1
      BY <2>1, <2>4, <2>5, FS_RemoveElement
    <3> QED BY <2>1, <2>3, <2>4, <2>5, <3>1 DEF Accounted
  <2>6. CASE r # x
    <3>1. Pending(r)' = Pending(r)
      BY <2>1, <2>6
    <3> QED BY <2>3, <2>6, <3>1 DEF Accounted
  <2> QED BY <2>5, <2>6
<1>3. \A r \in Change : Copies(r, changes)' = Copies(r, changes)
  BY DEF Copies
<1>4. Gaps' = Gaps
  BY DEF Gaps
<1> QED BY <1>2, <1>3, <1>4 DEF LogInv

\* A call that gives its row up makes one more gap.
LEMMA LogLost ==
  ASSUME LogInv, ConnInv', StatusInv', NEW t \in Threads, NEW c, Goto(t, c),
         \A r : ~Writes(c, r), UNCHANGED <<log, changes, restarts>>,
         faults' \in Nat, failed' \in Nat, starved' \in Nat,
         logTable' => failed' <= faults', Gaps' = Gaps + 1
  PROVE  LogInv'
<1>1. TypeOK /\ IsChangeBag(changes) /\ IsChangeBag(log)
  BY DEF LogInv, ConnInv, TypeInv, TypeOK, IsChangeBag
<1>2. ASSUME NEW r \in Change
      PROVE  /\ Accounted(r)' <= Copies(r, changes)'
             /\ Copies(r, changes)' <= Accounted(r)' + Gaps'
  <2>1. Pending(r)' = Pending(r) \ {t}
    BY <1>1, PendingMove
  <2> DEFINE n == Cardinality(Pending(r))
             m == Cardinality(Pending(r) \ {t})
  <2>2. n \in Nat /\ m \in Nat /\ (m = n \/ m = n - 1)
    <3>1. IsFiniteSet(Pending(r)) /\ n \in Nat
      BY PendingFinite
    <3>2. CASE t \in Pending(r)
      BY <3>1, <3>2, FS_RemoveElement, FS_CardinalityType
    <3>3. CASE t \notin Pending(r)
      <4>1. Pending(r) \ {t} = Pending(r) BY <3>3
      <4> QED BY <3>1, <4>1
    <3> QED BY <3>2, <3>3
  <2>3. Copies(r, log)' = Copies(r, log) /\ Copies(r, changes)' = Copies(r, changes)
    BY DEF Copies
  <2>4. Copies(r, log) \in Nat /\ Copies(r, changes) \in Nat /\ Gaps \in Nat
    BY <1>1, CopiesFacts, GapsGrow
  <2>5. /\ Copies(r, log) + n <= Copies(r, changes)
        /\ Copies(r, changes) <= (Copies(r, log) + n) + Gaps
    BY DEF LogInv, Accounted
  <2>6. Accounted(r)' = Copies(r, log) + m
    BY <2>1, <2>3 DEF Accounted
  <2> HIDE DEF n, m
  <2> QED BY <2>2, <2>3, <2>4, <2>5, <2>6
<1> QED BY <1>2 DEF LogInv

\* A call finds no connection for its row only where there was never one for
\* every call: it waits with one, the other threads hold two each at most.
LEMMA StarvesWhenSmall ==
  ASSUME ConnInv, NEW t \in Threads, At(t, "log"), free = 0
  PROVE  PoolTooSmall
<1>1. IsFiniteSet(Threads) /\ Cardinality(Threads) \in Nat
  BY AssetServiceAssumption, FS_CardinalityType
<1>2. Cardinality(Threads \ {t}) = Cardinality(Threads) - 1
  BY <1>1, FS_RemoveElement
<1>3. InCall \subseteq Threads /\ InLog \subseteq Threads \ {t}
  BY DEF InCall, InLog, At
<1>4. IsFiniteSet(Threads \ {t})
  BY <1>1, FS_RemoveElement
<1>5. /\ Cardinality(InCall) \in Nat /\ Cardinality(InCall) <= Cardinality(Threads)
      /\ Cardinality(InLog) \in Nat /\ Cardinality(InLog) <= Cardinality(Threads) - 1
  BY <1>1, <1>2, <1>3, <1>4, FS_Subset, FS_CardinalityType
<1>6. leaked \in Nat /\ MaxConnections \in Nat
  BY AssetServiceAssumption DEF ConnInv, TypeInv, TypeOK
<1>7. leaked + Cardinality(InCall) + Cardinality(InLog) = MaxConnections
  BY <1>5, <1>6 DEF ConnInv, ConnectionsConserved
<1>8. ~(leaked + 2 * Cardinality(Threads) <= MaxConnections)
  BY <1>1, <1>5, <1>6, <1>7
<1> QED BY <1>1, <1>6, <1>8 DEF PoolTooSmall

LEMMA LogStep ==
  ASSUME LogInv, OneWriterPerAsset, [Next]_vars
  PROVE  LogInv'
<1>1. StatusInv'
  BY StatusStep DEF LogInv
<1>2. ConnInv'
  BY ConnStep DEF LogInv
<1>3. TypeOK
  BY DEF LogInv, ConnInv, TypeInv
<1>4. ASSUME NEW t \in Threads, Insert(t) PROVE LogInv'
  <2>1. PICK a \in Assets :
          /\ changes' = BagAdd(changes, Report(a, Unknown, "IN_STOCK"))
          /\ Goto(t, [pc |-> "log", asset |-> a, old |-> Unknown, new |-> "IN_STOCK"])
    BY <1>4 DEF Insert
  <2> DEFINE c == [pc |-> "log", asset |-> a, old |-> Unknown, new |-> "IN_STOCK"]
             x == Report(a, Unknown, "IN_STOCK")
  <2>2. \A r : Writes(c, r) <=> r = x
    BY DEF Writes
  <2>3. \A r : ~Writes(call[t], r)
    BY <1>4 DEF Insert, At, Writes
  <2>4. Goto(t, c) /\ changes' = BagAdd(changes, x) /\ UNCHANGED <<log, logTable, faults, restarts, failed, starved>>
    BY <1>4, <2>1 DEF Insert
  <2> HIDE DEF c, x
  <2> QED BY <1>1, <1>2, <2>2, <2>3, <2>4, LogChange
<1>5. ASSUME NEW t \in Threads, Update(t) PROVE LogInv'
  <2> DEFINE c == [pc |-> "log", asset |-> call[t].asset, old |-> call[t].old,
                   new |-> call[t].new]
             x == Report(call[t].asset, assets[call[t].asset].status, call[t].new)
  <2>1. call[t].old = assets[call[t].asset].status
    BY <1>5 DEF Update, LogInv, StatusInv, ReadStillTrue
  <2>2. \A r : Writes(c, r) <=> r = x
    BY <2>1 DEF Writes
  <2>3. \A r : ~Writes(call[t], r)
    BY <1>5 DEF Update, At, Writes
  <2>4. Goto(t, c) /\ changes' = BagAdd(changes, x) /\ UNCHANGED <<log, logTable, faults, restarts, failed, starved>>
    BY <1>5, Zenon DEF Update, GoOn
  <2> HIDE DEF c, x
  <2> QED BY <1>1, <1>2, <2>2, <2>3, <2>4, LogChange
<1>6. ASSUME NEW t \in Threads, WriteLog(t) PROVE LogInv'
  <2> DEFINE c == [pc |-> "return"]
             x == Reported(t)
  <2>1. \A r : ~Writes(c, r)
    BY DEF Writes
  <2>2. \A r : Writes(call[t], r) <=> r = x
    BY <1>6 DEF WriteLog, At, Writes, Reported
  <2>3. Goto(t, c) /\ log' = BagAdd(log, x) /\ UNCHANGED <<changes, logTable, faults, restarts, failed, starved>>
    BY <1>6, Zenon DEF WriteLog, Logged
  <2> HIDE DEF c, x
  <2> QED BY <1>1, <1>2, <2>1, <2>2, <2>3, LogWrite
<1>7. ASSUME NEW t \in Threads, LogFails(t) \/ LogTimeout(t) PROVE LogInv'
  <2> DEFINE c == [pc |-> "return"]
  <2>1. \A r : ~Writes(c, r)
    BY DEF Writes
  <2>2. Goto(t, c) /\ UNCHANGED <<log, changes, logTable, restarts>>
    BY <1>7, Zenon DEF LogFails, LogTimeout
  <2>3. /\ faults \in Nat /\ failed \in Nat /\ starved \in Nat
        /\ logTable => failed <= faults
    BY DEF LogInv
  <2>4. faults' \in Nat /\ failed' \in Nat /\ starved' \in Nat
    BY <1>7, <2>3 DEF LogFails, LogTimeout
  <2>5. logTable' => failed' <= faults'
    BY <1>7, <2>2, <2>3 DEF LogFails, LogTimeout
  <2>6. Gaps' = Gaps + 1
    <3>1. CASE LogFails(t)
      BY <2>2, <3>1, GapsGrow DEF LogFails, Gaps
    <3>2. CASE LogTimeout(t)
      BY <2>2, <3>2, GapsGrow DEF LogTimeout, Gaps
    <3> QED BY <1>7, <3>1, <3>2
  <2> HIDE DEF c
  <2> QED BY <1>1, <1>2, <2>1, <2>2, <2>4, <2>5, <2>6, LogLost
\* The other steps change neither the log nor what is owed to it.
<1>8. ASSUME NEW t \in Threads, NEW c, Goto(t, c),
             UNCHANGED <<log, changes, logTable, restarts, failed, starved>>,
             faults' = faults \/ faults' = faults + 1,
             call[t].pc \notin {"log", "write"}, c.pc \notin {"log", "write"}
      PROVE  LogInv'
  <2>1. \A r : Writes(c, r) <=> Writes(call[t], r)
    BY <1>8 DEF Writes
  <2> QED BY <1>1, <1>2, <1>8, <2>1, LogMove
<1>9. ASSUME NEW t \in Threads, Create(t) PROVE LogInv'
  <2> DEFINE c(n, g, tag) == [pc |-> "insert", code |-> n, generated |-> g, tag |-> tag]
  <2>1. PICK n, g, tag : Begin(t, c(n, g, tag))
    BY <1>9, Zenon DEF Create, CreateGenerated, CreateGiven
  <2>2. UNCHANGED <<log, changes, logTable, restarts, faults, failed, starved>>
    BY <1>9 DEF Create, CreateGenerated, CreateGiven
  <2>3. c(n, g, tag).pc = "insert"
    OBVIOUS
  <2> HIDE DEF c
  <2>4. Goto(t, c(n, g, tag)) /\ call[t].pc = "idle"
    BY <2>1, Zenon DEF Begin, At
  <2> QED BY <1>8, <2>2, <2>3, <2>4
<1>10. ASSUME NEW t \in Threads, NEW a, NEW new, BeginUpdate(t, a, new) PROVE LogInv'
  <2> DEFINE c == [pc |-> "select", asset |-> a, new |-> new]
  <2>1. Goto(t, c) /\ call[t].pc = "idle" /\ UNCHANGED <<log, changes, logTable, restarts, faults, failed, starved>>
    BY <1>10, Zenon DEF BeginUpdate, Begin, At
  <2>2. c.pc = "select"
    OBVIOUS
  <2> HIDE DEF c
  <2> QED BY <1>8, <2>1, <2>2
<1>11. ASSUME NEW t \in Threads, BeginQuery(t) PROVE LogInv'
  <2> DEFINE c == [pc |-> "query"]
  <2>1. Goto(t, c) /\ call[t].pc = "idle" /\ UNCHANGED <<log, changes, logTable, restarts, faults, failed, starved>>
    BY <1>11, Zenon DEF BeginQuery, Begin, At
  <2>2. c.pc = "query"
    OBVIOUS
  <2> HIDE DEF c
  <2> QED BY <1>8, <2>1, <2>2
<1>12. ASSUME NEW t \in Threads, Select(t) PROVE LogInv'
  <2> DEFINE c == [pc |-> "update", asset |-> call[t].asset,
                   old |-> assets[call[t].asset].status, new |-> call[t].new]
  <2>1. Goto(t, c) /\ call[t].pc = "select" /\ UNCHANGED <<log, changes, logTable, restarts, faults, failed, starved>>
    BY <1>12, Zenon DEF Select, At
  <2>2. c.pc = "update"
    OBVIOUS
  <2> HIDE DEF c
  <2> QED BY <1>8, <2>1, <2>2
<1>13. ASSUME NEW t \in Threads,
              \/ InsertRefused(t) \/ SummaryThrows(t) \/ Fault(t)
              \/ SelectRefuses(t) \/ Finish(t) \/ QueryReturns(t)
       PROVE  LogInv'
  <2>1. /\ Goto(t, Idle) /\ Idle.pc = "idle"
        /\ UNCHANGED <<log, changes, logTable, restarts, failed, starved>>
    BY <1>13 DEF InsertRefused, SummaryThrows, Fault, SelectRefuses, Finish, QueryReturns,
                 Return, Idle
  <2>2. call[t].pc \in {"insert", "select", "update", "query", "return"}
    BY <1>13 DEF InsertRefused, SummaryThrows, Fault, SelectRefuses, Finish, QueryReturns, At
  <2>3. faults' = faults \/ faults' = faults + 1
    BY <1>13 DEF InsertRefused, SummaryThrows, Fault, SelectRefuses, Finish, QueryReturns
  <2> QED BY <1>8, <2>1, <2>2, <2>3
<1>14. ASSUME NEW t \in Threads, LogAcquire(t) PROVE LogInv'
  <2> DEFINE c == [pc |-> "write", asset |-> call[t].asset, old |-> call[t].old,
                   new |-> call[t].new]
  <2>1. /\ Goto(t, c) /\ call[t].pc = "log"
        /\ UNCHANGED <<log, changes, logTable, restarts, faults, failed, starved>>
    BY <1>14, Zenon DEF LogAcquire, GoOn, At
  <2>2. \A r : Writes(c, r) <=> Writes(call[t], r)
    BY <2>1 DEF Writes
  <2> HIDE DEF c
  <2> QED BY <1>1, <1>2, <2>1, <2>2, LogMove
<1>15. CASE Restart
  <2>1. \A r : Pending(r)' = {}
    BY <1>15 DEF Restart, Pending, Unlogged, Idle
  <2>2. /\ restarts' = restarts + 1 /\ restarts' \in Nat
        /\ UNCHANGED <<log, changes, logTable, faults, failed, starved>>
    BY <1>15 DEF Restart, LogInv
  <2>3. Gaps' = Gaps + Cardinality(Threads)
    BY <2>2, GapsGrow DEF Gaps
  <2>4. ASSUME NEW r \in Change
        PROVE  /\ Accounted(r)' <= Copies(r, changes)'
               /\ Copies(r, changes)' <= Accounted(r)' + Gaps'
    <3>1. Copies(r, log)' = Copies(r, log) /\ Copies(r, changes)' = Copies(r, changes)
      BY <2>2 DEF Copies
    <3>2. Copies(r, log) \in Nat /\ Copies(r, changes) \in Nat
      BY <1>3, CopiesFacts DEF TypeOK, IsChangeBag
    <3>3. Cardinality(Pending(r)) \in Nat /\ Cardinality(Pending(r)) <= Cardinality(Threads)
      <4>1. Pending(r) \subseteq Threads BY DEF Pending, Unlogged
      <4> QED BY <4>1, PendingFinite, AssetServiceAssumption, FS_Subset
    <3>4. /\ Copies(r, log) + Cardinality(Pending(r)) <= Copies(r, changes)
          /\ Copies(r, changes) <= (Copies(r, log) + Cardinality(Pending(r))) + Gaps
      BY DEF LogInv, Accounted
    <3>5. Accounted(r)' = Copies(r, log)' + 0
      BY <2>1, FS_EmptySet DEF Accounted
    <3>6. Gaps \in Nat /\ Cardinality(Threads) \in Nat
      BY GapsGrow
    <3> QED BY <2>3, <3>1, <3>2, <3>3, <3>4, <3>5, <3>6
  <2> QED BY <1>1, <1>2, <2>2, <2>4 DEF LogInv
<1>16. CASE UNCHANGED vars
  <2>1. \A r : Pending(r)' = Pending(r)
    BY <1>16 DEF vars, Pending, Unlogged, Reported
  <2>2. \A r : Accounted(r)' = Accounted(r) /\ Copies(r, changes)' = Copies(r, changes)
    BY <1>16, <2>1 DEF vars, Accounted, Copies
  <2>3. UNCHANGED <<logTable, faults, restarts, failed, starved>> /\ Gaps' = Gaps
    BY <1>16 DEF vars, Gaps
  <2> QED BY <1>1, <1>2, <2>2, <2>3 DEF LogInv
<1> QED
  BY <1>4, <1>5, <1>6, <1>7, <1>9, <1>10, <1>11, <1>12, <1>13, <1>14, <1>15, <1>16, Zenon
     DEF Next, Step

LEMMA InitLog == Init => LogInv
<1> SUFFICES ASSUME Init PROVE LogInv
  OBVIOUS
<1>1. /\ ConnInv /\ StatusInv
      /\ faults = 0 /\ restarts = 0 /\ failed = 0 /\ starved = 0
  BY InitConn, InitStatus DEF Init
<1>2. \A r : Pending(r) = {}
  BY DEF Init, Pending, Unlogged, Idle
<1>3. \A r : Copies(r, log) = 0 /\ Copies(r, changes) = 0
  BY DEF Init, Copies, Bag!EmptyBag, Bag!SetToBag
<1>4. \A r : Accounted(r) = 0
  BY <1>2, <1>3, FS_EmptySet DEF Accounted
<1>5. Gaps \in Nat
  <2>1. Cardinality(Threads) \in Nat /\ Cardinality(Threads) * 0 = 0
    BY AssetServiceAssumption, FS_CardinalityType
  <2> QED BY <1>1, <2>1 DEF Gaps
<1> QED BY <1>1, <1>3, <1>4, <1>5 DEF LogInv

LEMMA LogAlways ==
  ASSUME OneWriterPerAsset
  PROVE  Spec => []LogInv
<1>1. LogInv /\ [Next]_vars => LogInv'
  BY LogStep
<1> QED BY <1>1, InitLog, PTL DEF Spec

\* If the callers of one thread only change an asset, every row of the operation
\* log is a committed change, with the status the asset had before it, and no
\* change has two rows: whatever fails, and through restarts.
THEOREM LogTruthfulHolds ==
  ASSUME OneWriterPerAsset
  PROVE  Spec => []LogTruthful
<1>1. LogInv => LogTruthful
  <2> SUFFICES ASSUME LogInv, NEW r \in DOMAIN log
               PROVE  log[r] <= Copies(r, changes)
    BY DEF LogTruthful, Within
  <2>1. r \in Change /\ IsChangeBag(changes) /\ IsChangeBag(log)
    BY DEF LogInv, ConnInv, TypeInv, TypeOK, IsChangeBag
  <2>2. /\ Copies(r, log) \in Nat /\ Copies(r, changes) \in Nat
        /\ Cardinality(Pending(r)) \in Nat
    BY <2>1, CopiesFacts, PendingFinite
  <2>3. Copies(r, log) + Cardinality(Pending(r)) <= Copies(r, changes)
    BY <2>1 DEF LogInv, Accounted
  <2>4. log[r] = Copies(r, log)
    BY DEF Copies
  <2> QED BY <2>2, <2>3, <2>4
<1> QED BY <1>1, LogAlways, PTL

\* Under the same assumption, through failing statements, restarts and a missing
\* table: a committed change that has no row has its call on the way to it, or
\* a row given up, or a restart, to its account; and a row is given up for want
\* of a connection in a pool that has less than two for every thread left.
THEOREM LogGapsExplainedHolds ==
  ASSUME OneWriterPerAsset
  PROVE  Spec => []LogGapsExplained
<1>1. LogInv => LogGapsExplained
  <2> SUFFICES ASSUME LogInv PROVE LogGapsExplained
    OBVIOUS
  <2>1. ASSUME NEW r \in DOMAIN changes
        PROVE  changes[r] <= Copies(r, log) + Cardinality(Pending(r))
                               + (failed + starved + Cardinality(Threads) * restarts)
    <3>1. r \in Change
      BY DEF LogInv, ConnInv, TypeInv, TypeOK
    <3>2. Copies(r, changes) <= Accounted(r) + Gaps
      BY <3>1 DEF LogInv
    <3>3. changes[r] = Copies(r, changes)
      BY DEF Copies
    <3> QED BY <3>2, <3>3 DEF Accounted, Gaps
  <2>2. logTable => failed <= faults
    BY DEF LogInv
  <2>3. Starving => PoolTooSmall
    BY StarvesWhenSmall DEF LogInv, Starving
  <2> QED BY <2>1, <2>2, <2>3 DEF LogGapsExplained, MissingAtMost
<1> QED BY <1>1, LogAlways, PTL
=============================================================================
