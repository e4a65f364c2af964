---------------------------- MODULE DBPoolProofs ----------------------------
(***************************************************************************)
(* What holds of the connection pool for every number of threads,          *)
(* connections and faults.                                                 *)
(***************************************************************************)
EXTENDS DBPool, FiniteSetTheorems, TLAPS

-----------------------------------------------------------------------------
(* Sequences without repetition *)

\* Taking the last element off a sequence (pop_back) keeps the rest distinct
\* from it.
LEMMA FrontFacts ==
  ASSUME NEW S, NEW s \in Seq(S), s # <<>>
  PROVE  /\ Front(s) \in Seq(S)
         /\ Len(Front(s)) = Len(s) - 1
         /\ Last(s) \in S
         /\ Range(s) = Range(Front(s)) \cup {Last(s)}
         /\ IsInjective(s) => IsInjective(Front(s)) /\ Last(s) \notin Range(Front(s))
<1>1. Len(s) \in Nat /\ Len(s) > 0 /\ s \in [1..Len(s) -> S]
  OBVIOUS
<1>2. /\ Front(s) \in Seq(S)
      /\ Len(Front(s)) = Len(s) - 1
      /\ DOMAIN Front(s) = 1..(Len(s) - 1)
      /\ \A i \in 1..(Len(s) - 1) : Front(s)[i] = s[i]
  BY <1>1 DEF Front
<1>3. Last(s) \in S
  BY <1>1 DEF Last
<1>4. Range(s) = Range(Front(s)) \cup {Last(s)}
  <2>1. ASSUME NEW x \in Range(s) PROVE x \in Range(Front(s)) \cup {Last(s)}
    <3>1. PICK i \in 1..Len(s) : x = s[i]
      BY <1>1, <2>1 DEF Range
    <3>2. CASE i = Len(s)
      BY <3>1, <3>2 DEF Last
    <3>3. CASE i # Len(s)
      <4>1. i \in 1..(Len(s) - 1)
        <5>1. Len(s) \in Nat /\ i \in Nat /\ i >= 1 /\ i <= Len(s)
          BY <1>1, <3>1
        <5> QED BY <5>1, <3>3
      <4>2. i \in DOMAIN Front(s) /\ Front(s)[i] = x
        BY <4>1, <1>2, <3>1
      <4> QED BY <4>2 DEF Range
    <3> QED BY <3>2, <3>3
  <2>2. Range(Front(s)) \subseteq Range(s)
    BY <1>1, <1>2 DEF Range
  <2>3. Last(s) \in Range(s)
    BY <1>1 DEF Range, Last
  <2> QED BY <2>1, <2>2, <2>3
<1>5. ASSUME IsInjective(s)
      PROVE  IsInjective(Front(s)) /\ Last(s) \notin Range(Front(s))
  BY <1>1, <1>2, <1>5 DEF IsInjective, Range, Last
<1> QED BY <1>2, <1>3, <1>4, <1>5

\* push_back of something new keeps a sequence free of repetitions.
LEMMA AppendFacts ==
  ASSUME NEW S, NEW s \in Seq(S), NEW e \in S
  PROVE  /\ Append(s, e) \in Seq(S)
         /\ Len(Append(s, e)) = Len(s) + 1
         /\ Range(Append(s, e)) = Range(s) \cup {e}
         /\ IsInjective(s) /\ e \notin Range(s) => IsInjective(Append(s, e))
<1>1. /\ Append(s, e) \in Seq(S)
      /\ Len(Append(s, e)) = Len(s) + 1
      /\ \A i \in 1..Len(s) : Append(s, e)[i] = s[i]
      /\ Append(s, e)[Len(s) + 1] = e
      /\ DOMAIN Append(s, e) = 1..(Len(s) + 1)
      /\ DOMAIN s = 1..Len(s)
      /\ Len(s) \in Nat
  OBVIOUS
<1>2. Range(Append(s, e)) = Range(s) \cup {e}
  <2>1. ASSUME NEW x \in Range(Append(s, e)) PROVE x \in Range(s) \cup {e}
    <3>1. PICK i \in 1..(Len(s) + 1) : x = Append(s, e)[i]
      BY <1>1, <2>1 DEF Range
    <3> QED BY <1>1, <3>1 DEF Range
  <2>2. Range(s) \subseteq Range(Append(s, e))
    BY <1>1 DEF Range
  <2>3. e \in Range(Append(s, e))
    BY <1>1 DEF Range
  <2> QED BY <2>1, <2>2, <2>3
<1>3. ASSUME IsInjective(s), e \notin Range(s) PROVE IsInjective(Append(s, e))
  BY <1>1, <1>3 DEF IsInjective, Range
<1> QED BY <1>1, <1>2, <1>3

\* The scan of acquire leaves a suffix of the idle connections.
LEMMA SuffixFacts ==
  ASSUME NEW S, NEW s \in Seq(S), NEW i \in DOMAIN s
  PROVE  LET r == SubSeq(s, i + 1, Len(s)) IN
         /\ r \in Seq(S)
         /\ Range(r) \subseteq Range(s)
         /\ s[i] \in S /\ s[i] \in Range(s)
         /\ IsInjective(s) => IsInjective(r) /\ s[i] \notin Range(r)
<1> DEFINE r == SubSeq(s, i + 1, Len(s))
<1>1. Len(s) \in Nat /\ i \in 1..Len(s) /\ s \in [1..Len(s) -> S]
  OBVIOUS
<1>2. /\ r \in Seq(S)
      /\ Len(r) = Len(s) - i
      /\ DOMAIN r = 1..(Len(s) - i)
      /\ \A j \in 1..(Len(s) - i) : r[j] = s[i + j]
  BY <1>1
<1>3. Range(r) \subseteq Range(s)
  BY <1>1, <1>2 DEF Range
<1>4. ASSUME IsInjective(s) PROVE IsInjective(r) /\ s[i] \notin Range(r)
  <2>1. IsInjective(r)
    BY <1>1, <1>2, <1>4 DEF IsInjective
  <2>2. ASSUME NEW j \in 1..(Len(s) - i), r[j] = s[i] PROVE FALSE
    BY <1>1, <1>2, <1>4, <2>2 DEF IsInjective
  <2> QED BY <1>2, <2>1, <2>2 DEF Range
<1> HIDE DEF r
<1>5. s[i] \in S /\ s[i] \in Range(s)
  BY <1>1 DEF Range
<1> QED BY <1>2, <1>3, <1>4, <1>5 DEF r

\* Turning a finite set into a sequence (the constructor, reconnectAll).
LEMMA SetToSeqsFacts ==
  ASSUME NEW S, NEW s \in SetToSeqs(S), IsFiniteSet(S)
  PROVE  s \in Seq(S) /\ IsInjective(s) /\ Range(s) \subseteq S
<1>1. Cardinality(S) \in Nat
  BY FS_CardinalityType
<1>2. s \in [1..Cardinality(S) -> S] /\ \A i, j \in 1..Cardinality(S) : i # j => s[i] # s[j]
  BY DEF SetToSeqs
<1>3. s \in Seq(S)
  BY <1>1, <1>2
<1> QED BY <1>1, <1>2, <1>3 DEF IsInjective, Range

-----------------------------------------------------------------------------
(* Types *)

LEMMA InitType == Init => TypeOK
<1> SUFFICES ASSUME Init PROVE TypeOK
  OBVIOUS
<1>1. pool \subseteq Conns
  BY DEF Init
<1>2. IsFiniteSet(pool)
  BY <1>1, DBPoolAssumption, FS_Subset
<1>3. available \in Seq(pool)
  BY <1>2, SetToSeqsFacts DEF Init
<1>4. available \in Seq(Conns)
  BY <1>1, <1>3
<1> QED BY <1>1, <1>4, DBPoolAssumption DEF Init, TypeOK

\* A running caller has an innermost connection; popping it keeps the types.
LEMMA PopType ==
  ASSUME TypeOK, NEW t \in Threads, Running(t)
  PROVE  /\ held[t] \in Seq(Conns)
         /\ held[t] # <<>>
         /\ Current(t) \in Conns
         /\ Front(held[t]) \in Seq(Conns)
         /\ Len(Front(held[t])) = Len(held[t]) - 1
         /\ Len(held[t]) \in Nat
<1>1. held[t] \in Seq(Conns) /\ held[t] # <<>>
  BY DEF TypeOK, Running
<1>2. Last(held[t]) \in Conns /\ Front(held[t]) \in Seq(Conns)
      /\ Len(Front(held[t])) = Len(held[t]) - 1
  BY <1>1, FrontFacts
<1> QED BY <1>1, <1>2 DEF Current

\* Pushing a connection on a stack that has room keeps the types.
LEMMA PushType ==
  ASSUME TypeOK, NEW t \in Threads, NEW c \in Conns, Take(t, c),
         \/ t \notin waiting /\ Len(held[t]) < CallDepth /\ waiting' = waiting
         \/ t \in waiting /\ waiting' = waiting \ {t}
  PROVE  /\ held' \in [Threads -> Seq(Conns)]
         /\ \A u \in Threads : Len(held'[u]) + (IF u \in waiting' THEN 1 ELSE 0) <= CallDepth
<1>1. held[t] \in Seq(Conns) /\ CallDepth \in Nat
  BY DBPoolAssumption DEF TypeOK
<1>2. Append(held[t], c) \in Seq(Conns) /\ Len(Append(held[t], c)) = Len(held[t]) + 1
  BY <1>1, AppendFacts
<1>3. held' = [held EXCEPT ![t] = Append(held[t], c)]
  BY DEF Take
<1>4. held' \in [Threads -> Seq(Conns)]
  BY <1>2, <1>3 DEF TypeOK
<1>5. ASSUME NEW u \in Threads
      PROVE  Len(held'[u]) + (IF u \in waiting' THEN 1 ELSE 0) <= CallDepth
  <2>1. CASE u = t
    <3>1. held'[u] = Append(held[t], c)
      BY <1>3, <2>1 DEF TypeOK
    <3>2. Len(held[t]) \in Nat /\ Len(held[t]) + 1 <= CallDepth /\ u \notin waiting'
      BY <1>1, <2>1 DEF TypeOK
    <3> QED BY <1>1, <1>2, <3>1, <3>2
  <2>2. CASE u # t
    <3>1. held'[u] = held[u] /\ (u \in waiting' <=> u \in waiting)
      BY <1>3, <2>2 DEF TypeOK
    <3> QED BY <3>1 DEF TypeOK
  <2> QED BY <2>1, <2>2
<1> QED BY <1>4, <1>5

\* Ending a call keeps the types.
LEMMA DropType ==
  ASSUME TypeOK, NEW t \in Threads, Running(t), Drop(t), waiting' = waiting
  PROVE  /\ held' \in [Threads -> Seq(Conns)]
         /\ \A u \in Threads : Len(held'[u]) + (IF u \in waiting' THEN 1 ELSE 0) <= CallDepth
<1>1. held' = [held EXCEPT ![t] = Front(held[t])]
  BY DEF Drop
<1>2. held' \in [Threads -> Seq(Conns)]
  BY <1>1, PopType DEF TypeOK, Drop
<1>3. ASSUME NEW u \in Threads
      PROVE  Len(held'[u]) + (IF u \in waiting' THEN 1 ELSE 0) <= CallDepth
  <2>1. CASE u = t
    <3>1. held'[u] = Front(held[t]) /\ u \notin waiting'
      BY <1>1, <2>1 DEF TypeOK, Running
    <3>2. Len(held[t]) <= CallDepth
      BY DEF TypeOK, Running
    <3> QED BY <3>1, <3>2, PopType, DBPoolAssumption
  <2>2. CASE u # t
    BY <1>1, <2>2 DEF TypeOK
  <2> QED BY <2>1, <2>2
<1> QED BY <1>2, <1>3

LEMMA TypeStep == TypeOK /\ [Next]_vars => TypeOK'
<1> SUFFICES ASSUME TypeOK, [Next]_vars PROVE TypeOK'
  OBVIOUS
<1> USE DEF poolVars, callVars, dbVars
<1>1. ASSUME NEW t \in Threads, AcquireIdle(t) PROVE TypeOK'
  <2>1. PICK i \in DOMAIN available : available' = AfterScan(i) /\ Take(t, available[i])
    BY <1>1 DEF AcquireIdle
  <2>2. /\ t \notin waiting /\ Len(held[t]) < CallDepth /\ inUse' = inUse + 1
        /\ UNCHANGED <<pool, waiting, inTxn, closing, dropped, broken, dbUp, faults>>
    BY <1>1 DEF AcquireIdle, MayAcquire
  <2>3. available' \in Seq(Conns) /\ available[i] \in Conns
    BY <2>1, SuffixFacts DEF AfterScan, TypeOK
  <2>4. /\ held' \in [Threads -> Seq(Conns)]
        /\ \A u \in Threads : Len(held'[u]) + (IF u \in waiting' THEN 1 ELSE 0) <= CallDepth
    BY <2>1, <2>2, <2>3, PushType
  <2> QED BY <2>2, <2>3, <2>4 DEF TypeOK
<1>2. ASSUME NEW t \in Threads, AcquireNew(t) PROVE TypeOK'
  <2>1. PICK c \in Conns : pool' = pool \cup {c} /\ Take(t, c) /\ broken' = broken \ {c}
    BY <1>2 DEF AcquireNew
  <2>2. /\ t \notin waiting /\ Len(held[t]) < CallDepth /\ inUse' = inUse + 1
        /\ available' = <<>>
        /\ UNCHANGED <<waiting, inTxn, closing, dropped, dbUp, faults>>
    BY <1>2 DEF AcquireNew, MayAcquire
  <2>3. /\ held' \in [Threads -> Seq(Conns)]
        /\ \A u \in Threads : Len(held'[u]) + (IF u \in waiting' THEN 1 ELSE 0) <= CallDepth
    BY <2>1, <2>2, PushType
  <2> QED BY <2>1, <2>2, <2>3 DEF TypeOK
<1>3. ASSUME NEW t \in Threads, AcquireWait(t) PROVE TypeOK'
  <2>1. /\ Len(held[t]) < CallDepth /\ available' = <<>> /\ waiting' = waiting \cup {t}
        /\ UNCHANGED <<pool, inUse, held, inTxn, closing, dropped, broken, dbUp, faults>>
    BY <1>3 DEF AcquireWait, MayAcquire
  <2>2. Len(held[t]) \in Nat /\ CallDepth \in Nat
    BY DBPoolAssumption DEF TypeOK
  <2>3. \A u \in Threads : Len(held[u]) + (IF u \in waiting' THEN 1 ELSE 0) <= CallDepth
    BY <2>1, <2>2 DEF TypeOK
  <2> QED BY <2>1, <2>3 DEF TypeOK
<1>4. ASSUME NEW t \in Threads, WakeValid(t) PROVE TypeOK'
  <2>1. /\ t \in waiting /\ waiting' = waiting \ {t} /\ inUse' = inUse + 1
        /\ available # <<>> /\ available' = Front(available) /\ Take(t, Last(available))
        /\ UNCHANGED <<pool, inTxn, closing, dropped, broken, dbUp, faults>>
    BY <1>4 DEF WakeValid, AfterBack, Woken
  <2>2. available' \in Seq(Conns) /\ Last(available) \in Conns
    BY <2>1, FrontFacts DEF TypeOK
  <2>3. /\ held' \in [Threads -> Seq(Conns)]
        /\ \A u \in Threads : Len(held'[u]) + (IF u \in waiting' THEN 1 ELSE 0) <= CallDepth
    BY <2>1, <2>2, PushType
  <2> QED BY <2>1, <2>2, <2>3 DEF TypeOK
<1>5. ASSUME NEW t \in Threads, WakeReplace(t) PROVE TypeOK'
  <2>1. /\ t \in waiting /\ waiting' = waiting \ {t} /\ inUse' = inUse + 1
        /\ available # <<>> /\ available' = Front(available)
        /\ UNCHANGED <<pool, inTxn, closing, dropped, dbUp, faults>>
    BY <1>5 DEF WakeReplace, AfterBack, Woken
  <2>2. PICK c \in Conns : Take(t, c) /\ broken' = broken \ {c}
    BY <1>5 DEF WakeReplace
  <2>3. available' \in Seq(Conns)
    BY <2>1, FrontFacts DEF TypeOK
  <2>4. /\ held' \in [Threads -> Seq(Conns)]
        /\ \A u \in Threads : Len(held'[u]) + (IF u \in waiting' THEN 1 ELSE 0) <= CallDepth
    BY <2>1, <2>2, PushType
  <2> QED BY <2>1, <2>2, <2>3, <2>4 DEF TypeOK
<1>6. ASSUME NEW t \in Threads, WakeFail(t) \/ WaitTimeout(t) PROVE TypeOK'
  <2>1. /\ waiting' = waiting \ {t}
        /\ \/ available' = available
           \/ available # <<>> /\ available' = Front(available)
        /\ UNCHANGED <<pool, inUse, held, inTxn, closing, dropped, broken, dbUp, faults>>
    <3>1. CASE WakeFail(t)
      BY <3>1 DEF WakeFail, AfterBack, Woken
    <3>2. CASE WaitTimeout(t)
      BY <3>2 DEF WaitTimeout, Woken
    <3> QED BY <1>6, <3>1, <3>2
  <2>2. available' \in Seq(Conns)
    <3>1. available \in Seq(Conns)
      BY DEF TypeOK
    <3>2. available # <<>> => Front(available) \in Seq(Conns)
      BY <3>1, FrontFacts
    <3> QED BY <2>1, <3>1, <3>2
  <2>3. \A u \in Threads : Len(held[u]) \in Nat
    BY DEF TypeOK
  <2>4. \A u \in Threads : Len(held[u]) + (IF u \in waiting' THEN 1 ELSE 0) <= CallDepth
    BY <2>1, <2>3, DBPoolAssumption DEF TypeOK
  <2> QED BY <2>1, <2>2, <2>4 DEF TypeOK
<1>7. ASSUME NEW t \in Threads, ReleaseValid(t) PROVE TypeOK'
  <2>1. /\ Running(t) /\ Drop(t) /\ available' = Append(available, Current(t))
        /\ UNCHANGED <<pool, waiting, inTxn, closing, dropped, broken, dbUp, faults>>
    BY <1>7 DEF ReleaseValid
  <2>2. inUse' \in Nat
    BY <1>7 DEF ReleaseValid, Decremented, TypeOK
  <2>3. available' \in Seq(Conns)
    BY <2>1, PopType, AppendFacts DEF TypeOK
  <2>4. /\ held' \in [Threads -> Seq(Conns)]
        /\ \A u \in Threads : Len(held'[u]) + (IF u \in waiting' THEN 1 ELSE 0) <= CallDepth
    BY <2>1, DropType
  <2> QED BY <2>1, <2>2, <2>3, <2>4 DEF TypeOK
<1>8. ASSUME NEW t \in Threads, ReleaseReplace(t) PROVE TypeOK'
  <2>1. PICK c \in Conns : /\ pool' = (pool \ {Current(t)}) \cup {c}
                            /\ available' = Append(available, c)
                            /\ broken' = broken \ {c}
    BY <1>8 DEF ReleaseReplace
  <2>2. Running(t) /\ Drop(t) /\ UNCHANGED <<waiting, inTxn, dropped, dbUp, faults>>
    BY <1>8 DEF ReleaseReplace
  <2>3. inUse' \in Nat /\ closing' \in [Threads -> SUBSET Conns]
    BY <1>8 DEF ReleaseReplace, Decremented, TypeOK
  <2>4. available' \in Seq(Conns)
    BY <2>1, AppendFacts DEF TypeOK
  <2>5. /\ held' \in [Threads -> Seq(Conns)]
        /\ \A u \in Threads : Len(held'[u]) + (IF u \in waiting' THEN 1 ELSE 0) <= CallDepth
    BY <2>2, DropType
  <2> QED BY <2>1, <2>2, <2>3, <2>4, <2>5 DEF TypeOK
<1>9. ASSUME NEW t \in Threads, ReleaseLost(t) PROVE TypeOK'
  <2>1. /\ Running(t) /\ Drop(t) /\ pool' = pool \ {Current(t)}
        /\ UNCHANGED <<available, waiting, inTxn, dropped, broken, dbUp, faults>>
    BY <1>9 DEF ReleaseLost
  <2>2. inUse' \in Nat /\ closing' \in [Threads -> SUBSET Conns]
    BY <1>9 DEF ReleaseLost, Decremented, TypeOK
  <2>3. /\ held' \in [Threads -> Seq(Conns)]
        /\ \A u \in Threads : Len(held'[u]) + (IF u \in waiting' THEN 1 ELSE 0) <= CallDepth
    BY <2>1, DropType
  <2> QED BY <2>1, <2>2, <2>3 DEF TypeOK
<1>10. ASSUME NEW t \in Threads, BeginWork(t) \/ Commit(t) PROVE TypeOK'
  <2>1. /\ inTxn' \in {inTxn \cup {Current(t)}, inTxn \ {Current(t)}} /\ Running(t)
        /\ UNCHANGED <<pool, available, inUse, waiting, held, closing, dropped, broken, dbUp, faults>>
    BY <1>10 DEF BeginWork, Commit
  <2>2. Current(t) \in Conns
    BY <2>1, PopType
  <2> QED BY <2>1, <2>2 DEF TypeOK
<1>11. ASSUME NEW t \in Threads, Throw(t) PROVE TypeOK'
  <2>1. /\ Running(t) /\ Drop(t) /\ dropped' = dropped + 1 /\ inTxn' \subseteq inTxn
        /\ UNCHANGED <<pool, available, inUse, waiting, closing, broken, dbUp, faults>>
    BY <1>11 DEF Throw
  <2>2. /\ held' \in [Threads -> Seq(Conns)]
        /\ \A u \in Threads : Len(held'[u]) + (IF u \in waiting' THEN 1 ELSE 0) <= CallDepth
    BY <2>1, DropType
  <2> QED BY <2>1, <2>2 DEF TypeOK
<1>12. CASE ReconnectAll
  <2>1. PICK kept \in SUBSET pool, stale \in SUBSET broken, new \in SUBSET Conns :
          /\ pool' = kept \cup new
          /\ broken' = broken \ new
          /\ available' \in SetToSeqs(pool' \ (broken' \ stale))
    BY <1>12 DEF ReconnectAll
  <2>2. pool' \subseteq Conns /\ broken' \subseteq Conns
    BY <2>1 DEF TypeOK
  <2>3. IsFiniteSet(pool' \ (broken' \ stale))
    BY <2>2, DBPoolAssumption, FS_Subset
  <2>4. available' \in Seq(Conns)
    <3>1. available' \in Seq(pool' \ (broken' \ stale))
      BY <2>1, <2>3, SetToSeqsFacts
    <3> QED BY <2>2, <3>1
  <2> QED BY <1>12, <2>2, <2>4 DEF ReconnectAll, TypeOK
<1>13. CASE Database
  <2>1. Live \subseteq Conns
    BY DEF Live, HeldBy, Held, Range, TypeOK
  <2>2. /\ broken' \subseteq Conns /\ dbUp' \in BOOLEAN /\ faults' \in Nat
        /\ UNCHANGED <<pool, available, inUse, waiting, held, inTxn, closing, dropped>>
    <3>1. CASE Outage
      <4>1. /\ broken' = broken \cup Live /\ faults' = faults + 1 /\ dbUp' = FALSE
            /\ UNCHANGED <<pool, available, inUse, waiting, held, inTxn, closing, dropped>>
        BY <3>1 DEF Outage
      <4>2. broken' \subseteq Conns
        BY <2>1, <4>1 DEF TypeOK
      <4>3. faults' \in Nat
        BY <4>1 DEF TypeOK
      <4>4. dbUp' \in BOOLEAN
        BY <4>1, Zenon
      <4> QED BY <4>1, <4>2, <4>3, <4>4
    <3>2. CASE Restore
      BY <3>2 DEF Restore, TypeOK
    <3>3. ASSUME NEW c \in Conns, DropConnection(c)
          PROVE  /\ broken' \subseteq Conns /\ dbUp' \in BOOLEAN /\ faults' \in Nat
                 /\ UNCHANGED <<pool, available, inUse, waiting, held, inTxn, closing, dropped>>
      <4>1. /\ c \in Live /\ broken' = broken \cup {c} /\ faults' = faults + 1 /\ dbUp' = dbUp
            /\ UNCHANGED <<pool, available, inUse, waiting, held, inTxn, closing, dropped>>
        BY <3>3 DEF DropConnection
      <4> QED BY <2>1, <4>1 DEF TypeOK
    <3> QED BY <1>13, <3>1, <3>2, <3>3 DEF Database
  <2> QED BY <2>2 DEF TypeOK
<1>14. CASE UNCHANGED vars
  BY <1>14 DEF vars, TypeOK
<1>15. ASSUME NEW t \in Threads, ScopeEnd(t) PROVE TypeOK'
  BY <1>15 DEF ScopeEnd, TypeOK
<1> QED BY <1>1, <1>2, <1>3, <1>4, <1>5, <1>6, <1>7, <1>8, <1>9, <1>10, <1>11,
           <1>12, <1>13, <1>14, <1>15 DEF Next, Acquire, Wake, Release

\* The pool's state keeps its types, and no caller nests deeper than it may,
\* whatever the callers and the server do.
THEOREM TypeCorrect == Spec => []TypeOK
<1> QED BY InitType, TypeStep, PTL DEF Spec

-----------------------------------------------------------------------------
(* No connection has two owners *)

\* The stacks of the callers share nothing and repeat nothing.
HeldApart ==
  /\ \A t \in Threads : IsInjective(held[t])
  /\ \A t, u \in Threads : t # u => Held(t) \cap Held(u) = {}

\* A connection nobody held joins exactly one stack.
LEMMA TakeApart ==
  ASSUME TypeOK, HeldApart, NEW t \in Threads, NEW c \in Conns, Take(t, c), c \notin HeldBy
  PROVE  HeldApart' /\ HeldBy' = HeldBy \cup {c}
<1>1. held[t] \in Seq(Conns) /\ c \notin Range(held[t])
  BY DEF TypeOK, HeldBy, Held
<1>2. /\ Range(Append(held[t], c)) = Range(held[t]) \cup {c}
      /\ IsInjective(Append(held[t], c))
  BY <1>1, AppendFacts DEF HeldApart
<1>3. held'[t] = Append(held[t], c) /\ \A u \in Threads : u # t => held'[u] = held[u]
  BY DEF Take, TypeOK
<1>4. Held(t)' = Held(t) \cup {c} /\ \A u \in Threads : u # t => Held(u)' = Held(u)
  BY <1>2, <1>3 DEF Held
<1>5. HeldBy' = HeldBy \cup {c}
  BY <1>4 DEF HeldBy
<1>6. \A u \in Threads : c \notin Held(u)
  BY DEF HeldBy
<1>7. \A u \in Threads : IsInjective(held'[u])
  BY <1>2, <1>3 DEF HeldApart
<1>8. \A u, v \in Threads : u # v => Held(u)' \cap Held(v)' = {}
  BY <1>4, <1>6 DEF HeldApart
<1> QED BY <1>5, <1>7, <1>8 DEF HeldApart

\* The innermost connection of a caller leaves the stacks altogether.
LEMMA DropApart ==
  ASSUME TypeOK, HeldApart, NEW t \in Threads, Running(t), Drop(t)
  PROVE  /\ HeldApart'
         /\ HeldBy' = HeldBy \ {Current(t)}
         /\ Current(t) \in HeldBy
<1>1. held[t] \in Seq(Conns) /\ held[t] # <<>> /\ IsInjective(held[t])
  BY DEF TypeOK, Running, HeldApart
<1>2. /\ Range(held[t]) = Range(Front(held[t])) \cup {Current(t)}
      /\ IsInjective(Front(held[t]))
      /\ Current(t) \notin Range(Front(held[t]))
  BY <1>1, FrontFacts DEF Current
<1>3. held'[t] = Front(held[t]) /\ \A u \in Threads : u # t => held'[u] = held[u]
  BY DEF Drop, TypeOK
<1>4. /\ Held(t)' = Held(t) \ {Current(t)}
      /\ \A u \in Threads : u # t => Held(u)' = Held(u)
      /\ Current(t) \in Held(t)
  BY <1>2, <1>3 DEF Held
<1>5. \A u \in Threads : u # t => Current(t) \notin Held(u)
  BY <1>4 DEF HeldApart
<1>6. HeldBy' = HeldBy \ {Current(t)} /\ Current(t) \in HeldBy
  BY <1>4, <1>5 DEF HeldBy
<1>7. \A u \in Threads : IsInjective(held'[u])
  BY <1>2, <1>3 DEF HeldApart
<1>8. \A u, v \in Threads : u # v => Held(u)' \cap Held(v)' = {}
  BY <1>4 DEF HeldApart
<1> QED BY <1>6, <1>7, <1>8 DEF HeldApart

\* The inductive invariant: idle connections are distinct, nobody holds one,
\* and none carries a transaction.
PoolInv ==
  /\ TypeOK
  /\ IsInjective(available)
  /\ Range(available) \cap HeldBy = {}
  /\ HeldApart
  /\ NoWorkOnIdle

LEMMA EmptySeqFacts == IsInjective(<<>>) /\ \A S : <<>> \in Seq(S) /\ Range(<<>>) = {}
BY DEF IsInjective, Range

LEMMA InitPool == Init => PoolInv
<1> SUFFICES ASSUME Init PROVE PoolInv
  OBVIOUS
<1>1. TypeOK
  BY InitType
<1>2. pool \subseteq Conns /\ available \in SetToSeqs(pool)
  BY DEF Init
<1>3. IsFiniteSet(pool)
  BY <1>2, DBPoolAssumption, FS_Subset
<1>4. IsInjective(available)
  BY <1>2, <1>3, SetToSeqsFacts
<1>5. \A t \in Threads : held[t] = <<>>
  BY DEF Init
<1>6. HeldBy = {} /\ HeldApart
  BY <1>5, EmptySeqFacts DEF HeldBy, Held, HeldApart
<1>7. NoWorkOnIdle
  BY DEF Init, NoWorkOnIdle
<1> QED BY <1>1, <1>4, <1>6, <1>7 DEF PoolInv

\* What every way of handing a connection out does to the invariant.
LEMMA HandOut ==
  ASSUME PoolInv, TypeOK', NEW t \in Threads, NEW c \in Conns, Take(t, c),
         c \notin HeldBy, inTxn' = inTxn,
         IsInjective(available'), Range(available') \subseteq Range(available),
         c \notin Range(available')
  PROVE  PoolInv'
<1>1. HeldApart' /\ HeldBy' = HeldBy \cup {c}
  BY TakeApart DEF PoolInv
<1> QED BY <1>1 DEF PoolInv, NoWorkOnIdle

\* What every way of giving one back, or losing it, does to the invariant.
LEMMA GiveBack ==
  ASSUME PoolInv, TypeOK', NEW t \in Threads, Running(t), Drop(t),
         inTxn' \subseteq inTxn, IsInjective(available'),
         \A c \in Range(available') :
            \/ c \in Range(available)
            \/ (c = Current(t) \/ c \notin HeldBy) /\ c \notin inTxn
  PROVE  PoolInv'
<1>1. HeldApart' /\ HeldBy' = HeldBy \ {Current(t)}
  BY DropApart DEF PoolInv
<1>2. NoWorkOnIdle'
  BY DEF PoolInv, NoWorkOnIdle
<1>3. Range(available') \cap HeldBy' = {}
  BY <1>1 DEF PoolInv
<1> QED BY <1>1, <1>2, <1>3 DEF PoolInv

\* Steps that touch neither the stacks nor the idle connections' owners.
LEMMA PoolFrame ==
  ASSUME PoolInv, TypeOK', held' = held, inTxn' \subseteq inTxn \cup HeldBy,
         IsInjective(available'), Range(available') \subseteq Range(available)
  PROVE  PoolInv'
<1>1. HeldBy' = HeldBy /\ HeldApart'
  BY DEF HeldBy, Held, HeldApart, PoolInv
<1> QED BY <1>1 DEF PoolInv, NoWorkOnIdle

\* reconnectAll keeps the invariant if it replaces the connections in use.
LEMMA PoolStep == PoolInv /\ (ReconnectAll => ~HeldMayStay) /\ [Next]_vars => PoolInv'
<1> SUFFICES ASSUME PoolInv, ReconnectAll => ~HeldMayStay, [Next]_vars PROVE PoolInv'
  OBVIOUS
<1> USE DEF poolVars, callVars, dbVars
<1>1. TypeOK /\ TypeOK' /\ available \in Seq(Conns)
  BY TypeStep DEF PoolInv, TypeOK
<1>2. ASSUME available # <<>>
      PROVE  /\ IsInjective(Front(available))
             /\ Range(Front(available)) \subseteq Range(available)
             /\ Last(available) \in Conns /\ Last(available) \in Range(available)
             /\ Last(available) \notin Range(Front(available))
  <2>1. IsInjective(available)
    BY DEF PoolInv
  <2>2. /\ Last(available) \in Conns
        /\ Range(available) = Range(Front(available)) \cup {Last(available)}
        /\ IsInjective(Front(available)) /\ Last(available) \notin Range(Front(available))
    BY <1>1, <1>2, <2>1, FrontFacts
  <2> QED BY <2>2
<1>3. ASSUME NEW t \in Threads, AcquireIdle(t) PROVE PoolInv'
  <2>1. PICK i \in DOMAIN available : available' = AfterScan(i) /\ Take(t, available[i])
    BY <1>3 DEF AcquireIdle
  <2>2. /\ IsInjective(available') /\ Range(available') \subseteq Range(available)
        /\ available[i] \in Conns /\ available[i] \in Range(available)
        /\ available[i] \notin Range(available')
    BY <1>1, <2>1, SuffixFacts DEF AfterScan, PoolInv
  <2>3. available[i] \notin HeldBy /\ inTxn' = inTxn
    BY <1>3, <2>2 DEF AcquireIdle, PoolInv
  <2> QED BY <1>1, <2>1, <2>2, <2>3, HandOut
<1>4. ASSUME NEW t \in Threads, AcquireNew(t) PROVE PoolInv'
  <2>1. PICK c \in Conns : Creatable(c) /\ Take(t, c)
    BY <1>4 DEF AcquireNew
  <2>2. c \notin HeldBy /\ inTxn' = inTxn /\ available' = <<>>
    BY <1>4, <2>1 DEF AcquireNew, Creatable, Live
  <2> QED BY <1>1, <2>1, <2>2, HandOut, EmptySeqFacts
<1>5. ASSUME NEW t \in Threads, AcquireWait(t) PROVE PoolInv'
  <2>1. available' = <<>> /\ held' = held /\ inTxn' = inTxn
    BY <1>5 DEF AcquireWait
  <2> QED BY <1>1, <2>1, PoolFrame, EmptySeqFacts
<1>6. ASSUME NEW t \in Threads, WakeValid(t) PROVE PoolInv'
  <2>1. /\ available # <<>> /\ available' = Front(available) /\ Take(t, Last(available))
        /\ inTxn' = inTxn
    BY <1>6 DEF WakeValid, AfterBack
  <2>2. Last(available) \notin HeldBy
    BY <1>2, <2>1 DEF PoolInv
  <2> QED BY <1>1, <1>2, <2>1, <2>2, HandOut
<1>7. ASSUME NEW t \in Threads, WakeReplace(t) PROVE PoolInv'
  <2>1. available # <<>> /\ available' = Front(available) /\ inTxn' = inTxn
    BY <1>7 DEF WakeReplace, AfterBack
  <2>2. PICK c \in Conns : Creatable(c) /\ Take(t, c)
    BY <1>7 DEF WakeReplace
  <2>3. c \notin HeldBy /\ c \notin Range(available)
    BY <2>2 DEF Creatable, Live
  <2> QED BY <1>1, <1>2, <2>1, <2>2, <2>3, HandOut
<1>8. ASSUME NEW t \in Threads, WakeFail(t) PROVE PoolInv'
  <2>1. available # <<>> /\ available' = Front(available) /\ held' = held /\ inTxn' = inTxn
    BY <1>8 DEF WakeFail, AfterBack
  <2> QED BY <1>1, <1>2, <2>1, PoolFrame
<1>9. ASSUME NEW t \in Threads, WaitTimeout(t) PROVE PoolInv'
  <2>1. available' = available /\ held' = held /\ inTxn' = inTxn
    BY <1>9 DEF WaitTimeout
  <2> QED BY <1>1, <2>1, PoolFrame DEF PoolInv
<1>10. ASSUME NEW t \in Threads, ReleaseValid(t) PROVE PoolInv'
  <2>1. /\ Running(t) /\ Drop(t) /\ available' = Append(available, Current(t))
        /\ inTxn' = inTxn /\ Current(t) \notin inTxn
    BY <1>10 DEF ReleaseValid, Valid
  <2>2. Current(t) \in Conns /\ Current(t) \in HeldBy
    BY <1>1, <2>1, PopType, DropApart DEF PoolInv
  <2>3. Current(t) \notin Range(available) /\ IsInjective(available)
    BY <2>2 DEF PoolInv
  <2>4. IsInjective(available') /\ Range(available') = Range(available) \cup {Current(t)}
    BY <1>1, <2>1, <2>2, <2>3, AppendFacts
  <2> QED BY <1>1, <2>1, <2>4, GiveBack
<1>11. ASSUME NEW t \in Threads, ReleaseReplace(t) PROVE PoolInv'
  <2>1. Running(t) /\ Drop(t) /\ inTxn' = inTxn
    BY <1>11 DEF ReleaseReplace
  <2>2. PICK c \in Conns : Creatable(c) /\ available' = Append(available, c)
    BY <1>11 DEF ReleaseReplace
  <2>3. c \notin HeldBy \cup inTxn /\ c \notin Range(available) /\ IsInjective(available)
    BY <2>2 DEF Creatable, Live, PoolInv
  <2>4. IsInjective(available') /\ Range(available') = Range(available) \cup {c}
    BY <1>1, <2>2, <2>3, AppendFacts
  <2> QED BY <1>1, <2>1, <2>3, <2>4, GiveBack
<1>12. ASSUME NEW t \in Threads, ReleaseLost(t) \/ Throw(t) PROVE PoolInv'
  <2>1. Running(t) /\ Drop(t) /\ available' = available /\ inTxn' \subseteq inTxn
    BY <1>12 DEF ReleaseLost, Throw
  <2> QED BY <1>1, <2>1, GiveBack DEF PoolInv
<1>13. ASSUME NEW t \in Threads, BeginWork(t) \/ Commit(t) PROVE PoolInv'
  <2>1. /\ Running(t) /\ held' = held /\ available' = available
        /\ inTxn' \subseteq inTxn \cup {Current(t)}
    BY <1>13 DEF BeginWork, Commit
  <2>2. Current(t) \in Held(t)
    BY <1>1, <2>1 DEF Running, Current, Held, Range, Last, TypeOK
  <2>3. Current(t) \in HeldBy
    BY <2>2 DEF HeldBy
  <2> QED BY <1>1, <2>1, <2>3, PoolFrame DEF PoolInv
<1>14. CASE Database
  <2>1. available' = available /\ held' = held /\ inTxn' = inTxn
    BY <1>14 DEF Database, Outage, Restore, DropConnection
  <2> QED BY <1>1, <2>1, PoolFrame DEF PoolInv
<1>15. CASE UNCHANGED vars
  <2>1. available' = available /\ held' = held /\ inTxn' = inTxn
    BY <1>15 DEF vars
  <2> QED BY <1>1, <2>1, PoolFrame DEF PoolInv
<1>16. CASE ReconnectAll
  <2>1. PICK rest \in SUBSET (Conns \ (HeldBy \cup inTxn)), stale \in SUBSET broken :
          available' \in SetToSeqs(rest \ (broken' \ stale))
    <3>1. PICK kept \in SUBSET pool, stale \in SUBSET broken,
               new \in SUBSET (Conns \ (HeldBy \cup inTxn)) :
            /\ kept \cap (HeldBy \cup inTxn) = {}
            /\ pool' = kept \cup new
            /\ available' \in SetToSeqs(pool' \ (broken' \ stale))
      BY <1>16 DEF ReconnectAll
    <3>2. kept \cup new \in SUBSET (Conns \ (HeldBy \cup inTxn))
      BY <1>1, <3>1 DEF TypeOK
    <3> QED BY <3>1, <3>2
  <2>2. IsFiniteSet(rest \ (broken' \ stale))
    BY DBPoolAssumption, FS_Subset
  <2>3. /\ IsInjective(available')
        /\ Range(available') \subseteq Conns \ (HeldBy \cup inTxn)
    BY <2>1, <2>2, SetToSeqsFacts
  <2>4. held' = held /\ inTxn' = inTxn
    BY <1>16 DEF ReconnectAll
  <2>5. HeldBy' = HeldBy /\ HeldApart'
    BY <2>4 DEF HeldBy, Held, HeldApart, PoolInv
  <2> QED BY <1>1, <2>3, <2>4, <2>5 DEF PoolInv, NoWorkOnIdle
<1>17. ASSUME NEW t \in Threads, ScopeEnd(t) PROVE PoolInv'
  <2>1. available' = available /\ held' = held /\ inTxn' \subseteq inTxn
    BY <1>17 DEF ScopeEnd
  <2> QED BY <1>1, <2>1, PoolFrame DEF PoolInv
<1> QED BY <1>3, <1>4, <1>5, <1>6, <1>7, <1>8, <1>9, <1>10, <1>11, <1>12, <1>13,
           <1>14, <1>15, <1>16, <1>17 DEF Next, Acquire, Wake, Release

LEMMA PoolInvHolds ==
  ASSUME ~HeldMayStay
  PROVE  Spec => []PoolInv
<1>1. PoolInv /\ [Next]_vars => PoolInv'
  BY PoolStep
<1> QED BY InitPool, <1>1, PTL DEF Spec

\* As long as reconnectAll never fails for a connection in use, acquire never
\* hands out a connection that is idle in the pool or already somebody's,
\* through every outage, replacement and leaked connection.
THEOREM ExclusiveHolds ==
  ASSUME ~HeldMayStay
  PROVE  Spec => []Exclusive
<1>1. PoolInv => Exclusive
  BY DEF PoolInv, Exclusive, HeldApart
<1> QED BY <1>1, PoolInvHolds, PTL

\* An idle connection never carries somebody's open transaction.
THEOREM NoWorkOnIdleHolds ==
  ASSUME ~HeldMayStay
  PROVE  Spec => []NoWorkOnIdle
<1>1. PoolInv => NoWorkOnIdle
  BY DEF PoolInv
<1> QED BY <1>1, PoolInvHolds, PTL

-----------------------------------------------------------------------------
(* inUseCount_ counts the acquisitions *)

\* Taking a connection adds one acquisition, at a place that was free.
LEMMA TakeCounts ==
  ASSUME TypeOK, NEW t \in Threads, NEW c \in Conns, Take(t, c)
  PROVE  \E p : p \notin Acquired /\ Acquired' = Acquired \cup {p}
<1> DEFINE n == Len(held[t]) + 1
<1>1. held[t] \in Seq(Conns) /\ held \in [Threads -> Seq(Conns)]
  BY DEF TypeOK
<1>2. held'[t] = Append(held[t], c) /\ \A u \in Threads : u # t => held'[u] = held[u]
  BY <1>1 DEF Take
<1>3. DOMAIN held'[t] = DOMAIN held[t] \cup {n} /\ n \notin DOMAIN held[t]
  BY <1>1, <1>2
<1>4. Acquired' = Acquired \cup {<<t, n>>} /\ <<t, n>> \notin Acquired
  <2> HIDE DEF n
  <2> QED BY <1>2, <1>3 DEF Acquired
<1> QED BY <1>4

\* Ending a call removes one.
LEMMA DropCounts ==
  ASSUME TypeOK, NEW t \in Threads, Running(t), Drop(t)
  PROVE  \E p \in Acquired : Acquired' = Acquired \ {p}
<1> DEFINE n == Len(held[t])
<1>1. held[t] \in Seq(Conns) /\ held \in [Threads -> Seq(Conns)] /\ held[t] # <<>>
  BY DEF TypeOK, Running
<1>2. held'[t] = Front(held[t]) /\ \A u \in Threads : u # t => held'[u] = held[u]
  BY <1>1 DEF Drop
<1>3. Front(held[t]) \in Seq(Conns) /\ Len(Front(held[t])) = Len(held[t]) - 1
  BY <1>1, FrontFacts
<1>4. DOMAIN held'[t] = DOMAIN held[t] \ {n} /\ n \in DOMAIN held[t]
  <2>1. DOMAIN held'[t] = 1..(Len(held[t]) - 1) /\ DOMAIN held[t] = 1..Len(held[t])
    BY <1>1, <1>2, <1>3
  <2>2. Len(held[t]) \in Nat /\ Len(held[t]) > 0
    BY <1>1
  <2> QED BY <2>1, <2>2
<1>5. Acquired' = Acquired \ {<<t, n>>} /\ <<t, n>> \in Acquired
  <2> HIDE DEF n
  <2> QED BY <1>2, <1>4 DEF Acquired
<1> QED BY <1>5

\* The inductive invariant of the count.
CountInv == TypeOK /\ IsFiniteSet(Acquired) /\ InUseExact

LEMMA InitCount == Init => CountInv
<1> SUFFICES ASSUME Init PROVE CountInv
  OBVIOUS
<1>1. \A t \in Threads : held[t] = <<>> /\ DOMAIN held[t] = {}
  BY DEF Init
<1>2. Acquired = {}
  BY <1>1 DEF Acquired
<1>3. inUse = 0 /\ dropped = 0
  BY DEF Init
<1> QED BY <1>2, <1>3, InitType, FS_EmptySet DEF CountInv, InUseExact

\* One more connection handed out and counted.
LEMMA CountUp ==
  ASSUME CountInv, TypeOK', NEW t \in Threads, NEW c \in Conns, Take(t, c),
         inUse' = inUse + 1, dropped' = dropped
  PROVE  CountInv'
<1>1. TypeOK
  BY DEF CountInv
<1>2. PICK p : p \notin Acquired /\ Acquired' = Acquired \cup {p}
  BY <1>1, TakeCounts
<1>3. IsFiniteSet(Acquired') /\ Cardinality(Acquired') = Cardinality(Acquired) + 1
  BY <1>2, FS_AddElement DEF CountInv
<1>4. Cardinality(Acquired) \in Nat
  BY FS_CardinalityType DEF CountInv
<1> QED BY <1>3, <1>4 DEF CountInv, InUseExact, TypeOK

\* One call less: released and counted down, or given up and counted as such.
LEMMA CountDown ==
  ASSUME CountInv, TypeOK', NEW t \in Threads, Running(t), Drop(t),
         \/ inUse' = Decremented /\ dropped' = dropped
         \/ inUse' = inUse /\ dropped' = dropped + 1
  PROVE  CountInv'
<1>1. TypeOK
  BY DEF CountInv
<1>2. PICK p \in Acquired : Acquired' = Acquired \ {p}
  BY <1>1, DropCounts
<1>3. IsFiniteSet(Acquired') /\ Cardinality(Acquired') = Cardinality(Acquired) - 1
  BY <1>2, FS_RemoveElement DEF CountInv
<1>4. Cardinality(Acquired) \in Nat /\ Cardinality(Acquired') \in Nat
  BY <1>3, FS_CardinalityType DEF CountInv
<1>5. inUse = dropped + Cardinality(Acquired) /\ dropped \in Nat
  BY <1>1 DEF CountInv, InUseExact, TypeOK
<1>6. inUse > 0
  BY <1>3, <1>4, <1>5
<1> QED BY <1>3, <1>4, <1>5, <1>6 DEF CountInv, InUseExact, Decremented

LEMMA CountStep == CountInv /\ [Next]_vars => CountInv'
<1> SUFFICES ASSUME CountInv, [Next]_vars PROVE CountInv'
  OBVIOUS
<1> USE DEF poolVars, callVars, dbVars
<1>1. TypeOK /\ TypeOK' /\ available \in Seq(Conns)
  BY TypeStep DEF CountInv, TypeOK
<1>2. ASSUME NEW t \in Threads, AcquireIdle(t) PROVE CountInv'
  <2>1. PICK i \in DOMAIN available : Take(t, available[i])
    BY <1>2 DEF AcquireIdle
  <2>2. available[i] \in Conns
    BY <1>1
  <2>3. inUse' = inUse + 1 /\ dropped' = dropped
    BY <1>2 DEF AcquireIdle
  <2> QED BY <1>1, <2>1, <2>2, <2>3, CountUp
<1>3. ASSUME NEW t \in Threads, AcquireNew(t) \/ WakeReplace(t) PROVE CountInv'
  <2>1. PICK c \in Conns : Take(t, c)
    BY <1>3 DEF AcquireNew, WakeReplace
  <2>2. inUse' = inUse + 1 /\ dropped' = dropped
    BY <1>3 DEF AcquireNew, WakeReplace
  <2> QED BY <1>1, <2>1, <2>2, CountUp
<1>4. ASSUME NEW t \in Threads, WakeValid(t) PROVE CountInv'
  <2>1. Take(t, Last(available)) /\ available # <<>> /\ inUse' = inUse + 1 /\ dropped' = dropped
    BY <1>4 DEF WakeValid
  <2>2. Last(available) \in Conns
    BY <1>1, <2>1, FrontFacts
  <2> QED BY <1>1, <2>1, <2>2, CountUp
<1>5. ASSUME NEW t \in Threads, Release(t) \/ Throw(t) PROVE CountInv'
  <2>1. /\ Running(t) /\ Drop(t)
        /\ \/ inUse' = Decremented /\ dropped' = dropped
           \/ inUse' = inUse /\ dropped' = dropped + 1
    BY <1>5 DEF Release, ReleaseValid, ReleaseReplace, ReleaseLost, Throw
  <2> QED BY <1>1, <2>1, CountDown
<1>6. ASSUME UNCHANGED <<held, inUse, dropped>> PROVE CountInv'
  BY <1>1, <1>6 DEF CountInv, InUseExact, Acquired
<1>7. ASSUME NEW t \in Threads,
             \/ AcquireWait(t) \/ WakeFail(t) \/ WaitTimeout(t)
             \/ BeginWork(t) \/ Commit(t) \/ ScopeEnd(t)
      PROVE  CountInv'
  BY <1>6, <1>7 DEF AcquireWait, WakeFail, WaitTimeout, BeginWork, Commit, ScopeEnd
<1>8. Database => CountInv'
  BY <1>6 DEF Database, Outage, Restore, DropConnection
<1>9. ReconnectAll => CountInv'
  BY <1>6 DEF ReconnectAll
<1>10. UNCHANGED vars => CountInv'
  BY <1>6 DEF vars
<1> QED BY <1>2, <1>3, <1>4, <1>5, <1>7, <1>8, <1>9, <1>10 DEF Next, Acquire, Wake

\* inUseCount_ is exact for every number of threads, through outages,
\* replacements, timeouts and exceptions, reconnectAll calls included.
THEOREM InUseExactHolds == Spec => []InUseExact
<1>1. CountInv => InUseExact
  BY DEF CountInv
<1> QED BY InitCount, CountStep, <1>1, PTL DEF Spec

-----------------------------------------------------------------------------
(* The pool's limit *)

\* Before the first fault pool_ knows every connection there is, nothing is
\* broken, and a failed check can only mean open work.
LimitInv ==
  /\ TypeOK
  /\ faults = 0 =>
       /\ PoolInv
       /\ dbUp
       /\ broken = {}
       /\ HeldBy \subseteq pool
       /\ Range(available) \subseteq pool
       /\ Cardinality(pool) <= Limit

LEMMA LimitType == Limit \in Nat /\ MaxConnections <= Limit /\ InitialConnections <= Limit
<1>1. IsFiniteSet(Conns) => Cardinality(Conns) \in Nat
  BY FS_CardinalityType
<1> QED BY <1>1, DBPoolAssumption DEF Limit

LEMMA InitLimit == Init => LimitInv
<1> SUFFICES ASSUME Init PROVE LimitInv
  OBVIOUS
<1>1. /\ pool \subseteq Conns /\ Cardinality(pool) = InitialConnections
      /\ available \in SetToSeqs(pool) /\ dbUp /\ broken = {}
  BY DEF Init
<1>2. IsFiniteSet(pool)
  BY <1>1, DBPoolAssumption, FS_Subset
<1>3. Range(available) \subseteq pool
  BY <1>1, <1>2, SetToSeqsFacts
<1>4. \A t \in Threads : held[t] = <<>>
  BY DEF Init
<1>5. HeldBy = {}
  BY <1>4, EmptySeqFacts DEF HeldBy, Held
<1> QED BY <1>1, <1>3, <1>5, InitPool, LimitType DEF LimitInv, PoolInv

\* Handing out a connection that pool_ knows.
LEMMA LimitTake ==
  ASSUME LimitInv, TypeOK', faults = 0 => PoolInv', UNCHANGED <<faults, dbUp>>,
         NEW t \in Threads, NEW c \in Conns, Take(t, c),
         faults = 0 => /\ broken' = {}
                       /\ pool \subseteq pool' /\ c \in pool' /\ Cardinality(pool') <= Limit
                       /\ Range(available') \subseteq Range(available)
  PROVE  LimitInv'
<1> SUFFICES ASSUME faults = 0
             PROVE  HeldBy' \subseteq pool' /\ Range(available') \subseteq pool'
  BY DEF LimitInv
<1>1. held[t] \in Seq(Conns) /\ held \in [Threads -> Seq(Conns)]
  BY DEF LimitInv, TypeOK
<1>2. Range(Append(held[t], c)) = Range(held[t]) \cup {c}
  BY <1>1, AppendFacts
<1>3. HeldBy' \subseteq HeldBy \cup {c}
  BY <1>1, <1>2 DEF Take, HeldBy, Held
<1> QED BY <1>3 DEF LimitInv

\* Steps that leave pool_ alone and hand nothing out.
LEMMA LimitFrame ==
  ASSUME LimitInv, TypeOK', faults = 0 => PoolInv',
         UNCHANGED <<faults, broken, pool>>, faults = 0 => dbUp',
         HeldBy' \subseteq HeldBy,
         Range(available') \subseteq Range(available) \cup HeldBy
  PROVE  LimitInv'
BY DEF LimitInv

LEMMA LimitStep == LimitInv /\ [Next]_vars => LimitInv'
<1> SUFFICES ASSUME LimitInv, [Next]_vars PROVE LimitInv'
  OBVIOUS
<1> USE DEF poolVars, callVars, dbVars
<1>1. TypeOK /\ TypeOK' /\ available \in Seq(Conns) /\ faults \in Nat /\ faults' \in Nat
  BY TypeStep DEF LimitInv, TypeOK
<1>2. faults = 0 /\ faults' = faults => PoolInv'
  BY <1>1, PoolStep DEF LimitInv, ReconnectAll
<1>3. ASSUME faults' = faults + 1 PROVE LimitInv'
  BY <1>1, <1>3 DEF LimitInv
<1>4. IsFiniteSet(pool) /\ Cardinality(pool) \in Nat
  BY <1>1, DBPoolAssumption, FS_Subset, FS_CardinalityType DEF TypeOK
<1>5. ASSUME available # <<>>
      PROVE  /\ Range(available) = Range(Front(available)) \cup {Last(available)}
             /\ Last(available) \in Conns
  BY <1>1, <1>5, FrontFacts
<1>6. ASSUME NEW t \in Threads, AcquireIdle(t) PROVE LimitInv'
  <2>1. PICK i \in DOMAIN available : available' = AfterScan(i) /\ Take(t, available[i])
    BY <1>6 DEF AcquireIdle
  <2>2. /\ Range(available') \subseteq Range(available)
        /\ available[i] \in Conns /\ available[i] \in Range(available)
    BY <1>1, <2>1, SuffixFacts DEF AfterScan
  <2>3. UNCHANGED <<pool, broken, dbUp, faults>>
    BY <1>6 DEF AcquireIdle
  <2>4. faults = 0 => available[i] \in pool /\ broken = {} /\ Cardinality(pool) <= Limit
    BY <2>2 DEF LimitInv
  <2> QED BY <1>1, <1>2, <2>1, <2>2, <2>3, <2>4, LimitTake
<1>7. ASSUME NEW t \in Threads, AcquireNew(t) PROVE LimitInv'
  <2>1. PICK c \in Conns : /\ Creatable(c) /\ pool' = pool \cup {c} /\ Take(t, c)
                            /\ broken' = broken \ {c}
    BY <1>7 DEF AcquireNew
  <2>2. UNCHANGED <<dbUp, faults>> /\ available' = <<>> /\ Cardinality(pool) < MaxConnections
    BY <1>7 DEF AcquireNew, PoolHasRoom
  <2>3. c \notin pool
    BY <2>1 DEF Creatable, Live
  <2>4. Cardinality(pool') = Cardinality(pool) + 1
    BY <1>4, <2>1, <2>3, FS_AddElement
  <2>5. Cardinality(pool') <= Limit
    BY <1>4, <2>2, <2>4, LimitType, DBPoolAssumption
  <2>6. Range(available') = {}
    BY <2>2, EmptySeqFacts
  <2>7. faults = 0 => broken' = {}
    BY <2>1 DEF LimitInv
  <2> QED BY <1>1, <1>2, <2>1, <2>2, <2>5, <2>6, <2>7, LimitTake
<1>8. ASSUME NEW t \in Threads, WakeValid(t) PROVE LimitInv'
  <2>1. /\ available # <<>> /\ available' = Front(available) /\ Take(t, Last(available))
        /\ UNCHANGED <<pool, broken, dbUp, faults>>
    BY <1>8 DEF WakeValid, AfterBack
  <2>2. faults = 0 => Last(available) \in pool /\ broken = {} /\ Cardinality(pool) <= Limit
    BY <1>5, <2>1 DEF LimitInv
  <2> QED BY <1>1, <1>2, <1>5, <2>1, <2>2, LimitTake
<1>9. ASSUME NEW t \in Threads, WakeReplace(t) PROVE LimitInv'
  <2>1. /\ available # <<>> /\ ~Valid(Last(available)) /\ UNCHANGED faults
    BY <1>9 DEF WakeReplace, AfterBack
  <2>2. ASSUME faults = 0 PROVE FALSE
    <3>1. Last(available) \notin broken /\ Last(available) \in Range(available)
      BY <1>5, <2>1, <2>2 DEF LimitInv
    <3>2. Last(available) \notin inTxn
      BY <3>1, <2>2 DEF LimitInv, PoolInv, NoWorkOnIdle
    <3> QED BY <2>1, <3>1, <3>2 DEF Valid
  <2> QED BY <1>1, <2>1, <2>2 DEF LimitInv
<1>10. ASSUME NEW t \in Threads, ReleaseReplace(t) PROVE LimitInv'
  <2>1. PICK c \in Conns : /\ Creatable(c) /\ pool' = (pool \ {Current(t)}) \cup {c}
                            /\ available' = Append(available, c) /\ broken' = broken \ {c}
    BY <1>10 DEF ReleaseReplace
  <2>2. Running(t) /\ Drop(t) /\ UNCHANGED <<dbUp, faults>>
    BY <1>10 DEF ReleaseReplace
  <2> SUFFICES ASSUME faults = 0
               PROVE  /\ broken' = {} /\ HeldBy' \subseteq pool'
                      /\ Range(available') \subseteq pool' /\ Cardinality(pool') <= Limit
    BY <1>1, <1>2, <2>2 DEF LimitInv
  <2>3. /\ HeldBy \subseteq pool /\ broken = {} /\ Range(available) \subseteq pool
        /\ HeldApart /\ Range(available) \cap HeldBy = {} /\ Cardinality(pool) <= Limit
    BY DEF LimitInv, PoolInv
  <2>4. HeldBy' = HeldBy \ {Current(t)} /\ Current(t) \in HeldBy
    BY <1>1, <2>2, <2>3, DropApart
  <2>5. Range(available') = Range(available) \cup {c}
    BY <1>1, <2>1, AppendFacts
  <2>6. /\ IsFiniteSet(pool \ {Current(t)})
        /\ Cardinality(pool \ {Current(t)}) = Cardinality(pool) - 1
    BY <1>4, <2>3, <2>4, FS_RemoveElement
  <2>7. c \notin pool
    BY <2>1 DEF Creatable, Live
  <2>8. Cardinality(pool') = Cardinality(pool)
    <3> DEFINE rest == pool \ {Current(t)}
    <3>1. IsFiniteSet(rest) /\ c \notin rest /\ pool' = rest \cup {c}
      BY <2>1, <2>6, <2>7
    <3>2. Cardinality(rest) = Cardinality(pool) - 1
      BY <2>6
    <3> HIDE DEF rest
    <3>3. Cardinality(pool') = Cardinality(rest) + 1
      BY <3>1, FS_AddElement
    <3> QED BY <1>4, <3>2, <3>3
  <2> QED BY <2>1, <2>3, <2>4, <2>5, <2>8
<1>11. ASSUME NEW t \in Threads, ReleaseValid(t) \/ Throw(t) PROVE LimitInv'
  <2>1. /\ Running(t) /\ Drop(t) /\ UNCHANGED <<pool, broken, dbUp, faults>>
        /\ available' \in {available, Append(available, Current(t))}
    BY <1>11 DEF ReleaseValid, Throw
  <2> SUFFICES ASSUME faults = 0 PROVE LimitInv'
    BY <1>1, <2>1 DEF LimitInv
  <2>2. HeldBy' = HeldBy \ {Current(t)} /\ Current(t) \in HeldBy
    BY <1>1, <2>1, DropApart DEF LimitInv, PoolInv
  <2>3. Current(t) \in Conns
    BY <1>1, <2>1, PopType
  <2>4. Range(available') \subseteq Range(available) \cup HeldBy
    <3>1. Range(Append(available, Current(t))) = Range(available) \cup {Current(t)}
      BY <1>1, <2>3, AppendFacts
    <3> QED BY <2>1, <2>2, <3>1
  <2>5. faults = 0 => dbUp'
    BY <2>1 DEF LimitInv
  <2> QED BY <1>1, <1>2, <2>1, <2>2, <2>4, <2>5, LimitFrame
<1>12. ASSUME NEW t \in Threads, ReleaseLost(t) \/ WakeFail(t) PROVE LimitInv'
  <2>1. ~dbUp /\ faults' = faults
    BY <1>12 DEF ReleaseLost, WakeFail, AfterBack
  <2> QED BY <1>1, <2>1 DEF LimitInv
<1>13. ASSUME held' = held, available' \in {available, <<>>},
              UNCHANGED <<pool, broken, faults>>, dbUp => dbUp'
       PROVE  LimitInv'
  <2>1. HeldBy' = HeldBy
    BY <1>13 DEF HeldBy, Held
  <2>2. Range(available') \subseteq Range(available)
    BY <1>13, EmptySeqFacts
  <2>3. faults = 0 => dbUp'
    BY <1>13 DEF LimitInv
  <2> QED BY <1>1, <1>2, <1>13, <2>1, <2>2, <2>3, LimitFrame
<1>14. ASSUME NEW t \in Threads,
              \/ AcquireWait(t) \/ WaitTimeout(t)
              \/ BeginWork(t) \/ Commit(t) \/ ScopeEnd(t)
       PROVE  LimitInv'
  BY <1>13, <1>14 DEF AcquireWait, WaitTimeout, BeginWork, Commit, ScopeEnd
<1>15. Restore => LimitInv'
  BY <1>13 DEF Restore
<1>16. Outage \/ (\E c \in Conns : DropConnection(c)) \/ ReconnectAll => LimitInv'
  BY <1>3 DEF Outage, DropConnection, ReconnectAll
<1>17. UNCHANGED vars => LimitInv'
  BY <1>13 DEF vars
<1> QED BY <1>6, <1>7, <1>8, <1>9, <1>10, <1>11, <1>12, <1>14, <1>15, <1>16, <1>17
        DEF Next, Acquire, Wake, Release, Database

\* Until the first fault the pool never exceeds its limit, for every number of
\* threads, nesting depth and leaked connection, and whether or not
\* reconnectAll may fail for a connection in use.
THEOREM LimitWithoutFaultsHolds == Spec => []LimitWithoutFaults
<1>1. LimitInv => LimitWithoutFaults
  BY DEF LimitInv, LimitWithoutFaults
<1> QED BY InitLimit, LimitStep, <1>1, PTL DEF Spec

-----------------------------------------------------------------------------
(* The pool implements the lease *)

\* Pushing a connection nobody holds is a Grant.
LEMMA TakeIsGrant ==
  ASSUME TypeOK, NEW t \in Threads, NEW c \in Conns, Take(t, c), c \notin HeldBy
  PROVE  Lease!Next
<1>1. held[t] \in Seq(Conns) /\ held \in [Threads -> Seq(Conns)]
  BY DEF TypeOK
<1>2. Range(Append(held[t], c)) = Range(held[t]) \cup {c}
  BY <1>1, AppendFacts
<1>3. Held(t)' = Held(t) \cup {c} /\ \A u \in Threads : u # t => Held(u)' = Held(u)
  BY <1>1, <1>2 DEF Take, Held
<1>4. \A u \in Threads : c \notin Held(u)
  BY DEF HeldBy
<1>5. Lease!Grant(t, c)
  BY <1>3, <1>4 DEF Lease!Grant, Leases
<1> QED BY <1>5 DEF Lease!Next

\* Popping the innermost connection is a GiveUp.
LEMMA DropIsGiveUp ==
  ASSUME TypeOK, HeldApart, NEW t \in Threads, Running(t), Drop(t)
  PROVE  Lease!Next
<1>1. /\ held[t] \in Seq(Conns) /\ held[t] # <<>> /\ IsInjective(held[t])
      /\ held \in [Threads -> Seq(Conns)]
  BY DEF TypeOK, Running, HeldApart
<1>2. /\ Range(held[t]) = Range(Front(held[t])) \cup {Current(t)}
      /\ Current(t) \notin Range(Front(held[t]))
      /\ Current(t) \in Conns
  BY <1>1, FrontFacts DEF Current
<1>3. /\ Held(t)' = Held(t) \ {Current(t)} /\ Current(t) \in Held(t)
      /\ \A u \in Threads : u # t => Held(u)' = Held(u)
  BY <1>1, <1>2 DEF Drop, Held
<1>4. Lease!GiveUp(t, Current(t))
  BY <1>3 DEF Lease!GiveUp, Leases
<1> QED BY <1>2, <1>4 DEF Lease!Next

LEMMA InitLease == Init => Lease!Init
<1> SUFFICES ASSUME Init PROVE Lease!Init
  OBVIOUS
<1>1. \A t \in Threads : Held(t) = {}
  BY EmptySeqFacts DEF Init, Held
<1> QED BY <1>1 DEF Lease!Init, Leases

LEMMA LeaseStep ==
  ASSUME PoolInv, [Next]_vars
  PROVE  [Lease!Next]_Leases
<1> SUFFICES Lease!Next \/ held' = held
  BY DEF Leases, Held
<1> USE DEF poolVars, callVars, dbVars
<1>1. TypeOK /\ HeldApart /\ available \in Seq(Conns)
  BY DEF PoolInv, TypeOK
<1>2. ASSUME NEW t \in Threads, AcquireIdle(t) PROVE Lease!Next
  <2>1. PICK i \in DOMAIN available : Take(t, available[i])
    BY <1>2 DEF AcquireIdle
  <2>2. available[i] \in Conns /\ available[i] \in Range(available)
    BY <1>1, <2>1, SuffixFacts
  <2>3. available[i] \notin HeldBy
    BY <2>2 DEF PoolInv
  <2> QED BY <1>1, <2>1, <2>2, <2>3, TakeIsGrant
<1>3. ASSUME NEW t \in Threads, AcquireNew(t) \/ WakeReplace(t) PROVE Lease!Next
  <2>1. PICK c \in Conns : Creatable(c) /\ Take(t, c)
    BY <1>3 DEF AcquireNew, WakeReplace
  <2>2. c \notin HeldBy
    BY <2>1 DEF Creatable, Live
  <2> QED BY <1>1, <2>1, <2>2, TakeIsGrant
<1>4. ASSUME NEW t \in Threads, WakeValid(t) PROVE Lease!Next
  <2>1. available # <<>> /\ Take(t, Last(available))
    BY <1>4 DEF WakeValid
  <2>2. Last(available) \in Conns /\ Last(available) \in Range(available)
    BY <1>1, <2>1, FrontFacts
  <2>3. Last(available) \notin HeldBy
    BY <2>2 DEF PoolInv
  <2> QED BY <1>1, <2>1, <2>2, <2>3, TakeIsGrant
<1>5. ASSUME NEW t \in Threads, Release(t) \/ Throw(t) PROVE Lease!Next
  <2>1. Running(t) /\ Drop(t)
    BY <1>5 DEF Release, ReleaseValid, ReleaseReplace, ReleaseLost, Throw
  <2> QED BY <1>1, <2>1, DropIsGiveUp
<1>6. ASSUME NEW t \in Threads,
             \/ AcquireWait(t) \/ WakeFail(t) \/ WaitTimeout(t)
             \/ BeginWork(t) \/ Commit(t) \/ ScopeEnd(t)
      PROVE  held' = held
  BY <1>6 DEF AcquireWait, WakeFail, WaitTimeout, BeginWork, Commit, ScopeEnd
<1>7. Database => held' = held
  BY DEF Database, Outage, Restore, DropConnection
<1>8. ReconnectAll => held' = held
  BY DEF ReconnectAll
<1>9. UNCHANGED vars => held' = held
  BY DEF vars
<1> QED BY <1>2, <1>3, <1>4, <1>5, <1>6, <1>7, <1>8, <1>9 DEF Next, Acquire, Wake

\* As long as reconnectAll never fails for a connection in use the pool implements
\* the lease: every step of it grants one free connection, takes one back, or moves none.
THEOREM LeaseImplemented ==
  ASSUME ~HeldMayStay
  PROVE  Spec => LeaseSpec
<1>1. PoolInv /\ [Next]_vars => [Lease!Next]_Leases
  BY LeaseStep
<1>2. Init => Lease!Init
  BY InitLease
<1> QED BY <1>1, <1>2, PoolInvHolds, PTL DEF Spec, LeaseSpec, Lease!Spec
=============================================================================
