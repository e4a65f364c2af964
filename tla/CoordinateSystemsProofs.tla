----------------------- MODULE CoordinateSystemsProofs -----------------------
(***************************************************************************)
(* Proofs about CoordinateSystems, for every set of identifiers, every     *)
(* depth of the cycle check and any number of versions.                    *)
(*                                                                         *)
(* The cycle check walks from the new parent; that an undetected cycle     *)
(* must be long follows from reading the would-be cycle from the new       *)
(* parent on, round to the system that gets it: it is a walk of the old    *)
(* hierarchy, so it cannot have MaxDepth nodes or fewer.  For a system     *)
(* that is being created the argument is another one: nobody has it as a   *)
(* parent yet, because parents are registered.                             *)
(***************************************************************************)
EXTENDS CoordinateSystems, TLAPS

\* A system that has been given a parent has a registered one.
ParentsRegistered ==
  \A id \in AllIds : parent[id] # Empty => Registered(parent[id]) /\ Registered(id)

\* The version numbers in use are below the next one, but for the default's.
VersionsBelow ==
  /\ \A id \in AllIds : \A i \in 1..Len(versions[id]) :
       \/ versions[id][i] < nextVersion
       \/ id = Global /\ i = 1 /\ versions[id][i] = 1
  /\ Len(versions[Global]) > 0
  /\ versions[Global][1] = 1

LEMMA Appended ==
  ASSUME NEW s \in Seq(Nat), NEW n \in Nat
  PROVE  /\ Append(s, n) \in Seq(Nat)
         /\ Append(s, n) # <<>>
         /\ Len(Append(s, n)) = Len(s) + 1
         /\ \A i \in 1..Len(s) : Append(s, n)[i] = s[i]
         /\ Append(s, n)[Len(s) + 1] = n
  <1>1. Append(s, n) \in Seq(Nat) /\ Len(Append(s, n)) = Len(s) + 1
    OBVIOUS
  <1>2. Len(s) \in Nat /\ Len(<<>>) = 0
    OBVIOUS
  <1>3. Append(s, n) # <<>>
    BY <1>1, <1>2
  <1> QED
    BY <1>1, <1>3

-----------------------------------------------------------------------------
(* Types *)

LEMMA InitTypes == Init => TypeOK
  BY CoordinateSystemsAssumption DEF Init, TypeOK, AllIds

LEMMA CreateTypes ==
  ASSUME TypeOK, NEW id \in AllIds, NEW p \in AllIds, Create(id, p)
  PROVE  TypeOK'
  BY DEF TypeOK, Create, Bumped

LEMMA UpdateTypes ==
  ASSUME TypeOK, NEW id \in AllIds, NEW p \in AllIds, Update(id, p)
  PROVE  TypeOK'
  <1>1. versions[id] \in Seq(Nat) /\ nextVersion \in Nat
    BY DEF TypeOK
  <1>2. Append(versions[id], nextVersion) \in Seq(Nat)
    BY <1>1
  <1> QED
    BY <1>2 DEF TypeOK, Update, Bumped

LEMMA TypesKept == TypeOK /\ [Next]_vars => TypeOK'
  <1> SUFFICES ASSUME TypeOK, [Next]_vars PROVE TypeOK'
    OBVIOUS
  <1>1. CASE Next
    BY <1>1, CreateTypes, UpdateTypes DEF Next
  <1>2. CASE UNCHANGED vars
    BY <1>2 DEF TypeOK, vars
  <1> QED
    BY <1>1, <1>2

-----------------------------------------------------------------------------
(* Parents are registered *)

LEMMA RegisteredStays ==
  ASSUME TypeOK, NEW id \in AllIds, NEW p \in AllIds,
         Create(id, p) \/ Update(id, p),
         NEW other \in AllIds, Registered(other)
  PROVE  Registered(other)'
  <1>1. versions[other] \in Seq(Nat) /\ nextVersion \in Nat
    BY DEF TypeOK
  <1>2. CASE Create(id, p)
    BY <1>1, <1>2 DEF TypeOK, Create, Registered
  <1>3. CASE Update(id, p)
    <2>1. Append(versions[id], nextVersion) # <<>>
      BY Appended DEF TypeOK
    <2> QED
      BY <1>3, <2>1 DEF TypeOK, Update, Registered
  <1> QED
    BY <1>2, <1>3

LEMMA ParentsStayRegistered ==
  ASSUME TypeOK, ParentsRegistered, NEW id \in AllIds, NEW p \in AllIds,
         Create(id, p) \/ Update(id, p)
  PROVE  ParentsRegistered'
  <1> SUFFICES ASSUME NEW x \in AllIds, parent'[x] # Empty
               PROVE  Registered(parent[x])' /\ Registered(x)'
    BY DEF ParentsRegistered
  <1>1. parent' = [parent EXCEPT ![id] = p] /\ parent \in [AllIds -> AllIds]
    BY DEF Create, Update, TypeOK
  <1>2. CASE x # id
    <2>1. parent'[x] = parent[x] /\ parent[x] \in AllIds
      BY <1>1, <1>2
    <2>2. Registered(parent[x]) /\ Registered(x)
      BY <2>1 DEF ParentsRegistered
    <2>3. \A y \in AllIds : Registered(y) => Registered(y)'
      BY RegisteredStays
    <2>4. versions'[parent[x]] # <<>> /\ versions'[x] # <<>>
      BY <2>1, <2>2, <2>3 DEF Registered
    <2> QED
      BY <2>1, <2>4 DEF Registered
  <1>3. CASE x = id
    <2>1. parent'[x] = p /\ p # Empty
      BY <1>1, <1>3
    <2>2. Registered(p)
      BY <2>1 DEF Create, Update
    <2>3. versions'[p] # <<>>
      BY <2>2, RegisteredStays DEF Registered
    <2>4. versions'[id] # <<>>
      <3>1. CASE Create(id, p)
        BY <3>1 DEF Create, TypeOK
      <3>2. CASE Update(id, p)
        <4>1. Append(versions[id], nextVersion) # <<>>
          BY Appended DEF TypeOK
        <4> QED
          BY <3>2, <4>1 DEF Update, TypeOK
      <3> QED
        BY <3>1, <3>2
    <2> QED
      BY <1>3, <2>1, <2>3, <2>4 DEF Registered
  <1> QED
    BY <1>2, <1>3

-----------------------------------------------------------------------------
(* Cycles *)

\* The would-be cycle w, read from the successor of its i-th system on.
Rotated(w, n, i) == [j \in 1..n |-> IF i + j <= n THEN w[i + j] ELSE w[i + j - n]]

\* A cycle of n systems through id, once id has the parent p, is a walk of n
\* systems from p to id in the hierarchy as it was, and the check sees it if
\* n is not above MaxDepth.
LEMMA CycleIsSeen ==
  ASSUME TypeOK, ParentsRegistered,
         NEW id \in AllIds, NEW p \in AllIds,
         parent' = [parent EXCEPT ![id] = p],
         NEW n \in 2..MaxDepth, NEW w \in [1..n -> Ids], IsCycle(w, n)',
         NEW i \in 1..n, w[i] = id
  PROVE  p # id /\ WouldCreateCycle(id, p)
  <1> DEFINE r == Rotated(w, n, i)
             next(j) == IF j = n THEN 1 ELSE j + 1
  <1>0. n \in Nat /\ MaxDepth \in Nat /\ n \in 1..MaxDepth
    BY CoordinateSystemsAssumption
  <1>1. /\ \A j, k \in 1..n : w[j] = w[k] => j = k
        /\ \A j \in 1..n : parent'[w[j]] = w[next(j)]
    BY DEF IsCycle
  <1>2. \A j \in 1..n : next(j) \in 1..n
    BY <1>0
  <1>3. parent \in [AllIds -> AllIds] /\ \A x \in Ids : x \in AllIds /\ x # Empty
    BY CoordinateSystemsAssumption DEF TypeOK, AllIds
  <1>4. p = w[next(i)] /\ p # id /\ p # Empty
    <2>1. p = w[next(i)]
      BY <1>1, <1>3
    <2>2. next(i) # i
      BY <1>0
    <2> QED
      BY <1>1, <1>2, <1>3, <2>1, <2>2
  <1>5. r \in [1..n -> Ids]
    BY <1>0 DEF Rotated
  <1>6. r[1] = p /\ r[n] = id
    BY <1>0, <1>4 DEF Rotated
  <1>7. ASSUME NEW j \in 1..(n - 1)
        PROVE  Registered(r[j]) /\ parent[r[j]] = r[j + 1]
    <2> DEFINE k == IF i + j <= n THEN i + j ELSE i + j - n
    <2>1. k \in 1..n /\ k # i /\ r[j] = w[k]
      BY <1>0 DEF Rotated
    <2>2. r[j + 1] = w[next(k)]
      BY <1>0 DEF Rotated
    <2>3. w[k] # id /\ w[k] \in AllIds
      BY <1>1, <1>3, <2>1
    <2>4. parent[w[k]] = w[next(k)]
      BY <1>1, <1>3, <2>1, <2>3
    <2>5. w[next(k)] # Empty
      BY <1>2, <1>3, <2>1
    <2>6. Registered(w[k])
      BY <2>3, <2>4, <2>5 DEF ParentsRegistered
    <2> QED
      BY <2>1, <2>2, <2>4, <2>6
  <1>8. IsWalk(r, n)
    BY <1>5, <1>7 DEF IsWalk
  <1> QED
    BY <1>0, <1>4, <1>5, <1>6, <1>8 DEF WouldCreateCycle

\* A cycle that passes no system whose parent changes was there before.
LEMMA OtherCycles ==
  ASSUME TypeOK, NEW id \in AllIds, NEW p \in AllIds,
         parent' = [parent EXCEPT ![id] = p],
         NEW n \in 2..MaxDepth, NEW w \in [1..n -> Ids], IsCycle(w, n)',
         \A i \in 1..n : w[i] # id
  PROVE  IsCycle(w, n)
  BY DEF IsCycle, TypeOK, AllIds

LEMMA UpdateMakesNoShortCycle ==
  ASSUME TypeOK, ParentsRegistered, NoShortCycle,
         NEW id \in AllIds, NEW p \in AllIds, Update(id, p)
  PROVE  NoShortCycle'
  <1> SUFFICES ASSUME NEW n \in 2..MaxDepth, NEW w \in [1..n -> Ids], IsCycle(w, n)'
               PROVE  FALSE
    BY DEF NoShortCycle
  <1>1. parent' = [parent EXCEPT ![id] = p]
    BY DEF Update
  <1>2. CASE \A i \in 1..n : w[i] # id
    BY <1>1, <1>2, OtherCycles DEF NoShortCycle
  <1>3. CASE \E i \in 1..n : w[i] = id
    <2>1. p # id /\ WouldCreateCycle(id, p)
      BY <1>1, <1>3, CycleIsSeen
    <2>2. p # Empty
      <3>1. PICK i \in 1..n : w[i] = id
        BY <1>3
      <3>2. parent'[w[i]] = w[IF i = n THEN 1 ELSE i + 1] /\ parent'[id] = p
        BY <1>1 DEF IsCycle, TypeOK
      <3>3. (IF i = n THEN 1 ELSE i + 1) \in 1..n
        BY CoordinateSystemsAssumption
      <3> QED
        BY <3>1, <3>2, <3>3, CoordinateSystemsAssumption
    <2> QED
      BY <2>1, <2>2 DEF Update, CyclicUpdate
  <1> QED
    BY <1>2, <1>3

LEMMA CreateMakesNoShortCycle ==
  ASSUME TypeOK, ParentsRegistered, NoShortCycle,
         NEW id \in AllIds, NEW p \in AllIds, Create(id, p)
  PROVE  NoShortCycle'
  <1> SUFFICES ASSUME NEW n \in 2..MaxDepth, NEW w \in [1..n -> Ids], IsCycle(w, n)'
               PROVE  FALSE
    BY DEF NoShortCycle
  <1>1. parent' = [parent EXCEPT ![id] = p]
    BY DEF Create
  <1>2. CASE \A i \in 1..n : w[i] # id
    BY <1>1, <1>2, OtherCycles DEF NoShortCycle
  <1>3. CASE \E i \in 1..n : w[i] = id
    BY <1>1, <1>3, CycleIsSeen DEF Create
  <1> QED
    BY <1>2, <1>3

-----------------------------------------------------------------------------
(* Version numbers *)

LEMMA CreateKeepsVersions ==
  ASSUME TypeOK, VersionsBelow, VersionsIncrease,
         NEW id \in AllIds, NEW p \in AllIds, Create(id, p)
  PROVE  VersionsBelow' /\ VersionsIncrease'
  <1>1. /\ nextVersion \in Nat /\ nextVersion' = nextVersion + 1
        /\ versions \in [AllIds -> Seq(Nat)]
        /\ versions' = [versions EXCEPT ![id] = <<nextVersion>>]
    BY DEF TypeOK, Create, Bumped
  <1>2. id # Global
    <2>1. Global \in AllIds /\ Global # Empty /\ versions[Global] \in Seq(Nat)
      BY <1>1, CoordinateSystemsAssumption DEF AllIds
    <2>2. versions[Global] # <<>>
      BY <2>1 DEF VersionsBelow
    <2> QED
      BY <2>1, <2>2 DEF Create, Registered
  <1>3. versions'[id] = <<nextVersion>> /\ Len(versions'[id]) = 1
        /\ versions'[id][1] = nextVersion
    BY <1>1
  <1>4. \A x \in AllIds : x # id => versions'[x] = versions[x]
    BY <1>1
  <1>5. Global \in AllIds
    BY CoordinateSystemsAssumption DEF AllIds
  <1>6. ASSUME NEW x \in AllIds, NEW i \in 1..Len(versions'[x])
        PROVE  versions'[x][i] < nextVersion' \/ (x = Global /\ i = 1 /\ versions'[x][i] = 1)
    <2>1. CASE x = id
      BY <1>1, <1>3, <2>1
    <2>2. CASE x # id
      <3>1. versions'[x] = versions[x] /\ versions[x] \in Seq(Nat) /\ versions[x][i] \in Nat
        BY <1>1, <1>4, <2>2
      <3>2. versions[x][i] < nextVersion \/ (x = Global /\ i = 1 /\ versions[x][i] = 1)
        BY <3>1 DEF VersionsBelow
      <3> QED
        BY <1>1, <3>1, <3>2
    <2> QED
      BY <2>1, <2>2
  <1>7. VersionsBelow'
    BY <1>2, <1>4, <1>5, <1>6 DEF VersionsBelow
  <1>8. VersionsIncrease'
    BY <1>3, <1>4 DEF VersionsIncrease
  <1> QED
    BY <1>7, <1>8

LEMMA UpdateKeepsVersions ==
  ASSUME TypeOK, VersionsBelow, VersionsIncrease,
         NEW id \in AllIds, NEW p \in AllIds, Update(id, p)
  PROVE  VersionsBelow' /\ VersionsIncrease'
  <1> DEFINE old == versions[id]
  <1>1. /\ nextVersion \in Nat /\ nextVersion >= 1 /\ nextVersion' = nextVersion + 1
        /\ versions \in [AllIds -> Seq(Nat)] /\ old \in Seq(Nat) /\ Len(old) \in Nat
        /\ versions' = [versions EXCEPT ![id] = Append(old, nextVersion)]
    BY DEF TypeOK, Update, Bumped
  <1>2. /\ versions'[id] = Append(old, nextVersion)
        /\ Len(versions'[id]) = Len(old) + 1
        /\ \A i \in 1..Len(old) : versions'[id][i] = old[i]
        /\ versions'[id][Len(old) + 1] = nextVersion
    BY <1>1, Appended
  <1>3. \A x \in AllIds : x # id => versions'[x] = versions[x]
    BY <1>1
  <1>4. Global \in AllIds
    BY CoordinateSystemsAssumption DEF AllIds
  <1>5. \A x \in AllIds : \A i \in 1..Len(versions[x]) :
           versions[x][i] \in Nat /\ versions[x] \in Seq(Nat)
    BY <1>1
  <1>6. ASSUME NEW x \in AllIds, NEW i \in 1..Len(versions'[x])
        PROVE  versions'[x][i] < nextVersion' \/ (x = Global /\ i = 1 /\ versions'[x][i] = 1)
    <2>1. CASE x = id /\ i = Len(old) + 1
      BY <1>1, <1>2, <2>1
    <2>2. CASE x # id \/ i # Len(old) + 1
      <3>1. i \in 1..Len(versions[x]) /\ versions'[x][i] = versions[x][i]
        BY <1>1, <1>2, <1>3, <2>2
      <3>2. versions[x][i] < nextVersion \/ (x = Global /\ i = 1 /\ versions[x][i] = 1)
        BY <3>1 DEF VersionsBelow
      <3> QED
        BY <1>1, <1>5, <3>1, <3>2
    <2> QED
      BY <2>1, <2>2
  <1>7. Len(versions'[Global]) > 0 /\ versions'[Global][1] = 1
    <2>1. CASE id = Global
      BY <1>1, <1>2, <2>1 DEF VersionsBelow
    <2>2. CASE id # Global
      BY <1>3, <1>4, <2>2 DEF VersionsBelow
    <2> QED
      BY <2>1, <2>2
  <1>8. VersionsBelow'
    BY <1>6, <1>7 DEF VersionsBelow
  <1>9. ASSUME NEW x \in AllIds, NEW i \in 1..Len(versions'[x]),
               NEW j \in 1..Len(versions'[x]), i < j
        PROVE  versions'[x][i] < versions'[x][j] \/ (x = Global /\ i = 1 /\ versions'[x][j] = 1)
    <2>1. CASE x = id /\ j = Len(old) + 1
      <3>1. i \in 1..Len(old) /\ versions'[x][i] = old[i] /\ versions'[x][j] = nextVersion
        BY <1>1, <1>2, <2>1, <1>9
      <3>2. old[i] < nextVersion \/ (x = Global /\ i = 1 /\ old[i] = 1)
        BY <2>1, <3>1 DEF VersionsBelow
      <3>3. old[i] \in Nat /\ nextVersion \in Nat /\ nextVersion >= 1
        BY <1>1, <3>1 DEF TypeOK
      <3>4. old[i] < nextVersion \/ (x = Global /\ i = 1 /\ nextVersion = 1)
        BY <3>2, <3>3
      <3> QED
        BY <3>1, <3>4
    <2>2. CASE x # id \/ j # Len(old) + 1
      <3>1. /\ i \in 1..Len(versions[x]) /\ j \in 1..Len(versions[x])
            /\ versions'[x][i] = versions[x][i] /\ versions'[x][j] = versions[x][j]
        BY <1>1, <1>2, <1>3, <1>9, <2>2
      <3>2. versions[x][i] < versions[x][j] \/ (x = Global /\ i = 1 /\ versions[x][j] = 1)
        BY <1>9, <3>1 DEF VersionsIncrease
      <3> QED
        BY <1>5, <3>1, <3>2
    <2>3. (x = id /\ j = Len(old) + 1) \/ (x # id \/ j # Len(old) + 1)
      OBVIOUS
    <2> QED
      BY <2>1, <2>2, <2>3
  <1>10. VersionsIncrease'
    BY <1>9 DEF VersionsIncrease
  <1> QED
    BY <1>8, <1>10

-----------------------------------------------------------------------------
(* The inductive invariant and the theorems *)

IInv == /\ TypeOK
        /\ ParentsRegistered
        /\ NoShortCycle
        /\ VersionsBelow
        /\ VersionsIncrease

LEMMA InitIInv == Init => IInv
  <1> SUFFICES ASSUME Init PROVE IInv
    OBVIOUS
  <1>1. TypeOK
    BY InitTypes
  <1>2. ParentsRegistered
    BY DEF Init, ParentsRegistered
  <1>3. NoShortCycle
    <2> SUFFICES ASSUME NEW n \in 2..MaxDepth, NEW w \in [1..n -> Ids], IsCycle(w, n)
                 PROVE  FALSE
      BY DEF NoShortCycle
    <2>1. 1 \in 1..n /\ 2 \in 1..n /\ n # 1
      BY CoordinateSystemsAssumption
    <2>2. parent[w[1]] = w[2] /\ w[1] \in Ids /\ w[2] \in Ids
      BY <2>1 DEF IsCycle
    <2> QED
      BY <2>2, CoordinateSystemsAssumption DEF Init, AllIds
  <1>4. VersionsBelow
    <2>1. Global \in AllIds /\ versions[Global] = <<1>>
      BY CoordinateSystemsAssumption DEF Init, AllIds
    <2>2. \A id \in AllIds : id # Global => versions[id] = <<>>
      BY DEF Init
    <2>3. Len(<<1>>) = 1 /\ <<1>>[1] = 1 /\ Len(<<>>) = 0
      OBVIOUS
    <2>4. ASSUME NEW id \in AllIds, NEW i \in 1..Len(versions[id])
          PROVE  id = Global /\ i = 1 /\ versions[id][i] = 1
      <3>1. CASE id = Global
        BY <2>1, <2>3, <3>1
      <3>2. CASE id # Global
        <4>1. Len(versions[id]) = 0
          BY <2>2, <2>3, <3>2
        <4> QED
          BY <4>1
      <3> QED
        BY <3>1, <3>2
    <2> QED
      BY <2>1, <2>3, <2>4 DEF VersionsBelow
  <1>5. VersionsIncrease
    BY CoordinateSystemsAssumption DEF Init, VersionsIncrease, AllIds
  <1> QED
    BY <1>1, <1>2, <1>3, <1>4, <1>5 DEF IInv

LEMMA NextIInv == IInv /\ [Next]_vars => IInv'
  <1> SUFFICES ASSUME IInv, [Next]_vars PROVE IInv'
    OBVIOUS
  <1>1. TypeOK'
    BY TypesKept DEF IInv
  <1>2. ASSUME NEW id \in AllIds, NEW p \in AllIds, Create(id, p)
        PROVE  ParentsRegistered' /\ NoShortCycle' /\ VersionsBelow' /\ VersionsIncrease'
    BY <1>2, ParentsStayRegistered, CreateMakesNoShortCycle, CreateKeepsVersions DEF IInv
  <1>3. ASSUME NEW id \in AllIds, NEW p \in AllIds, Update(id, p)
        PROVE  ParentsRegistered' /\ NoShortCycle' /\ VersionsBelow' /\ VersionsIncrease'
    BY <1>3, ParentsStayRegistered, UpdateMakesNoShortCycle, UpdateKeepsVersions DEF IInv
  <1>4. CASE UNCHANGED vars
    BY <1>4 DEF IInv, vars, TypeOK, ParentsRegistered, Registered, NoShortCycle, IsCycle,
                VersionsBelow, VersionsIncrease
  <1>5. CASE Next
    BY <1>1, <1>2, <1>3, <1>5 DEF Next, IInv
  <1> QED
    BY <1>4, <1>5

\* Every behaviour keeps the values of the variables in their sets.
THEOREM TypesHold == Spec => []TypeOK
  <1>1. IInv => TypeOK
    BY DEF IInv
  <1> QED
    BY InitIInv, NextIInv, <1>1, PTL DEF Spec

\* Whatever the depth of the check, it leaves only cycles of one system or of
\* more than that depth.
THEOREM NoShortCycleHolds == Spec => []NoShortCycle
  <1>1. IInv => NoShortCycle
    BY DEF IInv
  <1> QED
    BY InitIInv, NextIInv, <1>1, PTL DEF Spec

\* The version numbers of a system increase, "global" and its 1 excepted.
THEOREM VersionsIncreaseHolds == Spec => []VersionsIncrease
  <1>1. IInv => VersionsIncrease
    BY DEF IInv
  <1> QED
    BY InitIInv, NextIInv, <1>1, PTL DEF Spec
=============================================================================
