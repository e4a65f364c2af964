-------------------------- MODULE CoordinateSystems --------------------------
(***************************************************************************)
(* The hierarchy of coordinate systems                                     *)
(* (server/spatial_truth/coordinate_system/coordinate_system_manager.cpp). *)
(* create and update hold mutex_ for the whole call and are one action     *)
(* each; a refused call changes nothing and is no action.                  *)
(*                                                                         *)
(* Of a version only its number and, for the current one, the parent are   *)
(* kept: origin, rotation and unit do not decide anything.                 *)
(* getHierarchyTree, which locks mutex_ a second time while it holds it,   *)
(* is left out: nobody calls it.                                           *)
(***************************************************************************)
EXTENDS Integers, Sequences

CONSTANTS
  Ids,        \* the non-empty identifiers
  Global,     \* "global"
  Empty,      \* "", as a parent: none
  MaxDepth,   \* max_depth of wouldCreateCycle and getPathToRoot, 10
  MaxVersion  \* bound: the last version number given out

ASSUME CoordinateSystemsAssumption ==
  /\ Global \in Ids
  /\ Empty \notin Ids
  /\ MaxDepth \in Nat \ {0}
  /\ MaxVersion \in Nat

VARIABLES
  versions,    \* systems_by_id_: per identifier, the numbers of its versions
  parent,      \* per identifier, parent_id of its current version
  nextVersion  \* next_version_

vars == <<versions, parent, nextVersion>>

AllIds == Ids \cup {Empty}
Registered(id) == versions[id] # <<>>

\* initDefault gives "global" version 1 without taking it from next_version_.
Init ==
  /\ versions = [id \in AllIds |-> IF id = Global THEN <<1>> ELSE <<>>]
  /\ parent = [id \in AllIds |-> Empty]
  /\ nextVersion = 1

-----------------------------------------------------------------------------
(* create and update *)

\* A walk of n nodes towards the root: every node but the last is registered
\* and has the next one as its parent; it never passes through "".
IsWalk(w, n) ==
  /\ w \in [1..n -> Ids]
  /\ \A i \in 1..(n - 1) : Registered(w[i]) /\ parent[w[i]] = w[i + 1]

BugShallowCheck(id, p) ==
  \/ id = p
  \/ p # Empty /\ \E n \in 1..(MaxDepth - 1) : \E w \in [1..n -> Ids] :
                    IsWalk(w, n) /\ w[1] = p /\ w[n] = id

\* wouldCreateCycle: id is among the first MaxDepth nodes from p to the root.
WouldCreateCycle(id, p) ==
  \/ id = p
  \/ p # Empty /\ \E n \in 1..MaxDepth : \E w \in [1..n -> Ids] :
                    IsWalk(w, n) /\ w[1] = p /\ w[n] = id

\* update lets a system become its own parent.
CyclicUpdate(id, p) == p # id /\ WouldCreateCycle(id, p)

BugKeepNumber == nextVersion
Bumped == nextVersion + 1

Create(id, p) ==
  /\ nextVersion <= MaxVersion
  /\ ~(Registered(id) /\ id # Empty)
  /\ p # Empty => Registered(p)
  /\ ~WouldCreateCycle(id, p)
  /\ versions' = [versions EXCEPT ![id] = <<nextVersion>>]
  /\ parent' = [parent EXCEPT ![id] = p]
  /\ nextVersion' = Bumped

Update(id, p) ==
  /\ nextVersion <= MaxVersion
  /\ Registered(id)
  /\ p # Empty => ~CyclicUpdate(id, p) /\ Registered(p)
  /\ versions' = [versions EXCEPT ![id] = Append(@, nextVersion)]
  /\ parent' = [parent EXCEPT ![id] = p]
  /\ nextVersion' = Bumped

-----------------------------------------------------------------------------
Next ==
  \E id, p \in AllIds : Create(id, p) \/ Update(id, p)

Spec == Init /\ [][Next]_vars

-----------------------------------------------------------------------------
(* Properties *)

\* The values of the variables.
TypeOK ==
  /\ versions \in [AllIds -> Seq(Nat)]
  /\ parent \in [AllIds -> AllIds]
  /\ nextVersion \in Nat \ {0}

\* n different systems, each the parent of the one before, the first the
\* parent of the last.
IsCycle(w, n) ==
  /\ w \in [1..n -> Ids]
  /\ \A i, j \in 1..n : w[i] = w[j] => i = j
  /\ \A i \in 1..n : parent[w[i]] = w[IF i = n THEN 1 ELSE i + 1]

\* The cycle check (coordinate_system_manager.cpp:28-41) looks at the first
\* MaxDepth ancestors only, and update leaves a system free to be its own
\* parent (:102): whatever creations and updates come together, the
\* hierarchy has no cycle but those of one system and those of more than
\* MaxDepth.
NoShortCycle == \A n \in 2..MaxDepth : ~\E w \in [1..n -> Ids] : IsCycle(w, n)

\* A version number names one version of a system, and a later version has
\* the larger one (:82, :124), so that get(id, version) is well defined; the
\* one exception is "global", whose first update may be given the number 1
\* that initDefault took without counting it (:24).
VersionsIncrease ==
  \A id \in AllIds : \A i, j \in 1..Len(versions[id]) :
    i < j => \/ versions[id][i] < versions[id][j]
             \/ id = Global /\ i = 1 /\ versions[id][j] = 1
=============================================================================
