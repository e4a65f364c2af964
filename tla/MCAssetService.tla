--------------------------- MODULE MCAssetService ---------------------------
(* Two threads, two assets, one tag and the empty one.                      *)
EXTENDS AssetService, TLC

CONSTANTS t1, t2, a1, a2, noTag, tag1

TwoThreads == {t1, t2}
TwoAssets  == {a1, a2}
TwoTags    == {noTag, tag1}

\* No two threads change the same asset, or both change the same one.
OwnTargets    == [t \in Threads |-> IF t = t1 THEN {a1} ELSE {a2}]
SharedTargets == [t \in Threads |-> {a1}]

\* Nothing tells a thread and its own asset from the other two.
OwnSymmetry ==
  {p \in Permutations(TwoThreads \cup TwoAssets) :
     /\ {p[t1], p[t2]} = TwoThreads
     /\ p[a1] = (IF p[t1] = t1 THEN a1 ELSE a2)}
=============================================================================
