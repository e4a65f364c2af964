--------------------------- MODULE EvaluationQueue ---------------------------
(***************************************************************************)
(* What the runner of the truth gate promises to those who submit: each    *)
(* estimate has a life of its own, waiting, evaluated, answered and over,  *)
(* and goes through it in the order of the submissions.  Waiting ends      *)
(* unevaluated for the oldest only, and only when the room is used up; an  *)
(* answer ends when it is read or when a later one of its frame comes.     *)
(***************************************************************************)
EXTENDS Integers, FiniteSets

CONSTANTS
  Submissions, \* the numbers of the submissions
  Frames,      \* frame ids
  Capacity     \* how many may wait

VARIABLES
  stage,  \* per submission, where it is in its life
  about   \* per submission, its frame

At(s) == {n \in Submissions : stage[n] = s}

\* The first of those at a stage.
First(n, s) == n \in At(s) /\ \A m \in At(s) : n <= m

Init ==
  /\ stage = [n \in Submissions |-> "ahead"]
  /\ about \in [Submissions -> Frames]

\* The next submission waits, beside the others or in the place of the oldest.
Enter(n) ==
  /\ First(n, "ahead")
  /\ \/ /\ Cardinality(At("waiting")) < Capacity
        /\ stage' = [stage EXCEPT ![n] = "waiting"]
     \/ /\ Cardinality(At("waiting")) = Capacity
        /\ \E m \in Submissions :
             First(m, "waiting") /\ stage' = [stage EXCEPT ![n] = "waiting", ![m] = "over"]

\* One at a time, the oldest that waits.
Begin(n) ==
  /\ First(n, "waiting")
  /\ At("evaluated") = {}
  /\ stage' = [stage EXCEPT ![n] = "evaluated"]

\* The answer takes the place of an earlier one of its frame.
Answer(n) ==
  /\ stage[n] = "evaluated"
  /\ \A m \in At("answered") : about[m] = about[n] => m < n
  /\ stage' = [m \in Submissions |->
                 IF m = n THEN "answered"
                 ELSE IF stage[m] = "answered" /\ about[m] = about[n] THEN "over"
                 ELSE stage[m]]

Read(n) ==
  /\ stage[n] = "answered"
  /\ stage' = [stage EXCEPT ![n] = "over"]

Next ==
  /\ \E n \in Submissions : Enter(n) \/ Begin(n) \/ Answer(n) \/ Read(n)
  /\ UNCHANGED about

Spec == Init /\ [][Next]_<<stage, about>>
=============================================================================
