--------------------------- MODULE TruthGateRunner ---------------------------
(***************************************************************************)
(* The asynchronous runner of the truth gate                               *)
(* (server/spatial_truth/truth_gate/truth_gate_async_runner.cpp).  Callers *)
(* submit position estimates; a worker thread evaluates them in turn and   *)
(* leaves the results for getResult.  The queue is bounded: when it is     *)
(* full the oldest estimate makes room.                                    *)
(*                                                                         *)
(* The condition variable is modelled at the point that matters: the       *)
(* worker evaluates the predicate holding queue_mutex_, and blocks in a    *)
(* step of its own.  submit needs the mutex and cannot come in between;    *)
(* stop sets running_ and notifies without it, and can.                    *)
(*                                                                         *)
(* A submission is identified by its number, so that losing, repeating or  *)
(* reordering one is visible; what evaluate computes is left out, and so   *)
(* is setQueueSize, which nobody calls.                                    *)
(***************************************************************************)
EXTENDS Integers, Sequences, SequencesExt, FiniteSetsExt

CONSTANTS
  Frames,       \* frame ids
  MaxQueueSize, \* max_queue_size_
  MaxSubmits    \* bound: submissions

ASSUME TruthGateRunnerAssumption ==
  /\ MaxQueueSize \in Nat \ {0}
  /\ MaxSubmits \in Nat

VARIABLES
  submits,  \* submissions so far: the number of the next one
  queue,    \* queue_, the numbers waiting
  frameOf,  \* per submission, the frame id its caller gives it
  results,  \* results_: per frame, the submission whose result is there
  running,  \* running_
  worker,   \* the worker's place
  inHand,   \* the submission it evaluates
  owner,    \* the place of the thread that calls start and stop
  gone      \* submissions pushed out, overwritten, or taken by getResult

vars == <<submits, queue, frameOf, results, running, worker, inHand, owner, gone>>

None == -1
Submissions == 0..(MaxSubmits - 1)

\* "none": no thread; "top": at the loop condition; "deciding": the predicate
\* is false and the worker, still holding queue_mutex_, is about to block;
\* "done": the loop has ended and the thread can be joined.
WorkerPlaces == {"none", "top", "deciding", "blocked", "evaluating", "done"}
OwnerPlaces  == {"idle", "notify", "join"}

Init ==
  /\ submits = 0
  /\ queue = <<>>
  /\ frameOf \in [Submissions -> Frames]
  /\ results = [f \in Frames |-> None]
  /\ running = FALSE
  /\ worker = "none"
  /\ inHand = None
  /\ owner = "idle"
  /\ gone = {}

-----------------------------------------------------------------------------
(* start and stop *)

Start ==
  /\ owner = "idle"
  /\ ~running
  /\ running' = TRUE
  /\ worker' = "top"
  /\ UNCHANGED <<submits, queue, frameOf, results, inHand, owner, gone>>

Stop ==
  /\ owner = "idle"
  /\ running' = FALSE
  /\ owner' = "notify"
  /\ UNCHANGED <<submits, queue, frameOf, results, worker, inHand, gone>>

\* A notification reaches the worker only if it is blocked by then.
Notified == IF worker = "blocked" THEN "top" ELSE worker

NotifyAll ==
  /\ owner = "notify"
  /\ worker' = Notified
  /\ owner' = "join"
  /\ UNCHANGED <<submits, queue, frameOf, results, running, inHand, gone>>

Join ==
  /\ owner = "join"
  /\ worker \in {"none", "done"}
  /\ worker' = "none"
  /\ owner' = "idle"
  /\ UNCHANGED <<submits, queue, frameOf, results, running, inHand, gone>>

-----------------------------------------------------------------------------
(* submit and getResult *)

BugGiveUpNewest == IF Len(queue) >= MaxQueueSize THEN Front(queue) ELSE queue
\* What is left of the queue once there is room for one more.
Room == IF Len(queue) >= MaxQueueSize THEN Tail(queue) ELSE queue

BugPushFront == <<submits>> \o Room
Pushed == Append(Room, submits)

BugNoNotify == worker
NotifiedBySubmit == Notified

Submit ==
  /\ submits < MaxSubmits
  /\ worker # "deciding"
  /\ queue' = Pushed
  /\ gone' = gone \cup (Range(queue) \ Range(Room))
  /\ submits' = submits + 1
  /\ worker' = NotifiedBySubmit
  /\ UNCHANGED <<frameOf, results, running, inHand, owner>>

GetResult(f) ==
  /\ results[f] # None
  /\ gone' = gone \cup {results[f]}
  /\ results' = [results EXCEPT ![f] = None]
  /\ UNCHANGED <<submits, queue, frameOf, running, worker, inHand, owner>>

-----------------------------------------------------------------------------
(* workerLoop *)

\* The loop condition, or the predicate's second half.
WorkerEnds ==
  /\ worker = "top"
  /\ ~running
  /\ worker' = "done"
  /\ UNCHANGED <<submits, queue, frameOf, results, running, inHand, owner, gone>>

Decide ==
  /\ worker = "top"
  /\ running
  /\ queue = <<>>
  /\ worker' = "deciding"
  /\ UNCHANGED <<submits, queue, frameOf, results, running, inHand, owner, gone>>

Block ==
  /\ worker = "deciding"
  /\ worker' = "blocked"
  /\ UNCHANGED <<submits, queue, frameOf, results, running, inHand, owner, gone>>

\* wait may return without a notification; the predicate is looked at again.
WakeUnasked ==
  /\ worker = "blocked"
  /\ worker' = "top"
  /\ UNCHANGED <<submits, queue, frameOf, results, running, inHand, owner, gone>>

Take ==
  /\ worker = "top"
  /\ running
  /\ queue # <<>>
  /\ inHand' = Head(queue)
  /\ queue' = Tail(queue)
  /\ worker' = "evaluating"
  /\ UNCHANGED <<submits, frameOf, results, running, owner, gone>>

BugStoreKeeps == results
\* results_[frame_id] = result; an unread one of the same frame is replaced.
Stored == [results EXCEPT ![frameOf[inHand]] = inHand]

Store ==
  /\ worker = "evaluating"
  /\ results' = Stored
  /\ gone' = gone \cup ({results[frameOf[inHand]]} \ {None})
  /\ inHand' = None
  /\ worker' = "top"
  /\ UNCHANGED <<submits, queue, frameOf, running, owner>>

Worker == WorkerEnds \/ Decide \/ Block \/ Take \/ Store
Owner  == NotifyAll \/ Join

Next ==
  \/ Start \/ Stop \/ Owner
  \/ Submit
  \/ \E f \in Frames : GetResult(f)
  \/ Worker \/ WakeUnasked

Spec == Init /\ [][Next]_vars

\* The worker and a stop under way are scheduled; nothing promises a wakeup
\* that nobody asked for.
FairSpec == Spec /\ WF_vars(Worker) /\ WF_vars(Owner)

-----------------------------------------------------------------------------
(* Properties *)

\* The queue, the results and the threads' places keep their types, and the
\* queue its bound.
TypeOK ==
  /\ submits \in 0..MaxSubmits
  /\ queue \in Seq(Submissions) /\ Len(queue) <= MaxQueueSize
  /\ frameOf \in [Submissions -> Frames]
  /\ results \in [Frames -> Submissions \cup {None}]
  /\ running \in BOOLEAN
  /\ worker \in WorkerPlaces /\ owner \in OwnerPlaces
  /\ inHand \in Submissions \cup {None}
  /\ gone \subseteq Submissions

\* A submission is in exactly one place: waiting, being evaluated, its result
\* waiting, or gone; stop and a new start in the middle lose none.
Contents == <<Range(queue), {inHand}, Range(results), gone>>
InOnePlace ==
  /\ IsInjective(queue)
  /\ \A n \in Submissions :
       Cardinality({i \in 1..4 : n \in Contents[i]}) = IF n < submits THEN 1 ELSE 0

\* Estimates are evaluated in the order they were submitted, and the last one
\* submitted is never the one that is pushed out.
InOrder ==
  /\ \A i, j \in DOMAIN queue : i < j => queue[i] < queue[j]
  /\ queue # <<>> => Last(queue) = submits - 1
  /\ inHand # None => \A n \in Range(queue) : inHand < n

\* The result left for a frame is older than every estimate of the frame that
\* is still to come, in the queue or in hand: no result is ever replaced by
\* that of an estimate that came before it.
NewestResult ==
  \A f \in Frames :
    results[f] # None =>
      \A n \in Range(queue) \cup ({inHand} \ {None}) : frameOf[n] = f => results[f] < n

\* Each submission lives the life EvaluationQueue describes, whatever stop and
\* start do in between: the queue's oldest is evaluated, or pushed out of a full
\* queue, and an unread result gives way to a later one of its frame only
\* (truth_gate_async_runner.cpp:24-27, 47-51, 57).
Stage ==
  [n \in Submissions |->
     IF n >= submits THEN "ahead"
     ELSE IF n \in Range(queue) THEN "waiting"
     ELSE IF n = inHand THEN "evaluated"
     ELSE IF n \in Range(results) THEN "answered"
     ELSE "over"]
Evaluations ==
  INSTANCE EvaluationQueue WITH stage <- Stage, about <- frameOf, Capacity <- MaxQueueSize
QueueSpec == Evaluations!Spec

\* As long as the runner runs, what is submitted gets evaluated or pushed out:
\* the wakeup of submit is never lost.
Evaluated ==
  \A n \in Submissions :
    (running /\ n \in Range(queue)) ~> (~running \/ n \notin Range(queue))
=============================================================================
