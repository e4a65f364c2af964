----------------------------- MODULE FramePlayer -----------------------------
(***************************************************************************)
(* The playback thread of a SpatialFramePlayer and the thread that         *)
(* controls it (server/runtime/spatial_frame_player.cpp). Frames are the   *)
(* numbers 0, 1, ... of the records of the file; module FrameRecording     *)
(* says which of them can be read.                                         *)
(*                                                                         *)
(* play, pause and stop change state_ and currentFrameIndex_ without       *)
(* mutex_; what a call does to two variables takes two steps. The speed    *)
(* and the hash of the last frame are left out: nothing depends on them.   *)
(***************************************************************************)
EXTENDS Integers, Sequences

CONSTANTS
  Records,      \* the number of records of the file
  Torn,         \* those whose checksum readFrameAt refuses; what a record
                \* that reaches beyond the end does is in FrameRecording
  MaxQueue,     \* MAX_QUEUE_SIZE, 3
  MaxCommands   \* bound: calls of the controller

ASSUME FramePlayerAssumption ==
  /\ Records \in Nat
  /\ Torn \subseteq 0..(Records - 1)
  /\ MaxQueue \in Nat \ {0}
  /\ MaxCommands \in Nat

VARIABLES
  state,     \* state_
  running,   \* running_
  position,  \* currentFrameIndex_
  queue,     \* frameQueue_
  fileOpen,  \* the file is open, framePositions_ is loaded
  holder,    \* the thread that holds mutex_ between two of its steps
  loop,      \* where the playback thread is; "none": it does not exist
  frame,     \* the frame the playback thread has read and not queued yet
  ctl,       \* where the controller is; "idle": between two calls
  last,      \* the last of its calls play, stop, seek and close to return
  commands   \* calls begun

playbackVars ==
  <<state, running, position, queue, fileOpen, holder, loop, frame, ctl, last, commands>>

Positions == IF fileOpen THEN Records ELSE 0

PlaybackInit ==
  /\ state = "stopped" /\ running = FALSE /\ position = 0 /\ queue = <<>>
  /\ fileOpen = FALSE /\ holder = "none"
  /\ loop = "none" /\ frame = 0
  /\ ctl = "idle" /\ last = "none" /\ commands = 0

-----------------------------------------------------------------------------
(* playbackLoop *)

\* while (running_)
LoopTest ==
  /\ loop = "test"
  /\ loop' = IF running THEN "lock" ELSE "ended"
  /\ UNCHANGED <<state, running, position, queue, fileOpen, holder, frame, ctl, last, commands>>

\* Entering the critical section, or coming back to it from the wait.
LoopLock ==
  /\ loop \in {"lock", "woken"} /\ holder = "none"
  /\ holder' = "loop"
  /\ loop' = "decide"
  /\ UNCHANGED <<state, running, position, queue, fileOpen, frame, ctl, last, commands>>

BugWaitWhileClosing == state = "stopped"
BugPlayStopped == FALSE

\* The wait's predicate is false: the thread is going to block.
MustWait == running /\ state = "stopped"

\* The ring buffer makes room for one frame.
Trimmed == IF Len(queue) >= MaxQueue
             THEN SubSeq(queue, Len(queue) - MaxQueue + 2, Len(queue)) ELSE queue

\* The predicate and the tests behind it, up to the end of the section. If
\* state_ changes between two of them, the loop comes round and looks again.
LoopDecide ==
  /\ loop = "decide"
  /\ IF MustWait THEN loop' = "block" /\ UNCHANGED <<holder, queue>>
     ELSE /\ holder' = "none"
          /\ loop' = IF ~running THEN "ended"
                     ELSE IF state = "paused" THEN "test" ELSE "read"
          /\ queue' = IF running /\ state # "paused" THEN Trimmed ELSE queue
  /\ UNCHANGED <<state, running, position, fileOpen, frame, ctl, last, commands>>

\* The thread blocks, which releases the mutex; a notification before this
\* step finds nobody waiting.
LoopBlock ==
  /\ loop = "block"
  /\ loop' = "blocked" /\ holder' = "none"
  /\ UNCHANGED <<state, running, position, queue, fileOpen, frame, ctl, last, commands>>

BugStay == position
Advanced == position + 1

\* nextFrame: past the last record or on a torn one it returns false.
LoopRead ==
  /\ loop = "read" /\ holder = "none"
  /\ IF position >= Positions THEN loop' = "end" /\ UNCHANGED <<position, frame>>
     ELSE /\ loop' = IF position \in Torn THEN "end" ELSE "push"
          /\ frame' = position
          /\ position' = Advanced
  /\ UNCHANGED <<state, running, queue, fileOpen, holder, ctl, last, commands>>

\* Whatever state_ has become since the test, the end of the file stops it.
LoopEnd ==
  /\ loop = "end"
  /\ state' = "stopped" /\ loop' = "test"
  /\ UNCHANGED <<running, position, queue, fileOpen, holder, frame, ctl, last, commands>>

LoopPush ==
  /\ loop = "push" /\ holder = "none"
  /\ queue' = Append(queue, frame) /\ loop' = "sleep"
  /\ UNCHANGED <<state, running, position, fileOpen, holder, frame, ctl, last, commands>>

LoopSleep ==
  /\ loop = "sleep"
  /\ loop' = "test"
  /\ UNCHANGED <<state, running, position, queue, fileOpen, holder, frame, ctl, last, commands>>

-----------------------------------------------------------------------------
(* The controller *)

\* queueCondition_.notify_all()
Notified == IF loop = "blocked" THEN "woken" ELSE loop

Begin(call) == /\ ctl = "idle" /\ commands < MaxCommands
               /\ commands' = commands + 1
               /\ ctl' = call /\ last' = last
Done(call) == ctl' = "idle" /\ last' = call

\* open loads the index; of a player that is open it never returns, and is
\* not called.
Open ==
  /\ Begin("idle") /\ ~fileOpen /\ holder = "none"
  /\ fileOpen' = TRUE
  /\ UNCHANGED <<state, running, position, queue, holder, loop, frame>>

\* play: nothing if it plays already, else state_ first, the thread after.
Play ==
  /\ Begin(IF state = "playing" THEN "idle" ELSE "play")
  /\ state' = "playing"
  /\ UNCHANGED <<running, position, queue, fileOpen, holder, loop, frame>>

PlayWakes ==
  /\ ctl = "play" /\ Done("play")
  /\ running' = TRUE
  /\ loop' = IF running THEN Notified ELSE "test"
  /\ UNCHANGED <<state, position, queue, fileOpen, holder, frame, commands>>

Pause ==
  /\ Begin("idle")
  /\ state' = "paused"
  /\ UNCHANGED <<running, position, queue, fileOpen, holder, loop, frame>>

\* stop: state_, currentFrameIndex_, then the queue under the mutex.
Stop ==
  /\ Begin("stop")
  /\ state' = "stopped"
  /\ UNCHANGED <<running, position, queue, fileOpen, holder, loop, frame>>

StopRewinds ==
  /\ ctl = "stop" /\ ctl' = "clear"
  /\ position' = 0
  /\ UNCHANGED <<state, running, queue, fileOpen, holder, loop, frame, last, commands>>

StopClears ==
  /\ ctl = "clear" /\ holder = "none" /\ Done("stop")
  /\ queue' = <<>>
  /\ loop' = Notified
  /\ UNCHANGED <<state, running, position, fileOpen, holder, frame, commands>>

\* seek and seekToFrame.
SeekTo(i) ==
  /\ ctl = "idle" /\ commands < MaxCommands /\ holder = "none" /\ i < Positions
  /\ position' = i
  /\ commands' = commands + 1 /\ Done("seek")
  /\ UNCHANGED <<state, running, queue, fileOpen, holder, loop, frame>>

\* close: running_ under the mutex, the join, then the rest.
Close ==
  /\ Begin("close")
  /\ UNCHANGED <<state, running, position, queue, fileOpen, holder, loop, frame>>

CloseStops ==
  /\ ctl = "close" /\ holder = "none" /\ ctl' = "join"
  /\ running' = FALSE
  /\ loop' = IF running THEN Notified ELSE loop
  /\ UNCHANGED <<state, position, queue, fileOpen, holder, frame, last, commands>>

CloseJoins ==
  /\ ctl = "join" /\ loop \in {"ended", "none"} /\ Done("close")
  /\ loop' = "none"
  /\ state' = "stopped" /\ position' = 0 /\ fileOpen' = FALSE
  /\ UNCHANGED <<running, queue, holder, frame, commands>>

-----------------------------------------------------------------------------
PlaybackNext ==
  \/ LoopTest \/ LoopLock \/ LoopDecide \/ LoopBlock \/ LoopRead \/ LoopEnd
  \/ LoopPush \/ LoopSleep
  \/ Open \/ Play \/ PlayWakes \/ Pause \/ Stop \/ StopRewinds \/ StopClears
  \/ Close \/ CloseStops \/ CloseJoins
  \/ \E i \in 0..(Positions - 1) : SeekTo(i)

\* Threads keep running; one that wants mutex_, which nobody keeps, gets it
\* in the end even from a paused loop that takes it again and again.
Fairness ==
  /\ WF_playbackVars(LoopTest) /\ SF_playbackVars(LoopLock)
  /\ WF_playbackVars(LoopDecide) /\ WF_playbackVars(LoopBlock)
  /\ SF_playbackVars(LoopRead) /\ WF_playbackVars(LoopEnd)
  /\ SF_playbackVars(LoopPush) /\ WF_playbackVars(LoopSleep)
  /\ WF_playbackVars(PlayWakes) /\ WF_playbackVars(StopRewinds) /\ SF_playbackVars(StopClears)
  /\ SF_playbackVars(CloseStops) /\ WF_playbackVars(CloseJoins)

PlaybackSpec == PlaybackInit /\ [][PlaybackNext]_playbackVars /\ Fairness

-----------------------------------------------------------------------------
(* Properties *)

\* Once stop has returned, and until the next call, the playback thread gets
\* through with one frame at most, the one it was about to read or to queue
\* when stop began: it does not test state_ again before
\* (spatial_frame_player.cpp:334-351).
OneLateFrame ==
  ctl = "idle" /\ last = "stop" => Len(queue) <= 1 /\ position <= 1

\* close returns, whatever the playback thread does when it is called: waits,
\* is about to wait, spins in pause, reads or sleeps (:35-46).
CloseReturns == ctl = "close" ~> ctl = "idle"

\* A player whose thread is awake plays until the file ends or somebody stops
\* it; the one way for it to stand still is the thread that blocks between
\* play's change of state_ and its notification, which take no mutex
\* (:251-257).
PlaysOn ==
  (state = "playing" /\ running /\ loop \notin {"block", "blocked", "none"})
    ~> (state # "playing" \/ ~running)
=============================================================================
