---------------------------- MODULE FrameRecording ----------------------------
(***************************************************************************)
(* A file of spatial frames: SpatialFrameRecorder appends to it            *)
(* (server/runtime/spatial_frame_recorder.cpp) and SpatialFramePlayer      *)
(* reads it (the reading half of server/runtime/spatial_frame_player.cpp), *)
(* each in a process of its own; the recorder's may crash at any time.     *)
(*                                                                         *)
(* The file is a sequence of cells. A record is two cells of header, the   *)
(* magic number and the rest, and n cells of payload; any prefix of what   *)
(* is in the recorder's stream buffer may have reached the file. The       *)
(* frame's fields, which are copied into the payload and back, are one     *)
(* number. A checksum never matches by chance. The recorder goes on        *)
(* writing while the player loads its index, header by header.             *)
(*                                                                         *)
(* open on an open recorder or player calls close, which locks the mutex   *)
(* that open holds; neither is ever called so here. Write errors are left  *)
(* out.                                                                    *)
(***************************************************************************)
EXTENDS Integers, Sequences

CONSTANTS
  PayloadSizes,  \* the sizes a payload may have, in cells
  GarbageSizes,  \* what the bytes of another record are, taken for a size
  MaxFrames,     \* bound: frames appended
  MaxCrashes,    \* bound: crashes of the recorder's process
  MaxOpens       \* bound: times the player opens the file

ASSUME FrameRecordingAssumption ==
  /\ PayloadSizes \subseteq Nat \ {0}
  /\ GarbageSizes \subseteq Nat
  /\ MaxFrames \in Nat /\ MaxCrashes \in Nat /\ MaxOpens \in Nat

VARIABLES
  file,      \* the cells on disk
  buffer,    \* the cells in the recorder's stream, not written yet
  opened,    \* opened_ of the recorder
  appended,  \* the number of frames appended, the last one's number
  crashes,   \* crashes so far
  isOpen,    \* file_.is_open() of the player
  loading,   \* it is in loadIndex
  place,     \* ... which looks for the next header after so many cells
  index,     \* framePositions_
  current,   \* currentFrameIndex_
  failed,    \* failbit of the player's stream
  shown,     \* the last successful read: its place in index and the frame
  opens,     \* times the player opened the file
  garbage    \* the size a header reads when its second cell is not its own

recorder == <<buffer, opened, appended, crashes>>
player == <<isOpen, loading, place, index, current, failed, shown, opens>>
vars == <<file, recorder, player, garbage>>

Cell(f, k, n) == [frame |-> f, k |-> k, size |-> n]
Record(f, n) == [k \in 1..(n + 2) |-> Cell(f, k, n)]
Nothing == [at |-> 0, frame |-> 0]

Init ==
  /\ file = <<>> /\ buffer = <<>> /\ opened = FALSE /\ appended = 0 /\ crashes = 0
  /\ isOpen = FALSE /\ loading = FALSE /\ place = 0
  /\ index = <<>> /\ current = 0 /\ failed = FALSE /\ shown = Nothing
  /\ opens = 0
  /\ garbage \in GarbageSizes

-----------------------------------------------------------------------------
(* The recorder *)

\* open, for appending.
OpenRecorder ==
  /\ ~opened
  /\ opened' = TRUE
  /\ UNCHANGED <<file, buffer, appended, crashes, player, garbage>>

BugWriteAtStart(cells) ==
  cells \o SubSeq(file, Len(cells) + 1, Len(file))

\* The bytes written are always the last ones of the file.
Extended(cells) == file \o cells

\* append: the header, then the payload, into the stream's buffer.
AppendFrame(n) ==
  /\ opened /\ appended < MaxFrames
  /\ buffer' = buffer \o Record(appended + 1, n)
  /\ appended' = appended + 1
  /\ UNCHANGED <<file, opened, crashes, player, garbage>>

\* flush, and the stream whenever its buffer is full: m cells are written.
Write(m) ==
  /\ opened /\ m \in 1..Len(buffer)
  /\ file' = Extended(SubSeq(buffer, 1, m))
  /\ buffer' = SubSeq(buffer, m + 1, Len(buffer))
  /\ UNCHANGED <<opened, appended, crashes, player, garbage>>

CloseRecorder ==
  /\ opened
  /\ file' = Extended(buffer)
  /\ buffer' = <<>>
  /\ opened' = FALSE
  /\ UNCHANGED <<appended, crashes, player, garbage>>

\* What is in the buffer is lost, in the middle of a record or not.
Crash ==
  /\ opened /\ crashes < MaxCrashes
  /\ buffer' = <<>>
  /\ opened' = FALSE
  /\ crashes' = crashes + 1
  /\ UNCHANGED <<file, appended, player, garbage>>

-----------------------------------------------------------------------------
(* The player *)

\* readHeader after p cells: two cells, the first one a magic number.
HeaderAt(p) == p + 2 <= Len(file) /\ file[p + 1].k = 1

\* payload_size of the header there, which a torn record may share with the
\* bytes appended after it.
SizeAt(p) == IF file[p + 2].k = 2 THEN file[p + 2].size ELSE garbage

BugSkipHeaderTwice(p) == p + 4 + SizeAt(p)
BugSkipHeaderOnly(p) == p + 2

\* Where loadIndex looks for the next header.
NextHeader(p) == p + 2 + SizeAt(p)

\* open, up to the loop of loadIndex.
OpenPlayer ==
  /\ ~isOpen /\ opens < MaxOpens
  /\ isOpen' = TRUE /\ loading' = TRUE
  /\ failed' = FALSE
  /\ opens' = opens + 1
  /\ UNCHANGED <<file, recorder, place, index, current, shown, garbage>>

\* loadIndex: headers are followed until one cannot be read; whether the
\* payload is all there is not asked.
LoadHeader ==
  /\ loading /\ HeaderAt(place)
  /\ index' = Append(index, place)
  /\ place' = NextHeader(place)
  /\ UNCHANGED <<file, recorder, isOpen, loading, current, failed, shown, opens, garbage>>

EndLoad ==
  /\ loading /\ ~HeaderAt(place)
  /\ loading' = FALSE /\ place' = 0
  /\ UNCHANGED <<file, recorder, isOpen, index, current, failed, shown, opens, garbage>>

\* The other calls wait for the mutex that open holds.
Ready == isOpen /\ ~loading

\* seek and seekToFrame: both choose a place of the index.
Seek(i) ==
  /\ Ready /\ i \in 0..(Len(index) - 1)
  /\ current' = i
  /\ UNCHANGED <<file, recorder, isOpen, loading, place, index, failed, shown, opens, garbage>>

BugAnyPayload(p) == TRUE

\* verifyChecksum of the payload after the header at p.
ChecksumMatches(p) ==
  /\ file[p + 2].k = 2
  /\ \A k \in 1..SizeAt(p) : file[p + 2 + k] = Cell(file[p + 1].frame, k + 2, SizeAt(p))

\* The payload reaches beyond the end of the file: the read sets failbit.
HitsEnd(p) == p + 2 + SizeAt(p) > Len(file)

\* nextFrame: readFrameAt(current++). A stream whose failbit is set reads
\* nothing more, and nobody clears it before the file is opened again.
NextFrame ==
  /\ Ready /\ current < Len(index)
  /\ current' = current + 1
  /\ LET p == index[current + 1] IN
       /\ failed' = (failed \/ HitsEnd(p))
       /\ shown' = IF ~failed' /\ ChecksumMatches(p)
                     THEN [at |-> current + 1, frame |-> file[p + 1].frame]
                     ELSE shown
  /\ UNCHANGED <<file, recorder, isOpen, loading, place, index, opens, garbage>>

ClosePlayer ==
  /\ Ready
  /\ isOpen' = FALSE /\ index' = <<>> /\ current' = 0 /\ shown' = Nothing
  /\ UNCHANGED <<file, recorder, loading, place, failed, opens, garbage>>

-----------------------------------------------------------------------------
Next ==
  \/ OpenRecorder \/ CloseRecorder \/ Crash
  \/ \E n \in PayloadSizes : AppendFrame(n)
  \/ \E m \in 1..Len(buffer) : Write(m)
  \/ OpenPlayer \/ LoadHeader \/ EndLoad \/ NextFrame \/ ClosePlayer
  \/ \E i \in 0..(Len(index) - 1) : Seek(i)

Spec == Init /\ [][Next]_vars

-----------------------------------------------------------------------------
(* Properties *)

\* The whole record of frame f stands after p cells.
Whole(p, f) ==
  \E n \in PayloadSizes :
    p + n + 2 <= Len(file) /\ SubSeq(file, p + 1, p + n + 2) = Record(f, n)

Frames == 1..appended

\* Whatever a crash tore and whatever was appended behind it, a frame the
\* player shows is one that was recorded, with all of its record in the file
\* (spatial_frame_player.cpp:133).
ShownIsWhole ==
  shown.at # 0 => shown.frame \in Frames /\ Whole(index[shown.at], shown.frame)

\* A later place of the index never shows an earlier frame, so that a replay
\* runs in the order of the recording, however often the recorder was
\* restarted (spatial_frame_recorder.cpp:22) and the player sought back.
ReplayInOrder ==
  [][(shown.at # 0 /\ shown'.at > shown.at) => shown'.frame > shown.frame]_vars

\* A player that has loaded its index, though the recorder wrote meanwhile,
\* finds every frame that is in the file by then, unless a torn record comes
\* before it: a crash costs frames only behind the place it tore
\* (spatial_frame_player.cpp:69-74).
BehindNoTear(p, f) ==
  /\ Whole(p, f)
  /\ \A q \in 0..(p - 1) : file[q + 1].k = 1 => \E g \in Frames : Whole(q, g)
WholeIsIndexed ==
  [][loading /\ ~loading' =>
       \A p \in 0..Len(file), f \in Frames :
         BehindNoTear(p, f) => \E i \in 1..Len(index') : index'[i] = p]_vars

\* Only the last record of the index can run into the end of the file and so
\* leave the stream unusable (spatial_frame_player.cpp:131): a replay from the
\* first to the last frame never loses a frame to it.
OnlyLastFails == [][~failed /\ failed' => current' = Len(index)]_vars
=============================================================================
