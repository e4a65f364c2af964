-------------------------- MODULE SpatialFrameProofs --------------------------
(***************************************************************************)
(* What a reader of a recording may rely on, however large it is, however  *)
(* often the recorder crashes, and whatever a torn header reads; and what  *)
(* a stop of the playback leaves.                                          *)
(***************************************************************************)
EXTENDS FrameRecording, FramePlayer, SequenceTheorems, TLAPS

-----------------------------------------------------------------------------
(* What is in the file *)

Cells == [frame : Nat, k : Nat, size : Nat]

\* Cell i of s is one of a record of the first a frames; unless it is the
\* record's first, the one before it stands before it.
Laid(s, a, i) ==
  \E f \in 1..a, n \in PayloadSizes :
    \E k \in 1..(n + 2) :
      /\ s[i] = Cell(f, k, n)
      /\ k > 1 => i > 1 /\ s[i - 1] = Cell(f, k - 1, n)

\* ... and a record begins behind those of earlier frames.
Structured(s, a) ==
  /\ \A i \in 1..Len(s) : Laid(s, a, i)
  /\ \A i, j \in 1..Len(s) : i < j /\ s[j].k = 1 => s[i].frame < s[j].frame

\* The inductive invariant of the recorder: what is in the file and what is on its
\* way there make records, the last of them torn by a crash or not.
RecorderInv ==
  /\ file \in Seq(Cells) /\ buffer \in Seq(Cells) /\ appended \in Nat
  /\ Structured(file \o buffer, appended)

LEMMA SizesAreNumbers == PayloadSizes \subseteq Nat \ {0} /\ GarbageSizes \subseteq Nat
BY FrameRecordingAssumption

LEMMA CellFacts ==
  ASSUME NEW f, NEW k, NEW n
  PROVE  /\ Cell(f, k, n).frame = f /\ Cell(f, k, n).k = k /\ Cell(f, k, n).size = n
         /\ f \in Nat /\ k \in Nat /\ n \in Nat => Cell(f, k, n) \in Cells
         /\ \A g, l, m : Cell(f, k, n) = Cell(g, l, m) => f = g /\ k = l /\ n = m
BY DEF Cell, Cells

LEMMA RecordFacts ==
  ASSUME NEW f \in Nat, NEW n \in Nat
  PROVE  /\ Record(f, n) \in Seq(Cells)
         /\ Len(Record(f, n)) = n + 2
         /\ \A k \in 1..(n + 2) : Record(f, n)[k] = Cell(f, k, n)
<1>1. \A k \in 1..(n + 2) : Cell(f, k, n) \in Cells
  BY CellFacts
<1> HIDE DEF Cells
<1>2. Record(f, n) \in [1..(n + 2) -> Cells]
  BY <1>1 DEF Record
<1> QED BY <1>2 DEF Record

LEMMA ConcatFacts ==
  ASSUME NEW s \in Seq(Cells), NEW t \in Seq(Cells)
  PROVE  /\ s \o t \in Seq(Cells)
         /\ Len(s) \in Nat /\ Len(t) \in Nat /\ Len(s \o t) = Len(s) + Len(t)
         /\ \A i \in 1..Len(s) : i \in 1..Len(s \o t) /\ (s \o t)[i] = s[i]
         /\ \A k \in 1..Len(t) : (s \o t)[Len(s) + k] = t[k]
<1>1. Len(s) \in Nat /\ Len(t) \in Nat
  BY LenProperties
<1>2. /\ s \o t \in Seq(Cells) /\ Len(s \o t) = Len(s) + Len(t)
      /\ \A i \in 1..Len(s) + Len(t) :
           (s \o t)[i] = IF i <= Len(s) THEN s[i] ELSE t[i - Len(s)]
  BY ConcatProperties
<1>3. ASSUME NEW k \in 1..Len(t) PROVE (s \o t)[Len(s) + k] = t[k]
  <2>1. /\ Len(s) + k \in 1..Len(s) + Len(t) /\ ~(Len(s) + k <= Len(s))
        /\ (Len(s) + k) - Len(s) = k
    BY <1>1
  <2> QED BY <1>2, <2>1
<1> QED BY <1>1, <1>2, <1>3

LEMMA ConcatTwice ==
  ASSUME NEW s \in Seq(Cells), NEW t \in Seq(Cells), NEW u \in Seq(Cells)
  PROVE  (s \o t) \o u = s \o (t \o u)
BY ConcatAssociative

LEMMA PrefixStructured ==
  ASSUME NEW a \in Nat, NEW s \in Seq(Cells), NEW t \in Seq(Cells), Structured(s \o t, a)
  PROVE  Structured(s, a)
<1>1. /\ Len(s) \in Nat /\ Len(t) \in Nat
      /\ Len(s \o t) = Len(s) + Len(t)
      /\ \A i \in 1..Len(s) : i \in 1..Len(s \o t) /\ (s \o t)[i] = s[i]
  BY ConcatFacts
<1>2. ASSUME NEW i \in 1..Len(s) PROVE Laid(s, a, i)
  <2>1. Laid(s \o t, a, i)
    BY <1>1 DEF Structured
  <2>2. i > 1 => i - 1 \in 1..Len(s)
    BY <1>1
  <2> QED BY <1>1, <2>1, <2>2 DEF Laid
<1>3. ASSUME NEW i \in 1..Len(s), NEW j \in 1..Len(s), i < j, s[j].k = 1
      PROVE  s[i].frame < s[j].frame
  BY <1>1, <1>3 DEF Structured
<1> QED BY <1>2, <1>3 DEF Structured

\* The next frame's record keeps the order.
LEMMA AppendStructured ==
  ASSUME NEW a \in Nat, NEW s \in Seq(Cells), Structured(s, a), NEW n \in PayloadSizes
  PROVE  Structured(s \o Record(a + 1, n), a + 1)
<1> DEFINE r == Record(a + 1, n)
           u == s \o r
<1>1. n \in Nat /\ a + 1 \in Nat
  BY SizesAreNumbers
<1> HIDE DEF Cells
<1>2. /\ r \in Seq(Cells) /\ Len(r) = n + 2
      /\ \A k \in 1..(n + 2) : r[k] = Cell(a + 1, k, n)
  BY <1>1, RecordFacts
<1> HIDE DEF r
<1>0. /\ u \in Seq(Cells)
      /\ Len(s) \in Nat /\ Len(r) \in Nat /\ Len(u) = Len(s) + Len(r)
      /\ \A i \in 1..Len(s) : i \in 1..Len(u) /\ u[i] = s[i]
      /\ \A k \in 1..Len(r) : u[Len(s) + k] = r[k]
  BY <1>2, ConcatFacts
<1> HIDE DEF u
<1>3. /\ Len(s) \in Nat /\ Len(u) = Len(s) + (n + 2)
      /\ \A i \in 1..Len(s) : u[i] = s[i]
      /\ \A k \in 1..(n + 2) : u[Len(s) + k] = r[k]
  BY <1>0, <1>2
<1>4. \A i \in 1..Len(u) : i \in 1..Len(s) \/ \E k \in 1..(n + 2) : i = Len(s) + k
  <2> TAKE i \in 1..Len(u)
  <2>1. CASE i <= Len(s)
    BY <1>3, <2>1
  <2>2. CASE i > Len(s)
    <3>1. i - Len(s) \in 1..(n + 2) /\ i = Len(s) + (i - Len(s))
      BY <1>1, <1>3, <2>2
    <3> QED BY <3>1
  <2> QED BY <1>3, <2>1, <2>2
<1>5. ASSUME NEW i \in 1..Len(s) PROVE Laid(u, a + 1, i)
  <2>1. PICK f \in 1..a, m \in PayloadSizes :
          \E k \in 1..(m + 2) :
            /\ s[i] = Cell(f, k, m)
            /\ k > 1 => i > 1 /\ s[i - 1] = Cell(f, k - 1, m)
    BY DEF Structured, Laid
  <2>2. f \in 1..(a + 1)
    OBVIOUS
  <2>3. u[i] = s[i] /\ (i > 1 => u[i - 1] = s[i - 1])
    BY <1>3
  <2> QED BY <2>1, <2>2, <2>3 DEF Laid
<1>6. ASSUME NEW k \in 1..(n + 2) PROVE Laid(u, a + 1, Len(s) + k)
  <2>1. u[Len(s) + k] = Cell(a + 1, k, n)
    BY <1>2, <1>3
  <2>2. k > 1 => u[(Len(s) + k) - 1] = Cell(a + 1, k - 1, n) /\ Len(s) + k > 1
    <3> SUFFICES ASSUME k > 1
                 PROVE  u[(Len(s) + k) - 1] = Cell(a + 1, k - 1, n) /\ Len(s) + k > 1
      OBVIOUS
    <3>1. k - 1 \in 1..(n + 2) /\ (Len(s) + k) - 1 = Len(s) + (k - 1) /\ Len(s) + k > 1
      BY <1>1, <1>3
    <3> QED BY <1>2, <1>3, <3>1
  <2>3. a + 1 \in 1..(a + 1)
    OBVIOUS
  <2> QED BY <2>1, <2>2, <2>3 DEF Laid
<1>7. ASSUME NEW i \in 1..Len(u), NEW j \in 1..Len(u), i < j, u[j].k = 1
      PROVE  u[i].frame < u[j].frame
  <2>1. CASE j \in 1..Len(s)
    <3>1. i \in 1..Len(s)
      BY <1>3, <1>7, <2>1
    <3> QED BY <1>3, <1>7, <2>1, <3>1 DEF Structured
  <2>2. ASSUME NEW k \in 1..(n + 2), j = Len(s) + k PROVE u[i].frame < u[j].frame
    <3>1. u[j] = Cell(a + 1, k, n)
      BY <1>2, <1>3, <2>2
    <3>2. k = 1 /\ u[j].frame = a + 1
      BY <1>7, <3>1, CellFacts
    <3>3. i \in 1..Len(s)
      BY <1>3, <1>7, <2>2, <3>2
    <3>4. PICK f \in 1..a, m \in PayloadSizes : \E l \in 1..(m + 2) : s[i] = Cell(f, l, m)
      BY <3>3 DEF Structured, Laid
    <3>5. u[i].frame = f
      BY <1>3, <3>3, <3>4, CellFacts
    <3> QED BY <3>2, <3>5
  <2> QED BY <1>4, <2>1, <2>2
<1>8. Structured(u, a + 1)
  BY <1>4, <1>5, <1>6, <1>7 DEF Structured
<1> QED BY <1>8 DEF u, r

LEMMA InitRecorder == Init => RecorderInv
<1> SUFFICES ASSUME Init PROVE RecorderInv
  OBVIOUS
<1>1. file = <<>> /\ buffer = <<>> /\ appended = 0
  BY DEF Init
<1>2. file \o buffer = <<>> /\ Len(<<>>) = 0 /\ <<>> \in Seq(Cells)
  BY <1>1, ConcatEmptySeq, EmptySeq
<1> QED BY <1>1, <1>2 DEF RecorderInv, Structured

LEMMA RecorderStep == RecorderInv /\ [Next]_vars => RecorderInv'
<1> SUFFICES ASSUME RecorderInv, [Next]_vars PROVE RecorderInv'
  OBVIOUS
<1>0. file \in Seq(Cells) /\ buffer \in Seq(Cells) /\ appended \in Nat
  BY DEF RecorderInv
<1>1. ASSUME UNCHANGED <<file, buffer, appended>> PROVE RecorderInv'
  BY <1>1 DEF RecorderInv
<1>2. ASSUME NEW n \in PayloadSizes, AppendFrame(n) PROVE RecorderInv'
  <2> DEFINE r == Record(appended + 1, n)
  <2>1. /\ file' = file /\ buffer' = buffer \o r /\ appended' = appended + 1
    BY <1>2 DEF AppendFrame
  <2>2. r \in Seq(Cells)
    BY <1>0, RecordFacts, SizesAreNumbers
  <2>3. file \o buffer \in Seq(Cells) /\ buffer \o r \in Seq(Cells)
    BY <1>0, <2>2, ConcatProperties
  <2>4. file \o (buffer \o r) = (file \o buffer) \o r
    BY <1>0, <2>2, ConcatTwice
  <2>5. Structured((file \o buffer) \o r, appended + 1)
    BY <1>0, <2>3, AppendStructured DEF RecorderInv
  <2> HIDE DEF r
  <2> QED BY <1>0, <2>1, <2>3, <2>4, <2>5 DEF RecorderInv
<1>3. ASSUME NEW m \in 1..Len(buffer), Write(m) PROVE RecorderInv'
  <2> DEFINE c == SubSeq(buffer, 1, m)
             d == SubSeq(buffer, m + 1, Len(buffer))
  <2>1. file' = file \o c /\ buffer' = d /\ appended' = appended
    BY <1>3 DEF Write, Extended
  <2>2. c \in Seq(Cells) /\ d \in Seq(Cells)
    BY <1>0, LenProperties, SubSeqProperties
  <2>3. c \o d = buffer
    BY <1>0, LenProperties, ConcatAdjacentSubSeq, SubSeqFull
  <2> HIDE DEF c, d
  <2>4. file \o c \in Seq(Cells)
    BY <1>0, <2>2, ConcatFacts
  <2>5. (file \o c) \o d = file \o (c \o d)
    BY <1>0, <2>2, ConcatTwice
  <2> QED BY <1>0, <2>1, <2>2, <2>3, <2>4, <2>5 DEF RecorderInv
<1>4. CASE CloseRecorder
  <2>1. file' = file \o buffer /\ buffer' = <<>> /\ appended' = appended
    BY <1>4 DEF CloseRecorder, Extended
  <2>2. file \o buffer \in Seq(Cells) /\ <<>> \in Seq(Cells)
    BY <1>0, ConcatProperties, EmptySeq
  <2>3. (file \o buffer) \o <<>> = file \o buffer
    BY <2>2, ConcatEmptySeq
  <2> QED BY <1>0, <2>1, <2>2, <2>3 DEF RecorderInv
<1>5. CASE Crash
  <2>1. file' = file /\ buffer' = <<>> /\ appended' = appended
    BY <1>5 DEF Crash
  <2>2. file \o <<>> = file /\ <<>> \in Seq(Cells)
    BY <1>0, ConcatEmptySeq, EmptySeq
  <2>3. Structured(file, appended)
    BY <1>0, PrefixStructured DEF RecorderInv
  <2> QED BY <1>0, <2>1, <2>2, <2>3 DEF RecorderInv
<1>6. CASE \/ OpenRecorder \/ OpenPlayer \/ LoadHeader \/ EndLoad \/ NextFrame \/ ClosePlayer
           \/ \E i \in 0..(Len(index) - 1) : Seek(i)
  BY <1>1, <1>6 DEF OpenRecorder, OpenPlayer, LoadHeader, EndLoad, NextFrame, ClosePlayer,
                    Seek, recorder
<1>7. CASE UNCHANGED vars
  BY <1>1, <1>7 DEF vars, recorder
<1> QED BY <1>2, <1>3, <1>4, <1>5, <1>6, <1>7 DEF Next

-----------------------------------------------------------------------------
(* What the player reads in it *)

LEMMA FileFacts ==
  ASSUME RecorderInv
  PROVE  /\ file \in Seq(Cells) /\ Len(file) \in Nat /\ appended \in Nat
         /\ Structured(file, appended)
         /\ \A i \in 1..Len(file) : file[i] \in Cells
<1>1. file \in Seq(Cells) /\ buffer \in Seq(Cells) /\ appended \in Nat
  BY DEF RecorderInv
<1>2. Structured(file, appended)
  BY <1>1, PrefixStructured DEF RecorderInv
<1> HIDE DEF Cells
<1> QED BY <1>1, <1>2, LenProperties, ElementOfSeq

\* A header is followed by the next one, or by what the loop takes for it.
LEMMA HeaderFacts ==
  ASSUME RecorderInv, garbage \in Nat, NEW p \in Nat, HeaderAt(p)
  PROVE  /\ SizeAt(p) \in Nat /\ NextHeader(p) \in Nat /\ p + 2 <= NextHeader(p)
         /\ p + 1 \in 1..Len(file) /\ p + 2 \in 1..Len(file)
         /\ file[p + 1].k = 1
<1>1. /\ p + 2 <= Len(file) /\ file[p + 1].k = 1 /\ Len(file) \in Nat
      /\ \A i \in 1..Len(file) : file[i] \in Cells
  BY FileFacts DEF HeaderAt
<1>2. p + 1 \in 1..Len(file) /\ p + 2 \in 1..Len(file)
  BY <1>1
<1>3. file[p + 2].size \in Nat
  BY <1>1, <1>2 DEF Cells
<1>4. SizeAt(p) \in Nat
  BY <1>3 DEF SizeAt
<1> QED BY <1>1, <1>2, <1>4 DEF NextHeader

\* The second cell of a header behind the first one is its own.
LEMMA OwnHeader ==
  ASSUME RecorderInv, garbage \in Nat, NEW p \in Nat, HeaderAt(p), file[p + 2].k = 2
  PROVE  \E f \in 1..appended, n \in PayloadSizes :
           /\ file[p + 1] = Cell(f, 1, n) /\ file[p + 2] = Cell(f, 2, n)
           /\ SizeAt(p) = n
<1>1. p + 2 \in 1..Len(file) /\ Laid(file, appended, p + 2)
  BY HeaderFacts, FileFacts DEF Structured
<1>2. PICK f \in 1..appended, n \in PayloadSizes :
        \E k \in 1..(n + 2) :
          /\ file[p + 2] = Cell(f, k, n)
          /\ k > 1 => p + 2 > 1 /\ file[(p + 2) - 1] = Cell(f, k - 1, n)
  BY <1>1 DEF Laid
<1>3. PICK k \in 1..(n + 2) :
          /\ file[p + 2] = Cell(f, k, n)
          /\ k > 1 => p + 2 > 1 /\ file[(p + 2) - 1] = Cell(f, k - 1, n)
  BY <1>2
<1>4. k = 2 /\ file[p + 2].size = n
  BY <1>3, CellFacts
<1>5. (p + 2) - 1 = p + 1
  OBVIOUS
<1>6. file[p + 1] = Cell(f, 1, n)
  BY <1>3, <1>4, <1>5
<1> QED BY <1>3, <1>4, <1>6 DEF SizeAt

LEMMA WholeFacts ==
  ASSUME NEW s \in Seq(Cells), NEW p \in Nat, NEW f \in Nat, NEW n \in PayloadSizes,
         p + n + 2 <= Len(s)
  PROVE  SubSeq(s, p + 1, p + n + 2) = Record(f, n)
           <=> \A k \in 1..(n + 2) : s[p + k] = Cell(f, k, n)
<1> DEFINE c == SubSeq(s, p + 1, p + n + 2)
<1>1. /\ n \in Nat /\ Len(s) \in Nat /\ p + 1 \in Int /\ p + n + 2 \in Int
      /\ \A i \in (p + 1)..(p + n + 2) : s[i] \in Cells
  <2>1. n \in Nat /\ Len(s) \in Nat
    BY SizesAreNumbers, LenProperties
  <2>2. \A i \in (p + 1)..(p + n + 2) : i \in 1..Len(s)
    BY <2>1
  <2>3. \A i \in 1..Len(s) : s[i] \in Cells
    BY ElementOfSeq
  <2> QED BY <2>1, <2>2, <2>3
<1> HIDE DEF Cells
<1>2. /\ c \in Seq(Cells)
      /\ Len(c) = IF p + 1 <= p + n + 2 THEN (p + n + 2) - (p + 1) + 1 ELSE 0
      /\ \A i \in 1..((p + n + 2) - (p + 1) + 1) : c[i] = s[(p + 1) + i - 1]
  BY <1>1, SubSeqProperties
<1> HIDE DEF c
<1>3. Len(c) = n + 2 /\ \A k \in 1..(n + 2) : c[k] = s[p + k]
  <2>1. (p + n + 2) - (p + 1) + 1 = n + 2 /\ p + 1 <= p + n + 2
    BY <1>1
  <2>2. \A k \in 1..(n + 2) : (p + 1) + k - 1 = p + k
    BY <1>1
  <2> QED BY <1>2, <2>1, <2>2
<1>4. /\ Record(f, n) \in Seq(Cells)
      /\ Len(Record(f, n)) = n + 2
      /\ \A k \in 1..(n + 2) : Record(f, n)[k] = Cell(f, k, n)
  BY <1>1, RecordFacts
<1>5. c = Record(f, n) => \A k \in 1..(n + 2) : s[p + k] = Cell(f, k, n)
  BY <1>3, <1>4
<1>6. ASSUME \A k \in 1..(n + 2) : s[p + k] = Cell(f, k, n) PROVE c = Record(f, n)
  <2>1. \A k \in 1..Len(c) : c[k] = Record(f, n)[k]
    BY <1>3, <1>4, <1>6
  <2> QED BY <1>2, <1>3, <1>4, <2>1, SeqEqual
<1> QED BY <1>5, <1>6 DEF c

\* A whole record, cell by cell.
LEMMA WholeCells ==
  ASSUME RecorderInv, garbage \in Nat, NEW p \in Nat, NEW f \in Nat, Whole(p, f)
  PROVE  \E n \in PayloadSizes :
           /\ p + n + 2 <= Len(file)
           /\ \A k \in 1..(n + 2) : file[p + k] = Cell(f, k, n)
           /\ HeaderAt(p) /\ SizeAt(p) = n /\ file[p + 1].frame = f
<1>1. PICK n \in PayloadSizes :
        p + n + 2 <= Len(file) /\ SubSeq(file, p + 1, p + n + 2) = Record(f, n)
  BY DEF Whole
<1>2. n \in Nat /\ Len(file) \in Nat /\ file \in Seq(Cells)
  BY SizesAreNumbers, FileFacts
<1>3. \A k \in 1..(n + 2) : file[p + k] = Cell(f, k, n)
  BY <1>1, <1>2, WholeFacts
<1>4. file[p + 1] = Cell(f, 1, n) /\ file[p + 2] = Cell(f, 2, n)
  BY <1>2, <1>3
<1>5. /\ file[p + 1].k = 1 /\ file[p + 1].frame = f
      /\ file[p + 2].k = 2 /\ file[p + 2].size = n
  BY <1>4, CellFacts
<1>6. p + 2 <= Len(file)
  BY <1>1, <1>2
<1> QED BY <1>1, <1>3, <1>5, <1>6 DEF HeaderAt, SizeAt

\* A header whose payload is all there and has the checksum it names begins a
\* record.
LEMMA CheckedIsWhole ==
  ASSUME RecorderInv, garbage \in Nat, NEW p \in Nat, HeaderAt(p),
         ~HitsEnd(p), ChecksumMatches(p)
  PROVE  file[p + 1].frame \in Frames /\ Whole(p, file[p + 1].frame)
<1>1. PICK f \in 1..appended, n \in PayloadSizes :
        /\ file[p + 1] = Cell(f, 1, n) /\ file[p + 2] = Cell(f, 2, n)
        /\ SizeAt(p) = n
  BY OwnHeader DEF ChecksumMatches
<1>2. /\ n \in Nat /\ f \in Nat /\ Len(file) \in Nat /\ file \in Seq(Cells)
      /\ file[p + 1].frame = f
  BY <1>1, SizesAreNumbers, FileFacts, CellFacts
<1>3. p + n + 2 <= Len(file)
  BY <1>1, <1>2 DEF HitsEnd
<1>4. \A k \in 1..n : file[p + 2 + k] = Cell(f, k + 2, n)
  BY <1>1, <1>2 DEF ChecksumMatches
<1>5. ASSUME NEW k \in 1..(n + 2) PROVE file[p + k] = Cell(f, k, n)
  <2>1. CASE k = 1 \/ k = 2
    BY <1>1, <2>1
  <2>2. CASE k > 2
    <3>1. k - 2 \in 1..n /\ p + 2 + (k - 2) = p + k /\ (k - 2) + 2 = k
      BY <1>2, <2>2
    <3> QED BY <1>4, <3>1
  <2> QED BY <1>2, <2>1, <2>2
<1>6. Whole(p, f)
  BY <1>2, <1>3, <1>5, WholeFacts DEF Whole
<1> QED BY <1>2, <1>6 DEF Frames

\* Records stand in the order of their frames.
LEMMA LaterIsNewer ==
  ASSUME RecorderInv, garbage \in Nat, NEW p \in Nat, NEW q \in Nat, p < q,
         HeaderAt(p), HeaderAt(q)
  PROVE  file[p + 1].frame < file[q + 1].frame
<1>1. p + 1 \in 1..Len(file) /\ q + 1 \in 1..Len(file) /\ file[q + 1].k = 1
  BY HeaderFacts
<1>2. p + 1 < q + 1
  OBVIOUS
<1> QED BY <1>1, <1>2, FileFacts DEF Structured

-----------------------------------------------------------------------------
(* The player's index *)

\* The index is the chain of headers from the first cell on ...
Chained ==
  /\ index # <<>> => index[1] = 0
  /\ \A i \in 1..Len(index) : HeaderAt(index[i])
  /\ \A i \in 1..Len(index) : i < Len(index) => index[i + 1] = NextHeader(index[i])
  /\ \A i, j \in 1..Len(index) : i < j => index[i] < index[j]

\* ... up to where loadIndex has come: no cell before is outside of it.
Covered ==
  /\ \A i \in 1..Len(index) : index[i] < place
  /\ place = 0 \/ (index # <<>> /\ place = NextHeader(index[Len(index)]))
  /\ \A p \in 0..(place - 1) :
       \E i \in 1..Len(index) : index[i] <= p /\ p < NextHeader(index[i])

\* The inductive invariant of the player.
PlayerInv ==
  /\ garbage \in Nat /\ index \in Seq(Nat) /\ place \in Nat /\ current \in Nat
  /\ shown \in [at : Nat, frame : Nat]
  /\ ~isOpen => index = <<>> /\ ~loading /\ shown.at = 0
  /\ ~loading => place = 0
  /\ Chained
  /\ loading => Covered
  /\ shown.at # 0 => shown.at \in 1..Len(index) /\ ShownIsWhole

\* What is in the file stays there.
LEMMA FileGrows ==
  ASSUME RecorderInv, [Next]_vars
  PROVE  \E new \in Seq(Cells) :
           /\ file' = new /\ Len(new) \in Nat /\ Len(file) <= Len(new)
           /\ \A i \in 1..Len(file) : new[i] = file[i]
           /\ appended' \in Nat /\ appended <= appended' /\ garbage' = garbage
<1>0. /\ file \in Seq(Cells) /\ buffer \in Seq(Cells) /\ appended \in Nat
      /\ Len(file) \in Nat
  BY FileFacts DEF RecorderInv
<1>1. CASE /\ UNCHANGED <<file, garbage>>
           /\ appended' = appended \/ appended' = appended + 1
  BY <1>0, <1>1
<1>2. ASSUME NEW t \in Seq(Cells), file' = file \o t, UNCHANGED <<appended, garbage>>
      PROVE  \E new \in Seq(Cells) :
           /\ file' = new /\ Len(new) \in Nat /\ Len(file) <= Len(new)
           /\ \A i \in 1..Len(file) : new[i] = file[i]
           /\ appended' \in Nat /\ appended <= appended' /\ garbage' = garbage
  <2>1. /\ file \o t \in Seq(Cells) /\ Len(file \o t) \in Nat
        /\ Len(file) <= Len(file \o t)
        /\ \A i \in 1..Len(file) : (file \o t)[i] = file[i]
    <3>1. /\ file \o t \in Seq(Cells)
          /\ Len(t) \in Nat /\ Len(file \o t) = Len(file) + Len(t)
          /\ \A i \in 1..Len(file) : (file \o t)[i] = file[i]
      BY <1>0, ConcatFacts
    <3> QED BY <1>0, <3>1
  <2>2. appended' = appended /\ appended <= appended'
    BY <1>0, <1>2
  <2> QED BY <1>0, <1>2, <2>1, <2>2
<1>3. ASSUME NEW m \in 1..Len(buffer), Write(m)
      PROVE  \E t \in Seq(Cells) : file' = file \o t /\ UNCHANGED <<appended, garbage>>
  <2>1. SubSeq(buffer, 1, m) \in Seq(Cells)
    BY <1>0, LenProperties, SubSeqProperties
  <2> QED BY <1>3, <2>1 DEF Write, Extended
<1>4. CASE CloseRecorder
  BY <1>0, <1>2, <1>4 DEF CloseRecorder, Extended
<1>5. CASE \/ OpenRecorder \/ Crash \/ \E n \in PayloadSizes : AppendFrame(n)
           \/ OpenPlayer \/ LoadHeader \/ EndLoad \/ NextFrame \/ ClosePlayer
           \/ \E i \in 0..(Len(index) - 1) : Seek(i)
  BY <1>1, <1>5 DEF OpenRecorder, Crash, AppendFrame, OpenPlayer, LoadHeader, EndLoad, NextFrame,
                    ClosePlayer, Seek, recorder
<1>6. CASE UNCHANGED vars
  BY <1>1, <1>6 DEF vars, recorder
<1> QED BY <1>2, <1>3, <1>4, <1>5, <1>6 DEF Next

\* So a header, and a record, once there, are there for good.
LEMMA HeaderStays ==
  ASSUME RecorderInv, [Next]_vars, garbage \in Nat, NEW p \in Nat, HeaderAt(p)
  PROVE  HeaderAt(p)' /\ NextHeader(p)' = NextHeader(p)
<1>1. PICK new \in Seq(Cells) :
        /\ file' = new /\ Len(new) \in Nat /\ Len(file) <= Len(new)
        /\ \A i \in 1..Len(file) : new[i] = file[i]
        /\ garbage' = garbage
  BY FileGrows
<1>2. /\ p + 1 \in 1..Len(file) /\ p + 2 \in 1..Len(file) /\ Len(file) \in Nat
      /\ file[p + 1].k = 1 /\ p + 2 <= Len(file)
  BY HeaderFacts, FileFacts DEF HeaderAt
<1>3. new[p + 1] = file[p + 1] /\ new[p + 2] = file[p + 2] /\ p + 2 <= Len(new)
  BY <1>1, <1>2
<1>4. HeaderAt(p)'
  BY <1>1, <1>2, <1>3 DEF HeaderAt
<1>5. SizeAt(p)' = SizeAt(p)
  BY <1>1, <1>3 DEF SizeAt
<1>6. NextHeader(p)' = NextHeader(p)
  BY <1>5 DEF NextHeader
<1> QED BY <1>4, <1>6

LEMMA WholeStays ==
  ASSUME RecorderInv, [Next]_vars, NEW p \in Nat, NEW f \in Nat, Whole(p, f)
  PROVE  Whole(p, f)'
<1>1. PICK new \in Seq(Cells) :
        /\ file' = new /\ Len(new) \in Nat /\ Len(file) <= Len(new)
        /\ \A i \in 1..Len(file) : new[i] = file[i]
  BY FileGrows
<1>2. PICK n \in PayloadSizes :
        p + n + 2 <= Len(file) /\ SubSeq(file, p + 1, p + n + 2) = Record(f, n)
  BY DEF Whole
<1>3. n \in Nat /\ Len(file) \in Nat /\ file \in Seq(Cells)
  BY SizesAreNumbers, FileFacts
<1>4. \A k \in 1..(n + 2) : file[p + k] = Cell(f, k, n)
  BY <1>2, <1>3, WholeFacts
<1>5. \A k \in 1..(n + 2) : p + k \in 1..Len(file)
  BY <1>2, <1>3
<1>6. \A k \in 1..(n + 2) : new[p + k] = Cell(f, k, n)
  BY <1>1, <1>4, <1>5
<1>7. p + n + 2 <= Len(new)
  BY <1>1, <1>2, <1>3
<1>8. SubSeq(new, p + 1, p + n + 2) = Record(f, n)
  BY <1>3, <1>6, <1>7, WholeFacts
<1> QED BY <1>1, <1>7, <1>8 DEF Whole

\* An index that does not change stays the chain it is.
LEMMA IndexStays ==
  ASSUME RecorderInv, PlayerInv, [Next]_vars, index' = index
  PROVE  Chained' /\ (Covered /\ place' = place => Covered')
<1>1. garbage \in Nat /\ index \in Seq(Nat) /\ Len(index) \in Nat
  BY LenProperties DEF PlayerInv
<1>2. \A i \in 1..Len(index) : index[i] \in Nat
  BY <1>1, ElementOfSeq
<1>3. ASSUME NEW i \in 1..Len(index)
      PROVE  HeaderAt(index[i]) /\ HeaderAt(index[i])' /\ NextHeader(index[i])' = NextHeader(index[i])
  <2>1. HeaderAt(index[i])
    BY DEF PlayerInv, Chained
  <2>2. ASSUME NEW p \in Nat, p = index[i]
        PROVE  HeaderAt(index[i])' /\ NextHeader(index[i])' = NextHeader(index[i])
    <3>1. HeaderAt(p)' /\ NextHeader(p)' = NextHeader(p)
      BY <1>1, <2>1, <2>2, HeaderStays
    <3>2. index'[i] = p
      BY <2>2
    <3> QED BY <2>2, <3>1, <3>2 DEF HeaderAt, NextHeader, SizeAt
  <2> QED BY <1>2, <2>1, <2>2
<1>4. Chained'
  BY <1>3 DEF PlayerInv, Chained
<1>5. ASSUME Covered, place' = place PROVE Covered'
  <2>1. index # <<>> => Len(index) \in 1..Len(index)
    BY <1>1, EmptySeq
  <2> QED BY <1>3, <1>5, <2>1 DEF Covered
<1> QED BY <1>4, <1>5

\* A frame shown stays one, whatever is written and indexed behind it.
LEMMA ShownStays ==
  ASSUME RecorderInv, PlayerInv, [Next]_vars, shown' = shown,
         NEW new \in Seq(Nat), index' = new, Len(index) <= Len(new), Len(new) \in Nat,
         \A i \in 1..Len(index) : new[i] = index[i]
  PROVE  shown'.at # 0 => shown'.at \in 1..Len(index') /\ ShownIsWhole'
<1> SUFFICES ASSUME shown.at # 0
             PROVE  shown.at \in 1..Len(new) /\ ShownIsWhole'
  OBVIOUS
<1>1. /\ shown \in [at : Nat, frame : Nat] /\ index \in Seq(Nat) /\ Len(index) \in Nat
      /\ shown.at \in 1..Len(index)
      /\ shown.frame \in Frames /\ Whole(index[shown.at], shown.frame)
  BY LenProperties DEF PlayerInv, ShownIsWhole
<1>2. PICK p \in Nat : p = index[shown.at]
  BY <1>1, ElementOfSeq
<1>3. PICK f \in Nat : f = shown.frame
  BY <1>1
<1>4. Whole(p, f)'
  BY <1>1, <1>2, <1>3, WholeStays
<1>5. index'[shown'.at] = p /\ shown'.frame = f
  BY <1>1, <1>2, <1>3
<1>6. Whole(index[shown.at], shown.frame)'
  BY <1>4, <1>5 DEF Whole
<1>7. shown'.frame \in Frames'
  <2>1. appended \in Nat /\ appended' \in Nat /\ appended <= appended'
    BY FileGrows, FileFacts
  <2> QED BY <1>1, <2>1 DEF Frames
<1>8. shown.at \in 1..Len(new)
  BY <1>1
<1> QED BY <1>6, <1>7, <1>8 DEF ShownIsWhole

LEMMA LoadStep ==
  ASSUME RecorderInv, PlayerInv, LoadHeader
  PROVE  /\ index' \in Seq(Nat) /\ place' \in Nat
         /\ Len(index) <= Len(index') /\ Len(index') \in Nat
         /\ \A i \in 1..Len(index) : index'[i] = index[i]
         /\ Chained' /\ Covered'
<1>1. /\ index \in Seq(Nat) /\ place \in Nat /\ garbage \in Nat /\ Len(index) \in Nat
      /\ Covered /\ Chained
  BY LenProperties DEF PlayerInv, LoadHeader
<1>2. PICK x \in Seq(Nat), q \in Nat :
        /\ index' = x /\ place' = q /\ q = NextHeader(place) /\ place + 2 <= q
        /\ Len(x) = Len(index) + 1
        /\ \A i \in 1..Len(index) : x[i] = index[i]
        /\ x[Len(index) + 1] = place
  <2>1. HeaderAt(place) /\ index' = Append(index, place) /\ place' = NextHeader(place)
    BY DEF LoadHeader
  <2>2. NextHeader(place) \in Nat /\ place + 2 <= NextHeader(place)
    BY <1>1, <2>1, HeaderFacts
  <2> HIDE DEF NextHeader
  <2> QED BY <1>1, <2>1, <2>2, AppendProperties
<1>3. UNCHANGED <<file, garbage>> /\ HeaderAt(place)
  BY DEF LoadHeader
<1>4. \A i \in 1..Len(index) : index[i] \in Nat /\ index[i] < place
  BY <1>1, ElementOfSeq DEF Covered
<1>5. \A i \in 1..Len(x) : i \in 1..Len(index) \/ i = Len(index) + 1
  BY <1>1, <1>2
<1>6. \A i \in 1..Len(x) : HeaderAt(x[i])
  BY <1>1, <1>2, <1>3, <1>5 DEF Chained
<1>7. ASSUME NEW i \in 1..Len(x), NEW j \in 1..Len(x), i < j PROVE x[i] < x[j]
  <2>1. i \in 1..Len(index)
    BY <1>1, <1>2, <1>7
  <2> QED BY <1>1, <1>2, <1>4, <1>5, <1>7, <2>1 DEF Chained
<1>8. ASSUME NEW i \in 1..Len(x), i < Len(x) PROVE x[i + 1] = NextHeader(x[i])
  <2>1. i \in 1..Len(index)
    BY <1>1, <1>2, <1>8
  <2>2. CASE i < Len(index)
    <3>1. i + 1 \in 1..Len(index)
      BY <1>1, <2>1, <2>2
    <3> QED BY <1>1, <1>2, <2>1, <2>2, <3>1 DEF Chained
  <2>3. CASE i = Len(index)
    <3>1. index # <<>>
      BY <1>1, <2>1, EmptySeq
    <3>2. place = NextHeader(index[i])
      <4>1. index[i] \in Nat /\ index[i] < place
        BY <1>4, <2>1
      <4>2. place # 0
        BY <1>1, <4>1
      <4> QED BY <1>1, <2>3, <4>2 DEF Covered
    <3> QED BY <1>2, <2>1, <2>3, <3>2
  <2> QED BY <1>1, <2>1, <2>2, <2>3
<1>9. x[1] = 0
  <2>1. CASE index = <<>>
    <3>1. Len(index) = 0 /\ place = 0
      BY <1>1, <2>1, EmptySeq DEF Covered
    <3> QED BY <1>2, <3>1
  <2>2. CASE index # <<>>
    <3>1. 1 \in 1..Len(index) /\ index[1] = 0
      BY <1>1, <2>2, EmptySeq DEF Chained
    <3> QED BY <1>2, <3>1
  <2> QED BY <2>1, <2>2
<1>10. Chained'
  <2>1. index'[1] = 0
    BY <1>2, <1>9
  <2>2. \A i \in 1..Len(index') : HeaderAt(index[i])'
    BY <1>2, <1>3, <1>6 DEF HeaderAt
  <2>3. \A i \in 1..Len(index') : i < Len(index') => index'[i + 1] = NextHeader(index[i])'
    BY <1>2, <1>3, <1>8 DEF NextHeader, SizeAt
  <2>4. \A i, j \in 1..Len(index') : i < j => index'[i] < index'[j]
    <3>1. \A i, j \in 1..Len(x) : i < j => x[i] < x[j]
      BY <1>7
    <3> QED BY <1>2, <3>1
  <2> QED BY <2>1, <2>2, <2>3, <2>4 DEF Chained
<1>11. ASSUME NEW i \in 1..Len(x) PROVE x[i] \in Nat /\ x[i] < q
  <2>1. CASE i \in 1..Len(index)
    <3>1. x[i] = index[i] /\ index[i] \in Nat /\ index[i] < place
      BY <1>2, <1>4, <2>1
    <3> QED BY <1>1, <1>2, <3>1
  <2>2. CASE i = Len(index) + 1
    BY <1>1, <1>2, <2>2
  <2> QED BY <1>5, <2>1, <2>2
<1>12. x # <<>> /\ q = NextHeader(x[Len(x)])
  BY <1>1, <1>2, EmptySeq
<1>13. ASSUME NEW p \in 0..(q - 1)
       PROVE  \E i \in 1..Len(x) : x[i] <= p /\ p < NextHeader(x[i])
  <2>1. CASE p < place
    <3>1. p \in 0..(place - 1)
      BY <1>1, <2>1
    <3>2. PICK i \in 1..Len(index) : index[i] <= p /\ p < NextHeader(index[i])
      BY <1>1, <3>1 DEF Covered
    <3>3. i \in 1..Len(x) /\ x[i] = index[i]
      BY <1>1, <1>2
    <3> QED BY <3>2, <3>3
  <2>2. CASE place <= p
    <3>1. Len(x) \in 1..Len(x) /\ x[Len(x)] = place
      BY <1>1, <1>2
    <3> QED BY <1>2, <2>2, <3>1
  <2> QED BY <1>1, <1>2, <2>1, <2>2
<1>14. Covered'
  <2>1. \A i \in 1..Len(index') : index'[i] < place'
    BY <1>2, <1>11
  <2>2. index' # <<>> /\ place' = NextHeader(index[Len(index)])'
    BY <1>2, <1>3, <1>12 DEF NextHeader, SizeAt
  <2>3. \A p \in 0..(place' - 1) :
          \E i \in 1..Len(index') : index'[i] <= p /\ p < NextHeader(index[i])'
    <3>1. \A p \in 0..(q - 1) :
            \E i \in 1..Len(x) : x[i] <= p /\ p < NextHeader(index[i])'
      BY <1>2, <1>3, <1>13 DEF NextHeader, SizeAt
    <3> QED BY <1>2, <3>1
  <2> QED BY <2>1, <2>2, <2>3 DEF Covered
<1> QED BY <1>1, <1>2, <1>10, <1>14

LEMMA InitPlayer == Init => PlayerInv
<1> SUFFICES ASSUME Init PROVE PlayerInv
  OBVIOUS
<1>1. /\ index = <<>> /\ place = 0 /\ current = 0 /\ ~loading /\ garbage \in Nat
      /\ shown = [at |-> 0, frame |-> 0]
  BY SizesAreNumbers DEF Init, Nothing
<1>2. <<>> \in Seq(Nat) /\ Len(<<>>) = 0
  BY EmptySeq
<1> QED BY <1>1, <1>2 DEF PlayerInv, Chained

LEMMA PlayerStep == RecorderInv /\ PlayerInv /\ [Next]_vars => PlayerInv'
<1> SUFFICES ASSUME RecorderInv, PlayerInv, [Next]_vars PROVE PlayerInv'
  OBVIOUS
<1>1. /\ garbage' = garbage /\ garbage \in Nat
      /\ index \in Seq(Nat) /\ Len(index) \in Nat /\ place \in Nat /\ current \in Nat
      /\ shown \in [at : Nat, frame : Nat]
      /\ ~isOpen => index = <<>> /\ ~loading /\ shown.at = 0
      /\ ~loading => place = 0
      /\ loading => Covered
  BY FileGrows, LenProperties DEF PlayerInv
<1>2. ASSUME index' = index PROVE Chained' /\ (Covered /\ place' = place => Covered')
  BY <1>2, IndexStays
<1>3. ASSUME index' = index, shown' = shown
      PROVE  shown'.at # 0 => shown'.at \in 1..Len(index') /\ ShownIsWhole'
  BY <1>1, <1>3, ShownStays
<1>4. ASSUME UNCHANGED <<isOpen, loading, place, index, shown>>, current' \in Nat
      PROVE  PlayerInv'
  BY <1>1, <1>2, <1>3, <1>4 DEF PlayerInv
<1>5. CASE UNCHANGED player
  BY <1>1, <1>4, <1>5 DEF player
<1>6. CASE \/ OpenRecorder \/ CloseRecorder \/ Crash \/ \E n \in PayloadSizes : AppendFrame(n)
           \/ \E m \in 1..Len(buffer) : Write(m)
  BY <1>5, <1>6 DEF OpenRecorder, CloseRecorder, Crash, AppendFrame, Write
<1>7. CASE OpenPlayer
  <2>1. /\ index' = <<>> /\ index' = index /\ place' = place /\ place' = 0 /\ isOpen' /\ loading'
        /\ current' = current /\ shown' = shown
    BY <1>1, <1>7 DEF OpenPlayer
  <2>2. Covered'
    BY <2>1, EmptySeq DEF Covered
  <2> QED BY <1>1, <1>2, <1>3, <2>1, <2>2 DEF PlayerInv
<1>8. CASE LoadHeader
  <2>1. /\ index' \in Seq(Nat) /\ place' \in Nat
        /\ Len(index) <= Len(index') /\ Len(index') \in Nat
        /\ \A i \in 1..Len(index) : index'[i] = index[i]
        /\ Chained' /\ Covered'
    BY <1>8, LoadStep
  <2>2. UNCHANGED <<isOpen, loading, current, shown>> /\ loading
    BY <1>8 DEF LoadHeader
  <2>3. shown'.at # 0 => shown'.at \in 1..Len(index') /\ ShownIsWhole'
    BY <2>1, <2>2, ShownStays
  <2> QED BY <1>1, <2>1, <2>2, <2>3 DEF PlayerInv
<1>9. CASE EndLoad
  <2>1. /\ UNCHANGED <<isOpen, index, current, shown>> /\ ~loading' /\ place' = 0 /\ isOpen
    BY <1>1, <1>9 DEF EndLoad
  <2> QED BY <1>1, <1>2, <1>3, <2>1 DEF PlayerInv
<1>10. CASE NextFrame
  <2>1. /\ UNCHANGED <<isOpen, loading, place, index, garbage, appended, file>>
        /\ current' = current + 1 /\ isOpen /\ ~loading /\ current < Len(index)
    BY <1>10 DEF NextFrame, Ready, recorder
  <2>2. CASE shown' = shown
    BY <1>1, <1>2, <1>3, <2>1, <2>2 DEF PlayerInv
  <2>3. ASSUME NEW p \in Nat, p = index[current + 1], ~HitsEnd(p), ChecksumMatches(p),
               shown' = [at |-> current + 1, frame |-> file[p + 1].frame]
        PROVE  PlayerInv'
    <3>1. current + 1 \in 1..Len(index)
      BY <1>1, <2>1
    <3>2. HeaderAt(p)
      BY <2>3, <3>1 DEF PlayerInv, Chained
    <3>3. file[p + 1].frame \in Frames /\ Whole(p, file[p + 1].frame)
      BY <1>1, <2>3, <3>2, CheckedIsWhole
    <3>4. PICK f \in Nat : f = file[p + 1].frame /\ f \in Frames /\ Whole(p, f)
      BY <3>3, FileFacts DEF Frames
    <3>5. shown'.at = current + 1 /\ shown'.frame = f /\ shown' \in [at : Nat, frame : Nat]
      BY <1>1, <2>3, <3>4
    <3>6. Whole(p, f)' /\ f \in Frames'
      BY <2>1, <3>4 DEF Whole, Frames
    <3>7. index'[shown'.at] = p
      BY <2>1, <2>3, <3>5
    <3>8. ShownIsWhole'
      BY <3>5, <3>6, <3>7 DEF ShownIsWhole, Whole
    <3> QED BY <1>1, <1>2, <2>1, <3>1, <3>5, <3>8 DEF PlayerInv
  <2>4. current + 1 \in 1..Len(index) /\ index[current + 1] \in Nat
    <3>1. current + 1 \in 1..Len(index)
      BY <1>1, <2>1
    <3> QED BY <1>1, <3>1, ElementOfSeq
  <2>5. shown' = shown \/ (/\ ~HitsEnd(index[current + 1]) /\ ChecksumMatches(index[current + 1])
                           /\ shown' = [at |-> current + 1,
                                        frame |-> file[index[current + 1] + 1].frame])
    BY <1>10 DEF NextFrame
  <2> QED BY <2>2, <2>3, <2>4, <2>5
<1>11. CASE ClosePlayer
  <2>1. /\ index' = <<>> /\ place' = 0 /\ ~isOpen' /\ ~loading' /\ current' = 0
        /\ shown' = [at |-> 0, frame |-> 0]
    BY <1>1, <1>11 DEF ClosePlayer, Ready, Nothing
  <2>2. <<>> \in Seq(Nat) /\ Len(<<>>) = 0
    BY EmptySeq
  <2> QED BY <1>1, <2>1, <2>2 DEF PlayerInv, Chained
<1>12. ASSUME NEW i \in 0..(Len(index) - 1), Seek(i) PROVE PlayerInv'
  BY <1>1, <1>4, <1>12 DEF Seek
<1>13. CASE UNCHANGED vars
  BY <1>5, <1>13 DEF vars
<1> QED BY <1>6, <1>7, <1>8, <1>9, <1>10, <1>11, <1>12, <1>13 DEF Next

LEMMA RecordingInvariant == Spec => [](RecorderInv /\ PlayerInv)
<1>1. Init => RecorderInv /\ PlayerInv
  BY InitRecorder, InitPlayer
<1>2. RecorderInv /\ PlayerInv /\ [Next]_vars => RecorderInv' /\ PlayerInv'
  BY RecorderStep, PlayerStep
<1> QED BY <1>1, <1>2, PTL DEF Spec

-----------------------------------------------------------------------------
\* Whatever a crash tore, and whatever is written while the player reads, a
\* frame shown is one that was recorded and is whole in the file
\* (spatial_frame_player.cpp, readFrameAt and verifyChecksum).
THEOREM ShownIsWholeHolds == Spec => []ShownIsWhole
<1>1. PlayerInv => ShownIsWhole
  BY DEF PlayerInv, ShownIsWhole
<1> QED BY <1>1, RecordingInvariant, PTL

\* A later place of the index shows a later frame (spatial_frame_player.cpp,
\* nextFrame, of what spatial_frame_recorder.cpp appended in order).
THEOREM ReplayInOrderHolds == Spec => ReplayInOrder
<1>1. ASSUME RecorderInv, PlayerInv, [Next]_vars, shown.at # 0, shown'.at > shown.at
      PROVE  shown'.frame > shown.frame
  <2>1. NextFrame
    <3>1. shown' # shown
      BY <1>1 DEF PlayerInv
    <3>2. CASE ClosePlayer
      BY <1>1, <3>2 DEF PlayerInv, ClosePlayer, Nothing
    <3> QED BY <1>1, <3>1, <3>2
         DEF Next, OpenRecorder, CloseRecorder, Crash, AppendFrame, Write, OpenPlayer, LoadHeader,
             EndLoad, Seek, player, vars
  <2>2. /\ shown' = [at |-> current + 1, frame |-> file[index[current + 1] + 1].frame]
        /\ current < Len(index) /\ current \in Nat /\ index \in Seq(Nat) /\ Len(index) \in Nat
        /\ shown.at \in 1..Len(index) /\ garbage \in Nat
        /\ shown.frame \in Frames /\ Whole(index[shown.at], shown.frame)
    BY <1>1, <2>1, LenProperties DEF NextFrame, PlayerInv, ShownIsWhole
  <2>3. /\ current + 1 \in 1..Len(index) /\ shown'.at = current + 1 /\ shown.at < current + 1
        /\ shown'.frame = file[index[current + 1] + 1].frame
    BY <1>1, <2>2
  <2>4. PICK p \in Nat, q \in Nat :
          /\ p = index[shown.at] /\ q = index[current + 1] /\ p < q
          /\ HeaderAt(p) /\ HeaderAt(q)
    BY <1>1, <2>2, <2>3, ElementOfSeq DEF PlayerInv, Chained
  <2>5. shown.frame \in Nat
    BY <1>1, <2>2, FileFacts DEF Frames
  <2>6. file[p + 1].frame = shown.frame
    BY <1>1, <2>2, <2>4, <2>5, WholeCells
  <2>7. file[p + 1].frame < file[q + 1].frame
    BY <1>1, <2>2, <2>4, LaterIsNewer
  <2> QED BY <2>3, <2>4, <2>6, <2>7
<1>2. RecorderInv /\ PlayerInv /\ [Next]_vars =>
        [(shown.at # 0 /\ shown'.at > shown.at) => shown'.frame > shown.frame]_vars
  BY <1>1
<1> QED BY <1>2, RecordingInvariant, PTL DEF Spec, ReplayInOrder

\* Only behind the last header of its index does a player meet the end of the
\* file (spatial_frame_player.cpp, readFrameAt of what loadIndex found).
THEOREM OnlyLastFailsHolds == Spec => OnlyLastFails
<1>1. ASSUME RecorderInv, PlayerInv, [Next]_vars, ~failed, failed'
      PROVE  current' = Len(index)
  <2>1. NextFrame
    BY <1>1
       DEF Next, OpenRecorder, CloseRecorder, Crash, AppendFrame, Write, OpenPlayer, LoadHeader,
           EndLoad, ClosePlayer, Seek, player, vars
  <2>2. /\ current' = current + 1 /\ HitsEnd(index[current + 1])
        /\ current < Len(index) /\ current \in Nat /\ index \in Seq(Nat) /\ Len(index) \in Nat
        /\ garbage \in Nat
    BY <1>1, <2>1, LenProperties DEF NextFrame, PlayerInv
  <2>3. CASE current + 1 < Len(index)
    <3>1. current + 1 \in 1..Len(index) /\ (current + 1) + 1 \in 1..Len(index)
      BY <2>2, <2>3
    <3>2. PICK p \in Nat, q \in Nat :
            /\ p = index[current + 1] /\ q = index[(current + 1) + 1]
            /\ q = NextHeader(p) /\ HeaderAt(p) /\ HeaderAt(q)
      BY <1>1, <2>2, <2>3, <3>1, ElementOfSeq DEF PlayerInv, Chained
    <3>3. q + 2 <= Len(file) /\ Len(file) \in Nat
      BY <1>1, <3>2, FileFacts DEF HeaderAt
    <3>4. q > Len(file)
      BY <2>2, <3>2 DEF HitsEnd, NextHeader
    <3> QED BY <3>2, <3>3, <3>4
  <2> QED BY <2>2, <2>3
<1>2. RecorderInv /\ PlayerInv /\ [Next]_vars =>
        [~failed /\ failed' => current' = Len(index)]_vars
  BY <1>1
<1> QED BY <1>2, RecordingInvariant, PTL DEF Spec, OnlyLastFails

\* The index of a player that has loaded it has every whole record with no
\* torn one before it, those that were written meanwhile too
\* (spatial_frame_player.cpp, loadIndex).
THEOREM WholeIsIndexedHolds == Spec => WholeIsIndexed
<1>1. ASSUME RecorderInv, PlayerInv, [Next]_vars, loading, ~loading',
             NEW p \in 0..Len(file), NEW f \in Frames, BehindNoTear(p, f)
      PROVE  \E i \in 1..Len(index') : index'[i] = p
  <2>1. /\ ~HeaderAt(place) /\ index' = index
        /\ garbage \in Nat /\ place \in Nat /\ index \in Seq(Nat) /\ Len(index) \in Nat
        /\ Covered /\ Chained
    <3>1. EndLoad
      BY <1>1
         DEF Next, OpenRecorder, CloseRecorder, Crash, AppendFrame, Write, OpenPlayer, LoadHeader,
             NextFrame, ClosePlayer, Seek, player, vars, Ready, PlayerInv
    <3> QED BY <1>1, <3>1, LenProperties DEF EndLoad, PlayerInv
  <2>2. Len(file) \in Nat /\ p \in Nat /\ f \in Nat
    BY <1>1, FileFacts DEF Frames
  <2>3. PICK n \in PayloadSizes : HeaderAt(p) /\ p + n + 2 <= Len(file)
    BY <1>1, <2>1, <2>2, WholeCells DEF BehindNoTear
  <2>4. /\ n \in Nat /\ p + 1 \in 1..Len(file) /\ file[p + 1].k = 1
    BY <1>1, <2>1, <2>2, <2>3, SizesAreNumbers, HeaderFacts
  \* A header before p is one of a whole record, which ends before p.
  <2>5. ASSUME NEW i \in 1..Len(index), index[i] < p
        PROVE  \E m \in PayloadSizes, g \in Nat :
                 /\ NextHeader(index[i]) = index[i] + 2 + m
                 /\ NextHeader(index[i]) <= p
                 /\ file[index[i] + (m + 2)] = Cell(g, m + 2, m)
    <3>1. PICK q \in Nat : q = index[i] /\ q < p /\ HeaderAt(q)
      BY <2>1, <2>5, ElementOfSeq DEF Chained
    <3>2. q \in 0..(p - 1) /\ file[q + 1].k = 1
      BY <2>2, <3>1 DEF HeaderAt
    <3>3. PICK g \in Frames : Whole(q, g)
      BY <1>1, <3>2 DEF BehindNoTear
    <3>4. g \in Nat
      BY <1>1, FileFacts DEF Frames
    <3>5. PICK m \in PayloadSizes :
            (\A k \in 1..(m + 2) : file[q + k] = Cell(g, k, m)) /\ SizeAt(q) = m
      BY <1>1, <2>1, <3>1, <3>3, <3>4, WholeCells
    <3>6. m \in Nat
      BY SizesAreNumbers
    <3>7. q + 2 + m <= p
      <4> SUFFICES ASSUME p < q + 2 + m PROVE FALSE
        BY <2>2, <3>1, <3>6
      <4>0. q < p /\ p \in Nat
        BY <2>2, <3>1
      <4>1. PICK k \in 1..(m + 2) : q + k = p + 1 /\ k # 1
        <5> DEFINE d == (p + 1) - q
        <5>1. d \in 1..(m + 2) /\ q + d = p + 1 /\ d # 1
          BY <3>6, <4>0
        <5> QED BY <5>1
      <4>2. file[p + 1] = Cell(g, k, m)
        BY <3>5, <4>1
      <4> QED BY <2>4, <4>1, <4>2, CellFacts
    <3>8. m + 2 \in 1..(m + 2)
      BY <3>6
    <3> QED BY <3>1, <3>4, <3>5, <3>7, <3>8 DEF NextHeader
  <2>6. CASE p < place
    <3>1. p \in 0..(place - 1)
      BY <2>1, <2>2, <2>6
    <3>2. PICK i \in 1..Len(index) : index[i] <= p /\ p < NextHeader(index[i])
      BY <2>1, <3>1 DEF Covered
    <3>3. index[i] \in Nat
      BY <2>1, ElementOfSeq
    <3>4. CASE index[i] < p
      <4>1. PICK m \in PayloadSizes :
              NextHeader(index[i]) = index[i] + 2 + m /\ NextHeader(index[i]) <= p
        BY <2>5, <3>4
      <4>2. m \in Nat
        BY SizesAreNumbers
      <4> QED BY <2>2, <3>2, <3>3, <4>1, <4>2
    <3> QED BY <2>1, <2>2, <3>2, <3>3, <3>4
  <2>7. CASE p = place
    BY <2>1, <2>3, <2>7
  \* loadIndex ended at place, where a whole record begins: it cannot have.
  <2>8. CASE p > place
    <3>1. place + 1 \in 1..Len(file) /\ place + 2 <= Len(file)
      BY <2>1, <2>2, <2>3, <2>4, <2>8
    <3>2. PICK h \in 1..appended, l \in PayloadSizes :
            \E k \in 1..(l + 2) :
              /\ file[place + 1] = Cell(h, k, l)
              /\ k > 1 => place + 1 > 1 /\ file[(place + 1) - 1] = Cell(h, k - 1, l)
      BY <1>1, <3>1, FileFacts DEF Structured, Laid
    <3>3. PICK k \in 1..(l + 2) :
              /\ file[place + 1] = Cell(h, k, l)
              /\ k > 1 => place + 1 > 1 /\ file[(place + 1) - 1] = Cell(h, k - 1, l)
      BY <3>2
    <3>4. (place + 1) - 1 = place /\ l \in Nat
      BY <2>1, SizesAreNumbers
    <3>5. k = 1
      <4> SUFFICES ASSUME k # 1 PROVE FALSE
        OBVIOUS
      <4>1. k > 1 /\ place # 0 /\ file[place] = Cell(h, k - 1, l)
        BY <2>1, <3>3, <3>4
      <4>2. PICK q \in Nat : index # <<>> /\ q = index[Len(index)] /\ place = NextHeader(q)
                             /\ q < p /\ Len(index) \in 1..Len(index)
        <5>1. index # <<>> /\ place = NextHeader(index[Len(index)])
          BY <2>1, <4>1 DEF Covered
        <5>2. Len(index) \in 1..Len(index)
          BY <2>1, <5>1, EmptySeq
        <5>3. index[Len(index)] \in Nat /\ index[Len(index)] < place
          BY <2>1, <5>2, ElementOfSeq DEF Covered
        <5> QED BY <2>1, <2>2, <2>8, <5>1, <5>2, <5>3
      <4>3. PICK m \in PayloadSizes, g \in Nat :
              place = q + 2 + m /\ file[q + (m + 2)] = Cell(g, m + 2, m)
        <5>1. Len(index) \in 1..Len(index) /\ index[Len(index)] < p
          BY <4>2
        <5>2. \E m \in PayloadSizes, g \in Nat :
                /\ NextHeader(index[Len(index)]) = index[Len(index)] + 2 + m
                /\ file[index[Len(index)] + (m + 2)] = Cell(g, m + 2, m)
          BY <2>5, <5>1
        <5> QED BY <4>2, <5>2
      <4>4. m \in Nat /\ q + (m + 2) = place
        <5>1. q \in Nat /\ place = q + 2 + m
          BY <4>3
        <5>2. m \in Nat
          BY SizesAreNumbers
        <5> QED BY <5>1, <5>2
      <4>5. Cell(h, k - 1, l) = Cell(g, m + 2, m)
        BY <4>1, <4>3, <4>4
      <4>6. k - 1 = m + 2 /\ l = m
        BY <4>5, CellFacts
      <4> QED BY <3>4, <4>4, <4>6
    <3>6. file[place + 1].k = 1
      BY <3>3, <3>5, CellFacts
    <3> QED BY <2>1, <3>1, <3>6 DEF HeaderAt
  <2> QED BY <2>1, <2>2, <2>6, <2>7, <2>8
<1>2. RecorderInv /\ PlayerInv /\ [Next]_vars =>
        [loading /\ ~loading' =>
           \A p \in 0..Len(file), f \in Frames :
             BehindNoTear(p, f) => \E i \in 1..Len(index') : index'[i] = p]_vars
  BY <1>1
<1> QED BY <1>2, RecordingInvariant, PTL DEF Spec, WholeIsIndexed

-----------------------------------------------------------------------------
(* The playback: what a stop leaves to the thread *)

\* From stop's change of state_ on, no call has set it to playing.
Stopping == ctl \in {"stop", "clear"} \/ (ctl = "idle" /\ last = "stop")

\* The inductive invariant: only a loop that was past its test of state_ when stop
\* began reads another frame, and only one that has read queues it; the index
\* counts from the rewinding, the queue from its clearing.
LateInv ==
  /\ position \in Nat /\ queue \in Seq(Nat) /\ frame \in Nat
  /\ state \in {"stopped", "playing", "paused"}
  /\ Stopping => state # "playing"
  /\ Stopping /\ ctl # "stop" => position <= (IF loop = "read" THEN 0 ELSE 1)
  /\ Stopping /\ ctl = "idle" => Len(queue) <= (IF loop \in {"read", "push"} THEN 0 ELSE 1)

LEMMA InitLate == PlaybackInit => LateInv
BY EmptySeq DEF PlaybackInit, LateInv, Stopping

\* The steps of the playback thread.
LEMMA LoopKeeps ==
  ASSUME LateInv,
         LoopTest \/ LoopLock \/ LoopDecide \/ LoopBlock \/ LoopRead \/ LoopEnd \/ LoopPush
           \/ LoopSleep
  PROVE  LateInv'
<1>0. /\ position \in Nat /\ queue \in Seq(Nat) /\ frame \in Nat /\ Len(queue) \in Nat
      /\ state \in {"stopped", "playing", "paused"}
      /\ Stopping => state # "playing"
      /\ Stopping /\ ctl # "stop" => position <= (IF loop = "read" THEN 0 ELSE 1)
      /\ Stopping /\ ctl = "idle" => Len(queue) <= (IF loop \in {"read", "push"} THEN 0 ELSE 1)
  BY LenProperties DEF LateInv
\* Steps by which nothing is read.
<1>1. ASSUME UNCHANGED <<position, queue, frame, ctl, last>>, state' \in {state, "stopped"},
             loop' \notin {"read", "push"}
      PROVE  LateInv'
  BY <1>0, <1>1 DEF LateInv, Stopping
<1>2. CASE LoopTest \/ LoopLock \/ LoopBlock \/ LoopEnd \/ LoopSleep
  BY <1>1, <1>2 DEF LoopTest, LoopLock, LoopBlock, LoopEnd, LoopSleep
<1>3. CASE LoopDecide
  <2>1. UNCHANGED <<state, position, frame, ctl, last>>
    BY <1>3 DEF LoopDecide
  <2>2. CASE state # "playing"
    <3>1. queue' = queue /\ loop' \notin {"read", "push"}
      BY <1>0, <1>3, <2>2 DEF LoopDecide, MustWait
    <3> QED BY <1>1, <2>1, <3>1
  <2>3. CASE state = "playing"
    <3>1. queue' \in Seq(Nat)
      <4>1. Trimmed \in Seq(Nat)
        <5>1. CASE Len(queue) >= MaxQueue
          <6>1. MaxQueue \in Nat \ {0}
            BY FramePlayerAssumption
          <6>2. \A i \in (Len(queue) - MaxQueue + 2)..Len(queue) : i \in 1..Len(queue)
            BY <1>0, <5>1, <6>1
          <6>3. \A i \in (Len(queue) - MaxQueue + 2)..Len(queue) : queue[i] \in Nat
            BY <1>0, <6>2, ElementOfSeq
          <6>4. Len(queue) - MaxQueue + 2 \in Int /\ Len(queue) \in Int
            BY <1>0, <6>1
          <6>5. SubSeq(queue, Len(queue) - MaxQueue + 2, Len(queue)) \in Seq(Nat)
            BY <6>3, <6>4, SubSeqProperties
          <6> QED BY <5>1, <6>5 DEF Trimmed
        <5>2. CASE ~(Len(queue) >= MaxQueue)
          BY <1>0, <5>2 DEF Trimmed
        <5> QED BY <5>1, <5>2
      <4> QED BY <1>0, <1>3, <4>1 DEF LoopDecide
    <3> QED BY <1>0, <2>1, <2>3, <3>1 DEF LateInv, Stopping
  <2> QED BY <2>2, <2>3
<1>4. CASE LoopRead
  <2>1. UNCHANGED <<state, queue, ctl, last>> /\ loop = "read"
    BY <1>4 DEF LoopRead
  <2>2. CASE UNCHANGED <<position, frame>> /\ loop' = "end"
    BY <1>1, <2>1, <2>2
  <2>3. CASE position' = position + 1 /\ frame' = position /\ loop' \in {"end", "push"}
    <3>1. position + 1 \in Nat /\ (position <= 0 => position + 1 <= 1)
      BY <1>0
    <3> QED BY <1>0, <2>1, <2>3, <3>1 DEF LateInv, Stopping
  <2> QED BY <1>4, <2>2, <2>3 DEF LoopRead, Advanced
<1>5. CASE LoopPush
  <2>1. /\ queue' = Append(queue, frame) /\ loop = "push" /\ loop' = "sleep"
        /\ UNCHANGED <<state, position, ctl, last, frame>>
    BY <1>5 DEF LoopPush
  <2>2. PICK q \in Seq(Nat) : queue' = q /\ Len(q) = Len(queue) + 1
    BY <1>0, <2>1, AppendProperties
  <2>3. Len(queue) <= 0 => Len(q) <= 1
    BY <1>0, <2>2
  <2> QED BY <1>0, <2>1, <2>2, <2>3 DEF LateInv, Stopping
<1> QED BY <1>2, <1>3, <1>4, <1>5

LEMMA LateStep == LateInv /\ [PlaybackNext]_playbackVars => LateInv'
<1> SUFFICES ASSUME LateInv, [PlaybackNext]_playbackVars PROVE LateInv'
  OBVIOUS
<1>0. /\ position \in Nat /\ queue \in Seq(Nat) /\ frame \in Nat /\ Len(queue) \in Nat
      /\ state \in {"stopped", "playing", "paused"}
      /\ Stopping => state # "playing"
      /\ Stopping /\ ctl # "stop" => position <= (IF loop = "read" THEN 0 ELSE 1)
      /\ Stopping /\ ctl = "idle" => Len(queue) <= (IF loop \in {"read", "push"} THEN 0 ELSE 1)
  BY LenProperties DEF LateInv
<1>1. CASE \/ LoopTest \/ LoopLock \/ LoopDecide \/ LoopBlock \/ LoopRead \/ LoopEnd
           \/ LoopPush \/ LoopSleep
  BY <1>1, LoopKeeps
<1>2. CASE Open \/ Pause
  BY <1>0, <1>2 DEF Open, Pause, Begin, LateInv, Stopping
<1>3. CASE Play \/ PlayWakes
  BY <1>0, <1>3 DEF Play, PlayWakes, Begin, Done, LateInv, Stopping
<1>4. CASE Stop
  BY <1>0, <1>4 DEF Stop, Begin, LateInv, Stopping
<1>5. CASE StopRewinds
  BY <1>0, <1>5 DEF StopRewinds, LateInv, Stopping
<1>6. CASE StopClears
  <2>1. /\ ctl = "clear" /\ ctl' = "idle" /\ last' = "stop" /\ queue' = <<>>
        /\ loop' \in {loop, "woken"} /\ UNCHANGED <<state, position, frame>>
    BY <1>6 DEF StopClears, Done, Notified
  <2>2. <<>> \in Seq(Nat) /\ Len(<<>>) = 0
    BY EmptySeq
  <2> QED BY <1>0, <2>1, <2>2 DEF LateInv, Stopping
<1>7. CASE Close \/ CloseStops \/ CloseJoins
  BY <1>0, <1>7 DEF Close, CloseStops, CloseJoins, Begin, Done, LateInv, Stopping
<1>8. ASSUME NEW i \in 0..(Positions - 1), SeekTo(i) PROVE LateInv'
  BY <1>0, <1>8 DEF SeekTo, Done, LateInv, Stopping
<1>9. CASE UNCHANGED playbackVars
  BY <1>0, <1>9 DEF playbackVars, LateInv, Stopping
<1> QED BY <1>1, <1>2, <1>3, <1>4, <1>5, <1>6, <1>7, <1>8, <1>9 DEF PlaybackNext

\* After a stop, whenever the playback thread ran in between, one frame at most
\* is queued and counted that the caller does not expect
\* (SpatialFramePlayer::stop, playbackLoop).
THEOREM OneLateFrameHolds == PlaybackSpec => []OneLateFrame
<1>1. LateInv => OneLateFrame
  <2> SUFFICES ASSUME LateInv, ctl = "idle", last = "stop"
               PROVE  Len(queue) <= 1 /\ position <= 1
    BY DEF OneLateFrame
  <2>1. /\ position \in Nat /\ Len(queue) \in Nat
        /\ position <= (IF loop = "read" THEN 0 ELSE 1)
        /\ Len(queue) <= (IF loop \in {"read", "push"} THEN 0 ELSE 1)
    BY LenProperties DEF LateInv, Stopping
  <2> QED BY <2>1
<1> QED BY <1>1, InitLate, LateStep, PTL DEF PlaybackSpec
=============================================================================
