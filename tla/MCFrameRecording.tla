--------------------------- MODULE MCFrameRecording ---------------------------
EXTENDS FrameRecording

\* A payload of one cell, or of as many as a whole record of the shorter kind.
ShortAndLong == {1, 3}
InsideAndBeyond == {2, 20}
=============================================================================
