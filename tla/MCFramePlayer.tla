---------------------------- MODULE MCFramePlayer ----------------------------
EXTENDS FramePlayer

ThirdTorn == {2}
=============================================================================
