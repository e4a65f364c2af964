--------------------------- MODULE MCTaskScheduler ---------------------------
EXTENDS TaskScheduler, TLC

CONSTANTS t1, t2

TwoIds == {t1, t2}
=============================================================================
