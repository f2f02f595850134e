--------------------------- MODULE MCWarmupSweep ---------------------------
EXTENDS WarmupSweep

OneDelay == {1}
SlowAndFast == <<2, 5>>
=============================================================================
