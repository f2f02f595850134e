------------------------------ MODULE MCDrain ------------------------------
EXTENDS Drain

NoneOrOne == {0, 1}
BothReaps == BOOLEAN
DefaultReap == {TRUE}
=============================================================================
