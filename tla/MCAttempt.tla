----------------------------- MODULE MCAttempt -----------------------------
EXTENDS Attempt

MCSteps == {-2, 3}
=============================================================================
