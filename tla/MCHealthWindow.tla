--------------------------- MODULE MCHealthWindow ---------------------------
(* Small instances of HealthWindow for TLC.                                *)
EXTENDS HealthWindow, TLC

NoSteps == {}
BothSteps == {-5, 3}

Symmetry == Permutations(Attempt) \cup Permutations(Provider)
=============================================================================
