--------------------------- MODULE MCMockAdapter ---------------------------
(* Small instances of MockAdapter for TLC.                                 *)
EXTENDS MockAdapter, TLC

\* Two seeds whose first draws disagree; draws at both ends of the scale.
TwoStreams == [s1 |-> <<0, 1, 0, 1, 0, 1>>, s2 |-> <<1, 0, 1, 1, 0, 0>>]

Symmetry == Permutations(Call)
=============================================================================
