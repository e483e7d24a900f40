----------------------------- MODULE MCSnapshot -----------------------------
(* A small instance of Snapshot for TLC.                                   *)
EXTENDS Snapshot

Symmetry == Permutations(Bucket)
=============================================================================
