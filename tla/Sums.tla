-------------------------------- MODULE Sums --------------------------------
(***************************************************************************)
(* The sums _merge makes of the counters of a window, as the cardinality   *)
(* of a set: one cell for each unit of each term.                          *)
(***************************************************************************)
EXTENDS Integers, FiniteSets

Cells(n, S) == UNION {{x} \X (1 .. n[x]) : x \in S}

\* The sum of n[x] over the x of S.
SumOver(n, S) == Cardinality(Cells(n, S))
=============================================================================
