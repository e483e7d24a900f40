------------------------------ MODULE Latency ------------------------------
(***************************************************************************)
(* keel/health/latency.py: the samples of a window and their percentiles,  *)
(* of a list that keel/health/snapshot.py sorts.                           *)
(* A raw list entry is a number of milliseconds, or Malformed (text that   *)
(* is no number, or NaN).                                                  *)
(***************************************************************************)
EXTENDS Integers, Sequences, FiniteSets, Functions

CONSTANTS Malformed, None

\* parse_samples keeps an entry that is a number and not negative.
Usable(raw) == raw # Malformed /\ raw \in Nat

\* How many of the values of f are less than v, and how many are no greater.
Below(f, v) == Cardinality({x \in DOMAIN f : f[x] < v})
UpTo(f, v) == Cardinality({x \in DOMAIN f : f[x] <= v})

\* sorted: the i-th is the value that fewer than i of them are below and at
\* least i are up to.
Ascending(f) ==
    [i \in 1 .. Cardinality(DOMAIN f) |->
        CHOOSE v \in Range(f) : Below(f, v) < i /\ i <= UpTo(f, v)]

RankDown(q) == q \div 100                              \* mutant of Ceil
\* math.ceil(q / 100), exact for every number of samples a window can hold.
Ceil(q) == (q + 99) \div 100

Clamp(k, n) == IF k < 1 THEN 1 ELSE IF k > n THEN n ELSE k

\* percentile: by nearest rank, p in percent, of samples in ascending order.
Percentile(s, p) ==
    IF s = <<>> THEN None ELSE s[Clamp(Ceil(p * Len(s)), Len(s))]
=============================================================================
