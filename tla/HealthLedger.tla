---------------------------- MODULE HealthLedger ----------------------------
(***************************************************************************)
(* What HealthTracker.record promises its caller, the executor, without    *)
(* buckets, clocks or Redis: a call is settled exactly once; one that      *)
(* returned was written; one that was dropped or abandoned may have been   *)
(* written all the same, even later (ADR 0008 accepts the loss, and says   *)
(* nothing of the opposite).  HealthWindow implements this module.         *)
(***************************************************************************)
EXTENDS Naturals

CONSTANTS
    Attempt,    \* calls of record, one per provider attempt
    MaxWrites   \* times the store may execute one transaction, at least one

VARIABLES call, written

ledgerVars == <<call, written>>

Settlement == {"recorded", "dropped", "abandoned"}

LedgerTypeOK ==
    /\ call \in [Attempt -> {"idle", "waiting"} \cup Settlement]
    /\ written \in [Attempt -> 0 .. MaxWrites]

LedgerInit ==
    /\ call = [a \in Attempt |-> "idle"]
    /\ written = [a \in Attempt |-> 0]

Begin(a) ==
    /\ call[a] = "idle"
    /\ call' = [call EXCEPT ![a] = "waiting"]
    /\ UNCHANGED written

Write(a) ==
    /\ call[a] # "idle"
    /\ written[a] < MaxWrites
    /\ written' = [written EXCEPT ![a] = @ + 1]
    /\ UNCHANGED call

Return(a) ==
    /\ call[a] = "waiting"
    /\ written[a] > 0
    /\ call' = [call EXCEPT ![a] = "recorded"]
    /\ UNCHANGED written

Drop(a) ==
    /\ call[a] = "waiting"
    /\ call' = [call EXCEPT ![a] = "dropped"]
    /\ UNCHANGED written

\* A cancelled call, or every call of a process that dies.
Abandon(as) ==
    /\ call' = [a \in Attempt |->
                   IF a \in as /\ call[a] = "waiting" THEN "abandoned" ELSE call[a]]
    /\ UNCHANGED written

LedgerNext ==
    \/ \E a \in Attempt : Begin(a) \/ Write(a) \/ Return(a) \/ Drop(a)
    \/ \E as \in SUBSET Attempt : Abandon(as)

LedgerSpec == LedgerInit /\ [][LedgerNext]_ledgerVars
=============================================================================
