---------------------------- MODULE ClaimPromise ----------------------------
(***************************************************************************)
(* What one run of the claim workflow promises to those who see only the   *)
(* claim's row, the finance decision on record and the account the money   *)
(* leaves from: the awaits, timers, signal buffers and retries of          *)
(* src/src/temporal/workflows/claim.workflow.ts are out of sight.          *)
(* ClaimWorkflow implements this specification.                            *)
(***************************************************************************)
EXTENDS ClaimLifecycle

CONSTANTS
    Full,       \* the key a payout in full goes under
    Numbers     \* the keys of installments

VARIABLES
    stage,      \* the status in the claim's row
    decided,    \* the finance decision on record: "none", "reject" or "pay"
    transfers,  \* the keys money has left under
    open        \* the run has not ended

vars == <<stage, decided, transfers, open>>

Paid == {"PARTIALLY_PAID", "PAID"}

Init ==
    /\ stage = "SUBMITTED" /\ decided = "none"
    /\ transfers = {} /\ open = TRUE

\* The row moves along the lifecycle, and says that money was paid only once some was.
Advance ==
    /\ stage' \in Lifecycle[stage]
    /\ stage' \in Paid => transfers # {}

\* Finance decides once, when the claim is before it.
Decide ==
    /\ stage = "FINANCE_REVIEW" /\ decided = "none"
    /\ decided' \in {"reject", "pay"}
    /\ UNCHANGED <<stage, transfers, open>>

\* Money leaves under a decision that pays, each key at most once, in full or in
\* installments but not in both, and not after the claim has been closed, rejected or
\* withdrawn.
Pay(key) ==
    /\ decided = "pay" /\ stage \in {"FINANCE_REVIEW"} \cup Paid
    /\ key \notin transfers /\ Full \notin transfers
    /\ key = Full => transfers = {}
    /\ transfers' = transfers \cup {key}
    /\ UNCHANGED <<stage, decided, open>>

Move == Advance /\ UNCHANGED <<decided, transfers, open>>

\* The run ends, its last write to the row included; nothing changes after it.
End ==
    /\ Advance \/ UNCHANGED stage
    /\ open' = FALSE
    /\ UNCHANGED <<decided, transfers>>

Next == open /\ (Move \/ Decide \/ (\E key \in {Full} \cup Numbers : Pay(key)) \/ End)

Spec == Init /\ [][Next]_vars
=============================================================================
