---------------------------- MODULE QuotePromise ----------------------------
(***************************************************************************)
(* What one run of the quote workflow promises to those who see only the   *)
(* quote's row, the underwriting decision on record, the premium snapshot  *)
(* and the policy: the review rounds, locks, timers, signal buffers and    *)
(* retries of src/src/temporal/workflows/quote.workflow.ts are out of      *)
(* sight.  QuoteWorkflow implements this specification.                    *)
(***************************************************************************)
EXTENDS QuoteLifecycle

VARIABLES
    stage,      \* the status in the quote's row
    decided,    \* the underwriting decision on record: "open", "approve" or "reject"
    locked,     \* the premium snapshot is locked
    issued,     \* there is a policy
    open        \* the run has not ended

vars == <<stage, decided, locked, issued, open>>

Init ==
    /\ stage = "DRAFT" /\ decided = "open"
    /\ locked = FALSE /\ issued = FALSE /\ open = TRUE

\* The row moves along the lifecycle, and never says more than was decided or done.
Advance ==
    /\ stage' \in Lifecycle[stage]
    /\ stage' \in Approved => decided = "approve"
    /\ stage' = "REJECTED" => decided # "approve"
    /\ stage' = "ISSUED" => issued

\* A quote under review is decided; a referral or a request for information leaves it
\* open, an approval or a rejection is final.
Decide ==
    /\ stage \in InReview /\ decided = "open"
    /\ decided' \in {"approve", "reject"}
    /\ UNCHANGED <<stage, locked, issued, open>>

Lock ==
    /\ stage \in Approved /\ decided = "approve"
    /\ locked' = TRUE
    /\ UNCHANGED <<stage, decided, issued, open>>

\* The policy of an approved quote is issued once, on the locked premium.
Issue ==
    /\ stage \in Approved /\ decided = "approve" /\ locked /\ ~issued
    /\ issued' = TRUE
    /\ UNCHANGED <<stage, decided, locked, open>>

Move == Advance /\ UNCHANGED <<decided, locked, issued, open>>

\* The run ends, its last write to the row included; nothing changes after it.
End ==
    /\ Advance \/ UNCHANGED stage
    /\ open' = FALSE
    /\ UNCHANGED <<decided, locked, issued>>

Next == open /\ (Move \/ Decide \/ Lock \/ Issue \/ End)

Spec == Init /\ [][Next]_vars
=============================================================================
