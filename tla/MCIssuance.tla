---------------------------- MODULE MCIssuance -----------------------------
(* Small instance of Issuance for TLC.                                     *)
EXTENDS Issuance, TLC

MCColumns == {QuoteStatus, QuoteStatus \cup QuoteWorkflowStatus}

\* One status for a review, and one for an approval
MCWritten == QuoteWorkflowStatus \ {"PENDING_SENIOR_REVIEW", "CONDITIONALLY_APPROVED"}

Symmetry == Permutations(Callers)
=============================================================================
