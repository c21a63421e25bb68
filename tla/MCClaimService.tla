-------------------------- MODULE MCClaimService ---------------------------
(* Small instance of ClaimService for TLC.                                 *)
EXTENDS ClaimService, TLC

CONSTANTS c1, c2

\* A week apart: the window still takes in the other
MCLossDay == c1 :> 1 @@ c2 :> 8

MCColumns == {ClaimStatus, ClaimStatus \cup ClaimWorkflowStatus}

\* One run may come to every kind of activity; the other fails its validation or goes on.
MCWritten ==
    c1 :> {"VALIDATION_PENDING", "ASSESSMENT", "APPROVED", "FINANCE_REVIEW",
           "CLOSED", "WITHDRAWN"} @@
    c2 :> {"VALIDATION_PENDING", "VALIDATION_FAILED", "UNDER_INVESTIGATION", "WITHDRAWN"}

MCDeskMethods == c1 :> {"assess"} @@ c2 :> {}

Symmetry == Permutations(Callers)
=============================================================================
