--------------------------- MODULE ClaimLifecycle ---------------------------
(***************************************************************************)
(* The statuses of a claim, and the order in which a run of the claim      *)
(* workflow writes them to the claim's row.  No state: ClaimWorkflow is    *)
(* shown to write in this order, ClaimService takes its runs to.           *)
(***************************************************************************)

\* What the workflow calls a claim's status
ClaimWorkflowStatus ==
    {"SUBMITTED", "VALIDATION_PENDING", "VALIDATION_FAILED",
     "UNDER_INVESTIGATION", "FRAUD_REVIEW", "ASSESSMENT", "APPROVED",
     "REJECTED", "FINANCE_REVIEW", "PARTIALLY_PAID", "PAID", "CLOSED",
     "REOPENED", "WITHDRAWN"}

\* What the column claims.status accepts
ClaimStatus ==
    {"SUBMITTED", "VALIDATED", "VALIDATION_FAILED", "UNDER_INVESTIGATION", "FRAUD_REVIEW",
     "ASSESSED", "APPROVED", "PARTIALLY_PAID", "PAID", "REJECTED", "CLOSED", "REOPENED",
     "WITHDRAWN"}

\* The edges of the documented lifecycle (claim.workflow.ts:4-15), and the ones the
\* timeouts, the withdrawal and the compensation add.  PAID goes back to PARTIALLY_PAID
\* when a later finance signal raises the amount due in the middle of a schedule.
Lifecycle ==
    [s \in ClaimWorkflowStatus |->
        {"WITHDRAWN"} \cup
        CASE s = "SUBMITTED" -> {"VALIDATION_PENDING"}
          [] s = "VALIDATION_PENDING" ->
                 {"VALIDATION_FAILED", "UNDER_INVESTIGATION", "FRAUD_REVIEW", "ASSESSMENT"}
          [] s = "UNDER_INVESTIGATION" -> {"FRAUD_REVIEW"}
          [] s = "FRAUD_REVIEW" -> {"ASSESSMENT", "REJECTED"}
          [] s = "ASSESSMENT" -> {"APPROVED", "REJECTED"}
          [] s = "APPROVED" -> {"FINANCE_REVIEW"}
          [] s = "FINANCE_REVIEW" -> {"PARTIALLY_PAID", "PAID", "REJECTED", "CLOSED"}
          [] s = "PARTIALLY_PAID" -> {"PAID", "CLOSED"}
          [] s = "PAID" -> {"PARTIALLY_PAID", "CLOSED"}
          [] s \in {"VALIDATION_FAILED", "REJECTED"} -> {"CLOSED"}
          [] s = "CLOSED" -> {"REOPENED"}
          [] OTHER -> {}]
=============================================================================
