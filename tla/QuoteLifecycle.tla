--------------------------- MODULE QuoteLifecycle ---------------------------
(***************************************************************************)
(* The statuses of a quote, and the order in which a run of the quote      *)
(* workflow writes them to the quote's row.  No state: QuoteWorkflow is    *)
(* shown to write in this order, Issuance takes its runs to.               *)
(***************************************************************************)

\* What the workflow calls a quote's status
QuoteWorkflowStatus ==
    {"DRAFT", "RISK_PROFILING", "RULE_EVALUATION", "PREMIUM_CALCULATION", "QUOTED",
     "SUBMITTED", "UNDER_REVIEW", "PENDING_SENIOR_REVIEW", "APPROVED",
     "CONDITIONALLY_APPROVED", "REJECTED", "ISSUED", "CANCELLED", "EXPIRED"}

\* What the column quotes.status accepts
QuoteStatus ==
    {"DRAFT", "SUBMITTED", "UNDER_REVIEW", "APPROVED", "REJECTED", "CANCELLED", "ISSUED",
     "BOUND", "EXPIRED", "PENDING_ELIGIBILITY", "ELIGIBLE", "INELIGIBLE", "RATED",
     "PRESENTED", "ACCEPTED", "DECLINED"}

InReview == {"UNDER_REVIEW", "PENDING_SENIOR_REVIEW"}
Approved == {"APPROVED", "CONDITIONALLY_APPROVED"}

\* The documented lifecycle (quote.workflow.ts:4-8) with the edges the loop and the
\* compensation add.
Lifecycle ==
    [s \in QuoteWorkflowStatus |->
        {"CANCELLED"} \cup
        CASE s = "DRAFT" -> {"RISK_PROFILING"}
          [] s = "RISK_PROFILING" -> {"RULE_EVALUATION", "REJECTED"}
          [] s = "RULE_EVALUATION" -> {"PREMIUM_CALCULATION", "REJECTED"}
          [] s = "PREMIUM_CALCULATION" -> {"QUOTED"}
          [] s = "QUOTED" -> {"SUBMITTED"}
          [] s = "SUBMITTED" -> InReview
          [] s \in InReview -> InReview \cup Approved \cup {"REJECTED"}
          [] s \in Approved -> {"ISSUED"}
          [] OTHER -> {}]
=============================================================================
