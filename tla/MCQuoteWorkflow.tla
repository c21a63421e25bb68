-------------------------- MODULE MCQuoteWorkflow --------------------------
(* Small instance of QuoteWorkflow for TLC.                                *)
EXTENDS QuoteWorkflow

\* Every decision; an unconditional approval by level 1, a conditional one by level 2
MCDecisions ==
    {[decision |-> d, approvalLevel |-> 1] :
        d \in {"APPROVE", "REJECT", "REFER_TO_SENIOR", "REQUEST_INFO"}}
    \cup {[decision |-> "CONDITIONALLY_APPROVE", approvalLevel |-> 2]}
=============================================================================
