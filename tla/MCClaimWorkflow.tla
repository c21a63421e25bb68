-------------------------- MODULE MCClaimWorkflow --------------------------
(* Small instance of ClaimWorkflow for TLC.                                *)
EXTENDS ClaimWorkflow

Pay(d, approved, seq) ==
    [decision |-> d, approvedAmount |-> approved, installments |-> seq]

MCFraudDecisions == {"CLEAR", "ESCALATE"}

MCNets == {0, 3}

MCMaxReopenCounts == {0, 1}

\* One payload of each kind the payout code tells apart; the first schedule falls one
\* cent short of the approved amount, the second uses one installment number twice.
MCFinanceDecisions ==
    {Pay("APPROVE_FULL", NoAmount, <<>>),
     Pay("APPROVE_PARTIAL", 3, <<[no |-> 1, amount |-> 1], [no |-> 2, amount |-> 1]>>),
     Pay("APPROVE_PARTIAL", NoAmount, <<[no |-> 1, amount |-> 2], [no |-> 1, amount |-> 2]>>),
     Pay("APPROVE_FULL", 9, <<>>),
     Pay("REJECT", NoAmount, <<>>),
     Pay("ESCALATE", NoAmount, <<>>)}

\* The liveness run, explored without the view below, takes fewer payloads.
MCFewFraudDecisions == {"CLEAR"}
MCFewNets == {3}
MCFewFinanceDecisions ==
    {p \in MCFinanceDecisions : p.decision = "APPROVE_PARTIAL" /\ p.approvedAmount # NoAmount}

\* TLC's view of a state: a buffer no code ahead reads any more is left out.  Such a
\* buffer changes no guard and no written value, so states that differ in it alone
\* have the same futures.
Closing == status \in {"REJECTED", "CLOSED", "REOPENED", "WITHDRAWN", "VALIDATION_FAILED"}
           \/ pc \in {"notifyPaid", "compensate", "ended"}

LiveBuffers ==
    <<IF status \in {"VALIDATION_PENDING", "UNDER_INVESTIGATION"}
      THEN investigationResult ELSE FALSE,
      IF status \in {"VALIDATION_PENDING", "UNDER_INVESTIGATION", "FRAUD_REVIEW"}
      THEN <<decision.fraud, "fraud" \in stale>> ELSE <<None.fraud, FALSE>>,
      IF Closing THEN <<None.assessment, None.finance, FALSE>>
                 ELSE <<decision.assessment, decision.finance, withdrawPayload>>,
      IF status \in {"CLOSED", "REOPENED", "WITHDRAWN"} \/ pc \in {"compensate", "ended"}
      THEN FALSE ELSE reopenPayload>>

View == <<input, pc, status, isFraudEscalated, payout, closing, arg, LiveBuffers,
          dbStatus, rows, money, asked, accepted, stale \ {"fraud"}, overtaken,
          withdrawnInTime>>
=============================================================================
