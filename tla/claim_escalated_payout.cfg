SPECIFICATION Spec
CONSTANTS
    FraudDecisions <- MCFraudDecisions
    Nets <- MCNets
    FinanceDecisions <- MCFinanceDecisions
    MaxReopenCounts <- MCMaxReopenCounts
INVARIANT PaidOnApproval
CHECK_DEADLOCK FALSE
