SPECIFICATION Spec
CONSTANTS
    FraudDecisions <- MCFraudDecisions
    Nets <- MCNets
    FinanceDecisions <- MCFinanceDecisions
    MaxReopenCounts <- MCMaxReopenCounts
INVARIANT ReopenHonoured
CHECK_DEADLOCK FALSE
