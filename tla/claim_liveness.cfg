SPECIFICATION FairSpec
CONSTANTS
    FraudDecisions <- MCFewFraudDecisions
    Nets <- MCFewNets
    FinanceDecisions <- MCFewFinanceDecisions
    MaxReopenCounts <- MCMaxReopenCounts
PROPERTIES
    Termination
    WithdrawalAnswered
CHECK_DEADLOCK FALSE
