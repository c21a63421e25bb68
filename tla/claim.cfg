SPECIFICATION Spec
CONSTANTS
    FraudDecisions <- MCFraudDecisions
    Nets <- MCNets
    FinanceDecisions <- MCFinanceDecisions
    MaxReopenCounts <- MCMaxReopenCounts
INVARIANTS
    TypeOK
    FraudGate
    FinanceGate
    FreshDecisions
    WithdrawalHonoured
    PaysWhatWasRecorded
    PaidIsPaid
PROPERTY KeepsPromise
CHECK_DEADLOCK FALSE
VIEW View
