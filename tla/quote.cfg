SPECIFICATION FairSpec
CONSTANT Decisions <- MCDecisions
INVARIANTS
    TypeOK
    IssuedOnApproval
    FreshDecisions
    CancelHonoured
    EscalationsCount
PROPERTIES
    KeepsPromise
    QuietRunEnds
    CancelAnswered
CHECK_DEADLOCK FALSE
