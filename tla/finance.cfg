SPECIFICATION Spec
CONSTANTS
    Callers = {c1, c2}
    InstallmentNos = {1, 2}
    FreshKeys = {f1}
    MaxCalls = 4
SYMMETRY MCSymmetry
INVARIANTS
    TypeOK
    PaidOncePerKey
    BooksMatch
    StatusFollowsSchedule
    StatusBacked
CHECK_DEADLOCK FALSE
