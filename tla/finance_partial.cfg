SPECIFICATION Spec
CONSTANTS
    Callers = {c1}
    InstallmentNos = {1, 2}
    FreshKeys = {}
    MaxCalls = 3
INVARIANT InstallmentsComplete
CHECK_DEADLOCK FALSE
