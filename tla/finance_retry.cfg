SPECIFICATION Spec
CONSTANTS
    Callers = {c1}
    InstallmentNos = {1, 2}
    FreshKeys = {}
    MaxCalls = 3
INVARIANT PaidOnce
CHECK_DEADLOCK FALSE
