SPECIFICATION Spec
CONSTANTS
    c1 = c1
    c2 = c2
    Claims = {c1, c2}
    lossDay <- MCLossDay
    Callers = {k1, k2}
    Columns <- MCColumns
    Written <- MCWritten
    DeskMethods <- MCDeskMethods
    MaxDeskCalls = 1
    MaxFaults = 1
    Nobody = Nobody
INVARIANTS
    TypeOK
    DuplicatesCaught
    HistoryAgrees
    RequestedOnce
    ReopensCounted
SYMMETRY Symmetry
CHECK_DEADLOCK FALSE
