SPECIFICATION Spec
CONSTANTS
    Callers = {k1, k2}
    Columns <- MCColumns
    Written <- MCWritten
    DeskMethods = {"submit", "decide", "cancel", "calculate", "issue", "activate", "lapse", "cancelPolicy", "reinstate"}
    MaxSnapshots = 2
    MaxEvents = 1
    Nobody = Nobody
INVARIANT CancellationStops
SYMMETRY Symmetry
CHECK_DEADLOCK FALSE
