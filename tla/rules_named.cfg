SPECIFICATION Spec
CONSTANTS
    Rules = {f1, f2, f3, adds, multiplies, refuses}
    f1 = f1
    f2 = f2
    f3 = f3
    adds = adds
    multiplies = multiplies
    refuses = refuses
    api = api
    worker = worker
    name <- MCName
    event <- MCEvent
    param <- MCParam
    scoreWeight <- MCScoreWeight
    priority <- MCPriority
    Unset = Unset
    Seeded <- MCSeeded
    Processes <- MCProcesses
    Callers = {k1, k2}
    kinds <- MCKinds
    TTL = 2
    Nobody = Nobody
    NoEntry = NoEntry
INVARIANT EveryFlagCounts
SYMMETRY Symmetry
CHECK_DEADLOCK FALSE
