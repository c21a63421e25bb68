SPECIFICATION Spec
CONSTANTS
    Callers = {c1, c2}
    Underwriters = {u1, u2}
    Tokens = {t1, t2}
    MaxEscalations = 3
SYMMETRY MCSymmetry
INVARIANTS
    TypeOK
    OneActiveLock
    StatusIsLatest
    LevelCountsEscalations
