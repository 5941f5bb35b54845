SPECIFICATION Spec
CONSTANTS
    Tokens = {t1, t2, t3}
    Sessions = {s1, s2}
    MaxTime = 1
    MaxPurges = 2
    None = None
SYMMETRY Interchangeable
INVARIANTS
    TypeOK
    PurgeEndsRefresh
    PurgeEndsAccess
    OneLivePerLogin
CHECK_DEADLOCK FALSE
