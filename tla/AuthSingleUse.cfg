SPECIFICATION Spec
CONSTANTS
    Tokens = {t1, t2, t3}
    Sessions = {s1, s2}
    MaxTime = 0
    MaxPurges = 0
    None = None
INVARIANT SingleUse
CHECK_DEADLOCK FALSE
