SPECIFICATION Spec
CONSTANTS
    Tokens = {t1, t2}
    Sessions = {s1, s2}
    MaxTime = 0
    MaxPurges = 1
    None = None
INVARIANT ForcedLogoutKills
CHECK_DEADLOCK FALSE
