SPECIFICATION Spec
CONSTANTS
    Threads = {t1, t2, t3, t4}
    Threshold = 3
    Recovery = 2
INVARIANTS
    TypeOK
    OpenIffStreak
    CooldownShut
PROPERTIES
    Recovers
    ShedsLoad
CHECK_DEADLOCK FALSE
