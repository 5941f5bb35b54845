SPECIFICATION Spec
CONSTANTS
    Threads = {t1, t2}
    Threshold = 2
    Recovery = 1
INVARIANT SingleTrial
CHECK_DEADLOCK FALSE
