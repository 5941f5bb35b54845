SPECIFICATION Spec
CONSTANTS
    Docs = {d1}
    Recipients = {1, 2}
    Emails = {x, y}
    Archives = {k1}
    Sessions = {s1}
    MaxTime = 1
    None = None
PROPERTY SignedAtKept
CHECK_DEADLOCK FALSE
