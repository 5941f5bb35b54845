SPECIFICATION Spec
CONSTANTS
    ana = ana
    leo = leo
    None = None
    Contracts = {c1}
    Approvals = {a1, a2}
    Users = {ana, leo}
    Candidates = {leo}
    Sessions = {s1}
    Role <- RoleOf
PROPERTY TerminalStagesStay
CHECK_DEADLOCK FALSE
