SPECIFICATION Spec
CONSTANTS
    ana = ana
    leo = leo
    None = None
    Contracts = {c1}
    Approvals = {a1, a2}
    Users = {ana, leo}
    Candidates = {leo}
    Sessions = {s1, s2}
    Role <- RoleOf
SYMMETRY Interchangeable
INVARIANTS
    TypeOK
    OnePendingApproval
    GateHeld
    ApproversInformed
PROPERTIES
    DrainedIsFinal
    ImplementsSignOff
CHECK_DEADLOCK FALSE
