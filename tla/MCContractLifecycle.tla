------------------------ MODULE MCContractLifecycle ------------------------
EXTENDS ContractLifecycle, TLC

CONSTANTS ana, leo      \* an administrator and a lawyer

RoleOf == ana :> "admin" @@ leo :> "lawyer"

\* Rows and requests are interchangeable (sound: only safety is checked).
Interchangeable == Permutations(Approvals) \cup Permutations(Sessions)
=============================================================================
