------------------------------ MODULE SignOff ------------------------------
(***************************************************************************)
(* What the approval gate promises about a contract, without requests,     *)
(* roles or rows: at most one question is open on it; it stands as signed  *)
(* or closed only once that has been granted; and closing is granted only  *)
(* to a contract whose signature was granted before. A contract may be     *)
(* put back to work at any time, by a decline or by a late write.          *)
(***************************************************************************)
CONSTANT Contracts

VARIABLES
    open,       \* contracts with an open question
    granted,    \* per contract, the gated stages granted to it so far
    standing    \* per contract, "working", "signed" or "closed"

vars == <<open, granted, standing>>

GatedStages == {"signed", "closed"}

Init ==
    /\ open = {}
    /\ granted = [c \in Contracts |-> {}]
    /\ standing = [c \in Contracts |-> "working"]

\* A question is put while none is open.
Ask(c) ==
    /\ c \notin open
    /\ open' = open \cup {c}
    /\ UNCHANGED <<granted, standing>>

\* A question is turned down. A verdict on a question that was settled
\* already leaves a newer one open.
Refuse(c) ==
    /\ open' \in {open, open \ {c}}
    /\ UNCHANGED <<granted, standing>>

\* A stage is granted and, as a rule, the contract put in it.
Grant(c, g) ==
    /\ g = "closed" => "signed" \in granted[c]
    /\ open' \in {open, open \ {c}}
    /\ granted' = [granted EXCEPT ![c] = @ \cup {g}]
    /\ standing' \in {standing, [standing EXCEPT ![c] = g]}

Rework(c) ==
    /\ standing' = [standing EXCEPT ![c] = "working"]
    /\ UNCHANGED <<open, granted>>

Next == \E c \in Contracts :
    \/ Ask(c)
    \/ Refuse(c)
    \/ \E g \in GatedStages : Grant(c, g)
    \/ Rework(c)

Spec == Init /\ [][Next]_vars
=============================================================================
