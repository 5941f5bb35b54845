------------------------- MODULE ContractLifecycle -------------------------
(***************************************************************************)
(* The stage of a contract and the sign-off that guards two of its moves.  *)
(*                                                                         *)
(* Handlers run in a thread pool, each with a database session of its own  *)
(* at PostgreSQL's default READ COMMITTED isolation, without row locks or  *)
(* version columns. A request is therefore two steps: it READS (its        *)
(* SELECTs, and every check it makes on what they returned), then it       *)
(* WRITES (the flush and the commit). Between the two, other requests      *)
(* commit. Adjacent SELECTs are one step: the rows read do not go back to  *)
(* the values a later SELECT would have to see for the two to differ.      *)
(***************************************************************************)
CONSTANTS
    Contracts,      \* contracts of one organization
    Approvals,      \* identities for contract_approvals rows
    Users,          \* active staff of the organization
    Sessions,       \* requests that can be in flight at once
    Role,           \* users.role, fixed
    Candidates,     \* bound: the users whom requests name as lead lawyers
    None            \* "no row", "no user"

Stages == {"intake", "in_review", "awaiting_signature",
           "signed", "closed", "declined"}

Roles == {"admin", "lawyer", "paralegal", "secretary", "receptionist"}

\* Routes that change a contract require one of these roles.
CaseWork == {"admin", "lawyer", "paralegal"}

ASSUME RoleAssumption == Role \in [Users -> Roles]
ASSUME CandidatesAssumption == Candidates \subseteq Users

-----------------------------------------------------------------------------
\* Variant: declined contracts can be reopened.
TransitionsReopening ==
    [intake             |-> {"in_review", "declined"},
     in_review          |-> {"awaiting_signature", "declined", "intake"},
     awaiting_signature |-> {"signed", "declined", "in_review"},
     signed             |-> {"closed"},
     closed             |-> {},
     declined           |-> {"intake"}]

Transitions ==
    [intake             |-> {"in_review", "declined"},
     in_review          |-> {"awaiting_signature", "declined", "intake"},
     awaiting_signature |-> {"signed", "declined", "in_review"},
     signed             |-> {"closed"},
     closed             |-> {},
     declined           |-> {}]

\* Variants: signing left out of the gate; a shortcut past signing.
GatedClosingOnly == {<<"signed", "closed">>}
GatedWithShortcut == {<<"awaiting_signature", "signed">>,
                      <<"awaiting_signature", "closed">>,
                      <<"signed", "closed">>}

\* Moves that only a decided approval may make.
Gated == {<<"awaiting_signature", "signed">>, <<"signed", "closed">>}

VARIABLES
    stage,      \* contracts.status; None before the contract is created
    approval,   \* contract_approvals: a row, or None
    leads,      \* per contract, the users with a lead_lawyer assignment
    decisions,  \* CONTRACT_APPROVAL_DECIDED entries of the audit log
    notified,   \* notifications sent: <<subject, approval or contract, user>>
    joined,     \* history: <<a, u>> if u became lead after row a was made
    session     \* per request in flight, what it read and goes on to use

vars == <<stage, approval, leads, decisions, notified, joined, session>>

ApprovalRow == [contract : Contracts, from : Stages, to : Stages,
                status : {"pending", "approved", "rejected"},
                requested_by : Users, decided_by : Users \cup {None}]

ASSUME NoneAssumption == None \notin Users \cup Stages \cup ApprovalRow

Idle == [op |-> "idle"]

SessionState ==
    {Idle}
    \cup [op : {"status"}, contract : Contracts, to : Stages]
    \cup [op : {"ask"}, contract : Contracts, actor : Users,
          from : Stages, to : Stages]
    \cup [op : {"decide"}, contract : Contracts, actor : Users,
          approval : Approvals, verdict : {"approved", "rejected"},
          moves : BOOLEAN]

TypeOK ==
    /\ stage \in [Contracts -> Stages \cup {None}]
    /\ approval \in [Approvals -> ApprovalRow \cup {None}]
    /\ leads \in [Contracts -> SUBSET Users]
    /\ decisions \subseteq [approval : Approvals, contract : Contracts,
                            by : Users, to : Stages,
                            verdict : {"approved", "rejected"}]
    /\ notified \subseteq
         {"asked", "approved", "rejected", "assigned"}
           \X (Approvals \cup Contracts) \X Users
    /\ joined \subseteq Approvals \X Users
    /\ session \in [Sessions -> SessionState]

Init ==
    /\ stage = [c \in Contracts |-> None]
    /\ approval = [a \in Approvals |-> None]
    /\ leads = [c \in Contracts |-> {}]
    /\ decisions = {}
    /\ notified = {}
    /\ joined = {}
    /\ session = [s \in Sessions |-> Idle]

-----------------------------------------------------------------------------
Existing(a) == approval[a] # None

Pending(a) == Existing(a) /\ approval[a].status = "pending"

PendingOn(c) == {a \in Approvals : Pending(a) /\ approval[a].contract = c}

Admins == {u \in Users : Role[u] = "admin"}

\* Variant: no unique index on pending rows.
NoIndex(c) == TRUE

\* The partial unique index on pending rows lets one more in.
IndexAdmits(c) == PendingOn(c) = {}

\* Variant: lead lawyers left out.
AdminsOnly(c, requester) == Admins \ {requester}

\* _eligible_approver_ids: told of a new approval, the requester excepted.
EligibleApprovers(c, requester) == (Admins \cup leads[c]) \ {requester}

\* The route's role check, then _can_decide_approval.
CanDecide(u, c) == Role[u] \in CaseWork /\ u \in Admins \cup leads[c]

Read(s, request) ==
    /\ session[s] = Idle
    /\ session' = [session EXCEPT ![s] = request]

Finish(s) == session' = [session EXCEPT ![s] = Idle]

-----------------------------------------------------------------------------
\* Variant: created in a stage that ContractStage lacks.
CreateAsDraft(c) ==
    /\ stage[c] = None
    /\ stage' = [stage EXCEPT ![c] = "draft"]
    /\ UNCHANGED <<approval, leads, decisions, notified, joined, session>>

\* create_contract: one INSERT, nothing read first.
CreateContract(c) ==
    /\ stage[c] = None
    /\ stage' = [stage EXCEPT ![c] = "intake"]
    /\ UNCHANGED <<approval, leads, decisions, notified, joined, session>>

\* update_status up to its last check. A request for the stage the contract
\* is in, for one the graph does not allow, or for a gated one ends here.
ReadForStatus(s, u, c, to) ==
    /\ Role[u] \in CaseWork
    /\ stage[c] # None
    /\ to \in Transitions[stage[c]]
    /\ <<stage[c], to>> \notin Gated
    /\ Read(s, [op |-> "status", contract |-> c, to |-> to])
    /\ UNCHANGED <<stage, approval, leads, decisions, notified, joined>>

\* The UPDATE names the row by its id alone: whatever stage it has now is
\* overwritten.
WriteStatus(s) ==
    LET r == session[s] IN
    /\ r.op = "status"
    /\ stage' = [stage EXCEPT ![r.contract] = r.to]
    /\ Finish(s)
    /\ UNCHANGED <<approval, leads, decisions, notified, joined>>

\* request_status_approval up to its check for a pending approval.
ReadForApproval(s, u, c, to) ==
    /\ Role[u] \in CaseWork
    /\ stage[c] # None
    /\ <<stage[c], to>> \in Gated
    /\ PendingOn(c) = {}
    /\ Read(s, [op |-> "ask", contract |-> c, actor |-> u,
                from |-> stage[c], to |-> to])
    /\ UNCHANGED <<stage, approval, leads, decisions, notified, joined>>

\* The INSERT, its notifications and the commit.
InsertApproval(s, a) ==
    LET r == session[s] IN
    /\ r.op = "ask"
    /\ ~Existing(a)
    /\ IndexAdmits(r.contract)
    /\ approval' = [approval EXCEPT ![a] =
          [contract |-> r.contract, from |-> r.from, to |-> r.to,
           status |-> "pending", requested_by |-> r.actor,
           decided_by |-> None]]
    /\ notified' = notified \cup
          ({"asked"} \X {a} \X EligibleApprovers(r.contract, r.actor))
    /\ Finish(s)
    /\ UNCHANGED <<stage, leads, decisions, joined>>

\* The INSERT refused by that index: IntegrityError, the session rolls back.
InsertApprovalConflict(s) ==
    /\ session[s].op = "ask"
    /\ ~IndexAdmits(session[s].contract)
    /\ Finish(s)
    /\ UNCHANGED <<stage, approval, leads, decisions, notified, joined>>

\* decide_approval up to its permission check. It is about to set the stage
\* to to_status; the ORM drops that from the UPDATE if the row it read has it.
ReadForDecision(s, u, a, verdict) ==
    /\ Pending(a)
    /\ CanDecide(u, approval[a].contract)
    /\ Read(s, [op |-> "decide", contract |-> approval[a].contract,
                actor |-> u, approval |-> a, verdict |-> verdict,
                moves |-> /\ verdict = "approved"
                          /\ stage[approval[a].contract] # approval[a].to])
    /\ UNCHANGED <<stage, approval, leads, decisions, notified, joined>>

\* The decision is written over the row whatever it holds by now, and the
\* contract follows without another look at from_status or at its stage. The
\* requester's notice has the verdict in its title and body.
WriteDecision(s) ==
    LET r == session[s]
        a == r.approval
        row == approval[a]
    IN
    /\ r.op = "decide"
    /\ approval' = [approval EXCEPT ![a].status = r.verdict,
                                    ![a].decided_by = r.actor]
    /\ stage' = IF r.moves THEN [stage EXCEPT ![r.contract] = row.to]
                           ELSE stage
    /\ decisions' = decisions \cup
          {[approval |-> a, contract |-> r.contract, by |-> r.actor,
            to |-> row.to, verdict |-> r.verdict]}
    /\ notified' = IF row.requested_by = r.actor THEN notified
                   ELSE notified \cup {<<r.verdict, a, row.requested_by>>}
    /\ Finish(s)
    /\ UNCHANGED <<leads, joined>>

\* assign_staff for the lead_lawyer role; the assignee's own role is not
\* looked at. One step: two requests that both miss each other's row insert
\* it twice, and a second row changes nothing that is read here.
AssignLead(u, c, assignee) ==
    /\ Role[u] \in CaseWork
    /\ stage[c] # None
    /\ assignee \notin leads[c]
    /\ leads' = [leads EXCEPT ![c] = @ \cup {assignee}]
    /\ notified' = IF assignee = u THEN notified
                   ELSE notified \cup {<<"assigned", c, assignee>>}
    /\ joined' = joined \cup
          ({a \in Approvals : Existing(a) /\ approval[a].contract = c}
             \X {assignee})
    /\ UNCHANGED <<stage, approval, decisions, session>>

\* The process dies, the connection drops or the flush fails: what a request
\* has not committed is gone, and nothing of it shows.
Abort(s) ==
    /\ session[s] # Idle
    /\ Finish(s)
    /\ UNCHANGED <<stage, approval, leads, decisions, notified, joined>>

Next ==
    \/ \E c \in Contracts : CreateContract(c)
    \/ \E u \in Users, c \in Contracts, assignee \in Candidates :
         AssignLead(u, c, assignee)
    \/ \E s \in Sessions :
         \/ \E u \in Users, c \in Contracts, to \in Stages :
              ReadForStatus(s, u, c, to) \/ ReadForApproval(s, u, c, to)
         \/ \E u \in Users, a \in Approvals, v \in {"approved", "rejected"} :
              ReadForDecision(s, u, a, v)
         \/ WriteStatus(s)
         \/ \E a \in Approvals : InsertApproval(s, a)
         \/ InsertApprovalConflict(s)
         \/ WriteDecision(s)
         \/ Abort(s)

Spec == Init /\ [][Next]_vars

-----------------------------------------------------------------------------
\* However many requests raced to ask, a contract has at most one pending
\* approval (the check in request_status_approval and the unique index).
OnePendingApproval ==
    \A a, b \in Approvals :
        Pending(a) /\ Pending(b) /\ approval[a].contract = approval[b].contract
            => a = b

Granted(c) == {d.to : d \in {e \in decisions :
                              e.contract = c /\ e.verdict = "approved"}}

\* No contract is signed or closed unless the audit log holds the approval
\* that allowed it, and a closed one was approved for signature too; every
\* entry was made by somebody the gate lets decide (update_status never
\* slips past GATED_TRANSITIONS, whatever stale stage it read).
GateHeld ==
    /\ \A c \in Contracts :
         /\ stage[c] \in {"signed", "closed"} => stage[c] \in Granted(c)
         /\ "closed" \in Granted(c) => "signed" \in Granted(c)
    /\ \A d \in decisions : CanDecide(d.by, d.contract)

\* Asked: told of an approval are exactly the administrators and those who led
\* the contract when the row was made, the requester excepted; somebody made
\* lead later may decide without having been told. Decided: the requester has
\* one notice per verdict that somebody else wrote, both of them if two
\* deciders overlapped, and no other (request_status_approval and
\* decide_approval notify in their transaction).
ApproversInformed ==
    \A a \in Approvals : Existing(a) =>
        LET row == approval[a]
            told == {u \in Users : <<"asked", a, u>> \in notified}
            asked == {u \in leads[row.contract] : <<a, u>> \notin joined}
            others == {d \in decisions :
                         d.approval = a /\ d.by # row.requested_by}
        IN
        /\ told = (Admins \cup asked) \ {row.requested_by}
        /\ \A v \in {"approved", "rejected"}, u \in Users :
             <<v, a, u>> \in notified
               <=> u = row.requested_by /\ \E d \in others : d.verdict = v

\* Drained: a terminal contract without pending approval on which no request
\* that could still change its stage is in flight.
Drained(c) ==
    /\ stage[c] \in {"closed", "declined"}
    /\ PendingOn(c) = {}
    /\ \A s \in Sessions : session[s].op \in {"status", "ask", "decide"}
                              => session[s].contract # c

\* CLOSED and DECLINED are final once the contract is drained: only an
\* approval or a request that was under way when it got there can move it.
DrainedIsFinal ==
    [][\A c \in Contracts :
          Drained(c) => stage'[c] = stage[c] /\ Drained(c)']_vars

\* CLOSED and DECLINED are terminal, as the comment above
\* CONTRACT_STATUS_TRANSITIONS has it.
TerminalStagesStay ==
    [][\A c \in Contracts :
          stage[c] \in {"closed", "declined"} => stage'[c] = stage[c]]_vars

\* What SignOff sees of the tables.
OpenQuestions == {c \in Contracts : PendingOn(c) # {}}

GrantedStages == [c \in Contracts |-> Granted(c)]

Standing == [c \in Contracts |->
               IF stage[c] \in {"signed", "closed"} THEN stage[c] ELSE "working"]

Gate == INSTANCE SignOff WITH
    open <- OpenQuestions, granted <- GrantedStages, standing <- Standing

\* Request handlers, rows and races together keep the promise of SignOff: one
\* open question per contract, and no signed or closed contract without the
\* grants that lead there.
ImplementsSignOff == Gate!Spec
=============================================================================
