---------------------- MODULE ContractLifecycle_proofs ----------------------
(***************************************************************************)
(* Proofs about ContractLifecycle, for any sets of contracts, approvals,   *)
(* users and sessions.                                                     *)
(***************************************************************************)
EXTENDS ContractLifecycle, TLAPS

\* What a row of contract_approvals can be trusted for.
RowsSound ==
    \A a \in Approvals : Existing(a) =>
        LET row == approval[a] IN
        /\ stage[row.contract] # None
        /\ <<row.from, row.to>> \in Gated
        /\ row.from = "signed" => "signed" \in Granted(row.contract)

\* What a request in flight can be trusted for, however long ago it read.
SessionsSound ==
    \A s \in Sessions :
        LET r == session[s] IN
        /\ r.op # "idle" => stage[r.contract] # None
        /\ r.op = "status" => r.to \notin {"signed", "closed"}
        /\ r.op = "ask" =>
             /\ <<r.from, r.to>> \in Gated
             /\ r.from = "signed" => "signed" \in Granted(r.contract)
        /\ r.op = "decide" =>
             /\ Existing(r.approval)
             /\ approval[r.approval].contract = r.contract
             /\ CanDecide(r.actor, r.contract)
             /\ r.moves => r.verdict = "approved"

\* Notices, audit entries and the history are about rows that exist.
NoticesSound ==
    /\ \A a \in Approvals, u \in Users :
         /\ <<a, u>> \in joined => Existing(a)
         /\ \A kind \in {"asked", "approved", "rejected"} :
              <<kind, a, u>> \in notified => Existing(a)
    /\ \A d \in decisions : Existing(d.approval)

IInv ==
    /\ TypeOK
    /\ OnePendingApproval
    /\ GateHeld
    /\ ApproversInformed
    /\ RowsSound
    /\ SessionsSound
    /\ NoticesSound

-----------------------------------------------------------------------------
\* The two gated moves: signing, and closing what was signed.
LEMMA GatedMoves ==
    ASSUME NEW x, NEW y, <<x, y>> \in Gated
    PROVE  /\ x \in Stages /\ y \in {"signed", "closed"}
           /\ x \notin {"closed", "declined"}
           /\ y = "closed" => x = "signed"
  BY DEF Gated, Stages

\* A move of the graph that is not gated never enters a gated stage, and a
\* terminal stage has none.
LEMMA DirectMoves ==
    ASSUME NEW x \in Stages, NEW y \in Transitions[x], <<x, y>> \notin Gated
    PROVE  /\ y \in Stages \ {"signed", "closed"}
           /\ x \notin {"signed", "closed", "declined"}
  BY DEF Transitions, Gated, Stages

\* The fields a request in flight has, by its kind.
LEMMA SessionFields ==
    ASSUME NEW r \in SessionState
    PROVE  /\ r.op \in {"idle", "status", "ask", "decide"}
           /\ r.op = "idle" <=> r = Idle
           /\ r.op # "idle" => r.contract \in Contracts
           /\ r.op = "status" => r.to \in Stages
           /\ r.op = "ask" => r.actor \in Users /\ r.from \in Stages
                              /\ r.to \in Stages
           /\ r.op = "decide" => /\ r.actor \in Users
                                 /\ r.approval \in Approvals
                                 /\ r.verdict \in {"approved", "rejected"}
                                 /\ r.moves \in BOOLEAN
  BY DEF SessionState, Idle

\* Audit entries and assignments are only ever added, so what was granted
\* stays granted and who could decide still can.
LEMMA GrantsStay ==
    ASSUME decisions \subseteq decisions', NEW c
    PROVE  Granted(c) \subseteq Granted(c)'
  BY DEF Granted

LEMMA DecidersStay ==
    ASSUME NEW c \in Contracts, NEW u \in Users, CanDecide(u, c),
           leads[c] \subseteq leads'[c]
    PROVE  CanDecide(u, c)'
  BY DEF CanDecide

THEOREM InitHolds == Init => IInv
  <1> SUFFICES ASSUME Init PROVE IInv
    OBVIOUS
  <1> USE DEF Init, Existing, Pending
  <1>1. TypeOK
    BY DEF TypeOK, SessionState
  <1>2. GateHeld
    BY NoneAssumption DEF GateHeld, Granted, Stages
  <1>3. OnePendingApproval /\ ApproversInformed
    BY DEF OnePendingApproval, ApproversInformed
  <1>4. RowsSound /\ SessionsSound /\ NoticesSound
    BY DEF RowsSound, SessionsSound, NoticesSound, Idle
  <1>5. QED
    BY <1>1, <1>2, <1>3, <1>4 DEF IInv

-----------------------------------------------------------------------------
\* A step that changes no table: a request reads, or ends without effect.
\* Only what is known of that request is in question.
LEMMA RequestStep ==
    ASSUME IInv, NEW s \in Sessions, NEW r \in SessionState,
           session' = [session EXCEPT ![s] = r],
           UNCHANGED <<stage, approval, leads, decisions, notified, joined>>,
           r.op # "idle" => stage[r.contract] # None,
           r.op = "status" => r.to \notin {"signed", "closed"},
           r.op = "ask" =>
             /\ <<r.from, r.to>> \in Gated
             /\ r.from = "signed" => "signed" \in Granted(r.contract),
           r.op = "decide" =>
             /\ Existing(r.approval)
             /\ approval[r.approval].contract = r.contract
             /\ CanDecide(r.actor, r.contract)
             /\ r.moves => r.verdict = "approved"
    PROVE  IInv'
  <1>1. TypeOK'
    BY DEF IInv, TypeOK
  <1>2. SessionsSound'
    <2> SUFFICES ASSUME NEW t \in Sessions
                 PROVE  SessionsSound!(t)'
      BY DEF SessionsSound
    <2>1. CASE t = s
      BY <2>1 DEF IInv, TypeOK, Granted, CanDecide, Existing
    <2>2. CASE t # s
      BY <2>2 DEF IInv, TypeOK, SessionsSound, Granted, CanDecide, Existing
    <2>3. QED
      BY <2>1, <2>2
  <1>3. OnePendingApproval' /\ GateHeld' /\ ApproversInformed'
    BY DEF IInv, OnePendingApproval, GateHeld, ApproversInformed, Granted,
           CanDecide, Existing, Pending, EligibleApprovers
  <1>4. RowsSound' /\ NoticesSound'
    BY DEF IInv, RowsSound, NoticesSound, Granted, Existing
  <1>5. QED
    BY <1>1, <1>2, <1>3, <1>4 DEF IInv

LEMMA ReadForStatusStep ==
    ASSUME IInv, NEW s \in Sessions, NEW u \in Users, NEW c \in Contracts,
           NEW to \in Stages, ReadForStatus(s, u, c, to)
    PROVE  IInv'
  <1> DEFINE r == [op |-> "status", contract |-> c, to |-> to]
  <1>1. stage[c] \in Stages
    BY DEF ReadForStatus, IInv, TypeOK
  <1>2. to \notin {"signed", "closed"}
    BY <1>1, DirectMoves DEF ReadForStatus
  <1>3. r \in SessionState
    BY DEF SessionState
  <1>4. QED
    BY <1>2, <1>3, RequestStep DEF ReadForStatus, Read

LEMMA ReadForApprovalStep ==
    ASSUME IInv, NEW s \in Sessions, NEW u \in Users, NEW c \in Contracts,
           NEW to \in Stages, ReadForApproval(s, u, c, to)
    PROVE  IInv'
  <1> DEFINE r == [op |-> "ask", contract |-> c, actor |-> u,
                   from |-> stage[c], to |-> to]
  <1>1. r \in SessionState
    BY DEF SessionState, ReadForApproval, IInv, TypeOK
  <1>2. stage[c] = "signed" => "signed" \in Granted(c)
    BY DEF IInv, GateHeld
  <1>3. QED
    BY <1>1, <1>2, RequestStep DEF ReadForApproval, Read

LEMMA ReadForDecisionStep ==
    ASSUME IInv, NEW s \in Sessions, NEW u \in Users, NEW a \in Approvals,
           NEW v \in {"approved", "rejected"}, ReadForDecision(s, u, a, v)
    PROVE  IInv'
  <1> DEFINE c == approval[a].contract
             r == [op |-> "decide", contract |-> c, actor |-> u,
                   approval |-> a, verdict |-> v,
                   moves |-> v = "approved" /\ stage[c] # approval[a].to]
  <1>1. Existing(a) /\ c \in Contracts /\ stage[c] # None
    BY DEF ReadForDecision, Pending, Existing, IInv, TypeOK, ApprovalRow,
           RowsSound
  <1>2. r \in SessionState
    BY <1>1 DEF SessionState
  <1>3. QED
    BY <1>1, <1>2, RequestStep DEF ReadForDecision, Read

\* A request that ends without writing.
LEMMA EndWithoutWriteStep ==
    ASSUME IInv, NEW s \in Sessions, Abort(s) \/ InsertApprovalConflict(s)
    PROVE  IInv'
  <1>1. Idle \in SessionState /\ Idle.op = "idle"
    BY DEF SessionState, Idle
  <1>2. QED
    BY <1>1, RequestStep DEF Abort, InsertApprovalConflict, Finish

LEMMA CreateContractStep ==
    ASSUME IInv, NEW c \in Contracts, CreateContract(c)
    PROVE  IInv'
  <1> USE DEF CreateContract
  <1>1. TypeOK'
    BY DEF IInv, TypeOK, Stages
  <1>2. "intake" # None
    BY NoneAssumption DEF Stages
  <1>3. OnePendingApproval' /\ GateHeld' /\ ApproversInformed' /\ NoticesSound'
    BY DEF IInv, TypeOK, OnePendingApproval, GateHeld, ApproversInformed,
           NoticesSound, Granted, CanDecide, Existing, Pending,
           EligibleApprovers
  <1>4. RowsSound'
    <2> SUFFICES ASSUME NEW a \in Approvals, Existing(a)'
                 PROVE  RowsSound!(a)'
      BY DEF RowsSound
    <2>1. approval[a].contract \in Contracts
      BY DEF IInv, TypeOK, Existing, ApprovalRow
    <2>2. QED
      BY <2>1, <1>2 DEF IInv, TypeOK, RowsSound, Existing, Granted
  <1>5. SessionsSound'
    <2> SUFFICES ASSUME NEW t \in Sessions
                 PROVE  SessionsSound!(t)'
      BY DEF SessionsSound
    <2>1. session[t].op # "idle" => session[t].contract \in Contracts
      BY SessionFields DEF IInv, TypeOK
    <2>2. QED
      BY <2>1, <1>2 DEF IInv, TypeOK, SessionsSound, Granted, CanDecide,
                        Existing
  <1>6. QED
    BY <1>1, <1>3, <1>4, <1>5 DEF IInv

\* More lead lawyers: nobody loses a right, and whoever was told of an
\* approval is still among those it concerns.
LEMMA AssignLeadStep ==
    ASSUME IInv, NEW u \in Users, NEW c \in Contracts, NEW w \in Users,
           AssignLead(u, c, w)
    PROVE  IInv'
  <1> USE DEF AssignLead
  <1>1. TypeOK'
    BY DEF IInv, TypeOK
  <1>2. \A d \in Contracts : leads[d] \subseteq leads'[d]
    BY DEF IInv, TypeOK
  <1>3. \A a \in Approvals, x \in Users :
          \A kind \in {"asked", "approved", "rejected"} :
            <<kind, a, x>> \in notified' <=> <<kind, a, x>> \in notified
    OBVIOUS
  <1>4. \A d : Granted(d)' = Granted(d)
    BY DEF Granted
  <1>5. GateHeld'
    <2>1. \A d \in decisions : d.by \in Users /\ d.contract \in Contracts
      BY DEF IInv, TypeOK
    <2>2. QED
      BY <1>2, <1>4, <2>1, DecidersStay DEF IInv, GateHeld
  <1>6. ApproversInformed'
    <2> SUFFICES ASSUME NEW a \in Approvals, Existing(a)'
                 PROVE  ApproversInformed!(a)'
      BY DEF ApproversInformed
    <2>1. approval[a].contract \in Contracts
      BY DEF IInv, TypeOK, Existing, ApprovalRow
    <2>2. ApproversInformed!(a)
      BY DEF IInv, ApproversInformed, Existing
    <2>3. \A x \in Users :
            x \in leads'[approval[a].contract] /\ <<a, x>> \notin joined'
              <=> x \in leads[approval[a].contract] /\ <<a, x>> \notin joined
      BY <2>1 DEF Existing, IInv, TypeOK
    <2>4. QED
      BY <1>2, <1>3, <2>1, <2>2, <2>3 DEF Existing, Admins, IInv, TypeOK
  <1>7. SessionsSound'
    <2> SUFFICES ASSUME NEW t \in Sessions
                 PROVE  SessionsSound!(t)'
      BY DEF SessionsSound
    <2>1. session[t] \in SessionState /\ SessionsSound!(t)
      BY DEF IInv, TypeOK, SessionsSound
    <2>2. session[t].op = "decide" =>
             CanDecide(session[t].actor, session[t].contract)'
      BY <1>2, <2>1, SessionFields, DecidersStay
    <2>3. QED
      BY <1>4, <2>1, <2>2 DEF Existing
  <1>8. OnePendingApproval' /\ RowsSound' /\ NoticesSound'
    BY <1>3, <1>4 DEF IInv, OnePendingApproval, RowsSound, NoticesSound,
                      Existing, Pending
  <1>9. QED
    BY <1>1, <1>5, <1>6, <1>7, <1>8 DEF IInv

\* A direct move never writes a gated stage, whatever it overwrites.
LEMMA WriteStatusStep ==
    ASSUME IInv, NEW s \in Sessions, WriteStatus(s)
    PROVE  IInv'
  <1> DEFINE r == session[s]
  <1> USE DEF WriteStatus, Finish
  <1>1. /\ r.contract \in Contracts
        /\ r.to \in Stages
        /\ r.to \notin {"signed", "closed"}
        /\ r.to # None
    BY SessionFields, NoneAssumption DEF IInv, TypeOK, SessionsSound
  <1>2. TypeOK'
    BY <1>1 DEF IInv, TypeOK, SessionState
  <1>3. \A c \in Contracts : stage[c] # None => stage'[c] # None
    BY <1>1 DEF IInv, TypeOK
  <1>4. GateHeld'
    BY <1>1 DEF IInv, TypeOK, GateHeld, Granted, CanDecide
  <1>5. OnePendingApproval' /\ ApproversInformed' /\ NoticesSound'
    BY DEF IInv, OnePendingApproval, ApproversInformed, NoticesSound,
           Existing, Pending, EligibleApprovers
  <1>6. RowsSound'
    <2> SUFFICES ASSUME NEW a \in Approvals, Existing(a)'
                 PROVE  RowsSound!(a)'
      BY DEF RowsSound
    <2>1. approval[a].contract \in Contracts
      BY DEF IInv, TypeOK, Existing, ApprovalRow
    <2>2. QED
      BY <1>3, <2>1 DEF IInv, RowsSound, Existing, Granted
  <1>7. SessionsSound'
    <2> SUFFICES ASSUME NEW t \in Sessions
                 PROVE  SessionsSound!(t)'
      BY DEF SessionsSound
    <2>1. CASE t = s
      BY <2>1 DEF IInv, TypeOK, Idle
    <2>2. CASE t # s
      <3>1. session'[t] = session[t] /\ session[t] \in SessionState
        BY <2>2 DEF IInv, TypeOK
      <3>2. QED
        BY <1>3, <3>1, SessionFields
           DEF IInv, SessionsSound, Granted, CanDecide, Existing
    <2>3. QED
      BY <2>1, <2>2
  <1>8. QED
    BY <1>2, <1>4, <1>5, <1>6, <1>7 DEF IInv

\* The unique index lets the row in only if it is the one pending row.
LEMMA InsertApprovalStep ==
    ASSUME IInv, NEW s \in Sessions, NEW a \in Approvals,
           InsertApproval(s, a)
    PROVE  IInv'
  <1> DEFINE r == session[s]
             row == [contract |-> r.contract, from |-> r.from, to |-> r.to,
                     status |-> "pending", requested_by |-> r.actor,
                     decided_by |-> None]
  <1> USE DEF InsertApproval, IndexAdmits, Finish
  <1>1. /\ r.contract \in Contracts /\ r.actor \in Users
        /\ r.from \in Stages /\ r.to \in Stages
        /\ stage[r.contract] # None
        /\ <<r.from, r.to>> \in Gated
        /\ r.from = "signed" => "signed" \in Granted(r.contract)
    BY SessionFields DEF IInv, TypeOK, SessionsSound
  <1>2. row \in ApprovalRow /\ row # None
    BY <1>1, NoneAssumption DEF ApprovalRow
  <1>3. /\ approval'[a] = row
        /\ \A b \in Approvals : b # a => approval'[b] = approval[b]
    BY <1>2 DEF IInv, TypeOK
  <1>4. \A b \in Approvals, u \in Users :
          <<"asked", b, u>> \in notified' <=>
            \/ <<"asked", b, u>> \in notified
            \/ b = a /\ u \in EligibleApprovers(r.contract, r.actor)
    OBVIOUS
  <1>5. TypeOK'
    <2>1. EligibleApprovers(r.contract, r.actor) \subseteq Users
      BY <1>1 DEF IInv, TypeOK, EligibleApprovers, Admins
    <2>2. approval' \in [Approvals -> ApprovalRow \cup {None}]
      BY <1>2 DEF IInv, TypeOK
    <2>3. notified' \subseteq
            {"asked", "approved", "rejected", "assigned"}
              \X (Approvals \cup Contracts) \X Users
      BY <2>1 DEF IInv, TypeOK
    <2>4. QED
      BY <2>2, <2>3 DEF IInv, TypeOK, SessionState
  <1>6. OnePendingApproval'
    BY <1>3 DEF IInv, OnePendingApproval, PendingOn, Pending, Existing
  <1>7. GateHeld'
    BY DEF IInv, GateHeld, Granted, CanDecide
  <1>8. ApproversInformed'
    <2> SUFFICES ASSUME NEW b \in Approvals, Existing(b)'
                 PROVE  ApproversInformed!(b)'
      BY DEF ApproversInformed
    <2>1. CASE b = a
      <3>1. /\ \A u \in Users :
                 /\ <<"asked", a, u>> \notin notified
                 /\ <<"approved", a, u>> \notin notified
                 /\ <<"rejected", a, u>> \notin notified
                 /\ <<a, u>> \notin joined
            /\ \A d \in decisions : d.approval # a
        BY DEF IInv, NoticesSound
      <3>2. Admins \subseteq Users /\ leads[r.contract] \subseteq Users
        BY <1>1 DEF Admins, IInv, TypeOK
      <3>3. /\ approval'[a].contract = r.contract
            /\ approval'[a].requested_by = r.actor
        BY <1>3
      <3>4. {u \in Users : <<"asked", a, u>> \in notified'}
              = (Admins \cup leads[r.contract]) \ {r.actor}
        BY <1>1, <1>4, <3>1, <3>2 DEF EligibleApprovers
      <3>5. {u \in leads[r.contract] : <<a, u>> \notin joined'}
              = leads[r.contract]
        BY <3>1, <3>2
      <3>6. \A v \in {"approved", "rejected"}, u \in Users :
              <<v, a, u>> \notin notified'
        BY <3>1
      <3>7. QED
        BY <2>1, <3>1, <3>3, <3>4, <3>5, <3>6 DEF Admins
    <2>2. CASE b # a
      <3>1. Existing(b) /\ ApproversInformed!(b)
        BY <1>3, <2>2 DEF IInv, ApproversInformed, Existing
      <3>2. QED
        BY <1>3, <1>4, <2>2, <3>1 DEF Admins
    <2>3. QED
      BY <2>1, <2>2
  <1>9. RowsSound' /\ NoticesSound'
    BY <1>1, <1>2, <1>3, <1>4
       DEF IInv, RowsSound, NoticesSound, Existing, Granted
  <1>10. SessionsSound'
    <2> SUFFICES ASSUME NEW t \in Sessions
                 PROVE  SessionsSound!(t)'
      BY DEF SessionsSound
    <2>1. CASE t = s
      BY <2>1 DEF IInv, TypeOK, Idle
    <2>2. CASE t # s
      <3>1. /\ session'[t] = session[t] /\ session[t] \in SessionState
            /\ SessionsSound!(t)
        BY <2>2 DEF IInv, TypeOK, SessionsSound
      <3>2. session[t].op = "decide" => session[t].approval # a
        BY <3>1
      <3>3. QED
        BY <1>3, <3>1, <3>2, SessionFields DEF Granted, CanDecide, Existing
    <2>3. QED
      BY <2>1, <2>2
  <1>11. QED
    BY <1>5, <1>6, <1>7, <1>8, <1>9, <1>10 DEF IInv

\* However late a decision is written, the approval it decides was asked for
\* a gated move, and a move to "closed" was asked for a signed contract.
LEMMA WriteDecisionStep ==
    ASSUME IInv, NEW s \in Sessions, WriteDecision(s)
    PROVE  IInv'
  <1> DEFINE r == session[s]
             a == r.approval
             row == approval[a]
             entry == [approval |-> a, contract |-> r.contract,
                       by |-> r.actor, to |-> row.to, verdict |-> r.verdict]
  <1>0. /\ r.op = "decide"
        /\ approval' = [approval EXCEPT ![a].status = r.verdict,
                                        ![a].decided_by = r.actor]
        /\ stage' = IF r.moves THEN [stage EXCEPT ![r.contract] = row.to]
                               ELSE stage
        /\ decisions' = decisions \cup {entry}
        /\ notified' = IF row.requested_by = r.actor THEN notified
                       ELSE notified \cup {<<r.verdict, a, row.requested_by>>}
        /\ session' = [session EXCEPT ![s] = Idle]
        /\ leads' = leads /\ joined' = joined
    BY DEF WriteDecision, Finish
  <1>1. /\ r.contract \in Contracts /\ r.actor \in Users
        /\ a \in Approvals /\ r.verdict \in {"approved", "rejected"}
        /\ r.moves => r.verdict = "approved"
        /\ Existing(a) /\ row.contract = r.contract
        /\ CanDecide(r.actor, r.contract)
    BY <1>0, SessionFields DEF IInv, TypeOK, SessionsSound
  <1>2. /\ row \in ApprovalRow
        /\ stage[r.contract] # None
        /\ row.to \in {"signed", "closed"}
        /\ row.to = "closed" => "signed" \in Granted(r.contract)
    <2>1. row \in ApprovalRow
      BY <1>1 DEF IInv, TypeOK, Existing
    <2>2. RowsSound!(a)
      BY <1>1 DEF IInv, RowsSound
    <2>3. QED
      BY <1>1, <2>1, <2>2, GatedMoves
  <1>3. /\ approval'[a] = [row EXCEPT !.status = r.verdict,
                                      !.decided_by = r.actor]
        /\ approval'[a] \in ApprovalRow
        /\ \A b \in Approvals : b # a => approval'[b] = approval[b]
    BY <1>0, <1>1, <1>2 DEF IInv, TypeOK, ApprovalRow
  <1>4. \A b \in Approvals :
          /\ Existing(b)' <=> Existing(b)
          /\ Existing(b) =>
               /\ approval'[b].contract = approval[b].contract
               /\ approval'[b].from = approval[b].from
               /\ approval'[b].to = approval[b].to
               /\ approval'[b].requested_by = approval[b].requested_by
          /\ Pending(b)' => Pending(b)
    <2> SUFFICES ASSUME NEW b \in Approvals
                 PROVE  <1>4!(b)
      OBVIOUS
    <2>1. CASE b # a
      BY <1>3, <2>1 DEF Existing, Pending
    <2>2. CASE b = a
      <3>1. approval'[a] # None
        BY <1>3, NoneAssumption
      <3>2. /\ approval'[a].status = r.verdict
            /\ approval'[a].contract = row.contract
            /\ approval'[a].from = row.from
            /\ approval'[a].to = row.to
            /\ approval'[a].requested_by = row.requested_by
        BY <1>2, <1>3 DEF ApprovalRow
      <3>3. QED
        BY <1>1, <2>2, <3>1, <3>2 DEF Existing, Pending
    <2>3. QED
      BY <2>1, <2>2
  <1>5. TypeOK'
    <2>1. entry \in [approval : Approvals, contract : Contracts, by : Users,
                     to : Stages, verdict : {"approved", "rejected"}]
      BY <1>1, <1>2 DEF ApprovalRow
    <2>2. stage' \in [Contracts -> Stages \cup {None}]
      BY <1>0, <1>2 DEF IInv, TypeOK, Stages
    <2>3. approval' \in [Approvals -> ApprovalRow \cup {None}]
      BY <1>0, <1>3 DEF IInv, TypeOK
    <2>4. notified' \subseteq
            {"asked", "approved", "rejected", "assigned"}
              \X (Approvals \cup Contracts) \X Users
      BY <1>0, <1>1, <1>2 DEF IInv, TypeOK, ApprovalRow
    <2>5. QED
      BY <1>0, <2>1, <2>2, <2>3, <2>4 DEF IInv, TypeOK, SessionState
  <1>6. OnePendingApproval'
    BY <1>4 DEF IInv, OnePendingApproval, Pending
  <1>7. GateHeld'
    <2>1. \A c : Granted(c) \subseteq Granted(c)'
      BY <1>0, GrantsStay
    <2>2. \A c : Granted(c)' \subseteq Granted(c) \cup
             (IF c = r.contract /\ r.verdict = "approved" THEN {row.to} ELSE {})
      BY <1>0 DEF Granted
    <2>3. ASSUME NEW c, c = r.contract, r.verdict = "approved"
          PROVE  row.to \in Granted(c)'
      <3>1. entry \in {e \in decisions' : e.contract = c
                                          /\ e.verdict = "approved"}
        BY <1>0, <2>3
      <3>2. entry.to = row.to
        OBVIOUS
      <3>3. QED
        BY <3>1, <3>2 DEF Granted
    <2>4. \A c \in Contracts : "closed" \in Granted(c)' => "signed" \in Granted(c)'
      BY <1>2, <2>1, <2>2 DEF IInv, GateHeld
    <2>5. ASSUME NEW c \in Contracts, stage'[c] \in {"signed", "closed"}
          PROVE  stage'[c] \in Granted(c)'
      <3>1. CASE r.moves /\ c = r.contract
        <4>1. stage'[c] = row.to
          BY <1>0, <1>1, <3>1 DEF IInv, TypeOK
        <4>2. QED
          BY <1>1, <2>3, <3>1, <4>1
      <3>2. CASE ~(r.moves /\ c = r.contract)
        <4>1. stage'[c] = stage[c]
          BY <1>0, <3>2 DEF IInv, TypeOK
        <4>2. QED
          BY <2>1, <2>5, <4>1 DEF IInv, GateHeld
      <3>3. QED
        BY <3>1, <3>2
    <2>6. \A d \in decisions' : CanDecide(d.by, d.contract)'
      BY <1>0, <1>1 DEF IInv, GateHeld, CanDecide
    <2>7. QED
      BY <2>4, <2>5, <2>6 DEF GateHeld
  <1>8. ApproversInformed'
    <2> SUFFICES ASSUME NEW b \in Approvals, Existing(b)'
                 PROVE  ApproversInformed!(b)'
      BY DEF ApproversInformed
    <2>1. Existing(b) /\ ApproversInformed!(b)
      BY <1>4 DEF IInv, ApproversInformed
    <2>2. /\ approval'[b].contract = approval[b].contract
          /\ approval'[b].requested_by = approval[b].requested_by
      BY <1>4, <2>1
    <2>3. {u \in Users : <<"asked", b, u>> \in notified'}
            = {u \in Users : <<"asked", b, u>> \in notified}
      BY <1>0, <1>1
    <2>4. PICK k \in Users : k = approval[b].requested_by
      BY <2>1 DEF IInv, TypeOK, Existing, ApprovalRow
    <2>5. ASSUME NEW v \in {"approved", "rejected"}, NEW u \in Users
          PROVE  (<<v, b, u>> \in notified')
                   <=> u = k /\ \E d \in {e \in decisions' :
                                           e.approval = b /\ e.by # k} :
                                   d.verdict = v
      <3>1. (<<v, b, u>> \in notified)
              <=> u = k /\ \E d \in {e \in decisions :
                                      e.approval = b /\ e.by # k} :
                              d.verdict = v
        BY <2>1, <2>4
      <3>2. <<v, b, u>> \in notified'
              <=> \/ <<v, b, u>> \in notified
                  \/ /\ b = a /\ k # r.actor
                     /\ v = r.verdict /\ u = k
        BY <1>0, <2>4
      <3>3. /\ entry.approval = a /\ entry.by = r.actor
            /\ entry.verdict = r.verdict
        OBVIOUS
      <3>4. PICK e : e = entry
        OBVIOUS
      <3>5. decisions' = decisions \cup {e}
        BY <1>0, <3>4
      <3>6. /\ e.approval = a /\ e.by = r.actor
            /\ e.verdict = r.verdict
        BY <3>3, <3>4
      <3>7. (\E d \in {x \in decisions' : x.approval = b /\ x.by # k} :
               d.verdict = v)
              <=> \/ \E d \in {x \in decisions :
                                 x.approval = b /\ x.by # k} : d.verdict = v
                  \/ b = a /\ r.actor # k /\ r.verdict = v
        BY <3>5, <3>6
      <3>8. QED
        BY <3>1, <3>2, <3>7
    <2>6. leads' = leads /\ joined' = joined /\ Admins' = Admins
      BY <1>0 DEF Admins
    <2>7. approval'[b].requested_by = k
      BY <2>2, <2>4
    <2>8. {u \in Users : <<"asked", b, u>> \in notified'}
            = (Admins \cup {u \in leads[approval[b].contract] :
                              <<b, u>> \notin joined}) \ {k}
      BY <2>1, <2>3, <2>4
    <2>9. QED
      BY <2>2, <2>5, <2>6, <2>7, <2>8
  <1>9. \A c \in Contracts : stage[c] # None => stage'[c] # None
    BY <1>0, <1>2, NoneAssumption DEF IInv, TypeOK, Stages
  <1>10. \A c : Granted(c) \subseteq Granted(c)'
    BY <1>0, GrantsStay
  <1>11. RowsSound'
    <2> SUFFICES ASSUME NEW b \in Approvals, Existing(b)'
                 PROVE  RowsSound!(b)'
      BY DEF RowsSound
    <2>1. Existing(b) /\ RowsSound!(b) /\ approval[b].contract \in Contracts
      BY <1>4 DEF IInv, TypeOK, RowsSound, Existing, ApprovalRow
    <2>2. QED
      BY <1>4, <1>9, <1>10, <2>1
  <1>12. NoticesSound'
    <2>0. PICK k \in Approvals : k = a
      BY <1>1
    <2>1. \A d \in decisions' : d \in decisions \/ d.approval = k
      BY <1>0, <2>0
    <2>2. Existing(k)'
      BY <1>1, <1>4, <2>0
    <2>3. \A d \in decisions : d.approval \in Approvals /\ Existing(d.approval)
      BY DEF IInv, TypeOK, NoticesSound
    <2>4. ASSUME NEW d \in decisions' PROVE Existing(d.approval)'
      BY <1>4, <2>1, <2>2, <2>3, <2>4
    <2>5. \A b \in Approvals, u \in Users, kind \in {"asked", "approved", "rejected"} :
             <<kind, b, u>> \in notified' => <<kind, b, u>> \in notified \/ b = k
      BY <1>0, <2>0
    <2>6. \A b \in Approvals, u \in Users :
            /\ <<b, u>> \in joined' => Existing(b)'
            /\ \A kind \in {"asked", "approved", "rejected"} :
                 <<kind, b, u>> \in notified' => Existing(b)'
      BY <1>0, <1>4, <2>2, <2>5 DEF IInv, NoticesSound
    <2>7. QED
      BY <2>4, <2>6 DEF NoticesSound
  <1>13. SessionsSound'
    <2> SUFFICES ASSUME NEW t \in Sessions
                 PROVE  SessionsSound!(t)'
      BY DEF SessionsSound
    <2>1. CASE t = s
      BY <1>0, <2>1 DEF IInv, TypeOK, Idle
    <2>2. CASE t # s
      <3>1. /\ session'[t] = session[t] /\ session[t] \in SessionState
            /\ SessionsSound!(t)
        BY <1>0, <2>2 DEF IInv, TypeOK, SessionsSound
      <3>2. CanDecide(session[t].actor, session[t].contract)' <=>
              CanDecide(session[t].actor, session[t].contract)
        BY <1>0, <3>1 DEF CanDecide
      <3>3. QED
        BY <1>4, <1>9, <1>10, <3>1, <3>2, SessionFields
    <2>3. QED
      BY <2>1, <2>2
  <1>14. QED
    BY <1>5, <1>6, <1>7, <1>8, <1>11, <1>12, <1>13 DEF IInv

-----------------------------------------------------------------------------
THEOREM StepHolds == IInv /\ [Next]_vars => IInv'
  <1> SUFFICES ASSUME IInv, [Next]_vars PROVE IInv'
    OBVIOUS
  <1>1. ASSUME NEW c \in Contracts, CreateContract(c) PROVE IInv'
    BY <1>1, CreateContractStep
  <1>2. ASSUME NEW u \in Users, NEW w \in Users, NEW c \in Contracts,
               AssignLead(u, c, w)
        PROVE  IInv'
    BY <1>2, AssignLeadStep
  <1>3. ASSUME NEW s \in Sessions, NEW u \in Users, NEW c \in Contracts,
               NEW to \in Stages,
               ReadForStatus(s, u, c, to) \/ ReadForApproval(s, u, c, to)
        PROVE  IInv'
    BY <1>3, ReadForStatusStep, ReadForApprovalStep
  <1>4. ASSUME NEW s \in Sessions, NEW u \in Users, NEW a \in Approvals,
               NEW v \in {"approved", "rejected"}, ReadForDecision(s, u, a, v)
        PROVE  IInv'
    BY <1>4, ReadForDecisionStep
  <1>5. ASSUME NEW s \in Sessions, WriteStatus(s) PROVE IInv'
    BY <1>5, WriteStatusStep
  <1>6. ASSUME NEW s \in Sessions, NEW a \in Approvals, InsertApproval(s, a)
        PROVE  IInv'
    BY <1>6, InsertApprovalStep
  <1>7. ASSUME NEW s \in Sessions, WriteDecision(s) PROVE IInv'
    BY <1>7, WriteDecisionStep
  <1>8. ASSUME NEW s \in Sessions, Abort(s) \/ InsertApprovalConflict(s)
        PROVE  IInv'
    BY <1>8, EndWithoutWriteStep
  <1>9. CASE UNCHANGED vars
    BY <1>9 DEF vars, IInv, TypeOK, OnePendingApproval, GateHeld,
            ApproversInformed, RowsSound, SessionsSound, NoticesSound,
            Granted, Existing, Pending, CanDecide, EligibleApprovers
  <1>10. QED
    BY <1>1, <1>2, <1>3, <1>4, <1>5, <1>6, <1>7, <1>8, <1>9,
       CandidatesAssumption DEF Next

\* Every reachable state is sound in every part of the invariant.
THEOREM Invariance == Spec => []IInv
  BY InitHolds, StepHolds, PTL DEF Spec

\* The variables keep their types.
THEOREM TypeCorrect == Spec => []TypeOK
  <1>1. IInv => TypeOK
    BY DEF IInv
  <1>2. QED
    BY <1>1, Invariance, PTL

\* However many requests race, a contract has one pending approval at most.
THEOREM OnePendingApprovalHolds == Spec => []OnePendingApproval
  <1>1. IInv => OnePendingApproval
    BY DEF IInv
  <1>2. QED
    BY <1>1, Invariance, PTL

\* Nothing is signed or closed without its approvals, by people allowed to.
THEOREM GateHolds == Spec => []GateHeld
  <1>1. IInv => GateHeld
    BY DEF IInv
  <1>2. QED
    BY <1>1, Invariance, PTL

\* Told of an approval are exactly the administrators and the leads of the
\* time it was asked; its requester, of each verdict that somebody else wrote.
THEOREM ApproversInformedHolds == Spec => []ApproversInformed
  <1>1. IInv => ApproversInformed
    BY DEF IInv
  <1>2. QED
    BY <1>1, Invariance, PTL

-----------------------------------------------------------------------------
\* A step leaves a drained contract where it is, and drained.
LEMMA DrainedStep ==
    ASSUME IInv, [Next]_vars, NEW c \in Contracts, Drained(c)
    PROVE  stage'[c] = stage[c] /\ Drained(c)'
  <1>0. /\ stage[c] \in {"closed", "declined"}
        /\ stage[c] # None
        /\ \A a \in Approvals : Pending(a) => approval[a].contract # c
        /\ \A s \in Sessions : session[s].op \in {"status", "ask", "decide"}
                                 => session[s].contract # c
    BY NoneAssumption DEF Drained, PendingOn, Stages
  <1> DEFINE Kept == /\ stage'[c] = stage[c]
                     /\ \A a \in Approvals :
                          Pending(a)' => approval'[a].contract # c
                     /\ \A s \in Sessions :
                          session'[s].op \in {"status", "ask", "decide"}
                            => session'[s].contract # c
  <1>1. Kept => stage'[c] = stage[c] /\ Drained(c)'
    BY <1>0 DEF Drained, PendingOn
  <1>2. ASSUME NEW s \in Sessions, Finish(s)
        PROVE  \A t \in Sessions :
                 session'[t].op \in {"status", "ask", "decide"}
                   => session'[t].contract # c
    BY <1>0, <1>2 DEF Finish, Idle, IInv, TypeOK
  <1>3. ASSUME NEW d \in Contracts, CreateContract(d) PROVE Kept
    BY <1>0, <1>3 DEF CreateContract, IInv, TypeOK, Pending, Existing
  <1>4. ASSUME NEW u \in Users, NEW w \in Users, NEW d \in Contracts,
               AssignLead(u, d, w)
        PROVE  Kept
    BY <1>0, <1>4 DEF AssignLead, Pending, Existing
  <1>5. ASSUME NEW s \in Sessions, NEW u \in Users, NEW d \in Contracts,
               NEW to \in Stages,
               ReadForStatus(s, u, d, to) \/ ReadForApproval(s, u, d, to)
        PROVE  Kept
    <2>1. stage[d] \in Stages
      BY <1>5 DEF IInv, TypeOK, ReadForStatus, ReadForApproval
    <2>2. d # c
      BY <1>0, <1>5, <2>1, DirectMoves, GatedMoves
         DEF ReadForStatus, ReadForApproval
    <2>3. QED
      BY <1>0, <1>5, <2>2 DEF ReadForStatus, ReadForApproval, Read, Pending,
                              Existing, IInv, TypeOK
  <1>6. ASSUME NEW s \in Sessions, NEW u \in Users, NEW a \in Approvals,
               NEW v \in {"approved", "rejected"}, ReadForDecision(s, u, a, v)
        PROVE  Kept
    BY <1>0, <1>6 DEF ReadForDecision, Read, Pending, Existing, IInv, TypeOK
  <1>7. ASSUME NEW s \in Sessions, WriteStatus(s) PROVE Kept
    BY <1>0, <1>2, <1>7 DEF WriteStatus, Pending, Existing, IInv, TypeOK
  <1>8. ASSUME NEW s \in Sessions, NEW a \in Approvals, InsertApproval(s, a)
        PROVE  Kept
    BY <1>0, <1>2, <1>8 DEF InsertApproval, Pending, Existing, IInv, TypeOK
  <1>9. ASSUME NEW s \in Sessions, WriteDecision(s) PROVE Kept
    <2>1. /\ session[s].op = "decide" /\ session[s].contract # c
          /\ session[s].approval \in Approvals
          /\ Existing(session[s].approval)
          /\ approval[session[s].approval].contract # c
          /\ approval[session[s].approval] \in ApprovalRow
      BY <1>0, <1>9, SessionFields
         DEF WriteDecision, IInv, TypeOK, SessionsSound, Existing
    <2>2. \A a \in Approvals :
            Pending(a)' => Pending(a) \/ a = session[s].approval
      BY <1>9, <2>1 DEF WriteDecision, IInv, TypeOK, Pending, Existing
    <2>3. \A a \in Approvals : approval'[a].contract = approval[a].contract
      BY <1>9, <2>1 DEF WriteDecision, IInv, TypeOK, ApprovalRow
    <2>4. stage'[c] = stage[c]
      BY <1>9, <2>1 DEF WriteDecision, IInv, TypeOK
    <2>5. QED
      BY <1>0, <1>2, <1>9, <2>1, <2>2, <2>3, <2>4 DEF WriteDecision
  <1>10. ASSUME NEW s \in Sessions, Abort(s) \/ InsertApprovalConflict(s)
         PROVE  Kept
    BY <1>0, <1>2, <1>10 DEF Abort, InsertApprovalConflict, Pending, Existing
  <1>11. ASSUME UNCHANGED vars PROVE Kept
    BY <1>0, <1>11 DEF vars, Pending, Existing
  <1>12. QED
    BY <1>1, <1>3, <1>4, <1>5, <1>6, <1>7, <1>8, <1>9, <1>10, <1>11,
       CandidatesAssumption DEF Next

\* Once drained, CLOSED and DECLINED are final.
THEOREM DrainedIsFinalHolds == Spec => DrainedIsFinal
  <1> DEFINE Final == \A c \in Contracts :
                        Drained(c) => stage'[c] = stage[c] /\ Drained(c)'
  <1>1. IInv /\ [Next]_vars => [Final]_vars
    BY DrainedStep
  <1>2. QED
    BY <1>1, Invariance, PTL DEF Spec, DrainedIsFinal

-----------------------------------------------------------------------------
\* The states the lifecycle starts in are states SignOff starts in.
LEMMA SignOffInit == Init => Gate!Init
  <1> SUFFICES ASSUME Init PROVE Gate!Init
    OBVIOUS
  <1>1. OpenQuestions = {}
    BY DEF Init, OpenQuestions, PendingOn, Pending, Existing
  <1>2. GrantedStages = [c \in Contracts |-> {}]
    BY DEF Init, GrantedStages, Granted
  <1>3. Standing = [c \in Contracts |-> "working"]
    BY NoneAssumption DEF Init, Standing, Stages
  <1>4. QED
    BY <1>1, <1>2, <1>3 DEF Gate!Init

\* A step that writes no approval and no audit entry, and puts no contract in
\* a gated stage it is not in, is a step of SignOff on one contract at most.
LEMMA QuietStep ==
    ASSUME UNCHANGED <<approval, decisions>>, NEW c \in Contracts,
           NEW x, x \notin {"signed", "closed"},
           stage \in [Contracts -> Stages \cup {None}],
           stage' \in {stage, [stage EXCEPT ![c] = x]}
    PROVE  [Gate!Next]_(Gate!vars)
  <1>1. OpenQuestions' = OpenQuestions
    BY DEF OpenQuestions, PendingOn, Pending, Existing
  <1>2. GrantedStages' = GrantedStages
    BY DEF GrantedStages, Granted
  <1>3. CASE stage' = stage
    <2>1. Standing' = Standing
      BY <1>3 DEF Standing
    <2>2. QED
      BY <1>1, <1>2, <2>1 DEF Gate!vars
  <1>4. CASE stage' = [stage EXCEPT ![c] = x]
    <2>1. Standing' = [Standing EXCEPT ![c] = "working"]
      BY <1>4 DEF Standing
    <2>2. Gate!Rework(c)
      BY <1>1, <1>2, <2>1 DEF Gate!Rework
    <2>3. QED
      BY <2>2 DEF Gate!Next
  <1>5. QED
    BY <1>3, <1>4

LEMMA SignOffAsk ==
    ASSUME IInv, NEW s \in Sessions, NEW a \in Approvals, InsertApproval(s, a)
    PROVE  [Gate!Next]_(Gate!vars)
  <1> DEFINE c == session[s].contract
  <1>1. c \in Contracts /\ PendingOn(c) = {} /\ ~Existing(a)
    BY SessionFields DEF InsertApproval, IndexAdmits, IInv, TypeOK
  <1>2. PICK k \in Contracts : k = c
    BY <1>1
  <1>3. /\ \A b \in Approvals : b # a => approval'[b] = approval[b]
        /\ approval'[a] \in ApprovalRow
        /\ approval'[a].contract = k
        /\ approval'[a].status = "pending"
    <2>1. /\ session[s].actor \in Users /\ session[s].from \in Stages
          /\ session[s].to \in Stages
      BY SessionFields DEF InsertApproval, IInv, TypeOK
    <2>2. QED
      BY <1>1, <1>2, <2>1 DEF InsertApproval, IInv, TypeOK, ApprovalRow
  <1>4. approval'[a] # None
    BY <1>3, NoneAssumption
  <1>5. OpenQuestions' = OpenQuestions \cup {k}
    BY <1>1, <1>2, <1>3, <1>4 DEF OpenQuestions, PendingOn, Pending, Existing
  <1>6. k \notin OpenQuestions
    BY <1>1, <1>2 DEF OpenQuestions
  <1>7. GrantedStages' = GrantedStages /\ Standing' = Standing
    BY DEF InsertApproval, GrantedStages, Granted, Standing
  <1>8. Gate!Ask(k)
    BY <1>5, <1>6, <1>7 DEF Gate!Ask
  <1>9. QED
    BY <1>8 DEF Gate!Next

LEMMA SignOffDecision ==
    ASSUME IInv, NEW s \in Sessions, WriteDecision(s)
    PROVE  [Gate!Next]_(Gate!vars)
  <1>1. /\ session[s].contract \in Contracts
        /\ session[s].approval \in Approvals
        /\ session[s].verdict \in {"approved", "rejected"}
        /\ session[s].moves => session[s].verdict = "approved"
        /\ Existing(session[s].approval)
        /\ approval[session[s].approval].contract = session[s].contract
    BY SessionFields DEF WriteDecision, IInv, TypeOK, SessionsSound
  <1>2. PICK k \in Contracts, a \in Approvals, v \in {"approved", "rejected"},
             m \in BOOLEAN, g \in {"signed", "closed"} :
          /\ k = session[s].contract /\ a = session[s].approval
          /\ v = session[s].verdict /\ m = (session[s].moves = TRUE)
          /\ g = approval[a].to
    <2>1. RowsSound!(session[s].approval)
      BY <1>1 DEF IInv, RowsSound
    <2>2. approval[session[s].approval].to \in {"signed", "closed"}
      BY <1>1, <2>1, GatedMoves
    <2>3. (session[s].moves = TRUE) \in BOOLEAN
      OBVIOUS
    <2>4. QED
      BY <1>1, <2>2, <2>3
  <1>3. /\ Existing(a) /\ approval[a] \in ApprovalRow
        /\ approval[a].contract = k
        /\ m => v = "approved"
        /\ g = "closed" => "signed" \in Granted(k)
    <2>1. RowsSound!(a)
      BY <1>1, <1>2 DEF IInv, RowsSound
    <2>2. QED
      BY <1>1, <1>2, <2>1, GatedMoves DEF IInv, TypeOK, Existing
  <1>4. /\ stage' = IF m THEN [stage EXCEPT ![k] = g] ELSE stage
        /\ \E e : /\ e.contract = k /\ e.to = g /\ e.verdict = v
                  /\ decisions' = decisions \cup {e}
    <2>1. session[s].moves \in BOOLEAN
      BY SessionFields DEF WriteDecision, IInv, TypeOK
    <2>2. stage' = IF m THEN [stage EXCEPT ![k] = g] ELSE stage
      BY <1>2, <2>1 DEF WriteDecision
    <2>3. PICK e : /\ e = [approval |-> a, contract |-> k,
                           by |-> session[s].actor, to |-> g, verdict |-> v]
                   /\ decisions' = decisions \cup {e}
      BY <1>2 DEF WriteDecision
    <2>4. e.contract = k /\ e.to = g /\ e.verdict = v
      BY <2>3
    <2>5. QED
      BY <2>2, <2>3, <2>4
  <1>5. OpenQuestions' \in {OpenQuestions, OpenQuestions \ {k}}
    <2>1. /\ \A b \in Approvals : b # a => approval'[b] = approval[b]
          /\ approval'[a].contract = k
          /\ approval'[a].status # "pending"
      BY <1>2, <1>3 DEF WriteDecision, IInv, TypeOK, ApprovalRow
    <2>2. \A d \in Contracts : PendingOn(d)' = PendingOn(d) \ {a}
      BY <2>1 DEF PendingOn, Pending, Existing
    <2>3. \A d \in Contracts : d # k => a \notin PendingOn(d)
      BY <1>3 DEF PendingOn
    <2>4. \A d \in Contracts :
             d \in OpenQuestions' <=> PendingOn(d)' # {}
      BY DEF OpenQuestions
    <2>5. \A d \in Contracts : d \in OpenQuestions <=> PendingOn(d) # {}
      BY DEF OpenQuestions
    <2>6. OpenQuestions \subseteq Contracts /\ OpenQuestions' \subseteq Contracts
      BY DEF OpenQuestions
    <2>7. \A d \in Contracts : d # k => (d \in OpenQuestions' <=> d \in OpenQuestions)
      BY <2>2, <2>3, <2>4, <2>5
    <2>8. k \in OpenQuestions' => k \in OpenQuestions
      BY <2>2, <2>4, <2>5
    <2>9. QED
      BY <2>6, <2>7, <2>8
  <1>6. CASE v = "rejected"
    <2>1. GrantedStages' = GrantedStages
      <3>1. \A c \in Contracts : Granted(c)' = Granted(c)
        BY <1>4, <1>6 DEF Granted
      <3>2. QED
        BY <3>1 DEF GrantedStages
    <2>2. Standing' = Standing
      BY <1>3, <1>4, <1>6 DEF Standing
    <2>3. Gate!Refuse(k)
      BY <1>5, <2>1, <2>2 DEF Gate!Refuse
    <2>4. QED
      BY <2>3 DEF Gate!Next
  <1>7. CASE v = "approved"
    <2>1. GrantedStages' = [GrantedStages EXCEPT ![k] = @ \cup {g}]
      <3>1. PICK e : /\ e.contract = k /\ e.to = g /\ e.verdict = v
                     /\ decisions' = decisions \cup {e}
        BY <1>4
      <3>2. \A c \in Contracts : c # k => Granted(c)' = Granted(c)
        BY <3>1 DEF Granted
      <3>3. Granted(k)' = Granted(k) \cup {g}
        <4>1. Granted(k)' \subseteq Granted(k) \cup {g}
          BY <3>1 DEF Granted
        <4>2. Granted(k) \subseteq Granted(k)'
          BY <3>1, GrantsStay
        <4>3. e \in {d \in decisions' : d.contract = k /\ d.verdict = "approved"}
          BY <1>7, <3>1
        <4>4. g \in Granted(k)'
          BY <3>1, <4>3 DEF Granted
        <4>5. QED
          BY <4>1, <4>2, <4>4
      <3>4. QED
        BY <3>2, <3>3 DEF GrantedStages
    <2>2. Standing' \in {Standing, [Standing EXCEPT ![k] = g]}
      <3>1. CASE m
        <4>1. stage' = [stage EXCEPT ![k] = g]
          BY <1>4, <3>1
        <4>2. Standing' = [Standing EXCEPT ![k] = g]
          BY <4>1 DEF Standing, IInv, TypeOK
        <4>3. QED
          BY <4>2
      <3>2. CASE ~m
        BY <1>4, <3>2 DEF Standing
      <3>3. QED
        BY <3>1, <3>2
    <2>3. g = "closed" => "signed" \in GrantedStages[k]
      BY <1>3 DEF GrantedStages
    <2>4. Gate!Grant(k, g)
      BY <1>5, <2>1, <2>2, <2>3 DEF Gate!Grant
    <2>5. QED
      BY <2>4 DEF Gate!Next, Gate!GatedStages
  <1>8. QED
    BY <1>2, <1>6, <1>7

LEMMA SignOffStep == IInv /\ [Next]_vars => [Gate!Next]_(Gate!vars)
  <1> SUFFICES ASSUME IInv, [Next]_vars PROVE [Gate!Next]_(Gate!vars)
    OBVIOUS
  <1>1. stage \in [Contracts -> Stages \cup {None}]
    BY DEF IInv, TypeOK
  <1>2. ASSUME UNCHANGED <<stage, approval, decisions>>
        PROVE  [Gate!Next]_(Gate!vars)
    BY <1>2 DEF Gate!vars, OpenQuestions, PendingOn, Pending, Existing,
                GrantedStages, Granted, Standing
  <1>3. ASSUME NEW c \in Contracts, CreateContract(c)
        PROVE  [Gate!Next]_(Gate!vars)
    <2>1. /\ stage' \in {stage, [stage EXCEPT ![c] = "intake"]}
          /\ UNCHANGED <<approval, decisions>>
      BY <1>3 DEF CreateContract
    <2>2. "intake" \notin {"signed", "closed"}
      OBVIOUS
    <2>3. QED
      BY <1>1, <2>1, <2>2, QuietStep
  <1>4. ASSUME NEW s \in Sessions, WriteStatus(s)
        PROVE  [Gate!Next]_(Gate!vars)
    <2>1. /\ session[s].contract \in Contracts
          /\ session[s].to \notin {"signed", "closed"}
      BY <1>4, SessionFields DEF WriteStatus, IInv, TypeOK, SessionsSound
    <2>2. QED
      BY <1>1, <1>4, <2>1, QuietStep DEF WriteStatus
  <1>5. ASSUME NEW s \in Sessions, NEW a \in Approvals, InsertApproval(s, a)
        PROVE  [Gate!Next]_(Gate!vars)
    BY <1>5, SignOffAsk
  <1>6. ASSUME NEW s \in Sessions, WriteDecision(s)
        PROVE  [Gate!Next]_(Gate!vars)
    BY <1>6, SignOffDecision
  <1>7. ASSUME NEW s \in Sessions, Abort(s) \/ InsertApprovalConflict(s)
        PROVE  [Gate!Next]_(Gate!vars)
    BY <1>2, <1>7 DEF Abort, InsertApprovalConflict
  <1>8. ASSUME NEW u \in Users, NEW w \in Users, NEW c \in Contracts,
               AssignLead(u, c, w)
        PROVE  [Gate!Next]_(Gate!vars)
    BY <1>2, <1>8 DEF AssignLead
  <1>9. ASSUME NEW s \in Sessions, NEW u \in Users, NEW c \in Contracts,
               NEW to \in Stages,
               ReadForStatus(s, u, c, to) \/ ReadForApproval(s, u, c, to)
        PROVE  [Gate!Next]_(Gate!vars)
    BY <1>2, <1>9 DEF ReadForStatus, ReadForApproval
  <1>10. ASSUME NEW s \in Sessions, NEW u \in Users, NEW a \in Approvals,
                NEW v \in {"approved", "rejected"}, ReadForDecision(s, u, a, v)
         PROVE  [Gate!Next]_(Gate!vars)
    BY <1>2, <1>10 DEF ReadForDecision
  <1>11. ASSUME UNCHANGED vars
         PROVE  [Gate!Next]_(Gate!vars)
    BY <1>2, <1>11 DEF vars
  <1>12. QED
    BY <1>3, <1>4, <1>5, <1>6, <1>7, <1>8, <1>9, <1>10, <1>11,
       CandidatesAssumption DEF Next

\* The request handlers implement SignOff.
THEOREM SignOffImplemented == Spec => ImplementsSignOff
  BY SignOffInit, SignOffStep, Invariance, PTL
     DEF Spec, ImplementsSignOff, Gate!Spec

=============================================================================
