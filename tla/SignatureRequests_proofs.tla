---------------------- MODULE SignatureRequests_proofs ----------------------
(***************************************************************************)
(* Proofs about SignatureRequests, for any documents, recipients,          *)
(* addresses, archive keys and requests in flight. Every webhook may be    *)
(* delivered any number of times, in any order.                            *)
(***************************************************************************)
EXTENDS SignatureRequests, FiniteSetTheorems, WellFoundedInduction, TLAPS

\* Nobody both signs and rejects.
EnvelopesSound ==
    \A d \in Docs : Sent(d) => envelope[d].signed \cap envelope[d].rejected = {}

\* What an event says has happened.
EventsSound ==
    \A e \in events :
        /\ Sent(e.doc)
        /\ e.kind = "signed" => e.who \subseteq envelope[e.doc].signed
        /\ e.kind = "rejected" => /\ e.who \subseteq envelope[e.doc].rejected
                                 /\ Rejected(e.doc)
        /\ e.kind = "completed" => Completed(e.doc)

\* A send that is in flight is the only one of its document, and no request
\* stands for it yet; a void in flight is about a request that exists.
SessionsSound ==
    /\ \A s \in Sessions :
         LET r == session[s] IN
         /\ r.op # "idle" => Sent(r.doc)
         /\ r.op = "send" => ~Recorded(r.doc)
         /\ r.op \in {"void", "commit_void"} => Recorded(r.doc)
         /\ r.op = "commit_void" => envelope[r.doc].deleted
    /\ \A s, t \in Sessions :
         session[s].op = "send" /\ session[t] = session[s] => s = t

RecordsSound ==
    /\ \A d \in Docs : Recorded(d) => Sent(d)
    /\ \A e \in answered : Recorded(e.doc)

\* What the handler of a webhook has done so far, and what is still to do.
HookSound ==
    LET e == hook.event IN
    hook.op # "idle" =>
        /\ e \in events
        /\ e.kind = hook.op
        /\ Recorded(e.doc)
        /\ hook.op = "signed" =>
             \A r \in RowsOf(e) : r \in hook.todo
                                   \/ request[e.doc].recipient[r] = "signed"
        /\ hook.op = "signed" => hook.todo \subseteq RowsOf(e)
        /\ hook.op = "completed" =>
             /\ hook.key # None => hook.key \in stored /\ archive[hook.key] = None
             /\ e.doc \notin voids => ArchivesOf(e.doc) = {}

\* A request that was never voided has its archive while it is COMPLETED,
\* and no other: a rejection that comes late would contradict the envelope.
ArchivesSound ==
    \A d \in Docs \ voids :
        /\ ArchivesOf(d) # {} => Recorded(d) /\ request[d].status = "completed"
        /\ \A k, l \in ArchivesOf(d) : k = l

IInv ==
    /\ TypeOK
    /\ StatusBacked
    /\ ArchiveWhole
    /\ AnsweredIsRecorded
    /\ EnvelopesSound
    /\ EventsSound
    /\ SessionsSound
    /\ RecordsSound
    /\ HookSound
    /\ ArchivesSound

-----------------------------------------------------------------------------
(* Positions and addresses. *)

LEMMA Least ==
    ASSUME NEW S \in SUBSET Nat, S # {}
    PROVE  \E n \in S : \A m \in S : n <= m
<1> DEFINE R == OpToRel(<, Nat)
<1>1. IsWellFoundedOn(R, Nat)
  BY NatLessThanWellFounded
<1>2. \A x, y \in Nat : x < y => <<x, y>> \in R
  BY DEF OpToRel
<1> HIDE DEF R
<1>3. PICK n \in S : \A m \in S : <<m, n>> \notin R
  BY <1>1, WFMin
<1>4. \A m \in S : ~(m < n)
  BY <1>2, <1>3, Zenon
<1>5. \A m \in S : n <= m
  BY <1>4
<1> QED BY <1>5

LEMMA MinOf ==
    ASSUME NEW S \in SUBSET Recipients, S # {}
    PROVE  Min(S) \in S
<1>1. S \in SUBSET Nat
  BY RecipientsAssumption, FS_CardinalityType
<1>2. \E n \in S : \A m \in S : n <= m
  BY <1>1, Least
<1> QED BY <1>2 DEF Min

\* The least upper bound of a set of positions is one of them.
LEMMA MaxOf ==
    ASSUME NEW S \in SUBSET Recipients, S # {}
    PROVE  Max(S) \in S
<1> DEFINE N == Cardinality(Recipients)
           Bounds == {n \in Nat : \A x \in S : x <= n}
<1>1. N \in Nat /\ S \subseteq 1..N
  BY RecipientsAssumption, FS_CardinalityType
<1>2. PICK b \in Bounds : \A m \in Bounds : b <= m
  <2>1. N \in Bounds
    BY <1>1
  <2>2. Bounds \in SUBSET Nat
    OBVIOUS
  <2> HIDE DEF Bounds
  <2> QED BY <2>1, <2>2, Least
<1>3. b \in S
  <2>1. SUFFICES ASSUME b \notin S PROVE FALSE
    OBVIOUS
  <2>2. PICK x \in S : TRUE
    OBVIOUS
  <2>3. b \in Nat /\ b >= 1
    BY <2>2, <1>1, <1>2
  <2>4. \A y \in S : y <= b - 1
    BY <2>1, <2>3, <1>1, <1>2
  <2>5. b - 1 \in Bounds
    BY <2>3, <2>4
  <2> QED BY <2>3, <2>5, <1>2
<1>4. \A y \in S : b >= y
  BY <1>1, <1>2
<1> QED BY <1>3, <1>4 DEF Max

\* A handler credits only recipients of the list, whose Documenso id the
\* event names.
LEMMA RowsOfFacts ==
    ASSUME NEW e, NEW r \in RowsOf(e)
    PROVE  r \in Recipients /\ DocumensoId(e.doc, r) \in e.who
<1>1. PICK i \in e.who : r \in RowFor(e.doc, i)
  BY DEF RowsOf
<1> DEFINE M == {x \in Recipients : DocumensoId(e.doc, x) = i}
<1>2. M # {} /\ r = Min(M)
  BY <1>1 DEF RowFor
<1>3. M \in SUBSET Recipients
  OBVIOUS
<1>4. r \in M
  <2> HIDE DEF M
  <2> QED BY <1>2, <1>3, MinOf
<1> QED BY <1>1, <1>4

\* A Documenso id stands for somebody with the recipient's address.
LEMMA IdHasSameEmail ==
    ASSUME NEW d \in Docs, NEW r \in Recipients
    PROVE  DocumensoId(d, r) \in SameEmail(d, r)
<1> DEFINE S == SameEmail(d, r)
<1>1. S \in SUBSET Recipients /\ r \in S
  BY DEF SameEmail
<1>2. DocumensoId(d, r) = Max(S)
  BY DEF DocumensoId, SameEmail
<1> HIDE DEF S
<1>3. Max(S) \in S
  BY <1>1, MaxOf
<1> QED BY <1>2, <1>3 DEF S

\* Events that name different people credit different recipients.
LEMMA RowsDisjoint ==
    ASSUME NEW e, NEW f, e.doc = f.doc, e.who \cap f.who = {}
    PROVE  RowsOf(e) \cap RowsOf(f) = {}
BY RowsOfFacts

\* Who is credited for an event depends on the addresses alone.
LEMMA RowsOfStable ==
    ASSUME NEW e, envelope'[e.doc].email = envelope[e.doc].email
    PROVE  RowsOf(e)' = RowsOf(e)
<1>1. ASSUME NEW r \in Recipients
      PROVE  DocumensoId(e.doc, r)' = DocumensoId(e.doc, r)
  BY DEF DocumensoId
<1>2. ASSUME NEW i \in e.who
      PROVE  RowFor(e.doc, i)' = RowFor(e.doc, i)
  <2>1. {r \in Recipients : DocumensoId(e.doc, r) = i}'
          = {r \in Recipients : DocumensoId(e.doc, r) = i}
    BY <1>1
  <2> QED BY <2>1 DEF RowFor
<1> QED BY <1>2 DEF RowsOf

-----------------------------------------------------------------------------
(* The envelopes. *)

\* What happened to an envelope stays so.
Grows ==
    \A d \in Docs : Sent(d) =>
        /\ envelope'[d] # None
        /\ envelope'[d].email = envelope[d].email
        /\ envelope[d].signed \subseteq envelope'[d].signed
        /\ envelope[d].rejected \subseteq envelope'[d].rejected
        /\ envelope[d].deleted => envelope'[d].deleted

\* Growing envelopes take nothing away from what the database holds.
LEMMA GrowthKeeps ==
    ASSUME IInv, TypeOK', Grows, events \subseteq events',
           UNCHANGED <<database, stored, answered, hook>>
    PROVE  /\ StatusBacked' /\ ArchiveWhole' /\ AnsweredIsRecorded'
           /\ RecordsSound' /\ HookSound' /\ ArchivesSound'
<1>0. UNCHANGED <<request, archive, told, voids, stored, answered, hook>>
  BY DEF database
<1>1. ASSUME NEW d \in Docs, Recorded(d)
      PROVE  Sent(d) /\ Sent(d)'
  BY <1>1 DEF IInv, RecordsSound, Grows, Sent
<1>2. ASSUME NEW d \in Docs, Completed(d)
      PROVE  Completed(d)'
  <2>1. envelope'[d] \in Envelope
    BY <1>2 DEF TypeOK, Grows, Completed, Sent
  <2>2. envelope'[d].signed \subseteq Recipients
    BY <2>1 DEF Envelope
  <2> QED BY <1>2, <2>2 DEF Grows, Completed, Sent
<1>3. StatusBacked'
  <2> SUFFICES ASSUME NEW d \in Docs, Recorded(d)'
               PROVE  LET row == request[d] IN
                      (/\ row.status = "completed" => Completed(d)
                       /\ row.status = "declined" => Rejected(d)
                       /\ row.status = "voided" => envelope[d].deleted
                       /\ \A r \in Recipients :
                            /\ row.recipient[r] = "signed"
                                 => SameEmail(d, r) \cap envelope[d].signed # {}
                            /\ row.recipient[r] = "declined"
                                 => SameEmail(d, r) \cap envelope[d].rejected # {})'
    BY DEF StatusBacked
  <2>1. Recorded(d) /\ Sent(d) /\ Sent(d)'
    BY <1>0, <1>1 DEF Recorded
  <2>2. request'[d].status = "completed" => Completed(d)'
    BY <1>0, <1>2, <2>1 DEF IInv, StatusBacked
  <2>3. request'[d].status = "declined" => Rejected(d)'
    BY <1>0, <2>1 DEF IInv, StatusBacked, Rejected, Grows
  <2>4. request'[d].status = "voided" => envelope'[d].deleted
    BY <1>0, <2>1 DEF IInv, StatusBacked, Grows
  <2>5. ASSUME NEW r \in Recipients
        PROVE  SameEmail(d, r)' = SameEmail(d, r)
    BY <2>1 DEF SameEmail, Grows
  <2>6. ASSUME NEW r \in Recipients
        PROVE  /\ request'[d].recipient[r] = "signed"
                    => SameEmail(d, r)' \cap envelope'[d].signed # {}
               /\ request'[d].recipient[r] = "declined"
                    => SameEmail(d, r)' \cap envelope'[d].rejected # {}
    <3>1. /\ request[d].recipient[r] = "signed"
               => SameEmail(d, r) \cap envelope[d].signed # {}
          /\ request[d].recipient[r] = "declined"
               => SameEmail(d, r) \cap envelope[d].rejected # {}
      BY <2>1 DEF IInv, StatusBacked
    <3>2. /\ envelope[d].signed \subseteq envelope'[d].signed
          /\ envelope[d].rejected \subseteq envelope'[d].rejected
      BY <2>1 DEF Grows
    <3> QED BY <1>0, <2>5, <3>1, <3>2
  <2> QED BY <2>2, <2>3, <2>4, <2>6
<1>4. ArchiveWhole'
  <2>1. ASSUME NEW k \in Archives, archive[k] # None
        PROVE  /\ k \in stored /\ Completed(archive[k])'
               /\ <<"completed", archive[k]>> \in told
    <3>1. PICK d \in Docs : d = archive[k]
      BY <2>1 DEF IInv, TypeOK
    <3>2. k \in stored /\ Completed(d) /\ <<"completed", d>> \in told
      BY <2>1, <3>1 DEF IInv, ArchiveWhole
    <3>3. Completed(d)'
      BY <1>2, <3>2
    <3> QED BY <1>0, <3>1, <3>2, <3>3 DEF Completed, Sent
  <2> QED BY <1>0, <2>1 DEF IInv, ArchiveWhole, Recorded, Completed, Sent
<1>5. ASSUME NEW e \in events
      PROVE  RowsOf(e)' = RowsOf(e)
  <2>1. e.doc \in Docs /\ Sent(e.doc)
    BY DEF IInv, EventsSound, TypeOK, Event
  <2> QED BY <2>1, RowsOfStable DEF Grows
<1>6. AnsweredIsRecorded'
  <2>1. answered \subseteq events
    BY DEF IInv, TypeOK
  <2> QED BY <1>0, <1>5, <2>1 DEF IInv, AnsweredIsRecorded, ArchivesOf
<1>7. RecordsSound'
  BY <1>0, <1>1 DEF IInv, RecordsSound, Recorded
<1>8. HookSound'
  <2>1. CASE hook.op = "idle"
    BY <1>0, <2>1 DEF HookSound
  <2>2. CASE hook.op # "idle"
    <3>1. hook.event \in events
      BY <2>2 DEF IInv, HookSound
    <3>2. RowsOf(hook.event)' = RowsOf(hook.event)
      <4> DEFINE e == hook.event
      <4>1. RowsOf(e)' = RowsOf(e)
        BY <3>1, <1>0, <1>5
      <4> QED BY <4>1
    <3> QED BY <1>0, <2>2, <3>1, <3>2 DEF IInv, HookSound, Recorded, ArchivesOf
  <2> QED BY <2>1, <2>2
<1>9. ArchivesSound'
  BY <1>0 DEF IInv, ArchivesSound, ArchivesOf, Recorded
<1> QED BY <1>3, <1>4, <1>6, <1>7, <1>8, <1>9

\* The fields a send or void request in flight has.
LEMMA SessionFields ==
    ASSUME TypeOK, NEW s \in Sessions
    PROVE  /\ session[s].op \in {"idle", "send", "void", "commit_void"}
           /\ session[s].op # "idle" => session[s].doc \in Docs
           /\ session[s].op \in {"void", "commit_void"}
                => session[s].moves \in BOOLEAN
           /\ session[s].op = "idle" <=> session[s] = Idle
<1>1. session[s] \in {Idle}
         \cup [op : {"send"}, doc : Docs]
         \cup [op : {"void", "commit_void"}, doc : Docs, moves : BOOLEAN]
  BY DEF TypeOK
<1> QED BY <1>1 DEF Idle

LEMMA GrowthKeepsSessions ==
    ASSUME IInv, Grows, UNCHANGED <<request, session>>
    PROVE  SessionsSound'
<1>1. ASSUME NEW s \in Sessions, session[s].op # "idle"
      PROVE  /\ session[s].doc \in Docs
             /\ Sent(session[s].doc)
             /\ Sent(session[s].doc)'
             /\ session[s].op = "commit_void" => envelope'[session[s].doc].deleted
  <2>1. session[s].doc \in Docs
    BY <1>1, SessionFields DEF IInv
  <2>2. Sent(session[s].doc)
        /\ (session[s].op = "commit_void" => envelope[session[s].doc].deleted)
    BY <1>1 DEF IInv, SessionsSound
  <2> QED BY <2>1, <2>2 DEF Grows, Sent
<1> QED BY <1>1 DEF IInv, SessionsSound, Sent, Recorded

LEMMA SignPreserves ==
    ASSUME IInv, NEW d \in Docs, NEW i \in Recipients, Sign(d, i)
    PROVE  IInv'
<1> DEFINE signed == envelope[d].signed \cup {i}
           told1 == [kind |-> "signed", doc |-> d, who |-> signed]
           told2 == [kind |-> "completed", doc |-> d, who |-> signed]
<1>1. /\ envelope[d] # None /\ envelope[d] \in Envelope
      /\ envelope[d].rejected = {}
      /\ i \notin envelope[d].signed
  BY DEF Sign, IInv, TypeOK, Sent, Rejected
<1>2. envelope' = [envelope EXCEPT ![d].signed = signed]
  BY DEF Sign
<1>3. /\ events' = events \cup {told1} \cup {e \in {told2} : signed = Recipients}
      /\ UNCHANGED <<database, stored, answered, hook, session, now>>
  BY DEF Sign
<1>4. /\ envelope'[d] = [envelope[d] EXCEPT !.signed = signed]
      /\ \A x \in Docs \ {d} : envelope'[x] = envelope[x]
  BY <1>2 DEF IInv, TypeOK
<1>5. signed \subseteq Recipients
  BY <1>1 DEF Envelope
<1>6. /\ envelope'[d] \in Envelope
      /\ envelope'[d].email = envelope[d].email
      /\ envelope'[d].signed = signed
      /\ envelope'[d].rejected = envelope[d].rejected
      /\ envelope'[d].deleted = envelope[d].deleted
  <2> HIDE DEF signed
  <2> QED BY <1>1, <1>4, <1>5 DEF Envelope
<1>7. Grows
  <2>1. ASSUME NEW x \in Docs, Sent(x)
        PROVE  /\ envelope'[x] # None
               /\ envelope'[x].email = envelope[x].email
               /\ envelope[x].signed \subseteq envelope'[x].signed
               /\ envelope[x].rejected \subseteq envelope'[x].rejected
               /\ envelope[x].deleted => envelope'[x].deleted
    <3>1. CASE x = d
      BY <1>1, <1>6, <3>1, NoneAssumption
    <3>2. CASE x # d
      BY <1>4, <2>1, <3>2 DEF Sent
    <3> QED BY <3>1, <3>2
  <2> QED BY <2>1 DEF Grows
<1>8. TypeOK'
  <2>1. envelope' \in [Docs -> Envelope \cup {None}]
    BY <1>2, <1>4, <1>6 DEF IInv, TypeOK
  <2>2. told1 \in Event /\ told2 \in Event
    BY <1>5 DEF Event
  <2>3. events' \subseteq Event /\ answered' \subseteq events'
    BY <1>3, <2>2 DEF IInv, TypeOK
  <2> QED BY <1>3, <2>1, <2>3 DEF IInv, TypeOK, database
<1>9. EnvelopesSound'
  BY <1>1, <1>4, <1>6 DEF IInv, EnvelopesSound, Sent
<1>10. EventsSound'
  <2> SUFFICES ASSUME NEW e \in events'
               PROVE  /\ Sent(e.doc)'
                      /\ e.kind = "signed" => e.who \subseteq envelope'[e.doc].signed
                      /\ e.kind = "rejected" => /\ e.who \subseteq envelope'[e.doc].rejected
                                               /\ Rejected(e.doc)'
                      /\ e.kind = "completed" => Completed(e.doc)'
    BY DEF EventsSound
  <2>1. CASE e \in events
    <3>1. e.doc \in Docs /\ e.who \subseteq Recipients
      BY <2>1 DEF IInv, TypeOK, Event
    <3>2. e.doc = d => e.kind # "rejected"
      BY <1>1, <2>1 DEF IInv, EventsSound, Rejected
    <3>3. e.doc # d => envelope'[e.doc] = envelope[e.doc]
      BY <1>4, <3>1
    <3>4. CASE e.doc = d
      <4>1. e.kind = "completed" => signed = Recipients
        BY <1>5, <2>1, <3>4 DEF IInv, EventsSound, Completed
      <4>2. e.kind = "signed" => e.who \subseteq signed
        BY <2>1, <3>4 DEF IInv, EventsSound
      <4> HIDE DEF signed
      <4> QED BY <1>6, <3>2, <3>4, <4>1, <4>2, NoneAssumption
              DEF Sent, Completed
    <3>5. CASE e.doc # d
      BY <2>1, <3>3, <3>5 DEF IInv, EventsSound, Sent, Completed, Rejected
    <3> QED BY <3>4, <3>5
  <2>2. CASE e = told1 \/ (e = told2 /\ signed = Recipients)
    <3> HIDE DEF signed
    <3> QED BY <1>6, <2>2, NoneAssumption DEF Sent, Completed
  <2> QED BY <1>3, <2>1, <2>2
<1>11. SessionsSound'
  BY <1>3, <1>7, GrowthKeepsSessions DEF database
<1>12. events \subseteq events'
  BY <1>3
<1> QED BY <1>3, <1>7, <1>8, <1>9, <1>10, <1>11, <1>12, GrowthKeeps DEF IInv

LEMMA RejectPreserves ==
    ASSUME IInv, NEW d \in Docs, NEW i \in Recipients, Reject(d, i)
    PROVE  IInv'
<1> DEFINE told1 == [kind |-> "rejected", doc |-> d, who |-> {i}]
<1>1. /\ envelope[d] # None /\ envelope[d] \in Envelope
      /\ envelope[d].rejected = {}
      /\ i \notin envelope[d].signed
  BY DEF Reject, IInv, TypeOK, Sent, Rejected
<1>2. envelope' = [envelope EXCEPT ![d].rejected = {i}]
  BY DEF Reject
<1>3. /\ events' = events \cup {told1}
      /\ UNCHANGED <<database, stored, answered, hook, session, now>>
  BY DEF Reject
<1>4. /\ envelope'[d] = [envelope[d] EXCEPT !.rejected = {i}]
      /\ \A x \in Docs \ {d} : envelope'[x] = envelope[x]
  BY <1>2 DEF IInv, TypeOK
<1>5. {i} \subseteq Recipients
  OBVIOUS
<1>6. /\ envelope'[d] \in Envelope
      /\ envelope'[d].email = envelope[d].email
      /\ envelope'[d].signed = envelope[d].signed
      /\ envelope'[d].rejected = {i}
      /\ envelope'[d].deleted = envelope[d].deleted
  BY <1>1, <1>4, <1>5 DEF Envelope
<1>7. Grows
  <2>1. ASSUME NEW x \in Docs, Sent(x)
        PROVE  /\ envelope'[x] # None
               /\ envelope'[x].email = envelope[x].email
               /\ envelope[x].signed \subseteq envelope'[x].signed
               /\ envelope[x].rejected \subseteq envelope'[x].rejected
               /\ envelope[x].deleted => envelope'[x].deleted
    <3>1. CASE x = d
      BY <1>1, <1>6, <3>1, NoneAssumption
    <3>2. CASE x # d
      BY <1>4, <2>1, <3>2 DEF Sent
    <3> QED BY <3>1, <3>2
  <2> QED BY <2>1 DEF Grows
<1>8. TypeOK'
  <2>1. envelope' \in [Docs -> Envelope \cup {None}]
    BY <1>2, <1>4, <1>6 DEF IInv, TypeOK
  <2>2. told1 \in Event
    BY <1>5 DEF Event
  <2>3. events' \subseteq Event /\ answered' \subseteq events'
    BY <1>3, <2>2 DEF IInv, TypeOK
  <2> QED BY <1>3, <2>1, <2>3 DEF IInv, TypeOK, database
<1>9. EnvelopesSound'
  <2>1. envelope'[d].signed \cap envelope'[d].rejected = {}
    BY <1>1, <1>6
  <2> QED BY <1>4, <2>1 DEF IInv, EnvelopesSound, Sent
<1>10. EventsSound'
  <2> SUFFICES ASSUME NEW e \in events'
               PROVE  /\ Sent(e.doc)'
                      /\ e.kind = "signed" => e.who \subseteq envelope'[e.doc].signed
                      /\ e.kind = "rejected" => /\ e.who \subseteq envelope'[e.doc].rejected
                                               /\ Rejected(e.doc)'
                      /\ e.kind = "completed" => Completed(e.doc)'
    BY DEF EventsSound
  <2>1. CASE e \in events
    <3>1. e.doc \in Docs
      BY <2>1 DEF IInv, TypeOK, Event
    <3>2. e.doc = d => e.kind # "rejected"
      BY <1>1, <2>1 DEF IInv, EventsSound, Rejected
    <3>3. e.doc # d => envelope'[e.doc] = envelope[e.doc]
      BY <1>4, <3>1
    <3> QED BY <1>6, <2>1, <3>2, <3>3, NoneAssumption
            DEF IInv, EventsSound, Sent, Completed, Rejected
  <2>2. CASE e = told1
    BY <1>6, <2>2, NoneAssumption DEF Sent, Rejected
  <2> QED BY <1>3, <2>1, <2>2
<1>11. SessionsSound'
  BY <1>3, <1>7, GrowthKeepsSessions DEF database
<1>12. events \subseteq events'
  BY <1>3
<1> QED BY <1>3, <1>7, <1>8, <1>9, <1>10, <1>11, <1>12, GrowthKeeps DEF IInv

LEMMA SendEnvelopePreserves ==
    ASSUME IInv, NEW s \in Sessions, NEW d \in Docs,
           NEW email \in [Recipients -> Emails], SendEnvelope(s, d, email)
    PROVE  IInv'
<1> DEFINE new == [email |-> email, signed |-> {}, rejected |-> {},
                   deleted |-> FALSE]
<1>1. /\ envelope[d] = None
      /\ envelope' = [envelope EXCEPT ![d] = new]
      /\ session[s] = Idle
      /\ session' = [session EXCEPT ![s] = [op |-> "send", doc |-> d]]
      /\ UNCHANGED <<events, database, stored, answered, hook, now>>
  BY DEF SendEnvelope, Take, Sent
<1>2. new \in Envelope
  BY DEF Envelope
<1>3. /\ envelope'[d] = new
      /\ \A x \in Docs \ {d} : envelope'[x] = envelope[x]
  BY <1>1 DEF IInv, TypeOK
<1>4. Grows
  BY <1>1, <1>3 DEF Grows, Sent
<1>5. TypeOK'
  <2>1. envelope' \in [Docs -> Envelope \cup {None}]
    BY <1>1, <1>2 DEF IInv, TypeOK
  <2>2. [op |-> "send", doc |-> d] \in [op : {"send"}, doc : Docs]
    OBVIOUS
  <2> HIDE DEF new
  <2> QED BY <1>1, <2>1, <2>2 DEF IInv, TypeOK, database
<1>6. EnvelopesSound'
  BY <1>3 DEF IInv, EnvelopesSound, Sent
<1>7. EventsSound'
  <2>1. ASSUME NEW e \in events
        PROVE  e.doc \in Docs /\ e.doc # d
    BY <1>1 DEF IInv, TypeOK, Event, EventsSound, Sent
  <2>2. ASSUME NEW e \in events
        PROVE  envelope'[e.doc] = envelope[e.doc]
    BY <1>3, <2>1
  <2> HIDE DEF new
  <2> QED BY <1>1, <2>2 DEF IInv, EventsSound, Sent, Completed, Rejected
<1>8. ~Recorded(d)
  BY <1>1 DEF IInv, RecordsSound, Sent
<1>9. SessionsSound'
  <2>1. /\ session'[s] = [op |-> "send", doc |-> d]
        /\ \A t \in Sessions \ {s} : session'[t] = session[t]
    BY <1>1 DEF IInv, TypeOK
  <2>2. ASSUME NEW t \in Sessions \ {s}, session[t].op # "idle"
        PROVE  session[t].doc \in Docs /\ session[t].doc # d
    BY <1>1, <2>2, SessionFields DEF IInv, SessionsSound, Sent
  <2>3. ASSUME NEW t \in Sessions
        PROVE  /\ session'[t].op # "idle" => Sent(session[t].doc)'
               /\ session'[t].op = "send" => ~Recorded(session[t].doc)'
               /\ session'[t].op \in {"void", "commit_void"}
                    => Recorded(session[t].doc)'
               /\ session'[t].op = "commit_void"
                    => envelope'[session'[t].doc].deleted
    <3>1. CASE t = s
      <4>1. session'[t].op = "send" /\ session'[t].doc = d
        BY <2>1, <3>1
      <4>2. envelope'[d] # None
        BY <1>2, <1>3, NoneAssumption
      <4>3. request'[d] = None
        BY <1>1, <1>8 DEF Recorded, database
      <4> QED BY <4>1, <4>2, <4>3 DEF Sent, Recorded
    <3>2. CASE t # s
      BY <1>1, <1>3, <2>1, <2>2, <3>2
         DEF IInv, SessionsSound, Sent, Recorded, database
    <3> QED BY <3>1, <3>2
  <2>4. ASSUME NEW t \in Sessions, NEW u \in Sessions,
               session'[t].op = "send", session'[u] = session'[t]
        PROVE  t = u
    <3>1. CASE t = s \/ u = s
      BY <2>1, <2>2, <2>4, <3>1
    <3>2. CASE t # s /\ u # s
      BY <2>1, <2>4, <3>2 DEF IInv, SessionsSound
    <3> QED BY <3>1, <3>2
  <2> QED BY <2>3, <2>4 DEF SessionsSound
<1> HIDE DEF new
<1> QED BY <1>1, <1>4, <1>5, <1>6, <1>7, <1>9, GrowthKeeps DEF IInv

LEMMA DeleteEnvelopePreserves ==
    ASSUME IInv, NEW s \in Sessions, DeleteEnvelope(s)
    PROVE  IInv'
<1>1. PICK d : d = session[s].doc
  OBVIOUS
<1>2. /\ session[s].op = "void"
      /\ envelope' = [envelope EXCEPT ![d].deleted = TRUE]
      /\ session' = [session EXCEPT ![s].op = "commit_void"]
      /\ UNCHANGED <<events, database, stored, answered, hook, now>>
  BY <1>1 DEF DeleteEnvelope
<1>3. d \in Docs /\ Recorded(d) /\ envelope[d] # None
      /\ session[s].moves \in BOOLEAN
  BY <1>1, <1>2, SessionFields DEF IInv, SessionsSound, Sent
<1>4. envelope[d] \in Envelope
  BY <1>3 DEF IInv, TypeOK
<1>5. /\ envelope'[d] = [envelope[d] EXCEPT !.deleted = TRUE]
      /\ \A x \in Docs \ {d} : envelope'[x] = envelope[x]
  BY <1>2, <1>3 DEF IInv, TypeOK
<1>6. /\ envelope'[d] \in Envelope
      /\ envelope'[d].email = envelope[d].email
      /\ envelope'[d].signed = envelope[d].signed
      /\ envelope'[d].rejected = envelope[d].rejected
  BY <1>4, <1>5 DEF Envelope
<1>7. envelope'[d].deleted
  BY <1>4, <1>5 DEF Envelope
<1>8. Grows
  <2>1. ASSUME NEW x \in Docs, Sent(x)
        PROVE  /\ envelope'[x] # None
               /\ envelope'[x].email = envelope[x].email
               /\ envelope[x].signed \subseteq envelope'[x].signed
               /\ envelope[x].rejected \subseteq envelope'[x].rejected
               /\ envelope[x].deleted => envelope'[x].deleted
    <3>1. CASE x = d
      BY <1>6, <1>7, <3>1, NoneAssumption
    <3>2. CASE x # d
      BY <1>5, <2>1, <3>2 DEF Sent
    <3> QED BY <3>1, <3>2
  <2> QED BY <2>1 DEF Grows
<1>9. /\ session'[s] = [session[s] EXCEPT !.op = "commit_void"]
      /\ \A t \in Sessions \ {s} : session'[t] = session[t]
  BY <1>2 DEF IInv, TypeOK
<1>10. session[s] \in [op : {"void", "commit_void"}, doc : Docs, moves : BOOLEAN]
  BY <1>2 DEF IInv, TypeOK, Idle
<1>11. /\ session'[s] \in [op : {"void", "commit_void"}, doc : Docs, moves : BOOLEAN]
       /\ session'[s].op = "commit_void" /\ session'[s].doc = d
  BY <1>1, <1>9, <1>10
<1>12. TypeOK'
  <2>1. envelope' \in [Docs -> Envelope \cup {None}]
    BY <1>2, <1>3, <1>5, <1>6 DEF IInv, TypeOK
  <2>2. session' \in [Sessions -> {Idle}
         \cup [op : {"send"}, doc : Docs]
         \cup [op : {"void", "commit_void"}, doc : Docs, moves : BOOLEAN]]
    BY <1>2, <1>9, <1>11 DEF IInv, TypeOK
  <2> QED BY <1>2, <2>1, <2>2 DEF IInv, TypeOK, database
<1>13. EnvelopesSound'
  BY <1>3, <1>5, <1>6 DEF IInv, EnvelopesSound, Sent
<1>14. EventsSound'
  <2>1. ASSUME NEW e \in events
        PROVE  e.doc \in Docs
    BY DEF IInv, TypeOK, Event
  <2>2. ASSUME NEW x \in Docs, Sent(x)
        PROVE  /\ Sent(x)' /\ envelope'[x].signed = envelope[x].signed
               /\ envelope'[x].rejected = envelope[x].rejected
    BY <1>5, <1>6, <1>8, <2>2 DEF Grows, Sent
  <2> QED BY <1>2, <2>1, <2>2 DEF IInv, EventsSound, Sent, Completed, Rejected
<1>15. SessionsSound'
  <2>1. ASSUME NEW t \in Sessions
        PROVE  /\ session'[t].op # "idle" => Sent(session[t].doc)'
               /\ session'[t].op = "send" => ~Recorded(session[t].doc)'
               /\ session'[t].op \in {"void", "commit_void"}
                    => Recorded(session[t].doc)'
               /\ session'[t].op = "commit_void"
                    => envelope'[session'[t].doc].deleted
    <3>1. CASE t = s
      BY <1>2, <1>3, <1>6, <1>7, <1>11, <3>1, NoneAssumption
         DEF Sent, Recorded, database
    <3>2. CASE t # s
      <4>1. session'[t] = session[t]
        BY <1>9, <3>2
      <4>2. session[t].op # "idle" => session[t].doc \in Docs
        BY SessionFields DEF IInv
      <4> QED BY <1>2, <1>8, <4>1, <4>2
              DEF IInv, SessionsSound, Sent, Recorded, database, Grows
    <3> QED BY <3>1, <3>2
  <2>2. ASSUME NEW t \in Sessions, NEW u \in Sessions,
               session'[t].op = "send", session'[u] = session'[t]
        PROVE  t = u
    <3>1. t # s /\ u # s
      BY <1>11, <2>2
    <3> QED BY <1>9, <2>2, <3>1 DEF IInv, SessionsSound
  <2> QED BY <2>1, <2>2 DEF SessionsSound
<1> QED BY <1>2, <1>8, <1>12, <1>13, <1>14, <1>15, GrowthKeeps DEF IInv

-----------------------------------------------------------------------------
(* Requests in flight. *)

\* A step that touches requests in flight alone.
LEMMA QuietKeeps ==
    ASSUME IInv, TypeOK', SessionsSound',
           UNCHANGED <<documenso, database, stored, answered, hook>>
    PROVE  IInv'
<1>1. UNCHANGED <<envelope, events>>
  BY DEF documenso
<1>2. Grows
  BY <1>1 DEF Grows, Sent
<1>3. EnvelopesSound' /\ EventsSound'
  BY <1>1 DEF IInv, EnvelopesSound, EventsSound, Sent, Completed, Rejected
<1> QED BY <1>1, <1>2, <1>3, GrowthKeeps DEF IInv

\* A request in flight that ends leaves the others as they were.
LEMMA FinishKeepsSessions ==
    ASSUME IInv, NEW s \in Sessions, Finish(s), UNCHANGED envelope,
           \A d \in Docs : Recorded(d) => Recorded(d)',
           \A t \in Sessions \ {s} :
              session[t].op = "send" => ~Recorded(session[t].doc)'
    PROVE  SessionsSound'
<1>1. /\ session'[s] = Idle
      /\ \A t \in Sessions \ {s} : session'[t] = session[t]
  BY DEF Finish, IInv, TypeOK
<1>2. ASSUME NEW t \in Sessions
      PROVE  /\ session'[t].op # "idle" => Sent(session[t].doc)'
             /\ session'[t].op = "send" => ~Recorded(session[t].doc)'
             /\ session'[t].op \in {"void", "commit_void"}
                  => Recorded(session[t].doc)'
             /\ session'[t].op = "commit_void"
                  => envelope'[session'[t].doc].deleted
  <2>1. CASE t = s
    BY <1>1, <2>1 DEF Idle
  <2>2. CASE t # s
    <3>1. session'[t] = session[t]
      BY <1>1, <2>2
    <3>2. session[t].op # "idle" => session[t].doc \in Docs
      BY SessionFields DEF IInv
    <3>3. PICK d : d = session[t].doc
      OBVIOUS
    <3>4. /\ session[t].op # "idle" => d \in Docs /\ Sent(d)'
          /\ session[t].op \in {"void", "commit_void"} => Recorded(d)'
          /\ session[t].op = "commit_void" => envelope'[d].deleted
      BY <3>2, <3>3 DEF IInv, SessionsSound, Sent
    <3>5. session[t].op = "send" => ~Recorded(session[t].doc)'
      BY <2>2
    <3> QED BY <3>1, <3>3, <3>4, <3>5 DEF Sent, Recorded
  <2> QED BY <2>1, <2>2
<1>3. ASSUME NEW t \in Sessions, NEW u \in Sessions,
             session'[t].op = "send", session'[u] = session'[t]
      PROVE  t = u
  <2>1. t # s /\ u # s
    BY <1>1, <1>3 DEF Idle
  <2> QED BY <1>1, <1>3, <2>1 DEF IInv, SessionsSound
<1> QED BY <1>2, <1>3 DEF SessionsSound

LEMMA FinishTyped ==
    ASSUME TypeOK, NEW s \in Sessions, Finish(s)
    PROVE  session' \in [Sessions -> {Idle}
             \cup [op : {"send"}, doc : Docs]
             \cup [op : {"void", "commit_void"}, doc : Docs, moves : BOOLEAN]]
BY DEF TypeOK, Finish

LEMMA AbortPreserves ==
    ASSUME IInv, NEW s \in Sessions, Abort(s)
    PROVE  IInv'
<1>1. Finish(s) /\ UNCHANGED <<documenso, database, stored, answered, hook, now>>
  BY DEF Abort
<1>2. TypeOK'
  BY <1>1, FinishTyped DEF IInv, TypeOK, documenso, database
<1>3. SessionsSound'
  <2>1. UNCHANGED <<envelope, request>>
    BY <1>1 DEF documenso, database
  <2>2. \A d \in Docs : Recorded(d) => Recorded(d)'
    BY <2>1 DEF Recorded
  <2>3. \A t \in Sessions \ {s} :
           session[t].op = "send" => ~Recorded(session[t].doc)'
    <3>1. ASSUME NEW t \in Sessions \ {s}, session[t].op = "send"
          PROVE  ~Recorded(session[t].doc)'
      <4>1. session'[t] = session[t]
        BY <1>1 DEF Finish, IInv, TypeOK
      <4> QED BY <2>1, <3>1, <4>1 DEF IInv, SessionsSound, Recorded
    <3> QED BY <3>1
  <2> QED BY <1>1, <2>1, <2>2, <2>3, FinishKeepsSessions
<1> QED BY <1>1, <1>2, <1>3, QuietKeeps

LEMMA ReadForVoidPreserves ==
    ASSUME IInv, NEW s \in Sessions, NEW d \in Docs, ReadForVoid(s, d)
    PROVE  IInv'
<1> DEFINE r == [op |-> "void", doc |-> d,
                 moves |-> request[d].status # "voided"]
<1>1. /\ Recorded(d) /\ session[s] = Idle
      /\ session' = [session EXCEPT ![s] = r]
      /\ UNCHANGED <<documenso, database, stored, answered, hook, now>>
  BY DEF ReadForVoid, Take
<1>2. r \in [op : {"void", "commit_void"}, doc : Docs, moves : BOOLEAN]
  OBVIOUS
<1>3. r.op = "void" /\ r.doc = d
  OBVIOUS
<1> HIDE DEF r
<1>4. TypeOK'
  BY <1>1, <1>2 DEF IInv, TypeOK, documenso, database
<1>5. /\ session'[s] = r
      /\ \A t \in Sessions \ {s} : session'[t] = session[t]
  BY <1>1 DEF IInv, TypeOK
<1>6. SessionsSound'
  <2>0. UNCHANGED <<envelope, request>>
    BY <1>1 DEF documenso, database
  <2>1. ASSUME NEW t \in Sessions
        PROVE  /\ session'[t].op # "idle" => Sent(session[t].doc)'
               /\ session'[t].op = "send" => ~Recorded(session[t].doc)'
               /\ session'[t].op \in {"void", "commit_void"}
                    => Recorded(session[t].doc)'
               /\ session'[t].op = "commit_void"
                    => envelope'[session'[t].doc].deleted
    <3>1. CASE t = s
      BY <1>1, <1>3, <1>5, <2>0, <3>1 DEF IInv, RecordsSound, Sent, Recorded
    <3>2. CASE t # s
      BY <1>5, <2>0, <3>2 DEF IInv, SessionsSound, Sent, Recorded
    <3> QED BY <3>1, <3>2
  <2>2. ASSUME NEW t \in Sessions, NEW u \in Sessions,
               session'[t].op = "send", session'[u] = session'[t]
        PROVE  t = u
    <3>1. t # s /\ u # s
      BY <1>3, <1>5, <2>2
    <3> QED BY <1>5, <2>2, <3>1 DEF IInv, SessionsSound
  <2> QED BY <2>1, <2>2 DEF SessionsSound
<1> QED BY <1>1, <1>4, <1>6, QuietKeeps

-----------------------------------------------------------------------------
(* Steps that write a request's row and leave the envelopes alone. *)

BackedAt(d) ==
    /\ request[d].status = "completed" => Completed(d)
    /\ request[d].status = "declined" => Rejected(d)
    /\ request[d].status = "voided" => envelope[d].deleted
    /\ \A r \in Recipients :
         /\ request[d].recipient[r] = "signed"
              => SameEmail(d, r) \cap envelope[d].signed # {}
         /\ request[d].recipient[r] = "declined"
              => SameEmail(d, r) \cap envelope[d].rejected # {}

LEMMA DocumensoKeeps ==
    ASSUME IInv, UNCHANGED documenso
    PROVE  EnvelopesSound' /\ EventsSound'
BY DEF documenso, IInv, EnvelopesSound, EventsSound, Sent, Completed, Rejected

LEMMA RowsKept ==
    ASSUME UNCHANGED envelope
    PROVE  \A e : RowsOf(e)' = RowsOf(e)
BY RowsOfStable

\* Only the row of d has to be looked at.
LEMMA OtherRowsBacked ==
    ASSUME IInv, NEW d \in Docs, UNCHANGED envelope,
           \A x \in Docs \ {d} : request'[x] = request[x], BackedAt(d)'
    PROVE  StatusBacked'
<1> SUFFICES ASSUME NEW x \in Docs, Recorded(x)'
             PROVE  BackedAt(x)'
  BY DEF StatusBacked, BackedAt
<1>1. CASE x = d
  BY <1>1
<1>2. CASE x # d
  <2>1. request'[x] = request[x] /\ Recorded(x)
    BY <1>2 DEF Recorded
  <2>2. BackedAt(x)
    BY <2>1 DEF IInv, StatusBacked, BackedAt
  <2> QED BY <2>1, <2>2 DEF BackedAt, Completed, Rejected, Sent, SameEmail
<1> QED BY <1>1, <1>2

LEMMA InsertRequestPreserves ==
    ASSUME IInv, NEW s \in Sessions, InsertRequest(s)
    PROVE  IInv'
<1>1. PICK d : d = session[s].doc
  OBVIOUS
<1> DEFINE row == [status |-> "pending",
                   recipient |-> [r \in Recipients |-> "pending"],
                   signed_at |-> [r \in Recipients |-> None], archive |-> None]
<1>2. /\ session[s].op = "send"
      /\ request' = [request EXCEPT ![d] = row]
      /\ Finish(s)
      /\ UNCHANGED <<documenso, archive, stored, told, voids, answered, hook, now>>
  BY <1>1 DEF InsertRequest, InitialStatus
<1>3. d \in Docs /\ Sent(d) /\ ~Recorded(d)
  BY <1>1, <1>2, SessionFields DEF IInv, SessionsSound, Sent, Recorded
<1>4. row \in RequestRow
  BY DEF RequestRow
<1>5. /\ request'[d] = row
      /\ \A x \in Docs \ {d} : request'[x] = request[x]
  BY <1>2, <1>3 DEF IInv, TypeOK
<1>6. /\ request'[d] # None
      /\ request'[d].status = "pending" /\ request'[d].archive = None
      /\ \A r \in Recipients : request'[d].recipient[r] = "pending"
  BY <1>4, <1>5, NoneAssumption
<1>7. UNCHANGED <<envelope, events>>
  BY <1>2 DEF documenso
<1>8. TypeOK'
  <2>1. request' \in [Docs -> RequestRow \cup {None}]
    BY <1>2, <1>4 DEF IInv, TypeOK
  <2> QED BY <1>2, <1>7, <2>1, FinishTyped DEF IInv, TypeOK
<1> HIDE DEF row
<1>9. StatusBacked'
  <2>1. BackedAt(d)'
    BY <1>6 DEF BackedAt
  <2> QED BY <1>3, <1>5, <1>7, <2>1, OtherRowsBacked
<1>10. ArchiveWhole'
  <2>1. ASSUME NEW k \in Archives, archive[k] # None
        PROVE  /\ k \in stored /\ Completed(archive[k])
               /\ <<"completed", archive[k]>> \in told
    BY <2>1 DEF IInv, ArchiveWhole
  <2>2. ASSUME NEW x \in Docs, Recorded(x)'
        PROVE  /\ request'[x].archive # None => archive[request'[x].archive] = x
               /\ request'[x].status = "completed" => request'[x].archive # None
    BY <1>5, <1>6, <2>2 DEF IInv, ArchiveWhole, Recorded
  <2> QED BY <1>2, <1>7, <2>1, <2>2 DEF ArchiveWhole, Completed, Sent
<1>11. AnsweredIsRecorded'
  <2>1. ASSUME NEW e \in answered
        PROVE  e.doc \in Docs /\ e.doc # d
    BY <1>3 DEF IInv, TypeOK, Event, RecordsSound
  <2>2. \A e : RowsOf(e)' = RowsOf(e)
    BY <1>7, RowsKept
  <2>3. ASSUME NEW e \in answered
        PROVE  request'[e.doc] = request[e.doc]
    BY <1>5, <2>1
  <2> QED BY <1>2, <2>2, <2>3 DEF IInv, AnsweredIsRecorded, ArchivesOf
<1>12. RecordsSound'
  BY <1>2, <1>3, <1>5, <1>6, <1>7 DEF IInv, TypeOK, Event, RecordsSound, Recorded, Sent
<1>13. HookSound'
  <2>1. CASE hook.op = "idle"
    BY <1>2, <2>1 DEF HookSound
  <2>2. CASE hook.op # "idle"
    <3>1. PICK e : e = hook.event
      OBVIOUS
    <3>2. e \in events /\ Recorded(e.doc) /\ e.doc \in Docs
      BY <2>2, <3>1 DEF IInv, HookSound, TypeOK, Event, Recorded
    <3>3. request'[e.doc] = request[e.doc]
      BY <1>3, <1>5, <3>2
    <3>4. RowsOf(hook.event)' = RowsOf(e)
      BY <1>2, <1>7, <3>1, RowsKept
    <3> QED BY <1>2, <1>7, <2>2, <3>1, <3>2, <3>3, <3>4
            DEF IInv, HookSound, Recorded, ArchivesOf
  <2> QED BY <2>1, <2>2
<1>14. ArchivesSound'
  BY <1>2, <1>3, <1>5 DEF IInv, ArchivesSound, ArchivesOf, Recorded
<1>15. SessionsSound'
  <2>1. \A x \in Docs : Recorded(x) => Recorded(x)'
    BY <1>5, <1>6 DEF Recorded
  <2>2. ASSUME NEW t \in Sessions \ {s}, session[t].op = "send"
        PROVE  ~Recorded(session[t].doc)'
    <3>1. session'[t] = session[t]
      BY <1>2 DEF Finish, IInv, TypeOK
    <3>2. session[s] \in [op : {"send"}, doc : Docs]
          /\ session[t] \in [op : {"send"}, doc : Docs]
      BY <1>2, <2>2 DEF IInv, TypeOK, Idle
    <3>3. session[t].doc # d /\ session[t].doc \in Docs
      BY <1>1, <1>2, <2>2, <3>2 DEF IInv, SessionsSound
    <3>4. ~Recorded(session[t].doc)
      BY <2>2 DEF IInv, SessionsSound
    <3> QED BY <1>5, <3>1, <3>3, <3>4 DEF Recorded
  <2> QED BY <1>2, <1>7, <2>1, <2>2, FinishKeepsSessions
<1> QED BY <1>2, <1>8, <1>9, <1>10, <1>11, <1>12, <1>13, <1>14, <1>15,
           DocumensoKeeps DEF IInv

\* A step that rewrites the row of d, which exists, or none.
LEMMA RewriteKeeps ==
    ASSUME IInv, NEW d \in Docs, Recorded(d), request'[d] # None,
           \A x \in Docs \ {d} : request'[x] = request[x], UNCHANGED envelope
    PROVE  /\ \A x \in Docs : Recorded(x)' <=> Recorded(x)
           /\ \A x \in Docs : Recorded(x)' => Sent(x)'
BY DEF IInv, RecordsSound, Recorded, Sent

LEMMA CommitVoidPreserves ==
    ASSUME IInv, NEW s \in Sessions, CommitVoid(s)
    PROVE  IInv'
<1>1. PICK d : d = session[s].doc
  OBVIOUS
<1>2. /\ session[s].op = "commit_void"
      /\ request' = IF session[s].moves
                    THEN [request EXCEPT ![d].status = "voided"] ELSE request
      /\ voids' = voids \cup {d}
      /\ Finish(s)
      /\ UNCHANGED <<documenso, archive, stored, told, answered, hook, now>>
  BY <1>1 DEF CommitVoid
<1>3. d \in Docs /\ Recorded(d) /\ envelope[d].deleted
  BY <1>1, <1>2, SessionFields DEF IInv, SessionsSound, Recorded
<1>4. request[d] \in RequestRow
  BY <1>3 DEF IInv, TypeOK, Recorded
<1>5. /\ request'[d] = request[d]
          \/ request'[d] = [request[d] EXCEPT !.status = "voided"]
      /\ \A x \in Docs \ {d} : request'[x] = request[x]
      /\ request' = [request EXCEPT ![d] = request'[d]]
  BY <1>2, <1>3 DEF IInv, TypeOK
<1>6. /\ request'[d] \in RequestRow
      /\ request'[d].recipient = request[d].recipient
      /\ request'[d].archive = request[d].archive
      /\ request'[d].status \in {request[d].status, "voided"}
  BY <1>4, <1>5 DEF RequestRow
<1>7. request'[d] # None
  BY <1>6, NoneAssumption
<1>8. UNCHANGED <<envelope, events>>
  BY <1>2 DEF documenso
<1>9. /\ \A x \in Docs : Recorded(x)' <=> Recorded(x)
      /\ \A x \in Docs : Recorded(x)' => Sent(x)'
  BY <1>3, <1>5, <1>7, <1>8, RewriteKeeps
<1>10. TypeOK'
  <2>1. request' \in [Docs -> RequestRow \cup {None}]
    BY <1>5, <1>6 DEF IInv, TypeOK
  <2> QED BY <1>2, <1>3, <1>8, <2>1, FinishTyped DEF IInv, TypeOK
<1>11. StatusBacked'
  <2>1. BackedAt(d)
    BY <1>3 DEF IInv, StatusBacked, BackedAt
  <2>2. BackedAt(d)'
    BY <1>3, <1>6, <1>8, <2>1 DEF BackedAt, Completed, Rejected, Sent, SameEmail
  <2> QED BY <1>3, <1>5, <1>8, <2>2, OtherRowsBacked
<1>12. ArchiveWhole'
  <2>1. ASSUME NEW x \in Docs, Recorded(x)'
        PROVE  /\ request'[x].archive # None => archive[request'[x].archive] = x
               /\ request'[x].status = "completed" => request'[x].archive # None
    BY <1>5, <1>6, <1>9, <2>1 DEF IInv, ArchiveWhole
  <2> QED BY <1>2, <1>8, <2>1 DEF IInv, ArchiveWhole, Completed, Sent
<1>13. AnsweredIsRecorded'
  <2>1. ASSUME NEW e \in answered
        PROVE  request'[e.doc].recipient = request[e.doc].recipient
    BY <1>5, <1>6 DEF IInv, TypeOK, Event
  <2>2. \A e : RowsOf(e)' = RowsOf(e)
    BY <1>8, RowsKept
  <2> SUFFICES ASSUME NEW e \in answered
               PROVE  /\ e.kind = "signed" => \A r \in RowsOf(e)' :
                            request'[e.doc].recipient[r] = "signed"
                      /\ e.kind = "rejected" => <<"declined", e.doc>> \in told'
                      /\ e.kind = "completed" => ArchivesOf(e.doc)' # {}
    BY <1>2 DEF AnsweredIsRecorded
  <2> QED BY <1>2, <2>1, <2>2 DEF IInv, AnsweredIsRecorded, ArchivesOf
<1>14. RecordsSound'
  BY <1>2, <1>9 DEF IInv, TypeOK, Event, RecordsSound
<1>15. HookSound'
  <2>1. CASE hook.op = "idle"
    BY <1>2, <2>1 DEF HookSound
  <2>2. CASE hook.op # "idle"
    <3>1. PICK e : e = hook.event
      OBVIOUS
    <3>2. e \in events /\ Recorded(e.doc) /\ e.doc \in Docs
      BY <2>2, <3>1 DEF IInv, HookSound, TypeOK, Event, Recorded
    <3>3. request'[e.doc].recipient = request[e.doc].recipient /\ Recorded(e.doc)'
      BY <1>5, <1>6, <1>9, <3>2
    <3>4. RowsOf(hook.event)' = RowsOf(e)
      BY <1>2, <1>8, <3>1, RowsKept
    <3> QED BY <1>2, <1>8, <2>2, <3>1, <3>2, <3>3, <3>4
            DEF IInv, HookSound, Recorded, ArchivesOf
  <2> QED BY <2>1, <2>2
<1>16. ArchivesSound'
  BY <1>2, <1>3, <1>5, <1>9 DEF IInv, ArchivesSound, ArchivesOf
<1>17. SessionsSound'
  <2>1. ASSUME NEW t \in Sessions \ {s}, session[t].op = "send"
        PROVE  ~Recorded(session[t].doc)'
    <3>1. session'[t] = session[t] /\ session[t].doc \in Docs
      BY <1>2, <2>1, SessionFields DEF Finish, IInv, TypeOK
    <3>2. ~Recorded(session[t].doc)
      BY <2>1 DEF IInv, SessionsSound
    <3> QED BY <1>5, <1>7, <1>3, <3>1, <3>2 DEF Recorded
  <2> QED BY <1>2, <1>8, <1>9, <2>1, FinishKeepsSessions
<1> QED BY <1>2, <1>10, <1>11, <1>12, <1>13, <1>14, <1>15, <1>16, <1>17,
           DocumensoKeeps DEF IInv

LEMMA TickPreserves ==
    ASSUME IInv, Tick
    PROVE  IInv'
<1>1. /\ now < MaxTime /\ now' = now + 1
      /\ UNCHANGED <<documenso, database, stored, answered, hook, session>>
  BY DEF Tick
<1>2. TypeOK'
  <2>1. now' \in 0..MaxTime
    BY <1>1, TimeAssumption DEF IInv, TypeOK
  <2> QED BY <1>1, <2>1 DEF IInv, TypeOK, documenso, database
<1>3. SessionsSound'
  BY <1>1 DEF documenso, database, IInv, SessionsSound, Sent, Recorded
<1> QED BY <1>1, <1>2, <1>3, QuietKeeps

-----------------------------------------------------------------------------
(* The webhook's handlers. *)

LEMMA HookKeepsSessions ==
    ASSUME IInv, UNCHANGED <<envelope, session>>,
           \A x \in Docs : Recorded(x)' <=> Recorded(x)
    PROVE  SessionsSound'
<1>1. ASSUME NEW t \in Sessions, session[t].op # "idle"
      PROVE  /\ session[t].doc \in Docs
             /\ Recorded(session[t].doc)' <=> Recorded(session[t].doc)
             /\ Sent(session[t].doc)' <=> Sent(session[t].doc)
  <2>1. session[t].doc \in Docs
    BY <1>1, SessionFields DEF IInv
  <2> QED BY <2>1 DEF Recorded, Sent
<1> QED BY <1>1 DEF IInv, SessionsSound

\* The event a handler works on is in the type.
LEMMA EventFields ==
    ASSUME IInv, NEW e \in events
    PROVE  /\ e \in Event /\ e.doc \in Docs /\ e.who \subseteq Recipients
           /\ e.kind \in {"signed", "rejected", "completed"}
BY DEF IInv, TypeOK, Event

LEMMA HookFields ==
    ASSUME IInv
    PROVE  /\ hook.op \in {"idle", "signed", "rejected", "completed"}
           /\ hook.op # "idle" => hook.event \in events
           /\ hook.op = "signed" =>
                hook \in [op : {"signed"}, event : Event, todo : SUBSET Recipients]
           /\ hook.op = "rejected" =>
                hook \in [op : {"rejected"}, event : Event, moves : BOOLEAN]
           /\ hook.op = "completed" =>
                hook \in [op : {"completed"}, event : Event,
                          key : Archives \cup {None}]
<1>1. hook.op # "idle" => hook.event \in events
  BY DEF IInv, HookSound
<1> QED BY <1>1 DEF IInv, TypeOK, Idle

\* A step of the webhook that touches no row: the hook moves on, and an event
\* may be answered.
LEMMA HookMoves ==
    ASSUME IInv, TypeOK', HookSound', AnsweredIsRecorded',
           \A e \in answered' : e \in answered \/ Recorded(e.doc),
           UNCHANGED <<documenso, database, stored, session>>
    PROVE  IInv'
<1>1. UNCHANGED <<envelope, events, request, archive, told, voids, stored, session>>
  BY DEF documenso, database
<1>2. StatusBacked' /\ ArchiveWhole'
  BY <1>1 DEF IInv, StatusBacked, ArchiveWhole, Completed, Rejected, Sent,
              Recorded, SameEmail
<1>3. RecordsSound'
  BY <1>1 DEF IInv, RecordsSound, Recorded, Sent
<1>4. ArchivesSound'
  BY <1>1 DEF IInv, ArchivesSound, ArchivesOf, Recorded
<1>5. SessionsSound'
  BY <1>1, HookKeepsSessions DEF Recorded
<1> QED BY <1>2, <1>3, <1>4, <1>5, DocumensoKeeps DEF IInv

\* The same without an answer: what was answered is as it was.
LEMMA AnswersKept ==
    ASSUME IInv, UNCHANGED <<documenso, database, answered>>
    PROVE  AnsweredIsRecorded'
<1>1. UNCHANGED <<envelope, request, archive, told, answered>>
  BY DEF documenso, database
<1>2. \A e : RowsOf(e)' = RowsOf(e)
  BY <1>1, RowsKept
<1> QED BY <1>1, <1>2 DEF IInv, AnsweredIsRecorded, ArchivesOf

LEMMA HookFailsPreserves ==
    ASSUME IInv, HookFails
    PROVE  IInv'
<1>1. hook' = Idle /\ UNCHANGED <<documenso, database, stored, answered, session, now>>
  BY DEF HookFails
<1>2. TypeOK'
  BY <1>1 DEF IInv, TypeOK, documenso, database
<1>3. HookSound'
  BY <1>1 DEF HookSound, Idle
<1> QED BY <1>1, <1>2, <1>3, HookMoves, AnswersKept

LEMMA ReceiveSignedPreserves ==
    ASSUME IInv, NEW e \in events, ReceiveSigned(e)
    PROVE  IInv'
<1>1. /\ hook = Idle /\ e.kind = "signed" /\ Recorded(e.doc)
      /\ UNCHANGED <<documenso, database, stored, session, now>>
  BY DEF ReceiveSigned, Receive
<1>2. UNCHANGED <<envelope, events, request, archive, told, voids>>
  BY <1>1 DEF documenso, database
<1>3. \A f : RowsOf(f)' = RowsOf(f)
  BY <1>2, RowsKept
<1>4. CASE RowsOf(e) = {}
  <2>1. hook' = Idle /\ answered' = answered \cup {e}
    BY <1>4 DEF ReceiveSigned, Answer
  <2>2. TypeOK'
    BY <1>1, <1>2, <2>1 DEF IInv, TypeOK
  <2>3. HookSound'
    BY <2>1 DEF HookSound, Idle
  <2>4. AnsweredIsRecorded'
    BY <1>1, <1>2, <1>3, <1>4, <2>1 DEF IInv, AnsweredIsRecorded, ArchivesOf
  <2> QED BY <1>1, <2>1, <2>2, <2>3, <2>4, HookMoves
<1>5. CASE RowsOf(e) # {}
  <2>1. /\ hook' = [op |-> "signed", event |-> e, todo |-> RowsOf(e)]
        /\ UNCHANGED answered
    BY <1>5 DEF ReceiveSigned
  <2>2. RowsOf(e) \subseteq Recipients
    BY RowsOfFacts
  <2>3. hook' \in [op : {"signed"}, event : Event, todo : SUBSET Recipients]
    BY <2>1, <2>2, EventFields
  <2>4. TypeOK'
    BY <1>1, <1>2, <2>1, <2>3 DEF IInv, TypeOK
  <2>5. hook'.op = "signed" /\ hook'.event = e /\ hook'.todo = RowsOf(e)
    BY <2>1
  <2>6. RowsOf(hook.event)' = RowsOf(e)
    BY <1>2, <2>5 DEF RowsOf, RowFor, DocumensoId
  <2>7. HookSound'
    BY <1>1, <1>2, <2>5, <2>6 DEF HookSound, Recorded
  <2> QED BY <1>1, <2>1, <2>4, <2>7, HookMoves, AnswersKept
<1> QED BY <1>4, <1>5

LEMMA ReceiveRejectedPreserves ==
    ASSUME IInv, NEW e \in events, ReceiveRejected(e)
    PROVE  IInv'
<1>1. /\ e.kind = "rejected" /\ Recorded(e.doc)
      /\ hook' = [op |-> "rejected", event |-> e,
                  moves |-> request[e.doc].status # "declined"]
      /\ UNCHANGED <<documenso, database, stored, answered, session, now>>
  BY DEF ReceiveRejected, Receive
<1>2. UNCHANGED <<envelope, events, request, archive, told, voids>>
  BY <1>1 DEF documenso, database
<1>3. hook' \in [op : {"rejected"}, event : Event, moves : BOOLEAN]
  BY <1>1, EventFields
<1>4. TypeOK'
  BY <1>1, <1>2, <1>3 DEF IInv, TypeOK
<1>5. hook'.op = "rejected" /\ hook'.event = e
  BY <1>1
<1>6. HookSound'
  BY <1>1, <1>2, <1>5 DEF HookSound, Recorded
<1> QED BY <1>1, <1>4, <1>6, HookMoves, AnswersKept

LEMMA CompletedAgainPreserves ==
    ASSUME IInv, NEW e \in events, CompletedAgain(e)
    PROVE  IInv'
<1>1. /\ e.kind = "completed" /\ Recorded(e.doc)
      /\ request[e.doc].status = "completed"
      /\ hook' = Idle /\ answered' = answered \cup {e}
      /\ UNCHANGED <<documenso, database, stored, session, now>>
  BY DEF CompletedAgain, Receive, NotCompleted, Answer
<1>2. UNCHANGED <<envelope, events, request, archive, told, voids>>
  BY <1>1 DEF documenso, database
<1>3. TypeOK'
  BY <1>1, <1>2 DEF IInv, TypeOK
<1>4. HookSound'
  BY <1>1 DEF HookSound, Idle
<1>5. ArchivesOf(e.doc) # {}
  <2>1. e.doc \in Docs /\ request[e.doc] \in RequestRow
    BY <1>1, EventFields DEF IInv, TypeOK, Recorded
  <2>2. /\ request[e.doc].archive \in Archives
        /\ archive[request[e.doc].archive] = e.doc
    BY <1>1, <2>1 DEF IInv, ArchiveWhole, RequestRow
  <2> QED BY <2>2 DEF ArchivesOf
<1>6. \A f : RowsOf(f)' = RowsOf(f)
  BY <1>2, RowsKept
<1>7. AnsweredIsRecorded'
  BY <1>1, <1>2, <1>5, <1>6 DEF IInv, AnsweredIsRecorded, ArchivesOf
<1> QED BY <1>1, <1>3, <1>4, <1>7, HookMoves

LEMMA ReceiveCompletedPreserves ==
    ASSUME IInv, NEW e \in events, ReceiveCompleted(e)
    PROVE  IInv'
<1>1. /\ e.kind = "completed" /\ Recorded(e.doc)
      /\ request[e.doc].status # "completed"
      /\ hook' = [op |-> "completed", event |-> e, key |-> None]
      /\ UNCHANGED <<documenso, database, stored, answered, session, now>>
  BY DEF ReceiveCompleted, Receive, NotCompleted
<1>2. UNCHANGED <<envelope, events, request, archive, told, voids>>
  BY <1>1 DEF documenso, database
<1>3. hook' \in [op : {"completed"}, event : Event, key : Archives \cup {None}]
  BY <1>1, EventFields
<1>4. TypeOK'
  BY <1>1, <1>2, <1>3 DEF IInv, TypeOK
<1>5. hook'.op = "completed" /\ hook'.event = e /\ hook'.key = None
  BY <1>1
<1>6. e.doc \notin voids => ArchivesOf(e.doc) = {}
  BY <1>1, EventFields DEF IInv, ArchivesSound
<1>7. HookSound'
  BY <1>1, <1>2, <1>5, <1>6 DEF HookSound, Recorded, ArchivesOf
<1> QED BY <1>1, <1>4, <1>7, HookMoves, AnswersKept

LEMMA ArchivePdfPreserves ==
    ASSUME IInv, NEW k \in Archives, ArchivePdf(k)
    PROVE  IInv'
<1>1. /\ hook.op = "completed" /\ k \notin stored
      /\ stored' = stored \cup {k}
      /\ hook' = [hook EXCEPT !.key = k]
      /\ UNCHANGED <<documenso, database, answered, session, now>>
  BY DEF ArchivePdf, Uploaded
<1>2. UNCHANGED <<envelope, events, request, archive, told, voids>>
  BY <1>1 DEF documenso, database
<1>3. hook \in [op : {"completed"}, event : Event, key : Archives \cup {None}]
  BY <1>1, HookFields
<1>4. /\ hook' \in [op : {"completed"}, event : Event, key : Archives \cup {None}]
      /\ hook'.op = "completed" /\ hook'.event = hook.event /\ hook'.key = k
  BY <1>1, <1>3
<1>5. TypeOK'
  BY <1>1, <1>2, <1>4 DEF IInv, TypeOK
\* The key is fresh: no row uses it.
<1>6. archive[k] = None
  BY <1>1 DEF IInv, ArchiveWhole
<1>7. HookSound'
  BY <1>1, <1>2, <1>4, <1>6 DEF IInv, HookSound, Recorded, ArchivesOf
<1>8. StatusBacked'
  BY <1>2 DEF IInv, StatusBacked, Completed, Rejected, Sent, Recorded, SameEmail
<1>9. ArchiveWhole'
  BY <1>1, <1>2 DEF IInv, ArchiveWhole, Completed, Sent, Recorded
<1>10. RecordsSound' /\ ArchivesSound'
  BY <1>1, <1>2 DEF IInv, RecordsSound, ArchivesSound, ArchivesOf, Recorded, Sent
<1>11. SessionsSound'
  BY <1>1, <1>2, HookKeepsSessions DEF Recorded
<1> QED BY <1>1, <1>5, <1>7, <1>8, <1>9, <1>10, <1>11,
           AnswersKept, DocumensoKeeps DEF IInv

\* A step that archives nothing and changes no status.
LEMMA OtherArchivesSound ==
    ASSUME IInv, UNCHANGED voids,
           \A x \in Docs : Recorded(x)' <=> Recorded(x),
           \A x \in Docs : /\ request'[x].status = request[x].status
                           /\ ArchivesOf(x)' = ArchivesOf(x)
    PROVE  ArchivesSound'
<1> SUFFICES ASSUME NEW x \in Docs \ voids
             PROVE  /\ ArchivesOf(x)' # {}
                         => Recorded(x)' /\ request'[x].status = "completed"
                    /\ \A k, l \in ArchivesOf(x)' : k = l
  BY DEF ArchivesSound
<1>1. /\ ArchivesOf(x) # {}
           => Recorded(x) /\ request[x].status = "completed"
      /\ \A k, l \in ArchivesOf(x) : k = l
  BY DEF IInv, ArchivesSound
<1> QED BY <1>1

LEMMA MarkSignedPreserves ==
    ASSUME IInv, NEW r \in Recipients, MarkSigned(r)
    PROVE  IInv'
<1>1. PICK e : e = hook.event
  OBVIOUS
<1>2. PICK d : d = e.doc
  OBVIOUS
<1>3. /\ hook.op = "signed" /\ r \in hook.todo
      /\ request' = [request EXCEPT ![d].recipient[r] = "signed",
                                    ![d].signed_at[r] = now]
      /\ IF Left(r) = {}
         THEN hook' = Idle /\ answered' = answered \cup {e}
         ELSE hook' = [hook EXCEPT !.todo = Left(r)] /\ UNCHANGED answered
      /\ UNCHANGED <<documenso, archive, stored, told, voids, session, now>>
  BY <1>1, <1>2 DEF MarkSigned, Answer
<1>4. /\ e \in events /\ d \in Docs /\ Recorded(d) /\ e.kind = "signed"
      /\ hook.todo \subseteq RowsOf(e)
      /\ \A x \in RowsOf(e) : x \in hook.todo
                               \/ request[d].recipient[x] = "signed"
  BY <1>1, <1>2, <1>3, EventFields DEF IInv, HookSound
<1>5. request[d] \in RequestRow
  BY <1>4 DEF IInv, TypeOK, Recorded
<1> DEFINE names == [request[d].recipient EXCEPT ![r] = "signed"]
           times == [request[d].signed_at EXCEPT ![r] = now]
           row == [request[d] EXCEPT !.recipient = names, !.signed_at = times]
<1>6. /\ request'[d] = row
      /\ \A x \in Docs \ {d} : request'[x] = request[x]
      /\ request' = [request EXCEPT ![d] = request'[d]]
  <2>1. request \in [Docs -> RequestRow \cup {None}]
    BY DEF IInv, TypeOK
  <2>2. request' = [request EXCEPT ![d] = row]
    BY <1>3, <1>4, <1>5, <2>1 DEF RequestRow
  <2> HIDE DEF row
  <2> QED BY <1>4, <2>1, <2>2
<1>7. /\ request'[d] \in RequestRow
      /\ request'[d].recipient[r] = "signed"
      /\ \A x \in Recipients \ {r} :
           request'[d].recipient[x] = request[d].recipient[x]
      /\ request'[d].archive = request[d].archive
      /\ request'[d].status = request[d].status
  <2>1. /\ names \in [Recipients -> {"pending", "signed", "declined"}]
        /\ names[r] = "signed"
        /\ \A x \in Recipients \ {r} : names[x] = request[d].recipient[x]
    BY <1>5 DEF RequestRow
  <2>2. now \in 0..MaxTime \cup {None}
    BY DEF IInv, TypeOK
  <2>3. times \in [Recipients -> 0..MaxTime \cup {None}]
    BY <1>5, <2>2 DEF RequestRow
  <2> HIDE DEF names, times
  <2>4. /\ row \in RequestRow /\ row.recipient = names
        /\ row.archive = request[d].archive /\ row.status = request[d].status
    BY <1>5, <2>1, <2>3 DEF RequestRow
  <2> QED BY <1>6, <2>1, <2>4
<1> HIDE DEF row
<1>8. request'[d] # None
  BY <1>7, NoneAssumption
<1>9. UNCHANGED <<envelope, events>>
  BY <1>3 DEF documenso
<1>10. /\ \A x \in Docs : Recorded(x)' <=> Recorded(x)
       /\ \A x \in Docs : Recorded(x)' => Sent(x)'
  BY <1>4, <1>6, <1>8, <1>9, RewriteKeeps
<1>11. /\ hook \in [op : {"signed"}, event : Event, todo : SUBSET Recipients]
       /\ hook.todo \ {r} \subseteq Recipients
  BY <1>3, HookFields
<1>13. TypeOK'
  <2>1. request' \in [Docs -> RequestRow \cup {None}]
    BY <1>6, <1>7 DEF IInv, TypeOK
  <2>2. CASE Left(r) = {}
    BY <1>3, <1>4, <1>9, <2>1, <2>2 DEF IInv, TypeOK
  <2>3. CASE Left(r) # {}
    <3>1. hook' \in [op : {"signed"}, event : Event, todo : SUBSET Recipients]
      BY <1>3, <1>11, <2>3 DEF Left
    <3> QED BY <1>3, <1>9, <2>1, <2>3, <3>1 DEF IInv, TypeOK
  <2> QED BY <2>2, <2>3
\* The event names somebody with the recipient's address, who signed.
<1>14. StatusBacked'
  <2>1. BackedAt(d)
    BY <1>4 DEF IInv, StatusBacked, BackedAt
  <2>2. SameEmail(d, r) \cap envelope[d].signed # {}
    <3>1. DocumensoId(d, r) \in e.who
      BY <1>2, <1>3, <1>4, RowsOfFacts
    <3>2. e.who \subseteq envelope[d].signed
      BY <1>2, <1>4 DEF IInv, EventsSound
    <3> QED BY <1>4, <3>1, <3>2, IdHasSameEmail
  <2>3. ASSUME NEW x \in Recipients
        PROVE  /\ request'[d].recipient[x] = "signed"
                    => SameEmail(d, x)' \cap envelope'[d].signed # {}
               /\ request'[d].recipient[x] = "declined"
                    => SameEmail(d, x)' \cap envelope'[d].rejected # {}
    <3>1. SameEmail(d, x)' = SameEmail(d, x)
      BY <1>9 DEF SameEmail
    <3>2. CASE x = r
      BY <1>7, <1>9, <2>2, <3>1, <3>2
    <3>3. CASE x # r
      BY <1>7, <1>9, <2>1, <3>1, <3>3 DEF BackedAt
    <3> QED BY <3>2, <3>3
  <2>4. BackedAt(d)'
    BY <1>7, <1>9, <2>1, <2>3 DEF BackedAt, Completed, Rejected, Sent
  <2> QED BY <1>4, <1>6, <1>9, <2>4, OtherRowsBacked
<1>15. ArchiveWhole'
  <2>1. ASSUME NEW x \in Docs, Recorded(x)'
        PROVE  /\ request'[x].archive # None => archive[request'[x].archive] = x
               /\ request'[x].status = "completed" => request'[x].archive # None
    <3>1. /\ request'[x].archive = request[x].archive
          /\ request'[x].status = request[x].status
      BY <1>6, <1>7
    <3>2. Recorded(x)
      BY <1>10, <2>1
    <3> QED BY <3>1, <3>2 DEF IInv, ArchiveWhole
  <2> QED BY <1>3, <1>9, <2>1 DEF IInv, ArchiveWhole, Completed, Sent
<1>16. AnsweredIsRecorded'
  <2>1. \A f : RowsOf(f)' = RowsOf(f)
    BY <1>9, RowsKept
  <2>2. ASSUME NEW f \in events, NEW x \in Recipients,
               request[f.doc].recipient[x] = "signed"
        PROVE  request'[f.doc].recipient[x] = "signed"
    BY <1>6, <1>7, <2>2, EventFields
  <2>3. ASSUME NEW f \in answered
        PROVE  /\ f.kind = "signed" => \A x \in RowsOf(f)' :
                     request'[f.doc].recipient[x] = "signed"
               /\ f.kind = "rejected" => <<"declined", f.doc>> \in told'
               /\ f.kind = "completed" => ArchivesOf(f.doc)' # {}
    <3>1. f \in events /\ RowsOf(f) \subseteq Recipients
      BY RowsOfFacts DEF IInv, TypeOK
    <3> QED BY <1>3, <2>1, <2>2, <3>1 DEF IInv, AnsweredIsRecorded, ArchivesOf
  <2>4. ASSUME Left(r) = {}
        PROVE  \A x \in RowsOf(e)' : request'[d].recipient[x] = "signed"
    <3>1. hook.todo \subseteq {r}
      BY <2>4 DEF Left
    <3>2. RowsOf(e) \subseteq Recipients
      BY RowsOfFacts
    <3> QED BY <1>4, <1>7, <2>1, <3>1, <3>2
  <2>5. CASE Left(r) = {}
    BY <1>2, <1>3, <1>4, <2>3, <2>4, <2>5 DEF AnsweredIsRecorded
  <2>6. CASE Left(r) # {}
    BY <1>3, <2>3, <2>6 DEF AnsweredIsRecorded
  <2> QED BY <2>5, <2>6
<1>17. RecordsSound'
  <2>1. \A f \in answered' : f \in events /\ Recorded(f.doc)
    BY <1>2, <1>3, <1>4 DEF IInv, TypeOK, RecordsSound
  <2> QED BY <1>10, <2>1, EventFields DEF RecordsSound
<1>18. HookSound'
  <2>1. CASE Left(r) = {}
    BY <1>3, <2>1 DEF HookSound, Idle
  <2>2. CASE Left(r) # {}
    <3>1. /\ hook'.op = "signed" /\ hook'.event = e
          /\ hook'.todo = hook.todo \ {r}
      BY <1>1, <1>3, <1>11, <2>2 DEF Left
    <3>2. RowsOf(hook.event)' = RowsOf(e)
      BY <1>9, <3>1 DEF RowsOf, RowFor, DocumensoId
    <3>3. \A x \in RowsOf(e) : x \in hook'.todo
                               \/ request'[d].recipient[x] = "signed"
      <4>1. RowsOf(e) \subseteq Recipients
        BY RowsOfFacts
      <4> QED BY <1>4, <1>7, <3>1, <4>1
    <3>4. Recorded(e.doc)'
      BY <1>2, <1>4, <1>10
    <3>5. Recorded(hook.event.doc)'
      BY <3>1, <3>4 DEF Recorded
    <3> QED BY <1>2, <1>4, <1>9, <3>1, <3>2, <3>3, <3>5 DEF HookSound
  <2> QED BY <2>1, <2>2
<1>19. ArchivesSound'
  <2>1. \A x \in Docs : /\ request'[x].status = request[x].status
                       /\ ArchivesOf(x)' = ArchivesOf(x)
    BY <1>3, <1>6, <1>7 DEF ArchivesOf
  <2> QED BY <1>3, <1>10, <2>1, OtherArchivesSound
<1>20. SessionsSound'
  BY <1>3, <1>9, <1>10, HookKeepsSessions
<1> QED BY <1>3, <1>13, <1>14, <1>15, <1>16, <1>17, <1>18, <1>19, <1>20,
           DocumensoKeeps DEF IInv

LEMMA CommitDeclinedPreserves ==
    ASSUME IInv, CommitDeclined
    PROVE  IInv'
<1>1. PICK e : e = hook.event
  OBVIOUS
<1>2. PICK d : d = e.doc
  OBVIOUS
<1> DEFINE names == [r \in Recipients |-> IF r \in RowsOf(e) THEN "declined"
                                         ELSE request[d].recipient[r]]
           status == IF hook.moves THEN "declined" ELSE request[d].status
           row == [request[d] EXCEPT !.recipient = names, !.status = status]
<1>3. /\ hook.op = "rejected"
      /\ request' = [request EXCEPT ![d] = row]
      /\ told' = told \cup {<<"declined", d>>}
      /\ hook' = Idle /\ answered' = answered \cup {e}
      /\ UNCHANGED <<documenso, archive, stored, voids, session, now>>
  BY <1>1, <1>2 DEF CommitDeclined, Answer
<1>4. e \in events /\ d \in Docs /\ Recorded(d) /\ e.kind = "rejected"
  BY <1>1, <1>2, <1>3, EventFields DEF IInv, HookSound
<1>5. /\ request[d] \in RequestRow
      /\ envelope[d] \in Envelope
      /\ Rejected(d) /\ e.who \subseteq envelope[d].rejected
      /\ envelope[d].signed \cap envelope[d].rejected = {}
  BY <1>2, <1>4 DEF IInv, TypeOK, Recorded, EventsSound, EnvelopesSound, Sent
<1>6. /\ row \in RequestRow /\ row.recipient = names
      /\ row.status \in {request[d].status, "declined"}
      /\ row.archive = request[d].archive
  <2>1. names \in [Recipients -> {"pending", "signed", "declined"}]
    BY <1>5 DEF RequestRow
  <2>2. /\ status \in {request[d].status, "declined"}
        /\ status \in {"pending", "completed", "declined", "voided"}
    BY <1>5 DEF RequestRow
  <2> HIDE DEF names, status
  <2> QED BY <1>5, <2>1, <2>2 DEF RequestRow
<1> HIDE DEF row
<1>7. /\ request'[d] = row
      /\ \A x \in Docs \ {d} : request'[x] = request[x]
  BY <1>3, <1>4 DEF IInv, TypeOK
<1>8. request'[d] # None
  BY <1>6, <1>7, NoneAssumption
<1>9. UNCHANGED <<envelope, events>>
  BY <1>3 DEF documenso
<1>10. /\ \A x \in Docs : Recorded(x)' <=> Recorded(x)
       /\ \A x \in Docs : Recorded(x)' => Sent(x)'
  BY <1>4, <1>7, <1>8, <1>9, RewriteKeeps
<1>11. TypeOK'
  <2>1. request' \in [Docs -> RequestRow \cup {None}]
    BY <1>3, <1>6 DEF IInv, TypeOK
  <2>2. told' \subseteq {"completed", "declined"} \X Docs
    BY <1>3, <1>4 DEF IInv, TypeOK
  <2> QED BY <1>3, <1>4, <1>9, <2>1, <2>2 DEF IInv, TypeOK
\* The event names somebody with the recipient's address, who rejected.
<1>12. StatusBacked'
  <2>1. BackedAt(d)
    BY <1>4 DEF IInv, StatusBacked, BackedAt
  <2>2. ASSUME NEW x \in Recipients
        PROVE  /\ names[x] = "signed"
                    => SameEmail(d, x)' \cap envelope'[d].signed # {}
               /\ names[x] = "declined"
                    => SameEmail(d, x)' \cap envelope'[d].rejected # {}
    <3>1. SameEmail(d, x)' = SameEmail(d, x)
      BY <1>9 DEF SameEmail
    <3>2. CASE x \in RowsOf(e)
      <4>1. DocumensoId(d, x) \in e.who
        BY <1>2, <3>2, RowsOfFacts
      <4>2. DocumensoId(d, x) \in SameEmail(d, x)
        BY <1>4, IdHasSameEmail
      <4>3. names[x] = "declined"
        BY <3>2
      <4> HIDE DEF names
      <4> QED BY <1>5, <1>9, <3>1, <4>1, <4>2, <4>3
    <3>3. CASE x \notin RowsOf(e)
      <4>1. names[x] = request[d].recipient[x]
        BY <3>3
      <4> HIDE DEF names
      <4> QED BY <1>9, <2>1, <3>1, <4>1 DEF BackedAt
    <3> QED BY <3>2, <3>3
  <2> HIDE DEF names
  <2>3. BackedAt(d)'
    BY <1>5, <1>6, <1>7, <1>9, <2>1, <2>2
       DEF BackedAt, Completed, Rejected, Sent
  <2> QED BY <1>4, <1>7, <1>9, <2>3, OtherRowsBacked
<1>13. ArchiveWhole'
  <2>1. ASSUME NEW x \in Docs, Recorded(x)'
        PROVE  /\ request'[x].archive # None => archive[request'[x].archive] = x
               /\ request'[x].status = "completed" => request'[x].archive # None
    <3>1. /\ request'[x].archive = request[x].archive
          /\ request'[x].status \in {request[x].status, "declined"}
      BY <1>6, <1>7
    <3>2. Recorded(x)
      BY <1>10, <2>1
    <3> QED BY <3>1, <3>2 DEF IInv, ArchiveWhole
  <2>2. ASSUME NEW k \in Archives, archive[k] # None
        PROVE  /\ k \in stored /\ Completed(archive[k])
               /\ <<"completed", archive[k]>> \in told'
    BY <1>3, <2>2 DEF IInv, ArchiveWhole
  <2> QED BY <1>3, <1>9, <2>1, <2>2 DEF ArchiveWhole, Completed, Sent
\* Who is credited with a signature is not the one who rejects.
<1>14. AnsweredIsRecorded'
  <2>1. \A f : RowsOf(f)' = RowsOf(f)
    BY <1>9, RowsKept
  <2>2. ASSUME NEW f \in answered, f.kind = "signed", NEW x \in RowsOf(f)
        PROVE  request'[f.doc].recipient[x] = "signed"
    <3>1. f \in events /\ x \in Recipients /\ f.doc \in Docs
      BY RowsOfFacts, EventFields DEF IInv, TypeOK
    <3>2. request[f.doc].recipient[x] = "signed"
      BY <2>2 DEF IInv, AnsweredIsRecorded
    <3>3. CASE f.doc = d
      <4>1. f.who \subseteq envelope[d].signed
        BY <2>2, <3>1, <3>3 DEF IInv, EventsSound
      <4>2. x \notin RowsOf(e)
        BY <1>2, <1>5, <3>3, <4>1, RowsDisjoint
      <4>3. names[x] = "signed"
        BY <3>1, <3>2, <3>3, <4>2
      <4> HIDE DEF names
      <4> QED BY <1>6, <1>7, <3>3, <4>3
    <3>4. CASE f.doc # d
      BY <1>7, <3>1, <3>2, <3>4
    <3> QED BY <3>3, <3>4
  <2>3. ASSUME NEW f \in answered
        PROVE  /\ f.kind = "rejected" => <<"declined", f.doc>> \in told'
               /\ f.kind = "completed" => ArchivesOf(f.doc)' # {}
    BY <1>3 DEF IInv, AnsweredIsRecorded, ArchivesOf
  <2>4. <<"declined", e.doc>> \in told'
    BY <1>2, <1>3
  <2> QED BY <1>3, <1>4, <2>1, <2>2, <2>3, <2>4 DEF AnsweredIsRecorded
<1>15. RecordsSound'
  <2>1. \A f \in answered' : f \in events /\ Recorded(f.doc)
    BY <1>2, <1>3, <1>4 DEF IInv, TypeOK, RecordsSound
  <2> QED BY <1>10, <2>1, EventFields DEF RecordsSound
<1>16. HookSound'
  BY <1>3 DEF HookSound, Idle
\* A document that somebody rejected was not completed, so nothing of it is
\* archived unless it was voided.
<1>17. ArchivesSound'
  <2>1. d \notin voids => ArchivesOf(d) = {}
    <3> SUFFICES ASSUME d \notin voids, ArchivesOf(d) # {} PROVE FALSE
      OBVIOUS
    <3>1. Completed(d)
      BY <1>4 DEF IInv, ArchivesSound, StatusBacked
    <3> QED BY <1>5, <3>1 DEF Completed, Rejected, Envelope
  <2>2. \A x : ArchivesOf(x)' = ArchivesOf(x)
    BY <1>3 DEF ArchivesOf
  <2> SUFFICES ASSUME NEW x \in Docs \ voids
               PROVE  /\ ArchivesOf(x)' # {}
                           => Recorded(x)' /\ request'[x].status = "completed"
                      /\ \A k, l \in ArchivesOf(x)' : k = l
    BY <1>3 DEF ArchivesSound
  <2>3. CASE x = d
    BY <2>1, <2>2, <2>3
  <2>4. CASE x # d
    <3>1. request'[x] = request[x]
      BY <1>7, <2>4
    <3> QED BY <1>10, <2>2, <3>1 DEF IInv, ArchivesSound
  <2> QED BY <2>3, <2>4
<1>18. SessionsSound'
  BY <1>3, <1>9, <1>10, HookKeepsSessions
<1> QED BY <1>3, <1>11, <1>12, <1>13, <1>14, <1>15, <1>16, <1>17, <1>18,
           DocumensoKeeps DEF IInv

LEMMA CommitCompletedPreserves ==
    ASSUME IInv, CommitCompleted
    PROVE  IInv'
<1>1. PICK e : e = hook.event
  OBVIOUS
<1>2. PICK d : d = e.doc
  OBVIOUS
<1>3. PICK key : key = hook.key
  OBVIOUS
<1> DEFINE row == [request[d] EXCEPT !.status = "completed", !.archive = key]
<1>4. /\ hook.op = "completed" /\ key # None
      /\ archive' = [archive EXCEPT ![key] = d]
      /\ told' = told \cup {<<"completed", d>>}
      /\ hook' = Idle /\ answered' = answered \cup {e}
      /\ UNCHANGED <<documenso, stored, voids, session, now>>
  BY <1>1, <1>2, <1>3 DEF CommitCompleted, Answer
<1>5. /\ e \in events /\ d \in Docs /\ Recorded(d) /\ e.kind = "completed"
      /\ key \in Archives /\ key \in stored /\ archive[key] = None
      /\ d \notin voids => ArchivesOf(d) = {}
  BY <1>1, <1>2, <1>3, <1>4, EventFields, HookFields DEF IInv, HookSound
<1>6. request[d] \in RequestRow /\ Completed(d)
  BY <1>2, <1>5 DEF IInv, TypeOK, Recorded, EventsSound
<1>7. /\ row \in RequestRow /\ row.recipient = request[d].recipient
      /\ row.status = "completed" /\ row.archive = key
  BY <1>5, <1>6 DEF RequestRow
<1>8. /\ request' = [request EXCEPT ![d] = row]
      /\ request'[d] = row
      /\ \A x \in Docs \ {d} : request'[x] = request[x]
  <2>1. request \in [Docs -> RequestRow \cup {None}]
    BY DEF IInv, TypeOK
  <2>2. request' = [request EXCEPT ![d].status = "completed",
                                   ![d].archive = key]
    BY <1>1, <1>2, <1>3 DEF CommitCompleted
  <2>3. request' = [request EXCEPT ![d] = row]
    BY <1>5, <1>6, <2>1, <2>2 DEF RequestRow
  <2> HIDE DEF row
  <2> QED BY <1>5, <2>1, <2>3
<1> HIDE DEF row
<1>9. request'[d] # None
  BY <1>7, <1>8, NoneAssumption
<1>10. UNCHANGED <<envelope, events>>
  BY <1>4 DEF documenso
<1>11. /\ \A x \in Docs : Recorded(x)' <=> Recorded(x)
       /\ \A x \in Docs : Recorded(x)' => Sent(x)'
  BY <1>5, <1>8, <1>9, <1>10, RewriteKeeps
<1>12. /\ archive'[key] = d
       /\ \A k \in Archives \ {key} : archive'[k] = archive[k]
  BY <1>4, <1>5 DEF IInv, TypeOK
<1>13. TypeOK'
  <2>1. request' \in [Docs -> RequestRow \cup {None}]
    BY <1>7, <1>8 DEF IInv, TypeOK
  <2>2. archive' \in [Archives -> Docs \cup {None}]
    BY <1>4, <1>5 DEF IInv, TypeOK
  <2>3. told' \subseteq {"completed", "declined"} \X Docs
    BY <1>4, <1>5 DEF IInv, TypeOK
  <2> QED BY <1>4, <1>5, <1>10, <2>1, <2>2, <2>3 DEF IInv, TypeOK
<1>14. StatusBacked'
  <2>1. BackedAt(d)
    BY <1>5 DEF IInv, StatusBacked, BackedAt
  <2>2. BackedAt(d)'
    BY <1>6, <1>7, <1>8, <1>10, <2>1
       DEF BackedAt, Completed, Rejected, Sent, SameEmail
  <2> QED BY <1>5, <1>8, <1>10, <2>2, OtherRowsBacked
\* Nothing that was archived is lost, and no document is None.
<1>15. \A x \in Docs : \A k \in ArchivesOf(x) : archive'[k] = x /\ k # key
  BY <1>5, <1>12, NoneAssumption DEF ArchivesOf
<1>16. ArchiveWhole'
  <2>1. ASSUME NEW x \in Docs, Recorded(x)'
        PROVE  /\ request'[x].archive # None => archive'[request'[x].archive] = x
               /\ request'[x].status = "completed" => request'[x].archive # None
    <3>1. CASE x = d
      BY <1>4, <1>7, <1>8, <1>12, <3>1
    <3>2. CASE x # d
      <4>1. request'[x] = request[x] /\ Recorded(x)
        BY <1>8, <1>11, <2>1, <3>2
      <4>2. request[x] \in RequestRow
        BY <4>1 DEF IInv, TypeOK, Recorded
      <4>3. request[x].archive # None => request[x].archive \in ArchivesOf(x)
        BY <4>1, <4>2 DEF IInv, ArchiveWhole, ArchivesOf, RequestRow
      <4> QED BY <1>15, <4>1, <4>3 DEF IInv, ArchiveWhole
    <3> QED BY <3>1, <3>2
  <2>2. ASSUME NEW k \in Archives, archive'[k] # None
        PROVE  /\ k \in stored /\ Completed(archive'[k])
               /\ <<"completed", archive'[k]>> \in told'
    <3>1. CASE k = key
      BY <1>4, <1>5, <1>6, <1>12, <3>1
    <3>2. CASE k # key
      BY <1>4, <1>12, <2>2, <3>2 DEF IInv, ArchiveWhole
    <3> QED BY <3>1, <3>2
  <2> QED BY <1>4, <1>10, <2>1, <2>2 DEF ArchiveWhole, Completed, Sent
<1>17. AnsweredIsRecorded'
  <2>1. \A f : RowsOf(f)' = RowsOf(f)
    BY <1>10, RowsKept
  <2>2. ASSUME NEW x \in Docs
        PROVE  request'[x].recipient = request[x].recipient
    BY <1>7, <1>8
  <2>3. ASSUME NEW f \in answered
        PROVE  /\ f.kind = "signed" => \A x \in RowsOf(f)' :
                     request'[f.doc].recipient[x] = "signed"
               /\ f.kind = "rejected" => <<"declined", f.doc>> \in told'
               /\ f.kind = "completed" => ArchivesOf(f.doc)' # {}
    <3>1. f.doc \in Docs
      BY EventFields DEF IInv, TypeOK
    <3>2. ArchivesOf(f.doc) # {} => ArchivesOf(f.doc)' # {}
      BY <1>15, <3>1 DEF ArchivesOf
    <3> QED BY <1>4, <2>1, <2>2, <3>1, <3>2 DEF IInv, AnsweredIsRecorded
  <2>4. ArchivesOf(e.doc)' # {}
    BY <1>2, <1>5, <1>12 DEF ArchivesOf
  <2> QED BY <1>4, <1>5, <2>3, <2>4 DEF AnsweredIsRecorded
<1>18. RecordsSound'
  <2>1. \A f \in answered' : f \in events /\ Recorded(f.doc)
    BY <1>2, <1>4, <1>5 DEF IInv, TypeOK, RecordsSound
  <2> QED BY <1>11, <2>1, EventFields DEF RecordsSound
<1>19. HookSound'
  BY <1>4 DEF HookSound, Idle
\* The first archive of a document that was never voided.
<1>20. ArchivesSound'
  <2> SUFFICES ASSUME NEW x \in Docs \ voids
               PROVE  /\ ArchivesOf(x)' # {}
                           => Recorded(x)' /\ request'[x].status = "completed"
                      /\ \A k, l \in ArchivesOf(x)' : k = l
    BY <1>4 DEF ArchivesSound
  <2>1. CASE x = d
    <3>1. ArchivesOf(x)' \subseteq {key}
      BY <1>5, <1>12, <2>1 DEF ArchivesOf
    <3> QED BY <1>5, <1>7, <1>8, <1>11, <2>1, <3>1
  <2>2. CASE x # d
    <3>1. request'[x] = request[x]
      BY <1>8, <2>2
    <3>2. ArchivesOf(x)' \subseteq ArchivesOf(x)
      BY <1>12, <2>2 DEF ArchivesOf
    <3> QED BY <1>11, <3>1, <3>2 DEF IInv, ArchivesSound
  <2> QED BY <2>1, <2>2
<1>21. SessionsSound'
  BY <1>4, <1>10, <1>11, HookKeepsSessions
<1> QED BY <1>4, <1>13, <1>14, <1>16, <1>17, <1>18, <1>19, <1>20, <1>21,
           DocumensoKeeps DEF IInv

-----------------------------------------------------------------------------
(* The invariant, and what follows from it. *)

LEMMA InitEstablishes == Init => IInv
<1> SUFFICES ASSUME Init PROVE IInv
  OBVIOUS
<1>1. TypeOK
  BY TimeAssumption DEF Init, TypeOK, Idle
<1>2. \A d \in Docs : ~Recorded(d) /\ ~Sent(d) /\ ArchivesOf(d) = {}
  BY NoneAssumption DEF Init, Recorded, Sent, ArchivesOf
<1>3. StatusBacked /\ EnvelopesSound /\ ArchivesSound
  BY <1>2 DEF StatusBacked, EnvelopesSound, ArchivesSound
<1>4. ArchiveWhole
  BY <1>2 DEF Init, ArchiveWhole
<1>5. AnsweredIsRecorded /\ EventsSound /\ RecordsSound
  BY <1>2 DEF Init, AnsweredIsRecorded, EventsSound, RecordsSound
<1>6. SessionsSound /\ HookSound
  BY DEF Init, SessionsSound, HookSound, Idle
<1> QED BY <1>1, <1>3, <1>4, <1>5, <1>6 DEF IInv

LEMMA StepPreserves == IInv /\ [Next]_vars => IInv'
<1> SUFFICES ASSUME IInv, [Next]_vars PROVE IInv'
  OBVIOUS
<1>1. CASE Signers
  BY <1>1, SignPreserves, RejectPreserves DEF Signers
<1>2. CASE Requests
  BY <1>2, SendEnvelopePreserves, InsertRequestPreserves, ReadForVoidPreserves,
     DeleteEnvelopePreserves, CommitVoidPreserves, AbortPreserves DEF Requests
<1>3. CASE Webhooks
  BY <1>3, ReceiveSignedPreserves, ReceiveRejectedPreserves,
     CompletedAgainPreserves, ReceiveCompletedPreserves, MarkSignedPreserves,
     CommitDeclinedPreserves, ArchivePdfPreserves, CommitCompletedPreserves,
     HookFailsPreserves DEF Webhooks
<1>4. CASE Tick
  BY <1>4, TickPreserves
<1>5. CASE UNCHANGED vars
  <2>1. UNCHANGED <<documenso, database, stored, answered, hook, session, now>>
    BY <1>5 DEF vars, documenso, database
  <2>2. UNCHANGED vars
    BY <1>5
  <2>3. TypeOK'
    BY <2>2 DEF IInv, TypeOK, vars
  <2>4. SessionsSound'
    BY <2>2 DEF IInv, SessionsSound, Sent, Recorded, vars
  <2> QED BY <2>1, <2>3, <2>4, QuietKeeps
<1> QED BY <1>1, <1>2, <1>3, <1>4, <1>5 DEF Next

LEMMA Invariance == Spec => []IInv
BY InitEstablishes, StepPreserves, PTL DEF Spec

\* The state keeps its types, whatever Documenso delivers.
THEOREM SignaturesTypeCorrect == Spec => []TypeOK
<1>1. IInv => TypeOK
  BY DEF IInv
<1> QED BY <1>1, Invariance, PTL

\* For any recipients, addresses and deliveries, a request's status and its
\* recipients' are what happened to its envelope: no webhook and no void
\* records a signature, a rejection or a completion that was not there.
THEOREM StatusIsBacked == Spec => []StatusBacked
<1>1. IInv => StatusBacked
  BY DEF IInv
<1> QED BY <1>1, Invariance, PTL

\* Every archived contract is whole: its PDF is in storage, everyone signed,
\* the requester was told; and requests point to archives of their own.
THEOREM ArchivesAreWhole == Spec => []ArchiveWhole
<1>1. IInv => ArchiveWhole
  BY DEF IInv
<1> QED BY <1>1, Invariance, PTL

\* Of a webhook answered 200, the recipients it recorded as signed, the notice
\* of a rejection and the archive of a completion stay whatever is delivered
\* later and also if the request is voided; its status may not, for a void
\* overwrites it (void, service.py).
THEOREM AnsweredStaysRecorded == Spec => []AnsweredIsRecorded
<1>1. IInv => AnsweredIsRecorded
  BY DEF IInv
<1> QED BY <1>1, Invariance, PTL

\* However often its completion is delivered, and wherever a handler fails, a
\* request that was never voided has one archived contract at most.
THEOREM ArchivedAtMostOnce == Spec => []OneArchive
<1>1. IInv => OneArchive
  <2> SUFFICES ASSUME IInv, NEW d \in Docs \ voids
               PROVE  Cardinality(ArchivesOf(d)) <= 1
    BY DEF OneArchive
  <2>1. CASE ArchivesOf(d) = {}
    BY <2>1, FS_EmptySet
  <2>2. CASE ArchivesOf(d) # {}
    <3>1. PICK k \in ArchivesOf(d) : TRUE
      BY <2>2
    <3>2. ArchivesOf(d) = {k}
      BY <3>1 DEF IInv, ArchivesSound
    <3>3. Cardinality({k}) = 1
      BY FS_Singleton, Zenon
    <3> QED BY <3>2, <3>3
  <2> QED BY <2>1, <2>2
<1> QED BY <1>1, Invariance, PTL
=============================================================================
