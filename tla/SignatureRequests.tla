------------------------- MODULE SignatureRequests -------------------------
(***************************************************************************)
(* Signature requests and the envelopes that stand behind them.            *)
(*                                                                         *)
(* A request is sent as an envelope to Documenso, an external service,     *)
(* which tells of every signature by webhook. A webhook may arrive late,   *)
(* again, out of order or never: an event stays in `events' and may be     *)
(* delivered any number of times. The webhook route is a coroutine that    *)
(* calls its handlers without awaiting, so one process handles one webhook *)
(* at a time (`hook'); sending and voiding run in the thread pool          *)
(* (`session') and interleave with it. A handler commits as a whole, the   *)
(* one for signatures once per recipient.                                  *)
(***************************************************************************)
EXTENDS Integers, FiniteSets, FiniteSetsExt

CONSTANTS
    Docs,           \* Documenso document ids, and the request sent as each
    Recipients,     \* positions in the list of recipients: 1, 2, ...
    Emails,
    Archives,       \* keys of archived PDFs, and their signed_contracts rows
    Sessions,       \* send and void requests that can be in flight at once
    MaxTime,        \* bound on the clock
    None

ASSUME RecipientsAssumption ==
    IsFiniteSet(Recipients) /\ Recipients = 1..Cardinality(Recipients)

ASSUME TimeAssumption == MaxTime \in Nat

VARIABLES
    envelope,       \* Documenso: the document, or None
    events,         \* Documenso: webhooks it has sent or will send
    request,        \* signature_requests with its recipients, or None
    archive,        \* signed_contracts: the request a row was made for, or None
    stored,         \* signed PDFs in object storage
    told,           \* notices to the requester
    voids,          \* SIGNATURE_REQUEST_VOIDED entries of the audit log
    answered,       \* events answered 200 by a handler that found its request
    hook,           \* the webhook being handled
    session,        \* send and void requests in flight
    now

database == <<request, archive, told, voids>>
documenso == <<envelope, events>>
vars == <<envelope, events, request, archive, stored, told, voids, answered,
          hook, session, now>>

Event == [kind : {"signed", "rejected", "completed"}, doc : Docs,
          who : SUBSET Recipients]

Envelope == [email : [Recipients -> Emails], signed : SUBSET Recipients,
             rejected : SUBSET Recipients, deleted : BOOLEAN]

RequestRow == [status : {"pending", "completed", "declined", "voided"},
               recipient : [Recipients -> {"pending", "signed", "declined"}],
               signed_at : [Recipients -> 0..MaxTime \cup {None}],
               archive : Archives \cup {None}]

ASSUME NoneAssumption ==
    None \notin Docs \cup Archives \cup Envelope \cup RequestRow

Idle == [op |-> "idle"]

TypeOK ==
    /\ envelope \in [Docs -> Envelope \cup {None}]
    /\ events \subseteq Event
    /\ request \in [Docs -> RequestRow \cup {None}]
    /\ archive \in [Archives -> Docs \cup {None}]
    /\ stored \subseteq Archives
    /\ told \subseteq {"completed", "declined"} \X Docs
    /\ voids \subseteq Docs
    /\ answered \subseteq events
    /\ hook \in {Idle}
         \cup [op : {"signed"}, event : Event, todo : SUBSET Recipients]
         \cup [op : {"rejected"}, event : Event, moves : BOOLEAN]
         \cup [op : {"completed"}, event : Event, key : Archives \cup {None}]
    /\ session \in [Sessions -> {Idle}
         \cup [op : {"send"}, doc : Docs]
         \cup [op : {"void", "commit_void"}, doc : Docs, moves : BOOLEAN]]
    /\ now \in 0..MaxTime

Init ==
    /\ envelope = [d \in Docs |-> None]
    /\ events = {}
    /\ request = [d \in Docs |-> None]
    /\ archive = [k \in Archives |-> None]
    /\ stored = {}
    /\ told = {}
    /\ voids = {}
    /\ answered = {}
    /\ hook = Idle
    /\ session = [s \in Sessions |-> Idle]
    /\ now = 0

-----------------------------------------------------------------------------
Sent(d) == envelope[d] # None

Recorded(d) == request[d] # None

\* Every recipient signed; nobody can then reject, and nobody signs after a
\* rejection.
Completed(d) == Sent(d) /\ envelope[d].signed = Recipients

Rejected(d) == Sent(d) /\ envelope[d].rejected # {}

\* create_and_send finds a recipient's Documenso id by e-mail address, in a
\* dictionary where the last recipient with an address wins.
DocumensoId(d, r) ==
    Max({i \in Recipients : envelope[d].email[i] = envelope[d].email[r]})

\* The handlers take the first recipient with the id an event names.
RowFor(d, i) ==
    LET matching == {r \in Recipients : DocumensoId(d, r) = i}
    IN  IF matching = {} THEN {} ELSE {Min(matching)}

\* Variant: recipients taken from the payload whatever their signingStatus.
EveryRowOf(e) == UNION {RowFor(e.doc, i) : i \in Recipients}

RowsOf(e) == UNION {RowFor(e.doc, i) : i \in e.who}

Take(s, step) ==
    /\ session[s] = Idle
    /\ session' = [session EXCEPT ![s] = step]

Finish(s) == session' = [session EXCEPT ![s] = Idle]

Answer(e) == hook' = Idle /\ answered' = answered \cup {e}

-----------------------------------------------------------------------------
(* Documenso and its signers. *)

\* A signature; the last one completes the document.
Sign(d, i) ==
    /\ Sent(d) /\ ~envelope[d].deleted /\ ~Rejected(d)
    /\ i \notin envelope[d].signed
    /\ LET signed == envelope[d].signed \cup {i} IN
       /\ envelope' = [envelope EXCEPT ![d].signed = signed]
       /\ events' = events
            \cup {[kind |-> "signed", doc |-> d, who |-> signed]}
            \cup {e \in {[kind |-> "completed", doc |-> d, who |-> signed]} :
                    signed = Recipients}
    /\ UNCHANGED <<database, stored, answered, hook, session, now>>

Reject(d, i) ==
    /\ Sent(d) /\ ~envelope[d].deleted /\ ~Rejected(d)
    /\ i \notin envelope[d].signed
    /\ envelope' = [envelope EXCEPT ![d].rejected = {i}]
    /\ events' = events
         \cup {[kind |-> "rejected", doc |-> d, who |-> {i}]}
    /\ UNCHANGED <<database, stored, answered, hook, session, now>>

-----------------------------------------------------------------------------
(* create_and_send *)

\* The envelope goes out before anything is written.
SendEnvelope(s, d, email) ==
    /\ ~Sent(d)
    /\ envelope' = [envelope EXCEPT ![d] =
         [email |-> email, signed |-> {}, rejected |-> {}, deleted |-> FALSE]]
    /\ Take(s, [op |-> "send", doc |-> d])
    /\ UNCHANGED <<events, database, stored, answered, hook, now>>

\* Variant: a fifth status.
DraftStatus == "draft"

InitialStatus == "pending"

\* The rows of request and recipients, the audit entry and the commit.
InsertRequest(s) ==
    LET d == session[s].doc IN
    /\ session[s].op = "send"
    /\ request' = [request EXCEPT ![d] =
         [status |-> InitialStatus,
          recipient |-> [r \in Recipients |-> "pending"],
          signed_at |-> [r \in Recipients |-> None], archive |-> None]]
    /\ Finish(s)
    /\ UNCHANGED <<documenso, archive, stored, told, voids, answered, hook, now>>

-----------------------------------------------------------------------------
(* void *)

\* The request is looked up; no status keeps it from being voided. (The ORM
\* sends no UPDATE for a status that was VOIDED when it was read.)
ReadForVoid(s, d) ==
    /\ Recorded(d)
    /\ Take(s, [op |-> "void", doc |-> d,
                moves |-> request[d].status # "voided"])
    /\ UNCHANGED <<documenso, database, stored, answered, hook, now>>

\* Documenso deletes the document, completed or not.
DeleteEnvelope(s) ==
    LET d == session[s].doc IN
    /\ session[s].op = "void"
    /\ envelope' = [envelope EXCEPT ![d].deleted = TRUE]
    /\ session' = [session EXCEPT ![s].op = "commit_void"]
    /\ UNCHANGED <<events, database, stored, answered, hook, now>>

CommitVoid(s) ==
    LET r == session[s] IN
    /\ r.op = "commit_void"
    /\ request' = IF r.moves
                  THEN [request EXCEPT ![r.doc].status = "voided"]
                  ELSE request
    /\ voids' = voids \cup {r.doc}
    /\ Finish(s)
    /\ UNCHANGED <<documenso, archive, stored, told, answered, hook, now>>

\* A send or a void dies at any point: what Documenso did stays done.
Abort(s) ==
    /\ session[s] # Idle
    /\ Finish(s)
    /\ UNCHANGED <<documenso, database, stored, answered, hook, now>>

-----------------------------------------------------------------------------
(* The webhook. An event for a request that is not in the database, or not *)
(* yet, is answered 200 and changes nothing: no action models it.          *)

Receive(e, kind) ==
    /\ hook = Idle
    /\ e \in events
    /\ e.kind = kind
    /\ Recorded(e.doc)

\* DOCUMENT_SIGNED: one handler call, with its commit, per recipient that the
\* payload has as SIGNED. Recipients whose id no row has are passed over.
ReceiveSigned(e) ==
    /\ Receive(e, "signed")
    /\ IF RowsOf(e) = {}
       THEN Answer(e)
       ELSE /\ hook' = [op |-> "signed", event |-> e, todo |-> RowsOf(e)]
            /\ UNCHANGED answered
    /\ UNCHANGED <<documenso, database, stored, session, now>>

\* Variant: the loop ends with the first recipient it records.
NoneLeft(r) == {}

Left(r) == hook.todo \ {r}

\* handle_recipient_signed: the status and the time are written again for a
\* recipient that has them.
MarkSigned(r) ==
    LET d == hook.event.doc IN
    /\ hook.op = "signed"
    /\ r \in hook.todo
    /\ request' = [request EXCEPT ![d].recipient[r] = "signed",
                                  ![d].signed_at[r] = now]
    /\ IF Left(r) = {}
       THEN Answer(hook.event)
       ELSE hook' = [hook EXCEPT !.todo = Left(r)] /\ UNCHANGED answered
    /\ UNCHANGED <<documenso, archive, stored, told, voids, session, now>>

\* DOCUMENT_REJECTED: handle_recipient_declined for the one who rejected.
ReceiveRejected(e) ==
    /\ Receive(e, "rejected")
    /\ hook' = [op |-> "rejected", event |-> e,
                moves |-> request[e.doc].status # "declined"]
    /\ UNCHANGED <<documenso, database, stored, answered, session, now>>

\* Whatever became of the request since is overwritten, the void excepted
\* that a redelivery did not see. A recipient without a row is passed over.
CommitDeclined ==
    LET e == hook.event
        row == request[e.doc]
    IN
    /\ hook.op = "rejected"
    /\ request' = [request EXCEPT ![e.doc] = [row EXCEPT
         !.recipient = [r \in Recipients |->
                          IF r \in RowsOf(e) THEN "declined" ELSE @[r]],
         !.status = IF hook.moves THEN "declined" ELSE @]]
    /\ told' = told \cup {<<"declined", e.doc>>}
    /\ Answer(e)
    /\ UNCHANGED <<documenso, archive, stored, voids, session, now>>

\* Variant: redeliveries are handled like first deliveries.
Unfinished(d) == TRUE

\* handle_document_completed returns for a COMPLETED request.
NotCompleted(d) == request[d].status # "completed"

\* DOCUMENT_COMPLETED for a request that is COMPLETED already.
CompletedAgain(e) ==
    /\ Receive(e, "completed")
    /\ ~NotCompleted(e.doc)
    /\ Answer(e)
    /\ UNCHANGED <<documenso, database, stored, session, now>>

ReceiveCompleted(e) ==
    /\ Receive(e, "completed")
    /\ NotCompleted(e.doc)
    /\ hook' = [op |-> "completed", event |-> e, key |-> None]
    /\ UNCHANGED <<documenso, database, stored, answered, session, now>>

\* Variant: the upload is forgotten.
NotUploaded(k) == stored

Uploaded(k) == stored \cup {k}

\* The signed PDF is downloaded and uploaded under a fresh key.
ArchivePdf(k) ==
    /\ hook.op = "completed"
    /\ hook.key = None
    /\ k \notin stored
    /\ stored' = Uploaded(k)
    /\ hook' = [hook EXCEPT !.key = k]
    /\ UNCHANGED <<documenso, database, answered, session, now>>

\* The SignedContract, the request's new status, the notice and the commit.
CommitCompleted ==
    LET e == hook.event IN
    /\ hook.op = "completed"
    /\ hook.key # None
    /\ archive' = [archive EXCEPT ![hook.key] = e.doc]
    /\ request' = [request EXCEPT ![e.doc].status = "completed",
                                  ![e.doc].archive = hook.key]
    /\ told' = told \cup {<<"completed", e.doc>>}
    /\ Answer(e)
    /\ UNCHANGED <<documenso, stored, voids, session, now>>

\* A handler fails: Documenso or storage is down, the database refuses, the
\* process dies. The event is not answered; what was uploaded stays.
HookFails ==
    /\ hook # Idle
    /\ hook' = Idle
    /\ UNCHANGED <<documenso, database, stored, answered, session, now>>

Tick ==
    /\ now < MaxTime
    /\ now' = now + 1
    /\ UNCHANGED <<documenso, database, stored, answered, hook, session>>

-----------------------------------------------------------------------------
Signers == \E d \in Docs, i \in Recipients : Sign(d, i) \/ Reject(d, i)

Requests == \E s \in Sessions :
    \/ \E d \in Docs, email \in [Recipients -> Emails] : SendEnvelope(s, d, email)
    \/ InsertRequest(s)
    \/ \E d \in Docs : ReadForVoid(s, d)
    \/ DeleteEnvelope(s)
    \/ CommitVoid(s)
    \/ Abort(s)

Webhooks ==
    \/ \E e \in events :
         ReceiveSigned(e) \/ ReceiveRejected(e)
         \/ CompletedAgain(e) \/ ReceiveCompleted(e)
    \/ \E r \in Recipients : MarkSigned(r)
    \/ CommitDeclined
    \/ \E k \in Archives : ArchivePdf(k)
    \/ CommitCompleted
    \/ HookFails

Next == Signers \/ Requests \/ Webhooks \/ Tick

Spec == Init /\ [][Next]_vars

-----------------------------------------------------------------------------
SameEmail(d, r) == {i \in Recipients : envelope[d].email[i] = envelope[d].email[r]}

\* Nothing is recorded that did not happen: a request's status and every
\* recipient's status agree with what the envelope went through, and a
\* recipient is credited only with what somebody with the same address did
\* (the three webhook handlers and void, in any order of deliveries).
StatusBacked ==
    \A d \in Docs : Recorded(d) =>
        LET row == request[d] IN
        /\ row.status = "completed" => Completed(d)
        /\ row.status = "declined" => Rejected(d)
        /\ row.status = "voided" => envelope[d].deleted
        /\ \A r \in Recipients :
             /\ row.recipient[r] = "signed"
                  => SameEmail(d, r) \cap envelope[d].signed # {}
             /\ row.recipient[r] = "declined"
                  => SameEmail(d, r) \cap envelope[d].rejected # {}

\* An archived contract has its PDF in storage, belongs to a document that
\* everyone signed and was announced to the requester; a request points to an
\* archived contract of its own, and a COMPLETED one does point to one
\* (handle_document_completed uploads first and commits the rest as one).
ArchiveWhole ==
    /\ \A k \in Archives : archive[k] # None =>
         /\ k \in stored
         /\ Completed(archive[k])
         /\ <<"completed", archive[k]>> \in told
    /\ \A d \in Docs : Recorded(d) =>
         /\ request[d].archive # None => archive[request[d].archive] = d
         /\ request[d].status = "completed" => request[d].archive # None

ArchivesOf(d) == {k \in Archives : archive[k] = d}

\* However often DOCUMENT_COMPLETED is delivered, retried or half done, a
\* request that was never voided is archived at most once. (A void of a
\* COMPLETED request lets the next delivery archive it again.)
OneArchive ==
    \A d \in Docs \ voids : Cardinality(ArchivesOf(d)) <= 1

\* A webhook that was answered 200 for a known request has left its mark, and
\* no later delivery or void takes it away (Documenso does not repeat what was
\* answered): all recipients it names are recorded as signed, the rejection is
\* announced, a completed document has an archive. The status of the request
\* is no part of it: a void overwrites COMPLETED and DECLINED.
AnsweredIsRecorded ==
    \A e \in answered :
        /\ e.kind = "signed" =>
             \A r \in RowsOf(e) : request[e.doc].recipient[r] = "signed"
        /\ e.kind = "rejected" => <<"declined", e.doc>> \in told
        /\ e.kind = "completed" => ArchivesOf(e.doc) # {}

\* The time of a signature stays: a delivery for a recipient that is recorded
\* as signed is a no-op, as the comment in the webhook route has it.
SignedAtKept ==
    [][\A d \in Docs, r \in Recipients :
          Recorded(d) /\ request[d].recipient[r] = "signed"
              => request'[d].signed_at[r] = request[d].signed_at[r]]_vars
=============================================================================
