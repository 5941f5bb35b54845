# LegalVault in TLA+

LegalVault is a multi-tenant practice-management system for law firms: a
FastAPI + SQLAlchemy backend on PostgreSQL, a React frontend, Celery for daily
reminders, Cloudflare R2 for files, Documenso for e-signatures, ClamAV and a
language model behind HTTP clients. This directory holds TLA+ models of its
core, the TLC configurations that check them and TLAPS proofs about them: the
backend's contracts, signatures, documents, sessions and circuit breaker, and the
frontend's session and pages. `PROJECT.json` maps every definition to the source
lines it stands for.

    tlc -workers 2 -config ContractLifecycle.cfg MCContractLifecycle.tla
    tlapm ContractLifecycle_proofs.tla

Paths below are relative to `src/backend/app/` unless they start with `src/`; those
of the frontend (`client.ts`, `App.tsx`, the pages) lie in `src/frontend/src/`.

## How the program runs, and what that means for the models

* One uvicorn process (`src/backend/Procfile`, `src/render.yaml`). Synchronous routes,
  which is nearly all of them, run in its thread pool: any two of their requests
  interleave, and with a coroutine's. A few routes are coroutines (uploads of documents,
  templates and signed contracts, the Documenso webhook, the submission of an intake form)
  and await nothing once they have read the body: one of these at a time runs on the
  event loop, and no two of them overlap.
* One database session per request (`database/session.py`), PostgreSQL's default
  READ COMMITTED, no `SELECT ... FOR UPDATE`, no version columns. An UPDATE names its
  row by primary key and writes only the columns that differ from what the session
  read. So a request is modelled as a step that *reads* (with all checks) and a step
  that *writes* (the flush and the commit); a third one where something outside the
  transaction happens between them: Documenso deletes a document, an access token is
  signed after the commit. `Abort` is the request that dies between its steps: what
  it did not commit is gone, what it did elsewhere stays.
* The ORM's "no UPDATE for an unchanged column" matters when two requests write the
  same row; the models keep it as a field `moves` of the request in flight.
* So one process handles one webhook at a time (`hook`), and uploads of documents run
  one by one (`UnderWay`).
* Storage (R2) and the database are written one after the other, in no common
  transaction: each is a step, and the process can die between them.
* The frontend is one thread per tab: a handler runs to its next `await` in one
  step, and what it holds in its closure is what it read before. Between awaits the
  other handlers, effects and timers of the page take their steps, other tabs and
  other users theirs. `localStorage` is all that tabs share. Pages keep nothing
  between visits and nothing beside their own state: no store, no cache, no
  abort of a `fetch`.
* The test suite is sequential: one client, one request after another. Everything
  that needs two requests in flight, a repeated or late webhook, or a crash between
  two steps, is out of its sight; that is what these models are aimed at. The frontend's
  seven test files render one component against stubbed calls, in a fixed order.

## Inventory

| Part | State | Operations | What is hard | What makes it correct |
|---|---|---|---|---|
| Contracts (`modules/contracts`) | `contracts.status`, `contract_approvals`, assignments, documents, tasks, messages | create, update details and status, ask for and decide approvals, assign staff, upload and delete documents | read-then-write races on status and approvals; approvals that outlive the stage they were asked in; file store against database | no signed or closed contract without the approval; one pending approval; people who may decide are told; dead contracts stay dead |
| Signatures (`modules/signatures`, `core/documenso_client.py`) | `signature_requests`, `signature_recipients`, Documenso's documents | send, void, webhook handlers for signed, rejected, completed | envelope before row; repeated, late, lost, reordered webhooks; void racing completion; a handler that fails half way | nothing recorded that did not happen; archives whole and not doubled; an answered webhook has left its mark |
| Circuit breaker (`core/circuit_breaker.py`; used by `core/storage.py`, `core/malware_scan.py`, `core/documenso_client.py`, `core/llm_client.py`) | failure count, time of opening | call | the lock is not held during the call: results in any order; the half-open state | opens exactly on a streak, sheds load in an outage, closes after a recovery |
| Sessions of staff (`modules/auth`) | `refresh_tokens`, `users.is_active`, `tokens_invalid_before`, reset link; JWTs in the hands of clients | login, refresh, logout, forced logout, (de)activation, password reset, the check of every request | purges that race logins and refreshes; rotation races; whole seconds against microseconds; overlapping purges | a purge ends what was there before; rotation does not multiply sessions |
| Owner and staff invitations (`modules/owner/routes.py`, `modules/auth/services`) | organizations, users, invites | onboard, suspend, delete an organization; invite, accept | deletion spans twenty tables in one transaction | all or nothing; no orphan rows |
| Frontend session (`api/client.ts`, `App.tsx`, `api/auth.ts`) | access and refresh token and kind of actor in `localStorage`; per tab the actor, a shared refresh in flight | restore, sign in (staff, owner), request, refresh and retry after 401, log out | concurrent 401s, several tabs, reloads and logouts while a refresh is in flight, lost answers | a refresh token is presented once; what is stored fits together; a logout ends the sign-in; nothing but the user and the server ends a session; every call settles |
| Frontend pages (`pages/`, `components/`) | per page: rows, what is being loaded, what is disabled, a derived figure | load, filter, poll; create, edit, toggle, delete, optimistically or not, with rollback | answers in any order, refused and lost calls, rows somebody else changes, state in closures | the screen agrees with the server without a reload; a refused change is undone exactly; no control stays disabled, no page stays loading |
| Forms of several steps (`NewContract.tsx`, `OnboardDialog.tsx`; and seven with one) | what is submitted, done, failed | submit, retry, leave, come back | create and follow-ups are separate requests, each can fail or be lost | what is missing is said; no record is made twice without an error shown |
| Intake (`modules/intake`) | forms, fields, submissions | edit fields, submit, convert a submission to a contract | conversion commits twice; display order computed from what was read | one contract per submission |
| Documents and files (`modules/contracts`, `core/storage.py`; the same shape in `modules/templates`, `modules/signed_contracts`) | rows, R2 objects, references of signature requests | upload with version, delete | R2 and database commit apart; version computed from what was read; a foreign key that refuses after the file is gone | rows and files agree; a request keeps its source; versions are distinct |
| Reminders (`tasks/reminders.py`) | `notifications` | two daily scans | dedup by reading earlier notices | a due date is reminded of, once |
| Tenant isolation (`database/rls.py`) | settings of a transaction | set by the user dependency, set again for every transaction | a session spans several transactions | no query under another tenant's context |
| Notifications, audit log | append-only rows | written in the transaction of the handler | that they are in the same transaction | modelled inside the handlers' actions |
| Knowledge, fallback clauses, templates, announcements, inquiries, integrations | one row per operation | CRUD | in the backend, nothing that spans steps; their pages are among the frontend's | see pages |
| Search, dashboard, reporting, monitoring | none of their own | read-only queries, request logs | as above | see pages |
| AI assistant | conversations, messages | append around a model call | the call (see circuit breaker); the page (see pages) | - |

Interactions: completing a signature request inserts a signed contract and notifies
its requester, but does not touch the contract's stage, so those two models share no
state; a signature request is made from a document of a contract and refers to its row,
which is what `ContractFiles` composes with `SignatureRequests`; every external call goes through a breaker, which turns an outage into an
exception, and the calling model has that as `Abort` or `HookFails`; every request
passes `get_current_user`, which is `Accepts` in `AuthSessions`; the browser's tokens
are those that `AuthSessions` issues, and `BrowserSession` has the server's side of them
as one atomic rotation; pages call the server through `apiRequest`, so that a page sees
a call end, whatever `BrowserSession` went through for it.

## The modules

### ContractLifecycle, SignOff

`ContractLifecycle` is `ContractService.create_contract`, `update_status`,
`request_status_approval`, `decide_approval` and `assign_staff` (for the
`lead_lawyer` role, the only one the gate reads).

| State | Code |
|---|---|
| `stage` | `contracts.status`, `None` before creation |
| `approval` | rows of `contract_approvals` |
| `leads` | lead-lawyer rows of `contract_assignments` |
| `decisions`, `notified` | the audit entries and notifications of these handlers |
| `joined` | history: who became lead after an approval was asked for |
| `session` | per request in flight, the values its write will use |

`ReadForStatus`/`WriteStatus`, `ReadForApproval`/`InsertApproval`,
`ReadForDecision`/`WriteDecision` are the two halves of the handlers.
`InsertApprovalConflict` is the partial unique index of migration `2d9a14027e1f`
refusing a second pending row.

* `OnePendingApproval`: one pending approval per contract, although both requests
  saw none.
* `GateHeld`: whoever is signed or closed has the approval for it in the audit log,
  and the signature's before the closing's; only those who may decide did.
* `ApproversInformed`: told of an approval are exactly the administrators and those who
  led the contract when it was asked, but for the requester; who becomes lead later (`joined`)
  may decide without having been told. The requester has a notice for each verdict that
  somebody else wrote, both when two deciders overlapped, and no other.
* `DrainedIsFinal`: a closed or declined contract moves again only by an approval
  or a request that was under way when it got there. (`TerminalStagesStay`, without
  that exception, is what the source's comment says, and is violated: see Findings.)

`SignOff` is what the gate promises without requests, rows or races: questions
are put one at a time, granted stages accumulate, a contract stands as signed or
closed only in a step that grants it. `ImplementsSignOff` is the refinement; the
mapping takes `open` from the pending rows, `granted` from the audit log,
`standing` from the stage. `SignOff` lets a verdict leave the question open: two
deciders may both pass the check on one approval, and the later of them writes
after a new question was put.

### SignatureRequests

`SignatureService` and the webhook route, with Documenso as environment.
`SendEnvelope`/`InsertRequest` is `create_and_send`: the envelope exists before
any row. `ReadForVoid`/`DeleteEnvelope`/`CommitVoid` is `void`. `Sign` and `Reject`
are the signers; each leaves an event in `events`, which is never taken out:
every event may be delivered at any time, again, after any other, or never.
A delivery is `Receive...`, then the commits of its handler; `HookFails` ends a
handler anywhere with no 200. Events for unknown documents change nothing and
are left out. E-mail addresses are in the model because recipients are matched
to Documenso's ids by address: two recipients with one address share an id.

* `StatusBacked`: what request and recipients say did happen at Documenso.
* `ArchiveWhole`: an archived contract has its file, its completed document and
  its notice; requests point to archives of their own.
* `OneArchive`: redeliveries and half-done handlers archive a document once,
  unless it was voided (a void of a completed request makes the next delivery
  archive it again: the model shows it, the property excepts it).
* `AnsweredIsRecorded`: what was answered 200, and will not be sent again, is
  in the database and stays: the recipients that signed, the notice of a rejection, the
  archive. The status of the request is not among it: a void overwrites COMPLETED and
  DECLINED.

### CircuitBreaker

`Enter` is the look at the state, `Succeed` and `Fail` are the result and its
count, both under the lock; the call itself is between them. `struck` marks a
call that an outage hit: it can fail, and it can still succeed once the outage is
over. `doomed` marks a call that raises whatever the dependency does: `call` counts every
exception, a 4xx of Documenso (`raise_for_status`) or a missing key in R2 (`NoSuchKey`) as
much as a timeout. `_opened_at` is kept as `opened` and the time since (`age`), the count up
to the threshold.

* `OpenIffStreak`, `CooldownShut`: see the comments; both are about results
  that come in after the circuit opened.
* `Recovers`: `<>[]Healthy => <>[]~opened`, where `Healthy` is that the dependency is up
  and refuses none of the calls under way. With `up` alone it does not hold: requests that
  are refused, `Threshold` of them in a row, open the circuit of a dependency that works,
  again and again. `ShedsLoad`: `<>[]~up` leads to a circuit
  that never closes and is open again and again.

Fairness, and what of the code justifies it:
every call returns (WF of `Succeed \/ Fail` per thread: `core/storage.py` sets
5 s and 10 s, the HTTP clients a timeout of their own); requests that need the
dependency keep coming (WF of `Enter` per thread: an assumption about load, without
which a breaker that nobody calls stays half open, as it does in the code); the
clock runs (WF of `Tick`). Nothing is assumed of outages. Fairness is weak only.

### AuthSessions

One staff account. `ReadForLogin`/`CommitLogin`/`SignAccessToken`,
`ReadForRefresh`/`CommitRefresh`/`SignAccessToken`, `Logout`; the three purges
(`force_logout_staff`, `update_staff_status`, `reset_password`) as a step that runs
`revoke_all_for_actor`, whose UPDATE sees what is committed then, and
`CommitPurge`. `Accepts` is `get_current_user`; `iat` and the cutoff are compared
as the code does: `iat` is a second's beginning, the cutoff lies inside a second.
A token's `lineage` is history: the login it descends from, and the purges that were
committed when its maker's checks were made, `None` if a purge overlapped it.
The properties are about the tokens whose making no purge overlapped; what happens
to the others is shown by `ForcedLogoutKills`.

* `PurgeEndsRefresh`, `PurgeEndsAccess`: a purge ends the refresh tokens and (but
  for a deactivation, which sets no cutoff) the access tokens of the sessions before it,
  although purges may overlap and the cutoff may move backwards.
* `OneLivePerLogin`: rotation leaves one valid token per login, unless one token
  was used twice at once.

The account's organization is taken to be active (a suspended one refuses like an
inactive account), refresh tokens do not expire by time (as if logged out), password
checks are taken to succeed: those that fail change nothing.

### ContractFiles

The documents of a contract, composed with `SignatureRequests`, which it extends:
`FilesSpec` is `Spec` with uploads, deletions and storage around it
(`FilesSpec => Spec` is proved).

| State | Code |
|---|---|
| `document` | rows of `contract_documents`, by the key of their file (`None`: no row) |
| `file` | R2: never stored, stored, gone |
| `source` | `signature_requests.source_document_id`, set when the envelope is sent |
| `writer` | uploads and deletions in flight, and where each stands |
| `torn` | history: files whose upload or deletion died between the two stores |

`BeginUpload`, `PutFile`, `InsertDocument` is `upload_contract_document` up to the
version it computes, the file, and the commit; `BeginDelete`, `DropFile`, then
`CommitDelete` or `RefuseDelete` is `delete_contract_document`; `AbortWriter` is an
error of storage or database, or a crash, at any of these points. Deletions and sends run
in threads and overlap; the route of uploads is a coroutine, so that there is one
upload at a time (`UnderWay`), beside any number of the others. The key of a file has a
fresh uuid, so no key is stored twice. `SendDocument` is the first half of
`create_and_send` in one step, from reading the row to the sent envelope: a deletion that
falls between them might as well fall after them, since the download is all they
ask of the file. `InsertWithSource` is the second half; the foreign key refuses it when
the row is gone, and then `Abort` is what remains.

* `SourceKept`: a request that is recorded has the row of its source.
* `StoresAgree`: a row has its file and a file its row, for every document that
  nobody is working on and nothing died over. Excepted is a document that a request
  refers to: deleting it removes the file, then the foreign key refuses to remove the row.
* `VersionsTell`: no two rows of one title have the same version, although deletions
  before and during an upload take rows away, and the version is computed before the
  file is stored. The version of a row that was deleted is given again.

### BrowserSession

`apiRequest` with its shared refresh and its one retry (`client.ts`), and what `App.tsx`
plugs into it. The state is `store` (`localStorage`), `tab` (actor, `checkingSession`,
the refresh in flight), `calls`, `revoking` (the `logoutStaff` call that nobody awaits), and
`tokens`: the server as the pairs it has issued, each of a sign-in, `live` as a refresh
token and `fresh` as an access token.

`PageCall` sends; the answer is `Answered`, `JoinRefresh`, `StartRefresh`,
`Unauthorized`, `RefusedAgain` or `CallLost`. `Rotate` and `RefreshLost` are the refresh
at the server and its loss, `Refreshed` and `RefreshRefused` its continuation.
`HandleLogin`, `HandleOwnerLogin`, `Logout`, `Load` (with the restoring call) are the
application's. `Expire` and `Purge` are the server's clock and administrators.

* `PresentedOnce`: a load of the application presents a refresh token once, whatever
  number of calls meet a 401.
* `StoreFits`: the stored tokens are of one sign-in and of the kind the next load takes
  them for.
* `LoggedOutIsDead`: a logout whose revocation arrived leaves no live token.
* `KeepsLiveSession`: only the user and the server end a session.
* `Settles`: no refresh, waiting call or loading screen hangs.

`troubled` is history: the sign-ins of which a call was lost or with a refresh that another
tab, a logout or another sign-in overlapped, or that met a tab of the other portal. The
properties about the storage except them: the code does nothing about these cases, and what
comes of one is finding 6. Assumed: a new access token outlives the retry it was fetched for;
the server rotates in one step (that it does not is `AuthSessions`); a token of
an owner needs no refresh (the server issues none).

### PageRows, StaffPages, ContractPage, OwnerPages, StepForms, Portals

`PageRows` has what all pages have in common: a call in flight is a record with what
the handler's closure holds, and its steps are those of the server (`Serve`), of the
continuation (`Loaded`, `Done`, `FigureLoaded`) and of the `catch` (`LoadFailed`,
`Failed`, `FigureFailed`). `Failed` of a call that was served is a lost answer.
`StaffPages`, `ContractPage` and `OwnerPages` say of each of 34 lists how it loads
(cancelled in its effect's cleanup or not, with a figure or not; with an error when it
fails, or silently, or, in the bell, as if an answer had come: `kept`), what
it offers when, and what each handler sends, shows ahead of the answer, does after it and
puts back after a failure. `StepForms` has the forms: those whose handler makes a record
and then calls on (`NewContract`, `OnboardDialog` with its retry), and those that stop.
`Portals` puts them together: a behaviour is one visit to one page or the visits to one
form, because pages share nothing; `Elsewhere` is another user.

A row is an id and a version: what an edit, a toggle, an archiving makes of it differs
only in the version. The lists of a contract's page and the messages of the assistant are of
one contract or conversation: a row has a `Home`, for good, and `Under(q)` are those of the
one that is asked for. The page is not made anew when the id in the URL changes, so that
a save is of the contract in the URL then (`Record`) and its answer is shown on
whichever page is open by the time it comes. A list of inquiries may have a filter, on
what a row says (`Fits`): a row can leave it by being changed. `StartNewConversation`
empties the messages without cancelling anything. `aside` is a figure that the server derives from the rows and
the page keeps on its own: the bell's badge, the summary of signed contracts, the
inquiry counts, the status of a contract beside its approvals.

* `SettledView`, `SettledFigure`: when nothing is in flight the screen shows what the
  server has, although no list was loaded again.
* `AnswersQuery`: the rows shown answer the present filter, page number, contract or
  conversation, in whatever order the answers came.
* `BusyMeansInFlight`: a control is disabled only while its call runs.
* `RollbackExact`: a refused change is undone to what was there, place included.
* `LoadingEnds`, `FormsSettle`: no page stays loading, no form working.
* `ReportsMissing`: a form that claims success has said what it could not do of the rest.
* `AskedOnce`: a visit asks for one record, and one more per error it has shown.

`disturbed` is history: rows that overlapping calls, a lost answer or another user have
touched since they were loaded, and all of them when a load has failed (a silent refresh that
fails leaves what was there); 0 stands for the figure. Of these a page cannot know, and the
first three properties except them; the start of a load takes them back, but not the calls in
flight as it starts: where the code shows their answer all the same, they stay excepted.
Four cases are of what is asked for. A load that is not cancelled, or a save of the contract
or a message, in flight as another contract or conversation is opened: all rows. Any
other write in flight then: its row. An inquiry whose own answer says that it left the
filter (`Departed`): that row, until the list is loaded again. The status of a contract fetched
after an approval, when another contract was opened meanwhile (`Outdated`): the figure. The page's user is one it lets act; the
server may refuse all the same. Drafts, validation, downloads, exports, the order of
intake fields, "load more" and forced logout are left out.

## The runs

| Run | Config | States | Shows |
|---|---|---|---|
| contract_lifecycle | `ContractLifecycle.cfg` | 483 k | gate, approvals, notices, finality, refinement of `SignOff` |
| contract_terminal | `ContractTerminal.cfg` | violation | a declined contract gets signed |
| signatures | `ContractFiles.cfg` | 84 k | the properties of SignatureRequests and of ContractFiles, any order of deliveries, uploads, deletions and failures |
| signature_times | `SignatureTimes.cfg` | violation | `signed_at` is overwritten |
| circuit_breaker | `CircuitBreaker.cfg` | 19 k | safety and liveness of the breaker |
| circuit_trial | `CircuitTrial.cfg` | violation | several trials at once |
| auth_sessions | `AuthSessions.cfg` | 2.1 M | purges and rotation |
| auth_single_use | `AuthSingleUse.cfg` | violation | one refresh token used twice |
| auth_forced_logout | `AuthForcedLogout.cfg` | violation | a refresh outlives a forced logout |
| browser_session | `BrowserSession.cfg` | 348 k | the shared refresh, the storage, logouts, and that all of it settles |
| logout_resumed | `SessionResumed.cfg` | violation | a refresh stores its pair after a logout |
| portals | `Portals.cfg` | 286 k | every list and form of both portals |

Bounds, and why they are enough for what they are for:

* Contracts: one contract (handlers touch one contract; nothing relates two), two
  users (who decides and who asks, with a lawyer who becomes a lead), two approvals
  (the signature's and the closing's, or a second one that races the first), two
  requests in flight (every race here is between two). `Candidates`: only the lawyer is
  made lead; an administrator who is one is told and may decide with or without it. The
  proofs lift all of these.
* Signatures: one document (handlers touch one), two recipients with two addresses
  (same or different), two archive keys (so that a second archive is possible), two
  send or void requests beside the webhook; the clock only serves `SignedAtKept`. The
  proofs lift all of these.
* Documents: three files of one title (a version is computed from two rows, of which the
  earlier or the later may be deleted before it or meanwhile), an upload and a deletion or
  two deletions in flight. Versions of different titles do
  not meet. `Apart` is an action constraint that keeps the product small: documents are
  explored in full while the request is no more than sent, and signers, voids and
  webhooks in full beside a document at rest; what the two halves share is only
  that a request is recorded, which neither webhooks nor voids take back. The proofs
  lift these bounds, `Apart` included.
* Breaker: four threads and a threshold of three: one more call than opens the
  circuit, so that a success and a failure can both be late. `Recovery = 2` leaves a
  middle to the cooldown.
* Sessions: three refresh tokens (a login, its refresh, and a second login or fork),
  two requests in flight, two purges (so that they overlap and the cutoff moves back),
  two instants. The proofs lift these.
* Browser: two tabs, which is what it takes to race for the storage; two calls in one
  of them, which is what it takes to share a refresh, and a reload of it; the other
  signs in, refreshes and logs out. Two pairs of tokens: a sign-in and its
  refresh, or two sign-ins. The proofs lift all of these for the safety properties.
* Pages: four rows (two at first and two to be created: where rows have a home, two are of
  the first contract and one of each of the others), two acts of the user or of a
  timer beside the loads of the page (a race is between two), one row that
  somebody else may change. Forms: two visits, two submissions. The proofs lift all of
  these for the safety properties.

`CHECK_DEADLOCK FALSE` everywhere: rows and instants are finite, so each model ends when
they are used up, and a system without requests is idle.

Symmetry is used for rows, keys, addresses and requests in flight, in runs that
check safety only, where no definition tells their members apart. `CircuitBreaker.cfg`,
`BrowserSession.cfg` and `Portals.cfg` check liveness and use none.

Fairness in the frontend, weak only: `fetch` settles, with an answer or with a failure
(`Respond \/ CallLost` per call, `Rotate \/ RefreshLost` per refresh, `CallStep` on a
page, `HandlerStep` per visit of a form), and the event loop runs the continuation of what
has settled (`EndRefresh`). Nothing is assumed of users, timers, expiries or other tabs.

## The proofs

`ContractLifecycle_proofs` proves, for any contracts, approvals, users, roles and
number of requests in flight: `TypeOK`, `OnePendingApproval`, `GateHeld`,
`ApproversInformed`, `DrainedIsFinal` and `ImplementsSignOff`. None of these is
inductive alone. `IInv` adds

* `RowsSound`: a row is about a contract that exists and a gated move, and one that asks
  to close has its signature granted;
* `SessionsSound`: what a request remembers stays true however stale the rest of
  it is: a status request never aims at a gated stage; a request to ask holds a gated
  move whose precondition was *granted* (grants are never taken back, which is why a
  stale read cannot hurt); a decision is about an existing row and by somebody who
  may decide;
* `NoticesSound`: notices, audit entries and the history are about rows that exist, so
  that a new row starts with none.

One lemma per action shows that `IInv` is preserved, and each theorem follows from
the invariant. `DrainedIsFinal` is an action property proved from `IInv` and
the absence of requests in flight on a drained contract; `ImplementsSignOff` maps
every action to a step of `SignOff` or a stutter. Assumptions: `NoneAssumption`
(`None` is no user, stage or row) and `CandidatesAssumption` (who is made lead is of the staff).

`CircuitBreaker_proofs` proves `TypeOK`, `OpenIffStreak` and `CooldownShut` for any
threads, threshold and cooldown; together they are inductive as they stand.
Assumptions: threshold and cooldown are positive.

`SignatureRequests_proofs` proves, for any documents, recipients, addresses, archive
keys and requests in flight, and any order, repetition and loss of webhooks:
`TypeOK`, `StatusBacked`, `ArchiveWhole`, `AnsweredIsRecorded` and `OneArchive`. `IInv`
adds

* `EnvelopesSound`, `EventsSound`: nobody both signs and rejects, and what an event
  says has happened and stays so, however late it arrives;
* `SessionsSound`: a send in flight is the only one of its document; a void in
  flight is about a request that exists;
* `HookSound`: what the handler under way knows: the recipients of the event it has
  passed are recorded, the key it uploaded is stored and not archived yet;
* `ArchivesSound`: an archive of a request that was never voided goes with the status
  COMPLETED, which makes `NotCompleted` turn every later delivery away.

Two arguments carry the proof. `RowsDisjoint`: recipients are found by a Documenso id that
several of them may share, but the ids of one who signed and of one who rejected differ,
so a rejection never overwrites a signature that was answered for; this rests on
`MaxOf` and `MinOf`, that the id and the row the code picks are members of the set they
are picked from. And a late rejection cannot move a request away from COMPLETED, which
would let it be archived again: the envelope of a completed request has none. Assumptions:
`RecipientsAssumption` (finitely many, numbered from 1), `TimeAssumption` (the clock's
bound is a number), `NoneAssumption` (`None` is no document, key, envelope or row).

`ContractFiles_proofs` proves that `FilesSpec` implements `Spec`, so that all of the
above holds with documents around it, and `FilesTypeOK`, `SourceKept`, `StoresAgree` and
`VersionsTell` for any files, titles, requests, uploads and deletions. `FInv` adds

* `WriterSound`: what an upload or a deletion knows of its file; no two uploads have one;
* `RowsSound`: a row is of an upload that is over;
* `Balanced`: row and file differ only where somebody stands between the two, died
  there, or was refused;
* `SourcesSound`: an envelope has a source, and a recorded request the row of it (here
  the invariant of `SignatureRequests` is used: what is recorded was sent);
* `VersionFree`: no row has the version that the upload under way computed: `NextVersion`
  is above all versions there are, whichever were deleted, being one more than their
  maximum; meanwhile rows are only deleted, since no second upload runs.

Assumptions: `FilesAssumption` (finitely many files), `NoFileAssumption` (`None` is none of them).

`AuthSessions_proofs` proves `TypeOK`, `PurgeEndsRefresh`, `PurgeEndsAccess` and
`OneLivePerLogin` for any tokens, requests and purges in flight. `IInv` adds `Knows` (what a
request remembers was so when it read it, and is so still unless a purge has committed
since; a purge has seen every token it must end), `AccessSound` (a cutoff that an overlapping
purge moved back still lies after the access tokens it must end), `RowsSound` and
`CountSound`. Assumptions: `BoundsAssumption` (finitely many requests), `NoneAssumption`.

`BrowserSession_proofs` proves `TypeOK`, `PresentedOnce`, `StoreFits`,
`LoggedOutIsDead` and `KeepsLiveSession` for any tabs, calls, loads and pairs. A sign-in is
`Moot` when it is troubled or has no live token, and stays so: this is what
lets the invariant speak of one sign-in at a time. `Sound` has `IdsSound`, `GotSound` (what a
refresh receives replaces what it presented), `PresentedSound` (a stored token that was
presented is being presented now), `OneSession` and `RefreshSound` (a refresh is for the
stored token and goes well), `StoredSound` (the stored token is the only live one but for the
one that replaces it), `KindSound`, `RevokingSound` and `LeftSound`. `KeepsLiveSession` is
an action property: every step that clears the storage does so for a sign-in that is moot.
Assumption: `BoundsAssumption`.

`Portals_proofs` proves `BusyMeansInFlight` over every handler of every page
(`BusyInv`: a load holds no control, a continuation that does is of a figure), and
`AskedOnce` and `ReportsMissing` for any visits and submissions. `FormInv` has `Single`
(one handler at work in a visit, and its button shows it) and `CountSound` (a record no error
accounts for is one the visit shows or is about to); `ReportInv` adds `Accounted` (what
a handler was asked for has failed, is to come, or is done). Assumptions:
`RowBoundsAssumption`, `FormBoundsAssumption`.

`PortalRows_proofs` proves, over every handler of every page, for any rows, acts and
failures, what the pages show: `SettledView`, `AnswersQuery`, `SettledFigure` and
`RollbackExact`, and with the forms `TypeOK`. The first three say something only of a page at
rest, so that they cannot be inductive; `PageKnown` says of a page in motion what they rest on,
with `QueryKnown` and `FigureKnown` beside it:

* `Base`: types, and the shape of each call in flight (`CallShape`): what it asks, whether it
  showed its change ahead, what it undoes, which load it starts. Which of these a handler
  combines is what the pages' modules say; it is looked up there once, and every later lemma
  is about shapes and not about handlers. A conversation sends one message at a time.
* `RowsKnown`: of each row that is not disturbed, `RowKnown`. An answer that a load or a
  write brings back and that is not stale has the row as its query and the server have it
  (`AnswersRow`). When no such load is in flight the page shows what is due of the row (`Due`:
  the server's version, or nothing of a row that is gone, is of another contract or
  conversation than the one shown, or filtered out), unless a write
  about it is in flight, and then `Promise` holds (`ShowsRow`): before the server has heard of
  an update shown ahead, the row is shown changed and the handler's copy is the server's; after
  it, the server has what is shown; and so for each kind of write. At most one write is about a
  row (`OneToucher`; in the bell, "mark all as read" may join those about single rows), none
  while another call brings the list (`ApartFrom`), and a snapshot that nothing overlapped is
  what the server has (`SnapsRow`).
* `LoneKnown`: what is on the screen while a call is alone in flight is what its handler saw
  with its own change made: this is what makes the rollback exact.

The exceptions that `disturbed` makes are where calls that overlap would break `ApartFrom` or
`OneToucher`, and where a failure leaves the handler in doubt (`Failed` after the server
answered). `QueryKnown` does the same for the query: all answers that will be taken in are to
one query, the present one unless the page takes it from the answer, and with none to come
the rows are of the present one. `AnswersQuery` needs both: the rows are of the query, and each
is due. `FigureKnown` does so for the figure, whose right value (`Right`) a change of the
query moves only where rows have a home: one call at most bears on it; the bell has counted ahead (`CountedAhead`),
the other pages will fetch it after the write or do not change it (`CountedAfter`);
here `RowsKnown` is used, because what the bell counts down by is the row on the screen.
`FormBounded` bounds what forms hold by the records made and the submissions so far; with
`FormInv` of `Portals_proofs` it gives the types of forms.

The lists are functions from indices, and those that leave rows out (`Picked`: a filter, or the
server's list) are defined by the n-th index that stays (`Nth`); `NthIs` says that an
index that stays and its rank determine each other, `PickedIs` where each row goes, and from
them follows how often a row occurs in
what `Without`, `Replaced`, `InsertedAt` and `Listing` return. Assumptions:
`RowBoundsAssumption`, `FormBoundsAssumption`.

Model-checked only: `Recovers`, `ShedsLoad`, `Settles`, `LoadingEnds` and `FormsSettle`, which
are liveness under fairness and beyond the prover. Every other property of a passing run is a
theorem.

## Findings

Each is a run that TLC finds violated, of a sentence of the source.

1. `contract_terminal`: `decide_approval` writes `to_status` without looking at
   the contract's present stage. Declined with an approval pending, a contract is
   signed when that is decided. The comment above `CONTRACT_STATUS_TRANSITIONS` has
   DECLINED as terminal.
2. `signature_times`: a repeated `DOCUMENT_SIGNED` moves `signed_at`; the comment in
   the webhook route calls it a no-op.
3. `circuit_trial`: after the cooldown every caller gets through until the first
   result is in; the docstring says the next call is the trial.
4. `auth_single_use`: two concurrent refreshes with one token both succeed; the
   comment says single-use.
5. `auth_forced_logout`: a refresh that overlaps a forced logout leaves a valid
   token; the docstring says every refresh token is revoked.
6. `logout_resumed`: `refreshSession` stores the new pair after its `await`, also when the
   user has logged out meanwhile, and the logout revoked the token that this refresh had
   already replaced. The next load finds a live session in the storage. The comment at
   `App.tsx:64-65` says the token is revoked so that the session cannot be silently resumed.

The models also show what the code does in cases that no sentence of the source rules out.
The properties except these, and a reader should know of them:

* Deleting a document that a signature request refers to removes the file and then
  fails on the foreign key: the row stays without its file (`StoresAgree`).
* A void of a completed request lets its next delivery archive it again (`OneArchive`), and
  overwrites the status that an answered webhook wrote (`AnsweredIsRecorded`).
* Of a title whose latest document is deleted the next upload takes the same version again
  (`VersionsTell`).
* Requests that a dependency refuses, or files that are not there, open its circuit while
  it is up, and again after every cooldown as long as they keep coming (`Recovers`).
* Who is made lead lawyer after an approval was asked for may decide it and was not
  told of it (`ApproversInformed`).
* A purge that overlaps a refresh, or two refreshes that overlap: see findings 4 and 5.
* `restore` clears the storage on any error, also when only the network fails; a refresh
  that is refused clears what another tab has signed in with meanwhile; staff and owner
  share one storage, and a tab of the one logs the other out (`KeepsLiveSession`).
* Loads of a contract, and of the audit log, health, calendar, search, staff, signed
  contracts and intake, are not cancelled: when two overlap, the last answer wins
  (`AnswersQuery`). Details, status and deadline of a contract are answered with the whole
  contract each, out of order if they are (`SettledView`). Two optimistic deletions at once
  put a refused row back in another place; the bell rolls back to a snapshot, and
  undoes what came in meanwhile (`RollbackExact`). One busy id serves a whole list.
* `ContractDetail` is not made anew for another id, and no continuation compares ids. A save
  of details, status or deadline that is answered after the user has gone to another contract
  shows the first one's title, text and status on the second one's page
  (`ContractDetail.tsx:243-247`, `260-261`, `304-305`), as does the contract fetched after an
  approval (`286-292`); a document, task or message is appended to the other's list. In the
  same way the assistant shows the answer to a message in a conversation opened or begun since
  (`LearnedFriend.tsx:91-96`). An inquiry whose status is changed away from the filter stays
  in the list until it is loaded again (`InquiriesView.tsx:332-337`). (`SettledView`,
  `AnswersQuery`.)
* A silent refresh of the inquiries that overtakes the first load and fails leaves
  the view loading until the timer's next try (`LoadingEnds`).
* `NewContract` keeps its form and button after a success (`AskedOnce`). `OnboardDialog`
  says the inquiry is marked before that request is back, and, closed and opened again
  during it, makes a second organization (`ReportsMissing`).

Seen in the code and in no model: `CONTRACT_REMINDER_TYPE` is defined twice in
`tasks/reminders.py` (lines 20 and 22), so that due-soon reminders are stored and
deduplicated under the type of expiring ones; a user with two roles on a contract is reminded
twice by one scan, which reads the earlier reminders once; `convert_to_contract` commits the contract
before it links the submission; a webhook that arrives before `create_and_send` has
committed is answered 200 and lost; two `assign_staff` requests can insert one assignment
twice; `delete_org` leaves out tables that refer to what it deletes; "load more" of the
inquiries is not guarded against a change of the filter; ending the edit of one row closes the
editor of another (`setEditingId(null)`); two moves of a form's field can be sent from one old
order; dismissed announcements are written from a closure; Back on the search page changes the
URL and not the results.

## Plan

Done: ContractLifecycle with SignOff; SignatureRequests; CircuitBreaker; AuthSessions; the
token client of the frontend (`BrowserSession`); the document store (`ContractFiles`,
composed with SignatureRequests); the pages and forms of both portals; proofs of every safety
and action property of these and of both refinements.
Then, in this order:

1. `IntakeConversion`: submission, `convert_to_contract` with its two commits, composed
   with the creation of contracts; abstract specification: a submission becomes at most
   one contract.
2. `Reminders`: the two scans, overlapping and missed runs, rescheduled dates.
3. `OrgDeletion` and `TenantContext`: deletion across tables that refer to one
   another; the tenant setting over the transactions of a session.
4. Abstract specifications for signatures (a request goes from sent to one end and an
   archive is whole) and for sessions (a purge is a point in time), with refinement;
   `BrowserSession` over `AuthSessions` in place of its atomic server.
5. Manual uploads of signed contracts and templates, over the steps of `ContractFiles`.

## Not modelled, and why

In the backend, read-only parts (search, dashboard, reporting, monitoring) and single-row
CRUD (knowledge, fallback clauses, announcements, inquiries, integrations, a contract's
details, tasks and messages) have no behaviour that spans steps; their pages do, and are
modelled. Reminders, intake conversion, the deletion of an organization and the tenant context
are in the plan: each stands alone, and none of the modelled parts depends on it. Generated PDFs, e-mail texts, styling, validation of forms, downloads and
HTTP formats are data no property is about. PostgreSQL's row-level security, argon2, JWT
signatures, React's reconciliation and Documenso's internals are external.
