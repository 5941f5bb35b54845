----------------------------- MODULE StaffPages -----------------------------
(***************************************************************************)
(* The pages of the staff portal (src/frontend/src/pages) as PageRows: for *)
(* each, how it loads, what it offers when, and the call each handler      *)
(* makes.  A page is visited by a member of staff whom it lets act; the    *)
(* server decides all the same, and may refuse every call.                 *)
(***************************************************************************)
EXTENDS PageRows

(* The row that is not the organization's to change: the platform's        *)
(* template, the system's form, the user's own account.                    *)
Fixed == 1

-----------------------------------------------------------------------------
(* Templates.                                                              *)
TemplatesLoad == Guarded

TemplatesOffersUpload == At("templates") /\ Idle("create")

TemplatesOffersRow(r) == Listed("templates", r) /\ r # Fixed

TemplatesHandleUpload == TemplatesOffersUpload /\ Create("create", "keep", TemplatesLoad)

TemplatesHandleDelete(r) ==
  TemplatesOffersRow(r) /\ busy["row"] # r /\ Delete(r, "row", "drop", NoLoad)

TemplatesHandleSaveEdit(r) ==
  TemplatesOffersRow(r) /\ Idle("save") /\ Update(r, Flipped(r), "save", "replace", NoLoad)

Templates ==
  \/ Retry("templates", {TemplatesLoad})
  \/ TemplatesHandleUpload
  \/ \E r \in Ids : TemplatesHandleDelete(r) \/ TemplatesHandleSaveEdit(r)

-----------------------------------------------------------------------------
(* KnowledgeArticles.                                                      *)
KnowledgeLoad == Guarded

KnowledgeOffersForm == At("knowledge") /\ Idle("create")

KnowledgeOffersRow(r) == Listed("knowledge", r)

KnowledgeHandleCreate == KnowledgeOffersForm /\ Create("create", "prepend", NoLoad)

KnowledgeHandleSaveEdit(r) ==
  KnowledgeOffersRow(r) /\ Idle("save") /\ Update(r, Flipped(r), "save", "replace", NoLoad)

KnowledgeHandleTogglePublish(r) ==
  KnowledgeOffersRow(r) /\ Update(r, Flipped(r), "none", "replace", NoLoad)

(* Mutant: the deleted article is not filtered out. *)
DeleteLeavesRow(r) ==
  KnowledgeOffersRow(r) /\ busy["row"] # r /\ Delete(r, "row", "keep", NoLoad)

KnowledgeHandleDelete(r) ==
  KnowledgeOffersRow(r) /\ busy["row"] # r /\ Delete(r, "row", "drop", NoLoad)

Knowledge ==
  \/ Retry("knowledge", {KnowledgeLoad})
  \/ KnowledgeHandleCreate
  \/ \E r \in Ids : \/ KnowledgeHandleSaveEdit(r) \/ KnowledgeHandleTogglePublish(r)
                    \/ KnowledgeHandleDelete(r)

-----------------------------------------------------------------------------
(* FallbackClauses.                                                        *)
ClausesLoad == Guarded

ClausesOffersForm == At("clauses") /\ Idle("create")

ClausesOffersRow(r) == Listed("clauses", r)

ClausesHandleCreate == ClausesOffersForm /\ Create("create", "keep", ClausesLoad)

ClausesHandleDelete(r) ==
  ClausesOffersRow(r) /\ busy["row"] # r /\ Delete(r, "row", "drop", NoLoad)

ClausesHandleSaveEdit(r) ==
  ClausesOffersRow(r) /\ Idle("save") /\ Update(r, Flipped(r), "save", "replace", NoLoad)

Clauses ==
  \/ Retry("clauses", {ClausesLoad})
  \/ ClausesHandleCreate
  \/ \E r \in Ids : ClausesHandleDelete(r) \/ ClausesHandleSaveEdit(r)

-----------------------------------------------------------------------------
(* Integrations: a row per provider.  1: disabled, 2: enabled, 3: no       *)
(* credentials.                                                            *)
IntegrationsLoad == Guarded

IntegrationsOffersForm(r) == Listed("integrations", r) /\ Idle("save")

IntegrationsOffersRow(r) ==
  Listed("integrations", r) /\ ShownRow(r).ver # 3 /\ busy["row"] # r

IntegrationsHandleSaveCredentials(r) ==
  IntegrationsOffersForm(r) /\ \E v \in {1, 2} : Update(r, v, "save", "replace", NoLoad)

IntegrationsHandleDisable(r) ==
  IntegrationsOffersRow(r) /\ ShownRow(r).ver = 2 /\ Update(r, 1, "row", "replace", NoLoad)

(* Removing answers with the provider's row as well.                       *)
IntegrationsHandleRemove(r) ==
  IntegrationsOffersRow(r) /\ Update(r, 3, "row", "replace", NoLoad)

Integrations ==
  \/ Retry("integrations", {IntegrationsLoad})
  \/ \E r \in Ids : \/ IntegrationsHandleSaveCredentials(r) \/ IntegrationsHandleDisable(r)
                    \/ IntegrationsHandleRemove(r)

-----------------------------------------------------------------------------
(* Staff: loadAll is not cancelled, but only Retry starts it again.        *)
StaffLoad == Plain

StaffOffersInvite == At("staff") /\ Idle("create")

StaffOffersRow(r) == Listed("staff", r) /\ r # Fixed

StaffHandleToggleStatus(r) ==
  StaffOffersRow(r) /\ busy["row"] # r /\ Update(r, Flipped(r), "row", "replace", NoLoad)

StaffHandleInvite == StaffOffersInvite /\ Create("create", "append", NoLoad)

Staff ==
  \/ Retry("staff", {StaffLoad})
  \/ StaffHandleInvite
  \/ \E r \in Ids : StaffHandleToggleStatus(r)

-----------------------------------------------------------------------------
(* SignedContracts: the list and its summary come together; archiving a    *)
(* contract fetches the summary again.                                     *)
SignedLoad == {"blank", "aside"}

SignedOffersUpload == At("signed") /\ Idle("create")

SignedOffersRow(r) == Listed("signed", r) /\ busy["row"] # r

SignedHandleUpload == SignedOffersUpload /\ Create("create", "keep", SignedLoad)

(* Mutant: the summary is not fetched again. *)
ArchiveWithoutSummary(r) ==
  SignedOffersRow(r) /\ Update(r, Flipped(r), "row", "replace", NoLoad)

SignedHandleToggleArchive(r) ==
  SignedOffersRow(r) /\ Update(r, Flipped(r), "row", "replace", Figure)

Signed ==
  \/ Retry("signed", {SignedLoad})
  \/ SignedHandleUpload
  \/ \E r \in Ids : SignedHandleToggleArchive(r)

-----------------------------------------------------------------------------
(* IntakeSubmissions: every write loads the three lists again.  A row that *)
(* says 2 is converted.                                                    *)
SubmissionsLoad == Plain

SubmissionsOffersForm == At("submissions") /\ Idle("create")

SubmissionsOffersRow(r) == Listed("submissions", r)

SubmissionsHandleStatusChange(r) ==
  SubmissionsOffersRow(r) /\ \E v \in {1, 3} : Update(r, v, "none", "keep", SubmissionsLoad)

SubmissionsHandleSubmitNewRequest ==
  SubmissionsOffersForm /\ Create("create", "keep", SubmissionsLoad)

SubmissionsHandleConvert(r) ==
  /\ SubmissionsOffersRow(r)
  /\ ShownRow(r).ver # 2
  /\ busy["row"] # r
  /\ Update(r, 2, "row", "keep", SubmissionsLoad)

Submissions ==
  \/ Retry("submissions", {SubmissionsLoad})
  \/ SubmissionsHandleSubmitNewRequest
  \/ \E r \in Ids : SubmissionsHandleStatusChange(r) \/ SubmissionsHandleConvert(r)

-----------------------------------------------------------------------------
(* IntakeFormBuilder: the forms, and the fields of one of them.  No button *)
(* but "Create" is disabled while its call is in flight.                   *)
FormsLoad == Plain

FormsOffersNew == At("forms") /\ Idle("create")

FormsOffersRow(r) == Listed("forms", r) /\ r # Fixed

FormsHandleCreateForm == FormsOffersNew /\ Create("create", "keep", FormsLoad)

FormsHandleSaveFormEdit(r) ==
  FormsOffersRow(r) /\ Update(r, Flipped(r), "none", "keep", FormsLoad)

FormsHandleDeleteForm(r) == FormsOffersRow(r) /\ Delete(r, "none", "keep", FormsLoad)

FormsHandleTogglePublish(r) ==
  FormsOffersRow(r) /\ Update(r, Flipped(r), "none", "keep", FormsLoad)

Forms ==
  \/ Retry("forms", {FormsLoad})
  \/ FormsHandleCreateForm
  \/ \E r \in Ids : \/ FormsHandleSaveFormEdit(r) \/ FormsHandleDeleteForm(r)
                    \/ FormsHandleTogglePublish(r)

FieldsOffersNew == Ready("fields")

FieldsOffersRow(r) == Listed("fields", r)

FieldsHandleAddField == FieldsOffersNew /\ Create("none", "keep", FormsLoad)

FieldsHandleSaveFieldEdit(r) ==
  FieldsOffersRow(r) /\ Update(r, Flipped(r), "none", "keep", FormsLoad)

FieldsHandleDeleteField(r) == FieldsOffersRow(r) /\ Delete(r, "none", "keep", FormsLoad)

Fields ==
  \/ Retry("fields", {FormsLoad})
  \/ FieldsHandleAddField
  \/ \E r \in Ids : FieldsHandleSaveFieldEdit(r) \/ FieldsHandleDeleteField(r)

-----------------------------------------------------------------------------
(* LearnedFriend: the messages of the active conversation.  A message is   *)
(* shown at once; the answer is the whole conversation, and its id becomes *)
(* the active one if the message was sent with none.                       *)
ConversationLoad == Plain

ConversationOffersSend == At("conversation") /\ Idle("create")

ConversationHandleSubmit ==
  /\ ConversationOffersSend
  /\ CreateAhead("create", "rows", IF query = "new" THEN {"none", "url"} ELSE NoLoad)

(* Of the conversations that exist.                                        *)
OpenConversation ==
  /\ At("conversation")
  /\ \E q \in Queries : /\ q = "new" => \E r \in Under(q) : server[r] # 0
                        /\ Reload({ConversationLoad}, q)

(* No load is cancelled, and none starts.  Bound: a visit has one new      *)
(* conversation.                                                           *)
StartNewConversation ==
  /\ At("conversation")
  /\ Under("new") \subseteq Unused
  /\ sent < MaxSent
  /\ sent' = sent + 1
  /\ query' = "new"
  /\ shown' = << >>
  /\ shownFor' = "new"
  /\ status' = "ready"
  /\ calls' = Accompanied(calls)
  /\ disturbed' = (disturbed \cap {0}) \cup (IF \E c \in calls : Fetches(c) THEN Ids ELSE {})
  /\ UNCHANGED <<page, busy, aside, server>>

Conversation == ConversationHandleSubmit \/ OpenConversation \/ StartNewConversation

-----------------------------------------------------------------------------
(* Workflow: a card moves at once and moves back on failure; a gated move  *)
(* requests an approval instead, which is added to the pending ones.       *)
WorkflowLoad == Guarded

WorkflowOffersMove(r) == Listed("workflow", r)

MoveContract(r) ==
  /\ WorkflowOffersMove(r)
  /\ \E v \in {1, 2} \ {ShownRow(r).ver} : UpdateAhead(r, v, "none", "keep", NoLoad)

MoveGatedContract == Ready("pending") /\ Create("none", "append", NoLoad)

Workflow ==
  \/ Retry("workflow", {WorkflowLoad})
  \/ Retry("pending", {WorkflowLoad})
  \/ MoveGatedContract
  \/ \E r \in Ids : MoveContract(r)

-----------------------------------------------------------------------------
(* Settings: the one row is the organization's profile.                    *)
SettingsLoad == Plain

SettingsOffersSave == Listed("settings", 1) /\ Idle("save")

SettingsHandleSave == SettingsOffersSave /\ Update(1, Flipped(1), "save", "replace", NoLoad)

Settings == Retry("settings", {SettingsLoad}) \/ SettingsHandleSave

-----------------------------------------------------------------------------
(* Reporting: a new capacity is not shown until the overview has been      *)
(* fetched again.                                                          *)
ReportingLoad == {}

ReportingOffersRow(r) == Listed("reporting", r)

HandleUpdateCapacity(r) ==
  ReportingOffersRow(r) /\ Update(r, Flipped(r), "none", "keep", {"silent"})

Reporting == \E r \in Ids : HandleUpdateCapacity(r)

-----------------------------------------------------------------------------
(* Pages that only load.                                                   *)
DashboardLoads == {Guarded, {"figure", "latest"}}

Dashboard == Retry("dashboard", DashboardLoads)

ContractsLoad == Guarded

Contracts == Retry("contracts", {ContractsLoad})

CalendarLoad == Plain

SetRangeDays == At("calendar") /\ Reload({CalendarLoad}, OtherQuery)

Calendar == Retry("calendar", {CalendarLoad}) \/ SetRangeDays

SearchLoad == Plain

(* The button is disabled while a search is running.                       *)
SearchHandleSubmit ==
  At("search") /\ status # "loading" /\ \E q \in {"q1", "q2"} : Reload({SearchLoad}, q)

AuditLogLoad == {"blank", "url"}

LoadPage == Ready("auditlog") /\ Reload({AuditLogLoad}, OtherQuery)

AuditLog == Retry("auditlog", {AuditLogLoad}) \/ LoadPage

-----------------------------------------------------------------------------
(* NotificationBell: a row that says 2 is unread; the figure is the number *)
(* on the badge.  It is polled; the list is loaded when the panel opens.   *)
BellList == {"kept"}

BellPoll == At("bell") /\ Reload({Figure}, query)

BellHandleToggle == At("bell") /\ Reload({BellList}, query)

(* Mutant: the badge is not clamped. *)
OneLessUnclamped == aside - 1

OneLess == IF aside > 0 THEN aside - 1 ELSE 0

BellOffersRow(r) == At("bell") /\ r \in ShownIds /\ ShownRow(r).ver = 2

BellHandleMarkRead(r) ==
  BellOffersRow(r) /\ Begin(Call("update", r, 1, "none", "replace", "snapshot"),
                            Replaced(shown, Row(r, 1)), OneLess)

AllRead(rows) == [k \in DOMAIN rows |-> [rows[k] EXCEPT !.ver = 1]]

BellHandleMarkAllRead ==
  /\ At("bell")
  /\ aside > 0
  /\ Begin(Call("all", 0, 1, "none", "keep", "snapshot"), AllRead(shown), 0)

Bell == \/ BellPoll \/ BellHandleToggle \/ BellHandleMarkAllRead
        \/ \E r \in Ids : BellHandleMarkRead(r)

-----------------------------------------------------------------------------
StaffLoads ==
  [templates |-> {TemplatesLoad}, knowledge |-> {KnowledgeLoad}, clauses |-> {ClausesLoad},
   integrations |-> {IntegrationsLoad}, staff |-> {StaffLoad}, signed |-> {SignedLoad},
   submissions |-> {SubmissionsLoad}, forms |-> {FormsLoad}, fields |-> {FormsLoad},
   conversation |-> {ConversationLoad}, workflow |-> {WorkflowLoad},
   pending |-> {WorkflowLoad}, settings |-> {SettingsLoad}, reporting |-> {ReportingLoad},
   dashboard |-> DashboardLoads, contracts |-> {ContractsLoad}, calendar |-> {CalendarLoad},
   search |-> {SearchLoad}, auditlog |-> {AuditLogLoad}, bell |-> {BellList, Figure}]

StaffStep ==
  \/ Templates \/ Knowledge \/ Clauses \/ Integrations \/ Staff \/ Signed \/ Submissions
  \/ Forms \/ Fields \/ Conversation \/ Workflow \/ Settings \/ Reporting \/ Dashboard
  \/ Contracts \/ Calendar \/ SearchHandleSubmit \/ AuditLog \/ Bell

=============================================================================
