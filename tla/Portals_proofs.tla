--------------------------- MODULE Portals_proofs ---------------------------
(***************************************************************************)
(* A control that says "Saving" belongs to a call in flight, and a visit   *)
(* to a form asks for one record: proved for any rows, acts, visits and    *)
(* submissions, over every handler of both portals.                        *)
(***************************************************************************)
EXTENDS Portals, FiniteSetTheorems, TLAPS

(* What a call keeps until it ends.                                        *)
Kept == {"op", "id", "slot", "load"}

(* A load holds no control; a continuation that holds one loads a figure.  *)
CallSound(c) ==
  /\ Kept \subseteq DOMAIN c
  /\ c.id \in All /\ c.slot \in Slots \cup {"none"}
  /\ c.op = "load" => c.slot = "none"
  /\ "held" \in c.load => "figure" \in c.load /\ "none" \notin c.load

CallsSound == \A c \in calls : CallSound(c)

BusyInv == busy \in [Slots -> All] /\ CallsSound /\ BusyMeansInFlight

Same(d, c) == \A f \in Kept : d[f] = c[f]

Holds(c, s, r) == c.slot = s /\ c.id = r

LEMMA StillSound ==
  ASSUME NEW c, CallSound(c), NEW e, NEW f
  PROVE  /\ CallSound([c EXCEPT !.alone = e]) /\ Same([c EXCEPT !.alone = e], c)
         /\ CallSound([c EXCEPT !.cancelled = e]) /\ Same([c EXCEPT !.cancelled = e], c)
         /\ CallSound([c EXCEPT !.phase = e, !.got = f, !.figure = e])
BY DEF CallSound, Same, Kept

LEMMA AccompaniedKeeps ==
  ASSUME NEW C, \A c \in C : CallSound(c)
  PROVE  /\ \A d \in Accompanied(C) : CallSound(d)
         /\ \A c \in C : \E d \in Accompanied(C) : Same(d, c)
BY StillSound DEF Accompanied

LEMMA SupersededKeeps ==
  ASSUME NEW C, NEW loads, \A c \in C : CallSound(c)
  PROVE  /\ \A d \in Superseded(C, loads) : CallSound(d)
         /\ \A c \in C : \E d \in Superseded(C, loads) : Same(d, c)
<1> DEFINE cut(c) == c.cancelled \/ (~IsWrite(c) /\ "latest" \in c.load /\ ListsRows(loads))
<1>1. Superseded(C, loads) = {[c EXCEPT !.cancelled = cut(c)] : c \in C}
  BY DEF Superseded
<1> HIDE DEF cut
<1>2. ASSUME NEW c \in C
      PROVE  CallSound([c EXCEPT !.cancelled = cut(c)]) /\ Same([c EXCEPT !.cancelled = cut(c)], c)
  <2> PICK e : e = cut(c)
    OBVIOUS
  <2>1. CallSound([c EXCEPT !.cancelled = e]) /\ Same([c EXCEPT !.cancelled = e], c)
    BY StillSound
  <2> QED BY <2>1
<1> QED BY <1>1, <1>2

LEMMA NewCallSound ==
  ASSUME NEW op, NEW r \in All, NEW v, NEW slot \in Slots \cup {"none"}, NEW then, NEW undo,
         NEW load, op # "load", "held" \in load => "figure" \in load /\ "none" \notin load
  PROVE  /\ CallSound(Call(op, r, v, slot, then, undo))
         /\ CallSound(Reloading(Call(op, r, v, slot, then, undo), load))
         /\ Call(op, r, v, slot, then, undo).slot = slot
         /\ Call(op, r, v, slot, then, undo).id = r
         /\ Reloading(Call(op, r, v, slot, then, undo), load).slot = slot
         /\ Reloading(Call(op, r, v, slot, then, undo), load).id = r
<1> PICK k : k = Call(op, r, v, slot, then, undo)
  OBVIOUS
<1>1. k.op = op /\ k.id = r /\ k.slot = slot /\ k.load = {"none"}
  BY DEF Call, NoLoad
<1>2. Kept \cup {"load"} \subseteq DOMAIN k
  BY DEF Call, Kept
<1> QED BY <1>1, <1>2 DEF CallSound, Reloading, Kept

LEMMA LoadingSound ==
  ASSUME NEW load, NEW q, NEW n, "held" \in load => "figure" \in load /\ "none" \notin load
  PROVE  /\ CallSound(Loading(load, q, n))
         /\ "held" \in load => Loading(load, q, n).op = "figure"
BY DEF CallSound, Loading, Kept, All

-----------------------------------------------------------------------------
LEMMA BusyKept ==
  ASSUME BusyInv, busy' \in [Slots -> All], \A d \in calls' : CallSound(d),
         \A s \in Slots :
           \/ busy'[s] = 0
           \/ busy'[s] = busy[s] /\ \A c \in calls : c.slot = s => \E d \in calls' : Same(d, c)
           \/ \E d \in calls' : d.slot = s /\ d.id = busy'[s]
  PROVE  BusyInv'
<1> SUFFICES ASSUME NEW s \in Slots, busy'[s] # 0
             PROVE  \E d \in calls' : d.slot = s /\ d.id = busy'[s]
  BY DEF BusyInv, CallsSound, BusyMeansInFlight
<1>1. CASE busy'[s] = busy[s] /\ \A c \in calls : c.slot = s => \E d \in calls' : Same(d, c)
  <2>1. PICK c \in calls : c.slot = s /\ c.id = busy[s]
    BY <1>1 DEF BusyInv, BusyMeansInFlight
  <2>2. PICK d \in calls' : Same(d, c)
    BY <1>1, <2>1
  <2> QED BY <1>1, <2>1, <2>2 DEF Same, Kept
<1> QED BY <1>1

LEMMA CallBegins ==
  ASSUME BusyInv, NEW c, CallSound(c), NEW rows, NEW figure, Begin(c, rows, figure)
  PROVE  BusyInv'
<1>1. calls' = Accompanied(calls) \cup {c}
  BY DEF Begin
<1>2. /\ \A d \in Accompanied(calls) : CallSound(d)
      /\ \A b \in calls : \E d \in Accompanied(calls) : Same(d, b)
  BY AccompaniedKeeps DEF BusyInv, CallsSound
<1>3. busy' = IF c.slot = "none" THEN busy ELSE [busy EXCEPT ![c.slot] = c.id]
  BY DEF Begin
<1>4. busy' \in [Slots -> All]
  BY <1>3 DEF BusyInv, CallSound
<1>5. \A s \in Slots : IF s = c.slot THEN busy'[s] = c.id ELSE busy'[s] = busy[s]
  BY <1>3 DEF BusyInv, CallSound, Slots
<1> QED BY <1>1, <1>2, <1>4, <1>5, BusyKept

LEMMA LoadsBegin ==
  ASSUME BusyInv, NEW loads, NEW q, \A load \in loads : "held" \notin load, Reload(loads, q)
  PROVE  BusyInv'
<1>1. busy' = busy /\ calls' = Superseded(Accompanied(calls), loads)
                                 \cup {Loading(load, q, sent + 1) : load \in loads}
  BY DEF Reload, Joined
<1>2. /\ \A d \in Accompanied(calls) : CallSound(d)
      /\ \A b \in calls : \E d \in Accompanied(calls) : Same(d, b)
  BY AccompaniedKeeps DEF BusyInv, CallsSound
<1>3. /\ \A d \in Superseded(Accompanied(calls), loads) : CallSound(d)
      /\ \A b \in Accompanied(calls) : \E d \in Superseded(Accompanied(calls), loads) : Same(d, b)
  BY <1>2, SupersededKeeps
<1>4. \A d \in calls' : CallSound(d)
  BY <1>1, <1>3, LoadingSound
<1>5. \A c \in calls : \E d \in calls' : Same(d, c)
  BY <1>1, <1>2, <1>3 DEF Same
<1> QED BY <1>1, <1>4, <1>5, BusyKept DEF BusyInv

LEMMA CallEnds ==
  ASSUME BusyInv, NEW c \in calls, busy' = Released(c),
         \A d \in calls' : CallSound(d),
         \A b \in Others(c) : \E d \in calls' : Same(d, b)
  PROVE  BusyInv'
<1>1. CallSound(c)
  BY DEF BusyInv, CallsSound
<1>2. busy' \in [Slots -> All]
  BY <1>1 DEF Released, BusyInv, CallSound, All
<1>3. \A s \in Slots : IF s = c.slot THEN busy'[s] = 0 ELSE busy'[s] = busy[s]
  BY <1>1 DEF Released, BusyInv, CallSound, Slots
<1>4. \A s \in Slots : s # c.slot => \A b \in calls : b.slot = s => \E d \in calls' : Same(d, b)
  BY DEF Others
<1> QED BY <1>2, <1>3, <1>4, BusyKept

LEMMA OthersKept ==
  ASSUME BusyInv, NEW c
  PROVE  /\ \A d \in Accompanied(Others(c)) : CallSound(d)
         /\ \A b \in Others(c) : \E d \in Accompanied(Others(c)) : Same(d, b)
BY AccompaniedKeeps DEF BusyInv, CallsSound, Others

LEMMA ServeKeeps ==
  ASSUME BusyInv, NEW c \in calls, Serve(c)
  PROVE  BusyInv'
<1>1. PICK table, got : calls' = Others(c) \cup {[c EXCEPT !.phase = "answered", !.got = got,
                                                   !.figure = Derived(table, c.query)]}
  BY DEF Serve, Answer
<1> PICK figure : figure = Derived(table, c.query)
  OBVIOUS
<1> PICK d : d = [c EXCEPT !.phase = "answered", !.got = got, !.figure = figure]
  OBVIOUS
<1>2. CallSound(d) /\ Same(d, c)
  BY StillSound DEF BusyInv, CallsSound, CallSound, Same, Kept
<1>3. \A b \in calls : \E e \in calls' : Same(e, b)
  BY <1>1, <1>2 DEF Others, Same
<1>4. \A e \in calls' : CallSound(e)
  BY <1>1, <1>2 DEF Others, BusyInv, CallsSound
<1>5. busy' = busy
  BY DEF Serve
<1> QED BY <1>3, <1>4, <1>5, BusyKept DEF BusyInv

LEMMA DoneKeeps ==
  ASSUME BusyInv, NEW c \in calls, Done(c)
  PROVE  BusyInv'
<1>1. CallSound(c)
  BY DEF BusyInv, CallsSound
<1>2. busy' = IF "held" \in c.load THEN busy ELSE Released(c)
  BY DEF Done
<1>3. CASE "none" \in c.load /\ "held" \notin c.load
  <2>1. calls' = Accompanied(Others(c)) /\ busy' = Released(c)
    BY <1>2, <1>3 DEF Done
  <2> QED BY <2>1, OthersKept, CallEnds
<1>4. CASE "none" \notin c.load
  <2>1. calls' = Superseded(Accompanied(Others(c)), {c.load}) \cup Following(c)
    BY <1>4 DEF Done
  <2>2. /\ \A d \in Superseded(Accompanied(Others(c)), {c.load}) : CallSound(d)
        /\ \A b \in Others(c) :
             \E d \in Superseded(Accompanied(Others(c)), {c.load}) : Same(d, b)
    <3>1. \A b \in Accompanied(Others(c)) :
            \E d \in Superseded(Accompanied(Others(c)), {c.load}) : Same(d, b)
      BY OthersKept, SupersededKeeps
    <3> QED BY <3>1, OthersKept, SupersededKeeps DEF Same
  <2>3. CASE "held" \notin c.load
    <3>1. Following(c) = {Loading(c.load, query, c.n)} /\ busy' = Released(c)
      BY <1>2, <2>3 DEF Following
    <3>2. CallSound(Loading(c.load, query, c.n))
      BY <2>3, LoadingSound
    <3> QED BY <2>1, <2>2, <3>1, <3>2, CallEnds
  <2>4. CASE "held" \in c.load
    <3> PICK k : k = Loading(c.load, c.query, c.n)
      OBVIOUS
    <3>1. CallSound(k) /\ k.op = "figure"
      BY <1>1, <2>4, LoadingSound DEF CallSound
    <3> PICK d : d = [k EXCEPT !.slot = c.slot, !.id = c.id]
      OBVIOUS
    <3>2. CallSound(d) /\ d.slot = c.slot /\ d.id = c.id
      BY <1>1, <3>1 DEF CallSound, Kept
    <3>3. Following(c) = {d}
      BY <2>4 DEF Following
    <3>4. \A s \in Slots : \A b \in calls : b.slot = s /\ b.id = busy[s] =>
            \E e \in calls' : e.slot = s /\ e.id = busy[s]
      <4> SUFFICES ASSUME NEW b \in calls
                   PROVE  \E e \in calls' : e.slot = b.slot /\ e.id = b.id
        OBVIOUS
      <4>1. CASE b = c
        BY <2>1, <3>2, <3>3, <4>1
      <4>2. CASE b # c
        <5>1. PICK e \in Superseded(Accompanied(Others(c)), {c.load}) : Same(e, b)
          BY <2>2, <4>2 DEF Others
        <5> QED BY <2>1, <5>1 DEF Same, Kept
      <4> QED BY <4>1, <4>2
    <3>5. \A e \in calls' : CallSound(e)
      BY <2>1, <2>2, <3>2, <3>3
    <3>6. busy' = busy
      BY <1>2, <2>4
    <3> QED BY <3>4, <3>5, <3>6 DEF BusyInv, CallsSound, BusyMeansInFlight
  <2> QED BY <2>3, <2>4
<1> QED BY <1>1, <1>3, <1>4 DEF CallSound

LEMMA CallStepKeeps ==
  ASSUME BusyInv, NEW c \in calls,
         \/ Serve(c) \/ Loaded(c) \/ LoadFailed(c) \/ FigureLoaded(c) \/ FigureFailed(c)
         \/ Done(c) \/ Failed(c)
  PROVE  BusyInv'
<1>1. CallSound(c)
  BY DEF BusyInv, CallsSound
<1>2. CASE Loaded(c) \/ LoadFailed(c)
  <2>1. calls' = Accompanied(Others(c)) /\ busy' = busy /\ c.op = "load"
    BY <1>2 DEF Loaded, LoadFailed
  <2>2. busy' = Released(c)
    BY <1>1, <2>1 DEF Released, CallSound
  <2> QED BY <2>1, <2>2, OthersKept, CallEnds
<1>3. CASE FigureLoaded(c) \/ FigureFailed(c) \/ Failed(c)
  <2>1. calls' = Accompanied(Others(c)) /\ busy' = Released(c)
    BY <1>3 DEF FigureLoaded, FigureFailed, Failed
  <2> QED BY <2>1, OthersKept, CallEnds
<1> QED BY <1>2, <1>3, ServeKeeps, DoneKeeps

-----------------------------------------------------------------------------
(* The acts of a page are made of these.                                   *)
LEMMA OneIsAnId == 1 \in Ids /\ 2 \in Ids /\ Ids \subseteq All /\ 0 \in All
BY RowBoundsAssumption DEF Ids, All

LEMMA ActsKeep ==
  ASSUME BusyInv, NEW slot \in Slots \cup {"none"}, NEW then, NEW load,
         "held" \in load => "figure" \in load /\ "none" \notin load
  PROVE  /\ Create(slot, then, load) => BusyInv'
         /\ CreateAhead(slot, then, load) => BusyInv'
         /\ \A r \in Ids : \A v : Update(r, v, slot, then, load) => BusyInv'
         /\ \A r \in Ids : \A v : UpdateAhead(r, v, slot, then, load) => BusyInv'
         /\ \A r \in Ids : Delete(r, slot, then, load) => BusyInv'
         /\ \A r \in Ids : DeleteAhead(r, slot) => BusyInv'
<1>1. ASSUME NEW op, op # "load", NEW r \in Ids, NEW v, NEW undo, NEW rows, NEW figure,
             \/ Begin(Call(op, r, v, slot, then, undo), rows, figure)
             \/ Begin(Reloading(Call(op, r, v, slot, then, undo), load), rows, figure)
      PROVE  BusyInv'
  BY <1>1, OneIsAnId, NewCallSound, CallBegins
<1>2. ASSUME NEW r \in Ids, DeleteAhead(r, slot) PROVE BusyInv'
  <2>1. Begin(Call("delete", r, 0, slot, "keep", "splice"), Without(shown, r), aside)
    BY <1>2 DEF DeleteAhead
  <2>2. CallSound(Call("delete", r, 0, slot, "keep", "splice"))
    BY OneIsAnId, NewCallSound
  <2> QED BY <2>1, <2>2, CallBegins
<1> QED BY <1>1, <1>2 DEF Create, CreateAhead, Update, UpdateAhead, Delete

LEMMA RetryKeeps ==
  ASSUME BusyInv, NEW p, NEW loads, \A load \in loads : "held" \notin load, Retry(p, loads)
  PROVE  BusyInv'
BY LoadsBegin DEF Retry

(* The pages of the staff portal.                                          *)
LEMMA TemplatesKeeps == ASSUME BusyInv, Templates PROVE BusyInv'
BY ActsKeep, LoadsBegin, RetryKeeps, OneIsAnId
   DEF Templates, TemplatesHandleUpload, TemplatesHandleDelete, TemplatesHandleSaveEdit, TemplatesLoad, Slots, NoLoad, Guarded, Plain, Figure

LEMMA KnowledgeKeeps == ASSUME BusyInv, Knowledge PROVE BusyInv'
BY ActsKeep, LoadsBegin, RetryKeeps, OneIsAnId
   DEF Knowledge, KnowledgeHandleCreate, KnowledgeHandleSaveEdit, KnowledgeHandleTogglePublish, KnowledgeHandleDelete, KnowledgeLoad, Slots, NoLoad, Guarded, Plain, Figure

LEMMA ClausesKeeps == ASSUME BusyInv, Clauses PROVE BusyInv'
BY ActsKeep, LoadsBegin, RetryKeeps, OneIsAnId
   DEF Clauses, ClausesHandleCreate, ClausesHandleDelete, ClausesHandleSaveEdit, ClausesLoad, Slots, NoLoad, Guarded, Plain, Figure

LEMMA IntegrationsKeeps == ASSUME BusyInv, Integrations PROVE BusyInv'
BY ActsKeep, LoadsBegin, RetryKeeps, OneIsAnId
   DEF Integrations, IntegrationsHandleSaveCredentials, IntegrationsHandleDisable, IntegrationsHandleRemove, IntegrationsLoad, Slots, NoLoad, Guarded, Plain, Figure

LEMMA StaffKeeps == ASSUME BusyInv, Staff PROVE BusyInv'
BY ActsKeep, LoadsBegin, RetryKeeps, OneIsAnId
   DEF Staff, StaffHandleToggleStatus, StaffHandleInvite, StaffLoad, Slots, NoLoad, Guarded, Plain, Figure

LEMMA SignedKeeps == ASSUME BusyInv, Signed PROVE BusyInv'
BY ActsKeep, LoadsBegin, RetryKeeps, OneIsAnId
   DEF Signed, SignedHandleUpload, SignedHandleToggleArchive, SignedLoad, Slots, NoLoad, Guarded, Plain, Figure

LEMMA SubmissionsKeeps == ASSUME BusyInv, Submissions PROVE BusyInv'
BY ActsKeep, LoadsBegin, RetryKeeps, OneIsAnId
   DEF Submissions, SubmissionsHandleStatusChange, SubmissionsHandleSubmitNewRequest, SubmissionsHandleConvert, SubmissionsLoad, Slots, NoLoad, Guarded, Plain, Figure

LEMMA FormsKeeps == ASSUME BusyInv, Forms PROVE BusyInv'
BY ActsKeep, LoadsBegin, RetryKeeps, OneIsAnId
   DEF Forms, FormsHandleCreateForm, FormsHandleSaveFormEdit, FormsHandleDeleteForm, FormsHandleTogglePublish, FormsLoad, Slots, NoLoad, Guarded, Plain, Figure

LEMMA FieldsKeeps == ASSUME BusyInv, Fields PROVE BusyInv'
BY ActsKeep, LoadsBegin, RetryKeeps, OneIsAnId
   DEF Fields, FieldsHandleAddField, FieldsHandleSaveFieldEdit, FieldsHandleDeleteField, FormsLoad, Slots, NoLoad, Guarded, Plain, Figure

LEMMA ConversationKeeps == ASSUME BusyInv, Conversation PROVE BusyInv'
<1>1. CASE ConversationHandleSubmit
  <2> PICK load : /\ load = (IF query = "new" THEN {"none", "url"} ELSE NoLoad)
                  /\ CreateAhead("create", "rows", load)
    BY <1>1 DEF ConversationHandleSubmit
  <2>1. "held" \notin load
    BY DEF NoLoad
  <2> QED BY <2>1, ActsKeep DEF Slots
<1>2. OpenConversation => BusyInv'
  BY LoadsBegin DEF OpenConversation, ConversationLoad, Plain
<1>3. CASE StartNewConversation
  <2>1. calls' = Accompanied(calls) /\ busy' = busy
    BY <1>3 DEF StartNewConversation
  <2>2. /\ \A d \in Accompanied(calls) : CallSound(d)
        /\ \A b \in calls : \E d \in Accompanied(calls) : Same(d, b)
    BY AccompaniedKeeps DEF BusyInv, CallsSound
  <2> QED BY <2>1, <2>2, BusyKept DEF BusyInv
<1> QED BY <1>1, <1>2, <1>3 DEF Conversation

LEMMA WorkflowKeeps == ASSUME BusyInv, Workflow PROVE BusyInv'
BY ActsKeep, LoadsBegin, RetryKeeps, OneIsAnId
   DEF Workflow, MoveContract, MoveGatedContract, WorkflowLoad, Slots, NoLoad, Guarded, Plain, Figure

LEMMA SettingsKeeps == ASSUME BusyInv, Settings PROVE BusyInv'
BY ActsKeep, LoadsBegin, RetryKeeps, OneIsAnId
   DEF Settings, SettingsHandleSave, SettingsLoad, Slots, NoLoad, Guarded, Plain, Figure

LEMMA ReportingKeeps == ASSUME BusyInv, Reporting PROVE BusyInv'
BY ActsKeep, LoadsBegin, RetryKeeps, OneIsAnId
   DEF Reporting, HandleUpdateCapacity, Slots, NoLoad, Guarded, Plain, Figure

LEMMA DashboardKeeps == ASSUME BusyInv, Dashboard PROVE BusyInv'
BY ActsKeep, LoadsBegin, RetryKeeps, OneIsAnId
   DEF Dashboard, DashboardLoads, Slots, NoLoad, Guarded, Plain, Figure

LEMMA ContractsKeeps == ASSUME BusyInv, Contracts PROVE BusyInv'
BY ActsKeep, LoadsBegin, RetryKeeps, OneIsAnId
   DEF Contracts, ContractsLoad, Slots, NoLoad, Guarded, Plain, Figure

LEMMA CalendarKeeps == ASSUME BusyInv, Calendar PROVE BusyInv'
BY ActsKeep, LoadsBegin, RetryKeeps, OneIsAnId
   DEF Calendar, SetRangeDays, CalendarLoad, Slots, NoLoad, Guarded, Plain, Figure

LEMMA SearchHandleSubmitKeeps == ASSUME BusyInv, SearchHandleSubmit PROVE BusyInv'
BY ActsKeep, LoadsBegin, RetryKeeps, OneIsAnId
   DEF SearchHandleSubmit, SearchLoad, Slots, NoLoad, Guarded, Plain, Figure

LEMMA AuditLogKeeps == ASSUME BusyInv, AuditLog PROVE BusyInv'
BY ActsKeep, LoadsBegin, RetryKeeps, OneIsAnId
   DEF AuditLog, LoadPage, AuditLogLoad, Slots, NoLoad, Guarded, Plain, Figure

LEMMA BellKeeps == ASSUME BusyInv, Bell PROVE BusyInv'
<1>1. ASSUME NEW op, op # "load", NEW r \in All, NEW rows, NEW figure, NEW then,
             Begin(Call(op, r, 1, "none", then, "snapshot"), rows, figure)
      PROVE  BusyInv'
  <2>1. CallSound(Call(op, r, 1, "none", then, "snapshot"))
    BY <1>1, NewCallSound, "held" \notin NoLoad DEF NoLoad
  <2> QED BY <1>1, <2>1, CallBegins
<1>2. BellHandleMarkAllRead => BusyInv'
  BY <1>1, OneIsAnId DEF BellHandleMarkAllRead
<1>3. ASSUME NEW r \in Ids, BellHandleMarkRead(r) PROVE BusyInv'
  BY <1>1, <1>3, OneIsAnId DEF BellHandleMarkRead
<1>4. BellPoll \/ BellHandleToggle => BusyInv'
  BY LoadsBegin DEF BellPoll, BellHandleToggle, BellList, Figure
<1> QED BY <1>2, <1>3, <1>4 DEF Bell

(* The contract's page and the owner console.                              *)
LEMMA SaveKeeps ==
  ASSUME BusyInv, NEW slot \in Slots, Save(slot)
  PROVE  BusyInv'
<1> PICK r \in Ids : r = Record
  BY OneIsAnId DEF Record
<1>1. Update(r, Flipped(shown[1].id), slot, "rows", NoLoad)
  BY DEF Save
<1> QED BY <1>1, ActsKeep, "held" \notin NoLoad DEF NoLoad

LEMMA ContractStepKeeps == ASSUME BusyInv, ContractStep PROVE BusyInv'
<1>1. OtherContract \/ RetryAll => BusyInv'
  BY LoadsBegin, RetryKeeps DEF OtherContract, RetryAll, LoadAll, Plain
<1>2. HandleSaveDetails \/ HandleStatusSave \/ HandleDeadlineSave => BusyInv'
  BY SaveKeeps DEF HandleSaveDetails, HandleStatusSave, HandleDeadlineSave, Slots
<1>3. HandleRequestApproval \/ HandleAssign \/ HandleUpload \/ HandleCreateTask
        \/ HandleSendMessage \/ HandleSendForSignature => BusyInv'
  BY ActsKeep
     DEF HandleRequestApproval, HandleAssign, HandleUpload, HandleCreateTask, HandleSendMessage,
         HandleSendForSignature, Slots, NoLoad
<1>4. ASSUME NEW r \in Ids, HandleDecideApproval(r) PROVE BusyInv'
  BY <1>4, ActsKeep DEF HandleDecideApproval, Slots, NoLoad
<1>5. ASSUME NEW r \in Ids,
             \/ HandleDeleteDocument(r) \/ HandleTaskStatusChange(r) \/ HandleDeleteTask(r)
             \/ HandleDeleteMessage(r) \/ HandleVoidSignature(r)
      PROVE  BusyInv'
  BY <1>5, ActsKeep, "held" \notin NoLoad
     DEF HandleDeleteDocument, HandleTaskStatusChange, HandleDeleteTask, HandleDeleteMessage,
         HandleVoidSignature, Slots, NoLoad
<1> QED BY <1>1, <1>2, <1>3, <1>4, <1>5 DEF ContractStep

LEMMA InquiriesKeeps == ASSUME BusyInv, Inquiries PROVE BusyInv'
BY ActsKeep, LoadsBegin, RetryKeeps, OneIsAnId
   DEF Inquiries, InquiriesLoad, SilentLoads, SilentRefresh, RefreshSummary, SetFilter, PatchInquiry, InquiryHandleDelete, Slots, NoLoad, Guarded, Plain, Figure

LEMMA OrganizationsKeeps == ASSUME BusyInv, Organizations PROVE BusyInv'
BY ActsKeep, LoadsBegin, RetryKeeps, OneIsAnId
   DEF Organizations, OrganizationsLoad, OrganizationToggleStatus, HandleDeleteOrganization, OnboardOrganization, Slots, NoLoad, Guarded, Plain, Figure

LEMMA AnnouncementsKeeps == ASSUME BusyInv, Announcements PROVE BusyInv'
BY ActsKeep, LoadsBegin, RetryKeeps, OneIsAnId
   DEF Announcements, AnnouncementsLoad, HandleCreateAnnouncement, HandleToggleAnnouncementActive, HandleDeleteAnnouncement, Slots, NoLoad, Guarded, Plain, Figure

LEMMA OwnerAuditKeeps == ASSUME BusyInv, OwnerAudit PROVE BusyInv'
BY ActsKeep, LoadsBegin, RetryKeeps, OneIsAnId
   DEF OwnerAudit, OwnerAuditLoad, OwnerAuditFilter, LoadAudit, Slots, NoLoad, Guarded, Plain, Figure

LEMMA HealthKeeps == ASSUME BusyInv, Health PROVE BusyInv'
BY ActsKeep, LoadsBegin, RetryKeeps, OneIsAnId
   DEF Health, ErrorsLoad, LoadErrors, HealthRefresh, Slots, NoLoad, Guarded, Plain, Figure

LEMMA OverviewKeeps == ASSUME BusyInv, Overview PROVE BusyInv'
BY ActsKeep, LoadsBegin, RetryKeeps, OneIsAnId
   DEF Overview, Slots, NoLoad, Guarded, Plain, Figure

LEMMA OpenSound ==
  ASSUME NEW loads, \A load \in loads : "held" \notin load, Open(loads)
  PROVE  BusyInv
<1>1. busy \in [Slots -> All] /\ \A s \in Slots : busy[s] = 0
  BY OneIsAnId DEF Open
<1>2. \A c \in calls : CallSound(c)
  BY LoadingSound DEF Open
<1> QED BY <1>1, <1>2 DEF BusyInv, CallsSound, BusyMeansInFlight

LEMMA BusyInit == Init => BusyInv
<1>1. ASSUME NEW p \in Pages PROVE \A load \in LoadsOf(p) : "held" \notin load
  <2>1. CASE p \in ContractLists
    BY <2>1 DEF LoadsOf, LoadAll, Plain
  <2>2. CASE p \notin ContractLists /\ p \in DOMAIN StaffLoads
    <3>1. LoadsOf(p) = StaffLoads[p]
      BY <2>2 DEF LoadsOf
    <3>2. \A load \in StaffLoads[p] : "held" \notin load
      BY <2>2 DEF StaffLoads, TemplatesLoad, KnowledgeLoad, ClausesLoad, IntegrationsLoad,
         StaffLoad, SignedLoad, SubmissionsLoad, FormsLoad, ConversationLoad, WorkflowLoad,
         SettingsLoad, ReportingLoad, DashboardLoads, ContractsLoad, CalendarLoad, SearchLoad,
         AuditLogLoad, BellList, Guarded, Plain, Figure
    <3> QED BY <3>1, <3>2
  <2>3. CASE p \notin ContractLists /\ p \notin DOMAIN StaffLoads
    <3>1. LoadsOf(p) = OwnerLoads[p] /\ p \in DOMAIN OwnerLoads
      BY <2>3 DEF LoadsOf, Pages
    <3>2. \A load \in OwnerLoads[p] : "held" \notin load
      BY <3>1 DEF OwnerLoads, InquiriesLoad, OrganizationsLoad, AnnouncementsLoad,
         OwnerAuditLoad, ErrorsLoad, OverviewLoads, Guarded, Plain, Figure
    <3> QED BY <3>1, <3>2
  <2> QED BY <2>1, <2>2, <2>3
<1> QED BY <1>1, OpenSound DEF Init

LEMMA BusyStep == BusyInv /\ [Next]_vars => BusyInv'
<1> SUFFICES ASSUME BusyInv, [Next]_vars PROVE BusyInv'
  OBVIOUS
<1>1. CASE UNCHANGED pageVars
  BY <1>1 DEF pageVars, BusyInv, CallsSound, BusyMeansInFlight
<1>2. CASE StaffStep
  BY <1>2, TemplatesKeeps, KnowledgeKeeps, ClausesKeeps, IntegrationsKeeps, StaffKeeps, SignedKeeps, SubmissionsKeeps, FormsKeeps, FieldsKeeps, ConversationKeeps, WorkflowKeeps, SettingsKeeps, ReportingKeeps, DashboardKeeps, ContractsKeeps, CalendarKeeps, SearchHandleSubmitKeeps, AuditLogKeeps, BellKeeps
     DEF StaffStep
<1>3. CASE ContractStep
  BY <1>3, ContractStepKeeps
<1>4. CASE OwnerStep
  BY <1>4, InquiriesKeeps, OrganizationsKeeps, AnnouncementsKeeps, OwnerAuditKeeps, HealthKeeps, OverviewKeeps DEF OwnerStep
<1>5. CASE CallStep
  BY <1>5, CallStepKeeps DEF CallStep
<1>6. CASE \E r \in Ids : Elsewhere(r)
  BY <1>6 DEF Elsewhere, BusyInv, CallsSound, BusyMeansInFlight
<1> QED BY <1>1, <1>2, <1>3, <1>4, <1>5, <1>6 DEF Next, PageStep, vars

(* A control of a page is disabled only while its own call is in flight,   *)
(* whatever ends the call: for every handler of every page, any number of  *)
(* rows and of acts ("finally" in each handler).                           *)
THEOREM NoControlLeftBusy == Spec => []BusyMeansInFlight
<1>1. BusyInv => BusyMeansInFlight
  BY DEF BusyInv
<1> QED BY <1>1, BusyInit, BusyStep, PTL DEF Spec

-----------------------------------------------------------------------------
(* The forms.                                                              *)
UiType == [working : BOOLEAN, record : Nat, failed : SUBSET FollowUps, error : BOOLEAN,
           asked : SUBSET FollowUps, errors : Nat]

Asked(m, v) == {k \in DOMAIN m : m[k] = v}

Count(v) == Cardinality(Asked(made, v))

TaskFields == {"visit", "at", "todo", "record", "failed", "asked", "phase"}

InCreate(t) == t.at = "create" /\ t.phase = "sent"

TaskSound(t) ==
  /\ TaskFields \subseteq DOMAIN t
  /\ t.visit \in Visits /\ t.at \in FollowUps \cup {"create"} /\ t.todo \in Seq(FollowUps)
  /\ t.record \in Nat /\ t.failed \subseteq FollowUps /\ t.asked \subseteq FollowUps
  /\ InCreate(t) \/ t.record # 0
  /\ t.at = "create" => t.failed = {}

FormTyped ==
  /\ visit \in Visits /\ made \in Seq(Visits) /\ ui \in [Visits -> UiType]
  /\ \A t \in tasks : TaskSound(t)

(* One handler at a time in a visit, and its button shows it.              *)
Single ==
  /\ \A t \in tasks : ui[t.visit].working
  /\ \A t, u \in tasks : t.visit = u.visit => t = u
  /\ \A v \in Visits : ui[v].failed # {} => ui[v].record # 0

(* A record that no error accounts for is one that the visit shows, or is  *)
(* about to.                                                               *)
CountSound(v) ==
  /\ Count(v) <= ui[v].errors + 1
  /\ ~ui[v].working /\ ui[v].record = 0 => Count(v) <= ui[v].errors
  /\ \A t \in tasks : t.visit = v /\ InCreate(t) => Count(v) <= ui[v].errors

FormInv ==
  /\ FormTyped /\ Single
  /\ form # "newcontract" => \A v \in Visits : CountSound(v)

LEMMA CountAfterAppend ==
  ASSUME NEW m \in Seq(Visits), NEW u \in Visits, NEW v \in Visits
  PROVE  /\ Cardinality(Asked(m, v)) \in Nat
         /\ Cardinality(Asked(Append(m, u), v)) =
              IF u = v THEN Cardinality(Asked(m, v)) + 1 ELSE Cardinality(Asked(m, v))
<1>1. IsFiniteSet(Asked(m, v))
  <2>1. Len(m) \in Int /\ DOMAIN m = 1 .. Len(m)
    OBVIOUS
  <2>2. IsFiniteSet(1 .. Len(m))
    BY <2>1, FS_Interval
  <2> QED BY <2>1, <2>2, FS_Subset DEF Asked
<1>2. Asked(Append(m, u), v) = IF u = v THEN Asked(m, v) \cup {Len(m) + 1} ELSE Asked(m, v)
  BY DEF Asked
<1>3. Len(m) + 1 \notin Asked(m, v)
  BY DEF Asked
<1> QED BY <1>1, <1>2, <1>3, FS_AddElement, FS_CardinalityType

LEMMA CountNat == ASSUME FormInv, NEW v \in Visits PROVE Count(v) \in Nat
BY CountAfterAppend DEF FormInv, FormTyped, Count

LEMMA UiFields ==
  ASSUME NEW x \in UiType
  PROVE  /\ x.working \in BOOLEAN /\ x.record \in Nat /\ x.failed \subseteq FollowUps
         /\ x.error \in BOOLEAN /\ x.asked \subseteq FollowUps /\ x.errors \in Nat
BY DEF UiType

(* The screen of one visit moves, its handler with it.                     *)
VisitMoves(v, x) ==
  /\ UNCHANGED <<form, visit, made>>
  /\ ui' \in [Visits -> UiType] /\ ui'[v] = x
  /\ \A u \in Visits \ {v} : ui'[u] = ui[u]
  /\ \A t \in tasks' : \/ t \in tasks /\ t.visit # v
                       \/ TaskSound(t) /\ t.visit = v /\ x.working
  /\ \A t, u \in tasks' : t.visit = v /\ u.visit = v => t = u
  /\ x.failed # {} => x.record # 0
  /\ form # "newcontract" =>
       /\ Count(v) <= x.errors + 1
       /\ ~x.working /\ x.record = 0 => Count(v) <= x.errors
       /\ \A t \in tasks' : t.visit = v /\ InCreate(t) => Count(v) <= x.errors

LEMMA VisitMovesKeeps ==
  ASSUME FormInv, NEW v \in Visits, NEW x \in UiType, VisitMoves(v, x)
  PROVE  FormInv'
<1> USE DEF VisitMoves
<1>1. FormTyped'
  BY DEF FormInv, FormTyped
<1>2. Single'
  <2>1. \A t \in tasks' : ui'[t.visit].working
    BY DEF FormInv, FormTyped, Single, TaskSound
  <2>2. \A t, u \in tasks' : t.visit = u.visit => t = u
    BY DEF FormInv, Single
  <2>3. \A u \in Visits : ui'[u].failed # {} => ui'[u].record # 0
    BY DEF FormInv, Single
  <2> QED BY <2>1, <2>2, <2>3 DEF Single
<1>3. ASSUME form # "newcontract", NEW u \in Visits PROVE CountSound(u)'
  <2>1. Count(u)' = Count(u)
    BY DEF Count
  <2>2. CASE u = v
    BY <1>3, <2>1, <2>2 DEF CountSound
  <2>3. CASE u # v
    BY <1>3, <2>1, <2>3 DEF FormInv, CountSound
  <2> QED BY <2>2, <2>3
<1> QED BY <1>1, <1>2, <1>3 DEF FormInv

LEMMA TaskStarts ==
  ASSUME visit \in Visits, NEW at \in FollowUps \cup {"create"}, NEW todo \in Seq(FollowUps),
         NEW record \in Nat, at = "create" \/ record # 0
  PROVE  TaskSound(Task(at, todo, record)) /\ Task(at, todo, record).visit = visit
<1>1. {todo[k] : k \in DOMAIN todo} \subseteq FollowUps
  OBVIOUS
<1>2. FollowUps \cap {at} \subseteq FollowUps
  OBVIOUS
<1> QED BY <1>1, <1>2 DEF Task, TaskSound, TaskFields, InCreate

LEMMA TaskGoesOn ==
  ASSUME NEW t, TaskSound(t), t.record # 0, NEW failed \in SUBSET FollowUps
  PROVE  /\ \A u \in Onward(t, failed) : TaskSound(u) /\ u.visit = t.visit /\ ~InCreate(u)
         /\ \A u, w \in Onward(t, failed) : u = w
         /\ t.todo = << >> <=> Onward(t, failed) = {}
<1>1. CASE t.todo = << >>
  BY <1>1 DEF Onward
<1>2. CASE t.todo # << >>
  <2>1. t.todo \in Seq(FollowUps)
    BY DEF TaskSound
  <2>2. Head(t.todo) \in FollowUps /\ Tail(t.todo) \in Seq(FollowUps)
    BY <1>2, <2>1
  <2> PICK at : at = Head(t.todo)
    OBVIOUS
  <2> PICK todo : todo = Tail(t.todo)
    OBVIOUS
  <2> PICK u : u = [t EXCEPT !.at = at, !.todo = todo, !.failed = failed, !.phase = "sent"]
    OBVIOUS
  <2>3. Onward(t, failed) = {u}
    BY <1>2 DEF Onward
  <2>4. /\ TaskFields \subseteq DOMAIN u
        /\ u.at = at /\ u.todo = todo /\ u.failed = failed /\ u.visit = t.visit
        /\ u.record = t.record /\ u.asked = t.asked
    BY DEF TaskSound, TaskFields
  <2>5. at # "create"
    BY <2>2 DEF FollowUps
  <2> QED BY <1>2, <2>2, <2>3, <2>4, <2>5 DEF TaskSound, InCreate
<1> QED BY <1>1, <1>2

LEMMA SubmitKeeps ==
  ASSUME FormInv, NEW todo \in Seq(FollowUps), Submit(todo),
         ~ui[visit].working, form # "newcontract" => ui[visit].record = 0
  PROVE  FormInv'
<1> PICK v \in Visits : v = visit
  BY DEF FormInv, FormTyped
<1>1. ui[v] \in UiType /\ ui \in [Visits -> UiType]
  BY DEF FormInv, FormTyped
<1> PICK x : x = [ui[v] EXCEPT !.working = TRUE, !.error = FALSE, !.failed = {}]
  OBVIOUS
<1>2. x \in UiType /\ x.working /\ x.failed = {} /\ x.errors = ui[v].errors
  BY <1>1 DEF UiType
<1>3. ui' = [ui EXCEPT ![v] = x]
  BY <1>1 DEF Submit
<1>4. ui' \in [Visits -> UiType] /\ ui'[v] = x /\ \A u \in Visits \ {v} : ui'[u] = ui[u]
  BY <1>1, <1>2, <1>3
<1> PICK k : k = Task("create", todo, 0)
  OBVIOUS
<1>5. TaskSound(k) /\ k.visit = v
  BY TaskStarts DEF FormInv, FormTyped
<1>6. tasks' = tasks \cup {k} /\ UNCHANGED <<form, visit, made>>
  BY DEF Submit
<1>7. \A t \in tasks : t.visit # v
  BY DEF FormInv, Single
<1>8. form # "newcontract" => Count(v) <= x.errors /\ Count(v) <= x.errors + 1
  BY <1>1, <1>2, CountNat, UiFields DEF FormInv, CountSound
<1>9. \A t \in tasks' : \/ t \in tasks /\ t.visit # v
                        \/ TaskSound(t) /\ t.visit = v /\ x.working
  BY <1>2, <1>5, <1>6, <1>7
<1>10. \A t, u \in tasks' : t.visit = v /\ u.visit = v => t = u
  BY <1>6, <1>7
<1>20. x.failed # {} => x.record # 0
  BY <1>2
<1>21. form # "newcontract" =>
         /\ Count(v) <= x.errors + 1
         /\ ~x.working /\ x.record = 0 => Count(v) <= x.errors
         /\ \A t \in tasks' : t.visit = v /\ InCreate(t) => Count(v) <= x.errors
  BY <1>2, <1>8
<1>22. VisitMoves(v, x)
  BY <1>4, <1>6, <1>9, <1>10, <1>20, <1>21 DEF VisitMoves
<1> QED BY <1>2, <1>22, VisitMovesKeeps

LEMMA RetryLinkKeeps ==
  ASSUME FormInv, RetryLink
  PROVE  FormInv'
<1> PICK v \in Visits : v = visit
  BY DEF FormInv, FormTyped
<1>1. ui[v] \in UiType /\ ui \in [Visits -> UiType]
  BY DEF FormInv, FormTyped
<1>2. /\ ~ui[v].working /\ ui[v].failed # {} /\ ui[v].record # 0 /\ ui[v].record \in Nat
  BY <1>1, UiFields DEF RetryLink, OnboardOffersRetry, FormInv, Single
<1> PICK x : x = [ui[v] EXCEPT !.working = TRUE]
  OBVIOUS
<1>3. x \in UiType /\ x.working /\ x.record = ui[v].record /\ x.errors = ui[v].errors
  BY <1>1 DEF UiType
<1>4. ui' = [ui EXCEPT ![v] = x]
  BY <1>1 DEF RetryLink
<1>5. ui' \in [Visits -> UiType] /\ ui'[v] = x /\ \A u \in Visits \ {v} : ui'[u] = ui[u]
  BY <1>1, <1>3, <1>4
<1> PICK k : k = Task("link", << >>, ui[v].record)
  OBVIOUS
<1>6. TaskSound(k) /\ k.visit = v /\ ~InCreate(k)
  <2>1. << >> \in Seq(FollowUps) /\ "link" \in FollowUps
    BY DEF FollowUps
  <2>2. TaskSound(k) /\ k.visit = v
    BY <1>2, <2>1, TaskStarts
  <2>3. k.at = "link"
    BY DEF Task
  <2> QED BY <2>2, <2>3 DEF InCreate
<1>7. tasks' = tasks \cup {k} /\ UNCHANGED <<form, visit, made>>
  BY DEF RetryLink
<1>8. \A t \in tasks : t.visit # v
  BY <1>2 DEF FormInv, Single
<1>9. form # "newcontract" => Count(v) <= x.errors + 1
  BY <1>3 DEF FormInv, CountSound
<1>10. \A t \in tasks' : \/ t \in tasks /\ t.visit # v
                         \/ TaskSound(t) /\ t.visit = v /\ x.working
  BY <1>3, <1>6, <1>7, <1>8
<1>11. \A t, u \in tasks' : t.visit = v /\ u.visit = v => t = u /\ ~InCreate(t)
  BY <1>6, <1>7, <1>8
<1>20. x.failed # {} => x.record # 0
  BY <1>2, <1>3
<1>21. form # "newcontract" =>
         /\ Count(v) <= x.errors + 1
         /\ ~x.working /\ x.record = 0 => Count(v) <= x.errors
         /\ \A t \in tasks' : t.visit = v /\ InCreate(t) => Count(v) <= x.errors
  BY <1>3, <1>9, <1>11
<1>22. VisitMoves(v, x)
  BY <1>5, <1>7, <1>10, <1>11, <1>20, <1>21 DEF VisitMoves
<1> QED BY <1>3, <1>22, VisitMovesKeeps

(* What is known of the handler that goes on.                              *)
LEMMA HandlerKnown ==
  ASSUME FormInv, NEW t \in tasks
  PROVE  /\ TaskSound(t) /\ t.visit \in Visits
         /\ ui[t.visit] \in UiType /\ ui[t.visit].working
         /\ \A u \in OtherTasks(t) : u \in tasks /\ u.visit # t.visit
BY DEF FormInv, FormTyped, Single, TaskSound, OtherTasks

LEMMA CreatedKeeps ==
  ASSUME FormInv, NEW t \in tasks, Created(t)
  PROVE  FormInv'
<1>1. /\ TaskSound(t) /\ ui[t.visit] \in UiType /\ ui[t.visit].working
      /\ \A u \in OtherTasks(t) : u \in tasks /\ u.visit # t.visit
  BY HandlerKnown
<1> PICK v \in Visits : v = t.visit
  BY HandlerKnown
<1>2. /\ t.record # 0 /\ t.record \in Nat /\ t.asked \subseteq FollowUps
      /\ tasks' = OtherTasks(t) \cup Onward(t, {})
      /\ ui' = IF t.todo = << >> THEN Finished(t, {})
               ELSE IF form = "onboard"
               THEN [ui EXCEPT ![t.visit].record = t.record, ![t.visit].asked = t.asked]
               ELSE ui
      /\ UNCHANGED <<form, visit, made>>
  BY <1>1 DEF Created, TaskSound, InCreate
<1>3. /\ \A u \in Onward(t, {}) : TaskSound(u) /\ u.visit = t.visit /\ ~InCreate(u)
      /\ \A u, w \in Onward(t, {}) : u = w
      /\ t.todo = << >> <=> Onward(t, {}) = {}
  <2>1. {} \in SUBSET FollowUps
    OBVIOUS
  <2> QED BY <1>1, <1>2, <2>1, TaskGoesOn
<1>4. ui \in [Visits -> UiType]
  BY DEF FormInv, FormTyped
<1>5. PICK x \in UiType :
        /\ ui' = [ui EXCEPT ![v] = x]
        /\ x.errors = ui[v].errors
        /\ x.working <=> t.todo # << >>
        /\ ~x.working => x.record # 0
        /\ x.failed # {} => x.record # 0
  <2>1. CASE t.todo = << >>
    <3> PICK x : x = [ui[v] EXCEPT !.working = FALSE, !.record = t.record,
                                   !.failed = {}, !.asked = t.asked]
      OBVIOUS
    <3>1. x \in UiType /\ ~x.working /\ x.record = t.record /\ x.errors = ui[v].errors
      BY <1>1, <1>2 DEF UiType
    <3>2. ui' = [ui EXCEPT ![v] = x]
      BY <1>2, <1>4, <2>1 DEF Finished
    <3> QED BY <1>2, <2>1, <3>1, <3>2
  <2>2. CASE t.todo # << >> /\ form = "onboard"
    <3> PICK x : x = [ui[v] EXCEPT !.record = t.record, !.asked = t.asked]
      OBVIOUS
    <3>1. /\ x \in UiType /\ x.working /\ x.record = t.record /\ x.errors = ui[v].errors
      BY <1>1, <1>2 DEF UiType
    <3>2. ui' = [ui EXCEPT ![v] = x]
      BY <1>2, <1>4, <2>2
    <3> QED BY <1>2, <2>2, <3>1, <3>2
  <2>3. CASE t.todo # << >> /\ form # "onboard"
    <3>1. ui' = [ui EXCEPT ![v] = ui[v]]
      BY <1>2, <1>4, <2>3
    <3>2. ui[v].failed # {} => ui[v].record # 0
      BY DEF FormInv, Single
    <3> QED BY <1>1, <2>3, <3>1, <3>2
  <2> QED BY <2>1, <2>2, <2>3
<1>6. ui' \in [Visits -> UiType] /\ ui'[v] = x /\ \A u \in Visits \ {v} : ui'[u] = ui[u]
  BY <1>4, <1>5
<1>7. \A u \in tasks' : \/ u \in tasks /\ u.visit # v
                        \/ TaskSound(u) /\ u.visit = v /\ x.working
  BY <1>1, <1>2, <1>3, <1>5
<1>8. \A u, w \in tasks' : u.visit = v /\ w.visit = v => u = w /\ ~InCreate(u)
  BY <1>1, <1>2, <1>3
<1>9. form # "newcontract" => Count(v) <= x.errors + 1
  BY <1>5 DEF FormInv, CountSound
<1>10. VisitMoves(v, x)
  BY <1>2, <1>5, <1>6, <1>7, <1>8, <1>9 DEF VisitMoves
<1> QED BY <1>10, VisitMovesKeeps

LEMMA CreateFailedKeeps ==
  ASSUME FormInv, NEW t \in tasks, CreateFailed(t)
  PROVE  FormInv'
<1>1. /\ ui[t.visit] \in UiType
      /\ \A u \in OtherTasks(t) : u \in tasks /\ u.visit # t.visit
  BY HandlerKnown
<1> PICK v \in Visits : v = t.visit
  BY HandlerKnown
<1>2. tasks' = OtherTasks(t) /\ UNCHANGED <<form, visit, made>>
  BY DEF CreateFailed
<1>3. ui \in [Visits -> UiType]
  BY DEF FormInv, FormTyped
<1> PICK n \in Nat : n = ui[v].errors + 1
  BY <1>1, UiFields
<1> PICK x : x = [ui[v] EXCEPT !.working = FALSE, !.error = TRUE, !.errors = n]
  OBVIOUS
<1>4. /\ x \in UiType /\ x.errors = ui[v].errors + 1
      /\ x.failed = ui[v].failed /\ x.record = ui[v].record
  BY <1>1 DEF UiType
<1>5. ui' = [ui EXCEPT ![v] = x]
  BY <1>3 DEF CreateFailed
<1>6. ui' \in [Visits -> UiType] /\ ui'[v] = x /\ \A u \in Visits \ {v} : ui'[u] = ui[u]
  BY <1>3, <1>4, <1>5
<1>7. x.failed # {} => x.record # 0
  BY <1>4 DEF FormInv, Single
<1>8. form # "newcontract" => Count(v) <= x.errors /\ Count(v) <= x.errors + 1
  <2>1. ui[v].errors \in Nat /\ Count(v) \in Nat
    BY <1>1, UiFields, CountNat
  <2>2. form # "newcontract" => Count(v) <= ui[v].errors + 1
    BY DEF FormInv, CountSound
  <2> QED BY <1>4, <2>1, <2>2
<1>9. VisitMoves(v, x)
  BY <1>1, <1>2, <1>6, <1>7, <1>8 DEF VisitMoves
<1> QED BY <1>4, <1>9, VisitMovesKeeps

LEMMA FollowedUpKeeps ==
  ASSUME FormInv, NEW t \in tasks, FollowedUp(t)
  PROVE  FormInv'
<1>1. /\ TaskSound(t) /\ ui[t.visit] \in UiType /\ ui[t.visit].working
      /\ \A u \in OtherTasks(t) : u \in tasks /\ u.visit # t.visit
  BY HandlerKnown
<1> PICK v \in Visits : v = t.visit
  BY HandlerKnown
<1>2. PICK failed \in SUBSET FollowUps :
        /\ tasks' = OtherTasks(t) \cup Onward(t, failed)
        /\ ui' = IF t.todo = << >> THEN Finished(t, failed) ELSE ui
  <2>1. PICK ok \in BOOLEAN :
          /\ tasks' = OtherTasks(t) \cup Onward(t, FailuresAfter(t, ok))
          /\ ui' = IF t.todo = << >> THEN Finished(t, FailuresAfter(t, ok)) ELSE ui
    BY DEF FollowedUp
  <2>2. FailuresAfter(t, ok) \in SUBSET FollowUps
    BY <1>1 DEF FailuresAfter, TaskSound, FollowedUp
  <2> QED BY <2>1, <2>2
<1>3. /\ t.record # 0 /\ t.record \in Nat /\ t.asked \subseteq FollowUps
      /\ UNCHANGED <<form, visit, made>>
  BY <1>1 DEF FollowedUp, TaskSound, InCreate, FollowUps
<1>4. /\ \A u \in Onward(t, failed) : TaskSound(u) /\ u.visit = t.visit /\ ~InCreate(u)
      /\ \A u, w \in Onward(t, failed) : u = w
      /\ t.todo = << >> <=> Onward(t, failed) = {}
  BY <1>1, <1>3, TaskGoesOn
<1>5. ui \in [Visits -> UiType]
  BY DEF FormInv, FormTyped
<1>6. PICK x \in UiType :
        /\ ui' = [ui EXCEPT ![v] = x]
        /\ x.errors = ui[v].errors
        /\ x.working <=> t.todo # << >>
        /\ ~x.working => x.record # 0
        /\ x.failed # {} => x.record # 0
  <2>1. CASE t.todo = << >>
    <3> PICK x : x = [ui[v] EXCEPT !.working = FALSE, !.record = t.record,
                                   !.failed = failed, !.asked = t.asked]
      OBVIOUS
    <3>1. x \in UiType /\ ~x.working /\ x.record = t.record /\ x.errors = ui[v].errors
      BY <1>1, <1>3 DEF UiType
    <3>2. ui' = [ui EXCEPT ![v] = x]
      BY <1>2, <1>5, <2>1 DEF Finished
    <3> QED BY <1>3, <2>1, <3>1, <3>2
  <2>2. CASE t.todo # << >>
    <3>1. ui' = [ui EXCEPT ![v] = ui[v]]
      BY <1>2, <1>5, <2>2
    <3>2. ui[v].failed # {} => ui[v].record # 0
      BY DEF FormInv, Single
    <3> QED BY <1>1, <2>2, <3>1, <3>2
  <2> QED BY <2>1, <2>2
<1>7. ui' \in [Visits -> UiType] /\ ui'[v] = x /\ \A u \in Visits \ {v} : ui'[u] = ui[u]
  BY <1>5, <1>6
<1>8. \A u \in tasks' : \/ u \in tasks /\ u.visit # v
                        \/ TaskSound(u) /\ u.visit = v /\ x.working
  BY <1>1, <1>2, <1>4, <1>6
<1>9. \A u, w \in tasks' : u.visit = v /\ w.visit = v => u = w /\ ~InCreate(u)
  BY <1>1, <1>2, <1>4
<1>10. form # "newcontract" => Count(v) <= x.errors + 1
  BY <1>6 DEF FormInv, CountSound
<1>11. VisitMoves(v, x)
  BY <1>3, <1>6, <1>7, <1>8, <1>9, <1>10 DEF VisitMoves
<1> QED BY <1>11, VisitMovesKeeps

LEMMA OneMore ==
  ASSUME NEW A, NEW B, NEW k, NEW v,
         \A u \in A : u \in B /\ u.visit # v, k.visit = v,
         \A u, w \in B : u.visit = w.visit => u = w
  PROVE  \A u, w \in A \cup {k} : u.visit = w.visit => u = w
OBVIOUS

LEMMA ServeTaskKeeps ==
  ASSUME FormInv, NEW t \in tasks, ServeTask(t)
  PROVE  FormInv'
<1>1. /\ TaskSound(t) /\ ui[t.visit] \in UiType /\ ui[t.visit].working
      /\ \A u \in OtherTasks(t) : u \in tasks /\ u.visit # t.visit
  BY HandlerKnown
<1> PICK v \in Visits : v = t.visit
  BY HandlerKnown
<1>2. t.phase = "sent" /\ UNCHANGED <<form, visit, ui>>
  BY DEF ServeTask
<1>3. ui \in [Visits -> UiType] /\ made \in Seq(Visits)
  BY DEF FormInv, FormTyped
<1>4. CASE t.at # "create"
  <2> PICK k : k = [t EXCEPT !.phase = "answered"]
    OBVIOUS
  <2>1. TaskSound(k) /\ k.visit = v /\ ~InCreate(k)
    BY <1>1, <1>4 DEF TaskSound, TaskFields, InCreate
  <2>2. tasks' = OtherTasks(t) \cup {k} /\ UNCHANGED made
    BY <1>4 DEF ServeTask
  <2> PICK x \in UiType : x = ui[v]
    BY <1>1
  <2>3. \A u \in tasks' : \/ u \in tasks /\ u.visit # v
                          \/ TaskSound(u) /\ u.visit = v /\ x.working
    BY <1>1, <2>1, <2>2
  <2>4. \A u, w \in tasks' : u.visit = v /\ w.visit = v => u = w /\ ~InCreate(u)
    BY <1>1, <2>1, <2>2
  <2>5. form # "newcontract" => Count(v) <= x.errors + 1
    BY DEF FormInv, CountSound
  <2>6. x.failed # {} => x.record # 0
    BY DEF FormInv, Single
  <2>7. VisitMoves(v, x)
    BY <1>1, <1>2, <1>3, <2>2, <2>3, <2>4, <2>5, <2>6 DEF VisitMoves
  <2> QED BY <2>7, VisitMovesKeeps
<1>5. CASE t.at = "create"
  <2> PICK n \in Nat : n = Len(made) + 1
    BY <1>3
  <2> PICK k : k = [t EXCEPT !.record = n, !.phase = "answered"]
    OBVIOUS
  <2>1. TaskSound(k) /\ k.visit = v /\ ~InCreate(k)
    <3>1. n # 0
      BY <1>3
    <3> QED BY <1>1, <3>1 DEF TaskSound, TaskFields, InCreate
  <2>2. tasks' = OtherTasks(t) \cup {k} /\ made' = Append(made, v)
    BY <1>5 DEF ServeTask
  <2>3. made' \in Seq(Visits)
    BY <1>3, <2>2
  <2>4. FormTyped'
    BY <1>1, <1>2, <2>1, <2>2, <2>3 DEF FormInv, FormTyped
  <2>5. Single'
    <3>1. \A u \in tasks' : ui[u.visit].working
      BY <1>1, <2>1, <2>2 DEF FormInv, Single
    <3>2. \A u, w \in tasks : u.visit = w.visit => u = w
      BY DEF FormInv, Single
    <3>3. \A u \in OtherTasks(t) : u \in tasks /\ u.visit # v
      BY HandlerKnown
    <3>4. \A u, w \in tasks' : u.visit = w.visit => u = w
      BY <2>1, <2>2, <3>2, <3>3, OneMore
    <3>5. \A u \in Visits : ui[u].failed # {} => ui[u].record # 0
      BY DEF FormInv, Single
    <3> QED BY <1>2, <3>1, <3>4, <3>5 DEF Single
  <2>6. ASSUME form # "newcontract", NEW u \in Visits PROVE CountSound(u)'
    <3>1. /\ Count(u) \in Nat
          /\ Count(u)' = IF v = u THEN Count(u) + 1 ELSE Count(u)
      BY <1>3, <2>2, CountAfterAppend DEF Count
    <3>2. CountSound(u)
      BY <2>6 DEF FormInv
    <3>3. CASE u = v
      <4>1. Count(v) <= ui[v].errors /\ ui[v].errors \in Nat
        BY <1>1, <1>2, <1>5, <3>2, <3>3, UiFields DEF CountSound, InCreate
      <4>2. \A w \in tasks' : w.visit = v => ~InCreate(w)
        BY <1>1, <2>1, <2>2
      <4>3. Count(u)' <= ui[v].errors + 1
        BY <3>1, <3>3, <4>1
      <4> QED BY <1>1, <1>2, <3>3, <4>2, <4>3 DEF CountSound
    <3>4. CASE u # v
      <4>1. \A w \in tasks' : w.visit = u => w \in tasks
        BY <1>1, <2>1, <2>2, <3>4
      <4> QED BY <1>2, <3>1, <3>2, <3>4, <4>1 DEF CountSound
    <3> QED BY <3>3, <3>4
  <2> QED BY <1>2, <2>4, <2>5, <2>6 DEF FormInv
<1> QED BY <1>4, <1>5

LEMMA FormBegins == FormInit \/ (form = "none" /\ NoForm) => FormInv
<1> SUFFICES ASSUME NoForm PROVE FormInv
  BY DEF FormInit
<1>1. visit \in Visits
  BY FormBoundsAssumption DEF NoForm, Visits
<1>2. Fresh \in UiType /\ ~Fresh.working /\ Fresh.failed = {} /\ Fresh.errors = 0
  BY DEF Fresh, UiType
<1>3. ui \in [Visits -> UiType] /\ made \in Seq(Visits) /\ tasks = {}
  BY <1>2 DEF NoForm
<1>4. \A v \in Visits : Count(v) = 0
  <2>1. \A v : Asked(made, v) = {}
    BY DEF NoForm, Asked
  <2> QED BY <2>1, FS_EmptySet DEF Count
<1>5. \A v \in Visits : CountSound(v)
  BY <1>2, <1>3, <1>4 DEF NoForm, CountSound
<1> QED BY <1>1, <1>2, <1>3, <1>5 DEF NoForm, FormInv, FormTyped, Single

LEMMA FormStepKeeps == FormInv /\ FormStep => FormInv'
<1> SUFFICES ASSUME FormInv, FormStep PROVE FormInv'
  OBVIOUS
<1>1. /\ << >> \in Seq(FollowUps) /\ <<"link">> \in Seq(FollowUps)
      /\ <<"lead">> \in Seq(FollowUps) /\ <<"paralegal">> \in Seq(FollowUps)
      /\ <<"lead", "paralegal">> \in Seq(FollowUps)
  BY DEF FollowUps
<1>2. CASE NewContractHandleSubmit
  BY <1>1, <1>2, SubmitKeeps DEF NewContractHandleSubmit, NewContractOffersSubmit
<1>3. CASE OnboardHandleSubmit
  BY <1>1, <1>3, SubmitKeeps DEF OnboardHandleSubmit, OnboardOffersSubmit
<1>4. CASE \/ RegisterHandleSubmit \/ ContactHandleSubmit \/ ResetPasswordHandleSubmit
           \/ AcceptStaffInviteHandleSubmit \/ LoginHandleSubmit \/ HandleForgotSubmit
  BY <1>1, <1>4, SubmitKeeps
     DEF RegisterHandleSubmit, ContactHandleSubmit, ResetPasswordHandleSubmit,
         AcceptStaffInviteHandleSubmit, LoginHandleSubmit, HandleForgotSubmit, OffersOnce
<1>5. CASE LeaveAndReturn
  <2>1. visit' \in Visits /\ UNCHANGED <<form, ui, tasks, made>>
    BY <1>5, FormBoundsAssumption DEF LeaveAndReturn, FormInv, FormTyped, Visits
  <2> QED BY <2>1 DEF FormInv, FormTyped, Single, CountSound, Count
<1>6. CASE \E v \in Visits : HandlerStep(v)
  BY <1>6, ServeTaskKeeps, CreatedKeeps, CreateFailedKeeps, FollowedUpKeeps DEF HandlerStep
<1> QED BY <1>2, <1>3, <1>4, <1>5, <1>6, RetryLinkKeeps DEF FormStep

(* However often a form is left, opened again, submitted and retried, a    *)
(* visit asks the server for one record, and for one more per error shown: *)
(* NewContract, whose form stays after a success, excepted.                *)
THEOREM AsksOnce == Spec => []AskedOnce
<1>1. Init => FormInv
  BY FormBegins DEF Init
<1>2. FormInv /\ [Next]_vars => FormInv'
  <2>1. UNCHANGED formVars /\ FormInv => FormInv'
    BY DEF formVars, FormInv, FormTyped, Single, CountSound, Count
  <2> QED BY <2>1, FormStepKeeps DEF Next, vars
<1>3. FormInv => AskedOnce
  BY DEF FormInv, CountSound, Count, Asked, AskedOnce
<1> QED BY <1>1, <1>2, <1>3, PTL DEF Spec

-----------------------------------------------------------------------------
(* What is missing is said.                                                *)
Todo(t) == {t.todo[k] : k \in DOMAIN t.todo}

(* What a handler was asked for has failed, is to come, or is done.        *)
Accounted(t) ==
  \A f \in t.asked :
    \/ f \in t.failed \/ f \in Todo(t)
    \/ t.at = f /\ t.phase = "sent"
    \/ ~InCreate(t) /\ <<t.record, f>> \in done

Reported(v) ==
  ui[v].record # 0 /\ ~ui[v].working /\ ~ui[v].error =>
    \A f \in ui[v].asked \ ui[v].failed : <<ui[v].record, f>> \in done

Used(v) == ui[v].errors # 0 \/ ui[v].record # 0 \/ \E t \in tasks : t.visit = v

Alone(v) == \A u \in Visits \ {v} : ~Used(u)

ReportSound(v) == Reported(v) /\ \A t \in tasks : t.visit = v => Accounted(t)

ReportInv == FormInv /\ \A v \in Visits : Alone(v) => ReportSound(v)

(* One visit acts: nobody else is alone after it.                          *)
LEMMA OneVisitActs ==
  ASSUME ReportInv, FormInv', NEW v \in Visits, Used(v)',
         \A u \in Visits \ {v} : ui'[u] = ui[u],
         \A t \in tasks : t.visit # v => t \in tasks',
         Alone(v) => ReportSound(v)'
  PROVE  ReportInv'
<1> SUFFICES ASSUME NEW w \in Visits, Alone(w)' PROVE ReportSound(w)'
  BY DEF ReportInv
<1>1. w = v
  BY DEF Alone
<1>2. Alone(v)
  BY <1>1 DEF Alone, Used
<1> QED BY <1>1, <1>2

(* While its handler goes on a visit claims nothing.                       *)
LEMMA StillAtWork ==
  ASSUME FormInv', NEW v \in Visits, NEW k, k \in tasks', k.visit = v,
         Accounted(k)'
  PROVE  Used(v)' /\ ReportSound(v)'
<1>1. ui'[v].working /\ \A u \in tasks' : u.visit = v => u = k
  BY DEF FormInv, Single
<1> QED BY <1>1 DEF Used, ReportSound, Reported

LEMMA SubmitReports ==
  ASSUME ReportInv, FormInv', NEW todo \in Seq(FollowUps), Submit(todo)
  PROVE  ReportInv'
<1> PICK v \in Visits : v = visit
  BY DEF ReportInv, FormInv, FormTyped
<1> PICK k : k = Task("create", todo, 0)
  OBVIOUS
<1>1. /\ tasks' = tasks \cup {k} /\ \A u \in Visits \ {v} : ui'[u] = ui[u]
  BY DEF Submit, ReportInv, FormInv, FormTyped
<1>2. k.visit = v /\ k.todo = todo /\ k.asked \subseteq Todo(k)
  BY DEF Task, Todo, FollowUps
<1>3. Accounted(k)'
  BY <1>2 DEF Accounted
<1> QED BY <1>1, <1>2, <1>3, StillAtWork, OneVisitActs

LEMMA RetryReports ==
  ASSUME ReportInv, FormInv', RetryLink
  PROVE  ReportInv'
<1> PICK v \in Visits : v = visit
  BY DEF ReportInv, FormInv, FormTyped
<1> PICK record : record = ui[v].record
  OBVIOUS
<1> PICK k : k = Task("link", << >>, record)
  OBVIOUS
<1>1. /\ tasks' = tasks \cup {k} /\ \A u \in Visits \ {v} : ui'[u] = ui[u]
  BY DEF RetryLink, ReportInv, FormInv, FormTyped
<1>2. k.visit = v /\ k.at = "link" /\ k.phase = "sent" /\ k.asked \subseteq {"link"}
  BY DEF Task
<1>3. Accounted(k)'
  BY <1>2 DEF Accounted
<1> QED BY <1>1, <1>2, <1>3, StillAtWork, OneVisitActs

LEMMA ServeReports ==
  ASSUME ReportInv, FormInv', NEW t \in tasks, ServeTask(t)
  PROVE  ReportInv'
<1>1. /\ TaskSound(t) /\ \A u \in OtherTasks(t) : u \in tasks /\ u.visit # t.visit
  BY HandlerKnown DEF ReportInv
<1> PICK v \in Visits : v = t.visit
  BY HandlerKnown DEF ReportInv
<1>2. ui' = ui /\ t.phase = "sent"
  BY DEF ServeTask
<1>3. PICK k : /\ tasks' = OtherTasks(t) \cup {k} /\ k.visit = v
               /\ Alone(v) => Accounted(k)'
  <2>1. Alone(v) => Accounted(t)
    BY DEF ReportInv, ReportSound
  <2>2. CASE t.at = "create"
    <3> PICK n : n = Len(made) + 1
      OBVIOUS
    <3> PICK k : k = [t EXCEPT !.record = n, !.phase = "answered"]
      OBVIOUS
    <3>1. /\ k.visit = v /\ k.asked = t.asked /\ k.failed = t.failed
          /\ k.todo = t.todo /\ k.at = t.at
      BY <1>1 DEF TaskSound, TaskFields
    <3>2. tasks' = OtherTasks(t) \cup {k}
      BY <2>2 DEF ServeTask
    <3>3. Todo(k) = Todo(t) /\ InCreate(t) /\ \A f \in t.asked : f # t.at
      BY <1>1, <1>2, <2>2, <3>1 DEF Todo, InCreate, TaskSound, FollowUps
    <3>4. Alone(v) => Accounted(k)'
      BY <2>1, <3>1, <3>3 DEF Accounted
    <3> QED BY <3>1, <3>2, <3>4
  <2>3. CASE t.at # "create"
    <3> PICK k : k = [t EXCEPT !.phase = "answered"]
      OBVIOUS
    <3>1. /\ k.visit = v /\ k.asked = t.asked /\ k.failed = t.failed
          /\ k.todo = t.todo /\ k.at = t.at /\ k.record = t.record /\ k.phase = "answered"
      BY <1>1 DEF TaskSound, TaskFields
    <3>2. tasks' = OtherTasks(t) \cup {k} /\ done' = Noted(t)
      BY <2>3 DEF ServeTask
    <3>3. \A f : <<t.record, f>> \in done \/ f = t.at => <<t.record, f>> \in done'
      BY <3>2 DEF Noted
    <3>4. Todo(k) = Todo(t) /\ ~InCreate(k)
      BY <3>1 DEF Todo, InCreate
    <3>5. Alone(v) => Accounted(k)'
      BY <2>1, <3>1, <3>3, <3>4 DEF Accounted
    <3> QED BY <3>1, <3>2, <3>5
  <2> QED BY <2>2, <2>3
<1>4. Used(v)'
  BY <1>3 DEF Used
<1>5. Alone(v) => ReportSound(v)'
  BY <1>3, StillAtWork
<1>6. \A u \in tasks : u.visit # v => u \in tasks'
  BY <1>3 DEF OtherTasks
<1> QED BY <1>2, <1>4, <1>5, <1>6, OneVisitActs

(* A call has ended, and its handler goes on or says how it went.          *)
LEMMA HandlerGoesOn ==
  ASSUME ReportInv, FormInv', NEW t \in tasks, NEW failed \in SUBSET FollowUps,
         t.record # 0, done' = done,
         Alone(t.visit) => \A f \in t.asked :
           f \in failed \/ f \in Todo(t) \/ <<t.record, f>> \in done,
         tasks' = OtherTasks(t) \cup Onward(t, failed),
         \A u \in Visits \ {t.visit} : ui'[u] = ui[u],
         t.todo = << >> => /\ ui'[t.visit].record = t.record
                           /\ ui'[t.visit].failed = failed
                           /\ ui'[t.visit].asked = t.asked
  PROVE  ReportInv'
<1>1. /\ TaskSound(t) /\ \A u \in OtherTasks(t) : u \in tasks /\ u.visit # t.visit
  BY HandlerKnown DEF ReportInv
<1> PICK v \in Visits : v = t.visit
  BY HandlerKnown DEF ReportInv
<1>2. \A u \in tasks : u.visit # v => u \in tasks'
  BY DEF OtherTasks
<1>3. CASE t.todo = << >>
  <2>1. tasks' = OtherTasks(t) /\ Todo(t) = {}
    BY <1>3 DEF Onward, Todo
  <2>2. Used(v)'
    BY <1>3 DEF Used
  <2>3. Alone(v) => ReportSound(v)'
    BY <1>1, <1>3, <2>1 DEF ReportSound, Reported
  <2> QED BY <1>2, <2>2, <2>3, OneVisitActs
<1>4. CASE t.todo # << >>
  <2>1. t.todo \in Seq(FollowUps)
    BY <1>1 DEF TaskSound
  <2> PICK at : at = Head(t.todo)
    OBVIOUS
  <2> PICK todo : todo = Tail(t.todo)
    OBVIOUS
  <2>2. \A f \in Todo(t) : f = at \/ f \in {todo[n] : n \in DOMAIN todo}
    <3> SUFFICES ASSUME NEW j \in DOMAIN t.todo, j # 1
                 PROVE  \E n \in DOMAIN todo : t.todo[j] = todo[n]
      BY <1>4, <2>1 DEF Todo
    <3>1. j - 1 \in DOMAIN todo /\ todo[j - 1] = t.todo[j]
      BY <1>4, <2>1
    <3> QED BY <3>1
  <2> PICK k : k = [t EXCEPT !.at = at, !.todo = todo, !.failed = failed, !.phase = "sent"]
    OBVIOUS
  <2>3. tasks' = OtherTasks(t) \cup {k}
    BY <1>4 DEF Onward
  <2>4. /\ k.at = at /\ k.todo = todo /\ k.failed = failed /\ k.phase = "sent"
        /\ k.visit = v /\ k.record = t.record /\ k.asked = t.asked
    BY <1>1 DEF TaskSound, TaskFields
  <2>5. at # "create"
    BY <1>4, <2>1 DEF FollowUps
  <2>6. Todo(k) = {todo[n] : n \in DOMAIN todo} /\ ~InCreate(k)
    BY <2>4, <2>5 DEF Todo, InCreate
  <2>7. Alone(v) => Accounted(k)'
    BY <2>2, <2>4, <2>6 DEF Accounted
  <2>8. Used(v)'
    BY <2>3, <2>4 DEF Used
  <2> QED BY <1>2, <2>3, <2>4, <2>7, <2>8, StillAtWork, OneVisitActs
<1> QED BY <1>3, <1>4

LEMMA FinishedFields ==
  ASSUME FormInv, NEW t, TaskSound(t), NEW failed, ui' = Finished(t, failed)
  PROVE  /\ ui'[t.visit].record = t.record /\ ui'[t.visit].failed = failed
         /\ ui'[t.visit].asked = t.asked
         /\ \A u \in Visits \ {t.visit} : ui'[u] = ui[u]
<1>1. t.visit \in Visits /\ ui \in [Visits -> UiType] /\ ui[t.visit] \in UiType
  BY DEF FormInv, FormTyped, TaskSound
<1> PICK x : x = [ui[t.visit] EXCEPT !.working = FALSE, !.record = t.record,
                                     !.failed = failed, !.asked = t.asked]
  OBVIOUS
<1>2. x.record = t.record /\ x.failed = failed /\ x.asked = t.asked
  BY <1>1 DEF UiType
<1>3. ui' = [ui EXCEPT ![t.visit] = x]
  BY <1>1 DEF Finished
<1> QED BY <1>1, <1>2, <1>3

LEMMA CreatedReports ==
  ASSUME ReportInv, FormInv', NEW t \in tasks, Created(t)
  PROVE  ReportInv'
<1>1. TaskSound(t) /\ t.visit \in Visits /\ ui \in [Visits -> UiType]
  BY HandlerKnown DEF ReportInv, FormInv, FormTyped
<1>2. /\ t.record # 0 /\ t.at = "create" /\ t.phase = "answered" /\ done' = done
      /\ tasks' = OtherTasks(t) \cup Onward(t, {})
  BY <1>1 DEF Created, TaskSound, InCreate
<1>3. t.todo = << >> => ui' = Finished(t, {})
  BY DEF Created
<1>4. \A u \in Visits \ {t.visit} : ui'[u] = ui[u]
  <2>1. CASE t.todo = << >>
    BY <1>1, <1>3, <2>1, FinishedFields DEF ReportInv
  <2>2. CASE t.todo # << >>
    BY <1>1, <2>2 DEF Created
  <2> QED BY <2>1, <2>2
<1>5. Alone(t.visit) => Accounted(t)
  BY <1>1 DEF ReportInv, ReportSound
<1>6. Alone(t.visit) => \A f \in t.asked :
        f \in {} \/ f \in Todo(t) \/ <<t.record, f>> \in done
  <2>1. t.failed = {}
    BY <1>1, <1>2 DEF TaskSound
  <2> QED BY <1>2, <1>5, <2>1 DEF Accounted
<1>7. {} \in SUBSET FollowUps
  OBVIOUS
<1>8. t.todo = << >> => /\ ui'[t.visit].record = t.record
                        /\ ui'[t.visit].failed = {}
                        /\ ui'[t.visit].asked = t.asked
  BY <1>1, <1>3, FinishedFields DEF ReportInv
<1> QED BY <1>2, <1>4, <1>6, <1>7, <1>8, HandlerGoesOn

LEMMA FollowedUpReports ==
  ASSUME ReportInv, FormInv', NEW t \in tasks, FollowedUp(t)
  PROVE  ReportInv'
<1>1. TaskSound(t) /\ t.visit \in Visits /\ ui \in [Visits -> UiType]
  BY HandlerKnown DEF ReportInv, FormInv, FormTyped
<1>2. t.record # 0 /\ t.at # "create" /\ done' = done
  BY <1>1 DEF FollowedUp, TaskSound, InCreate, FollowUps
<1>3. PICK ok \in BOOLEAN :
        /\ ok => t.phase = "answered"
        /\ tasks' = OtherTasks(t) \cup Onward(t, FailuresAfter(t, ok))
        /\ ui' = IF t.todo = << >> THEN Finished(t, FailuresAfter(t, ok)) ELSE ui
  BY DEF FollowedUp
<1> PICK failed \in SUBSET FollowUps : failed = FailuresAfter(t, ok)
  BY <1>1 DEF FailuresAfter, TaskSound, FollowedUp
<1>4. Alone(t.visit) => Accounted(t)
  BY <1>1 DEF ReportInv, ReportSound
<1>5. Alone(t.visit) => \A f \in t.asked :
        f \in failed \/ f \in Todo(t) \/ <<t.record, f>> \in done
  BY <1>3, <1>4 DEF Accounted, FailuresAfter
<1>6. t.todo = << >> => /\ ui'[t.visit].record = t.record
                        /\ ui'[t.visit].failed = failed
                        /\ ui'[t.visit].asked = t.asked
  BY <1>1, <1>3, FinishedFields DEF ReportInv
<1>7. \A u \in Visits \ {t.visit} : ui'[u] = ui[u]
  BY <1>1, <1>3, FinishedFields DEF ReportInv
<1>8. tasks' = OtherTasks(t) \cup Onward(t, failed)
  BY <1>3
<1> QED BY <1>2, <1>5, <1>6, <1>7, <1>8, HandlerGoesOn

LEMMA CreateFailedReports ==
  ASSUME ReportInv, FormInv', NEW t \in tasks, CreateFailed(t)
  PROVE  ReportInv'
<1>1. /\ ui[t.visit] \in UiType /\ ui \in [Visits -> UiType]
      /\ \A u \in OtherTasks(t) : u \in tasks /\ u.visit # t.visit
  BY HandlerKnown DEF ReportInv, FormInv, FormTyped
<1> PICK v \in Visits : v = t.visit
  BY HandlerKnown DEF ReportInv
<1>2. tasks' = OtherTasks(t)
  BY DEF CreateFailed
<1> PICK n \in Nat : n = ui[v].errors + 1 /\ n # 0
  BY <1>1, UiFields
<1> PICK x : x = [ui[v] EXCEPT !.working = FALSE, !.error = TRUE, !.errors = n]
  OBVIOUS
<1>3. x.error /\ x.errors # 0
  BY <1>1 DEF UiType
<1>4. ui' = [ui EXCEPT ![v] = x]
  BY <1>1 DEF CreateFailed
<1>5. ui'[v] = x /\ \A u \in Visits \ {v} : ui'[u] = ui[u]
  BY <1>1, <1>4
<1>6. Used(v)' /\ ReportSound(v)'
  BY <1>1, <1>2, <1>3, <1>5 DEF Used, ReportSound, Reported
<1>7. \A u \in tasks : u.visit # v => u \in tasks'
  BY <1>2 DEF OtherTasks
<1> QED BY <1>5, <1>6, <1>7, OneVisitActs

LEMMA NobodyReports ==
  ASSUME ReportInv, FormInv', UNCHANGED <<ui, tasks, done>>
  PROVE  ReportInv'
BY DEF ReportInv, ReportSound, Reported, Accounted, Alone, Used

LEMMA FormStepReports == ReportInv /\ FormStep => ReportInv'
<1> SUFFICES ASSUME ReportInv, FormStep PROVE ReportInv'
  OBVIOUS
<1>0. FormInv'
  BY FormStepKeeps DEF ReportInv
<1>1. /\ << >> \in Seq(FollowUps) /\ <<"link">> \in Seq(FollowUps)
      /\ <<"lead">> \in Seq(FollowUps) /\ <<"paralegal">> \in Seq(FollowUps)
      /\ <<"lead", "paralegal">> \in Seq(FollowUps)
  BY DEF FollowUps
<1>2. CASE NewContractHandleSubmit \/ OnboardHandleSubmit
  BY <1>0, <1>1, <1>2, SubmitReports DEF NewContractHandleSubmit, OnboardHandleSubmit
<1>3. CASE \/ RegisterHandleSubmit \/ ContactHandleSubmit \/ ResetPasswordHandleSubmit
           \/ AcceptStaffInviteHandleSubmit \/ LoginHandleSubmit \/ HandleForgotSubmit
  BY <1>0, <1>1, <1>3, SubmitReports
     DEF RegisterHandleSubmit, ContactHandleSubmit, ResetPasswordHandleSubmit,
         AcceptStaffInviteHandleSubmit, LoginHandleSubmit, HandleForgotSubmit
<1>4. CASE LeaveAndReturn
  BY <1>0, <1>4, NobodyReports DEF LeaveAndReturn
<1>5. CASE \E v \in Visits : HandlerStep(v)
  BY <1>0, <1>5, ServeReports, CreatedReports, CreateFailedReports, FollowedUpReports
     DEF HandlerStep
<1> QED BY <1>0, <1>2, <1>3, <1>4, <1>5, RetryReports DEF FormStep

(* A form that claims success has said what it could not do of the rest,   *)
(* wherever the handler's calls fail or are lost and however often a link  *)
(* is retried (NewContract and OnboardDialog), unless another visit meddles *)
(* or an error is on the screen as well.                                   *)
THEOREM SaysWhatIsMissing == Spec => []ReportsMissing
<1>1. Init => ReportInv
  <2> SUFFICES ASSUME Init PROVE ReportInv
    OBVIOUS
  <2>1. FormInv
    BY FormBegins DEF Init
  <2>2. NoForm
    BY DEF Init, FormInit
  <2>3. \A v \in Visits : ui[v].record = 0 /\ tasks = {}
    BY <2>2 DEF NoForm, Fresh
  <2> QED BY <2>1, <2>3 DEF ReportInv, ReportSound, Reported
<1>2. ReportInv /\ [Next]_vars => ReportInv'
  <2>1. UNCHANGED formVars /\ ReportInv => ReportInv'
    <3> SUFFICES ASSUME UNCHANGED formVars, ReportInv PROVE ReportInv'
      OBVIOUS
    <3>1. FormInv'
      BY DEF formVars, ReportInv, FormInv, FormTyped, Single, CountSound, Count
    <3> QED BY <3>1, NobodyReports DEF formVars
  <2> QED BY <2>1, FormStepReports DEF Next, vars
<1>3. ReportInv => ReportsMissing
  <2> SUFFICES ASSUME ReportInv, NEW v \in Visits, AloneIn(v) PROVE Reported(v)
    BY DEF ReportsMissing, Reported
  <2>1. Alone(v)
    BY DEF AloneIn, Alone, Used, Fresh
  <2> QED BY <2>1 DEF ReportInv, ReportSound
<1> QED BY <1>1, <1>2, <1>3, PTL DEF Spec

=============================================================================
