---------------------------- MODULE ContractPage ----------------------------
(***************************************************************************)
(* src/frontend/src/pages/ContractDetail/ContractDetail.tsx: the contract  *)
(* and the lists of its page, each as PageRows.  loadAll fetches them      *)
(* together and is not cancelled.  The page is not made anew for another   *)
(* contract, and no handler looks at the id in the URL when its answer     *)
(* comes.  "contract" has one row, the contract; documents, tasks and      *)
(* messages are taken out at once and spliced back in when the server      *)
(* refuses.                                                                *)
(***************************************************************************)
EXTENDS PageRows

(* Approvals come with the status of the contract they are about.          *)
LoadAll == IF page = "approvals" THEN {"blank", "aside"} ELSE Plain

(* The id in the URL changes: a notification of another contract.          *)
OtherContract == page \in ContractLists /\ Reload({LoadAll}, OtherQuery)

RetryAll == page \in ContractLists /\ Retry(page, {LoadAll})

-----------------------------------------------------------------------------
(* The contract itself: its text, its status, its deadline.                *)
(* A save is of the contract in the URL, whichever is shown, and the       *)
(* answer is shown whichever is in the URL by then.                        *)
Record == IF query = "q1" THEN 1 ELSE 2

OffersSave(slot) == Ready("contract") /\ shown # << >> /\ Idle(slot)

Save(slot) == OffersSave(slot) /\ Update(Record, Flipped(shown[1].id), slot, "rows", NoLoad)

HandleSaveDetails == Save("save")

HandleStatusSave == Save("status")

HandleDeadlineSave == Save("deadline")

-----------------------------------------------------------------------------
(* Approvals.  1: pending, 2: approved, 3: rejected.                       *)
Pending(r) == r \in ShownIds /\ ShownRow(r).ver = 1

OffersRequest == Ready("approvals") /\ Idle("status") /\ \A r \in Ids : ~Pending(r)

(* approvals.find: the first that is pending.                              *)
OffersDecision(r) ==
  /\ Ready("approvals")
  /\ Idle("save")
  /\ Pending(r)
  /\ \A u \in Ids : Pending(u) => IndexOf(r, shown) <= IndexOf(u, shown)

HandleRequestApproval == OffersRequest /\ Create("status", "prepend", NoLoad)

(* An approval moves the contract: the handler waits for its new status.   *)
HandleDecideApproval(r) ==
  /\ OffersDecision(r)
  /\ \/ Update(r, 2, "save", "replace", {"figure", "held"})
     \/ Update(r, 3, "save", "replace", NoLoad)

-----------------------------------------------------------------------------
(* Staff assigned, documents, tasks, messages.                             *)
OffersAssign == Ready("assignments") /\ Idle("create")

HandleAssign == OffersAssign /\ Create("create", "append", NoLoad)

OffersUpload == Ready("documents") /\ Idle("create")

OffersDocument(r) == Listed("documents", r) /\ busy["row"] # r

HandleUpload == OffersUpload /\ Create("create", "append", NoLoad)

HandleDeleteDocument(r) == OffersDocument(r) /\ DeleteAhead(r, "row")

OffersNewTask == Ready("tasks") /\ Idle("create")

OffersTask(r) == Listed("tasks", r) /\ busy["row"] # r

HandleCreateTask == OffersNewTask /\ Create("create", "append", NoLoad)

HandleTaskStatusChange(r) ==
  OffersTask(r) /\ UpdateAhead(r, Flipped(r), "row", "replace", NoLoad)

HandleDeleteTask(r) == OffersTask(r) /\ DeleteAhead(r, "row")

OffersCompose == Ready("messages") /\ Idle("create")

OffersMessage(r) == Listed("messages", r) /\ busy["row"] # r

HandleSendMessage == OffersCompose /\ Create("create", "append", NoLoad)

HandleDeleteMessage(r) == OffersMessage(r) /\ DeleteAhead(r, "row")

-----------------------------------------------------------------------------
(* Signature requests.  1: pending, 3: voided.                             *)
OffersSignature == Ready("signatures") /\ Idle("create")

OffersVoid(r) == Listed("signatures", r) /\ ShownRow(r).ver = 1 /\ busy["row"] # r

HandleSendForSignature == OffersSignature /\ Create("create", "prepend", NoLoad)

HandleVoidSignature(r) == OffersVoid(r) /\ Update(r, 3, "row", "replace", NoLoad)

-----------------------------------------------------------------------------
ContractStep ==
  \/ OtherContract \/ RetryAll
  \/ HandleSaveDetails \/ HandleStatusSave \/ HandleDeadlineSave
  \/ HandleRequestApproval \/ HandleAssign \/ HandleUpload \/ HandleCreateTask
  \/ HandleSendMessage \/ HandleSendForSignature
  \/ \E r \in Ids : \/ HandleDecideApproval(r) \/ HandleDeleteDocument(r)
                    \/ HandleTaskStatusChange(r) \/ HandleDeleteTask(r)
                    \/ HandleDeleteMessage(r) \/ HandleVoidSignature(r)

=============================================================================
