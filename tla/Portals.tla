------------------------------- MODULE Portals -------------------------------
(***************************************************************************)
(* The pages and forms of both portals, against a server that others use   *)
(* too.  A visit to a page ends with a full load or with the route, and    *)
(* what the page knows ends with it, so that a behaviour is one visit to a *)
(* page, or the visits to one form.                                        *)
(***************************************************************************)
EXTENDS StaffPages, ContractPage, OwnerPages, StepForms

Pages == DOMAIN StaffLoads \cup DOMAIN OwnerLoads \cup ContractLists

LoadsOf(p) ==
  IF p \in ContractLists THEN {LoadAll}
  ELSE IF p \in DOMAIN StaffLoads THEN StaffLoads[p] ELSE OwnerLoads[p]

(* Pages that keep the figure, by asking for it after each write.          *)
FigurePages == {"signed", "approvals", "inquiries", "bell", "dashboard", "overview"}

vars == <<pageVars, formVars>>

Init ==
  \/ page \in Pages /\ Open(LoadsOf(page)) /\ form = "none" /\ NoForm
  \/ page = "none" /\ Open({}) /\ FormInit

PageStep ==
  StaffStep \/ ContractStep \/ OwnerStep \/ CallStep \/ \E r \in Ids : Elsewhere(r)

Next ==
  \/ page # "none" /\ PageStep /\ UNCHANGED formVars
  \/ form # "none" /\ FormStep /\ UNCHANGED pageVars

(* fetch settles: an answer or a failure comes in, and is taken in.        *)
Fairness ==
  /\ WF_vars(CallStep /\ UNCHANGED formVars)
  /\ \A v \in Visits : WF_vars(HandlerStep(v) /\ UNCHANGED pageVars)

Spec == Init /\ [][Next]_vars /\ Fairness

-----------------------------------------------------------------------------
(* Types of all variables.                                                 *)
RowType == [id : Ids, ver : Versions]

CallTypeOK(c) ==
  /\ c.op \in {"load", "figure", "create", "update", "delete", "all"}
  /\ c.id \in All /\ c.ver \in Versions \cup {0}
  /\ c.slot \in Slots \cup {"none"}
  /\ c.phase \in {"sent", "answered"}
  /\ c.query \in Queries
  /\ c.seen \in Seq(RowType) /\ c.got \in Seq(RowType)
  /\ c.side \in Nat /\ c.figure \in Nat
  /\ c.alone \in BOOLEAN /\ c.cancelled \in BOOLEAN

TypeOK ==
  /\ page \in Pages \cup {"none"}
  /\ query \in Queries /\ shownFor \in Queries
  /\ shown \in Seq(RowType)
  /\ status \in {"loading", "ready", "error"}
  /\ busy \in [Slots -> All]
  /\ \A c \in calls : CallTypeOK(c)
  /\ aside \in Nat
  /\ server \in [Ids -> Versions \cup {0}]
  /\ sent \in 0 .. MaxSent
  /\ disturbed \subseteq All
  /\ FormTypeOK

Settled == status = "ready" /\ calls = {}

Times(r) == Cardinality({k \in DOMAIN shown : shown[k].id = r})

(* Without loading the list again, a page shows what the server has of     *)
(* what it is asked for: each row once, as it is, and none that is gone,   *)
(* of something else or filtered out.  Excepted are the rows that          *)
(* overlapping calls, a lost answer or another user have touched since the *)
(* last load began, all rows when that load failed, and a row whose own    *)
(* answer says that it left the filter.                                    *)
SettledView ==
  Settled => \A r \in Ids \ disturbed :
    IF Lists(query, r, server[r]) THEN Times(r) = 1 /\ ShownRow(r).ver = server[r]
    ELSE Times(r) = 0

(* The figure beside the rows (the badge of the bell, the summaries, the   *)
(* contract's status beside its approvals) says what the server derives.   *)
SettledFigure == Settled /\ page \in FigurePages /\ 0 \notin disturbed => aside = Derived(server, query)

(* The rows on the screen answer what the page is asked to show, whatever  *)
(* the order of the answers.  Excepted is what was in flight as the page   *)
(* was asked for something else and is shown all the same: the row of a    *)
(* write; on a page that does not cancel its loads, all rows, when it was  *)
(* a load, a save of the contract or a message.  And so are a row that     *)
(* left the filter since the last load, and all rows when that failed.     *)
AnswersQuery ==
  Settled =>
    /\ ~(Ids \subseteq disturbed) => shownFor = query
    /\ \A k \in DOMAIN shown :
         shown[k].id \notin disturbed => Lists(query, shown[k].id, shown[k].ver)

(* A control is disabled, or says "Saving", only while its own call is in  *)
(* flight: no way for a call to end leaves it so.                          *)
BusyMeansInFlight ==
  \A s \in Slots : busy[s] # 0 => \E c \in calls : c.slot = s /\ c.id = busy[s]

(* A handler that showed its change before the answer and is refused puts  *)
(* back exactly what was there, place in the list included, unless other   *)
(* calls overlapped.                                                       *)
RolledBack(c) == c.undo # "keep" /\ c.alone /\ c.id \notin disturbed /\ Failed(c)

RollbackExact == [][\A c \in calls : RolledBack(c) => shown' = c.seen /\ aside' = c.side]_vars

(* No page stays on "loading".  A silent refresh of the inquiries that     *)
(* overtakes their first load and fails is the exception: InquiriesView    *)
(* then says "loading" until its timer's next try.                         *)
LoadingEnds ==
  page \in Pages => []<>(status # "loading" \/ (page = "inquiries" /\ Ids \subseteq disturbed))

=============================================================================
