------------------------------ MODULE PageRows ------------------------------
(***************************************************************************)
(* What every page of src/frontend/src does with the rows of one list: it  *)
(* loads them in an effect, shows them, sends what the user does with them *)
(* to the server and brings its own copy up to date, before or after the   *)
(* answer, without loading the list again.                                 *)
(*                                                                         *)
(* A call in flight is a record that holds what the closure of its handler *)
(* holds.  The pages' modules say which calls each handler makes, with     *)
(* which guard and which continuation; the steps of a call are here.  One  *)
(* behaviour is one visit to one page: pages keep nothing between visits.  *)
(***************************************************************************)
EXTENDS Integers, Sequences, FiniteSets

CONSTANTS MaxId,       \* bound: rows that ever exist are 1 .. MaxId
          MaxSent,     \* bound: acts of the user or of a timer in one visit
          Foreign      \* bound: rows that someone else may change meanwhile

ASSUME RowBoundsAssumption ==
  MaxId \in Nat \ {0, 1} /\ MaxSent \in Nat \ {0} /\ Foreign \subseteq 1 .. MaxId

Ids == 1 .. MaxId

(* What a row says is told apart by a version; 0: no such row.             *)
Versions == {1, 2, 3}

(* What the controls of a page are disabled by: a flag or the id of a row. *)
Slots == {"create", "save", "row", "status", "deadline"}

(* What the user looks at: a filter, a page number, the id in the URL; new *)
(* is a conversation that has no id yet.                                   *)
Queries == {"q1", "q2", "new"}

(* The lists of a contract's page.                                         *)
ContractLists ==
  {"contract", "documents", "tasks", "messages", "signatures", "assignments", "approvals"}

VARIABLES
  page,      \* the page, or the list of a page, that is visited
  query,     \* what the page is asked to show
  shown,     \* the rows in the page's state
  shownFor,  \* the query they answer
  status,    \* loading, ready or error
  busy,      \* per slot: the id it holds, or 0
  calls,     \* the calls in flight
  aside,     \* a figure shown beside the rows that the server derives from them
  server,    \* the server's rows: a version per id
  sent,      \* acts so far
  disturbed  \* history: rows the page cannot be held to know; 0 is the figure

pageVars == <<page, query, shown, shownFor, status, busy, calls, aside, server, sent, disturbed>>

-----------------------------------------------------------------------------
Row(r, v) == [id |-> r, ver |-> v]

(* The rows at the indices of S, in their order.                           *)
Nth(S, n) == CHOOSE k \in S : Cardinality({j \in S : j <= k}) = n

Picked(rows, S) == [n \in 1 .. Cardinality(S) |-> rows[Nth(S, n)]]

(* A row of a contract or of a conversation is of that one for good; every *)
(* other list has all rows.                                                *)
Home(r) == IF r = 2 THEN "q2" ELSE IF r = 3 THEN "new" ELSE "q1"

Under(q) ==
  IF page \in ContractLists \cup {"conversation"} THEN {r \in Ids : Home(r) = q} ELSE Ids

(* The filter of the inquiries, when it is set, is by what a row says.     *)
Fits(q, v) == page = "inquiries" /\ q = "q2" => v # 2

Lists(q, r, v) == v # 0 /\ r \in Under(q) /\ Fits(q, v)

(* The list the server answers q with.                                     *)
Listing(table, q) ==
  Picked([r \in Ids |-> Row(r, table[r])], {r \in Ids : Lists(q, r, table[r])})

(* The figure the server derives: how many rows say 2, filtered out or not.*)
Derived(table, q) == Cardinality({r \in Under(q) : table[r] = 2})

ShownIds == {shown[k].id : k \in DOMAIN shown}

IndexOf(r, rows) == CHOOSE k \in DOMAIN rows : rows[k].id = r

ShownRow(r) == shown[IndexOf(r, shown)]

(* prev.map(item => item.id === updated.id ? updated : item)               *)
Replaced(rows, row) == [k \in DOMAIN rows |-> IF rows[k].id = row.id THEN row ELSE rows[k]]

(* prev.filter(item => item.id !== id)                                     *)
Without(rows, r) == Picked(rows, {k \in DOMAIN rows : rows[k].id # r})

(* next.splice(index, 0, item): past the end it appends.                   *)
(* Mutant: the row comes back at the end. *)
PutLast(rows, k, row) == Append(rows, row)

InsertedAt(rows, k, row) ==
  IF k > Len(rows) THEN Append(rows, row)
  ELSE SubSeq(rows, 1, k - 1) \o <<row>> \o SubSeq(rows, k, Len(rows))

(* An id no row ever had.                                                  *)
Unused == {r \in Ids : server[r] = 0 /\ r \notin ShownIds /\ \A c \in calls : c.id # r}

NewId(r) == r \in Unused \cap Under(query) /\ \A u \in Unused \cap Under(query) : r <= u

-----------------------------------------------------------------------------
(* How a page loads, as a set of traits.                                   *)
(*   latest  the effect's cleanup sets "cancelled", or a sequence number   *)
(*           is compared: only the latest load may set anything            *)
(*   blank   the page shows no rows meanwhile                              *)
(*   silent  a failure is ignored                                          *)
(*   kept    a failure counts as an answer that changes nothing            *)
(*   aside   the figure is loaded with the rows                            *)
(*   figure  the figure is loaded and not the rows                         *)
(*   url     the query is set when the answer comes, of a write too        *)
(*   none    no load                                                       *)
(*   held    the handler that starts it waits for it, its control disabled *)
NoLoad == {"none"}

Plain == {"blank"}

Guarded == {"latest", "blank"}

Figure == {"figure"}

(* A handler's call.  op: what the server is asked.  then: what the        *)
(* continuation does to the rows; load: which load it starts.  undo: what  *)
(* the catch does to the rows.  seen, side: the rows and the figure as the *)
(* handler saw them.  alone: no other call was in flight meanwhile.        *)
Call(op, r, v, slot, then, undo) ==
  [n |-> sent + 1, op |-> op, id |-> r, ver |-> v, slot |-> slot, then |-> then, undo |-> undo,
   load |-> NoLoad, seen |-> IF undo = "keep" THEN << >> ELSE shown, side |-> aside,
   query |-> query, phase |-> "sent", got |-> << >>, figure |-> 0,
   alone |-> calls = {}, cancelled |-> FALSE]

Loading(load, q, n) ==
  [n |-> n, op |-> IF "figure" \in load THEN "figure" ELSE "load",
   id |-> 0, ver |-> 0, slot |-> "none", then |-> "keep", undo |-> "keep",
   load |-> load, seen |-> << >>, side |-> 0, query |-> q, phase |-> "sent", got |-> << >>,
   figure |-> 0, alone |-> FALSE, cancelled |-> FALSE]

Reloading(c, load) == [c EXCEPT !.load = load]

IsWrite(c) == c.op \notin {"load", "figure"}

(* Its answer is a whole list.                                             *)
Fetches(c) == c.op = "load" \/ c.then = "rows"

FetchesFigure(c) == ~IsWrite(c) /\ {"figure", "aside"} \cap c.load # {}

ListsRows(loads) == \E load \in loads : "figure" \notin load

LoadsFigure(loads) == \E load \in loads : {"figure", "aside"} \cap load # {}

Others(c) == calls \ {c}

Accompanied(C) == {[c EXCEPT !.alone = FALSE] : c \in C}

(* The cleanup of the effect, when it runs again.                          *)
Superseded(C, loads) ==
  {[c EXCEPT !.cancelled = @ \/ (~IsWrite(c) /\ "latest" \in c.load /\ ListsRows(loads))] : c \in C}

Joined(C, loads, q) ==
  Superseded(Accompanied(C), loads) \cup {Loading(load, q, sent + 1) : load \in loads}

-----------------------------------------------------------------------------
(* History: calls that overlap leave the page unsure of the rows they are  *)
(* both about, and of the figure.                                          *)
All == Ids \cup {0}

Touched(c) == IF c.op = "all" THEN All ELSE {c.id, 0}

DisturbedBy(c) ==
  (IF \E d \in calls : Fetches(d) \/ d.op = "all" \/ d.id = c.id THEN Touched(c) ELSE {}) \cup
  (IF Fetches(c) THEN UNION {Touched(d) : d \in {e \in calls : IsWrite(e)}} ELSE {}) \cup
  (IF calls # {} /\ Fetches(c) THEN Touched(c) ELSE {}) \cup
  (IF \E d \in calls : IsWrite(d) \/ FetchesFigure(d) THEN {0} ELSE {}) \cup
  (IF c.id \in disturbed THEN {0} ELSE {})

(* The loads start when the calls of C are in flight.                      *)
RowsDisturbed(loads, C) ==
  CASE ~ListsRows(loads) -> disturbed \ {0}
    [] (\E load \in loads : "latest" \notin load) /\ (\E d \in C : Fetches(d)) -> Ids
    [] OTHER -> (UNION {Touched(d) : d \in {e \in C : IsWrite(e)}}) \ {0}

FigureDisturbed(loads, C) ==
  IF LoadsFigure(loads)
  THEN IF \E d \in C : IsWrite(d) \/ FetchesFigure(d) THEN {0} ELSE {}
  ELSE disturbed \cap {0}

DisturbedByLoads(loads, C) == RowsDisturbed(loads, C) \cup FigureDisturbed(loads, C)

(* A row that an answer shows although it left the filter the list answers *)
(* stays until the list is loaded again.                                   *)
Departed(c) ==
  IF c.op = "update" /\ ~Fits(shownFor, c.ver) /\ {"none", "figure"} \cap c.load # {}
  THEN {c.id}
  ELSE {}

(* A figure that is asked for about what was looked at before.             *)
Outdated(c) == IF "held" \in c.load /\ c.query # query THEN {0} ELSE {}

-----------------------------------------------------------------------------
(* A handler sends c and shows the rows and the figure at once.            *)
Begin(c, rows, figure) ==
  /\ sent < MaxSent
  /\ sent' = sent + 1
  /\ calls' = Accompanied(calls) \cup {c}
  /\ shown' = rows
  /\ aside' = figure
  /\ busy' = IF c.slot = "none" THEN busy ELSE [busy EXCEPT ![c.slot] = c.id]
  /\ disturbed' = disturbed \cup DisturbedBy(c)
  /\ UNCHANGED <<page, query, shownFor, status, server>>

(* Create a row, change one or delete one, and show it after the answer or *)
(* (Ahead) before.                                                         *)
Create(slot, then, load) ==
  \E r \in Ids : NewId(r) /\ Begin(Reloading(Call("create", r, 1, slot, then, "keep"), load),
                                   shown, aside)

CreateAhead(slot, then, load) ==
  \E r \in Ids : NewId(r) /\ Begin(Reloading(Call("create", r, 1, slot, then, "drop"), load),
                                   Append(shown, Row(r, 1)), aside)

Update(r, v, slot, then, load) ==
  Begin(Reloading(Call("update", r, v, slot, then, "keep"), load), shown, aside)

UpdateAhead(r, v, slot, then, load) ==
  Begin(Reloading(Call("update", r, v, slot, then, "restore"), load),
        Replaced(shown, Row(r, v)), aside)

Delete(r, slot, then, load) ==
  Begin(Reloading(Call("delete", r, 0, slot, then, "keep"), load), shown, aside)

DeleteAhead(r, slot) ==
  Begin(Call("delete", r, 0, slot, "keep", "splice"), Without(shown, r), aside)

(* Effects run, the query being q from now on.                             *)
StatusDuring(loads) == IF \E load \in loads : "blank" \in load THEN "loading" ELSE status

Reload(loads, q) ==
  /\ sent < MaxSent
  /\ sent' = sent + 1
  /\ query' = IF \E load \in loads : "url" \in load THEN query ELSE q
  /\ calls' = Joined(calls, loads, q)
  /\ status' = StatusDuring(loads)
  /\ disturbed' = DisturbedByLoads(loads, calls)
  /\ UNCHANGED <<page, shown, shownFor, busy, aside, server>>

-----------------------------------------------------------------------------
(* What a page offers.                                                     *)
At(p) == page = p

Ready(p) == page = p /\ status = "ready"

Listed(p, r) == Ready(p) /\ r \in ShownIds

Idle(slot) == busy[slot] = 0

(* What an edit or a toggle makes of a row.                                *)
Flipped(r) == IF ShownRow(r).ver = 2 THEN 1 ELSE 2

(* The button "Retry", shown instead of the rows.                          *)
Retry(p, loads) == page = p /\ status = "error" /\ Reload(loads, query)

OtherQuery == IF query = "q1" THEN "q2" ELSE "q1"

-----------------------------------------------------------------------------
(* The server.                                                             *)
Answer(c, table, got) ==
  /\ server' = table
  /\ calls' = Others(c) \cup {[c EXCEPT !.phase = "answered", !.got = got,
                                        !.figure = Derived(table, c.query)]}

(* What a write answers with: the row or, if it asks for them, the rows.   *)
Written(c, table) == IF Fetches(c) THEN Listing(table, c.query) ELSE <<Row(c.id, c.ver)>>

Put(c) == [server EXCEPT ![c.id] = c.ver]

Serve(c) ==
  /\ c.phase = "sent"
  /\ \/ ~IsWrite(c) /\ Answer(c, server, Listing(server, c.query))
     \/ c.op = "create" /\ Answer(c, Put(c), Written(c, Put(c)))
     \/ c.op = "update" /\ server[c.id] # 0 /\ Answer(c, Put(c), Written(c, Put(c)))
     \/ c.op = "delete" /\ server[c.id] # 0 /\ Answer(c, Put(c), << >>)
     \/ c.op = "all" /\ Answer(c, [r \in Ids |-> IF server[r] = 0 THEN 0 ELSE c.ver], << >>)
  /\ UNCHANGED <<page, query, shown, shownFor, status, busy, aside, sent, disturbed>>

(* Someone else changes or deletes a row; a contract is never deleted.     *)
Elsewhere(r) ==
  /\ r \in Foreign
  /\ disturbed \subseteq {0}
  /\ server[r] # 0
  /\ \E v \in {0, 1, 2} \ {server[r]} : /\ page = "contract" => v # 0
                                        /\ server' = [server EXCEPT ![r] = v]
  /\ disturbed' = {r, 0}
  /\ UNCHANGED <<page, query, shown, shownFor, status, busy, calls, aside, sent>>

-----------------------------------------------------------------------------
(* The continuations.                                                      *)
(* Mutant: the flag is reset after an answer only, not in "finally". *)
ReleasedOnAnswer(c) ==
  IF c.slot = "none" \/ c.phase = "sent" THEN busy ELSE [busy EXCEPT ![c.slot] = 0]

Released(c) == IF c.slot = "none" THEN busy ELSE [busy EXCEPT ![c.slot] = 0]

RowsAfter(c) ==
  CASE c.then = "replace" -> Replaced(shown, c.got[1])
    [] c.then = "prepend" -> c.got \o shown
    [] c.then = "append" -> shown \o c.got
    [] c.then = "drop" -> Without(shown, c.id)
    [] c.then = "rows" -> c.got
    [] OTHER -> shown

RowsAfterFailure(c) ==
  LET k == IndexOf(c.id, c.seen) IN
  CASE c.undo = "restore" -> Replaced(shown, c.seen[k])
    [] c.undo = "splice" -> InsertedAt(shown, k, c.seen[k])
    [] c.undo = "snapshot" -> c.seen
    [] c.undo = "drop" -> Without(shown, c.id)
    [] OTHER -> shown

(* A load's answer comes in.                                               *)
(* Mutant: no load looks at "cancelled". *)
NeverStale(c) == FALSE

Stale(c) == c.cancelled

(* Mutant: the catch does not set the error. *)
StatusKept(c) == status

StatusAfterFailure(c) ==
  IF Stale(c) \/ "silent" \in c.load THEN status
  ELSE IF "kept" \in c.load THEN "ready" ELSE "error"

Loaded(c) ==
  /\ c.op = "load"
  /\ c.phase = "answered"
  /\ calls' = Accompanied(Others(c))
  /\ IF Stale(c)
     THEN UNCHANGED <<query, shown, shownFor, status, aside>>
     ELSE /\ shown' = c.got
          /\ shownFor' = c.query
          /\ status' = "ready"
          /\ query' = IF "url" \in c.load THEN c.query ELSE query
          /\ aside' = IF "aside" \in c.load THEN c.figure ELSE aside
  /\ UNCHANGED <<page, busy, server, sent, disturbed>>

LoadFailed(c) ==
  /\ c.op = "load"
  /\ calls' = Accompanied(Others(c))
  /\ status' = StatusAfterFailure(c)
  /\ disturbed' = disturbed \cup (IF Stale(c) THEN {} ELSE Ids)
                            \cup (IF FetchesFigure(c) THEN {0} ELSE {})
  /\ UNCHANGED <<page, query, shown, shownFor, busy, aside, server, sent>>

(* The figure comes in, or its call fails and is ignored.                  *)
FigureLoaded(c) ==
  /\ c.op = "figure"
  /\ c.phase = "answered"
  /\ aside' = IF Stale(c) THEN aside ELSE c.figure
  /\ calls' = Accompanied(Others(c))
  /\ busy' = Released(c)
  /\ UNCHANGED <<page, query, shown, shownFor, status, server, sent, disturbed>>

FigureFailed(c) ==
  /\ c.op = "figure"
  /\ calls' = Accompanied(Others(c))
  /\ busy' = Released(c)
  /\ disturbed' = disturbed \cup {0}
  /\ UNCHANGED <<page, query, shown, shownFor, status, aside, server, sent>>

(* A write's answer comes in, and the load it asks for starts.             *)
Following(c) ==
  IF "held" \in c.load
  THEN {[d EXCEPT !.slot = c.slot, !.id = c.id] : d \in {Loading(c.load, c.query, c.n)}}
  ELSE {Loading(c.load, query, c.n)}

Done(c) ==
  /\ IsWrite(c)
  /\ c.phase = "answered"
  /\ shown' = RowsAfter(c)
  /\ shownFor' = IF Fetches(c) THEN c.query ELSE shownFor
  /\ busy' = IF "held" \in c.load THEN busy ELSE Released(c)
  /\ query' = IF "url" \in c.load THEN c.query ELSE query
  /\ IF "none" \in c.load
     THEN /\ calls' = Accompanied(Others(c))
          /\ disturbed' = disturbed \cup Departed(c)
          /\ UNCHANGED status
     ELSE /\ calls' = Superseded(Accompanied(Others(c)), {c.load}) \cup Following(c)
          /\ status' = StatusDuring({c.load})
          /\ disturbed' = DisturbedByLoads({c.load}, Others(c)) \cup Departed(c) \cup Outdated(c)
  /\ UNCHANGED <<page, aside, server, sent>>

(* A write fails: refused, or never heard of again after it was done.      *)
Failed(c) ==
  /\ IsWrite(c)
  /\ shown' = RowsAfterFailure(c)
  /\ aside' = IF c.undo = "snapshot" THEN c.side ELSE aside
  /\ busy' = Released(c)
  /\ calls' = Accompanied(Others(c))
  /\ disturbed' = disturbed \cup (IF c.phase = "answered" THEN Touched(c) ELSE {})
                            \cup (IF c.undo = "snapshot" /\ ~c.alone THEN All ELSE {})
  /\ UNCHANGED <<page, query, shownFor, status, server, sent>>

CallStep == \E c \in calls : \/ Serve(c) \/ Loaded(c) \/ LoadFailed(c) \/ FigureLoaded(c)
                             \/ FigureFailed(c) \/ Done(c) \/ Failed(c)

(* A page is opened: its effects have run once.                            *)
Open(loads) ==
  /\ query = "q1"
  /\ shown = << >>
  /\ shownFor = "q1"
  /\ status = "loading"
  /\ busy = [s \in Slots |-> 0]
  /\ aside = 0
  /\ server = [r \in Ids |-> IF r <= 2 THEN r ELSE 0]
  /\ sent = 0
  /\ disturbed = {}
  /\ calls = {Loading(load, "q1", 0) : load \in loads}

=============================================================================
