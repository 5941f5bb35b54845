------------------------------ MODULE StepForms ------------------------------
(***************************************************************************)
(* The forms of both portals and of the public site whose handler makes a  *)
(* record and then, one call after the other, does what else was asked:    *)
(* NewContract assigns staff, OnboardDialog links the inquiry it was       *)
(* opened from.  The calls are no transaction: the handler goes on when    *)
(* one of them fails and says so on the screen.  The other forms make      *)
(* their record and stop.                                                  *)
(*                                                                         *)
(* A form that is left (closed, or by the route) forgets its state, but    *)
(* its handler goes on; opened again it is a new visit.                    *)
(***************************************************************************)
EXTENDS Integers, Sequences, FiniteSets

CONSTANTS MaxVisits,   \* bound: times the form is opened
          MaxTries     \* bound: times it is submitted, in all visits

ASSUME FormBoundsAssumption == MaxVisits \in Nat \ {0} /\ MaxTries \in Nat \ {0}

Visits == 1 .. MaxVisits

FormKinds == {"newcontract", "onboard", "organization", "request", "contact", "reset", "invite",
              "login", "forgot"}

FollowUps == {"lead", "paralegal", "link"}

VARIABLES
  form,    \* the form visited, or "none"
  visit,   \* the visit on the screen
  ui,      \* per visit, what the form shows
  tasks,   \* the handlers at work, each waiting for one call
  made,    \* the server's records: for each, the visit that asked for it
  done,    \* the server's follow-ups: pairs of a record and a follow-up
  tries    \* submissions so far

formVars == <<form, visit, ui, tasks, made, done, tries>>

-----------------------------------------------------------------------------
(* working: the button is disabled.  record: the one that success is       *)
(* claimed for, or 0.  failed: the follow-ups said to have failed.  asked  *)
(* and errors are history: what the record was asked with, and how often   *)
(* an error was shown.                                                     *)
Fresh == [working |-> FALSE, record |-> 0, failed |-> {}, error |-> FALSE,
          asked |-> {}, errors |-> 0]

Task(at, todo, record) ==
  [visit |-> visit, at |-> at, todo |-> todo, record |-> record, failed |-> {},
   asked |-> {todo[k] : k \in DOMAIN todo} \cup (FollowUps \cap {at}), phase |-> "sent"]

OtherTasks(t) == tasks \ {t}

(* The handler's next call, if there is one.                               *)
Onward(t, failed) ==
  IF t.todo = << >> THEN {}
  ELSE {[t EXCEPT !.at = Head(t.todo), !.todo = Tail(t.todo), !.failed = failed, !.phase = "sent"]}

Submit(todo) ==
  /\ tries < MaxTries
  /\ tries' = tries + 1
  /\ tasks' = tasks \cup {Task("create", todo, 0)}
  /\ ui' = [ui EXCEPT ![visit].working = TRUE, ![visit].error = FALSE, ![visit].failed = {}]
  /\ UNCHANGED <<form, visit, made, done>>

-----------------------------------------------------------------------------
(* What each form offers, and what its handler asks for.                   *)
(* NewContract keeps its fields after a success, and its button with them. *)
NewContractOffersSubmit == form = "newcontract" /\ ~ui[visit].working

NewContractHandleSubmit ==
  /\ NewContractOffersSubmit
  /\ \E todo \in {<< >>, <<"lead">>, <<"paralegal">>, <<"lead", "paralegal">>} : Submit(todo)

(* Mutant: the form stays when the organization exists.                    *)
OnboardStaysOpen == form \in {"onboard", "organization"} /\ ~ui[visit].working

(* OnboardDialog shows the new organization instead of the form.           *)
OnboardOffersSubmit ==
  form \in {"onboard", "organization"} /\ ui[visit].record = 0 /\ ~ui[visit].working

(* Opened from an inquiry it links it, from the organizations it does not. *)
OnboardHandleSubmit ==
  OnboardOffersSubmit /\ Submit(IF form = "onboard" THEN <<"link">> ELSE << >>)

OnboardOffersRetry == form = "onboard" /\ "link" \in ui[visit].failed /\ ~ui[visit].working

RetryLink ==
  /\ OnboardOffersRetry
  /\ tasks' = tasks \cup {Task("link", << >>, ui[visit].record)}
  /\ ui' = [ui EXCEPT ![visit].working = TRUE]
  /\ UNCHANGED <<form, visit, made, done, tries>>

(* The others show a message instead of the form.                          *)
OffersOnce(f) == form = f /\ ui[visit].record = 0 /\ ~ui[visit].working

RegisterHandleSubmit == OffersOnce("request") /\ Submit(<< >>)

ContactHandleSubmit == OffersOnce("contact") /\ Submit(<< >>)

ResetPasswordHandleSubmit == OffersOnce("reset") /\ Submit(<< >>)

AcceptStaffInviteHandleSubmit == OffersOnce("invite") /\ Submit(<< >>)

LoginHandleSubmit == OffersOnce("login") /\ Submit(<< >>)

HandleForgotSubmit == OffersOnce("forgot") /\ Submit(<< >>)

-----------------------------------------------------------------------------
(* The server makes the record, or does the follow-up.  An inquiry is      *)
(* linked to one organization.                                             *)
Noted(t) ==
  IF t.at = "link" THEN {p \in done : p[2] # "link"} \cup {<<t.record, "link">>}
  ELSE done \cup {<<t.record, t.at>>}

ServeTask(t) ==
  /\ t.phase = "sent"
  /\ IF t.at = "create"
     THEN /\ made' = Append(made, t.visit)
          /\ tasks' = OtherTasks(t) \cup {[t EXCEPT !.record = Len(made) + 1, !.phase = "answered"]}
          /\ UNCHANGED done
     ELSE /\ done' = Noted(t)
          /\ tasks' = OtherTasks(t) \cup {[t EXCEPT !.phase = "answered"]}
          /\ UNCHANGED made
  /\ UNCHANGED <<form, visit, ui, tries>>

-----------------------------------------------------------------------------
(* The continuations.  The handler's last act says how it went.            *)
Finished(t, failed) ==
  [ui EXCEPT ![t.visit].working = FALSE, ![t.visit].record = t.record,
             ![t.visit].failed = failed, ![t.visit].asked = t.asked]

(* OnboardDialog shows the organization before it is linked.               *)
Created(t) ==
  /\ t.at = "create"
  /\ t.phase = "answered"
  /\ tasks' = OtherTasks(t) \cup Onward(t, {})
  /\ ui' = IF t.todo = << >> THEN Finished(t, {})
           ELSE IF form = "onboard"
           THEN [ui EXCEPT ![t.visit].record = t.record, ![t.visit].asked = t.asked]
           ELSE ui
  /\ UNCHANGED <<form, visit, made, done, tries>>

(* Refused, or never heard of again after it was made.                     *)
(* Mutant: the catch leaves the flag.                                      *)
StillWorking(t) ==
  /\ t.at = "create"
  /\ tasks' = OtherTasks(t)
  /\ ui' = [ui EXCEPT ![t.visit].error = TRUE, ![t.visit].errors = @ + 1]
  /\ UNCHANGED <<form, visit, made, done, tries>>

CreateFailed(t) ==
  /\ t.at = "create"
  /\ tasks' = OtherTasks(t)
  /\ ui' = [ui EXCEPT ![t.visit].working = FALSE, ![t.visit].error = TRUE,
                      ![t.visit].errors = @ + 1]
  /\ UNCHANGED <<form, visit, made, done, tries>>

(* Mutant: the last failure replaces the ones before it.                   *)
LastFailureOnly(t, ok) == IF ok THEN {} ELSE {t.at}

FailuresAfter(t, ok) == IF ok THEN t.failed ELSE t.failed \cup {t.at}

FollowedUp(t) ==
  /\ t.at \in FollowUps
  /\ \E ok \in BOOLEAN :
       /\ ok => t.phase = "answered"
       /\ tasks' = OtherTasks(t) \cup Onward(t, FailuresAfter(t, ok))
       /\ ui' = IF t.todo = << >> THEN Finished(t, FailuresAfter(t, ok)) ELSE ui
  /\ UNCHANGED <<form, visit, made, done, tries>>

-----------------------------------------------------------------------------
(* The form is left and opened again.  An inquiry that the page shows as   *)
(* onboarded cannot be onboarded again: while it is being linked, and once *)
(* a dialog was told that it is.                                           *)
ShownOnboarded ==
  \/ \E t \in tasks : t.at = "link"
  \/ \E v \in Visits : ui[v].record # 0 /\ "link" \in ui[v].asked \ ui[v].failed

LeaveAndReturn ==
  /\ form # "none"
  /\ form = "onboard" => ~ShownOnboarded
  /\ visit < MaxVisits
  /\ visit' = visit + 1
  /\ UNCHANGED <<form, ui, tasks, made, done, tries>>

HandlerStep(v) ==
  \E t \in tasks :
    t.visit = v /\ (ServeTask(t) \/ Created(t) \/ CreateFailed(t) \/ FollowedUp(t))

FormStep ==
  \/ NewContractHandleSubmit \/ OnboardHandleSubmit \/ RetryLink \/ RegisterHandleSubmit
  \/ ContactHandleSubmit \/ ResetPasswordHandleSubmit \/ AcceptStaffInviteHandleSubmit
  \/ LoginHandleSubmit \/ HandleForgotSubmit \/ LeaveAndReturn
  \/ \E v \in Visits : HandlerStep(v)

NoForm ==
  /\ visit = 1
  /\ ui = [v \in Visits |-> Fresh]
  /\ tasks = {}
  /\ made = << >>
  /\ done = {}
  /\ tries = 0

FormInit == form \in FormKinds /\ NoForm

-----------------------------------------------------------------------------
(* Types of all variables.                                                 *)
TaskTypeOK(t) ==
  /\ t.visit \in Visits
  /\ t.at \in FollowUps \cup {"create"}
  /\ t.todo \in Seq(FollowUps)
  /\ t.record \in 0 .. Len(made)
  /\ t.failed \subseteq FollowUps /\ t.asked \subseteq FollowUps
  /\ t.phase \in {"sent", "answered"}

FormTypeOK ==
  /\ form \in FormKinds \cup {"none"}
  /\ visit \in Visits
  /\ ui \in [Visits -> [working : BOOLEAN, record : 0 .. Len(made), failed : SUBSET FollowUps,
                        error : BOOLEAN, asked : SUBSET FollowUps, errors : 0 .. MaxTries]]
  /\ \A t \in tasks : TaskTypeOK(t)
  /\ made \in Seq(Visits)
  /\ done \subseteq (1 .. Len(made)) \X FollowUps
  /\ tries \in 0 .. MaxTries

(* No other visit has asked for anything.                                  *)
AloneIn(v) == \A u \in Visits \ {v} : ui[u] = Fresh /\ \A t \in tasks : t.visit # u

(* What is missing is said: once a form claims success and its handler has *)
(* ended, a staff member it could not assign or an inquiry it could not    *)
(* link is reported.  Excepted are a screen that shows an error as well,   *)
(* and a dialog that was left and opened again.                            *)
ReportsMissing ==
  \A v \in Visits :
    ui[v].record # 0 /\ ~ui[v].working /\ ~ui[v].error /\ AloneIn(v) =>
      \A f \in ui[v].asked \ ui[v].failed : <<ui[v].record, f>> \in done

(* One visit asks the server for one record, and for one more per error it *)
(* has shown.  NewContract is the exception: its form stays.               *)
AskedOnce ==
  form # "newcontract" =>
    \A v \in Visits : Cardinality({k \in DOMAIN made : made[k] = v}) <= ui[v].errors + 1

(* Every submission and every retry comes to an end.                       *)
FormsSettle == \A v \in Visits : []<>~ui[v].working

=============================================================================
