--------------------------- MODULE BrowserSession ---------------------------
(***************************************************************************)
(* The browser's side of a session: src/frontend/src/api/client.ts (one    *)
(* shared refresh per page load, one retry per call), App.tsx (restoring,  *)
(* refreshing, signing in and out) and the sign-in forms.                  *)
(*                                                                         *)
(* The tabs of one browser share localStorage and nothing else.  A handler *)
(* runs to its next await in one step; between its awaits the other calls  *)
(* of the tab, the other tabs and the server take theirs.  The server is   *)
(* reduced to the pairs of tokens it has issued.  Pair n is access token n *)
(* and refresh token n; 0 is "no token".                                   *)
(***************************************************************************)
EXTENDS Integers, Sequences, FiniteSets

CONSTANTS Tabs,        \* the browser's tabs
          PageCalls,   \* per tab, the API calls its pages may have in flight at a time
          MaxTokens,   \* bound: pairs of tokens the server issues
          MaxLoads     \* bound: loads of the application, per tab

ASSUME BoundsAssumption ==
  /\ MaxTokens \in Nat \ {0}
  /\ MaxLoads \in [Tabs -> Nat \ {0}]
  /\ \A t \in Tabs : {"restore", "profile"} \cap PageCalls[t] = {}

Tokens == 1 .. MaxTokens

(* "restore" is the call that checks a stored session, "profile" the       *)
(* getCurrentUser of handleLogin; the rest are made by the pages.          *)
Calls == (UNION {PageCalls[t] : t \in Tabs}) \cup {"restore", "profile"}

Kinds == {"staff", "owner"}

VARIABLES
  tokens,     \* the pairs issued: of which sign-in, of which kind, what is still good
  store,      \* localStorage: access_token, refresh_token, actor_kind
  tab,        \* per tab: actor, checkingSession, the refresh in flight, the load's number
  calls,      \* per tab and call: where it is and with which token
  revoking,   \* refresh tokens in a logoutStaff call that nobody awaits
  presented,  \* history: how often this load of the tab presented a refresh token
  left,       \* history: sign-ins the user logged out of
  troubled    \* history: sign-ins with a lost call, with a refresh that another
              \* tab, a logout or a sign-in overlapped, or met by the other portal

vars == <<tokens, store, tab, calls, revoking, presented, left, troubled>>

-----------------------------------------------------------------------------
(* The pair a sign-in or a rotation issues.  An owner has no refresh token. *)
Pair(login, kind) ==
  [login |-> login, kind |-> kind, live |-> kind = "staff", fresh |-> TRUE]

Empty == [access |-> 0, refresh |-> 0, kind |-> "none"]

NoRefresh == [phase |-> "none", token |-> 0, got |-> 0]

NoCall == [phase |-> "none", token |-> 0, as |-> "staff"]

Loading(n) == [actor |-> "none", checking |-> TRUE, refresh |-> NoRefresh, load |-> n]

Issued == DOMAIN tokens

(* get_current_user and get_current_owner refuse the other kind's token.   *)
Accepts(call) == /\ call.token \in Issued
                 /\ tokens[call.token].fresh
                 /\ tokens[call.token].kind = call.as

LoginOf(n) == IF n \in Issued THEN {tokens[n].login} ELSE {}

Refreshing(t) == tab[t].refresh.phase # "none"

(* The sign-ins that a refresh, or a retry after one, is in flight for.    *)
Overlapped ==
  {login \in Tokens :
     \/ \E t \in Tabs : Refreshing(t) /\ login \in LoginOf(tab[t].refresh.token)
     \/ \E t \in Tabs, c \in Calls :
          calls[t][c].phase = "resent" /\ login \in LoginOf(calls[t][c].token)}

Waiting(t) == {c \in Calls : calls[t][c].phase = "waiting"}

Init ==
  /\ tokens = << >>
  /\ store = Empty
  /\ tab = [t \in Tabs |-> [Loading(1) EXCEPT !.checking = FALSE]]
  /\ calls = [t \in Tabs |-> [c \in Calls |-> NoCall]]
  /\ revoking = {}
  /\ presented = [t \in Tabs |-> [n \in Tokens |-> 0]]
  /\ left = {}
  /\ troubled = {}

-----------------------------------------------------------------------------
(* How a call ends in tab t, the calls of C having failed.  restore's catch *)
(* clears the storage and its finally ends checkingSession.                *)
StoreAfterFailure(C, s) == IF "restore" \in C THEN Empty ELSE s

TabAfterFailure(C, r) ==
  [r EXCEPT !.checking = @ /\ "restore" \notin C]

(* handleLogout: ask the server to revoke what the storage holds at this   *)
(* moment, then clear the storage and the actor.                           *)
RevocationAfterClear == {}
Revocation == IF store.kind = "staff" THEN {store.refresh} \ {0} ELSE {}

HandleLogout(t, C, r) ==
  /\ revoking' = revoking \cup Revocation
  /\ store' = Empty
  /\ tab' = [tab EXCEPT ![t] = [TabAfterFailure(C, r) EXCEPT !.actor = "none"]]

(* A call of one portal met the stored session of the other.               *)
Mixed(t, C) == IF \E c \in C : calls[t][c].as # store.kind THEN LoginOf(store.refresh) ELSE {}

EndCalls(t, C) ==
  calls' = [calls EXCEPT ![t] = [c \in Calls |-> IF c \in C THEN NoCall ELSE @[c]]]

-----------------------------------------------------------------------------
(* apiRequest: the first attempt is sent with the token the page passes.   *)
Send(t, c, as, token) ==
  calls' = [calls EXCEPT ![t][c] = [phase |-> "sent", token |-> token, as |-> as]]

(* A page of the signed-in actor makes a call with the stored token.       *)
PageCall(t, c) ==
  /\ c \in PageCalls[t]
  /\ tab[t].actor # "none"
  /\ calls[t][c].phase = "none"
  /\ Send(t, c, tab[t].actor, store.access)
  /\ UNCHANGED <<tokens, store, tab, revoking, presented, left, troubled>>

(* The answer is a success.  For "restore" the actor is set from the kind  *)
(* that was read when the tab loaded.                                      *)
Answered(t, c) ==
  /\ calls[t][c].phase \in {"sent", "resent"}
  /\ Accepts(calls[t][c])
  /\ EndCalls(t, {c})
  /\ tab' = [tab EXCEPT ![t] =
       CASE c = "restore" -> [@ EXCEPT !.actor = calls[t][c].as, !.checking = FALSE]
         [] c = "profile" -> [@ EXCEPT !.actor = "staff"]
         [] OTHER -> @]
  /\ UNCHANGED <<tokens, store, revoking, presented, left, troubled>>

(* refreshAccessToken: calls that meet a 401 while a refresh is in flight  *)
(* wait for that one.                                                      *)
NeverShared(t) == FALSE
Shared(t) == Refreshing(t)

(* refreshSession reads the storage before its await.                      *)
CanRefresh == store.refresh # 0 /\ store.kind = "staff"

Refused(t, c) == calls[t][c].phase = "sent" /\ ~Accepts(calls[t][c])

WaitForRefresh(t, c) == calls' = [calls EXCEPT ![t][c].phase = "waiting"]

JoinRefresh(t, c) ==
  /\ Refused(t, c)
  /\ Shared(t)
  /\ WaitForRefresh(t, c)
  /\ UNCHANGED <<tokens, store, tab, revoking, presented, left, troubled>>

(* Presented by another tab as well: the rotations race.                   *)
PresentedElsewhere(t, n) == \E u \in Tabs \ {t} : presented[u][n] > 0

StartRefresh(t, c) ==
  /\ Refused(t, c)
  /\ ~Shared(t)
  /\ CanRefresh
  /\ WaitForRefresh(t, c)
  /\ tab' = [tab EXCEPT ![t].refresh = [phase |-> "sent", token |-> store.refresh, got |-> 0]]
  /\ presented' = [presented EXCEPT ![t][store.refresh] = @ + 1]
  /\ troubled' = troubled \cup
       (IF PresentedElsewhere(t, store.refresh) THEN LoginOf(store.refresh) ELSE {})
  /\ UNCHANGED <<tokens, store, revoking, left>>

(* No refresh is possible: the 401 stands.                                 *)
Unauthorized(t, c) ==
  /\ Refused(t, c)
  /\ ~Shared(t)
  /\ ~CanRefresh
  /\ HandleLogout(t, {c}, tab[t])
  /\ EndCalls(t, {c})
  /\ troubled' = troubled \cup Mixed(t, {c})
  /\ UNCHANGED <<tokens, presented, left>>

(* The retry is refused as well.                                           *)
RefusedAgain(t, c) ==
  /\ calls[t][c].phase = "resent"
  /\ ~Accepts(calls[t][c])
  /\ HandleLogout(t, {c}, tab[t])
  /\ EndCalls(t, {c})
  /\ troubled' = troubled \cup Mixed(t, {c})
  /\ UNCHANGED <<tokens, presented, left>>

(* The call fails for another reason: no network, 403, 500.                *)
CallLost(t, c) ==
  /\ calls[t][c].phase \in {"sent", "resent"}
  /\ EndCalls(t, {c})
  /\ store' = StoreAfterFailure({c}, store)
  /\ tab' = [tab EXCEPT ![t] = TabAfterFailure({c}, @)]
  /\ troubled' = troubled \cup (IF c = "restore" THEN LoginOf(store.refresh) ELSE {})
  /\ UNCHANGED <<tokens, revoking, presented, left>>

-----------------------------------------------------------------------------
(* refreshStaffToken skips the 401 handling: a refusal rejects the promise *)
(* that the waiting calls share, instead of waiting for it in turn.        *)
NeverSettles(r) == NoRefresh
AfterRefusal(r) == [r EXCEPT !.phase = "answered"]

(* POST /auth/refresh, at the server: rotate a live token, refuse others.  *)
Rotate(t) ==
  LET r == tab[t].refresh IN
  /\ r.phase = "sent"
  /\ IF tokens[r.token].live
     THEN /\ Len(tokens) < MaxTokens
          /\ tokens' = Append([tokens EXCEPT ![r.token].live = FALSE],
                              Pair(tokens[r.token].login, "staff"))
          /\ tab' = [tab EXCEPT ![t].refresh = [r EXCEPT !.phase = "answered",
                                                         !.got = Len(tokens) + 1]]
     ELSE /\ tab' = [tab EXCEPT ![t].refresh = AfterRefusal(r)]
          /\ UNCHANGED tokens
  /\ UNCHANGED <<store, calls, revoking, presented, left, troubled>>

(* The answer, or the request, is lost on the way: always so once the      *)
(* server has issued MaxTokens pairs.                                      *)
RefreshLost(t) ==
  /\ tab[t].refresh.phase = "sent" \/ tab[t].refresh.got # 0
  /\ tab' = [tab EXCEPT ![t].refresh.phase = "answered", ![t].refresh.got = 0]
  /\ troubled' = troubled \cup LoginOf(tab[t].refresh.token)
  /\ UNCHANGED <<tokens, store, calls, revoking, presented, left>>

(* The new pair is stored whatever the storage holds by now, and every     *)
(* waiting call is sent again with it.                                     *)
AccessOnlyStored(n) == [store EXCEPT !.access = n]
StoredAfterRefresh(n) == [store EXCEPT !.access = n, !.refresh = n]

Refreshed(t) ==
  LET n == tab[t].refresh.got IN
  /\ tab[t].refresh.phase = "answered"
  /\ n # 0
  /\ store' = StoredAfterRefresh(n)
  /\ tab' = [tab EXCEPT ![t].refresh = NoRefresh]
  /\ calls' = [calls EXCEPT ![t] =
       [c \in Calls |-> IF c \in Waiting(t)
                        THEN [@[c] EXCEPT !.phase = "resent", !.token = n]
                        ELSE @[c]]]
  /\ UNCHANGED <<tokens, revoking, presented, left, troubled>>

(* The refresh failed: every waiting call is unauthorized.                 *)
RefreshRefused(t) ==
  /\ tab[t].refresh.phase = "answered"
  /\ tab[t].refresh.got = 0
  /\ HandleLogout(t, Waiting(t), [tab[t] EXCEPT !.refresh = NoRefresh])
  /\ EndCalls(t, Waiting(t))
  /\ troubled' = troubled \cup Mixed(t, Waiting(t))
  /\ UNCHANGED <<tokens, presented, left>>

-----------------------------------------------------------------------------
(* The sign-in forms are shown while the tab has no actor of their kind,   *)
(* and disabled until what they submitted has ended.  What the server      *)
(* refuses leaves no trace.                                                *)
CanSignIn(t, kind) == /\ ~tab[t].checking
                      /\ tab[t].actor # kind
                      /\ calls[t]["profile"].phase = "none"
                      /\ Len(tokens) < MaxTokens

(* A sign-in made while a refresh is in flight is at its mercy.            *)
Overtaken(n) == IF Overlapped = {} THEN {} ELSE Overlapped \cup {n}

(* handleLogin: store the pair, then fetch the user.                       *)
HandleLogin(t) ==
  LET n == Len(tokens) + 1 IN
  /\ CanSignIn(t, "staff")
  /\ tokens' = Append(tokens, Pair(n, "staff"))
  /\ store' = [access |-> n, refresh |-> n, kind |-> "staff"]
  /\ Send(t, "profile", "staff", n)
  /\ troubled' = troubled \cup Overtaken(n)
  /\ UNCHANGED <<tab, revoking, presented, left>>

(* handleOwnerLogin drops a refresh token without revoking it.             *)
LeftoverKept(n) == [store EXCEPT !.access = n, !.kind = "owner"]
OwnerStore(n) == [access |-> n, refresh |-> 0, kind |-> "owner"]

HandleOwnerLogin(t) ==
  LET n == Len(tokens) + 1 IN
  /\ CanSignIn(t, "owner")
  /\ tokens' = Append(tokens, Pair(n, "owner"))
  /\ store' = OwnerStore(n)
  /\ tab' = [tab EXCEPT ![t].actor = "owner"]
  /\ troubled' = troubled \cup Overtaken(n)
  /\ UNCHANGED <<calls, revoking, presented, left>>

(* The user presses "Log out" in a portal.                                 *)
Logout(t) ==
  /\ tab[t].actor # "none"
  /\ HandleLogout(t, {}, tab[t])
  /\ left' = left \cup LoginOf(store.refresh)
  /\ troubled' = troubled \cup Overlapped
  /\ UNCHANGED <<tokens, calls, presented>>

(* POST /auth/logout arrives, or is lost.                                  *)
Revoke(n) ==
  /\ n \in revoking
  /\ revoking' = revoking \ {n}
  /\ tokens' = [tokens EXCEPT ![n].live = FALSE]
  /\ UNCHANGED <<store, tab, calls, presented, left, troubled>>

RevokeLost(n) ==
  /\ n \in revoking
  /\ revoking' = revoking \ {n}
  /\ troubled' = troubled \cup LoginOf(n)
  /\ UNCHANGED <<tokens, store, tab, calls, presented, left>>

-----------------------------------------------------------------------------
(* The tab loads the application again.  Answers to what was in flight are *)
(* lost; a stored access token is checked before anything is shown, as     *)
(* staff unless the storage says owner.                                    *)
StoredKind == store.kind
RestoredKind == IF store.kind = "owner" THEN "owner" ELSE "staff"

Load(t) ==
  /\ tab[t].load < MaxLoads[t]
  /\ tab' = [tab EXCEPT ![t] = [Loading(@.load + 1) EXCEPT !.checking = store.access # 0]]
  /\ calls' = [calls EXCEPT ![t] =
       [c \in Calls |-> IF c = "restore" /\ store.access # 0
                        THEN [phase |-> "sent", token |-> store.access, as |-> RestoredKind]
                        ELSE NoCall]]
  /\ presented' = [presented EXCEPT ![t] = [n \in Tokens |-> 0]]
  /\ troubled' = troubled \cup (IF Refreshing(t) THEN LoginOf(tab[t].refresh.token) ELSE {})
  /\ UNCHANGED <<tokens, store, revoking, left>>

(* Access token n passes its lifetime.  It outlives the retry it was       *)
(* obtained for: minutes against one round trip.                           *)
Expire(n) ==
  /\ n \in Issued
  /\ tokens[n].fresh
  /\ \A t \in Tabs : /\ tab[t].refresh.got # n
                     /\ \A c \in Calls : calls[t][c].phase = "resent" => calls[t][c].token # n
  /\ tokens' = [tokens EXCEPT ![n].fresh = FALSE]
  /\ UNCHANGED <<store, tab, calls, revoking, presented, left, troubled>>

(* The server ends a sign-in: forced logout, deactivation, password reset. *)
Purge(login) ==
  /\ \E n \in Issued : tokens[n].login = login /\ tokens[n].live
  /\ tokens' = [n \in Issued |-> IF tokens[n].login = login
                                THEN [tokens[n] EXCEPT !.live = FALSE, !.fresh = FALSE]
                                ELSE tokens[n]]
  /\ UNCHANGED <<store, tab, calls, revoking, presented, left, troubled>>

-----------------------------------------------------------------------------
Respond(t, c) == \/ Answered(t, c) \/ JoinRefresh(t, c) \/ StartRefresh(t, c)
                 \/ Unauthorized(t, c) \/ RefusedAgain(t, c)

EndRefresh(t) == Refreshed(t) \/ RefreshRefused(t)

Next ==
  \/ \E t \in Tabs, c \in Calls : PageCall(t, c) \/ Respond(t, c) \/ CallLost(t, c)
  \/ \E t \in Tabs : \/ Rotate(t) \/ RefreshLost(t) \/ EndRefresh(t)
                     \/ HandleLogin(t) \/ HandleOwnerLogin(t) \/ Logout(t) \/ Load(t)
  \/ \E n \in Tokens : Revoke(n) \/ RevokeLost(n) \/ Expire(n) \/ Purge(n)

(* fetch settles: an answer or a failure comes in.  The event loop runs    *)
(* the continuation of what has settled.                                   *)
Fairness ==
  /\ \A t \in Tabs, c \in Calls : WF_vars(Respond(t, c) \/ CallLost(t, c))
  /\ \A t \in Tabs : WF_vars(Rotate(t) \/ RefreshLost(t)) /\ WF_vars(EndRefresh(t))

Spec == Init /\ [][Next]_vars /\ Fairness

-----------------------------------------------------------------------------
(* Types of all variables.                                                 *)
TokenRow == [login : Tokens, kind : Kinds, live : BOOLEAN, fresh : BOOLEAN]

Refresh == [phase : {"none", "sent", "answered"}, token : Tokens \cup {0}, got : Tokens \cup {0}]

TabState == [actor : Kinds \cup {"none"}, checking : BOOLEAN,
             refresh : Refresh, load : Nat]

Call == [phase : {"none", "sent", "waiting", "resent"}, token : Tokens \cup {0}, as : Kinds]

TypeOK ==
  /\ tokens \in Seq(TokenRow)
  /\ Len(tokens) <= MaxTokens
  /\ store \in [access : Tokens \cup {0}, refresh : Tokens \cup {0}, kind : Kinds \cup {"none"}]
  /\ tab \in [Tabs -> TabState]
  /\ calls \in [Tabs -> [Calls -> Call]]
  /\ revoking \subseteq Issued
  /\ presented \in [Tabs -> [Tokens -> Nat]]
  /\ left \subseteq Tokens
  /\ troubled \subseteq Tokens

(* Within one load of the application no refresh token is ever presented   *)
(* twice, however many calls meet a 401 and whenever their answers arrive  *)
(* (client.ts 21-33: refresh tokens are single-use).                       *)
PresentedOnce == \A t \in Tabs, n \in Tokens : presented[t][n] <= 1

(* What the storage holds fits together: the access token is of the kind   *)
(* the next load takes it for, and the refresh token of the same sign-in   *)
(* (App.tsx 86-87, 111-117, 130-132, 140-143), unless a refresh was        *)
(* overlapped.                                                             *)
StoreFits ==
  store.access # 0 /\ LoginOf(store.access) \cap troubled = {} =>
    /\ tokens[store.access].kind = RestoredKind
    /\ store.refresh # 0 => LoginOf(store.refresh) = LoginOf(store.access)

SessionLive(login) == \E n \in Issued : tokens[n].login = login /\ tokens[n].live

(* A logout whose revocation arrived leaves no live refresh token of its   *)
(* sign-in behind, wherever it was pressed (App.tsx 63-74), unless a       *)
(* refresh was overlapped.                                                 *)
LoggedOutIsDead ==
  \A login \in left \ troubled :
    (\A n \in revoking : tokens[n].login # login) => ~SessionLive(login)

(* Only its user's acts and the server end a session: an expired access    *)
(* token, met by any number of calls of any tab, never clears the storage  *)
(* while the server still honours the sign-in (client.ts 76-92).           *)
ByUser == \E t \in Tabs : Logout(t) \/ HandleOwnerLogin(t)

KeepsLiveSession ==
  [][store.refresh # 0 /\ store'.refresh = 0 /\ ~ByUser =>
       \A login \in LoginOf(store.refresh) \ troubled' : ~SessionLive(login)]_vars

(* A refresh ends, with the calls that wait for it, and so does the check  *)
(* of a stored session: the refresh never waits for itself (auth.ts,       *)
(* skipAuthRedirect) and no 401 leaves the tab on the loading screen.      *)
Settles == \A t \in Tabs : []<>(~Refreshing(t) /\ Waiting(t) = {} /\ ~tab[t].checking)

(* App.tsx 64-65: logging out revokes the refresh token "so the session    *)
(* can't be silently resumed after logout".                                *)
NotResumed ==
  \A login \in left : ~(LoginOf(store.refresh) = {login} /\ tokens[store.refresh].live)

=============================================================================
