---------------------------- MODULE AuthSessions ----------------------------
(***************************************************************************)
(* One staff account: its refresh tokens, its access tokens, and what ends *)
(* them. A login, and every refresh after it, leaves a refresh token in    *)
(* the database and hands out an access token, a signed JWT that nothing   *)
(* is stored of. Three operations end the account's sessions: a forced     *)
(* logout, a password reset and a deactivation; `purge' stands for each.   *)
(*                                                                         *)
(* Requests interleave: each reads, then commits, and a login or a refresh *)
(* signs its access token after the commit. READ COMMITTED lets the UPDATE *)
(* of a purge see the tokens that are committed when it starts; those that *)
(* are inserted later are not revoked by it.                               *)
(***************************************************************************)
EXTENDS Integers, FiniteSets

CONSTANTS
    Tokens,             \* identities for refresh_tokens rows
    Sessions,           \* requests that can be in flight at once
    MaxTime,            \* bound on the clock, which counts seconds
    MaxPurges,          \* bound on the purges committed or in flight
    None

ASSUME BoundsAssumption ==
    MaxTime \in Nat /\ MaxPurges \in Nat /\ IsFiniteSet(Sessions)

Kinds == {"logout", "reset", "deactivate"}

VARIABLES
    active,         \* users.is_active
    invalid_before, \* users.tokens_invalid_before
    reset_link,     \* users.reset_token is set
    refresh,        \* refresh_tokens: a row, or None
    access,         \* an access token that was handed out, or None: they do
                    \* not touch one another, so any one is followed
    session,        \* requests in flight
    purges,         \* history: purges committed, and those with a cutoff
    forked,         \* history: logins one of whose tokens was used twice
    now

vars == <<active, invalid_before, reset_link, refresh, access, session,
          purges, forked, now>>

account == <<active, invalid_before, reset_link>>

Times == 0..MaxTime

Seen == [all : 0..MaxPurges, cutoff : 0..MaxPurges]

\* Of the login a token descends from: its first token, and the purges that
\* were committed when its password was checked. None if a purge overlapped
\* the making of the token or of one before it.
Lineage == [login : Tokens, seen : Seen \cup {None}]

RefreshRow == [lineage : Lineage, parent : Tokens \cup {None},
               revoked : BOOLEAN]

AccessToken == [issued : Times, seen : Seen \cup {None}]

ASSUME NoneAssumption ==
    None \notin Tokens \cup Times \cup Seen \cup RefreshRow \cup AccessToken

Idle == [op |-> "idle"]

SessionState ==
    {Idle}
    \cup [op : {"login"}, seen : Seen]
    \cup [op : {"refresh"}, token : Tokens, seen : Seen]
    \cup [op : {"sign"}, lineage : Lineage, seen : Seen]
    \cup [op : {"reset"}]
    \cup [op : {"purge"}, kind : Kinds, victims : SUBSET Tokens,
          at : Times, moves : BOOLEAN]

TypeOK ==
    /\ active \in BOOLEAN
    /\ invalid_before \in Times \cup {None}
    /\ reset_link \in BOOLEAN
    /\ refresh \in [Tokens -> RefreshRow \cup {None}]
    /\ access \in AccessToken \cup {None}
    /\ session \in [Sessions -> SessionState]
    /\ purges \in Seen
    /\ forked \subseteq Tokens
    /\ now \in Times

Init ==
    /\ active = TRUE
    /\ invalid_before = None
    /\ reset_link = FALSE
    /\ refresh = [t \in Tokens |-> None]
    /\ access = None
    /\ session = [s \in Sessions |-> Idle]
    /\ purges = [all |-> 0, cutoff |-> 0]
    /\ forked = {}
    /\ now = 0

-----------------------------------------------------------------------------
\* Not revoked. (A token also ends after 30 days, as if it were logged out.)
Live(t) == refresh[t] # None /\ ~refresh[t].revoked

Purging == \E s \in Sessions : session[s].op = "purge"

PurgesInAll == Cardinality({s \in Sessions : session[s].op = "purge"})
               + purges.all

\* What is left of origin for a token that is made now by a request that
\* found the purges at seen when it started.
Inherit(origin, seen) == IF Purging \/ seen # purges THEN None ELSE origin

\* Variant: both compared as whole seconds.
AcceptsSameSecond(a) ==
    active /\ (invalid_before = None \/ a.issued >= invalid_before)

\* get_current_user, for an access token that has not expired. iat is a whole
\* second, tokens_invalid_before some microsecond of one, and iat must not
\* come first.
Accepts(a) ==
    active /\ (invalid_before = None \/ a.issued > invalid_before)

Take(s, step) ==
    /\ session[s] = Idle
    /\ session' = [session EXCEPT ![s] = step]

Step(s, step) == session' = [session EXCEPT ![s] = step]

-----------------------------------------------------------------------------
(* login_user and refresh_staff_token *)

\* Password, account and organization are in order.
ReadForLogin(s) ==
    /\ active
    /\ Take(s, [op |-> "login", seen |-> purges])
    /\ UNCHANGED <<account, refresh, access, purges, forked, now>>

CommitLogin(s, t) ==
    LET r == session[s]
        line == [login |-> t, seen |-> Inherit(r.seen, r.seen)]
    IN
    /\ r.op = "login"
    /\ refresh[t] = None
    /\ refresh' = [refresh EXCEPT ![t] =
         [lineage |-> line, parent |-> None, revoked |-> FALSE]]
    /\ Step(s, [op |-> "sign", lineage |-> line, seen |-> purges])
    /\ UNCHANGED <<account, access, purges, forked, now>>

\* get_valid_by_hash found the row, and the account is in order.
ReadForRefresh(s, t) ==
    /\ Live(t)
    /\ active
    /\ Take(s, [op |-> "refresh", token |-> t, seen |-> purges])
    /\ UNCHANGED <<account, refresh, access, purges, forked, now>>

\* Variant: the token that was presented stays valid.
NotRevoked(t) == refresh

Revoked(t) == [refresh EXCEPT ![t].revoked = TRUE]

\* The row is revoked by its id, whatever became of it since it was read, and
\* a new one takes its place.
CommitRefresh(s, u) ==
    LET r == session[s]
        t == r.token
        line == [refresh[t].lineage EXCEPT !.seen = Inherit(@, r.seen)]
    IN
    /\ r.op = "refresh"
    /\ refresh[u] = None
    /\ refresh' = [Revoked(t) EXCEPT ![u] =
         [lineage |-> line, parent |-> t, revoked |-> FALSE]]
    /\ forked' = IF Live(t) THEN forked ELSE forked \cup {line.login}
    /\ Step(s, [op |-> "sign", lineage |-> line, seen |-> purges])
    /\ UNCHANGED <<account, access, purges, now>>

\* create_access_token, after the commit of either.
SignAccessToken(s) ==
    LET r == session[s] IN
    /\ r.op = "sign"
    /\ access' \in {access,
         [issued |-> now, seen |-> Inherit(r.lineage.seen, r.seen)]}
    /\ Step(s, Idle)
    /\ UNCHANGED <<account, refresh, purges, forked, now>>

-----------------------------------------------------------------------------
\* logout_staff. One step: by the time it commits, others can only have
\* revoked the token too.
Logout(t) ==
    /\ Live(t)
    /\ refresh' = Revoked(t)
    /\ UNCHANGED <<account, access, session, purges, forked, now>>

-----------------------------------------------------------------------------
(* force_logout_staff, update_staff_status and reset_password: the user row *)
(* is read, revoke_all_for_actor runs, and all of it commits.               *)

\* Variant: revoke_all_for_actor passes over what a refresh has made.
VictimsOfLogin == {t \in Tokens : Live(t) /\ refresh[t].parent = None}

Victims == {t \in Tokens : Live(t)}

Purge(kind) ==
    [op |-> "purge", kind |-> kind, victims |-> Victims, at |-> now,
     moves |-> kind = "deactivate" /\ active]

\* Variants: no cutoff; a cutoff that lies ahead.
NoCutoff(r) == invalid_before
CutoffAhead(r) == IF r.kind = "deactivate" THEN invalid_before ELSE r.at + 1

Cutoff(r) == IF r.kind = "deactivate" THEN invalid_before ELSE r.at

ForceLogout(s) ==
    /\ PurgesInAll < MaxPurges
    /\ Take(s, Purge("logout"))
    /\ UNCHANGED <<account, refresh, access, purges, forked, now>>

Deactivate(s) ==
    /\ PurgesInAll < MaxPurges
    /\ Take(s, Purge("deactivate"))
    /\ UNCHANGED <<account, refresh, access, purges, forked, now>>

\* The link is valid: another request may use it until this one commits.
ReadForReset(s) ==
    /\ reset_link
    /\ Take(s, [op |-> "reset"])
    /\ UNCHANGED <<account, refresh, access, purges, forked, now>>

ResetPassword(s) ==
    /\ session[s].op = "reset"
    /\ PurgesInAll < MaxPurges
    /\ Step(s, Purge("reset"))
    /\ UNCHANGED <<account, refresh, access, purges, forked, now>>

\* A deactivation has no cutoff; the UPDATE of is_active is left out if the
\* row was inactive when it was read.
CommitPurge(s) ==
    LET r == session[s] IN
    /\ r.op = "purge"
    /\ refresh' = [t \in Tokens |-> IF t \in r.victims
                     THEN [refresh[t] EXCEPT !.revoked = TRUE] ELSE refresh[t]]
    /\ invalid_before' = Cutoff(r)
    /\ active' = (active /\ ~r.moves)
    /\ reset_link' = (reset_link /\ r.kind # "reset")
    /\ purges' = [all |-> purges.all + 1,
                   cutoff |-> purges.cutoff
                                + IF r.kind = "deactivate" THEN 0 ELSE 1]
    /\ Step(s, Idle)
    /\ UNCHANGED <<access, forked, now>>

\* request_password_reset: the link takes the place of one sent before.
RequestReset ==
    /\ ~reset_link
    /\ reset_link' = TRUE
    /\ UNCHANGED <<active, invalid_before, refresh, access, session, purges,
                   forked, now>>

\* update_staff_status the other way. One step: nothing but is_active is
\* read or written.
Reactivate ==
    /\ ~active
    /\ active' = TRUE
    /\ UNCHANGED <<invalid_before, reset_link, refresh, access, session, purges,
                   forked, now>>

\* A request dies before its commit, or before it signs a token.
Abort(s) ==
    /\ session[s] # Idle
    /\ Step(s, Idle)
    /\ UNCHANGED <<account, refresh, access, purges, forked, now>>

Tick ==
    /\ now < MaxTime
    /\ now' = now + 1
    /\ UNCHANGED <<account, refresh, access, session, purges, forked>>

Next ==
    \/ \E s \in Sessions :
         \/ ReadForLogin(s)
         \/ \E t \in Tokens : CommitLogin(s, t) \/ ReadForRefresh(s, t)
                              \/ CommitRefresh(s, t)
         \/ SignAccessToken(s)
         \/ ForceLogout(s) \/ Deactivate(s)
         \/ ReadForReset(s) \/ ResetPassword(s)
         \/ CommitPurge(s)
         \/ Abort(s)
    \/ \E t \in Tokens : Logout(t)
    \/ Reactivate
    \/ RequestReset
    \/ Tick

Spec == Init /\ [][Next]_vars

-----------------------------------------------------------------------------
\* After a forced logout, a password reset or a deactivation no refresh token
\* from before is valid, but those of logins and refreshes that overlapped it
\* (revoke_all_for_actor sees what is committed when it starts); while the
\* account is inactive none is, with the same exception.
PurgeEndsRefresh ==
    \A t \in Tokens : Live(t) /\ refresh[t].lineage.seen # None =>
        refresh[t].lineage.seen = purges /\ active

\* After a forced logout or a password reset no access token of a session from
\* before is accepted, with the same exception, and although purges may
\* overlap and the cutoff move backwards (tokens_invalid_before).
PurgeEndsAccess ==
    access # None /\ Accepts(access) /\ access.seen # None
        => access.seen.cutoff = purges.cutoff

\* A login has one valid refresh token at a time, unless one of its tokens was
\* presented twice before the first refresh committed (the rotation in
\* refresh_staff_token).
OneLivePerLogin ==
    \A t, u \in Tokens :
        Live(t) /\ Live(u) /\ refresh[t].lineage.login = refresh[u].lineage.login
            => t = u \/ refresh[t].lineage.login \in forked

\* "Rotate: the old token is single-use, so a leaked/replayed token can't be
\* reused" (refresh_staff_token): no token is followed by two.
SingleUse ==
    \A t, u \in {v \in Tokens : refresh[v] # None} :
        refresh[t].parent = refresh[u].parent /\ refresh[t].parent # None
            => t = u

\* "Kills a staff member's active sessions right now ... every refresh token
\* is revoked" (force_logout_staff): a session whose login was over before a
\* forced logout began has no valid refresh token after it.
ForcedLogoutKills ==
    \A t \in Tokens : Live(t) =>
        LET login == refresh[refresh[t].lineage.login].lineage IN
        login.seen = None \/ login.seen.cutoff = purges.cutoff
=============================================================================
