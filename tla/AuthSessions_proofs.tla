------------------------ MODULE AuthSessions_proofs ------------------------
(***************************************************************************)
(* What a purge ends and what rotation leaves, proved for any tokens,      *)
(* requests in flight, purges and length of time.                          *)
(***************************************************************************)
EXTENDS AuthSessions, FiniteSetTheorems, TLAPS

Exists(t) == refresh[t] # None

Origin(t) == refresh[t].lineage.seen

Purgers == {s \in Sessions : session[s].op = "purge"}

\* The first token of a login exists as long as those that descend from it.
RowsSound == \A t \in Tokens : Exists(t) => Exists(refresh[t].lineage.login)

\* The purges are as many as the bound allows.
CountSound ==
    /\ Cardinality(Purgers) + purges.all <= MaxPurges
    /\ purges.cutoff <= purges.all

\* What a request remembers was so when it read it, and is so still unless a
\* purge has committed since. A purge has seen every token that it must end.
Knows(r) ==
    /\ r.op \in {"login", "refresh", "sign"} => r.seen.all <= purges.all
    /\ r.op = "login" => (r.seen = purges => active)
    /\ r.op = "refresh" =>
         /\ Exists(r.token)
         /\ r.seen = purges => active /\ Origin(r.token) \in {None, purges}
    /\ r.op = "sign" => (r.seen = purges => r.lineage.seen \in {None, purges})
    /\ r.op = "purge" =>
         /\ \A t \in r.victims : Exists(t)
         /\ \A t \in Tokens : Live(t) /\ Origin(t) # None => t \in r.victims
         /\ access # None /\ access.seen # None => access.issued <= r.at

\* A purge with a cutoff that committed after an access token was signed left
\* its cutoff, or an overlapping purge's that began after the signature too.
AccessSound ==
    access # None =>
        /\ access.issued <= now
        /\ access.seen # None =>
             \/ access.seen.cutoff = purges.cutoff
             \/ invalid_before # None /\ access.issued <= invalid_before

SessionsSound == \A s \in Sessions : Knows(session[s])

IInv ==
    /\ TypeOK
    /\ RowsSound /\ CountSound /\ SessionsSound /\ AccessSound
    /\ PurgeEndsRefresh /\ OneLivePerLogin

-----------------------------------------------------------------------------
LEMMA SessionFields ==
    ASSUME NEW r \in SessionState
    PROVE  /\ r.op = "login" => r.seen \in Seen
           /\ r.op = "refresh" => r.token \in Tokens /\ r.seen \in Seen
           /\ r.op = "sign" => r.lineage \in Lineage /\ r.seen \in Seen
           /\ r.op = "purge" => /\ r.kind \in Kinds /\ r.victims \subseteq Tokens
                                /\ r.at \in Times /\ r.moves \in BOOLEAN
           /\ r.op = "idle" <=> r = Idle
BY DEF SessionState, Idle

LEMMA RowFields ==
    ASSUME TypeOK, NEW t \in Tokens, Exists(t)
    PROVE  /\ refresh[t] \in RefreshRow
           /\ refresh[t].lineage \in Lineage
           /\ refresh[t].lineage.login \in Tokens
           /\ Origin(t) \in Seen \cup {None}
           /\ refresh[t].revoked \in BOOLEAN
BY DEF TypeOK, Exists, Origin, RefreshRow, Lineage

LEMMA SessionSet ==
    ASSUME TypeOK, NEW s \in Sessions, NEW r \in SessionState,
           session' = [session EXCEPT ![s] = r]
    PROVE  /\ session' \in [Sessions -> SessionState]
           /\ \A q \in Sessions : session'[q] = IF q = s THEN r ELSE session[q]
BY DEF TypeOK

LEMMA PurgersFinite == IsFiniteSet(Purgers) /\ Cardinality(Purgers) \in Nat
BY FS_Subset, FS_CardinalityType, BoundsAssumption DEF Purgers

LEMMA CountsTyped ==
    ASSUME TypeOK
    PROVE  purges.all \in Nat /\ purges.cutoff \in Nat /\ MaxPurges \in Nat
BY BoundsAssumption DEF TypeOK, Seen

\* A purge that a request starts, and one that ends.
LEMMA PurgersGrow ==
    ASSUME TypeOK, NEW s \in Sessions, NEW r \in SessionState,
           session' = [session EXCEPT ![s] = r]
    PROVE  /\ r.op # "purge" => Cardinality(Purgers') <= Cardinality(Purgers)
           /\ Cardinality(Purgers') <= Cardinality(Purgers) + 1
           /\ session[s].op = "purge" /\ r.op # "purge" =>
                Cardinality(Purgers') = Cardinality(Purgers) - 1
           /\ Cardinality(Purgers') \in Nat
<1>1. \A q \in Sessions : session'[q] = IF q = s THEN r ELSE session[q]
  BY SessionSet
<1>2. IsFiniteSet(Purgers) /\ Cardinality(Purgers) \in Nat
  BY PurgersFinite
<1>3. CASE r.op = "purge"
  <2>1. Purgers' = Purgers \cup {s}
    BY <1>1, <1>3 DEF Purgers
  <2>2. Cardinality(Purgers \cup {s}) \in {Cardinality(Purgers), Cardinality(Purgers) + 1}
    BY <1>2, FS_AddElement
  <2> QED BY <1>2, <1>3, <2>1, <2>2
<1>4. CASE r.op # "purge"
  <2>1. Purgers' = Purgers \ {s} /\ (s \in Purgers <=> session[s].op = "purge")
    BY <1>1, <1>4 DEF Purgers
  <2>2. IsFiniteSet(Purgers \ {s}) /\ Cardinality(Purgers \ {s}) \in Nat
    BY <1>2, FS_RemoveElement, FS_CardinalityType
  <2> QED BY <1>2, <1>4, <2>1, <2>2, FS_RemoveElement
<1> QED BY <1>3, <1>4

-----------------------------------------------------------------------------
(* Steps that only move one request.                                       *)
LEMMA RequestMoves ==
    ASSUME IInv, NEW s \in Sessions, NEW r \in SessionState,
           session' = [session EXCEPT ![s] = r],
           UNCHANGED <<account, refresh, access, purges, forked, now>>,
           Knows(r),
           r.op = "purge" => PurgesInAll < MaxPurges
    PROVE  IInv'
<1> USE DEF IInv
<1>1. /\ session' \in [Sessions -> SessionState]
      /\ \A q \in Sessions : session'[q] = IF q = s THEN r ELSE session[q]
  BY SessionSet
<1>2. UNCHANGED <<active, invalid_before, reset_link, refresh, access, purges, forked, now>>
  BY DEF account
<1>3. TypeOK'
  BY <1>1, <1>2 DEF TypeOK
<1>4. RowsSound' /\ AccessSound' /\ PurgeEndsRefresh' /\ OneLivePerLogin'
  BY <1>2 DEF RowsSound, AccessSound, PurgeEndsRefresh, OneLivePerLogin, Exists, Live
<1>5. CountSound'
  <2>1. /\ r.op # "purge" => Cardinality(Purgers') <= Cardinality(Purgers)
        /\ Cardinality(Purgers') <= Cardinality(Purgers) + 1
        /\ Cardinality(Purgers') \in Nat /\ Cardinality(Purgers) \in Nat
    BY PurgersGrow, PurgersFinite
  <2>2. r.op = "purge" => Cardinality(Purgers) + purges.all < MaxPurges
    BY DEF PurgesInAll, Purgers
  <2> QED BY <1>2, <2>1, <2>2, CountsTyped DEF CountSound
<1>6. SessionsSound'
  <2>1. \A q : Knows(q) => Knows(q)'
    BY <1>2 DEF Knows, Exists, Origin, Live
  <2>2. \A q \in Sessions : Knows(session'[q])
    BY <1>1 DEF SessionsSound
  <2> QED BY <1>2, <2>2 DEF SessionsSound, Knows, Exists, Origin, Live
<1> QED BY <1>3, <1>4, <1>5, <1>6

\* Requests are known after a step if each, as it is then, is.
LEMMA RequestsKnown ==
    ASSUME session' \in [Sessions -> SessionState],
           \A q \in Sessions : \A k \in SessionState : k = session'[q] => Knows(k)'
    PROVE  SessionsSound'
BY DEF SessionsSound, Knows, Exists, Origin, Live

LEMMA PurgesKnown == ASSUME TypeOK PROVE purges \in Seen /\ purges.all <= purges.all
BY CountsTyped DEF TypeOK

LEMMA ReadForLoginPreserves ==
    ASSUME IInv, NEW s \in Sessions, ReadForLogin(s)
    PROVE  IInv'
<1> DEFINE r == [op |-> "login", seen |-> purges]
<1>1. r \in SessionState
  BY PurgesKnown DEF IInv, SessionState
<1>2. session' = [session EXCEPT ![s] = r]
      /\ UNCHANGED <<account, refresh, access, purges, forked, now>>
  BY DEF ReadForLogin, Take
<1>3. Knows(r) /\ r.op # "purge"
  BY PurgesKnown DEF IInv, Knows, ReadForLogin
<1> QED BY <1>1, <1>2, <1>3, RequestMoves

LEMMA ReadForRefreshPreserves ==
    ASSUME IInv, NEW s \in Sessions, NEW t \in Tokens, ReadForRefresh(s, t)
    PROVE  IInv'
<1> DEFINE r == [op |-> "refresh", token |-> t, seen |-> purges]
<1>1. r \in SessionState
  BY PurgesKnown DEF IInv, SessionState
<1>2. session' = [session EXCEPT ![s] = r]
      /\ UNCHANGED <<account, refresh, access, purges, forked, now>>
      /\ Live(t) /\ active
  BY DEF ReadForRefresh, Take
<1>3. Exists(t) /\ Origin(t) \in {None, purges}
  BY <1>2 DEF IInv, PurgeEndsRefresh, Live, Exists, Origin
<1>4. Knows(r) /\ r.op # "purge"
  BY <1>2, <1>3, PurgesKnown DEF IInv, Knows
<1> QED BY <1>1, <1>2, <1>4, RequestMoves

LEMMA PurgeBegins ==
    ASSUME IInv, NEW s \in Sessions, NEW kind \in Kinds,
           session' = [session EXCEPT ![s] = Purge(kind)],
           UNCHANGED <<account, refresh, access, purges, forked, now>>,
           PurgesInAll < MaxPurges
    PROVE  IInv'
<1> DEFINE r == Purge(kind)
<1>1. /\ r.op = "purge" /\ r.victims = {t \in Tokens : Live(t)} /\ r.at = now
      /\ r \in SessionState
  BY DEF Purge, Victims, SessionState, IInv, TypeOK
<1> HIDE DEF r
<1>2. access # None => access.issued <= now
  BY DEF IInv, AccessSound
<1>3. Knows(r)
  BY <1>1, <1>2 DEF Knows, Live, Exists
<1> QED BY <1>1, <1>3, RequestMoves DEF r

LEMMA RequestEnds ==
    ASSUME IInv, NEW s \in Sessions, NEW r \in {Idle, [op |-> "reset"]},
           session' = [session EXCEPT ![s] = r],
           UNCHANGED <<account, refresh, access, purges, forked, now>>
    PROVE  IInv'
<1>1. r \in SessionState /\ r.op \in {"idle", "reset"}
  BY DEF SessionState, Idle
<1>2. Knows(r)
  BY <1>1 DEF Knows
<1> QED BY <1>1, <1>2, RequestMoves

-----------------------------------------------------------------------------
(* A login or a refresh commits: a token is made, its predecessor revoked. *)
LEMMA TokenMade ==
    ASSUME IInv, NEW s \in Sessions, NEW t \in Tokens, ~Exists(t),
           NEW row \in RefreshRow, ~row.revoked,
           row.lineage.login = t \/ Exists(row.lineage.login),
           row.lineage.seen # None => ~Purging /\ row.lineage.seen = purges /\ active,
           refresh' \in [Tokens -> RefreshRow \cup {None}],
           refresh'[t] = row,
           \A u \in Tokens \ {t} :
             /\ Exists(u)' <=> Exists(u)
             /\ Exists(u) => refresh'[u].lineage = refresh[u].lineage
             /\ Live(u)' => Live(u)
             /\ Live(u)' /\ refresh[u].lineage.login = row.lineage.login =>
                  row.lineage.login \in forked',
           session' = [session EXCEPT ![s] =
                        [op |-> "sign", lineage |-> row.lineage, seen |-> purges]],
           forked \subseteq forked', forked' \subseteq Tokens,
           UNCHANGED <<account, access, purges, now>>
    PROVE  IInv'
<1> USE DEF IInv
<1>1. UNCHANGED <<active, invalid_before, reset_link, access, purges, now>>
  BY DEF account
<1> DEFINE r == [op |-> "sign", lineage |-> row.lineage, seen |-> purges]
<1>2. row.lineage \in Lineage /\ row.lineage.login \in Tokens
  BY DEF RefreshRow, Lineage
<1>3. /\ r \in SessionState /\ r.op = "sign" /\ r.seen = purges /\ r.lineage = row.lineage
  BY <1>2, PurgesKnown DEF SessionState
<1>4. session' = [session EXCEPT ![s] = r]
  OBVIOUS
<1> HIDE DEF r
<1>5. /\ session' \in [Sessions -> SessionState]
      /\ \A q \in Sessions : session'[q] = IF q = s THEN r ELSE session[q]
  BY <1>3, <1>4, SessionSet
<1>6. TypeOK'
  BY <1>1, <1>5 DEF TypeOK
<1>7. row # None
  BY NoneAssumption
<1>8. Exists(t)' /\ Origin(t)' = row.lineage.seen /\ Live(t)'
  BY <1>7 DEF Exists, Origin, Live
<1>9. \A u \in Tokens \ {t} : Exists(u) => Origin(u)' = Origin(u)
  BY DEF Origin
<1>10. RowsSound'
  <2> SUFFICES ASSUME NEW u \in Tokens, Exists(u)' PROVE Exists(refresh[u].lineage.login)'
    BY DEF RowsSound
  <2>1. \A v \in Tokens : Exists(v) => refresh'[v] # None
    BY <1>7 DEF Exists
  <2>2. CASE u = t
    <3>1. refresh'[row.lineage.login] # None
      BY <1>2, <1>7, <2>1
    <3> QED BY <2>2, <3>1 DEF Exists
  <2>3. CASE u # t
    <3>1. Exists(u) /\ refresh'[u].lineage = refresh[u].lineage
      BY <2>3
    <3>2. refresh[u].lineage.login \in Tokens /\ Exists(refresh[u].lineage.login)
      BY <3>1, RowFields DEF RowsSound
    <3>3. refresh'[refresh[u].lineage.login] # None
      BY <2>1, <3>2
    <3> QED BY <3>1, <3>3 DEF Exists
  <2> QED BY <2>2, <2>3
<1>11. CountSound'
  <2>1. Cardinality(Purgers') <= Cardinality(Purgers)
        /\ Cardinality(Purgers') \in Nat /\ Cardinality(Purgers) \in Nat
    BY <1>3, <1>4, PurgersGrow, PurgersFinite
  <2> QED BY <1>1, <2>1, CountsTyped DEF CountSound
<1>12. SessionsSound'
  <2> SUFFICES ASSUME NEW q \in Sessions, NEW k \in SessionState, k = session'[q]
               PROVE  Knows(k)'
    BY <1>5, RequestsKnown
  <2>1. CASE q = s
    <3>1. k = r
      BY <1>5, <2>1
    <3> QED BY <1>1, <1>3, <3>1, PurgesKnown DEF Knows
  <2>2. CASE q # s
    <3>0. k = session[q]
      BY <1>5, <2>2
    <3>1. Knows(k)
      BY <3>0 DEF SessionsSound
    <3>2. k.op = "purge" => Purging
      BY <3>0 DEF Purging
    <3>3. k.op = "refresh" => k.token \in Tokens /\ k.token # t
      BY <3>1, SessionFields DEF Knows
    <3>4. k.op = "purge" => k.victims \subseteq Tokens \ {t}
      BY <3>1, SessionFields DEF Knows
    <3>5. Knows(k)'
      <4>1. /\ k.op \in {"login", "refresh", "sign"} => k.seen.all <= purges'.all
            /\ k.op = "login" => (k.seen = purges' => active')
            /\ k.op = "sign" => (k.seen = purges' => k.lineage.seen \in {None, purges'})
        BY <1>1, <3>1 DEF Knows
      <4>2. k.op = "refresh" =>
              /\ Exists(k.token)'
              /\ k.seen = purges' => active' /\ Origin(k.token)' \in {None, purges'}
        BY <1>1, <1>9, <3>1, <3>3 DEF Knows
      <4>3. k.op = "purge" =>
              /\ \A u \in k.victims : Exists(u)'
              /\ \A u \in Tokens : Live(u)' /\ Origin(u)' # None => u \in k.victims
              /\ access' # None /\ access'.seen # None => access'.issued <= k.at
        <5>1. k.op = "purge" => \A u \in k.victims : Exists(u)'
          BY <3>1, <3>4 DEF Knows
        <5>2. ASSUME k.op = "purge", NEW u \in Tokens, Live(u)', Origin(u)' # None
              PROVE  u \in k.victims
          <6>1. u # t
            BY <1>8, <3>2, <5>2
          <6>2. Live(u) /\ Exists(u) /\ Origin(u) # None
            BY <1>9, <5>2, <6>1 DEF Live, Exists
          <6> QED BY <3>1, <5>2, <6>2 DEF Knows
        <5> QED BY <1>1, <3>1, <5>1, <5>2 DEF Knows
      <4> QED BY <4>1, <4>2, <4>3 DEF Knows
    <3> QED BY <3>5
  <2> QED BY <2>1, <2>2
<1>13. AccessSound'
  BY <1>1 DEF AccessSound
<1>14. PurgeEndsRefresh'
  <2> SUFFICES ASSUME NEW u \in Tokens, Live(u)', Origin(u)' # None
               PROVE  Origin(u)' = purges' /\ active'
    BY DEF PurgeEndsRefresh, Origin
  <2>1. CASE u = t
    BY <1>1, <1>8, <2>1
  <2>2. CASE u # t
    <3>1. Live(u) /\ Exists(u) /\ Origin(u)' = Origin(u)
      BY <1>9, <2>2 DEF Live, Exists
    <3> QED BY <1>1, <3>1 DEF PurgeEndsRefresh, Origin
  <2> QED BY <2>1, <2>2
<1>15. OneLivePerLogin'
  <2> SUFFICES ASSUME NEW u \in Tokens, NEW v \in Tokens, Live(u)', Live(v)', u # v,
                      refresh'[u].lineage.login = refresh'[v].lineage.login
               PROVE  refresh'[u].lineage.login \in forked'
    BY DEF OneLivePerLogin
  <2>1. \A w \in Tokens \ {t} :
          Live(w)' => Live(w) /\ refresh'[w].lineage = refresh[w].lineage
    BY DEF Live, Exists
  <2>2. CASE u = t \/ v = t
    BY <2>1, <2>2
  <2>3. CASE u # t /\ v # t
    BY <2>1, <2>3 DEF OneLivePerLogin
  <2> QED BY <2>2, <2>3
<1> QED BY <1>6, <1>10, <1>11, <1>12, <1>13, <1>14, <1>15

LEMMA CommitLoginPreserves ==
    ASSUME IInv, NEW s \in Sessions, NEW t \in Tokens, CommitLogin(s, t)
    PROVE  IInv'
<1> USE DEF IInv
<1> PICK r \in SessionState : r = session[s]
  BY DEF TypeOK
<1>1. /\ r.op = "login" /\ ~Exists(t)
      /\ UNCHANGED <<account, access, purges, now>> /\ forked' = forked
  BY DEF CommitLogin, Exists
<1>2. r.seen \in Seen /\ Knows(r)
  BY <1>1, SessionFields DEF SessionsSound
<1> DEFINE line == [login |-> t, seen |-> Inherit(r.seen, r.seen)]
<1> DEFINE row == [lineage |-> line, parent |-> None, revoked |-> FALSE]
<1>3. /\ Inherit(r.seen, r.seen) \in Seen \cup {None}
      /\ Inherit(r.seen, r.seen) # None => ~Purging /\ Inherit(r.seen, r.seen) = purges /\ active
  BY <1>1, <1>2 DEF Inherit, Knows
<1>4. row \in RefreshRow /\ ~row.revoked /\ row.lineage.login = t
      /\ row.lineage.seen = Inherit(r.seen, r.seen) /\ row.lineage = line
  BY <1>3 DEF RefreshRow, Lineage
<1>5. refresh' = [refresh EXCEPT ![t] = row]
      /\ session' = [session EXCEPT ![s] = [op |-> "sign", lineage |-> line, seen |-> purges]]
  BY DEF CommitLogin, Step
<1> HIDE DEF row, line
<1>6. /\ refresh' \in [Tokens -> RefreshRow \cup {None}] /\ refresh'[t] = row
      /\ \A u \in Tokens \ {t} : refresh'[u] = refresh[u]
  BY <1>4, <1>5 DEF TypeOK
<1>7. \A u \in Tokens \ {t} :
        /\ Exists(u)' <=> Exists(u)
        /\ Exists(u) => refresh'[u].lineage = refresh[u].lineage
        /\ Live(u)' => Live(u)
        /\ Live(u)' /\ refresh[u].lineage.login = row.lineage.login =>
             row.lineage.login \in forked'
  BY <1>1, <1>4, <1>6 DEF Exists, Live, RowsSound
<1>8. forked \subseteq forked' /\ forked' \subseteq Tokens
  BY <1>1 DEF TypeOK
<1> PICK k \in RefreshRow : k = row
  BY <1>4
<1>20. /\ ~k.revoked /\ (k.lineage.login = t \/ Exists(k.lineage.login))
       /\ k.lineage.seen # None => ~Purging /\ k.lineage.seen = purges /\ active
  BY <1>3, <1>4
<1>21. /\ refresh'[t] = k
       /\ session' = [session EXCEPT ![s] =
                       [op |-> "sign", lineage |-> k.lineage, seen |-> purges]]
  BY <1>4, <1>5, <1>6
<1>22. \A v \in Tokens \ {t} :
         /\ Exists(v)' <=> Exists(v)
         /\ Exists(v) => refresh'[v].lineage = refresh[v].lineage
         /\ Live(v)' => Live(v)
         /\ Live(v)' /\ refresh[v].lineage.login = k.lineage.login =>
              k.lineage.login \in forked'
  BY <1>7
<1> QED BY <1>1, <1>6, <1>8, <1>20, <1>21, <1>22, TokenMade

LEMMA CommitRefreshPreserves ==
    ASSUME IInv, NEW s \in Sessions, NEW u \in Tokens, CommitRefresh(s, u)
    PROVE  IInv'
<1> USE DEF IInv
<1> PICK r \in SessionState : r = session[s]
  BY DEF TypeOK
<1>1. r.op = "refresh" /\ ~Exists(u) /\ UNCHANGED <<account, access, purges, now>>
  BY DEF CommitRefresh, Exists
<1>2. r.token \in Tokens /\ r.seen \in Seen /\ Knows(r)
  BY <1>1, SessionFields DEF SessionsSound
<1> PICK t \in Tokens : t = r.token
  BY <1>2
<1>3. /\ Exists(t) /\ t # u
      /\ r.seen = purges => active /\ Origin(t) \in {None, purges}
      /\ refresh[t] \in RefreshRow /\ refresh[t].lineage \in Lineage
      /\ refresh[t].lineage.login \in Tokens
      /\ Origin(t) \in Seen \cup {None}
      /\ Exists(refresh[t].lineage.login)
  BY <1>1, <1>2, RowFields DEF Knows, RowsSound
<1> DEFINE line == [refresh[t].lineage EXCEPT !.seen = Inherit(@, r.seen)]
<1> DEFINE row == [lineage |-> line, parent |-> t, revoked |-> FALSE]
<1>4. /\ Inherit(Origin(t), r.seen) \in Seen \cup {None}
      /\ Inherit(Origin(t), r.seen) # None =>
           ~Purging /\ Inherit(Origin(t), r.seen) = purges /\ active
  BY <1>3 DEF Inherit
<1>5. /\ line = [login |-> refresh[t].lineage.login, seen |-> Inherit(Origin(t), r.seen)]
  BY <1>3 DEF Lineage, Origin
<1>6. row \in RefreshRow /\ ~row.revoked /\ row.lineage = line
      /\ line.login = refresh[t].lineage.login
      /\ line.seen = Inherit(Origin(t), r.seen)
  BY <1>3, <1>4, <1>5 DEF RefreshRow, Lineage
<1>7. /\ refresh' = [Revoked(t) EXCEPT ![u] = row]
      /\ forked' = IF Live(t) THEN forked ELSE forked \cup {line.login}
      /\ session' = [session EXCEPT ![s] = [op |-> "sign", lineage |-> line, seen |-> purges]]
  BY DEF CommitRefresh, Step
<1> HIDE DEF row, line
<1>8. /\ refresh' \in [Tokens -> RefreshRow \cup {None}] /\ refresh'[u] = row
      /\ refresh'[t] = [refresh[t] EXCEPT !.revoked = TRUE]
      /\ \A v \in Tokens \ {t, u} : refresh'[v] = refresh[v]
  <2>1. [refresh[t] EXCEPT !.revoked = TRUE] \in RefreshRow
    BY <1>3 DEF RefreshRow
  <2> QED BY <1>3, <1>6, <1>7, <2>1 DEF TypeOK, Revoked
<1>9. /\ refresh'[t] \in RefreshRow /\ refresh'[t].revoked
      /\ refresh'[t].lineage = refresh[t].lineage
  BY <1>3, <1>8 DEF RefreshRow
<1>10. Exists(t)' /\ ~Live(t)'
  BY <1>9, NoneAssumption DEF Exists, Live
<1>11. \A v \in Tokens \ {u} :
         /\ Exists(v)' <=> Exists(v)
         /\ Exists(v) => refresh'[v].lineage = refresh[v].lineage
         /\ Live(v)' => Live(v)
         /\ Live(v)' /\ refresh[v].lineage.login = row.lineage.login =>
              row.lineage.login \in forked'
  <2> SUFFICES ASSUME NEW v \in Tokens, v # u
               PROVE  /\ Exists(v)' <=> Exists(v)
                      /\ Exists(v) => refresh'[v].lineage = refresh[v].lineage
                      /\ Live(v)' => Live(v)
                      /\ Live(v)' /\ refresh[v].lineage.login = row.lineage.login =>
                           row.lineage.login \in forked'
    OBVIOUS
  <2>1. CASE v = t
    BY <1>3, <1>9, <1>10, <2>1
  <2>2. CASE v # t
    <3>1. refresh'[v] = refresh[v]
      BY <1>8, <2>2
    <3>2. (Exists(v)' <=> Exists(v)) /\ (Live(v)' <=> Live(v))
      BY <3>1 DEF Exists, Live
    <3>3. ASSUME Live(v), refresh[v].lineage.login = line.login
          PROVE  line.login \in forked'
      BY <1>6, <1>7, <2>2, <3>3 DEF OneLivePerLogin
    <3> QED BY <1>6, <3>1, <3>2, <3>3
  <2> QED BY <2>1, <2>2
<1>12. forked \subseteq forked' /\ forked' \subseteq Tokens
  BY <1>3, <1>6, <1>7 DEF TypeOK
<1> PICK k \in RefreshRow : k = row
  BY <1>6
<1>20. /\ ~k.revoked /\ (k.lineage.login = u \/ Exists(k.lineage.login))
       /\ k.lineage.seen # None => ~Purging /\ k.lineage.seen = purges /\ active
  BY <1>3, <1>4, <1>6
<1>21. /\ refresh'[u] = k
       /\ session' = [session EXCEPT ![s] =
                       [op |-> "sign", lineage |-> k.lineage, seen |-> purges]]
  BY <1>6, <1>7, <1>8
<1>22. \A v \in Tokens \ {u} :
         /\ Exists(v)' <=> Exists(v)
         /\ Exists(v) => refresh'[v].lineage = refresh[v].lineage
         /\ Live(v)' => Live(v)
         /\ Live(v)' /\ refresh[v].lineage.login = k.lineage.login =>
              k.lineage.login \in forked'
  BY <1>11
<1> QED BY <1>1, <1>8, <1>12, <1>20, <1>21, <1>22, TokenMade

-----------------------------------------------------------------------------
(* Steps that end a token, sign one, or touch only the account.            *)
LEMMA LogoutPreserves ==
    ASSUME IInv, NEW t \in Tokens, Logout(t)
    PROVE  IInv'
<1> USE DEF IInv
<1>1. /\ Live(t) /\ refresh' = Revoked(t)
      /\ UNCHANGED <<active, invalid_before, reset_link, access, session, purges, forked, now>>
  BY DEF Logout, account
<1>2. refresh[t] \in RefreshRow
  BY <1>1, RowFields DEF Live, Exists
<1>3. /\ [refresh[t] EXCEPT !.revoked = TRUE] \in RefreshRow
      /\ [refresh[t] EXCEPT !.revoked = TRUE].lineage = refresh[t].lineage
      /\ [refresh[t] EXCEPT !.revoked = TRUE].revoked
  BY <1>2 DEF RefreshRow
<1>4. /\ refresh' \in [Tokens -> RefreshRow \cup {None}]
      /\ refresh'[t] = [refresh[t] EXCEPT !.revoked = TRUE]
      /\ \A u \in Tokens \ {t} : refresh'[u] = refresh[u]
  BY <1>1, <1>3 DEF TypeOK, Revoked
<1>5. \A u \in Tokens :
        /\ Exists(u)' <=> Exists(u)
        /\ Exists(u) => refresh'[u].lineage = refresh[u].lineage
        /\ Live(u)' => Live(u) /\ Exists(u)
  BY <1>1, <1>3, <1>4, NoneAssumption DEF Exists, Live
<1>6. TypeOK'
  BY <1>1, <1>4 DEF TypeOK
<1>7. RowsSound'
  <2> SUFFICES ASSUME NEW u \in Tokens, Exists(u)' PROVE Exists(refresh[u].lineage.login)'
    BY DEF RowsSound
  <2>1. Exists(u) /\ refresh'[u].lineage.login = refresh[u].lineage.login
    BY <1>5
  <2>2. refresh[u].lineage.login \in Tokens /\ Exists(refresh[u].lineage.login)
    BY <2>1, RowFields DEF RowsSound
  <2>3. refresh'[refresh[u].lineage.login] # None
    BY <1>5, <2>2 DEF Exists
  <2> QED BY <2>1, <2>3 DEF Exists
<1>8. CountSound' /\ AccessSound'
  BY <1>1 DEF CountSound, AccessSound, Purgers
<1>9. SessionsSound'
  <2> SUFFICES ASSUME NEW q \in Sessions, NEW k \in SessionState, k = session'[q]
               PROVE  Knows(k)'
    BY <1>6, RequestsKnown DEF TypeOK
  <2>1. Knows(k)
    BY <1>1 DEF SessionsSound
  <2>2. k.op = "refresh" => k.token \in Tokens /\ Origin(k.token)' = Origin(k.token)
    BY <1>5, <2>1, SessionFields DEF Knows, Origin
  <2>3. k.op = "purge" => k.victims \subseteq Tokens
    BY SessionFields
  <2>4. \A u \in Tokens : Live(u)' /\ Origin(u)' # None => Live(u) /\ Origin(u) # None
    BY <1>5 DEF Origin
  <2> QED BY <1>1, <1>5, <2>1, <2>2, <2>3, <2>4 DEF Knows
<1>10. PurgeEndsRefresh' /\ OneLivePerLogin'
  BY <1>1, <1>5 DEF PurgeEndsRefresh, OneLivePerLogin
<1> QED BY <1>6, <1>7, <1>8, <1>9, <1>10

LEMMA SignAccessTokenPreserves ==
    ASSUME IInv, NEW s \in Sessions, SignAccessToken(s)
    PROVE  IInv'
<1> USE DEF IInv
<1> PICK r \in SessionState : r = session[s]
  BY DEF TypeOK
<1> PICK seen : seen = Inherit(r.lineage.seen, r.seen)
  OBVIOUS
<1>1. /\ r.op = "sign" /\ session' = [session EXCEPT ![s] = Idle]
      /\ access' = access \/ access' = [issued |-> now, seen |-> seen]
      /\ UNCHANGED <<active, invalid_before, reset_link, refresh, purges, forked, now>>
  BY DEF SignAccessToken, Step, account
<1>2. r.lineage.seen \in Seen \cup {None} /\ Knows(r)
  BY <1>1, SessionFields DEF SessionsSound, Lineage
<1>3. seen \in Seen \cup {None} /\ (seen # None => ~Purging /\ seen = purges)
  BY <1>1, <1>2 DEF Inherit, Knows
<1>4. Idle \in SessionState /\ Idle.op = "idle"
  BY DEF SessionState, Idle
<1>5. /\ session' \in [Sessions -> SessionState]
      /\ \A q \in Sessions : session'[q] = IF q = s THEN Idle ELSE session[q]
  BY <1>1, <1>4, SessionSet
<1>6. CASE access' = access
  <2>1. Knows(Idle)
    BY <1>4 DEF Knows
  <2> QED BY <1>1, <1>4, <1>6, <2>1, RequestMoves DEF account
<1>7. CASE access' = [issued |-> now, seen |-> seen]
  <2>1. access'.issued = now /\ access'.seen = seen /\ access' \in AccessToken
    BY <1>3, <1>7 DEF AccessToken, TypeOK
  <2>2. TypeOK'
    BY <1>1, <1>5, <2>1 DEF TypeOK
  <2>3. RowsSound' /\ PurgeEndsRefresh' /\ OneLivePerLogin'
    BY <1>1 DEF RowsSound, PurgeEndsRefresh, OneLivePerLogin, Exists, Live
  <2>4. CountSound'
    <3>1. Cardinality(Purgers') <= Cardinality(Purgers)
          /\ Cardinality(Purgers') \in Nat /\ Cardinality(Purgers) \in Nat
      BY <1>1, <1>4, PurgersGrow, PurgersFinite
    <3> QED BY <1>1, <3>1, CountsTyped DEF CountSound
  <2>5. AccessSound'
    <3>1. now <= now
      BY DEF TypeOK, Times
    <3> QED BY <1>1, <1>3, <2>1, <3>1 DEF AccessSound
  <2>6. SessionsSound'
    <3> SUFFICES ASSUME NEW q \in Sessions, NEW k \in SessionState, k = session'[q]
                 PROVE  Knows(k)'
      BY <1>5, RequestsKnown
    <3>1. CASE q = s
      BY <1>4, <1>5, <3>1 DEF Knows
    <3>2. CASE q # s
      <4>1. k = session[q] /\ Knows(k)
        BY <1>5, <3>2 DEF SessionsSound
      <4>2. k.op = "purge" => seen = None
        BY <1>3, <4>1 DEF Purging
      <4>3. UNCHANGED <<Exists(k.token), Origin(k.token)>>
        BY <1>1 DEF Exists, Origin
      <4>4. \A u : UNCHANGED <<Exists(u), Live(u), Origin(u)>>
        BY <1>1 DEF Exists, Live, Origin
      <4> QED BY <1>1, <2>1, <4>1, <4>2, <4>3, <4>4 DEF Knows
    <3> QED BY <3>1, <3>2
  <2> QED BY <2>2, <2>3, <2>4, <2>5, <2>6
<1> QED BY <1>1, <1>6, <1>7

LEMMA AccountMoves ==
    ASSUME IInv, active' \in BOOLEAN, active => active', reset_link' \in BOOLEAN,
           now' \in Times, now <= now',
           UNCHANGED <<invalid_before, refresh, access, session, purges, forked>>
    PROVE  IInv'
<1> USE DEF IInv
<1>1. TypeOK'
  BY DEF TypeOK
<1>2. RowsSound' /\ CountSound' /\ OneLivePerLogin'
  BY DEF RowsSound, CountSound, OneLivePerLogin, Exists, Live, Purgers
<1>3. PurgeEndsRefresh'
  BY DEF PurgeEndsRefresh, Live
<1>4. AccessSound'
  <2>1. access # None => access.issued \in Times
    BY DEF TypeOK, AccessToken
  <2>2. access # None => access.issued <= now'
    BY <2>1 DEF AccessSound, TypeOK, Times
  <2> QED BY <2>2 DEF AccessSound
<1>5. SessionsSound'
  <2> SUFFICES ASSUME NEW q \in Sessions, NEW k \in SessionState, k = session'[q]
               PROVE  Knows(k)'
    BY <1>1, RequestsKnown DEF TypeOK
  <2>1. Knows(k)
    BY DEF SessionsSound
  <2> QED BY <2>1 DEF Knows, Exists, Live, Origin
<1> QED BY <1>1, <1>2, <1>3, <1>4, <1>5

LEMMA CommitPurgePreserves ==
    ASSUME IInv, NEW s \in Sessions, CommitPurge(s)
    PROVE  IInv'
<1> USE DEF IInv
<1> PICK r \in SessionState : r = session[s]
  BY DEF TypeOK
<1>1. /\ r.op = "purge" /\ session' = [session EXCEPT ![s] = Idle]
      /\ UNCHANGED <<access, forked, now>>
      /\ invalid_before' = (IF r.kind = "deactivate" THEN invalid_before ELSE r.at)
      /\ active' = (active /\ ~r.moves)
      /\ reset_link' = (reset_link /\ r.kind # "reset")
      /\ purges' = [all |-> purges.all + 1,
                     cutoff |-> purges.cutoff
                                  + IF r.kind = "deactivate" THEN 0 ELSE 1]
  BY DEF CommitPurge, Step, Cutoff
<1>2. /\ r.kind \in Kinds /\ r.victims \subseteq Tokens
      /\ r.at \in Times /\ r.moves \in BOOLEAN /\ Knows(r)
  BY <1>1, SessionFields DEF SessionsSound
<1>3. refresh' = [t \in Tokens |-> IF t \in r.victims
                    THEN [refresh[t] EXCEPT !.revoked = TRUE] ELSE refresh[t]]
  BY DEF CommitPurge
<1>4. \A t \in r.victims : /\ refresh'[t] \in RefreshRow /\ refresh'[t].revoked
                           /\ refresh'[t].lineage = refresh[t].lineage
  <2> SUFFICES ASSUME NEW t \in r.victims
               PROVE  /\ refresh'[t] \in RefreshRow /\ refresh'[t].revoked
                      /\ refresh'[t].lineage = refresh[t].lineage
    OBVIOUS
  <2>1. t \in Tokens /\ refresh[t] \in RefreshRow
    BY <1>1, <1>2, RowFields DEF Knows
  <2>2. refresh'[t] = [refresh[t] EXCEPT !.revoked = TRUE]
    BY <1>3, <2>1
  <2> QED BY <2>1, <2>2 DEF RefreshRow
<1>5. /\ refresh' \in [Tokens -> RefreshRow \cup {None}]
      /\ \A t \in Tokens \ r.victims : refresh'[t] = refresh[t]
  <2>1. \A t \in Tokens : refresh'[t] \in RefreshRow \cup {None}
    BY <1>3, <1>4 DEF TypeOK
  <2> QED BY <1>3, <2>1
<1>6. \A u \in Tokens :
        /\ Exists(u)' <=> Exists(u)
        /\ Exists(u) => refresh'[u].lineage = refresh[u].lineage
        /\ Live(u)' => Live(u) /\ Exists(u) /\ u \notin r.victims
  <2> SUFFICES ASSUME NEW u \in Tokens
               PROVE  /\ Exists(u)' <=> Exists(u)
                      /\ Exists(u) => refresh'[u].lineage = refresh[u].lineage
                      /\ Live(u)' => Live(u) /\ Exists(u) /\ u \notin r.victims
    OBVIOUS
  <2>1. CASE u \in r.victims
    BY <1>1, <1>2, <1>4, <2>1, NoneAssumption DEF Knows, Exists, Live
  <2>2. CASE u \notin r.victims
    BY <1>5, <2>2 DEF Exists, Live
  <2> QED BY <2>1, <2>2
<1>7. Idle \in SessionState /\ Idle.op = "idle"
  BY DEF SessionState, Idle
<1>8. /\ session' \in [Sessions -> SessionState]
      /\ \A q \in Sessions : session'[q] = IF q = s THEN Idle ELSE session[q]
  BY <1>1, <1>7, SessionSet
<1>9. /\ Cardinality(Purgers') = Cardinality(Purgers) - 1
      /\ Cardinality(Purgers') \in Nat /\ Cardinality(Purgers) \in Nat
  BY <1>1, <1>7, PurgersGrow, PurgersFinite
<1>10. /\ purges'.all = purges.all + 1
       /\ purges'.cutoff = purges.cutoff + IF r.kind = "deactivate" THEN 0 ELSE 1
       /\ purges.all \in Nat /\ purges.cutoff \in Nat
  BY <1>1, CountsTyped
<1>11. CountSound'
  BY <1>9, <1>10, CountsTyped DEF CountSound
<1>12. purges' \in Seen
  <2>1. purges'.all \in 0..MaxPurges /\ purges'.cutoff \in 0..MaxPurges
    BY <1>9, <1>10, <1>11, CountsTyped DEF CountSound
  <2> QED BY <1>1, <2>1 DEF Seen
<1>13. TypeOK'
  BY <1>1, <1>2, <1>5, <1>8, <1>12 DEF TypeOK
<1>14. RowsSound'
  <2> SUFFICES ASSUME NEW u \in Tokens, Exists(u)' PROVE Exists(refresh[u].lineage.login)'
    BY DEF RowsSound
  <2>1. Exists(u) /\ refresh'[u].lineage.login = refresh[u].lineage.login
    BY <1>6
  <2>2. refresh[u].lineage.login \in Tokens /\ Exists(refresh[u].lineage.login)
    BY <2>1, RowFields DEF RowsSound
  <2>3. refresh'[refresh[u].lineage.login] # None
    BY <1>6, <2>2 DEF Exists
  <2> QED BY <2>1, <2>3 DEF Exists
<1>15. AccessSound'
  <2> SUFFICES ASSUME access # None
               PROVE  /\ access.issued <= now
                      /\ access.seen # None =>
                           \/ access.seen.cutoff = purges'.cutoff
                           \/ invalid_before' # None /\ access.issued <= invalid_before'
    BY <1>1 DEF AccessSound
  <2>1. CASE r.kind = "deactivate"
    BY <1>1, <1>10, <2>1 DEF AccessSound
  <2>2. CASE r.kind # "deactivate"
    BY <1>1, <1>2, <2>2, NoneAssumption DEF AccessSound, Knows
  <2> QED BY <2>1, <2>2
<1>16. PurgeEndsRefresh'
  <2> SUFFICES ASSUME NEW u \in Tokens, Live(u)', refresh'[u].lineage.seen # None
               PROVE  FALSE
    BY DEF PurgeEndsRefresh
  <2>1. Live(u) /\ u \notin r.victims /\ Origin(u) # None
    BY <1>6 DEF Origin
  <2> QED BY <1>1, <1>2, <2>1 DEF Knows
<1>17. OneLivePerLogin'
  BY <1>1, <1>6 DEF OneLivePerLogin
<1>18. SessionsSound'
  <2> SUFFICES ASSUME NEW q \in Sessions, NEW k \in SessionState, k = session'[q]
               PROVE  Knows(k)'
    BY <1>8, RequestsKnown
  <2>1. CASE q = s
    BY <1>7, <1>8, <2>1 DEF Knows
  <2>2. CASE q # s
    <3>1. k = session[q] /\ Knows(k)
      BY <1>8, <2>2 DEF SessionsSound
    <3>2. /\ k.op \in {"login", "refresh", "sign"} =>
               k.seen.all <= purges'.all /\ k.seen # purges'
      <4> SUFFICES ASSUME k.op \in {"login", "refresh", "sign"}
                   PROVE  k.seen.all <= purges'.all /\ k.seen # purges'
        OBVIOUS
      <4>1. k.seen.all <= purges.all
        BY <3>1 DEF Knows
      <4>2. k.seen \in Seen
        BY SessionFields
      <4>3. k.seen.all \in Int
        BY <4>2 DEF Seen
      <4>4. k.seen.all <= purges'.all /\ k.seen.all # purges'.all
        BY <1>10, <4>1, <4>3
      <4> QED BY <4>4
    <3>3. k.op = "refresh" => k.token \in Tokens /\ Exists(k.token)'
      BY <1>6, <3>1, SessionFields DEF Knows
    <3>4. k.op = "purge" => k.victims \subseteq Tokens
      BY SessionFields
    <3>5. \A u \in Tokens : Live(u)' /\ Origin(u)' # None => Live(u) /\ Origin(u) # None
      BY <1>6 DEF Origin
    <3> QED BY <1>1, <1>6, <3>1, <3>2, <3>3, <3>4, <3>5 DEF Knows
  <2> QED BY <2>1, <2>2
<1> QED BY <1>11, <1>13, <1>14, <1>15, <1>16, <1>17, <1>18

-----------------------------------------------------------------------------
LEMMA InitEstablishes == Init => IInv
<1> SUFFICES ASSUME Init PROVE IInv
  OBVIOUS
<1>1. Idle \in SessionState /\ Idle.op = "idle"
  BY DEF SessionState, Idle
<1>2. TypeOK
  <2>1. 0 \in Times /\ 0 \in 0..MaxPurges
    BY BoundsAssumption DEF Times
  <2>2. purges \in Seen
    BY <2>1 DEF Init, Seen
  <2>3. refresh \in [Tokens -> RefreshRow \cup {None}] /\ access \in AccessToken \cup {None}
    BY DEF Init
  <2> QED BY <1>1, <2>1, <2>2, <2>3 DEF Init, TypeOK
<1>3. \A t \in Tokens : ~Exists(t) /\ ~Live(t)
  BY DEF Init, Exists, Live
<1>4. RowsSound /\ PurgeEndsRefresh /\ OneLivePerLogin /\ AccessSound
  BY <1>3 DEF Init, RowsSound, PurgeEndsRefresh, OneLivePerLogin, AccessSound
<1>5. CountSound
  <2>1. Purgers = {}
    BY <1>1 DEF Init, Purgers
  <2>2. Cardinality(Purgers) = 0
    BY <2>1, FS_EmptySet
  <2> QED BY <2>2, BoundsAssumption DEF Init, CountSound
<1>6. SessionsSound
  BY <1>1 DEF Init, SessionsSound, Knows
<1> QED BY <1>2, <1>4, <1>5, <1>6 DEF IInv

LEMMA StepPreserves == IInv /\ [Next]_vars => IInv'
<1> SUFFICES ASSUME IInv, [Next]_vars PROVE IInv'
  OBVIOUS
<1>1. CASE UNCHANGED vars
  BY <1>1 DEF vars, IInv, TypeOK, RowsSound, CountSound, SessionsSound, AccessSound,
     PurgeEndsRefresh, OneLivePerLogin, Knows, Exists, Origin, Live, Purgers
<1>2. ASSUME NEW s \in Sessions, ReadForLogin(s) PROVE IInv'
  BY <1>2, ReadForLoginPreserves
<1>3. ASSUME NEW s \in Sessions, NEW t \in Tokens, CommitLogin(s, t) PROVE IInv'
  BY <1>3, CommitLoginPreserves
<1>4. ASSUME NEW s \in Sessions, NEW t \in Tokens, ReadForRefresh(s, t) PROVE IInv'
  BY <1>4, ReadForRefreshPreserves
<1>5. ASSUME NEW s \in Sessions, NEW t \in Tokens, CommitRefresh(s, t) PROVE IInv'
  BY <1>5, CommitRefreshPreserves
<1>6. ASSUME NEW s \in Sessions, SignAccessToken(s) PROVE IInv'
  BY <1>6, SignAccessTokenPreserves
<1>7. ASSUME NEW s \in Sessions, ForceLogout(s) PROVE IInv'
  BY <1>7, PurgeBegins DEF ForceLogout, Take, Kinds
<1>8. ASSUME NEW s \in Sessions, Deactivate(s) PROVE IInv'
  BY <1>8, PurgeBegins DEF Deactivate, Take, Kinds
<1>9. ASSUME NEW s \in Sessions, ReadForReset(s) PROVE IInv'
  BY <1>9, RequestEnds DEF ReadForReset, Take
<1>10. ASSUME NEW s \in Sessions, ResetPassword(s) PROVE IInv'
  BY <1>10, PurgeBegins DEF ResetPassword, Step, Kinds
<1>11. ASSUME NEW s \in Sessions, CommitPurge(s) PROVE IInv'
  BY <1>11, CommitPurgePreserves
<1>12. ASSUME NEW s \in Sessions, Abort(s) PROVE IInv'
  BY <1>12, RequestEnds DEF Abort, Step
<1>13. ASSUME NEW t \in Tokens, Logout(t) PROVE IInv'
  BY <1>13, LogoutPreserves
<1>14. CASE Reactivate
  BY <1>14, AccountMoves DEF Reactivate, IInv, TypeOK, Times
<1>15. CASE RequestReset
  BY <1>15, AccountMoves DEF RequestReset, IInv, TypeOK, Times
<1>16. CASE Tick
  BY <1>16, AccountMoves, BoundsAssumption DEF Tick, account, IInv, TypeOK, Times
<1> QED BY <1>1, <1>2, <1>3, <1>4, <1>5, <1>6, <1>7, <1>8, <1>9, <1>10, <1>11,
           <1>12, <1>13, <1>14, <1>15, <1>16 DEF Next

LEMMA Invariant == Spec => []IInv
BY InitEstablishes, StepPreserves, PTL DEF Spec

-----------------------------------------------------------------------------
\* Every variable, and every request in flight, keeps its type; the purges
\* are never more than the bound.
THEOREM TypeCorrect == Spec => []TypeOK
<1>1. IInv => TypeOK
  BY DEF IInv
<1> QED BY <1>1, Invariant, PTL

\* A forced logout, a password reset or a deactivation leaves no refresh token
\* from before valid, but those of logins and refreshes that overlapped it,
\* however many purges and requests overlap (revoke_all_for_actor).
THEOREM PurgesEndRefreshTokens == Spec => []PurgeEndsRefresh
<1>1. IInv => PurgeEndsRefresh
  BY DEF IInv
<1> QED BY <1>1, Invariant, PTL

\* Nor is an access token from before a forced logout or a password reset
\* accepted, although overlapping purges may move the cutoff back
\* (get_current_user, tokens_invalid_before).
THEOREM PurgesEndAccessTokens == Spec => []PurgeEndsAccess
<1>1. IInv => PurgeEndsAccess
  <2> SUFFICES ASSUME IInv, access # None, Accepts(access), access.seen # None
               PROVE  access.seen.cutoff = purges.cutoff
    BY DEF PurgeEndsAccess
  <2>1. access.issued \in Times /\ invalid_before \in Times \cup {None}
    BY DEF IInv, TypeOK, AccessToken
  <2>2. CASE invalid_before # None
    <3>1. ~(access.issued <= invalid_before)
      BY <2>1, <2>2 DEF Accepts, Times
    <3> QED BY <3>1 DEF IInv, AccessSound
  <2>3. CASE invalid_before = None
    BY <2>3 DEF IInv, AccessSound
  <2> QED BY <2>2, <2>3
<1> QED BY <1>1, Invariant, PTL

\* A login whose tokens were never presented twice before the first refresh
\* committed has one valid refresh token at most (refresh_staff_token).
THEOREM RotationLeavesOne == Spec => []OneLivePerLogin
<1>1. IInv => OneLivePerLogin
  BY DEF IInv
<1> QED BY <1>1, Invariant, PTL

=============================================================================
