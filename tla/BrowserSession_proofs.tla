------------------------ MODULE BrowserSession_proofs ------------------------
(***************************************************************************)
(* What the runs check of the browser's session for two tabs and two pairs *)
(* of tokens, proved for any tabs, calls, loads and number of pairs.       *)
(***************************************************************************)
EXTENDS BrowserSession, SequenceTheorems, TLAPS

(* A refresh in flight: the token presented and the pair received, or 0.   *)
Held(t) == tab[t].refresh.token
Got(t) == tab[t].refresh.got
Phase(t) == tab[t].refresh.phase

(* A call that is retried, and the token it is retried with.               *)
Resent(t, c) == calls[t][c].phase = "resent"
Retried(t, c) == calls[t][c].token

(* A sign-in whose tokens are in flight, in a refresh or in a retry.       *)
InFlight(login) ==
  \/ \E t \in Tabs : Held(t) # 0 /\ tokens[Held(t)].login = login
  \/ \E t \in Tabs, c \in Calls : Resent(t, c) /\ tokens[Retried(t, c)].login = login

Stored(login) == store.refresh # 0 /\ tokens[store.refresh].login = login

(* A sign-in of which nothing is promised any more.  It stays so.          *)
Moot(login) == login \in troubled \/ ~SessionLive(login)

-----------------------------------------------------------------------------
(* Tokens that are mentioned were issued, and by which sign-in is known.   *)
IdsSound ==
  /\ store.access \in Issued \cup {0}
  /\ store.refresh \in Issued \cup {0}
  /\ \A t \in Tabs : /\ Held(t) \in Issued \cup {0}
                     /\ Got(t) \in Issued \cup {0}
                     /\ Held(t) # 0 <=> Phase(t) # "none"
                     /\ Got(t) # 0 => Phase(t) = "answered"
  /\ \A t \in Tabs, c \in Calls : Resent(t, c) => Retried(t, c) \in Issued
  /\ \A n \in Issued : tokens[n].login \in Issued
  /\ left \subseteq Issued

(* What a refresh receives replaces what it presented.                     *)
GotSound ==
  /\ \A t \in Tabs : Got(t) # 0 =>
       /\ tokens[Got(t)].kind = "staff"
       /\ tokens[Got(t)].login = tokens[Held(t)].login
       /\ tokens[Got(t)].fresh \/ Moot(tokens[Got(t)].login)
       /\ ~tokens[Held(t)].live
       /\ Got(t) # store.refresh
       /\ \A u \in Tabs \ {t} : Got(u) # Got(t)
  /\ \A t \in Tabs, c \in Calls : Resent(t, c) =>
       /\ tokens[Retried(t, c)].kind = "staff"
       /\ tokens[Retried(t, c)].fresh \/ Moot(tokens[Retried(t, c)].login)

(* A token in the storage that was presented is being presented now.       *)
PresentedSound ==
  \A t \in Tabs :
    /\ \A n \in Tokens : n > Len(tokens) => presented[t][n] = 0
    /\ Held(t) # 0 => presented[t][Held(t)] >= 1
    /\ store.refresh # 0 /\ presented[t][store.refresh] >= 1 => Held(t) = store.refresh
    /\ \A u \in Tabs : Got(u) # 0 => presented[t][Got(u)] = 0

(* One sign-in at a time, unless one overtook the other.                   *)
OneSession ==
  \A l1, l2 \in Issued :
    InFlight(l1) /\ (InFlight(l2) \/ Stored(l2)) => l1 = l2 \/ (Moot(l1) /\ Moot(l2))

(* A refresh is for the token in the storage, and it goes well.            *)
RefreshSound ==
  \A t \in Tabs :
    Held(t) # 0 /\ ~Moot(tokens[Held(t)].login) =>
      /\ store.refresh = Held(t)
      /\ \A u \in Tabs \ {t} : Held(u) # Held(t)
      /\ IF Got(t) = 0
         THEN Phase(t) = "sent" /\ tokens[Held(t)].live
         ELSE tokens[Got(t)].live

(* Only the stored token is live, or the one that will replace it.         *)
StoredSound ==
  store.refresh # 0 /\ ~Moot(tokens[store.refresh].login) =>
    /\ store.kind = "staff"
    /\ tokens[store.refresh].live \/ \E t \in Tabs : Held(t) = store.refresh
    /\ \A n \in Issued :
         tokens[n].live /\ tokens[n].login = tokens[store.refresh].login =>
           n = store.refresh \/ \E t \in Tabs : Held(t) = store.refresh /\ Got(t) = n

KindSound ==
  \A t \in Tabs : Held(t) # 0 /\ tokens[Held(t)].login \notin troubled => store.kind # "owner"

RevokingSound == \A n \in revoking : n # store.refresh /\ \A t \in Tabs : Got(t) # n

LeftSound ==
  \A login \in left \ troubled :
    /\ ~Stored(login)
    /\ \A t \in Tabs : Held(t) # 0 => tokens[Held(t)].login # login
    /\ \A n \in Issued : tokens[n].login = login /\ tokens[n].live => n \in revoking

Sound ==
  /\ IdsSound /\ GotSound /\ PresentedSound /\ PresentedOnce
  /\ OneSession /\ RefreshSound /\ StoredSound
  /\ KindSound /\ StoreFits /\ RevokingSound /\ LeftSound

IInv == TypeOK /\ Sound

-----------------------------------------------------------------------------
LEMMA TokensTyped ==
    ASSUME TypeOK
    PROVE  /\ Len(tokens) \in 0 .. MaxTokens
           /\ Issued = 1 .. Len(tokens)
           /\ 0 \notin Issued
           /\ Issued \subseteq Tokens
           /\ \A n \in Issued : tokens[n] \in TokenRow
<1>1. tokens \in Seq(TokenRow) /\ Len(tokens) <= MaxTokens
  BY DEF TypeOK
<1>2. Len(tokens) \in Nat /\ DOMAIN tokens = 1 .. Len(tokens)
  BY <1>1, LenProperties
<1>3. \A n \in 1 .. Len(tokens) : tokens[n] \in TokenRow
  BY <1>1, ElementOfSeq
<1>4. 1 .. Len(tokens) \subseteq 1 .. MaxTokens /\ 0 \notin 1 .. Len(tokens)
  BY <1>1, <1>2, BoundsAssumption
<1> QED BY <1>1, <1>2, <1>3, <1>4, BoundsAssumption DEF Issued, Tokens

LEMMA LoginOfIssued == ASSUME NEW n \in Issued PROVE LoginOf(n) = {tokens[n].login}
BY DEF LoginOf

LEMMA LoginOfOther == ASSUME NEW n, n \notin Issued PROVE LoginOf(n) = {}
BY DEF LoginOf

(* What a logout or a sign-in overtakes is what is in flight.              *)
LEMMA OverlappedIsInFlight ==
    ASSUME TypeOK, IdsSound, NEW login
    PROVE  login \in Overlapped <=> InFlight(login)
<1>1. ASSUME NEW t \in Tabs, Held(t) # 0
      PROVE  Held(t) \in Issued /\ Refreshing(t) /\ LoginOf(Held(t)) = {tokens[Held(t)].login}
  <2>1. Held(t) \in Issued /\ Phase(t) # "none"
    BY <1>1 DEF IdsSound
  <2> QED BY <2>1, LoginOfIssued DEF Refreshing, Phase
<1>2. ASSUME NEW t \in Tabs, Refreshing(t) PROVE Held(t) # 0
  BY <1>2 DEF IdsSound, Refreshing, Phase
<1>3. ASSUME NEW t \in Tabs, NEW c \in Calls, Resent(t, c)
      PROVE  LoginOf(Retried(t, c)) = {tokens[Retried(t, c)].login}
  BY <1>3, LoginOfIssued DEF IdsSound
<1>4. ASSUME NEW n \in Issued PROVE tokens[n].login \in Tokens
  BY TokensTyped DEF TokenRow
<1>5. ASSUME InFlight(login) PROVE login \in Overlapped
  <2>1. CASE \E t \in Tabs : Held(t) # 0 /\ tokens[Held(t)].login = login
    <3> PICK t \in Tabs : Held(t) # 0 /\ tokens[Held(t)].login = login
      BY <2>1
    <3>1. login \in Tokens /\ Refreshing(t) /\ login \in LoginOf(tab[t].refresh.token)
      BY <1>1, <1>4 DEF Held
    <3> QED BY <3>1 DEF Overlapped
  <2>2. CASE \E t \in Tabs, c \in Calls : Resent(t, c) /\ tokens[Retried(t, c)].login = login
    <3> PICK t \in Tabs, c \in Calls : Resent(t, c) /\ tokens[Retried(t, c)].login = login
      BY <2>2
    <3>1. login \in Tokens /\ login \in LoginOf(calls[t][c].token)
      BY <1>3, <1>4 DEF Retried, IdsSound
    <3> QED BY <3>1 DEF Overlapped, Resent
  <2> QED BY <1>5, <2>1, <2>2 DEF InFlight
<1>6. ASSUME login \in Overlapped PROVE InFlight(login)
  <2>1. CASE \E t \in Tabs : Refreshing(t) /\ login \in LoginOf(Held(t))
    <3> PICK t \in Tabs : Refreshing(t) /\ login \in LoginOf(Held(t))
      BY <2>1
    <3>1. Held(t) # 0 /\ tokens[Held(t)].login = login
      BY <1>1, <1>2
    <3> QED BY <3>1 DEF InFlight
  <2>2. CASE \E t \in Tabs, c \in Calls : Resent(t, c) /\ login \in LoginOf(Retried(t, c))
    <3> PICK t \in Tabs, c \in Calls : Resent(t, c) /\ login \in LoginOf(Retried(t, c))
      BY <2>2
    <3>1. tokens[Retried(t, c)].login = login
      BY <1>3
    <3> QED BY <3>1 DEF InFlight
  <2> QED BY <1>6, <2>1, <2>2 DEF Overlapped, Held, Resent, Retried
<1> QED BY <1>5, <1>6

-----------------------------------------------------------------------------
(* Steps that do nothing to the tokens, the storage and the refreshes.     *)
LEMMA QuietStep ==
    ASSUME Sound, troubled \subseteq troubled', revoking' \subseteq revoking,
           UNCHANGED <<tokens, store, presented, left>>,
           \A t \in Tabs : Held(t)' = Held(t) /\ Got(t)' = Got(t) /\ Phase(t)' = Phase(t),
           \A t \in Tabs, c \in Calls :
             Resent(t, c)' => Resent(t, c) /\ Retried(t, c)' = Retried(t, c),
           \A n \in revoking \ revoking' : n \in Issued /\ tokens[n].login \in troubled'
    PROVE  Sound'
<1> USE DEF Sound
<1>1. ASSUME NEW login, Moot(login) PROVE Moot(login)'
  BY <1>1 DEF Moot, SessionLive, Issued
<1>2. ASSUME NEW login, InFlight(login)' PROVE InFlight(login)
  BY <1>2 DEF InFlight
<1>3. Issued' = Issued /\ \A login : Stored(login)' <=> Stored(login)
  BY DEF Issued, Stored
<1>4. IdsSound'
  BY <1>3 DEF IdsSound
<1>5. GotSound'
  BY <1>1 DEF GotSound
<1>6. PresentedSound' /\ PresentedOnce'
  BY DEF PresentedSound, PresentedOnce
<1>7. OneSession'
  BY <1>1, <1>2, <1>3 DEF OneSession
<1>8. RefreshSound'
  BY <1>1 DEF RefreshSound
<1>9. StoredSound'
  BY <1>1, <1>3 DEF StoredSound
<1>10. KindSound' /\ StoreFits'
  BY DEF KindSound, StoreFits, RestoredKind, LoginOf, Issued
<1>11. RevokingSound'
  BY DEF RevokingSound
<1>12. LeftSound'
  BY <1>3 DEF LeftSound
<1> QED BY <1>4, <1>5, <1>6, <1>7, <1>8, <1>9, <1>10, <1>11, <1>12

(* Steps that clear the storage: of a session that is moot, or at its      *)
(* user's wish, with what was in flight given up and the token revoked.    *)
LEMMA ClearingStep ==
    ASSUME TypeOK, Sound, troubled \subseteq troubled',
           UNCHANGED <<tokens, presented>>, store' = Empty,
           revoking' \in {revoking, revoking \cup Revocation},
           \A t \in Tabs : \/ Held(t)' = Held(t) /\ Got(t)' = Got(t) /\ Phase(t)' = Phase(t)
                           \/ Held(t)' = 0 /\ Got(t)' = 0 /\ Phase(t)' = "none",
           \A t \in Tabs, c \in Calls :
             Resent(t, c)' => Resent(t, c) /\ Retried(t, c)' = Retried(t, c),
           \/ left' = left /\ \A login \in Issued : Stored(login) => Moot(login)'
           \/ /\ left' = left \cup LoginOf(store.refresh)
              /\ Overlapped \subseteq troubled'
              /\ revoking' = revoking \cup Revocation
    PROVE  Sound'
<1> USE DEF Sound
<1>1. ASSUME NEW login, Moot(login) PROVE Moot(login)'
  BY <1>1 DEF Moot, SessionLive, Issued
<1>2. ASSUME NEW login, InFlight(login)' PROVE InFlight(login)
  BY <1>2 DEF InFlight
<1>3. /\ Issued' = Issued /\ store'.refresh = 0 /\ store'.access = 0 /\ store'.kind = "none"
      /\ \A login : ~Stored(login)'
  BY DEF Issued, Stored, Empty
<1>4. IdsSound'
  <2>1. left' \subseteq Issued
    BY LoginOfIssued, LoginOfOther DEF IdsSound
  <2> QED BY <1>3, <2>1 DEF IdsSound
<1>5. GotSound'
  <2>1. \A t \in Tabs : Got(t)' # 0 => Got(t)' = Got(t) /\ Held(t)' = Held(t)
    OBVIOUS
  <2>2. \A t \in Tabs : \A u \in Tabs \ {t} : Got(t)' # 0 => Got(u)' # Got(t)'
    BY <2>1 DEF GotSound
  <2> QED BY <1>1, <1>3, <2>1, <2>2 DEF GotSound
<1>6. PresentedSound' /\ PresentedOnce'
  BY <1>3 DEF PresentedSound, PresentedOnce
<1>7. OneSession'
  BY <1>1, <1>2, <1>3 DEF OneSession
<1>8. RefreshSound'
  \* A refresh that goes on when its session is cleared is moot.
  <2> SUFFICES ASSUME NEW t \in Tabs, Held(t)' # 0, ~Moot(tokens[Held(t)].login)'
               PROVE  FALSE
    BY DEF RefreshSound
  <2>1. Held(t) # 0 /\ Held(t) \in Issued /\ Held(t)' = Held(t)
    BY DEF IdsSound
  <2>2. store.refresh = Held(t)
    BY <1>1, <2>1 DEF RefreshSound
  <2>3. InFlight(tokens[Held(t)].login)
    BY <2>1 DEF InFlight
  <2>4. tokens[Held(t)].login \in Overlapped
    BY <2>3, OverlappedIsInFlight
  <2>5. tokens[Held(t)].login \in Issued /\ Stored(tokens[Held(t)].login)
    BY <2>1, <2>2 DEF Stored, IdsSound
  <2>6. ~Moot(tokens[Held(t)].login)'
    BY <2>1
  <2> DEFINE login == tokens[Held(t)].login
  <2>7. ASSUME NEW l \in Issued, l = login PROVE ~Moot(l)'
    BY <2>1, <2>7
  <2> QED BY <2>1, <2>4, <2>5, <2>7 DEF Moot
<1>9. StoredSound' /\ KindSound' /\ StoreFits'
  BY <1>3 DEF StoredSound, KindSound, StoreFits
<1>10. RevokingSound'
  <2>1. revoking' \subseteq revoking \cup ({store.refresh} \ {0}) /\ 0 \notin revoking
    BY TokensTyped DEF TypeOK, Revocation
  <2>2. ASSUME NEW n \in revoking', NEW t \in Tabs PROVE Got(t)' # n
    BY <2>1 DEF GotSound, RevokingSound
  <2> QED BY <1>3, <2>1, <2>2 DEF RevokingSound
<1>11. LeftSound'
  <2> SUFFICES ASSUME NEW login \in left' \ troubled'
               PROVE  /\ \A t \in Tabs : Held(t)' # 0 => tokens[Held(t)'].login # login
                      /\ \A n \in Issued : tokens[n].login = login /\ tokens[n].live
                                             => n \in revoking'
    BY <1>3 DEF LeftSound
  <2>1. CASE login \in left
    BY <2>1 DEF LeftSound
  <2>2. CASE login \notin left
    <3>1. /\ left' = left \cup LoginOf(store.refresh) /\ Overlapped \subseteq troubled'
          /\ revoking' = revoking \cup Revocation
      BY <2>2
    <3>2. store.refresh \in Issued /\ store.refresh # 0 /\ login = tokens[store.refresh].login
      BY <2>2, <3>1, LoginOfIssued, LoginOfOther, TokensTyped DEF IdsSound
    <3>3. ~InFlight(login)
      BY <3>1, OverlappedIsInFlight
    <3>4. \A t \in Tabs : Held(t) # 0 => tokens[Held(t)].login # login
      BY <3>3 DEF InFlight
    <3>5. ASSUME NEW n \in Issued, tokens[n].login = login, tokens[n].live
          PROVE  n \in revoking'
      <4>1. ~Moot(login)
        BY <3>5 DEF Moot, SessionLive
      <4>2. store.kind = "staff" /\ n = store.refresh
        BY <3>2, <3>4, <3>5, <4>1 DEF StoredSound
      <4> QED BY <3>1, <3>2, <4>2 DEF Revocation
    <3> QED BY <3>4, <3>5
  <2> QED BY <2>1, <2>2
<1> QED BY <1>4, <1>5, <1>6, <1>7, <1>8, <1>9, <1>10, <1>11

(* Steps of the server that end tokens.                                    *)
LEMMA EndingStep ==
    ASSUME TypeOK, Sound, Issued' = Issued, Len(tokens') = Len(tokens),
           UNCHANGED <<store, tab, calls, presented, left, troubled>>,
           \A n \in Issued : /\ tokens'[n].login = tokens[n].login
                             /\ tokens'[n].kind = tokens[n].kind
                             /\ tokens'[n].live => tokens[n].live,
           \A n \in Issued :
             tokens[n].live /\ ~tokens'[n].live =>
               n \in revoking \/ ~SessionLive(tokens[n].login)',
           \A n \in Issued :
             tokens[n].fresh /\ ~tokens'[n].fresh =>
               \/ ~SessionLive(tokens[n].login)'
               \/ /\ \A t \in Tabs : Got(t) # n
                  /\ \A t \in Tabs, c \in Calls : Resent(t, c) => Retried(t, c) # n,
           revoking' \subseteq revoking,
           \A n \in revoking \ revoking' : ~tokens'[n].live
    PROVE  Sound'
<1> USE DEF Sound
<1>1. ASSUME NEW login, Moot(login) PROVE Moot(login)'
  BY <1>1 DEF Moot, SessionLive
<1>2. /\ \A t \in Tabs : Held(t)' = Held(t) /\ Got(t)' = Got(t) /\ Phase(t)' = Phase(t)
      /\ \A t \in Tabs, c \in Calls :
           (Resent(t, c)' <=> Resent(t, c)) /\ Retried(t, c)' = Retried(t, c)
  BY DEF Held, Got, Phase, Resent, Retried
<1>3. /\ \A t \in Tabs : /\ Held(t) # 0 => Held(t) \in Issued
                         /\ Got(t) # 0 => Got(t) \in Issued /\ Held(t) # 0
      /\ \A t \in Tabs, c \in Calls : Resent(t, c) => Retried(t, c) \in Issued
      /\ store.refresh # 0 => store.refresh \in Issued
      /\ store.access # 0 => store.access \in Issued
  BY DEF IdsSound
<1>4. \A login : (InFlight(login)' <=> InFlight(login)) /\ (Stored(login)' <=> Stored(login))
  BY <1>2, <1>3 DEF InFlight, Stored
<1>5. IdsSound'
  BY <1>2 DEF IdsSound
<1>6. GotSound'
  BY <1>1, <1>2, <1>3 DEF GotSound, Moot
<1>7. PresentedSound' /\ PresentedOnce'
  BY <1>2 DEF PresentedSound, PresentedOnce
<1>8. OneSession'
  BY <1>1, <1>4 DEF OneSession
<1>9. RefreshSound'
  BY <1>1, <1>2, <1>3 DEF RefreshSound, RevokingSound, Moot, GotSound
<1>10. StoredSound'
  BY <1>1, <1>2, <1>3 DEF StoredSound, RevokingSound, Moot
<1>11. KindSound' /\ StoreFits'
  <2>1. \A n : LoginOf(n)' = LoginOf(n)
    BY DEF LoginOf
  <2> QED BY <1>2, <1>3, <2>1 DEF KindSound, StoreFits, RestoredKind
<1>12. RevokingSound'
  BY <1>2 DEF RevokingSound
<1>13. LeftSound'
  BY <1>2, <1>3, <1>4 DEF LeftSound
<1> QED BY <1>5, <1>6, <1>7, <1>8, <1>9, <1>10, <1>11, <1>12, <1>13

-----------------------------------------------------------------------------
(* What the steps of a call do to the calls and to the tab.                *)
LEMMA CallSet ==
    ASSUME TypeOK, NEW t \in Tabs, NEW c \in Calls, NEW r \in Call,
           calls' = [calls EXCEPT ![t][c] = r]
    PROVE  /\ calls' \in [Tabs -> [Calls -> Call]]
           /\ \A u \in Tabs, d \in Calls :
                calls'[u][d] = IF u = t /\ d = c THEN r ELSE calls[u][d]
<1>1. calls \in [Tabs -> [Calls -> Call]]
  BY DEF TypeOK
<1>2. calls[t] \in [Calls -> Call]
  BY <1>1
<1>3. [calls[t] EXCEPT ![c] = r] \in [Calls -> Call]
  BY <1>2
<1>4. calls' = [calls EXCEPT ![t] = [calls[t] EXCEPT ![c] = r]]
  BY <1>1
<1> HIDE DEF Call
<1> QED BY <1>1, <1>2, <1>3, <1>4

LEMMA CallsEnded ==
    ASSUME TypeOK, NEW t \in Tabs, NEW C, EndCalls(t, C)
    PROVE  /\ calls' \in [Tabs -> [Calls -> Call]]
           /\ \A u \in Tabs, d \in Calls :
                calls'[u][d] = IF u = t /\ d \in C THEN NoCall ELSE calls[u][d]
<1>1. calls \in [Tabs -> [Calls -> Call]]
  BY DEF TypeOK
<1>2. NoCall \in Call
  BY DEF NoCall, Call, Kinds
<1>3. [c \in Calls |-> IF c \in C THEN NoCall ELSE calls[t][c]] \in [Calls -> Call]
  BY <1>1, <1>2
<1>4. calls' = [calls EXCEPT ![t] =
                 [c \in Calls |-> IF c \in C THEN NoCall ELSE calls[t][c]]]
  BY <1>1 DEF EndCalls
<1> QED BY <1>1, <1>2, <1>3, <1>4

LEMMA TabSet ==
    ASSUME TypeOK, NEW t \in Tabs, NEW r \in TabState, tab' = [tab EXCEPT ![t] = r]
    PROVE  /\ tab' \in [Tabs -> TabState]
           /\ \A u \in Tabs : tab'[u] = IF u = t THEN r ELSE tab[u]
BY DEF TypeOK

LEMMA TabTyped ==
    ASSUME TypeOK, NEW t \in Tabs
    PROVE  /\ tab[t] \in TabState
           /\ tab[t].refresh \in Refresh
           /\ Held(t) \in Tokens \cup {0} /\ Got(t) \in Tokens \cup {0}
           /\ Phase(t) \in {"none", "sent", "answered"}
BY DEF TypeOK, TabState, Refresh, Held, Got, Phase

-----------------------------------------------------------------------------
LEMMA PageCallPreserves ==
    ASSUME IInv, NEW t \in Tabs, NEW c \in Calls, PageCall(t, c)
    PROVE  IInv'
<1> DEFINE r == [phase |-> "sent", token |-> store.access, as |-> tab[t].actor]
<1>1. r \in Call
  BY TabTyped DEF IInv, TypeOK, Call, PageCall, TabState
<1>2. calls' = [calls EXCEPT ![t][c] = r]
  BY DEF PageCall, Send
<1>3. /\ calls' \in [Tabs -> [Calls -> Call]]
      /\ \A u \in Tabs, d \in Calls :
           calls'[u][d] = IF u = t /\ d = c THEN r ELSE calls[u][d]
  BY <1>1, <1>2, CallSet DEF IInv
<1>4. UNCHANGED <<tokens, store, tab, revoking, presented, left, troubled>>
  BY DEF PageCall
<1>5. TypeOK'
  BY <1>3, <1>4 DEF IInv, TypeOK, Issued
<1>6. Sound'
  BY <1>3, <1>4, QuietStep DEF IInv, Held, Got, Phase, Resent, Retried
<1> QED BY <1>5, <1>6 DEF IInv

LEMMA AnsweredPreserves ==
    ASSUME IInv, NEW t \in Tabs, NEW c \in Calls, Answered(t, c)
    PROVE  IInv'
<1>1. /\ calls' \in [Tabs -> [Calls -> Call]]
      /\ \A u \in Tabs, d \in Calls :
           calls'[u][d] = IF u = t /\ d \in {c} THEN NoCall ELSE calls[u][d]
  BY CallsEnded DEF IInv, Answered
<1>2. PICK r \in TabState : r.refresh = tab[t].refresh /\ tab' = [tab EXCEPT ![t] = r]
  <2>1. calls[t][c].as \in Kinds
    BY DEF IInv, TypeOK, Call
  <2>2. /\ [tab[t] EXCEPT !.actor = calls[t][c].as, !.checking = FALSE] \in TabState
        /\ [tab[t] EXCEPT !.actor = "staff"] \in TabState
        /\ tab[t] \in TabState
    BY <2>1, TabTyped DEF IInv, TabState, Kinds
  <2>3. /\ [tab[t] EXCEPT !.actor = calls[t][c].as, !.checking = FALSE].refresh = tab[t].refresh
        /\ [tab[t] EXCEPT !.actor = "staff"].refresh = tab[t].refresh
    BY <2>2 DEF TabState
  <2>4. tab \in [Tabs -> TabState]
    BY DEF IInv, TypeOK
  <2>5. \/ tab' = [tab EXCEPT ![t] = [tab[t] EXCEPT !.actor = calls[t][c].as, !.checking = FALSE]]
        \/ tab' = [tab EXCEPT ![t] = [tab[t] EXCEPT !.actor = "staff"]]
        \/ tab' = [tab EXCEPT ![t] = tab[t]]
    BY <2>4 DEF Answered
  <2> QED BY <2>2, <2>3, <2>5
<1>3. tab' \in [Tabs -> TabState] /\ \A u \in Tabs : tab'[u].refresh = tab[u].refresh
  BY <1>2, TabSet DEF IInv
<1>4. UNCHANGED <<tokens, store, revoking, presented, left, troubled>>
  BY DEF Answered
<1>5. TypeOK'
  BY <1>1, <1>3, <1>4 DEF IInv, TypeOK, Issued
<1>6. Sound'
  BY <1>1, <1>3, <1>4, QuietStep DEF IInv, Held, Got, Phase, Resent, Retried, NoCall
<1> QED BY <1>5, <1>6 DEF IInv

(* A call waits for the refresh.                                           *)
LEMMA WaitingCall ==
    ASSUME IInv, NEW t \in Tabs, NEW c \in Calls, Refused(t, c), WaitForRefresh(t, c)
    PROVE  /\ calls' \in [Tabs -> [Calls -> Call]]
           /\ \A u \in Tabs, d \in Calls :
                Resent(u, d)' => Resent(u, d) /\ Retried(u, d)' = Retried(u, d)
<1> DEFINE r == [calls[t][c] EXCEPT !.phase = "waiting"]
<1>1. calls \in [Tabs -> [Calls -> Call]] /\ calls[t][c] \in Call
  BY DEF IInv, TypeOK
<1>2. r \in Call /\ r.phase = "waiting"
  BY <1>1 DEF Call
<1>3. calls' = [calls EXCEPT ![t][c] = r]
  BY <1>1 DEF WaitForRefresh
<1>4. /\ calls' \in [Tabs -> [Calls -> Call]]
      /\ \A u \in Tabs, d \in Calls :
           calls'[u][d] = IF u = t /\ d = c THEN r ELSE calls[u][d]
  BY <1>2, <1>3, CallSet DEF IInv
<1> QED BY <1>2, <1>4 DEF Resent, Retried

LEMMA JoinRefreshPreserves ==
    ASSUME IInv, NEW t \in Tabs, NEW c \in Calls, JoinRefresh(t, c)
    PROVE  IInv'
<1>1. UNCHANGED <<tokens, store, tab, revoking, presented, left, troubled>>
  BY DEF JoinRefresh
<1>2. /\ calls' \in [Tabs -> [Calls -> Call]]
      /\ \A u \in Tabs, d \in Calls :
           Resent(u, d)' => Resent(u, d) /\ Retried(u, d)' = Retried(u, d)
  BY WaitingCall DEF JoinRefresh
<1>3. TypeOK'
  BY <1>1, <1>2 DEF IInv, TypeOK, Issued
<1>4. Sound'
  BY <1>1, <1>2, QuietStep DEF IInv, Held, Got, Phase
<1> QED BY <1>3, <1>4 DEF IInv

LEMMA RevokeLostPreserves ==
    ASSUME IInv, NEW n \in Tokens, RevokeLost(n)
    PROVE  IInv'
<1>1. /\ UNCHANGED <<tokens, store, tab, calls, presented, left>>
      /\ n \in revoking /\ revoking' = revoking \ {n}
      /\ troubled' = troubled \cup LoginOf(n)
  BY DEF RevokeLost
<1>2. n \in Issued /\ LoginOf(n) = {tokens[n].login} /\ tokens[n].login \in Tokens
  BY <1>1, LoginOfIssued, TokensTyped DEF IInv, TypeOK, TokenRow
<1>3. TypeOK'
  BY <1>1, <1>2 DEF IInv, TypeOK, Issued
<1>4. Sound'
  BY <1>1, <1>2, QuietStep DEF IInv, Held, Got, Phase, Resent, Retried
<1> QED BY <1>3, <1>4 DEF IInv

-----------------------------------------------------------------------------
(* Whose session may be cleared: only one that is moot.                    *)
LEMMA UnauthorizedIsMoot ==
    ASSUME IInv, NEW t \in Tabs, NEW c \in Calls, Unauthorized(t, c),
           NEW login \in Issued, Stored(login)
    PROVE  login \in troubled' \/ ~SessionLive(login)
<1>1. store.refresh # 0 /\ store.kind # "staff" /\ troubled \subseteq troubled'
  BY DEF Unauthorized, CanRefresh, Stored
<1>2. Moot(login)
  BY <1>1 DEF IInv, Sound, StoredSound, Stored
<1> QED BY <1>1, <1>2 DEF Moot

LEMMA RefusedAgainIsMoot ==
    ASSUME IInv, NEW t \in Tabs, NEW c \in Calls, RefusedAgain(t, c),
           NEW login \in Issued, Stored(login)
    PROVE  login \in troubled' \/ ~SessionLive(login)
<1> DEFINE n == Retried(t, c)
<1>1. /\ Resent(t, c) /\ ~Accepts(calls[t][c])
      /\ troubled' = troubled \cup Mixed(t, {c})
  BY DEF RefusedAgain, Resent
<1>2. n \in Issued /\ tokens[n].kind = "staff" /\ (tokens[n].fresh \/ Moot(tokens[n].login))
  BY <1>1 DEF IInv, Sound, IdsSound, GotSound
<1>3. CASE calls[t][c].as = "staff"
  <2>1. Moot(tokens[n].login)
    BY <1>1, <1>2, <1>3 DEF Accepts, Retried
  <2>2. InFlight(tokens[n].login) /\ tokens[n].login \in Issued
    BY <1>1, <1>2 DEF InFlight, IInv, Sound, IdsSound
  <2>3. Moot(login)
    BY <2>1, <2>2 DEF IInv, Sound, OneSession
  <2> QED BY <1>1, <2>3 DEF Moot
<1>4. CASE calls[t][c].as = "owner" /\ store.kind = "owner"
  <2>1. Moot(login)
    BY <1>4 DEF IInv, Sound, StoredSound, Stored
  <2> QED BY <1>1, <2>1 DEF Moot
<1>5. CASE calls[t][c].as # store.kind
  <2>1. store.refresh \in Issued /\ tokens[store.refresh].login = login
    BY DEF IInv, Sound, IdsSound, Stored
  <2>2. login \in Mixed(t, {c})
    BY <1>5, <2>1, LoginOfIssued DEF Mixed
  <2> QED BY <1>1, <2>2
<1>6. calls[t][c].as \in {"staff", "owner"}
  BY DEF IInv, TypeOK, Call, Kinds
<1> QED BY <1>3, <1>4, <1>5, <1>6

LEMMA RefreshRefusedIsMoot ==
    ASSUME IInv, NEW t \in Tabs, RefreshRefused(t), NEW login \in Issued, Stored(login)
    PROVE  login \in troubled' \/ ~SessionLive(login)
<1>1. Phase(t) = "answered" /\ Got(t) = 0 /\ troubled \subseteq troubled'
  BY DEF RefreshRefused, Phase, Got
<1>2. Held(t) \in Issued /\ Held(t) # 0
  BY <1>1 DEF IInv, Sound, IdsSound
<1>3. Moot(tokens[Held(t)].login)
  BY <1>1, <1>2 DEF IInv, Sound, RefreshSound
<1>4. InFlight(tokens[Held(t)].login) /\ tokens[Held(t)].login \in Issued
  BY <1>2 DEF InFlight, IInv, Sound, IdsSound
<1>5. Moot(login)
  BY <1>3, <1>4 DEF IInv, Sound, OneSession
<1> QED BY <1>1, <1>5 DEF Moot

LEMMA LostRestoreIsMoot ==
    ASSUME IInv, NEW t \in Tabs, CallLost(t, "restore"), NEW login \in Issued, Stored(login)
    PROVE  login \in troubled'
<1>1. store.refresh \in Issued /\ tokens[store.refresh].login = login
  BY DEF IInv, Sound, IdsSound, Stored
<1> QED BY <1>1, LoginOfIssued DEF CallLost

-----------------------------------------------------------------------------
LEMMA LogoutSteps ==
    ASSUME IInv, NEW t \in Tabs, NEW C, NEW r \in TabState, HandleLogout(t, C, r)
    PROVE  /\ store' = Empty /\ revoking' = revoking \cup Revocation
           /\ revoking' \subseteq Issued
           /\ tab' \in [Tabs -> TabState]
           /\ \A u \in Tabs :
                tab'[u].refresh = IF u = t THEN r.refresh ELSE tab[u].refresh
<1>1. store' = Empty /\ revoking' = revoking \cup Revocation
  BY DEF HandleLogout
<1>2. Revocation \subseteq Issued
  BY DEF IInv, Sound, IdsSound, Revocation
<1> DEFINE q == [TabAfterFailure(C, r) EXCEPT !.actor = "none"]
<1>3. q \in TabState /\ q.refresh = r.refresh
  <2>1. TabAfterFailure(C, r) \in TabState /\ TabAfterFailure(C, r).refresh = r.refresh
    BY DEF TabAfterFailure, TabState
  <2> QED BY <2>1 DEF TabState
<1>4. tab' = [tab EXCEPT ![t] = q]
  BY DEF HandleLogout
<1>5. tab' \in [Tabs -> TabState] /\ \A u \in Tabs : tab'[u] = IF u = t THEN q ELSE tab[u]
  BY <1>3, <1>4, TabSet DEF IInv
<1> QED BY <1>1, <1>2, <1>3, <1>5 DEF IInv, TypeOK

(* The end of a logout that nobody asked for.                              *)
LEMMA ForcedLogoutPreserves ==
    ASSUME IInv, NEW t \in Tabs, NEW C, NEW r \in TabState,
           r.refresh \in {tab[t].refresh, NoRefresh},
           HandleLogout(t, C, r), EndCalls(t, C),
           troubled' = troubled \cup Mixed(t, C),
           UNCHANGED <<tokens, presented, left>>,
           \A login \in Issued : Stored(login) => login \in troubled' \/ ~SessionLive(login)
    PROVE  IInv'
<1>1. /\ store' = Empty /\ revoking' = revoking \cup Revocation
      /\ revoking' \subseteq Issued
      /\ tab' \in [Tabs -> TabState]
      /\ \A u \in Tabs :
           tab'[u].refresh = IF u = t THEN r.refresh ELSE tab[u].refresh
  BY LogoutSteps
<1>2. /\ calls' \in [Tabs -> [Calls -> Call]]
      /\ \A u \in Tabs, d \in Calls :
           calls'[u][d] = IF u = t /\ d \in C THEN NoCall ELSE calls[u][d]
  BY CallsEnded DEF IInv
<1>3. troubled \subseteq troubled' /\ troubled' \subseteq Tokens
  <2>1. LoginOf(store.refresh) \subseteq Tokens
    BY TokensTyped, LoginOfIssued, LoginOfOther DEF IInv, TokenRow
  <2> QED BY <2>1 DEF IInv, TypeOK, Mixed
<1>4. TypeOK'
  BY <1>1, <1>2, <1>3 DEF IInv, TypeOK, Issued, Empty
<1>5. ASSUME NEW login \in Issued, Stored(login) PROVE Moot(login)'
  BY <1>5 DEF Moot, SessionLive, Issued
<1>6. \A u \in Tabs : \/ Held(u)' = Held(u) /\ Got(u)' = Got(u) /\ Phase(u)' = Phase(u)
                      \/ Held(u)' = 0 /\ Got(u)' = 0 /\ Phase(u)' = "none"
  BY <1>1 DEF Held, Got, Phase, NoRefresh
<1>7. \A u \in Tabs, d \in Calls :
        Resent(u, d)' => Resent(u, d) /\ Retried(u, d)' = Retried(u, d)
  BY <1>2 DEF Resent, Retried, NoCall
<1>8. Sound'
  BY <1>1, <1>3, <1>5, <1>6, <1>7, ClearingStep DEF IInv
<1> QED BY <1>4, <1>8 DEF IInv

LEMMA UnauthorizedPreserves ==
    ASSUME IInv, NEW t \in Tabs, NEW c \in Calls, Unauthorized(t, c)
    PROVE  IInv'
BY ForcedLogoutPreserves, UnauthorizedIsMoot, TabTyped DEF Unauthorized, IInv

LEMMA RefusedAgainPreserves ==
    ASSUME IInv, NEW t \in Tabs, NEW c \in Calls, RefusedAgain(t, c)
    PROVE  IInv'
BY ForcedLogoutPreserves, RefusedAgainIsMoot, TabTyped DEF RefusedAgain, IInv

LEMMA RefreshRefusedPreserves ==
    ASSUME IInv, NEW t \in Tabs, RefreshRefused(t)
    PROVE  IInv'
<1> DEFINE r == [tab[t] EXCEPT !.refresh = NoRefresh]
<1>1. r \in TabState /\ r.refresh = NoRefresh
  BY TabTyped DEF IInv, TabState, Refresh, NoRefresh
<1>2. /\ HandleLogout(t, Waiting(t), r) /\ EndCalls(t, Waiting(t))
      /\ troubled' = troubled \cup Mixed(t, Waiting(t))
      /\ UNCHANGED <<tokens, presented, left>>
  BY DEF RefreshRefused
<1> QED BY <1>1, <1>2, ForcedLogoutPreserves, RefreshRefusedIsMoot

LEMMA CallLostPreserves ==
    ASSUME IInv, NEW t \in Tabs, NEW c \in Calls, CallLost(t, c)
    PROVE  IInv'
<1>1. /\ calls' \in [Tabs -> [Calls -> Call]]
      /\ \A u \in Tabs, d \in Calls :
           calls'[u][d] = IF u = t /\ d \in {c} THEN NoCall ELSE calls[u][d]
  BY CallsEnded DEF IInv, CallLost
<1> DEFINE r == TabAfterFailure({c}, tab[t])
<1>2. r \in TabState /\ r.refresh = tab[t].refresh
  BY TabTyped DEF IInv, TabAfterFailure, TabState
<1>3. tab' = [tab EXCEPT ![t] = r]
  BY DEF CallLost, IInv, TypeOK
<1>4. tab' \in [Tabs -> TabState] /\ \A u \in Tabs : tab'[u].refresh = tab[u].refresh
  BY <1>2, <1>3, TabSet DEF IInv
<1>5. /\ UNCHANGED <<tokens, revoking, presented, left>>
      /\ troubled \subseteq troubled' /\ troubled' \subseteq Tokens
  <2>1. LoginOf(store.refresh) \subseteq Tokens
    BY TokensTyped, LoginOfIssued, LoginOfOther DEF IInv, TokenRow
  <2> QED BY <2>1 DEF CallLost, IInv, TypeOK
<1>6. \A u \in Tabs : Held(u)' = Held(u) /\ Got(u)' = Got(u) /\ Phase(u)' = Phase(u)
  BY <1>4 DEF Held, Got, Phase
<1>7. \A u \in Tabs, d \in Calls :
        Resent(u, d)' => Resent(u, d) /\ Retried(u, d)' = Retried(u, d)
  BY <1>1 DEF Resent, Retried, NoCall
<1>8. CASE c = "restore"
  <2>1. store' = Empty
    BY <1>8 DEF CallLost, StoreAfterFailure
  <2>2. TypeOK'
    BY <1>1, <1>4, <1>5, <2>1 DEF IInv, TypeOK, Issued, Empty
  <2>3. ASSUME NEW login \in Issued, Stored(login) PROVE Moot(login)'
    BY <1>8, <2>3, LostRestoreIsMoot DEF Moot
  <2>4. Sound'
    BY <1>5, <1>6, <1>7, <2>1, <2>3, ClearingStep DEF IInv
  <2> QED BY <2>2, <2>4 DEF IInv
<1>9. CASE c # "restore"
  <2>1. store' = store
    BY <1>9 DEF CallLost, StoreAfterFailure
  <2>2. TypeOK'
    BY <1>1, <1>4, <1>5, <2>1 DEF IInv, TypeOK, Issued
  <2>3. Sound'
    BY <1>5, <1>6, <1>7, <2>1, QuietStep DEF IInv
  <2> QED BY <2>2, <2>3 DEF IInv
<1> QED BY <1>8, <1>9

LEMMA LogoutPreserves ==
    ASSUME IInv, NEW t \in Tabs, Logout(t)
    PROVE  IInv'
<1>1. /\ HandleLogout(t, {}, tab[t])
      /\ left' = left \cup LoginOf(store.refresh)
      /\ troubled' = troubled \cup Overlapped
      /\ UNCHANGED <<tokens, calls, presented>>
  BY DEF Logout
<1>2. /\ store' = Empty /\ revoking' = revoking \cup Revocation
      /\ revoking' \subseteq Issued
      /\ tab' \in [Tabs -> TabState]
      /\ \A u \in Tabs : tab'[u].refresh = tab[u].refresh
  BY <1>1, LogoutSteps, TabTyped DEF IInv
<1>3. LoginOf(store.refresh) \subseteq Tokens /\ Overlapped \subseteq Tokens
  BY TokensTyped, LoginOfIssued, LoginOfOther DEF IInv, TokenRow, Overlapped
<1>4. TypeOK'
  BY <1>1, <1>2, <1>3 DEF IInv, TypeOK, Issued, Empty
<1>5. Sound'
  BY <1>1, <1>2, ClearingStep DEF IInv, Held, Got, Phase, Resent, Retried
<1> QED BY <1>4, <1>5 DEF IInv

-----------------------------------------------------------------------------
LEMMA LoadPreserves ==
    ASSUME IInv, NEW t \in Tabs, Load(t)
    PROVE  IInv'
<1> USE DEF IInv, Sound
<1>1. /\ UNCHANGED <<tokens, store, revoking, left>>
      /\ presented' = [presented EXCEPT ![t] = [n \in Tokens |-> 0]]
      /\ troubled' = troubled \cup (IF Refreshing(t) THEN LoginOf(Held(t)) ELSE {})
  BY DEF Load, Held
<1> DEFINE r == [Loading(tab[t].load + 1) EXCEPT !.checking = store.access # 0]
<1>2. r \in TabState /\ r.refresh = NoRefresh
  <2>1. tab[t].load + 1 \in Nat /\ NoRefresh \in Refresh
    BY TabTyped DEF TabState, NoRefresh, Refresh
  <2>2. Loading(tab[t].load + 1) \in TabState
    BY <2>1 DEF Loading, TabState
  <2>3. (store.access # 0) \in BOOLEAN
    OBVIOUS
  <2> QED BY <2>2, <2>3 DEF Loading, TabState
<1>3. tab' = [tab EXCEPT ![t] = r]
  BY DEF Load, TypeOK
<1> HIDE DEF r
<1>4. /\ tab' \in [Tabs -> TabState]
      /\ \A u \in Tabs : tab'[u].refresh = IF u = t THEN NoRefresh ELSE tab[u].refresh
  BY <1>2, <1>3, TabSet
<1> DEFINE C == [c \in Calls |-> IF c = "restore" /\ store.access # 0
                  THEN [phase |-> "sent", token |-> store.access, as |-> RestoredKind]
                  ELSE NoCall]
<1>5. C \in [Calls -> Call] /\ \A c \in Calls : C[c].phase # "resent"
  BY DEF Call, Kinds, NoCall, RestoredKind, TypeOK
<1>6. calls' = [calls EXCEPT ![t] = C]
  BY DEF Load
<1> HIDE DEF C
<1>7. /\ calls' \in [Tabs -> [Calls -> Call]]
      /\ \A u \in Tabs : calls'[u] = IF u = t THEN C ELSE calls[u]
  BY <1>5, <1>6 DEF TypeOK
<1>8. /\ presented' \in [Tabs -> [Tokens -> Nat]]
      /\ \A u \in Tabs, n \in Tokens : presented'[u][n] = IF u = t THEN 0 ELSE presented[u][n]
  BY <1>1 DEF TypeOK
<1>9. /\ \A u \in Tabs : /\ Held(u)' = IF u = t THEN 0 ELSE Held(u)
                         /\ Got(u)' = IF u = t THEN 0 ELSE Got(u)
                         /\ Phase(u)' = IF u = t THEN "none" ELSE Phase(u)
      /\ \A u \in Tabs, d \in Calls :
           Resent(u, d)' => Resent(u, d) /\ Retried(u, d)' = Retried(u, d)
  BY <1>4, <1>5, <1>7 DEF Held, Got, Phase, Resent, Retried, NoRefresh
<1>10. /\ troubled \subseteq troubled' /\ troubled' \subseteq Tokens
       /\ Held(t) # 0 => tokens[Held(t)].login \in troubled'
  <2>1. LoginOf(Held(t)) \subseteq Tokens
    BY TokensTyped, LoginOfIssued, LoginOfOther DEF TokenRow
  <2>2. Held(t) # 0 => Refreshing(t) /\ LoginOf(Held(t)) = {tokens[Held(t)].login}
    BY LoginOfIssued DEF IdsSound, Refreshing, Phase
  <2> QED BY <1>1, <2>1, <2>2 DEF TypeOK
<1>11. TypeOK'
  BY <1>1, <1>4, <1>7, <1>8, <1>10 DEF TypeOK, Issued
<1>12. ASSUME NEW login, Moot(login) PROVE Moot(login)'
  BY <1>1, <1>10, <1>12 DEF Moot, SessionLive, Issued
<1>13. ASSUME NEW login, InFlight(login)' PROVE InFlight(login)
  BY <1>1, <1>9, <1>13 DEF InFlight
<1>14. Issued' = Issued /\ \A login : Stored(login)' <=> Stored(login)
  BY <1>1 DEF Issued, Stored
<1>15. IdsSound'
  BY <1>1, <1>9, <1>14 DEF IdsSound
<1>16. GotSound'
  BY <1>1, <1>9, <1>12 DEF GotSound
<1>17. PresentedSound' /\ PresentedOnce'
  <2>1. store.refresh # 0 => store.refresh \in Tokens
    BY DEF TypeOK
  <2>2. \A u \in Tabs : Held(u) \in Tokens \cup {0} /\ Got(u) \in Tokens \cup {0}
    BY TabTyped
  <2>3. PresentedSound'
    BY <1>1, <1>8, <1>9, <2>1, <2>2 DEF PresentedSound
  <2> QED BY <1>8, <2>3 DEF PresentedOnce
<1>18. OneSession'
  BY <1>12, <1>13, <1>14 DEF OneSession
<1>19. RefreshSound'
  BY <1>1, <1>9, <1>12 DEF RefreshSound
<1>20. StoredSound'
  <2> SUFFICES ASSUME store.refresh # 0, ~Moot(tokens[store.refresh].login)'
               PROVE  /\ store.kind = "staff"
                      /\ tokens[store.refresh].live \/ \E u \in Tabs : Held(u)' = store.refresh
                      /\ \A n \in Issued :
                           tokens[n].live /\ tokens[n].login = tokens[store.refresh].login =>
                             \/ n = store.refresh
                             \/ \E u \in Tabs : Held(u)' = store.refresh /\ Got(u)' = n
    BY <1>1, <1>14 DEF StoredSound
  <2>1. ~Moot(tokens[store.refresh].login)
    BY <1>1, <1>12
  <2>2. Held(t) # store.refresh
    BY <1>1, <1>10 DEF Moot
  <2> QED BY <1>9, <2>1, <2>2 DEF StoredSound
<1>21. KindSound' /\ StoreFits'
  BY <1>1, <1>9, <1>10 DEF KindSound, StoreFits, RestoredKind, LoginOf, Issued
<1>22. RevokingSound'
  <2>1. 0 \notin revoking
    BY TokensTyped DEF TypeOK
  <2> QED BY <1>1, <1>9, <2>1 DEF RevokingSound
<1>23. LeftSound'
  BY <1>1, <1>9, <1>10, <1>14 DEF LeftSound
<1> QED BY <1>11, <1>15, <1>16, <1>17, <1>18, <1>19, <1>20, <1>21, <1>22, <1>23

-----------------------------------------------------------------------------
LEMMA TokenSet ==
    ASSUME TypeOK, NEW n \in Issued, NEW row \in TokenRow,
           tokens' = [tokens EXCEPT ![n] = row]
    PROVE  /\ tokens' \in Seq(TokenRow) /\ Len(tokens') = Len(tokens) /\ Issued' = Issued
           /\ \A k \in Issued : tokens'[k] = IF k = n THEN row ELSE tokens[k]
<1>1. tokens \in Seq(TokenRow) /\ n \in 1 .. Len(tokens) /\ Issued = 1 .. Len(tokens)
  BY TokensTyped DEF TypeOK
<1>2. /\ tokens' \in Seq(TokenRow) /\ Len(tokens') = Len(tokens)
      /\ \A k \in 1 .. Len(tokens) : tokens'[k] = IF k = n THEN row ELSE tokens[k]
  BY <1>1, ExceptSeq
<1>3. DOMAIN tokens' = 1 .. Len(tokens')
  BY <1>2, LenProperties
<1> QED BY <1>1, <1>2, <1>3 DEF Issued

LEMMA RevokePreserves ==
    ASSUME IInv, NEW n \in Tokens, Revoke(n)
    PROVE  IInv'
<1>1. /\ n \in revoking /\ revoking' = revoking \ {n}
      /\ tokens' = [tokens EXCEPT ![n].live = FALSE]
      /\ UNCHANGED <<store, tab, calls, presented, left, troubled>>
  BY DEF Revoke
<1> DEFINE row == [tokens[n] EXCEPT !.live = FALSE]
<1>2. n \in Issued /\ tokens[n] \in TokenRow
  BY <1>1, TokensTyped DEF IInv, TypeOK
<1>3. /\ row \in TokenRow /\ ~row.live
      /\ row.login = tokens[n].login /\ row.kind = tokens[n].kind /\ row.fresh = tokens[n].fresh
  BY <1>2 DEF TokenRow
<1> HIDE DEF row
<1>4. tokens' = [tokens EXCEPT ![n] = row]
  BY <1>1 DEF row
<1>5. /\ tokens' \in Seq(TokenRow) /\ Len(tokens') = Len(tokens) /\ Issued' = Issued
      /\ \A k \in Issued : tokens'[k] = IF k = n THEN row ELSE tokens[k]
  BY <1>2, <1>3, <1>4, TokenSet DEF IInv
<1>6. TypeOK'
  BY <1>1, <1>5 DEF IInv, TypeOK
<1>7. Sound'
  BY <1>1, <1>2, <1>3, <1>5, EndingStep DEF IInv
<1> QED BY <1>6, <1>7 DEF IInv

LEMMA ExpirePreserves ==
    ASSUME IInv, NEW n \in Tokens, Expire(n)
    PROVE  IInv'
<1>1. /\ n \in Issued
      /\ \A t \in Tabs : /\ Got(t) # n
                         /\ \A c \in Calls : Resent(t, c) => Retried(t, c) # n
      /\ tokens' = [tokens EXCEPT ![n].fresh = FALSE]
      /\ UNCHANGED <<store, tab, calls, revoking, presented, left, troubled>>
  BY DEF Expire, Got, Resent, Retried
<1> DEFINE row == [tokens[n] EXCEPT !.fresh = FALSE]
<1>2. tokens[n] \in TokenRow
  BY <1>1, TokensTyped DEF IInv
<1>3. /\ row \in TokenRow
      /\ row.login = tokens[n].login /\ row.kind = tokens[n].kind /\ row.live = tokens[n].live
  BY <1>2 DEF TokenRow
<1> HIDE DEF row
<1>4. tokens' = [tokens EXCEPT ![n] = row]
  BY <1>1 DEF row
<1>5. /\ tokens' \in Seq(TokenRow) /\ Len(tokens') = Len(tokens) /\ Issued' = Issued
      /\ \A k \in Issued : tokens'[k] = IF k = n THEN row ELSE tokens[k]
  BY <1>1, <1>3, <1>4, TokenSet DEF IInv
<1>6. TypeOK'
  BY <1>1, <1>5 DEF IInv, TypeOK
<1>7. Sound'
  BY <1>1, <1>3, <1>5, EndingStep DEF IInv
<1> QED BY <1>6, <1>7 DEF IInv

LEMMA PurgePreserves ==
    ASSUME IInv, NEW login \in Tokens, Purge(login)
    PROVE  IInv'
<1> DEFINE row(n) == IF tokens[n].login = login
                     THEN [tokens[n] EXCEPT !.live = FALSE, !.fresh = FALSE]
                     ELSE tokens[n]
<1>1. /\ tokens' = [n \in Issued |-> row(n)]
      /\ UNCHANGED <<store, tab, calls, revoking, presented, left, troubled>>
  BY DEF Purge
<1>2. ASSUME NEW n \in Issued
      PROVE  /\ row(n) \in TokenRow
             /\ row(n).login = tokens[n].login /\ row(n).kind = tokens[n].kind
             /\ row(n).live <=> tokens[n].live /\ tokens[n].login # login
             /\ row(n).fresh <=> tokens[n].fresh /\ tokens[n].login # login
  <2>1. tokens[n] \in TokenRow
    BY TokensTyped DEF IInv
  <2> QED BY <2>1 DEF TokenRow
<1>3. Issued = 1 .. Len(tokens) /\ Len(tokens) \in 0 .. MaxTokens
  BY TokensTyped DEF IInv
<1> HIDE DEF row
<1>4. tokens' \in [1 .. Len(tokens) -> TokenRow]
  BY <1>1, <1>2, <1>3
<1>5. tokens' \in Seq(TokenRow) /\ Len(tokens') = Len(tokens) /\ Issued' = Issued
  BY <1>1, <1>3, <1>4 DEF Issued
<1>6. \A n \in Issued : tokens'[n] = row(n)
  BY <1>1
<1>7. TypeOK'
  BY <1>1, <1>5 DEF IInv, TypeOK
<1>8. ~SessionLive(login)'
  BY <1>2, <1>5, <1>6 DEF SessionLive
<1>9. Sound'
  BY <1>1, <1>2, <1>5, <1>6, <1>8, EndingStep DEF IInv
<1> QED BY <1>7, <1>9 DEF IInv

-----------------------------------------------------------------------------
LEMMA StartRefreshPreserves ==
    ASSUME IInv, NEW t \in Tabs, NEW c \in Calls, StartRefresh(t, c)
    PROVE  IInv'
<1> USE DEF IInv, Sound
<1> DEFINE m == store.refresh
<1>1. /\ UNCHANGED <<tokens, store, revoking, left>>
      /\ ~Refreshing(t) /\ m # 0 /\ store.kind = "staff"
      /\ presented' = [presented EXCEPT ![t][m] = @ + 1]
      /\ troubled' = troubled \cup (IF PresentedElsewhere(t, m) THEN LoginOf(m) ELSE {})
  BY DEF StartRefresh, Shared, CanRefresh
<1>2. /\ calls' \in [Tabs -> [Calls -> Call]]
      /\ \A u \in Tabs, d \in Calls :
           Resent(u, d)' => Resent(u, d) /\ Retried(u, d)' = Retried(u, d)
  BY WaitingCall DEF StartRefresh
<1>3. /\ m \in Issued /\ m \in Tokens /\ LoginOf(m) = {tokens[m].login}
      /\ tokens[m].login \in Issued /\ tokens[m].login \in Tokens
  BY <1>1, TokensTyped, LoginOfIssued DEF IdsSound
<1>4. PICK r \in TabState : /\ r.refresh = [phase |-> "sent", token |-> m, got |-> 0]
                            /\ tab' = [tab EXCEPT ![t] = r]
  <2> DEFINE q == [phase |-> "sent", token |-> m, got |-> 0]
  <2>1. q \in Refresh
    BY <1>3 DEF Refresh
  <2>2. tab' = [tab EXCEPT ![t].refresh = q]
    BY DEF StartRefresh
  <2> HIDE DEF q
  <2>3. [tab[t] EXCEPT !.refresh = q] \in TabState /\ [tab[t] EXCEPT !.refresh = q].refresh = q
    BY <2>1, TabTyped DEF TabState
  <2>4. tab' = [tab EXCEPT ![t] = [tab[t] EXCEPT !.refresh = q]]
    BY <2>2 DEF TypeOK
  <2> QED BY <2>3, <2>4 DEF q
<1>5. /\ tab' \in [Tabs -> TabState]
      /\ \A u \in Tabs : tab'[u] = IF u = t THEN r ELSE tab[u]
  BY <1>4, TabSet
<1>6. \A u \in Tabs : /\ Held(u)' = IF u = t THEN m ELSE Held(u)
                      /\ Got(u)' = IF u = t THEN 0 ELSE Got(u)
                      /\ Phase(u)' = IF u = t THEN "sent" ELSE Phase(u)
  BY <1>4, <1>5 DEF Held, Got, Phase
<1>7. Held(t) = 0 /\ Got(t) = 0
  BY <1>1 DEF Refreshing, Phase, IdsSound
<1>8. presented[t][m] = 0
  BY <1>1, <1>3, <1>7 DEF PresentedSound, TypeOK
<1>9. /\ presented' \in [Tabs -> [Tokens -> Nat]]
      /\ \A u \in Tabs, n \in Tokens :
           presented'[u][n] = IF u = t /\ n = m THEN 1 ELSE presented[u][n]
  <2>1. presented \in [Tabs -> [Tokens -> Nat]]
    BY DEF TypeOK
  <2>2. presented' = [presented EXCEPT ![t] = [presented[t] EXCEPT ![m] = 1]]
    BY <1>1, <1>3, <1>8, <2>1
  <2> QED BY <1>3, <2>1, <2>2
<1>10. /\ troubled \subseteq troubled' /\ troubled' \subseteq Tokens
       /\ \A u \in Tabs : Held(u) = m => tokens[m].login \in troubled'
  <2>1. troubled \subseteq troubled' /\ troubled' \subseteq Tokens
    BY <1>1, <1>3 DEF TypeOK
  <2>2. ASSUME NEW u \in Tabs, Held(u) = m PROVE tokens[m].login \in troubled'
    <3>1. u # t /\ presented[u][m] >= 1
      BY <1>1, <1>7, <2>2 DEF PresentedSound
    <3>2. PresentedElsewhere(t, m)
      BY <3>1, <1>3 DEF PresentedElsewhere, TypeOK
    <3> QED BY <1>1, <1>3, <3>2
  <2> QED BY <2>1, <2>2
<1>11. TypeOK'
  BY <1>1, <1>2, <1>5, <1>9, <1>10 DEF TypeOK, Issued
<1>12. ASSUME NEW login, Moot(login) PROVE Moot(login)'
  BY <1>1, <1>10, <1>12 DEF Moot, SessionLive, Issued
<1>13. ASSUME NEW login, InFlight(login)' PROVE InFlight(login) \/ Stored(login)
  BY <1>1, <1>2, <1>6, <1>13 DEF InFlight, Stored
<1>14. Issued' = Issued /\ \A login : Stored(login)' <=> Stored(login)
  BY <1>1 DEF Issued, Stored
<1>15. IdsSound'
  BY <1>1, <1>2, <1>3, <1>6, <1>14 DEF IdsSound
<1>16. GotSound'
  BY <1>1, <1>2, <1>6, <1>12 DEF GotSound
<1>17. PresentedSound' /\ PresentedOnce'
  <2>1. \A u \in Tabs : Got(u) # 0 => Got(u) # m /\ Got(u) \in Tokens
    BY TabTyped DEF GotSound
  <2>2. m \in Int /\ m <= Len(tokens) /\ Len(tokens) \in Int /\ Tokens \subseteq Int
    BY <1>3, TokensTyped, BoundsAssumption DEF Tokens
  <2>3. \A u \in Tabs : Held(u) \in Tokens \cup {0}
    BY TabTyped
  <2>4. ASSUME NEW u \in Tabs
        PROVE  /\ \A n \in Tokens : n > Len(tokens) => presented'[u][n] = 0
               /\ Held(u)' # 0 => presented'[u][Held(u)'] >= 1
               /\ m # 0 /\ presented'[u][m] >= 1 => Held(u)' = m
               /\ \A v \in Tabs : Got(v)' # 0 => presented'[u][Got(v)'] = 0
    <3>1. \A n \in Tokens : n > Len(tokens) => n # m
      BY <2>2
    <3>2. ASSUME NEW n \in Tokens, n > Len(tokens) PROVE presented'[u][n] = 0
      <4>1. presented[u][n] = 0
        BY <3>2 DEF PresentedSound
      <4> QED BY <1>9, <3>1, <3>2, <4>1
    <3>3. Held(u)' # 0 => presented'[u][Held(u)'] >= 1
      <4>1. CASE u = t
        BY <1>3, <1>6, <1>9, <4>1
      <4>2. CASE u # t
        <5>1. Held(u)' = Held(u) /\ (Held(u) # 0 => presented[u][Held(u)] >= 1)
          BY <1>6, <4>2 DEF PresentedSound
        <5> QED BY <1>9, <2>3, <4>2, <5>1
      <4> QED BY <4>1, <4>2
    <3>4. m # 0 /\ presented'[u][m] >= 1 => Held(u)' = m
      <4>1. presented[u][m] >= 1 => Held(u) = m
        BY <1>1 DEF PresentedSound
      <4> QED BY <1>3, <1>6, <1>9, <4>1
    <3>5. ASSUME NEW v \in Tabs, Got(v)' # 0 PROVE presented'[u][Got(v)'] = 0
      <4>1. Got(v)' = Got(v) /\ Got(v) # 0 /\ presented[u][Got(v)] = 0
        BY <1>6, <3>5 DEF PresentedSound
      <4> QED BY <1>9, <2>1, <4>1
    <3> QED BY <3>2, <3>3, <3>4, <3>5
  <2>5. PresentedSound'
    BY <1>1, <2>4 DEF PresentedSound
  <2> QED BY <1>9, <2>5 DEF PresentedOnce
<1>18. OneSession'
  <2> SUFFICES ASSUME NEW l1 \in Issued, NEW l2 \in Issued,
                      InFlight(l1)', InFlight(l2)' \/ Stored(l2)
               PROVE  l1 = l2 \/ (Moot(l1) /\ Moot(l2))
    BY <1>12, <1>14 DEF OneSession
  <2> QED BY <1>13 DEF OneSession, Stored
<1>19. RefreshSound'
  <2>1. ASSUME NEW u \in Tabs, Held(u)' = m, ~Moot(tokens[m].login)'
        PROVE  u = t /\ tokens[m].live /\ \A v \in Tabs : Held(v) # m
    <3>1. tokens[m].login \notin troubled'
      BY <1>1, <2>1 DEF Moot
    <3>2. \A v \in Tabs : Held(v) # m
      BY <1>10, <3>1
    <3>3. ~Moot(tokens[m].login)
      BY <1>1, <1>12, <2>1
    <3> QED BY <1>1, <1>6, <2>1, <3>2, <3>3 DEF StoredSound
  <2>2. ASSUME NEW u \in Tabs, u # t, Held(u) # 0, ~Moot(tokens[Held(u)].login)'
        PROVE  FALSE
    <3>1. ~Moot(tokens[Held(u)].login)
      BY <1>1, <1>6, <1>12, <2>2
    <3>2. Held(u) = m /\ Held(u)' = m
      BY <1>6, <2>2, <3>1 DEF RefreshSound
    <3> QED BY <1>1, <2>1, <2>2, <3>2
  <2>3. ASSUME NEW u \in Tabs, Held(u)' # 0, ~Moot(tokens[Held(u)].login)'
        PROVE  /\ m = Held(u)'
               /\ \A v \in Tabs \ {u} : Held(v)' # Held(u)'
               /\ Got(u)' = 0 /\ Phase(u)' = "sent" /\ tokens[m].live
    <3>1. u = t
      BY <1>6, <2>2, <2>3
    <3>2. ~Moot(tokens[m].login)'
      BY <1>1, <1>6, <2>3, <3>1
    <3> QED BY <1>6, <2>1, <3>1, <3>2
  <2> QED BY <1>1, <2>3 DEF RefreshSound
<1>20. StoredSound'
  <2> SUFFICES ASSUME ~Moot(tokens[store.refresh].login)'
               PROVE  /\ tokens[m].live \/ \E u \in Tabs : Held(u)' = m
                      /\ \A n \in Issued :
                           tokens[n].live /\ tokens[n].login = tokens[m].login =>
                             n = m \/ \E u \in Tabs : Held(u)' = m /\ Got(u)' = n
    BY <1>1, <1>14 DEF StoredSound
  <2>1. ~Moot(tokens[m].login)
    BY <1>1, <1>12
  <2> QED BY <1>1, <1>6, <1>7, <2>1 DEF StoredSound
<1>21. KindSound' /\ StoreFits'
  BY <1>1, <1>10 DEF KindSound, StoreFits, RestoredKind, LoginOf, Issued
<1>22. RevokingSound'
  <2>1. 0 \notin revoking
    BY TokensTyped DEF TypeOK
  <2> QED BY <1>1, <1>6, <2>1 DEF RevokingSound
<1>23. LeftSound'
  BY <1>1, <1>6, <1>10, <1>14 DEF LeftSound, Stored
<1> QED BY <1>11, <1>15, <1>16, <1>17, <1>18, <1>19, <1>20, <1>21, <1>22, <1>23

LEMMA RefreshLostPreserves ==
    ASSUME IInv, NEW t \in Tabs, RefreshLost(t)
    PROVE  IInv'
<1> USE DEF IInv, Sound
<1>1. /\ UNCHANGED <<tokens, store, calls, revoking, presented, left>>
      /\ Phase(t) = "sent" \/ Got(t) # 0
      /\ troubled' = troubled \cup LoginOf(Held(t))
  BY DEF RefreshLost, Held, Got, Phase
<1> DEFINE q == [tab[t].refresh EXCEPT !.phase = "answered", !.got = 0]
           r == [tab[t] EXCEPT !.refresh = q]
<1>2. q \in Refresh /\ q.token = Held(t) /\ q.phase = "answered" /\ q.got = 0
  BY TabTyped DEF Refresh, Held
<1>3. tab' = [tab EXCEPT ![t] = r]
  BY TabTyped DEF RefreshLost, TypeOK, TabState, Refresh
<1> HIDE DEF q
<1>4. r \in TabState /\ r.refresh = q
  BY <1>2, TabTyped DEF TabState
<1> HIDE DEF r
<1>5. tab' \in [Tabs -> TabState] /\ \A u \in Tabs : tab'[u] = IF u = t THEN r ELSE tab[u]
  BY <1>3, <1>4, TabSet
<1>6. /\ \A u \in Tabs : /\ Held(u)' = Held(u)
                         /\ Got(u)' = IF u = t THEN 0 ELSE Got(u)
                         /\ Phase(u)' = IF u = t THEN "answered" ELSE Phase(u)
      /\ \A u \in Tabs, d \in Calls :
           (Resent(u, d)' <=> Resent(u, d)) /\ Retried(u, d)' = Retried(u, d)
  BY <1>1, <1>2, <1>4, <1>5 DEF Held, Got, Phase, Resent, Retried
<1>7. Held(t) \in Issued /\ Held(t) # 0
  BY <1>1 DEF IdsSound
<1>8. /\ troubled \subseteq troubled' /\ troubled' \subseteq Tokens
      /\ tokens[Held(t)].login \in troubled'
  BY <1>1, <1>7, LoginOfIssued, TokensTyped DEF IdsSound, TypeOK
<1>9. TypeOK'
  BY <1>1, <1>5, <1>8 DEF TypeOK, Issued
<1>10. ASSUME NEW login, Moot(login) PROVE Moot(login)'
  BY <1>1, <1>8, <1>10 DEF Moot, SessionLive, Issued
<1>11. Issued' = Issued
       /\ \A login : (Stored(login)' <=> Stored(login)) /\ (InFlight(login)' <=> InFlight(login))
  BY <1>1, <1>6 DEF Issued, Stored, InFlight
<1>12. IdsSound'
  BY <1>1, <1>6, <1>7, <1>11 DEF IdsSound
<1>13. GotSound'
  BY <1>1, <1>6, <1>10 DEF GotSound
<1>14. PresentedSound' /\ PresentedOnce'
  BY <1>1, <1>6 DEF PresentedSound, PresentedOnce
<1>15. OneSession'
  BY <1>10, <1>11 DEF OneSession
<1>16. RefreshSound'
  <2> SUFFICES ASSUME NEW u \in Tabs, Held(u) # 0, ~Moot(tokens[Held(u)].login)'
               PROVE  /\ u # t /\ store.refresh = Held(u)
                      /\ \A v \in Tabs \ {u} : Held(v) # Held(u)
                      /\ IF Got(u) = 0
                         THEN Phase(u) = "sent" /\ tokens[Held(u)].live
                         ELSE tokens[Got(u)].live
    BY <1>1, <1>6 DEF RefreshSound
  <2>1. ~Moot(tokens[Held(u)].login)
    BY <1>1, <1>6, <1>10
  <2>2. tokens[Held(u)].login \notin troubled'
    BY <1>1, <1>6 DEF Moot
  <2> QED BY <1>8, <2>1, <2>2 DEF RefreshSound
<1>17. StoredSound'
  <2> SUFFICES ASSUME store.refresh # 0, ~Moot(tokens[store.refresh].login)'
               PROVE  /\ store.kind = "staff"
                      /\ tokens[store.refresh].live \/ \E u \in Tabs : Held(u)' = store.refresh
                      /\ \A n \in Issued :
                           tokens[n].live /\ tokens[n].login = tokens[store.refresh].login =>
                             \/ n = store.refresh
                             \/ \E u \in Tabs : Held(u)' = store.refresh /\ Got(u)' = n
    BY <1>1, <1>11 DEF StoredSound
  <2>1. ~Moot(tokens[store.refresh].login)
    BY <1>1, <1>10
  <2>2. Held(t) # store.refresh
    BY <1>1, <1>8 DEF Moot
  <2> QED BY <1>6, <2>1, <2>2 DEF StoredSound
<1>18. KindSound' /\ StoreFits'
  BY <1>1, <1>6, <1>8 DEF KindSound, StoreFits, RestoredKind, LoginOf, Issued
<1>19. RevokingSound'
  <2>1. 0 \notin revoking
    BY TokensTyped DEF TypeOK
  <2> QED BY <1>1, <1>6, <2>1 DEF RevokingSound
<1>20. LeftSound'
  BY <1>1, <1>6, <1>8, <1>11 DEF LeftSound
<1> QED BY <1>9, <1>12, <1>13, <1>14, <1>15, <1>16, <1>17, <1>18, <1>19, <1>20

-----------------------------------------------------------------------------
(* A pair is issued after those that were.                                 *)
LEMMA PairIssued ==
    ASSUME TypeOK, Len(tokens) < MaxTokens,
           NEW s \in Seq(TokenRow), Len(s) = Len(tokens),
           NEW row \in TokenRow, tokens' = Append(s, row)
    PROVE  /\ tokens' \in Seq(TokenRow) /\ Len(tokens') = Len(tokens) + 1
           /\ Len(tokens') <= MaxTokens
           /\ Len(tokens) + 1 \in Tokens /\ Len(tokens) + 1 \notin Issued
           /\ Issued' = Issued \cup {Len(tokens) + 1}
           /\ \A n \in Issued : tokens'[n] = s[n]
           /\ tokens'[Len(tokens) + 1] = row
<1>1. Len(tokens) \in Nat /\ Issued = 1 .. Len(tokens) /\ MaxTokens \in Nat
  BY TokensTyped, BoundsAssumption
<1>2. /\ tokens' \in Seq(TokenRow) /\ Len(tokens') = Len(tokens) + 1
      /\ \A n \in 1 .. Len(tokens) : tokens'[n] = s[n]
      /\ tokens'[Len(tokens) + 1] = row
  BY <1>1, AppendProperties
<1>3. DOMAIN tokens' = 1 .. Len(tokens) + 1
  BY <1>2, LenProperties
<1>4. 1 .. Len(tokens) + 1 = (1 .. Len(tokens)) \cup {Len(tokens) + 1}
  BY <1>1
<1> QED BY <1>1, <1>2, <1>3, <1>4 DEF Issued, Tokens

LEMMA RotatePreserves ==
    ASSUME IInv, NEW t \in Tabs, Rotate(t)
    PROVE  IInv'
<1> USE DEF IInv, Sound
<1> DEFINE m == Held(t)
           N == Len(tokens) + 1
<1>1. /\ UNCHANGED <<store, calls, revoking, presented, left, troubled>>
      /\ Phase(t) = "sent"
  BY DEF Rotate, Phase
<1>2. m \in Issued /\ m # 0 /\ Got(t) = 0 /\ tokens[m] \in TokenRow
  BY <1>1, TokensTyped DEF IdsSound
<1>3. \A u \in Tabs, d \in Calls :
        (Resent(u, d)' <=> Resent(u, d)) /\ Retried(u, d)' = Retried(u, d)
  BY <1>1 DEF Resent, Retried
<1>4. CASE ~tokens[m].live
  <2> DEFINE q == [tab[t].refresh EXCEPT !.phase = "answered"]
             r == [tab[t] EXCEPT !.refresh = q]
  <2>1. q \in Refresh /\ q.token = Held(t) /\ q.phase = "answered" /\ q.got = Got(t)
    BY TabTyped DEF Refresh, Held, Got
  <2>2. tokens' = tokens /\ tab' = [tab EXCEPT ![t] = r]
    BY <1>4, TabTyped DEF Rotate, AfterRefusal, TypeOK, TabState, Held
  <2> HIDE DEF q
  <2>3. r \in TabState /\ r.refresh = q
    BY <2>1, TabTyped DEF TabState
  <2> HIDE DEF r
  <2>4. tab' \in [Tabs -> TabState] /\ \A u \in Tabs : tab'[u] = IF u = t THEN r ELSE tab[u]
    BY <2>2, <2>3, TabSet
  <2>5. \A u \in Tabs : /\ Held(u)' = Held(u) /\ Got(u)' = Got(u)
                        /\ Phase(u)' = IF u = t THEN "answered" ELSE Phase(u)
    BY <2>1, <2>3, <2>4 DEF Held, Got, Phase
  <2>6. Moot(tokens[m].login)
    BY <1>2, <1>4 DEF RefreshSound
  <2>7. TypeOK'
    BY <1>1, <2>2, <2>4 DEF TypeOK, Issued
  <2>8. Issued' = Issued
        /\ \A login : /\ (Stored(login)' <=> Stored(login)) /\ (InFlight(login)' <=> InFlight(login))
                      /\ (Moot(login)' <=> Moot(login))
    BY <1>1, <1>3, <2>2, <2>5 DEF Issued, Stored, InFlight, Moot, SessionLive
  <2>9. IdsSound' /\ GotSound'
    BY <1>1, <1>2, <1>3, <2>2, <2>5, <2>8 DEF IdsSound, GotSound
  <2>10. PresentedSound' /\ PresentedOnce' /\ OneSession'
    BY <1>1, <2>2, <2>5, <2>8 DEF PresentedSound, PresentedOnce, OneSession
  <2>11. RefreshSound'
    <3> SUFFICES ASSUME NEW u \in Tabs, Held(u) # 0, ~Moot(tokens[Held(u)].login)
                 PROVE  /\ u # t /\ store.refresh = Held(u)
                        /\ \A v \in Tabs \ {u} : Held(v) # Held(u)
                        /\ IF Got(u) = 0
                           THEN Phase(u) = "sent" /\ tokens[Held(u)].live
                           ELSE tokens[Got(u)].live
      BY <1>1, <2>2, <2>5, <2>8 DEF RefreshSound
    <3> QED BY <2>6 DEF RefreshSound
  <2>12. StoredSound'
    BY <1>1, <2>2, <2>5, <2>8 DEF StoredSound
  <2>13. KindSound' /\ StoreFits'
    BY <1>1, <2>2, <2>5 DEF KindSound, StoreFits, RestoredKind, LoginOf, Issued
  <2>14. RevokingSound' /\ LeftSound'
    BY <1>1, <2>2, <2>5, <2>8 DEF RevokingSound, LeftSound
  <2> QED BY <2>7, <2>9, <2>10, <2>11, <2>12, <2>13, <2>14
<1>5. CASE tokens[m].live
  <2> DEFINE row == [tokens[m] EXCEPT !.live = FALSE]
             s == [tokens EXCEPT ![m] = row]
             q == [tab[t].refresh EXCEPT !.phase = "answered", !.got = N]
             r == [tab[t] EXCEPT !.refresh = q]
  <2>1. PICK l \in Issued : l = tokens[m].login
    BY <1>2 DEF IdsSound
  <2>2. /\ Len(tokens) < MaxTokens
        /\ tokens' = Append(s, Pair(l, "staff"))
        /\ tab' = [tab EXCEPT ![t] = r]
    BY <1>5, <2>1, TabTyped DEF Rotate, TypeOK, TabState, Held
  <2>3. /\ row \in TokenRow /\ ~row.live
        /\ row.login = tokens[m].login /\ row.kind = tokens[m].kind /\ row.fresh = tokens[m].fresh
    BY <1>2 DEF TokenRow
  <2> HIDE DEF row
  <2>4. /\ s \in Seq(TokenRow) /\ Len(s) = Len(tokens)
        /\ \A k \in Issued : s[k] = IF k = m THEN row ELSE tokens[k]
    <3>1. tokens \in Seq(TokenRow) /\ m \in 1 .. Len(tokens) /\ Issued = 1 .. Len(tokens)
      BY <1>2, TokensTyped DEF TypeOK
    <3> QED BY <2>3, <3>1, ExceptSeq
  <2> HIDE DEF s
  <2> DEFINE new == Pair(l, "staff")
  <2>5. /\ new \in TokenRow /\ new.live /\ new.fresh /\ new.login = l /\ new.kind = "staff"
    BY <2>1, TokensTyped DEF Pair, TokenRow, Kinds
  <2> HIDE DEF new
  <2>6. tokens' = Append(s, new)
    BY <2>2 DEF new
  <2>7. /\ tokens' \in Seq(TokenRow) /\ Len(tokens') = N /\ N <= MaxTokens
        /\ N \in Tokens /\ N \notin Issued /\ Issued' = Issued \cup {N}
        /\ \A k \in Issued : tokens'[k] = s[k]
        /\ tokens'[N] = new
    BY <2>2, <2>4, <2>5, <2>6, PairIssued
  <2>8. /\ \A k \in Issued : /\ tokens'[k].login = tokens[k].login
                             /\ tokens'[k].kind = tokens[k].kind
                             /\ tokens'[k].fresh = tokens[k].fresh
                             /\ tokens'[k].live <=> (tokens[k].live /\ k # m)
        /\ tokens'[N].login = l /\ tokens'[N].kind = "staff"
        /\ tokens'[N].live /\ tokens'[N].fresh
    BY <2>3, <2>4, <2>5, <2>7
  <2>9. q \in Refresh /\ q.token = m /\ q.phase = "answered" /\ q.got = N
    BY <2>7, TabTyped DEF Refresh, Held
  <2> HIDE DEF q
  <2>10. r \in TabState /\ r.refresh = q
    BY <2>9, TabTyped DEF TabState
  <2> HIDE DEF r
  <2>11. tab' \in [Tabs -> TabState] /\ \A u \in Tabs : tab'[u] = IF u = t THEN r ELSE tab[u]
    BY <2>2, <2>10, TabSet
  <2>12. \A u \in Tabs : /\ Held(u)' = Held(u)
                         /\ Got(u)' = IF u = t THEN N ELSE Got(u)
                         /\ Phase(u)' = IF u = t THEN "answered" ELSE Phase(u)
    BY <2>9, <2>10, <2>11 DEF Held, Got, Phase
  <2> HIDE DEF m, N
  <2>13. TypeOK'
    BY <1>1, <2>7, <2>11 DEF TypeOK
  <2>14. /\ \A u \in Tabs : /\ Held(u) # 0 => Held(u) \in Issued
                            /\ Got(u) # 0 => Got(u) \in Issued /\ Held(u) # 0
         /\ \A u \in Tabs, d \in Calls : Resent(u, d) => Retried(u, d) \in Issued
         /\ store.refresh # 0 => store.refresh \in Issued
         /\ store.access # 0 => store.access \in Issued
         /\ \A k \in Issued : tokens[k].login \in Issued
         /\ 0 \notin Issued /\ N # 0
    BY <2>7, TokensTyped DEF IdsSound, Tokens
  <2>15. \A login : Moot(login)' <=> Moot(login)
    <3>1. \A login : SessionLive(login)' <=> SessionLive(login)
      BY <1>2, <1>5, <2>1, <2>7, <2>8 DEF SessionLive
    <3> QED BY <1>1, <3>1 DEF Moot
  <2>16. \A login : /\ InFlight(login)' <=> InFlight(login)
                    /\ Stored(login)' <=> Stored(login)
                    /\ InFlight(login) \/ Stored(login) => login \in Issued
    <3>1. \A login : InFlight(login)' <=> InFlight(login)
      BY <1>3, <2>8, <2>12, <2>14 DEF InFlight
    <3>2. \A login : Stored(login)' <=> Stored(login)
      BY <1>1, <2>8, <2>14 DEF Stored
    <3>3. \A login : InFlight(login) \/ Stored(login) => login \in Issued
      BY <2>14 DEF InFlight, Stored
    <3> QED BY <3>1, <3>2, <3>3
  <2>17. IdsSound'
    BY <1>1, <1>2, <1>3, <2>1, <2>7, <2>8, <2>12, <2>14 DEF IdsSound
  <2>18. GotSound'
    <3>1. ASSUME NEW u \in Tabs, Got(u)' # 0
          PROVE  /\ tokens'[Got(u)'].kind = "staff"
                 /\ tokens'[Got(u)'].login = tokens'[Held(u)].login
                 /\ tokens'[Got(u)'].fresh \/ Moot(tokens'[Got(u)'].login)
                 /\ ~tokens'[Held(u)].live
                 /\ Got(u)' # store.refresh
                 /\ \A v \in Tabs \ {u} : Got(v)' # Got(u)'
      <4>1. CASE u = t
        BY <1>2, <2>1, <2>7, <2>8, <2>12, <2>14, <4>1 DEF m
      <4>2. CASE u # t
        <5>1. Got(u)' = Got(u) /\ Got(u) # 0 /\ Got(u) \in Issued /\ Held(u) \in Issued
          BY <2>12, <2>14, <3>1, <4>2
        <5>2. \A v \in Tabs \ {u} : Got(v)' # Got(u)
          BY <2>7, <2>12, <5>1 DEF GotSound
        <5> QED BY <2>8, <5>1, <5>2 DEF GotSound
      <4> QED BY <4>1, <4>2
    <3>2. \A u \in Tabs : Got(u)' # 0 => (tokens[Got(u)].fresh \/ Moot(tokens[Got(u)].login))'
      BY <2>15, <3>1
    <3>3. ASSUME NEW u \in Tabs, NEW d \in Calls, Resent(u, d)'
          PROVE  /\ tokens'[Retried(u, d)].kind = "staff"
                 /\ tokens'[Retried(u, d)].fresh \/ Moot(tokens'[Retried(u, d)].login)
      BY <1>3, <2>8, <2>14, <3>3 DEF GotSound
    <3>4. \A u \in Tabs, d \in Calls : Resent(u, d)' =>
            (tokens[Retried(u, d)].fresh \/ Moot(tokens[Retried(u, d)].login))'
      BY <1>3, <2>15, <3>3
    <3> QED BY <1>1, <1>3, <2>12, <3>1, <3>2, <3>3, <3>4 DEF GotSound
  <2>19. PresentedSound' /\ PresentedOnce'
    <3>1. N \in Int /\ N = Len(tokens) + 1 /\ Len(tokens) \in Int /\ Tokens \subseteq Int
      BY TokensTyped, BoundsAssumption DEF N, Tokens
    <3>2. \A k \in Tokens : k > N => k > Len(tokens)
      BY <3>1
    <3>3. N > Len(tokens)
      BY <3>1
    <3>4. \A u \in Tabs : presented[u][N] = 0
      BY <2>7, <3>3 DEF PresentedSound
    <3>5. ASSUME NEW u \in Tabs, NEW v \in Tabs, Got(v)' # 0 PROVE presented[u][Got(v)'] = 0
      BY <2>12, <3>4, <3>5 DEF PresentedSound
    <3>6. PresentedSound'
      BY <1>1, <2>7, <2>12, <3>2, <3>5 DEF PresentedSound
    <3> QED BY <1>1, <3>6 DEF PresentedOnce
  <2>20. OneSession'
    BY <2>15, <2>16 DEF OneSession
  <2>21. ASSUME NEW u \in Tabs, u # t, Held(u) # 0, ~Moot(tokens[Held(u)].login)
         PROVE  Held(u) # m /\ Got(u) # m
    <3>1. Held(u) # m
      BY <2>21 DEF RefreshSound, m
    <3>2. presented[t][m] >= 1 /\ (Got(u) # 0 => presented[t][Got(u)] = 0)
      BY <1>2 DEF PresentedSound, m
    <3> QED BY <1>2, <3>1, <3>2
  <2>22. RefreshSound'
    <3> SUFFICES ASSUME NEW u \in Tabs, Held(u) # 0, ~Moot(tokens[Held(u)].login)'
                 PROVE  /\ store.refresh = Held(u)
                        /\ \A v \in Tabs \ {u} : Held(v) # Held(u)
                        /\ IF Got(u)' = 0
                           THEN Phase(u)' = "sent" /\ tokens'[Held(u)].live
                           ELSE tokens'[Got(u)'].live
      BY <1>1, <2>12 DEF RefreshSound
    <3>1. tokens'[Held(u)].login = tokens[Held(u)].login /\ Held(u)' = Held(u)
      BY <2>8, <2>12, <2>14
    <3>2. ~Moot(tokens[Held(u)].login)
      BY <2>15, <3>1
    <3>3. CASE u = t
      BY <2>8, <2>12, <2>14, <3>2, <3>3 DEF RefreshSound
    <3>4. CASE u # t
      BY <2>8, <2>12, <2>14, <2>21, <3>2, <3>4 DEF RefreshSound
    <3> QED BY <3>3, <3>4
  <2>23. StoredSound'
    <3> SUFFICES ASSUME store.refresh # 0, ~Moot(tokens[store.refresh].login)'
                 PROVE  /\ store.kind = "staff"
                        /\ tokens'[store.refresh].live \/ \E u \in Tabs : Held(u) = store.refresh
                        /\ \A n \in Issued' :
                             tokens'[n].live /\ tokens'[n].login = tokens'[store.refresh].login =>
                               \/ n = store.refresh
                               \/ \E u \in Tabs : Held(u) = store.refresh /\ Got(u)' = n
      BY <1>1, <2>12 DEF StoredSound
    <3>1. store.refresh \in Issued /\ tokens'[store.refresh].login = tokens[store.refresh].login
      BY <2>8, <2>14
    <3>2. ~Moot(tokens[store.refresh].login)
      BY <1>1, <2>15, <3>1
    <3>3. /\ store.kind = "staff"
          /\ tokens'[store.refresh].live \/ \E u \in Tabs : Held(u) = store.refresh
      BY <2>8, <3>1, <3>2 DEF StoredSound, m
    <3>4. ASSUME NEW n \in Issued', tokens'[n].live, tokens'[n].login = tokens[store.refresh].login
          PROVE  n = store.refresh \/ \E u \in Tabs : Held(u) = store.refresh /\ Got(u)' = n
      <4>1. CASE n = N
        <5>1. ~Moot(tokens[m].login)
          BY <2>1, <2>8, <3>2, <3>4, <4>1
        <5>2. Held(t) = store.refresh /\ Got(t)' = n
          BY <1>2, <2>12, <4>1, <5>1 DEF RefreshSound, m
        <5> QED BY <5>2
      <4>2. CASE n \in Issued
        <5>1. n = store.refresh \/ \E u \in Tabs : Held(u) = store.refresh /\ Got(u) = n
          BY <2>8, <3>2, <3>4, <4>2 DEF StoredSound
        <5> QED BY <1>2, <2>12, <2>14, <4>2, <5>1
      <4> QED BY <2>7, <4>1, <4>2
    <3> QED BY <3>1, <3>3, <3>4
  <2>24. KindSound' /\ StoreFits'
    <3>1. \A k \in Issued \cup {0} : LoginOf(k)' = LoginOf(k)
      BY <2>7, <2>8, <2>14 DEF LoginOf
    <3>2. store.access \in Issued \cup {0} /\ store.refresh \in Issued \cup {0}
      BY DEF IdsSound
    <3>3. KindSound'
      BY <1>1, <2>8, <2>12, <2>14 DEF KindSound
    <3>4. StoreFits'
      BY <1>1, <2>8, <3>1, <3>2 DEF StoreFits, RestoredKind
    <3> QED BY <3>3, <3>4
  <2>25. RevokingSound'
    BY <1>1, <2>7, <2>12 DEF RevokingSound, TypeOK
  <2>26. LeftSound'
    <3> SUFFICES ASSUME NEW login \in left \ troubled
                 PROVE  /\ ~Stored(login)
                        /\ \A u \in Tabs : Held(u) # 0 => tokens'[Held(u)].login # login
                        /\ \A n \in Issued' :
                             tokens'[n].login = login /\ tokens'[n].live => n \in revoking
      BY <1>1, <2>12, <2>16 DEF LeftSound
    <3>1. l # login
      BY <1>2, <2>1 DEF LeftSound, m
    <3> QED BY <2>7, <2>8, <2>14, <3>1 DEF LeftSound
  <2> QED BY <2>13, <2>17, <2>18, <2>19, <2>20, <2>22, <2>23, <2>24, <2>25, <2>26
<1> QED BY <1>4, <1>5

-----------------------------------------------------------------------------
LEMMA RefreshedPreserves ==
    ASSUME IInv, NEW t \in Tabs, Refreshed(t)
    PROVE  IInv'
<1> USE DEF IInv, Sound
<1> DEFINE m == Held(t)
           n == Got(t)
<1>1. /\ UNCHANGED <<tokens, revoking, presented, left, troubled>>
      /\ Phase(t) = "answered" /\ n # 0
      /\ store' = [store EXCEPT !.access = n, !.refresh = n]
  BY DEF Refreshed, Phase, Got, StoredAfterRefresh
<1>2. m \in Issued /\ m # 0 /\ n \in Issued /\ n \in Tokens
  BY <1>1, TokensTyped DEF IdsSound
<1>3. PICK l \in Issued : l = tokens[n].login /\ l = tokens[m].login
  BY <1>1, <1>2 DEF IdsSound, GotSound
<1>4. /\ tokens[n].kind = "staff" /\ ~tokens[m].live /\ n # store.refresh
      /\ tokens[n].fresh \/ Moot(l)
      /\ \A u \in Tabs \ {t} : Got(u) # n
      /\ InFlight(l)
  BY <1>1, <1>2, <1>3 DEF GotSound, InFlight
<1>5. /\ store'.access = n /\ store'.refresh = n /\ store'.kind = store.kind
      /\ store' \in [access : Tokens \cup {0}, refresh : Tokens \cup {0}, kind : Kinds \cup {"none"}]
  BY <1>1, <1>2 DEF TypeOK
<1> DEFINE r == [tab[t] EXCEPT !.refresh = NoRefresh]
<1>6. r \in TabState /\ r.refresh = NoRefresh
  BY TabTyped DEF TabState, Refresh, NoRefresh
<1>7. tab' = [tab EXCEPT ![t] = r]
  BY DEF Refreshed, TypeOK
<1> HIDE DEF r
<1>8. tab' \in [Tabs -> TabState] /\ \A u \in Tabs : tab'[u] = IF u = t THEN r ELSE tab[u]
  BY <1>6, <1>7, TabSet
<1>9. \A u \in Tabs : /\ Held(u)' = IF u = t THEN 0 ELSE Held(u)
                      /\ Got(u)' = IF u = t THEN 0 ELSE Got(u)
                      /\ Phase(u)' = IF u = t THEN "none" ELSE Phase(u)
  BY <1>6, <1>8 DEF Held, Got, Phase, NoRefresh
<1>10. /\ calls' \in [Tabs -> [Calls -> Call]]
       /\ \A u \in Tabs, d \in Calls :
            calls'[u][d] = IF u = t /\ d \in Waiting(t)
                           THEN [calls[u][d] EXCEPT !.phase = "resent", !.token = n]
                           ELSE calls[u][d]
  <2>1. calls \in [Tabs -> [Calls -> Call]]
    BY DEF TypeOK
  <2> DEFINE C == [c \in Calls |-> IF c \in Waiting(t)
                                   THEN [calls[t][c] EXCEPT !.phase = "resent", !.token = n]
                                   ELSE calls[t][c]]
  <2>2. ASSUME NEW c \in Calls
        PROVE  [calls[t][c] EXCEPT !.phase = "resent", !.token = n] \in Call
    <3>1. calls[t][c] \in Call
      BY <2>1
    <3> QED BY <1>2, <3>1 DEF Call
  <2>3. C \in [Calls -> Call]
    BY <2>1, <2>2
  <2>4. calls' = [calls EXCEPT ![t] = C]
    BY <2>1 DEF Refreshed, Got
  <2> QED BY <2>1, <2>3, <2>4
<1>11. \A u \in Tabs, d \in Calls :
         Resent(u, d)' => \/ Resent(u, d) /\ Retried(u, d)' = Retried(u, d)
                          \/ Retried(u, d)' = n
  <2>1. \A u \in Tabs, d \in Calls : calls[u][d] \in Call
    BY DEF TypeOK
  <2>2. \A q \in Call : [q EXCEPT !.phase = "resent", !.token = n].token = n
    BY DEF Call
  <2>3. ASSUME NEW u \in Tabs, NEW d \in Calls
        PROVE  calls'[u][d] = calls[u][d] \/ calls'[u][d].token = n
    <3>1. CASE u = t /\ d \in Waiting(t)
      <4>1. calls'[u][d] = [calls[u][d] EXCEPT !.phase = "resent", !.token = n]
        BY <1>10, <3>1
      <4> QED BY <2>1, <2>2, <4>1
    <3>2. CASE ~(u = t /\ d \in Waiting(t))
      BY <1>10, <3>2
    <3> QED BY <3>1, <3>2
  <2> QED BY <2>3 DEF Resent, Retried
<1> HIDE DEF m, n
<1>12. TypeOK'
  BY <1>1, <1>5, <1>8, <1>10 DEF TypeOK, Issued
<1>13. Issued' = Issued /\ 0 \notin Issued /\ \A login : Moot(login)' <=> Moot(login)
  BY <1>1, TokensTyped DEF Issued, Moot, SessionLive
<1>14. ASSUME NEW login, InFlight(login)' PROVE InFlight(login)
  <2>1. CASE \E u \in Tabs : Held(u)' # 0 /\ tokens[Held(u)'].login = login
    BY <1>9, <2>1 DEF InFlight
  <2>2. CASE \E u \in Tabs, d \in Calls : Resent(u, d)' /\ tokens[Retried(u, d)'].login = login
    BY <1>3, <1>4, <1>11, <2>2 DEF InFlight
  <2> QED BY <1>1, <1>14, <2>1, <2>2 DEF InFlight
<1>15. \A login : Stored(login)' <=> login = l
  BY <1>1, <1>2, <1>3, <1>5, <1>13 DEF Stored
<1>16. IdsSound'
  BY <1>1, <1>2, <1>5, <1>9, <1>11, <1>13 DEF IdsSound
<1>17. GotSound'
  <2>1. ASSUME NEW u \in Tabs, Got(u)' # 0
        PROVE  /\ u # t /\ Got(u)' = Got(u) /\ Held(u)' = Held(u) /\ Got(u) # n
               /\ \A v \in Tabs \ {u} : Got(v)' # Got(u)
    BY <1>4, <1>9, <2>1 DEF GotSound
  <2>2. ASSUME NEW u \in Tabs, NEW d \in Calls, Resent(u, d)'
        PROVE  /\ tokens[Retried(u, d)'].kind = "staff"
               /\ tokens[Retried(u, d)'].fresh \/ Moot(tokens[Retried(u, d)'].login)
    BY <1>3, <1>4, <1>11, <2>2 DEF GotSound
  <2>3. \A u \in Tabs, d \in Calls : Resent(u, d)' =>
           (tokens[Retried(u, d)].fresh \/ Moot(tokens[Retried(u, d)].login))'
    BY <1>1, <1>13, <2>2
  <2>4. \A u \in Tabs : Got(u)' # 0 => (tokens[Got(u)].fresh \/ Moot(tokens[Got(u)].login))'
    BY <1>1, <1>13, <2>1 DEF GotSound
  <2> QED BY <1>1, <1>5, <2>1, <2>2, <2>3, <2>4 DEF GotSound
<1>18. PresentedSound' /\ PresentedOnce'
  <2>1. \A u \in Tabs : presented[u][n] = 0
    BY <1>1 DEF PresentedSound, n
  <2>2. PresentedSound'
    BY <1>1, <1>5, <1>9, <2>1 DEF PresentedSound
  <2> QED BY <1>1, <2>2 DEF PresentedOnce
<1>19. OneSession'
  BY <1>3, <1>4, <1>13, <1>14, <1>15 DEF OneSession
<1>20. ASSUME NEW u \in Tabs, u # t, Held(u) # 0, ~Moot(tokens[Held(u)].login)
       PROVE  FALSE
  <2> DEFINE lu == tokens[Held(u)].login
  <2>1. InFlight(lu) /\ lu \in Issued
    BY <1>20 DEF InFlight, IdsSound
  <2>2. lu = l
    BY <1>4, <1>20, <2>1 DEF OneSession
  <2>3. store.refresh = Held(u) /\ Held(t) # Held(u)
    BY <1>20 DEF RefreshSound
  <2>4. store.refresh = m
    BY <1>2, <1>3, <1>20, <2>2 DEF RefreshSound, m
  <2> QED BY <2>3, <2>4 DEF m
<1>21. RefreshSound'
  <2> SUFFICES ASSUME NEW u \in Tabs, Held(u)' # 0, ~Moot(tokens[Held(u)].login)'
               PROVE  FALSE
    BY DEF RefreshSound
  <2>1. u # t /\ Held(u)' = Held(u)
    BY <1>9
  <2>2. ~Moot(tokens[Held(u)].login)
    BY <1>1, <1>13, <2>1
  <2> QED BY <1>20, <2>1, <2>2
<1>22. StoredSound'
  <2> SUFFICES ASSUME ~Moot(l)
               PROVE  /\ store.kind = "staff" /\ tokens[n].live
                      /\ \A k \in Issued : tokens[k].live /\ tokens[k].login = l => k = n
    <3>1. Moot(tokens[store.refresh].login)' <=> Moot(l)
      BY <1>1, <1>3, <1>5, <1>13
    <3> QED BY <1>1, <1>3, <1>5, <1>13, <3>1 DEF StoredSound
  <2>1. /\ store.refresh = m /\ tokens[n].live
        /\ \A u \in Tabs \ {t} : Held(u) # m
    BY <1>1, <1>2, <1>3 DEF RefreshSound, m, n
  <2>2. /\ store.kind = "staff"
        /\ \A k \in Issued : tokens[k].live /\ tokens[k].login = l =>
             k = m \/ \E u \in Tabs : Held(u) = m /\ Got(u) = k
    BY <1>2, <1>3, <2>1 DEF StoredSound
  <2> QED BY <1>4, <2>1, <2>2 DEF n
<1>23. KindSound' /\ StoreFits'
  <2>1. KindSound'
    BY <1>1, <1>5, <1>9 DEF KindSound
  <2>2. l \notin troubled => store.kind # "owner"
    BY <1>2, <1>3 DEF KindSound, m
  <2>3. LoginOf(n) = {l}
    BY <1>2, <1>3, LoginOfIssued
  <2>4. StoreFits'
    BY <1>1, <1>4, <1>5, <2>2, <2>3 DEF StoreFits, RestoredKind, LoginOf, Issued
  <2> QED BY <2>1, <2>4
<1>24. RevokingSound'
  <2>1. 0 \notin revoking /\ n \notin revoking
    BY TokensTyped DEF TypeOK, RevokingSound, n
  <2> QED BY <1>1, <1>5, <1>9, <2>1 DEF RevokingSound
<1>25. LeftSound'
  <2>1. \A login \in left \ troubled : login # l
    BY <1>2, <1>3 DEF LeftSound, m
  <2> QED BY <1>1, <1>9, <1>13, <1>15, <2>1 DEF LeftSound
<1> QED BY <1>12, <1>16, <1>17, <1>18, <1>19, <1>21, <1>22, <1>23, <1>24, <1>25

-----------------------------------------------------------------------------
(* A sign-in issues a pair of its own.                                     *)
LEMMA SignInTokens ==
    ASSUME TypeOK, NEW kind \in Kinds, NEW n, n = Len(tokens) + 1,
           Len(tokens) < MaxTokens, tokens' = Append(tokens, Pair(n, kind))
    PROVE  /\ n \in Tokens /\ n > Len(tokens)
           /\ tokens' \in Seq(TokenRow) /\ Len(tokens') = n /\ Len(tokens') <= MaxTokens
           /\ n \notin Issued /\ Issued' = Issued \cup {n}
           /\ \A k \in Issued : /\ tokens'[k].login = tokens[k].login
                                 /\ tokens'[k].kind = tokens[k].kind
                                 /\ tokens'[k].fresh = tokens[k].fresh
                                 /\ tokens'[k].live = tokens[k].live
           /\ tokens'[n].login = n /\ tokens'[n].kind = kind /\ tokens'[n].fresh
           /\ tokens'[n].live <=> (kind = "staff")
<1> DEFINE new == Pair(n, kind)
<1>1. n \in Tokens /\ n > Len(tokens)
  BY TokensTyped, BoundsAssumption DEF Tokens
<1>2. /\ new \in TokenRow /\ new.login = n /\ new.kind = kind /\ new.fresh
      /\ new.live <=> (kind = "staff")
  BY <1>1 DEF Pair, TokenRow
<1> HIDE DEF new
<1>3. tokens \in Seq(TokenRow) /\ tokens' = Append(tokens, new)
  BY DEF TypeOK, new
<1>4. /\ tokens' \in Seq(TokenRow) /\ Len(tokens') = n /\ Len(tokens') <= MaxTokens
      /\ n \notin Issued /\ Issued' = Issued \cup {n}
      /\ \A k \in Issued : tokens'[k] = tokens[k]
      /\ tokens'[n] = new
  BY <1>2, <1>3, PairIssued
<1> QED BY <1>1, <1>2, <1>4

(* What is in flight when somebody signs in is given up.                   *)
LEMMA SignInStep ==
    ASSUME TypeOK, Sound, NEW kind \in Kinds, NEW n \in Tokens, n > Len(tokens),
           n \notin Issued, Issued' = Issued \cup {n}, Len(tokens') = n,
           \A k \in Issued : /\ tokens'[k].login = tokens[k].login
                             /\ tokens'[k].kind = tokens[k].kind
                             /\ tokens'[k].fresh = tokens[k].fresh
                             /\ tokens'[k].live = tokens[k].live,
           tokens'[n].login = n, tokens'[n].kind = kind, tokens'[n].fresh,
           tokens'[n].live <=> (kind = "staff"),
           UNCHANGED <<revoking, presented, left>>,
           store'.access = n, store'.kind = kind,
           store'.refresh \in {0, n}, store'.refresh = n => kind = "staff",
           troubled' = troubled \cup Overtaken(n),
           \A t \in Tabs : Held(t)' = Held(t) /\ Got(t)' = Got(t) /\ Phase(t)' = Phase(t),
           \A t \in Tabs, c \in Calls :
             Resent(t, c)' => Resent(t, c) /\ Retried(t, c)' = Retried(t, c)
    PROVE  Sound' /\ troubled' \subseteq Tokens
<1> USE DEF Sound
<1>4. /\ \A u \in Tabs : /\ Held(u) # 0 => Held(u) \in Issued
                         /\ Got(u) # 0 => Got(u) \in Issued /\ Held(u) # 0
      /\ \A u \in Tabs, d \in Calls : Resent(u, d) => Retried(u, d) \in Issued
      /\ \A k \in Issued : tokens[k].login \in Issued
      /\ revoking \subseteq Issued /\ left \subseteq Issued
      /\ 0 \notin Issued /\ n # 0
  BY TokensTyped DEF IdsSound, TypeOK, Tokens
<1>5. \A login \in Issued : SessionLive(login)' <=> SessionLive(login)
  BY DEF SessionLive
<1>6. \A login \in Issued : Moot(login) => Moot(login)'
  BY <1>5 DEF Moot
<1>7. ASSUME NEW login, InFlight(login)'
      PROVE  login \in Issued /\ Moot(login)' /\ Moot(n)'
  <2>1. InFlight(login) /\ login \in Issued
    <3>1. CASE \E t \in Tabs : Held(t)' # 0 /\ tokens'[Held(t)'].login = login
      BY <1>4, <3>1 DEF InFlight
    <3>2. CASE \E t \in Tabs, c \in Calls : Resent(t, c)' /\ tokens'[Retried(t, c)'].login = login
      BY <1>4, <3>2 DEF InFlight
    <3> QED BY <1>7, <3>1, <3>2 DEF InFlight
  <2>2. login \in Overlapped
    BY <2>1, OverlappedIsInFlight
  <2>3. login \in troubled' /\ n \in troubled'
    BY <2>2 DEF Overtaken
  <2> QED BY <2>1, <2>3 DEF Moot
<1>8. troubled \subseteq troubled' /\ troubled' \subseteq Tokens
  BY DEF Overtaken, Overlapped, TypeOK
<1>9. \A login : Stored(login)' => login = n /\ kind = "staff"
  BY DEF Stored
<1>10. IdsSound'
  BY <1>4 DEF IdsSound
<1>11. ASSUME NEW t \in Tabs, Held(t)' # 0
       PROVE  tokens'[Held(t)'].login \in troubled' /\ Moot(tokens[Held(t)].login)'
  <2>1. tokens'[Held(t)'].login = tokens[Held(t)].login /\ InFlight(tokens[Held(t)].login)
    BY <1>4, <1>11 DEF InFlight
  <2>2. tokens[Held(t)].login \in troubled'
    BY <2>1, OverlappedIsInFlight DEF Overtaken
  <2> QED BY <2>1, <2>2 DEF Moot
<1>12. GotSound'
  <2>1. ASSUME NEW u \in Tabs, Got(u)' # 0
        PROVE  /\ tokens'[Got(u)].kind = "staff"
               /\ tokens'[Got(u)].login = tokens'[Held(u)].login
               /\ ~tokens'[Held(u)].live
               /\ Got(u) # store'.refresh
               /\ \A v \in Tabs \ {u} : Got(v)' # Got(u)
    BY <1>4, <2>1 DEF GotSound
  <2>2. ASSUME NEW k \in Issued, tokens[k].fresh \/ Moot(tokens[k].login)
        PROVE  (tokens[k].fresh \/ Moot(tokens[k].login))'
    BY <1>4, <1>6, <2>2
  <2>3. \A u \in Tabs : Got(u)' # 0 => (tokens[Got(u)].fresh \/ Moot(tokens[Got(u)].login))'
    BY <1>4, <2>2 DEF GotSound
  <2>4. \A u \in Tabs, d \in Calls : Resent(u, d)' =>
          /\ tokens'[Retried(u, d)'].kind = "staff"
          /\ (tokens[Retried(u, d)].fresh \/ Moot(tokens[Retried(u, d)].login))'
    BY <1>4, <2>2 DEF GotSound
  <2> QED BY <2>1, <2>3, <2>4 DEF GotSound
<1>13. PresentedSound' /\ PresentedOnce'
  <2>1. n \in Int /\ Len(tokens) \in Int /\ Tokens \subseteq Int
    BY TokensTyped, BoundsAssumption DEF Tokens
  <2>2. n > Len(tokens) /\ \A k \in Tokens : k > n => k > Len(tokens)
    BY <2>1
  <2>3. \A u \in Tabs : presented[u][n] = 0
    BY <2>2 DEF PresentedSound
  <2>4. PresentedSound'
    BY <2>2, <2>3 DEF PresentedSound
  <2> QED BY <2>4 DEF PresentedOnce
<1>14. OneSession'
  BY <1>7, <1>9 DEF OneSession
<1>15. RefreshSound'
  BY <1>11 DEF RefreshSound
<1>16. StoredSound'
  BY <1>4 DEF StoredSound, Kinds
<1>17. KindSound' /\ StoreFits'
  <2>1. KindSound'
    BY <1>11 DEF KindSound
  <2>2. StoreFits'
    BY DEF StoreFits, RestoredKind, Kinds
  <2> QED BY <2>1, <2>2
<1>18. RevokingSound'
  BY <1>4 DEF RevokingSound
<1>19. LeftSound'
  <2> SUFFICES ASSUME NEW login \in left \ troubled'
               PROVE  /\ ~Stored(login)'
                      /\ \A t \in Tabs : Held(t)' # 0 => tokens'[Held(t)'].login # login
                      /\ \A k \in Issued' :
                           tokens'[k].login = login /\ tokens'[k].live => k \in revoking
    BY DEF LeftSound
  <2>1. login \in left \ troubled /\ login \in Issued /\ login # n
    BY <1>4, <1>8
  <2>2. ~Stored(login)'
    BY <1>9, <2>1
  <2>3. \A t \in Tabs : Held(t)' # 0 => tokens'[Held(t)'].login # login
    BY <1>11
  <2>4. \A k \in Issued' : tokens'[k].login = login /\ tokens'[k].live => k \in revoking
    BY <2>1 DEF LeftSound
  <2> QED BY <2>2, <2>3, <2>4
<1> QED BY <1>8, <1>10, <1>12, <1>13, <1>14, <1>15, <1>16, <1>17, <1>18, <1>19

LEMMA ProfileIsCall == "profile" \in Calls
BY DEF Calls

LEMMA HandleLoginPreserves ==
    ASSUME IInv, NEW t \in Tabs, HandleLogin(t)
    PROVE  IInv'
<1> DEFINE n == Len(tokens) + 1
           r == [phase |-> "sent", token |-> n, as |-> "staff"]
<1>1. /\ Len(tokens) < MaxTokens /\ tokens' = Append(tokens, Pair(n, "staff"))
      /\ store' = [access |-> n, refresh |-> n, kind |-> "staff"]
      /\ calls' = [calls EXCEPT ![t]["profile"] = r]
      /\ troubled' = troubled \cup Overtaken(n)
      /\ UNCHANGED <<tab, revoking, presented, left>>
  BY DEF HandleLogin, CanSignIn, Send
<1>2. n \in Tokens /\ "profile" \in Calls
  BY <1>1, ProfileIsCall, TokensTyped, BoundsAssumption DEF IInv, Tokens
<1>3. r \in Call /\ r.phase = "sent"
  BY <1>2 DEF Call, Kinds
<1> HIDE DEF r
<1>4. /\ calls' \in [Tabs -> [Calls -> Call]]
      /\ \A u \in Tabs, d \in Calls :
           calls'[u][d] = IF u = t /\ d = "profile" THEN r ELSE calls[u][d]
  BY <1>1, <1>2, <1>3, CallSet DEF IInv
<1>5. /\ \A u \in Tabs : Held(u)' = Held(u) /\ Got(u)' = Got(u) /\ Phase(u)' = Phase(u)
      /\ \A u \in Tabs, d \in Calls :
           Resent(u, d)' => Resent(u, d) /\ Retried(u, d)' = Retried(u, d)
  BY <1>1, <1>3, <1>4 DEF Held, Got, Phase, Resent, Retried
<1> HIDE DEF n
<1>6. /\ store'.access = n /\ store'.kind = "staff" /\ store'.refresh = n
      /\ n = Len(tokens) + 1
  BY <1>1 DEF n
<1>7. /\ n \in Tokens /\ n > Len(tokens)
      /\ tokens' \in Seq(TokenRow) /\ Len(tokens') = n /\ Len(tokens') <= MaxTokens
      /\ n \notin Issued /\ Issued' = Issued \cup {n}
      /\ \A k \in Issued : /\ tokens'[k].login = tokens[k].login
                            /\ tokens'[k].kind = tokens[k].kind
                            /\ tokens'[k].fresh = tokens[k].fresh
                            /\ tokens'[k].live = tokens[k].live
      /\ tokens'[n].login = n /\ tokens'[n].kind = "staff" /\ tokens'[n].fresh
      /\ tokens'[n].live <=> ("staff" = "staff")
  <2>1. /\ Len(tokens) < MaxTokens /\ tokens' = Append(tokens, Pair(n, "staff"))
        /\ n = Len(tokens) + 1 /\ "staff" \in Kinds /\ TypeOK
    BY <1>1, <1>6 DEF IInv, Kinds
  <2> QED BY <2>1, SignInTokens
<1>8. /\ UNCHANGED <<revoking, presented, left>>
      /\ troubled' = troubled \cup Overtaken(n)
      /\ TypeOK /\ Sound /\ "staff" \in Kinds
  BY <1>1 DEF IInv, Kinds
<1>9. Sound' /\ troubled' \subseteq Tokens
  BY <1>5, <1>6, <1>7, <1>8, SignInStep
<1>10. TypeOK'
  BY <1>1, <1>2, <1>4, <1>7, <1>9 DEF IInv, TypeOK, Kinds
<1> QED BY <1>9, <1>10 DEF IInv

LEMMA HandleOwnerLoginPreserves ==
    ASSUME IInv, NEW t \in Tabs, HandleOwnerLogin(t)
    PROVE  IInv'
<1> DEFINE n == Len(tokens) + 1
           r == [tab[t] EXCEPT !.actor = "owner"]
<1>1. /\ Len(tokens) < MaxTokens /\ tokens' = Append(tokens, Pair(n, "owner"))
      /\ store' = [access |-> n, refresh |-> 0, kind |-> "owner"]
      /\ troubled' = troubled \cup Overtaken(n)
      /\ UNCHANGED <<calls, revoking, presented, left>>
  BY DEF HandleOwnerLogin, CanSignIn, OwnerStore
<1>2. n \in Tokens
  BY <1>1, TokensTyped, BoundsAssumption DEF IInv, Tokens
<1>3. r \in TabState /\ r.refresh = tab[t].refresh
  BY TabTyped DEF IInv, TabState, Kinds
<1>4. tab' = [tab EXCEPT ![t] = r]
  BY DEF HandleOwnerLogin, IInv, TypeOK
<1> HIDE DEF r
<1>5. tab' \in [Tabs -> TabState] /\ \A u \in Tabs : tab'[u].refresh = tab[u].refresh
  BY <1>3, <1>4, TabSet DEF IInv
<1>6. /\ \A u \in Tabs : Held(u)' = Held(u) /\ Got(u)' = Got(u) /\ Phase(u)' = Phase(u)
      /\ \A u \in Tabs, d \in Calls :
           Resent(u, d)' => Resent(u, d) /\ Retried(u, d)' = Retried(u, d)
  BY <1>1, <1>5 DEF Held, Got, Phase, Resent, Retried
<1> HIDE DEF n
<1>7. /\ store'.access = n /\ store'.kind = "owner" /\ store'.refresh = 0
      /\ n = Len(tokens) + 1
  BY <1>1 DEF n
<1>8. /\ n \in Tokens /\ n > Len(tokens)
      /\ tokens' \in Seq(TokenRow) /\ Len(tokens') = n /\ Len(tokens') <= MaxTokens
      /\ n \notin Issued /\ Issued' = Issued \cup {n}
      /\ \A k \in Issued : /\ tokens'[k].login = tokens[k].login
                            /\ tokens'[k].kind = tokens[k].kind
                            /\ tokens'[k].fresh = tokens[k].fresh
                            /\ tokens'[k].live = tokens[k].live
      /\ tokens'[n].login = n /\ tokens'[n].kind = "owner" /\ tokens'[n].fresh
      /\ tokens'[n].live <=> ("owner" = "staff")
  BY <1>1, <1>7, SignInTokens DEF IInv, Kinds
<1>9. /\ UNCHANGED <<revoking, presented, left>>
      /\ troubled' = troubled \cup Overtaken(n)
      /\ TypeOK /\ Sound /\ "owner" \in Kinds
  BY <1>1 DEF IInv, Kinds
<1>10. Sound' /\ troubled' \subseteq Tokens
  BY <1>6, <1>7, <1>8, <1>9, SignInStep
<1>11. TypeOK'
  BY <1>1, <1>2, <1>5, <1>8, <1>10 DEF IInv, TypeOK, Kinds
<1> QED BY <1>10, <1>11 DEF IInv

-----------------------------------------------------------------------------
LEMMA InitEstablishes == Init => IInv
<1> SUFFICES ASSUME Init PROVE IInv
  OBVIOUS
<1>1. /\ tokens = << >> /\ store = Empty /\ revoking = {} /\ left = {} /\ troubled = {}
      /\ presented = [t \in Tabs |-> [n \in Tokens |-> 0]]
      /\ tab = [t \in Tabs |-> [Loading(1) EXCEPT !.checking = FALSE]]
      /\ calls = [t \in Tabs |-> [c \in Calls |-> NoCall]]
  BY DEF Init
<1>2. tokens \in Seq(TokenRow) /\ Len(tokens) = 0 /\ Issued = {}
  BY <1>1 DEF Issued
<1>3. [Loading(1) EXCEPT !.checking = FALSE] \in TabState
      /\ [Loading(1) EXCEPT !.checking = FALSE].refresh = NoRefresh
  BY DEF Loading, NoRefresh, TabState, Refresh
<1>4. NoCall \in Call
  BY DEF NoCall, Call, Kinds
<1>5. \A t \in Tabs : Held(t) = 0 /\ Got(t) = 0 /\ Phase(t) = "none"
  <2>1. \A t \in Tabs : tab[t].refresh = NoRefresh
    BY <1>1, <1>3
  <2> QED BY <2>1 DEF Held, Got, Phase, NoRefresh
<1>6. \A t \in Tabs, c \in Calls : ~Resent(t, c)
  BY <1>1 DEF Resent, NoCall
<1>7. TypeOK
  <2>1. tab \in [Tabs -> TabState]
    BY <1>1, <1>3
  <2>2. calls \in [Tabs -> [Calls -> Call]]
    BY <1>1, <1>4
  <2>3. presented \in [Tabs -> [Tokens -> Nat]]
    BY <1>1
  <2>4. Len(tokens) <= MaxTokens
    BY <1>2, BoundsAssumption
  <2>5. store \in [access : Tokens \cup {0}, refresh : Tokens \cup {0}, kind : Kinds \cup {"none"}]
    BY <1>1 DEF Empty
  <2>6. revoking \subseteq Issued /\ left \subseteq Tokens /\ troubled \subseteq Tokens
    BY <1>1
  <2> QED BY <1>2, <2>1, <2>2, <2>3, <2>4, <2>5, <2>6 DEF TypeOK
<1>8. store.access = 0 /\ store.refresh = 0 /\ store.kind = "none"
  BY <1>1 DEF Empty
<1>9. \A login : ~InFlight(login) /\ ~Stored(login)
  BY <1>5, <1>6, <1>8 DEF InFlight, Stored
<1>10. \A t \in Tabs, n \in Tokens : presented[t][n] = 0
  BY <1>1
<1>11. IdsSound /\ GotSound
  BY <1>1, <1>2, <1>5, <1>6, <1>8 DEF IdsSound, GotSound
<1>12. PresentedSound /\ PresentedOnce
  BY <1>5, <1>8, <1>10 DEF PresentedSound, PresentedOnce
<1>13. OneSession /\ RefreshSound /\ StoredSound /\ KindSound /\ StoreFits
  BY <1>5, <1>8, <1>9 DEF OneSession, RefreshSound, StoredSound, KindSound, StoreFits
<1>14. RevokingSound /\ LeftSound
  BY <1>1 DEF RevokingSound, LeftSound
<1> QED BY <1>7, <1>11, <1>12, <1>13, <1>14 DEF IInv, Sound

LEMMA StutterPreserves == ASSUME IInv, UNCHANGED vars PROVE IInv'
<1>1. UNCHANGED <<tokens, store, tab, calls, revoking, presented, left, troubled>>
  BY DEF vars
<1>2. TypeOK'
  BY <1>1 DEF IInv, TypeOK, Issued
<1>3. Sound'
  BY <1>1, QuietStep DEF IInv, Held, Got, Phase, Resent, Retried
<1> QED BY <1>2, <1>3 DEF IInv

LEMMA StepPreserves == IInv /\ [Next]_vars => IInv'
<1> SUFFICES ASSUME IInv, [Next]_vars PROVE IInv'
  OBVIOUS
<1>1. ASSUME NEW t \in Tabs, NEW c \in Calls, PageCall(t, c) \/ CallLost(t, c) PROVE IInv'
  BY <1>1, PageCallPreserves, CallLostPreserves
<1>2. ASSUME NEW t \in Tabs, NEW c \in Calls, Respond(t, c) PROVE IInv'
  <2>1. CASE Answered(t, c)
    BY <2>1, AnsweredPreserves
  <2>2. CASE JoinRefresh(t, c)
    BY <2>2, JoinRefreshPreserves
  <2>3. CASE StartRefresh(t, c)
    BY <2>3, StartRefreshPreserves
  <2>4. CASE Unauthorized(t, c)
    BY <2>4, UnauthorizedPreserves
  <2>5. CASE RefusedAgain(t, c)
    BY <2>5, RefusedAgainPreserves
  <2> QED BY <1>2, <2>1, <2>2, <2>3, <2>4, <2>5 DEF Respond
<1>3. ASSUME NEW t \in Tabs, Rotate(t) \/ RefreshLost(t) \/ EndRefresh(t) PROVE IInv'
  BY <1>3, RotatePreserves, RefreshLostPreserves, RefreshedPreserves, RefreshRefusedPreserves
     DEF EndRefresh
<1>4. ASSUME NEW t \in Tabs, HandleLogin(t) \/ HandleOwnerLogin(t) \/ Logout(t) \/ Load(t)
      PROVE  IInv'
  BY <1>4, HandleLoginPreserves, HandleOwnerLoginPreserves, LogoutPreserves, LoadPreserves
<1>5. ASSUME NEW n \in Tokens, Revoke(n) \/ RevokeLost(n) \/ Expire(n) \/ Purge(n) PROVE IInv'
  BY <1>5, RevokePreserves, RevokeLostPreserves, ExpirePreserves, PurgePreserves
<1> QED BY <1>1, <1>2, <1>3, <1>4, <1>5, StutterPreserves DEF Next

LEMMA Invariance == Spec => []IInv
<1> QED BY InitEstablishes, StepPreserves, PTL DEF Spec

-----------------------------------------------------------------------------
(* The variables keep their types: in particular what is revoked was       *)
(* issued before, however handlers and answers interleave.                 *)
THEOREM TypeCorrect == Spec => []TypeOK
<1>1. IInv => TypeOK
  BY DEF IInv
<1> QED BY <1>1, Invariance, PTL

(* No load of the application presents a refresh token twice, however many *)
(* of its calls meet a 401 (client.ts 21-33, the shared refresh).          *)
THEOREM NeverPresentedTwice == Spec => []PresentedOnce
<1>1. IInv => PresentedOnce
  BY DEF IInv, Sound
<1> QED BY <1>1, Invariance, PTL

(* Whatever overlaps, what the storage holds is of one sign-in and of the  *)
(* kind it is labelled with, unless a refresh was overlapped (App.tsx      *)
(* 86-87, 111-117, 130-132, 140-143).                                      *)
THEOREM StorageFits == Spec => []StoreFits
<1>1. IInv => StoreFits
  BY DEF IInv, Sound
<1> QED BY <1>1, Invariance, PTL

(* A logout ends its sign-in for good once the revocation has arrived,     *)
(* unless a refresh was overlapped (App.tsx 63-74).                        *)
THEOREM LogoutEnds == Spec => []LoggedOutIsDead
<1>1. IInv => LoggedOutIsDead
  BY DEF IInv, Sound, LeftSound, LoggedOutIsDead, SessionLive
<1> QED BY <1>1, Invariance, PTL

-----------------------------------------------------------------------------
(* A storage that loses its refresh token, not by its user, had one of a   *)
(* session that was moot.                                                  *)
LEMMA ClearedIsMoot ==
    ASSUME IInv, Next, store.refresh # 0, store'.refresh = 0, ~ByUser,
           NEW login \in Issued, Stored(login)
    PROVE  login \in troubled' \/ ~SessionLive(login)
<1>1. store' # store
  OBVIOUS
<1>2. ASSUME NEW t \in Tabs, NEW c \in Calls, PageCall(t, c) \/ CallLost(t, c)
      PROVE  login \in troubled' \/ ~SessionLive(login)
  <2>1. CallLost(t, c) /\ c = "restore"
    BY <1>1, <1>2 DEF PageCall, CallLost, StoreAfterFailure
  <2> QED BY <2>1, LostRestoreIsMoot
<1>3. ASSUME NEW t \in Tabs, NEW c \in Calls, Respond(t, c)
      PROVE  login \in troubled' \/ ~SessionLive(login)
  <2>1. Unauthorized(t, c) \/ RefusedAgain(t, c)
    BY <1>1, <1>3 DEF Respond, Answered, JoinRefresh, StartRefresh
  <2> QED BY <2>1, UnauthorizedIsMoot, RefusedAgainIsMoot
<1>4. ASSUME NEW t \in Tabs, Rotate(t) \/ RefreshLost(t) \/ EndRefresh(t)
      PROVE  login \in troubled' \/ ~SessionLive(login)
  <2>1. Refreshed(t) \/ RefreshRefused(t)
    BY <1>1, <1>4 DEF Rotate, RefreshLost, EndRefresh
  <2>2. ~Refreshed(t)
    <3>1. store \in [access : Tokens \cup {0}, refresh : Tokens \cup {0}, kind : Kinds \cup {"none"}]
      BY DEF IInv, TypeOK
    <3>2. Refreshed(t) => store'.refresh = Got(t) /\ Got(t) # 0
      BY <3>1 DEF Refreshed, StoredAfterRefresh, Got
    <3> QED BY <3>2
  <2> QED BY <2>1, <2>2, RefreshRefusedIsMoot
<1>5. ASSUME NEW t \in Tabs, HandleLogin(t) \/ HandleOwnerLogin(t) \/ Logout(t) \/ Load(t)
      PROVE  FALSE
  <2>1. HandleLogin(t)
    BY <1>1, <1>5 DEF ByUser, Load
  <2>2. store'.refresh = Len(tokens) + 1 /\ Len(tokens) \in Nat
    BY <2>1, TokensTyped DEF HandleLogin, IInv
  <2> QED BY <2>2
<1>6. ASSUME NEW n \in Tokens, Revoke(n) \/ RevokeLost(n) \/ Expire(n) \/ Purge(n)
      PROVE  FALSE
  BY <1>1, <1>6 DEF Revoke, RevokeLost, Expire, Purge
<1> QED BY <1>2, <1>3, <1>4, <1>5, <1>6 DEF Next

(* Expired access tokens and the refreshes they cause, in any number of    *)
(* tabs, never end a session that the server still honours (client.ts      *)
(* 76-92).                                                                 *)
THEOREM LiveSessionKept == Spec => KeepsLiveSession
<1>1. IInv /\ [Next]_vars =>
        [store.refresh # 0 /\ store'.refresh = 0 /\ ~ByUser =>
           \A login \in LoginOf(store.refresh) \ troubled' : ~SessionLive(login)]_vars
  <2> SUFFICES ASSUME IInv, Next, store.refresh # 0, store'.refresh = 0, ~ByUser,
                      NEW login \in LoginOf(store.refresh) \ troubled'
               PROVE  ~SessionLive(login)
    OBVIOUS
  <2>1. login \in Issued /\ Stored(login)
    BY LoginOfIssued, TokensTyped DEF IInv, Sound, IdsSound, Stored
  <2> QED BY <2>1, ClearedIsMoot
<1> QED BY <1>1, Invariance, PTL DEF Spec, KeepsLiveSession

=============================================================================
