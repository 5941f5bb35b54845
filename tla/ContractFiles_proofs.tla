------------------------ MODULE ContractFiles_proofs ------------------------
(***************************************************************************)
(* Proofs about ContractFiles, for any documents, titles, signature        *)
(* requests, and uploads and deletions in flight. The signature requests   *)
(* keep all that SignatureRequests_proofs proves of them.                  *)
(***************************************************************************)
EXTENDS ContractFiles, SignatureRequests_proofs

\* What an upload or a deletion knows of its file, whatever others do.
WriterSound ==
    /\ \A w \in Writers : Busy(w) =>
         LET k == writer[w].key IN
         /\ writer[w].op = "upload" => file[k] = "fresh"
         /\ writer[w].op = "insert" => file[k] = "stored"
         /\ writer[w].op \in {"delete", "remove"} => file[k] # "fresh" /\ k \notin UnderWay
         /\ writer[w].op = "remove" => file[k] = "gone"
    /\ \A w, x \in Writers : Uploading(w) /\ Uploading(x) => w = x

\* A row is of an upload that is over.
RowsSound ==
    \A k \in Files : Exists(k) => file[k] # "fresh" /\ k \notin UnderWay

\* Row and file differ only where somebody stands between the two, or stood
\* there when he died, or the foreign key kept the row.
Balanced ==
    \A k \in Files \ torn :
        \/ Exists(k) <=> file[k] = "stored"
        \/ Exists(k) /\ Referenced(k)
        \/ \E w \in Writers : WorksOn(w, k) /\ writer[w].op \in {"insert", "remove"}

\* An envelope has its source, and a request the row of it.
SourcesSound ==
    \A d \in Docs :
        /\ Sent(d) => source[d] \in Files
        /\ Recorded(d) => source[d] \in Files /\ Exists(source[d])

\* No row has the version that the upload under way computed.
VersionFree ==
    \A w \in Writers, k \in Files :
        Uploading(w) /\ Exists(k) => document[k] # writer[w].row

FInv ==
    /\ FilesTypeOK
    /\ WriterSound
    /\ RowsSound
    /\ Balanced
    /\ SourcesSound
    /\ VersionFree
    /\ VersionsTell

-----------------------------------------------------------------------------
(* The signature requests are those of SignatureRequests. *)

LEMMA FilesStep == FilesNext => Next \/ UNCHANGED vars
<1>1. Sending => Next
  BY DEF Sending, SendDocument, InsertWithSource, Next, Requests
<1>2. Others => Next
  BY DEF Others, Next, Requests
<1>3. Writing => UNCHANGED vars
  BY DEF Writing, BeginUpload, PutFile, InsertDocument, BeginDelete, DropFile,
         CommitDelete, RefuseDelete, AbortWriter
<1> QED BY <1>1, <1>2, <1>3 DEF FilesNext

\* With documents and their storage around them, signature requests do what
\* SignatureRequests says and nothing else: all its properties hold of them.
THEOREM RequestsAsBefore == FilesSpec => Spec
<1>1. FilesInit => Init
  BY DEF FilesInit
<1>2. [FilesNext]_<<vars, fileVars>> => [Next]_vars
  BY FilesStep
<1> QED BY <1>1, <1>2, PTL DEF FilesSpec, Spec

LEMMA RequestsSound == FilesSpec => []IInv
BY RequestsAsBefore, Invariance, PTL

-----------------------------------------------------------------------------
(* Versions. *)

\* The first so many values of a function on 1..n have a bound, for every n:
\* were there a least n for which they do not, they had one up to n - 1.
LEMMA Bounded ==
    ASSUME NEW n \in Nat, NEW g \in [1..n -> Nat]
    PROVE  \E b \in Nat : \A i \in 1..n : g[i] <= b
<1> DEFINE Bound(m) == \E b \in Nat : \A i \in 1..m : g[i] <= b
           Unbounded == {m \in 0..n : ~Bound(m)}
<1>1. SUFFICES ASSUME Unbounded # {} PROVE FALSE
  <2>1. n \in Unbounded \/ Bound(n)
    OBVIOUS
  <2> QED BY <2>1
<1>2. PICK m \in Unbounded : \A l \in Unbounded : m <= l
  <2>1. Unbounded \in SUBSET Nat
    OBVIOUS
  <2> HIDE DEF Unbounded
  <2> QED BY <1>1, <2>1, Least
<1>3. m \in 1..n
  <2>1. Bound(0)
    <3>1. \A i \in 1..0 : g[i] <= 0
      OBVIOUS
    <3> QED BY <3>1
  <2>2. m \in 0..n /\ ~Bound(m)
    OBVIOUS
  <2> HIDE DEF Bound
  <2>3. m # 0
    BY <2>1, <2>2
  <2> QED BY <2>2, <2>3
<1>4. PICK b \in Nat : \A i \in 1..(m - 1) : g[i] <= b
  <2>1. m - 1 \in 0..n /\ ~(m <= m - 1)
    BY <1>3
  <2>2. m - 1 \notin Unbounded
    BY <1>2, <2>1
  <2> QED BY <2>1, <2>2
<1>5. g[m] \in Nat
  BY <1>3
<1>6. \A i \in 1..m : i = m \/ i \in 1..(m - 1)
  BY <1>3
<1>7. \A i \in 1..m : g[i] <= b + g[m]
  <2> SUFFICES ASSUME NEW i \in 1..m PROVE g[i] <= b + g[m]
    OBVIOUS
  <2>1. g[i] \in Nat
    BY <1>3
  <2>2. CASE i = m
    BY <1>4, <1>5, <2>1, <2>2
  <2>3. CASE i \in 1..(m - 1)
    BY <1>4, <1>5, <2>1, <2>3
  <2> QED BY <1>6, <2>2, <2>3
<1>8. Bound(m)
  <2>1. b + g[m] \in Nat
    BY <1>4, <1>5
  <2> QED BY <1>7, <2>1
<1> QED BY <1>2, <1>8

\* The maximum of a set of numbers with a bound.
LEMMA MaxBounded ==
    ASSUME NEW S \in SUBSET Nat, S # {}, NEW c \in Nat, \A x \in S : x <= c
    PROVE  Max(S) \in S /\ \A x \in S : x <= Max(S)
<1> DEFINE Bounds == {n \in Nat : \A x \in S : x <= n}
<1>1. PICK b \in Bounds : \A m \in Bounds : b <= m
  <2>1. c \in Bounds
    OBVIOUS
  <2>2. Bounds \in SUBSET Nat
    OBVIOUS
  <2> HIDE DEF Bounds
  <2> QED BY <2>1, <2>2, Least
<1>2. b \in S
  <2>1. SUFFICES ASSUME b \notin S PROVE FALSE
    OBVIOUS
  <2>2. PICK x \in S : TRUE
    OBVIOUS
  <2>3. b \in Nat /\ b >= 1
    BY <2>1, <2>2, <1>1
  <2>4. \A y \in S : y <= b - 1
    BY <2>1, <2>3, <1>1
  <2>5. b - 1 \in Bounds
    BY <2>3, <2>4
  <2> QED BY <2>3, <2>5, <1>1
<1>3. \A y \in S : b >= y
  BY <1>1
<1> DEFINE Greatest(x) == x \in S /\ \A y \in S : x >= y
<1>4. Greatest(b)
  BY <1>2, <1>3
<1>5. Greatest(Max(S))
  BY <1>4 DEF Max
<1> QED BY <1>5

\* A new version is above all versions of its title.
LEMMA NextVersionAbove ==
    ASSUME FilesTypeOK, NEW t \in Titles
    PROVE  /\ NextVersion(t) \in Nat \ {0}
           /\ \A k \in Files : Exists(k) /\ document[k].title = t
                => document[k].version < NextVersion(t)
<1> DEFINE S == Versions(t) \cup {0}
           number(k) == IF Exists(k) THEN document[k].version ELSE 0
<1>1. \A k \in Files : number(k) \in Nat
  BY DEF FilesTypeOK, Exists, DocumentRow
<1>2. PICK n \in Nat : ExistsBijection(1..n, Files)
  BY FilesAssumption, FS_NatBijection
<1>3. PICK f \in [1..n -> Files] : \A k \in Files : \E i \in 1..n : f[i] = k
  BY <1>2, Zenon DEF ExistsBijection, Bijection, Surjection
<1> DEFINE g == [i \in 1..n |-> number(f[i])]
<1>4. g \in [1..n -> Nat]
  BY <1>1, <1>3
<1>5. PICK c \in Nat : \A i \in 1..n : g[i] <= c
  <2> HIDE DEF g
  <2> QED BY <1>4, Bounded
<1>6. \A k \in Files : number(k) <= c
  <2> SUFFICES ASSUME NEW k \in Files PROVE number(k) <= c
    OBVIOUS
  <2>1. PICK i \in 1..n : f[i] = k
    BY <1>3
  <2>2. g[i] = number(k)
    BY <2>1
  <2> HIDE DEF g, number
  <2> QED BY <1>5, <2>2
<1>7. \A x \in S : x \in Nat /\ x <= c
  BY <1>1, <1>6 DEF Versions
<1>8. Max(S) \in S /\ \A x \in S : x <= Max(S)
  <2>1. S \in SUBSET Nat /\ S # {}
    BY <1>7
  <2> HIDE DEF S
  <2> QED BY <2>1, <1>7, MaxBounded
<1>9. Max(S) \in Nat
  BY <1>7, <1>8
<1>10. \A k \in Files : Exists(k) /\ document[k].title = t => document[k].version \in S
  BY DEF Versions
<1> HIDE DEF S
<1>11. NextVersion(t) = Max(S) + 1
  BY DEF NextVersion, S
<1>12. \A x \in S : x < Max(S) + 1
  BY <1>7, <1>8, <1>9
<1> QED BY <1>9, <1>10, <1>11, <1>12

-----------------------------------------------------------------------------
(* What happens to a request that is sent leaves its document alone. *)

Steady ==
    /\ \A d \in Docs : Sent(d) <=> Sent(d)'
    /\ \A d \in Docs : Recorded(d) <=> Recorded(d)'

LEMMA RewriteSteady ==
    ASSUME IInv, NEW d \in Docs, Recorded(d), Recorded(d)', UNCHANGED envelope,
           \A x \in Docs \ {d} : request'[x] = request[x]
    PROVE  Steady
BY DEF Steady, Sent, Recorded

LEMMA EnvelopeSteady ==
    ASSUME IInv, IInv', NEW d \in Docs, Sent(d), UNCHANGED request,
           NEW e \in Envelope, envelope' = [envelope EXCEPT ![d] = e]
    PROVE  Steady
<1>1. envelope'[d] # None /\ \A x \in Docs \ {d} : envelope'[x] = envelope[x]
  BY NoneAssumption DEF IInv, TypeOK
<1> QED BY <1>1 DEF Steady, Sent, Recorded

LEMMA SignersSteady ==
    ASSUME IInv, IInv', Signers
    PROVE  Steady
<1>1. PICK d \in Docs, i \in Recipients : Sign(d, i) \/ Reject(d, i)
  BY DEF Signers
<1>2. Sent(d) /\ envelope[d] \in Envelope /\ UNCHANGED request
  BY <1>1 DEF Sign, Reject, database, IInv, TypeOK, Sent
<1>3. CASE Sign(d, i)
  <2>1. PICK e : e = [envelope[d] EXCEPT !.signed = envelope[d].signed \cup {i}]
    OBVIOUS
  <2>2. e \in Envelope
    BY <1>2, <2>1 DEF Envelope
  <2>3. envelope' = [envelope EXCEPT ![d] = e]
    BY <1>3, <2>1 DEF Sign
  <2> QED BY <1>2, <2>2, <2>3, EnvelopeSteady
<1>4. CASE Reject(d, i)
  <2>1. PICK e : e = [envelope[d] EXCEPT !.rejected = {i}]
    OBVIOUS
  <2>2. e \in Envelope
    BY <1>2, <2>1 DEF Envelope
  <2>3. envelope' = [envelope EXCEPT ![d] = e]
    BY <1>4, <2>1 DEF Reject
  <2> QED BY <1>2, <2>2, <2>3, EnvelopeSteady
<1> QED BY <1>1, <1>3, <1>4

LEMMA VoidSteady ==
    ASSUME IInv, IInv', NEW s \in Sessions, DeleteEnvelope(s) \/ CommitVoid(s)
    PROVE  Steady
<1>1. PICK d : d = session[s].doc
  OBVIOUS
<1>2. CASE DeleteEnvelope(s)
  <2>1. d \in Docs /\ Sent(d)
    BY <1>1, <1>2, SessionFields DEF DeleteEnvelope, IInv, SessionsSound
  <2>2. envelope[d] \in Envelope
    BY <2>1 DEF IInv, TypeOK, Sent
  <2>3. PICK e : e = [envelope[d] EXCEPT !.deleted = TRUE]
    OBVIOUS
  <2>4. e \in Envelope
    BY <2>2, <2>3 DEF Envelope
  <2>5. envelope' = [envelope EXCEPT ![d] = e] /\ UNCHANGED request
    BY <1>1, <1>2, <2>3 DEF DeleteEnvelope, database
  <2> QED BY <2>1, <2>4, <2>5, EnvelopeSteady
<1>3. CASE CommitVoid(s)
  <2>1. d \in Docs /\ Recorded(d) /\ UNCHANGED envelope
    BY <1>1, <1>3, SessionFields DEF CommitVoid, IInv, SessionsSound, Recorded, documenso
  <2>2. request[d] \in RequestRow
    BY <2>1 DEF IInv, TypeOK, Recorded
  <2>3. [request[d] EXCEPT !.status = "voided"] \in RequestRow
    BY <2>2 DEF RequestRow
  <2>4. request'[d] # None /\ \A x \in Docs \ {d} : request'[x] = request[x]
    BY <1>1, <1>3, <2>1, <2>2, <2>3, NoneAssumption DEF CommitVoid, IInv, TypeOK
  <2> QED BY <2>1, <2>4, RewriteSteady DEF Recorded
<1> QED BY <1>2, <1>3

\* The webhook's event is answered, or its handler goes on.
EventKept ==
    \/ hook.event \in answered'
    \/ hook'.op # "idle" /\ hook'.event = hook.event

LEMMA WebhooksSteady ==
    ASSUME IInv, IInv', Webhooks
    PROVE  Steady
<1>1. CASE UNCHANGED <<envelope, request>>
  BY <1>1 DEF Steady, Sent, Recorded
<1>2. ASSUME hook.op # "idle", UNCHANGED envelope,
             \A x \in Docs \ {hook.event.doc} : request'[x] = request[x],
             EventKept
      PROVE  Steady
  <2>1. PICK d : d = hook.event.doc
    OBVIOUS
  <2>2. d \in Docs /\ Recorded(d)
    BY <1>2, <2>1, EventFields DEF IInv, HookSound
  <2>3. Recorded(d)'
    <3>1. PICK e : e = hook.event
      OBVIOUS
    <3>2. e \in answered' => Recorded(e.doc)'
      BY DEF IInv, RecordsSound
    <3>3. hook'.op # "idle" /\ hook'.event = e => Recorded(e.doc)'
      BY DEF IInv, HookSound
    <3> QED BY <1>2, <2>1, <3>1, <3>2, <3>3 DEF EventKept
  <2> QED BY <1>2, <2>1, <2>2, <2>3, RewriteSteady
<1>3. ASSUME NEW r \in Recipients, MarkSigned(r) PROVE Steady
  <2>1. hook.op = "signed" /\ UNCHANGED envelope
        /\ \A x \in Docs \ {hook.event.doc} : request'[x] = request[x]
    BY <1>3 DEF MarkSigned, IInv, TypeOK, documenso
  <2>2. CASE Left(r) = {}
    <3>1. Answer(hook.event)
      BY <1>3, <2>2 DEF MarkSigned
    <3>2. EventKept
      BY <3>1 DEF Answer, EventKept
    <3> QED BY <1>2, <2>1, <3>2
  <2>3. CASE Left(r) # {}
    <3>1. hook' = [hook EXCEPT !.todo = Left(r)]
      BY <1>3, <2>3 DEF MarkSigned
    <3>2. hook'.op = hook.op /\ hook'.event = hook.event
      BY <2>1, <3>1, HookFields
    <3>3. EventKept
      BY <2>1, <3>1, <3>2 DEF EventKept
    <3> QED BY <1>2, <2>1, <3>3
  <2> QED BY <2>2, <2>3
<1>4. CASE CommitDeclined \/ CommitCompleted
  <2>1. hook.op # "idle" /\ UNCHANGED envelope
    BY <1>4 DEF CommitDeclined, CommitCompleted, documenso
  <2>2. \A x \in Docs \ {hook.event.doc} : request'[x] = request[x]
    BY <1>4 DEF CommitDeclined, CommitCompleted, IInv, TypeOK
  <2>3. EventKept
    BY <1>4 DEF CommitDeclined, CommitCompleted, Answer, EventKept
  <2> QED BY <1>2, <2>1, <2>2, <2>3
<1> QED BY <1>1, <1>3, <1>4 DEF Webhooks, ReceiveSigned, ReceiveRejected, CompletedAgain,
           ReceiveCompleted, ArchivePdf, HookFails, documenso, database

LEMMA OthersSteady ==
    ASSUME IInv, IInv', Others
    PROVE  Steady /\ UNCHANGED fileVars
<1>1. ASSUME UNCHANGED <<envelope, request>> PROVE Steady
  BY <1>1 DEF Steady, Sent, Recorded
<1>2. CASE Tick
  BY <1>1, <1>2 DEF Tick, documenso, database, Others
<1>3. ASSUME NEW s \in Sessions,
             (\E d \in Docs : ReadForVoid(s, d)) \/ Abort(s)
      PROVE  Steady
  BY <1>1, <1>3 DEF ReadForVoid, Abort, documenso, database
<1> QED BY <1>2, <1>3, SignersSteady, VoidSteady, WebhooksSteady DEF Others

-----------------------------------------------------------------------------
(* Steps of signature requests. *)

LEMMA InitFiles == FilesInit => FInv
<1> SUFFICES ASSUME FilesInit PROVE FInv
  OBVIOUS
<1>1. FilesTypeOK
  BY DEF FilesInit, FilesTypeOK
<1>2. \A w \in Writers : ~Busy(w)
  BY DEF FilesInit, Busy
<1>3. \A k \in Files : ~Exists(k) /\ file[k] = "fresh"
  BY DEF FilesInit, Exists
<1>4. \A d \in Docs : ~Sent(d) /\ ~Recorded(d)
  BY DEF FilesInit, Init, Sent, Recorded
<1> QED BY <1>1, <1>2, <1>3, <1>4 DEF FInv, WriterSound, RowsSound, Balanced, SourcesSound,
           VersionFree, VersionsTell, Uploading

\* Documents, files and writers stay; no request goes away.
LEMMA BesideKeeps ==
    ASSUME FInv, UNCHANGED <<document, file, writer, torn>>,
           \A k \in Files : Referenced(k) => Referenced(k)',
           FilesTypeOK', SourcesSound'
    PROVE  FInv'
<1>1. \A k : Exists(k)' <=> Exists(k)
  BY DEF Exists
<1>2. \A w : /\ Busy(w)' <=> Busy(w)
             /\ Uploading(w)' <=> Uploading(w)
             /\ \A k : WorksOn(w, k)' <=> WorksOn(w, k)
  BY DEF Busy, Uploading, WorksOn
<1>3. UnderWay' = UnderWay
  BY DEF UnderWay, Uploading, Busy
<1>4. WriterSound'
  BY <1>2, <1>3 DEF FInv, WriterSound
<1>5. RowsSound'
  BY <1>1, <1>3 DEF FInv, RowsSound
<1>6. Balanced'
  BY <1>1, <1>2 DEF FInv, Balanced
<1>7. VersionFree'
  BY <1>1, <1>2 DEF FInv, VersionFree
<1>8. VersionsTell'
  BY <1>1 DEF FInv, VersionsTell
<1> QED BY <1>4, <1>5, <1>6, <1>7, <1>8 DEF FInv

LEMMA OthersKeep ==
    ASSUME FInv, IInv, IInv', Others
    PROVE  FInv'
<1>1. Steady /\ UNCHANGED fileVars
  BY OthersSteady
<1>2. FilesTypeOK'
  BY <1>1 DEF FInv, FilesTypeOK, fileVars
<1>3. SourcesSound'
  BY <1>1 DEF FInv, SourcesSound, Steady, Exists, fileVars
<1>4. \A k \in Files : Referenced(k) => Referenced(k)'
  BY <1>1 DEF Referenced, Steady, fileVars
<1> QED BY <1>1, <1>2, <1>3, <1>4, BesideKeeps DEF fileVars

LEMMA SendKeeps ==
    ASSUME FInv, IInv, IInv', NEW s \in Sessions, NEW d \in Docs,
           NEW email \in [Recipients -> Emails], NEW k \in Files,
           SendDocument(s, d, email, k)
    PROVE  FInv'
<1>1. /\ ~Sent(d) /\ UNCHANGED <<request, document, file, writer, torn>>
      /\ source' = [source EXCEPT ![d] = k] /\ Exists(k)
      /\ \A x \in Docs \ {d} : envelope'[x] = envelope[x]
  BY DEF SendDocument, SendEnvelope, database, IInv, TypeOK
<1>2. ~Recorded(d) /\ \A x \in Docs : Recorded(x)' <=> Recorded(x)
  BY <1>1 DEF IInv, RecordsSound, Recorded
<1>3. source'[d] = k /\ \A x \in Docs \ {d} : source'[x] = source[x]
  BY <1>1 DEF FInv, FilesTypeOK
<1>4. FilesTypeOK'
  BY <1>1 DEF FInv, FilesTypeOK
<1>5. SourcesSound'
  BY <1>1, <1>2, <1>3 DEF FInv, SourcesSound, Sent, Exists
<1>6. \A f \in Files : Referenced(f) => Referenced(f)'
  BY <1>2, <1>3 DEF Referenced
<1> QED BY <1>1, <1>4, <1>5, <1>6, BesideKeeps

LEMMA InsertKeeps ==
    ASSUME FInv, IInv, IInv', NEW s \in Sessions, InsertWithSource(s)
    PROVE  FInv'
<1>1. PICK d : d = session[s].doc
  OBVIOUS
<1>2. /\ UNCHANGED <<envelope, fileVars>> /\ Exists(source[d])
      /\ \A x \in Docs \ {d} : request'[x] = request[x]
  BY <1>1 DEF InsertWithSource, InsertRequest, documenso, IInv, TypeOK
<1>3. d \in Docs /\ Sent(d) /\ ~Recorded(d)
  BY <1>1, SessionFields DEF InsertWithSource, InsertRequest, IInv, SessionsSound
<1>4. FilesTypeOK'
  BY <1>2 DEF FInv, FilesTypeOK, fileVars
<1>5. SourcesSound'
  BY <1>2, <1>3 DEF FInv, SourcesSound, Sent, Recorded, Exists, fileVars
<1>6. \A f \in Files : Referenced(f) => Referenced(f)'
  BY <1>2, <1>3 DEF Referenced, Recorded, fileVars
<1> QED BY <1>2, <1>4, <1>5, <1>6, BesideKeeps DEF fileVars

-----------------------------------------------------------------------------
(* Uploads and deletions. *)

LEMMA WriterFields ==
    ASSUME FilesTypeOK, NEW w \in Writers
    PROVE  /\ Busy(w) => /\ writer[w].key \in Files
                         /\ writer[w].op \in {"upload", "insert", "delete", "remove"}
           /\ Uploading(w) => /\ writer[w].row \in DocumentRow
                              /\ writer[w] \in [op : {"upload", "insert"}, key : Files, row : DocumentRow]
           /\ Busy(w) /\ ~Uploading(w) => writer[w] \in [op : {"delete", "remove"}, key : Files]
BY DEF FilesTypeOK, Busy, Uploading

\* One writer moves; requests and the sources of envelopes stay.
Moved(w) ==
    /\ \A v \in Writers \ {w} :
         /\ writer'[v] = writer[v]
         /\ Busy(v)' <=> Busy(v)
         /\ Uploading(v)' <=> Uploading(v)
         /\ \A k \in Files : WorksOn(v, k)' <=> WorksOn(v, k)
    /\ \A k \in Files : Referenced(k)' <=> Referenced(k)
    /\ \A k : k \in UnderWay <=> \E v \in Writers : Uploading(v) /\ writer[v].key = k
    /\ \A k : k \in UnderWay' <=> \E v \in Writers : Uploading(v)' /\ writer'[v].key = k

LEMMA ResumeMoves ==
    ASSUME FilesTypeOK, NEW w \in Writers, NEW x, Resume(w, x), UNCHANGED <<vars, source>>
    PROVE  writer'[w] = x /\ Moved(w)
<1>1. writer'[w] = x /\ \A v \in Writers \ {w} : writer'[v] = writer[v]
  BY DEF Resume, FilesTypeOK
<1>2. \A k \in Files : Referenced(k)' <=> Referenced(k)
  BY DEF Referenced, Recorded, vars
<1> QED BY <1>1, <1>2 DEF Moved, Busy, Uploading, WorksOn, UnderWay

LEMMA SourcesKept ==
    ASSUME FInv, UNCHANGED <<vars, source>>, \A k \in Files : Referenced(k) => Exists(k)'
    PROVE  SourcesSound'
BY DEF FInv, SourcesSound, Referenced, Sent, Recorded, Exists, vars

LEMMA ReferencedExists ==
    ASSUME FInv, NEW k \in Files, Referenced(k)
    PROVE  Exists(k)
BY DEF FInv, SourcesSound, Referenced

LEMMA BeginUploadKeeps ==
    ASSUME FInv, NEW w \in Writers, NEW t \in Titles, NEW k \in Files, BeginUpload(w, t, k)
    PROVE  FInv'
<1>1. PICK row : row = [title |-> t, version |-> NextVersion(t)]
  OBVIOUS
<1>2. PICK x : x = [op |-> "upload", key |-> k, row |-> row]
  OBVIOUS
<1>3. /\ ~Busy(w) /\ file[k] = "fresh" /\ UnderWay = {}
      /\ Resume(w, x)
      /\ UNCHANGED <<vars, document, file, source, torn>>
  BY <1>1, <1>2 DEF BeginUpload
<1>4. row \in DocumentRow
      /\ \A l \in Files : Exists(l) => document[l] # row
  <2>1. NextVersion(t) \in Nat \ {0}
        /\ \A l \in Files : Exists(l) /\ document[l].title = t
             => document[l].version < NextVersion(t)
    BY NextVersionAbove DEF FInv
  <2>2. row.title = t /\ row.version = NextVersion(t)
    BY <1>1
  <2> QED BY <1>1, <2>1, <2>2 DEF DocumentRow
<1>5. writer'[w] = x /\ Moved(w)
  BY <1>3, ResumeMoves DEF FInv
<1>6. /\ x.op = "upload" /\ x.key = k /\ x.row = row
      /\ Busy(w)' /\ Uploading(w)'
  BY <1>2, <1>5 DEF Busy, Uploading, Idle
<1>7. \A l : l \in UnderWay' <=> l \in UnderWay \/ l = k
  BY <1>3, <1>5, <1>6 DEF Moved, Uploading
<1>8. \A l \in Files : /\ Exists(l) => l # k
                       /\ Exists(l)' <=> Exists(l)
  BY <1>3 DEF FInv, RowsSound, FilesTypeOK, Exists
<1>9. FilesTypeOK'
  <2>1. x \in [op : {"upload", "insert"}, key : Files, row : DocumentRow]
    BY <1>2, <1>4
  <2> QED BY <1>3, <2>1 DEF FInv, FilesTypeOK, Resume
<1>10. WriterSound'
  BY <1>3, <1>5, <1>6, <1>7 DEF FInv, WriterSound, Moved, Uploading
<1>11. RowsSound'
  BY <1>3, <1>7, <1>8 DEF FInv, RowsSound
<1>12. Balanced'
  BY <1>3, <1>5, <1>8 DEF FInv, Balanced, Moved, WorksOn
<1>13. SourcesSound'
  BY <1>3, <1>8, SourcesKept, ReferencedExists
<1>14. VersionFree'
  BY <1>3, <1>4, <1>5, <1>6, <1>8, WriterFields DEF FInv, VersionFree, Moved, Uploading
<1>15. VersionsTell'
  BY <1>3, <1>8 DEF FInv, VersionsTell
<1> QED BY <1>9, <1>10, <1>11, <1>12, <1>13, <1>14, <1>15 DEF FInv

LEMMA PutFileKeeps ==
    ASSUME FInv, NEW w \in Writers, PutFile(w)
    PROVE  FInv'
<1>1. PICK k : k = writer[w].key
  OBVIOUS
<1>2. PICK x : x = [writer[w] EXCEPT !.op = "insert"]
  OBVIOUS
<1>3. /\ Busy(w) /\ writer[w].op = "upload" /\ Uploading(w)
      /\ Resume(w, x) /\ file' = [file EXCEPT ![k] = "stored"]
      /\ UNCHANGED <<vars, document, source, torn>>
  BY <1>1, <1>2 DEF PutFile, Uploading
<1>4. writer'[w] = x /\ Moved(w)
  BY <1>3, ResumeMoves DEF FInv
<1>5. /\ x.op = "insert" /\ x.key = k /\ x.row = writer[w].row /\ k \in Files
      /\ x \in [op : {"upload", "insert"}, key : Files, row : DocumentRow]
  BY <1>1, <1>2, <1>3, WriterFields DEF FInv
<1>6. Busy(w)' /\ Uploading(w)' /\ WorksOn(w, k)'
  BY <1>4, <1>5 DEF Busy, Uploading, WorksOn, Idle
<1>7. \A l : l \in UnderWay' <=> l \in UnderWay
  BY <1>1, <1>3, <1>4, <1>5, <1>6 DEF Moved
<1>8. /\ file[k] = "fresh" /\ file'[k] = "stored"
      /\ \A l \in Files \ {k} : file'[l] = file[l]
      /\ \A l \in Files : Exists(l)' <=> Exists(l)
  BY <1>1, <1>3, <1>5 DEF FInv, FilesTypeOK, WriterSound, Exists
<1>9. FilesTypeOK'
  BY <1>3, <1>5 DEF FInv, FilesTypeOK, Resume
<1>10. WriterSound'
  BY <1>1, <1>3, <1>4, <1>5, <1>6, <1>7, <1>8, WriterFields
     DEF FInv, WriterSound, Moved, Uploading
<1>11. RowsSound'
  BY <1>7, <1>8 DEF FInv, RowsSound
<1>12. Balanced'
  <2> SUFFICES ASSUME NEW l \in Files \ torn
               PROVE  \/ Exists(l)' <=> file'[l] = "stored"
                      \/ Exists(l)' /\ Referenced(l)'
                      \/ \E v \in Writers : WorksOn(v, l)' /\ writer'[v].op \in {"insert", "remove"}
    BY <1>3 DEF Balanced
  <2>1. CASE l = k
    BY <1>4, <1>5, <1>6, <2>1
  <2>2. CASE l # k
    BY <1>1, <1>3, <1>4, <1>8, <2>2 DEF FInv, Balanced, Moved, WorksOn
  <2> QED BY <2>1, <2>2
<1>13. SourcesSound'
  BY <1>3, <1>8, SourcesKept, ReferencedExists
<1>14. VersionFree'
  BY <1>1, <1>3, <1>4, <1>5, <1>6, <1>8 DEF FInv, VersionFree, Moved
<1>15. VersionsTell'
  BY <1>3, <1>8 DEF FInv, VersionsTell
<1> QED BY <1>9, <1>10, <1>11, <1>12, <1>13, <1>14, <1>15 DEF FInv

LEMMA InsertDocumentKeeps ==
    ASSUME FInv, NEW w \in Writers, InsertDocument(w)
    PROVE  FInv'
<1>1. PICK k : k = writer[w].key
  OBVIOUS
<1>2. PICK row : row = writer[w].row
  OBVIOUS
<1>3. /\ Busy(w) /\ writer[w].op = "insert" /\ Uploading(w)
      /\ Resume(w, Idle) /\ document' = [document EXCEPT ![k] = row]
      /\ UNCHANGED <<vars, file, source, torn>>
  BY <1>1, <1>2 DEF InsertDocument, Uploading
<1>4. writer'[w] = Idle /\ Moved(w) /\ ~Busy(w)' /\ ~Uploading(w)'
  BY <1>3, ResumeMoves DEF FInv, Busy, Uploading
<1>5. k \in Files /\ row \in DocumentRow
  BY <1>1, <1>2, <1>3, WriterFields DEF FInv
<1>6. /\ k \notin UnderWay'
      /\ \A l : l \in UnderWay' => l \in UnderWay
  BY <1>1, <1>3, <1>4 DEF Moved, FInv, WriterSound
<1>7. /\ Exists(k)' /\ document'[k] = row
      /\ \A l \in Files \ {k} : document'[l] = document[l] /\ (Exists(l)' <=> Exists(l))
      /\ file'[k] = "stored"
  BY <1>1, <1>3, <1>5, NoFileAssumption DEF FInv, FilesTypeOK, WriterSound, Exists
<1>8. FilesTypeOK'
  BY <1>3, <1>5 DEF FInv, FilesTypeOK, Resume
<1>9. WriterSound'
  BY <1>3, <1>4, <1>6 DEF FInv, WriterSound, Moved
<1>10. RowsSound'
  BY <1>3, <1>6, <1>7 DEF FInv, RowsSound
<1>11. Balanced'
  <2> SUFFICES ASSUME NEW l \in Files \ torn
               PROVE  \/ Exists(l)' <=> file'[l] = "stored"
                      \/ Exists(l)' /\ Referenced(l)'
                      \/ \E v \in Writers : WorksOn(v, l)' /\ writer'[v].op \in {"insert", "remove"}
    BY <1>3 DEF Balanced
  <2>1. CASE l = k
    BY <1>7, <2>1
  <2>2. CASE l # k
    BY <1>1, <1>3, <1>4, <1>7, <2>2 DEF FInv, Balanced, Moved, WorksOn
  <2> QED BY <2>1, <2>2
<1>12. SourcesSound'
  BY <1>3, <1>7, SourcesKept, ReferencedExists
<1>13. VersionFree'
  \* The upload that ends was the only one.
  <2>1. \A v \in Writers : ~Uploading(v)'
    BY <1>3, <1>4 DEF FInv, WriterSound, Moved
  <2> QED BY <2>1 DEF VersionFree
<1>14. VersionsTell'
  <2>1. \A l \in Files : Exists(l) => document[l] # row
    BY <1>2, <1>3 DEF FInv, VersionFree
  <2> QED BY <1>7, <2>1 DEF FInv, VersionsTell
<1> QED BY <1>8, <1>9, <1>10, <1>11, <1>12, <1>13, <1>14 DEF FInv

LEMMA BeginDeleteKeeps ==
    ASSUME FInv, NEW w \in Writers, NEW k \in Files, BeginDelete(w, k)
    PROVE  FInv'
<1>1. PICK x : x = [op |-> "delete", key |-> k]
  OBVIOUS
<1>2. /\ ~Busy(w) /\ Exists(k) /\ Resume(w, x)
      /\ UNCHANGED <<vars, document, file, source, torn>>
  BY <1>1 DEF BeginDelete
<1>3. writer'[w] = x /\ Moved(w)
  BY <1>2, ResumeMoves DEF FInv
<1>4. x.op = "delete" /\ x.key = k /\ ~Uploading(w)' /\ ~Uploading(w)
  BY <1>1, <1>2, <1>3 DEF Uploading
<1>5. \A l : l \in UnderWay' <=> l \in UnderWay
  BY <1>3, <1>4 DEF Moved
<1>6. \A l : Exists(l)' <=> Exists(l)
  BY <1>2 DEF Exists
<1>7. FilesTypeOK'
  <2>1. x \in [op : {"delete", "remove"}, key : Files]
    BY <1>1
  <2> QED BY <1>2, <2>1 DEF FInv, FilesTypeOK, Resume
<1>8. file[k] # "fresh" /\ k \notin UnderWay
  BY <1>2 DEF FInv, RowsSound
<1>9. WriterSound'
  BY <1>2, <1>3, <1>4, <1>5, <1>8 DEF FInv, WriterSound, Moved
<1>10. RowsSound'
  BY <1>2, <1>5, <1>6 DEF FInv, RowsSound
<1>11. Balanced'
  BY <1>2, <1>3, <1>6 DEF FInv, Balanced, Moved, WorksOn
<1>12. SourcesSound'
  BY <1>2, <1>6, SourcesKept, ReferencedExists
<1>13. VersionFree'
  BY <1>2, <1>3, <1>4, <1>6 DEF FInv, VersionFree, Moved
<1>14. VersionsTell'
  BY <1>2, <1>6 DEF FInv, VersionsTell
<1> QED BY <1>7, <1>9, <1>10, <1>11, <1>12, <1>13, <1>14 DEF FInv

LEMMA DropFileKeeps ==
    ASSUME FInv, NEW w \in Writers, DropFile(w)
    PROVE  FInv'
<1>1. PICK k : k = writer[w].key
  OBVIOUS
<1>2. PICK x : x = [writer[w] EXCEPT !.op = "remove"]
  OBVIOUS
<1>3. /\ Busy(w) /\ writer[w].op = "delete" /\ ~Uploading(w)
      /\ Resume(w, x) /\ file' = [file EXCEPT ![k] = "gone"]
      /\ UNCHANGED <<vars, document, source, torn>>
  BY <1>1, <1>2 DEF DropFile, FileDropped, Uploading
<1>4. writer'[w] = x /\ Moved(w)
  BY <1>3, ResumeMoves DEF FInv
<1>5. /\ x.op = "remove" /\ x.key = k /\ k \in Files
      /\ x \in [op : {"delete", "remove"}, key : Files]
  BY <1>1, <1>2, <1>3, WriterFields DEF FInv
<1>6. Busy(w)' /\ ~Uploading(w)' /\ WorksOn(w, k)'
  BY <1>4, <1>5 DEF Busy, Uploading, WorksOn, Idle
<1>7. \A l : l \in UnderWay' <=> l \in UnderWay
  BY <1>3, <1>4, <1>6 DEF Moved
<1>8. /\ file'[k] = "gone" /\ k \notin UnderWay
      /\ \A l \in Files \ {k} : file'[l] = file[l]
      /\ \A l \in Files : Exists(l)' <=> Exists(l)
  BY <1>1, <1>3, <1>5 DEF FInv, FilesTypeOK, WriterSound, Exists
<1>9. FilesTypeOK'
  BY <1>3, <1>5 DEF FInv, FilesTypeOK, Resume
<1>10. WriterSound'
  <2>1. ASSUME NEW v \in Writers, Uploading(v) PROVE v # w /\ writer[v].key # k
    BY <1>3, <1>8, <2>1 DEF Moved, UnderWay
  <2>2. \A v \in Writers \ {w} : Busy(v) /\ writer[v].op \in {"upload", "insert"} => Uploading(v)
    BY DEF Uploading
  <2> QED BY <1>3, <1>4, <1>5, <1>6, <1>7, <1>8, <2>1, <2>2, WriterFields
          DEF FInv, WriterSound, Moved
<1>11. RowsSound'
  BY <1>7, <1>8 DEF FInv, RowsSound
<1>12. Balanced'
  <2> SUFFICES ASSUME NEW l \in Files \ torn
               PROVE  \/ Exists(l)' <=> file'[l] = "stored"
                      \/ Exists(l)' /\ Referenced(l)'
                      \/ \E v \in Writers : WorksOn(v, l)' /\ writer'[v].op \in {"insert", "remove"}
    BY <1>3 DEF Balanced
  <2>1. CASE l = k
    BY <1>4, <1>5, <1>6, <2>1
  <2>2. CASE l # k
    BY <1>1, <1>3, <1>4, <1>8, <2>2 DEF FInv, Balanced, Moved, WorksOn
  <2> QED BY <2>1, <2>2
<1>13. SourcesSound'
  BY <1>3, <1>8, SourcesKept, ReferencedExists
<1>14. VersionFree'
  BY <1>3, <1>4, <1>6, <1>8 DEF FInv, VersionFree, Moved
<1>15. VersionsTell'
  BY <1>3, <1>8 DEF FInv, VersionsTell
<1> QED BY <1>9, <1>10, <1>11, <1>12, <1>13, <1>14, <1>15 DEF FInv

\* A writer that ends leaves the others as they are.
LEMMA EndMoves ==
    ASSUME FInv, NEW w \in Writers, Busy(w), Resume(w, Idle),
           UNCHANGED <<vars, source>>
    PROVE  /\ ~Busy(w)' /\ ~Uploading(w)' /\ Moved(w)
           /\ \A l : l \in UnderWay' => l \in UnderWay
<1>1. writer'[w] = Idle /\ Moved(w)
  BY ResumeMoves DEF FInv
<1> QED BY <1>1 DEF Busy, Uploading, Moved

LEMMA CommitDeleteKeeps ==
    ASSUME FInv, NEW w \in Writers, CommitDelete(w)
    PROVE  FInv'
<1>1. PICK k : k = writer[w].key
  OBVIOUS
<1>2. /\ Busy(w) /\ writer[w].op = "remove" /\ ~Referenced(k)
      /\ Resume(w, Idle) /\ document' = [document EXCEPT ![k] = None]
      /\ UNCHANGED <<vars, file, source, torn>>
  BY <1>1 DEF CommitDelete
<1>3. /\ ~Busy(w)' /\ ~Uploading(w)' /\ Moved(w)
      /\ \A l : l \in UnderWay' => l \in UnderWay
  BY <1>2, EndMoves
<1>4. k \in Files /\ file[k] = "gone"
  BY <1>1, <1>2, WriterFields DEF FInv, WriterSound
<1>5. /\ ~Exists(k)'
      /\ \A l \in Files \ {k} : document'[l] = document[l] /\ (Exists(l)' <=> Exists(l))
      /\ \A l \in Files : Exists(l)' => Exists(l) /\ document'[l] = document[l]
  BY <1>2, <1>4 DEF FInv, FilesTypeOK, Exists
<1>6. FilesTypeOK'
  BY <1>2 DEF FInv, FilesTypeOK, Resume
<1>7. WriterSound'
  BY <1>2, <1>3 DEF FInv, WriterSound, Moved
<1>8. RowsSound'
  BY <1>2, <1>3, <1>5 DEF FInv, RowsSound
<1>9. Balanced'
  <2> SUFFICES ASSUME NEW l \in Files \ torn
               PROVE  \/ Exists(l)' <=> file'[l] = "stored"
                      \/ Exists(l)' /\ Referenced(l)'
                      \/ \E v \in Writers : WorksOn(v, l)' /\ writer'[v].op \in {"insert", "remove"}
    BY <1>2 DEF Balanced
  <2>1. CASE l = k
    BY <1>2, <1>4, <1>5, <2>1
  <2>2. CASE l # k
    BY <1>1, <1>2, <1>3, <1>5, <2>2 DEF FInv, Balanced, Moved, WorksOn
  <2> QED BY <2>1, <2>2
<1>10. SourcesSound'
  BY <1>2, <1>5, SourcesKept, ReferencedExists
<1>11. VersionFree'
  BY <1>2, <1>3, <1>5 DEF FInv, VersionFree, Moved
<1>12. VersionsTell'
  BY <1>2, <1>5 DEF FInv, VersionsTell
<1> QED BY <1>6, <1>7, <1>8, <1>9, <1>10, <1>11, <1>12 DEF FInv

\* A writer ends and changes nothing but the record of who died half way.
LEMMA EndKeeps ==
    ASSUME FInv, NEW w \in Writers, Busy(w), Resume(w, Idle),
           UNCHANGED <<vars, document, file, source>>,
           torn \subseteq torn', torn' \subseteq Files,
           writer[w].op \in {"insert", "remove"}
             => (writer[w].key \in torn'
                   \/ (Exists(writer[w].key) /\ Referenced(writer[w].key)))
    PROVE  FInv'
<1>1. PICK k : k = writer[w].key
  OBVIOUS
<1>2. /\ ~Busy(w)' /\ ~Uploading(w)' /\ Moved(w)
      /\ \A l : l \in UnderWay' => l \in UnderWay
  BY EndMoves
<1>3. \A l : Exists(l)' <=> Exists(l)
  BY DEF Exists
<1>4. FilesTypeOK'
  BY DEF FInv, FilesTypeOK, Resume
<1>5. WriterSound'
  BY <1>2 DEF FInv, WriterSound, Moved
<1>6. RowsSound'
  BY <1>2, <1>3 DEF FInv, RowsSound
<1>7. Balanced'
  <2> SUFFICES ASSUME NEW l \in Files \ torn'
               PROVE  \/ Exists(l)' <=> file'[l] = "stored"
                      \/ Exists(l)' /\ Referenced(l)'
                      \/ \E v \in Writers : WorksOn(v, l)' /\ writer'[v].op \in {"insert", "remove"}
    BY DEF Balanced
  <2>1. l \in Files \ torn
    OBVIOUS
  <2>2. CASE \E v \in Writers : WorksOn(v, l) /\ writer[v].op \in {"insert", "remove"}
    <3>1. PICK v \in Writers : WorksOn(v, l) /\ writer[v].op \in {"insert", "remove"}
      BY <2>2
    <3>2. CASE v = w
      BY <1>2, <1>3, <3>1, <3>2 DEF Moved, WorksOn
    <3>3. CASE v # w
      BY <1>2, <3>1, <3>3 DEF Moved
    <3> QED BY <3>2, <3>3
  <2>3. CASE ~\E v \in Writers : WorksOn(v, l) /\ writer[v].op \in {"insert", "remove"}
    BY <1>2, <1>3, <2>1, <2>3 DEF FInv, Balanced, Moved
  <2> QED BY <2>2, <2>3
<1>8. SourcesSound'
  BY <1>3, SourcesKept, ReferencedExists
<1>9. VersionFree'
  BY <1>2, <1>3 DEF FInv, VersionFree, Moved
<1>10. VersionsTell'
  BY <1>3 DEF FInv, VersionsTell
<1> QED BY <1>4, <1>5, <1>6, <1>7, <1>8, <1>9, <1>10 DEF FInv

LEMMA RefuseDeleteKeeps ==
    ASSUME FInv, NEW w \in Writers, RefuseDelete(w)
    PROVE  FInv'
<1>1. Busy(w) /\ Referenced(writer[w].key) /\ writer[w].key \in Files
  BY WriterFields DEF RefuseDelete, FInv
<1>2. Exists(writer[w].key)
  BY <1>1, ReferencedExists
<1> QED BY <1>1, <1>2, EndKeeps DEF RefuseDelete, FInv, FilesTypeOK

LEMMA AbortWriterKeeps ==
    ASSUME FInv, NEW w \in Writers, AbortWriter(w)
    PROVE  FInv'
<1>1. Busy(w) /\ writer[w].key \in Files
  BY WriterFields DEF AbortWriter, FInv
<1>2. /\ Resume(w, Idle)
      /\ UNCHANGED <<vars, document, file, source>>
      /\ torn \subseteq torn'
      /\ torn' \subseteq Files
  BY <1>1 DEF AbortWriter, FInv, FilesTypeOK
<1>3. writer[w].op \in {"insert", "remove"} => writer[w].key \in torn'
  BY DEF AbortWriter
<1> QED BY <1>1, <1>2, <1>3, EndKeeps

LEMMA WritingKeeps ==
    ASSUME FInv, Writing
    PROVE  FInv'
BY BeginUploadKeeps, PutFileKeeps, InsertDocumentKeeps, BeginDeleteKeeps, DropFileKeeps,
   CommitDeleteKeeps, RefuseDeleteKeeps, AbortWriterKeeps DEF Writing

LEMMA FilesStepKeeps ==
    FInv /\ IInv /\ IInv' /\ [FilesNext]_<<vars, fileVars>> => FInv'
<1> SUFFICES ASSUME FInv, IInv, IInv', [FilesNext]_<<vars, fileVars>>
             PROVE  FInv'
  OBVIOUS
<1>1. CASE Sending
  BY <1>1, SendKeeps, InsertKeeps DEF Sending
<1>2. CASE UNCHANGED <<vars, fileVars>>
  <2>1. FilesTypeOK' /\ SourcesSound' /\ \A k \in Files : Referenced(k) => Referenced(k)'
    BY <1>2 DEF FInv, FilesTypeOK, SourcesSound, Referenced, Sent, Recorded, Exists,
                vars, fileVars
  <2> QED BY <1>2, <2>1, BesideKeeps DEF fileVars
<1> QED BY <1>1, <1>2, OthersKeep, WritingKeeps DEF FilesNext

LEMMA FilesInvariant == FilesSpec => []FInv
BY InitFiles, FilesStepKeeps, RequestsSound, PTL DEF FilesSpec

\* Rows, files, sources and requests in flight keep their types.
THEOREM FilesTypeCorrect == FilesSpec => []FilesTypeOK
<1>1. FInv => FilesTypeOK
  BY DEF FInv
<1> QED BY <1>1, FilesInvariant, PTL

\* No signature request outlives the document it was sent from, however a
\* deletion and create_and_send interleave.
THEOREM SourceStays == FilesSpec => []SourceKept
<1>1. FInv => SourceKept
  BY NoFileAssumption DEF FInv, SourcesSound, SourceKept
<1> QED BY <1>1, FilesInvariant, PTL

\* Database and object storage agree about every document but those that an
\* upload or a deletion is working on, died over, or was refused to delete.
THEOREM RowsMatchFiles == FilesSpec => []StoresAgree
<1>1. FInv => StoresAgree
  BY DEF FInv, Balanced, StoresAgree
<1> QED BY <1>1, FilesInvariant, PTL

\* The versions of a title differ, for any number of uploads and of deletions
\* that run beside them (get_latest_version).
THEOREM VersionsTellApart == FilesSpec => []VersionsTell
<1>1. FInv => VersionsTell
  BY DEF FInv
<1> QED BY <1>1, FilesInvariant, PTL
=============================================================================
