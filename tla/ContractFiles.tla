--------------------------- MODULE ContractFiles ---------------------------
(***************************************************************************)
(* The documents of a contract: rows in contract_documents, files in       *)
(* object storage, and the signature requests sent from them.              *)
(*                                                                         *)
(* No transaction spans the database and the object storage. An upload     *)
(* stores the file and then commits the row, a deletion removes the file   *)
(* and then commits the removal of the row; each can die in between, and   *)
(* others run meanwhile (`writer'). Deletions and sends run in the thread  *)
(* pool and overlap; the route of uploads is a coroutine that awaits       *)
(* nothing once it has the file, so in the one process they run one by     *)
(* one. A signature request refers to the row of its source by a foreign   *)
(* key, which the database enforces.                                       *)
(*                                                                         *)
(* The module extends SignatureRequests: sending needs a document, and     *)
(* nothing else there reads or writes what is added here.                  *)
(***************************************************************************)
EXTENDS SignatureRequests

CONSTANTS
    Files,          \* keys in object storage, a fresh one for every upload
    Titles,         \* titles of documents; versions are counted per title
    Writers         \* uploads and deletions that can be in flight at once

VARIABLES
    document,       \* contract_documents: the row of a file, or None
    file,           \* object storage
    source,         \* the document an envelope was made from, or None
    writer,         \* uploads and deletions in flight
    torn            \* history: files whose upload or deletion died half way

fileVars == <<document, file, source, writer, torn>>

DocumentRow == [title : Titles, version : Nat \ {0}]

ASSUME FilesAssumption == IsFiniteSet(Files)

ASSUME NoFileAssumption == None \notin Files \cup DocumentRow

FilesTypeOK ==
    /\ document \in [Files -> DocumentRow \cup {None}]
    /\ file \in [Files -> {"fresh", "stored", "gone"}]
    /\ source \in [Docs -> Files \cup {None}]
    /\ writer \in [Writers -> {Idle}
         \cup [op : {"upload", "insert"}, key : Files, row : DocumentRow]
         \cup [op : {"delete", "remove"}, key : Files]]
    /\ torn \subseteq Files

FilesInit ==
    /\ Init
    /\ document = [k \in Files |-> None]
    /\ file = [k \in Files |-> "fresh"]
    /\ source = [d \in Docs |-> None]
    /\ writer = [w \in Writers |-> Idle]
    /\ torn = {}

-----------------------------------------------------------------------------
Exists(k) == document[k] # None

Busy(w) == writer[w] # Idle

WorksOn(w, k) == Busy(w) /\ writer[w].key = k

Uploading(w) == Busy(w) /\ writer[w].op \in {"upload", "insert"}

UnderWay == {writer[w].key : w \in {x \in Writers : Uploading(x)}}

Versions(t) ==
    {document[k].version : k \in {f \in Files : Exists(f) /\ document[f].title = t}}

\* Variant: versions are counted rather than compared.
VersionByCount(t) == Cardinality(Versions(t)) + 1

\* Variant: versions from 0.
VersionFromZero(t) == Max(Versions(t) \cup {-1}) + 1

\* get_latest_version, plus one.
NextVersion(t) == Max(Versions(t) \cup {0}) + 1

\* Variant: the schema without its foreign key.
NoForeignKey(k) == FALSE

\* The foreign key signature_requests.source_document_id.
Referenced(k) == \E d \in Docs : Recorded(d) /\ source[d] = k

Resume(w, step) == writer' = [writer EXCEPT ![w] = step]

-----------------------------------------------------------------------------
(* upload_contract_document *)

\* The file is clean and of a type that is allowed; the version is computed
\* from the rows committed by now.
BeginUpload(w, t, k) ==
    /\ ~Busy(w) /\ UnderWay = {}
    /\ file[k] = "fresh"
    /\ Resume(w, [op |-> "upload", key |-> k,
                  row |-> [title |-> t, version |-> NextVersion(t)]])
    /\ UNCHANGED <<vars, document, file, source, torn>>

PutFile(w) ==
    /\ Busy(w) /\ writer[w].op = "upload"
    /\ file' = [file EXCEPT ![writer[w].key] = "stored"]
    /\ Resume(w, [writer[w] EXCEPT !.op = "insert"])
    /\ UNCHANGED <<vars, document, source, torn>>

\* The row, the audit entry and the notices, committed as one.
InsertDocument(w) ==
    /\ Busy(w) /\ writer[w].op = "insert"
    /\ document' = [document EXCEPT ![writer[w].key] = writer[w].row]
    /\ Resume(w, Idle)
    /\ UNCHANGED <<vars, file, source, torn>>

-----------------------------------------------------------------------------
(* delete_contract_document *)

BeginDelete(w, k) ==
    /\ ~Busy(w)
    /\ Exists(k)
    /\ Resume(w, [op |-> "delete", key |-> k])
    /\ UNCHANGED <<vars, document, file, source, torn>>

\* Variant: the row is removed and the file forgotten.
FileKept(k) == file

FileDropped(k) == [file EXCEPT ![k] = "gone"]

\* Storage deletes a key whether it holds a file or not.
DropFile(w) ==
    /\ Busy(w) /\ writer[w].op = "delete"
    /\ file' = FileDropped(writer[w].key)
    /\ Resume(w, [writer[w] EXCEPT !.op = "remove"])
    /\ UNCHANGED <<vars, document, source, torn>>

\* A row that another deletion has removed meanwhile is no error.
CommitDelete(w) ==
    /\ Busy(w) /\ writer[w].op = "remove"
    /\ ~Referenced(writer[w].key)
    /\ document' = [document EXCEPT ![writer[w].key] = None]
    /\ Resume(w, Idle)
    /\ UNCHANGED <<vars, file, source, torn>>

\* The foreign key refuses: the row stays, the file is gone.
RefuseDelete(w) ==
    /\ Busy(w) /\ writer[w].op = "remove"
    /\ Referenced(writer[w].key)
    /\ Resume(w, Idle)
    /\ UNCHANGED <<vars, document, file, source, torn>>

\* Storage or the database fails, or the process dies.
AbortWriter(w) ==
    /\ Busy(w)
    /\ torn' = torn \cup {k \in {writer[w].key} : writer[w].op \in {"insert", "remove"}}
    /\ Resume(w, Idle)
    /\ UNCHANGED <<vars, document, file, source>>

-----------------------------------------------------------------------------
(* Sending a document, and what SignatureRequests does besides. *)

\* create_and_send reads the row, downloads the file, then sends it. The three
\* are one step: whoever deletes the document after the download might as
\* well have done so after the sending.
SendDocument(s, d, email, k) ==
    /\ SendEnvelope(s, d, email)
    /\ Exists(k) /\ file[k] = "stored"
    /\ source' = [source EXCEPT ![d] = k]
    /\ UNCHANGED <<document, file, writer, torn>>

\* The foreign key refuses the request of a document that is gone: what is
\* left to create_and_send then is Abort.
InsertWithSource(s) ==
    /\ InsertRequest(s)
    /\ Exists(source[session[s].doc])
    /\ UNCHANGED fileVars

Sending == \E s \in Sessions :
    \/ \E d \in Docs, email \in [Recipients -> Emails], k \in Files :
         SendDocument(s, d, email, k)
    \/ InsertWithSource(s)

Others ==
    /\ \/ Signers
       \/ Webhooks
       \/ Tick
       \/ \E s \in Sessions :
            \/ \E d \in Docs : ReadForVoid(s, d)
            \/ DeleteEnvelope(s)
            \/ CommitVoid(s)
            \/ Abort(s)
    /\ UNCHANGED fileVars

Writing == \E w \in Writers :
    \/ \E t \in Titles, k \in Files : BeginUpload(w, t, k)
    \/ PutFile(w)
    \/ InsertDocument(w)
    \/ \E k \in Files : BeginDelete(w, k)
    \/ DropFile(w)
    \/ CommitDelete(w)
    \/ RefuseDelete(w)
    \/ AbortWriter(w)

FilesNext == Sending \/ Others \/ Writing

FilesSpec == FilesInit /\ [][FilesNext]_<<vars, fileVars>>

-----------------------------------------------------------------------------
\* A recorded signature request has the row of the document it was sent from,
\* whatever deletions ran while it was being sent (create_and_send inserts
\* after it sent; delete_contract_document reads the row and removes it later).
SourceKept ==
    \A d \in Docs : Recorded(d) => source[d] # None /\ Exists(source[d])

\* Rows and files agree about every document that nothing is under way for
\* and nothing died half way for, except that a document somebody tried to
\* delete although a signature request refers to it has lost its file
\* (upload_contract_document and delete_contract_document, in any overlap).
StoresAgree ==
    \A k \in Files \ torn :
        (\A w \in Writers : ~WorksOn(w, k))
            => \/ Exists(k) <=> file[k] = "stored"
               \/ Exists(k) /\ Referenced(k)

\* Two documents of one title never have the same version, however many were
\* deleted before or while a new one was uploaded (get_latest_version is read
\* before the file is stored). A version whose row is gone may come again.
VersionsTell ==
    \A k, l \in Files :
        k # l /\ Exists(k) /\ Exists(l) => document[k] # document[l]
=============================================================================
