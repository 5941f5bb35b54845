-------------------------- MODULE MCContractFiles --------------------------
EXTENDS ContractFiles, TLC

\* Addresses, keys and requests are interchangeable (only safety is checked).
Interchangeable ==
    Permutations(Emails) \cup Permutations(Archives) \cup Permutations(Sessions)
        \cup Permutations(Files) \cup Permutations(Writers)

OnlySent ==
    /\ now = 0
    /\ \A s \in Sessions : session[s].op \in {"idle", "send"}
    /\ \A d \in Docs : Sent(d) =>
         /\ ~envelope[d].deleted
         /\ envelope[d].signed \cup envelope[d].rejected = {}
         /\ \A r, q \in Recipients : envelope[d].email[r] = envelope[d].email[q]

OneAtRest ==
    /\ \E k \in Files : {l \in Files : file[l] # "fresh"} = {k} /\ Exists(k)
    /\ \A k \in Files : Exists(k) => file[k] = "stored"
    /\ torn = {} /\ \A w \in Writers : writer[w] = Idle

\* Bound on what is combined. Signers, voids and webhooks share no variable
\* with uploads and deletions but the existence of a request, which they do
\* not change, and no invariant here speaks of both: each is explored in full
\* against sends, the documents while a request is no more than sent, and
\* what becomes of it beside one document at rest.
Apart == (OnlySent \/ OneAtRest)'
=============================================================================
