------------------------------- MODULE DocSync -------------------------------
(***************************************************************************)
(* Asking the network for the latest version of documents (SyncDocuments)  *)
(* or of a branchable collection (SyncBranchableCollection).  The request  *)
(* is broadcast; every subscribed peer that is there answers with the      *)
(* heads it has; the caller fetches and merges each head as the answers    *)
(* come in, until all peers that were active at the start have answered or *)
(* its deadline passes.  Answers may be errors, be late, come twice, or    *)
(* never come, and a peer that was not active at the start may answer too. *)
(* db.Merge returns no error when it gives up after MaxTxnRetries          *)
(* conflicts, so the caller takes such a head for merged.                  *)
(***************************************************************************)
EXTENDS Naturals, FiniteSets

CONSTANTS
    Peers, Docs, Cids,
    MaxAnswers   \* bound: how often a peer's answer is delivered

VARIABLES
    mode,       \* "documents" or "collection" (then Docs is the collection)
    requested,  \* the docIDs asked for
    heads,      \* heads[p][d]: the heads peer p has of d
    answer,     \* answer[p]: "none", "sent", "error", "lost"; then "handled", "refused"
    answers,    \* answers[p]: how often p has answered
    pending,    \* pendingPeers
    results,    \* results[d]: heads seen (results), or merged (syncedHeads)
    merged,     \* heads whose sync and merge succeeded
    failed,     \* history: heads of which an attempt failed
    gaveUp,     \* history: heads whose merge was given up without an error
    told,       \* history: peers whose heads have been handled
    status      \* "start", "waiting", "ok", "timeout", "error"

dvars == <<mode, requested, heads, answer, answers, pending, results, merged, failed,
           gaveUp, told, status>>

Init ==
    /\ mode \in {"documents", "collection"}
    /\ requested \in IF mode = "documents" THEN SUBSET Docs ELSE {Docs}
    /\ heads \in [Peers -> [Docs -> SUBSET Cids]]
    \* a commit is a commit of one document
    /\ \A p, q \in Peers, d, e \in Docs : d # e => heads[p][d] \cap heads[q][e] = {}
    /\ answer = [p \in Peers |-> "none"]
    /\ answers = [p \in Peers |-> 0]
    /\ pending = {}
    /\ results = [d \in Docs |-> {}]
    /\ merged = {} /\ failed = {} /\ gaveUp = {} /\ told = {}
    /\ status = "start"

\* without an active peer the call gives up at once
Request ==
    /\ status = "start"
    /\ \E active \in SUBSET Peers :
        /\ pending' = active
        /\ status' = IF active = {} THEN "timeout" ELSE "waiting"
    /\ UNCHANGED <<mode, requested, heads, answer, answers, results, merged, failed, gaveUp, told>>

\* docSyncMessageHandler, syncBranchableCollectionMessageHandler: an answer
\* lists the heads of what this peer has, or is an error; it may be lost, and
\* it may be delivered again
Answer(p) ==
    /\ status # "start" /\ answer[p] \notin {"sent", "error"}
    /\ answers[p] < MaxAnswers
    /\ answers' = [answers EXCEPT ![p] = @ + 1]
    /\ \E a \in {"sent", "error", "lost"} : answer' = [answer EXCEPT ![p] = a]
    /\ UNCHANGED <<mode, requested, heads, pending, results, merged, failed, gaveUp, told, status>>

\* the heads of a reply that are tried: of a document asked for, not seen yet
ToTry(p, d) == IF d \in requested THEN heads[p][d] \ results[d] ELSE {}

\* syncAndMerge of the heads cs: each is merged, or given up without an error,
\* or fails
Attempt(cs, bad) ==
    \E quit \in SUBSET (cs \ bad) :
        /\ merged' = merged \cup (cs \ (bad \cup quit))
        /\ gaveUp' = gaveUp \cup quit
        /\ failed' = failed \cup bad

\* handleDocSyncResponse: a head is recorded as seen before it is fetched, so
\* one that fails is not tried again when another peer offers it
HandleDocReply(p) ==
    /\ mode = "documents" /\ answer[p] = "sent"
    /\ LET try == UNION {ToTry(p, d) : d \in Docs}
       IN \E bad \in SUBSET try : Attempt(try, bad)
    /\ results' = [d \in Docs |-> results[d] \cup ToTry(p, d)]
    /\ pending' = pending \ {p}
    /\ status' = IF pending \ {p} = {} THEN "ok" ELSE status

HandleDocError(p) ==
    /\ mode = "documents" /\ answer[p] = "error"
    /\ pending' = pending \ {p}
    /\ status' = IF pending \ {p} = {} THEN "ok" ELSE status
    /\ UNCHANGED <<results, merged, failed, gaveUp>>

\* Mutant: a head that fails is passed over.
HandleCollectionReplyLeniently(p) ==
    /\ mode = "collection" /\ answer[p] = "sent"
    /\ LET try == UNION {ToTry(p, d) : d \in Docs}
       IN \E bad \in SUBSET try : Attempt(try, bad)
    /\ results' = [d \in Docs |-> results[d] \cup ToTry(p, d)]
    /\ pending' = pending \ {p}
    /\ status' = IF pending \ {p} = {} THEN "ok" ELSE status

\* handleSyncBranchableCollectionResponse: a head is recorded once its merge
\* has returned without an error, and the first that fails ends the call
HandleCollectionReply(p) ==
    /\ mode = "collection" /\ answer[p] = "sent"
    /\ LET try == UNION {ToTry(p, d) : d \in Docs}
       IN \/ /\ Attempt(try, {})
             /\ results' = [d \in Docs |-> results[d] \cup ToTry(p, d)]
             /\ pending' = pending \ {p}
             /\ status' = IF pending \ {p} = {} THEN "ok" ELSE status
          \/ \E bad \in try, ok \in SUBSET try :
             /\ bad \notin ok
             /\ Attempt(ok \cup {bad}, {bad})
             /\ results' = [d \in Docs |-> results[d] \cup (ToTry(p, d) \cap ok)]
             /\ status' = "error"
             /\ UNCHANGED pending

HandleCollectionError(p) ==
    /\ mode = "collection" /\ answer[p] = "error"
    /\ status' = "error"
    /\ UNCHANGED <<pending, results, merged, failed, gaveUp>>

Handle(p) ==
    /\ status = "waiting"
    /\ \/ HandleDocReply(p) \/ HandleDocError(p)
       \/ HandleCollectionReply(p) \/ HandleCollectionError(p)
    /\ answer' = [answer EXCEPT ![p] = IF @ = "sent" THEN "handled" ELSE "refused"]
    /\ told' = IF answer[p] = "sent" THEN told \cup {p} ELSE told
    /\ UNCHANGED <<mode, requested, heads, answers>>

\* the deadline: what was found is enough, nothing found is an error
Deadline ==
    /\ status = "waiting"
    /\ status' = IF \A d \in Docs : results[d] = {} THEN "timeout" ELSE "ok"
    /\ UNCHANGED <<mode, requested, heads, answer, answers, pending, results, merged, failed,
                   gaveUp, told>>

Next == Request \/ Deadline \/ (\E p \in Peers : Answer(p) \/ Handle(p))

Spec == Init /\ [][Next]_dvars /\ WF_dvars(Request) /\ WF_dvars(Deadline)

TypeOK ==
    /\ requested \subseteq Docs /\ pending \subseteq Peers
    /\ merged \cup failed \cup gaveUp \subseteq Cids /\ told \subseteq Peers
    /\ status \in {"start", "waiting", "ok", "timeout", "error"}

Told(d) == UNION {heads[p][d] : p \in told}

\* A sync that succeeds has merged every head it was told of, except those whose
\* merge db.Merge gave up without an error (merge.go:72) and, when it syncs
\* documents, those an attempt to fetch or merge failed for; and nothing is
\* merged that no peer told of or that was not asked for.  This is so however
\* late, often or mixed with errors the peers' answers come.
SuccessMeansMerged ==
    /\ status = "ok" =>
        \A d \in requested :
            Told(d) \subseteq merged \cup gaveUp \cup (IF mode = "documents" THEN failed ELSE {})
    /\ merged \subseteq UNION {Told(d) : d \in requested}

\* Not kept: a sync that succeeds has merged every head it was told of.
SuccessMeansAllMerged ==
    status = "ok" => \A d \in requested : Told(d) \subseteq merged

\* The call blocks until there is a response for all the docIDs listed.
AllAnswered ==
    status = "ok" /\ mode = "documents" => \A d \in requested : results[d] # {}

-----------------------------------------------------------------------------
(* What the proofs rest on. *)

Types ==
    /\ TypeOK
    /\ mode \in {"documents", "collection"}
    /\ heads \in [Peers -> [Docs -> SUBSET Cids]]
    /\ answer \in [Peers -> {"none", "sent", "error", "lost", "handled", "refused"}]
    /\ answers \in [Peers -> 0 .. MaxAnswers]
    /\ results \in [Docs -> SUBSET Cids]

\* As long as no head has ended the call, every head that was told of is
\* recorded; and what is recorded was merged or given up, or tried in the case of
\* documents.
RecordInv ==
    /\ status # "error" => \A d \in requested : Told(d) \subseteq results[d]
    /\ \A d \in Docs :
          results[d] \subseteq merged \cup gaveUp \cup (IF mode = "documents" THEN failed ELSE {})

IndInv == Types /\ RecordInv /\ merged \subseteq UNION {Told(d) : d \in requested}
=============================================================================
