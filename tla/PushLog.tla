------------------------------- MODULE PushLog -------------------------------
(***************************************************************************)
(* How a node takes in a block from the network: processPushlogRequest and *)
(* the merge it ends in (DB.Merge), run by one goroutine per request, with *)
(* the document sync path (syncDocumentAndMerge), which merges without the *)
(* process queue.  It composes the two keyed queues (module WorkQueue) and *)
(* the local writers whose commits make a merge's transaction conflict.    *)
(*                                                                         *)
(* What a merge does to a document is module MerkleDoc; here a block is    *)
(* stored or not, merged or not, and a transaction only knows which of its *)
(* documents were committed to since it began, which is what makes it      *)
(* conflict.                                                               *)
(***************************************************************************)
EXTENDS Naturals, FiniteSets

CONSTANTS
    Requests,       \* the requests received
    Cids,           \* composite and collection commits
    Docs,
    Ancestors,      \* Ancestors[c]: every commit below c, heads and links
    Touches,        \* Touches[c]: the documents a merge of c reads and writes
    CollectionOf,   \* the key of the collection's queue, not a document
    MaxTxnRetries,  \* DB.MaxTxnRetries
    MaxWrites       \* bound: local commits to a document

VARIABLES
    branchable,         \* col.Version().IsBranchable
    kind, cid,          \* kind[r]: "replicator", "pubsub" or "sync"; cid[r]: its head
    loc,                \* loc[r]: where the goroutine is
    pkeys, ppc, pkey,   \* P2P.processQueue
    mkeys, mpc, mkey,   \* DB.docMergeQueue, or DB.colMergeQueue
    stored,             \* blocks in the blockstore
    merged,             \* blocks marked as merged
    writes,             \* commits of local writers to a document
    stale, tries,       \* stale[r]: documents committed to since r's transaction
                        \* began; tries[r]: r's conflicts so far
    announced           \* requests that published their Update event

procq == <<pkeys, ppc, pkey>>
mergeq == <<mkeys, mpc, mkey>>
store == <<stored, merged, writes>>
vars == <<branchable, kind, cid, loc, procq, mergeq, store, stale, tries, announced>>

ProcessQueue == INSTANCE WorkQueue
    WITH Workers <- Requests, Keys <- Cids, keys <- pkeys, pc <- ppc, key <- pkey

MergeKeys == Docs \cup {CollectionOf}

MergeQueue == INSTANCE WorkQueue
    WITH Workers <- Requests, Keys <- MergeKeys, keys <- mkeys, pc <- mpc, key <- mkey

Lineage(c) == {c} \cup Ancestors[c]

Init ==
    /\ branchable \in BOOLEAN
    /\ kind \in [Requests -> {"replicator", "pubsub", "sync"}]
    /\ cid \in [Requests -> Cids]
    \* only a branchable collection has commits of its own
    /\ \A r \in Requests : \A c \in Lineage(cid[r]) : ~branchable => Touches[c] # Docs
    /\ loc = [r \in Requests |-> "start"]
    /\ pkeys = {} /\ ppc = [r \in Requests |-> "idle"]
    /\ pkey = cid
    /\ mkeys = {} /\ mpc = [r \in Requests |-> "idle"]
    /\ mkey = [r \in Requests |-> CollectionOf]
    /\ stored = {} /\ merged = {}
    /\ writes = [d \in Docs |-> 0]
    /\ stale = [r \in Requests |-> {}]
    /\ tries = [r \in Requests |-> 0]
    /\ announced = {}

Goto(r, l) == loc' = [loc EXCEPT ![r] = l]
Fixed == UNCHANGED <<branchable, kind, cid>>

(***************************************************************************)
(* processPushlogRequest                                                   *)
(***************************************************************************)

\* the process queue; a request that cannot be decoded returns before it
Receive(r) ==
    /\ loc[r] = "start" /\ kind[r] # "sync"
    /\ \/ /\ ProcessQueue!Add(r, cid[r])
          /\ Goto(r, "queued")
       \/ /\ Goto(r, "done")
          /\ UNCHANGED procq
    /\ Fixed /\ UNCHANGED <<mergeq, store, stale, tries, announced>>

ReceiveAgain(r) ==
    /\ loc[r] = "queued"
    /\ ProcessQueue!AddAgain(r)
    /\ Fixed /\ UNCHANGED <<loc, mergeq, store, stale, tries, announced>>

\* a block that is already merged is not handled again; a block received over
\* pubsub only if the node may read it, or the access check may fail
CheckMerged(r) ==
    /\ loc[r] = "queued" /\ ppc[r] = "working"
    /\ \/ cid[r] \notin merged /\ Goto(r, "syncing")
       \/ cid[r] \in merged /\ Goto(r, "return")
       \/ cid[r] \notin merged /\ kind[r] = "pubsub" /\ Goto(r, "return")
    /\ Fixed /\ UNCHANGED <<procq, mergeq, store, stale, tries, announced>>

\* the document sync path loads the head it was told of and goes on from there
SyncHead(r) ==
    /\ loc[r] = "start" /\ kind[r] = "sync"
    /\ \/ Goto(r, "syncing") \/ Goto(r, "done")
    /\ Fixed /\ UNCHANGED <<procq, mergeq, store, stale, tries, announced>>

\* Mutant: the walk stops at blocks that are stored, not at merged ones.
ToLoadUnstored(r) == Lineage(cid[r]) \ UNION {Lineage(c) : c \in stored}

\* the blocks loadBlockLinks loads: it stops at blocks already merged
ToLoad(r) ==
    IF cid[r] \in merged THEN {}
    ELSE Lineage(cid[r]) \ UNION {Lineage(c) : c \in merged}

\* syncDAG stores the head, then loads what is below it until a load fails
SyncDAG(r) ==
    /\ loc[r] = "syncing"
    /\ \/ /\ stored' = stored \cup {cid[r]} \cup ToLoad(r)
          /\ Goto(r, "synced")
       \/ /\ \E got \in SUBSET ToLoad(r) : stored' = stored \cup {cid[r]} \cup got
          /\ Goto(r, "return")
    /\ Fixed /\ UNCHANGED <<procq, mergeq, merged, writes, stale, tries, announced>>

(***************************************************************************)
(* DB.Merge                                                                *)
(***************************************************************************)

\* Mutant: in a branchable collection too, a document's commit queues for the document.
MergeKeyOfDocument(r) ==
    IF Touches[cid[r]] = Docs THEN CollectionOf ELSE CHOOSE d \in Touches[cid[r]] : TRUE

\* merges of a branchable collection share one key: a collection commit links
\* to the commits of its documents
MergeKey(r) == IF branchable THEN CollectionOf ELSE CHOOSE d \in Touches[cid[r]] : TRUE

\* the collection is looked up first, which may fail
EnqueueMerge(r) ==
    /\ loc[r] = "synced"
    /\ \/ /\ MergeQueue!Add(r, MergeKey(r))
          /\ Goto(r, "mergeQueued")
       \/ /\ Goto(r, "return")
          /\ UNCHANGED mergeq
    /\ Fixed /\ UNCHANGED <<procq, store, stale, tries, announced>>

EnqueueAgain(r) ==
    /\ loc[r] = "mergeQueued"
    /\ MergeQueue!AddAgain(r)
    /\ Fixed /\ UNCHANGED <<loc, procq, store, stale, tries, announced>>

\* one attempt begins its transaction; after MaxTxnRetries conflicts the loop
\* ends and Merge returns nil
BeginMerge(r) ==
    /\ loc[r] = "mergeQueued" /\ mpc[r] = "working"
    /\ IF tries[r] < MaxTxnRetries
       THEN Goto(r, "merging") ELSE Goto(r, "mergeReturned")
    /\ Fixed /\ UNCHANGED <<procq, mergeq, store, stale, tries, announced>>

\* committing to documents makes the open transactions that touch them stale
CommitTo(r, ds) ==
    stale' = [s \in Requests |-> IF s = r \/ loc[s] # "merging" THEN {}
                                ELSE stale[s] \cup (ds \cap Touches[cid[s]])]

\* the blocks to merge, all of which must be in the blockstore
ToMerge(r) == IF cid[r] \in merged THEN {} ELSE Lineage(cid[r]) \ merged

\* executeMerge up to its commit.  A block that is missing, or anything else
\* that fails while merging, is an error and is not retried
CommitMerge(r) ==
    /\ loc[r] = "merging"
    /\ \/ /\ stale[r] = {} /\ ToMerge(r) \subseteq stored
          /\ merged' = merged \cup ToMerge(r)
          /\ CommitTo(r, IF ToMerge(r) = {} THEN {} ELSE Touches[cid[r]])
          /\ Goto(r, "mergeReturned")
          /\ UNCHANGED tries
       \/ /\ stale[r] # {} /\ ToMerge(r) \subseteq stored
          /\ tries' = [tries EXCEPT ![r] = @ + 1]
          /\ Goto(r, "mergeQueued")
          /\ CommitTo(r, {}) /\ UNCHANGED merged
       \/ /\ Goto(r, "mergeFailed")
          /\ CommitTo(r, {}) /\ UNCHANGED <<merged, tries>>
    /\ Fixed /\ UNCHANGED <<procq, mergeq, stored, writes, announced>>

\* the deferred done; a merge that failed ends the request with its error
LeaveMergeQueue(r) ==
    /\ loc[r] \in {"mergeReturned", "mergeFailed"}
    /\ MergeQueue!Done(r)
    /\ Goto(r, IF loc[r] = "mergeReturned" /\ kind[r] # "sync" THEN "announce" ELSE "return")
    /\ Fixed /\ UNCHANGED <<procq, store, stale, tries, announced>>

\* the Update event, to the bus and to the other peers
Announce(r) ==
    /\ loc[r] = "announce"
    /\ announced' = announced \cup {r}
    /\ Goto(r, "return")
    /\ Fixed /\ UNCHANGED <<procq, mergeq, store, stale, tries>>

\* Mutant: done is called at the end of the function only, and not deferred.
ReturnUndeferred(r) ==
    /\ loc[r] = "return"
    /\ Goto(r, "done")
    /\ IF r \in announced THEN ProcessQueue!Done(r) ELSE UNCHANGED procq
    /\ Fixed /\ UNCHANGED <<mergeq, store, stale, tries, announced>>

\* the deferred done of the process queue
Return(r) ==
    /\ loc[r] = "return"
    /\ Goto(r, "done")
    /\ IF kind[r] = "sync" THEN UNCHANGED procq ELSE ProcessQueue!Done(r)
    /\ Fixed /\ UNCHANGED <<mergeq, store, stale, tries, announced>>

\* a local write commits between any two steps of the merges
LocalWrite(d) ==
    /\ writes[d] < MaxWrites
    /\ stale' = [s \in Requests |-> IF loc[s] = "merging"
                                    THEN stale[s] \cup ({d} \cap Touches[cid[s]]) ELSE {}]
    /\ writes' = [writes EXCEPT ![d] = @ + 1]
    /\ Fixed
    /\ UNCHANGED <<loc, procq, mergeq, stored, merged, tries, announced>>

Handle(r) == \/ Receive(r) \/ ReceiveAgain(r) \/ CheckMerged(r) \/ SyncHead(r)
             \/ SyncDAG(r) \/ EnqueueMerge(r) \/ EnqueueAgain(r) \/ BeginMerge(r)
             \/ CommitMerge(r) \/ LeaveMergeQueue(r) \/ Announce(r) \/ Return(r)

Next == (\E r \in Requests : Handle(r)) \/ (\E d \in Docs : LocalWrite(d))

Fairness == \A r \in Requests : WF_vars(Handle(r))

Spec == Init /\ [][Next]_vars /\ Fairness

TypeOK ==
    /\ ProcessQueue!TypeOK /\ MergeQueue!TypeOK
    /\ stored \subseteq Cids /\ merged \subseteq stored
    /\ announced \subseteq Requests
    /\ tries \in [Requests -> 0 .. MaxTxnRetries]

\* the local commits there have been to some documents
LocalCommits(ds) == {c \in ds \X (1 .. MaxWrites) : c[2] <= writes[c[1]]}

\* Merges do not make each other conflict: a merge is retried at most once for
\* each local commit to the documents it touches.  The comment on mergeQueue
\* gives this as its purpose.
OnlyWritersConflict ==
    \A r \in Requests : tries[r] <= Cardinality(LocalCommits(Touches[cid[r]]))

\* A merge finds every block it needs: once a request's sync has succeeded,
\* what it has to merge is stored, although a failed sync leaves blocks behind
\* without their ancestors and another request may come across them.
SyncedIsComplete ==
    \A r \in Requests :
        loc[r] \in {"synced", "mergeQueued", "merging"} => ToMerge(r) \subseteq stored

\* An Update is announced to the bus and the peers for a block that is merged,
\* or for one whose merge gave up after MaxTxnRetries conflicts: Merge reports
\* that as success.
AnnouncedIsMerged ==
    \A r \in announced : cid[r] \in merged \/ tries[r] = MaxTxnRetries

\* What processPushlogRequest keeps to, from the sync to the announcement.
PushedIsComplete == TypeOK /\ SyncedIsComplete /\ AnnouncedIsMerged

\* An Update is only announced for a block that is merged.
AnnouncedOnlyIfMerged == \A r \in announced : cid[r] \in merged

\* Two goroutines never run syncDAG for the same CID at the same time.
SyncsDoNotOverlap ==
    \A r, s \in Requests :
        loc[r] = "syncing" /\ loc[s] = "syncing" /\ cid[r] = cid[s] => r = s

Ended(r) == loc[r] = "done"

\* Every request ends: nobody waits in a queue for ever, whatever fails and
\* however the writers interfere.
EveryRequestEnds == \A r \in Requests : <>Ended(r)

-----------------------------------------------------------------------------
(* What the proofs rest on.                                                *)

\* Ancestors is closed: a commit links to commits, and what is below those is
\* below it.  A commit is of one document, or of the collection.
CommitGraph ==
    /\ Ancestors \in [Cids -> SUBSET Cids]
    /\ \A c \in Cids : \A a \in Ancestors[c] : Ancestors[a] \subseteq Ancestors[c]
    /\ Touches \in [Cids -> SUBSET Docs]
    /\ \A c \in Cids : Touches[c] = Docs \/ \E d \in Docs : Touches[c] = {d}
    /\ IsFiniteSet(Docs)
    /\ MaxTxnRetries \in Nat /\ MaxWrites \in Nat

Loc == {"start", "queued", "syncing", "synced", "mergeQueued", "merging", "mergeReturned",
        "mergeFailed", "announce", "return", "done"}

Types ==
    /\ TypeOK
    /\ cid \in [Requests -> Cids]
    /\ loc \in [Requests -> Loc]
    /\ writes \in [Docs -> 0 .. MaxWrites]
    /\ stale \in [Requests -> SUBSET Docs]
    /\ \A r \in Requests : ~branchable => Touches[cid[r]] # Docs
    /\ \A r \in Requests : loc[r] = "merging" => tries[r] < MaxTxnRetries

\* What is merged is merged with all that it is built on, so that the walk of
\* syncDAG may stop there.
MergeInv ==
    /\ \A c \in merged : Lineage(c) \subseteq merged
    /\ SyncedIsComplete
    /\ \A r \in Requests :
         loc[r] \in {"mergeReturned", "announce"} \/ r \in announced
             => cid[r] \in merged \/ tries[r] = MaxTxnRetries

\* Who merges has its key of the merge queue to itself, so that each conflict
\* is paid for by a local commit since its transaction began.
ConflictInv ==
    \A r \in Requests :
        /\ loc[r] \in {"mergeQueued", "merging"} => mkey[r] = MergeKey(r)
        /\ loc[r] = "merging" => mpc[r] = "working"
        /\ stale[r] # {} => loc[r] = "merging"
        /\ tries[r] + (IF stale[r] = {} THEN 0 ELSE 1)
               <= Cardinality(LocalCommits(Touches[cid[r]]))

IndInv ==
    /\ Types /\ MergeInv /\ ConflictInv
    /\ ProcessQueue!KeysAreWorkedOn /\ ProcessQueue!OneWorkerPerKey
    /\ MergeQueue!KeysAreWorkedOn /\ MergeQueue!OneWorkerPerKey

=============================================================================
