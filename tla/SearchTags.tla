------------------------------ MODULE SearchTags -----------------------------
(***************************************************************************)
(* Searchable encryption (package se): the node that writes a document     *)
(* computes a tag of every encrypted field it wrote, from the value the    *)
(* document has by then, and pushes the tags to the collection's           *)
(* replicators; a push that fails leaves an entry in the peer store, which *)
(* a loop retries.  The replicators answer the searches.                   *)
(*                                                                         *)
(* A value is the number of the update that wrote it.  A tag is a hash of  *)
(* the field, its value and an ID of the collection: of the active version *)
(* in a push, of the collection itself, which is that of its first         *)
(* version, in a search.  The push runs in the goroutine of the commit, so *)
(* the pushes of two writers and the retry loop interleave.  When a retry  *)
(* is due is left open, and so is which request to a peer, and which call  *)
(* on the store, fails.                                                    *)
(***************************************************************************)
EXTENDS Naturals

CONSTANTS
    Peers,          \* GetReplicatorsIDs of the collection
    Docs,
    Fields,         \* fields with an encrypted index
    MaxUpdates,     \* bound
    MaxVersions,    \* bound: how often the collection is patched
    Restarts        \* whether the node may restart

VARIABLES
    value,      \* value[d][f]: the last update that wrote the field
    updates,    \* updates so far
    version,    \* the active version of the collection; 0 is the first
    pushes,     \* pushes in progress
    loop,       \* the retry in progress, or Idle
    entry,      \* entry[p][d]: the retry entry, or NoEntry (persisted)
    tags,       \* tags[p]: what replicator p stores, [doc, field, value, version]
    missed,     \* <<p, d>> with a push that failed or was cut short (history)
    later       \* documents with tags that a push made after a patch (history)

vars == <<value, updates, version, pushes, loop, entry, tags, missed, later>>

Idle == [peer |-> "none"]
NoEntry == [fields |-> {}, retrying |-> FALSE]

TypeOK ==
    /\ value \in [Docs -> [Fields -> 0 .. MaxUpdates]]
    /\ updates \in 0 .. MaxUpdates /\ version \in 0 .. MaxVersions
    /\ \A x \in pushes : x.doc \in Docs /\ x.fields \subseteq Fields /\ x.todo \subseteq Peers
    /\ entry \in [Peers -> [Docs -> [fields : SUBSET Fields, retrying : BOOLEAN]]]
    /\ \A p \in Peers : tags[p] \subseteq [doc : Docs, field : Fields, value : 1 .. MaxUpdates,
                                          version : 0 .. MaxVersions]
    /\ missed \subseteq Peers \X Docs /\ later \subseteq Docs

Init ==
    /\ value = [d \in Docs |-> [f \in Fields |-> 0]]
    /\ updates = 0 /\ version = 0
    /\ pushes = {} /\ loop = Idle
    /\ entry = [p \in Peers |-> [d \in Docs |-> NoEntry]]
    /\ tags = [p \in Peers |-> {}]
    /\ missed = {} /\ later = {}

\* generateDocArtifacts: the tags of the document as it is now, of the fields
\* asked for that have an encrypted index, made with the VersionID
Artifacts(d, fields) ==
    {[doc |-> d, field |-> f, value |-> value[d][f], version |-> version] : f \in fields}

\* a commit, and HandlePushToReplicators on its block
Update(d, fields) ==
    /\ updates < MaxUpdates
    /\ updates' = updates + 1
    /\ value' = [value EXCEPT ![d] = [f \in Fields |-> IF f \in fields THEN updates' ELSE @[f]]]
    /\ pushes' = pushes \cup {[n |-> updates', doc |-> d, fields |-> fields, read |-> FALSE,
                               artifacts |-> {}, todo |-> Peers]}
    /\ UNCHANGED <<version, loop, entry, tags, missed, later>>

\* the collection is patched: its new version has an ID of its own
Patch ==
    /\ version < MaxVersions
    /\ version' = version + 1
    /\ UNCHANGED <<value, updates, pushes, loop, entry, tags, missed, later>>

\* generateSEArtifacts reads the document after the commit
Generate(x) ==
    /\ ~x.read
    /\ pushes' = (pushes \ {x}) \cup
                     {[x EXCEPT !.read = TRUE, !.artifacts = Artifacts(x.doc, x.fields)]}
    /\ later' = IF version = 0 THEN later ELSE later \cup {x.doc}
    /\ UNCHANGED <<value, updates, version, loop, entry, tags, missed>>

\* an error of it ends the push, and nothing is recorded for a retry
GenerateFails(x) ==
    /\ ~x.read
    /\ pushes' = pushes \ {x}
    /\ missed' = missed \cup (x.todo \X {x.doc})
    /\ UNCHANGED <<value, updates, version, loop, entry, tags, later>>

\* storeArtifacts on the replicator
Store(p, artifacts) == tags' = [tags EXCEPT ![p] = @ \cup artifacts]

\* handleReplicationFailure: a new entry in place of the one there was
RecordFailure(p, d, fields) ==
    entry' = [entry EXCEPT ![p][d] = [fields |-> fields, retrying |-> FALSE]]

Advance(x, p) ==
    pushes' = (pushes \ {x}) \cup
                  {y \in {[x EXCEPT !.todo = @ \ {p}]} : y.todo # {}}

\* Mutant: the first peer that fails ends the loop.
PushUntilFailure(x, p) ==
    /\ x.read /\ p \in x.todo
    /\ \/ /\ Store(p, x.artifacts)
          /\ Advance(x, p)
          /\ UNCHANGED <<entry, missed>>
       \/ /\ RecordFailure(p, x.doc, x.fields)
          /\ missed' = missed \cup {<<p, x.doc>>}
          /\ pushes' = pushes \ {x}
          /\ UNCHANGED tags
    /\ UNCHANGED <<value, updates, version, loop, later>>

\* one turn of generateArtifactsAndPushToReplicators' loop over the peers; an
\* error of handleReplicationFailure ends the loop
Push(x, p) ==
    /\ x.read /\ p \in x.todo
    /\ \/ /\ Store(p, x.artifacts)
          /\ Advance(x, p)
          /\ UNCHANGED <<entry, missed>>
       \/ /\ RecordFailure(p, x.doc, x.fields)
          /\ missed' = missed \cup {<<p, x.doc>>}
          /\ Advance(x, p)
          /\ UNCHANGED tags
       \/ /\ missed' = missed \cup (x.todo \X {x.doc})
          /\ pushes' = pushes \ {x}
          /\ UNCHANGED <<entry, tags>>
    /\ UNCHANGED <<value, updates, version, loop, later>>

\* processSERetries takes an entry that is not being retried and marks it
BeginRetry(p, d) ==
    /\ loop = Idle
    /\ entry[p][d] # NoEntry /\ ~entry[p][d].retrying
    /\ entry' = [entry EXCEPT ![p][d].retrying = TRUE]
    /\ loop' = [peer |-> p, doc |-> d, fields |-> entry[p][d].fields, read |-> FALSE,
                artifacts |-> {}, todo |-> Peers]
    /\ UNCHANGED <<value, updates, version, pushes, tags, missed, later>>

\* updateRetryStatus, the errors of which are only logged
UpdateRetryStatus(success) ==
    /\ loop' = Idle
    /\ \/ /\ success
          /\ entry' = [entry EXCEPT ![loop.peer][loop.doc] = NoEntry]
       \/ /\ ~success
          /\ RecordFailure(loop.peer, loop.doc, loop.fields)
       \/ UNCHANGED entry

GenerateAgain ==
    /\ loop # Idle /\ ~loop.read
    /\ \/ /\ loop' = [loop EXCEPT !.read = TRUE, !.artifacts = Artifacts(loop.doc, loop.fields)]
          /\ UNCHANGED entry
       \/ UpdateRetryStatus(FALSE)
    /\ UNCHANGED <<value, updates, version, pushes, tags, missed, later>>

\* a retry pushes to every replicator, whichever peer the entry is of, and
\* stops at the first that fails
PushAgain(p) ==
    /\ loop # Idle /\ loop.read /\ p \in loop.todo
    /\ \/ /\ Store(p, loop.artifacts)
          /\ IF loop.todo = {p}
             THEN UpdateRetryStatus(TRUE)
             ELSE /\ loop' = [loop EXCEPT !.todo = @ \ {p}]
                  /\ UNCHANGED entry
       \/ /\ UpdateRetryStatus(FALSE)
          /\ UNCHANGED tags
    /\ UNCHANGED <<value, updates, version, pushes, missed, later>>

\* the process restarts: the pushes and the retry in progress are gone, the
\* retry entries are not
Restart ==
    /\ Restarts
    /\ pushes # {} \/ loop # Idle
    /\ missed' = missed \cup UNION {x.todo \X {x.doc} : x \in pushes}
    /\ pushes' = {} /\ loop' = Idle
    /\ UNCHANGED <<value, updates, version, entry, tags, later>>

Next ==
    \/ \E d \in Docs : \E fields \in (SUBSET Fields) \ {{}} : Update(d, fields)
    \/ Patch
    \/ \E x \in pushes : Generate(x) \/ GenerateFails(x) \/ \E p \in Peers : Push(x, p)
    \/ \E p \in Peers, d \in Docs : BeginRetry(p, d)
    \/ GenerateAgain
    \/ \E p \in Peers : PushAgain(p)
    \/ Restart

Spec == Init /\ [][Next]_vars

-----------------------------------------------------------------------------
\* the tag of the value a field has, as QueryDocIDsByValues makes it for a
\* search, with the CollectionID
Tag(d, f) == [doc |-> d, field |-> f, value |-> value[d][f], version |-> 0]

\* fetchDocIDs: the documents that every one of the queries finds
Matching(p, q) ==
    {d \in Docs : [doc |-> d, field |-> q.field, value |-> q.value, version |-> 0] \in tags[p]}
FetchDocIDs(p, queries) ==
    IF queries = {} THEN {} ELSE {d \in Docs : \A q \in queries : d \in Matching(p, q)}

\* the search for the values document d has, one query for each of fields
QueriesOf(d, fields) == {[field |-> f, value |-> value[d][f]] : f \in fields}

Written(d) == {f \in Fields : value[d][f] > 0}

\* all pushes of d to p have been made and have got through
Reached(p, d) == <<p, d>> \notin missed /\ ~\E x \in pushes : x.doc = d /\ p \in x.todo

Found(p, d) ==
    \A fields \in (SUBSET Written(d)) \ {{}} : d \in FetchDocIDs(p, QueriesOf(d, fields))

\* A search by any of the values a document has finds it on every replicator
\* that all its pushes reached, however the pushes of two writers interleaved,
\* whatever of them failed elsewhere, and also after the collection is patched,
\* unless the document was pushed since: Update, Generate and Push against
\* fetchDocIDs.
SearchFinds ==
    \A p \in Peers, d \in Docs : Reached(p, d) /\ d \notin later => Found(p, d)

\* The same for a document that was pushed after the collection was patched:
\* "The same field value will always produce the same tag for the same identity,
\* enabling consistent search results" (se/README.md).
SameValueSameTag ==
    \A p \in Peers, d \in Docs : Reached(p, d) => Found(p, d)

\* Not kept: a replicator that lacks a tag of the document's values has a retry
\* entry that covers it, "the failure is stored in the peerstore with retry
\* metadata for later retry attempts" (se/README.md).
MissingIsRecorded ==
    \A p \in Peers, d \in Docs : \A f \in Written(d) :
        \/ [doc |-> d, field |-> f, value |-> value[d][f], version |-> version] \in tags[p]
        \/ f \in entry[p][d].fields
        \/ \E x \in pushes : x.doc = d /\ f \in x.fields /\ p \in x.todo

-----------------------------------------------------------------------------
(* What the proofs rest on. *)

Artifact == [doc : Docs, field : Fields, value : 1 .. MaxUpdates, version : 0 .. MaxVersions]
Pushing == [n : 1 .. MaxUpdates, doc : Docs, fields : SUBSET Fields, read : BOOLEAN,
            artifacts : SUBSET Artifact, todo : SUBSET Peers]
Retrying == [peer : Peers, doc : Docs, fields : SUBSET Fields, read : BOOLEAN,
             artifacts : SUBSET Artifact, todo : SUBSET Peers]

Types ==
    /\ TypeOK
    /\ tags \in [Peers -> SUBSET Artifact]
    /\ pushes \subseteq Pushing
    /\ loop \in Retrying \cup {Idle}

\* Tags are made of fields that have been written.
WrittenInv ==
    /\ \A x \in pushes : x.fields \subseteq Written(x.doc)
    /\ loop # Idle => loop.fields \subseteq Written(loop.doc)
    /\ \A p \in Peers, d \in Docs : entry[p][d].fields \subseteq Written(d)

\* The push x is still to bring the tag of the value that f has now to p: it
\* has not read the document yet, or has read this value.
Brings(x, p, d, f) ==
    /\ x.doc = d /\ f \in x.fields /\ p \in x.todo
    /\ x.read => Tag(d, f) \in x.artifacts

\* The tag of a value is with a replicator, or a push brings it, or has failed to,
\* or has made another in its place.
TagInv ==
    \A p \in Peers, d \in Docs : \A f \in Written(d) :
        \/ Tag(d, f) \in tags[p]
        \/ <<p, d>> \in missed \/ d \in later
        \/ \E x \in pushes : Brings(x, p, d, f)

IndInv == Types /\ WrittenInv /\ TagInv
=============================================================================
