------------------------------ MODULE P2PTopics ------------------------------
(***************************************************************************)
(* The collections and documents a node follows: AddP2PCollections,        *)
(* DeleteP2PCollections, AddP2PDocuments and DeleteP2PDocuments write a    *)
(* marker in the system store through the caller's transaction and leave a *)
(* callback that joins or leaves the pubsub topic.  Commit starts one      *)
(* goroutine per callback (OnSuccessAsync) and does not wait for them, so  *)
(* the store and the topics are updated apart, and two callbacks in any    *)
(* order.  An error of the host is logged and changes nothing else.  A     *)
(* restart joins the topics of every marker it finds.                      *)
(*                                                                         *)
(* The markers are written blind, so that two of these transactions never  *)
(* conflict: the one that commits last decides the marker.                 *)
(***************************************************************************)
EXTENDS Naturals

CONSTANTS
    Ids,         \* collection ids and document ids
    Known,       \* the ids the calls accept: an existing collection, a well-formed docID
    Collections, \* the ids that are collections
    Txns,
    MaxCalls     \* bound: calls over the whole run

VARIABLES
    up,          \* the node is running
    persisted,   \* ids with a marker in the system store
    topics,      \* ids whose topic the host has joined
    mark,        \* mark[t][id]: what t has written, "add", "delete" or "none"
    queued,      \* queued[t]: callbacks registered on t
    running,     \* callbacks whose goroutine has not finished
    calls,
    unsettled    \* ids whose markers were written without a callback of their
                 \* own that runs by itself, or whose callback failed (history)

vars == <<up, persisted, topics, mark, queued, running, calls, unsettled>>

NoMarks == [id \in Ids |-> "none"]
OfId(s, id) == {c \in s : c.id = id}

TypeOK ==
    /\ up \in BOOLEAN
    /\ persisted \subseteq Known /\ topics \subseteq Known /\ unsettled \subseteq Known
    /\ mark \in [Txns -> [Ids -> {"none", "add", "delete"}]]
    /\ \A t \in Txns : \A c \in queued[t] \cup running :
          c.call \in 0 .. calls /\ c.op \in {"add", "delete"} /\ c.id \in Known
    /\ calls \in 0 .. MaxCalls

Init ==
    /\ up = TRUE
    /\ persisted = {} /\ topics = {} /\ running = {} /\ unsettled = {}
    /\ mark = [t \in Txns |-> NoMarks]
    /\ queued = [t \in Txns |-> {}]
    /\ calls = 0

Write(t, op, ids) == mark' = [mark EXCEPT ![t] = [id \in Ids |-> IF id \in ids THEN op ELSE @[id]]]

\* AddP2PCollections and DeleteP2PCollections: every name is looked up before
\* the first marker is written
FollowCollections(t, op, ids) ==
    /\ up /\ calls < MaxCalls
    /\ ids \subseteq Collections
    /\ calls' = calls + 1
    /\ IF ids \subseteq Known
       THEN /\ Write(t, op, ids)
            /\ queued' = [queued EXCEPT ![t] = @ \cup {[call |-> calls, op |-> op, id |-> i] : i \in ids}]
       ELSE UNCHANGED <<mark, queued>>
    /\ UNCHANGED <<up, persisted, topics, running, unsettled>>

\* AddP2PDocuments and DeleteP2PDocuments: a malformed docID ends the call
\* after the ones before it were written, without a callback
FollowDocuments(t, op, ids) ==
    /\ up /\ calls < MaxCalls
    /\ ids \cap Collections = {}
    /\ calls' = calls + 1
    /\ IF ids \subseteq Known
       THEN /\ Write(t, op, ids)
            /\ queued' = [queued EXCEPT ![t] = @ \cup {[call |-> calls, op |-> op, id |-> i] : i \in ids}]
       ELSE \E before \in SUBSET (ids \cap Known) :
               Write(t, op, before) /\ UNCHANGED queued
    /\ UNCHANGED <<up, persisted, topics, running, unsettled>>

\* the marker t leaves for id is followed by one callback that does the same,
\* with no other callback of the id to overtake it
Settles(t, id) ==
    \E c \in queued[t] : OfId(running \cup queued[t], id) = {c} /\ c.op = mark[t][id]

\* BasicTxn.Commit, successful: the store takes the markers, and each callback
\* gets a goroutine
Commit(t) ==
    LET written == {id \in Ids : mark[t][id] # "none"}
    IN /\ up
       /\ persisted' = (persisted \cup {id \in written : mark[t][id] = "add"})
                          \ {id \in written : mark[t][id] = "delete"}
       /\ running' = running \cup queued[t]
       /\ unsettled' = (unsettled \ written) \cup {id \in written : ~Settles(t, id)}
       /\ mark' = [mark EXCEPT ![t] = NoMarks]
       /\ queued' = [queued EXCEPT ![t] = {}]
       /\ UNCHANGED <<up, topics, calls>>

\* BasicTxn.Discard, or a Commit that fails: no callback runs
Discard(t) ==
    /\ up
    /\ mark' = [mark EXCEPT ![t] = NoMarks]
    /\ queued' = [queued EXCEPT ![t] = {}]
    /\ UNCHANGED <<up, persisted, topics, running, calls, unsettled>>

\* one turn of a callback's loop: host.AddPubSubTopic or RemovePubSubTopic, the
\* error of which is only logged
RunCallback(c) ==
    /\ up
    /\ \/ /\ topics' = IF c.op = "add" THEN topics \cup {c.id} ELSE topics \ {c.id}
          /\ UNCHANGED unsettled
       \/ /\ unsettled' = unsettled \cup {c.id}
          /\ UNCHANGED topics
    /\ running' = running \ {c}
    /\ UNCHANGED <<up, persisted, mark, queued, calls>>

\* the process ends: goroutines, transactions and topics go with it
Stop ==
    /\ up
    /\ up' = FALSE
    /\ topics' = {} /\ running' = {} /\ unsettled' = {}
    /\ mark' = [t \in Txns |-> NoMarks]
    /\ queued' = [t \in Txns |-> {}]
    /\ UNCHANGED <<persisted, calls>>

\* Mutant: only the collections are loaded.
StartWithCollections ==
    /\ ~up
    /\ up' = TRUE
    /\ topics' = persisted \cap Collections
    /\ UNCHANGED <<persisted, mark, queued, running, calls, unsettled>>

\* loadAndPublishP2PCollections, then loadAndPublishP2PDocuments; the first topic
\* that cannot be joined is an error of either, and the node stays down
Start ==
    /\ ~up
    /\ up' = TRUE
    /\ topics' = (persisted \cap Collections) \cup (persisted \ Collections)
    /\ UNCHANGED <<persisted, mark, queued, running, calls, unsettled>>

Follow ==
    \E t \in Txns, op \in {"add", "delete"} : \E ids \in (SUBSET Ids) \ {{}} :
        FollowCollections(t, op, ids) \/ FollowDocuments(t, op, ids)

Next ==
    \/ Follow
    \/ \E t \in Txns : Commit(t) \/ Discard(t)
    \/ \E c \in running : RunCallback(c)
    \/ Stop \/ Start

Spec == Init /\ [][Next]_vars

-----------------------------------------------------------------------------

\* Once the callbacks of an id are done, the node follows its topic exactly
\* when the store says so (AddP2PCollections and the three others, Commit and
\* the load at start-up taken together), whatever transactions were discarded,
\* calls refused and restarts happened; unless two callbacks of the id were
\* running at once, the host failed, or a refused call left a marker without a
\* callback.
TopicsFollowStore ==
    up => \A id \in Ids \ unsettled :
             OfId(running, id) = {} => (id \in topics <=> id \in persisted)

\* The same without the exceptions: "adds the given collections to the P2P
\* system and subscribes to their topics", and "deletes the given collections
\* from the P2P system and unsubscribes from their topics" (db/p2p.go).
TopicsAlwaysFollowStore ==
    up => \A id \in Ids : OfId(running, id) = {} => (id \in topics <=> id \in persisted)
-----------------------------------------------------------------------------
(* What the proofs rest on. *)

Callback == [call : 0 .. calls, op : {"add", "delete"}, id : Ids \cap Known]

Types ==
    /\ up \in BOOLEAN /\ calls \in 0 .. MaxCalls
    /\ persisted \subseteq Known /\ topics \subseteq Known /\ unsettled \subseteq Known
    /\ mark \in [Txns -> [Ids -> {"none", "add", "delete"}]]
    /\ queued \in [Txns -> SUBSET Callback]
    /\ running \subseteq Callback

\* A callback is registered after its marker is written, and only what the
\* calls accept has a marker; a process that is down has no goroutines.
QueueInv ==
    /\ \A t \in Txns : \A c \in queued[t] : mark[t][c.id] # "none"
    /\ \A t \in Txns, id \in Ids : mark[t][id] # "none" => id \in Known
    /\ ~up => running = {}

\* A settled id has at most one callback to run, which brings its topic to
\* where its marker is.
SettledInv ==
    up => \A id \in Ids \ unsettled :
             \/ OfId(running, id) = {} /\ (id \in topics <=> id \in persisted)
             \/ \E c \in running : OfId(running, id) = {c} /\ (c.op = "add" <=> id \in persisted)

IndInv == Types /\ QueueInv /\ SettledInv
=============================================================================
