--------------------------- MODULE ReplicatorRetry ---------------------------
(***************************************************************************)
(* Replicators of one collection, the documents pushed to them, and the    *)
(* retries of the pushes that failed (internal/db/p2p/replicator.go).      *)
(*                                                                         *)
(* Every access to the peerstore outside a transaction is a step of its    *)
(* own. Time is left out: a retry record may be due whenever it is read,   *)
(* except right after its creation.                                        *)
(* The collections of a replicator are one: its record exists or not.      *)
(***************************************************************************)
EXTENDS Integers

CONSTANTS Peer,        \* the replicators
          Doc,         \* the documents of the collection
          Worker,      \* goroutines of retryReplicator; bounds how many live at once
          Outcome,     \* what may become of a push: a subset of Outcomes
          None,        \* no replicator, no worker, no document
          MaxVersion,  \* bound on the updates of a document
          MaxAdds, MaxDeletes,  \* bounds on these calls for a replicator
          MaxCrashes   \* bound on restarts

\* Send returns no error, although the peer may have answered with one; the
\* stream fails; the context of the request expires.
Outcomes == {"ok", "remoteError", "sendError", "timeout"}

ASSUME OutcomeAssumption == Outcome \subseteq Outcomes
ASSUME NoneAssumption == None \notin Peer \cup Doc \cup Worker
ASSUME BoundAssumption ==
  /\ MaxVersion \in Nat
  /\ MaxAdds \in Nat
  /\ MaxDeletes \in Nat
  /\ MaxCrashes \in Nat

VARIABLES rep,       \* persisted: the status of a replicator, or None
          retry,     \* persisted: the retry record and its flag Retrying
          docs,      \* persisted: the documents to retry
          mem,       \* P2P.replicators, the cache of the persisted replicators
          callbacks, \* OnSuccessAsync functions that have not run
          tasks,     \* goroutines that push a document to a replicator
          handler,   \* the task inside handleReplicatorFailure, under its mutex
          loop,      \* retryReplicators
          worker,    \* retryReplicator
          ver,       \* version of each document
          got,       \* version each replicator has of each document
          count      \* calls and events so far

persisted == <<rep, retry, docs>>
vars == <<rep, retry, docs, mem, callbacks, tasks, handler, loop, worker,
          ver, got, count>>

Status == {"active", "inactive"}
Record == {"none", "waiting", "retrying"}

\* A callback of AddReplicator or DeleteReplicator, and whether it pushes all
\* documents.
CallbackOf == [n : Nat, peer : Peer, on : BOOLEAN, push : BOOLEAN]

\* A push of doc in version ver; rest are the documents that
\* pushHeadsForAllDocs pushes after it, and src tells the goroutines apart.
Task == [src : Nat, peer : Peer, doc : Doc, ver : 0..MaxVersion, rest : SUBSET Doc,
         failed : BOOLEAN]

Handler == [task : Task, pc : {"get", "set", "has", "create", "first", "doc"}]
NoHandler == [pc |-> "free"]

Loop == [pc : {"idle", "visit", "mark", "erase", "list", "drop"},
         todo : SUBSET Peer, snap : [Peer -> Record],
         peer : Peer \cup {None}, docs : SUBSET Doc]
IdleLoop == [pc |-> "idle", todo |-> {}, snap |-> [p \in Peer |-> "none"],
             peer |-> None, docs |-> {}]

RetryPc == {"list", "push", "delete", "erase", "next", "store"}
Retrier == [pc : RetryPc \cup {"get", "set"}, peer : Peer, todo : SUBSET Doc,
            doc : Doc \cup {None}]
IdleWorker == [pc |-> "idle", peer |-> None, todo |-> {}, doc |-> None]

Known == {d \in Doc : ver[d] > 0}
Replicators == {p \in Peer : rep[p] # None}

Init ==
  /\ rep = [p \in Peer |-> None]
  /\ retry = [p \in Peer |-> "none"]
  /\ docs = [p \in Peer |-> {}]
  /\ mem = {}
  /\ callbacks = {}
  /\ tasks = {}
  /\ handler = NoHandler
  /\ loop = IdleLoop
  /\ worker = [w \in Worker |-> IdleWorker]
  /\ ver = [d \in Doc |-> 0]
  /\ got = [p \in Peer |-> [d \in Doc |-> 0]]
  /\ count = [adds |-> [p \in Peer |-> 0], deletes |-> [p \in Peer |-> 0], crashes |-> 0]

-----------------------------------------------------------------------------
(* The calls of users. *)

AddReplicator(p) ==
  /\ count.adds[p] < MaxAdds
  /\ rep' = [rep EXCEPT ![p] = IF @ = None THEN "active" ELSE @]
  /\ callbacks' = callbacks \cup
       {[n |-> count.adds[p] + count.deletes[p] + 1, peer |-> p, on |-> TRUE, push |-> rep[p] = None]}
  /\ count' = [count EXCEPT !.adds[p] = @ + 1]
  /\ UNCHANGED <<retry, docs, mem, tasks, handler, loop, worker, ver, got>>

DeleteReplicator(p) ==
  /\ count.deletes[p] < MaxDeletes
  /\ rep[p] # None
  /\ rep' = [rep EXCEPT ![p] = None]
  /\ callbacks' = callbacks \cup
       {[n |-> count.adds[p] + count.deletes[p] + 1, peer |-> p, on |-> FALSE, push |-> FALSE]}
  /\ count' = [count EXCEPT !.deletes[p] = @ + 1]
  /\ UNCHANGED <<retry, docs, mem, tasks, handler, loop, worker, ver, got>>

\* The goroutines at the first document of D, of which one is pushed after another.
PushAll(n, p, D) ==
  {[src |-> n, peer |-> p, doc |-> d, ver |-> ver[d], rest |-> D \ {d}, failed |-> FALSE]
     : d \in D}

\* The callback of a committed AddReplicator or DeleteReplicator. The order
\* of the documents is that of their keys, here any.
UpdateReplicators(c) ==
  /\ c \in callbacks
  /\ callbacks' = callbacks \ {c}
  /\ mem' = IF c.on THEN mem \cup {c.peer} ELSE mem \ {c.peer}
  /\ IF c.push /\ Known # {}
     THEN \E t \in PushAll(c.n, c.peer, Known) : tasks' = tasks \cup {t}
     ELSE tasks' = tasks
  /\ UNCHANGED <<rep, retry, docs, handler, loop, worker, ver, got, count>>

\* A local update or a merge commits a new version, and pushLogToReplicators
\* starts one goroutine for each replicator in the cache.
UpdateDocument(d) ==
  /\ ver[d] < MaxVersion
  /\ ver' = [ver EXCEPT ![d] = @ + 1]
  /\ tasks' = tasks \cup
       {[src |-> 0, peer |-> p, doc |-> d, ver |-> ver[d] + 1, rest |-> {}, failed |-> FALSE]
          : p \in mem}
  /\ UNCHANGED <<rep, retry, docs, mem, callbacks, handler, loop, worker, got, count>>

-----------------------------------------------------------------------------
(* A push, and handleReplicatorFailure when it fails. *)

\* The goroutine t goes on to the next document of its list, or ends.
Advance(t) ==
  IF t.rest = {} THEN tasks' = tasks \ {t}
  ELSE \E u \in PushAll(t.src, t.peer, t.rest) : tasks' = (tasks \ {t}) \cup {u}

Received(p, d, v) ==
  got' = [got EXCEPT ![p][d] = IF v > @ THEN v ELSE @]

PushSucceeds(t) ==
  /\ t \in tasks
  /\ ~t.failed
  /\ \/ /\ "ok" \in Outcome
        /\ Received(t.peer, t.doc, t.ver)
     \/ /\ "remoteError" \in Outcome
        /\ UNCHANGED got
  /\ Advance(t)
  /\ UNCHANGED <<rep, retry, docs, mem, callbacks, handler, loop, worker, ver, count>>

PushFails(t) ==
  /\ t \in tasks
  /\ ~t.failed
  /\ "sendError" \in Outcome
  /\ tasks' = (tasks \ {t}) \cup {[t EXCEPT !.failed = TRUE]}
  /\ UNCHANGED <<rep, retry, docs, mem, callbacks, handler, loop, worker, ver, got, count>>

\* The context that bounds the push is the one handleReplicatorFailure looks
\* at first, so that it returns ctx.Err() and pushHeadsForAllDocs gives up.
PushTimesOut(t) ==
  /\ t \in tasks
  /\ ~t.failed
  /\ "timeout" \in Outcome
  /\ tasks' = tasks \ {t}
  /\ UNCHANGED <<rep, retry, docs, mem, callbacks, handler, loop, worker, ver, got, count>>

HandleReplicatorFailure(t) ==
  /\ t \in tasks
  /\ t.failed
  /\ handler = NoHandler
  /\ handler' = [task |-> t, pc |-> "get"]
  /\ UNCHANGED <<rep, retry, docs, mem, callbacks, tasks, loop, worker, ver, got, count>>

\* updateReplicatorStatus(false): Get, which fails when the replicator is gone...
GetInactive ==
  /\ handler.pc = "get"
  /\ IF rep[handler.task.peer] = None
     THEN /\ handler' = NoHandler
          /\ tasks' = tasks \ {handler.task}
     ELSE /\ handler' = [handler EXCEPT !.pc = "set"]
          /\ UNCHANGED tasks
  /\ UNCHANGED <<rep, retry, docs, mem, callbacks, loop, worker, ver, got, count>>

\* ... and Set of the record that was read.
SetInactive ==
  /\ handler.pc = "set"
  /\ rep' = [rep EXCEPT ![handler.task.peer] = "inactive"]
  /\ handler' = [handler EXCEPT !.pc = "has"]
  /\ UNCHANGED <<retry, docs, mem, callbacks, tasks, loop, worker, ver, got, count>>

\* createIfNotExistsReplicatorRetry: Has...
HasRetry ==
  /\ handler.pc = "has"
  /\ handler' = [handler EXCEPT !.pc = IF retry[handler.task.peer] = "none" THEN "create" ELSE "doc"]
  /\ UNCHANGED <<persisted, mem, callbacks, tasks, loop, worker, ver, got, count>>

\* ... and Set of a new record.
CreateRetry ==
  /\ handler.pc = "create"
  /\ retry' = [retry EXCEPT ![handler.task.peer] = "waiting"]
  /\ handler' = [handler EXCEPT !.pc = "first"]
  /\ UNCHANGED <<rep, docs, mem, callbacks, tasks, loop, worker, ver, got, count>>

SetRetryDoc ==
  /\ handler.pc \in {"first", "doc"}
  /\ docs' = [docs EXCEPT ![handler.task.peer] = @ \cup {handler.task.doc}]
  /\ handler' = NoHandler
  /\ Advance(handler.task)
  /\ UNCHANGED <<rep, retry, mem, callbacks, loop, worker, ver, got, count>>

-----------------------------------------------------------------------------
(* retryReplicators, one goroutine with a timer. *)

\* The iterator reads the records as they are now.
RetryReplicators ==
  /\ loop.pc = "idle"
  /\ \E p \in Peer : retry[p] # "none"
  /\ loop' = [loop EXCEPT !.pc = "visit", !.todo = {p \in Peer : retry[p] # "none"},
                          !.snap = retry]
  /\ UNCHANGED <<persisted, mem, callbacks, tasks, handler, worker, ver, got, count>>

\* The end of a visit: todo without p, and idle when none is left.
Visited(p) ==
  [loop EXCEPT !.pc = IF loop.todo = {p} THEN "idle" ELSE "visit", !.todo = @ \ {p},
               !.snap = IF loop.todo = {p} THEN IdleLoop.snap ELSE @,
               !.peer = None, !.docs = {}]

\* Mutant: a record that is retrying is taken too.
VisitDueAlways(p) ==
  /\ loop.pc = "visit"
  /\ p \in loop.todo
  /\ ~(handler.pc = "first" /\ handler.task.peer = p)
  /\ loop' = [loop EXCEPT !.pc = IF rep[p] = None THEN "erase" ELSE "mark", !.peer = p]
  /\ UNCHANGED <<persisted, mem, callbacks, tasks, handler, worker, ver, got, count>>

\* A record that is due and not retrying: does its replicator still exist?
\* The first interval is at least a second, so a record is not due before the
\* handler that has created it has stored its document.
VisitDue(p) ==
  /\ loop.pc = "visit"
  /\ p \in loop.todo
  /\ ~(handler.pc = "first" /\ handler.task.peer = p)
  /\ loop.snap[p] = "waiting"
  /\ loop' = [loop EXCEPT !.pc = IF rep[p] = None THEN "erase" ELSE "mark", !.peer = p]
  /\ UNCHANGED <<persisted, mem, callbacks, tasks, handler, worker, ver, got, count>>

\* A record that is not due, or is retrying.
VisitOther(p) ==
  /\ loop.pc = "visit"
  /\ p \in loop.todo
  /\ loop' = Visited(p)
  /\ UNCHANGED <<persisted, mem, callbacks, tasks, handler, worker, ver, got, count>>

\* addReplicatorAsRetrying writes back the record of the iterator; the
\* goroutine of retryReplicator starts.
AddAsRetrying(w) ==
  /\ loop.pc = "mark"
  /\ worker[w].pc = "idle"
  /\ retry' = [retry EXCEPT ![loop.peer] = "retrying"]
  /\ worker' = [worker EXCEPT ![w] = [IdleWorker EXCEPT !.pc = "list", !.peer = loop.peer]]
  /\ loop' = Visited(loop.peer)
  /\ UNCHANGED <<rep, docs, mem, callbacks, tasks, handler, ver, got, count>>

\* deleteReplicatorRetryAndDocs: the record...
EraseRetry ==
  /\ loop.pc = "erase"
  /\ retry' = [retry EXCEPT ![loop.peer] = "none"]
  /\ loop' = [loop EXCEPT !.pc = "list"]
  /\ UNCHANGED <<rep, docs, mem, callbacks, tasks, handler, worker, ver, got, count>>

\* ... and the documents that the iterator finds now, one after another.
ListDocs ==
  /\ loop.pc = "list"
  /\ loop' = [loop EXCEPT !.pc = "drop", !.docs = docs[loop.peer]]
  /\ UNCHANGED <<persisted, mem, callbacks, tasks, handler, worker, ver, got, count>>

DropDoc ==
  /\ loop.pc = "drop"
  /\ \/ /\ loop.docs = {}
        /\ loop' = Visited(loop.peer)
        /\ UNCHANGED docs
     \/ \E d \in loop.docs :
          /\ docs' = [docs EXCEPT ![loop.peer] = @ \ {d}]
          /\ loop' = [loop EXCEPT !.docs = @ \ {d}]
  /\ UNCHANGED <<rep, retry, mem, callbacks, tasks, handler, worker, ver, got, count>>

-----------------------------------------------------------------------------
(* retryReplicator, the goroutine w. *)

ListRetryDocs(w) ==
  /\ worker[w].pc = "list"
  /\ worker' = [worker EXCEPT ![w].pc = "push", ![w].todo = docs[worker[w].peer]]
  /\ UNCHANGED <<persisted, mem, callbacks, tasks, handler, loop, ver, got, count>>

\* retryDoc sends the heads of the document: its version now.
RetryDoc(w, d) ==
  /\ worker[w].pc = "push"
  /\ d \in worker[w].todo
  /\ \/ /\ "ok" \in Outcome
        /\ Received(worker[w].peer, d, ver[d])
     \/ /\ "remoteError" \in Outcome
        /\ UNCHANGED got
  /\ worker' = [worker EXCEPT ![w].pc = "delete", ![w].todo = @ \ {d}, ![w].doc = d]
  /\ UNCHANGED <<persisted, mem, callbacks, tasks, handler, loop, ver, count>>

\* Mutant: the goroutine returns without handleCompletedReplicatorRetry.
RetryDocFailsSilently(w) ==
  /\ worker[w].pc = "push"
  /\ worker[w].todo # {}
  /\ Outcome \cap {"sendError", "timeout"} # {}
  /\ worker' = [worker EXCEPT ![w] = IdleWorker]
  /\ UNCHANGED <<persisted, mem, callbacks, tasks, handler, loop, ver, got, count>>

\* The other documents wait for the next retry.
RetryDocFails(w) ==
  /\ worker[w].pc = "push"
  /\ worker[w].todo # {}
  /\ Outcome \cap {"sendError", "timeout"} # {}
  /\ worker' = [worker EXCEPT ![w].pc = "next", ![w].todo = {}]
  /\ UNCHANGED <<persisted, mem, callbacks, tasks, handler, loop, ver, got, count>>

DeleteRetryDoc(w) ==
  /\ worker[w].pc = "delete"
  /\ docs' = [docs EXCEPT ![worker[w].peer] = @ \ {worker[w].doc}]
  /\ worker' = [worker EXCEPT ![w].pc = "push", ![w].doc = None]
  /\ UNCHANGED <<rep, retry, mem, callbacks, tasks, handler, loop, ver, got, count>>

\* deleteReplicatorRetryIfNoMoreDocs: are there documents left?...
NoMoreDocs(w) ==
  /\ worker[w].pc = "push"
  /\ worker[w].todo = {}
  /\ worker' = [worker EXCEPT ![w].pc = IF docs[worker[w].peer] = {} THEN "erase" ELSE "next"]
  /\ UNCHANGED <<persisted, mem, callbacks, tasks, handler, loop, ver, got, count>>

\* ... if not, delete the record.
DeleteRetry(w) ==
  /\ worker[w].pc = "erase"
  /\ retry' = [retry EXCEPT ![worker[w].peer] = "none"]
  /\ worker' = [worker EXCEPT ![w].pc = "get"]
  /\ UNCHANGED <<rep, docs, mem, callbacks, tasks, handler, loop, ver, got, count>>

\* updateReplicatorStatus(true): Get and Set.
GetActive(w) ==
  /\ worker[w].pc = "get"
  /\ worker' = [worker EXCEPT ![w] = IF rep[@.peer] = None THEN IdleWorker
                                     ELSE [@ EXCEPT !.pc = "set"]]
  /\ UNCHANGED <<persisted, mem, callbacks, tasks, handler, loop, ver, got, count>>

SetActive(w) ==
  /\ worker[w].pc = "set"
  /\ rep' = [rep EXCEPT ![worker[w].peer] = "active"]
  /\ worker' = [worker EXCEPT ![w] = IdleWorker]
  /\ UNCHANGED <<retry, docs, mem, callbacks, tasks, handler, loop, ver, got, count>>

\* addReplicatorNextRetry: Get...
GetNextRetry(w) ==
  /\ worker[w].pc = "next"
  /\ worker' = [worker EXCEPT ![w] = IF retry[@.peer] = "none" THEN IdleWorker
                                     ELSE [@ EXCEPT !.pc = "store"]]
  /\ UNCHANGED <<persisted, mem, callbacks, tasks, handler, loop, ver, got, count>>

\* ... and Set of the record with its flag cleared.
SetNextRetry(w) ==
  /\ worker[w].pc = "store"
  /\ retry' = [retry EXCEPT ![worker[w].peer] = "waiting"]
  /\ worker' = [worker EXCEPT ![w] = IdleWorker]
  /\ UNCHANGED <<rep, docs, mem, callbacks, tasks, handler, loop, ver, got, count>>

-----------------------------------------------------------------------------
\* The process dies and New starts it again: only what is persisted remains,
\* and loadAndPublishReplicators fills the cache.
Restart ==
  /\ count.crashes < MaxCrashes
  /\ count' = [count EXCEPT !.crashes = @ + 1]
  /\ mem' = Replicators
  /\ callbacks' = {}
  /\ tasks' = {}
  /\ handler' = NoHandler
  /\ loop' = IdleLoop
  /\ worker' = [w \in Worker |-> IdleWorker]
  /\ UNCHANGED <<persisted, ver, got>>

User ==
  \/ \E p \in Peer : AddReplicator(p) \/ DeleteReplicator(p)
  \/ \E d \in Doc : UpdateDocument(d)

Push ==
  \/ \E c \in callbacks : UpdateReplicators(c)
  \/ \E t \in tasks :
       PushSucceeds(t) \/ PushFails(t) \/ PushTimesOut(t) \/ HandleReplicatorFailure(t)
  \/ GetInactive \/ SetInactive \/ HasRetry \/ CreateRetry \/ SetRetryDoc

RetryLoop ==
  \/ RetryReplicators
  \/ \E p \in Peer : VisitDue(p) \/ VisitOther(p)
  \/ \E w \in Worker : AddAsRetrying(w)
  \/ EraseRetry \/ ListDocs \/ DropDoc

RetryWorker(w) ==
  \/ ListRetryDocs(w)
  \/ \E d \in Doc : RetryDoc(w, d)
  \/ RetryDocFails(w)
  \/ DeleteRetryDoc(w) \/ NoMoreDocs(w) \/ DeleteRetry(w)
  \/ GetActive(w) \/ SetActive(w) \/ GetNextRetry(w) \/ SetNextRetry(w)

Next == User \/ Push \/ RetryLoop \/ (\E w \in Worker : RetryWorker(w)) \/ Restart

Spec == Init /\ [][Next]_vars

-----------------------------------------------------------------------------
StoreType ==
  /\ rep \in [Peer -> Status \cup {None}]
  /\ retry \in [Peer -> Record]
  /\ docs \in [Peer -> SUBSET Doc]

PushType ==
  /\ mem \in SUBSET Peer
  /\ callbacks \in SUBSET CallbackOf
  /\ tasks \in SUBSET Task
  /\ \/ handler = NoHandler
     \/ handler \in Handler /\ handler.task \in tasks /\ handler.task.failed

LoopType ==
  /\ loop \in Loop
  /\ loop.pc \in {"mark", "erase", "list", "drop"} => loop.peer \in Peer

WorkerType == worker \in [Worker -> Retrier \cup {IdleWorker}]

DataType ==
  /\ ver \in [Doc -> 0..MaxVersion]
  /\ got \in [Peer -> [Doc -> 0..MaxVersion]]
  /\ count \in [adds : [Peer -> Nat], deletes : [Peer -> Nat], crashes : Nat]

\* Types. The mutex of handleReplicatorFailure is held by a goroutine that is
\* alive and whose push has failed.
TypeOK == StoreType /\ PushType /\ LoopType /\ WorkerType /\ DataType

\* The goroutines of retryReplicator that still push documents of p or
\* decide about its record.
Retriers(p) == {w \in Worker : worker[w].peer = p /\ worker[w].pc \in RetryPc}

\* The flag Retrying keeps retryReplicators from starting a second
\* retryReplicator for a peer, although the loop acts on what its iterator
\* read before, records are deleted and created anew meanwhile, and the
\* process may restart.
OneRetrier == \A p \in Peer : \A v, w \in Retriers(p) : v = w

\* A record says Retrying while a retryReplicator runs for the peer, and until
\* the first restart only then.
FlagIsTrue ==
  \A p \in Peer :
    /\ Retriers(p) # {} => retry[p] = "retrying"
    /\ count.crashes = 0 /\ retry[p] = "retrying" => Retriers(p) # {}

\* The inductive invariant behind OneRetrier. A goroutine that retries a peer is
\* the only one, and the record of the peer says so. What the loop has read of
\* a record it has still to visit is what the record is, if it was waiting;
\* and the handler that is about to create a record has not been overtaken.
RetrierInv ==
  /\ \A v, w \in Worker :
       /\ worker[v].pc \in RetryPc
       /\ worker[w].pc \in RetryPc
       /\ worker[v].peer = worker[w].peer
       => v = w
  /\ \A w \in Worker : worker[w].pc \in RetryPc => retry[worker[w].peer] = "retrying"

SnapInv ==
  /\ loop.pc = "idle" => loop.todo = {}
  /\ loop.pc \in {"mark", "erase", "list", "drop"} =>
       loop.peer \in loop.todo /\ loop.snap[loop.peer] = "waiting"
  /\ \A p \in loop.todo :
       loop.snap[p] = "waiting" =>
         retry[p] = "waiting" \/ (loop.pc \in {"list", "drop"} /\ loop.peer = p)

CreateInv == handler.pc = "create" => retry[handler.task.peer] = "none"

\* Until the first restart, a record that says Retrying has its goroutine.
RunningInv ==
  count.crashes = 0 =>
    \A p \in Peer : retry[p] = "retrying" =>
      \E w \in Worker : worker[w].peer = p /\ worker[w].pc \in RetryPc

IndInv == TypeOK /\ RetrierInv /\ SnapInv /\ CreateInv /\ RunningInv

-----------------------------------------------------------------------------
(* What the code does not keep; TLC finds each of these violated. *)

\* A record says Retrying while a retryReplicator runs for the peer, and only
\* then: otherwise no retry would ever happen again.  A restart leaves the
\* persisted flag set.
RetryingIsRunning == \A p \in Peer : retry[p] = "retrying" <=> Retriers(p) # {}

\* A replicator whose pushes have all ended has every document, or the ones
\* it lacks are recorded for a retry.  retryReplicator deletes a document after
\* pushing it, and with it the failure that a push of a newer version has
\* recorded meanwhile.
NothingForgotten ==
  \A p \in Replicators \cap mem, d \in Doc :
    \/ got[p][d] = ver[d]
    \/ d \in docs[p]
    \/ \E c \in callbacks : c.peer = p
    \/ \E t \in tasks : t.peer = p /\ d \in {t.doc} \cup t.rest

\* deleteReplicatorRetryIfNoMoreDocs deletes the record of a peer only when
\* it has no more documents to retry: a failure may be recorded between the
\* look and the deletion, and its document then waits for the next failure.
RecordOutlivesDocs ==
  [][\A w \in Worker : DeleteRetry(w) => docs[worker[w].peer] = {}]_vars

\* Only AddReplicator brings a replicator into the persisted list: one that
\* DeleteReplicator has deleted stays deleted.
DeletedStaysDeleted ==
  [][count'.adds = count.adds => Replicators' \subseteq Replicators]_vars

\* P2P.replicators is a copy of the persisted replicators once the callbacks
\* have run.
CacheIsCopy == callbacks = {} => mem = Replicators
=============================================================================
