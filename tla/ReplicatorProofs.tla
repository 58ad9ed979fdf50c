-------------------------- MODULE ReplicatorProofs --------------------------
(***************************************************************************)
(* Proofs about the pushes to replicators and their retries.  Of           *)
(* ReplicatorRetry: types, at most one retry of a replicator at a time,    *)
(* and the meaning of the flag Retrying before a restart.  Of SearchTags,  *)
(* for any number of replicators, documents and fields: a search finds     *)
(* what all pushes of a document have reached.  The two share no state;    *)
(* each has a `loop`, and the theorems hold whatever that is called.       *)
(***************************************************************************)
EXTENDS ReplicatorRetry, TLAPS

\* The types of the records that the actions build.
LEMMA TaskType ==
  ASSUME TypeOK, NEW n \in Nat, NEW p \in Peer, NEW D \in SUBSET Doc
  PROVE  PushAll(n, p, D) \subseteq Task
<1> SUFFICES ASSUME NEW d \in D
             PROVE  [src |-> n, peer |-> p, doc |-> d, ver |-> ver[d], rest |-> D \ {d},
                     failed |-> FALSE] \in Task
  BY Zenon DEF PushAll
<1>1. ver[d] \in 0..MaxVersion
  BY Zenon DEF TypeOK, DataType
<1>2. FALSE \in BOOLEAN
  BY Zenon
<1> QED
  BY <1>1, <1>2, Zenon DEF Task

\* A goroutine that advances leaves the tasks of the others alone.
LEMMA AdvanceType ==
  ASSUME TypeOK, NEW t \in tasks, Advance(t)
  PROVE  /\ tasks' \subseteq Task
         /\ tasks \ {t} \subseteq tasks'
<1>1. t \in Task /\ tasks \subseteq Task
  BY Zenon DEF TypeOK, PushType
<1>2. t.src \in Nat /\ t.peer \in Peer /\ t.rest \in SUBSET Doc
  BY <1>1, Zenon DEF Task
<1>3. PushAll(t.src, t.peer, t.rest) \subseteq Task
  BY <1>2, TaskType, Zenon
<1>4. CASE t.rest = {}
  BY <1>1, <1>4, Zenon DEF Advance
<1>5. CASE t.rest # {}
  BY <1>1, <1>3, <1>5, Zenon DEF Advance
<1> QED
  BY <1>4, <1>5, Zenon

\* Versions stay within their bound when a peer receives a document.
LEMMA ReceivedType ==
  ASSUME TypeOK, NEW p \in Peer, NEW d \in Doc, NEW v \in 0..MaxVersion, Received(p, d, v)
  PROVE  got' \in [Peer -> [Doc -> 0..MaxVersion]]
  BY Zenon DEF TypeOK, DataType, Received

\* The calls of users keep the types.
LEMMA UserType ==
  ASSUME TypeOK, User
  PROVE  TypeOK'
<1> USE DEF TypeOK
<1>1. ASSUME NEW p \in Peer, AddReplicator(p)
      PROVE  TypeOK'
  <2>1. count.adds[p] \in Nat /\ count.deletes[p] \in Nat
    BY Zenon DEF DataType
  <2>2. StoreType'
    BY <1>1, Zenon DEF StoreType, AddReplicator, Status
  <2>3. callbacks' \in SUBSET CallbackOf
    <3> DEFINE c == [n |-> count.adds[p] + count.deletes[p] + 1, peer |-> p, on |-> TRUE,
                     push |-> rep[p] = None]
    <3>1. c \in CallbackOf
      BY <2>1, SMT DEF CallbackOf
    <3>2. callbacks' = callbacks \cup {c} /\ callbacks \in SUBSET CallbackOf
      BY <1>1, Zenon DEF AddReplicator, PushType
    <3> HIDE DEF c
    <3> QED
      BY <3>1, <3>2, Zenon
  <2>4. PushType'
    BY <1>1, <2>3, Zenon DEF PushType, AddReplicator
  <2>5. LoopType' /\ WorkerType'
    BY <1>1, Zenon DEF LoopType, WorkerType, AddReplicator
  <2>6. DataType'
    <3>1. [count.adds EXCEPT ![p] = @ + 1] \in [Peer -> Nat]
      BY <2>1 DEF DataType
    <3>2. count' = [count EXCEPT !.adds = [count.adds EXCEPT ![p] = @ + 1]]
      BY <1>1, Zenon DEF DataType, AddReplicator
    <3>3. count' \in [adds : [Peer -> Nat], deletes : [Peer -> Nat], crashes : Nat]
      BY <3>1, <3>2, Zenon DEF DataType
    <3> QED
      BY <1>1, <3>3, Zenon DEF DataType, AddReplicator
  <2> QED
    BY <2>2, <2>4, <2>5, <2>6, Zenon
<1>2. ASSUME NEW p \in Peer, DeleteReplicator(p)
      PROVE  TypeOK'
  <2>1. count.adds[p] \in Nat /\ count.deletes[p] \in Nat
    BY Zenon DEF DataType
  <2>2. StoreType'
    BY <1>2, Zenon DEF StoreType, DeleteReplicator
  <2>3. callbacks' \in SUBSET CallbackOf
    <3> DEFINE c == [n |-> count.adds[p] + count.deletes[p] + 1, peer |-> p, on |-> FALSE,
                     push |-> FALSE]
    <3>1. c \in CallbackOf
      BY <2>1, SMT DEF CallbackOf
    <3>2. callbacks' = callbacks \cup {c} /\ callbacks \in SUBSET CallbackOf
      BY <1>2, Zenon DEF DeleteReplicator, PushType
    <3> HIDE DEF c
    <3> QED
      BY <3>1, <3>2, Zenon
  <2>4. PushType'
    BY <1>2, <2>3, Zenon DEF PushType, DeleteReplicator
  <2>5. LoopType' /\ WorkerType'
    BY <1>2, Zenon DEF LoopType, WorkerType, DeleteReplicator
  <2>6. DataType'
    <3>1. [count.deletes EXCEPT ![p] = @ + 1] \in [Peer -> Nat]
      BY <2>1 DEF DataType
    <3>2. count' = [count EXCEPT !.deletes = [count.deletes EXCEPT ![p] = @ + 1]]
      BY <1>2, Zenon DEF DataType, DeleteReplicator
    <3>3. count' \in [adds : [Peer -> Nat], deletes : [Peer -> Nat], crashes : Nat]
      BY <3>1, <3>2, Zenon DEF DataType
    <3> QED
      BY <1>2, <3>3, Zenon DEF DataType, DeleteReplicator
  <2> QED
    BY <2>2, <2>4, <2>5, <2>6, Zenon
<1>3. ASSUME NEW d \in Doc, UpdateDocument(d)
      PROVE  TypeOK'
  <2>1. ver[d] + 1 \in 0..MaxVersion
    BY <1>3, BoundAssumption DEF DataType, UpdateDocument
  <2>2. ASSUME NEW p \in mem
        PROVE  [src |-> 0, peer |-> p, doc |-> d, ver |-> ver[d] + 1, rest |-> {},
                failed |-> FALSE] \in Task
    <3>1. p \in Peer /\ {} \in SUBSET Doc /\ FALSE \in BOOLEAN /\ 0 \in Nat
      BY Zenon DEF PushType
    <3> QED
      BY <2>1, <3>1, Zenon DEF Task
  <2>3. tasks' \subseteq Task /\ tasks \subseteq tasks'
    BY <1>3, <2>2, Zenon DEF PushType, UpdateDocument
  <2>4. PushType'
    BY <1>3, <2>3, Zenon DEF PushType, UpdateDocument
  <2>5. StoreType' /\ LoopType' /\ WorkerType'
    BY <1>3, Zenon DEF StoreType, LoopType, WorkerType, UpdateDocument
  <2>6. DataType'
    BY <1>3, <2>1, Zenon DEF DataType, UpdateDocument
  <2> QED
    BY <2>4, <2>5, <2>6, Zenon
<1> QED
  BY <1>1, <1>2, <1>3, Zenon DEF User

\* Pushes and the handler of failures keep the types.
LEMMA PushStepType ==
  ASSUME TypeOK, Push
  PROVE  TypeOK'
<1> USE DEF TypeOK
<1>1. ASSUME NEW c \in callbacks, UpdateReplicators(c)
      PROVE  TypeOK'
  <2>1. c.n \in Nat /\ c.peer \in Peer /\ Known \in SUBSET Doc
    BY Zenon DEF PushType, CallbackOf, Known
  <2>2. PushAll(c.n, c.peer, Known) \subseteq Task
    BY <2>1, TaskType, Zenon
  <2>3. tasks' \subseteq Task /\ tasks \subseteq tasks'
    BY <1>1, <2>2, Zenon DEF PushType, UpdateReplicators
  <2>4. mem' \subseteq Peer /\ callbacks' \subseteq callbacks /\ handler' = handler
    BY <1>1, <2>1, Zenon DEF PushType, UpdateReplicators
  <2>5. PushType'
    BY <2>3, <2>4, Zenon DEF PushType
  <2>6. StoreType' /\ LoopType' /\ WorkerType' /\ DataType'
    BY <1>1, Zenon DEF StoreType, LoopType, WorkerType, DataType, UpdateReplicators
  <2> QED
    BY <2>5, <2>6, Zenon
<1>2. ASSUME NEW t \in tasks, PushSucceeds(t)
      PROVE  TypeOK'
  <2>1. t.peer \in Peer /\ t.doc \in Doc /\ t.ver \in 0..MaxVersion
    BY Zenon DEF PushType, Task
  <2>2. got' \in [Peer -> [Doc -> 0..MaxVersion]]
    BY <1>2, <2>1, ReceivedType, Zenon DEF PushSucceeds, DataType
  <2>3. tasks' \subseteq Task /\ tasks \ {t} \subseteq tasks'
    BY <1>2, AdvanceType, Zenon DEF PushSucceeds
  <2>4. PushType'
    BY <1>2, <2>3, Zenon DEF PushType, PushSucceeds
  <2>5. StoreType' /\ LoopType' /\ WorkerType'
    BY <1>2, Zenon DEF StoreType, LoopType, WorkerType, PushSucceeds
  <2>6. DataType'
    BY <1>2, <2>2, Zenon DEF DataType, PushSucceeds
  <2> QED
    BY <2>4, <2>5, <2>6, Zenon
<1>3. ASSUME NEW t \in tasks, PushFails(t)
      PROVE  TypeOK'
  <2>1. [t EXCEPT !.failed = TRUE] \in Task
    BY Zenon DEF PushType, Task
  <2>2. tasks' \subseteq Task /\ tasks \ {t} \subseteq tasks'
    BY <1>3, <2>1, Zenon DEF PushType, PushFails
  <2>3. PushType'
    BY <1>3, <2>2, Zenon DEF PushType, PushFails
  <2>4. StoreType' /\ LoopType' /\ WorkerType' /\ DataType'
    BY <1>3, Zenon DEF StoreType, LoopType, WorkerType, DataType, PushFails
  <2> QED
    BY <2>3, <2>4, Zenon
<1>4. ASSUME NEW t \in tasks, PushTimesOut(t)
      PROVE  TypeOK'
  <2>1. PushType'
    BY <1>4, Zenon DEF PushType, PushTimesOut
  <2>2. StoreType' /\ LoopType' /\ WorkerType' /\ DataType'
    BY <1>4, Zenon DEF StoreType, LoopType, WorkerType, DataType, PushTimesOut
  <2> QED
    BY <2>1, <2>2, Zenon
<1>5. ASSUME NEW t \in tasks, HandleReplicatorFailure(t)
      PROVE  TypeOK'
  <2>1. handler' \in Handler /\ handler'.task = t
    BY <1>5, Zenon DEF PushType, Handler, HandleReplicatorFailure
  <2>2. PushType'
    BY <1>5, <2>1, Zenon DEF PushType, HandleReplicatorFailure
  <2>3. StoreType' /\ LoopType' /\ WorkerType' /\ DataType'
    BY <1>5, Zenon DEF StoreType, LoopType, WorkerType, DataType, HandleReplicatorFailure
  <2> QED
    BY <2>2, <2>3, Zenon
<1>6. ASSUME GetInactive
      PROVE  TypeOK'
  <2>1. handler \in Handler /\ handler.task \in tasks /\ handler.task.failed
    BY <1>6 DEF PushType, NoHandler, GetInactive
  <2>2. handler.task.peer \in Peer /\ handler.task.doc \in Doc
    BY <2>1, Zenon DEF PushType, Handler, Task
  <2>3. CASE rep[handler.task.peer] = None
    BY <1>6, <2>3, Zenon DEF PushType, StoreType, LoopType, WorkerType, DataType, GetInactive
  <2>4. CASE rep[handler.task.peer] # None
    <3>1. handler' \in Handler /\ handler'.task = handler.task
      BY <1>6, <2>1, <2>4, Zenon DEF Handler, GetInactive
    <3>2. PushType'
      BY <1>6, <2>1, <2>4, <3>1 DEF PushType, GetInactive
    <3> QED
      BY <1>6, <3>2, Zenon DEF StoreType, LoopType, WorkerType, DataType, GetInactive
  <2> QED
    BY <2>3, <2>4, Zenon
<1>7. ASSUME SetInactive
      PROVE  TypeOK'
  <2>1. handler \in Handler /\ handler.task \in tasks /\ handler.task.failed
    BY <1>7 DEF PushType, NoHandler, SetInactive
  <2>2. handler.task.peer \in Peer /\ handler.task.doc \in Doc
    BY <2>1, Zenon DEF PushType, Handler, Task
  <2>3. handler' \in Handler /\ handler'.task = handler.task
    BY <1>7, <2>1, Zenon DEF Handler, SetInactive
  <2>4. PushType'
    BY <1>7, <2>1, <2>3 DEF PushType, SetInactive
  <2>5. StoreType'
    BY <1>7, <2>2, Zenon DEF StoreType, Status, Record, SetInactive, persisted
  <2> QED
    BY <1>7, <2>4, <2>5, Zenon DEF LoopType, WorkerType, DataType, SetInactive, persisted
<1>8. ASSUME HasRetry
      PROVE  TypeOK'
  <2>1. handler \in Handler /\ handler.task \in tasks /\ handler.task.failed
    BY <1>8 DEF PushType, NoHandler, HasRetry
  <2>2. handler.task.peer \in Peer /\ handler.task.doc \in Doc
    BY <2>1, Zenon DEF PushType, Handler, Task
  <2>3. handler' \in Handler /\ handler'.task = handler.task
    BY <1>8, <2>1, Zenon DEF Handler, HasRetry
  <2>4. PushType'
    BY <1>8, <2>1, <2>3 DEF PushType, HasRetry
  <2>5. StoreType'
    BY <1>8, <2>2, Zenon DEF StoreType, Status, Record, HasRetry, persisted
  <2> QED
    BY <1>8, <2>4, <2>5, Zenon DEF LoopType, WorkerType, DataType, HasRetry, persisted
<1>9. ASSUME CreateRetry
      PROVE  TypeOK'
  <2>1. handler \in Handler /\ handler.task \in tasks /\ handler.task.failed
    BY <1>9 DEF PushType, NoHandler, CreateRetry
  <2>2. handler.task.peer \in Peer /\ handler.task.doc \in Doc
    BY <2>1, Zenon DEF PushType, Handler, Task
  <2>3. handler' \in Handler /\ handler'.task = handler.task
    BY <1>9, <2>1, Zenon DEF Handler, CreateRetry
  <2>4. PushType'
    BY <1>9, <2>1, <2>3 DEF PushType, CreateRetry
  <2>5. StoreType'
    BY <1>9, <2>2, Zenon DEF StoreType, Status, Record, CreateRetry, persisted
  <2> QED
    BY <1>9, <2>4, <2>5, Zenon DEF LoopType, WorkerType, DataType, CreateRetry, persisted
<1>10. ASSUME SetRetryDoc
      PROVE  TypeOK'
  <2>1. handler \in Handler /\ handler.task \in tasks /\ handler.task.failed
    BY <1>10 DEF PushType, NoHandler, SetRetryDoc
  <2>2. handler.task.peer \in Peer /\ handler.task.doc \in Doc
    BY <2>1, Zenon DEF PushType, Handler, Task
  <2>3. tasks' \subseteq Task /\ handler' = NoHandler
    BY <1>10, <2>1, AdvanceType, Zenon DEF SetRetryDoc
  <2>4. PushType'
    BY <1>10, <2>3, Zenon DEF PushType, SetRetryDoc
  <2>5. StoreType'
    BY <1>10, <2>2, Zenon DEF StoreType, SetRetryDoc
  <2> QED
    BY <1>10, <2>4, <2>5, Zenon DEF LoopType, WorkerType, DataType, SetRetryDoc
<1> QED
  BY <1>1, <1>2, <1>3, <1>4, <1>5, <1>6, <1>7, <1>8, <1>9, <1>10, Zenon DEF Push

\* The retry loop keeps the types.
LEMMA LoopStepType ==
  ASSUME TypeOK, RetryLoop
  PROVE  TypeOK'
<1> USE DEF TypeOK
<1>0. ASSUME NEW p \in Peer
      PROVE  Visited(p) \in Loop /\ Visited(p).pc \in {"idle", "visit"}
  <2>1. IdleLoop.snap \in [Peer -> Record]
    BY Zenon DEF IdleLoop, Record
  <2> QED
    BY <2>1, Zenon DEF LoopType, Loop, Visited
<1>1. ASSUME RetryReplicators
      PROVE  TypeOK'
  <2>1. retry \in [Peer -> Record] /\ {p \in Peer : retry[p] # "none"} \in SUBSET Peer
    BY Zenon DEF StoreType
  <2>2. LoopType'
    BY <1>1, <2>1, Zenon DEF LoopType, Loop, RetryReplicators
  <2> QED
    BY <1>1, <2>2, Zenon DEF StoreType, PushType, WorkerType, DataType, RetryReplicators, persisted
<1>2. ASSUME NEW p \in Peer, VisitDue(p)
      PROVE  TypeOK'
  <2>1. LoopType'
    BY <1>2, Zenon DEF LoopType, Loop, VisitDue
  <2> QED
    BY <1>2, <2>1, Zenon DEF StoreType, PushType, WorkerType, DataType, VisitDue, persisted
<1>3. ASSUME NEW p \in Peer, VisitOther(p)
      PROVE  TypeOK'
  <2>1. LoopType'
    BY <1>0, <1>3, Zenon DEF LoopType, VisitOther
  <2> QED
    BY <1>3, <2>1, Zenon DEF StoreType, PushType, WorkerType, DataType, VisitOther, persisted
<1>4. ASSUME NEW w \in Worker, AddAsRetrying(w)
      PROVE  TypeOK'
  <2>1. loop.peer \in Peer
    BY <1>4, Zenon DEF LoopType, AddAsRetrying
  <2>2. LoopType'
    BY <1>0, <1>4, <2>1, Zenon DEF LoopType, AddAsRetrying
  <2>3. [IdleWorker EXCEPT !.pc = "list", !.peer = loop.peer] \in Retrier
    BY <2>1, Zenon DEF IdleWorker, Retrier, RetryPc
  <2>4. WorkerType'
    BY <1>4, <2>3, Zenon DEF WorkerType, AddAsRetrying
  <2>5. StoreType'
    BY <1>4, Zenon DEF StoreType, Record, AddAsRetrying
  <2> QED
    BY <1>4, <2>2, <2>4, <2>5, Zenon DEF PushType, DataType, AddAsRetrying
<1>5. ASSUME EraseRetry
      PROVE  TypeOK'
  <2>1. LoopType'
    BY <1>5, Zenon DEF LoopType, Loop, EraseRetry
  <2>2. StoreType'
    BY <1>5, Zenon DEF StoreType, Record, EraseRetry
  <2> QED
    BY <1>5, <2>1, <2>2, Zenon DEF PushType, WorkerType, DataType, EraseRetry
<1>6. ASSUME ListDocs
      PROVE  TypeOK'
  <2>1. docs[loop.peer] \in SUBSET Doc
    BY <1>6, Zenon DEF LoopType, StoreType, ListDocs
  <2>2. LoopType'
    BY <1>6, <2>1, Zenon DEF LoopType, Loop, ListDocs
  <2> QED
    BY <1>6, <2>2, Zenon DEF StoreType, PushType, WorkerType, DataType, ListDocs, persisted
<1>7. ASSUME DropDoc
      PROVE  TypeOK'
  <2>1. loop.peer \in Peer
    BY <1>7, Zenon DEF LoopType, DropDoc
  <2>2. StoreType'
    BY <1>7 DEF StoreType, DropDoc
  <2>3. LoopType'
    <3>1. CASE loop.docs = {} /\ loop' = Visited(loop.peer)
      BY <1>0, <2>1, <3>1, Zenon DEF LoopType
    <3>2. ASSUME NEW d \in loop.docs, loop' = [loop EXCEPT !.docs = @ \ {d}]
          PROVE  LoopType'
      BY <3>2, Zenon DEF LoopType, Loop
    <3> QED
      BY <1>7, <3>1, <3>2, Zenon DEF DropDoc
  <2> QED
    BY <1>7, <2>2, <2>3, Zenon DEF PushType, WorkerType, DataType, DropDoc
<1> QED
  BY <1>1, <1>2, <1>3, <1>4, <1>5, <1>6, <1>7, Zenon DEF RetryLoop

\* A goroutine of retryReplicator keeps the types.
LEMMA WorkerStepType ==
  ASSUME TypeOK, NEW w \in Worker, RetryWorker(w)
  PROVE  TypeOK'
<1> USE DEF TypeOK
<1>0. worker[w].pc # "idle" => worker[w] \in Retrier /\ worker[w].peer \in Peer
  BY DEF WorkerType, IdleWorker, Retrier
<1>1. ASSUME ListRetryDocs(w)
      PROVE  TypeOK'
  <2>1. worker[w] \in Retrier /\ worker[w].peer \in Peer
    BY <1>0, <1>1, Zenon DEF ListRetryDocs
  <2>2. docs[worker[w].peer] \in SUBSET Doc
    BY <2>1, Zenon DEF StoreType
  <2>3. worker' \in [Worker -> Retrier \cup {IdleWorker}]
    BY <1>1, <2>1, <2>2, Zenon DEF WorkerType, Retrier, RetryPc, ListRetryDocs
  <2> QED
    BY <1>1, <2>3, Zenon DEF StoreType, PushType, LoopType, WorkerType, DataType, ListRetryDocs, persisted
<1>2. ASSUME NEW d \in Doc, RetryDoc(w, d)
      PROVE  TypeOK'
  <2>1. worker[w] \in Retrier /\ worker[w].peer \in Peer
    BY <1>0, <1>2, Zenon DEF RetryDoc
  <2>3. worker' \in [Worker -> Retrier \cup {IdleWorker}]
    BY <1>2, <2>1, Zenon DEF WorkerType, Retrier, RetryPc, RetryDoc
  <2>4. ver[d] \in 0..MaxVersion
    BY Zenon DEF DataType
  <2>5. got' \in [Peer -> [Doc -> 0..MaxVersion]]
    BY <1>2, <2>1, <2>4, ReceivedType, Zenon DEF RetryDoc, DataType
  <2>6. DataType'
    BY <1>2, <2>5, Zenon DEF DataType, RetryDoc
  <2> QED
    BY <1>2, <2>3, <2>6, Zenon DEF StoreType, PushType, LoopType, WorkerType, RetryDoc, persisted
<1>3. ASSUME RetryDocFails(w)
      PROVE  TypeOK'
  <2>1. worker[w] \in Retrier /\ worker[w].peer \in Peer
    BY <1>0, <1>3, Zenon DEF RetryDocFails
  <2>3. worker' \in [Worker -> Retrier \cup {IdleWorker}]
    BY <1>3, <2>1, Zenon DEF WorkerType, Retrier, RetryPc, RetryDocFails
  <2> QED
    BY <1>3, <2>3, Zenon DEF StoreType, PushType, LoopType, WorkerType, DataType, RetryDocFails, persisted
<1>4. ASSUME DeleteRetryDoc(w)
      PROVE  TypeOK'
  <2>1. worker[w] \in Retrier /\ worker[w].peer \in Peer
    BY <1>0, <1>4, Zenon DEF DeleteRetryDoc
  <2>3. worker' \in [Worker -> Retrier \cup {IdleWorker}]
    BY <1>4, <2>1, Zenon DEF WorkerType, Retrier, RetryPc, DeleteRetryDoc
  <2>4. StoreType'
    BY <1>4, <2>1, Zenon DEF StoreType, Status, Record, DeleteRetryDoc
  <2> QED
    BY <1>4, <2>3, <2>4, Zenon DEF PushType, LoopType, WorkerType, DataType, DeleteRetryDoc
<1>5. ASSUME NoMoreDocs(w)
      PROVE  TypeOK'
  <2>1. worker[w] \in Retrier /\ worker[w].peer \in Peer
    BY <1>0, <1>5, Zenon DEF NoMoreDocs
  <2>3. worker' \in [Worker -> Retrier \cup {IdleWorker}]
    BY <1>5, <2>1, Zenon DEF WorkerType, Retrier, RetryPc, NoMoreDocs
  <2> QED
    BY <1>5, <2>3, Zenon DEF StoreType, PushType, LoopType, WorkerType, DataType, NoMoreDocs, persisted
<1>6. ASSUME DeleteRetry(w)
      PROVE  TypeOK'
  <2>1. worker[w] \in Retrier /\ worker[w].peer \in Peer
    BY <1>0, <1>6, Zenon DEF DeleteRetry
  <2>3. worker' \in [Worker -> Retrier \cup {IdleWorker}]
    BY <1>6, <2>1, Zenon DEF WorkerType, Retrier, RetryPc, DeleteRetry
  <2>4. StoreType'
    BY <1>6, <2>1, Zenon DEF StoreType, Status, Record, DeleteRetry
  <2> QED
    BY <1>6, <2>3, <2>4, Zenon DEF PushType, LoopType, WorkerType, DataType, DeleteRetry
<1>7. ASSUME GetActive(w)
      PROVE  TypeOK'
  <2>1. worker[w] \in Retrier /\ worker[w].peer \in Peer
    BY <1>0, <1>7, Zenon DEF GetActive
  <2>3. worker' \in [Worker -> Retrier \cup {IdleWorker}]
    BY <1>7, <2>1, Zenon DEF WorkerType, Retrier, RetryPc, GetActive
  <2> QED
    BY <1>7, <2>3, Zenon DEF StoreType, PushType, LoopType, WorkerType, DataType, GetActive, persisted
<1>8. ASSUME SetActive(w)
      PROVE  TypeOK'
  <2>1. worker[w] \in Retrier /\ worker[w].peer \in Peer
    BY <1>0, <1>8, Zenon DEF SetActive
  <2>3. worker' \in [Worker -> Retrier \cup {IdleWorker}]
    BY <1>8, <2>1, Zenon DEF WorkerType, Retrier, RetryPc, SetActive
  <2>4. StoreType'
    BY <1>8, <2>1, Zenon DEF StoreType, Status, Record, SetActive
  <2> QED
    BY <1>8, <2>3, <2>4, Zenon DEF PushType, LoopType, WorkerType, DataType, SetActive
<1>9. ASSUME GetNextRetry(w)
      PROVE  TypeOK'
  <2>1. worker[w] \in Retrier /\ worker[w].peer \in Peer
    BY <1>0, <1>9, Zenon DEF GetNextRetry
  <2>3. worker' \in [Worker -> Retrier \cup {IdleWorker}]
    BY <1>9, <2>1, Zenon DEF WorkerType, Retrier, RetryPc, GetNextRetry
  <2> QED
    BY <1>9, <2>3, Zenon DEF StoreType, PushType, LoopType, WorkerType, DataType, GetNextRetry, persisted
<1>10. ASSUME SetNextRetry(w)
      PROVE  TypeOK'
  <2>1. worker[w] \in Retrier /\ worker[w].peer \in Peer
    BY <1>0, <1>10, Zenon DEF SetNextRetry
  <2>3. worker' \in [Worker -> Retrier \cup {IdleWorker}]
    BY <1>10, <2>1, Zenon DEF WorkerType, Retrier, RetryPc, SetNextRetry
  <2>4. StoreType'
    BY <1>10, <2>1, Zenon DEF StoreType, Status, Record, SetNextRetry
  <2> QED
    BY <1>10, <2>3, <2>4, Zenon DEF PushType, LoopType, WorkerType, DataType, SetNextRetry
<1> QED
  BY <1>1, <1>2, <1>3, <1>4, <1>5, <1>6, <1>7, <1>8, <1>9, <1>10, Zenon DEF RetryWorker

\* A restart keeps the types.
LEMMA RestartType ==
  ASSUME TypeOK, Restart
  PROVE  TypeOK'
<1> USE DEF TypeOK
<1>1. StoreType'
  BY Zenon DEF StoreType, Restart, persisted
<1>2. PushType'
  BY Zenon DEF PushType, Restart, Replicators
<1>3. IdleLoop \in Loop /\ IdleLoop.pc = "idle"
  BY Zenon DEF IdleLoop, Loop, Record
<1>4. LoopType'
  BY <1>3, Zenon DEF LoopType, Restart
<1>5. WorkerType'
  BY Zenon DEF WorkerType, Restart
<1>6. DataType'
  BY DEF DataType, Restart
<1> QED
  BY <1>1, <1>2, <1>4, <1>5, <1>6, Zenon

\* Every step keeps the types.
LEMMA StepType ==
  ASSUME TypeOK, [Next]_vars
  PROVE  TypeOK'
<1>1. CASE UNCHANGED vars
  BY <1>1, Zenon DEF vars, TypeOK, StoreType, PushType, LoopType, WorkerType, DataType
<1>2. CASE Next
  BY <1>2, UserType, PushStepType, LoopStepType, WorkerStepType, RestartType, Zenon DEF Next
<1> QED
  BY <1>1, <1>2, Zenon

-----------------------------------------------------------------------------
\* A step that changes no retry record and neither starts nor ends a retry
\* keeps what the invariant says of them.
LEMMA RetriersKept ==
  ASSUME IndInv, retry' = retry, loop' = loop, count'.crashes = count.crashes,
         \A w \in Worker :
           /\ worker'[w].pc \in RetryPc <=> worker[w].pc \in RetryPc
           /\ worker[w].pc \in RetryPc => worker'[w].peer = worker[w].peer
  PROVE  RetrierInv' /\ SnapInv' /\ RunningInv'
<1>1. RetrierInv'
  BY Zenon DEF IndInv, RetrierInv
<1>2. SnapInv'
  BY Zenon DEF IndInv, SnapInv
<1>3. RunningInv'
  BY DEF IndInv, RunningInv
<1> QED
  BY <1>1, <1>2, <1>3, Zenon

\* Users change no retry record.
LEMMA UserInd ==
  ASSUME IndInv, User
  PROVE  IndInv'
<1>1. TypeOK'
  BY UserType, Zenon DEF IndInv
<1>2. UNCHANGED <<retry, loop, worker, handler>>
  BY Zenon DEF User, AddReplicator, DeleteReplicator, UpdateDocument
<1>3. count'.crashes = count.crashes
  BY Zenon DEF User, AddReplicator, DeleteReplicator, UpdateDocument, IndInv, TypeOK, DataType
<1>4. CreateInv'
  BY <1>2, Zenon DEF IndInv, CreateInv
<1> QED
  BY <1>1, <1>2, <1>3, <1>4, RetriersKept, Zenon DEF IndInv

\* A push changes a retry record only by creating it, under the mutex of
\* handleReplicatorFailure, and no one has created it since Has.
LEMMA PushInd ==
  ASSUME IndInv, Push
  PROVE  IndInv'
<1>1. TypeOK'
  BY PushStepType, Zenon DEF IndInv
<1>2. UNCHANGED <<loop, worker, count>>
  BY Zenon DEF Push, UpdateReplicators, PushSucceeds, PushFails, PushTimesOut, HandleReplicatorFailure,
         GetInactive, SetInactive, HasRetry, CreateRetry, SetRetryDoc
<1>3. CASE CreateRetry
  <2> DEFINE p == handler.task.peer
  <2>1. p \in Peer
    BY <1>3 DEF IndInv, TypeOK, PushType, CreateRetry, NoHandler, Handler, Task
  <2>2. retry[p] = "none"
    BY <1>3, Zenon DEF IndInv, CreateInv, CreateRetry
  <2>3. retry' = [retry EXCEPT ![p] = "waiting"]
    BY <1>3, Zenon DEF CreateRetry
  <2>4. retry \in [Peer -> Record]
    BY Zenon DEF IndInv, TypeOK, StoreType
  <2> HIDE DEF p
  <2>5. RetrierInv'
    BY <1>2, <2>1, <2>2, <2>3, <2>4 DEF IndInv, RetrierInv
  <2>6. loop.todo \subseteq Peer
    BY Zenon DEF IndInv, TypeOK, LoopType, Loop
  <2>7. SnapInv'
    BY <1>2, <2>1, <2>2, <2>3, <2>4, <2>6, Zenon DEF IndInv, SnapInv
  <2>8. RunningInv'
    BY <1>2, <2>1, <2>2, <2>3, <2>4, Zenon DEF IndInv, RunningInv
  <2>9. CreateInv'
    BY <1>3, Zenon DEF CreateRetry, CreateInv, IndInv, TypeOK, PushType, Handler, NoHandler
  <2> QED
    BY <1>1, <2>5, <2>7, <2>8, <2>9, Zenon DEF IndInv
<1>4. CASE ~CreateRetry
  <2>1. retry' = retry
    BY <1>4, Zenon DEF Push, UpdateReplicators, PushSucceeds, PushFails, PushTimesOut,
         HandleReplicatorFailure, GetInactive, SetInactive, HasRetry, SetRetryDoc, persisted
  <2>2. ASSUME UNCHANGED handler
        PROVE  CreateInv'
    BY <2>1, <2>2, Zenon DEF IndInv, CreateInv
  <2>3. ASSUME HasRetry
        PROVE  CreateInv'
    <3>1. handler' = [handler EXCEPT !.pc = IF retry[handler.task.peer] = "none"
                                            THEN "create" ELSE "doc"]
      BY <2>3, Zenon DEF HasRetry
    <3>2. handler \in Handler
      BY <2>3 DEF HasRetry, IndInv, TypeOK, PushType, NoHandler
    <3>3. CASE retry[handler.task.peer] = "none"
      BY <2>1, <3>1, <3>2, <3>3, Zenon DEF CreateInv, Handler
    <3>4. CASE retry[handler.task.peer] # "none"
      BY <2>1, <3>1, <3>2, <3>4, Zenon DEF CreateInv, Handler
    <3> QED
      BY <3>3, <3>4, Zenon
  <2>4. ASSUME handler'.pc # "create"
        PROVE  CreateInv'
    BY <2>4, Zenon DEF CreateInv
  <2>5. UNCHANGED handler \/ HasRetry \/ handler'.pc # "create"
    <3>1. CASE UNCHANGED handler \/ HasRetry
      BY <3>1, Zenon
    <3>2. CASE \E t \in tasks : HandleReplicatorFailure(t)
      BY <3>2 DEF HandleReplicatorFailure
    <3>3. CASE GetInactive
      BY <3>3 DEF GetInactive, IndInv, TypeOK, PushType, Handler, NoHandler
    <3>4. CASE SetInactive
      BY <3>4, Zenon DEF SetInactive, IndInv, TypeOK, PushType, Handler, NoHandler
    <3>5. CASE SetRetryDoc
      BY <3>5, Zenon DEF SetRetryDoc, NoHandler
    <3> QED
      BY <1>4, <3>1, <3>2, <3>3, <3>4, <3>5, Zenon DEF Push, UpdateReplicators, PushSucceeds, PushFails,
         PushTimesOut
  <2>6. CreateInv'
    BY <2>2, <2>3, <2>4, <2>5, Zenon
  <2> QED
    BY <1>1, <1>2, <2>1, <2>6, RetriersKept, Zenon DEF IndInv
<1> QED
  BY <1>3, <1>4, Zenon

\* When the loop ends the visit of p, what it has read of the others is still
\* what their records are.
LEMMA VisitedSnap ==
  ASSUME IndInv, NEW p \in loop.todo, loop.pc = "visit" \/ loop.peer = p,
         loop' = Visited(p), \A q \in Peer \ {p} : retry'[q] = retry[q]
  PROVE  SnapInv'
<1>1. loop \in Loop /\ loop.todo \subseteq Peer
  BY Zenon DEF IndInv, TypeOK, LoopType, Loop
<1>2. CASE loop.todo = {p}
  <2>1. loop'.pc = "idle" /\ loop'.todo = {}
    BY <1>1, <1>2, Zenon DEF Visited, Loop
  <2> QED
    BY <2>1, Zenon DEF SnapInv
<1>3. CASE loop.todo # {p}
  <2>1. loop'.pc = "visit" /\ loop'.todo = loop.todo \ {p} /\ loop'.snap = loop.snap
    BY <1>1, <1>3, Zenon DEF Visited, Loop
  <2>2. ASSUME NEW q \in loop'.todo, loop'.snap[q] = "waiting"
        PROVE  retry'[q] = "waiting"
    BY <1>1, <2>1, <2>2 DEF IndInv, SnapInv
  <2> QED
    BY <2>1, <2>2, Zenon DEF SnapInv
<1> QED
  BY <1>2, <1>3, Zenon

\* The loop takes a record for retrying or erasing only while it is waiting.
LEMMA LoopInd ==
  ASSUME IndInv, RetryLoop
  PROVE  IndInv'
<1>0. TypeOK'
  BY LoopStepType, Zenon DEF IndInv
<1>1. UNCHANGED <<handler, count>>
  BY Zenon DEF RetryLoop, RetryReplicators, VisitDue, VisitOther, AddAsRetrying, EraseRetry, ListDocs,
         DropDoc
<1>2. /\ loop \in Loop
      /\ loop.todo \subseteq Peer
      /\ retry \in [Peer -> Record]
      /\ worker \in [Worker -> Retrier \cup {IdleWorker}]
  BY Zenon DEF IndInv, TypeOK, LoopType, Loop, StoreType, WorkerType
<1>3. ASSUME UNCHANGED <<retry, worker>>, SnapInv'
      PROVE  IndInv'
  <2>1. RetrierInv'
    BY <1>3, Zenon DEF IndInv, RetrierInv
  <2>2. RunningInv'
    BY <1>1, <1>3, Zenon DEF IndInv, RunningInv
  <2>3. CreateInv'
    BY <1>1, <1>3, Zenon DEF IndInv, CreateInv
  <2> QED
    BY <1>0, <1>3, <2>1, <2>2, <2>3, Zenon DEF IndInv
<1>4. CASE RetryReplicators
  <2>1. loop'.pc = "visit" /\ loop'.snap = retry /\ UNCHANGED <<retry, worker>>
    BY <1>2, <1>4, Zenon DEF RetryReplicators, Loop, persisted
  <2>2. SnapInv'
    BY <2>1, Zenon DEF SnapInv
  <2> QED
    BY <1>3, <2>1, <2>2, Zenon
<1>5. ASSUME NEW p \in Peer, VisitDue(p)
      PROVE  IndInv'
  <2>1. /\ loop'.pc \in {"erase", "mark"} /\ loop'.peer = p
        /\ loop'.todo = loop.todo /\ loop'.snap = loop.snap
        /\ UNCHANGED <<retry, worker>>
    BY <1>2, <1>5, Zenon DEF VisitDue, Loop, persisted
  <2>2. loop.pc = "visit" /\ p \in loop.todo /\ loop.snap[p] = "waiting"
    BY <1>5, Zenon DEF VisitDue
  <2>3. SnapInv'
    BY <2>1, <2>2, Zenon DEF IndInv, SnapInv
  <2> QED
    BY <1>3, <2>1, <2>3, Zenon
<1>6. ASSUME NEW p \in Peer, VisitOther(p)
      PROVE  IndInv'
  <2>1. UNCHANGED <<retry, worker>> /\ p \in loop.todo /\ loop.pc = "visit" /\ loop' = Visited(p)
    BY <1>6, Zenon DEF VisitOther, persisted
  <2>2. SnapInv'
    BY <2>1, VisitedSnap, Zenon
  <2> QED
    BY <1>3, <2>1, <2>2, Zenon
<1>7. ASSUME NEW w \in Worker, AddAsRetrying(w)
      PROVE  IndInv'
  <2> DEFINE p == loop.peer
  <2>1. p \in loop.todo /\ retry[p] = "waiting"
    BY <1>7, Zenon DEF AddAsRetrying, IndInv, SnapInv
  <2>2. retry' = [retry EXCEPT ![p] = "retrying"] /\ loop' = Visited(p)
    BY <1>7, Zenon DEF AddAsRetrying
  <2>3. /\ worker[w].pc = "idle"
        /\ worker'[w].pc = "list" /\ worker'[w].peer = p
        /\ \A v \in Worker \ {w} : worker'[v] = worker[v]
    BY <1>2, <1>7, Zenon DEF AddAsRetrying, IdleWorker
  <2>4. SnapInv'
    BY <1>2, <2>1, <2>2, VisitedSnap, Zenon
  <2> HIDE DEF p
  <2>5. "list" \in RetryPc /\ "idle" \notin RetryPc
    BY Zenon DEF RetryPc
  <2>6. \A v \in Worker : worker[v].pc \in RetryPc => worker[v].peer # p /\ v # w
    BY <2>1, <2>3, <2>5, Zenon DEF IndInv, RetrierInv
  <2>7. \A v \in Worker : worker[v].pc \in RetryPc => worker[v].peer \in Peer
    BY <1>2, <2>5 DEF Retrier, IdleWorker
  <2>8. RetrierInv'
    BY <1>2, <2>1, <2>2, <2>3, <2>5, <2>6, <2>7 DEF IndInv, RetrierInv
  <2>9. RunningInv'
    BY <1>1, <1>2, <2>1, <2>2, <2>3, <2>5, <2>6 DEF IndInv, RunningInv
  <2>10. CreateInv'
    BY <1>1, <1>2, <2>1, <2>2 DEF IndInv, CreateInv, TypeOK, PushType, Handler, NoHandler, Task
  <2> QED
    BY <1>0, <2>4, <2>8, <2>9, <2>10, Zenon DEF IndInv
<1>8. CASE EraseRetry
  <2> DEFINE p == loop.peer
  <2>1. p \in loop.todo /\ retry[p] = "waiting" /\ loop.snap[p] = "waiting"
    BY <1>8, Zenon DEF EraseRetry, IndInv, SnapInv
  <2>2. retry' = [retry EXCEPT ![p] = "none"] /\ worker' = worker
    BY <1>8, Zenon DEF EraseRetry
  <2>3. /\ loop.pc = "erase" /\ loop'.pc = "list" /\ loop'.peer = p
        /\ loop'.todo = loop.todo /\ loop'.snap = loop.snap
    BY <1>2, <1>8, Zenon DEF EraseRetry, Loop
  <2> HIDE DEF p
  <2>4. SnapInv'
    BY <1>2, <2>1, <2>2, <2>3, Zenon DEF IndInv, SnapInv
  <2>5. \A v \in Worker : worker[v].pc \in RetryPc => worker[v].peer \in Peer
    BY <1>2 DEF Retrier, IdleWorker, RetryPc
  <2>6. RetrierInv'
    BY <1>2, <2>1, <2>2, <2>5, Zenon DEF IndInv, RetrierInv
  <2>7. RunningInv'
    BY <1>1, <1>2, <2>1, <2>2, Zenon DEF IndInv, RunningInv
  <2>8. CreateInv'
    BY <1>1, <1>2, <2>1, <2>2 DEF IndInv, CreateInv, TypeOK, PushType, Handler, NoHandler, Task
  <2> QED
    BY <1>0, <2>4, <2>6, <2>7, <2>8, Zenon DEF IndInv
<1>9. CASE ListDocs
  <2>1. /\ UNCHANGED <<retry, worker>>
        /\ loop.pc = "list" /\ loop'.pc = "drop" /\ loop'.peer = loop.peer
        /\ loop'.todo = loop.todo /\ loop'.snap = loop.snap
    BY <1>2, <1>9, Zenon DEF ListDocs, Loop, persisted
  <2>2. SnapInv'
    BY <2>1, Zenon DEF IndInv, SnapInv
  <2> QED
    BY <1>3, <2>1, <2>2, Zenon
<1>10. CASE DropDoc
  <2>1. UNCHANGED <<retry, worker>> /\ loop.pc = "drop" /\ loop.peer \in loop.todo
    BY <1>10, Zenon DEF DropDoc, IndInv, SnapInv
  <2>2. CASE loop' = Visited(loop.peer)
    BY <1>3, <2>1, <2>2, VisitedSnap, Zenon
  <2>3. ASSUME NEW d \in loop.docs, loop' = [loop EXCEPT !.docs = @ \ {d}]
        PROVE  IndInv'
    <3>1. /\ loop'.pc = loop.pc /\ loop'.peer = loop.peer
          /\ loop'.todo = loop.todo /\ loop'.snap = loop.snap
      BY <1>2, <2>3, Zenon DEF Loop
    <3>2. SnapInv'
      BY <2>1, <3>1, Zenon DEF IndInv, SnapInv
    <3> QED
      BY <1>3, <2>1, <3>2, Zenon
  <2> QED
    BY <1>10, <2>2, <2>3, Zenon DEF DropDoc
<1> QED
  BY <1>4, <1>5, <1>6, <1>7, <1>8, <1>9, <1>10, Zenon DEF RetryLoop

\* A goroutine of retryReplicator gives up the record of its peer only as the
\* one retrier of that peer, and stops being one in the same step.
LEMMA WorkerInd ==
  ASSUME IndInv, NEW w \in Worker, RetryWorker(w)
  PROVE  IndInv'
<1> DEFINE p == worker[w].peer
<1>0. TypeOK'
  BY WorkerStepType, Zenon DEF IndInv
<1>1. UNCHANGED <<handler, loop, count>>
  BY Zenon DEF RetryWorker, ListRetryDocs, RetryDoc, RetryDocFails, DeleteRetryDoc, NoMoreDocs,
         DeleteRetry, GetActive, SetActive, GetNextRetry, SetNextRetry
<1>2. /\ retry \in [Peer -> Record]
      /\ worker \in [Worker -> Retrier \cup {IdleWorker}]
      /\ loop.todo \subseteq Peer
  BY Zenon DEF IndInv, TypeOK, LoopType, Loop, StoreType, WorkerType
<1>3. worker[w].pc # "idle" => worker[w] \in Retrier /\ p \in Peer
  BY <1>2 DEF IdleWorker, Retrier
<1>4. ASSUME retry' = retry,
             \A v \in Worker \ {w} : worker'[v] = worker[v],
             worker'[w].pc \in RetryPc <=> worker[w].pc \in RetryPc,
             worker[w].pc \in RetryPc => worker'[w].peer = p
      PROVE  IndInv'
  <2>1. CreateInv'
    BY <1>1, <1>4, Zenon DEF IndInv, CreateInv
  <2> QED
    BY <1>0, <1>1, <1>4, <2>1, RetriersKept, Zenon DEF IndInv
<1>5. ASSUME worker[w].pc \in RetryPc, worker'[w].pc \notin RetryPc,
             \A v \in Worker \ {w} : worker'[v] = worker[v],
             NEW r \in {"none", "waiting"}, retry' = [retry EXCEPT ![p] = r]
      PROVE  IndInv'
  <2>1. p \in Peer
    BY <1>3, <1>5, Zenon DEF RetryPc
  <2>2. retry[p] = "retrying"
    BY <1>5, Zenon DEF IndInv, RetrierInv
  <2>3. \A v \in Worker \ {w} : worker[v].pc \in RetryPc => worker[v].peer # p
    BY <1>5, Zenon DEF IndInv, RetrierInv
  <2>4. \A v \in Worker : worker[v].pc \in RetryPc => worker[v].peer \in Peer
    BY <1>2 DEF Retrier, IdleWorker, RetryPc
  <2>5. retry'[p] = r /\ \A q \in Peer \ {p} : retry'[q] = retry[q]
    BY <1>2, <1>5, <2>1, Zenon
  <2>6. \A q \in Peer : retry[q] = "retrying" /\ q # p => retry'[q] = "retrying"
    BY <2>5, Zenon
  <2>7. RetrierInv'
    BY <1>5, <2>3, <2>4, <2>6 DEF IndInv, RetrierInv
  <2>8. SnapInv'
    BY <1>1, <1>2, <2>2, <2>5, Zenon DEF IndInv, SnapInv
  <2>9. RunningInv'
    <3> SUFFICES ASSUME count.crashes = 0, NEW q \in Peer, retry'[q] = "retrying"
                 PROVE  \E v \in Worker : worker'[v].peer = q /\ worker'[v].pc \in RetryPc
      BY <1>1, Zenon DEF RunningInv
    <3>1. q # p /\ retry[q] = "retrying"
      BY <1>5, <2>5, Zenon
    <3>2. PICK v \in Worker : worker[v].peer = q /\ worker[v].pc \in RetryPc
      BY <3>1, Zenon DEF IndInv, RunningInv
    <3> QED
      BY <1>5, <3>1, <3>2, Zenon
  <2>10. CreateInv'
    BY <1>1, <2>2, <2>5 DEF IndInv, CreateInv, TypeOK, PushType, Handler, NoHandler, Task
  <2> QED
    BY <1>0, <2>7, <2>8, <2>9, <2>10, Zenon DEF IndInv
<1>6. "idle" \notin RetryPc /\ "get" \notin RetryPc /\ "set" \notin RetryPc
  BY Zenon DEF RetryPc
<1>7. CASE ListRetryDocs(w)
  BY <1>2, <1>3, <1>4, <1>7, Zenon DEF ListRetryDocs, Retrier, RetryPc, persisted
<1>8. ASSUME NEW d \in Doc, RetryDoc(w, d)
      PROVE  IndInv'
  BY <1>2, <1>3, <1>4, <1>8, Zenon DEF RetryDoc, Retrier, RetryPc, persisted
<1>9. CASE RetryDocFails(w)
  BY <1>2, <1>3, <1>4, <1>9, Zenon DEF RetryDocFails, Retrier, RetryPc, persisted
<1>10. CASE DeleteRetryDoc(w)
  BY <1>2, <1>3, <1>4, <1>10, Zenon DEF DeleteRetryDoc, Retrier, RetryPc
<1>11. CASE NoMoreDocs(w)
  BY <1>2, <1>3, <1>4, <1>11, Zenon DEF NoMoreDocs, Retrier, RetryPc, persisted
<1>12. CASE DeleteRetry(w)
  <2>1. worker'[w].pc = "get" /\ \A v \in Worker \ {w} : worker'[v] = worker[v]
    BY <1>2, <1>3, <1>12, Zenon DEF DeleteRetry, Retrier
  <2>2. worker[w].pc \in RetryPc /\ retry' = [retry EXCEPT ![p] = "none"]
    BY <1>12, Zenon DEF DeleteRetry, RetryPc
  <2> QED
    BY <1>5, <1>6, <2>1, <2>2, Zenon
<1>13. CASE GetActive(w)
  <2>1. worker'[w].pc \in {"idle", "set"} /\ \A v \in Worker \ {w} : worker'[v] = worker[v]
    BY <1>2, <1>3, <1>13, Zenon DEF GetActive, Retrier, IdleWorker
  <2>2. worker[w].pc = "get" /\ retry' = retry
    BY <1>13, Zenon DEF GetActive, persisted
  <2> QED
    BY <1>4, <1>6, <2>1, <2>2, Zenon
<1>14. CASE SetActive(w)
  <2>1. worker'[w].pc = "idle" /\ \A v \in Worker \ {w} : worker'[v] = worker[v]
    BY <1>2, <1>14, Zenon DEF SetActive, IdleWorker
  <2>2. worker[w].pc = "set" /\ retry' = retry
    BY <1>14, Zenon DEF SetActive
  <2> QED
    BY <1>4, <1>6, <2>1, <2>2, Zenon
<1>15. CASE GetNextRetry(w)
  <2>1. worker[w].pc = "next" /\ "next" \in RetryPc /\ "store" \in RetryPc /\ retry' = retry
    BY <1>15, Zenon DEF GetNextRetry, RetryPc, persisted
  <2>2. retry[p] = "retrying"
    BY <2>1, Zenon DEF IndInv, RetrierInv
  <2>3. worker' = [worker EXCEPT ![w] = [@ EXCEPT !.pc = "store"]]
    BY <1>15, <2>2, Zenon DEF GetNextRetry
  <2>4. /\ worker'[w].pc = "store" /\ worker'[w].peer = p
        /\ \A v \in Worker \ {w} : worker'[v] = worker[v]
    BY <1>2, <1>3, <2>1, <2>3, Zenon DEF Retrier
  <2> QED
    BY <1>4, <2>1, <2>4, Zenon
<1>16. CASE SetNextRetry(w)
  <2>1. worker'[w].pc = "idle" /\ \A v \in Worker \ {w} : worker'[v] = worker[v]
    BY <1>2, <1>16, Zenon DEF SetNextRetry, IdleWorker
  <2>2. worker[w].pc \in RetryPc /\ retry' = [retry EXCEPT ![p] = "waiting"]
    BY <1>16, Zenon DEF SetNextRetry, RetryPc
  <2> QED
    BY <1>5, <1>6, <2>1, <2>2, Zenon
<1> QED
  BY <1>7, <1>8, <1>9, <1>10, <1>11, <1>12, <1>13, <1>14, <1>15, <1>16, Zenon DEF RetryWorker

\* A restart ends every retry and leaves the records as they are: the flags
\* survive, so only what holds of running goroutines is kept.
LEMMA RestartInd ==
  ASSUME IndInv, Restart
  PROVE  IndInv'
<1>1. TypeOK'
  BY RestartType, Zenon DEF IndInv
<1>2. \A w \in Worker : worker'[w].pc \notin RetryPc
  BY Zenon DEF Restart, IdleWorker, RetryPc
<1>3. RetrierInv'
  BY <1>2, Zenon DEF RetrierInv
<1>4. SnapInv'
  BY Zenon DEF SnapInv, Restart, IdleLoop
<1>5. CreateInv'
  BY Zenon DEF CreateInv, Restart, NoHandler
<1>6. RunningInv'
  BY DEF RunningInv, Restart, IndInv, TypeOK, DataType
<1> QED
  BY <1>1, <1>3, <1>4, <1>5, <1>6, Zenon DEF IndInv

\* The initial state satisfies the invariant.
LEMMA InitInd == Init => IndInv
<1> SUFFICES ASSUME Init PROVE IndInv
  BY Zenon
<1>1. StoreType /\ PushType
  BY Zenon DEF Init, StoreType, PushType, Record
<1>2. LoopType
  BY Zenon DEF Init, LoopType, Loop, IdleLoop, Record
<1>3. WorkerType
  BY Zenon DEF Init, WorkerType
<1>4. DataType
  BY BoundAssumption DEF Init, DataType
<1>5. RetrierInv
  BY Zenon DEF Init, RetrierInv, IdleWorker, RetryPc
<1>6. SnapInv
  BY Zenon DEF Init, SnapInv, IdleLoop
<1>7. CreateInv
  BY Zenon DEF Init, CreateInv, NoHandler
<1>8. RunningInv
  BY Zenon DEF Init, RunningInv
<1> QED
  BY <1>1, <1>2, <1>3, <1>4, <1>5, <1>6, <1>7, <1>8, Zenon DEF IndInv, TypeOK

\* The invariant holds in every state that the replicators can reach.
THEOREM Invariance == Spec => []IndInv
<1>1. IndInv /\ [Next]_vars => IndInv'
  <2> SUFFICES ASSUME IndInv, [Next]_vars PROVE IndInv'
    BY Zenon
  <2>1. CASE UNCHANGED vars
    <3>1. TypeOK'
      BY StepType, Zenon DEF IndInv
    <3>2. UNCHANGED <<retry, worker, loop, count, handler>>
      BY <2>1, Zenon DEF vars
    <3>3. CreateInv'
      BY <3>2, Zenon DEF IndInv, CreateInv
    <3> QED
      BY <3>1, <3>2, <3>3, RetriersKept, Zenon DEF IndInv
  <2>2. CASE Next
    BY <2>2, UserInd, PushInd, LoopInd, WorkerInd, RestartInd, Zenon DEF Next
  <2> QED
    BY <2>1, <2>2, Zenon
<1> QED
  BY <1>1, InitInd, PTL DEF Spec

\* The state of replicators, retry records and the goroutines that use them
\* keeps its types, and the mutex of handleReplicatorFailure is held by a live
\* goroutine whose push has failed.
THEOREM TypeCorrect == Spec => []TypeOK
<1>1. IndInv => TypeOK
  BY Zenon DEF IndInv
<1> QED
  BY <1>1, Invariance, PTL

\* For any number of replicators, documents and goroutines, and over any
\* restarts, at most one retryReplicator pushes the documents of a peer or
\* decides about its record.
THEOREM OneRetrierHolds == Spec => []OneRetrier
<1>1. IndInv => OneRetrier
  BY Zenon DEF IndInv, RetrierInv, OneRetrier, Retriers
<1> QED
  BY <1>1, Invariance, PTL

\* The persisted flag Retrying is set while a retryReplicator runs for the
\* peer, and until the process restarts for the first time only then.
THEOREM RetryFlagIsTrue == Spec => []FlagIsTrue
<1>1. IndInv => FlagIsTrue
  <2> SUFFICES ASSUME IndInv, NEW p \in Peer
               PROVE  /\ Retriers(p) # {} => retry[p] = "retrying"
                      /\ count.crashes = 0 /\ retry[p] = "retrying" => Retriers(p) # {}
    BY Zenon DEF FlagIsTrue
  <2>1. ASSUME count.crashes = 0, retry[p] = "retrying"
        PROVE  Retriers(p) # {}
    BY <2>1, Zenon DEF IndInv, RunningInv, Retriers
  <2>2. ASSUME NEW w \in Retriers(p)
        PROVE  retry[p] = "retrying"
    BY <2>2, Zenon DEF IndInv, RetrierInv, Retriers
  <2> QED
    BY <2>1, <2>2, Zenon
<1> QED
  BY <1>1, Invariance, PTL

(***************************************************************************)
(* Searching encrypted documents (SearchTags)                              *)
(***************************************************************************)
CONSTANTS Peers, Docs, Fields, MaxUpdates, MaxVersions, Restarts
VARIABLES value, updates, version, pushes, entry, tags, missed, later

Tags == INSTANCE SearchTags

\* The tags of fields that were written.
LEMMA ArtifactsAre ==
    ASSUME MaxUpdates \in Nat, MaxVersions \in Nat, Tags!Types, NEW d \in Docs, NEW fields \in SUBSET Fields,
           fields \subseteq Tags!Written(d)
    PROVE  Tags!Artifacts(d, fields) \subseteq Tags!Artifact
  <1>1. ASSUME NEW f \in fields
        PROVE  [doc |-> d, field |-> f, value |-> value[d][f], version |-> version] \in Tags!Artifact
    <2>1. value[d][f] \in 0 .. MaxUpdates /\ value[d][f] > 0
      BY <1>1, Zenon DEF Tags!Types, Tags!TypeOK, Tags!Written
    <2>2. value[d][f] \in 1 .. MaxUpdates BY <2>1
    <2>3. version \in 0 .. MaxVersions BY Zenon DEF Tags!Types, Tags!TypeOK
    <2> QED BY <1>1, <2>2, <2>3, Zenon DEF Tags!Artifact
  <1> QED BY <1>1, Zenon DEF Tags!Artifacts

\* A push that goes on to the next peer.
LEMMA AdvanceIs ==
    ASSUME Tags!Types, NEW x \in pushes, NEW p \in Peers, Tags!Advance(x, p)
    PROVE  /\ pushes' \subseteq Tags!Pushing
           /\ \A y \in pushes' : y \in pushes \/ (y.doc = x.doc /\ y.fields = x.fields)
           /\ \A y \in pushes \ {x} : y \in pushes'
           /\ x.todo \ {p} # {} => [x EXCEPT !.todo = @ \ {p}] \in pushes'
  <1>1. x \in Tags!Pushing /\ pushes \subseteq Tags!Pushing BY Zenon DEF Tags!Types
  <1>2. /\ [x EXCEPT !.todo = @ \ {p}] \in Tags!Pushing
        /\ [x EXCEPT !.todo = @ \ {p}].doc = x.doc /\ [x EXCEPT !.todo = @ \ {p}].fields = x.fields
        /\ [x EXCEPT !.todo = @ \ {p}].todo = x.todo \ {p}
    BY <1>1, Zenon DEF Tags!Pushing
  <1> QED BY <1>1, <1>2, Zenon DEF Tags!Advance

\* An entry that is put keeps the type of the table.
LEMMA EntryPut ==
    ASSUME NEW p \in Peers, NEW d \in Docs, NEW e \in [fields : SUBSET Fields, retrying : BOOLEAN],
           entry \in [Peers -> [Docs -> [fields : SUBSET Fields, retrying : BOOLEAN]]],
           entry' = [entry EXCEPT ![p][d] = e]
    PROVE  /\ entry' \in [Peers -> [Docs -> [fields : SUBSET Fields, retrying : BOOLEAN]]]
           /\ \A q \in Peers, c \in Docs :
                  entry'[q][c] = entry[q][c] \/ (c = d /\ entry'[q][c] = e)
  <1> DEFINE E == [fields : SUBSET Fields, retrying : BOOLEAN]
  <1>1. entry \in [Peers -> [Docs -> E]] /\ e \in E BY Zenon
  <1>2. SUFFICES /\ entry' \in [Peers -> [Docs -> E]]
                 /\ \A q \in Peers, c \in Docs :
                        entry'[q][c] = entry[q][c] \/ (c = d /\ entry'[q][c] = e)
    BY Zenon
  <1> HIDE DEF E
  <1>3. [entry[p] EXCEPT ![d] = e] \in [Docs -> E] BY <1>1, Zenon
  <1>4. entry' = [entry EXCEPT ![p] = [entry[p] EXCEPT ![d] = e]] BY Zenon
  <1> QED BY <1>1, <1>3, <1>4

\* The end of a retry: its entry is gone, written again or left as it was.
LEMMA StatusUpdated ==
    ASSUME Tags!Types, loop \in Tags!Retrying, NEW success \in BOOLEAN,
           Tags!UpdateRetryStatus(success)
    PROVE  /\ loop' = Tags!Idle
           /\ entry' \in [Peers -> [Docs -> [fields : SUBSET Fields, retrying : BOOLEAN]]]
           /\ \A q \in Peers, c \in Docs :
                  \/ entry'[q][c] = entry[q][c]
                  \/ c = loop.doc /\ entry'[q][c].fields \subseteq loop.fields
  <1>1. /\ entry \in [Peers -> [Docs -> [fields : SUBSET Fields, retrying : BOOLEAN]]]
        /\ loop.fields \in SUBSET Fields
    BY Zenon DEF Tags!Types, Tags!TypeOK, Tags!Retrying
  <1>2. PICK q \in Peers, c \in Docs : q = loop.peer /\ c = loop.doc BY Zenon DEF Tags!Retrying
  <1>3. PICK e \in [fields : SUBSET Fields, retrying : BOOLEAN] :
            /\ e.fields \subseteq loop.fields
            /\ entry' = entry \/ entry' = [entry EXCEPT ![q][c] = e]
    <2>1. /\ [fields |-> loop.fields, retrying |-> FALSE] \in [fields : SUBSET Fields, retrying : BOOLEAN]
          /\ [fields |-> loop.fields, retrying |-> FALSE].fields \subseteq loop.fields
          /\ Tags!NoEntry \in [fields : SUBSET Fields, retrying : BOOLEAN]
          /\ Tags!NoEntry.fields \subseteq loop.fields
      BY <1>1, Zenon DEF Tags!NoEntry
    <2>2. \/ entry' = entry
          \/ entry' = [entry EXCEPT ![q][c] = Tags!NoEntry]
          \/ entry' = [entry EXCEPT ![q][c] = [fields |-> loop.fields, retrying |-> FALSE]]
      BY <1>2, Zenon DEF Tags!UpdateRetryStatus, Tags!RecordFailure
    <2> QED BY <2>1, <2>2, Zenon
  <1>4. loop' = Tags!Idle BY Zenon DEF Tags!UpdateRetryStatus
  <1>5. CASE entry' = entry BY <1>1, <1>4, <1>5, Zenon
  <1>6. CASE entry' = [entry EXCEPT ![q][c] = e]
    <2>1. /\ entry' \in [Peers -> [Docs -> [fields : SUBSET Fields, retrying : BOOLEAN]]]
          /\ \A r \in Peers, d \in Docs : entry'[r][d] = entry[r][d] \/ (d = c /\ entry'[r][d] = e)
      BY <1>1, <1>6, EntryPut
    <2> QED BY <1>2, <1>3, <1>4, <2>1, Zenon
  <1> QED BY <1>3, <1>5, <1>6, Zenon

LEMMA TagsTypes ==
    ASSUME MaxUpdates \in Nat, MaxVersions \in Nat, Tags!IndInv, [Tags!Next]_(Tags!vars) PROVE Tags!Types'
  <1> USE DEF Tags!IndInv
  <1>1. /\ value \in [Docs -> [Fields -> 0 .. MaxUpdates]] /\ updates \in 0 .. MaxUpdates
        /\ version \in 0 .. MaxVersions /\ later \subseteq Docs
        /\ entry \in [Peers -> [Docs -> [fields : SUBSET Fields, retrying : BOOLEAN]]]
        /\ tags \in [Peers -> SUBSET Tags!Artifact]
        /\ missed \subseteq Peers \X Docs
        /\ pushes \subseteq Tags!Pushing /\ loop \in Tags!Retrying \cup {Tags!Idle}
    BY Zenon DEF Tags!Types, Tags!TypeOK
  <1>2. SUFFICES
          /\ value' \in [Docs -> [Fields -> 0 .. MaxUpdates]] /\ updates' \in 0 .. MaxUpdates
          /\ version' \in 0 .. MaxVersions /\ later' \subseteq Docs
          /\ entry' \in [Peers -> [Docs -> [fields : SUBSET Fields, retrying : BOOLEAN]]]
          /\ tags' \in [Peers -> SUBSET Tags!Artifact]
          /\ missed' \subseteq Peers \X Docs
          /\ pushes' \subseteq Tags!Pushing /\ loop' \in Tags!Retrying \cup {Tags!Idle}
    BY Zenon DEF Tags!Types, Tags!TypeOK, Tags!Pushing, Tags!Artifact
  <1> DEFINE Goal == /\ value' \in [Docs -> [Fields -> 0 .. MaxUpdates]] /\ updates' \in 0 .. MaxUpdates
          /\ version' \in 0 .. MaxVersions /\ later' \subseteq Docs
                     /\ entry' \in [Peers -> [Docs -> [fields : SUBSET Fields, retrying : BOOLEAN]]]
                     /\ tags' \in [Peers -> SUBSET Tags!Artifact]
                     /\ missed' \subseteq Peers \X Docs
                     /\ pushes' \subseteq Tags!Pushing /\ loop' \in Tags!Retrying \cup {Tags!Idle}
  <1>3. ASSUME UNCHANGED Tags!vars PROVE Goal BY <1>1, <1>3, Zenon DEF Tags!vars
  <1>4. ASSUME NEW d \in Docs, NEW fields \in SUBSET Fields, Tags!Update(d, fields) PROVE Goal
    <2>1. updates' = updates + 1 /\ updates' \in 1 .. MaxUpdates BY <1>1, <1>4 DEF Tags!Update
    <2>2. value' \in [Docs -> [Fields -> 0 .. MaxUpdates]]
      BY <1>1, <1>4, <2>1 DEF Tags!Update
    <2>3. [n |-> updates', doc |-> d, fields |-> fields, read |-> FALSE,
           artifacts |-> {}, todo |-> Peers] \in Tags!Pushing
      BY <2>1, Zenon DEF Tags!Pushing
    <2>4. pushes' \subseteq Tags!Pushing BY <1>1, <1>4, <2>3, Zenon DEF Tags!Update
    <2> QED BY <1>1, <1>4, <2>1, <2>2, <2>4 DEF Tags!Update
  <1>5. ASSUME NEW x \in pushes, Tags!Generate(x) PROVE Goal
    <2>1. x \in Tags!Pushing /\ x.doc \in Docs /\ x.fields \in SUBSET Fields
      BY <1>1, Zenon DEF Tags!Pushing
    <2>2. Tags!Artifacts(x.doc, x.fields) \subseteq Tags!Artifact
      BY <2>1, ArtifactsAre, Zenon DEF Tags!WrittenInv
    <2>3. [x EXCEPT !.read = TRUE, !.artifacts = Tags!Artifacts(x.doc, x.fields)] \in Tags!Pushing
      BY <2>1, <2>2, Zenon DEF Tags!Pushing
    <2>4. pushes' \subseteq Tags!Pushing BY <1>1, <1>5, <2>3, Zenon DEF Tags!Generate
    <2>5. later' \subseteq Docs BY <1>1, <1>5, <2>1, Zenon DEF Tags!Generate
    <2> QED BY <1>1, <1>5, <2>4, <2>5, Zenon DEF Tags!Generate
  <1>5a. ASSUME NEW x \in pushes, Tags!GenerateFails(x) PROVE Goal
    <2>1. x.todo \X {x.doc} \subseteq Peers \X Docs BY <1>1, Zenon DEF Tags!Pushing
    <2> QED BY <1>1, <1>5a, <2>1, Zenon DEF Tags!GenerateFails
  <1>5b. ASSUME Tags!Patch PROVE Goal
    <2>1. version' \in 0 .. MaxVersions BY <1>1, <1>5b DEF Tags!Patch
    <2> QED BY <1>1, <1>5b, <2>1, Zenon DEF Tags!Patch
  <1>6. ASSUME NEW x \in pushes, NEW p \in Peers, Tags!Push(x, p) PROVE Goal
    <2>1. x.doc \in Docs /\ x.fields \in SUBSET Fields /\ x.artifacts \in SUBSET Tags!Artifact
      BY <1>1, Zenon DEF Tags!Pushing
    <2>2. /\ UNCHANGED <<value, updates, version, loop, later>>
          /\ Tags!Advance(x, p) \/ pushes' = pushes \ {x}
      BY <1>6, Zenon DEF Tags!Push
    <2>3. pushes' \subseteq Tags!Pushing BY <1>1, <2>2, AdvanceIs, Zenon
    <2>4. tags' \in [Peers -> SUBSET Tags!Artifact]
      BY <1>1, <1>6, <2>1 DEF Tags!Push, Tags!Store
    <2>5. [fields |-> x.fields, retrying |-> FALSE] \in [fields : SUBSET Fields, retrying : BOOLEAN]
      BY <2>1, Zenon
    <2>6. entry' \in [Peers -> [Docs -> [fields : SUBSET Fields, retrying : BOOLEAN]]]
      <3>1. \/ entry' = entry
            \/ entry' = [entry EXCEPT ![p][x.doc] = [fields |-> x.fields, retrying |-> FALSE]]
        BY <1>6, Zenon DEF Tags!Push, Tags!RecordFailure
      <3>2. PICK e \in [fields : SUBSET Fields, retrying : BOOLEAN] :
                e = [fields |-> x.fields, retrying |-> FALSE]
        BY <2>5, Zenon
      <3>3. entry' = entry \/ entry' = [entry EXCEPT ![p][x.doc] = e] BY <3>1, <3>2, Zenon
      <3> QED BY <1>1, <2>1, <3>3, EntryPut, Zenon
    <2>7. missed' \subseteq Peers \X Docs
      <3>1. x.todo \X {x.doc} \subseteq Peers \X Docs BY <1>1, Zenon DEF Tags!Pushing
      <3>2. <<p, x.doc>> \in Peers \X Docs BY <2>1, Zenon
      <3> QED BY <1>1, <1>6, <3>1, <3>2, Zenon DEF Tags!Push
    <2> QED BY <1>1, <2>2, <2>3, <2>4, <2>6, <2>7
  <1>7. ASSUME NEW p \in Peers, NEW d \in Docs, Tags!BeginRetry(p, d) PROVE Goal
    <2>1. entry[p][d].fields \in SUBSET Fields BY <1>1
    <2>2. loop' \in Tags!Retrying BY <1>7, <2>1, Zenon DEF Tags!BeginRetry, Tags!Retrying
    <2>3. PICK e \in [fields : SUBSET Fields, retrying : BOOLEAN] : e = entry[p][d] BY <1>1, Zenon
    <2>4. [e EXCEPT !.retrying = TRUE] \in [fields : SUBSET Fields, retrying : BOOLEAN] BY <2>3, Zenon
    <2>5. PICK c \in [fields : SUBSET Fields, retrying : BOOLEAN] : c = [e EXCEPT !.retrying = TRUE]
      BY <2>4, Zenon
    <2>6. entry' = [entry EXCEPT ![p][d] = c]
      BY <1>1, <1>7, <2>3, <2>5 DEF Tags!BeginRetry
    <2>7. entry' \in [Peers -> [Docs -> [fields : SUBSET Fields, retrying : BOOLEAN]]]
      BY <1>1, <2>6, EntryPut, Zenon
    <2> QED BY <1>1, <1>7, <2>2, <2>7, Zenon DEF Tags!BeginRetry
  <1>8. ASSUME Tags!GenerateAgain PROVE Goal
    <2>1. loop \in Tags!Retrying /\ loop.fields \subseteq Tags!Written(loop.doc)
      BY <1>1, <1>8, Zenon DEF Tags!GenerateAgain, Tags!WrittenInv
    <2>2. loop.doc \in Docs /\ loop.fields \in SUBSET Fields BY <2>1, Zenon DEF Tags!Retrying
    <2>3. Tags!Artifacts(loop.doc, loop.fields) \subseteq Tags!Artifact
      BY <2>1, <2>2, ArtifactsAre, Zenon
    <2>4. CASE UNCHANGED entry /\ loop' = [loop EXCEPT !.read = TRUE,
                                               !.artifacts = Tags!Artifacts(loop.doc, loop.fields)]
      <3>1. loop' \in Tags!Retrying BY <2>1, <2>3, <2>4, Zenon DEF Tags!Retrying
      <3> QED BY <1>1, <1>8, <2>4, <3>1, Zenon DEF Tags!GenerateAgain
    <2>5. CASE Tags!UpdateRetryStatus(FALSE)
      <3>1. /\ entry' \in [Peers -> [Docs -> [fields : SUBSET Fields, retrying : BOOLEAN]]]
            /\ loop' = Tags!Idle
        BY <2>1, <2>5, StatusUpdated
      <3> QED BY <1>1, <1>8, <3>1, Zenon DEF Tags!GenerateAgain
    <2> QED BY <1>8, <2>4, <2>5, Zenon DEF Tags!GenerateAgain
  <1>9. ASSUME NEW p \in Peers, Tags!PushAgain(p) PROVE Goal
    <2>1. loop \in Tags!Retrying BY <1>1, <1>9, Zenon DEF Tags!PushAgain
    <2>2. /\ loop.peer \in Peers /\ loop.doc \in Docs /\ loop.fields \in SUBSET Fields
          /\ loop.artifacts \in SUBSET Tags!Artifact
      BY <2>1, Zenon DEF Tags!Retrying
    <2>3. UNCHANGED <<value, updates, version, pushes, missed, later>> BY <1>9, Zenon DEF Tags!PushAgain
    <2>4. tags' \in [Peers -> SUBSET Tags!Artifact]
      BY <1>1, <1>9, <2>2, Zenon DEF Tags!PushAgain, Tags!Store
    <2>5. [loop EXCEPT !.todo = @ \ {p}] \in Tags!Retrying BY <2>1, Zenon DEF Tags!Retrying
    <2>6. /\ loop' \in Tags!Retrying \cup {Tags!Idle}
          /\ entry' \in [Peers -> [Docs -> [fields : SUBSET Fields, retrying : BOOLEAN]]]
      <3>1. CASE loop' = [loop EXCEPT !.todo = @ \ {p}] /\ UNCHANGED entry
        BY <1>1, <2>5, <3>1, Zenon
      <3>2. ASSUME NEW b \in BOOLEAN, Tags!UpdateRetryStatus(b)
            PROVE  /\ loop' \in Tags!Retrying \cup {Tags!Idle}
                   /\ entry' \in [Peers -> [Docs -> [fields : SUBSET Fields, retrying : BOOLEAN]]]
        <4>1. /\ loop' = Tags!Idle
              /\ entry' \in [Peers -> [Docs -> [fields : SUBSET Fields, retrying : BOOLEAN]]]
          BY <2>1, <3>2, StatusUpdated
        <4> QED BY <4>1, Zenon
      <3> QED BY <1>9, <3>1, <3>2, Zenon DEF Tags!PushAgain
    <2> QED BY <1>1, <2>3, <2>4, <2>6
  <1>10. ASSUME Tags!Restart PROVE Goal
    <2>1. \A x \in pushes : x.todo \X {x.doc} \subseteq Peers \X Docs BY <1>1, Zenon DEF Tags!Pushing
    <2>2. missed' \subseteq Peers \X Docs BY <1>1, <1>10, <2>1 DEF Tags!Restart
    <2> QED BY <1>1, <1>10, <2>2, Zenon DEF Tags!Restart
  <1>12. Goal
    <2> HIDE DEF Goal
    <2> QED BY <1>3, <1>4, <1>5, <1>5a, <1>5b, <1>6, <1>7, <1>8, <1>9, <1>10 DEF Tags!Next
  <1> QED BY <1>12, Zenon

\* A field that was written stays written, and only Update changes a value.
LEMMA WrittenGrows ==
    ASSUME MaxUpdates \in Nat, MaxVersions \in Nat, Tags!Types, [Tags!Next]_(Tags!vars)
    PROVE  \A d \in Docs : Tags!Written(d) \subseteq Tags!Written(d)'
  <1>1. value \in [Docs -> [Fields -> 0 .. MaxUpdates]] /\ updates \in 0 .. MaxUpdates
    BY Zenon DEF Tags!Types, Tags!TypeOK
  <1>2. ASSUME NEW d \in Docs, NEW fields \in SUBSET Fields, Tags!Update(d, fields),
               NEW c \in Docs, NEW f \in Fields, value[c][f] > 0
        PROVE  value'[c][f] > 0
    <2>1. updates' > 0 BY <1>1, <1>2 DEF Tags!Update
    <2>2. value'[c][f] \in {value[c][f], updates'} BY <1>1, <1>2, Zenon DEF Tags!Update
    <2> QED BY <1>2, <2>1, <2>2, Zenon
  <1>3. ASSUME value' = value PROVE \A d \in Docs : Tags!Written(d) \subseteq Tags!Written(d)'
    BY <1>3, Zenon DEF Tags!Written
  <1>4. \/ \E d \in Docs : \E fields \in SUBSET Fields : Tags!Update(d, fields)
        \/ value' = value
    BY Zenon DEF Tags!Next, Tags!vars, Tags!Patch, Tags!Generate, Tags!GenerateFails, Tags!Push, Tags!BeginRetry, Tags!GenerateAgain,
           Tags!PushAgain, Tags!Restart
  <1>5. ASSUME NEW c \in Docs, NEW f \in Tags!Written(c), ~(value' = value) PROVE f \in Tags!Written(c)'
    <2>1. f \in Fields /\ value[c][f] > 0 BY <1>5, Zenon DEF Tags!Written
    <2>2. value'[c][f] > 0 BY <1>2, <1>4, <1>5, <2>1
    <2> QED BY <2>1, <2>2, Zenon DEF Tags!Written
  <1> QED BY <1>3, <1>5, Zenon

LEMMA TagsWritten ==
    ASSUME MaxUpdates \in Nat, MaxVersions \in Nat, Tags!IndInv, [Tags!Next]_(Tags!vars) PROVE Tags!WrittenInv'
  <1> USE DEF Tags!IndInv
  <1>1. /\ value \in [Docs -> [Fields -> 0 .. MaxUpdates]] /\ updates \in 0 .. MaxUpdates
        /\ version \in 0 .. MaxVersions /\ later \subseteq Docs
        /\ entry \in [Peers -> [Docs -> [fields : SUBSET Fields, retrying : BOOLEAN]]]
        /\ pushes \subseteq Tags!Pushing /\ loop \in Tags!Retrying \cup {Tags!Idle}
    BY Zenon DEF Tags!Types, Tags!TypeOK
  <1> DEFINE W == [d \in Docs |-> {f \in Fields : value'[d][f] > 0}]
             Goal == /\ \A x \in pushes' : x.fields \subseteq W[x.doc]
                     /\ loop' # Tags!Idle => loop'.fields \subseteq W[loop'.doc]
                     /\ \A p \in Peers, d \in Docs : entry'[p][d].fields \subseteq W[d]
  <1>2. \A d \in Docs : Tags!Written(d) \subseteq W[d] BY WrittenGrows, Zenon DEF Tags!Written
  <1>3. /\ \A x \in pushes : x.doc \in Docs
        /\ loop # Tags!Idle => loop.doc \in Docs /\ loop.peer \in Peers
    BY <1>1, Zenon DEF Tags!Pushing, Tags!Retrying
  <1>4. /\ \A x \in pushes : x.doc \in Docs /\ x.fields \subseteq W[x.doc]
        /\ loop # Tags!Idle => loop.doc \in Docs /\ loop.fields \subseteq W[loop.doc]
        /\ \A p \in Peers, d \in Docs : entry[p][d].fields \subseteq W[d]
    <2> HIDE DEF W
    <2> QED BY <1>2, <1>3, Zenon DEF Tags!WrittenInv
  <1>5. Tags!Types' BY TagsTypes, Zenon
  <1>6. SUFFICES Goal
    <2>1. /\ \A x \in pushes' : x.doc \in Docs
          /\ loop' # Tags!Idle => loop'.doc \in Docs
      BY <1>5, Zenon DEF Tags!Types, Tags!Pushing, Tags!Retrying, Tags!Idle
    <2> QED BY <1>6, <2>1, Zenon DEF Tags!WrittenInv, Tags!Idle, Tags!Written
  <1>7. ASSUME NEW d \in Docs, NEW fields \in SUBSET Fields, Tags!Update(d, fields) PROVE Goal
    <2>1. \A f \in fields : value'[d][f] = updates' /\ updates' > 0 BY <1>1, <1>7 DEF Tags!Update
    <2>2. fields \subseteq W[d] BY <2>1, Zenon DEF Tags!Written
    <2> HIDE DEF W
    <2>3. \A x \in pushes' : x \in pushes \/ (x.doc = d /\ x.fields = fields)
      BY <1>7 DEF Tags!Update
    <2> QED BY <1>4, <1>7, <2>2, <2>3, Zenon DEF Tags!Update
  <1> HIDE DEF W
  <1>8. ASSUME UNCHANGED <<pushes, loop, entry>> PROVE Goal BY <1>4, <1>8, Zenon
  <1>9. ASSUME NEW x \in pushes, Tags!Generate(x) PROVE Goal
    <2>1. \A y \in pushes' : y \in pushes \/ (y.doc = x.doc /\ y.fields = x.fields)
      BY <1>1, <1>9, Zenon DEF Tags!Generate, Tags!Pushing
    <2> QED BY <1>4, <1>9, <2>1, Zenon DEF Tags!Generate
  <1>9a. ASSUME NEW x \in pushes, Tags!GenerateFails(x) PROVE Goal
    BY <1>4, <1>9a, Zenon DEF Tags!GenerateFails
  <1>9b. ASSUME Tags!Patch PROVE Goal BY <1>8, <1>9b, Zenon DEF Tags!Patch
  <1>10. ASSUME NEW x \in pushes, NEW p \in Peers, Tags!Push(x, p) PROVE Goal
    <2>1. \A y \in pushes' : y \in pushes \/ (y.doc = x.doc /\ y.fields = x.fields)
      <3>1. Tags!Advance(x, p) \/ pushes' = pushes \ {x} BY <1>10, Zenon DEF Tags!Push
      <3> QED BY <3>1, AdvanceIs, Zenon
    <2>2. PICK e \in [fields : SUBSET Fields, retrying : BOOLEAN] :
              e = [fields |-> x.fields, retrying |-> FALSE]
      BY <1>1, Zenon DEF Tags!Pushing
    <2>3. entry' = entry \/ entry' = [entry EXCEPT ![p][x.doc] = e]
      BY <1>10, <2>2, Zenon DEF Tags!Push, Tags!RecordFailure
    <2>4. \A q \in Peers, d \in Docs :
              entry'[q][d] = entry[q][d] \/ (d = x.doc /\ entry'[q][d] = e)
      <3>1. CASE entry' = entry BY <3>1, Zenon
      <3>2. CASE entry' = [entry EXCEPT ![p][x.doc] = e]
        <4>1. PICK c \in Docs : c = x.doc BY <1>4, Zenon
        <4>2. entry' = [entry EXCEPT ![p][c] = e] BY <3>2, <4>1, Zenon
        <4>3. \A q \in Peers, d \in Docs :
                  entry'[q][d] = entry[q][d] \/ (d = c /\ entry'[q][d] = e)
          BY <1>1, <4>2, EntryPut
        <4> QED BY <4>1, <4>3, Zenon
      <3> QED BY <2>3, <3>1, <3>2, Zenon
    <2>5. e.fields = x.fields BY <2>2, Zenon
    <2> QED BY <1>4, <1>10, <2>1, <2>4, <2>5 DEF Tags!Push
  <1>11. ASSUME NEW p \in Peers, NEW d \in Docs, Tags!BeginRetry(p, d) PROVE Goal
    <2>1. loop' # Tags!Idle => loop'.doc = d /\ loop'.fields = entry[p][d].fields
      BY <1>11, Zenon DEF Tags!BeginRetry
    <2>2. \A q \in Peers, c \in Docs : entry'[q][c].fields = entry[q][c].fields
      BY <1>1, <1>11 DEF Tags!BeginRetry
    <2> QED BY <1>4, <1>11, <2>1, <2>2, Zenon DEF Tags!BeginRetry
  <1>12. ASSUME Tags!GenerateAgain PROVE Goal
    <2>1. loop \in Tags!Retrying /\ loop # Tags!Idle /\ UNCHANGED pushes
      BY <1>1, <1>12, Zenon DEF Tags!GenerateAgain
    <2>2. CASE UNCHANGED entry /\ loop' = [loop EXCEPT !.read = TRUE,
                                               !.artifacts = Tags!Artifacts(loop.doc, loop.fields)]
      <3>1. loop'.doc = loop.doc /\ loop'.fields = loop.fields BY <2>1, <2>2, Zenon DEF Tags!Retrying
      <3> QED BY <1>4, <2>1, <2>2, <3>1, Zenon
    <2>3. CASE Tags!UpdateRetryStatus(FALSE)
      <3>1. /\ loop' = Tags!Idle
            /\ \A q \in Peers, c \in Docs :
                  \/ entry'[q][c] = entry[q][c]
                  \/ c = loop.doc /\ entry'[q][c].fields \subseteq loop.fields
        BY <2>1, <2>3, StatusUpdated
      <3> QED BY <1>4, <2>1, <3>1, Zenon
    <2> QED BY <1>12, <2>2, <2>3, Zenon DEF Tags!GenerateAgain
  <1>13. ASSUME NEW p \in Peers, Tags!PushAgain(p) PROVE Goal
    <2>1. loop \in Tags!Retrying /\ loop # Tags!Idle /\ UNCHANGED pushes
      BY <1>1, <1>13, Zenon DEF Tags!PushAgain
    <2>2. CASE loop' = [loop EXCEPT !.todo = @ \ {p}] /\ UNCHANGED entry
      <3>1. loop'.doc = loop.doc /\ loop'.fields = loop.fields BY <2>1, <2>2, Zenon DEF Tags!Retrying
      <3> QED BY <1>4, <2>1, <2>2, <3>1, Zenon
    <2>3. ASSUME NEW b \in BOOLEAN, Tags!UpdateRetryStatus(b) PROVE Goal
      <3>1. /\ loop' = Tags!Idle
            /\ \A q \in Peers, c \in Docs :
                  \/ entry'[q][c] = entry[q][c]
                  \/ c = loop.doc /\ entry'[q][c].fields \subseteq loop.fields
        BY <2>1, <2>3, StatusUpdated
      <3> QED BY <1>4, <2>1, <3>1, Zenon
    <2> QED BY <1>13, <2>2, <2>3, Zenon DEF Tags!PushAgain
  <1>14. ASSUME Tags!Restart PROVE Goal BY <1>4, <1>14, Zenon DEF Tags!Restart
  <1>15. ASSUME UNCHANGED Tags!vars PROVE Goal BY <1>8, <1>15, Zenon DEF Tags!vars
  <1>17. Goal
    <2> HIDE DEF Goal
    <2> QED BY <1>7, <1>9, <1>9a, <1>9b, <1>10, <1>11, <1>12, <1>13, <1>14, <1>15, Zenon DEF Tags!Next
  <1> QED BY <1>17, Zenon

\* What a push was to bring it has brought, is still to bring or has failed to.
LEMMA TagsBrought ==
    ASSUME Tags!IndInv, [Tags!Next]_(Tags!vars), value' = value,
           NEW p \in Peers, NEW d \in Docs, NEW f \in Tags!Written(d),
           NEW x \in pushes, Tags!Brings(x, p, d, f)
    PROVE  Tags!Tag(d, f) \in tags'[p] \/ <<p, d>> \in missed' \/ d \in later'
               \/ \E y \in pushes' : Tags!Brings(y, p, d, f)
  <1> USE DEF Tags!IndInv
  <1>1. /\ tags \in [Peers -> SUBSET Tags!Artifact] /\ pushes \subseteq Tags!Pushing
        /\ x \in Tags!Pushing
    BY Zenon DEF Tags!Types
  <1>2. x.doc = d /\ f \in x.fields /\ p \in x.todo /\ (x.read => Tags!Tag(d, f) \in x.artifacts)
    BY Zenon DEF Tags!Brings
  <1> DEFINE Goal == Tags!Tag(d, f) \in tags'[p] \/ <<p, d>> \in missed' \/ d \in later'
                         \/ \E y \in pushes' : Tags!Brings(y, p, d, f)
  <1>3. ASSUME x \in pushes' PROVE Goal BY <1>3, Zenon
  <1>4. ASSUME NEW y \in pushes, Tags!Generate(y) PROVE Goal
    <2>0. CASE y = x /\ version # 0
      <3>1. d \in later' BY <1>2, <1>4, <2>0, Zenon DEF Tags!Generate
      <3> QED BY <3>1, Zenon
    <2>1. CASE y = x /\ version = 0
      <3>1. Tags!Tag(d, f) \in Tags!Artifacts(d, x.fields)
        BY <1>2, <2>1, Zenon DEF Tags!Tag, Tags!Artifacts
      <3>2. PICK z \in pushes' : z = [x EXCEPT !.read = TRUE, !.artifacts = Tags!Artifacts(x.doc, x.fields)]
        BY <1>4, <2>1, Zenon DEF Tags!Generate
      <3>3. /\ z.doc = d /\ z.fields = x.fields /\ z.todo = x.todo
            /\ z.artifacts = Tags!Artifacts(d, x.fields)
        BY <1>1, <1>2, <3>2 DEF Tags!Pushing
      <3>4. Tags!Brings(z, p, d, f) BY <1>2, <3>1, <3>3 DEF Tags!Brings
      <3> QED BY <3>4, Zenon
    <2>2. CASE y # x
      <3>1. x \in pushes' BY <1>4, <2>2, Zenon DEF Tags!Generate
      <3> QED BY <1>3, <3>1, Zenon
    <2> QED BY <2>0, <2>1, <2>2, Zenon
  <1>4a. ASSUME NEW y \in pushes, Tags!GenerateFails(y) PROVE Goal
    <2>1. CASE y = x
      <3>1. <<p, d>> \in x.todo \X {x.doc} BY <1>2, Zenon
      <3>2. <<p, d>> \in missed' BY <1>4a, <2>1, <3>1, Zenon DEF Tags!GenerateFails
      <3> QED BY <3>2, Zenon
    <2>2. CASE y # x
      <3>1. x \in pushes' BY <1>4a, <2>2, Zenon DEF Tags!GenerateFails
      <3> QED BY <1>3, <3>1, Zenon
    <2> QED BY <2>1, <2>2, Zenon
  <1>5. ASSUME NEW y \in pushes, NEW q \in Peers, Tags!Push(y, q) PROVE Goal
    <2>0. CASE pushes' = pushes \ {y} /\ missed' = missed \cup (y.todo \X {y.doc})
      <3>1. CASE y = x
        <4>1. <<p, d>> \in x.todo \X {x.doc} BY <1>2, Zenon
        <4>2. <<p, d>> \in missed' BY <2>0, <3>1, <4>1, Zenon
        <4> QED BY <4>2, Zenon
      <3>2. CASE y # x
        <4>1. x \in pushes' BY <2>0, <3>2, Zenon
        <4> QED BY <1>3, <4>1, Zenon
      <3> QED BY <3>1, <3>2, Zenon
    <2>1. SUFFICES ASSUME /\ Tags!Advance(y, q)
                          /\ Tags!Store(q, y.artifacts) \/ missed' = missed \cup {<<q, y.doc>>}
                   PROVE  Goal
      BY <1>5, <2>0, Zenon DEF Tags!Push
    <2>2. /\ \A z \in pushes \ {y} : z \in pushes'
          /\ y.todo \ {q} # {} => [y EXCEPT !.todo = @ \ {q}] \in pushes'
      BY <2>1, AdvanceIs, Zenon
    <2>3. CASE y # x
      <3>1. x \in pushes' BY <2>2, <2>3, Zenon
      <3> QED BY <1>3, <3>1, Zenon
    <2>4. CASE y = x /\ q # p
      <3>1. PICK z \in pushes' : z = [x EXCEPT !.todo = @ \ {q}] BY <1>2, <2>2, <2>4, Zenon
      <3>2. /\ z.doc = x.doc /\ z.fields = x.fields /\ z.todo = x.todo \ {q}
            /\ z.artifacts = x.artifacts /\ z.read = x.read
        BY <1>1, <3>1, Zenon DEF Tags!Pushing
      <3>3. Tags!Brings(z, p, d, f) BY <1>2, <2>4, <3>2, Zenon DEF Tags!Brings
      <3> QED BY <3>3, Zenon
    <2>5. CASE y = x /\ q = p
      <3>1. Tags!Tag(d, f) \in x.artifacts BY <1>2, <1>5, <2>5, Zenon DEF Tags!Push
      <3>2. CASE Tags!Store(p, x.artifacts)
        <4>1. tags' = [tags EXCEPT ![p] = @ \cup x.artifacts]
          BY <3>2, Zenon DEF Tags!Store
        <4>2. Tags!Tag(d, f) \in tags'[p] BY <1>1, <3>1, <4>1, Zenon
        <4> QED BY <4>2, Zenon
      <3>3. CASE missed' = missed \cup {<<p, x.doc>>}
        <4>1. <<p, d>> \in missed' BY <1>2, <3>3, Zenon
        <4> QED BY <4>1, Zenon
      <3> QED BY <2>1, <2>5, <3>2, <3>3, Zenon
    <2> QED BY <2>3, <2>4, <2>5, Zenon
  <1>6. ASSUME Tags!Restart PROVE Goal
    <2>1. <<p, d>> \in x.todo \X {x.doc} BY <1>2, Zenon
    <2>2. <<p, d>> \in missed' BY <1>6, <2>1, Zenon DEF Tags!Restart
    <2> QED BY <2>2, Zenon
  <1>7. ASSUME NEW c \in Docs, NEW fields \in SUBSET Fields, Tags!Update(c, fields) PROVE Goal
    <2>1. x \in pushes' BY <1>7, Zenon DEF Tags!Update
    <2> QED BY <1>3, <2>1, Zenon
  <1>8. CASE pushes' = pushes BY <1>3, <1>8, Zenon
  <1>9. \/ \E y \in pushes : Tags!Generate(y) \/ Tags!GenerateFails(y) \/ \E q \in Peers : Tags!Push(y, q)
        \/ Tags!Restart
        \/ \E c \in Docs : \E fields \in SUBSET Fields : Tags!Update(c, fields)
        \/ pushes' = pushes
    BY Zenon DEF Tags!Next, Tags!vars, Tags!Patch, Tags!BeginRetry, Tags!GenerateAgain, Tags!PushAgain
  <1> HIDE DEF Goal
  <1>10. Goal BY <1>4, <1>4a, <1>5, <1>6, <1>7, <1>8, <1>9 DEF Goal
  <1> QED BY <1>10, Zenon DEF Goal

LEMMA TagsKept ==
    ASSUME MaxUpdates \in Nat, MaxVersions \in Nat, Tags!IndInv, [Tags!Next]_(Tags!vars) PROVE Tags!TagInv'
  <1> USE DEF Tags!IndInv
  <1>1. /\ value \in [Docs -> [Fields -> 0 .. MaxUpdates]]
        /\ tags \in [Peers -> SUBSET Tags!Artifact] /\ pushes \subseteq Tags!Pushing
        /\ loop \in Tags!Retrying \cup {Tags!Idle}
    BY Zenon DEF Tags!Types, Tags!TypeOK
  <1>2. missed \subseteq missed' /\ later \subseteq later'
    BY Zenon DEF Tags!Next, Tags!vars, Tags!Update, Tags!Patch, Tags!Generate, Tags!GenerateFails, Tags!Push, Tags!BeginRetry,
           Tags!GenerateAgain, Tags!PushAgain, Tags!Restart
  <1>3. \A p \in Peers : tags[p] \subseteq tags'[p]
    <2>1. ASSUME NEW q, NEW a, tags' = [tags EXCEPT ![q] = @ \cup a]
          PROVE  \A p \in Peers : tags[p] \subseteq tags'[p]
      BY <1>1, <2>1, Zenon
    <2>2. \/ tags' = tags
          \/ \E x \in pushes, q \in Peers : tags' = [tags EXCEPT ![q] = @ \cup x.artifacts]
          \/ \E q \in Peers : tags' = [tags EXCEPT ![q] = @ \cup loop.artifacts]
      BY Zenon DEF Tags!Next, Tags!vars, Tags!Update, Tags!Patch, Tags!Generate, Tags!GenerateFails, Tags!Push, Tags!BeginRetry,
             Tags!GenerateAgain, Tags!PushAgain, Tags!Restart, Tags!Store
    <2>3. CASE tags' = tags BY <2>3, Zenon
    <2>4. CASE \E x \in pushes, q \in Peers : tags' = [tags EXCEPT ![q] = @ \cup x.artifacts]
      BY <1>1, <2>4, Zenon
    <2>5. CASE \E q \in Peers : tags' = [tags EXCEPT ![q] = @ \cup loop.artifacts]
      BY <1>1, <2>5, Zenon
    <2> QED BY <2>2, <2>3, <2>4, <2>5, Zenon
  <1>4. SUFFICES ASSUME NEW p \in Peers, NEW d \in Docs, NEW f \in Fields, value'[d][f] > 0
                 PROVE  \/ Tags!Tag(d, f)' \in tags'[p]
                        \/ <<p, d>> \in missed' \/ d \in later'
                        \/ \E x \in pushes' : Tags!Brings(x, p, d, f)'
    BY Zenon DEF Tags!TagInv, Tags!Written, Tags!Tag, Tags!Brings
  <1>5. ASSUME f \in Tags!Written(d)
        PROVE  \/ Tags!Tag(d, f) \in tags[p]
               \/ <<p, d>> \in missed \/ d \in later
               \/ \E x \in pushes : Tags!Brings(x, p, d, f)
    BY <1>5, Zenon DEF Tags!TagInv
  <1>6. CASE value' = value
    <2>1. f \in Tags!Written(d) BY <1>4, <1>6, Zenon DEF Tags!Written
    <2>2. \/ Tags!Tag(d, f) \in tags'[p]
          \/ <<p, d>> \in missed' \/ d \in later'
          \/ \E x \in pushes' : Tags!Brings(x, p, d, f)
      BY <1>2, <1>3, <1>5, <1>6, <2>1, TagsBrought, Zenon
    <2>3. Tags!Tag(d, f)' = Tags!Tag(d, f) BY <1>6, Zenon DEF Tags!Tag
    <2>4. \A x \in pushes' : Tags!Brings(x, p, d, f) => Tags!Brings(x, p, d, f)'
      BY <2>3, Zenon DEF Tags!Brings
    <2> QED BY <2>2, <2>3, <2>4, Zenon
  <1>7. ASSUME NEW c \in Docs, NEW fields \in SUBSET Fields, Tags!Update(c, fields)
        PROVE  \/ Tags!Tag(d, f)' \in tags'[p]
               \/ <<p, d>> \in missed' \/ d \in later'
               \/ \E x \in pushes' : Tags!Brings(x, p, d, f)'
    <2>1. CASE d = c /\ f \in fields
      <3>1. PICK z \in pushes' : z = [n |-> updates', doc |-> c, fields |-> fields, read |-> FALSE,
                                      artifacts |-> {}, todo |-> Peers]
        BY <1>7, Zenon DEF Tags!Update
      <3>2. z.doc = d /\ f \in z.fields /\ p \in z.todo /\ ~z.read BY <2>1, <3>1, Zenon
      <3>3. Tags!Brings(z, p, d, f)' BY <3>2, Zenon DEF Tags!Brings
      <3> QED BY <3>3, Zenon
    <2>2. CASE ~(d = c /\ f \in fields)
      <3>1. value'[d][f] = value[d][f] BY <1>1, <1>7, <2>2, Zenon DEF Tags!Update
      <3>2. f \in Tags!Written(d) BY <1>4, <3>1, Zenon DEF Tags!Written
      <3>3. Tags!Tag(d, f)' = Tags!Tag(d, f) BY <3>1, Zenon DEF Tags!Tag
      <3>4. pushes \subseteq pushes' BY <1>7, Zenon DEF Tags!Update
      <3>5. \A x \in pushes : Tags!Brings(x, p, d, f) => Tags!Brings(x, p, d, f)'
        BY <3>3, Zenon DEF Tags!Brings
      <3> QED BY <1>2, <1>3, <1>5, <3>2, <3>3, <3>4, <3>5, Zenon
    <2> QED BY <2>1, <2>2, Zenon
  <1>8. \/ \E c \in Docs : \E fields \in SUBSET Fields : Tags!Update(c, fields)
        \/ value' = value
    BY Zenon DEF Tags!Next, Tags!vars, Tags!Patch, Tags!Generate, Tags!GenerateFails, Tags!Push, Tags!BeginRetry, Tags!GenerateAgain,
           Tags!PushAgain, Tags!Restart
  <1> QED BY <1>6, <1>7, <1>8, Zenon

\* A search by any of the values a document has finds it on every replicator
\* that all its pushes reached, unless one of them was made after the collection
\* was patched, for any number of replicators, documents,
\* fields and updates: of the pushes of one field the last is the one that
\* brings the tag of the value the field has, whichever ends first.
THEOREM TagsFound ==
    MaxUpdates \in Nat /\ MaxVersions \in Nat => (Tags!Spec => [](Tags!TypeOK /\ Tags!SearchFinds))
  <1> SUFFICES ASSUME MaxUpdates \in Nat, MaxVersions \in Nat
               PROVE  Tags!Spec => [](Tags!TypeOK /\ Tags!SearchFinds)
    BY Zenon
  <1>1. Tags!Init => Tags!IndInv
    BY SMT DEF Tags!Init, Tags!IndInv, Tags!Types, Tags!TypeOK, Tags!WrittenInv, Tags!TagInv,
               Tags!Written, Tags!NoEntry
  <1>2. Tags!IndInv /\ [Tags!Next]_(Tags!vars) => Tags!IndInv'
    BY TagsTypes, TagsWritten, TagsKept, Zenon DEF Tags!IndInv
  <1>3. Tags!IndInv => Tags!TypeOK /\ Tags!SearchFinds
    <2>1. SUFFICES ASSUME Tags!IndInv PROVE Tags!SearchFinds BY Zenon DEF Tags!IndInv, Tags!Types
    <2>2. SUFFICES ASSUME NEW p \in Peers, NEW d \in Docs, <<p, d>> \notin missed,
                          d \notin later, ~\E x \in pushes : x.doc = d /\ p \in x.todo,
                          NEW fields \in (SUBSET Tags!Written(d)) \ {{}}
                   PROVE  d \in Tags!FetchDocIDs(p, Tags!QueriesOf(d, fields))
      BY Zenon DEF Tags!SearchFinds, Tags!Reached, Tags!Found
    <2>3. \A f \in fields : Tags!Tag(d, f) \in tags[p]
      BY <2>1, <2>2, Zenon DEF Tags!IndInv, Tags!TagInv, Tags!Brings
    <2>4. \A q \in Tags!QueriesOf(d, fields) : d \in Tags!Matching(p, q)
      <3>1. ASSUME NEW f \in fields
            PROVE  d \in Tags!Matching(p, [field |-> f, value |-> value[d][f]])
        BY <2>3, Zenon DEF Tags!Matching, Tags!Tag
      <3> QED BY <3>1, Zenon DEF Tags!QueriesOf
    <2>5. Tags!QueriesOf(d, fields) # {} BY <2>2, Zenon DEF Tags!QueriesOf
    <2> QED BY <2>4, <2>5, Zenon DEF Tags!FetchDocIDs
  <1> QED BY <1>1, <1>2, <1>3, PTL DEF Tags!Spec

=============================================================================
