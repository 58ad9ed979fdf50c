------------------------------ MODULE MCNetwork ------------------------------
(***************************************************************************)
(* What a node has waiting, with what must eventually happen: the keyed    *)
(* work queue, the handling of push logs that composes two of them, the    *)
(* event bus, the locks of transactions and the requests to other nodes.   *)
(* A behaviour is one of a component, `part` says of which.                *)
(* The components share no state in the code, so that this loses nothing,  *)
(* and they share the variables x1 .. x16; the work queue keeps its own.   *)
(***************************************************************************)
EXTENDS WorkQueue, Naturals, TLC

CONSTANTS r1, r2, c1, c2, k1, d1, d2, col,     \* PushLog
          w1, w2, w3,                          \* WorkQueue
          None                                 \* LockSet

VARIABLES part, x1, x2, x3, x4, x5, x6, x7, x8, x9, x10, x11, x12, x13, x14, x15, x16

slots == <<x1, x2, x3, x4, x5, x6, x7, x8, x9, x10, x11, x12, x13, x14, x15, x16>>
mcvars == <<part, qvars, slots>>

\* c2 is built on c1, both commits of d1; k1 is a commit of the collection
\* that links to c1 and touches both documents
MCAncestors == c1 :> {} @@ c2 :> {c1} @@ k1 :> {c1}
MCTouches == c1 :> {d1} @@ c2 :> {d1} @@ k1 :> {d1, d2}

Push == INSTANCE PushLog WITH
    Requests <- {r1, r2}, Cids <- {c1, c2, k1}, Docs <- {d1, d2}, Ancestors <- MCAncestors,
    Touches <- MCTouches, CollectionOf <- col, MaxTxnRetries <- 2, MaxWrites <- 1,
    branchable <- x1, kind <- x2, cid <- x3, loc <- x4, pkeys <- x5, ppc <- x6, pkey <- x7,
    mkeys <- x8, mpc <- x9, mkey <- x10, stored <- x11, merged <- x12, writes <- x13,
    stale <- x14, tries <- x15, announced <- x16

\* The requests are alike: exchanging them turns a behaviour into a behaviour,
\* so that one of two such initial states is enough.
Rank(r) == 3 * [replicator |-> 0, pubsub |-> 1, sync |-> 2][x2[r]]
             + (c1 :> 0 @@ c2 :> 1 @@ k1 :> 2)[x3[r]]
PushInit == Push!Init /\ Rank(r1) <= Rank(r2)

Bus == INSTANCE EventBus WITH
    Publishers <- {"p1"}, Subscribers <- {"s1"}, Names <- {"n1"}, WildCard <- "*",
    CommandBuffer <- 1, EventBuffer <- 1, MaxPublished <- 3,
    commands <- x1, msg <- x2, todo <- x3, subs <- x4, events <- x5, value <- x6, closed <- x7,
    closing <- x8, ppc <- x9, published <- x10, spc <- x11, wants <- x12, seen <- x13, order <- x14

ASSUME Push!CommitGraph

Txns == {"t1", "t2"}

Locks == INSTANCE LockSet WITH
    Txn <- Txns, Key <- {"k1"}, NoTxn <- None, NoKey <- None, MaxCalls <- 3, MaxAlls <- 0,
    writer <- x1, readers <- x2, aGroup <- x3, bGroup <- x4, heldW <- x5, heldR <- x6,
    mutexes <- x7, fns <- x8, fired <- x9, pc <- x10, key <- x11, run <- x12, calls <- x13,
    alls <- x14

Comm == INSTANCE CommChannel WITH
    Request <- {"r1"},
    call <- x1, table <- x2, chan <- x3, buffer <- x4, server <- x5, applied <- x6, net <- x7,
    handlers <- x8, panicked <- x9

NoQueue ==
    /\ keys = {} /\ pc = [w \in Workers |-> "idle"]
    /\ key = [w \in Workers |-> CHOOSE k \in Keys : TRUE]

MCInit ==
    \/ /\ part = "queue" /\ Init
       /\ x1 = 0 /\ x2 = 0 /\ x3 = 0 /\ x4 = 0 /\ x5 = 0 /\ x6 = 0 /\ x7 = 0 /\ x8 = 0
       /\ x9 = 0 /\ x10 = 0 /\ x11 = 0 /\ x12 = 0 /\ x13 = 0 /\ x14 = 0 /\ x15 = 0 /\ x16 = 0
    \/ part = "push" /\ PushInit /\ NoQueue
    \/ part = "bus" /\ Bus!Init /\ NoQueue /\ x15 = 0 /\ x16 = 0
    \/ part = "locks" /\ Locks!Init /\ NoQueue /\ x15 = 0 /\ x16 = 0
    \/ /\ part = "comm" /\ Comm!Init /\ NoQueue
       /\ x10 = 0 /\ x11 = 0 /\ x12 = 0 /\ x13 = 0 /\ x14 = 0 /\ x15 = 0 /\ x16 = 0

\* a step of a part
InQueue(A) == part = "queue" /\ A /\ UNCHANGED <<part, slots>>
InPush(A) == part = "push" /\ A /\ UNCHANGED <<part, qvars>>
InBus(A) == part = "bus" /\ A /\ UNCHANGED <<part, qvars, x15, x16>>

InLocks(A) == part = "locks" /\ A /\ UNCHANGED <<part, qvars, x15, x16>>
InComm(A) == part = "comm" /\ A /\ UNCHANGED <<part, qvars, x10, x11, x12, x13, x14, x15, x16>>

MCNext ==
    \/ InQueue(Next) \/ InPush(Push!Next) \/ InBus(Bus!Next)
    \/ InLocks(Locks!Next) \/ InComm(Comm!Next)

MCFairness ==
    /\ \A r \in {r1, r2} : WF_mcvars(InPush(Push!Handle(r)))
    /\ WF_mcvars(InBus(Bus!Handler))
    /\ WF_mcvars(InBus(Bus!LockClose \/ Bus!SendClose))
    /\ WF_mcvars(InBus(Bus!SendPublish("p1")))
    /\ WF_mcvars(InBus(Bus!Going("s1")))
    /\ \A t \in Txns :
         WF_mcvars(InLocks(Locks!Proceed(t))) /\ WF_mcvars(InLocks(Locks!Discard(t)))
    /\ WF_mcvars(InComm(~x9 /\ Comm!Client("r1")))
    /\ WF_mcvars(InComm(~x9 /\ \E h \in x8 : Comm!PutResponse(h) \/ Comm!HandlerDeletes(h)))

MCSpec == MCInit /\ [][MCNext]_mcvars /\ MCFairness

-----------------------------------------------------------------------------
\* Merges do not make each other conflict (mergeQueue's purpose): a merge is
\* retried at most once for each local commit to the documents it touches.
OnlyWritersConflict == part = "push" => Push!OnlyWritersConflict

\* Once a request's syncDAG has succeeded, what it has to merge is stored; and
\* processPushlogRequest announces an Update for a block that is merged, or
\* whose merge gave up after MaxTxnRetries conflicts.
PushedIsComplete == part = "push" => Push!PushedIsComplete

\* Every request ends, whatever fails and however the writers interfere.
EveryRequestEnds == \A r \in {r1, r2} : <>(part = "push" => Push!Ended(r))

\* A call of Publish returns, unless the handler is stuck on a subscriber that
\* left without emptying its channel.
PublishReturnsOrAbandoned ==
    (part = "bus" /\ Bus!Publishing("p1"))
        ~> (part = "bus" /\ (~Bus!Publishing("p1") \/ Bus!Abandoned))

\* A call of Publish returns.  The code does not keep this.
PublishReturns ==
    (part = "bus" /\ Bus!Publishing("p1")) ~> (part = "bus" /\ ~Bus!Publishing("p1"))

\* Every transaction that waits for a lock gets it in the end, as long as
\* RLockAll is not used and transactions are closed (lockSet.Lock, RLock).
CallsReturn ==
    \A t \in Txns :
      (part = "locks" /\ Locks!Blocked(t)) ~> (part = "locks" /\ ~Locks!Blocked(t))

\* The goroutines that handle responses all end, unless one panics: none waits
\* for ever on a channel that is full (onResponse).
HandlersReturn == (part = "comm" /\ x8 # {}) ~> (part = "comm" /\ (x8 = {} \/ x9))
=============================================================================
