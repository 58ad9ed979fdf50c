------------------------------ MODULE WorkQueue ------------------------------
(***************************************************************************)
(* The keyed queue a node serialises its network work with.  It exists     *)
(* twice: mergeQueue (internal/db/merge.go) runs one merge per document or *)
(* branchable collection, processQueue (internal/db/p2p/p2p.go) handles    *)
(* one push log per CID.  A key of the map is the key being worked on; its *)
(* value is a channel the others wait on, closed by done.  A closed        *)
(* channel wakes all of its waiters, which then call add again, so they    *)
(* race with each other and with new callers.  The channel itself is left  *)
(* out: the workers waiting on the key are those waiting on its channel.   *)
(***************************************************************************)
CONSTANTS Workers, Keys

VARIABLES
    keys,   \* the keys of the map: those some worker is working on
    pc,     \* pc[w]: "idle", "waiting" (on the channel), "woken", "working"
    key     \* key[w]: the argument of w's call of add

qvars == <<keys, pc, key>>

Init == /\ keys = {}
        /\ pc = [w \in Workers |-> "idle"]
        /\ key \in [Workers -> Keys]

\* Mutant: add does not look whether the key is there.
TryAddUnchecked(w, k) == /\ pc' = [pc EXCEPT ![w] = "working"]
                         /\ keys' = keys \cup {k}

\* what add does under the mutex, for a worker that calls it for key k
TryAdd(w, k) ==
    IF k \in keys
    THEN /\ pc' = [pc EXCEPT ![w] = "waiting"]
         /\ UNCHANGED keys
    ELSE /\ pc' = [pc EXCEPT ![w] = "working"]
         /\ keys' = keys \cup {k}

Add(w, k) == /\ pc[w] = "idle"
             /\ key' = [key EXCEPT ![w] = k]
             /\ TryAdd(w, k)

\* the channel was closed: the worker goes around and calls add again
AddAgain(w) == /\ pc[w] = "woken"
               /\ TryAdd(w, key[w])
               /\ UNCHANGED key

\* Mutant: done removes the key but does not close the channel.
DoneSilently(w) == /\ pc[w] = "working"
                   /\ keys' = keys \ {key[w]}
                   /\ pc' = [pc EXCEPT ![w] = "idle"]
                   /\ UNCHANGED key

\* done removes the key and closes its channel: every worker waiting on it
\* may go on.  It is called by the worker whose add returned, when it returns
Done(w) ==
    /\ pc[w] = "working"
    /\ keys' = keys \ {key[w]}
    /\ pc' = [v \in Workers |->
                IF v = w THEN "idle"
                ELSE IF pc[v] = "waiting" /\ key[v] = key[w] /\ key[w] \in keys
                     THEN "woken" ELSE pc[v]]
    /\ UNCHANGED key

Next == \E w \in Workers : (\E k \in Keys : Add(w, k)) \/ AddAgain(w) \/ Done(w)

Spec == Init /\ [][Next]_qvars

TypeOK == /\ keys \in SUBSET Keys
          /\ pc \in [Workers -> {"idle", "waiting", "woken", "working"}]
          /\ key \in [Workers -> Keys]

(***************************************************************************)
(* The queue implements the keyed mutex: a waiting or woken worker is one  *)
(* that wants the key, and a waiter that finds the key taken again after   *)
(* it was woken takes a step the mutex does not see.                       *)
(***************************************************************************)
Claim == [w \in Workers |-> IF pc[w] = "idle" THEN "idle"
                           ELSE IF pc[w] = "working" THEN "has" ELSE "wants"]

Mutex == INSTANCE KeyedMutex WITH claim <- Claim, want <- key

\* Every behaviour of the queue is a behaviour of the keyed mutex: add returns
\* to one worker at a time for each key (mergeQueue.add, processQueue.add).
ImplementsMutex == Mutex!Spec

\* The map holds exactly the keys some worker is working on, and nobody waits
\* on a channel no done will close: a waiter's key is always in the map.
KeysAreWorkedOn ==
    /\ \A k \in Keys : (k \in keys) <=> (\E w \in Workers : pc[w] = "working" /\ key[w] = k)
    /\ \A w \in Workers : pc[w] = "waiting" => key[w] \in keys

\* One worker at a time works on a key.
OneWorkerPerKey ==
    \A v, w \in Workers :
        pc[v] = "working" /\ pc[w] = "working" /\ key[v] = key[w] => v = w
=============================================================================
