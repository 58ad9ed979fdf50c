------------------------------ MODULE LockSet ------------------------------
(***************************************************************************)
(* The locks that transactions take on collections (internal/db/lock).     *)
(*                                                                         *)
(* A transaction makes its calls one after the other (Txn.inProgressLock), *)
(* so it is one process.  It takes write locks (CollectionLock), read      *)
(* locks (CollectionRLock) and the lock on all collections (RLockAll), and *)
(* gives them up in callbacks that Commit and Discard run.                 *)
(*                                                                         *)
(* sync.RWMutex and sync.WaitGroup are modelled by what Go makes of them:  *)
(* a writer that waits for readers keeps new readers out, the readers that *)
(* wait are let in when a writer unlocks, and a WaitGroup whose counter is *)
(* raised between the wake-up of a waiter and its return panics.           *)
(***************************************************************************)
EXTENDS Integers, Sequences, FiniteSets

CONSTANTS Txn,        \* the transactions
          Key,        \* the collections
          NoTxn,      \* stands for "no transaction"
          NoKey,      \* stands for "no collection"
          MaxCalls,   \* bound: lock calls of one transaction
          MaxAlls     \* bound: calls of RLockAll of one transaction

ASSUME NoneAssumption == NoTxn \notin Txn /\ NoKey \notin Key
ASSUME BoundAssumption == MaxCalls \in Nat /\ MaxAlls \in Nat

VARIABLES writer,    \* for each key, who holds the writer mutex of its RWMutex
          readers,   \* for each key, who its RWMutex counts as readers
          aGroup,    \* for each transaction, its share of the counter of aGroup
          bGroup,    \* the same of bGroup
          heldW,     \* heldLocksByTxnID
          heldR,     \* heldRLocksByTxnID
          mutexes,   \* who has an entry in txnLocks.locksByTxnID
          fns,       \* for each transaction, its callbacks (the same on every list)
          fired,     \* for each transaction, the callbacks whose sync.Once has run
          pc,        \* for each transaction, where it is
          key,       \* for each transaction, the key of the call it is in
          run,       \* for each transaction, the callbacks it has run and is to run
          calls,     \* for each transaction, the number of its calls
          alls       \* for each transaction, the number of its calls of RLockAll

locks == <<writer, readers, heldW, heldR>>
groups == <<aGroup, bGroup>>
counts == <<calls, alls>>
vars == <<locks, groups, mutexes, fns, fired, pc, key, run, counts>>

Callback == {"deleteMutex", "doneA", "doneB", "unlockAll", "rUnlockAll"}

(* "awaitW", "drain": in RWMutex.Lock, for the writer mutex and for the    *)
(* readers; "awaitR": in RWMutex.RLock; "addedA", "waitA", "wokenA": in    *)
(* LockA; the same with B; "closing...": running callbacks.                *)
Pc == {"idle", "awaitW", "drain", "addedA", "waitA", "wokenA", "awaitR",
       "addedB", "waitB", "wokenB", "panic",
       "committing", "committed", "discarding", "discarded"}

Init == /\ writer = [k \in Key |-> NoTxn]
        /\ readers = [k \in Key |-> {}]
        /\ aGroup = [t \in Txn |-> 0]
        /\ bGroup = [t \in Txn |-> 0]
        /\ heldW = [t \in Txn |-> {}]
        /\ heldR = [t \in Txn |-> {}]
        /\ mutexes = {}
        /\ fns = [t \in Txn |-> <<>>]
        /\ fired = [t \in Txn |-> {}]
        /\ pc = [t \in Txn |-> "idle"]
        /\ key = [t \in Txn |-> NoKey]
        /\ run = [t \in Txn |-> [next |-> 1, last |-> 0]]
        /\ calls = [t \in Txn |-> 0]
        /\ alls = [t \in Txn |-> 0]

-----------------------------------------------------------------------------
(* Helpers.                                                                *)

Has(seq, x) == \E i \in DOMAIN seq : seq[i] = x

(* sync.WaitGroup: nobody has anything left to be done.                    *)
IsZero(group) == \A t \in Txn : group[t] = 0

Goto(t, to) == pc' = [pc EXCEPT ![t] = to]

(* getLock creates the mutex of a transaction that has none, and registers *)
(* its deletion.                                                           *)
GetLock(t, then) ==
    /\ mutexes' = mutexes \cup {t}
    /\ fns' = [fns EXCEPT ![t] =
                 (IF t \in mutexes THEN @ ELSE Append(@, "deleteMutex")) \o then]

(* Mutant: one kind of lock registers its callback, the other does not.    *)
OnceEver(t, fn) ==
    IF Has(fns[t], "unlockAll") \/ Has(fns[t], "rUnlockAll") THEN <<>> ELSE <<fn>>

(* Callbacks that are registered when the transaction takes its first lock.*)
Once(t, fn) == IF Has(fns[t], fn) THEN <<>> ELSE <<fn>>

Calling(t) == /\ pc[t] = "idle"
              /\ calls[t] < MaxCalls
              /\ calls' = [calls EXCEPT ![t] = @ + 1]

-----------------------------------------------------------------------------
(* lockSet.Lock.                                                           *)

HasLock(t, k) == k \in heldW[t]
HasAnyLock(t, k) == k \in heldR[t] \/ HasLock(t, k)

(* Mutant: a transaction that promotes its read lock keeps it.             *)
PromoteKeep(t, k) == UNCHANGED <<readers, heldR>>

(* A read lock of the transaction itself is given up first.                *)
Promote(t, k) ==
    /\ heldR' = [heldR EXCEPT ![t] = @ \ {k}]
    /\ readers' = [readers EXCEPT ![k] = IF k \in heldR[t] THEN @ \ {t} ELSE @]

(* Mutant: a read lock is made a write lock while others may share it.     *)
CollectionLockInPlace(t, k) ==
    /\ Calling(t)
    /\ GetLock(t, <<>>)
    /\ IF HasLock(t, k)
         THEN UNCHANGED <<writer, readers, heldW, heldR, pc, key>>
         ELSE IF k \in heldR[t]
         THEN heldW' = [heldW EXCEPT ![t] = @ \cup {k}]
              /\ UNCHANGED <<writer, readers, heldR, pc, key>>
         ELSE Goto(t, "awaitW") /\ key' = [key EXCEPT ![t] = k]
              /\ UNCHANGED <<writer, readers, heldW, heldR>>
    /\ UNCHANGED <<groups, fired, run, alls>>

CollectionLock(t, k) ==
    /\ Calling(t)
    /\ GetLock(t, <<>>)
    /\ IF HasLock(t, k)
         THEN UNCHANGED <<readers, heldR, pc, key>>
         ELSE Promote(t, k) /\ Goto(t, "awaitW") /\ key' = [key EXCEPT ![t] = k]
    /\ UNCHANGED <<writer, groups, heldW, fired, run, alls>>

(* RWMutex.Lock: the writer mutex first, which keeps new readers out.      *)
TakeWriter(t) ==
    /\ pc[t] = "awaitW"
    /\ writer[key[t]] = NoTxn
    /\ writer' = [writer EXCEPT ![key[t]] = t]
    /\ Goto(t, "drain")
    /\ UNCHANGED <<readers, groups, heldW, heldR, mutexes, fns, fired, key, run, counts>>

(* RWMutex.Lock returns, and LockA raises the counter of aGroup.           *)
LockA(t) ==
    /\ pc[t] = "drain"
    /\ readers[key[t]] = {}
    /\ aGroup' = [aGroup EXCEPT ![t] = @ + 1]
    /\ fns' = [fns EXCEPT ![t] = Append(@, "doneA")]
    /\ Goto(t, "addedA")
    /\ UNCHANGED <<locks, bGroup, mutexes, fired, key, run, counts>>

(* LockA returns, and the lock is noted.                                   *)
HoldWrite(t) ==
    /\ heldW' = [heldW EXCEPT ![t] = @ \cup {key[t]}]
    /\ fns' = [fns EXCEPT ![t] = @ \o Once(t, "unlockAll")]
    /\ Goto(t, "idle")
    /\ key' = [key EXCEPT ![t] = NoKey]
    /\ UNCHANGED <<writer, readers, heldR>>

(* bGroup.Wait: returns at once, or sleeps.                                *)
WaitA(t) ==
    /\ pc[t] = "addedA"
    /\ IF IsZero(bGroup) THEN HoldWrite(t) ELSE Goto(t, "waitA") /\ UNCHANGED <<locks, fns, key>>
    /\ UNCHANGED <<groups, mutexes, fired, run, counts>>

(* bGroup.Wait returns after a wake-up, or panics.                         *)
ReturnA(t) ==
    /\ pc[t] = "wokenA"
    /\ IF IsZero(bGroup) THEN HoldWrite(t) ELSE Goto(t, "panic") /\ UNCHANGED <<locks, fns, key>>
    /\ UNCHANGED <<groups, mutexes, fired, run, counts>>

-----------------------------------------------------------------------------
(* lockSet.RLock and lockSet.RLockAll.                                     *)

HoldRead(t, k) ==
    /\ heldR' = [heldR EXCEPT ![t] = @ \cup {k}]
    /\ key' = [key EXCEPT ![t] = NoKey]
    /\ Goto(t, "idle")

CollectionRLock(t, k) ==
    /\ Calling(t)
    /\ \/ /\ HasAnyLock(t, k)
          /\ GetLock(t, <<>>)
          /\ UNCHANGED <<readers, heldR, pc, key>>
       \/ /\ ~HasAnyLock(t, k)
          /\ writer[k] = NoTxn
          /\ readers' = [readers EXCEPT ![k] = @ \cup {t}]
          /\ GetLock(t, Once(t, "rUnlockAll"))
          /\ HoldRead(t, k)
       \/ /\ ~HasAnyLock(t, k)
          /\ writer[k] # NoTxn
          /\ GetLock(t, <<>>)
          /\ Goto(t, "awaitR")
          /\ key' = [key EXCEPT ![t] = k]
          /\ UNCHANGED <<readers, heldR>>
    /\ UNCHANGED <<writer, groups, heldW, fired, run, alls>>

(* RWMutex.RLock returns once an unlocking writer has counted t.           *)
AwaitRead(t) ==
    /\ pc[t] = "awaitR"
    /\ t \in readers[key[t]]
    /\ HoldRead(t, key[t])
    /\ fns' = [fns EXCEPT ![t] = @ \o Once(t, "rUnlockAll")]
    /\ UNCHANGED <<writer, readers, groups, heldW, mutexes, fired, run, counts>>

(* RLockAll is LockB: it takes no per-transaction mutex.                   *)
RLockAll(t) ==
    /\ Calling(t)
    /\ alls[t] < MaxAlls
    /\ alls' = [alls EXCEPT ![t] = @ + 1]
    /\ bGroup' = [bGroup EXCEPT ![t] = @ + 1]
    /\ fns' = [fns EXCEPT ![t] = Append(@, "doneB")]
    /\ Goto(t, "addedB")
    /\ UNCHANGED <<locks, aGroup, mutexes, fired, key, run>>

WaitB(t) ==
    /\ pc[t] = "addedB"
    /\ Goto(t, IF IsZero(aGroup) THEN "idle" ELSE "waitB")
    /\ UNCHANGED <<locks, groups, mutexes, fns, fired, key, run, counts>>

ReturnB(t) ==
    /\ pc[t] = "wokenB"
    /\ Goto(t, IF IsZero(aGroup) THEN "idle" ELSE "panic")
    /\ UNCHANGED <<locks, groups, mutexes, fns, fired, key, run, counts>>

-----------------------------------------------------------------------------
(* Commit and Discard run the callbacks registered when they begin.        *)

Close(t, to) ==
    /\ Goto(t, to)
    /\ run' = [run EXCEPT ![t] = [next |-> 1, last |-> Len(fns[t])]]
    /\ UNCHANGED <<locks, groups, mutexes, fns, fired, key, counts>>

(* Whether the commit succeeds or fails, the same callbacks run.           *)
Commit(t) == pc[t] = "idle" /\ Close(t, "committing")

Discard(t) == pc[t] \in {"idle", "committed"} /\ Close(t, "discarding")

(* The callback returns to Commit or Discard, waking those who sleep.      *)
CallbackDone(t, sleep, woken) ==
    LET last == run[t].next = run[t].last
        end == IF pc[t] = "committing" THEN "committed" ELSE "discarded"
    IN /\ run' = [run EXCEPT ![t].next = @ + 1]
       /\ pc' = [u \in Txn |-> IF u = t /\ last THEN end
                               ELSE IF pc[u] = sleep THEN woken ELSE pc[u]]

(* Nothing was registered.                                                 *)
CloseEmpty(t) ==
    /\ pc[t] \in {"committing", "discarding"}
    /\ run[t].last = 0
    /\ Goto(t, IF pc[t] = "committing" THEN "committed" ELSE "discarded")
    /\ UNCHANGED <<locks, groups, mutexes, fns, fired, key, run, counts>>

Running(t, fn) ==
    /\ pc[t] \in {"committing", "discarding"}
    /\ run[t].next <= run[t].last
    /\ fns[t][run[t].next] = fn

DeleteMutex(t) ==
    /\ Running(t, "deleteMutex")
    /\ mutexes' = mutexes \ {t}
    /\ CallbackDone(t, "", "")
    /\ UNCHANGED <<locks, groups, fns, fired, key, counts>>

(* A callback behind a sync.Once: done.                                    *)
Done(t, group) ==
    group' = [group EXCEPT ![t] = IF run[t].next \in fired[t] THEN @ ELSE @ - 1]

DoneA(t) ==
    /\ Running(t, "doneA")
    /\ Done(t, aGroup)
    /\ fired' = [fired EXCEPT ![t] = @ \cup {run[t].next}]
    /\ CallbackDone(t, IF IsZero(aGroup') THEN "waitB" ELSE "", "wokenB")
    /\ UNCHANGED <<locks, bGroup, mutexes, fns, key, counts>>

DoneB(t) ==
    /\ Running(t, "doneB")
    /\ Done(t, bGroup)
    /\ fired' = [fired EXCEPT ![t] = @ \cup {run[t].next}]
    /\ CallbackDone(t, IF IsZero(bGroup') THEN "waitA" ELSE "", "wokenA")
    /\ UNCHANGED <<locks, aGroup, mutexes, fns, key, counts>>

(* RWMutex.Unlock counts the readers that wait before it lets a writer in. *)
UnlockAll(t) ==
    /\ Running(t, "unlockAll")
    /\ GetLock(t, <<>>)
    /\ readers' = [k \in Key |->
         IF k \in heldW[t] THEN {u \in Txn : pc[u] = "awaitR" /\ key[u] = k} ELSE readers[k]]
    /\ writer' = [k \in Key |-> IF k \in heldW[t] THEN NoTxn ELSE writer[k]]
    /\ heldW' = [heldW EXCEPT ![t] = {}]
    /\ CallbackDone(t, "", "")
    /\ UNCHANGED <<heldR, groups, fired, key, counts>>

RUnlockAll(t) ==
    /\ Running(t, "rUnlockAll")
    /\ GetLock(t, <<>>)
    /\ readers' = [k \in Key |-> IF k \in heldR[t] THEN readers[k] \ {t} ELSE readers[k]]
    /\ heldR' = [heldR EXCEPT ![t] = {}]
    /\ CallbackDone(t, "", "")
    /\ UNCHANGED <<writer, heldW, groups, fired, key, counts>>

(* What a transaction does by itself, once called or closing.              *)
Proceed(t) ==
    \/ TakeWriter(t) \/ LockA(t) \/ WaitA(t) \/ ReturnA(t)
    \/ AwaitRead(t) \/ WaitB(t) \/ ReturnB(t)
    \/ CloseEmpty(t) \/ DeleteMutex(t) \/ DoneA(t) \/ DoneB(t)
    \/ UnlockAll(t) \/ RUnlockAll(t)

Next == \E t \in Txn :
          \/ \E k \in Key : CollectionLock(t, k) \/ CollectionRLock(t, k)
          \/ RLockAll(t) \/ Commit(t) \/ Discard(t) \/ Proceed(t)

Spec == Init /\ [][Next]_vars

(* A transaction that is not blocked goes on, and is discarded in the end  *)
(* (defer txn.Discard()).                                                  *)
FairSpec == Spec /\ \A t \in Txn : WF_vars(Proceed(t)) /\ WF_vars(Discard(t))

-----------------------------------------------------------------------------
(* Properties.                                                             *)

(* Every variable has its type; no counter of a WaitGroup is negative.     *)
TypeOK ==
    /\ writer \in [Key -> Txn \cup {NoTxn}]
    /\ readers \in [Key -> SUBSET Txn]
    /\ aGroup \in [Txn -> Nat] /\ bGroup \in [Txn -> Nat]
    /\ heldW \in [Txn -> SUBSET Key] /\ heldR \in [Txn -> SUBSET Key]
    /\ mutexes \subseteq Txn
    /\ fns \in [Txn -> Seq(Callback)]
    /\ fired \in [Txn -> SUBSET Nat]
    /\ pc \in [Txn -> Pc]
    /\ key \in [Txn -> Key \cup {NoKey}]
    /\ run \in [Txn -> [next: Nat, last: Nat]]
    /\ calls \in [Txn -> Nat] /\ alls \in [Txn -> Nat]

(* CollectionLock and CollectionRLock: while a transaction has the write   *)
(* lock of a collection, no other transaction has a lock on it.            *)
WriteLockExcludes ==
    \A t, u \in Txn : t # u => heldW[t] \cap (heldW[u] \cup heldR[u]) = {}

Open(t) == pc[t] \notin {"committing", "committed", "discarding", "discarded"}

(* RLockAll has returned to t, which is not closed.                        *)
HoldsAll(t) == /\ bGroup[t] > 0
               /\ pc[t] \in {"idle", "awaitW", "drain", "awaitR", "addedA", "waitA"}

(* abLock: while RLockAll is held, no other open transaction has a write   *)
(* lock on any collection.                                                 *)
AllLockExcludes ==
    \A t, u \in Txn : HoldsAll(t) /\ t # u /\ Open(u) => heldW[u] = {}

(* What the locks of lockSet are for: the two together.                    *)
LocksExclude == WriteLockExcludes /\ AllLockExcludes

(* "All locks held by the transaction will be released when the            *)
(* transaction closes" (lock_set.go), the counts of abLock included.       *)
ClosedHoldsNothing ==
    \A t \in Txn : pc[t] \in {"committed", "discarded"} =>
        /\ heldW[t] = {} /\ heldR[t] = {}
        /\ aGroup[t] = 0 /\ bGroup[t] = 0
        /\ \A k \in Key : writer[k] # t /\ t \notin readers[k]

Blocked(t) == pc[t] \in {"awaitW", "drain", "awaitR", "waitA", "waitB"}

(* Every lock call returns in the end, if transactions are closed in the   *)
(* end (CollectionLock, CollectionRLock).                                  *)
CallsReturn == \A t \in Txn : Blocked(t) ~> ~Blocked(t)

(* abLock: LockB waits only while a transaction that does not itself wait  *)
(* for group B has, or is taking, a lock of group A.                       *)
WaitersWaitForHolders ==
    \A t \in Txn : pc[t] = "waitB" => \E u \in Txn : aGroup[u] > 0 /\ pc[u] # "waitA"

(* A lock call blocks until the lock is taken (lockSet.Lock): no panic.    *)
NoPanic == \A t \in Txn : pc[t] # "panic"

(* txnLocks: the mutex of a transaction is deleted when it is closed.      *)
MutexIsDeleted == \A t \in Txn : pc[t] = "discarded" => t \notin mutexes

-----------------------------------------------------------------------------
(* The inductive invariant behind the exclusions.                          *)

(* The callbacks fn of a list s that have not run, d being those that have.*)
Unfired(s, d, fn) == {i \in 1..Len(s) : s[i] = fn /\ i \notin d}

(* What a transaction owes a WaitGroup is what its callbacks will give     *)
(* back: a and b are its shares, r the callbacks it is running.            *)
Counted(s, d, a, b, r) ==
    /\ s \in Seq(Callback)
    /\ d \subseteq 1..Len(s)
    /\ a = Cardinality(Unfired(s, d, "doneA"))
    /\ b = Cardinality(Unfired(s, d, "doneB"))
    /\ r \in [next: Nat, last: Nat]
    /\ 0 < r.next /\ r.last <= Len(s)

TakingA == {"addedA", "waitA", "wokenA"}

CountInv ==
    /\ aGroup \in [Txn -> Int] /\ bGroup \in [Txn -> Int]
    /\ fns \in [Txn -> Seq(Callback)]
    /\ fired \in [Txn -> SUBSET Nat]
    /\ run \in [Txn -> [next: Nat, last: Nat]]
    /\ \A t \in Txn : Counted(fns[t], fired[t], aGroup[t], bGroup[t], run[t])

(* The mutex of a key and the maps of held locks agree: who has the write  *)
(* lock, or is past RWMutex.Lock, is its writer, and has drained it.       *)
KeyInv ==
    \A t \in Txn :
        /\ pc[t] \in {"awaitW", "drain", "awaitR"} \cup TakingA => key[t] \in Key
        /\ pc[t] \in {"drain"} \cup TakingA => writer[key[t]] = t
        /\ pc[t] \in TakingA => readers[key[t]] = {}
        /\ \A k \in heldW[t] : writer[k] = t /\ readers[k] = {}
        /\ \A k \in heldR[t] : t \in readers[k]

(* Who has a write lock, or waits in LockA, has a share of aGroup.         *)
ShareInv ==
    \A t \in Txn : pc[t] \in TakingA \/ (Open(t) /\ heldW[t] # {}) => aGroup[t] > 0

HoldInv == KeyInv /\ ShareInv /\ AllLockExcludes

IndInv == TypeOK /\ CountInv /\ HoldInv

-----------------------------------------------------------------------------
(* What has to be added to it for the release of the locks.                *)

Closing(t) == pc[t] \in {"committing", "discarding"}
Closed(t) == pc[t] \in {"committed", "discarded"}

(* The callback at place i of the list of t is still to run.               *)
ToRun(t, i) == ~Closed(t) /\ (Closing(t) => i \in run[t].next..run[t].last)

(* What a transaction holds has a callback that is still to run.           *)
Pends(t) ==
    /\ heldW[t] # {} => \E i \in 1..Len(fns[t]) : fns[t][i] = "unlockAll" /\ ToRun(t, i)
    /\ heldR[t] # {} => \E i \in 1..Len(fns[t]) : fns[t][i] = "rUnlockAll" /\ ToRun(t, i)
    /\ \A i \in 1..Len(fns[t]) :
          fns[t][i] \in {"doneA", "doneB"} /\ i \notin fired[t] => ToRun(t, i)

PendingInv == \A t \in Txn : Pends(t)

(* The mutex of a key counts only those who have it or are taking it.      *)
OwnInv ==
    \A t \in Txn, k \in Key :
        /\ writer[k] = t => \/ k \in heldW[t] \/ pc[t] = "panic"
                            \/ pc[t] \in {"drain"} \cup TakingA /\ key[t] = k
        /\ t \in readers[k] => k \in heldR[t] \/ (pc[t] = "awaitR" /\ key[t] = k)

ReleaseInv == PendingInv /\ OwnInv
=============================================================================
