--------------------------- MODULE WorkQueueProofs ---------------------------
(***************************************************************************)
(* For any number of workers and keys, the keyed work queue lets one       *)
(* worker at a time work on a key and implements the keyed mutex.  Neither *)
(* is inductive by itself: that add finds the key in the map whenever      *)
(* somebody works on it (KeysAreWorkedOn) is what excludes the others, and *)
(* it stays true because done only removes the key of a worker that is the *)
(* only one working on it (OneWorkerPerKey).                               *)
(***************************************************************************)
EXTENDS WorkQueue, TLAPS

IInv == TypeOK /\ KeysAreWorkedOn /\ OneWorkerPerKey

LEMMA InitHolds == Init => IInv
BY DEF Init, IInv, TypeOK, KeysAreWorkedOn, OneWorkerPerKey

\* add, first or repeated: the worker waits on a key of the map, or takes one
\* that nobody works on.
LEMMA TryAddStep ==
    ASSUME IInv, NEW w \in Workers, NEW k \in Keys, pc[w] \in {"idle", "woken"},
           key' = [key EXCEPT ![w] = k], TryAdd(w, k)
    PROVE  IInv'
<1>1. TypeOK'
  BY DEF IInv, TypeOK, TryAdd
<1>2. CASE k \in keys
  <2>1. pc' = [pc EXCEPT ![w] = "waiting"] /\ keys' = keys
    BY <1>2 DEF TryAdd
  <2>2. KeysAreWorkedOn'
    BY <1>2, <2>1 DEF IInv, TypeOK, KeysAreWorkedOn
  <2>3. OneWorkerPerKey'
    BY <2>1 DEF IInv, TypeOK, OneWorkerPerKey
  <2> QED BY <1>1, <2>2, <2>3 DEF IInv
<1>3. CASE k \notin keys
  <2>1. pc' = [pc EXCEPT ![w] = "working"] /\ keys' = keys \cup {k}
    BY <1>3 DEF TryAdd
  <2>2. KeysAreWorkedOn'
    BY <2>1 DEF IInv, TypeOK, KeysAreWorkedOn
  <2>3. \A v \in Workers : pc[v] = "working" => key[v] # k
    BY <1>3 DEF IInv, TypeOK, KeysAreWorkedOn
  <2>4. OneWorkerPerKey'
    BY <2>1, <2>3 DEF IInv, TypeOK, OneWorkerPerKey
  <2> QED BY <1>1, <2>2, <2>4 DEF IInv
<1> QED BY <1>2, <1>3

\* done: the key leaves the map with the only worker that worked on it, and
\* nobody goes on waiting for it.
LEMMA DoneStep ==
    ASSUME IInv, NEW w \in Workers, Done(w)
    PROVE  IInv'
<1>1. /\ pc[w] = "working" /\ keys' = keys \ {key[w]} /\ key' = key /\ key[w] \in keys
      /\ \A v \in Workers : key[v] \in Keys
  BY DEF Done, IInv, TypeOK, KeysAreWorkedOn
<1>2. \A v \in Workers : pc'[v] =
         IF v = w THEN "idle"
         ELSE IF pc[v] = "waiting" /\ key[v] = key[w] THEN "woken" ELSE pc[v]
  BY <1>1 DEF Done
<1>3. TypeOK'
  BY DEF Done, IInv, TypeOK
<1>4. \A v \in Workers : pc'[v] = "working" <=> pc[v] = "working" /\ v # w
  BY <1>1, <1>2
<1>5. OneWorkerPerKey'
  BY <1>1, <1>4 DEF IInv, OneWorkerPerKey
<1>6. \A v \in Workers : pc[v] = "working" /\ v # w => key[v] # key[w]
  BY <1>1 DEF IInv, OneWorkerPerKey
<1>7. \A k \in Keys : (k \in keys') <=> (\E v \in Workers : pc'[v] = "working" /\ key'[v] = k)
  BY <1>1, <1>4, <1>6 DEF IInv, KeysAreWorkedOn
<1>8. \A v \in Workers : pc'[v] = "waiting" => key'[v] \in keys'
  BY <1>1, <1>2 DEF IInv, KeysAreWorkedOn
<1> QED BY <1>3, <1>5, <1>7, <1>8 DEF IInv, KeysAreWorkedOn

LEMMA StepHolds == IInv /\ [Next]_qvars => IInv'
<1> SUFFICES ASSUME IInv, [Next]_qvars PROVE IInv'
  OBVIOUS
<1>1. CASE UNCHANGED qvars
  BY <1>1 DEF qvars, IInv, TypeOK, KeysAreWorkedOn, OneWorkerPerKey
<1>2. ASSUME NEW w \in Workers, NEW k \in Keys, Add(w, k) PROVE IInv'
  BY <1>2, TryAddStep DEF Add
<1>3. ASSUME NEW w \in Workers, AddAgain(w) PROVE IInv'
  <2>1. key[w] \in Keys /\ key' = [key EXCEPT ![w] = key[w]]
    BY <1>3 DEF AddAgain, IInv, TypeOK
  <2> QED BY <1>3, <2>1, TryAddStep DEF AddAgain
<1>4. ASSUME NEW w \in Workers, Done(w) PROVE IInv'
  BY <1>4, DoneStep
<1> QED BY <1>1, <1>2, <1>3, <1>4 DEF Next

\* The inductive invariant holds in every reachable state of the queue.
THEOREM Invariance == Spec => []IInv
BY InitHolds, StepHolds, PTL DEF Spec

\* The map holds exactly the keys that are worked on, and every worker waits
\* on a key that some done will remove (mergeQueue, processQueue).
THEOREM KeysWorkedOn == Spec => []KeysAreWorkedOn
BY Invariance, PTL DEF IInv

\* One worker at a time works on a key.
THEOREM OneWorker == Spec => []OneWorkerPerKey
BY Invariance, PTL DEF IInv

-----------------------------------------------------------------------------

LEMMA ClaimOf ==
    /\ \A w \in Workers : (Claim[w] = "idle") <=> (pc[w] = "idle")
    /\ \A w \in Workers : (Claim[w] = "has") <=> (pc[w] = "working")
    /\ \A w \in Workers : (Claim[w] = "wants") <=> (pc[w] # "idle" /\ pc[w] # "working")
BY DEF Claim

LEMMA InitRefines == Init => Mutex!Init
BY DEF Init, Mutex!Init, Claim

LEMMA StepRefines == IInv /\ [Next]_qvars => [Mutex!Next]_(Mutex!mvars)
<1> SUFFICES ASSUME IInv, [Next]_qvars PROVE Mutex!Next \/ UNCHANGED <<Claim, key>>
  BY DEF Mutex!mvars
<1>1. CASE UNCHANGED qvars
  BY <1>1 DEF qvars, Claim
<1>2. ASSUME NEW w \in Workers, NEW k \in Keys, Add(w, k)
      PROVE  Mutex!Ask(w) \/ Mutex!AskFree(w)
  <2>1. CASE k \in keys
    <3>1. pc[w] = "idle" /\ pc' = [pc EXCEPT ![w] = "waiting"] /\ key' = [key EXCEPT ![w] = k]
      BY <1>2, <2>1 DEF Add, TryAdd
    <3>2. Claim[w] = "idle" /\ Claim' = [Claim EXCEPT ![w] = "wants"]
      BY <3>1 DEF Claim, IInv, TypeOK
    <3> QED BY <3>1, <3>2 DEF Mutex!Ask
  <2>2. CASE k \notin keys
    <3>1. pc[w] = "idle" /\ pc' = [pc EXCEPT ![w] = "working"] /\ key' = [key EXCEPT ![w] = k]
      BY <1>2, <2>2 DEF Add, TryAdd
    <3>2. Claim[w] = "idle" /\ Claim' = [Claim EXCEPT ![w] = "has"]
      BY <3>1 DEF Claim, IInv, TypeOK
    <3>3. \A v \in Workers : Claim[v] = "has" => key[v] # k
      BY <2>2, ClaimOf DEF IInv, TypeOK, KeysAreWorkedOn
    <3> QED BY <3>1, <3>2, <3>3 DEF Mutex!AskFree
  <2> QED BY <2>1, <2>2
<1>3. ASSUME NEW w \in Workers, AddAgain(w)
      PROVE  Mutex!Grant(w) \/ UNCHANGED <<Claim, key>>
  <2>1. CASE key[w] \in keys
    <3>1. pc[w] = "woken" /\ pc' = [pc EXCEPT ![w] = "waiting"] /\ key' = key
      BY <1>3, <2>1 DEF AddAgain, TryAdd
    <3>2. Claim' = Claim
      BY <3>1 DEF Claim, IInv, TypeOK
    <3> QED BY <3>1, <3>2
  <2>2. CASE key[w] \notin keys
    <3>1. pc[w] = "woken" /\ pc' = [pc EXCEPT ![w] = "working"] /\ key' = key
      BY <1>3, <2>2 DEF AddAgain, TryAdd
    <3>2. Claim[w] = "wants" /\ Claim' = [Claim EXCEPT ![w] = "has"]
      BY <3>1 DEF Claim, IInv, TypeOK
    <3>3. \A v \in Workers : Claim[v] = "has" => key[v] # key[w]
      BY <2>2, ClaimOf DEF IInv, TypeOK, KeysAreWorkedOn
    <3> QED BY <3>1, <3>2, <3>3 DEF Mutex!Grant
  <2> QED BY <2>1, <2>2
<1>4. ASSUME NEW w \in Workers, Done(w) PROVE Mutex!GiveBack(w)
  <2>1. pc[w] = "working" /\ key' = key
    BY <1>4 DEF Done
  <2>2. Claim[w] = "has" /\ Claim' = [Claim EXCEPT ![w] = "idle"]
    BY <1>4 DEF Claim, Done, IInv, TypeOK
  <2> QED BY <2>1, <2>2 DEF Mutex!GiveBack
<1> QED BY <1>1, <1>2, <1>3, <1>4 DEF Next, Mutex!Next

\* The work queue implements the keyed mutex: every behaviour of mergeQueue
\* and of processQueue is, with a woken worker counted as one that wants its
\* key, a behaviour of the mutex.
THEOREM Refinement == Spec => ImplementsMutex
<1>1. Spec => Mutex!Init /\ [][Mutex!Next]_(Mutex!mvars)
  BY Invariance, InitRefines, StepRefines, PTL DEF Spec
<1> QED BY <1>1 DEF ImplementsMutex, Mutex!Spec
=============================================================================
