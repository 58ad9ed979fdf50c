------------------------ MODULE LockSetReleaseProofs ------------------------
(* Proofs that Commit and Discard give up what a transaction has taken.    *)
EXTENDS LockSetProofs

(* A list of callbacks only grows.                                         *)
Grows(s, q) == Len(s) <= Len(q) /\ \A i \in 1..Len(s) : q[i] = s[i]

(* Registering callbacks keeps those that are there.                       *)
LEMMA ConcatGrows ==
    ASSUME NEW s \in Seq(Callback), NEW e \in Seq(Callback)
    PROVE  s \o e \in Seq(Callback) /\ Grows(s, s \o e)
  BY DEF Grows

(* Callbacks that only run stay as they are.                               *)
LEMMA SameGrows ==
    ASSUME NEW s \in Seq(Callback)
    PROVE  Grows(s, s) /\ \A i \in 1..Len(s) : ~(i > Len(s))
  <1>1. Len(s) \in Nat OBVIOUS
  <1> QED BY <1>1 DEF Grows

(* getLock keeps the callbacks that are there, and adds deleteMutex.       *)
LEMMA GetLockGrows ==
    ASSUME fns \in [Txn -> Seq(Callback)], NEW t \in Txn, NEW then \in Seq(Callback),
           GetLock(t, then)
    PROVE  /\ Grows(fns[t], fns'[t])
           /\ then = <<>> => \A i \in 1..Len(fns'[t]) :
                               i > Len(fns[t]) => fns'[t][i] = "deleteMutex"
  <1> DEFINE s == IF t \in mutexes THEN fns[t] ELSE Append(fns[t], "deleteMutex")
  <1>1. fns'[t] = s \o then BY Zenon DEF GetLock
  <1>2. fns[t] \in Seq(Callback) /\ "deleteMutex" \in Callback BY Zenon DEF Callback
  <1>3. CASE t \in mutexes
    <2>1. fns'[t] = fns[t] \o then BY Zenon, <1>1, <1>3
    <2> QED BY <1>2, <2>1 DEF Grows
  <1>4. CASE t \notin mutexes
    <2>1. fns'[t] = Append(fns[t], "deleteMutex") \o then BY Zenon, <1>1, <1>4
    <2> QED BY <1>2, <2>1 DEF Grows
  <1> QED BY Zenon, <1>3, <1>4

(* Who is open runs every callback it has, in Commit or Discard.           *)
LEMMA OpenPends ==
    ASSUME NEW t \in Txn, Open(t)',
           heldW'[t] # {} => \E i \in 1..Len(fns'[t]) : fns'[t][i] = "unlockAll",
           heldR'[t] # {} => \E i \in 1..Len(fns'[t]) : fns'[t][i] = "rUnlockAll"
    PROVE  Pends(t)'
  BY Zenon DEF Pends, ToRun, Open, Closed, Closing

(* A call that takes no lock, or has not taken it yet.                     *)
LEMMA CallPends ==
    ASSUME NEW t \in Txn, fns \in [Txn -> Seq(Callback)], fns' \in [Txn -> Seq(Callback)],
           Pends(t), Open(t)', Grows(fns[t], fns'[t]),
           heldW'[t] # {} => heldW[t] # {}, heldR'[t] # {} => heldR[t] # {}
    PROVE  Pends(t)'
  <1>1. Len(fns[t]) \in Nat /\ Len(fns'[t]) \in Nat OBVIOUS
  <1>2. ASSUME NEW fn, \E i \in 1..Len(fns[t]) : fns[t][i] = fn
        PROVE  \E i \in 1..Len(fns'[t]) : fns'[t][i] = fn
    BY <1>1, <1>2 DEF Grows
  <1>3. /\ heldW'[t] # {} => \E i \in 1..Len(fns'[t]) : fns'[t][i] = "unlockAll"
        /\ heldR'[t] # {} => \E i \in 1..Len(fns'[t]) : fns'[t][i] = "rUnlockAll"
    BY <1>2, Zenon DEF Pends
  <1> QED BY <1>3, OpenPends, Zenon

(* A lock is noted, and its release registered once.                       *)
LEMMA OncePends ==
    ASSUME NEW t \in Txn, NEW fn \in {"unlockAll", "rUnlockAll"},
           fns \in [Txn -> Seq(Callback)], fns' \in [Txn -> Seq(Callback)],
           Pends(t), Open(t)', Grows(fns[t], fns'[t]),
           fn = "unlockAll" \/ heldW'[t] = heldW[t], fn = "rUnlockAll" \/ heldR'[t] = heldR[t],
           \E i \in 1..Len(fns'[t]) : fns'[t][i] = fn
    PROVE  Pends(t)'
  <1>1. Len(fns[t]) \in Nat /\ Len(fns'[t]) \in Nat OBVIOUS
  <1>2. ASSUME NEW g, \E i \in 1..Len(fns[t]) : fns[t][i] = g
        PROVE  \E i \in 1..Len(fns'[t]) : fns'[t][i] = g
    BY <1>1, <1>2 DEF Grows
  <1>3. heldW'[t] # {} => \E i \in 1..Len(fns'[t]) : fns'[t][i] = "unlockAll"
    BY <1>2, Zenon DEF Pends
  <1>4. heldR'[t] # {} => \E i \in 1..Len(fns'[t]) : fns'[t][i] = "rUnlockAll"
    BY <1>2, Zenon DEF Pends
  <1> QED BY <1>3, <1>4, OpenPends, Zenon

(* What Once adds makes the callback one of the list.                      *)
LEMMA OnceHas ==
    ASSUME NEW t \in Txn, fns \in [Txn -> Seq(Callback)], NEW fn \in Callback,
           NEW s \in Seq(Callback), Grows(fns[t], s)
    PROVE  /\ Once(t, fn) \in Seq(Callback)
           /\ s \o Once(t, fn) \in Seq(Callback)
           /\ Grows(fns[t], s \o Once(t, fn))
           /\ \E i \in 1..Len(s \o Once(t, fn)) : (s \o Once(t, fn))[i] = fn
  <1>1. fns[t] \in Seq(Callback) /\ DOMAIN fns[t] = 1..Len(fns[t]) /\ Len(fns[t]) \in Nat
        /\ Len(s) \in Nat
    OBVIOUS
  <1>2. CASE Has(fns[t], fn)
    <2>1. Once(t, fn) = <<>> BY Zenon, <1>2 DEF Once
    <2>2. s \o Once(t, fn) = s BY <2>1
    <2>3. PICK i \in 1..Len(fns[t]) : fns[t][i] = fn BY Zenon, <1>1, <1>2 DEF Has
    <2>4. i \in 1..Len(s) /\ s[i] = fn BY <1>1, <2>3 DEF Grows
    <2> QED BY <2>1, <2>2, <2>4
  <1>3. CASE ~Has(fns[t], fn)
    <2>1. Once(t, fn) = <<fn>> BY Zenon, <1>3 DEF Once
    <2>2. /\ s \o <<fn>> \in Seq(Callback) /\ Len(s \o <<fn>>) = Len(s) + 1
          /\ (s \o <<fn>>)[Len(s) + 1] = fn /\ <<fn>> \in Seq(Callback)
          /\ \A i \in 1..Len(s) : (s \o <<fn>>)[i] = s[i]
      OBVIOUS
    <2>3. Grows(fns[t], s \o <<fn>>) BY <1>1, <2>2 DEF Grows
    <2>4. Len(s) + 1 \in 1..Len(s \o <<fn>>) BY <1>1, <2>2
    <2> QED BY Zenon, <2>1, <2>2, <2>3, <2>4
  <1> QED BY <1>2, <1>3, Zenon

(* A transaction that the step is not about.                               *)
LEMMA OtherPends ==
    ASSUME NEW u \in Txn, Pends(u),
           fns'[u] = fns[u], fired'[u] = fired[u], run'[u] = run[u],
           heldW'[u] = heldW[u], heldR'[u] = heldR[u],
           \/ pc'[u] = pc[u]
           \/ pc[u] = "waitA" /\ pc'[u] = "wokenA"
           \/ pc[u] = "waitB" /\ pc'[u] = "wokenB"
    PROVE  Pends(u)'
  <1>1. \A i : ToRun(u, i) => ToRun(u, i)' BY Zenon DEF ToRun, Closed, Closing
  <1> QED BY <1>1, Zenon DEF Pends

(* A callback of a closing transaction has run: all others are still to    *)
(* run.                                                                    *)
LEMMA RunPends ==
    ASSUME CountInv, fns' \in [Txn -> Seq(Callback)],
           NEW t \in Txn, NEW fn, Running(t, fn), Pends(t),
           run' = [run EXCEPT ![t].next = @ + 1],
           pc'[t] = IF run[t].next = run[t].last
                      THEN IF pc[t] = "committing" THEN "committed" ELSE "discarded"
                      ELSE pc[t],
           Grows(fns[t], fns'[t]),
           \A i \in 1..Len(fns'[t]) : i > Len(fns[t]) => fns'[t][i] = "deleteMutex",
           heldW'[t] = IF fn = "unlockAll" THEN {} ELSE heldW[t],
           heldR'[t] = IF fn = "rUnlockAll" THEN {} ELSE heldR[t],
           fired'[t] = fired[t] \/ fired'[t] = fired[t] \cup {run[t].next},
           fn \in {"doneA", "doneB"} => run[t].next \in fired'[t]
    PROVE  Pends(t)'
  <1>1. /\ run \in [Txn -> [next: Nat, last: Nat]] /\ fns \in [Txn -> Seq(Callback)]
    BY Zenon DEF CountInv
  <1>2. /\ run[t].next \in Nat /\ run[t].last \in Nat
        /\ run'[t].next = run[t].next + 1 /\ run'[t].last = run[t].last
        /\ Len(fns[t]) \in Nat /\ Len(fns'[t]) \in Nat
    BY <1>1
  <1>3. /\ pc[t] \in {"committing", "discarding"} /\ run[t].next <= run[t].last
        /\ fns[t][run[t].next] = fn
    BY Zenon DEF Running
  <1>4. ASSUME NEW i \in Int, i # run[t].next, ToRun(t, i) PROVE ToRun(t, i)'
    <2>1. i \in run[t].next..run[t].last BY Zenon, <1>3, <1>4 DEF ToRun, Closing
    <2>2. run[t].next # run[t].last BY <1>2, <1>4, <2>1
    <2>3. pc'[t] = pc[t] BY Zenon, <2>2
    <2>4. i \in run'[t].next..run'[t].last BY <1>2, <1>4, <2>1
    <2> QED BY Zenon, <1>3, <2>3, <2>4 DEF ToRun, Closing, Closed
  <1>5. ASSUME NEW g, g # fn, \E i \in 1..Len(fns[t]) : fns[t][i] = g /\ ToRun(t, i)
        PROVE  \E i \in 1..Len(fns'[t]) : fns'[t][i] = g /\ ToRun(t, i)'
    <2>1. PICK i \in 1..Len(fns[t]) : fns[t][i] = g /\ ToRun(t, i) BY Zenon, <1>5
    <2>2. i # run[t].next BY Zenon, <1>3, <1>5, <2>1
    <2>3. ToRun(t, i)' BY <1>4, <2>1, <2>2
    <2>4. i \in 1..Len(fns'[t]) /\ fns'[t][i] = g BY <1>2, <2>1 DEF Grows
    <2> QED BY Zenon, <2>3, <2>4
  <1>6. heldW'[t] # {} => \E i \in 1..Len(fns'[t]) : fns'[t][i] = "unlockAll" /\ ToRun(t, i)'
    <2> SUFFICES ASSUME heldW'[t] # {}
                 PROVE  \E i \in 1..Len(fns'[t]) : fns'[t][i] = "unlockAll" /\ ToRun(t, i)'
      BY Zenon
    <2>1. fn # "unlockAll" /\ heldW[t] # {} BY Zenon
    <2> QED BY <1>5, <2>1, Zenon DEF Pends
  <1>7. heldR'[t] # {} => \E i \in 1..Len(fns'[t]) : fns'[t][i] = "rUnlockAll" /\ ToRun(t, i)'
    <2> SUFFICES ASSUME heldR'[t] # {}
                 PROVE  \E i \in 1..Len(fns'[t]) : fns'[t][i] = "rUnlockAll" /\ ToRun(t, i)'
      BY Zenon
    <2>1. fn # "rUnlockAll" /\ heldR[t] # {} BY Zenon
    <2> QED BY <1>5, <2>1, Zenon DEF Pends
  <1>8. ASSUME NEW i \in 1..Len(fns'[t]), fns'[t][i] \in {"doneA", "doneB"}, i \notin fired'[t]
        PROVE  ToRun(t, i)'
    <2>1. i \in 1..Len(fns[t]) BY <1>2, <1>8
    <2>2. fns[t][i] = fns'[t][i] BY Zenon, <2>1 DEF Grows
    <2>3. i \notin fired[t] BY Zenon, <1>8
    <2>4. ToRun(t, i) BY Zenon, <1>8, <2>1, <2>2, <2>3 DEF Pends
    <2>5. i # run[t].next BY Zenon, <1>3, <1>8, <2>2
    <2> QED BY <1>4, <2>4, <2>5
  <1> QED BY Zenon, <1>6, <1>7, <1>8 DEF Pends

(* Every step keeps a callback behind all that a transaction holds.        *)
LEMMA PendingStep ==
    ASSUME TypeOK, CountInv, CountInv', PendingInv, [Next]_vars
    PROVE  PendingInv'
  <1>1. /\ heldW \in [Txn -> SUBSET Key] /\ heldR \in [Txn -> SUBSET Key]
        /\ pc \in [Txn -> Pc] /\ fns \in [Txn -> Seq(Callback)] /\ fns' \in [Txn -> Seq(Callback)]
        /\ fired \in [Txn -> SUBSET Nat] /\ run \in [Txn -> [next: Nat, last: Nat]]
    BY Zenon DEF TypeOK, CountInv
  <1>a. \A u \in Txn : Pends(u) BY Zenon DEF PendingInv
  <1>b. <<>> \in Seq(Callback) OBVIOUS
  <1> DEFINE Same(u) == /\ fns'[u] = fns[u] /\ fired'[u] = fired[u] /\ run'[u] = run[u]
                        /\ heldW'[u] = heldW[u] /\ heldR'[u] = heldR[u]
                        /\ \/ pc'[u] = pc[u]
                           \/ pc[u] = "waitA" /\ pc'[u] = "wokenA"
                           \/ pc[u] = "waitB" /\ pc'[u] = "wokenB"
  <1>2. ASSUME NEW t \in Txn, \A u \in Txn \ {t} : Same(u), Pends(t)' PROVE PendingInv'
    <2>1. ASSUME NEW u \in Txn PROVE Pends(u)'
      <3>1. CASE u = t BY Zenon, <1>2, <3>1
      <3>2. CASE u # t BY Zenon, <1>2, <1>a, <3>2, OtherPends
      <3> QED BY Zenon, <3>1, <3>2
    <2> QED BY Zenon, <2>1 DEF PendingInv
  <1>3. CASE UNCHANGED vars
    <2>1. \A u \in Txn : Same(u) BY Zenon, <1>3 DEF vars, locks
    <2> QED BY Zenon, <1>a, <2>1, OtherPends DEF PendingInv
  <1>4. ASSUME NEW t \in Txn, NEW k \in Key, CollectionLock(t, k) PROVE PendingInv'
    <2>1. /\ GetLock(t, <<>>) /\ UNCHANGED <<heldW, fired, run>>
          /\ pc[t] = "idle"
          /\ UNCHANGED pc \/ pc' = [pc EXCEPT ![t] = "awaitW"]
          /\ UNCHANGED heldR \/ heldR' = [heldR EXCEPT ![t] = @ \ {k}]
      BY Zenon, <1>4 DEF CollectionLock, Calling, Promote, Goto
    <2>2. \A u \in Txn \ {t} : fns'[u] = fns[u] BY Zenon, <1>1, <2>1 DEF GetLock
    <2>3. \A u \in Txn \ {t} : Same(u) BY Zenon, <1>1, <2>1, <2>2
    <2>4. Grows(fns[t], fns'[t]) BY <1>1, <1>b, <2>1, GetLockGrows, Zenon
    <2>5. Open(t)' BY Zenon, <1>1, <2>1 DEF Open
    <2>6. (heldW'[t] # {} => heldW[t] # {}) /\ (heldR'[t] # {} => heldR[t] # {}) BY <1>1, <2>1
    <2>7. Pends(t)' BY <1>1, <1>a, <2>4, <2>5, <2>6, CallPends, Zenon
    <2> QED BY Zenon, <1>2, <2>3, <2>7
  <1>5. ASSUME NEW t \in Txn, NEW k \in Key, CollectionRLock(t, k) PROVE PendingInv'
    <2>1. UNCHANGED <<heldW, fired, run>> /\ pc[t] = "idle"
      BY Zenon, <1>5 DEF CollectionRLock, Calling
    <2>2. CASE /\ GetLock(t, <<>>) /\ UNCHANGED heldR
               /\ UNCHANGED pc \/ pc' = [pc EXCEPT ![t] = "awaitR"]
      <3>1. \A u \in Txn \ {t} : fns'[u] = fns[u] BY Zenon, <1>1, <2>2 DEF GetLock
      <3>2. \A u \in Txn \ {t} : Same(u) BY Zenon, <1>1, <2>1, <2>2, <3>1
      <3>3. Grows(fns[t], fns'[t]) BY <1>1, <1>b, <2>2, GetLockGrows, Zenon
      <3>4. Open(t)' BY Zenon, <1>1, <2>1, <2>2 DEF Open
      <3>5. Pends(t)' BY <1>1, <1>a, <2>1, <2>2, <3>3, <3>4, CallPends, Zenon
      <3> QED BY Zenon, <1>2, <3>2, <3>5
    <2>3. CASE /\ GetLock(t, Once(t, "rUnlockAll"))
               /\ heldR' = [heldR EXCEPT ![t] = @ \cup {k}]
               /\ pc' = [pc EXCEPT ![t] = "idle"]
      <3> DEFINE s == IF t \in mutexes THEN fns[t] ELSE Append(fns[t], "deleteMutex")
      <3>1. \A u \in Txn \ {t} : fns'[u] = fns[u] BY Zenon, <1>1, <2>3 DEF GetLock
      <3>2. \A u \in Txn \ {t} : Same(u) BY Zenon, <1>1, <2>1, <2>3, <3>1
      <3>3. fns'[t] = s \o Once(t, "rUnlockAll") BY Zenon, <1>1, <2>3 DEF GetLock
      <3>4. s \in Seq(Callback) /\ Grows(fns[t], s) /\ "rUnlockAll" \in Callback
        <4>1. fns[t] \in Seq(Callback) /\ "deleteMutex" \in Callback BY Zenon, <1>1 DEF Callback
        <4> QED BY <4>1 DEF Grows, Callback
      <3>5. /\ Grows(fns[t], fns'[t])
            /\ \E i \in 1..Len(fns'[t]) : fns'[t][i] = "rUnlockAll"
        <4> HIDE DEF s
        <4>1. /\ Grows(fns[t], s \o Once(t, "rUnlockAll"))
              /\ \E i \in 1..Len(s \o Once(t, "rUnlockAll")) :
                   (s \o Once(t, "rUnlockAll"))[i] = "rUnlockAll"
          BY <1>1, <3>4, OnceHas, Zenon
        <4> QED BY Zenon, <3>3, <4>1
      <3>6. Open(t)' BY Zenon, <1>1, <2>3 DEF Open
      <3>7. Pends(t)' BY <1>1, <1>a, <2>1, <3>5, <3>6, OncePends, Zenon
      <3> QED BY Zenon, <1>2, <3>2, <3>7
    <2> QED BY Zenon, <1>5, <2>2, <2>3 DEF CollectionRLock, HoldRead, Goto
  <1>6. ASSUME NEW t \in Txn, TakeWriter(t) \/ WaitB(t) \/ ReturnB(t) PROVE PendingInv'
    <2>1. UNCHANGED <<heldW, heldR, fns, fired, run>>
      BY <1>6, Zenon DEF TakeWriter, WaitB, ReturnB, locks
    <2>2. /\ pc' = [pc EXCEPT ![t] = pc'[t]]
          /\ pc'[t] \in {"drain", "idle", "waitB", "panic"}
      BY <1>1, <1>6, Zenon DEF TakeWriter, WaitB, ReturnB, Goto
    <2>3. \A u \in Txn \ {t} : Same(u) BY Zenon, <1>1, <2>1, <2>2
    <2>4. Open(t)' BY Zenon, <2>2 DEF Open
    <2>5. Grows(fns[t], fns'[t]) BY <1>1, <2>1 DEF Grows
    <2>6. Pends(t)' BY <1>1, <1>a, <2>1, <2>4, <2>5, CallPends, Zenon
    <2> QED BY <1>2, <2>3, <2>6, Zenon
  <1>7. ASSUME NEW t \in Txn, LockA(t) \/ RLockAll(t) PROVE PendingInv'
    <2>1. /\ UNCHANGED <<heldW, heldR, fired, run>>
          /\ \E fn \in {"doneA", "doneB"} : fns' = [fns EXCEPT ![t] = Append(@, fn)]
          /\ pc' = [pc EXCEPT ![t] = "addedA"] \/ pc' = [pc EXCEPT ![t] = "addedB"]
      BY Zenon, <1>7 DEF LockA, RLockAll, Goto, locks
    <2>2. \A u \in Txn \ {t} : Same(u) BY Zenon, <1>1, <2>1
    <2>3. Open(t)' BY Zenon, <1>1, <2>1 DEF Open
    <2>4. Grows(fns[t], fns'[t])
      <3>1. PICK fn \in {"doneA", "doneB"} : fns'[t] = Append(fns[t], fn) BY Zenon, <1>1, <2>1
      <3>2. fns[t] \in Seq(Callback) /\ fn \in Callback BY Zenon, <1>1 DEF Callback
      <3> QED BY <3>1, <3>2 DEF Grows
    <2>5. Pends(t)' BY <1>1, <1>a, <2>1, <2>3, <2>4, CallPends, Zenon
    <2> QED BY Zenon, <1>2, <2>2, <2>5
  <1>8. ASSUME NEW t \in Txn, WaitA(t) \/ ReturnA(t) PROVE PendingInv'
    <2>1. UNCHANGED <<fired, run>> BY Zenon, <1>8 DEF WaitA, ReturnA
    <2>2. CASE HoldWrite(t)
      <3>1. /\ UNCHANGED heldR
            /\ heldW' = [heldW EXCEPT ![t] = @ \cup {key[t]}]
            /\ fns' = [fns EXCEPT ![t] = @ \o Once(t, "unlockAll")]
            /\ pc' = [pc EXCEPT ![t] = "idle"]
        BY Zenon, <2>2 DEF HoldWrite, Goto
      <3>2. \A u \in Txn \ {t} : Same(u) BY Zenon, <1>1, <2>1, <3>1
      <3>3. fns'[t] = fns[t] \o Once(t, "unlockAll") BY Zenon, <1>1, <3>1
      <3>4. fns[t] \in Seq(Callback) /\ Grows(fns[t], fns[t]) /\ "unlockAll" \in Callback
        BY <1>1 DEF Grows, Callback
      <3>5. /\ Grows(fns[t], fns'[t])
            /\ \E i \in 1..Len(fns'[t]) : fns'[t][i] = "unlockAll"
        <4>1. /\ Grows(fns[t], fns[t] \o Once(t, "unlockAll"))
              /\ \E i \in 1..Len(fns[t] \o Once(t, "unlockAll")) :
                   (fns[t] \o Once(t, "unlockAll"))[i] = "unlockAll"
          BY <1>1, <3>4, OnceHas, Zenon
        <4> QED BY Zenon, <3>3, <4>1
      <3>6. Open(t)' BY Zenon, <1>1, <3>1 DEF Open
      <3>7. Pends(t)' BY <1>1, <1>a, <3>1, <3>5, <3>6, OncePends, Zenon
      <3> QED BY Zenon, <1>2, <3>2, <3>7
    <2>3. CASE ~HoldWrite(t)
      <3>1. /\ UNCHANGED <<heldW, heldR, fns>>
            /\ pc' = [pc EXCEPT ![t] = "waitA"] \/ pc' = [pc EXCEPT ![t] = "panic"]
        BY Zenon, <1>8, <2>3 DEF WaitA, ReturnA, Goto, locks
      <3>2. \A u \in Txn \ {t} : Same(u) BY Zenon, <1>1, <2>1, <3>1
      <3>3. Open(t)' BY Zenon, <1>1, <3>1 DEF Open
      <3>4. Grows(fns[t], fns'[t]) BY <1>1, <3>1 DEF Grows
      <3>5. Pends(t)' BY <1>1, <1>a, <3>1, <3>3, <3>4, CallPends, Zenon
      <3> QED BY Zenon, <1>2, <3>2, <3>5
    <2> QED BY Zenon, <2>2, <2>3
  <1>9. ASSUME NEW t \in Txn, AwaitRead(t) PROVE PendingInv'
    <2>1. /\ UNCHANGED <<heldW, fired, run>>
          /\ heldR' = [heldR EXCEPT ![t] = @ \cup {key[t]}]
          /\ fns' = [fns EXCEPT ![t] = @ \o Once(t, "rUnlockAll")]
          /\ pc' = [pc EXCEPT ![t] = "idle"]
      BY Zenon, <1>9 DEF AwaitRead, HoldRead, Goto
    <2>2. \A u \in Txn \ {t} : Same(u) BY Zenon, <1>1, <2>1
    <2>3. fns'[t] = fns[t] \o Once(t, "rUnlockAll") BY Zenon, <1>1, <2>1
    <2>4. fns[t] \in Seq(Callback) /\ Grows(fns[t], fns[t]) /\ "rUnlockAll" \in Callback
      BY <1>1 DEF Grows, Callback
    <2>5. /\ Grows(fns[t], fns'[t])
          /\ \E i \in 1..Len(fns'[t]) : fns'[t][i] = "rUnlockAll"
      <3>1. /\ Grows(fns[t], fns[t] \o Once(t, "rUnlockAll"))
            /\ \E i \in 1..Len(fns[t] \o Once(t, "rUnlockAll")) :
                 (fns[t] \o Once(t, "rUnlockAll"))[i] = "rUnlockAll"
        BY <1>1, <2>4, OnceHas, Zenon
      <3> QED BY Zenon, <2>3, <3>1
    <2>6. Open(t)' BY Zenon, <1>1, <2>1 DEF Open
    <2>7. Pends(t)' BY <1>1, <1>a, <2>1, <2>5, <2>6, OncePends, Zenon
    <2> QED BY Zenon, <1>2, <2>2, <2>7
  <1>10. ASSUME NEW t \in Txn, Commit(t) \/ Discard(t) PROVE PendingInv'
    <2>1. /\ UNCHANGED <<heldW, heldR, fns, fired>>
          /\ run' = [run EXCEPT ![t] = [next |-> 1, last |-> Len(fns[t])]]
          /\ pc' = [pc EXCEPT ![t] = pc'[t]] /\ pc'[t] \in {"committing", "discarding"}
      BY <1>1, <1>10, Zenon DEF Commit, Discard, Close, Goto, locks
    <2>2. \A u \in Txn \ {t} : Same(u) BY Zenon, <1>1, <2>1
    <2>3. \A i \in 1..Len(fns'[t]) : ToRun(t, i)' BY Zenon, <1>1, <2>1 DEF ToRun, Closed, Closing
    <2>4. Pends(t)' BY Zenon, <1>a, <2>1, <2>3 DEF Pends
    <2> QED BY Zenon, <1>2, <2>2, <2>4
  <1>11. ASSUME NEW t \in Txn, CloseEmpty(t) PROVE PendingInv'
    <2>1. /\ UNCHANGED <<heldW, heldR, fns, fired, run>>
          /\ pc' = [pc EXCEPT ![t] = pc'[t]]
          /\ pc[t] \in {"committing", "discarding"} /\ run[t].last = 0
      BY <1>1, <1>11, Zenon DEF CloseEmpty, Goto, locks
    <2>2. \A u \in Txn \ {t} : Same(u) BY Zenon, <1>1, <2>1
    <2>3. \A i \in 1..Len(fns[t]) : ~ToRun(t, i)
      <3>1. run[t].next \in Nat /\ 0 < run[t].next BY Zenon, <1>1 DEF CountInv, Counted
      <3> QED BY <2>1, <3>1 DEF ToRun, Closing
    <2>4. Pends(t)' BY Zenon, <1>a, <2>1, <2>3 DEF Pends
    <2> QED BY Zenon, <1>2, <2>2, <2>4
  <1>12. ASSUME NEW t \in Txn, NEW fn, Running(t, fn),
                NEW sleep, NEW woken, CallbackDone(t, sleep, woken),
                <<sleep, woken>> \in {<<"", "">>, <<"waitA", "wokenA">>, <<"", "wokenA">>,
                                      <<"waitB", "wokenB">>, <<"", "wokenB">>},
                Grows(fns[t], fns'[t]),
                \A i \in 1..Len(fns'[t]) : i > Len(fns[t]) => fns'[t][i] = "deleteMutex",
                heldW' = [heldW EXCEPT ![t] = IF fn = "unlockAll" THEN {} ELSE @],
                heldR' = [heldR EXCEPT ![t] = IF fn = "rUnlockAll" THEN {} ELSE @],
                \A u \in Txn \ {t} : fns'[u] = fns[u] /\ fired'[u] = fired[u],
                fired'[t] = fired[t] \/ fired'[t] = fired[t] \cup {run[t].next},
                fn \in {"doneA", "doneB"} => run[t].next \in fired'[t]
         PROVE  PendingInv'
    <2>1. run' = [run EXCEPT ![t].next = @ + 1] BY <1>12, Zenon DEF CallbackDone
    <2>2. pc[t] \in {"committing", "discarding"} BY <1>12, Zenon DEF Running
    <2>3. \A u \in Txn : pc[u] # "" BY <1>1, Zenon DEF Pc
    <2>4. pc'[t] = IF run[t].next = run[t].last
                     THEN IF pc[t] = "committing" THEN "committed" ELSE "discarded"
                     ELSE pc[t]
      <3>1. pc[t] # sleep BY <1>12, <2>2, <2>3, Zenon
      <3> QED BY <1>12, <3>1, Zenon DEF CallbackDone
    <2>5. ASSUME NEW u \in Txn \ {t} PROVE Same(u)
      <3>1. pc'[u] = IF pc[u] = sleep THEN woken ELSE pc[u] BY <1>12, Zenon DEF CallbackDone
      <3>2. \/ pc'[u] = pc[u]
            \/ pc[u] = "waitA" /\ pc'[u] = "wokenA"
            \/ pc[u] = "waitB" /\ pc'[u] = "wokenB"
        BY <1>12, <2>3, <3>1, Zenon
      <3>3. run'[u] = run[u] /\ heldW'[u] = heldW[u] /\ heldR'[u] = heldR[u]
        BY <1>1, <1>12, <2>1, Zenon
      <3> QED BY <1>12, <3>2, <3>3, Zenon
    <2>6. /\ heldW'[t] = IF fn = "unlockAll" THEN {} ELSE heldW[t]
          /\ heldR'[t] = IF fn = "rUnlockAll" THEN {} ELSE heldR[t]
      BY <1>1, <1>12, Zenon
    <2>7. Pends(t)' BY <1>1, <1>a, <1>12, <2>1, <2>4, <2>6, RunPends, Zenon
    <2> QED BY Zenon, <1>2, <2>5, <2>7
  <1>13. ASSUME NEW t \in Txn, DeleteMutex(t) PROVE PendingInv'
    <2>1. /\ Running(t, "deleteMutex") /\ CallbackDone(t, "", "")
          /\ UNCHANGED <<heldW, heldR, fns, fired>>
      BY <1>13, Zenon DEF DeleteMutex, locks
    <2>2. /\ Grows(fns[t], fns'[t])
          /\ \A i \in 1..Len(fns'[t]) : i > Len(fns[t]) => fns'[t][i] = "deleteMutex"
      <3>1. fns[t] \in Seq(Callback) /\ fns'[t] = fns[t] BY <1>1, <2>1, Zenon
      <3> QED BY <3>1, SameGrows, Zenon
    <2>3. /\ heldW' = [heldW EXCEPT ![t] = IF "deleteMutex" = "unlockAll" THEN {} ELSE @]
          /\ heldR' = [heldR EXCEPT ![t] = IF "deleteMutex" = "rUnlockAll" THEN {} ELSE @]
      BY <1>1, <2>1, Zenon
    <2>4. /\ \A u \in Txn \ {t} : fns'[u] = fns[u] /\ fired'[u] = fired[u]
          /\ fired'[t] = fired[t] /\ "deleteMutex" \notin {"doneA", "doneB"}
      BY <2>1, Zenon
    <2> QED BY <1>12, <2>1, <2>2, <2>3, <2>4, Zenon
  <1>14. ASSUME NEW t \in Txn, DoneA(t) \/ DoneB(t) PROVE PendingInv'
    <2>1. PICK fn \in {"doneA", "doneB"}, sleep \in {"", "waitA", "waitB"}, woken \in {"wokenA", "wokenB"} :
             /\ Running(t, fn) /\ CallbackDone(t, sleep, woken)
             /\ <<sleep, woken>> \in {<<"waitA", "wokenA">>, <<"", "wokenA">>,
                                      <<"waitB", "wokenB">>, <<"", "wokenB">>}
      <3>1. CASE DoneA(t)
        <4>1. Running(t, "doneA") BY <3>1, Zenon DEF DoneA
        <4>2. CallbackDone(t, "waitB", "wokenB") \/ CallbackDone(t, "", "wokenB")
          BY <3>1, Zenon DEF DoneA
        <4> QED BY <4>1, <4>2, Zenon
      <3>2. CASE DoneB(t)
        <4>1. Running(t, "doneB") BY <3>2, Zenon DEF DoneB
        <4>2. CallbackDone(t, "waitA", "wokenA") \/ CallbackDone(t, "", "wokenA")
          BY <3>2, Zenon DEF DoneB
        <4> QED BY <4>1, <4>2, Zenon
      <3> QED BY <1>14, <3>1, <3>2, Zenon
    <2>2. /\ UNCHANGED <<heldW, heldR, fns>>
          /\ fired' = [fired EXCEPT ![t] = @ \cup {run[t].next}]
      BY <1>14, Zenon DEF DoneA, DoneB, locks
    <2>3. /\ Grows(fns[t], fns'[t])
          /\ \A i \in 1..Len(fns'[t]) : i > Len(fns[t]) => fns'[t][i] = "deleteMutex"
      <3>1. fns[t] \in Seq(Callback) /\ fns'[t] = fns[t] BY <1>1, <2>2, Zenon
      <3> QED BY <3>1, SameGrows, Zenon
    <2>4. /\ heldW' = [heldW EXCEPT ![t] = IF fn = "unlockAll" THEN {} ELSE @]
          /\ heldR' = [heldR EXCEPT ![t] = IF fn = "rUnlockAll" THEN {} ELSE @]
      BY <1>1, <2>2, Zenon
    <2>5. /\ \A u \in Txn \ {t} : fns'[u] = fns[u] /\ fired'[u] = fired[u]
          /\ fired'[t] = fired[t] \cup {run[t].next}
      BY <1>1, <2>2, Zenon
    <2>6. run[t].next \in fired'[t] BY <2>5, Zenon
    <2> QED BY <1>12, <2>1, <2>3, <2>4, <2>5, <2>6, Zenon
  <1>15. ASSUME NEW t \in Txn, UnlockAll(t) \/ RUnlockAll(t) PROVE PendingInv'
    <2>1. PICK fn \in {"unlockAll", "rUnlockAll"} :
             /\ Running(t, fn)
             /\ heldW' = [heldW EXCEPT ![t] = IF fn = "unlockAll" THEN {} ELSE @]
             /\ heldR' = [heldR EXCEPT ![t] = IF fn = "rUnlockAll" THEN {} ELSE @]
      <3>1. CASE UnlockAll(t)
        <4>1. /\ Running(t, "unlockAll") /\ heldW' = [heldW EXCEPT ![t] = {}]
              /\ UNCHANGED heldR
          BY <3>1, Zenon DEF UnlockAll
        <4> QED BY Zenon, <1>1, <4>1
      <3>2. CASE RUnlockAll(t)
        <4>1. /\ Running(t, "rUnlockAll") /\ heldR' = [heldR EXCEPT ![t] = {}]
              /\ UNCHANGED heldW
          BY <3>2, Zenon DEF RUnlockAll
        <4> QED BY Zenon, <1>1, <4>1
      <3> QED BY Zenon, <1>15, <3>1, <3>2
    <2>2. GetLock(t, <<>>) /\ CallbackDone(t, "", "") /\ UNCHANGED fired
      BY <1>15, Zenon DEF UnlockAll, RUnlockAll
    <2>3. /\ Grows(fns[t], fns'[t])
          /\ \A i \in 1..Len(fns'[t]) : i > Len(fns[t]) => fns'[t][i] = "deleteMutex"
      BY <1>1, <1>b, <2>2, GetLockGrows, Zenon
    <2>4. \A u \in Txn \ {t} : fns'[u] = fns[u] /\ fired'[u] = fired[u]
      BY <1>1, <2>2, Zenon DEF GetLock
    <2>5. fired'[t] = fired[t] /\ fn \notin {"doneA", "doneB"} BY <2>1, <2>2, Zenon
    <2> QED BY <1>12, <2>1, <2>2, <2>3, <2>4, <2>5, Zenon
  <1> HIDE DEF Same
  <1> QED BY <1>3, <1>4, <1>5, <1>6, <1>7, <1>8, <1>9, <1>10, <1>11, <1>13, <1>14, <1>15, Zenon
          DEF Next, Proceed

(* Every step keeps the mutex of a key in the hands of those who have the  *)
(* lock or are taking it.                                                  *)
LEMMA OwnStep ==
    ASSUME TypeOK, KeyInv, OwnInv, [Next]_vars
    PROVE  OwnInv'
  <1>1. /\ writer \in [Key -> Txn \cup {NoTxn}] /\ readers \in [Key -> SUBSET Txn]
        /\ heldW \in [Txn -> SUBSET Key] /\ heldR \in [Txn -> SUBSET Key]
        /\ pc \in [Txn -> Pc] /\ key \in [Txn -> Key \cup {NoKey}]
    BY Zenon DEF TypeOK
  <1>2. ASSUME UNCHANGED <<writer, readers, heldW, heldR, key>>,
               \A u \in Txn : \/ pc'[u] = pc[u]
                              \/ pc[u] \notin {"drain", "awaitR", "panic"} \cup TakingA
                              \/ pc[u] \in {"drain"} \cup TakingA
                                 /\ pc'[u] \in {"panic"} \cup TakingA
        PROVE  OwnInv'
    BY <1>2 DEF OwnInv, TakingA
  <1>3. CASE UNCHANGED vars BY <1>3, Zenon DEF vars, locks, OwnInv
  <1>4. ASSUME NEW t \in Txn, NEW k \in Key, CollectionLock(t, k) PROVE OwnInv'
    <2>1. UNCHANGED <<writer, heldW>> /\ pc[t] = "idle" BY Zenon, <1>4 DEF CollectionLock, Calling
    <2>2. CASE UNCHANGED <<readers, heldR, pc, key>> BY Zenon, <1>2, <2>1, <2>2
    <2>3. CASE Promote(t, k) /\ Goto(t, "awaitW") /\ key' = [key EXCEPT ![t] = k]
      BY <1>1, <2>1, <2>3 DEF Promote, Goto, OwnInv, TakingA
    <2> QED BY Zenon, <1>4, <2>2, <2>3 DEF CollectionLock
  <1>5. ASSUME NEW t \in Txn, NEW k \in Key, CollectionRLock(t, k) PROVE OwnInv'
    <2>1. UNCHANGED <<writer, heldW>> /\ pc[t] = "idle" BY <1>5 DEF CollectionRLock, Calling
    <2>2. CASE UNCHANGED <<readers, heldR, pc, key>> BY Zenon, <1>2, <2>1, <2>2
    <2>3. CASE /\ readers' = [readers EXCEPT ![k] = @ \cup {t}]
               /\ heldR' = [heldR EXCEPT ![t] = @ \cup {k}]
               /\ pc' = [pc EXCEPT ![t] = "idle"]
               /\ key' = [key EXCEPT ![t] = NoKey]
      BY <1>1, <2>1, <2>3 DEF OwnInv, TakingA
    <2>4. CASE /\ UNCHANGED <<readers, heldR>>
               /\ pc' = [pc EXCEPT ![t] = "awaitR"]
               /\ key' = [key EXCEPT ![t] = k]
      BY <1>1, <2>1, <2>4 DEF OwnInv, TakingA
    <2> QED BY Zenon, <1>5, <2>2, <2>3, <2>4 DEF CollectionRLock, HoldRead, Goto
  <1>6. ASSUME NEW t \in Txn, TakeWriter(t) PROVE OwnInv'
    <2>1. key[t] \in Key BY <1>6, Zenon DEF TakeWriter, KeyInv
    <2> QED BY <1>1, <1>6, <2>1, SMTT(30) DEF TakeWriter, Goto, OwnInv, TakingA
  <1>7. ASSUME NEW t \in Txn,
               \/ LockA(t) \/ WaitB(t) \/ ReturnB(t) \/ CloseEmpty(t) \/ RLockAll(t)
               \/ Commit(t) \/ Discard(t)
        PROVE  OwnInv'
    <2>1. UNCHANGED <<writer, readers, heldW, heldR, key>>
      BY <1>7, Zenon DEF LockA, WaitB, ReturnB, CloseEmpty, RLockAll, Commit, Discard, Close, locks
    <2>2. \/ pc[t] = "drain" /\ Goto(t, "addedA")
          \/ /\ pc[t] \in {"idle", "addedB", "wokenB", "committing", "committed", "discarding"}
             /\ \E to \in Pc : Goto(t, to)
      BY <1>7, Zenon DEF LockA, WaitB, ReturnB, CloseEmpty, RLockAll, Calling, Commit, Discard,
                         Close, Pc
    <2>3. \A u \in Txn : \/ pc'[u] = pc[u]
                         \/ pc[u] \notin {"drain", "awaitR", "panic"} \cup TakingA
                         \/ pc[u] \in {"drain"} \cup TakingA /\ pc'[u] \in {"panic"} \cup TakingA
      BY Zenon, <1>1, <2>2 DEF Goto, TakingA
    <2> QED BY Zenon, <1>2, <2>1, <2>3
  <1>8. ASSUME NEW t \in Txn, WaitA(t) \/ ReturnA(t) PROVE OwnInv'
    <2>1. CASE HoldWrite(t)
      <3>1. pc[t] \in TakingA BY Zenon, <1>8 DEF WaitA, ReturnA, TakingA
      <3>2. key[t] \in Key BY Zenon, <3>1 DEF KeyInv
      <3> QED BY <1>1, <2>1, <3>1, <3>2 DEF HoldWrite, Goto, OwnInv, TakingA
    <2>2. CASE ~HoldWrite(t)
      <3>1. /\ pc[t] \in TakingA
            /\ UNCHANGED <<writer, readers, heldW, heldR, key>>
            /\ Goto(t, "waitA") \/ Goto(t, "panic")
        BY Zenon, <1>8, <2>2 DEF WaitA, ReturnA, TakingA, locks
      <3> QED BY Zenon, <1>1, <1>2, <3>1 DEF Goto, TakingA
    <2> QED BY Zenon, <2>1, <2>2
  <1>9. ASSUME NEW t \in Txn, AwaitRead(t) PROVE OwnInv'
    <2>1. key[t] \in Key BY <1>9, Zenon DEF AwaitRead, KeyInv
    <2> QED BY <1>1, <1>9, <2>1 DEF AwaitRead, HoldRead, Goto, OwnInv, TakingA
  <1>10. ASSUME NEW t \in Txn, DeleteMutex(t) \/ DoneA(t) \/ DoneB(t) PROVE OwnInv'
    <2>1. UNCHANGED <<writer, readers, heldW, heldR, key>>
      BY <1>10, Zenon DEF DeleteMutex, DoneA, DoneB, locks
    <2>2. \A u \in Txn : \/ pc'[u] = pc[u]
                         \/ u = t /\ pc'[u] \in {"committed", "discarded"}
                         \/ pc[u] = "waitA" /\ pc'[u] = "wokenA"
                         \/ pc[u] = "waitB" /\ pc'[u] = "wokenB"
      BY <1>10, WakeUp, Zenon DEF DeleteMutex, DoneA, DoneB
    <2>3. pc[t] \in {"committing", "discarding"}
      BY <1>10, Zenon DEF DeleteMutex, DoneA, DoneB, Running
    <2> QED BY Zenon, <1>2, <2>1, <2>2, <2>3 DEF TakingA
  <1>11. ASSUME NEW t \in Txn, UnlockAll(t) \/ RUnlockAll(t) PROVE OwnInv'
    <2>1. \A u \in Txn : pc'[u] = pc[u] \/ (u = t /\ pc'[u] \in {"committed", "discarded"})
      BY <1>1, <1>11, Zenon DEF UnlockAll, RUnlockAll, CallbackDone, Pc
    <2>2. pc[t] \in {"committing", "discarding"} /\ UNCHANGED key
      BY <1>11, Zenon DEF UnlockAll, RUnlockAll, Running
    <2>3. \A u \in Txn : pc[u] \in {"drain", "awaitR", "panic"} \cup TakingA => pc'[u] = pc[u]
      BY Zenon, <2>1, <2>2 DEF TakingA
    <2>4. CASE UnlockAll(t)
      <3>1. /\ heldW' = [heldW EXCEPT ![t] = {}] /\ UNCHANGED heldR
            /\ \A j \in Key : writer'[j] = IF j \in heldW[t] THEN NoTxn ELSE writer[j]
            /\ \A j \in Key : readers'[j] = IF j \in heldW[t]
                 THEN {u \in Txn : pc[u] = "awaitR" /\ key[u] = j} ELSE readers[j]
        BY <2>4, Zenon DEF UnlockAll
      <3>2. ASSUME NEW u \in Txn, NEW j \in Key, writer'[j] = u
            PROVE  \/ j \in heldW'[u] \/ pc'[u] = "panic"
                   \/ pc'[u] \in {"drain"} \cup TakingA /\ key'[u] = j
        <4>1. writer[j] = u /\ j \notin heldW[t] BY Zenon, <3>1, <3>2, NoneAssumption
        <4>2. j \in heldW[u] => j \in heldW'[u] BY Zenon, <1>1, <3>1, <4>1
        <4> QED BY <2>2, <2>3, <4>1, <4>2 DEF OwnInv
      <3>3. ASSUME NEW u \in Txn, NEW j \in Key, u \in readers'[j]
            PROVE  j \in heldR'[u] \/ (pc'[u] = "awaitR" /\ key'[u] = j)
        <4>1. CASE j \in heldW[t]
          <5>1. pc[u] = "awaitR" /\ key[u] = j BY <3>1, <3>3, <4>1, Zenon
          <5> QED BY <2>2, <2>3, <5>1, Zenon
        <4>2. CASE j \notin heldW[t]
          <5>1. u \in readers[j] BY <3>1, <3>3, <4>2, Zenon
          <5> QED BY <2>2, <2>3, <3>1, <5>1 DEF OwnInv
        <4> QED BY Zenon, <4>1, <4>2
      <3> QED BY Zenon, <3>2, <3>3 DEF OwnInv
    <2>5. CASE RUnlockAll(t)
      <3>1. /\ heldR' = [heldR EXCEPT ![t] = {}] /\ UNCHANGED <<heldW, writer>>
            /\ \A j \in Key : readers'[j] = IF j \in heldR[t] THEN readers[j] \ {t} ELSE readers[j]
        BY <2>5, Zenon DEF RUnlockAll
      <3>2. ASSUME NEW u \in Txn, NEW j \in Key, writer'[j] = u
            PROVE  \/ j \in heldW'[u] \/ pc'[u] = "panic"
                   \/ pc'[u] \in {"drain"} \cup TakingA /\ key'[u] = j
        BY <2>2, <2>3, <3>1, <3>2 DEF OwnInv
      <3>3. ASSUME NEW u \in Txn, NEW j \in Key, u \in readers'[j]
            PROVE  j \in heldR'[u] \/ (pc'[u] = "awaitR" /\ key'[u] = j)
        <4>1. u \in readers[j] /\ (j \in heldR[t] => u # t) BY <3>1, <3>3, Zenon
        <4>2. j \in heldR[u] => j \in heldR'[u] BY Zenon, <1>1, <3>1, <4>1
        <4> QED BY Zenon, <2>2, <2>3, <4>1, <4>2 DEF OwnInv
      <3> QED BY Zenon, <3>2, <3>3 DEF OwnInv
    <2> QED BY Zenon, <1>11, <2>4, <2>5
  <1> QED BY <1>3, <1>4, <1>5, <1>6, <1>7, <1>8, <1>9, <1>10, <1>11, Zenon DEF Next, Proceed

(* A callback stands behind all that a transaction holds, and the mutexes  *)
(* count nobody else, in every state that lockSet can reach.               *)
THEOREM ReleaseInvariance == Spec => []ReleaseInv
  <1>1. Init => ReleaseInv
    <2> SUFFICES ASSUME Init PROVE ReleaseInv BY Zenon
    <2>1. PendingInv BY DEF Init, PendingInv, Pends
    <2>2. OwnInv BY Zenon, NoneAssumption DEF Init, OwnInv
    <2> QED BY Zenon, <2>1, <2>2 DEF ReleaseInv
  <1>2. IndInv /\ IndInv' /\ ReleaseInv /\ [Next]_vars => ReleaseInv'
    <2> SUFFICES ASSUME IndInv, IndInv', ReleaseInv, [Next]_vars PROVE ReleaseInv' BY Zenon
    <2>1. TypeOK /\ CountInv /\ KeyInv /\ CountInv' /\ PendingInv /\ OwnInv
      BY Zenon DEF IndInv, HoldInv, ReleaseInv
    <2>2. PendingInv' BY Zenon, <2>1, PendingStep
    <2>3. OwnInv' BY Zenon, <2>1, OwnStep
    <2> QED BY Zenon, <2>2, <2>3 DEF ReleaseInv
  <1> QED BY <1>1, <1>2, Invariance, PTL DEF Spec

(* Commit and Discard give up all that the transaction has taken, whatever *)
(* the order of its calls, even when Discard follows Commit: no held lock, *)
(* no share of a WaitGroup, no mutex of a collection.                      *)
THEOREM ClosedReleases == Spec => []ClosedHoldsNothing
  <1>1. IndInv /\ ReleaseInv => ClosedHoldsNothing
    <2> SUFFICES ASSUME IndInv, ReleaseInv, NEW t \in Txn, pc[t] \in {"committed", "discarded"}
                 PROVE  /\ heldW[t] = {} /\ heldR[t] = {}
                        /\ aGroup[t] = 0 /\ bGroup[t] = 0
                        /\ \A k \in Key : writer[k] # t /\ t \notin readers[k]
      BY Zenon DEF ClosedHoldsNothing
    <2>1. CountInv /\ Pends(t) /\ OwnInv BY Zenon DEF IndInv, ReleaseInv, PendingInv
    <2>2. \A i : ~ToRun(t, i) BY Zenon DEF ToRun, Closed
    <2>3. heldW[t] = {} /\ heldR[t] = {} BY Zenon, <2>1, <2>2 DEF Pends
    <2>4. aGroup[t] = 0 /\ bGroup[t] = 0
      <3>1. Unfired(fns[t], fired[t], "doneA") = {} /\ Unfired(fns[t], fired[t], "doneB") = {}
        BY Zenon, <2>1, <2>2 DEF Pends, Unfired
      <3>2. Cardinality({}) = 0 BY Zenon, FS_EmptySet
      <3> QED BY <2>1, <3>1, <3>2, Zenon DEF CountInv, Counted
    <2>5. \A k \in Key : writer[k] # t /\ t \notin readers[k]
      BY Zenon, <2>1, <2>3 DEF OwnInv, TakingA
    <2> QED BY Zenon, <2>3, <2>4, <2>5
  <1> QED BY <1>1, Invariance, ReleaseInvariance, PTL
=============================================================================
