--------------------------- MODULE LockSetProofs ---------------------------
(* Proofs about LockSet, for any number of transactions and collections.   *)
EXTENDS LockSet, FiniteSetTheorems, TLAPS

(* Callbacks that have not run are finitely many, so a share of a          *)
(* WaitGroup (abLock) is a natural number.                                 *)
LEMMA UnfiredFinite ==
    ASSUME NEW s \in Seq(Callback), NEW d, NEW fn
    PROVE  /\ IsFiniteSet(Unfired(s, d, fn))
           /\ Cardinality(Unfired(s, d, fn)) \in Nat
  <1>1. Len(s) \in Nat OBVIOUS
  <1>2. IsFiniteSet(1..Len(s)) BY <1>1, FS_Interval
  <1>3. Unfired(s, d, fn) \subseteq 1..Len(s) BY Zenon DEF Unfired
  <1>4. IsFiniteSet(Unfired(s, d, fn)) BY Zenon, <1>2, <1>3, FS_Subset
  <1> QED BY Zenon, <1>4, FS_CardinalityType

(* The shares of the WaitGroups are natural numbers.                       *)
LEMMA CountedTypes ==
    ASSUME NEW s, NEW d, NEW a, NEW b, NEW r, Counted(s, d, a, b, r)
    PROVE  a \in Nat /\ b \in Nat
  BY Zenon, UnfiredFinite DEF Counted

(* LockA and LockB add to the counter and register done; every other       *)
(* callback leaves the shares as they are.                                 *)
LEMMA CountedAppend ==
    ASSUME NEW s, NEW d, NEW a, NEW b, NEW r, Counted(s, d, a, b, r),
           NEW fn \in Callback
    PROVE  Counted(Append(s, fn), d,
                   IF fn = "doneA" THEN a + 1 ELSE a,
                   IF fn = "doneB" THEN b + 1 ELSE b, r)
  <1> DEFINE U(x) == Unfired(s, d, x)
  <1>1. /\ s \in Seq(Callback) /\ d \subseteq 1..Len(s)
        /\ a = Cardinality(U("doneA")) /\ b = Cardinality(U("doneB"))
        /\ r \in [next: Nat, last: Nat] /\ 0 < r.next /\ r.last <= Len(s)
    BY Zenon DEF Counted
  <1>2. /\ Append(s, fn) \in Seq(Callback) /\ Len(Append(s, fn)) = Len(s) + 1
        /\ Len(s) \in Nat
    BY <1>1
  <1>3. ASSUME NEW x
        PROVE  Cardinality(Unfired(Append(s, fn), d, x))
                 = IF fn = x THEN Cardinality(U(x)) + 1 ELSE Cardinality(U(x))
    <2>1. IsFiniteSet(U(x)) BY Zenon, <1>1, UnfiredFinite
    <2>2. Len(s) + 1 \notin U(x) BY <1>2 DEF Unfired
    <2>3. Cardinality(U(x) \cup {Len(s) + 1}) = Cardinality(U(x)) + 1
      BY Zenon, <2>1, <2>2, FS_AddElement
    <2>4. /\ fn = x => Unfired(Append(s, fn), d, x) = U(x) \cup {Len(s) + 1}
          /\ fn # x => Unfired(Append(s, fn), d, x) = U(x)
      <3>1. /\ Len(Append(s, fn)) = Len(s) + 1
            /\ \A i \in 1..Len(s) : Append(s, fn)[i] = s[i]
            /\ Append(s, fn)[Len(s) + 1] = fn
        BY <1>1
      <3>2. Len(s) + 1 \notin d BY <1>1, <1>2
      <3> QED BY <1>2, <3>1, <3>2 DEF Unfired
    <2> HIDE DEF U
    <2>5. CASE fn = x BY <2>3, <2>4, <2>5, Zenon
    <2>6. CASE fn # x BY Zenon, <2>4, <2>6
    <2> QED BY Zenon, <2>5, <2>6
  <1>4. d \subseteq 1..Len(Append(s, fn)) BY <1>1, <1>2
  <1>5. r.last <= Len(Append(s, fn)) BY <1>1, <1>2
  <1>6. (IF fn = "doneA" THEN a + 1 ELSE a) = Cardinality(Unfired(Append(s, fn), d, "doneA"))
    BY Zenon, <1>1, <1>3
  <1>7. (IF fn = "doneB" THEN b + 1 ELSE b) = Cardinality(Unfired(Append(s, fn), d, "doneB"))
    BY Zenon, <1>1, <1>3
  <1> QED BY Zenon, <1>1, <1>2, <1>4, <1>5, <1>6, <1>7 DEF Counted

(* Commit and Discard move through the list.                               *)
LEMMA CountedRun ==
    ASSUME NEW s, NEW d, NEW a, NEW b, NEW r, Counted(s, d, a, b, r),
           NEW q \in [next: Nat, last: Nat], 0 < q.next, q.last <= Len(s)
    PROVE  Counted(s, d, a, b, q)
  BY Zenon DEF Counted

(* done of LockA and LockB gives back one, and only the first time         *)
(* (sync.Once), even if the transaction is discarded after its commit.     *)
LEMMA CountedDone ==
    ASSUME NEW s, NEW d, NEW a, NEW b, NEW r, Counted(s, d, a, b, r),
           r.next <= r.last, NEW fn \in {"doneA", "doneB"}, s[r.next] = fn
    PROVE  Counted(s, d \cup {r.next},
                   IF fn = "doneA" /\ r.next \notin d THEN a - 1 ELSE a,
                   IF fn = "doneB" /\ r.next \notin d THEN b - 1 ELSE b,
                   [r EXCEPT !.next = @ + 1])
  <1> DEFINE U(x) == Unfired(s, d, x)
             i == r.next
             V(x) == Unfired(s, d \cup {i}, x)
  <1>1. /\ s \in Seq(Callback) /\ d \subseteq 1..Len(s)
        /\ a = Cardinality(U("doneA")) /\ b = Cardinality(U("doneB"))
        /\ r \in [next: Nat, last: Nat] /\ 0 < i /\ r.last <= Len(s)
    BY Zenon DEF Counted
  <1>2. i \in 1..Len(s) /\ s[i] = fn BY <1>1
  <1>3. V(fn) = U(fn) \ {i} BY Zenon DEF Unfired
  <1>4. \A x : x # fn => V(x) = U(x) BY Zenon, <1>2 DEF Unfired
  <1>5. i \notin d => i \in U(fn) BY Zenon, <1>2 DEF Unfired
  <1>6. i \in d => i \notin U(fn) BY Zenon DEF Unfired
  <1>7. IsFiniteSet(U(fn)) BY Zenon, <1>1, UnfiredFinite
  <1>8. CASE i \in d
    <2>1. V(fn) = U(fn) BY Zenon, <1>3, <1>6, <1>8
    <2>2. V("doneA") = U("doneA") /\ V("doneB") = U("doneB") BY <2>1, <1>4, Zenon
    <2>3. d \cup {i} \subseteq 1..Len(s) BY <1>1, <1>2, Zenon
    <2>4. /\ [r EXCEPT !.next = @ + 1] \in [next: Nat, last: Nat]
          /\ [r EXCEPT !.next = @ + 1].next = i + 1
          /\ [r EXCEPT !.next = @ + 1].last = r.last
      BY <1>1
    <2> QED BY <1>1, <1>8, <2>2, <2>3, <2>4 DEF Counted
  <1>9. CASE i \notin d
    <2>1. Cardinality(V(fn)) = Cardinality(U(fn)) - 1
      BY <1>3, <1>5, <1>7, <1>9, FS_RemoveElement, Zenon
    <2>2. d \cup {i} \subseteq 1..Len(s) BY <1>1, <1>2, Zenon
    <2>3. /\ [r EXCEPT !.next = @ + 1] \in [next: Nat, last: Nat]
          /\ [r EXCEPT !.next = @ + 1].next = i + 1
          /\ [r EXCEPT !.next = @ + 1].last = r.last
      BY <1>1
    <2>4. CASE fn = "doneA"
      <3>1. V("doneB") = U("doneB") BY <1>4, <2>4, Zenon
      <3> QED BY <1>1, <1>9, <2>1, <2>2, <2>3, <2>4, <3>1 DEF Counted
    <2>5. CASE fn = "doneB"
      <3>1. V("doneA") = U("doneA") BY Zenon, <1>4, <2>5
      <3> QED BY <1>1, <1>9, <2>1, <2>2, <2>3, <2>5, <3>1 DEF Counted
    <2> QED BY Zenon, <2>4, <2>5
  <1> QED BY Zenon, <1>8, <1>9

(* Lists of callbacks that one call registers.                             *)
LEMMA CountedConcat ==
    ASSUME NEW s, NEW d, NEW a, NEW b, NEW r, Counted(s, d, a, b, r),
           NEW e, e = <<>> \/ \E fn \in Callback \ {"doneA", "doneB"} : e = <<fn>>
    PROVE  Counted(s \o e, d, a, b, r)
  <1>1. s \in Seq(Callback) BY Zenon DEF Counted
  <1>2. CASE e = <<>>
    <2>1. s \o e = s BY <1>1, <1>2
    <2> QED BY Zenon, <2>1
  <1>3. ASSUME NEW fn \in Callback \ {"doneA", "doneB"}, e = <<fn>>
        PROVE  Counted(s \o e, d, a, b, r)
    <2>1. s \o e = Append(s, fn) BY <1>1, <1>3
    <2>2. Counted(Append(s, fn), d, IF fn = "doneA" THEN a + 1 ELSE a,
                  IF fn = "doneB" THEN b + 1 ELSE b, r)
      BY CountedAppend, Zenon
    <2>3. fn # "doneA" /\ fn # "doneB" BY Zenon
    <2>4. Counted(Append(s, fn), d, a, b, r) BY Zenon, <2>2, <2>3
    <2> QED BY Zenon, <2>1, <2>4
  <1> QED BY Zenon, <1>2, <1>3

(* getLock registers at most deleteMutex, and the call one unlock more.    *)
LEMMA GetLockCounted ==
    ASSUME CountInv, NEW t \in Txn, NEW then, GetLock(t, then),
           then = <<>> \/ \E fn \in Callback \ {"doneA", "doneB"} : then = <<fn>>
    PROVE  /\ fns' = [fns EXCEPT ![t] = fns'[t]]
           /\ Counted(fns'[t], fired[t], aGroup[t], bGroup[t], run[t])
  <1> DEFINE s == IF t \in mutexes THEN fns[t] ELSE Append(fns[t], "deleteMutex")
             C(q) == Counted(q, fired[t], aGroup[t], bGroup[t], run[t])
  <1>1. C(fns[t]) /\ fns \in [Txn -> Seq(Callback)] BY Zenon DEF CountInv
  <1>2. C(Append(fns[t], "deleteMutex"))
    <2>1. "deleteMutex" \in Callback /\ "deleteMutex" # "doneA" /\ "deleteMutex" # "doneB"
      BY Zenon DEF Callback
    <2>2. Counted(Append(fns[t], "deleteMutex"), fired[t],
                  IF "deleteMutex" = "doneA" THEN aGroup[t] + 1 ELSE aGroup[t],
                  IF "deleteMutex" = "doneB" THEN bGroup[t] + 1 ELSE bGroup[t], run[t])
      BY <1>1, <2>1, CountedAppend, Zenon
    <2> QED BY Zenon, <2>1, <2>2
  <1>3. C(s) BY Zenon, <1>1, <1>2
  <1>4. fns' = [fns EXCEPT ![t] = s \o then] BY Zenon DEF GetLock
  <1>5. fns'[t] = s \o then BY Zenon, <1>1, <1>4
  <1>6. C(s \o then)
    <2> HIDE DEF s
    <2> QED BY <1>3, CountedConcat, Zenon
  <1> QED BY <1>4, <1>5, <1>6, Zenon

(* The callbacks, shares and positions of one transaction change.          *)
LEMMA OneMoves ==
    ASSUME CountInv, NEW t \in Txn,
           Counted(fns'[t], fired'[t], aGroup'[t], bGroup'[t], run'[t]),
           fns' = [fns EXCEPT ![t] = fns'[t]],
           fired' = [fired EXCEPT ![t] = fired'[t]],
           aGroup' = [aGroup EXCEPT ![t] = aGroup'[t]],
           bGroup' = [bGroup EXCEPT ![t] = bGroup'[t]],
           run' = [run EXCEPT ![t] = run'[t]]
    PROVE  CountInv'
  <1>1. /\ fns'[t] \in Seq(Callback) /\ fired'[t] \in SUBSET Nat
        /\ run'[t] \in [next: Nat, last: Nat]
    BY DEF Counted
  <1>2. aGroup'[t] \in Int /\ bGroup'[t] \in Int BY CountedTypes
  <1>3. ASSUME NEW u \in Txn
        PROVE  Counted(fns'[u], fired'[u], aGroup'[u], bGroup'[u], run'[u])
    <2>1. CASE u = t BY Zenon, <2>1
    <2>2. CASE u # t
      <3>1. /\ fns'[u] = fns[u] /\ fired'[u] = fired[u] /\ run'[u] = run[u]
            /\ aGroup'[u] = aGroup[u] /\ bGroup'[u] = bGroup[u]
        BY Zenon, <2>2 DEF CountInv
      <3>2. Counted(fns[u], fired[u], aGroup[u], bGroup[u], run[u]) BY Zenon DEF CountInv
      <3> QED BY Zenon, <3>1, <3>2
    <2> QED BY Zenon, <2>1, <2>2
  <1>4. /\ aGroup' \in [Txn -> Int] /\ bGroup' \in [Txn -> Int]
        /\ fns' \in [Txn -> Seq(Callback)]
        /\ fired' \in [Txn -> SUBSET Nat]
        /\ run' \in [Txn -> [next: Nat, last: Nat]]
    BY <1>1, <1>2, Zenon DEF CountInv
  <1> QED BY Zenon, <1>3, <1>4 DEF CountInv

(* A call of CollectionLock or CollectionRLock, up to where it may block.  *)
LEMMA CallCounts ==
    ASSUME CountInv, NEW t \in Txn, NEW then, GetLock(t, then),
           then = <<>> \/ \E fn \in Callback \ {"doneA", "doneB"} : then = <<fn>>,
           UNCHANGED <<aGroup, bGroup, fired, run>>
    PROVE  CountInv'
  <1>1. /\ fns' = [fns EXCEPT ![t] = fns'[t]]
        /\ Counted(fns'[t], fired[t], aGroup[t], bGroup[t], run[t])
    BY GetLockCounted, Zenon
  <1>2. /\ fired' = [fired EXCEPT ![t] = fired'[t]]
        /\ aGroup' = [aGroup EXCEPT ![t] = aGroup'[t]]
        /\ bGroup' = [bGroup EXCEPT ![t] = bGroup'[t]]
        /\ run' = [run EXCEPT ![t] = run'[t]]
    BY Zenon DEF CountInv
  <1>3. Counted(fns'[t], fired'[t], aGroup'[t], bGroup'[t], run'[t]) BY Zenon, <1>1
  <1> QED BY <1>1, <1>2, <1>3, OneMoves, Zenon

(* A callback that is not done of LockA or LockB returns.                  *)
LEMMA CallbackCounts ==
    ASSUME CountInv, NEW t \in Txn, NEW fn, Running(t, fn),
           run' = [run EXCEPT ![t].next = @ + 1],
           fns' = [fns EXCEPT ![t] = fns'[t]],
           Counted(fns'[t], fired[t], aGroup[t], bGroup[t], run[t]),
           UNCHANGED <<aGroup, bGroup, fired>>
    PROVE  CountInv'
  <1>1. run \in [Txn -> [next: Nat, last: Nat]] BY Zenon DEF CountInv
  <1>2. /\ run' = [run EXCEPT ![t] = run'[t]]
        /\ run'[t] \in [next: Nat, last: Nat]
        /\ run'[t].next = run[t].next + 1 /\ run'[t].last = run[t].last
    BY <1>1
  <1>3. 0 < run[t].next /\ run[t].last <= Len(fns'[t]) BY Zenon DEF Counted
  <1>4. run[t].next \in Nat BY Zenon, <1>1
  <1>5. 0 < run'[t].next /\ run'[t].last <= Len(fns'[t]) BY <1>2, <1>3, <1>4
  <1>6. Counted(fns'[t], fired[t], aGroup[t], bGroup[t], run'[t])
    BY Zenon, <1>2, <1>5, CountedRun
  <1>7. /\ fired' = [fired EXCEPT ![t] = fired'[t]]
        /\ aGroup' = [aGroup EXCEPT ![t] = aGroup'[t]]
        /\ bGroup' = [bGroup EXCEPT ![t] = bGroup'[t]]
    BY Zenon DEF CountInv
  <1>8. Counted(fns'[t], fired'[t], aGroup'[t], bGroup'[t], run'[t]) BY Zenon, <1>6
  <1> QED BY <1>2, <1>7, <1>8, OneMoves, Zenon

(* LockA and LockB raise the counter and register its release.             *)
LEMMA AddCounts ==
    ASSUME CountInv, NEW t \in Txn, NEW fn \in {"doneA", "doneB"},
           fns' = [fns EXCEPT ![t] = Append(@, fn)],
           aGroup' = [aGroup EXCEPT ![t] = IF fn = "doneA" THEN @ + 1 ELSE @],
           bGroup' = [bGroup EXCEPT ![t] = IF fn = "doneB" THEN @ + 1 ELSE @],
           UNCHANGED <<fired, run>>
    PROVE  CountInv'
  <1>1. /\ fns'[t] = Append(fns[t], fn)
        /\ aGroup'[t] = IF fn = "doneA" THEN aGroup[t] + 1 ELSE aGroup[t]
        /\ bGroup'[t] = IF fn = "doneB" THEN bGroup[t] + 1 ELSE bGroup[t]
        /\ fns' = [fns EXCEPT ![t] = fns'[t]]
        /\ fired' = [fired EXCEPT ![t] = fired'[t]]
        /\ aGroup' = [aGroup EXCEPT ![t] = aGroup'[t]]
        /\ bGroup' = [bGroup EXCEPT ![t] = bGroup'[t]]
        /\ run' = [run EXCEPT ![t] = run'[t]]
        /\ fired'[t] = fired[t] /\ run'[t] = run[t]
    BY Zenon DEF CountInv
  <1>2. Counted(fns[t], fired[t], aGroup[t], bGroup[t], run[t]) BY Zenon DEF CountInv
  <1>3. fn \in Callback BY Zenon DEF Callback
  <1>4. Counted(Append(fns[t], fn), fired[t],
                IF fn = "doneA" THEN aGroup[t] + 1 ELSE aGroup[t],
                IF fn = "doneB" THEN bGroup[t] + 1 ELSE bGroup[t], run[t])
    BY <1>2, <1>3, CountedAppend, Zenon
  <1>5. Counted(fns'[t], fired'[t], aGroup'[t], bGroup'[t], run'[t])
    BY <1>1, <1>4, Zenon
  <1> QED BY <1>1, <1>5, OneMoves, Zenon

(* done of LockA and LockB runs in Commit or Discard.                      *)
LEMMA DoneCounts ==
    ASSUME CountInv, NEW t \in Txn, NEW fn \in {"doneA", "doneB"}, Running(t, fn),
           aGroup' = [aGroup EXCEPT ![t] =
                        IF fn = "doneA" /\ run[t].next \notin fired[t] THEN @ - 1 ELSE @],
           bGroup' = [bGroup EXCEPT ![t] =
                        IF fn = "doneB" /\ run[t].next \notin fired[t] THEN @ - 1 ELSE @],
           fired' = [fired EXCEPT ![t] = @ \cup {run[t].next}],
           run' = [run EXCEPT ![t].next = @ + 1],
           UNCHANGED fns
    PROVE  CountInv'
  <1>1. /\ aGroup'[t] = IF fn = "doneA" /\ run[t].next \notin fired[t]
                          THEN aGroup[t] - 1 ELSE aGroup[t]
        /\ bGroup'[t] = IF fn = "doneB" /\ run[t].next \notin fired[t]
                          THEN bGroup[t] - 1 ELSE bGroup[t]
        /\ fired'[t] = fired[t] \cup {run[t].next}
        /\ run'[t] = [run[t] EXCEPT !.next = @ + 1]
        /\ fns'[t] = fns[t]
        /\ fns' = [fns EXCEPT ![t] = fns'[t]]
        /\ fired' = [fired EXCEPT ![t] = fired'[t]]
        /\ aGroup' = [aGroup EXCEPT ![t] = aGroup'[t]]
        /\ bGroup' = [bGroup EXCEPT ![t] = bGroup'[t]]
        /\ run' = [run EXCEPT ![t] = run'[t]]
    BY Zenon DEF CountInv
  <1>2. Counted(fns[t], fired[t], aGroup[t], bGroup[t], run[t]) BY Zenon DEF CountInv
  <1>3. run[t].next <= run[t].last /\ fns[t][run[t].next] = fn BY Zenon DEF Running
  <1>4. Counted(fns[t], fired[t] \cup {run[t].next},
                IF fn = "doneA" /\ run[t].next \notin fired[t] THEN aGroup[t] - 1 ELSE aGroup[t],
                IF fn = "doneB" /\ run[t].next \notin fired[t] THEN bGroup[t] - 1 ELSE bGroup[t],
                [run[t] EXCEPT !.next = @ + 1])
    BY <1>2, <1>3, CountedDone, Zenon
  <1>5. Counted(fns'[t], fired'[t], aGroup'[t], bGroup'[t], run'[t])
    BY <1>1, <1>4, Zenon
  <1> QED BY <1>1, <1>5, OneMoves, Zenon

(* Noting a lock registers at most one callback, never a Done.             *)
LEMMA OnceShape ==
    ASSUME NEW t, NEW fn \in Callback \ {"doneA", "doneB"}
    PROVE  Once(t, fn) = <<>> \/ \E g \in Callback \ {"doneA", "doneB"} : Once(t, fn) = <<g>>
  BY Zenon DEF Once

(* A lock that was waited for is noted, and its release registered.        *)
LEMMA HoldCounts ==
    ASSUME CountInv, NEW t \in Txn, NEW fn \in Callback \ {"doneA", "doneB"},
           fns' = [fns EXCEPT ![t] = @ \o Once(t, fn)],
           UNCHANGED <<aGroup, bGroup, fired, run>>
    PROVE  CountInv'
  <1>1. /\ fns'[t] = fns[t] \o Once(t, fn)
        /\ fns' = [fns EXCEPT ![t] = fns'[t]]
        /\ fired' = [fired EXCEPT ![t] = fired'[t]]
        /\ aGroup' = [aGroup EXCEPT ![t] = aGroup'[t]]
        /\ bGroup' = [bGroup EXCEPT ![t] = bGroup'[t]]
        /\ run' = [run EXCEPT ![t] = run'[t]]
    BY Zenon DEF CountInv
  <1>2. Counted(fns[t], fired[t], aGroup[t], bGroup[t], run[t]) BY Zenon DEF CountInv
  <1>3. Once(t, fn) = <<>> \/ \E g \in Callback \ {"doneA", "doneB"} : Once(t, fn) = <<g>>
    BY Zenon, OnceShape
  <1>4. Counted(fns[t] \o Once(t, fn), fired[t], aGroup[t], bGroup[t], run[t])
    BY <1>2, <1>3, CountedConcat, Zenon
  <1>5. Counted(fns'[t], fired'[t], aGroup'[t], bGroup'[t], run'[t])
    BY <1>1, <1>4, Zenon
  <1> QED BY <1>1, <1>5, OneMoves, Zenon

(* Commit and Discard only schedule callbacks: the shares stay.            *)
LEMMA CloseCounts ==
    ASSUME CountInv, NEW t \in Txn, NEW to, Close(t, to)
    PROVE  CountInv'
  <1>1. /\ run'[t] = [next |-> 1, last |-> Len(fns[t])]
        /\ run' = [run EXCEPT ![t] = run'[t]]
        /\ fns'[t] = fns[t] /\ fired'[t] = fired[t]
        /\ aGroup'[t] = aGroup[t] /\ bGroup'[t] = bGroup[t]
        /\ fns' = [fns EXCEPT ![t] = fns'[t]]
        /\ fired' = [fired EXCEPT ![t] = fired'[t]]
        /\ aGroup' = [aGroup EXCEPT ![t] = aGroup'[t]]
        /\ bGroup' = [bGroup EXCEPT ![t] = bGroup'[t]]
    BY Zenon DEF CountInv, Close, locks, groups, counts
  <1>2. Counted(fns[t], fired[t], aGroup[t], bGroup[t], run[t]) BY Zenon DEF CountInv
  <1>3. Len(fns[t]) \in Nat BY DEF CountInv
  <1>4. /\ run'[t] \in [next: Nat, last: Nat]
        /\ 0 < run'[t].next /\ run'[t].last <= Len(fns[t])
    BY <1>1, <1>3
  <1>5. Counted(fns[t], fired[t], aGroup[t], bGroup[t], run'[t])
    BY Zenon, <1>2, <1>4, CountedRun
  <1>6. Counted(fns'[t], fired'[t], aGroup'[t], bGroup'[t], run'[t])
    BY Zenon, <1>1, <1>5
  <1> QED BY <1>1, <1>6, OneMoves, Zenon

countVars == <<fns, fired, aGroup, bGroup, run>>

(* Every step keeps the books: what a transaction has added to a WaitGroup *)
(* is what its callbacks have still to give back.                          *)
LEMMA CountStep ==
    ASSUME CountInv, [Next]_vars
    PROVE  CountInv'
  <1>1. ASSUME UNCHANGED countVars PROVE CountInv'
    BY Zenon, <1>1 DEF CountInv, countVars
  <1>2. CASE UNCHANGED vars
    BY Zenon, <1>1, <1>2 DEF vars, groups, countVars
  <1>3. ASSUME NEW t \in Txn, NEW k \in Key, CollectionLock(t, k) PROVE CountInv'
    <2>1. GetLock(t, <<>>) /\ UNCHANGED <<aGroup, bGroup, fired, run>>
      BY Zenon, <1>3 DEF CollectionLock, groups
    <2> QED BY <2>1, CallCounts, Zenon
  <1>4. ASSUME NEW t \in Txn, NEW k \in Key, CollectionRLock(t, k) PROVE CountInv'
    <2>1. UNCHANGED <<aGroup, bGroup, fired, run>> BY Zenon, <1>4 DEF CollectionRLock, groups
    <2>2. GetLock(t, <<>>) \/ GetLock(t, Once(t, "rUnlockAll"))
      BY Zenon, <1>4 DEF CollectionRLock
    <2>3. CASE GetLock(t, <<>>) BY <2>1, <2>3, CallCounts, Zenon
    <2>4. CASE GetLock(t, Once(t, "rUnlockAll"))
      <3>1. "rUnlockAll" \in Callback \ {"doneA", "doneB"} BY Zenon DEF Callback
      <3>2. \/ Once(t, "rUnlockAll") = <<>>
            \/ \E g \in Callback \ {"doneA", "doneB"} : Once(t, "rUnlockAll") = <<g>>
        BY <3>1, OnceShape, Zenon
      <3> QED BY <2>1, <2>4, <3>2, CallCounts, Zenon
    <2> QED BY Zenon, <2>2, <2>3, <2>4
  <1>5. ASSUME NEW t \in Txn, TakeWriter(t) \/ WaitB(t) \/ ReturnB(t) \/ CloseEmpty(t)
        PROVE  CountInv'
    BY Zenon, <1>1, <1>5 DEF TakeWriter, WaitB, ReturnB, CloseEmpty, groups, countVars
  <1>6. ASSUME NEW t \in Txn, LockA(t) PROVE CountInv'
    <2>1. /\ fns' = [fns EXCEPT ![t] = Append(@, "doneA")]
          /\ aGroup' = [aGroup EXCEPT ![t] = IF "doneA" = "doneA" THEN @ + 1 ELSE @]
          /\ bGroup' = [bGroup EXCEPT ![t] = IF "doneA" = "doneB" THEN @ + 1 ELSE @]
          /\ UNCHANGED <<fired, run>>
      BY Zenon, <1>6 DEF LockA, CountInv
    <2> QED BY <2>1, AddCounts, Zenon
  <1>7. ASSUME NEW t \in Txn, RLockAll(t) PROVE CountInv'
    <2>1. /\ fns' = [fns EXCEPT ![t] = Append(@, "doneB")]
          /\ aGroup' = [aGroup EXCEPT ![t] = IF "doneB" = "doneA" THEN @ + 1 ELSE @]
          /\ bGroup' = [bGroup EXCEPT ![t] = IF "doneB" = "doneB" THEN @ + 1 ELSE @]
          /\ UNCHANGED <<fired, run>>
      BY Zenon, <1>7 DEF RLockAll, CountInv
    <2> QED BY <2>1, AddCounts, Zenon
  <1>8. ASSUME NEW t \in Txn, WaitA(t) \/ ReturnA(t) PROVE CountInv'
    <2>1. UNCHANGED <<aGroup, bGroup, fired, run>> BY Zenon, <1>8 DEF WaitA, ReturnA, groups
    <2>2. fns' = [fns EXCEPT ![t] = @ \o Once(t, "unlockAll")] \/ UNCHANGED fns
      BY Zenon, <1>8 DEF WaitA, ReturnA, HoldWrite
    <2>3. CASE UNCHANGED fns BY Zenon, <1>1, <2>1, <2>3 DEF countVars
    <2>4. CASE fns' = [fns EXCEPT ![t] = @ \o Once(t, "unlockAll")]
      <3>1. "unlockAll" \in Callback \ {"doneA", "doneB"} BY Zenon DEF Callback
      <3> QED BY <2>1, <2>4, <3>1, HoldCounts, Zenon
    <2> QED BY Zenon, <2>2, <2>3, <2>4
  <1>9. ASSUME NEW t \in Txn, AwaitRead(t) PROVE CountInv'
    <2>1. /\ fns' = [fns EXCEPT ![t] = @ \o Once(t, "rUnlockAll")]
          /\ UNCHANGED <<aGroup, bGroup, fired, run>>
      BY Zenon, <1>9 DEF AwaitRead, groups
    <2>2. "rUnlockAll" \in Callback \ {"doneA", "doneB"} BY Zenon DEF Callback
    <2> QED BY <2>1, <2>2, HoldCounts, Zenon
  <1>10. ASSUME NEW t \in Txn, Commit(t) \/ Discard(t) PROVE CountInv'
    BY <1>10, CloseCounts, Zenon DEF Commit, Discard
  <1>11. ASSUME NEW t \in Txn, DeleteMutex(t) PROVE CountInv'
    <2>1. /\ Running(t, "deleteMutex")
          /\ run' = [run EXCEPT ![t].next = @ + 1]
          /\ UNCHANGED <<fns, aGroup, bGroup, fired>>
      BY <1>11, Zenon DEF DeleteMutex, CallbackDone, groups
    <2>2. fns' = [fns EXCEPT ![t] = fns'[t]] BY Zenon, <2>1 DEF CountInv
    <2>3. Counted(fns'[t], fired[t], aGroup[t], bGroup[t], run[t]) BY Zenon, <2>1 DEF CountInv
    <2>4. UNCHANGED <<aGroup, bGroup, fired>> BY Zenon, <2>1
    <2> QED BY <2>1, <2>2, <2>3, <2>4, CallbackCounts, Zenon
  <1>12. ASSUME NEW t \in Txn, DoneA(t) PROVE CountInv'
    <2>1. /\ Running(t, "doneA")
          /\ aGroup' = [aGroup EXCEPT ![t] =
                 IF "doneA" = "doneA" /\ run[t].next \notin fired[t] THEN @ - 1 ELSE @]
          /\ bGroup' = [bGroup EXCEPT ![t] =
                 IF "doneA" = "doneB" /\ run[t].next \notin fired[t] THEN @ - 1 ELSE @]
          /\ fired' = [fired EXCEPT ![t] = @ \cup {run[t].next}]
          /\ run' = [run EXCEPT ![t].next = @ + 1]
          /\ UNCHANGED fns
      BY <1>12, Zenon DEF DoneA, Done, CallbackDone, CountInv
    <2> QED BY <2>1, DoneCounts, Zenon
  <1>13. ASSUME NEW t \in Txn, DoneB(t) PROVE CountInv'
    <2>1. /\ Running(t, "doneB")
          /\ aGroup' = [aGroup EXCEPT ![t] =
                 IF "doneB" = "doneA" /\ run[t].next \notin fired[t] THEN @ - 1 ELSE @]
          /\ bGroup' = [bGroup EXCEPT ![t] =
                 IF "doneB" = "doneB" /\ run[t].next \notin fired[t] THEN @ - 1 ELSE @]
          /\ fired' = [fired EXCEPT ![t] = @ \cup {run[t].next}]
          /\ run' = [run EXCEPT ![t].next = @ + 1]
          /\ UNCHANGED fns
      BY <1>13, Zenon DEF DoneB, Done, CallbackDone, CountInv
    <2> QED BY <2>1, DoneCounts, Zenon
  <1>14. ASSUME NEW t \in Txn, UnlockAll(t) \/ RUnlockAll(t) PROVE CountInv'
    <2>1. PICK fn : Running(t, fn) BY <1>14, Zenon DEF UnlockAll, RUnlockAll
    <2>2. /\ GetLock(t, <<>>)
          /\ run' = [run EXCEPT ![t].next = @ + 1]
          /\ UNCHANGED <<aGroup, bGroup, fired>>
      BY <1>14, Zenon DEF UnlockAll, RUnlockAll, CallbackDone, groups
    <2>3. /\ fns' = [fns EXCEPT ![t] = fns'[t]]
          /\ Counted(fns'[t], fired[t], aGroup[t], bGroup[t], run[t])
      BY <2>2, GetLockCounted, Zenon
    <2> QED BY <2>1, <2>2, <2>3, CallbackCounts, Zenon
  <1> QED BY <1>2, <1>3, <1>4, <1>5, <1>6, <1>7, <1>8, <1>9, <1>10, <1>11, <1>12, <1>13,
             <1>14, Zenon DEF Next, Proceed

(* An update of one entry keeps the type of a function.                    *)
LEMMA UpdateType ==
    ASSUME NEW A, NEW B, NEW f \in [A -> B], NEW x \in A, NEW y \in B
    PROVE  [f EXCEPT ![x] = y] \in [A -> B]
  BY Zenon

(* Types, given the counts.                                                *)
LEMMA TypeStep ==
    ASSUME TypeOK, HoldInv, CountInv', [Next]_vars
    PROVE  TypeOK'
  <1>1. /\ aGroup' \in [Txn -> Nat] /\ bGroup' \in [Txn -> Nat]
    BY Zenon, CountedTypes DEF CountInv
  <1>2. /\ fns' \in [Txn -> Seq(Callback)] /\ fired' \in [Txn -> SUBSET Nat]
        /\ run' \in [Txn -> [next: Nat, last: Nat]]
    BY Zenon DEF CountInv
  <1> DEFINE Rest == /\ writer' \in [Key -> Txn \cup {NoTxn}]
                     /\ readers' \in [Key -> SUBSET Txn]
                     /\ heldW' \in [Txn -> SUBSET Key] /\ heldR' \in [Txn -> SUBSET Key]
                     /\ mutexes' \subseteq Txn
                     /\ pc' \in [Txn -> Pc]
                     /\ key' \in [Txn -> Key \cup {NoKey}]
                     /\ calls' \in [Txn -> Nat] /\ alls' \in [Txn -> Nat]
  <1>a. /\ writer \in [Key -> Txn \cup {NoTxn}]
        /\ readers \in [Key -> SUBSET Txn]
        /\ heldW \in [Txn -> SUBSET Key] /\ heldR \in [Txn -> SUBSET Key]
        /\ mutexes \subseteq Txn
        /\ pc \in [Txn -> Pc]
        /\ key \in [Txn -> Key \cup {NoKey}]
        /\ calls \in [Txn -> Nat] /\ alls \in [Txn -> Nat]
    BY Zenon DEF TypeOK
  <1> USE DEF locks, counts
  <1>3. CASE UNCHANGED vars BY Zenon, <1>3 DEF vars, groups, TypeOK
  <1>4. ASSUME NEW t \in Txn, NEW k \in Key, CollectionLock(t, k) PROVE Rest
    <2>1. /\ mutexes' \subseteq Txn /\ calls' \in [Txn -> Nat]
          /\ UNCHANGED <<writer, heldW, alls>>
      BY <1>a, <1>4 DEF CollectionLock, Calling, GetLock
    <2>2. \/ UNCHANGED <<readers, heldR, pc, key>>
          \/ Promote(t, k) /\ Goto(t, "awaitW") /\ key' = [key EXCEPT ![t] = k]
      BY Zenon, <1>a, <1>4 DEF CollectionLock
    <2>3. readers' \in [Key -> SUBSET Txn] /\ heldR' \in [Txn -> SUBSET Key]
      <3>1. \/ UNCHANGED <<readers, heldR>>
            \/ /\ heldR' = [heldR EXCEPT ![t] = heldR[t] \ {k}]
               /\ readers' = [readers EXCEPT ![k] = readers'[k]]
               /\ readers'[k] = readers[k] \/ readers'[k] = readers[k] \ {t}
        BY Zenon, <1>a, <2>2 DEF Promote
      <3>2. CASE UNCHANGED <<readers, heldR>> BY Zenon, <1>a, <3>2
      <3>3. CASE ~UNCHANGED <<readers, heldR>>
        <4>1. heldR[t] \ {k} \in SUBSET Key /\ readers'[k] \in SUBSET Txn BY Zenon, <1>a, <3>1, <3>3
        <4>2. [heldR EXCEPT ![t] = heldR[t] \ {k}] \in [Txn -> SUBSET Key]
          BY Zenon, <1>a, <4>1, UpdateType
        <4>3. [readers EXCEPT ![k] = readers'[k]] \in [Key -> SUBSET Txn]
          BY Zenon, <1>a, <4>1, UpdateType
        <4> QED BY <1>a, <3>1, <3>3, <4>2, <4>3, Zenon
      <3> QED BY <1>a, <3>2, <3>3, Zenon
    <2>4. pc' \in [Txn -> Pc] BY <1>a, <2>2, Zenon DEF Goto, Pc
    <2>5. key' \in [Txn -> Key \cup {NoKey}] BY <1>a, <2>2, Zenon
    <2> QED BY Zenon, <1>a, <2>1, <2>3, <2>4, <2>5
  <1>5. ASSUME NEW t \in Txn, NEW k \in Key, CollectionRLock(t, k) PROVE Rest
    <2>1. /\ mutexes' \subseteq Txn /\ calls' \in [Txn -> Nat]
          /\ UNCHANGED <<writer, heldW, alls>>
      <3>1. calls' = [calls EXCEPT ![t] = @ + 1] /\ UNCHANGED <<writer, heldW, alls>>
        BY Zenon, <1>5 DEF CollectionRLock, Calling
      <3>2. mutexes' = mutexes \cup {t} BY Zenon, <1>5 DEF CollectionRLock, GetLock
      <3> QED BY <1>a, <3>1, <3>2
    <2>2. /\ UNCHANGED readers \/ readers' = [readers EXCEPT ![k] = @ \cup {t}]
          /\ UNCHANGED heldR \/ heldR' = [heldR EXCEPT ![t] = @ \cup {k}]
          /\ UNCHANGED pc \/ Goto(t, "idle") \/ Goto(t, "awaitR")
          /\ \/ UNCHANGED key
             \/ key' = [key EXCEPT ![t] = k] \/ key' = [key EXCEPT ![t] = NoKey]
      BY Zenon, <1>a, <1>5 DEF CollectionRLock, HoldRead
    <2>3. readers' \in [Key -> SUBSET Txn]
      <3>1. readers[k] \cup {t} \in SUBSET Txn BY Zenon, <1>a
      <3>2. [readers EXCEPT ![k] = readers[k] \cup {t}] \in [Key -> SUBSET Txn]
        BY Zenon, <1>a, <3>1, UpdateType
      <3> QED BY <1>a, <2>2, <3>2, Zenon
    <2>4. heldR' \in [Txn -> SUBSET Key]
      <3>1. heldR[t] \cup {k} \in SUBSET Key BY Zenon, <1>a
      <3>2. [heldR EXCEPT ![t] = heldR[t] \cup {k}] \in [Txn -> SUBSET Key]
        BY <1>a, <3>1, UpdateType, Zenon
      <3> QED BY <1>a, <2>2, <3>2, Zenon
    <2>5. pc' \in [Txn -> Pc]
      <3>1. [pc EXCEPT ![t] = "idle"] \in [Txn -> Pc] BY Zenon, <1>a DEF Pc
      <3>2. [pc EXCEPT ![t] = "awaitR"] \in [Txn -> Pc] BY Zenon, <1>a DEF Pc
      <3> QED BY <1>a, <2>2, <3>1, <3>2, Zenon DEF Goto
    <2>6. key' \in [Txn -> Key \cup {NoKey}] BY <1>a, <2>2, Zenon
    <2> QED BY Zenon, <1>a, <2>1, <2>3, <2>4, <2>5, <2>6
  <1>6. ASSUME NEW t \in Txn, TakeWriter(t) PROVE Rest
    BY <1>a, <1>6, Zenon DEF TakeWriter, Goto, Pc
  <1>7. ASSUME NEW t \in Txn, LockA(t) \/ WaitB(t) \/ ReturnB(t) \/ CloseEmpty(t) PROVE Rest
    BY <1>a, <1>7, Zenon DEF LockA, WaitB, ReturnB, CloseEmpty, Goto, Pc
  <1>8. ASSUME NEW t \in Txn, RLockAll(t) PROVE Rest
    <2>1. /\ UNCHANGED <<writer, readers, heldW, heldR, mutexes, key>>
          /\ Goto(t, "addedB")
          /\ calls' = [calls EXCEPT ![t] = @ + 1]
          /\ alls' = [alls EXCEPT ![t] = @ + 1]
      BY Zenon, <1>8 DEF RLockAll, Calling
    <2> QED BY <1>a, <2>1 DEF Goto, Pc
  <1>9. ASSUME NEW t \in Txn, WaitA(t) \/ ReturnA(t) PROVE Rest
    <2>1. key[t] \in Key BY Zenon, <1>a, <1>9 DEF WaitA, ReturnA, HoldInv, KeyInv, TakingA
    <2>2. \/ HoldWrite(t)
          \/ (Goto(t, "waitA") \/ Goto(t, "panic")) /\ UNCHANGED <<locks, fns, key>>
      BY Zenon, <1>a, <1>9 DEF WaitA, ReturnA
    <2>3. /\ UNCHANGED <<mutexes, calls, alls, writer, readers, heldR>>
          /\ UNCHANGED heldW \/ heldW' = [heldW EXCEPT ![t] = @ \cup {key[t]}]
          /\ UNCHANGED key \/ key' = [key EXCEPT ![t] = NoKey]
      BY Zenon, <1>a, <1>9, <2>2 DEF WaitA, ReturnA, HoldWrite
    <2>4. pc' \in [Txn -> Pc] BY <1>a, <2>2, Zenon DEF HoldWrite, Goto, Pc
    <2>5. heldW' \in [Txn -> SUBSET Key]
      <3>1. heldW[t] \cup {key[t]} \in SUBSET Key BY Zenon, <1>a, <2>1
      <3>2. [heldW EXCEPT ![t] = heldW[t] \cup {key[t]}] \in [Txn -> SUBSET Key]
        BY <1>a, <3>1, UpdateType, Zenon
      <3> QED BY <1>a, <2>3, <3>2, Zenon
    <2>6. key' \in [Txn -> Key \cup {NoKey}] BY <1>a, <2>3, Zenon
    <2> QED BY Zenon, <1>a, <2>3, <2>4, <2>5, <2>6
  <1>10. ASSUME NEW t \in Txn, AwaitRead(t) PROVE Rest
    <2>1. key[t] \in Key BY Zenon, <1>a, <1>10 DEF AwaitRead, HoldInv, KeyInv
    <2> QED BY Zenon, <1>a, <1>10, <2>1 DEF AwaitRead, HoldRead, Goto, Pc
  <1>11. ASSUME NEW t \in Txn, Commit(t) \/ Discard(t) PROVE Rest
    BY <1>a, <1>11, Zenon DEF Commit, Discard, Close, Goto, Pc
  <1>12. ASSUME NEW t \in Txn, DeleteMutex(t) PROVE Rest
    BY <1>a, <1>12, Zenon DEF DeleteMutex, CallbackDone, Pc
  <1>13. ASSUME NEW t \in Txn, DoneA(t) \/ DoneB(t) PROVE Rest
    <2>1. pc' \in [Txn -> Pc] BY <1>a, <1>13, Zenon DEF DoneA, DoneB, CallbackDone, Pc
    <2> QED BY <1>a, <1>13, <2>1, Zenon DEF DoneA, DoneB
  <1>14. ASSUME NEW t \in Txn, UnlockAll(t) \/ RUnlockAll(t) PROVE Rest
    <2>1. pc' \in [Txn -> Pc]
      <3>1. CallbackDone(t, "", "") BY <1>14, Zenon DEF UnlockAll, RUnlockAll
      <3> QED BY <1>a, <3>1, Zenon DEF CallbackDone, Pc
    <2>2. CASE UnlockAll(t)
      <3>1. /\ writer' = [k \in Key |-> IF k \in heldW[t] THEN NoTxn ELSE writer[k]]
            /\ readers' = [k \in Key |-> IF k \in heldW[t]
                 THEN {u \in Txn : pc[u] = "awaitR" /\ key[u] = k} ELSE readers[k]]
        BY <1>a, <2>2, Zenon DEF UnlockAll
      <3>2. writer' \in [Key -> Txn \cup {NoTxn}] /\ readers' \in [Key -> SUBSET Txn]
        BY Zenon, <1>a, <3>1
      <3> QED BY <1>a, <2>1, <2>2, <3>2, Zenon DEF UnlockAll, GetLock
    <2>3. CASE RUnlockAll(t) BY <1>a, <2>1, <2>3, Zenon DEF RUnlockAll, GetLock
    <2> QED BY <1>a, <1>14, <2>2, <2>3, Zenon
  <1>15. CASE Rest BY Zenon, <1>1, <1>2, <1>15 DEF TypeOK
  <1> HIDE DEF Rest
  <1> QED BY <1>3, <1>4, <1>5, <1>6, <1>7, <1>8, <1>9, <1>10, <1>11, <1>12, <1>13,
             <1>14, <1>15, Zenon DEF Next, Proceed

(* Only program counters move, none into RWMutex.Lock, RLock or LockA.     *)
LEMMA KeySame ==
    ASSUME KeyInv, UNCHANGED <<writer, readers, heldW, heldR, key>>,
           \A u \in Txn : \/ pc'[u] = pc[u]
                          \/ pc'[u] \notin {"awaitW", "drain", "awaitR"} \cup TakingA
                          \/ pc[u] \in TakingA /\ pc'[u] \in TakingA
    PROVE  KeyInv'
  BY DEF KeyInv, TakingA

(* Where the program counters go when a callback returns.                  *)
LEMMA WakeUp ==
    ASSUME TypeOK, NEW t \in Txn, NEW fn, Running(t, fn),
           \/ CallbackDone(t, "", "")
           \/ CallbackDone(t, "waitA", "wokenA")
           \/ CallbackDone(t, "", "wokenA")
           \/ CallbackDone(t, "waitB", "wokenB")
           \/ CallbackDone(t, "", "wokenB")
    PROVE  \A u \in Txn : \/ pc'[u] = pc[u]
                          \/ u = t /\ pc'[u] \in {"committed", "discarded"}
                          \/ pc[u] = "waitA" /\ pc'[u] = "wokenA"
                          \/ pc[u] = "waitB" /\ pc'[u] = "wokenB"
  <1> SUFFICES ASSUME NEW u \in Txn
               PROVE  \/ pc'[u] = pc[u]
                      \/ u = t /\ pc'[u] \in {"committed", "discarded"}
                      \/ pc[u] = "waitA" /\ pc'[u] = "wokenA"
                      \/ pc[u] = "waitB" /\ pc'[u] = "wokenB"
    BY Zenon
  <1>1. pc[u] # "" BY Zenon DEF TypeOK, Pc
  <1> QED BY <1>1, Zenon DEF CallbackDone

(* Every step keeps the mutexes of the keys and the held locks in step.    *)
LEMMA KeyStep ==
    ASSUME TypeOK, KeyInv, [Next]_vars
    PROVE  KeyInv'
  <1> DEFINE Same == /\ UNCHANGED <<writer, readers, heldW, heldR, key>>
                     /\ \A u \in Txn :
                          \/ pc'[u] = pc[u]
                          \/ pc'[u] \notin {"awaitW", "drain", "awaitR"} \cup TakingA
                          \/ pc[u] \in TakingA /\ pc'[u] \in TakingA
  <1>1. CASE Same BY Zenon, <1>1, KeySame
  <1>2. /\ writer \in [Key -> Txn \cup {NoTxn}] /\ readers \in [Key -> SUBSET Txn]
        /\ heldW \in [Txn -> SUBSET Key] /\ heldR \in [Txn -> SUBSET Key]
        /\ pc \in [Txn -> Pc] /\ key \in [Txn -> Key \cup {NoKey}]
    BY Zenon DEF TypeOK
  <1>3. CASE UNCHANGED vars BY <1>3, Zenon DEF vars, locks, KeyInv
  <1>4. ASSUME NEW t \in Txn, NEW k \in Key, CollectionLock(t, k) PROVE KeyInv'
    <2>1. UNCHANGED <<writer, heldW>> BY Zenon, <1>4 DEF CollectionLock
    <2>2. CASE HasLock(t, k) BY Zenon, <1>1, <1>4, <2>1, <2>2 DEF CollectionLock
    <2>3. CASE ~HasLock(t, k)
      <3>1. /\ heldR' = [heldR EXCEPT ![t] = @ \ {k}]
            /\ readers' = [readers EXCEPT ![k] = IF k \in heldR[t] THEN @ \ {t} ELSE @]
            /\ pc' = [pc EXCEPT ![t] = "awaitW"]
            /\ key' = [key EXCEPT ![t] = k]
        BY Zenon, <1>4, <2>3 DEF CollectionLock, Promote, Goto
      <3> SUFFICES ASSUME NEW u \in Txn
                   PROVE  /\ pc'[u] \in {"awaitW", "drain", "awaitR"} \cup TakingA => key'[u] \in Key
                          /\ pc'[u] \in {"drain"} \cup TakingA => writer'[key'[u]] = u
                          /\ pc'[u] \in TakingA => readers'[key'[u]] = {}
                          /\ \A j \in heldW'[u] : writer'[j] = u /\ readers'[j] = {}
                          /\ \A j \in heldR'[u] : u \in readers'[j]
        BY Zenon DEF KeyInv, TakingA
      <3>2. \A j \in Key : readers'[j] \subseteq readers[j] BY Zenon, <1>2, <3>1
      <3>3. \A j \in heldW'[u] : writer'[j] = u /\ readers'[j] = {}
        BY <1>2, <2>1, <3>2 DEF KeyInv
      <3>4. CASE u = t
        <4>1. pc'[u] = "awaitW" /\ key'[u] = k /\ heldR'[u] = heldR[u] \ {k} BY Zenon, <1>2, <3>1, <3>4
        <4>2. \A j \in heldR'[u] : readers'[j] = readers[j] BY Zenon, <1>2, <3>1, <4>1
        <4> QED BY <1>2, <3>3, <4>1, <4>2 DEF KeyInv, TakingA
      <3>5. CASE u # t
        <4>1. pc'[u] = pc[u] /\ key'[u] = key[u] /\ heldR'[u] = heldR[u] BY Zenon, <1>2, <3>1, <3>5
        <4>2. \A j \in Key : u \in readers[j] => u \in readers'[j] BY Zenon, <1>2, <3>1, <3>5
        <4>3. \A j \in heldR'[u] : u \in readers'[j] BY Zenon, <1>2, <4>1, <4>2 DEF KeyInv
        <4>4. pc'[u] \in TakingA => readers'[key'[u]] = {}
          BY Zenon, <1>2, <3>2, <4>1 DEF KeyInv
        <4>5. pc'[u] \in {"drain"} \cup TakingA => writer'[key'[u]] = u
          BY Zenon, <2>1, <4>1 DEF KeyInv
        <4>6. pc'[u] \in {"awaitW", "drain", "awaitR"} \cup TakingA => key'[u] \in Key
          BY Zenon, <4>1 DEF KeyInv
        <4> QED BY Zenon, <3>3, <4>3, <4>4, <4>5, <4>6
      <3> QED BY Zenon, <3>4, <3>5
    <2> QED BY Zenon, <2>2, <2>3
  <1>5. ASSUME NEW t \in Txn, NEW k \in Key, CollectionRLock(t, k) PROVE KeyInv'
    <2>1. UNCHANGED <<writer, heldW>> BY Zenon, <1>5 DEF CollectionRLock
    <2>2. CASE HasAnyLock(t, k) BY Zenon, <1>1, <1>5, <2>1, <2>2 DEF CollectionRLock
    <2>3. CASE ~HasAnyLock(t, k) /\ writer[k] # NoTxn
      <3>1. /\ UNCHANGED <<readers, heldR>>
            /\ pc' = [pc EXCEPT ![t] = "awaitR"]
            /\ key' = [key EXCEPT ![t] = k]
        BY Zenon, <1>5, <2>3 DEF CollectionRLock, Goto
      <3> QED BY <1>2, <2>1, <3>1 DEF KeyInv, TakingA
    <2>4. CASE ~HasAnyLock(t, k) /\ writer[k] = NoTxn
      <3>1. /\ readers' = [readers EXCEPT ![k] = @ \cup {t}]
            /\ heldR' = [heldR EXCEPT ![t] = @ \cup {k}]
            /\ pc' = [pc EXCEPT ![t] = "idle"]
            /\ key' = [key EXCEPT ![t] = NoKey]
        BY Zenon, <1>5, <2>4 DEF CollectionRLock, HoldRead, Goto
      <3>2. ASSUME NEW j \in Key, NEW u \in Txn, writer[j] = u PROVE readers'[j] = readers[j]
        BY Zenon, <1>2, <2>4, <3>1, <3>2, NoneAssumption
      <3>3. \A j \in Key : readers[j] \subseteq readers'[j] /\ (j = k => t \in readers'[j])
        BY Zenon, <1>2, <3>1
      <3>4. ASSUME NEW u \in Txn
            PROVE  /\ \A j \in heldW[u] : writer[j] = u /\ readers'[j] = {}
                   /\ \A j \in heldR'[u] : u \in readers'[j]
        <4>1. \A j \in heldW[u] : writer[j] = u /\ readers'[j] = {}
          BY <1>2, <3>2 DEF KeyInv
        <4>2. \A j \in heldR'[u] : j \in heldR[u] \/ (u = t /\ j = k) BY Zenon, <1>2, <3>1
        <4> QED BY <1>2, <3>3, <4>1, <4>2 DEF KeyInv
      <3>5. ASSUME NEW u \in Txn
            PROVE  /\ pc'[u] \in {"awaitW", "drain", "awaitR"} \cup TakingA => key'[u] \in Key
                   /\ pc'[u] \in {"drain"} \cup TakingA => writer[key'[u]] = u
                   /\ pc'[u] \in TakingA => readers'[key'[u]] = {}
        <4>1. CASE u = t
          <5>1. pc'[u] = "idle" BY Zenon, <1>2, <3>1, <4>1
          <5> QED BY Zenon, <5>1 DEF TakingA
        <4>2. CASE u # t
          <5>1. pc'[u] = pc[u] /\ key'[u] = key[u] BY Zenon, <1>2, <3>1, <4>2
          <5>2. pc[u] \in TakingA => key[u] \in Key /\ writer[key[u]] = u /\ readers[key[u]] = {}
            BY Zenon DEF KeyInv
          <5>3. pc'[u] \in TakingA => readers'[key'[u]] = {} BY Zenon, <3>2, <5>1, <5>2
          <5> QED BY <5>1, <5>3, Zenon DEF KeyInv
        <4> QED BY Zenon, <4>1, <4>2
      <3> QED BY <2>1, <3>4, <3>5 DEF KeyInv
    <2> QED BY Zenon, <2>2, <2>3, <2>4
  <1>6. ASSUME NEW t \in Txn, TakeWriter(t) PROVE KeyInv'
    BY <1>2, <1>6, NoneAssumption DEF TakeWriter, Goto, KeyInv, TakingA
  <1>7. ASSUME NEW t \in Txn, LockA(t) PROVE KeyInv'
    BY <1>2, <1>7 DEF LockA, Goto, KeyInv, TakingA, locks
  <1>8. ASSUME NEW t \in Txn,
               WaitB(t) \/ ReturnB(t) \/ CloseEmpty(t) \/ RLockAll(t) \/ Commit(t) \/ Discard(t)
        PROVE  KeyInv'
    <2>1. UNCHANGED <<writer, readers, heldW, heldR, key>>
      BY <1>8, Zenon DEF WaitB, ReturnB, CloseEmpty, RLockAll, Commit, Discard, Close, locks
    <2>2. \A u \in Txn :
            pc'[u] = pc[u] \/ pc'[u] \notin {"awaitW", "drain", "awaitR"} \cup TakingA
      BY <1>2, <1>8, Zenon
         DEF WaitB, ReturnB, CloseEmpty, RLockAll, Commit, Discard, Close, Goto, TakingA
    <2> QED BY Zenon, <1>1, <2>1, <2>2
  <1>9. ASSUME NEW t \in Txn, WaitA(t) \/ ReturnA(t) PROVE KeyInv'
    <2>1. CASE HoldWrite(t)
      <3>1. pc[t] \in TakingA BY Zenon, <1>9 DEF WaitA, ReturnA, TakingA
      <3>2. key[t] \in Key /\ writer[key[t]] = t /\ readers[key[t]] = {} BY Zenon, <3>1 DEF KeyInv
      <3> QED BY <1>2, <2>1, <3>2 DEF HoldWrite, Goto, KeyInv, TakingA
    <2>2. CASE ~HoldWrite(t)
      <3>1. /\ pc[t] \in TakingA
            /\ UNCHANGED <<writer, readers, heldW, heldR, key>>
            /\ Goto(t, "waitA") \/ Goto(t, "panic")
        BY Zenon, <1>9, <2>2 DEF WaitA, ReturnA, TakingA, locks
      <3> QED BY Zenon, <1>1, <1>2, <3>1 DEF Goto, TakingA
    <2> QED BY Zenon, <2>1, <2>2
  <1>10. ASSUME NEW t \in Txn, AwaitRead(t) PROVE KeyInv'
    <2>1. key[t] \in Key /\ t \in readers[key[t]] BY <1>10, Zenon DEF AwaitRead, KeyInv
    <2> QED BY <1>2, <1>10, <2>1 DEF AwaitRead, HoldRead, Goto, KeyInv, TakingA
  <1>11. ASSUME NEW t \in Txn, DeleteMutex(t) \/ DoneA(t) \/ DoneB(t) PROVE KeyInv'
    <2>1. UNCHANGED <<writer, readers, heldW, heldR, key>>
      BY <1>11, Zenon DEF DeleteMutex, DoneA, DoneB, locks
    <2>2. \A u \in Txn : \/ pc'[u] = pc[u]
                         \/ u = t /\ pc'[u] \in {"committed", "discarded"}
                         \/ pc[u] = "waitA" /\ pc'[u] = "wokenA"
                         \/ pc[u] = "waitB" /\ pc'[u] = "wokenB"
      BY <1>11, WakeUp, Zenon DEF DeleteMutex, DoneA, DoneB
    <2> QED BY Zenon, <1>1, <2>1, <2>2 DEF TakingA
  <1>12. ASSUME NEW t \in Txn, UnlockAll(t) \/ RUnlockAll(t) PROVE KeyInv'
    <2>1. \A u \in Txn : pc'[u] = pc[u] \/ pc'[u] \in {"committed", "discarded"}
      BY <1>2, <1>12, Zenon DEF UnlockAll, RUnlockAll, CallbackDone, Pc
    <2>2. pc[t] \in {"committing", "discarding"}
      BY <1>12, Zenon DEF UnlockAll, RUnlockAll, Running
    <2>3. UNCHANGED key BY <1>12, Zenon DEF UnlockAll, RUnlockAll
    <2>4. ASSUME NEW u \in Txn, pc'[u] \in {"awaitW", "drain", "awaitR"} \cup TakingA
          PROVE  u # t /\ pc'[u] = pc[u] /\ key'[u] = key[u] /\ key[u] \in Key
      BY Zenon, <2>1, <2>2, <2>3, <2>4 DEF KeyInv, TakingA
    <2>5. CASE UnlockAll(t)
      <3>1. /\ UNCHANGED heldR
            /\ heldW' = [heldW EXCEPT ![t] = {}]
            /\ \A j \in Key : j \notin heldW[t] => writer'[j] = writer[j] /\ readers'[j] = readers[j]
        BY <2>5, Zenon DEF UnlockAll
      <3>2. \A u \in Txn, j \in Key : writer[j] = u /\ u # t => j \notin heldW[t]
        BY Zenon DEF KeyInv
      <3>3. ASSUME NEW u \in Txn, pc'[u] \in {"drain"} \cup TakingA
            PROVE  /\ writer'[key'[u]] = u
                   /\ pc'[u] \in TakingA => readers'[key'[u]] = {}
        <4>1. u # t /\ pc'[u] = pc[u] /\ key'[u] = key[u] /\ key[u] \in Key
          BY Zenon, <2>4, <3>3 DEF TakingA
        <4>2. /\ writer[key[u]] = u /\ (pc[u] \in TakingA => readers[key[u]] = {})
          BY Zenon, <3>3, <4>1 DEF KeyInv
        <4> QED BY Zenon, <3>1, <3>2, <4>1, <4>2
      <3>4. ASSUME NEW u \in Txn, NEW j \in heldW'[u] PROVE writer'[j] = u /\ readers'[j] = {}
        <4>1. u # t /\ j \in heldW[u] /\ j \in Key BY Zenon, <1>2, <3>1, <3>4
        <4>2. writer[j] = u /\ readers[j] = {} BY Zenon, <4>1 DEF KeyInv
        <4> QED BY Zenon, <3>1, <3>2, <4>1, <4>2
      <3>5. ASSUME NEW u \in Txn, NEW j \in heldR'[u] PROVE u \in readers'[j]
        <4>1. j \in heldR[u] /\ j \in Key BY Zenon, <1>2, <3>1, <3>5
        <4>2. u \in readers[j] BY Zenon, <4>1 DEF KeyInv
        <4>3. j \notin heldW[t] BY <4>2 DEF KeyInv
        <4> QED BY Zenon, <3>1, <4>1, <4>2, <4>3
      <3> QED BY Zenon, <2>4, <3>3, <3>4, <3>5 DEF KeyInv, TakingA
    <2>6. CASE RUnlockAll(t)
      <3>1. /\ UNCHANGED <<writer, heldW>>
            /\ heldR' = [heldR EXCEPT ![t] = {}]
            /\ \A j \in Key : readers'[j] \subseteq readers[j]
            /\ \A j \in Key, u \in Txn : u \in readers[j] /\ u # t => u \in readers'[j]
        BY <1>2, <2>6, Zenon DEF RUnlockAll
      <3>2. ASSUME NEW u \in Txn, pc'[u] \in {"drain"} \cup TakingA
            PROVE  /\ writer'[key'[u]] = u
                   /\ pc'[u] \in TakingA => readers'[key'[u]] = {}
        <4>1. u # t /\ pc'[u] = pc[u] /\ key'[u] = key[u] /\ key[u] \in Key
          BY Zenon, <2>4, <3>2 DEF TakingA
        <4>2. /\ writer[key[u]] = u /\ (pc[u] \in TakingA => readers[key[u]] = {})
          BY Zenon, <3>2, <4>1 DEF KeyInv
        <4> QED BY <3>1, <4>1, <4>2
      <3>3. ASSUME NEW u \in Txn, NEW j \in heldW'[u] PROVE writer'[j] = u /\ readers'[j] = {}
        <4>1. j \in heldW[u] /\ j \in Key BY Zenon, <1>2, <3>1, <3>3
        <4>2. writer[j] = u /\ readers[j] = {} BY Zenon, <4>1 DEF KeyInv
        <4> QED BY Zenon, <3>1, <4>1, <4>2
      <3>4. ASSUME NEW u \in Txn, NEW j \in heldR'[u] PROVE u \in readers'[j]
        <4>1. u # t /\ j \in heldR[u] /\ j \in Key BY Zenon, <1>2, <3>1, <3>4
        <4>2. u \in readers[j] BY Zenon, <4>1 DEF KeyInv
        <4> QED BY Zenon, <3>1, <4>1, <4>2
      <3> QED BY Zenon, <2>4, <3>2, <3>3, <3>4 DEF KeyInv, TakingA
    <2> QED BY Zenon, <1>12, <2>5, <2>6
  <1> HIDE DEF Same
  <1> QED BY <1>3, <1>4, <1>5, <1>6, <1>7, <1>8, <1>9, <1>10, <1>11, <1>12, Zenon
          DEF Next, Proceed

(* Every step keeps a share of aGroup behind every write lock.             *)
LEMMA ShareStep ==
    ASSUME TypeOK, CountInv', ShareInv, [Next]_vars
    PROVE  ShareInv'
  <1>1. /\ heldW \in [Txn -> SUBSET Key] /\ pc \in [Txn -> Pc] /\ aGroup \in [Txn -> Nat]
    BY Zenon DEF TypeOK
  <1>2. \A u \in Txn : aGroup'[u] \in Nat BY Zenon, CountedTypes DEF CountInv
  <1>3. CASE UNCHANGED vars BY Zenon, <1>3 DEF vars, locks, groups, ShareInv, Open
  <1>4. ASSUME UNCHANGED <<heldW, aGroup>>,
               \A u \in Txn : \/ pc'[u] = pc[u]
                              \/ pc'[u] \notin TakingA /\ (Open(u)' => Open(u))
                              \/ pc[u] \in TakingA
        PROVE  ShareInv'
    BY Zenon, <1>4 DEF ShareInv, Open
  <1>5. ASSUME NEW t \in Txn,
               \/ \E k \in Key : CollectionLock(t, k) \/ CollectionRLock(t, k)
               \/ TakeWriter(t) \/ RLockAll(t) \/ AwaitRead(t) \/ WaitB(t) \/ ReturnB(t)
               \/ Commit(t) \/ Discard(t) \/ CloseEmpty(t)
        PROVE  ShareInv'
    <2>1. UNCHANGED <<heldW, aGroup>>
      BY <1>5, Zenon DEF CollectionLock, CollectionRLock, TakeWriter, RLockAll, AwaitRead, WaitB,
                  ReturnB, Commit, Discard, Close, CloseEmpty, locks, groups
    <2>2. \/ UNCHANGED pc
          \/ \E to \in {"idle", "awaitW", "awaitR", "drain", "addedB", "waitB", "panic"} :
               /\ pc[t] \in {"idle", "awaitW", "awaitR", "addedB", "wokenB"}
               /\ Goto(t, to)
          \/ \E to \in {"committing", "committed", "discarding", "discarded"} : Goto(t, to)
      BY <1>5, Zenon DEF CollectionLock, CollectionRLock, TakeWriter, RLockAll, AwaitRead, WaitB,
                  ReturnB, Commit, Discard, Close, CloseEmpty, Calling, HoldRead
    <2>3. \A u \in Txn : pc'[u] = pc[u] \/ (pc'[u] \notin TakingA /\ (Open(u)' => Open(u)))
      BY Zenon, <1>1, <2>2 DEF Goto, Open, TakingA
    <2> QED BY Zenon, <1>4, <2>1, <2>3
  <1>6. ASSUME NEW t \in Txn, LockA(t) PROVE ShareInv'
    BY <1>1, <1>6 DEF LockA, Goto, ShareInv, Open, TakingA, locks
  <1>7. ASSUME NEW t \in Txn, WaitA(t) \/ ReturnA(t) PROVE ShareInv'
    <2>1. pc[t] \in TakingA BY Zenon, <1>7 DEF WaitA, ReturnA, TakingA
    <2>2. aGroup'[t] > 0 BY Zenon, <1>7, <2>1 DEF WaitA, ReturnA, ShareInv, groups
    <2>3. ASSUME NEW u \in Txn, u # t
          PROVE  pc'[u] = pc[u] /\ heldW'[u] = heldW[u] /\ aGroup'[u] = aGroup[u]
      BY Zenon, <1>1, <1>7, <2>3 DEF WaitA, ReturnA, HoldWrite, Goto, locks, groups
    <2> QED BY Zenon, <2>2, <2>3 DEF ShareInv, Open
  <1>8. ASSUME NEW t \in Txn, NEW fn, Running(t, fn),
               \A u \in Txn \ {t} : heldW'[u] = heldW[u] /\ aGroup'[u] = aGroup[u],
               \A u \in Txn : \/ pc'[u] = pc[u]
                              \/ u = t /\ pc'[u] \in {"committed", "discarded"}
                              \/ pc[u] = "waitA" /\ pc'[u] = "wokenA"
                              \/ pc[u] = "waitB" /\ pc'[u] = "wokenB"
        PROVE  ShareInv'
    BY <1>8, Zenon DEF ShareInv, Open, Running, TakingA
  <1>9. ASSUME NEW t \in Txn, DeleteMutex(t) \/ DoneA(t) \/ DoneB(t) \/ UnlockAll(t) \/ RUnlockAll(t)
        PROVE  ShareInv'
    <2>1. PICK fn : Running(t, fn)
      BY <1>9, Zenon DEF DeleteMutex, DoneA, DoneB, UnlockAll, RUnlockAll
    <2>2. \A u \in Txn \ {t} : heldW'[u] = heldW[u]
      BY <1>1, <1>9, Zenon DEF DeleteMutex, DoneA, DoneB, UnlockAll, RUnlockAll, locks
    <2>3. \A u \in Txn \ {t} : aGroup'[u] = aGroup[u]
      BY <1>1, <1>9, Zenon DEF DeleteMutex, DoneA, DoneB, Done, UnlockAll, RUnlockAll, groups
    <2>4. \A u \in Txn : \/ pc'[u] = pc[u]
                         \/ u = t /\ pc'[u] \in {"committed", "discarded"}
                         \/ pc[u] = "waitA" /\ pc'[u] = "wokenA"
                         \/ pc[u] = "waitB" /\ pc'[u] = "wokenB"
      BY <1>9, <2>1, WakeUp, Zenon DEF DeleteMutex, DoneA, DoneB, UnlockAll, RUnlockAll
    <2> QED BY <1>8, <2>1, <2>2, <2>3, <2>4, Zenon
  <1> QED BY <1>3, <1>5, <1>6, <1>7, <1>9, Zenon DEF Next, Proceed

(* A holder of RLockAll keeps it until it closes, and a transaction takes  *)
(* a write lock only when nobody has a share of bGroup.                    *)
LEMMA AllStep ==
    ASSUME TypeOK, ShareInv, AllLockExcludes, CountInv', [Next]_vars
    PROVE  AllLockExcludes'
  <1>1. /\ heldW \in [Txn -> SUBSET Key] /\ pc \in [Txn -> Pc]
        /\ aGroup \in [Txn -> Nat] /\ bGroup \in [Txn -> Nat]
    BY Zenon DEF TypeOK
  <1>2. \A u \in Txn : bGroup'[u] \in Nat BY Zenon, CountedTypes DEF CountInv
  <1> DEFINE Was == /\ \A u \in Txn : HoldsAll(u)' => HoldsAll(u)
                    /\ \A u \in Txn : Open(u)' => Open(u) /\ heldW'[u] = heldW[u]
  <1>3. CASE Was BY Zenon, <1>3 DEF AllLockExcludes
  <1>4. CASE UNCHANGED vars
    BY <1>4, Zenon DEF vars, locks, groups, AllLockExcludes, HoldsAll, Open
  <1>5. ASSUME NEW t \in Txn,
               \/ \E k \in Key : CollectionLock(t, k) \/ CollectionRLock(t, k)
               \/ TakeWriter(t) \/ LockA(t) \/ AwaitRead(t)
               \/ Commit(t) \/ Discard(t) \/ CloseEmpty(t)
        PROVE  AllLockExcludes'
    <2>1. UNCHANGED <<heldW, bGroup>>
      BY <1>5, Zenon DEF CollectionLock, CollectionRLock, TakeWriter, LockA, AwaitRead,
                  Commit, Discard, Close, CloseEmpty, locks, groups
    <2>2. \/ UNCHANGED pc
          \/ \E to \in {"idle", "awaitW", "awaitR", "drain", "addedA"} :
               pc[t] \in {"idle", "awaitW", "awaitR", "drain"} /\ Goto(t, to)
          \/ \E to \in {"committing", "committed", "discarding", "discarded"} : Goto(t, to)
      BY <1>5, Zenon DEF CollectionLock, CollectionRLock, TakeWriter, LockA, AwaitRead,
                  Commit, Discard, Close, CloseEmpty, Calling, HoldRead
    <2>3. \A u \in Txn : (HoldsAll(u)' => HoldsAll(u)) /\ (Open(u)' => Open(u))
      BY Zenon, <1>1, <2>1, <2>2 DEF Goto, HoldsAll, Open
    <2> QED BY Zenon, <1>3, <2>1, <2>3
  <1>6. ASSUME NEW t \in Txn, RLockAll(t) PROVE AllLockExcludes'
    <2>1. /\ UNCHANGED heldW
          /\ pc[t] = "idle" /\ pc' = [pc EXCEPT ![t] = "addedB"]
          /\ \A u \in Txn \ {t} : bGroup'[u] = bGroup[u]
      BY Zenon, <1>1, <1>6 DEF RLockAll, Calling, Goto, locks
    <2> QED BY Zenon, <1>1, <1>3, <2>1 DEF HoldsAll, Open
  <1>7. ASSUME NEW t \in Txn, WaitB(t) \/ ReturnB(t) PROVE AllLockExcludes'
    <2>1. UNCHANGED <<heldW, bGroup, aGroup>> BY Zenon, <1>7 DEF WaitB, ReturnB, locks, groups
    <2>2. CASE IsZero(aGroup)
      <3>1. \A u \in Txn : Open(u)' => Open(u)
        BY Zenon, <1>1, <1>7 DEF WaitB, ReturnB, Goto, Open
      <3>2. \A u \in Txn : Open(u) => heldW[u] = {}
        BY <2>2 DEF ShareInv, IsZero
      <3> QED BY Zenon, <2>1, <3>1, <3>2 DEF AllLockExcludes
    <2>3. CASE ~IsZero(aGroup)
      <3>1. pc[t] \in {"addedB", "wokenB"} /\ (Goto(t, "waitB") \/ Goto(t, "panic"))
        BY Zenon, <1>7, <2>3 DEF WaitB, ReturnB
      <3> QED BY Zenon, <1>1, <1>3, <2>1, <3>1 DEF HoldsAll, Open, Goto
    <2> QED BY Zenon, <2>2, <2>3
  <1>8. ASSUME NEW t \in Txn, WaitA(t) \/ ReturnA(t) PROVE AllLockExcludes'
    <2>1. UNCHANGED bGroup BY Zenon, <1>8 DEF WaitA, ReturnA, groups
    <2>2. CASE IsZero(bGroup)
      BY <2>1, <2>2 DEF IsZero, AllLockExcludes, HoldsAll
    <2>3. CASE ~IsZero(bGroup)
      <3>1. /\ UNCHANGED heldW
            /\ \/ pc[t] = "addedA" /\ Goto(t, "waitA")
               \/ pc[t] = "wokenA" /\ Goto(t, "panic")
        BY Zenon, <1>8, <2>3 DEF WaitA, ReturnA, locks
      <3> QED BY Zenon, <1>1, <1>3, <2>1, <3>1 DEF HoldsAll, Open, Goto
    <2> QED BY Zenon, <2>2, <2>3
  <1>9. ASSUME NEW t \in Txn, DeleteMutex(t) \/ DoneA(t) \/ DoneB(t) \/ UnlockAll(t) \/ RUnlockAll(t)
        PROVE  AllLockExcludes'
    <2>1. PICK fn : Running(t, fn)
      BY <1>9, Zenon DEF DeleteMutex, DoneA, DoneB, UnlockAll, RUnlockAll
    <2>2. \A u \in Txn \ {t} : heldW'[u] = heldW[u]
      BY <1>1, <1>9, Zenon DEF DeleteMutex, DoneA, DoneB, UnlockAll, RUnlockAll, locks
    <2>3. \A u \in Txn \ {t} : bGroup'[u] = bGroup[u]
      BY <1>1, <1>9, Zenon DEF DeleteMutex, DoneA, DoneB, Done, UnlockAll, RUnlockAll, groups
    <2>4. \A u \in Txn : \/ pc'[u] = pc[u]
                         \/ u = t /\ pc'[u] \in {"committed", "discarded"}
                         \/ pc[u] = "waitA" /\ pc'[u] = "wokenA"
                         \/ pc[u] = "waitB" /\ pc'[u] = "wokenB"
      BY <1>9, <2>1, WakeUp, Zenon DEF DeleteMutex, DoneA, DoneB, UnlockAll, RUnlockAll
    <2>5. ~Open(t) /\ ~Open(t)' BY Zenon, <2>1, <2>4 DEF Open, Running
    <2>6. \A u \in Txn : HoldsAll(u)' => HoldsAll(u)
      BY Zenon, <2>1, <2>3, <2>4 DEF HoldsAll, Running
    <2>7. \A u \in Txn : Open(u)' => Open(u) BY Zenon, <2>4, <2>5 DEF Open
    <2> QED BY <1>3, <2>2, <2>5, <2>6, <2>7, Zenon
  <1> HIDE DEF Was
  <1> QED BY <1>4, <1>5, <1>6, <1>7, <1>8, <1>9, Zenon DEF Next, Proceed

(* A transaction that has registered nothing has no share.                 *)
LEMMA CountedEmpty == Counted(<<>>, {}, 0, 0, [next |-> 1, last |-> 0])
  <1> DEFINE s == <<>>
             r == [next |-> 1, last |-> 0]
  <1>1. s \in Seq(Callback) /\ Len(s) = 0 OBVIOUS
  <1>2. r \in [next: Nat, last: Nat] /\ 0 < r.next /\ r.last <= Len(s) OBVIOUS
  <1> HIDE DEF s, r
  <1>3. Unfired(s, {}, "doneA") = {} /\ Unfired(s, {}, "doneB") = {} BY <1>1 DEF Unfired
  <1>4. Cardinality({}) = 0 BY Zenon, FS_EmptySet
  <1>5. Counted(s, {}, 0, 0, r) BY <1>1, <1>2, <1>3, <1>4, Zenon DEF Counted
  <1> QED BY Zenon, <1>5 DEF s, r

(* The initial state satisfies the invariant.                              *)
LEMMA InitInd == Init => IndInv
  <1> SUFFICES ASSUME Init PROVE IndInv BY Zenon
  <1> USE DEF Init
  <1>1. TypeOK BY DEF TypeOK, Callback, Pc
  <1>2. Counted(<<>>, {}, 0, 0, [next |-> 1, last |-> 0]) BY Zenon, CountedEmpty
  <1>3. CountInv
    <2>1. \A t \in Txn : Counted(fns[t], fired[t], aGroup[t], bGroup[t], run[t]) BY Zenon, <1>2
    <2> QED BY <1>1, <2>1 DEF CountInv, TypeOK
  <1>4. HoldInv BY Zenon DEF HoldInv, KeyInv, ShareInv, AllLockExcludes, HoldsAll, TakingA
  <1> QED BY Zenon, <1>1, <1>3, <1>4 DEF IndInv

(* The books of abLock balance, and the maps of held locks agree with the  *)
(* mutexes, in every state that lockSet can reach.                         *)
THEOREM Invariance == Spec => []IndInv
  <1>1. Init => IndInv BY Zenon, InitInd
  <1>2. IndInv /\ [Next]_vars => IndInv'
    <2> SUFFICES ASSUME IndInv, [Next]_vars PROVE IndInv' BY Zenon
    <2>1. /\ TypeOK /\ CountInv /\ HoldInv
          /\ KeyInv /\ ShareInv /\ AllLockExcludes
      BY Zenon DEF IndInv, HoldInv
    <2>2. CountInv' BY Zenon, <2>1, CountStep
    <2>3. TypeOK' BY Zenon, <2>1, <2>2, TypeStep
    <2>4. KeyInv' BY Zenon, <2>1, KeyStep
    <2>5. ShareInv' BY Zenon, <2>1, <2>2, ShareStep
    <2>6. AllLockExcludes' BY Zenon, <2>1, <2>2, AllStep
    <2> QED BY Zenon, <2>2, <2>3, <2>4, <2>5, <2>6 DEF IndInv, HoldInv
  <1> QED BY <1>1, <1>2, PTL DEF Spec

(* Every variable keeps its type; above all no WaitGroup of abLock goes    *)
(* negative (Go panics there), though a transaction may be discarded       *)
(* after its commit.                                                       *)
THEOREM TypeCorrect == Spec => []TypeOK
  <1>1. IndInv => TypeOK BY Zenon DEF IndInv
  <1> QED BY <1>1, Invariance, PTL

(* Mutual exclusion of CollectionLock, lock promotion included.            *)
THEOREM WriteLocksExclude == Spec => []WriteLockExcludes
  <1>1. IndInv => WriteLockExcludes
    <2> SUFFICES ASSUME TypeOK, KeyInv PROVE WriteLockExcludes BY Zenon DEF IndInv, HoldInv
    <2>1. ASSUME NEW t \in Txn, NEW u \in Txn, t # u, NEW k \in heldW[t]
          PROVE  k \notin heldW[u] /\ k \notin heldR[u]
      <3>1. writer[k] = t /\ readers[k] = {} BY Zenon DEF KeyInv
      <3>2. k \notin heldW[u] BY <2>1, <3>1 DEF KeyInv
      <3>3. k \notin heldR[u] BY Zenon, <3>1 DEF KeyInv
      <3> QED BY <3>2, <3>3, Zenon
    <2> QED BY <2>1, Zenon DEF WriteLockExcludes
  <1> QED BY <1>1, Invariance, PTL

(* Mutual exclusion of RLockAll and every write lock (abLock).             *)
THEOREM AllLockIsExclusive == Spec => []AllLockExcludes
  <1>1. IndInv => AllLockExcludes BY Zenon DEF IndInv, HoldInv
  <1> QED BY <1>1, Invariance, PTL

(* The locks of collections and the lock on all of them exclude what they  *)
(* are to exclude, for any transactions and collections.                   *)
THEOREM LocksAreExclusive == Spec => []LocksExclude
  <1>1. WriteLockExcludes /\ AllLockExcludes => LocksExclude BY Zenon DEF LocksExclude
  <1> QED BY <1>1, WriteLocksExclude, AllLockIsExclusive, PTL
=============================================================================
