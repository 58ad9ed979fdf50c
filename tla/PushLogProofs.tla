---------------------------- MODULE PushLogProofs ----------------------------
(***************************************************************************)
(* For any number of requests, commits and documents: a merge finds the    *)
(* blocks it needs, what is announced is merged or was given up, and only  *)
(* local writers make merges conflict.  The two keyed queues are used      *)
(* through what module WorkQueueProofs proves about one of them.           *)
(***************************************************************************)
EXTENDS PushLog, TLAPS

-----------------------------------------------------------------------------
(* Types                                                                   *)

\* What is below a commit are commits, and all that is below those.
LEMMA LineageClosed ==
    ASSUME CommitGraph, NEW c \in Cids
    PROVE  Lineage(c) \subseteq Cids /\ \A a \in Lineage(c) : Lineage(a) \subseteq Lineage(c)
  BY Zenon DEF CommitGraph, Lineage

\* No step changes what a request is about.
LEMMA FixedStep == [Next]_vars => branchable' = branchable /\ cid' = cid
  BY Zenon DEF Next, Handle, vars, Fixed, Receive, ReceiveAgain, CheckMerged, SyncHead, SyncDAG,
         EnqueueMerge, EnqueueAgain, BeginMerge, CommitMerge, LeaveMergeQueue, Announce,
         Return, LocalWrite

LEMMA TypesStep ==
    ASSUME CommitGraph, IndInv, [Next]_vars, ProcessQueue!TypeOK', MergeQueue!TypeOK'
    PROVE  Types'
  <1> DEFINE Rest == /\ stored \subseteq Cids /\ merged \subseteq stored
                     /\ announced \subseteq Requests
                     /\ tries \in [Requests -> 0 .. MaxTxnRetries]
                     /\ loc \in [Requests -> Loc]
                     /\ writes \in [Docs -> 0 .. MaxWrites]
                     /\ stale \in [Requests -> SUBSET Docs]
                     /\ \A r \in Requests : loc[r] = "merging" => tries[r] < MaxTxnRetries
  <1>2. branchable' = branchable /\ cid' = cid BY Zenon, FixedStep
  <1>3. Rest /\ cid \in [Requests -> Cids] BY Zenon DEF IndInv, Types, TypeOK
  <1>4. MaxTxnRetries \in Nat /\ MaxWrites \in Nat /\ Touches \in [Cids -> SUBSET Docs]
    BY Zenon DEF CommitGraph
  <1>5. \A r \in Requests : Lineage(cid[r]) \subseteq Cids BY Zenon, <1>3, LineageClosed
  <1>6. Rest'
    <2> USE <1>3 DEF store
    <2>1. CASE UNCHANGED vars BY Zenon, <2>1 DEF vars
    <2>2. ASSUME NEW r \in Requests, Receive(r) PROVE Rest' BY Zenon, <2>2 DEF Receive, Goto, Loc
    <2>3. ASSUME NEW r \in Requests, ReceiveAgain(r) PROVE Rest' BY Zenon, <2>3 DEF ReceiveAgain
    <2>4. ASSUME NEW r \in Requests, CheckMerged(r) PROVE Rest'
      BY Zenon, <2>4 DEF CheckMerged, Goto, Loc
    <2>5. ASSUME NEW r \in Requests, SyncHead(r) PROVE Rest' BY Zenon, <2>5 DEF SyncHead, Goto, Loc
    <2>6. ASSUME NEW r \in Requests, SyncDAG(r) PROVE Rest'
      <3>1. ToLoad(r) \subseteq Cids BY Zenon, <1>5 DEF ToLoad
      <3>2. stored' \subseteq Cids /\ stored \subseteq stored' BY Zenon, <2>6, <3>1 DEF SyncDAG
      <3> QED BY Zenon, <2>6, <3>2 DEF SyncDAG, Goto, Loc
    <2>7. ASSUME NEW r \in Requests, EnqueueMerge(r) PROVE Rest'
      BY Zenon, <2>7 DEF EnqueueMerge, Goto, Loc
    <2>8. ASSUME NEW r \in Requests, EnqueueAgain(r) PROVE Rest' BY Zenon, <2>8 DEF EnqueueAgain
    <2>9. ASSUME NEW r \in Requests, BeginMerge(r) PROVE Rest'
      BY Zenon, <2>9 DEF BeginMerge, Goto, Loc
    <2>10. ASSUME NEW r \in Requests, CommitMerge(r) PROVE Rest'
      <3>1. stored' = stored /\ writes' = writes /\ announced' = announced /\ loc[r] = "merging"
        BY Zenon, <2>10 DEF CommitMerge
      <3>2. \E ds \in SUBSET Docs : CommitTo(r, ds) BY Zenon, <2>10, <1>4 DEF CommitMerge
      <3>3. stale' \in [Requests -> SUBSET Docs] BY <3>2, <1>4 DEF CommitTo
      <3>4. merged' \subseteq stored BY Zenon, <2>10 DEF CommitMerge
      <3>5. tries' \in [Requests -> 0 .. MaxTxnRetries] /\ loc' \in [Requests -> Loc]
        BY <2>10, <3>1, <1>4 DEF CommitMerge, Goto, Loc
      <3>6. \A s \in Requests : loc'[s] = "merging" => s # r /\ loc[s] = "merging" /\ tries'[s] = tries[s]
        BY Zenon, <2>10 DEF CommitMerge, Goto
      <3> QED BY Zenon, <3>1, <3>3, <3>4, <3>5, <3>6
    <2>11. ASSUME NEW r \in Requests, LeaveMergeQueue(r) PROVE Rest'
      BY Zenon, <2>11 DEF LeaveMergeQueue, Goto, Loc
    <2>12. ASSUME NEW r \in Requests, Announce(r) PROVE Rest' BY Zenon, <2>12 DEF Announce, Goto, Loc
    <2>13. ASSUME NEW r \in Requests, Return(r) PROVE Rest' BY Zenon, <2>13 DEF Return, Goto, Loc
    <2>14. ASSUME NEW d \in Docs, LocalWrite(d) PROVE Rest' BY <2>14, <1>4 DEF LocalWrite
    <2> QED BY Zenon, <2>1, <2>2, <2>3, <2>4, <2>5, <2>6, <2>7, <2>8, <2>9, <2>10, <2>11, <2>12,
               <2>13, <2>14 DEF Next, Handle
  <1> QED BY Zenon, <1>2, <1>6 DEF Types, TypeOK, IndInv

-----------------------------------------------------------------------------
(* What is merged                                                          *)

\* The sync of a request that succeeds leaves nothing to merge unstored: what
\* its walk leaves out is below something merged, so it is merged itself.
LEMMA SyncCompletes ==
    ASSUME CommitGraph, IndInv, NEW r \in Requests
    PROVE  ToMerge(r) \subseteq ToLoad(r)
  <1>1. \A c \in merged : Lineage(c) \subseteq merged BY Zenon DEF IndInv, MergeInv
  <1>2. UNION {Lineage(c) : c \in merged} \subseteq merged BY Zenon, <1>1
  <1> QED BY Zenon, <1>2 DEF ToMerge, ToLoad

LEMMA MergeInvStep ==
    ASSUME CommitGraph, IndInv, [Next]_vars
    PROVE  MergeInv'
  <1> DEFINE Returned(r) == loc[r] \in {"mergeReturned", "announce"} \/ r \in announced
             Ready(r) == loc[r] \in {"synced", "mergeQueued", "merging"}
             Paid(r) == cid[r] \in merged \/ tries[r] = MaxTxnRetries
             Goal == /\ \A c \in merged : Lineage(c) \subseteq merged
                     /\ \A r \in Requests : Ready(r) => ToMerge(r) \subseteq stored
                     /\ \A r \in Requests : Returned(r) => Paid(r)
  <1>1. Goal /\ Types BY Zenon DEF IndInv, MergeInv, SyncedIsComplete
  <1>2. cid' = cid BY Zenon, FixedStep
  <1>3. ASSUME merged' = merged, stored \subseteq stored', tries' = tries,
               \A s \in Requests : Ready(s)' => Ready(s) \/ ToMerge(s) \subseteq stored',
               \A s \in Requests : Returned(s)' => Returned(s) \/ Paid(s)
        PROVE  Goal'
    <2>1. \A s \in Requests : ToMerge(s)' = ToMerge(s) BY Zenon, <1>2, <1>3 DEF ToMerge
    <2> QED BY Zenon, <1>1, <1>2, <1>3, <2>1 DEF Lineage
  <1>4. ASSUME UNCHANGED vars PROVE Goal'
    <2>1. UNCHANGED <<merged, stored, tries, loc, announced>> BY Zenon, <1>4 DEF vars, store
    <2> QED BY Zenon, <1>3, <2>1
  <1>5. ASSUME NEW r \in Requests,
               \/ Receive(r) \/ CheckMerged(r) \/ SyncHead(r) \/ Return(r) \/ EnqueueMerge(r)
               \/ BeginMerge(r) \/ LeaveMergeQueue(r)
        PROVE  Goal'
    <2>1. merged' = merged /\ stored' = stored /\ tries' = tries /\ announced' = announced
      BY Zenon, <1>5 DEF Receive, CheckMerged, SyncHead, Return, EnqueueMerge, BeginMerge,
                  LeaveMergeQueue, store
    <2>2. loc \in [Requests -> Loc] /\ tries \in [Requests -> 0 .. MaxTxnRetries]
      BY Zenon, <1>1 DEF Types, TypeOK
    <2>3. \A s \in Requests : Ready(s)' => Ready(s)
      BY Zenon, <1>5, <2>2 DEF Receive, CheckMerged, SyncHead, Return, EnqueueMerge, BeginMerge,
                  LeaveMergeQueue, Goto
    <2>4. MaxTxnRetries \in Nat BY Zenon DEF CommitGraph
    <2>5. \A s \in Requests : Returned(s)' => Returned(s) \/ Paid(s)
      <3>1. CASE BeginMerge(r) BY <3>1, <2>1, <2>2, <2>4 DEF BeginMerge, Goto
      <3>2. CASE ~BeginMerge(r)
        BY Zenon, <3>2, <1>5, <2>1, <2>2 DEF Receive, CheckMerged, SyncHead, Return, EnqueueMerge,
                  LeaveMergeQueue, Goto
      <3> QED BY Zenon, <3>1, <3>2
    <2> QED BY Zenon, <1>3, <2>1, <2>3, <2>5
  <1>6. ASSUME NEW r \in Requests, ReceiveAgain(r) \/ EnqueueAgain(r) PROVE Goal'
    BY Zenon, <1>3, <1>6 DEF ReceiveAgain, EnqueueAgain, store
  <1>7. ASSUME NEW r \in Requests, SyncDAG(r) PROVE Goal'
    <2>1. /\ merged' = merged /\ tries' = tries /\ announced' = announced
          /\ stored \subseteq stored'
      BY Zenon, <1>7 DEF SyncDAG
    <2>2. loc \in [Requests -> Loc] BY Zenon, <1>1 DEF Types
    <2>3. loc'[r] = "synced" => ToMerge(r) \subseteq stored'
      BY Zenon, <1>7, <2>2, SyncCompletes DEF SyncDAG, Goto
    <2>4. \A s \in Requests : Ready(s)' => Ready(s) \/ ToMerge(s) \subseteq stored'
      BY Zenon, <1>7, <2>2, <2>3 DEF SyncDAG, Goto
    <2>5. \A s \in Requests : Returned(s)' => Returned(s)
      BY Zenon, <1>7, <2>1, <2>2 DEF SyncDAG, Goto
    <2> QED BY Zenon, <1>3, <2>1, <2>4, <2>5
  <1>8. ASSUME NEW r \in Requests, CommitMerge(r) PROVE Goal'
    <2>1. /\ stored' = stored /\ announced' = announced /\ loc[r] = "merging"
          /\ loc \in [Requests -> Loc] /\ cid \in [Requests -> Cids]
          /\ tries \in [Requests -> 0 .. MaxTxnRetries] /\ tries[r] < MaxTxnRetries
      BY Zenon, <1>1, <1>8 DEF CommitMerge, Types, TypeOK
    <2>2. \A s \in Requests \ {r} : loc'[s] = loc[s] /\ tries'[s] = tries[s]
      BY Zenon, <1>8, <2>1 DEF CommitMerge, Goto
    <2>3. merged \subseteq merged' BY Zenon, <1>8 DEF CommitMerge
    <2>4. \A c \in merged' : Lineage(c) \subseteq merged'
      <3>1. CASE merged' = merged BY Zenon, <1>1, <3>1
      <3>2. CASE merged' = merged \cup ToMerge(r)
        <4>1. CASE ToMerge(r) = {} BY Zenon, <1>1, <3>2, <4>1
        <4>2. CASE ToMerge(r) = Lineage(cid[r]) \ merged
          <5>1. merged' = merged \cup Lineage(cid[r]) BY Zenon, <3>2, <4>2
          <5>2. \A c \in Lineage(cid[r]) : Lineage(c) \subseteq Lineage(cid[r])
            BY Zenon, <2>1, LineageClosed
          <5> QED BY Zenon, <1>1, <5>1, <5>2
        <4> QED BY Zenon, <4>1, <4>2 DEF ToMerge
      <3> QED BY Zenon, <1>8, <3>1, <3>2 DEF CommitMerge
    <2>5. \A s \in Requests : ToMerge(s)' \subseteq ToMerge(s) BY Zenon, <1>2, <2>3 DEF ToMerge
    <2>6. \A s \in Requests : Ready(s)' => Ready(s) BY Zenon, <2>1, <2>2
    <2>7. \A s \in Requests : Ready(s)' => ToMerge(s)' \subseteq stored' BY Zenon, <1>1, <2>1, <2>5, <2>6
    <2>8. \A s \in Requests \ {r} : Returned(s)' => Paid(s)' BY Zenon, <1>1, <1>2, <2>1, <2>2, <2>3
    <2>9. r \in announced => cid[r] \in merged BY <1>1, <2>1
    <2>10. loc'[r] \in {"mergeReturned", "announce"} => cid[r] \in merged'
      BY Zenon, <1>8, <2>1 DEF CommitMerge, Goto, ToMerge, Lineage
    <2>11. Returned(r)' => Paid(r)' BY Zenon, <1>2, <2>1, <2>3, <2>9, <2>10
    <2> QED BY Zenon, <2>4, <2>7, <2>8, <2>11 DEF Lineage
  <1>9. ASSUME NEW r \in Requests, Announce(r) PROVE Goal'
    <2>1. merged' = merged /\ stored' = stored /\ tries' = tries BY Zenon, <1>9 DEF Announce, store
    <2>2. loc \in [Requests -> Loc] BY Zenon, <1>1 DEF Types
    <2> QED BY Zenon, <1>3, <1>9, <2>1, <2>2 DEF Announce, Goto
  <1>10. ASSUME NEW d \in Docs, LocalWrite(d) PROVE Goal' BY Zenon, <1>3, <1>10 DEF LocalWrite
  <1>11. Goal'
    <2> HIDE DEF Goal
    <2> QED BY Zenon, <1>4, <1>5, <1>6, <1>7, <1>8, <1>9, <1>10 DEF Next, Handle
  <1> QED BY Zenon, <1>11 DEF MergeInv, SyncedIsComplete

-----------------------------------------------------------------------------
(* Conflicts                                                               *)

\* DB.Merge: the key of a merge is the collection's, or the one document's that
\* the merge touches.
LEMMA MergeKeyIs ==
    ASSUME CommitGraph, Types, NEW r \in Requests
    PROVE  /\ MergeKey(r) \in MergeKeys
           /\ branchable => MergeKey(r) = CollectionOf
           /\ ~branchable => Touches[cid[r]] = {MergeKey(r)}
  <1>1. CASE branchable BY Zenon, <1>1 DEF MergeKey, MergeKeys
  <1>2. CASE ~branchable
    <2>1. cid[r] \in Cids /\ Touches[cid[r]] # Docs BY Zenon, <1>2 DEF Types
    <2>2. PICK d \in Docs : Touches[cid[r]] = {d} BY Zenon, <2>1 DEF CommitGraph
    <2>3. (CHOOSE x \in {d} : TRUE) = d BY Zenon
    <2>4. MergeKey(r) = d BY Zenon, <1>2, <2>2, <2>3 DEF MergeKey
    <2> QED BY Zenon, <1>2, <2>2, <2>4 DEF MergeKeys
  <1> QED BY Zenon, <1>1, <1>2

\* Two merges that run at the same time touch different documents.
LEMMA MergesApart ==
    ASSUME CommitGraph, IndInv, NEW r \in Requests, NEW s \in Requests, r # s,
           loc[r] = "merging", loc[s] = "merging"
    PROVE  Touches[cid[r]] \cap Touches[cid[s]] = {}
  <1>1. /\ mkey[r] = MergeKey(r) /\ mkey[s] = MergeKey(s)
        /\ mpc[r] = "working" /\ mpc[s] = "working"
    BY Zenon DEF IndInv, ConflictInv
  <1>2. MergeKey(r) # MergeKey(s) BY Zenon, <1>1 DEF IndInv, MergeQueue!OneWorkerPerKey
  <1>3. /\ branchable => MergeKey(r) = CollectionOf /\ MergeKey(s) = CollectionOf
        /\ ~branchable => Touches[cid[r]] = {MergeKey(r)} /\ Touches[cid[s]] = {MergeKey(s)}
    BY Zenon, MergeKeyIs DEF IndInv
  <1> QED BY <1>2, <1>3

\* A request whose merge runs or waits has the queue's key for it.
LEMMA HoldsKeyStep ==
    ASSUME CommitGraph, IndInv, [Next]_vars, NEW s \in Requests
    PROVE  /\ loc'[s] \in {"mergeQueued", "merging"} => mkey'[s] = MergeKey(s)'
           /\ loc'[s] = "merging" => mpc'[s] = "working"
  <1> DEFINE Goal == /\ loc'[s] \in {"mergeQueued", "merging"} => mkey'[s] = MergeKey(s)
                     /\ loc'[s] = "merging" => mpc'[s] = "working"
  <1>1. branchable' = branchable /\ cid' = cid BY Zenon, FixedStep
  <1>2. MergeKey(s)' = MergeKey(s) BY <1>1 DEF MergeKey
  <1>3. /\ loc[s] \in {"mergeQueued", "merging"} => mkey[s] = MergeKey(s)
        /\ loc[s] = "merging" => mpc[s] = "working"
        /\ loc \in [Requests -> Loc]
        /\ mpc \in [Requests -> {"idle", "waiting", "woken", "working"}]
        /\ mkey \in [Requests -> MergeKeys]
    BY Zenon DEF IndInv, ConflictInv, Types, TypeOK, MergeQueue!TypeOK
  <1>4. ASSUME UNCHANGED vars PROVE Goal BY Zenon, <1>3, <1>4 DEF vars, mergeq
  <1>5. ASSUME NEW r \in Requests,
               \/ Receive(r) \/ CheckMerged(r) \/ SyncHead(r) \/ SyncDAG(r) \/ Return(r)
               \/ BeginMerge(r) \/ CommitMerge(r) \/ Announce(r) \/ ReceiveAgain(r)
        PROVE  Goal
    <2>1. mkey' = mkey /\ mpc' = mpc
      BY Zenon, <1>5 DEF Receive, CheckMerged, SyncHead, SyncDAG, Return, BeginMerge, CommitMerge,
                  Announce, ReceiveAgain, mergeq
    <2>2. /\ loc'[s] \in {"mergeQueued", "merging"} => loc[s] \in {"mergeQueued", "merging"}
          /\ loc'[s] = "merging" => loc[s] = "merging" \/ mpc[s] = "working"
      BY Zenon, <1>3, <1>5 DEF Receive, CheckMerged, SyncHead, SyncDAG, Return, BeginMerge,
                  CommitMerge, Announce, ReceiveAgain, Goto
    <2> QED BY Zenon, <1>3, <2>1, <2>2
  <1>6. ASSUME NEW r \in Requests, EnqueueMerge(r) PROVE Goal
    BY <1>3, <1>6 DEF EnqueueMerge, MergeQueue!Add, MergeQueue!TryAdd, Goto, mergeq
  <1>7. ASSUME NEW r \in Requests, EnqueueAgain(r) PROVE Goal
    BY Zenon, <1>3, <1>7 DEF EnqueueAgain, MergeQueue!AddAgain, MergeQueue!TryAdd
  <1>8. ASSUME NEW r \in Requests, LeaveMergeQueue(r) PROVE Goal
    <2>1. /\ mkey' = mkey
          /\ s # r => loc'[s] = loc[s] /\ (mpc[s] = "working" => mpc'[s] = "working")
          /\ s = r => loc'[s] \in {"announce", "return"}
      BY Zenon, <1>3, <1>8 DEF LeaveMergeQueue, MergeQueue!Done, Goto
    <2> QED BY Zenon, <1>3, <2>1
  <1>9. ASSUME NEW d \in Docs, LocalWrite(d) PROVE Goal BY Zenon, <1>3, <1>9 DEF LocalWrite, mergeq
  <1>10. Goal
    <2> HIDE DEF Goal
    <2> QED BY Zenon, <1>4, <1>5, <1>6, <1>7, <1>8, <1>9 DEF Next, Handle
  <1> QED BY Zenon, <1>2, <1>10

INSTANCE FiniteSetTheorems

LEMMA LocalCommitsFinite ==
    ASSUME CommitGraph, NEW ds \in SUBSET Docs
    PROVE  IsFiniteSet(LocalCommits(ds)) /\ Cardinality(LocalCommits(ds)) \in Nat
  <1>1. IsFiniteSet(ds) BY Zenon, FS_Subset DEF CommitGraph
  <1>2. IsFiniteSet(1 .. MaxWrites) BY FS_Interval DEF CommitGraph
  <1>3. IsFiniteSet(ds \X (1 .. MaxWrites)) BY Zenon, <1>1, <1>2, FS_Product
  <1>4. LocalCommits(ds) \subseteq ds \X (1 .. MaxWrites) BY Zenon DEF LocalCommits
  <1>5. IsFiniteSet(LocalCommits(ds)) BY Zenon, <1>3, <1>4, FS_Subset
  <1> QED BY Zenon, <1>5, FS_CardinalityType

\* A local commit counts once for the documents it is to, and for no others.
LEMMA LocalCommitsGrow ==
    ASSUME CommitGraph, Types, NEW d \in Docs, LocalWrite(d), NEW ds \in SUBSET Docs
    PROVE  Cardinality(LocalCommits(ds)') =
               Cardinality(LocalCommits(ds)) + (IF d \in ds THEN 1 ELSE 0)
  <1> DEFINE c == <<d, writes[d] + 1>>
  <1>1. /\ writes \in [Docs -> 0 .. MaxWrites] /\ MaxWrites \in Nat
        /\ writes' = [writes EXCEPT ![d] = @ + 1] /\ writes[d] < MaxWrites
    BY Zenon DEF Types, CommitGraph, LocalWrite
  <1>2. CASE d \in ds
    <2>1. c \notin LocalCommits(ds) BY <1>1 DEF LocalCommits
    <2>2. ASSUME NEW e \in Docs, NEW i \in 1 .. MaxWrites
          PROVE  i <= writes'[e] <=> (i <= writes[e] \/ (e = d /\ i = writes[d] + 1))
      BY <1>1
    <2>3. LocalCommits(ds)' = LocalCommits(ds) \cup {c}
      <3>1. LocalCommits(ds)' = {x \in ds \X (1 .. MaxWrites) : x[2] <= writes'[x[1]]}
        BY Zenon DEF LocalCommits
      <3>2. writes[d] + 1 \in 1 .. MaxWrites BY <1>1
      <3>3. ASSUME NEW x \in ds \X (1 .. MaxWrites)
            PROVE  x[2] <= writes'[x[1]] <=> (x[2] <= writes[x[1]] \/ x = c)
        <4>1. PICK e \in ds, i \in 1 .. MaxWrites : x = <<e, i>> OBVIOUS
        <4> QED BY Zenon, <4>1, <2>2
      <3>4. c \in ds \X (1 .. MaxWrites) BY Zenon, <1>2, <3>2
      <3> HIDE DEF c
      <3> QED BY Zenon, <3>1, <3>3, <3>4 DEF LocalCommits
    <2> HIDE DEF c
    <2>4. Cardinality(LocalCommits(ds) \cup {c}) = Cardinality(LocalCommits(ds)) + 1
      BY Zenon, <2>1, LocalCommitsFinite, FS_AddElement
    <2> QED BY Zenon, <1>2, <2>3, <2>4
  <1>3. CASE d \notin ds
    <2>1. LocalCommits(ds)' = {x \in ds \X (1 .. MaxWrites) : x[2] <= writes'[x[1]]}
      BY Zenon DEF LocalCommits
    <2>2. \A e \in ds : writes'[e] = writes[e] BY Zenon, <1>1, <1>3
    <2>3. LocalCommits(ds)' = LocalCommits(ds) BY Zenon, <2>1, <2>2 DEF LocalCommits
    <2> QED BY <1>3, <2>3, LocalCommitsFinite
  <1> QED BY Zenon, <1>2, <1>3

\* A conflict is paid for by a local commit since the transaction began: a
\* merge that commits touches nothing of another that is open.
LEMMA PaidStep ==
    ASSUME CommitGraph, IndInv, [Next]_vars, NEW s \in Requests
    PROVE  /\ stale'[s] # {} => loc'[s] = "merging"
           /\ tries'[s] + (IF stale'[s] = {} THEN 0 ELSE 1)
                  <= Cardinality(LocalCommits(Touches[cid[s]])')
  <1> DEFINE n == Cardinality(LocalCommits(Touches[cid[s]]))
             Owes(k, t) == k + (IF t = {} THEN 0 ELSE 1)
             Goal == /\ stale'[s] # {} => loc'[s] = "merging"
                     /\ Owes(tries'[s], stale'[s]) <= Cardinality(LocalCommits(Touches[cid[s]])')
  <1>1. /\ stale[s] # {} => loc[s] = "merging"
        /\ Owes(tries[s], stale[s]) <= n
        /\ loc \in [Requests -> Loc] /\ stale \in [Requests -> SUBSET Docs]
        /\ tries \in [Requests -> 0 .. MaxTxnRetries] /\ MaxTxnRetries \in Nat
        /\ Touches[cid[s]] \in SUBSET Docs
    BY Zenon DEF IndInv, ConflictInv, Types, TypeOK, CommitGraph
  <1>2. n \in Nat BY Zenon, <1>1, LocalCommitsFinite
  <1>3. ASSUME writes' = writes,
               stale'[s] # {} => loc'[s] = "merging",
               Owes(tries'[s], stale'[s]) <= n
        PROVE  Goal
    <2>1. LocalCommits(Touches[cid[s]])' = {c \in Touches[cid[s]]' \X (1 .. MaxWrites) : c[2] <= writes'[c[1]]}
      BY Zenon DEF LocalCommits
    <2>2. cid' = cid BY Zenon, FixedStep
    <2>3. LocalCommits(Touches[cid[s]])' = LocalCommits(Touches[cid[s]])
      BY Zenon, <1>3, <2>1, <2>2 DEF LocalCommits
    <2> QED BY Zenon, <1>3, <2>3
  <1>4. ASSUME UNCHANGED vars PROVE Goal
    <2>1. UNCHANGED <<writes, stale, tries, loc>> BY Zenon, <1>4 DEF vars, store
    <2> QED BY Zenon, <1>1, <1>3, <2>1
  <1>5. ASSUME NEW r \in Requests,
               \/ Receive(r) \/ CheckMerged(r) \/ SyncHead(r) \/ SyncDAG(r) \/ Return(r)
               \/ BeginMerge(r) \/ Announce(r) \/ ReceiveAgain(r) \/ EnqueueMerge(r)
               \/ EnqueueAgain(r) \/ LeaveMergeQueue(r)
        PROVE  Goal
    <2>1. writes' = writes /\ stale' = stale /\ tries' = tries
      BY Zenon, <1>5 DEF Receive, CheckMerged, SyncHead, SyncDAG, Return, BeginMerge, Announce,
                  ReceiveAgain, EnqueueMerge, EnqueueAgain, LeaveMergeQueue, store
    <2>2. loc[s] = "merging" => loc'[s] = "merging"
      BY Zenon, <1>1, <1>5 DEF Receive, CheckMerged, SyncHead, SyncDAG, Return, BeginMerge, Announce,
                  ReceiveAgain, EnqueueMerge, EnqueueAgain, LeaveMergeQueue, Goto
    <2> QED BY Zenon, <1>1, <1>3, <2>1, <2>2
  <1>6. ASSUME NEW r \in Requests, CommitMerge(r) PROVE Goal
    <2>1. writes' = writes /\ loc[r] = "merging" BY Zenon, <1>6 DEF CommitMerge
    <2>2. PICK ds \in {{}, Touches[cid[r]]} : CommitTo(r, ds) BY Zenon, <1>6 DEF CommitMerge
    <2>3. CASE s = r
      <3>1. stale'[s] = {} BY Zenon, <2>2, <2>3 DEF CommitTo
      <3>2. tries'[s] = tries[s] \/ (stale[s] # {} /\ tries'[s] = tries[s] + 1)
        BY Zenon, <1>1, <1>6, <2>3 DEF CommitMerge
      <3>3. tries[s] \in Nat BY <1>1
      <3>4. Owes(tries'[s], stale'[s]) <= n BY <1>1, <1>2, <3>1, <3>2, <3>3
      <3> QED BY Zenon, <1>3, <2>1, <3>1, <3>4
    <2>4. CASE s # r
      <3>1. tries'[s] = tries[s] /\ loc'[s] = loc[s]
        BY Zenon, <1>1, <1>6, <2>4 DEF CommitMerge, Goto
      <3>2. stale'[s] = IF loc[s] = "merging" THEN stale[s] \cup (ds \cap Touches[cid[s]]) ELSE {}
        BY Zenon, <2>2, <2>4 DEF CommitTo
      <3>3. loc[s] = "merging" => ds \cap Touches[cid[s]] = {}
        BY Zenon, <2>1, <2>2, <2>4, MergesApart
      <3>4. stale'[s] = stale[s] BY Zenon, <1>1, <3>2, <3>3
      <3> QED BY Zenon, <1>1, <1>3, <2>1, <3>1, <3>4
    <2> QED BY Zenon, <2>3, <2>4
  <1>7. ASSUME NEW d \in Docs, LocalWrite(d) PROVE Goal
    <2>1. tries' = tries /\ loc' = loc BY Zenon, <1>7 DEF LocalWrite
    <2>2. stale'[s] = IF loc[s] = "merging" THEN stale[s] \cup ({d} \cap Touches[cid[s]]) ELSE {}
      BY Zenon, <1>7 DEF LocalWrite
    <2>3. cid' = cid BY Zenon, <1>7 DEF LocalWrite, Fixed
    <2>4. Cardinality(LocalCommits(Touches[cid[s]])') = n + (IF d \in Touches[cid[s]] THEN 1 ELSE 0)
      <3>1. PICK ds \in SUBSET Docs : ds = Touches[cid[s]] BY Zenon, <1>1
      <3>2. LocalCommits(Touches[cid[s]])' = LocalCommits(ds)' BY Zenon, <2>3, <3>1 DEF LocalCommits
      <3>3. Cardinality(LocalCommits(ds)') =
                Cardinality(LocalCommits(ds)) + (IF d \in ds THEN 1 ELSE 0)
        BY Zenon, <1>7, LocalCommitsGrow DEF IndInv
      <3> QED BY Zenon, <3>1, <3>2, <3>3
    <2>5. stale[s] = {} /\ stale'[s] # {} => d \in Touches[cid[s]] BY Zenon, <2>2
    <2>6. tries[s] \in Nat BY <1>1
    <2>7. Owes(tries'[s], stale'[s]) <= n + (IF d \in Touches[cid[s]] THEN 1 ELSE 0)
      BY <1>1, <1>2, <2>1, <2>5, <2>6
    <2> QED BY Zenon, <2>1, <2>2, <2>4, <2>7
  <1>8. Goal
    <2> HIDE DEF Goal
    <2> QED BY Zenon, <1>4, <1>5, <1>6, <1>7 DEF Next, Handle
  <1> QED BY Zenon, <1>8

-----------------------------------------------------------------------------
(* The queues                                                              *)

PQ == INSTANCE WorkQueueProofs
    WITH Workers <- Requests, Keys <- Cids, keys <- pkeys, pc <- ppc, key <- pkey

MQ == INSTANCE WorkQueueProofs
    WITH Workers <- Requests, Keys <- MergeKeys, keys <- mkeys, pc <- mpc, key <- mkey

\* A request moves the queues only through add and done.
LEMMA QueueMoves ==
    ASSUME CommitGraph, IndInv, [Next]_vars
    PROVE  [PQ!Next]_(PQ!qvars) /\ [MQ!Next]_(MQ!qvars)
  <1> USE DEF PQ!qvars, MQ!qvars
  <1>1. CASE UNCHANGED vars BY Zenon, <1>1 DEF vars, procq, mergeq
  <1>2. ASSUME NEW r \in Requests, Receive(r)
        PROVE  [PQ!Next]_(PQ!qvars) /\ UNCHANGED mergeq
    <2>1. UNCHANGED mergeq BY Zenon, <1>2 DEF Receive
    <2>2. CASE UNCHANGED procq BY Zenon, <2>1, <2>2 DEF procq
    <2>3. CASE ProcessQueue!Add(r, cid[r])
      <3>1. PQ!Add(r, cid[r]) BY Zenon, <2>3 DEF ProcessQueue!Add, PQ!Add, ProcessQueue!TryAdd, PQ!TryAdd
      <3>2. cid[r] \in Cids BY Zenon DEF IndInv, Types
      <3> QED BY Zenon, <2>1, <3>1, <3>2 DEF PQ!Next
    <2> QED BY Zenon, <1>2, <2>2, <2>3 DEF Receive
  <1>3. ASSUME NEW r \in Requests, ReceiveAgain(r)
        PROVE  [PQ!Next]_(PQ!qvars) /\ UNCHANGED mergeq
    <2>1. PQ!AddAgain(r)
      BY Zenon, <1>3 DEF ReceiveAgain, ProcessQueue!AddAgain, PQ!AddAgain, ProcessQueue!TryAdd, PQ!TryAdd
    <2> QED BY Zenon, <1>3, <2>1 DEF ReceiveAgain, PQ!Next
  <1>4. ASSUME NEW r \in Requests, Return(r)
        PROVE  [PQ!Next]_(PQ!qvars) /\ UNCHANGED mergeq
    <2>1. UNCHANGED procq \/ PQ!Done(r) BY Zenon, <1>4 DEF Return, ProcessQueue!Done, PQ!Done
    <2> QED BY Zenon, <1>4, <2>1 DEF Return, PQ!Next, procq
  <1>5. ASSUME NEW r \in Requests, EnqueueMerge(r)
        PROVE  [MQ!Next]_(MQ!qvars) /\ UNCHANGED procq
    <2>1. UNCHANGED procq BY Zenon, <1>5 DEF EnqueueMerge
    <2>2. CASE UNCHANGED mergeq BY Zenon, <2>1, <2>2 DEF mergeq
    <2>3. CASE MergeQueue!Add(r, MergeKey(r))
      <3>1. MQ!Add(r, MergeKey(r))
        BY Zenon, <2>3 DEF MergeQueue!Add, MQ!Add, MergeQueue!TryAdd, MQ!TryAdd
      <3>2. MergeKey(r) \in MergeKeys BY Zenon, MergeKeyIs DEF IndInv
      <3> QED BY Zenon, <2>1, <3>1, <3>2 DEF MQ!Next
    <2> QED BY Zenon, <1>5, <2>2, <2>3 DEF EnqueueMerge
  <1>6. ASSUME NEW r \in Requests, EnqueueAgain(r)
        PROVE  [MQ!Next]_(MQ!qvars) /\ UNCHANGED procq
    <2>1. MQ!AddAgain(r)
      BY Zenon, <1>6 DEF EnqueueAgain, MergeQueue!AddAgain, MQ!AddAgain, MergeQueue!TryAdd, MQ!TryAdd
    <2> QED BY Zenon, <1>6, <2>1 DEF EnqueueAgain, MQ!Next
  <1>7. ASSUME NEW r \in Requests, LeaveMergeQueue(r)
        PROVE  [MQ!Next]_(MQ!qvars) /\ UNCHANGED procq
    <2>1. MQ!Done(r) BY Zenon, <1>7 DEF LeaveMergeQueue, MergeQueue!Done, MQ!Done
    <2> QED BY Zenon, <1>7, <2>1 DEF LeaveMergeQueue, MQ!Next
  <1>8. ASSUME NEW r \in Requests,
               \/ CheckMerged(r) \/ SyncHead(r) \/ SyncDAG(r) \/ BeginMerge(r)
               \/ CommitMerge(r) \/ Announce(r)
        PROVE  UNCHANGED <<procq, mergeq>>
    BY Zenon, <1>8 DEF CheckMerged, SyncHead, SyncDAG, BeginMerge, CommitMerge, Announce
  <1>9. ASSUME NEW d \in Docs, LocalWrite(d) PROVE UNCHANGED <<procq, mergeq>>
    BY Zenon, <1>9 DEF LocalWrite
  <1> QED BY <1>1, <1>2, <1>3, <1>4, <1>5, <1>6, <1>7, <1>8, <1>9 DEF Next, Handle, procq, mergeq

\* Both queues stay as WorkQueueProofs has it.
LEMMA QueueStep ==
    ASSUME CommitGraph, IndInv, [Next]_vars
    PROVE  /\ ProcessQueue!TypeOK' /\ MergeQueue!TypeOK'
           /\ ProcessQueue!KeysAreWorkedOn' /\ ProcessQueue!OneWorkerPerKey'
           /\ MergeQueue!KeysAreWorkedOn' /\ MergeQueue!OneWorkerPerKey'
  <1> USE DEF ProcessQueue!TypeOK, ProcessQueue!KeysAreWorkedOn, ProcessQueue!OneWorkerPerKey,
              MergeQueue!TypeOK, MergeQueue!KeysAreWorkedOn, MergeQueue!OneWorkerPerKey,
              PQ!IInv, PQ!TypeOK, PQ!KeysAreWorkedOn, PQ!OneWorkerPerKey,
              MQ!IInv, MQ!TypeOK, MQ!KeysAreWorkedOn, MQ!OneWorkerPerKey
  <1>1. PQ!IInv /\ MQ!IInv BY Zenon DEF IndInv, Types, TypeOK
  <1>2. [PQ!Next]_(PQ!qvars) /\ [MQ!Next]_(MQ!qvars) BY Zenon, QueueMoves
  <1>3. PQ!IInv' BY Zenon, <1>1, <1>2, PQ!StepHolds
  <1>4. MQ!IInv' BY Zenon, <1>1, <1>2, MQ!StepHolds
  <1> QED BY Zenon, <1>3, <1>4

-----------------------------------------------------------------------------
(* The theorems                                                            *)

LEMMA InitHolds ==
    ASSUME CommitGraph, Init
    PROVE  IndInv
  <1>1. \A r \in Requests : cid[r] \in Lineage(cid[r]) BY Zenon DEF Lineage
  <1>2. Types
    BY <1>1 DEF CommitGraph, Init, Types, TypeOK, Loc, MergeKeys, ProcessQueue!TypeOK,
                MergeQueue!TypeOK
  <1>3. MergeInv BY Zenon DEF Init, MergeInv, SyncedIsComplete
  <1>4. ConflictInv
    <2>1. ASSUME NEW r \in Requests
          PROVE  Cardinality(LocalCommits(Touches[cid[r]])) \in Nat
      BY Zenon, <1>2, LocalCommitsFinite DEF CommitGraph, Types
    <2> QED BY <2>1 DEF Init, ConflictInv
  <1>5. /\ ProcessQueue!KeysAreWorkedOn /\ ProcessQueue!OneWorkerPerKey
        /\ MergeQueue!KeysAreWorkedOn /\ MergeQueue!OneWorkerPerKey
    BY Zenon DEF Init, ProcessQueue!KeysAreWorkedOn, ProcessQueue!OneWorkerPerKey,
           MergeQueue!KeysAreWorkedOn, MergeQueue!OneWorkerPerKey
  <1> QED BY Zenon, <1>2, <1>3, <1>4, <1>5 DEF IndInv

LEMMA StepHolds ==
    ASSUME CommitGraph, IndInv, [Next]_vars
    PROVE  IndInv'
  <1>1. ConflictInv'
    <2>1. cid' = cid BY Zenon, FixedStep
    <2>2. SUFFICES ASSUME NEW s \in Requests
                   PROVE  /\ loc'[s] \in {"mergeQueued", "merging"} => mkey'[s] = MergeKey(s)'
                          /\ loc'[s] = "merging" => mpc'[s] = "working"
                          /\ stale'[s] # {} => loc'[s] = "merging"
                          /\ tries'[s] + (IF stale'[s] = {} THEN 0 ELSE 1)
                                 <= Cardinality(LocalCommits(Touches[cid[s]])')
      BY Zenon DEF ConflictInv
    <2> QED BY Zenon, HoldsKeyStep, PaidStep
  <1> QED BY Zenon, <1>1, QueueStep, TypesStep, MergeInvStep DEF IndInv

\* The inductive invariant of processPushlogRequest and DB.Merge.
THEOREM Invariance == CommitGraph => (Spec => []IndInv)
  <1> SUFFICES ASSUME CommitGraph PROVE Spec => []IndInv BY Zenon
  <1>1. Init => IndInv BY Zenon, InitHolds
  <1>2. IndInv /\ [Next]_vars => IndInv' BY Zenon, StepHolds
  <1> QED BY <1>1, <1>2, PTL DEF Spec

\* Whatever fails and however the requests interleave, a merge finds every
\* block it has to merge in the blockstore, and processPushlogRequest announces
\* only blocks that are merged, or whose merge gave up after MaxTxnRetries.
THEOREM PushesComplete == CommitGraph => (Spec => []PushedIsComplete)
  <1> SUFFICES ASSUME CommitGraph PROVE Spec => []PushedIsComplete BY Zenon
  <1>1. IndInv => PushedIsComplete
    BY Zenon DEF IndInv, Types, MergeInv, PushedIsComplete, AnnouncedIsMerged, TypeOK
  <1> QED BY <1>1, Invariance, PTL

\* DB.Merge retries at most once for each local commit to the documents it
\* touches: mergeQueue keeps merges from making each other conflict.
THEOREM WritersConflict == CommitGraph => (Spec => []OnlyWritersConflict)
  <1> SUFFICES ASSUME CommitGraph PROVE Spec => []OnlyWritersConflict BY Zenon
  <1>1. ASSUME IndInv PROVE OnlyWritersConflict
    <2>1. SUFFICES ASSUME NEW r \in Requests
                   PROVE  tries[r] <= Cardinality(LocalCommits(Touches[cid[r]]))
      BY Zenon DEF OnlyWritersConflict
    <2>2. /\ tries[r] \in 0 .. MaxTxnRetries /\ MaxTxnRetries \in Nat
          /\ Touches[cid[r]] \in SUBSET Docs
          /\ tries[r] + (IF stale[r] = {} THEN 0 ELSE 1)
                 <= Cardinality(LocalCommits(Touches[cid[r]]))
      BY Zenon, <1>1 DEF IndInv, Types, TypeOK, ConflictInv, CommitGraph
    <2>3. Cardinality(LocalCommits(Touches[cid[r]])) \in Nat BY Zenon, <2>2, LocalCommitsFinite
    <2> QED BY <2>2, <2>3
  <1> QED BY <1>1, Invariance, PTL

\* The requests use both queues as keyed mutexes: at every moment at most one of
\* them works on a CID, and one on a merge key (processQueue, mergeQueue).
THEOREM QueuesExclude ==
    CommitGraph => (Spec => [](ProcessQueue!OneWorkerPerKey /\ MergeQueue!OneWorkerPerKey))
  BY Invariance, PTL DEF IndInv

\* What the requests do to the two queues is what a keyed mutex allows: each of
\* processQueue and mergeQueue, as used, implements the abstract lock.
THEOREM QueuesAreMutexes ==
    CommitGraph => (Spec => PQ!Mutex!Spec /\ MQ!Mutex!Spec)
  <1> SUFFICES ASSUME CommitGraph PROVE Spec => PQ!Mutex!Spec /\ MQ!Mutex!Spec BY Zenon
  <1>1. Init => PQ!Init /\ MQ!Init
    BY DEF Init, PQ!Init, MQ!Init, MergeKeys
  <1>2. PQ!Init => PQ!Mutex!Init BY Zenon, PQ!InitRefines
  <1>3. MQ!Init => MQ!Mutex!Init BY Zenon, MQ!InitRefines
  <1>4. ASSUME IndInv, [Next]_vars
        PROVE  [PQ!Mutex!Next]_(PQ!Mutex!mvars) /\ [MQ!Mutex!Next]_(MQ!Mutex!mvars)
    <2>1. PQ!IInv /\ MQ!IInv
      BY <1>4 DEF IndInv, Types, TypeOK, ProcessQueue!TypeOK, ProcessQueue!KeysAreWorkedOn,
             ProcessQueue!OneWorkerPerKey, MergeQueue!TypeOK, MergeQueue!KeysAreWorkedOn,
             MergeQueue!OneWorkerPerKey,
             PQ!IInv, PQ!TypeOK, PQ!KeysAreWorkedOn, PQ!OneWorkerPerKey,
             MQ!IInv, MQ!TypeOK, MQ!KeysAreWorkedOn, MQ!OneWorkerPerKey
    <2>2. [PQ!Next]_(PQ!qvars) /\ [MQ!Next]_(MQ!qvars) BY Zenon, <1>4, QueueMoves
    <2> QED BY <2>1, <2>2, PQ!StepRefines, MQ!StepRefines
  <1>5. Spec => /\ PQ!Mutex!Init /\ [][PQ!Mutex!Next]_(PQ!Mutex!mvars)
                /\ MQ!Mutex!Init /\ [][MQ!Mutex!Next]_(MQ!Mutex!mvars)
    BY <1>1, <1>2, <1>3, <1>4, Invariance, PTL DEF Spec
  <1> QED BY Zenon, <1>5 DEF PQ!Mutex!Spec, MQ!Mutex!Spec
=============================================================================
