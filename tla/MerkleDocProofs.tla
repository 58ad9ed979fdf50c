-------------------------- MODULE MerkleDocProofs --------------------------
(***************************************************************************)
(* The invariants of MerkleDoc hold, for any number of nodes, fields,      *)
(* values, blocks and retries: IndInv is inductive.  Local writes come     *)
(* first, then the walk back through the blocks, the merge, and the        *)
(* theorems.                                                               *)
(***************************************************************************)
EXTENDS MerkleDoc, FiniteSetTheorems, TLAPS

(* The block CIDs are natural numbers other than 0.                        *)
LEMMA CidIsNat == Cid \subseteq Nat \ {0}
  BY BoundAssumption DEF Cid

FDag == [Field -> [Cid -> FBlock]]
CDag == [Cid -> CBlock]

-----------------------------------------------------------------------------
(* processBlock.                                                           *)

(* Applying a block to a document gives a document.                        *)
LEMMA ProcessType ==
  ASSUME NEW s \in Store, NEW c \in Cid, NEW b \in CBlock, NEW fd \in FDag, NEW known
  PROVE  ProcessBlock(s, c, b, fd, known) \in Store
  <1> DEFINE r == ProcessBlock(s, c, b, fd, known)
  <1> DEFINE fb(f) == fd[f][b.links[f]]
  <1>1. \A f \in Field : b.links[f] # 0 => b.links[f] \in Cid /\ fb(f) \in FBlock
    BY Zenon DEF CBlock, FDag
  <1>2. r.heads \in SUBSET Cid
    BY Zenon DEF ProcessBlock, UpdateHeads, Store
  <1>3. r.fheads \in [Field -> SUBSET Cid]
    BY Zenon, <1>1 DEF ProcessBlock, UpdateHeads, Store
  <1>4. r.val \in [Field -> Nat]
    <2>1. \A f \in Field : b.links[f] # 0 => MergedVal(s, f, fb(f)) \in Nat
      BY <1>1 DEF MergedVal, Store, FBlock
    <2> QED
      BY Zenon, <2>1 DEF ProcessBlock, Store
  <1>5. r.prio \in [Field -> Nat]
    <2>1. \A f \in Field : b.links[f] # 0 => MergedPrio(s, f, fb(f)) \in Nat
      BY Zenon, <1>1 DEF MergedPrio, Store, FBlock
    <2> QED
      BY Zenon, <2>1 DEF ProcessBlock, Store
  <1>6. r.status \in {"absent", "active", "deleted"} /\ r.applied \in SUBSET Cid
    BY Zenon DEF ProcessBlock, MergedStatus, Store
  <1> QED
    BY <1>2, <1>3, <1>4, <1>5, <1>6, Zenon DEF ProcessBlock, Store

(* Applying a block whose parents are applied keeps a document good.       *)
LEMMA ProcessGood ==
  ASSUME NEW cd \in CDag, NEW fd \in FDag, GoodDag(cd, fd),
         NEW s \in Store, GoodStore(s, cd, fd),
         NEW known, s.applied \subseteq known,
         NEW c \in Cid, 0 < cd[c].prio, cd[c].heads \subseteq s.applied,
         ~ProcessFails(s, cd[c], fd)
  PROVE  GoodStore(ProcessBlock(s, c, cd[c], fd, known), cd, fd)
  <1> DEFINE r == ProcessBlock(s, c, cd[c], fd, known)
  <1> DEFINE b == cd[c]
  <1> DEFINE fb(f) == fd[f][b.links[f]]
  <1>1. b \in CBlock /\ r \in Store
    BY Zenon, ProcessType DEF CDag
  <1>2. r.applied = s.applied \cup {c}
    BY Zenon DEF ProcessBlock
  <1>3. CausalStore(r, cd)
    <2>1. r.heads = (s.heads \ b.heads) \cup {c}
      BY Zenon DEF ProcessBlock, UpdateHeads, GoodStore, CausalStore
    <2>2. r.heads \subseteq r.applied
      BY Zenon, <1>2, <2>1 DEF GoodStore, CausalStore
    <2>3. \A d \in r.applied : 0 < cd[d].prio /\ cd[d].heads \subseteq r.applied
      BY Zenon, <1>2 DEF GoodStore, CausalStore
    <2>4. \A d \in r.applied : d \in r.heads \/ \E e \in r.applied : d \in cd[e].heads
      BY Zenon, <1>2, <2>1 DEF GoodStore, CausalStore
    <2> QED
      BY Zenon, <2>2, <2>3, <2>4 DEF CausalStore
  <1>4. StatusIsJoin(r, cd)
    <2>1. r.status = IF b.deleted \/ s.status = "deleted" THEN "deleted" ELSE "active"
      BY Zenon DEF ProcessBlock, MergedStatus
    <2>2. s.status = "deleted" <=> \E d \in s.applied : cd[d].deleted
      BY Zenon DEF GoodStore, StatusIsJoin
    <2> QED
      BY Zenon, <1>2, <2>1, <2>2 DEF StatusIsJoin
  <1>5. ASSUME NEW f \in Field PROVE HighHeads(r, f, cd, fd)
    <2>1. HighHeads(s, f, cd, fd)
      BY Zenon DEF GoodStore
    <2>2. CASE b.links[f] = 0
      <3>1. r.fheads[f] = s.fheads[f] /\ r.prio[f] = s.prio[f]
        BY <2>2, Zenon DEF ProcessBlock
      <3> QED
        BY <1>2, <2>1, <2>2, <3>1, Zenon DEF HighHeads
    <2>3. CASE b.links[f] # 0
      <3>1. b.links[f] \in Cid /\ fb(f) \in FBlock
        BY Zenon, <1>1, <2>3 DEF CBlock, FDag
      <3>2. 0 < fb(f).prio /\ \A p \in fb(f).heads : fd[f][p].prio < fb(f).prio
        BY <2>3, <3>1, Zenon DEF GoodDag
      <3>3. r.fheads[f] = (s.fheads[f] \ fb(f).heads) \cup {b.links[f]}
        BY Zenon, <2>3 DEF ProcessBlock, UpdateHeads
      <3>4. r.prio[f] = fb(f).prio \/ r.prio[f] = s.prio[f]
        BY <2>3, Zenon DEF ProcessBlock, MergedPrio
      <3>5. \A h \in r.fheads[f] : 0 < fd[f][h].prio
        BY <2>1, <3>2, <3>3, Zenon DEF HighHeads
      <3>6. ASSUME NEW d \in r.applied, cd[d].links[f] # 0
            PROVE  \E h \in r.fheads[f] : fd[f][h].prio >= fd[f][cd[d].links[f]].prio
        <4>1. CASE d = c
          <5>1. fb(f).prio \in Nat
            BY <3>1, Zenon DEF FBlock
          <5>2. b.links[f] \in r.fheads[f]
            BY Zenon, <3>3
          <5>3. fd[f][b.links[f]].prio >= fb(f).prio
            BY <5>1
          <5>4. fd[f][cd[d].links[f]].prio = fb(f).prio
            BY Zenon, <4>1
          <5> QED
            BY <5>2, <5>3, <5>4, Zenon
        <4>2. CASE d # c
          <5>1. d \in s.applied /\ d \in Cid
            BY Zenon, <1>2, <4>2 DEF Store
          <5>2. PICK h \in s.fheads[f] : fd[f][h].prio >= fd[f][cd[d].links[f]].prio
            BY <2>1, <3>6, <5>1, Zenon DEF HighHeads
          <5>3. CASE h \notin fb(f).heads
            BY <3>3, <5>2, <5>3, Zenon
          <5>4. CASE h \in fb(f).heads
            <6>1. h \in Cid /\ cd[d].links[f] \in Cid
              BY <3>6, <5>1 DEF Store, CDag, CBlock
            <6>2. fd[f][h].prio \in Nat /\ fd[f][cd[d].links[f]].prio \in Nat /\ fb(f).prio \in Nat
              BY <3>1, <6>1, Zenon DEF FDag, FBlock
            <6>3. fb(f).prio >= fd[f][cd[d].links[f]].prio
              <7>1. PICK hp \in Nat, dp \in Nat, bp \in Nat :
                      hp = fd[f][h].prio /\ dp = fd[f][cd[d].links[f]].prio /\ bp = fb(f).prio
                BY <6>2, Zenon
              <7>2. hp < bp /\ hp >= dp
                BY <3>2, <5>2, <5>4, <7>1, Zenon
              <7>3. bp >= dp
                BY <7>2
              <7> QED
                BY <7>1, <7>3, Zenon
            <6> QED
              BY <3>3, <6>3, Zenon
          <5> QED
            BY <5>3, <5>4, Zenon
        <4> QED
          BY <4>1, <4>2, Zenon
      <3>7. r.prio[f] = 0 \/ \E d \in r.applied :
               cd[d].links[f] # 0 /\ fd[f][cd[d].links[f]].prio = r.prio[f]
        BY <1>2, <2>1, <2>3, <3>4, Zenon DEF HighHeads
      <3> QED
        BY <3>5, <3>6, <3>7, Zenon DEF HighHeads
    <2> QED
      BY Zenon, <2>2, <2>3
  <1>6. ASSUME NEW f \in Field \ CounterField PROVE IsJoin(r, f, cd, fd)
    <2>1. IsJoin(s, f, cd, fd)
      BY Zenon DEF GoodStore
    <2>2. CASE b.links[f] = 0
      <3>1. r.val[f] = s.val[f] /\ r.prio[f] = s.prio[f]
        BY <2>2, Zenon DEF ProcessBlock
      <3> QED
        BY <1>2, <2>1, <2>2, <3>1, Zenon DEF IsJoin
    <2>3. CASE b.links[f] # 0
      <3>1. b.links[f] \in Cid /\ fb(f) \in FBlock
        BY Zenon, <1>1, <2>3 DEF CBlock, FDag
      <3>2. PICK bp \in Nat, bv \in Nat : fb(f).prio = bp /\ fb(f).val = bv
        BY <3>1, Zenon DEF FBlock
      <3>3. PICK sp \in Nat, sv \in Nat : s.prio[f] = sp /\ s.val[f] = sv
        BY Zenon DEF Store
      <3>4. CASE LwwWins(s, f, fb(f))
        <4>1. r.val[f] = bv /\ r.prio[f] = bp
          BY <2>3, <3>2, <3>4, Zenon DEF ProcessBlock, MergedVal, MergedPrio
        <4>2. bp > sp \/ (bp = sp /\ bv > sv)
          BY <3>2, <3>3, <3>4, Zenon DEF LwwWins
        <4>3. ASSUME NEW d \in s.applied, cd[d].links[f] # 0
              PROVE  LET e == fd[f][cd[d].links[f]]
                     IN e.prio < bp \/ (e.prio = bp /\ e.val <= bv)
          <5>1. cd[d].links[f] \in Cid
            BY <4>3 DEF Store, CDag, CBlock
          <5>2. PICK ep \in Nat, ev \in Nat :
                   fd[f][cd[d].links[f]].prio = ep /\ fd[f][cd[d].links[f]].val = ev
            BY Zenon, <5>1 DEF FDag, FBlock
          <5>3. ep < sp \/ (ep = sp /\ ev <= sv)
            BY <2>1, <3>3, <4>3, <5>2, Zenon DEF IsJoin
          <5> QED
            BY <4>2, <5>2, <5>3
        <4>4. ASSUME NEW d \in r.applied, cd[d].links[f] # 0
              PROVE  LET e == fd[f][cd[d].links[f]]
                     IN e.prio < bp \/ (e.prio = bp /\ e.val <= bv)
          <5>1. CASE d = c
            <6>1. fd[f][cd[d].links[f]].prio = bp /\ fd[f][cd[d].links[f]].val = bv
              BY <3>2, <5>1, Zenon
            <6>2. bv <= bv
              OBVIOUS
            <6> QED
              BY <6>1, <6>2, Zenon
          <5>2. CASE d # c
            <6>1. d \in s.applied
              BY Zenon, <1>2, <5>2
            <6> QED
              BY <4>3, <4>4, <6>1, Zenon
          <5> QED
            BY <5>1, <5>2, Zenon
        <4>5. \E d \in r.applied : /\ cd[d].links[f] # 0
                                   /\ fd[f][cd[d].links[f]].prio = bp
                                   /\ fd[f][cd[d].links[f]].val = bv
          BY <1>2, <2>3, <3>2, Zenon
        <4> QED
          BY <4>1, <4>4, <4>5, Zenon DEF IsJoin
      <3>5. CASE ~LwwWins(s, f, fb(f))
        <4>1. r.val[f] = s.val[f] /\ r.prio[f] = s.prio[f]
          BY <2>3, <3>5, Zenon DEF ProcessBlock, MergedVal, MergedPrio
        <4>2. ~(bp > sp \/ (bp = sp /\ bv > sv))
          BY <3>2, <3>3, <3>5, Zenon DEF LwwWins
        <4>3. bp < sp \/ (bp = sp /\ bv <= sv)
          BY <4>2
        <4> QED
          BY <1>2, <2>1, <3>2, <3>3, <4>1, <4>3, Zenon DEF IsJoin
      <3> QED
        BY <3>4, <3>5, Zenon
    <2> QED
      BY Zenon, <2>2, <2>3
  <1> QED
    BY Zenon, <1>3, <1>4, <1>5, <1>6 DEF GoodStore

-----------------------------------------------------------------------------
(* Blocks are only ever added.                                             *)

Extends(cd, fd, cd2, fd2) ==
    /\ \A c \in Cid : 0 < cd[c].prio => cd2[c] = cd[c]
    /\ \A f \in Field, c \in Cid : 0 < fd[f][c].prio => fd2[f][c] = fd[f][c]

(* New blocks change nothing about a document that has not applied them.   *)
LEMMA StoreExtends ==
  ASSUME NEW cd \in CDag, NEW fd \in FDag, GoodDag(cd, fd),
         NEW cd2, NEW fd2, Extends(cd, fd, cd2, fd2),
         NEW s \in Store, GoodStore(s, cd, fd)
  PROVE  GoodStore(s, cd2, fd2)
  <1>1. \A c \in s.applied : c \in Cid /\ 0 < cd[c].prio /\ cd2[c] = cd[c]
    BY Zenon DEF GoodStore, CausalStore, Store, Extends
  <1>2. CausalStore(s, cd2)
    BY Zenon, <1>1 DEF GoodStore, CausalStore
  <1>3. StatusIsJoin(s, cd2)
    BY Zenon, <1>1 DEF GoodStore, StatusIsJoin
  <1>4. ASSUME NEW f \in Field
        PROVE  \A c \in s.applied : cd[c].links[f] # 0 =>
                  fd2[f][cd[c].links[f]] = fd[f][cd[c].links[f]]
    <2>1. \A c \in s.applied : cd[c].links[f] # 0 =>
             cd[c].links[f] \in Cid /\ 0 < fd[f][cd[c].links[f]].prio
      BY <1>1 DEF GoodDag, CDag, CBlock
    <2> QED
      BY Zenon, <2>1 DEF Extends
  <1>5. ASSUME NEW f \in Field PROVE HighHeads(s, f, cd2, fd2)
    <2>1. \A h \in s.fheads[f] : 0 < fd[f][h].prio /\ fd2[f][h] = fd[f][h]
      BY Zenon DEF GoodStore, HighHeads, Store, Extends
    <2>2. HighHeads(s, f, cd, fd)
      BY Zenon DEF GoodStore
    <2>3. \A c \in s.applied : cd2[c].links[f] # 0 =>
             /\ cd[c].links[f] # 0
             /\ fd2[f][cd2[c].links[f]].prio = fd[f][cd[c].links[f]].prio
      BY <1>1, <1>4
    <2>4. ASSUME NEW c \in s.applied, cd2[c].links[f] # 0
          PROVE  \E h \in s.fheads[f] : fd2[f][h].prio >= fd2[f][cd2[c].links[f]].prio
      <3>1. PICK h \in s.fheads[f] : fd[f][h].prio >= fd[f][cd[c].links[f]].prio
        BY <2>2, <2>3, <2>4, Zenon DEF HighHeads
      <3>2. fd2[f][h].prio >= fd2[f][cd2[c].links[f]].prio
        BY <2>1, <2>3, <2>4, <3>1, Zenon
      <3> QED
        BY Zenon, <3>2
    <2>5. ASSUME s.prio[f] # 0
          PROVE  \E c \in s.applied : cd2[c].links[f] # 0
                                     /\ fd2[f][cd2[c].links[f]].prio = s.prio[f]
      BY <1>1, <1>4, <2>2, <2>5, Zenon DEF HighHeads
    <2> QED
      BY <2>1, <2>4, <2>5, Zenon DEF HighHeads
  <1>6. ASSUME NEW f \in Field \ CounterField PROVE IsJoin(s, f, cd2, fd2)
    <2>1. IsJoin(s, f, cd, fd)
      BY Zenon DEF GoodStore
    <2>2. \A c \in s.applied :
             /\ cd2[c].links[f] = cd[c].links[f]
             /\ cd2[c].links[f] # 0 => fd2[f][cd2[c].links[f]] = fd[f][cd[c].links[f]]
      BY <1>1, <1>4, Zenon
    <2>3. ASSUME NEW c \in s.applied, cd2[c].links[f] # 0
          PROVE  LET b == fd2[f][cd2[c].links[f]]
                 IN b.prio < s.prio[f] \/ (b.prio = s.prio[f] /\ b.val <= s.val[f])
      BY <2>1, <2>2, <2>3, Zenon DEF IsJoin
    <2>4. \/ s.prio[f] = 0 /\ s.val[f] = NilVal
          \/ \E c \in s.applied : /\ cd2[c].links[f] # 0
                                  /\ fd2[f][cd2[c].links[f]].prio = s.prio[f]
                                  /\ fd2[f][cd2[c].links[f]].val = s.val[f]
      BY <2>1, <2>2, Zenon DEF IsJoin
    <2> QED
      BY <2>3, <2>4, Zenon DEF IsJoin
  <1> QED
    BY Zenon, <1>2, <1>3, <1>5, <1>6 DEF GoodStore

(* Nor about a merge that was running when they were added.                *)
LEMMA MergeExtends ==
  ASSUME NEW cd \in CDag, NEW fd \in FDag, GoodDag(cd, fd),
         NEW cd2, NEW fd2, Extends(cd, fd, cd2, fd2),
         NEW m \in Merge, NEW s, NEW known, NEW known2, known \subseteq known2,
         GoodMerge(m, s, known, cd, fd)
  PROVE  GoodMerge(m, s, known2, cd2, fd2)
  <1>1. m.cid \in Cid /\ cd2[m.cid] = cd[m.cid]
    BY Zenon DEF GoodMerge, Merge, Extends
  <1>2. GoodStore(m.work, cd2, fd2)
    BY Zenon, StoreExtends DEF GoodMerge, Merge
  <1> DEFINE under == {m.cid} \cup cd[m.cid].anc
  <1>3. \A c \in under : c \in Cid /\ cd2[c] = cd[c]
    <2>1. cd[m.cid].anc \subseteq Cid
      BY Zenon, <1>1 DEF CDag, CBlock
    <2>2. \A c \in cd[m.cid].anc : 0 < cd[c].prio
      BY <1>1, Zenon DEF GoodDag
    <2> QED
      BY Zenon, <1>1, <2>1, <2>2 DEF Extends
  <1>4. \A i \in 1..Len(m.todo) : cd2[m.todo[i]] = cd[m.todo[i]]
    BY Zenon, <1>3 DEF GoodMerge
  <1> QED
    BY <1>1, <1>2, <1>4, Zenon DEF GoodMerge

-----------------------------------------------------------------------------
(* Local writes.                                                           *)

(* The block stored under a CID is new or is the one already there.        *)
LEMMA CidIsFree ==
  ASSUME NEW dag, NEW none, NEW b, NEW c \in Cid, IsCid(dag, none, b, c)
  PROVE  dag[c] = b \/ dag[c] = none
  BY Zenon DEF IsCid

(* An ancestor of a new block is a head or an ancestor of one.             *)
LEMMA AncestorOfHead ==
  ASSUME NEW cd, NEW heads, NEW d \in heads \cup UNION {cd[p].anc : p \in heads}
  PROVE  d \in heads \/ \E p \in heads : d \in cd[p].anc
  BY Zenon

(* A block above the heads of a good document keeps the DAG good.          *)
LEMMA SaveDag ==
  ASSUME NEW cd \in CDag, NEW fd \in FDag, GoodDag(cd, fd),
         NEW s \in Store, GoodStore(s, cd, fd),
         NEW c \in Cid, NEW b \in CBlock, cd[c] = b \/ cd[c] = NoCBlock,
         NEW h \in Nat, IsHeight(cd, s.heads, h),
         b.prio = h + 1, b.heads = s.heads,
         b.anc = s.heads \cup UNION {cd[p].anc : p \in s.heads},
         NEW fd2 \in FDag,
         \A f \in Field, e \in Cid : 0 < fd[f][e].prio => fd2[f][e] = fd[f][e],
         \A f \in Field, e \in Cid :
            \/ fd2[f][e] = fd[f][e]
            \/ \A p \in fd2[f][e].heads : 0 < fd[f][p].prio /\ fd[f][p].prio < fd2[f][e].prio,
         \A f \in Field : b.links[f] # 0 => 0 < fd2[f][b.links[f]].prio
  PROVE  LET cd2 == [cd EXCEPT ![c] = b]
         IN cd2 \in CDag /\ Extends(cd, fd, cd2, fd2) /\ GoodDag(cd2, fd2)
  <1> DEFINE cd2 == [cd EXCEPT ![c] = b]
  <1>1. cd2 \in CDag /\ cd2[c] = b
    BY Zenon DEF CDag
  <1>2. \A d \in Cid : 0 < cd[d].prio => cd2[d] = cd[d]
    BY DEF CDag, NoCBlock
  <1>3. Extends(cd, fd, cd2, fd2)
    BY Zenon, <1>2 DEF Extends
  <1>4. \A p \in s.heads : p \in Cid /\ 0 < cd[p].prio /\ cd[p].prio <= h
    BY Zenon DEF GoodStore, CausalStore, Store, IsHeight
  <1>5. \A d \in b.anc : d \in Cid /\ 0 < cd[d].prio /\ cd[d].heads \subseteq b.anc
    <2>1. ASSUME NEW d \in s.heads
          PROVE  d \in Cid /\ 0 < cd[d].prio /\ cd[d].heads \subseteq b.anc
      BY <1>4, Zenon DEF GoodDag
    <2>2. ASSUME NEW p \in s.heads, NEW d \in cd[p].anc
          PROVE  d \in Cid /\ 0 < cd[d].prio /\ cd[d].heads \subseteq b.anc
      <3>1. d \in Cid
        BY Zenon, <1>4 DEF CDag, CBlock
      <3>2. 0 < cd[d].prio /\ cd[d].heads \subseteq cd[p].anc
        BY <1>4, Zenon DEF GoodDag
      <3> QED
        BY <3>1, <3>2, Zenon
    <2>3. \A d \in b.anc : d \in s.heads \/ \E p \in s.heads : d \in cd[p].anc
      <3>1. \A d \in s.heads \cup UNION {cd[p].anc : p \in s.heads} :
              d \in s.heads \/ \E p \in s.heads : d \in cd[p].anc
        BY AncestorOfHead, Zenon
      <3> QED
        BY <3>1, Zenon
    <2> QED
      BY <2>1, <2>2, <2>3, Zenon
  <1>6. ASSUME NEW d \in Cid
        PROVE  /\ \A p \in cd2[d].heads : 0 < cd2[p].prio /\ cd2[p].prio < cd2[d].prio
               /\ \A f \in Field : cd2[d].links[f] # 0 => 0 < fd2[f][cd2[d].links[f]].prio
               /\ cd2[d].heads \subseteq cd2[d].anc
               /\ \A e \in cd2[d].anc : 0 < cd2[e].prio /\ cd2[e].heads \subseteq cd2[d].anc
    <2>1. CASE d = c
      <3>1. \A p \in b.heads : 0 < cd2[p].prio /\ cd2[p].prio < b.prio
        <4>1. \A p \in b.heads : cd2[p] = cd[p] /\ cd[p].prio \in Nat
          BY Zenon, <1>2, <1>4 DEF CDag, CBlock
        <4> QED
          BY <1>4, <4>1
      <3>2. \A e \in b.anc : 0 < cd2[e].prio /\ cd2[e].heads \subseteq b.anc
        BY Zenon, <1>2, <1>5
      <3> QED
        BY <1>1, <2>1, <3>1, <3>2, Zenon
    <2>2. CASE d # c
      <3>1. cd2[d] = cd[d] /\ cd[d] \in CBlock
        BY <2>2, Zenon DEF CDag
      <3>2. \A p \in cd[d].heads : cd2[p] = cd[p]
        BY <1>2, <3>1, Zenon DEF GoodDag, CBlock
      <3>3. \A e \in cd[d].anc : cd2[e] = cd[e]
        BY <1>2, <3>1, Zenon DEF GoodDag, CBlock
      <3>4. \A f \in Field : cd[d].links[f] # 0 => 0 < fd2[f][cd[d].links[f]].prio
        <4>1. \A f \in Field : cd[d].links[f] # 0 =>
                 cd[d].links[f] \in Cid /\ 0 < fd[f][cd[d].links[f]].prio
          BY <3>1, Zenon DEF GoodDag, CBlock
        <4> QED
          BY <4>1, Zenon
      <3> QED
        BY <3>1, <3>2, <3>3, <3>4, Zenon DEF GoodDag
    <2> QED
      BY <2>1, <2>2, Zenon
  <1>7. ASSUME NEW f \in Field, NEW e \in Cid
        PROVE  \A p \in fd2[f][e].heads : 0 < fd2[f][p].prio /\ fd2[f][p].prio < fd2[f][e].prio
    <2>1. \A p \in fd2[f][e].heads : p \in Cid
      <3>1. fd2[f][e] \in FBlock
        BY Zenon DEF FDag
      <3> QED
        BY Zenon, <3>1 DEF FBlock
    <2>2. \A p \in fd2[f][e].heads : 0 < fd[f][p].prio /\ fd[f][p].prio < fd2[f][e].prio
      BY Zenon DEF GoodDag
    <2> QED
      BY <2>1, <2>2, Zenon
  <1>8. GoodDag(cd2, fd2)
    BY <1>6, <1>7, Zenon DEF GoodDag
  <1> QED
    BY Zenon, <1>1, <1>3, <1>8

(* What a merge record says of its stack and its queue.                    *)
Walk(stack, todo, under, applied, cd) ==
    /\ \A k \in 1..Len(stack) : stack[k].cid \in under /\ stack[k].heads \subseteq applied
    /\ \A i \in 1..Len(todo) :
         /\ todo[i] \in under
         /\ \A p \in cd[todo[i]].heads :
              \/ p \in applied
              \/ \E j \in 1..(i - 1) : todo[j] = p
              \/ \E k \in 1..Len(stack) : stack[k].cid = p

(* GoodMerge, with what it says of the walk taken apart.                   *)
LEMMA GoodMergeWalk ==
  ASSUME NEW m, NEW s, NEW known, NEW cd, NEW fd
  PROVE  GoodMerge(m, s, known, cd, fd) <=>
           /\ m.cid # 0
           /\ 0 < cd[m.cid].prio
           /\ {m.cid} \cup cd[m.cid].anc \subseteq known
           /\ GoodStore(m.work, cd, fd)
           /\ m.work.applied \subseteq known
           /\ ~m.stale => m.work.applied = s.applied \cup m.marked
           /\ Walk(m.stack, m.todo, {m.cid} \cup cd[m.cid].anc, m.work.applied, cd)
  BY Zenon DEF GoodMerge, Walk

(* A local write makes a running merge stale and changes nothing else.     *)
LEMMA MergeStale ==
  ASSUME NEW m \in Merge, NEW s, NEW s2, NEW known, NEW cd, NEW fd,
         GoodMerge(m, s, known, cd, fd)
  PROVE  GoodMerge([m EXCEPT !.stale = TRUE], s2, known, cd, fd)
  <1> DEFINE m2 == [m EXCEPT !.stale = TRUE]
  <1>1. /\ m2.stale /\ m2.cid = m.cid /\ m2.work = m.work
        /\ m2.stack = m.stack /\ m2.todo = m.todo
    BY Zenon DEF Merge
  <1> HIDE DEF m2
  <1>2. GoodMerge(m2, s2, known, cd, fd)
    BY <1>1, GoodMergeWalk, Zenon
  <1> QED
    BY Zenon, <1>2 DEF m2

(* What a new field block says, and what a document then has applied.      *)
LEMMA FieldBlockParts ==
  ASSUME NEW n, NEW f, NEW val, NEW h
  PROVE  /\ FieldBlock(n, f, val, h).prio = h + 1
         /\ FieldBlock(n, f, val, h).heads = store[n].fheads[f]
  BY Zenon DEF FieldBlock

(* ProcessBlock applies the composite block c and no other.                *)
LEMMA ProcessApplied ==
  ASSUME NEW s, NEW c, NEW b, NEW fd, NEW known
  PROVE  ProcessBlock(s, c, b, fd, known).applied = s.applied \cup {c}
  BY Zenon DEF ProcessBlock

(* A local write keeps the inductive invariant.                            *)
LEMMA SaveInd ==
  ASSUME IndInv, NEW n \in Node, NEW written \in SUBSET Field,
         NEW v \in [written -> Nat], NEW deleted \in BOOLEAN,
         Save(n, written, v, deleted)
  PROVE  IndInv'
  <1> DEFINE s == store[n]
  <1>a. PICK fh \in [written -> 0..MaxBlocks], h \in 0..MaxBlocks :
          /\ \A f \in written : IsHeight(fdag[f], s.fheads[f], fh[f])
          /\ IsHeight(cdag, s.heads, h)
          /\ \E fc \in [written -> Cid], c \in Cid :
               LET fb == [f \in written |-> FieldBlock(n, f, v[f], fh[f])]
                   links == [f \in Field |-> IF f \in written THEN fc[f] ELSE 0]
                   b == CompositeBlock(n, links, deleted, h)
                   fd == [f \in Field |->
                            IF f \in written THEN [fdag[f] EXCEPT ![fc[f]] = fb[f]]
                                             ELSE fdag[f]]
               IN /\ \A f \in written : IsCid(fdag[f], NoFBlock, fb[f], fc[f])
                  /\ IsCid(cdag, NoCBlock, b, c)
                  /\ CommitSave(n, c, b, fd)
    BY Zenon DEF Save
  <1> DEFINE fb == [f \in written |-> FieldBlock(n, f, v[f], fh[f])]
  <1>b. PICK fc \in [written -> Cid], c \in Cid :
          LET links == [f \in Field |-> IF f \in written THEN fc[f] ELSE 0]
              b == CompositeBlock(n, links, deleted, h)
              fd == [f \in Field |->
                       IF f \in written THEN [fdag[f] EXCEPT ![fc[f]] = fb[f]]
                                        ELSE fdag[f]]
          IN /\ \A f \in written : IsCid(fdag[f], NoFBlock, fb[f], fc[f])
             /\ IsCid(cdag, NoCBlock, b, c)
             /\ CommitSave(n, c, b, fd)
    BY <1>a, Zenon
  <1> DEFINE links == [f \in Field |-> IF f \in written THEN fc[f] ELSE 0]
  <1> DEFINE b == CompositeBlock(n, links, deleted, h)
  <1> DEFINE fd == [f \in Field |->
                      IF f \in written THEN [fdag[f] EXCEPT ![fc[f]] = fb[f]]
                                       ELSE fdag[f]]
  <1> DEFINE cd == [cdag EXCEPT ![c] = b]
  <1>c. /\ \A f \in written : IsCid(fdag[f], NoFBlock, fb[f], fc[f])
        /\ IsCid(cdag, NoCBlock, b, c)
        /\ CommitSave(n, c, b, fd)
    BY <1>b, Zenon
  <1>d. \A f \in written : fb[f] = FieldBlock(n, f, v[f], fh[f])
    BY Zenon
  <1>e. /\ \A f \in written : links[f] = fc[f] /\ fd[f] = [fdag[f] EXCEPT ![fc[f]] = fb[f]]
        /\ \A f \in Field \ written : links[f] = 0 /\ fd[f] = fdag[f]
    BY Zenon
  <1>2. /\ cdag \in CDag /\ fdag \in FDag /\ GoodDag(cdag, fdag)
        /\ s \in Store /\ GoodStore(s, cdag, fdag)
    BY Zenon DEF IndInv, TypeOK, CDag, FDag
  <1>3. h \in Nat /\ \A f \in written : fh[f] \in Nat
    BY BoundAssumption
  <1>4. b \in CBlock
    <2>1. s.heads \subseteq Cid /\ \A p \in s.heads : cdag[p].anc \subseteq Cid
      BY Zenon, <1>2 DEF Store, CDag, CBlock
    <2>2. links \in [Field -> Cid \cup {0}]
      BY Zenon
    <2> QED
      BY <1>3, <2>1, <2>2 DEF CBlock, CompositeBlock
  <1>5. \A f \in written : fb[f] \in FBlock
    <2>1. \A f \in written : s.fheads[f] \in SUBSET Cid /\ v[f] \in Nat
      BY Zenon, <1>2 DEF Store
    <2> QED
      BY <1>3, <1>d, <2>1 DEF FBlock, FieldBlock
  <1>6. fd \in FDag
    BY Zenon, <1>2, <1>5 DEF FDag
  <1>f. ASSUME NEW f \in written, NEW e \in Cid
        PROVE  fd[f][e] = IF e = fc[f] THEN fb[f] ELSE fdag[f][e]
    <2>1. fdag[f] \in [Cid -> FBlock] /\ fd[f] = [fdag[f] EXCEPT ![fc[f]] = fb[f]]
      BY Zenon, <1>2, <1>e DEF FDag
    <2> HIDE DEF fd
    <2> QED
      BY <2>1, Zenon
  <1> HIDE DEF links, fb, fd
  <1>7. cdag[c] = b \/ cdag[c] = NoCBlock
    BY Zenon, <1>c, CidIsFree
  <1>8. ASSUME NEW f \in Field, NEW e \in Cid
        PROVE  /\ 0 < fdag[f][e].prio => fd[f][e] = fdag[f][e]
               /\ \/ fd[f][e] = fdag[f][e]
                  \/ \A p \in fd[f][e].heads : 0 < fdag[f][p].prio /\ fdag[f][p].prio < fd[f][e].prio
    <2>1. CASE f \notin written \/ e # fc[f]
      BY <1>e, <1>f, <2>1
    <2>2. CASE f \in written /\ e = fc[f]
      <3>1. fd[f][e] = fb[f]
        BY Zenon, <1>f, <2>2
      <3>2. fdag[f][e] = fb[f] \/ fdag[f][e] = NoFBlock
        <4>1. IsCid(fdag[f], NoFBlock, fb[f], e)
          BY Zenon, <1>c, <2>2
        <4> QED
          BY Zenon, <4>1, CidIsFree
      <3>3. \A p \in s.fheads[f] : 0 < fdag[f][p].prio /\ fdag[f][p].prio < fh[f] + 1
        <4>1. \A p \in s.fheads[f] : 0 < fdag[f][p].prio
          BY <1>2, Zenon DEF GoodStore, HighHeads
        <4>2. \A p \in s.fheads[f] : fdag[f][p].prio <= fh[f]
          BY <1>a, <2>2, Zenon DEF IsHeight
        <4>3. \A p \in s.fheads[f] : fdag[f][p].prio \in Nat
          BY <1>2 DEF Store, FDag, FBlock
        <4> QED
          BY <1>3, <2>2, <4>1, <4>2, <4>3
      <3>4. ~(0 < NoFBlock.prio)
        BY DEF NoFBlock
      <3>5. fb[f].heads = s.fheads[f] /\ fb[f].prio = fh[f] + 1
        <4>1. fb[f] = FieldBlock(n, f, v[f], fh[f])
          BY Zenon, <1>d, <2>2
        <4> QED
          BY <4>1, FieldBlockParts
      <3> QED
        BY Zenon, <3>1, <3>2, <3>3, <3>4, <3>5
    <2> QED
      BY <2>1, <2>2, Zenon
  <1>9. ASSUME NEW f \in Field, links[f] # 0 PROVE 0 < fd[f][links[f]].prio
    <2>1. f \in written /\ links[f] = fc[f]
      BY <1>9, <1>e, Zenon
    <2>2. fd[f][fc[f]] = fb[f]
      BY Zenon, <1>f, <2>1
    <2>3. fb[f].prio = fh[f] + 1
      <3>1. fb[f] = FieldBlock(n, f, v[f], fh[f])
        BY Zenon, <1>d, <2>1
      <3> QED
        BY <3>1, FieldBlockParts
    <2> QED
      BY <1>3, <2>1, <2>2, <2>3
  <1>10. /\ b.prio = h + 1 /\ b.heads = s.heads /\ b.links = links
         /\ b.anc = s.heads \cup UNION {cdag[p].anc : p \in s.heads}
    BY Zenon DEF CompositeBlock
  <1> HIDE DEF b
  <1>11. \A f \in Field, e \in Cid : 0 < fdag[f][e].prio => fd[f][e] = fdag[f][e]
    BY Zenon, <1>8
  <1>12. cd \in CDag /\ Extends(cdag, fdag, cd, fd) /\ GoodDag(cd, fd)
    <2>1. \A f \in Field, e \in Cid :
            \/ fd[f][e] = fdag[f][e]
            \/ \A p \in fd[f][e].heads : 0 < fdag[f][p].prio /\ fdag[f][p].prio < fd[f][e].prio
      BY Zenon, <1>8
    <2>2. \A f \in Field : b.links[f] # 0 => 0 < fd[f][b.links[f]].prio
      BY Zenon, <1>9, <1>10
    <2>3. IsHeight(cdag, s.heads, h)
      BY <1>a, Zenon
    <2> QED
      BY <1>2, <1>3, <1>4, <1>6, <1>7, <1>10, <1>11, <2>1, <2>2, <2>3, SaveDag, Zenon
  <1>13. /\ ~ProcessFails(s, b, fd)
         /\ cdag' = cd /\ fdag' = fd
         /\ bstore' = [bstore EXCEPT ![n] = @ \cup {c}]
         /\ toMerge' = [toMerge EXCEPT ![n] = @ \ ({c} \cup s.heads)]
         /\ store' = [store EXCEPT ![n] = ProcessBlock(s, c, b, fd, bstore[n])]
         /\ merge' = [merge EXCEPT ![n].stale = merge[n].busy]
         /\ syncing' = syncing /\ puts' = puts
    BY Zenon, <1>c, <1>10 DEF CommitSave, syncVars
  <1>14. cd[c] = b
    BY Zenon, <1>2 DEF CDag
  <1> HIDE DEF cd
  <1>15. ProcessBlock(s, c, b, fd, bstore[n]) \in Store
    BY Zenon, <1>2, <1>4, <1>6, ProcessType
  <1>16. store' \in [Node -> Store] /\ store'[n] = ProcessBlock(s, c, b, fd, bstore[n])
         /\ \A m \in Node \ {n} : store'[m] = store[m]
    BY Zenon, <1>13, <1>15 DEF IndInv, TypeOK
  <1>17. TypeOK'
    <2>1. bstore' \in [Node -> SUBSET Cid] /\ toMerge' \in [Node -> SUBSET Cid]
      BY Zenon, <1>13 DEF IndInv, TypeOK
    <2>2. [merge[n] EXCEPT !.stale = merge[n].busy] \in Merge
      <3>1. merge[n] \in Merge
        BY Zenon DEF IndInv, TypeOK
      <3>2. merge[n].busy \in BOOLEAN
        BY Zenon, <3>1 DEF Merge
      <3> QED
        BY <3>1, <3>2, Zenon DEF Merge
    <2>3. merge' \in [Node -> Merge]
      BY Zenon, <1>13, <2>2 DEF IndInv, TypeOK
    <2> QED
      BY <1>6, <1>12, <1>13, <1>16, <2>1, <2>3 DEF IndInv, TypeOK, CDag, FDag
  <1>18. \A m \in Node : GoodStore(store[m], cd, fd)
    BY Zenon, <1>2, <1>12, StoreExtends DEF IndInv, TypeOK
  <1>19. s.applied \subseteq bstore[n]
    BY <1>2, Zenon DEF IndInv, MergedIsApplied
  <1>20. GoodStore(store'[n], cd, fd)
    <2>1. 0 < b.prio /\ b.heads \subseteq s.applied
      <3>1. s.heads \subseteq s.applied
        BY <1>2, Zenon DEF GoodStore, CausalStore
      <3>2. 0 < h + 1
        BY <1>3
      <3> QED
        BY Zenon, <1>10, <3>1, <3>2
    <2>2. GoodStore(ProcessBlock(s, c, cd[c], fd, bstore[n]), cd, fd)
      BY <1>2, <1>6, <1>12, <1>13, <1>14, <1>18, <1>19, <2>1, ProcessGood, Zenon
    <2> QED
      BY <1>14, <1>16, <2>2, Zenon
  <1>21. (\A m \in Node : GoodStore(store[m], cdag, fdag))'
    BY Zenon, <1>13, <1>16, <1>18, <1>20
  <1>22. MergedIsApplied' /\ GoodSyncs'
    <2>1. store'[n].applied = s.applied \cup {c}
      <3>1. ProcessBlock(s, c, b, fd, bstore[n]).applied = s.applied \cup {c}
        BY ProcessApplied
      <3>2. store'[n] = ProcessBlock(s, c, b, fd, bstore[n])
        BY <1>16, Zenon
      <3> QED
        BY <3>1, <3>2, Zenon
    <2>2. bstore'[n] = bstore[n] \cup {c} /\ toMerge'[n] = toMerge[n] \ ({c} \cup s.heads)
      BY Zenon, <1>13 DEF IndInv, TypeOK
    <2>3. s.heads \subseteq s.applied
      BY <1>2, Zenon DEF GoodStore, CausalStore
    <2>4. \A m \in Node \ {n} : bstore'[m] = bstore[m] /\ toMerge'[m] = toMerge[m]
      BY Zenon, <1>13 DEF IndInv, TypeOK
    <2>5. \A d \in Cid : d \in bstore[n] /\ d \notin toMerge[n] => d \in s.applied
      BY Zenon DEF IndInv, MergedIsApplied, IsMerged
    <2>6. \A d \in Cid : d \in bstore'[n] /\ d \notin toMerge'[n] => d \in store'[n].applied
      BY Zenon, <2>1, <2>2, <2>3, <2>5
    <2>7. store'[n].applied \subseteq bstore'[n]
      BY Zenon, <1>19, <2>1, <2>2
    <2>8. MergedIsApplied'
      BY <1>16, <2>4, <2>6, <2>7, Zenon DEF IndInv, MergedIsApplied, IsMerged
    <2>9. toMerge[n] \cup s.applied \subseteq toMerge'[n] \cup store'[n].applied
      BY Zenon, <2>1, <2>2, <2>3
    <2>10. \A m \in Node : \A p \in puts[m] :
             p.marked => p.cid \in toMerge'[m] \cup store'[m].applied
      BY <1>16, <2>4, <2>9, Zenon DEF IndInv, GoodSyncs
    <2>11. \A m \in Node : \A d \in syncing[m] : 0 < cd[d].prio
      BY <1>12, Zenon DEF IndInv, GoodSyncs, TypeOK, Extends
    <2> QED
      BY <1>13, <2>8, <2>10, <2>11, Zenon DEF GoodSyncs
  <1>23. ASSUME NEW m \in Node, merge'[m].busy
         PROVE  GoodMerge(merge'[m], store'[m], bstore'[m], cd, fd)
    <2>1. merge[m].busy /\ merge[m] \in Merge /\ bstore[m] \subseteq bstore'[m]
      BY <1>13, <1>23 DEF IndInv, TypeOK, Merge
    <2>2. GoodMerge(merge[m], store[m], bstore[m], cdag, fdag)
      BY <2>1, Zenon DEF IndInv
    <2>3. GoodMerge(merge[m], store[m], bstore'[m], cd, fd)
      <3>1. cdag \in CDag /\ fdag \in FDag /\ GoodDag(cdag, fdag)
        BY Zenon, <1>2
      <3>2. Extends(cdag, fdag, cd, fd)
        BY Zenon, <1>12
      <3> QED
        BY <2>1, <2>2, <3>1, <3>2, MergeExtends
    <2>4. CASE m # n
      BY Zenon, <1>13, <1>16, <2>3, <2>4 DEF IndInv, TypeOK
    <2>5. CASE m = n
      <3>1. merge'[m] = [merge[m] EXCEPT !.stale = TRUE]
        BY <1>13, <2>1, <2>5, Zenon DEF IndInv, TypeOK, Merge
      <3> QED
        BY <2>1, <2>3, <3>1, MergeStale
    <2> QED
      BY Zenon, <2>4, <2>5
  <1> QED
    BY <1>12, <1>13, <1>17, <1>21, <1>22, <1>23, Zenon DEF IndInv


-----------------------------------------------------------------------------
(* Sequences.                                                              *)

(* A non-empty sequence is its head followed by its tail.                  *)
LEMMA TailFacts ==
  ASSUME NEW S, NEW q \in Seq(S), q # <<>>
  PROVE  /\ Head(q) = q[1] /\ Head(q) \in S /\ Tail(q) \in Seq(S)
         /\ Len(q) \in Nat \ {0} /\ Len(Tail(q)) = Len(q) - 1
         /\ \A i \in 1..Len(Tail(q)) : Tail(q)[i] = q[i + 1]
  OBVIOUS

(* A function on 1..k is a sequence of length k.                           *)
LEMMA FunctionIsSeq ==
  ASSUME NEW S, NEW k \in Nat, NEW q \in [1..k -> S]
  PROVE  q \in Seq(S) /\ Len(q) = k
  OBVIOUS

(* Where the elements of a concatenation come from.                        *)
LEMMA ConcatFacts ==
  ASSUME NEW S, NEW p \in Seq(S), NEW q \in Seq(S)
  PROVE  /\ p \o q \in Seq(S) /\ Len(p) \in Nat /\ Len(q) \in Nat
         /\ Len(p \o q) = Len(p) + Len(q)
         /\ \A i \in 1..Len(p) : (p \o q)[i] = p[i]
         /\ \A i \in 1..Len(q) : (p \o q)[Len(p) + i] = q[i]
         /\ \A i \in 1..Len(p \o q) :
              \/ i \in 1..Len(p) /\ (p \o q)[i] = p[i]
              \/ i - Len(p) \in 1..Len(q) /\ (p \o q)[i] = q[i - Len(p)]
  OBVIOUS

-----------------------------------------------------------------------------
(* The walk of loadComposites and the merge.                               *)

(* A call on a block of the merge target returns: the block is applied.    *)
LEMMA WalkPop ==
  ASSUME NEW stack \in Seq(Frame), stack # <<>>, NEW todo \in Seq(Cid),
         NEW under, NEW applied, NEW cd,
         Walk(stack, todo, under, applied, cd), Head(stack).cid \in Head(stack).heads
  PROVE  Walk(Tail(stack), todo, under, applied, cd)
  <1> DEFINE rest == Tail(stack)
  <1>1. /\ Len(stack) \in Nat \ {0} /\ Len(rest) = Len(stack) - 1 /\ Head(stack) = stack[1]
        /\ \A k \in 1..Len(rest) : rest[k] = stack[k + 1]
    BY Zenon, TailFacts
  <1> HIDE DEF rest
  <1>2. stack[1].cid \in applied
    BY <1>1 DEF Walk
  <1>3. \A k \in 1..Len(rest) : rest[k].cid \in under /\ rest[k].heads \subseteq applied
    <2>1. \A k \in 1..Len(stack) : stack[k].cid \in under /\ stack[k].heads \subseteq applied
      BY Zenon DEF Walk
    <2> QED
      BY <1>1, <2>1
  <1>4. ASSUME NEW i \in 1..Len(todo), NEW p \in cd[todo[i]].heads, p \notin applied,
               ~\E j \in 1..(i - 1) : todo[j] = p
        PROVE  \E k \in 1..Len(rest) : rest[k].cid = p
    <2>1. PICK k \in 1..Len(stack) : stack[k].cid = p
      BY Zenon, <1>4 DEF Walk
    <2>2. k # 1
      BY Zenon, <1>2, <1>4, <2>1
    <2>3. k - 1 \in 1..Len(rest) /\ rest[k - 1] = stack[k]
      BY <1>1, <2>2
    <2> QED
      BY Zenon, <2>1, <2>3
  <1>5. \A i \in 1..Len(todo) : todo[i] \in under
    BY Zenon DEF Walk
  <1>6. Walk(rest, todo, under, applied, cd)
    BY Zenon, <1>3, <1>4, <1>5 DEF Walk
  <1> QED
    BY Zenon, <1>6 DEF rest

(* A call queues its block in front and calls itself on every parent.      *)
LEMMA WalkPush ==
  ASSUME NEW stack \in Seq(Frame), stack # <<>>, NEW todo \in Seq(Cid),
         NEW under \in SUBSET Cid, NEW applied, NEW cd,
         Walk(stack, todo, under, applied, cd),
         cd[Head(stack).cid].heads \subseteq under,
         NEW calls \in Seq(Frame),
         \A i \in 1..Len(calls) : calls[i].cid \in cd[Head(stack).cid].heads
                                  /\ calls[i].heads = Head(stack).heads,
         \A p \in cd[Head(stack).cid].heads : \E i \in 1..Len(calls) : calls[i].cid = p
  PROVE  Walk(calls \o Tail(stack), <<Head(stack).cid>> \o todo, under, applied, cd)
  <1> DEFINE rest == Tail(stack)
  <1> DEFINE st == calls \o rest
  <1> DEFINE c == Head(stack).cid
  <1> DEFINE td == <<c>> \o todo
  <1>1. /\ Len(stack) \in Nat \ {0} /\ Len(rest) = Len(stack) - 1
        /\ Head(stack) = stack[1] /\ rest \in Seq(Frame)
        /\ \A k \in 1..Len(rest) : rest[k] = stack[k + 1]
    BY Zenon, TailFacts
  <1>2. c \in under /\ c \in Cid /\ Head(stack).heads \subseteq applied
    BY <1>1 DEF Walk
  <1> HIDE DEF rest, c
  <1>3. /\ Len(calls) \in Nat /\ Len(rest) \in Nat /\ Len(st) = Len(calls) + Len(rest)
        /\ \A i \in 1..Len(calls) : st[i] = calls[i]
        /\ \A i \in 1..Len(rest) : st[Len(calls) + i] = rest[i]
        /\ \A i \in 1..Len(st) :
             \/ i \in 1..Len(calls) /\ st[i] = calls[i]
             \/ i - Len(calls) \in 1..Len(rest) /\ st[i] = rest[i - Len(calls)]
    <2>1. /\ Len(calls) \in Nat /\ Len(rest) \in Nat /\ Len(st) = Len(calls) + Len(rest)
          /\ \A i \in 1..Len(calls) : st[i] = calls[i]
      <3>1. Len(calls) \in Nat /\ Len(rest) \in Nat
        BY <1>1
      <3>2. Len(st) = Len(calls) + Len(rest)
        <4>1. rest \in Seq(Frame)
          BY Zenon, <1>1
        <4> QED
          BY <4>1
      <3>3. \A i \in 1..Len(calls) : st[i] = calls[i]
        BY <1>1, <3>1
      <3> QED
        BY Zenon, <3>1, <3>2, <3>3
    <2>2. \A i \in 1..Len(rest) : st[Len(calls) + i] = rest[i]
      BY <1>1, ConcatFacts
    <2>3. ASSUME NEW i \in 1..Len(st)
          PROVE  \/ i \in 1..Len(calls) /\ st[i] = calls[i]
                 \/ i - Len(calls) \in 1..Len(rest) /\ st[i] = rest[i - Len(calls)]
      <3>1. CASE i <= Len(calls)
        BY <2>1, <3>1
      <3>2. CASE i > Len(calls)
        <4>1. i - Len(calls) \in 1..Len(rest) /\ Len(calls) + (i - Len(calls)) = i
          BY <2>1, <3>2
        <4> QED
          BY Zenon, <2>2, <4>1
      <3> QED
        BY <2>1, <3>1, <3>2
    <2> QED
      BY Zenon, <2>1, <2>2, <2>3
  <1>4. /\ Len(todo) \in Nat /\ Len(td) = Len(todo) + 1 /\ td[1] = c
        /\ \A i \in 1..Len(todo) : td[i + 1] = todo[i]
        /\ \A i \in 1..Len(td) : i = 1 \/ (i - 1 \in 1..Len(todo) /\ td[i] = todo[i - 1])
    <2>1. <<c>> \in Seq(Cid) /\ Len(<<c>>) = 1 /\ <<c>>[1] = c
      BY <1>2
    <2> QED
      BY <2>1, ConcatFacts
  <1> HIDE DEF st, td
  <1>5. \A k \in 1..Len(st) : st[k].cid \in under /\ st[k].heads \subseteq applied
    <2>1. \A k \in 1..Len(calls) : calls[k].cid \in under /\ calls[k].heads \subseteq applied
      BY <1>2, Zenon DEF c
    <2>2. \A k \in 1..Len(rest) : rest[k].cid \in under /\ rest[k].heads \subseteq applied
      <3>1. \A k \in 1..Len(stack) : stack[k].cid \in under /\ stack[k].heads \subseteq applied
        BY Zenon DEF Walk
      <3>2. \A k \in 1..Len(rest) : k + 1 \in 1..Len(stack)
        BY <1>1
      <3> QED
        BY <1>1, <3>1, <3>2, Zenon
    <2> QED
      BY <1>3, <2>1, <2>2, Zenon
  <1>6. \A i \in 1..Len(td) : td[i] \in under
    BY <1>2, <1>4, Zenon DEF Walk
  <1>7. ASSUME NEW i \in 1..Len(td), NEW p \in cd[td[i]].heads
        PROVE  \/ p \in applied
               \/ \E j \in 1..(i - 1) : td[j] = p
               \/ \E k \in 1..Len(st) : st[k].cid = p
    <2>1. CASE i = 1
      <3>1. PICK k \in 1..Len(calls) : calls[k].cid = p
        BY Zenon, <1>4, <2>1 DEF c
      <3>2. k \in 1..Len(st) /\ st[k] = calls[k]
        BY <1>3
      <3> QED
        BY Zenon, <3>1, <3>2
    <2>2. CASE i # 1
      <3>1. i - 1 \in 1..Len(todo) /\ td[i] = todo[i - 1]
        BY Zenon, <1>4, <2>2
      <3>2. \/ p \in applied
            \/ \E j \in 1..((i - 1) - 1) : todo[j] = p
            \/ \E k \in 1..Len(stack) : stack[k].cid = p
        BY <3>1, Zenon DEF Walk
      <3>3. ASSUME NEW j \in 1..((i - 1) - 1), todo[j] = p
            PROVE  \E k \in 1..(i - 1) : td[k] = p
        <4>1. j \in 1..Len(todo) /\ j + 1 \in 1..(i - 1)
          BY <1>4, <3>1
        <4> QED
          BY Zenon, <1>4, <3>3, <4>1
      <3>4. ASSUME NEW k \in 1..Len(stack), stack[k].cid = p
            PROVE  \/ \E j \in 1..(i - 1) : td[j] = p
                   \/ \E l \in 1..Len(st) : st[l].cid = p
        <4>1. CASE k = 1
          <5>1. td[1] = p /\ 1 \in 1..(i - 1)
            BY <1>1, <1>4, <2>2, <3>4, <4>1 DEF c
          <5> QED
            BY Zenon, <5>1
        <4>2. CASE k # 1
          <5>1. k - 1 \in 1..Len(rest) /\ rest[k - 1] = stack[k]
            BY <1>1, <4>2
          <5>2. Len(calls) + (k - 1) \in 1..Len(st)
            BY <1>3, <5>1
          <5>3. st[Len(calls) + (k - 1)] = rest[k - 1]
            BY <1>3, <5>1, Zenon
          <5> QED
            BY Zenon, <3>4, <5>1, <5>2, <5>3
        <4> QED
          BY Zenon, <4>1, <4>2
      <3> QED
        BY <3>2, <3>3, <3>4, Zenon
    <2> QED
      BY Zenon, <2>1, <2>2
  <1>8. Walk(st, td, under, applied, cd)
    BY <1>5, <1>6, <1>7, Zenon DEF Walk
  <1> QED
    BY Zenon, <1>8 DEF st, td, rest, c

(* A call goes a level down with the merge target.                         *)
LEMMA WalkBack ==
  ASSUME NEW stack \in Seq(Frame), stack # <<>>, NEW todo \in Seq(Cid),
         NEW under, NEW applied, NEW cd,
         Walk(stack, todo, under, applied, cd),
         NEW fr \in Frame, fr.cid = Head(stack).cid, fr.heads \subseteq applied
  PROVE  Walk(<<fr>> \o Tail(stack), todo, under, applied, cd)
  <1> DEFINE rest == Tail(stack)
  <1> DEFINE st == <<fr>> \o rest
  <1>1. /\ Len(stack) \in Nat \ {0} /\ Len(rest) = Len(stack) - 1
        /\ Head(stack) = stack[1] /\ rest \in Seq(Frame)
        /\ \A k \in 1..Len(rest) : rest[k] = stack[k + 1]
    BY Zenon, TailFacts
  <1>2. rest \in Seq(Frame)
    BY Zenon, <1>1
  <1> HIDE DEF rest
  <1>3. Len(st) = Len(rest) + 1 /\ st[1] = fr /\ \A i \in 1..Len(rest) : st[i + 1] = rest[i]
    BY <1>2
  <1> HIDE DEF st
  <1>4. Len(st) = Len(stack)
    BY <1>1, <1>3
  <1>5. ASSUME NEW k \in 1..Len(stack)
        PROVE  st[k].cid = stack[k].cid /\ (k = 1 \/ st[k].heads = stack[k].heads)
    <2>1. CASE k = 1
      BY Zenon, <1>1, <1>3, <2>1
    <2>2. CASE k # 1
      <3>1. k - 1 \in 1..Len(rest) /\ (k - 1) + 1 = k
        BY <1>1, <2>2
      <3> QED
        BY Zenon, <1>1, <1>3, <3>1
    <2> QED
      BY Zenon, <2>1, <2>2
  <1>6. \A k \in 1..Len(stack) : st[k].cid \in under /\ st[k].heads \subseteq applied
    BY <1>3, <1>5, Zenon DEF Walk
  <1>7. \A i \in 1..Len(todo) :
         /\ todo[i] \in under
         /\ \A p \in cd[todo[i]].heads :
              \/ p \in applied
              \/ \E j \in 1..(i - 1) : todo[j] = p
              \/ \E k \in 1..Len(stack) : st[k].cid = p
    <2>1. ASSUME NEW i \in 1..Len(todo), NEW p \in cd[todo[i]].heads
          PROVE  \/ p \in applied
                 \/ \E j \in 1..(i - 1) : todo[j] = p
                 \/ \E k \in 1..Len(stack) : stack[k].cid = p
      BY Zenon DEF Walk
    <2>2. \A i \in 1..Len(todo) : todo[i] \in under
      BY Zenon DEF Walk
    <2>3. \A p : (\E k \in 1..Len(stack) : stack[k].cid = p)
                   => \E k \in 1..Len(stack) : st[k].cid = p
      BY <1>5, Zenon
    <2> QED
      BY <2>1, <2>2, <2>3, Zenon
  <1>8. Walk(st, todo, under, applied, cd)
    BY <1>4, <1>6, <1>7, Zenon DEF Walk
  <1> QED
    BY Zenon, <1>8 DEF st, rest

(* Once the walk is over, the first block queued has its parents applied.  *)
LEMMA WalkApply ==
  ASSUME NEW todo \in Seq(Cid), todo # <<>>, NEW under, NEW applied, NEW cd,
         Walk(<<>>, todo, under, applied, cd)
  PROVE  /\ cd[Head(todo)].heads \subseteq applied
         /\ Head(todo) \in under
         /\ Walk(<<>>, Tail(todo), under, applied \cup {Head(todo)}, cd)
  <1> DEFINE rest == Tail(todo)
  <1> DEFINE c == Head(todo)
  <1>1. /\ Len(todo) \in Nat \ {0} /\ Len(rest) = Len(todo) - 1 /\ c = todo[1]
        /\ \A k \in 1..Len(rest) : rest[k] = todo[k + 1]
    BY Zenon, TailFacts
  <1> HIDE DEF rest, c
  <1>2. \A i \in 1..Len(todo) :
          /\ todo[i] \in under
          /\ \A p \in cd[todo[i]].heads :
               p \in applied \/ \E j \in 1..(i - 1) : todo[j] = p
    BY DEF Walk
  <1>3. c \in under /\ cd[c].heads \subseteq applied
    BY <1>1, <1>2
  <1>4. \A k \in 1..Len(<<>>) : FALSE
    OBVIOUS
  <1>5. ASSUME NEW i \in 1..Len(rest)
        PROVE  /\ rest[i] \in under
               /\ \A p \in cd[rest[i]].heads :
                    p \in applied \cup {c} \/ \E j \in 1..(i - 1) : rest[j] = p
    <2>1. i + 1 \in 1..Len(todo) /\ rest[i] = todo[i + 1] /\ (i + 1) - 1 = i
      BY <1>1
    <2>2. rest[i] \in under
      BY Zenon, <1>2, <2>1
    <2>3. ASSUME NEW p \in cd[rest[i]].heads, p \notin applied \cup {c}
          PROVE  \E j \in 1..(i - 1) : rest[j] = p
      <3>1. PICK j \in 1..i : todo[j] = p
        BY Zenon, <1>2, <2>1, <2>3
      <3>2. j # 1
        BY Zenon, <1>1, <2>3, <3>1
      <3>3. j - 1 \in 1..(i - 1) /\ j - 1 \in 1..Len(rest) /\ (j - 1) + 1 = j
        BY <3>2, <1>1
      <3> QED
        BY <1>1, <3>1, <3>3, Zenon
    <2> QED
      BY Zenon, <2>2, <2>3
  <1>6. Walk(<<>>, rest, under, applied \cup {c}, cd)
    BY <1>4, <1>5, Zenon DEF Walk
  <1> QED
    BY Zenon, <1>3, <1>6 DEF rest, c

-----------------------------------------------------------------------------
(* Every step preserves IndInv.                                            *)

(* A node that has never seen the document, and one that is not merging.   *)
LEMMA EmptyGood ==
  ASSUME NEW cd, NEW fd
  PROVE  EmptyStore \in Store /\ GoodStore(EmptyStore, cd, fd) /\ NoMerge \in Merge
  <1>1. EmptyStore \in Store
    BY Zenon, ValueAssumption DEF EmptyStore, Store
  <1>2. CausalStore(EmptyStore, cd) /\ StatusIsJoin(EmptyStore, cd)
    BY Zenon DEF EmptyStore, CausalStore, StatusIsJoin
  <1>3. \A f \in Field : HighHeads(EmptyStore, f, cd, fd)
    BY Zenon DEF EmptyStore, HighHeads
  <1>4. \A f \in Field \ CounterField : IsJoin(EmptyStore, f, cd, fd)
    BY Zenon DEF EmptyStore, IsJoin
  <1>5. NoMerge \in Merge
    BY <1>1 DEF NoMerge, Merge
  <1> QED
    BY Zenon, <1>1, <1>2, <1>3, <1>4, <1>5 DEF GoodStore

(* A network without blocks.                                               *)
LEMMA InitInd == Init => IndInv
  <1> SUFFICES ASSUME Init PROVE IndInv
    BY Zenon
  <1>1. cdag \in [Cid -> CBlock] /\ fdag \in [Field -> [Cid -> FBlock]]
    BY Zenon, NobodyAssumption DEF Init, NoCBlock, NoFBlock, CBlock, FBlock
  <1>2. TypeOK
    BY <1>1, EmptyGood, Zenon DEF Init, TypeOK
  <1>3. GoodDag(cdag, fdag)
    <2>1. \A c \in Cid : /\ cdag[c].heads = {} /\ cdag[c].anc = {}
                         /\ \A f \in Field : cdag[c].links[f] = 0
      BY Zenon DEF Init, NoCBlock
    <2>2. \A f \in Field, c \in Cid : fdag[f][c].heads = {}
      BY Zenon DEF Init, NoFBlock
    <2> QED
      BY Zenon, <2>1, <2>2 DEF GoodDag
  <1>4. \A n \in Node : GoodStore(store[n], cdag, fdag)
    BY Zenon, EmptyGood DEF Init
  <1>5. MergedIsApplied /\ GoodSyncs
    BY Zenon DEF Init, MergedIsApplied, GoodSyncs, IsMerged, EmptyStore
  <1>6. \A n \in Node : ~merge[n].busy
    BY Zenon DEF Init, NoMerge
  <1> QED
    BY Zenon, <1>2, <1>3, <1>4, <1>5, <1>6 DEF IndInv

(* A step that moves the merge of one node and ends syncs.                 *)
LEMMA SyncMergeStep ==
  ASSUME IndInv, NEW n \in Node, NEW m \in Merge,
         merge' = [merge EXCEPT ![n] = m],
         UNCHANGED <<cdag, fdag, bstore, toMerge, store>>,
         syncing' \in [Node -> SUBSET Cid], puts' \in [Node -> SUBSET Put],
         \A k \in Node : syncing'[k] \subseteq syncing[k] /\ puts'[k] \subseteq puts[k],
         m.busy => GoodMerge(m, store[n], bstore[n], cdag, fdag)
  PROVE  IndInv'
  <1>1. TypeOK'
    BY Zenon DEF IndInv, TypeOK
  <1>2. /\ GoodDag(cdag, fdag)' /\ MergedIsApplied'
        /\ \A k \in Node : GoodStore(store[k], cdag, fdag)'
    BY Zenon DEF IndInv, MergedIsApplied, IsMerged
  <1>3. ASSUME NEW k \in Node, merge[k]'.busy
        PROVE  GoodMerge(merge[k], store[k], bstore[k], cdag, fdag)'
    <2>1. merge'[k] = IF k = n THEN m ELSE merge[k]
      BY Zenon DEF IndInv, TypeOK
    <2>2. GoodMerge(merge'[k], store[k], bstore[k], cdag, fdag)
      BY Zenon, <1>3, <2>1 DEF IndInv
    <2> QED
      BY Zenon, <2>2
  <1>4. GoodSyncs'
    BY Zenon DEF IndInv, GoodSyncs
  <1> QED
    BY Zenon, <1>1, <1>2, <1>3, <1>4 DEF IndInv

(* A step that only moves the merge of one node.                           *)
LEMMA MergeStep ==
  ASSUME IndInv, NEW n \in Node, NEW m \in Merge,
         merge' = [merge EXCEPT ![n] = m],
         UNCHANGED <<cdag, fdag, bstore, toMerge, syncing, puts, store>>,
         m.busy => GoodMerge(m, store[n], bstore[n], cdag, fdag)
  PROVE  IndInv'
  <1>1. /\ syncing' \in [Node -> SUBSET Cid] /\ puts' \in [Node -> SUBSET Put]
        /\ \A k \in Node : syncing'[k] \subseteq syncing[k] /\ puts'[k] \subseteq puts[k]
    BY Zenon DEF IndInv, TypeOK
  <1>2. UNCHANGED <<cdag, fdag, bstore, toMerge, store>>
    BY Zenon
  <1> QED
    BY <1>1, <1>2, SyncMergeStep, Zenon

(* A merge that begins is a good one.                                      *)
LEMMA StartGood ==
  ASSUME IndInv, NEW n \in Node, NEW c \in Cid, 0 < cdag[c].prio, NEW tries \in Nat,
         NEW h \in Nat, NEW known, {c} \cup cdag[c].anc \subseteq known,
         bstore[n] \subseteq known,
         NEW m, m = [busy |-> TRUE, cid |-> c, tries |-> tries, stale |-> FALSE,
              stack |-> <<[cid |-> c, heads |-> store[n].heads, height |-> h]>>,
              todo |-> <<>>, work |-> store[n], marked |-> {}]
  PROVE  m \in Merge /\ GoodMerge(m, store[n], known, cdag, fdag)
  <1> DEFINE fr == [cid |-> c, heads |-> store[n].heads, height |-> h]
  <1>1. store[n] \in Store /\ GoodStore(store[n], cdag, fdag)
    BY Zenon DEF IndInv, TypeOK
  <1>2. fr \in Frame /\ fr.cid = c /\ fr.heads = store[n].heads
    BY <1>1, Zenon DEF Frame, Store
  <1>3. store[n].heads \subseteq store[n].applied
    BY Zenon, <1>1 DEF GoodStore, CausalStore
  <1>4. store[n].applied \subseteq bstore[n]
    BY Zenon DEF IndInv, MergedIsApplied
  <1> HIDE DEF fr
  <1>5. /\ m.cid = c /\ ~m.stale /\ m.stack = <<fr>> /\ m.todo = <<>>
        /\ m.work = store[n] /\ m.marked = {}
    BY Zenon DEF fr
  <1>6. m \in Merge
    BY <1>1, <1>2 DEF fr, Merge
  <1>7. Walk(<<fr>>, <<>>, {c} \cup cdag[c].anc, store[n].applied, cdag)
    BY <1>2, <1>3 DEF Walk
  <1>8. c # 0
    BY Zenon, CidIsNat
  <1> QED
    BY <1>1, <1>4, <1>5, <1>6, <1>7, <1>8, GoodMergeWalk, Zenon

(* The sync is done, and the merge of its block begins.                    *)
LEMMA BeginMergeInd ==
  ASSUME IndInv, NEW n \in Node, NEW c \in Cid, BeginMerge(n, c)
  PROVE  IndInv'
  <1>1. 0 < cdag[c].prio /\ {c} \cup cdag[c].anc \subseteq bstore[n]
    BY Zenon DEF IndInv, GoodSyncs, BeginMerge
  <1>2. PICK h \in 0..MaxBlocks : merge' = [merge EXCEPT ![n] =
             [busy |-> TRUE, cid |-> c, tries |-> 0, stale |-> FALSE,
              stack |-> <<[cid |-> c, heads |-> store[n].heads, height |-> h]>>,
              todo |-> <<>>, work |-> store[n], marked |-> {}]]
    BY Zenon DEF BeginMerge, StartMerge
  <1> DEFINE m == [busy |-> TRUE, cid |-> c, tries |-> 0, stale |-> FALSE,
              stack |-> <<[cid |-> c, heads |-> store[n].heads, height |-> h]>>,
              todo |-> <<>>, work |-> store[n], marked |-> {}]
  <1>3. m \in Merge /\ GoodMerge(m, store[n], bstore[n], cdag, fdag)
    <2>1. 0 \in Nat /\ h \in Nat
      BY BoundAssumption
    <2> QED
      BY <1>1, <2>1, StartGood, Zenon
  <1> HIDE DEF m
  <1>4. merge' = [merge EXCEPT ![n] = m]
    BY Zenon, <1>2 DEF m
  <1>5. /\ UNCHANGED <<cdag, fdag, bstore, toMerge, store>>
        /\ syncing' \in [Node -> SUBSET Cid] /\ puts' \in [Node -> SUBSET Put]
        /\ \A k \in Node : syncing'[k] \subseteq syncing[k] /\ puts'[k] \subseteq puts[k]
    BY Zenon DEF BeginMerge, IndInv, TypeOK
  <1> QED
    BY <1>3, <1>4, <1>5, SyncMergeStep, Zenon

(* A restart forgets the merge and the syncs of a node.                    *)
LEMMA RestartInd ==
  ASSUME IndInv, NEW n \in Node, Restart(n)
  PROVE  IndInv'
  <1>1. NoMerge \in Merge /\ ~NoMerge.busy
    BY EmptyGood, Zenon DEF NoMerge
  <1>2. /\ UNCHANGED <<cdag, fdag, bstore, toMerge, store>>
        /\ merge' = [merge EXCEPT ![n] = NoMerge]
        /\ syncing' \in [Node -> SUBSET Cid] /\ puts' \in [Node -> SUBSET Put]
        /\ \A k \in Node : syncing'[k] \subseteq syncing[k] /\ puts'[k] \subseteq puts[k]
    BY Zenon DEF Restart, IndInv, TypeOK
  <1> QED
    BY <1>1, <1>2, SyncMergeStep, Zenon

(* A step that only begins or ends syncs or calls of Put.                  *)
LEMMA SyncStep ==
  ASSUME IndInv, UNCHANGED <<cdag, fdag, bstore, toMerge, store, merge>>,
         syncing' \in [Node -> SUBSET Cid], puts' \in [Node -> SUBSET Put],
         \A k \in Node : \A e \in syncing'[k] : e \in syncing[k] \/ 0 < cdag[e].prio,
         \A k \in Node : \A p \in puts'[k] : p \in puts[k] \/ ~p.marked
  PROVE  IndInv'
  <1>1. GoodSyncs'
    BY Zenon DEF IndInv, GoodSyncs
  <1>2. TypeOK' /\ MergedIsApplied'
    BY Zenon DEF IndInv, TypeOK, MergedIsApplied, IsMerged
  <1> QED
    BY <1>1, <1>2, Zenon DEF IndInv

(* A sync begins, comes to a block that is not there, or fails.            *)
LEMMA SyncInd ==
  ASSUME IndInv, NEW n \in Node, NEW c \in Cid, NEW d \in Cid,
         StartSync(n, c) \/ PutChecks(n, c, d) \/ SyncFails(n, c)
  PROVE  IndInv'
  <1>0. syncing \in [Node -> SUBSET Cid] /\ puts \in [Node -> SUBSET Put]
    BY Zenon DEF IndInv, TypeOK
  <1>1. CASE StartSync(n, c)
    <2>1. /\ syncing' = [syncing EXCEPT ![n] = @ \cup {c}] /\ puts' = puts /\ 0 < cdag[c].prio
          /\ UNCHANGED <<cdag, fdag, bstore, toMerge, store, merge>>
      BY <1>1, Zenon DEF StartSync, Exists
    <2>2. /\ syncing' \in [Node -> SUBSET Cid] /\ puts' \in [Node -> SUBSET Put]
          /\ \A k \in Node : \A e \in syncing'[k] : e \in syncing[k] \/ 0 < cdag[e].prio
          /\ \A k \in Node : puts'[k] = puts[k]
      BY <1>0, <2>1, Zenon
    <2> QED
      BY <2>1, <2>2, SyncStep, Zenon
  <1>2. CASE PutChecks(n, c, d)
    <2> DEFINE q == [sync |-> c, cid |-> d, marked |-> FALSE]
    <2>1. /\ puts' = [puts EXCEPT ![n] = @ \cup {q}] /\ syncing' = syncing
          /\ UNCHANGED <<cdag, fdag, bstore, toMerge, store, merge>>
      BY <1>2, Zenon DEF PutChecks
    <2>2. q \in Put /\ ~q.marked
      BY Zenon DEF Put
    <2> HIDE DEF q
    <2>3. /\ syncing' \in [Node -> SUBSET Cid] /\ puts' \in [Node -> SUBSET Put]
          /\ \A k \in Node : syncing'[k] = syncing[k]
          /\ \A k \in Node : \A p \in puts'[k] : p \in puts[k] \/ ~p.marked
      BY <1>0, <2>1, <2>2, Zenon
    <2> QED
      BY <2>1, <2>3, SyncStep, Zenon
  <1>3. CASE SyncFails(n, c)
    <2>1. /\ syncing' = [syncing EXCEPT ![n] = @ \ {c}] /\ puts' = puts
          /\ UNCHANGED <<cdag, fdag, bstore, toMerge, store, merge>>
      BY <1>3, Zenon DEF SyncFails
    <2>2. /\ syncing' \in [Node -> SUBSET Cid] /\ puts' \in [Node -> SUBSET Put]
          /\ \A k \in Node : syncing'[k] \subseteq syncing[k] /\ puts'[k] = puts[k]
      BY <1>0, <2>1, Zenon
    <2> QED
      BY <2>1, <2>2, SyncStep, Zenon
  <1> QED
    BY <1>1, <1>2, <1>3, Zenon

(* The writes of Put: a mark hides a block, and a block that is stored is  *)
(* marked or applied.                                                      *)
LEMMA PutWritesInd ==
  ASSUME IndInv, NEW n \in Node, NEW p \in puts[n], PutWrites(n, p)
  PROVE  IndInv'
  <1> DEFINE q == [p EXCEPT !.marked = TRUE]
  <1>1. /\ p \in Put /\ p.cid \in Cid
        /\ bstore \in [Node -> SUBSET Cid] /\ toMerge \in [Node -> SUBSET Cid]
        /\ puts \in [Node -> SUBSET Put]
        /\ UNCHANGED <<cdag, fdag, syncing, store, merge>>
    <2>1. /\ bstore \in [Node -> SUBSET Cid] /\ toMerge \in [Node -> SUBSET Cid]
          /\ puts \in [Node -> SUBSET Put]
      BY Zenon DEF IndInv, TypeOK
    <2>2. p \in Put
      BY <2>1, Zenon
    <2>3. p.cid \in Cid
      BY <2>2, Zenon DEF Put
    <2> QED
      BY <2>1, <2>2, <2>3, Zenon DEF PutWrites
  <1>2. q \in Put /\ q.cid = p.cid
    BY <1>1 DEF Put
  <1>3. \/ /\ toMerge' = [toMerge EXCEPT ![n] = @ \cup {p.cid}] /\ bstore' = bstore
           /\ puts' = [puts EXCEPT ![n] = (@ \ {p}) \cup {q}]
        \/ /\ bstore' = [bstore EXCEPT ![n] = @ \cup {p.cid}] /\ toMerge' = toMerge
           /\ puts' = [puts EXCEPT ![n] = @ \ {p}] /\ p.marked
    BY Zenon DEF PutWrites
  <1> HIDE DEF q
  <1>4. /\ bstore' \in [Node -> SUBSET Cid] /\ toMerge' \in [Node -> SUBSET Cid]
        /\ puts' \in [Node -> SUBSET Put]
    <2>1. \A S : \A g \in [Node -> SUBSET S], x \in SUBSET S : [g EXCEPT ![n] = x] \in [Node -> SUBSET S]
      BY Zenon
    <2>2. /\ bstore[n] \cup {p.cid} \in SUBSET Cid /\ toMerge[n] \cup {p.cid} \in SUBSET Cid
          /\ (puts[n] \ {p}) \cup {q} \in SUBSET Put /\ puts[n] \ {p} \in SUBSET Put
      BY <1>1, <1>2, Zenon
    <2>3. /\ [bstore EXCEPT ![n] = bstore[n] \cup {p.cid}] \in [Node -> SUBSET Cid]
          /\ [toMerge EXCEPT ![n] = toMerge[n] \cup {p.cid}] \in [Node -> SUBSET Cid]
          /\ [puts EXCEPT ![n] = (puts[n] \ {p}) \cup {q}] \in [Node -> SUBSET Put]
          /\ [puts EXCEPT ![n] = puts[n] \ {p}] \in [Node -> SUBSET Put]
      BY <1>1, <2>1, <2>2, Zenon
    <2> QED
      BY <1>1, <1>3, <2>3, Zenon
  <1>5. \A k \in Node : k # n => /\ bstore'[k] = bstore[k] /\ toMerge'[k] = toMerge[k]
                                 /\ puts'[k] = puts[k]
    BY <1>1, <1>3, Zenon
  <1>6. \/ /\ toMerge'[n] = toMerge[n] \cup {p.cid} /\ bstore'[n] = bstore[n]
           /\ puts'[n] = (puts[n] \ {p}) \cup {q}
        \/ /\ bstore'[n] = bstore[n] \cup {p.cid} /\ toMerge'[n] = toMerge[n]
           /\ puts'[n] = puts[n] \ {p} /\ p.cid \in toMerge[n] \cup store[n].applied
    BY <1>1, <1>3, Zenon DEF IndInv, GoodSyncs
  <1>7. /\ \A k \in Node : bstore[k] \subseteq bstore'[k] /\ toMerge[k] \subseteq toMerge'[k]
        /\ \A k \in Node : \A c \in bstore'[k] :
             c \in bstore[k] \/ c \in toMerge[k] \cup store[k].applied
        /\ \A k \in Node : \A r \in puts'[k] : r \in puts[k] \/ r.cid \in toMerge'[k]
    BY <1>2, <1>5, <1>6, Zenon
  <1>8. GoodSyncs' /\ TypeOK'
    BY <1>1, <1>4, <1>7, Zenon DEF IndInv, GoodSyncs, TypeOK
  <1>9. MergedIsApplied'
    BY <1>1, <1>4, <1>7, Zenon DEF IndInv, MergedIsApplied, IsMerged
  <1>10. ASSUME NEW k \in Node, merge[k].busy
         PROVE  GoodMerge(merge[k], store[k], bstore'[k], cdag, fdag)
    <2>1. Extends(cdag, fdag, cdag, fdag)
      BY Zenon DEF Extends
    <2>2. /\ cdag \in CDag /\ fdag \in FDag /\ merge[k] \in Merge /\ GoodDag(cdag, fdag)
          /\ GoodMerge(merge[k], store[k], bstore[k], cdag, fdag)
      BY Zenon, <1>10 DEF IndInv, TypeOK, CDag, FDag
    <2> QED
      BY Zenon, <1>7, <2>1, <2>2, MergeExtends
  <1>11. \A k \in Node : merge[k]'.busy => GoodMerge(merge[k], store[k], bstore[k], cdag, fdag)'
    BY <1>1, <1>10, Zenon
  <1> QED
    BY <1>1, <1>8, <1>9, <1>11, Zenon DEF IndInv

(* A conflicting merge starts over or is given up.                         *)
LEMMA ConflictInd ==
  ASSUME IndInv, NEW n \in Node, ConflictMerge(n)
  PROVE  IndInv'
  <1>1. /\ merge[n].busy /\ merge[n] \in Merge
        /\ GoodMerge(merge[n], store[n], bstore[n], cdag, fdag)
    BY Zenon DEF IndInv, TypeOK, ConflictMerge, Loaded
  <1>2. CASE merge' = [merge EXCEPT ![n] = NoMerge]
    <2>1. NoMerge \in Merge /\ ~NoMerge.busy
      BY EmptyGood, Zenon DEF NoMerge
    <2> QED
      BY <1>2, <2>1, MergeStep, Zenon DEF ConflictMerge
  <1>3. CASE StartMerge(n, merge[n].cid, merge[n].tries + 1)
    <2> DEFINE c == merge[n].cid
    <2> DEFINE t == merge[n].tries + 1
    <2>1. c \in Cid /\ t \in Nat /\ 0 < cdag[c].prio /\ {c} \cup cdag[c].anc \subseteq bstore[n]
      <3>1. c # 0 /\ 0 < cdag[c].prio /\ {c} \cup cdag[c].anc \subseteq bstore[n]
        BY <1>1, GoodMergeWalk, Zenon
      <3>2. merge[n].cid \in Cid \cup {0} /\ merge[n].tries \in Nat
        BY Zenon, <1>1 DEF Merge
      <3> QED
        BY <3>1, <3>2
    <2>2. PICK h \in 0..MaxBlocks : merge' = [merge EXCEPT ![n] =
             [busy |-> TRUE, cid |-> c, tries |-> t, stale |-> FALSE,
              stack |-> <<[cid |-> c, heads |-> store[n].heads, height |-> h]>>,
              todo |-> <<>>, work |-> store[n], marked |-> {}]]
      BY <1>3, Zenon DEF StartMerge
    <2> HIDE DEF c, t
    <2> DEFINE m == [busy |-> TRUE, cid |-> c, tries |-> t, stale |-> FALSE,
              stack |-> <<[cid |-> c, heads |-> store[n].heads, height |-> h]>>,
              todo |-> <<>>, work |-> store[n], marked |-> {}]
    <2>3. m \in Merge /\ GoodMerge(m, store[n], bstore[n], cdag, fdag)
      <3>1. h \in Nat
        BY BoundAssumption
      <3> QED
        BY <2>1, <3>1, StartGood, Zenon
    <2> HIDE DEF m
    <2>4. merge' = [merge EXCEPT ![n] = m]
      BY <2>2, Zenon DEF m
    <2> QED
      BY <2>3, <2>4, MergeStep, Zenon DEF ConflictMerge
  <1> QED
    BY Zenon, <1>2, <1>3 DEF ConflictMerge

(* A step of the walk: only the stack and the queue of a merge change.     *)
LEMMA WalkStep ==
  ASSUME IndInv, NEW n \in Node, merge[n].busy,
         NEW stack \in Seq(Frame), NEW todo \in Seq(Cid),
         merge' = [merge EXCEPT ![n].todo = todo, ![n].stack = stack],
         UNCHANGED <<cdag, fdag, bstore, toMerge, syncing, puts, store>>,
         Walk(stack, todo, {merge[n].cid} \cup cdag[merge[n].cid].anc,
              merge[n].work.applied, cdag)
  PROVE  IndInv'
  <1> DEFINE m == [merge[n] EXCEPT !.todo = todo, !.stack = stack]
  <1>1. merge[n] \in Merge /\ GoodMerge(merge[n], store[n], bstore[n], cdag, fdag)
    BY Zenon DEF IndInv, TypeOK
  <1>2. /\ m \in Merge /\ m.cid = merge[n].cid /\ m.stale = merge[n].stale
        /\ m.work = merge[n].work /\ m.marked = merge[n].marked
        /\ m.stack = stack /\ m.todo = todo
    BY <1>1, Zenon DEF Merge
  <1>3. merge' = [merge EXCEPT ![n] = m]
    BY Zenon DEF IndInv, TypeOK, Merge
  <1> HIDE DEF m
  <1>4. GoodMerge(m, store[n], bstore[n], cdag, fdag)
    BY <1>1, <1>2, GoodMergeWalk, Zenon
  <1> QED
    BY <1>2, <1>3, <1>4, MergeStep, Zenon

(* One call of loadComposites: pop, push or go a level down.               *)
LEMMA LoadInd ==
  ASSUME IndInv, NEW n \in Node, LoadComposites(n)
  PROVE  IndInv'
  <1> DEFINE m == merge[n]
  <1> DEFINE call == Head(m.stack)
  <1> DEFINE rest == Tail(m.stack)
  <1> DEFINE b == cdag[call.cid]
  <1> DEFINE under == {m.cid} \cup cdag[m.cid].anc
  <1>1. /\ m \in Merge /\ m.busy /\ GoodMerge(m, store[n], bstore[n], cdag, fdag)
        /\ m.stack # <<>>
        /\ UNCHANGED <<cdag, fdag, bstore, toMerge, syncing, puts, store>>
    BY Zenon DEF IndInv, TypeOK, LoadComposites
  <1>2. /\ m.stack \in Seq(Frame) /\ m.todo \in Seq(Cid) /\ m.cid \in Cid
        /\ Walk(m.stack, m.todo, under, m.work.applied, cdag)
        /\ GoodStore(m.work, cdag, fdag)
    BY <1>1, GoodMergeWalk, Zenon DEF Merge
  <1>3. call \in Frame /\ rest \in Seq(Frame) /\ call = m.stack[1] /\ 1 \in 1..Len(m.stack)
    BY <1>1, <1>2, TailFacts
  <1>4. call.cid \in under /\ call.heads \subseteq m.work.applied
    BY <1>2, <1>3, Zenon DEF Walk
  <1>5. under \in SUBSET Cid /\ cdag \in [Cid -> CBlock]
    BY Zenon, <1>2 DEF IndInv, TypeOK, CBlock
  <1>6. b.heads \subseteq under
    BY <1>2, <1>4, Zenon DEF IndInv, GoodDag
  <1>7. \/ /\ call.cid \in call.heads
           /\ merge' = [merge EXCEPT ![n].stack = rest]
        \/ \E ps \in [1..Cardinality(b.heads) -> b.heads] :
              /\ Lists(ps, b.heads)
              /\ merge' = [merge EXCEPT
                   ![n].todo = <<call.cid>> \o @,
                   ![n].stack = [i \in DOMAIN ps |-> [call EXCEPT !.cid = ps[i]]] \o rest]
        \/ \E h \in 0..MaxBlocks :
              merge' = [merge EXCEPT ![n].stack =
                <<[call EXCEPT !.heads = UNION {cdag[p].heads : p \in call.heads}, !.height = h]>> \o rest]
    BY Zenon DEF LoadComposites
  <1> HIDE DEF call, rest, b, under
  <1>8. CASE call.cid \in call.heads /\ merge' = [merge EXCEPT ![n].stack = rest]
    <2>1. Walk(rest, m.todo, under, m.work.applied, cdag)
      BY Zenon, <1>1, <1>2, <1>8, WalkPop DEF call, rest
    <2>2. merge' = [merge EXCEPT ![n].todo = m.todo, ![n].stack = rest]
      BY <1>1, <1>8, Zenon DEF IndInv, TypeOK, Merge
    <2> QED
      BY <1>1, <1>2, <1>3, <2>1, <2>2, WalkStep, Zenon DEF under
  <1>9. CASE \E ps \in [1..Cardinality(b.heads) -> b.heads] :
               /\ Lists(ps, b.heads)
               /\ merge' = [merge EXCEPT
                    ![n].todo = <<call.cid>> \o @,
                    ![n].stack = [i \in DOMAIN ps |-> [call EXCEPT !.cid = ps[i]]] \o rest]
    <2>1. PICK ps \in [1..Cardinality(b.heads) -> b.heads] :
               /\ Lists(ps, b.heads)
               /\ merge' = [merge EXCEPT
                    ![n].todo = <<call.cid>> \o @,
                    ![n].stack = [i \in DOMAIN ps |-> [call EXCEPT !.cid = ps[i]]] \o rest]
      BY <1>9, Zenon
    <2> DEFINE calls == [i \in DOMAIN ps |-> [call EXCEPT !.cid = ps[i]]]
    <2>2. Cardinality(b.heads) \in Nat
      <3>1. IsFiniteSet(Cid)
        BY BoundAssumption, FS_Interval DEF Cid
      <3>2. b.heads \subseteq Cid
        BY Zenon, <1>5, <1>6
      <3> QED
        BY Zenon, <3>1, <3>2, FS_Subset, FS_CardinalityType
    <2>3. b.heads \subseteq Cid
      BY Zenon, <1>5, <1>6
    <2>4. \A i \in DOMAIN ps : /\ calls[i] \in Frame /\ calls[i].cid = ps[i]
                              /\ calls[i].heads = call.heads /\ ps[i] \in b.heads
      BY <1>3, <2>3, Zenon DEF Frame
    <2>5. calls \in Seq(Frame) /\ Len(calls) = Cardinality(b.heads) /\ DOMAIN ps = 1..Len(calls)
      <3>1. DOMAIN ps = 1..Cardinality(b.heads)
        BY Zenon
      <3>2. calls \in [1..Cardinality(b.heads) -> Frame]
        BY Zenon, <2>4, <3>1
      <3> HIDE DEF calls
      <3>3. calls \in Seq(Frame) /\ Len(calls) = Cardinality(b.heads)
        BY Zenon, <2>2, <3>2, FunctionIsSeq
      <3> QED
        BY Zenon, <3>1, <3>3
    <2> HIDE DEF calls
    <2>6. \A p \in b.heads : \E i \in 1..Len(calls) : calls[i].cid = p
      BY <2>1, <2>4, <2>5 DEF Lists
    <2>7. Walk(calls \o rest, <<call.cid>> \o m.todo, under, m.work.applied, cdag)
      BY <1>1, <1>2, <1>5, <1>6, <2>4, <2>5, <2>6, WalkPush, Zenon DEF call, rest, b
    <2>8. merge' = [merge EXCEPT ![n].todo = <<call.cid>> \o m.todo, ![n].stack = calls \o rest]
      BY Zenon, <2>1 DEF IndInv, TypeOK, Merge, calls
    <2>9. calls \o rest \in Seq(Frame) /\ <<call.cid>> \o m.todo \in Seq(Cid)
      <3>1. calls \in Seq(Frame) /\ rest \in Seq(Frame) /\ m.todo \in Seq(Cid) /\ call.cid \in Cid
        BY <1>2, <1>3, <1>4, <1>5, <2>5, Zenon
      <3>2. <<call.cid>> \in Seq(Cid)
        BY <3>1
      <3> QED
        BY <3>1, <3>2, ConcatFacts, Zenon
    <2> QED
      BY <1>1, <2>7, <2>8, <2>9, WalkStep, Zenon DEF under
  <1>10. CASE \E h \in 0..MaxBlocks : merge' = [merge EXCEPT ![n].stack =
                <<[call EXCEPT !.heads = UNION {cdag[p].heads : p \in call.heads}, !.height = h]>> \o rest]
    <2> DEFINE older == UNION {cdag[p].heads : p \in call.heads}
    <2>1. PICK h \in 0..MaxBlocks : merge' = [merge EXCEPT ![n].stack =
                <<[call EXCEPT !.heads = older, !.height = h]>> \o rest]
      BY <1>10, Zenon
    <2>2. older \subseteq m.work.applied
      BY <1>2, <1>4, Zenon DEF GoodStore, CausalStore
    <2>3. older \subseteq Cid
      BY <1>1, <2>2, Zenon DEF Merge, Store
    <2> HIDE DEF older
    <2> DEFINE fr == [call EXCEPT !.heads = older, !.height = h]
    <2>4. fr \in Frame /\ fr.cid = call.cid /\ fr.heads = older
      <3>1. h \in Nat
        BY BoundAssumption
      <3>2. call \in [cid: Cid, heads: SUBSET Cid, height: Nat]
        BY <1>3, Zenon DEF Frame
      <3> QED
        BY <2>3, <3>1, <3>2, Zenon DEF Frame
    <2> HIDE DEF fr
    <2>5. Walk(<<fr>> \o rest, m.todo, under, m.work.applied, cdag)
      BY <1>1, <1>2, <2>2, <2>4, WalkBack, Zenon DEF call, rest
    <2>6. merge' = [merge EXCEPT ![n].todo = m.todo, ![n].stack = <<fr>> \o rest]
      BY <2>1, Zenon DEF IndInv, TypeOK, Merge, fr
    <2>7. <<fr>> \o rest \in Seq(Frame)
      BY <1>3, <2>4, ConcatFacts
    <2> QED
      BY <1>1, <1>2, <2>5, <2>6, <2>7, WalkStep, Zenon DEF under
  <1> QED
    BY <1>7, <1>8, <1>9, <1>10, Zenon

(* mergeComposites applies the first block queued: its parents are         *)
(* applied, so the document in the transaction stays good.                 *)
LEMMA MergeCompositeInd ==
  ASSUME IndInv, NEW n \in Node, MergeComposite(n)
  PROVE  IndInv'
  <1> DEFINE m == merge[n]
  <1> DEFINE c == Head(m.todo)
  <1> DEFINE r == ProcessBlock(m.work, c, cdag[c], fdag, bstore[n])
  <1> DEFINE under == {m.cid} \cup cdag[m.cid].anc
  <1> DEFINE m2 == [m EXCEPT !.todo = Tail(@), !.work = r,
                             !.marked = @ \cup {c} \cup cdag[c].heads]
  <1>1. /\ m \in Merge /\ m.busy /\ GoodMerge(m, store[n], bstore[n], cdag, fdag)
        /\ m.stack = <<>> /\ m.todo # <<>> /\ ~ProcessFails(m.work, cdag[c], fdag)
        /\ UNCHANGED <<cdag, fdag, bstore, toMerge, syncing, puts, store>>
    BY Zenon DEF IndInv, TypeOK, MergeComposite, Loaded
  <1>2. /\ m.todo \in Seq(Cid) /\ m.work \in Store
        /\ Walk(<<>>, m.todo, under, m.work.applied, cdag)
        /\ GoodStore(m.work, cdag, fdag) /\ m.work.applied \subseteq bstore[n]
        /\ under \subseteq bstore[n] /\ m.cid # 0 /\ 0 < cdag[m.cid].prio /\ m.cid \in Cid
        /\ (~m.stale => m.work.applied = store[n].applied \cup m.marked)
    BY <1>1, GoodMergeWalk, Zenon DEF Merge
  <1>3. c \in Cid /\ Tail(m.todo) \in Seq(Cid)
    BY <1>1, <1>2, TailFacts, Zenon
  <1>4. merge' = [merge EXCEPT ![n] = m2]
    BY Zenon DEF MergeComposite, IndInv, TypeOK, Merge
  <1> HIDE DEF c, under
  <1>5. /\ cdag[c].heads \subseteq m.work.applied /\ c \in under
        /\ Walk(<<>>, Tail(m.todo), under, m.work.applied \cup {c}, cdag)
    BY <1>1, <1>2, WalkApply, Zenon DEF c
  <1>6. /\ cdag \in CDag /\ fdag \in FDag /\ GoodDag(cdag, fdag) /\ cdag[c] \in CBlock
        /\ cdag[c].heads \subseteq Cid
    BY Zenon, <1>3 DEF IndInv, TypeOK, CDag, FDag, CBlock
  <1>7. 0 < cdag[c].prio
    BY <1>2, <1>5, <1>6, Zenon DEF GoodDag, under
  <1>8. r \in Store /\ GoodStore(r, cdag, fdag)
    BY <1>1, <1>2, <1>3, <1>5, <1>6, <1>7, ProcessType, ProcessGood, Zenon
  <1>9. r.applied = m.work.applied \cup {c}
    BY Zenon DEF ProcessBlock
  <1> HIDE DEF r
  <1>10. /\ m2 \in Merge /\ m2.cid = m.cid /\ m2.stale = m.stale /\ m2.stack = <<>>
         /\ m2.todo = Tail(m.todo) /\ m2.work = r
         /\ m2.marked = m.marked \cup {c} \cup cdag[c].heads
    BY <1>1, <1>3, <1>6, <1>8, Zenon DEF Merge
  <1> HIDE DEF m2
  <1>11. ~m.stale => r.applied = store[n].applied \cup (m.marked \cup {c} \cup cdag[c].heads)
    BY <1>2, <1>5, <1>9, Zenon
  <1>12. r.applied \subseteq bstore[n]
    BY Zenon, <1>2, <1>5, <1>9
  <1>13. Walk(<<>>, Tail(m.todo), under, r.applied, cdag)
    BY Zenon, <1>5, <1>9
  <1>14. GoodMerge(m2, store[n], bstore[n], cdag, fdag)
    BY <1>2, <1>8, <1>10, <1>11, <1>12, <1>13, GoodMergeWalk, Zenon DEF under
  <1> QED
    BY <1>1, <1>4, <1>10, <1>14, MergeStep, Zenon

(* A failed merge leaves the committed document as it was.                 *)
LEMMA MergeErrorInd ==
  ASSUME IndInv, NEW n \in Node, MergeError(n)
  PROVE  IndInv'
  <1>1. NoMerge \in Merge /\ ~NoMerge.busy
    BY EmptyGood, Zenon DEF NoMerge
  <1> QED
    BY <1>1, MergeStep, Zenon DEF MergeError

(* A commit publishes the document of the transaction, and the marks with  *)
(* it: a transaction that no write made stale has applied what was         *)
(* committed and what it marked.                                           *)
LEMMA CommitInd ==
  ASSUME IndInv, NEW n \in Node, CommitMerge(n)
  PROVE  IndInv'
  <1> DEFINE m == merge[n]
  <1>1. /\ m \in Merge /\ GoodMerge(m, store[n], bstore[n], cdag, fdag) /\ ~m.stale
        /\ store' = [store EXCEPT ![n] = m.work]
        /\ toMerge' = [toMerge EXCEPT ![n] = @ \ m.marked]
        /\ merge' = [merge EXCEPT ![n] = NoMerge]
        /\ UNCHANGED <<cdag, fdag, bstore, syncing, puts>>
    BY Zenon DEF IndInv, TypeOK, CommitMerge, Loaded
  <1>2. /\ m.work \in Store /\ GoodStore(m.work, cdag, fdag) /\ m.marked \subseteq Cid
        /\ m.work.applied = store[n].applied \cup m.marked
        /\ m.work.applied \subseteq bstore[n]
    BY <1>1, GoodMergeWalk, Zenon DEF Merge
  <1>3. NoMerge \in Merge /\ ~NoMerge.busy
    BY EmptyGood, Zenon DEF NoMerge
  <1> HIDE DEF m
  <1>4. TypeOK'
    BY <1>1, <1>2, <1>3, Zenon DEF IndInv, TypeOK
  <1>5. ASSUME NEW k \in Node
        PROVE  /\ GoodStore(store'[k], cdag, fdag)
               /\ \A c \in Cid : c \in bstore[k] /\ c \notin toMerge'[k] => c \in store'[k].applied
               /\ store'[k].applied \subseteq bstore[k]
               /\ toMerge[k] \cup store[k].applied \subseteq toMerge'[k] \cup store'[k].applied
    <2>0. /\ \A c \in Cid : c \in bstore[k] /\ c \notin toMerge[k] => c \in store[k].applied
          /\ store[k].applied \subseteq bstore[k]
      BY Zenon DEF IndInv, MergedIsApplied, IsMerged
    <2>1. CASE k = n
      <3>1. store'[k] = m.work /\ toMerge'[k] = toMerge[n] \ m.marked
        BY <1>1, <2>1, Zenon DEF IndInv, TypeOK
      <3> QED
        BY <1>2, <2>0, <2>1, <3>1, Zenon
    <2>2. CASE k # n
      <3>1. store'[k] = store[k] /\ toMerge'[k] = toMerge[k]
        BY <1>1, <2>2, Zenon DEF IndInv, TypeOK
      <3> QED
        BY Zenon, <2>0, <3>1 DEF IndInv
    <2> QED
      BY Zenon, <2>1, <2>2
  <1>6. MergedIsApplied' /\ GoodSyncs'
    <2>1. MergedIsApplied'
      BY Zenon, <1>1, <1>5 DEF MergedIsApplied, IsMerged
    <2> QED
      BY Zenon, <1>1, <1>5, <2>1 DEF IndInv, GoodSyncs
  <1>7. ASSUME NEW k \in Node, merge'[k].busy
        PROVE  GoodMerge(merge[k], store[k], bstore[k], cdag, fdag)'
    <2>1. k # n /\ merge'[k] = merge[k] /\ store'[k] = store[k]
      BY <1>1, <1>3, <1>7, Zenon DEF IndInv, TypeOK
    <2>2. GoodMerge(merge'[k], store'[k], bstore[k], cdag, fdag)
      BY <1>7, <2>1, Zenon DEF IndInv
    <2> QED
      BY Zenon, <1>1, <2>2
  <1>8. GoodDag(cdag, fdag)' /\ \A k \in Node : GoodStore(store[k], cdag, fdag)'
    BY <1>1, <1>5, Zenon DEF IndInv
  <1> QED
    BY <1>4, <1>6, <1>7, <1>8, Zenon DEF IndInv

(* Local writes.                                                           *)
LEMMA WriteInd ==
  ASSUME IndInv, NEW n \in Node,
         AddDocument(n) \/ UpdateDocument(n) \/ DeleteDocument(n)
  PROVE  IndInv'
  <1>1. CASE AddDocument(n)
    <2>1. InitVal \in [Field -> Nat] /\ Field \in SUBSET Field /\ FALSE \in BOOLEAN
      BY ValueAssumption, Zenon
    <2> QED
      BY <1>1, <2>1, SaveInd, Zenon DEF AddDocument
  <1>2. CASE UpdateDocument(n)
    <2>1. PICK written \in SUBSET Field : \E v \in [written -> Value] : Save(n, written, v, FALSE)
      BY <1>2, Zenon DEF UpdateDocument
    <2>2. PICK v \in [written -> Value] : Save(n, written, v, FALSE)
      BY <2>1, Zenon
    <2>3. v \in [written -> Nat] /\ FALSE \in BOOLEAN
      BY ValueAssumption, Zenon
    <2> QED
      BY <2>2, <2>3, SaveInd, Zenon
  <1>3. CASE DeleteDocument(n)
    <2>1. <<>> \in [{} -> Nat] /\ {} \in SUBSET Field /\ TRUE \in BOOLEAN
      OBVIOUS
    <2> QED
      BY <1>3, <2>1, SaveInd, Zenon DEF DeleteDocument
  <1> QED
    BY Zenon, <1>1, <1>2, <1>3

(* IndInv is inductive.                                                    *)
LEMMA NextInd == IndInv /\ [Next]_vars => IndInv'
  <1> SUFFICES ASSUME IndInv, [Next]_vars PROVE IndInv'
    BY Zenon
  <1>1. CASE UNCHANGED vars
    BY <1>1, Zenon DEF vars, IndInv, TypeOK, MergedIsApplied, GoodSyncs, IsMerged
  <1>2. CASE Next
    <2>1. PICK n \in Node :
            \/ AddDocument(n) \/ UpdateDocument(n) \/ DeleteDocument(n)
            \/ \E c \in Cid : \/ BeginMerge(n, c) \/ StartSync(n, c) \/ SyncFails(n, c)
                              \/ \E d \in Cid : PutChecks(n, c, d)
            \/ \E p \in puts[n] : PutWrites(n, p)
            \/ LoadComposites(n) \/ MergeComposite(n) \/ MergeError(n)
            \/ CommitMerge(n) \/ ConflictMerge(n) \/ Restart(n)
      BY <1>2, Zenon DEF Next, ProcessPushlog, SyncDocument
    <2> QED
      BY <2>1, WriteInd, BeginMergeInd, SyncInd, PutWritesInd, LoadInd, MergeCompositeInd,
         MergeErrorInd, CommitInd, ConflictInd, RestartInd, Zenon
  <1> QED
    BY Zenon, <1>1, <1>2

-----------------------------------------------------------------------------
(* The theorems.                                                           *)

(* IndInv holds in every reachable state: whatever writes, deliveries,     *)
(* failed syncs, crashes, merges, conflicts and retries have happened.     *)
THEOREM Invariance == Spec => []IndInv
  <1>1. Init => IndInv
    BY Zenon, InitInd
  <1>2. IndInv /\ [Next]_vars => IndInv'
    BY Zenon, NextInd
  <1> QED
    BY <1>1, <1>2, PTL DEF Spec

(* The variables keep their types.                                         *)
THEOREM TypeCorrect == Spec => []TypeOK
  <1>1. IndInv => TypeOK
    BY Zenon DEF IndInv
  <1> QED
    BY <1>1, Invariance, PTL

(* One LWW register is determined by the set of composites applied.        *)
LEMMA JoinIsUnique ==
  ASSUME NEW cd \in CDag, NEW fd \in FDag, GoodDag(cd, fd), NEW f \in Field,
         NEW s \in Store, NEW t \in Store, s.applied = t.applied,
         IsJoin(s, f, cd, fd), IsJoin(t, f, cd, fd)
  PROVE  s.val[f] = t.val[f] /\ s.prio[f] = t.prio[f]
  <1> DEFINE A == {c \in s.applied : cd[c].links[f] # 0}
  <1> DEFINE P(c) == fd[f][cd[c].links[f]].prio
  <1> DEFINE V(c) == fd[f][cd[c].links[f]].val
  <1>1. ASSUME NEW c \in A
        PROVE  P(c) \in Nat \ {0} /\ V(c) \in Nat
    <2>1. c \in Cid /\ cd[c].links[f] # 0
      BY Zenon DEF Store
    <2>2. cd[c].links[f] \in Cid
      BY <2>1 DEF CDag, CBlock
    <2>3. 0 < P(c)
      BY <2>1, Zenon DEF GoodDag
    <2>4. fd[f][cd[c].links[f]] \in FBlock
      BY <2>2, Zenon DEF FDag
    <2>5. P(c) \in Nat /\ V(c) \in Nat
      BY <2>4, Zenon DEF FBlock
    <2> HIDE DEF P, V, A
    <2> QED
      BY <2>3, <2>5
  <1>2. s.prio[f] \in Nat /\ s.val[f] \in Nat /\ t.prio[f] \in Nat /\ t.val[f] \in Nat
    BY Zenon DEF Store
  <1>3. \A c \in A : P(c) < s.prio[f] \/ (P(c) = s.prio[f] /\ V(c) <= s.val[f])
    BY Zenon DEF IsJoin
  <1>4. \A c \in A : P(c) < t.prio[f] \/ (P(c) = t.prio[f] /\ V(c) <= t.val[f])
    BY Zenon DEF IsJoin
  <1>5. \/ s.prio[f] = 0 /\ s.val[f] = NilVal
        \/ \E c \in A : P(c) = s.prio[f] /\ V(c) = s.val[f]
    BY Zenon DEF IsJoin
  <1>6. \/ t.prio[f] = 0 /\ t.val[f] = NilVal
        \/ \E c \in A : P(c) = t.prio[f] /\ V(c) = t.val[f]
    BY Zenon DEF IsJoin
  <1> HIDE DEF A, P, V
  <1> QED
    BY <1>1, <1>2, <1>3, <1>4, <1>5, <1>6

(* Nodes that have applied the same composites hold the same registers and *)
(* the same delete status, in whatever order processBlock ran on them.     *)
THEOREM MergesConverge == Spec => []Convergence
  <1>1. IndInv => Convergence
    <2> SUFFICES ASSUME IndInv, NEW n \in Node, NEW m \in Node,
                        store[n].applied = store[m].applied
                 PROVE  /\ \A f \in Field \ CounterField :
                             store[n].val[f] = store[m].val[f] /\ store[n].prio[f] = store[m].prio[f]
                        /\ store[n].status = store[m].status
      BY Zenon DEF Convergence
    <2>1. /\ cdag \in CDag /\ fdag \in FDag /\ store[n] \in Store /\ store[m] \in Store
          /\ GoodDag(cdag, fdag) /\ GoodStore(store[n], cdag, fdag)
          /\ GoodStore(store[m], cdag, fdag)
      BY Zenon DEF IndInv, TypeOK, CDag, FDag
    <2>2. store[n].status = store[m].status
      BY <2>1, Zenon DEF GoodStore, StatusIsJoin
    <2>3. ASSUME NEW f \in Field \ CounterField
          PROVE  store[n].val[f] = store[m].val[f] /\ store[n].prio[f] = store[m].prio[f]
      <3>1. IsJoin(store[n], f, cdag, fdag) /\ IsJoin(store[m], f, cdag, fdag)
        BY Zenon, <2>1 DEF GoodStore
      <3> QED
        BY <2>1, <3>1, JoinIsUnique, Zenon
    <2> QED
      BY Zenon, <2>2, <2>3
  <1> QED
    BY <1>1, Invariance, PTL

(* A merge never applies a block before its parents.                       *)
THEOREM MergesAreCausal == Spec => []AppliedIsCausal
  <1>1. IndInv => AppliedIsCausal
    BY Zenon DEF IndInv, GoodStore, CausalStore, AppliedIsCausal
  <1> QED
    BY <1>1, Invariance, PTL

(* updateHeads never loses the way to a block that has been applied.       *)
THEOREM HeadsLoseNothing == Spec => []HeadsCoverApplied
  <1>1. IndInv => HeadsCoverApplied
    BY Zenon DEF IndInv, GoodStore, CausalStore, HeadsCoverApplied
  <1> QED
    BY <1>1, Invariance, PTL

(* IsMerged answers TRUE only for blocks whose changes are in the          *)
(* datastore, wherever a crash, a local write or a merge falls between the *)
(* writes of p2pBlockStore.Put.                                            *)
THEOREM MergedMarksAreTrue == Spec => []MergedIsApplied
  <1>1. IndInv => MergedIsApplied
    BY Zenon DEF IndInv
  <1> QED
    BY <1>1, Invariance, PTL

(* The height AddDelta gives the next block of a field beats the priority  *)
(* stored for it, so a local write is always visible.                      *)
THEOREM LocalWritesWin == Spec => []NextWriteWins
  <1>1. IndInv => NextWriteWins
    <2> SUFFICES ASSUME IndInv, NEW n \in Node, NEW f \in Field, store[n].prio[f] # 0
                 PROVE  \E h \in store[n].fheads[f] : fdag[f][h].prio >= store[n].prio[f]
      BY Zenon DEF NextWriteWins
    <2>1. HighHeads(store[n], f, cdag, fdag)
      BY Zenon DEF IndInv, GoodStore
    <2> QED
      BY <2>1, Zenon DEF HighHeads
  <1> QED
    BY <1>1, Invariance, PTL
=============================================================================
