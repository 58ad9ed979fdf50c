----------------------------- MODULE MerkleDoc -----------------------------
(***************************************************************************)
(* One document replicated by several DefraDB nodes as a Merkle CRDT.      *)
(*                                                                         *)
(* Every write appends one block per written field and one composite block *)
(* that links to them (document.go save, block/store.go AddDelta).  A node *)
(* that is told of a composite block fetches what it lacks (sync_dag.go),  *)
(* storing each block as it comes and marking it as one to merge first     *)
(* (p2pBlockStore.Put: three separate accesses, outside any transaction),  *)
(* collects the blocks to apply by walking back from it (merge.go          *)
(* loadComposites) and applies them in one transaction (mergeComposites).  *)
(*                                                                         *)
(* Blocks are content addressed: equal content is one block.  A CID is a   *)
(* number here, and since hashes order CIDs arbitrarily, wherever the code *)
(* depends on CID order or on map order the model chooses.                 *)
(***************************************************************************)
EXTENDS Naturals, Sequences, FiniteSets

CONSTANTS Node,           \* the peers
          Field,          \* the fields of the document
          CounterField,   \* those of CRDT type counter; the others are LWW registers
          Value,          \* what a write may store, ordered as the encoded bytes are
          NilVal,         \* the null value (CborNil)
          InitVal,        \* the content the document is created with
          Nobody,         \* stands for "no nonce" in a counter block
          MaxBlocks,      \* bound: composite blocks ever written
          MaxTxnRetries   \* db.MaxTxnRetries()

ASSUME FieldAssumption == CounterField \subseteq Field
ASSUME ValueAssumption ==
    /\ Value \subseteq Nat
    /\ NilVal \in Nat
    /\ InitVal \in [Field -> Value]
ASSUME BoundAssumption == MaxBlocks \in Nat /\ MaxTxnRetries \in Nat
ASSUME NobodyAssumption == Nobody \notin Node

VARIABLES cdag,     \* the composite blocks written so far, by CID
          fdag,     \* for each field, the field blocks written so far, by CID
          bstore,   \* for each node, the composite blocks in its blockstore
          toMerge,  \* for each node, the CIDs under its to-merge index
          syncing,  \* for each node, the composites whose DAG it is fetching
          puts,     \* for each node, the calls of Put past their first check
          store,    \* for each node, its committed headstore and datastore
          merge     \* for each node, the merge running in a transaction

vars == <<cdag, fdag, bstore, toMerge, syncing, puts, store, merge>>
syncVars == <<syncing, puts>>

Cid == 1..MaxBlocks

(* A composite block: height, delete status, parents, and the field blocks *)
(* it links to (0: none).  anc is no content: all the blocks below it.     *)
CBlock == [prio: Nat, deleted: BOOLEAN, heads: SUBSET Cid,
           links: [Field -> Cid \cup {0}], anc: SUBSET Cid]

FBlock == [prio: Nat, val: Nat, heads: SUBSET Cid, nonce: Node \cup {Nobody}]

NoCBlock == [prio |-> 0, deleted |-> FALSE, heads |-> {},
             links |-> [f \in Field |-> 0], anc |-> {}]

NoFBlock == [prio |-> 0, val |-> 0, heads |-> {}, nonce |-> Nobody]

(* What a transaction reads and writes of the document: heads of the       *)
(* composite and of each field, value and priority of each field, and the  *)
(* object marker.  An LWW field holds NilVal when its key does not exist.  *)
(* applied is no stored key: the composites processed so far.              *)
Store == [heads: SUBSET Cid, fheads: [Field -> SUBSET Cid],
          val: [Field -> Nat], prio: [Field -> Nat],
          status: {"absent", "active", "deleted"}, applied: SUBSET Cid]

EmptyStore == [heads |-> {}, fheads |-> [f \in Field |-> {}],
               val |-> [f \in Field |-> IF f \in CounterField THEN 0 ELSE NilVal],
               prio |-> [f \in Field |-> 0],
               status |-> "absent", applied |-> {}]

(* A call of Put, for the sync of which block, and has it set the mark?    *)
Put == [sync: Cid, cid: Cid, marked: BOOLEAN]

(* A pending call of loadComposites: the block and the merge target.       *)
Frame == [cid: Cid, heads: SUBSET Cid, height: Nat]

Merge == [busy: BOOLEAN, cid: Cid \cup {0}, tries: Nat, stale: BOOLEAN,
          stack: Seq(Frame), todo: Seq(Cid), work: Store, marked: SUBSET Cid]

NoMerge == [busy |-> FALSE, cid |-> 0, tries |-> 0, stale |-> FALSE,
            stack |-> <<>>, todo |-> <<>>, work |-> EmptyStore, marked |-> {}]

Init == /\ cdag = [c \in Cid |-> NoCBlock]
        /\ fdag = [f \in Field |-> [c \in Cid |-> NoFBlock]]
        /\ bstore = [n \in Node |-> {}]
        /\ toMerge = [n \in Node |-> {}]
        /\ syncing = [n \in Node |-> {}]
        /\ puts = [n \in Node |-> {}]
        /\ store = [n \in Node |-> EmptyStore]
        /\ merge = [n \in Node |-> NoMerge]

-----------------------------------------------------------------------------
(* Blocks and heads.                                                       *)

Exists(dag, c) == dag[c].prio > 0

(* The CID of content b: the block that already has it, else a new one.    *)
IsCid(dag, none, b, c) ==
    IF \E d \in Cid : dag[d] = b
      THEN dag[c] = b
      ELSE dag[c] = none /\ \A d \in 1..(c - 1) : dag[d] # none

(* heads.List: the greatest height among the heads, 0 when there are none. *)
IsHeight(dag, heads, h) ==
    /\ \A c \in heads : dag[c].prio <= h
    /\ h = 0 \/ \E c \in heads : dag[c].prio = h

(* Mutant: a block that forks off below the heads is not made a head.      *)
UpdateHeadsNoFork(heads, c, ps, linksKnown) ==
    IF ps = {} \/ ps \cap heads # {} THEN (heads \ ps) \cup {c} ELSE heads

(* updateHeads: block c with parents ps replaces the parents that are      *)
(* heads.  It becomes a head if it has no parent, replaced a head, or      *)
(* links to any block that is known.                                       *)
UpdateHeads(heads, c, ps, linksKnown) ==
    IF ps = {} \/ ps \cap heads # {} \/ linksKnown
      THEN (heads \ ps) \cup {c}
      ELSE heads

-----------------------------------------------------------------------------
(* The CRDTs.                                                              *)

(* LWW.setValue reads the value when priorities tie, and fails when the    *)
(* key is not there.                                                       *)
LwwFails(s, f, b) == b.prio = s.prio[f] /\ s.val[f] = NilVal

(* Mutant: of two writes with one priority the later to arrive wins.       *)
LwwWinsByArrival(s, f, b) == b.prio >= s.prio[f]

LwwWins(s, f, b) == \/ b.prio > s.prio[f]
                    \/ b.prio = s.prio[f] /\ b.val > s.val[f]

(* Mutant: a counter takes an increment only from a higher block.          *)
MergedValByPrio(s, f, b) ==
    IF ~LwwWins(s, f, b) THEN s.val[f]
    ELSE IF f \in CounterField THEN s.val[f] + b.val ELSE b.val

(* A counter adds (incrementValue), a register keeps the winner.           *)
MergedVal(s, f, b) ==
    IF f \in CounterField THEN s.val[f] + b.val
    ELSE IF LwwWins(s, f, b) THEN b.val ELSE s.val[f]

(* Mutant: a register that keeps its value moves its priority on.          *)
MergedPrioRaised(s, f, b) ==
    IF f \in CounterField \/ LwwWins(s, f, b) THEN b.prio ELSE s.prio[f] + 1

MergedPrio(s, f, b) ==
    IF f \in CounterField \/ LwwWins(s, f, b) THEN b.prio ELSE s.prio[f]

(* DocComposite.Merge: a delete sticks.                                    *)
MergedStatus(s, b) ==
    IF b.deleted \/ s.status = "deleted" THEN "deleted" ELSE "active"

(* processBlock on composite c, then on each field block that it links to. *)
ProcessFails(s, b, fd) ==
    \E f \in Field \ CounterField :
        b.links[f] # 0 /\ LwwFails(s, f, fd[f][b.links[f]])

ProcessBlock(s, c, b, fd, known) ==
    LET Linked(f) == b.links[f] # 0
        fb(f) == fd[f][b.links[f]]
    IN [heads   |-> UpdateHeads(s.heads, c, b.heads,
                                \/ \E f \in Field : Linked(f)
                                \/ b.heads \cap known # {}),
        fheads  |-> [f \in Field |->
                       IF Linked(f)
                         THEN UpdateHeads(s.fheads[f], b.links[f], fb(f).heads, TRUE)
                         ELSE s.fheads[f]],
        val     |-> [f \in Field |->
                       IF Linked(f) THEN MergedVal(s, f, fb(f)) ELSE s.val[f]],
        prio    |-> [f \in Field |->
                       IF Linked(f) THEN MergedPrio(s, f, fb(f)) ELSE s.prio[f]],
        status  |-> MergedStatus(s, b),
        applied |-> s.applied \cup {c}]

-----------------------------------------------------------------------------
(* Local writes: each is one committed transaction.                        *)

(* The block of field f (Delta), above the field's heads.  The random      *)
(* nonce of a counter block is modelled by the name of the writer.         *)
FieldBlock(n, f, val, h) ==
    [prio |-> h + 1, val |-> val, heads |-> store[n].fheads[f],
     nonce |-> IF f \in CounterField /\ store[n].status # "absent" THEN n ELSE Nobody]

CompositeBlock(n, links, deleted, h) ==
    [prio |-> h + 1, deleted |-> deleted, heads |-> store[n].heads, links |-> links,
     anc |-> store[n].heads \cup UNION {cdag[p].anc : p \in store[n].heads}]

(* The transaction commits.  A merge running on the node has read what     *)
(* this transaction wrote.                                                 *)
CommitSave(n, c, b, fd) ==
    /\ ~ProcessFails(store[n], b, fd)
    /\ cdag' = [cdag EXCEPT ![c] = b]
    /\ fdag' = fd
    /\ bstore' = [bstore EXCEPT ![n] = @ \cup {c}]
    /\ toMerge' = [toMerge EXCEPT ![n] = @ \ ({c} \cup b.heads)]
    /\ store' = [store EXCEPT ![n] = ProcessBlock(@, c, b, fd, bstore[n])]
    /\ merge' = [merge EXCEPT ![n].stale = merge[n].busy]
    /\ UNCHANGED syncVars

(* save: AddDelta for every field that is written, then for the composite  *)
(* that links to them; each block is applied as it is added.               *)
Save(n, written, v, deleted) ==
    \E fh \in [written -> 0..MaxBlocks], h \in 0..MaxBlocks :
        LET fb == [f \in written |-> FieldBlock(n, f, v[f], fh[f])]
        IN /\ \A f \in written : IsHeight(fdag[f], store[n].fheads[f], fh[f])
           /\ IsHeight(cdag, store[n].heads, h)
           /\ \E fc \in [written -> Cid], c \in Cid :
                LET links == [f \in Field |-> IF f \in written THEN fc[f] ELSE 0]
                    b == CompositeBlock(n, links, deleted, h)
                    fd == [f \in Field |->
                             IF f \in written THEN [fdag[f] EXCEPT ![fc[f]] = fb[f]]
                                              ELSE fdag[f]]
                IN /\ \A f \in written : IsCid(fdag[f], NoFBlock, fb[f], fc[f])
                   /\ IsCid(cdag, NoCBlock, b, c)
                   /\ CommitSave(n, c, b, fd)

(* AddDocument.  A document's ID is a digest of its initial content.       *)
AddDocument(n) ==
    /\ store[n].status = "absent"
    /\ Save(n, Field, InitVal, FALSE)

UpdateDocument(n) ==
    /\ store[n].status = "active"
    /\ \E written \in (SUBSET Field) \ {{}} :
         \E v \in [written -> Value] : Save(n, written, v, FALSE)

DeleteDocument(n) ==
    /\ store[n].status = "active"
    /\ Save(n, {}, <<>>, TRUE)

-----------------------------------------------------------------------------
(* Receiving and merging a composite block.                                *)

IsMerged(n, c) == c \in bstore[n] /\ c \notin toMerge[n]

(* A node is told of block c: it starts to fetch the DAG below it.         *)
StartSync(n, c) ==
    /\ Exists(cdag, c)
    /\ syncing' = [syncing EXCEPT ![n] = @ \cup {c}]
    /\ UNCHANGED <<cdag, fdag, bstore, toMerge, puts, store, merge>>

(* processPushlogRequest: skips a block that is merged.                    *)
ProcessPushlog(n, c) == ~IsMerged(n, c) /\ StartSync(n, c)

(* handleDocSyncItem: a head named by a peer is merged in any case.        *)
SyncDocument(n, c) ==
    /\ \E m \in Node \ {n} : c \in store[m].heads
    /\ StartSync(n, c)

(* The fetch of c reaches d: block c itself, or one named by a stored      *)
(* block on the way down.  Put finds that d is not there yet.              *)
PutChecks(n, c, d) ==
    /\ c \in syncing[n]
    /\ \/ d = c
       \/ \E e \in ({c} \cup cdag[c].anc) \cap bstore[n] : d \in cdag[e].heads
    /\ d \notin bstore[n]
    /\ puts' = [puts EXCEPT ![n] = @ \cup {[sync |-> c, cid |-> d, marked |-> FALSE]}]
    /\ UNCHANGED <<cdag, fdag, bstore, toMerge, syncing, store, merge>>

(* Mutant: the block is stored before it is marked.                        *)
PutWritesLate(n, p) ==
    /\ p \in puts[n]
    /\ \/ /\ ~p.marked
          /\ bstore' = [bstore EXCEPT ![n] = @ \cup {p.cid}]
          /\ puts' = [puts EXCEPT ![n] = (@ \ {p}) \cup {[p EXCEPT !.marked = TRUE]}]
          /\ UNCHANGED toMerge
       \/ /\ p.marked
          /\ toMerge' = [toMerge EXCEPT ![n] = @ \cup {p.cid}]
          /\ puts' = [puts EXCEPT ![n] = @ \ {p}]
          /\ UNCHANGED bstore
    /\ UNCHANGED <<cdag, fdag, syncing, store, merge>>

(* The two writes of Put: the mark under the to-merge index, the block.    *)
PutWrites(n, p) ==
    /\ p \in puts[n]
    /\ \/ /\ ~p.marked
          /\ toMerge' = [toMerge EXCEPT ![n] = @ \cup {p.cid}]
          /\ puts' = [puts EXCEPT ![n] = (@ \ {p}) \cup {[p EXCEPT !.marked = TRUE]}]
          /\ UNCHANGED bstore
       \/ /\ p.marked
          /\ bstore' = [bstore EXCEPT ![n] = @ \cup {p.cid}]
          /\ puts' = [puts EXCEPT ![n] = @ \ {p}]
          /\ UNCHANGED toMerge
    /\ UNCHANGED <<cdag, fdag, syncing, store, merge>>

(* syncDAG fails or times out; what was stored stays, and a Put under way  *)
(* may still finish.                                                       *)
SyncFails(n, c) ==
    /\ c \in syncing[n]
    /\ syncing' = [syncing EXCEPT ![n] = @ \ {c}]
    /\ UNCHANGED <<cdag, fdag, bstore, toMerge, puts, store, merge>>

(* getHeadsAsMergeTarget, and the target a level down in loadComposites:   *)
(* the height is that of whichever head comes last.                        *)
IsHeadHeight(heads, h) ==
    IF heads = {} THEN h = 0 ELSE \E c \in heads : h = cdag[c].prio

(* executeMerge begins: a new transaction, and the walk back from c.       *)
StartMerge(n, c, tries) ==
    \E h \in 0..MaxBlocks :
        /\ IsHeadHeight(store[n].heads, h)
        /\ merge' = [merge EXCEPT ![n] =
             [busy |-> TRUE, cid |-> c, tries |-> tries, stale |-> FALSE,
              stack |-> <<[cid |-> c, heads |-> store[n].heads, height |-> h]>>,
              todo |-> <<>>, work |-> store[n], marked |-> {}]]

(* syncDAG is done once the DAG is there (it stops at merged blocks: what  *)
(* is below those is merged too), and the merge of c begins.               *)
BeginMerge(n, c) ==
    /\ ~merge[n].busy
    /\ c \in syncing[n]
    /\ {c} \cup cdag[c].anc \subseteq bstore[n]
    /\ \A p \in puts[n] : p.sync # c
    /\ syncing' = [syncing EXCEPT ![n] = @ \ {c}]
    /\ StartMerge(n, c, 0)
    /\ UNCHANGED <<cdag, fdag, bstore, toMerge, puts, store>>

(* Mutant: the walk may follow one parent twice and miss another.          *)
ListsSome(ps, parents) == \A i \in DOMAIN ps : ps[i] \in parents

(* The order in which a block names its parents.                           *)
Lists(ps, parents) == \A p \in parents : \E i \in DOMAIN ps : ps[i] = p

(* One call of loadComposites, the pending calls being the stack.          *)
LoadComposites(n) ==
    /\ merge[n].busy
    /\ merge[n].stack # <<>>
    /\ LET call == Head(merge[n].stack)
           rest == Tail(merge[n].stack)
           b == cdag[call.cid]
       IN \/ /\ call.cid \in call.heads
             /\ merge' = [merge EXCEPT ![n].stack = rest]
          \/ /\ call.cid \notin call.heads
             /\ b.prio >= call.height
             /\ \E ps \in [1..Cardinality(b.heads) -> b.heads] :
                  /\ Lists(ps, b.heads)
                  /\ merge' = [merge EXCEPT
                       ![n].todo = <<call.cid>> \o @,
                       ![n].stack = [i \in DOMAIN ps |-> [call EXCEPT !.cid = ps[i]]] \o rest]
          \/ /\ call.cid \notin call.heads
             /\ b.prio < call.height
             /\ LET older == UNION {cdag[p].heads : p \in call.heads}
                IN \E h \in 0..MaxBlocks :
                     /\ IsHeadHeight(older, h)
                     /\ merge' = [merge EXCEPT
                          ![n].stack = <<[call EXCEPT !.heads = older, !.height = h]>> \o rest]
    /\ UNCHANGED <<cdag, fdag, bstore, toMerge, syncing, puts, store>>

(* The walk is over: mergeComposites applies the next block.               *)
Loaded(n) == merge[n].busy /\ merge[n].stack = <<>>

MergeComposite(n) ==
    /\ Loaded(n)
    /\ merge[n].todo # <<>>
    /\ LET c == Head(merge[n].todo)
           w == merge[n].work
       IN /\ ~ProcessFails(w, cdag[c], fdag)
          /\ merge' = [merge EXCEPT
               ![n].todo = Tail(@),
               ![n].work = ProcessBlock(w, c, cdag[c], fdag, bstore[n]),
               ![n].marked = @ \cup {c} \cup cdag[c].heads]
    /\ UNCHANGED <<cdag, fdag, bstore, toMerge, syncing, puts, store>>

(* An error of processBlock discards the transaction.                      *)
MergeError(n) ==
    /\ Loaded(n)
    /\ merge[n].todo # <<>>
    /\ ProcessFails(merge[n].work, cdag[Head(merge[n].todo)], fdag)
    /\ merge' = [merge EXCEPT ![n] = NoMerge]
    /\ UNCHANGED <<cdag, fdag, bstore, toMerge, syncing, puts, store>>

CommitMerge(n) ==
    /\ Loaded(n)
    /\ merge[n].todo = <<>>
    /\ ~merge[n].stale
    /\ store' = [store EXCEPT ![n] = merge[n].work]
    /\ toMerge' = [toMerge EXCEPT ![n] = @ \ merge[n].marked]
    /\ merge' = [merge EXCEPT ![n] = NoMerge]
    /\ UNCHANGED <<cdag, fdag, bstore, syncing, puts>>

(* The commit conflicts with a local write: Merge tries again, and returns *)
(* without an error once it has tried MaxTxnRetries times.                 *)
ConflictMerge(n) ==
    /\ Loaded(n)
    /\ merge[n].todo = <<>>
    /\ merge[n].stale
    /\ IF merge[n].tries + 1 < MaxTxnRetries
         THEN StartMerge(n, merge[n].cid, merge[n].tries + 1)
         ELSE merge' = [merge EXCEPT ![n] = NoMerge]
    /\ UNCHANGED <<cdag, fdag, bstore, toMerge, syncing, puts, store>>

(* The node stops, at any point, and starts again: what was not committed  *)
(* or written is gone.                                                     *)
Restart(n) ==
    /\ merge' = [merge EXCEPT ![n] = NoMerge]
    /\ syncing' = [syncing EXCEPT ![n] = {}]
    /\ puts' = [puts EXCEPT ![n] = {}]
    /\ UNCHANGED <<cdag, fdag, bstore, toMerge, store>>

Next == \E n \in Node :
          \/ AddDocument(n) \/ UpdateDocument(n) \/ DeleteDocument(n)
          \/ \E c \in Cid : \/ ProcessPushlog(n, c) \/ SyncDocument(n, c)
                            \/ \E d \in Cid : PutChecks(n, c, d)
                            \/ SyncFails(n, c) \/ BeginMerge(n, c)
          \/ \E p \in puts[n] : PutWrites(n, p)
          \/ LoadComposites(n) \/ MergeComposite(n) \/ MergeError(n)
          \/ CommitMerge(n) \/ ConflictMerge(n)
          \/ Restart(n)

Spec == Init /\ [][Next]_vars
-----------------------------------------------------------------------------
(* Properties.                                                             *)

(* Every variable has its type; the blocks' heights are natural numbers.   *)
TypeOK == /\ cdag \in [Cid -> CBlock]
          /\ fdag \in [Field -> [Cid -> FBlock]]
          /\ bstore \in [Node -> SUBSET Cid]
          /\ toMerge \in [Node -> SUBSET Cid]
          /\ syncing \in [Node -> SUBSET Cid]
          /\ puts \in [Node -> SUBSET Put]
          /\ store \in [Node -> Store]
          /\ merge \in [Node -> Merge]

(* Strong convergence (ReplicatedData, replicated.go): nodes that have     *)
(* applied the same composites read the same registers and the same        *)
(* status, whatever merges, re-deliveries, conflicts and local writes      *)
(* took them there.                                                        *)
Convergence ==
    \A n, m \in Node :
        store[n].applied = store[m].applied =>
            /\ \A f \in Field \ CounterField :
                 store[n].val[f] = store[m].val[f] /\ store[n].prio[f] = store[m].prio[f]
            /\ store[n].status = store[m].status

(* A node never applies a block before the blocks it builds on: the walk   *)
(* of loadComposites finds every one that is missing, in causal order.     *)
AppliedIsCausal ==
    \A n \in Node : \A c \in store[n].applied : cdag[c].heads \subseteq store[n].applied

(* The heads a node lists (heads.List) lead to all that it has applied: a  *)
(* block stops being a head only once a block above it is applied.         *)
HeadsCoverApplied ==
    \A n \in Node :
        /\ store[n].heads \subseteq store[n].applied
        /\ \A c \in store[n].applied :
             c \in store[n].heads \/ \E d \in store[n].applied : c \in cdag[d].heads

(* A block that is stored and outside the to-merge index (IsMerged) has    *)
(* been applied, and what is applied is stored, wherever a crash, a local  *)
(* write of the same block or another merge falls between the three steps  *)
(* of p2pBlockStore.Put: processPushlogRequest and syncDAG skip nothing    *)
(* that is missing.                                                        *)
MergedIsApplied ==
    \A n \in Node :
        /\ {c \in Cid : IsMerged(n, c)} \subseteq store[n].applied
        /\ store[n].applied \subseteq bstore[n]

(* Not kept: what is applied is no longer under the to-merge index.        *)
AppliedIsMerged ==
    \A n \in Node : store[n].applied \cap toMerge[n] = {}

(* A local write is never shadowed by what the node has merged: the next   *)
(* block of a field (height of its heads + 1) beats the field's priority.  *)
NextWriteWins ==
    \A n \in Node, f \in Field :
        \/ store[n].prio[f] = 0
        \/ \E h \in store[n].fheads[f] : fdag[f][h].prio >= store[n].prio[f]

(* Merge (merge.go) that returns nil has merged the block it was given.    *)
EndedMergeIsApplied ==
    [][\A n \in Node :
         merge[n].busy /\ ~merge[n].busy' => merge[n].cid \in store[n].applied']_vars

(* "All heads have the same height" (getHeadsAsMergeTarget, merge.go).     *)
HeadsHaveOneHeight ==
    \A n \in Node : \A c, d \in store[n].heads : cdag[c].prio = cdag[d].prio

(* Nodes that have applied the same composites agree on the counters.      *)
CountersConverge ==
    \A n, m \in Node, f \in CounterField :
        store[n].applied = store[m].applied => store[n].val[f] = store[m].val[f]

(* Data that is replicated merges (ReplicatedData, replicated.go): a block *)
(* that was loaded is applied without an error.                            *)
MergeNeverFails ==
    \A n \in Node :
        Loaded(n) /\ merge[n].todo # <<>> =>
            ~ProcessFails(merge[n].work, cdag[Head(merge[n].todo)], fdag)
-----------------------------------------------------------------------------
(* The inductive invariant behind the invariants above.                    *)

(* Parents exist and are lower; links lead to field blocks; anc is closed. *)
GoodDag(cd, fd) ==
    /\ \A c \in Cid :
         /\ \A p \in cd[c].heads : 0 < cd[p].prio /\ cd[p].prio < cd[c].prio
         /\ \A f \in Field : cd[c].links[f] # 0 => 0 < fd[f][cd[c].links[f]].prio
         /\ cd[c].heads \subseteq cd[c].anc
         /\ \A d \in cd[c].anc : 0 < cd[d].prio /\ cd[d].heads \subseteq cd[c].anc
    /\ \A f \in Field, c \in Cid :
         \A p \in fd[f][c].heads : 0 < fd[f][p].prio /\ fd[f][p].prio < fd[f][c].prio

(* (prio, val) of an LWW register is the greatest pair among the field     *)
(* blocks applied, in whatever order and however often that was.           *)
IsJoin(s, f, cd, fd) ==
    /\ \A c \in s.applied :
         cd[c].links[f] # 0 =>
            LET b == fd[f][cd[c].links[f]]
            IN b.prio < s.prio[f] \/ (b.prio = s.prio[f] /\ b.val <= s.val[f])
    /\ \/ s.prio[f] = 0 /\ s.val[f] = NilVal
       \/ \E c \in s.applied :
            /\ cd[c].links[f] # 0
            /\ fd[f][cd[c].links[f]].prio = s.prio[f]
            /\ fd[f][cd[c].links[f]].val = s.val[f]

(* The document is deleted once any delete has been applied.               *)
StatusIsJoin(s, cd) ==
    s.status = IF s.applied = {} THEN "absent"
               ELSE IF \E c \in s.applied : cd[c].deleted THEN "deleted" ELSE "active"

CausalStore(s, cd) ==
    /\ s.heads \subseteq s.applied
    /\ \A c \in s.applied :
         /\ 0 < cd[c].prio
         /\ cd[c].heads \subseteq s.applied
         /\ c \in s.heads \/ \E d \in s.applied : c \in cd[d].heads

(* The field heads are as high as every field block applied, and a field's *)
(* priority is that of one of them.                                        *)
HighHeads(s, f, cd, fd) ==
    /\ \A h \in s.fheads[f] : 0 < fd[f][h].prio
    /\ \A c \in s.applied :
         cd[c].links[f] # 0 =>
            \E h \in s.fheads[f] : fd[f][h].prio >= fd[f][cd[c].links[f]].prio
    /\ \/ s.prio[f] = 0
       \/ \E c \in s.applied : cd[c].links[f] # 0
                               /\ fd[f][cd[c].links[f]].prio = s.prio[f]

GoodStore(s, cd, fd) ==
    /\ CausalStore(s, cd)
    /\ StatusIsJoin(s, cd)
    /\ \A f \in Field : HighHeads(s, f, cd, fd)
    /\ \A f \in Field \ CounterField : IsJoin(s, f, cd, fd)

(* A block waiting to be applied has every parent applied, in front of it, *)
(* or still to be walked to; the walk stops only at applied blocks.        *)
GoodMerge(m, s, known, cd, fd) ==
    LET under == {m.cid} \cup cd[m.cid].anc
    IN /\ m.cid # 0
       /\ 0 < cd[m.cid].prio
       /\ under \subseteq known
       /\ GoodStore(m.work, cd, fd)
       /\ m.work.applied \subseteq known
       /\ ~m.stale => m.work.applied = s.applied \cup m.marked
       /\ \A k \in 1..Len(m.stack) :
            m.stack[k].cid \in under /\ m.stack[k].heads \subseteq m.work.applied
       /\ \A i \in 1..Len(m.todo) :
            /\ m.todo[i] \in under
            /\ \A p \in cd[m.todo[i]].heads :
                 \/ p \in m.work.applied
                 \/ \E j \in 1..(i - 1) : m.todo[j] = p
                 \/ \E k \in 1..Len(m.stack) : m.stack[k].cid = p

(* What is being fetched exists, and Put has marked a block it is about to *)
(* store, unless the block has been applied since.                         *)
GoodSyncs ==
    \A n \in Node :
        /\ \A c \in syncing[n] : 0 < cdag[c].prio
        /\ \A p \in puts[n] : p.marked => p.cid \in toMerge[n] \cup store[n].applied

IndInv == /\ TypeOK
          /\ GoodDag(cdag, fdag)
          /\ \A n \in Node : GoodStore(store[n], cdag, fdag)
          /\ MergedIsApplied
          /\ GoodSyncs
          /\ \A n \in Node :
               merge[n].busy => GoodMerge(merge[n], store[n], bstore[n], cdag, fdag)
=============================================================================
