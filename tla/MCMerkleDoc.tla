---------------------------- MODULE MCMerkleDoc ----------------------------
EXTENDS MerkleDoc, FiniteSetsExt, TLC

(* Finite instances of MerkleDoc: the fields start with the least value.   *)
MCInitVal == [f \in Field |-> 1]

(* Syncs and merges of different nodes commute: each reads its own node's  *)
(* state and blocks that never change.  It is enough to explore them one   *)
(* node at a time; on that node, one sync and one call of Put at a time.   *)
OneMergeAtATime ==
    LET working == {n \in Node : merge[n].busy \/ syncing[n] # {} \/ puts[n] # {}}
    IN /\ Cardinality(working) <= 1
       /\ \A n \in working : Cardinality(syncing[n]) <= 1 /\ Cardinality(puts[n]) <= 1

(* Further, for longer histories: a sync begins when no merge runs, stores *)
(* the whole DAG, and goes on to its merge with no other step between.     *)
WholeSyncs ==
    \A n \in Node :
        /\ merge[n].busy => syncing'[n] = {}
        /\ syncing[n] # {} => \/ puts' # puts /\ syncing' = syncing
                             \/ merge'[n].busy

(* For a search for one behaviour: updates only, and no commit conflicts.  *)
UpdatesOnly ==
    /\ OneMergeAtATime
    /\ \A c \in Cid : ~cdag[c].deleted
    /\ \A n \in Node : ~merge[n].stale

(* No increment is lost: a counter is at least the sum of the increments   *)
(* in the blocks that were applied (Counter.Merge, counter.go).            *)
CountersNeverLose ==
    \A n \in Node, f \in CounterField :
        LET linked == {c \in store[n].applied : cdag[c].links[f] # 0}
        IN store[n].val[f] >= MapThenSumSet(LAMBDA c : fdag[f][cdag[c].links[f]].val, linked)

NodeSymmetry == Permutations(Node)
=============================================================================
