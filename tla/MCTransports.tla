---------------------------- MODULE MCTransports ----------------------------
(***************************************************************************)
(* Every operation through every way in, with access control, the network  *)
(* and development mode all on or all off.                                 *)
(***************************************************************************)
EXTENDS StoreAPI

VARIABLES env, call, todo, ran, outcome, txn, doc, raced

W == INSTANCE Transports WITH
  Called <- Ops, Names <- {"val"},
  Settings <- {[nac |-> TRUE, p2p |-> TRUE, dev |-> TRUE],
               [nac |-> FALSE, p2p |-> FALSE, dev |-> FALSE]}

Init == W!Init

\* Whether the document is there makes no difference to the other operations.
DocumentOps ==
  {"AddDocument", "AddManyDocuments", "UpdateDocument", "SaveDocument", "DeleteDocument",
   "GetDocument", "ExistsDocument"}
Next == W!Next /\ (call = W!NoCall => doc = "there" \/ call'.op \in DocumentOps)

\* What the database runs is what the caller asked for.
SameCall == W!SameCall
\* It runs as the caller.
ActsAsCaller == W!ActsAsCaller
\* It runs in the caller's transaction.
StaysInTxn == W!StaysInTxn
\* A collection got from a transaction stays in it.
GoStaysInTxn == W!GoStaysInTxn
\* The caller is told of a failure.
FailureReported == W!FailureReported
\* The caller is told of a success.
SuccessReported == W!SuccessReported
\* The caller is told of a conflict.
ConflictTold == W!ConflictTold
\* Saving a document is one operation.
SaveAsOne == W!SaveAsOne
SaveAsOneAlways == W!SaveAsOneAlways
=============================================================================
