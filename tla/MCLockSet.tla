------------------------------ MODULE MCLockSet ------------------------------
(* LockSet for TLC: transactions and collections are interchangeable.      *)
EXTENDS LockSet, TLC

TxnSymmetry == Permutations(Txn) \cup Permutations(Key)
=============================================================================
