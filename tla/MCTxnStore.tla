----------------------------- MODULE MCTxnStore -----------------------------
(* Model-checking harness for TxnStore: the clients and markers are model  *)
(* values given in the .cfg files.                                         *)
EXTENDS TxnStore, TLC

\* The two script instances are interchangeable.
ClientSymmetry == Permutations(Clients)
=============================================================================
