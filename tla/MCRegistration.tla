--------------------------- MODULE MCRegistration ---------------------------
(* Registration on small instances: the bounds are in the .cfg files. *)
EXTENDS Registration, TLC

(* Transactions are told apart only by being different ones. *)
TxnSymmetry == Permutations(Txns)
=============================================================================
