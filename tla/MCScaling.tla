------------------------------ MODULE MCScaling -----------------------------
(* Scaling on small instances: the bounds are in the .cfg files. *)
EXTENDS Scaling
=============================================================================
