----------------------------- MODULE MCVolumes ------------------------------
(* Volumes on small instances: the bounds are in the .cfg files. *)
EXTENDS Volumes
=============================================================================
