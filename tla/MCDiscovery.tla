----------------------------- MODULE MCDiscovery ----------------------------
(* Leader discovery, checked on three coordinators and one a human added. *)
EXTENDS Discovery
=============================================================================
