----------------------------- MODULE MCExposure -----------------------------
(* External access and monitoring, checked on one or two data instances. *)
EXTENDS Exposure
=============================================================================
