-------------------------- MODULE MCRollingRestart --------------------------
(* RollingRestart on small instances: the bounds are in the .cfg files. *)
EXTENDS RollingRestart

(* Pairs of templates that differ in flags alone. *)
NoPairs == {}
OneTwo  == {<<1, 2>>}
EitherWay == {<<1, 2>>, <<2, 1>>}

ReplicasOf(d, c) == [r \in Roles |-> IF r = "data" THEN d ELSE c]

TwoDataOneCoordinator    == ReplicasOf(2, 1)
TwoDataThreeCoordinators == ReplicasOf(2, 3)
=============================================================================
