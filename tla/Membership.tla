------------------------------ MODULE Membership -----------------------------
(***************************************************************************)
(* What the operator promises about the members of a cluster, whatever it  *)
(* takes to keep it: pods are asked for, members of the Memgraph cluster   *)
(* join and leave, and                                                     *)
(*   - only a declared member whose pod is asked for joins;                *)
(*   - only a member that is no longer declared leaves;                    *)
(*   - the pods asked for cover the declared count, and never go below a   *)
(*     member that is still registered.                                    *)
(* Module Scaling implements it from caches that are late.                 *)
(***************************************************************************)
EXTENDS Naturals

CONSTANTS
  Roles,    \* the roles, each with members of its own
  Counts    \* the counts a user may declare

VARIABLES
  desired,  \* the declared count of each role
  asked,    \* the pods asked for: the ordinals below this
  members   \* the ordinals registered in the Memgraph cluster

vars == <<desired, asked, members>>

Below(n) == 0 .. n - 1

Init ==
  /\ desired \in [Roles -> Counts]
  /\ asked = [r \in Roles |-> 0]
  /\ members = [r \in Roles |-> {}]

Declare(r, n) ==
  /\ desired' = [desired EXCEPT ![r] = n]
  /\ UNCHANGED <<asked, members>>

(* The pods asked for become n, whichever number that is. *)
Ask(r) ==
  LET n == asked'[r]
  IN  /\ n \in Nat /\ n >= desired[r]
      /\ members[r] \subseteq Below(n)
      /\ asked' = [asked EXCEPT ![r] = n]
      /\ UNCHANGED <<desired, members>>

Join(r, o) ==
  /\ o \in Below(desired[r]) \cap Below(asked[r])
  /\ members' = [members EXCEPT ![r] = @ \cup {o}]
  /\ UNCHANGED <<desired, asked>>

Leave(r, o) ==
  /\ o \in members[r] \ Below(desired[r])
  /\ members' = [members EXCEPT ![r] = @ \ {o}]
  /\ UNCHANGED <<desired, asked>>

Next ==
  \E r \in Roles :
    \/ (\E n \in Counts : Declare(r, n)) \/ Ask(r)
    \/ \E o \in members[r] \cup Below(desired[r]) : Join(r, o) \/ Leave(r, o)

Spec == Init /\ [][Next]_vars
=============================================================================
