------------------------------ MODULE Rollout -------------------------------
(***************************************************************************)
(* internal/rollout: the pure decision which pod, if any, a rolling restart*)
(* deletes next.                                                           *)
(*                                                                         *)
(*   role   replicas, updateRevision, stale,                               *)
(*          pods : [ordinals -> [uid, revision, ready, current]]           *)
(*   view   main, leader : ordinals or None                                *)
(*          up : [role name -> the ordinals the leader reaches]            *)
(*   lag    [data ordinals -> transactions behind MAIN], see Planner       *)
(***************************************************************************)
EXTENDS Planner

NoRevision == 0   \* an empty revision hash

Waiting == [action |-> "wait"]
Done    == [action |-> "done"]

(* Mutant: the pod is looked up among the data pods, whatever its role. *)
restartingData(name, role, o) ==
  [action |-> "delete", role |-> "data", ordinal |-> o, uid |-> role.pods[o].uid]

restarting(name, role, o) ==
  [action |-> "delete", role |-> name, ordinal |-> o, uid |-> role.pods[o].uid]

(* Pods a missing revision says nothing about are neither. *)
outdated(role) ==
  { o \in DOMAIN role.pods :
      /\ NoRevision \notin {role.updateRevision, role.pods[o].revision}
      /\ role.pods[o].revision # role.updateRevision
      /\ ~ role.pods[o].current }

updated(role) ==
  { o \in DOMAIN role.pods :
      /\ role.updateRevision # NoRevision
      /\ role.pods[o].revision = role.updateRevision \/ role.pods[o].current }

InProgress(role) == outdated(role) # {}

(* Mutant: the pod restarted last need not be back. *)
presentUnlessRestarted(role) == \A o \in outdated(role) : role.pods[o].ready

present(role) ==
  /\ Cardinality(DOMAIN role.pods) = role.replicas
  /\ \A o \in DOMAIN role.pods : role.pods[o].ready

replicating(data, view, lag) ==
  \A o \in updated(data) : o \in view.up["data"] /\ IsCaughtUp(lag, o)

Highest(S) == CHOOSE o \in S : \A p \in S : p <= o

(* Mutant: MAIN or the leader goes in its turn. *)
pendingInTurn(pending, instance) == pending

(* The outstanding pods that do not run the instance to be kept for last. *)
pendingExcept(pending, instance) == pending \ {instance}

(* The MAIN's pod is the one left. *)
mainMayRestart(data, view, lag) ==
  \/ data.replicas = 1
  \/ /\ view.main \in view.up["data"]
     /\ \E o \in DOMAIN data.pods \ {view.main} : o \in view.up["data"] /\ IsCaughtUp(lag, o)

nextDataInstance(data, view, lag) ==
  LET others == pendingExcept(outdated(data), view.main)
  IN  CASE ~ present(data) \/ view.main = None -> Waiting
        [] OTHER ->
             IF others # {}
             THEN IF replicating(data, view, lag)
                  THEN restarting("data", data, Highest(others)) ELSE Waiting
             ELSE IF mainMayRestart(data, view, lag)
                  THEN restarting("data", data, Highest(outdated(data))) ELSE Waiting

nextCoordinator(coordinators, view) ==
  LET pending == outdated(coordinators)
      others  == pendingExcept(pending, view.leader)
  IN  IF \/ ~ present(coordinators)
         \/ ~ updated(coordinators) \subseteq view.up["coordinators"]
         \/ view.leader = None
      THEN Waiting
      ELSE restarting("coordinators", coordinators, Highest(IF others # {} THEN others ELSE pending))

(* Next: data instances first and completely, then coordinators. *)
NextRestart(data, coordinators, view, lag) ==
  CASE data.stale \/ coordinators.stale -> Waiting
    [] OTHER ->
         IF InProgress(data) THEN nextDataInstance(data, view, lag)
         ELSE IF ~ InProgress(coordinators) THEN Done
         ELSE IF ~ present(data) THEN Waiting
         ELSE nextCoordinator(coordinators, view)
=============================================================================
