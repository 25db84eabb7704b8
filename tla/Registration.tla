---------------------------- MODULE Registration ----------------------------
(***************************************************************************)
(* Reconcile passes of the operator against a Memgraph HA cluster:         *)
(* reconcileRegistration with the planner's commands, run one query at a   *)
(* time while the coordinators elect, fail over and replicate.             *)
(*                                                                         *)
(* A pass reads the CR and applies the StatefulSets, reads SHOW INSTANCES, *)
(* reads SHOW REPLICATION LAG, plans, and either runs the plan, sheds the  *)
(* retired pods or ends.  Anything may happen between two of these steps,  *)
(* and the operator may crash there.                                       *)
(*                                                                         *)
(* Abstractions: StatefulSets are read fresh and pods that exist are ready *)
(* (module Scaling has the stale cache and the readiness gate); a database *)
(* is the set of transactions it holds; the Raft cluster is one membership *)
(* with one leader; run-time settings and pod restarts, which follow an    *)
(* empty plan, are left to other modules.                                  *)
(***************************************************************************)
EXTENDS Planner

CONSTANTS
  CoordinatorCounts,  \* the coordinator counts a spec may declare
  DataCounts,         \* the data instance counts a spec may declare
  Foreign,            \* data instances a human registered, outside any count
  Txns,               \* the transactions clients may commit
  Addresses,          \* the bolt addresses members may be announced at
  MaxEdits,           \* bound on the edits of the spec
  MaxMoves,           \* bound on the moves of an external address
  MaxFaults,          \* bound on crashes of the operator and failed queries
  MaxRefusals,        \* bound on promotions refused for the instance's own reasons
  MaxDowns,           \* bound on data instances becoming unreachable
  MaxElections        \* bound on spontaneous elections

Max(S) == CHOOSE m \in S : \A n \in S : n <= m

Coordinators  == 0 .. Max(CoordinatorCounts) - 1
Declarable    == 0 .. Max(DataCounts) - 1
DataInstances == Declarable \cup Foreign

(* A count is a positive int32: there is a greatest one. *)
ASSUME CountsAssumption ==
  \A counts \in {CoordinatorCounts, DataCounts} :
    /\ counts \subseteq Nat \ {0}
    /\ \E m \in counts : \A n \in counts : n <= m
ASSUME ForeignAssumption  == Foreign \subseteq Nat \ Declarable
ASSUME AddressAssumption  == Addresses # {} /\ NoBolt \notin Addresses
ASSUME BoundsAssumption   ==
  {MaxEdits, MaxMoves, MaxFaults, MaxRefusals, MaxDowns, MaxElections} \subseteq Nat

VARIABLES
  spec,        \* the declared counts: [coordinators, data]
  external,    \* the declared bolt address: [coordinators, data : [ordinal -> address]]
  running,     \* the replica counts on the StatefulSets: [coordinators, data]
  joined,      \* Raft members: [ids -> announced bolt address]
  leader,      \* the Raft leader
  registered,  \* registered data instances: [ordinals -> announced bolt address]
  main,        \* the MAIN, or None
  up,          \* the data instances the leader reaches
  held,        \* the transactions each data instance holds
  demoted,     \* history: the MAIN a handover demoted, until one is promoted or it refuses
  pc,          \* where the operator's pass is
  pass,        \* what the pass has read and still has to do
  disturbed,   \* history: the coordinators moved MAIN or leadership since the view
  budget       \* what is left of every bound

clusterVars == <<joined, leader, registered, main, up, held, demoted>>
k8sVars     == <<spec, external, running>>
passVars    == <<pc, pass>>
vars == <<clusterVars, k8sVars, passVars, disturbed, budget>>

-----------------------------------------------------------------------------
(* Memgraph: the queries the operator issues, as it relies on them *)

Joined     == DOMAIN joined
Registered == DOMAIN registered

With(f, x, v)  == [y \in DOMAIN f \cup {x} |-> IF y = x THEN v ELSE f[y]]
Without(f, x)  == [y \in DOMAIN f \ {x} |-> f[y]]

(* SHOW INSTANCES: before the first ADD COORDINATOR the coordinator asked   *)
(* names itself leader and reports no bolt address.                         *)
ShowInstances ==
  [ coordinators  |-> [ c \in Joined \cup {leader} |->
                          [ leader |-> c = leader,
                            bolt   |-> IF c \in Joined THEN joined[c] ELSE NoBolt ] ],
    dataInstances |-> [ d \in Registered |->
                          [ main |-> d = main, up |-> d \in up, bolt |-> registered[d] ] ] ]

(* SHOW REPLICATION LAG: relayed from the MAIN, no rows without one. *)
ShowReplicationLag ==
  [ d \in { d \in Registered : main \in up } |-> Cardinality(held[main]) - Cardinality(held[d]) ]

(* Whether the state of the cluster lets a query aimed at member id work.   *)
(* Promoting an instance that is down only writes the intent to Raft, and   *)
(* works; an instance may still refuse (RefusePromotion).                   *)
Accepts(op, id) ==
  CASE op = "AddCoordinator"              -> id \notin Joined
    [] op = "RegisterInstance"            -> id \notin Registered
    [] op = "UpdateCoordinatorBoltServer" -> id \in Joined
    [] op = "UpdateInstanceBoltServer"    -> id \in Registered
    [] op = "DemoteInstance"              -> id = main
    [] op = "SetInstanceToMain"           -> id \in Registered /\ main = None
    [] op = "UnregisterInstance"          -> id \in Registered \ {main}
    [] op = "RemoveCoordinator"           -> id \in Joined \ {leader}
    [] op = "YieldLeadership"             -> id = leader /\ Joined \ {leader} # {}

(* d becomes MAIN.  A replica holding transactions d lacks has diverged,    *)
(* and stays so until it recovers from d.                                   *)
Promote(d) ==
  /\ main' = d
  /\ demoted' = None
  /\ UNCHANGED held

(* The effect of an accepted query. *)
Effect(op, id) ==
  /\ joined' = CASE op = "AddCoordinator"              -> With(joined, id, pass.topology.coordinatorBolt)
                 [] op = "UpdateCoordinatorBoltServer" -> With(joined, id, pass.topology.coordinatorBolt)
                 [] op = "RemoveCoordinator"           -> Without(joined, id)
                 [] OTHER                              -> joined
  /\ registered' = CASE op = "RegisterInstance"         -> With(registered, id, pass.topology.dataBolt[id])
                     [] op = "UpdateInstanceBoltServer" -> With(registered, id, pass.topology.dataBolt[id])
                     [] op = "UnregisterInstance"       -> Without(registered, id)
                     [] OTHER                           -> registered
  /\ IF op = "SetInstanceToMain"
     THEN Promote(id)
     ELSE /\ main'    = IF op = "DemoteInstance" THEN None ELSE main
          /\ demoted' = IF op = "DemoteInstance" THEN id ELSE demoted
          /\ UNCHANGED held
  /\ IF op = "YieldLeadership" THEN leader' \in Joined \ {leader} ELSE leader' = leader
  /\ UNCHANGED up

-----------------------------------------------------------------------------
(* The cluster on its own: clients, replication, failures, failover *)

(* The instances the coordinators may fail over to: the most advanced of    *)
(* the ones they reach, retiring ones included.                             *)
FailoverTargets ==
  { d \in Registered \cap up :
      \A e \in Registered \cap up : Cardinality(held[e]) <= Cardinality(held[d]) }

Spend(kind) == /\ budget[kind] > 0
               /\ budget' = [budget EXCEPT ![kind] = @ - 1]

(* A client's write: the MAIN has it, and so does any set of the replicas   *)
(* that were in step with it and reachable.                                 *)
Commit(t) ==
  /\ main \in up
  /\ t \notin UNION { held[d] : d \in DataInstances }
  /\ \E synced \in SUBSET { d \in Registered \cap up : held[d] = held[main] } :
       held' = [ d \in DataInstances |->
                   IF d \in synced \cup {main} THEN held[d] \cup {t} ELSE held[d] ]
  /\ UNCHANGED <<k8sVars, joined, leader, registered, main, up, demoted, passVars, disturbed, budget>>

Recover(d) ==
  /\ main \in up /\ d \in Registered \cap up
  /\ held[d] # held[main]
  /\ held' = [held EXCEPT ![d] = held[main]]
  /\ UNCHANGED <<k8sVars, joined, leader, registered, main, up, demoted, passVars, disturbed, budget>>

GoDown(d) ==
  /\ d \in up \cap Registered
  /\ Spend("downs")
  /\ up' = up \ {d}
  /\ UNCHANGED <<k8sVars, joined, leader, registered, main, held, demoted, passVars, disturbed>>

ComeUp(d) ==
  /\ d \notin up
  /\ up' = up \cup {d}
  /\ UNCHANGED <<k8sVars, joined, leader, registered, main, held, demoted, passVars, disturbed, budget>>

(* The coordinators replace a MAIN they no longer reach. *)
Failover(d) ==
  /\ main # None /\ main \notin up
  /\ d \in FailoverTargets
  /\ Promote(d)
  /\ disturbed' = TRUE
  /\ UNCHANGED <<k8sVars, joined, leader, registered, up, passVars, budget>>

(* An election; the new leader fails over at once if it finds no MAIN. *)
Elect(c) ==
  /\ c \in Joined \ {leader}
  /\ Spend("elections")
  /\ leader' = c
  /\ disturbed' = TRUE
  /\ \/ main = None /\ \E d \in FailoverTargets : Promote(d)
     \/ (main # None \/ FailoverTargets = {}) /\ UNCHANGED <<main, held, demoted>>
  /\ UNCHANGED <<k8sVars, joined, registered, up, passVars>>

-----------------------------------------------------------------------------
(* The user and the load balancers *)

Edit ==
  /\ Spend("edits")
  /\ spec' \in [coordinators : CoordinatorCounts, data : DataCounts]
  /\ spec' # spec
  /\ UNCHANGED <<clusterVars, external, running, passVars, disturbed>>

(* A human registers an instance the operator did not create. *)
RegisterForeign(d) ==
  /\ d \in Foreign \ Registered /\ Joined # {}
  /\ \E a \in Addresses : registered' = With(registered, d, a)
  /\ UNCHANGED <<k8sVars, joined, leader, main, up, held, demoted, passVars, disturbed, budget>>

MoveAddress ==
  /\ Spend("moves")
  /\ \E a \in Addresses :
       \/ external' = [external EXCEPT !.coordinators = a]
       \/ \E d \in Declarable : external' = [external EXCEPT !.data[d] = a]
  /\ external' # external
  /\ UNCHANGED <<clusterVars, spec, running, passVars, disturbed>>

-----------------------------------------------------------------------------
(* The operator's pass *)

NoTopology == [ coordinators |-> {}, dataInstances |-> {},
                retiringCoordinators |-> {}, retiringDataInstances |-> {},
                coordinatorBolt |-> NoBolt, dataBolt |-> <<>> ]
NoView     == [ coordinators |-> <<>>, dataInstances |-> <<>> ]
NoPass     == [ topology |-> NoTopology, observed |-> NoView, plan |-> {}, refused |-> {},
                proven |-> {}, diverged |-> {} ]

Finish == pc' = "idle" /\ pass' = NoPass

(* Mutants: one replica too many; the declared count applied as it is. *)
LargerOffByOne(m, n) == IF m >= n THEN m + 1 ELSE n
LargerIsDeclared(m, n) == m

Larger(m, n) == IF m >= n THEN m ELSE n

(* replicaCounts and applyDesired: the StatefulSets are applied at the      *)
(* larger of the declared and the current count, never lower; the ordinals  *)
(* above the declared count are the retiring members.                       *)
BeginPass ==
  LET applied == [ coordinators |-> Larger(spec.coordinators, running.coordinators),
                   data         |-> Larger(spec.data, running.data) ]
  IN  /\ pc = "idle"
      /\ running' = applied
      /\ pc' = "observe"
      /\ pass' = [NoPass EXCEPT !.topology =
           [ coordinators          |-> 0 .. spec.coordinators - 1,
             dataInstances         |-> 0 .. spec.data - 1,
             retiringCoordinators  |-> spec.coordinators .. applied.coordinators - 1,
             retiringDataInstances |-> spec.data .. applied.data - 1,
             coordinatorBolt       |-> external.coordinators,
             dataBolt              |-> external.data ]]
      /\ UNCHANGED <<clusterVars, spec, external, disturbed, budget>>

(* observeCluster: the view is the leader's, whichever coordinator answers. *)
Observe ==
  /\ pc = "observe"
  /\ pc' = "lag"
  /\ pass' = [pass EXCEPT !.observed = ShowInstances]
  /\ disturbed' = FALSE
  /\ UNCHANGED <<clusterVars, k8sVars, budget>>

Retiring(topology) ==
  topology.retiringCoordinators \cup topology.retiringDataInstances # {}

(* The instances with transactions the MAIN never saw. *)
Diverged == { d \in DataInstances : main # None /\ ~ (held[d] \subseteq held[main]) }

(* The lag is read and the pass planned.  proven and diverged are history:  *)
(* what the MAIN held when its lag was read, and who held something else.   *)
PlanWith(lag) ==
  LET plan == Plan(pass.topology, pass.observed, lag)
  IN  \/ /\ plan # {}
         /\ pc' = "run"
         /\ pass' = [pass EXCEPT !.plan = plan, !.observed = NoView,
                                  !.proven = IF main = None THEN {} ELSE held[main],
                                  !.diverged = Diverged]
      \/ /\ plan = {} /\ Retiring(pass.topology) /\ Retired(pass.topology, pass.observed)
         /\ pc' = "shed"
         /\ pass' = [pass EXCEPT !.observed = NoView]
      \/ /\ plan = {} /\ ~ (Retiring(pass.topology) /\ Retired(pass.topology, pass.observed))
         /\ Finish

ReadLagAndPlan ==
  /\ pc = "lag"
  /\ PlanWith(ShowReplicationLag)
  /\ UNCHANGED <<clusterVars, k8sVars, disturbed, budget>>

(* A lag read that fails is planned as if no instance were caught up. *)
ReadLagFails ==
  /\ pc = "lag"
  /\ Spend("faults")
  /\ PlanWith(<<>>)
  /\ UNCHANGED <<clusterVars, k8sVars, disturbed>>

(* The next command of the plan; for SetInstanceToMain the next candidate   *)
(* not refused yet, then Restore.                                           *)
Current == FirstCommand(pass.plan)

Promoting == Current.op = "SetInstanceToMain"

CandidatesLeft == Current.candidates \ pass.refused

Restoring == Promoting /\ CandidatesLeft = {}

Target == IF ~ Promoting          THEN Current.id
          ELSE IF ~ Restoring     THEN Lowest(CandidatesLeft)
          ELSE Current.id

(* The command is done: the loop goes on, or the pass is over. *)
Done ==
  IF pass.plan = {Current}
  THEN Finish
  ELSE /\ pc' = "run"
       /\ pass' = [pass EXCEPT !.plan = @ \ {Current}, !.refused = {}]

(* Mutant: a handover whose candidates were refused restores nothing. *)
FailedWithoutRestore ==
  IF Promoting /\ CandidatesLeft \ {Target} # {}
  THEN /\ pc' = "run"
       /\ pass' = [pass EXCEPT !.refused = @ \cup {Target}]
  ELSE Finish

(* The query came back with an error: a refused candidate gives way to the  *)
(* next one and then to Restore, anything else ends the pass.               *)
Failed ==
  IF Promoting /\ ~ Restoring /\ (Current.id # None \/ CandidatesLeft # {Target})
  THEN /\ pc' = "run"
       /\ pass' = [pass EXCEPT !.refused = @ \cup {Target}]
  ELSE Finish

(* A query the cluster accepts.  Restoring MAIN ends the pass in an error   *)
(* even when it works, so that nothing planned after it runs.               *)
RunCommand ==
  /\ pc = "run"
  /\ Accepts(Current.op, Target)
  /\ Effect(Current.op, Target)
  /\ IF Restoring THEN Finish ELSE Done
  /\ UNCHANGED <<k8sVars, disturbed, budget>>

RefuseCommand ==
  /\ pc = "run"
  /\ ~ Accepts(Current.op, Target)
  /\ Failed
  /\ UNCHANGED <<clusterVars, k8sVars, disturbed, budget>>

(* The instance to promote answers with an error of its own, or the leader  *)
(* does for it.                                                             *)
RefusePromotion ==
  /\ pc = "run" /\ Promoting
  /\ Spend("refusals")
  /\ demoted' = IF Target = demoted THEN None ELSE demoted
  /\ Failed
  /\ UNCHANGED <<joined, leader, registered, main, up, held, k8sVars, disturbed>>

(* A query that times out or loses its connection, its effect landed or not. *)
LoseCommand ==
  /\ pc = "run"
  /\ Spend("faults")
  /\ \/ UNCHANGED clusterVars
     \/ Accepts(Current.op, Target) /\ Effect(Current.op, Target)
  /\ Failed
  /\ UNCHANGED <<k8sVars, disturbed>>

(* shedRetiredPods: coordinators, then data instances, each applied at the  *)
(* declared count if it is retiring any.                                    *)
ShedCoordinators ==
  /\ pc = "shed"
  /\ pc' = "shed data"
  /\ running' = IF pass.topology.retiringCoordinators = {} THEN running
                ELSE [running EXCEPT !.coordinators = Cardinality(pass.topology.coordinators)]
  /\ UNCHANGED <<clusterVars, spec, external, pass, disturbed, budget>>

ShedData ==
  /\ pc = "shed data"
  /\ running' = IF pass.topology.retiringDataInstances = {} THEN running
                ELSE [running EXCEPT !.data = Cardinality(pass.topology.dataInstances)]
  /\ Finish
  /\ UNCHANGED <<clusterVars, spec, external, disturbed, budget>>

(* The process dies, or a step of the pass fails: nothing of it persists. *)
Crash ==
  /\ pc # "idle"
  /\ Spend("faults")
  /\ Finish
  /\ UNCHANGED <<clusterVars, k8sVars, disturbed>>

-----------------------------------------------------------------------------
(* A resource just created: no StatefulSet, no Raft cluster, no instance. *)
Fresh ==
  /\ running = [coordinators |-> 0, data |-> 0]
  /\ joined = <<>>
  /\ leader = 0
  /\ registered = <<>>
  /\ main = None

(* A cluster the operator formed earlier, MAIN and leadership wherever the  *)
(* coordinators have moved them since.                                      *)
Formed ==
  /\ running = spec
  /\ joined = [c \in 0 .. spec.coordinators - 1 |-> external.coordinators]
  /\ leader \in DOMAIN joined
  /\ registered = [d \in 0 .. spec.data - 1 |-> external.data[d]]
  /\ main \in DOMAIN registered

Init ==
  /\ spec \in [coordinators : CoordinatorCounts, data : DataCounts]
  /\ \E a \in Addresses : external = [coordinators |-> a, data |-> [d \in Declarable |-> a]]
  /\ Fresh \/ Formed
  /\ up = DataInstances
  /\ held = [d \in DataInstances |-> {}]
  /\ demoted = None
  /\ pc = "idle"
  /\ pass = NoPass
  /\ disturbed = FALSE
  /\ budget = [ edits |-> MaxEdits, moves |-> MaxMoves, faults |-> MaxFaults,
                refusals |-> MaxRefusals, downs |-> MaxDowns, elections |-> MaxElections ]

PassStep ==
  \/ BeginPass \/ Observe \/ ReadLagAndPlan
  \/ RunCommand \/ RefuseCommand
  \/ ShedCoordinators \/ ShedData

Environment ==
  \/ \E t \in Txns : Commit(t)
  \/ \E d \in DataInstances : Recover(d) \/ GoDown(d) \/ ComeUp(d) \/ Failover(d)
  \/ \E c \in Coordinators : Elect(c)
  \/ \E d \in Foreign : RegisterForeign(d)
  \/ Edit \/ MoveAddress
  \/ ReadLagFails \/ RefusePromotion \/ LoseCommand \/ Crash

Next == PassStep \/ Environment

Spec == Init /\ [][Next]_vars

(* Passes are requeued for ever, replication catches up and an instance     *)
(* that went down comes back; edits, faults and elections are bounded.      *)
Fairness ==
  /\ WF_vars(PassStep)
  /\ \A d \in DataInstances : WF_vars(Recover(d)) /\ WF_vars(ComeUp(d))

FairSpec == Spec /\ Fairness

-----------------------------------------------------------------------------
(* Properties *)

Counts(c, d) == [coordinators : c, data : d]

(* Type correctness of the cluster, the StatefulSets and the pass. *)
TypeOK ==
  /\ spec \in Counts(CoordinatorCounts, DataCounts)
  /\ external \in [coordinators : Addresses, data : [Declarable -> Addresses]]
  /\ running \in Counts({0} \cup CoordinatorCounts, {0} \cup DataCounts)
  /\ Joined \subseteq Coordinators /\ \A c \in Joined : joined[c] \in Addresses
  /\ leader \in Coordinators
  /\ Registered \subseteq DataInstances /\ \A d \in Registered : registered[d] \in Addresses
  /\ main \in Registered \cup {None}
  /\ up \subseteq DataInstances
  /\ held \in [DataInstances -> SUBSET Txns]
  /\ demoted \in DataInstances \cup {None}
  /\ pc \in {"idle", "observe", "lag", "run", "shed", "shed data"}
  /\ pc = "run" => pass.plan # {} /\ Target \in Coordinators \cup DataInstances
  /\ disturbed \in BOOLEAN
  /\ \A kind \in DOMAIN budget : budget[kind] \in Nat

(* planner.go: "it orders each removal so that Memgraph never has to refuse *)
(* it".  Unless the coordinators moved MAIN or leadership after the view    *)
(* the plan came from, the cluster accepts every command when its turn      *)
(* comes, whatever the commands before it did and whatever failed earlier.  *)
PlanNeverRefused ==
  pc = "run" /\ ~ disturbed /\ pass.refused = {} => Accepts(Current.op, Target)

(* "a MAIN-less cluster" is what a handover may leave only as its last      *)
(* resort fails: after a demotion the cluster is without a MAIN only while  *)
(* the same pass is promoting, whichever candidates refuse, unless the      *)
(* demoted MAIN refused to be restored too, a query was lost or the         *)
(* operator died.                                                           *)
MainlessOnlyInsideHandover ==
  (main = None /\ demoted # None /\ budget.faults = MaxFaults)
    => pc = "run" /\ Promoting

(* A member neither this pass nor any other is retiring is left alone: it   *)
(* stays registered, and a reachable MAIN among them stays MAIN.  Members a *)
(* human registered are among them.                                         *)
StayingMembersUntouched ==
  [][ LET stays == Registered \ pass.topology.retiringDataInstances
      IN  /\ stays \subseteq DOMAIN registered'
          /\ Joined \ pass.topology.retiringCoordinators \subseteq DOMAIN joined'
          /\ main \in stays \cap up => main' = main ]_vars

(* IsCaughtUp "is what makes it promotable without losing writes": a        *)
(* handover promotes only an instance that holds every transaction the      *)
(* retiring MAIN had committed when its lag was read, unless the            *)
(* coordinators intervened after the view.  The lag compares counts, so an  *)
(* instance that then held transactions the MAIN never saw is excepted.     *)
HandoverKeepsProvenWrites ==
  [][ (pc = "run" /\ Promoting /\ Current.id # None /\ main = None /\ main' # None /\ ~ disturbed')
        => main' \in pass.diverged \/ pass.proven \subseteq held[main'] ]_vars

(* "the coordinators never see a registered instance's pod disappear, and   *)
(* no removed member's pod outlives its vote": a replica count is lowered   *)
(* only past members that have left the cluster.                            *)
ShedOnlyRetired ==
  [][ /\ \A c \in running'.coordinators .. running.coordinators - 1 : c \notin Joined
      /\ \A d \in running'.data .. running.data - 1 : d \notin Registered ]_vars

(* Once edits, faults and elections stop, the cluster reaches the declared  *)
(* topology and stays there: every declared member registered under its     *)
(* declared address, every retired one gone and its pod shed, and a MAIN.   *)
Converged ==
  /\ running = spec
  /\ joined = [c \in 0 .. spec.coordinators - 1 |-> external.coordinators]
  /\ Registered \ Foreign = 0 .. spec.data - 1
  /\ \A d \in 0 .. spec.data - 1 : registered[d] = external.data[d]
  /\ main # None

Converges == <>[]Converged

=============================================================================
