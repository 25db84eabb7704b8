------------------------------ MODULE Planner ------------------------------
(***************************************************************************)
(* internal/planner: the pure diff from a declared topology and an         *)
(* observed cluster to the registration commands still owed.               *)
(*                                                                         *)
(* Members are named by their pod ordinal, as internal/resources derives   *)
(* every name from it.  A topology and a view are records of               *)
(*                                                                         *)
(*   topology   coordinators, dataInstances                                *)
(*              retiringCoordinators, retiringDataInstances : sets of      *)
(*              ordinals; coordinatorBolt, dataBolt: declared addresses    *)
(*   observed   coordinators : [ids -> [leader, bolt]]                     *)
(*              dataInstances: [ordinals -> [main, up, bolt]]              *)
(*                                                                         *)
(* The slice Plan returns is the set of its commands with the order the    *)
(* code appends them in (Precedes): by kind, then by ordinal.              *)
(***************************************************************************)
EXTENDS Integers, FiniteSets

None    == -1      \* no member: the empty instance name
NoBolt  == "none"  \* the empty bolt_server column

-----------------------------------------------------------------------------
(* Commands *)

Command(op, id) == [op |-> op, id |-> id, candidates |-> {}]

AddCoordinator(c)              == Command("AddCoordinator", c)
RegisterInstance(d)            == Command("RegisterInstance", d)
UpdateCoordinatorBoltServer(c) == Command("UpdateCoordinatorBoltServer", c)
UpdateInstanceBoltServer(d)    == Command("UpdateInstanceBoltServer", d)
DemoteInstance(d)              == Command("DemoteInstance", d)
UnregisterInstance(d)          == Command("UnregisterInstance", d)
RemoveCoordinator(c)           == Command("RemoveCoordinator", c)
YieldLeadership(c)             == Command("YieldLeadership", c)

(* Candidates are tried in ordinal order; id is Restore, None at bootstrap. *)
SetInstanceToMain(candidates, restore) ==
  [op |-> "SetInstanceToMain", id |-> restore, candidates |-> candidates]

CommandOps == { "AddCoordinator", "RegisterInstance", "UpdateCoordinatorBoltServer",
                "UpdateInstanceBoltServer", "DemoteInstance", "SetInstanceToMain",
                "UnregisterInstance", "RemoveCoordinator", "YieldLeadership" }

(* The place of a command's kind in the order Plan appends commands. *)
StageOf(op) ==
  CASE op = "AddCoordinator"              -> 1
    [] op = "RegisterInstance"            -> 2
    [] op = "UpdateCoordinatorBoltServer" -> 3
    [] op = "UpdateInstanceBoltServer"    -> 4
    [] op = "DemoteInstance"              -> 5
    [] op = "SetInstanceToMain"           -> 6
    [] op = "UnregisterInstance"          -> 7
    [] op = "RemoveCoordinator"           -> 8
    [] op = "YieldLeadership"             -> 9

Precedes(c, d) ==
  \/ StageOf(c.op) < StageOf(d.op)
  \/ StageOf(c.op) = StageOf(d.op) /\ c.id < d.id

(* The command of a non-empty plan that runs next. *)
FirstCommand(plan) == CHOOSE c \in plan : \A d \in plan \ {c} : Precedes(c, d)

-----------------------------------------------------------------------------
(* What a view says *)

DataRegistered(observed, d) == d \in DOMAIN observed.dataInstances

coordinatorRegistered(observed, c) ==
  /\ c \in DOMAIN observed.coordinators
  /\ observed.coordinators[c].bolt # NoBolt

IsUp(observed, d) == observed.dataInstances[d].up

Mains(observed) ==
  { d \in DOMAIN observed.dataInstances : observed.dataInstances[d].main }

leaderName(observed) ==
  LET leaders == { c \in DOMAIN observed.coordinators : observed.coordinators[c].leader }
  IN  IF leaders = {} THEN None ELSE CHOOSE c \in leaders : TRUE

(* Mutant: an empty plan is read as a finished retirement. *)
RetiredByEmptyPlan(topology, observed) == TRUE

(* No retiring member is left in the cluster: what an empty plan alone does *)
(* not establish, and what shedding their pods needs.                       *)
Retired(topology, observed) ==
  /\ \A d \in topology.retiringDataInstances : ~ DataRegistered(observed, d)
  /\ \A c \in topology.retiringCoordinators  : ~ coordinatorRegistered(observed, c)

-----------------------------------------------------------------------------
(* Who may become MAIN *)

(* Mutant: one transaction behind still counts as caught up. *)
IsCaughtUpWithinOne(lag, d) == d \in DOMAIN lag /\ lag[d] <= 1

(* lag is the transactions-behind count per instance SHOW REPLICATION LAG   *)
(* listed; an instance it does not list is not caught up.                   *)
IsCaughtUp(lag, d) == d \in DOMAIN lag /\ lag[d] <= 0

handoverCandidates(topology, observed, lag) ==
  { d \in topology.dataInstances :
      DataRegistered(observed, d) /\ IsUp(observed, d) /\ IsCaughtUp(lag, d) }

Lowest(S) == CHOOSE d \in S : \A e \in S : d <= e

promotionTarget(topology, observed) ==
  LET reachable == { d \in topology.dataInstances :
                       DataRegistered(observed, d) /\ IsUp(observed, d) }
  IN  Lowest(IF reachable # {} THEN reachable ELSE topology.dataInstances)

-----------------------------------------------------------------------------
(* The plan *)

boltServerUpdates(topology, observed) ==
  { UpdateCoordinatorBoltServer(c) :
      c \in { c \in topology.coordinators :
                /\ coordinatorRegistered(observed, c)
                /\ observed.coordinators[c].bolt # topology.coordinatorBolt } }
  \cup
  { UpdateInstanceBoltServer(d) :
      d \in { d \in topology.dataInstances :
                /\ DataRegistered(observed, d)
                /\ observed.dataInstances[d].bolt \notin {NoBolt, topology.dataBolt[d]} } }

(* The registered MAIN among the retiring instances, None without one. *)
RetiringMain(topology, observed) ==
  LET mains == Mains(observed) \cap topology.retiringDataInstances
  IN  IF mains = {} THEN None ELSE CHOOSE d \in mains : TRUE

HasStayingMain(topology, observed) ==
  Mains(observed) \ topology.retiringDataInstances # {}

registrations(topology, observed) ==
  { AddCoordinator(c) :
      c \in { c \in topology.coordinators : ~ coordinatorRegistered(observed, c) } }
  \cup
  { RegisterInstance(d) :
      d \in { d \in topology.dataInstances : ~ DataRegistered(observed, d) } }

(* Mutant: a survivor is promoted before the retiring MAIN is demoted. *)
promotionsWithoutDemote(topology, observed, successors) ==
  { SetInstanceToMain(successors, d) :
      d \in { d \in { RetiringMain(topology, observed) } : d # None /\ successors # {} } }
  \cup
  { SetInstanceToMain({d}, None) :
      d \in { d \in { promotionTarget(topology, observed) } : Mains(observed) = {} } }

(* MAIN moves off a retiring instance onto the survivors that qualify, or,  *)
(* with no MAIN at all, onto an instance chosen by reachability alone.      *)
promotions(topology, observed, successors) ==
  LET retiringMain == RetiringMain(topology, observed)
      hasMain      == HasStayingMain(topology, observed)
      handover     == retiringMain # None /\ successors # {}
  IN  { DemoteInstance(d) : d \in { d \in {retiringMain} : handover } }
      \cup
      { SetInstanceToMain(successors, d) : d \in { d \in {retiringMain} : handover /\ ~ hasMain } }
      \cup
      { SetInstanceToMain({d}, None) :
          d \in { d \in { promotionTarget(topology, observed) } :
                    retiringMain = None /\ ~ hasMain } }

(* Mutant: whatever the topology does not declare is unregistered. *)
unregistrationsOfUndeclared(topology, observed, successors) ==
  { UnregisterInstance(d) :
      d \in DOMAIN observed.dataInstances \ (topology.dataInstances \cup Mains(observed)) }

(* Every registered retiring instance, except a MAIN with no successor. *)
unregistrations(topology, observed, successors) ==
  { UnregisterInstance(d) :
      d \in { d \in topology.retiringDataInstances :
                /\ DataRegistered(observed, d)
                /\ d = RetiringMain(topology, observed) => successors # {} } }

(* Mutant: the leader is removed like every other retiring coordinator. *)
removalsOfLeader(topology, observed) ==
  { RemoveCoordinator(c) :
      c \in { c \in topology.retiringCoordinators : coordinatorRegistered(observed, c) } }

(* Mutant: a retiring leader is skipped, and never yields. *)
removalsWithoutYield(topology, observed) ==
  { RemoveCoordinator(c) :
      c \in { c \in topology.retiringCoordinators :
                c # leaderName(observed) /\ coordinatorRegistered(observed, c) } }

(* Every retiring coordinator but the leader, which yields first. *)
removals(topology, observed) ==
  { RemoveCoordinator(c) :
      c \in { c \in topology.retiringCoordinators :
                c # leaderName(observed) /\ coordinatorRegistered(observed, c) } }
  \cup
  { YieldLeadership(c) : c \in topology.retiringCoordinators \cap { leaderName(observed) } }

Plan(topology, observed, lag) ==
  LET successors == handoverCandidates(topology, observed, lag)
  IN  registrations(topology, observed)
      \cup boltServerUpdates(topology, observed)
      \cup promotions(topology, observed, successors)
      \cup unregistrations(topology, observed, successors)
      \cup removals(topology, observed)
=============================================================================
