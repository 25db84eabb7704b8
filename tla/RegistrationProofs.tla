------------------------- MODULE RegistrationProofs -------------------------
(***************************************************************************)
(* The safety properties of Registration, for every set of counts, of      *)
(* addresses and of transactions and every bound on what goes wrong:       *)
(* members that stay are left alone, pods are shed only behind members     *)
(* that left, no command of an undisturbed plan is refused, and a handover *)
(* ends with a MAIN that has the writes the retiring one was proven to.    *)
(***************************************************************************)
EXTENDS Registration, FiniteSetTheorems, WellFoundedInduction, TLAPS

-----------------------------------------------------------------------------
(* The inductive invariant *)

(* Members are named by ordinals, and None is not one. *)
Names == Nat \cup {None}

Budgets == [edits : Nat, moves : Nat, faults : Nat, refusals : Nat, downs : Nat, elections : Nat]

(* The cluster, the StatefulSets and the bounds are well typed. *)
ClusterType ==
  /\ spec \in Counts(CoordinatorCounts, DataCounts)
  /\ external \in [coordinators : Addresses, data : [Declarable -> Addresses]]
  /\ running \in Counts({0} \cup CoordinatorCounts, {0} \cup DataCounts)
  /\ Joined \subseteq Coordinators /\ \A c \in Joined : joined[c] \in Addresses
  /\ leader \in Coordinators
  /\ Registered \subseteq DataInstances /\ \A d \in Registered : registered[d] \in Addresses
  /\ main \in Registered \cup {None}
  /\ up \subseteq DataInstances
  /\ held \in [DataInstances -> SUBSET Txns]
  /\ demoted \in DataInstances \cup {None}
  /\ disturbed \in BOOLEAN
  /\ budget \in Budgets /\ budget.faults <= MaxFaults

(* The ordinals a pass works for: the declared ones, and above them, up to  *)
(* the count the StatefulSet runs until it is shed, the retiring ones.      *)
Split(declared, retiring, counts, count) ==
  /\ Cardinality(declared) \in counts
  /\ declared = 0 .. Cardinality(declared) - 1
  /\ retiring = Cardinality(declared) .. count - 1
  /\ count \in counts /\ Cardinality(declared) <= count

PassType ==
  /\ pc \in {"idle", "observe", "lag", "run", "shed", "shed data"}
  /\ pc = "idle" => pass = NoPass
  /\ pass = [ topology |-> pass.topology, observed |-> pass.observed, plan |-> pass.plan,
              refused |-> pass.refused, proven |-> pass.proven, diverged |-> pass.diverged ]
  /\ pc # "run" => pass.refused = {}
  /\ pc \in {"observe", "lag", "run", "shed"} =>
       Split(pass.topology.coordinators, pass.topology.retiringCoordinators,
             CoordinatorCounts, running.coordinators)
  /\ pc # "idle" =>
       /\ Split(pass.topology.dataInstances, pass.topology.retiringDataInstances,
                DataCounts, running.data)
       /\ pass.topology.coordinatorBolt \in Addresses
       /\ pass.topology.dataBolt \in [Declarable -> Addresses]

(* Between SHOW INSTANCES and the plan the members the operator manages     *)
(* stay as the view has them, and so do MAIN and leader unless the          *)
(* coordinators moved them.                                                 *)
ViewTrue ==
  pc = "lag" =>
    LET observed == pass.observed
    IN  /\ \A c \in Coordinators : coordinatorRegistered(observed, c) <=> c \in Joined
        /\ \A d \in Declarable : DataRegistered(observed, d) <=> d \in Registered
        /\ \A d, e \in Mains(observed) : d = e
        /\ ~ disturbed => Mains(observed) = {main} \ {None} /\ leaderName(observed) = leader

(* Commands of one kind differ in the member they are aimed at, and at most *)
(* one of them moves MAIN.                                                  *)
IsPlan(plan) ==
  /\ \A k \in plan : /\ k = [op |-> k.op, id |-> k.id, candidates |-> k.candidates]
                     /\ k.op \in CommandOps /\ k.id \in Names
                     /\ k.op # "SetInstanceToMain" => k.candidates = {}
  /\ \A k, l \in plan : k.op = l.op /\ k.op \in {"DemoteInstance", "SetInstanceToMain"} => k = l

(* What each kind of command may be aimed at: declared members are added    *)
(* and announced, retiring ones demoted and removed.                        *)
AimsRight(plan, topology) ==
  \A k \in plan :
    /\ k.op \in {"AddCoordinator", "UpdateCoordinatorBoltServer"} => k.id \in topology.coordinators
    /\ k.op \in {"RegisterInstance", "UpdateInstanceBoltServer"} => k.id \in topology.dataInstances
    /\ k.op \in {"DemoteInstance", "UnregisterInstance"} => k.id \in topology.retiringDataInstances
    /\ k.op \in {"RemoveCoordinator", "YieldLeadership"} => k.id \in topology.retiringCoordinators
    /\ k.op = "SetInstanceToMain" =>
         /\ k.id \in topology.retiringDataInstances \cup {None}
         /\ k.candidates \subseteq topology.dataInstances /\ k.candidates # {}

(* A plan that demotes MAIN goes on to promote, and to restore it if need   *)
(* be.                                                                      *)
DemotesToPromote(plan) ==
  \A k \in plan :
    k.op = "DemoteInstance" => \E l \in plan : l.op = "SetInstanceToMain" /\ l.id = k.id

(* What is left of a plan is well formed, and while a promotion is current  *)
(* there is something left to promote.                                      *)
PlanFormed ==
  pc = "run" =>
    /\ pass.plan # {} /\ IsPlan(pass.plan)
    /\ AimsRight(pass.plan, pass.topology) /\ DemotesToPromote(pass.plan)
    /\ IF Promoting THEN CandidatesLeft # {} \/ Current.id # None ELSE pass.refused = {}

(* The membership the plan's commands count on: what is to be added is      *)
(* absent, what is to be changed or removed is there, and a declared member *)
(* is there or still going to be added.                                     *)
PlanOwed ==
  pc = "run" =>
    /\ \A k \in pass.plan :
         /\ k.op = "AddCoordinator" => k.id \notin Joined
         /\ k.op = "RegisterInstance" => k.id \notin Registered
         /\ k.op \in {"UpdateCoordinatorBoltServer", "RemoveCoordinator"} => k.id \in Joined
         /\ k.op \in {"UpdateInstanceBoltServer", "UnregisterInstance"} => k.id \in Registered
         /\ k.op = "SetInstanceToMain" => k.id \in Registered \cup {None}
    /\ \A c \in pass.topology.coordinators : c \in Joined \/ AddCoordinator(c) \in pass.plan
    /\ \A d \in pass.topology.dataInstances : d \in Registered \/ RegisterInstance(d) \in pass.plan

Demotes == \E k \in pass.plan : k.op = "DemoteInstance"

(* The roles the plan's commands count on, while the coordinators have not  *)
(* moved them.                                                              *)
PlanCurrent ==
  pc = "run" /\ ~ disturbed =>
    \A k \in pass.plan :
      /\ k.op = "DemoteInstance" => k.id = main
      /\ k.op = "SetInstanceToMain" /\ pass.refused = {} => main = None \/ Demotes
      /\ k.op = "UnregisterInstance" /\ k.id = main => Demotes
      /\ k.op = "RemoveCoordinator" => k.id # leader
      /\ k.op = "YieldLeadership" => k.id = leader

(* No retiring member is left once the pass sheds pods. *)
ShedInv ==
  /\ pc = "shed" => pass.topology.retiringCoordinators \cap Joined = {}
  /\ pc \in {"shed", "shed data"} => pass.topology.retiringDataInstances \cap Registered = {}

(* No database is infinite: lags are differences of numbers. *)
HeldFinite == \A d \in DataInstances : IsFiniteSet(held[d])

(* Until the handover has promoted somebody, the retiring MAIN and every    *)
(* candidate that had not diverged hold what the MAIN held when its lag was *)
(* read.                                                                    *)
CandidatesHold ==
  pc = "run" /\ ~ disturbed =>
    \A k \in pass.plan :
      k.op = "SetInstanceToMain" /\ k.id # None /\ main \in {None, k.id} =>
        \A e \in {k.id} \cup (k.candidates \ pass.diverged) : pass.proven \subseteq held[e]

(* The MAIN that was demoted is the one the promotion restores, until       *)
(* somebody is promoted or it refuses.                                      *)
DemotedRestored ==
  /\ main # None => demoted = None
  /\ (main = None /\ demoted # None /\ budget.faults = MaxFaults)
       => pc = "run" /\ Promoting /\ Current.id = demoted

RegistrationInv ==
  /\ ClusterType /\ PassType
  /\ ViewTrue /\ PlanFormed /\ PlanOwed /\ PlanCurrent /\ ShedInv
  /\ HeldFinite /\ CandidatesHold /\ DemotedRestored

-----------------------------------------------------------------------------
(* Lemmas on the operators *)

(* Names are ordered as numbers are, and every set of them has a least.     *)
LEMMA LeastExists ==
  ASSUME NEW S, S \subseteq Names, S # {}
  PROVE  \E m \in S : \A n \in S : m <= n
<1> DEFINE R == OpToRel(<, Nat)
<1>1. CASE None \in S
  BY <1>1 DEF Names, None
<1>2. CASE None \notin S
  <2>1. S \subseteq Nat
    BY <1>2 DEF Names
  <2>2. PICK m \in S : \A n \in S : ~ (<<n, m>> \in R)
    <3>1. IsWellFoundedOn(R, Nat)
      BY NatLessThanWellFounded, Zenon
    <3> HIDE DEF R
    <3> QED  BY <2>1, <3>1, WFMin
  <2>3. \A n \in S : ~ (n < m)
    BY <2>1, <2>2 DEF OpToRel
  <2> QED  BY <2>1, <2>3
<1> QED  BY <1>1, <1>2

(* promotionTarget and the candidate loop take a member of the set.         *)
LEMMA LowestIn ==
  ASSUME NEW S, S \subseteq Names, S # {}
  PROVE  Lowest(S) \in S
  BY LeastExists DEF Lowest

(* The counts have a greatest, which bounds the ordinals.                   *)
LEMMA MaxFacts ==
  ASSUME NEW counts \in {CoordinatorCounts, DataCounts}
  PROVE  /\ counts \subseteq Nat \ {0} /\ Max(counts) \in counts
         /\ \A n \in counts : n <= Max(counts)
<1>1. \E m \in counts : \A n \in counts : n <= m
  BY CountsAssumption
<1> QED  BY <1>1, CountsAssumption DEF Max

(* The ordinals of a count are among those of a larger one.                 *)
LEMMA IntervalFacts ==
  ASSUME NEW counts, counts \subseteq Nat \ {0}, NEW m \in counts, \A n \in counts : n <= m
  PROVE  /\ 0 \in 0 .. m - 1 /\ 0 .. m - 1 \subseteq Nat
         /\ \A n \in counts : 0 .. n - 1 \subseteq 0 .. m - 1
<1>1. ASSUME NEW n \in counts PROVE 0 .. n - 1 \subseteq 0 .. m - 1
  <2>1. n \in Nat /\ m \in Nat /\ n <= m
    OBVIOUS
  <2> QED  BY <2>1
<1>2. m \in Nat \ {0}
  OBVIOUS
<1>3. 0 \in 0 .. m - 1 /\ 0 .. m - 1 \subseteq Nat
  BY <1>2
<1> QED  BY <1>1, <1>3

(* There are as many ordinals as the count says.                            *)
LEMMA OrdinalCount ==
  ASSUME NEW n \in Nat \ {0}
  PROVE  Cardinality(0 .. n - 1) = n
<1>1. 0 \in Int /\ n - 1 \in Int /\ ~ (0 > n - 1) /\ (n - 1) - 0 + 1 = n
  OBVIOUS
<1>2. Cardinality(0 .. n - 1) = IF 0 > n - 1 THEN 0 ELSE (n - 1) - 0 + 1
  BY <1>1, FS_Interval
<1> QED  BY <1>1, <1>2

(* The ordinals of every count are members' names, and None is not among    *)
(* them.                                                                    *)
LEMMA OrdinalFacts ==
  /\ CoordinatorCounts \subseteq Nat \ {0} /\ DataCounts \subseteq Nat \ {0}
  /\ \A n \in CoordinatorCounts : 0 .. n - 1 \subseteq Coordinators
  /\ \A n \in DataCounts : 0 .. n - 1 \subseteq Declarable
  /\ 0 \in Coordinators
  /\ Coordinators \subseteq Nat /\ Declarable \subseteq Nat /\ DataInstances \subseteq Nat
  /\ Foreign \cap Declarable = {} /\ Foreign \subseteq DataInstances /\ Declarable \subseteq DataInstances
  /\ None \notin Nat
<1>1. /\ CoordinatorCounts \subseteq Nat \ {0} /\ Max(CoordinatorCounts) \in CoordinatorCounts
      /\ \A n \in CoordinatorCounts : n <= Max(CoordinatorCounts)
  BY MaxFacts
<1>2. /\ DataCounts \subseteq Nat \ {0} /\ Max(DataCounts) \in DataCounts
      /\ \A n \in DataCounts : n <= Max(DataCounts)
  BY MaxFacts
<1>3. 0 \in Coordinators /\ Coordinators \subseteq Nat
      /\ \A n \in CoordinatorCounts : 0 .. n - 1 \subseteq Coordinators
  BY <1>1, IntervalFacts DEF Coordinators
<1>4. Declarable \subseteq Nat /\ \A n \in DataCounts : 0 .. n - 1 \subseteq Declarable
  BY <1>2, IntervalFacts DEF Declarable
<1>5. Foreign \subseteq Nat \ Declarable
  BY ForeignAssumption
<1>6. None \notin Nat
  BY DEF None
<1> QED  BY <1>1, <1>2, <1>3, <1>4, <1>5, <1>6 DEF DataInstances

(* What a pass's ordinals are, as the actions use them.                     *)
LEMMA SplitFacts ==
  ASSUME NEW declared, NEW retiring, NEW counts \in {CoordinatorCounts, DataCounts}, NEW count,
         Split(declared, retiring, counts, count)
  PROVE  /\ 0 \in declared /\ declared \cap retiring = {}
         /\ declared \subseteq 0 .. count - 1 /\ retiring \subseteq 0 .. count - 1
         /\ count \in counts /\ Cardinality(declared) \in counts
<1> DEFINE n == Cardinality(declared)
<1>1. /\ n \in Nat \ {0} /\ count \in Nat \ {0} /\ n <= count
      /\ declared = 0 .. n - 1 /\ retiring = n .. count - 1
  BY CountsAssumption DEF Split
<1>2. count \in counts /\ n \in counts
  BY DEF Split
<1> HIDE DEF n
<1>3. /\ 0 \in declared /\ declared \cap retiring = {}
      /\ declared \subseteq 0 .. count - 1 /\ retiring \subseteq 0 .. count - 1
  BY <1>1
<1> QED  BY <1>2, <1>3 DEF n

(* The stages of the commands are natural numbers, in the order Plan        *)
(* appends them.                                                            *)
LEMMA StageFacts ==
  /\ \A op \in CommandOps : StageOf(op) \in Nat
  /\ \A a, b \in CommandOps : StageOf(a) = StageOf(b) => a = b
  /\ StageOf("AddCoordinator") = 1 /\ StageOf("RegisterInstance") = 2
  /\ StageOf("UpdateCoordinatorBoltServer") = 3 /\ StageOf("UpdateInstanceBoltServer") = 4
  /\ StageOf("DemoteInstance") = 5 /\ StageOf("SetInstanceToMain") = 6
  /\ StageOf("UnregisterInstance") = 7 /\ StageOf("RemoveCoordinator") = 8
  /\ StageOf("YieldLeadership") = 9
<1>1. StageOf("AddCoordinator") = 1
  BY DEF StageOf
<1>2. StageOf("RegisterInstance") = 2
  BY DEF StageOf
<1>3. StageOf("UpdateCoordinatorBoltServer") = 3
  BY DEF StageOf
<1>4. StageOf("UpdateInstanceBoltServer") = 4
  BY DEF StageOf
<1>5. StageOf("DemoteInstance") = 5
  BY DEF StageOf
<1>6. StageOf("SetInstanceToMain") = 6
  BY DEF StageOf
<1>7. StageOf("UnregisterInstance") = 7
  BY DEF StageOf
<1>8. StageOf("RemoveCoordinator") = 8
  BY DEF StageOf
<1>9. StageOf("YieldLeadership") = 9
  BY DEF StageOf
<1> QED  BY <1>1, <1>2, <1>3, <1>4, <1>5, <1>6, <1>7, <1>8, <1>9 DEF CommandOps

(* Every non-empty plan has a first command, and every other one follows.   *)
LEMMA FirstFacts ==
  ASSUME NEW plan, plan # {}, IsPlan(plan)
  PROVE  /\ FirstCommand(plan) \in plan
         /\ \A d \in plan \ {FirstCommand(plan)} : Precedes(FirstCommand(plan), d)
<1> DEFINE stages == { StageOf(k.op) : k \in plan }
<1>1. stages \subseteq Nat /\ stages # {}
  BY StageFacts DEF IsPlan
<1>2. PICK s \in stages : \A t \in stages : s <= t
  BY <1>1, LeastExists DEF Names
<1> DEFINE ids == { k.id : k \in { k \in plan : StageOf(k.op) = s } }
<1>3. ids \subseteq Names /\ ids # {}
  BY <1>2 DEF IsPlan
<1>4. PICK i \in ids : \A j \in ids : i <= j
  <2> HIDE DEF ids
  <2> QED  BY <1>3, LeastExists
<1>5. PICK c \in plan : StageOf(c.op) = s /\ c.id = i
  BY <1>4
<1>6. ASSUME NEW d \in plan \ {c} PROVE Precedes(c, d)
  <2>1. StageOf(d.op) \in Nat /\ s \in Nat /\ s <= StageOf(d.op)
    BY <1>1, <1>2
  <2>2. CASE StageOf(d.op) # s
    BY <1>5, <2>1, <2>2 DEF Precedes
  <2>3. CASE StageOf(d.op) = s
    <3>1. d.id \in Names /\ c.id \in Names /\ c.id <= d.id
      BY <1>3, <1>4, <1>5, <2>3
    <3>2. d.op = c.op
      BY <1>5, <2>3, StageFacts DEF IsPlan
    <3>3. d.id # c.id
      BY <3>2 DEF IsPlan
    <3> QED  BY <1>5, <2>3, <3>1, <3>3 DEF Precedes, Names, None
  <2> QED  BY <2>2, <2>3
<1> HIDE DEF stages, ids
<1>7. \E k \in plan : \A d \in plan \ {k} : Precedes(k, d)
  BY <1>6
<1> QED  BY <1>7 DEF FirstCommand
-----------------------------------------------------------------------------
(* What a plan contains *)

(* A view with one MAIN at most has a retiring MAIN or a staying one.       *)
LEMMA RetiringMainFacts ==
  ASSUME NEW t, NEW o, t.retiringDataInstances \subseteq Nat, \A d, e \in Mains(o) : d = e
  PROVE  \/ /\ RetiringMain(t, o) = None /\ Mains(o) \cap t.retiringDataInstances = {}
            /\ HasStayingMain(t, o) <=> Mains(o) # {}
         \/ /\ RetiringMain(t, o) # None /\ RetiringMain(t, o) \in t.retiringDataInstances
            /\ Mains(o) = {RetiringMain(t, o)} /\ ~ HasStayingMain(t, o)
<1> DEFINE mains == Mains(o) \cap t.retiringDataInstances
<1>1. CASE mains = {}
  BY <1>1 DEF RetiringMain, HasStayingMain
<1>2. CASE mains # {}
  <2>1. RetiringMain(t, o) \in mains
    BY <1>2 DEF RetiringMain
  <2>2. RetiringMain(t, o) # None
    BY <2>1 DEF None
  <2>3. Mains(o) = {RetiringMain(t, o)}
    BY <2>1
  <2> QED  BY <2>1, <2>2, <2>3 DEF HasStayingMain
<1> QED  BY <1>1, <1>2

(* The instance promoted at bootstrap is a declared one.                    *)
LEMMA PromotionTargetFacts ==
  ASSUME NEW t, NEW o, t.dataInstances \subseteq Nat, t.dataInstances # {}
  PROVE  promotionTarget(t, o) \in t.dataInstances
<1> DEFINE reachable == { d \in t.dataInstances : DataRegistered(o, d) /\ IsUp(o, d) }
           S == IF reachable # {} THEN reachable ELSE t.dataInstances
<1>1. S \subseteq t.dataInstances /\ S # {} /\ S \subseteq Names
  BY DEF Names
<1>2. promotionTarget(t, o) = Lowest(S)
  BY DEF promotionTarget
<1> HIDE DEF S
<1> QED  BY <1>1, <1>2, LowestIn

(* Which commands Plan returns: each kind with the members it is for.       *)
LEMMA PlanCases ==
  ASSUME NEW t, NEW o, NEW lag, NEW k \in Plan(t, o, lag)
  PROVE  LET successors == handoverCandidates(t, o, lag)
             retiringMain == RetiringMain(t, o)
             handover == retiringMain # None /\ successors # {}
         IN  \/ \E c \in t.coordinators : k = AddCoordinator(c) /\ ~ coordinatorRegistered(o, c)
             \/ \E d \in t.dataInstances : k = RegisterInstance(d) /\ ~ DataRegistered(o, d)
             \/ \E c \in t.coordinators : k = UpdateCoordinatorBoltServer(c) /\ coordinatorRegistered(o, c)
             \/ \E d \in t.dataInstances : k = UpdateInstanceBoltServer(d) /\ DataRegistered(o, d)
             \/ k = DemoteInstance(retiringMain) /\ handover
             \/ k = SetInstanceToMain(successors, retiringMain) /\ handover /\ ~ HasStayingMain(t, o)
             \/ /\ k = SetInstanceToMain({promotionTarget(t, o)}, None)
                /\ retiringMain = None /\ ~ HasStayingMain(t, o)
             \/ \E d \in t.retiringDataInstances :
                  k = UnregisterInstance(d) /\ DataRegistered(o, d) /\ (d = retiringMain => successors # {})
             \/ \E c \in t.retiringCoordinators :
                  k = RemoveCoordinator(c) /\ coordinatorRegistered(o, c) /\ c # leaderName(o)
             \/ k = YieldLeadership(leaderName(o)) /\ leaderName(o) \in t.retiringCoordinators
<1> DEFINE successors == handoverCandidates(t, o, lag)
<1>1. \/ k \in registrations(t, o) \/ k \in boltServerUpdates(t, o)
      \/ k \in promotions(t, o, successors) \/ k \in unregistrations(t, o, successors)
      \/ k \in removals(t, o)
  BY DEF Plan
<1> HIDE DEF successors
<1>2. CASE k \in registrations(t, o)
  BY <1>2 DEF registrations
<1>3. CASE k \in boltServerUpdates(t, o)
  BY <1>3 DEF boltServerUpdates
<1>4. CASE k \in promotions(t, o, successors)
  BY <1>4 DEF promotions, successors
<1>5. CASE k \in unregistrations(t, o, successors)
  BY <1>5 DEF unregistrations, successors
<1>6. CASE k \in removals(t, o)
  BY <1>6 DEF removals
<1> QED  BY <1>1, <1>2, <1>3, <1>4, <1>5, <1>6

(* Conversely, what Plan owes: a declared member that is not registered is  *)
(* added, and a retiring MAIN that can be demoted is, to promote another.   *)
LEMMA PlanOwes ==
  ASSUME NEW t, NEW o, NEW lag
  PROVE  LET P == Plan(t, o, lag)
             successors == handoverCandidates(t, o, lag)
         IN  /\ \A c \in t.coordinators : ~ coordinatorRegistered(o, c) => AddCoordinator(c) \in P
             /\ \A d \in t.dataInstances : ~ DataRegistered(o, d) => RegisterInstance(d) \in P
             /\ RetiringMain(t, o) # None /\ successors # {} => DemoteInstance(RetiringMain(t, o)) \in P
             /\ RetiringMain(t, o) # None /\ successors # {} /\ ~ HasStayingMain(t, o) =>
                  SetInstanceToMain(successors, RetiringMain(t, o)) \in P
<1> DEFINE successors == handoverCandidates(t, o, lag)
<1>1. registrations(t, o) \cup promotions(t, o, successors) \subseteq Plan(t, o, lag)
  BY DEF Plan
<1> HIDE DEF successors
<1>2. /\ \A c \in t.coordinators : ~ coordinatorRegistered(o, c) => AddCoordinator(c) \in registrations(t, o)
      /\ \A d \in t.dataInstances : ~ DataRegistered(o, d) => RegisterInstance(d) \in registrations(t, o)
  BY DEF registrations
<1>3. RetiringMain(t, o) # None /\ successors # {} =>
        DemoteInstance(RetiringMain(t, o)) \in promotions(t, o, successors)
  BY DEF promotions
<1>4. RetiringMain(t, o) # None /\ successors # {} /\ ~ HasStayingMain(t, o) =>
        SetInstanceToMain(successors, RetiringMain(t, o)) \in promotions(t, o, successors)
  BY DEF promotions
<1> QED  BY <1>1, <1>2, <1>3, <1>4 DEF successors
(* The ordinals of a topology, as the planner relies on them.               *)
IsTopology(t) ==
  /\ t.coordinators \subseteq Nat /\ t.retiringCoordinators \subseteq Nat
  /\ t.dataInstances \subseteq Nat /\ t.dataInstances # {} /\ t.retiringDataInstances \subseteq Nat

(* A command by its kind: its shape, its member and what the view says of   *)
(* it.                                                                      *)
LEMMA CommandFacts ==
  ASSUME NEW t, NEW o, NEW lag, IsTopology(t), \A d, e \in Mains(o) : d = e,
         NEW k \in Plan(t, o, lag)
  PROVE  LET successors == handoverCandidates(t, o, lag)
             retiringMain == RetiringMain(t, o)
         IN  /\ k = [op |-> k.op, id |-> k.id, candidates |-> k.candidates]
             /\ k.op \in CommandOps /\ k.id \in Names
             /\ k.op # "SetInstanceToMain" => k.candidates = {}
             /\ k.op = "AddCoordinator" => k.id \in t.coordinators /\ ~ coordinatorRegistered(o, k.id)
             /\ k.op = "RegisterInstance" => k.id \in t.dataInstances /\ ~ DataRegistered(o, k.id)
             /\ k.op = "UpdateCoordinatorBoltServer" =>
                  k.id \in t.coordinators /\ coordinatorRegistered(o, k.id)
             /\ k.op = "UpdateInstanceBoltServer" => k.id \in t.dataInstances /\ DataRegistered(o, k.id)
             /\ k.op = "DemoteInstance" =>
                  /\ k.id = retiringMain /\ retiringMain # None /\ successors # {}
                  /\ k.id \in t.retiringDataInstances
             /\ k.op = "SetInstanceToMain" =>
                  \/ k.id = retiringMain /\ retiringMain # None /\ k.candidates = successors /\ successors # {}
                  \/ k.id = None /\ retiringMain = None /\ Mains(o) = {} /\ k.candidates = {promotionTarget(t, o)}
             /\ k.op = "UnregisterInstance" =>
                  /\ k.id \in t.retiringDataInstances /\ DataRegistered(o, k.id)
                  /\ k.id = retiringMain => successors # {}
             /\ k.op = "RemoveCoordinator" =>
                  /\ k.id \in t.retiringCoordinators /\ coordinatorRegistered(o, k.id)
                  /\ k.id # leaderName(o)
             /\ k.op = "YieldLeadership" => k.id = leaderName(o) /\ k.id \in t.retiringCoordinators
<1> DEFINE successors == handoverCandidates(t, o, lag)
           retiringMain == RetiringMain(t, o)
<1>1. /\ \/ retiringMain = None /\ (HasStayingMain(t, o) <=> Mains(o) # {})
         \/ retiringMain # None /\ retiringMain \in t.retiringDataInstances
      /\ retiringMain \in Names
  BY RetiringMainFacts DEF IsTopology, Names
<1>2. /\ t.coordinators \subseteq Names /\ t.retiringCoordinators \subseteq Names
      /\ t.dataInstances \subseteq Names /\ t.retiringDataInstances \subseteq Names
      /\ None \in Names
  BY DEF IsTopology, Names
<1> HIDE DEF successors, retiringMain
<1> USE DEF Command, CommandOps
<1>3. CASE \E c \in t.coordinators : k = AddCoordinator(c) /\ ~ coordinatorRegistered(o, c)
  BY <1>2, <1>3 DEF AddCoordinator
<1>4. CASE \E d \in t.dataInstances : k = RegisterInstance(d) /\ ~ DataRegistered(o, d)
  BY <1>2, <1>4 DEF RegisterInstance
<1>5. CASE \E c \in t.coordinators : k = UpdateCoordinatorBoltServer(c) /\ coordinatorRegistered(o, c)
  BY <1>2, <1>5 DEF UpdateCoordinatorBoltServer
<1>6. CASE \E d \in t.dataInstances : k = UpdateInstanceBoltServer(d) /\ DataRegistered(o, d)
  BY <1>2, <1>6 DEF UpdateInstanceBoltServer
<1>7. CASE k = DemoteInstance(retiringMain) /\ retiringMain # None /\ successors # {}
  BY <1>1, <1>7 DEF DemoteInstance, retiringMain, successors
<1>8. CASE k = SetInstanceToMain(successors, retiringMain) /\ retiringMain # None /\ successors # {}
  BY <1>1, <1>8 DEF SetInstanceToMain, retiringMain, successors
<1>9. CASE /\ k = SetInstanceToMain({promotionTarget(t, o)}, None)
           /\ retiringMain = None /\ ~ HasStayingMain(t, o)
  BY <1>1, <1>2, <1>9 DEF SetInstanceToMain, retiringMain, successors
<1>10. CASE \E d \in t.retiringDataInstances :
              k = UnregisterInstance(d) /\ DataRegistered(o, d) /\ (d = retiringMain => successors # {})
  BY <1>2, <1>10 DEF UnregisterInstance, retiringMain, successors
<1>11. CASE \E c \in t.retiringCoordinators :
              k = RemoveCoordinator(c) /\ coordinatorRegistered(o, c) /\ c # leaderName(o)
  BY <1>2, <1>11 DEF RemoveCoordinator
<1>12. CASE k = YieldLeadership(leaderName(o)) /\ leaderName(o) \in t.retiringCoordinators
  BY <1>2, <1>12 DEF YieldLeadership
<1>13. \/ \E c \in t.coordinators : k = AddCoordinator(c) /\ ~ coordinatorRegistered(o, c)
       \/ \E d \in t.dataInstances : k = RegisterInstance(d) /\ ~ DataRegistered(o, d)
       \/ \E c \in t.coordinators : k = UpdateCoordinatorBoltServer(c) /\ coordinatorRegistered(o, c)
       \/ \E d \in t.dataInstances : k = UpdateInstanceBoltServer(d) /\ DataRegistered(o, d)
       \/ k = DemoteInstance(retiringMain) /\ retiringMain # None /\ successors # {}
       \/ k = SetInstanceToMain(successors, retiringMain) /\ retiringMain # None /\ successors # {}
       \/ /\ k = SetInstanceToMain({promotionTarget(t, o)}, None)
          /\ retiringMain = None /\ ~ HasStayingMain(t, o)
       \/ \E d \in t.retiringDataInstances :
            k = UnregisterInstance(d) /\ DataRegistered(o, d) /\ (d = retiringMain => successors # {})
       \/ \E c \in t.retiringCoordinators :
            k = RemoveCoordinator(c) /\ coordinatorRegistered(o, c) /\ c # leaderName(o)
       \/ k = YieldLeadership(leaderName(o)) /\ leaderName(o) \in t.retiringCoordinators
  BY PlanCases, Zenon DEF successors, retiringMain
<1> QED  BY <1>3, <1>4, <1>5, <1>6, <1>7, <1>8, <1>9, <1>10, <1>11, <1>12, <1>13, Zenon

(* What Plan returns is a plan, aims its commands right, and promotes after *)
(* it demotes.                                                              *)
LEMMA PlanIsFormed ==
  ASSUME NEW t, NEW o, NEW lag, IsTopology(t), \A d, e \in Mains(o) : d = e
  PROVE  /\ IsPlan(Plan(t, o, lag)) /\ AimsRight(Plan(t, o, lag), t)
         /\ DemotesToPromote(Plan(t, o, lag))
<1> DEFINE P == Plan(t, o, lag)
           successors == handoverCandidates(t, o, lag)
           retiringMain == RetiringMain(t, o)
<1>0. ASSUME NEW k \in P
      PROVE  /\ k = [op |-> k.op, id |-> k.id, candidates |-> k.candidates]
             /\ k.op = "DemoteInstance" => k.id = retiringMain /\ k.candidates = {}
             /\ k.op = "SetInstanceToMain" =>
                  \/ k.id = retiringMain /\ retiringMain # None /\ k.candidates = successors
                  \/ k.id = None /\ retiringMain = None /\ k.candidates = {promotionTarget(t, o)}
  BY CommandFacts
<1>1. ASSUME NEW k \in P, NEW l \in P, k.op = l.op, k.op \in {"DemoteInstance", "SetInstanceToMain"}
      PROVE  k = l
  <2> HIDE DEF P, successors, retiringMain
  <2>1. k.id = l.id /\ k.candidates = l.candidates
    BY <1>0, <1>1
  <2> QED  BY <1>0, <1>1, <2>1
<1>2. IsPlan(P)
  BY <1>1, CommandFacts DEF IsPlan
<1>3. successors \subseteq t.dataInstances /\ {promotionTarget(t, o)} \subseteq t.dataInstances
  BY PromotionTargetFacts DEF handoverCandidates, IsTopology
<1>4. retiringMain = None \/ (retiringMain \in t.retiringDataInstances /\ ~ HasStayingMain(t, o))
  BY RetiringMainFacts DEF IsTopology
<1>5. AimsRight(P, t)
  <2> SUFFICES ASSUME NEW k \in P PROVE AimsRight({k}, t)
    BY DEF AimsRight
  <2> QED  BY <1>3, <1>4, CommandFacts DEF AimsRight
<1>6. DemotesToPromote(P)
  <2> SUFFICES ASSUME NEW k \in P, k.op = "DemoteInstance" 
               PROVE  \E l \in P : l.op = "SetInstanceToMain" /\ l.id = k.id
    BY DEF DemotesToPromote
  <2>1. retiringMain # None /\ successors # {} /\ k.id = retiringMain
    BY CommandFacts
  <2>2. SetInstanceToMain(successors, retiringMain) \in P
    BY <1>4, <2>1, PlanOwes
  <2>3. /\ SetInstanceToMain(successors, retiringMain).op = "SetInstanceToMain"
        /\ SetInstanceToMain(successors, retiringMain).id = retiringMain
    BY DEF SetInstanceToMain
  <2> QED  BY <2>1, <2>2, <2>3
<1> QED  BY <1>2, <1>5, <1>6
-----------------------------------------------------------------------------
(* What a step may change *)

(* Steps of the cluster, the clients, the user and the load balancers.      *)
Outside ==
  \/ \E t \in Txns : Commit(t)
  \/ \E d \in DataInstances : Recover(d) \/ GoDown(d) \/ ComeUp(d) \/ Failover(d)
  \/ \E c \in Coordinators : Elect(c)
  \/ \E d \in Foreign : RegisterForeign(d)
  \/ Edit \/ MoveAddress
  \/ UNCHANGED vars

(* A pass plans with the lag it read, or with none.                         *)
Planned ==
  /\ pc = "lag"
  /\ PlanWith(ShowReplicationLag) \/ PlanWith(<<>>)
  /\ UNCHANGED <<clusterVars, k8sVars, disturbed>>
  /\ UNCHANGED budget \/ Spend("faults")

(* A query of the plan: answered, refused or lost.                          *)
Queried == RunCommand \/ RefuseCommand \/ RefusePromotion \/ LoseCommand

(* The steps by who takes them.                                             *)
LEMMA StepCases ==
  [Next]_vars => \/ Outside \/ BeginPass \/ Observe \/ Planned \/ Queried
                 \/ ShedCoordinators \/ ShedData \/ Crash
<1> SUFFICES ASSUME [Next]_vars PROVE Outside \/ BeginPass \/ Observe \/ Planned \/ Queried
                                      \/ ShedCoordinators \/ ShedData \/ Crash
  OBVIOUS
<1>1. CASE Next
  <2>1. ReadLagAndPlan \/ ReadLagFails => Planned
    BY DEF ReadLagAndPlan, ReadLagFails, Planned
  <2> QED  BY <1>1, <2>1 DEF Next, PassStep, Environment, Outside, Queried
<1>2. CASE UNCHANGED vars
  BY <1>2 DEF Outside
<1> QED  BY <1>1, <1>2

(* Nobody but the operator touches the pass or the counts, no coordinator   *)
(* joins or leaves by itself, and only foreign instances appear; MAIN and   *)
(* leader move only in a disturbance.                                       *)
LEMMA OutsideFacts ==
  Outside => /\ UNCHANGED <<pc, pass, running, joined>>
             /\ \/ registered' = registered
                \/ \E d \in Foreign \ Registered, a \in Addresses : registered' = With(registered, d, a)
             /\ ~ disturbed' => UNCHANGED <<main, leader, disturbed>>
<1> USE DEF k8sVars, passVars, clusterVars
<1>1. ASSUME NEW t \in Txns, Commit(t) PROVE UNCHANGED <<pc, pass, running, joined, registered, main, leader, disturbed>>
  BY <1>1 DEF Commit
<1>2. ASSUME NEW d \in DataInstances, Recover(d) \/ GoDown(d) \/ ComeUp(d)
      PROVE  UNCHANGED <<pc, pass, running, joined, registered, main, leader, disturbed>>
  BY <1>2 DEF Recover, GoDown, ComeUp
<1>3. ASSUME NEW d \in DataInstances, Failover(d)
      PROVE  UNCHANGED <<pc, pass, running, joined, registered>> /\ disturbed'
  BY <1>3 DEF Failover
<1>4. ASSUME NEW c \in Coordinators, Elect(c)
      PROVE  UNCHANGED <<pc, pass, running, joined, registered>> /\ disturbed'
  BY <1>4 DEF Elect
<1>5. ASSUME NEW d \in Foreign, RegisterForeign(d)
      PROVE  /\ UNCHANGED <<pc, pass, running, joined, main, leader, disturbed>> /\ d \notin Registered
             /\ \E a \in Addresses : registered' = With(registered, d, a)
  BY <1>5 DEF RegisterForeign
<1>6. ASSUME Edit \/ MoveAddress \/ UNCHANGED vars
      PROVE  UNCHANGED <<pc, pass, running, joined, registered, main, leader, disturbed>>
  BY <1>6 DEF Edit, MoveAddress, vars
<1> QED  BY <1>1, <1>2, <1>3, <1>4, <1>5, <1>6 DEF Outside

(* The domains of a membership with a member more or a member less.         *)
LEMMA WithFacts ==
  ASSUME NEW f, NEW x, NEW v
  PROVE  /\ DOMAIN With(f, x, v) = DOMAIN f \cup {x}
         /\ \A y \in DOMAIN f \cup {x} : With(f, x, v)[y] = IF y = x THEN v ELSE f[y]
         /\ DOMAIN Without(f, x) = DOMAIN f \ {x}
         /\ \A y \in DOMAIN f \ {x} : Without(f, x)[y] = f[y]
  BY DEF With, Without

(* Nothing the operator manages joins a cluster by itself.                  *)
LEMMA OutsideMembers ==
  ASSUME Outside
  PROVE  /\ DOMAIN joined' = DOMAIN joined /\ DOMAIN registered \subseteq DOMAIN registered'
         /\ \A d \in Declarable : d \in DOMAIN registered' <=> d \in DOMAIN registered
<1>1. CASE registered' = registered
  BY <1>1, OutsideFacts
<1>2. CASE \E d \in Foreign \ Registered, a \in Addresses : registered' = With(registered, d, a)
  <2>1. PICK d \in Foreign \ Registered, a \in Addresses : registered' = With(registered, d, a)
    BY <1>2
  <2>2. DOMAIN registered' = DOMAIN registered \cup {d} /\ d \notin Declarable
    BY <2>1, WithFacts, OrdinalFacts
  <2> QED  BY <2>2, OutsideFacts
<1> QED  BY <1>1, <1>2, OutsideFacts

(* A membership stays one of addresses.                                     *)
LEMMA WithType ==
  ASSUME NEW f, NEW x, NEW A, \A y \in DOMAIN f : f[y] \in A
  PROVE  /\ \A v \in A : \A y \in DOMAIN With(f, x, v) : With(f, x, v)[y] \in A
         /\ \A y \in DOMAIN Without(f, x) : Without(f, x)[y] \in A
  BY DEF With, Without

(* What an accepted query of each kind does.                                *)
LEMMA EffectFacts ==
  ASSUME NEW op \in CommandOps, NEW id, Accepts(op, id), Effect(op, id)
  PROVE  /\ up' = up
         /\ op \in {"AddCoordinator", "UpdateCoordinatorBoltServer"} =>
              /\ joined' = With(joined, id, pass.topology.coordinatorBolt)
              /\ UNCHANGED <<registered, main, held, demoted, leader>>
         /\ op \in {"RegisterInstance", "UpdateInstanceBoltServer"} =>
              /\ registered' = With(registered, id, pass.topology.dataBolt[id])
              /\ UNCHANGED <<joined, main, held, demoted, leader>>
         /\ op = "DemoteInstance" =>
              id = main /\ main' = None /\ demoted' = id /\ UNCHANGED <<joined, registered, held, leader>>
         /\ op = "SetInstanceToMain" =>
              /\ id \in Registered /\ main = None /\ Promote(id)
              /\ UNCHANGED <<joined, registered, leader>>
         /\ op = "UnregisterInstance" =>
              /\ id \in Registered \ {main} /\ registered' = Without(registered, id)
              /\ UNCHANGED <<joined, main, held, demoted, leader>>
         /\ op = "RemoveCoordinator" =>
              /\ id \in Joined \ {leader} /\ joined' = Without(joined, id)
              /\ UNCHANGED <<registered, main, held, demoted, leader>>
         /\ op = "YieldLeadership" =>
              leader' \in Joined \ {leader} /\ UNCHANGED <<joined, registered, main, held, demoted>>
<1> USE DEF Accepts, Effect
<1>1. CASE op = "AddCoordinator" \/ op = "UpdateCoordinatorBoltServer"
  BY <1>1
<1>2. CASE op = "RegisterInstance" \/ op = "UpdateInstanceBoltServer"
  BY <1>2
<1>3. CASE op = "DemoteInstance" \/ op = "SetInstanceToMain"
  BY <1>3
<1>4. CASE op = "UnregisterInstance" \/ op = "RemoveCoordinator"
  BY <1>4
<1>5. CASE op = "YieldLeadership"
  BY <1>5
<1> QED  BY <1>1, <1>2, <1>3, <1>4, <1>5 DEF CommandOps
-----------------------------------------------------------------------------
(* The pass *)

(* A pass works for declarable ordinals, and declared members are not       *)
(* retiring.                                                                *)
LEMMA TopologyFacts ==
  ASSUME PassType
  PROVE  /\ pc \in {"observe", "lag", "run", "shed"} =>
              /\ pass.topology.coordinators \subseteq Coordinators /\ 0 \in pass.topology.coordinators
              /\ pass.topology.retiringCoordinators \subseteq Coordinators
              /\ pass.topology.coordinators \cap pass.topology.retiringCoordinators = {}
         /\ pc # "idle" =>
              /\ pass.topology.dataInstances \subseteq Declarable /\ 0 \in pass.topology.dataInstances
              /\ pass.topology.retiringDataInstances \subseteq Declarable
              /\ pass.topology.dataInstances \cap pass.topology.retiringDataInstances = {}
         /\ pc \in {"lag", "run"} => IsTopology(pass.topology)
<1>1. ASSUME pc \in {"observe", "lag", "run", "shed"}
      PROVE  /\ pass.topology.coordinators \subseteq Coordinators /\ 0 \in pass.topology.coordinators
             /\ pass.topology.retiringCoordinators \subseteq Coordinators
             /\ pass.topology.coordinators \cap pass.topology.retiringCoordinators = {}
  <2>1. Split(pass.topology.coordinators, pass.topology.retiringCoordinators,
              CoordinatorCounts, running.coordinators)
    BY <1>1 DEF PassType
  <2>2. /\ 0 \in pass.topology.coordinators
        /\ pass.topology.coordinators \cap pass.topology.retiringCoordinators = {}
        /\ pass.topology.coordinators \subseteq 0 .. running.coordinators - 1
        /\ pass.topology.retiringCoordinators \subseteq 0 .. running.coordinators - 1
        /\ running.coordinators \in CoordinatorCounts
    BY <2>1, SplitFacts
  <2>3. 0 .. running.coordinators - 1 \subseteq Coordinators
    BY <2>2, OrdinalFacts
  <2> QED  BY <2>2, <2>3
<1>2. ASSUME pc # "idle"
      PROVE  /\ pass.topology.dataInstances \subseteq Declarable /\ 0 \in pass.topology.dataInstances
             /\ pass.topology.retiringDataInstances \subseteq Declarable
             /\ pass.topology.dataInstances \cap pass.topology.retiringDataInstances = {}
  <2>1. Split(pass.topology.dataInstances, pass.topology.retiringDataInstances, DataCounts, running.data)
    BY <1>2 DEF PassType
  <2>2. /\ 0 \in pass.topology.dataInstances
        /\ pass.topology.dataInstances \cap pass.topology.retiringDataInstances = {}
        /\ pass.topology.dataInstances \subseteq 0 .. running.data - 1
        /\ pass.topology.retiringDataInstances \subseteq 0 .. running.data - 1
        /\ running.data \in DataCounts
    BY <2>1, SplitFacts
  <2>3. 0 .. running.data - 1 \subseteq Declarable
    BY <2>2, OrdinalFacts
  <2> QED  BY <2>2, <2>3
<1>3. pc \in {"lag", "run"} => IsTopology(pass.topology)
  BY <1>1, <1>2, OrdinalFacts DEF IsTopology
<1> QED  BY <1>1, <1>2, <1>3

(* The command whose turn it is comes first, and is aimed at a member: at   *)
(* its own, or, to promote, at a candidate left and then at the MAIN that   *)
(* was demoted.                                                             *)
LEMMA CurrentFacts ==
  ASSUME PassType, PlanFormed, pc = "run"
  PROVE  /\ Current \in pass.plan /\ Current.op \in CommandOps
         /\ \A k \in pass.plan \ {Current} : Precedes(Current, k)
         /\ ~ Promoting => Target = Current.id
         /\ Promoting /\ ~ Restoring => Target \in CandidatesLeft
         /\ Restoring => Target = Current.id /\ Current.id # None
         /\ Current.op \in {"AddCoordinator", "UpdateCoordinatorBoltServer"} => Target \in pass.topology.coordinators
         /\ Current.op \in {"RegisterInstance", "UpdateInstanceBoltServer"} => Target \in pass.topology.dataInstances
         /\ Current.op \in {"DemoteInstance", "UnregisterInstance"} => Target \in pass.topology.retiringDataInstances
         /\ Current.op \in {"RemoveCoordinator", "YieldLeadership"} => Target \in pass.topology.retiringCoordinators
         /\ Promoting => Target \in IF Restoring THEN pass.topology.retiringDataInstances
                                      ELSE pass.topology.dataInstances
         /\ Target \in Coordinators \cup DataInstances
<1>1. /\ Current \in pass.plan /\ Current.op \in CommandOps
      /\ \A k \in pass.plan \ {Current} : Precedes(Current, k)
  <2>1. pass.plan # {} /\ IsPlan(pass.plan)
    BY DEF PlanFormed
  <2>2. Current \in pass.plan /\ \A k \in pass.plan \ {Current} : Precedes(Current, k)
    BY <2>1, FirstFacts DEF Current
  <2> QED  BY <2>1, <2>2 DEF IsPlan
<1>2. AimsRight(pass.plan, pass.topology) /\ (Promoting => CandidatesLeft # {} \/ Current.id # None)
  BY DEF PlanFormed
<1>3. Restoring => Promoting /\ CandidatesLeft = {}
  BY DEF Restoring
<1>4. Promoting /\ ~ Restoring => CandidatesLeft # {}
  BY DEF Restoring
<1>5. Promoting => /\ CandidatesLeft \subseteq pass.topology.dataInstances
                   /\ Current.id \in pass.topology.retiringDataInstances \cup {None}
  BY <1>1, <1>2 DEF AimsRight, CandidatesLeft, Promoting
<1>6. /\ pass.topology.dataInstances \subseteq DataInstances /\ pass.topology.retiringDataInstances \subseteq DataInstances
      /\ pass.topology.coordinators \subseteq Coordinators /\ pass.topology.retiringCoordinators \subseteq Coordinators
      /\ DataInstances \subseteq Names
  BY TopologyFacts, OrdinalFacts DEF Names
<1>7. Promoting /\ ~ Restoring => Lowest(CandidatesLeft) \in CandidatesLeft
  BY <1>4, <1>5, <1>6, LowestIn
<1>8. /\ ~ Promoting => Target = Current.id
      /\ Promoting /\ ~ Restoring => Target \in CandidatesLeft
      /\ Restoring => Target = Current.id /\ Current.id # None
  BY <1>2, <1>3, <1>7 DEF Target
<1>9. /\ Current.op \in {"AddCoordinator", "UpdateCoordinatorBoltServer"} => Current.id \in pass.topology.coordinators
      /\ Current.op \in {"RegisterInstance", "UpdateInstanceBoltServer"} => Current.id \in pass.topology.dataInstances
      /\ Current.op \in {"DemoteInstance", "UnregisterInstance"} => Current.id \in pass.topology.retiringDataInstances
      /\ Current.op \in {"RemoveCoordinator", "YieldLeadership"} => Current.id \in pass.topology.retiringCoordinators
  BY <1>1, <1>2 DEF AimsRight
<1>10. Promoting => Target \in IF Restoring THEN pass.topology.retiringDataInstances
                                ELSE pass.topology.dataInstances
  BY <1>3, <1>5, <1>8
<1>11. Promoting <=> Current.op = "SetInstanceToMain"
  BY DEF Promoting
<1>12. Target \in Coordinators \cup DataInstances
  BY <1>1, <1>6, <1>8, <1>9, <1>10, <1>11 DEF CommandOps
<1> QED  BY <1>1, <1>8, <1>9, <1>10, <1>11, <1>12

(* The pass goes on with the next command ...                               *)
Stepped ==
  /\ RunCommand /\ ~ Restoring /\ pass.plan # {Current}
  /\ pc' = "run" /\ pass' = [pass EXCEPT !.plan = pass.plan \ {Current}, !.refused = {}]

(* ... or tries the next instance to promote ...                            *)
Retried ==
  /\ RefuseCommand \/ RefusePromotion \/ LoseCommand
  /\ Promoting /\ ~ Restoring /\ (Current.id # None \/ CandidatesLeft # {Target})
  /\ pc' = "run" /\ pass' = [pass EXCEPT !.refused = pass.refused \cup {Target}]

(* ... or is over.                                                          *)
LEMMA QueriedCases ==
  Queried => pc = "run" /\ UNCHANGED <<k8sVars, disturbed>> /\ (Stepped \/ Retried \/ Finish)
<1>1. RunCommand => pc = "run" /\ UNCHANGED <<k8sVars, disturbed>> /\ (Stepped \/ Finish)
  <2> SUFFICES ASSUME RunCommand PROVE pc = "run" /\ UNCHANGED <<k8sVars, disturbed>> /\ (Stepped \/ Finish)
    OBVIOUS
  <2>1. pc = "run" /\ UNCHANGED <<k8sVars, disturbed>> /\ IF Restoring THEN Finish ELSE Done
    BY DEF RunCommand
  <2> QED  BY <2>1 DEF Done, Stepped
<1>2. RefuseCommand \/ RefusePromotion \/ LoseCommand => pc = "run" /\ UNCHANGED <<k8sVars, disturbed>> /\ (Retried \/ Finish)
  <2> SUFFICES ASSUME RefuseCommand \/ RefusePromotion \/ LoseCommand
               PROVE  pc = "run" /\ UNCHANGED <<k8sVars, disturbed>> /\ (Retried \/ Finish)
    OBVIOUS
  <2>1. pc = "run" /\ UNCHANGED <<k8sVars, disturbed>> /\ Failed
    BY DEF RefuseCommand, RefusePromotion, LoseCommand
  <2> QED  BY <2>1 DEF Failed, Retried
<1> QED  BY <1>1, <1>2 DEF Queried

(* A query changes the cluster only by its effect.                          *)
Unmoved ==
  UNCHANGED <<joined, leader, registered, main, up, held>> /\ demoted' \in {demoted, None}

LEMMA QueriedEffect ==
  Queried => \/ Unmoved
             \/ Accepts(Current.op, Target) /\ Effect(Current.op, Target)
<1>1. RunCommand \/ RefuseCommand \/ LoseCommand =>
        \/ UNCHANGED clusterVars
        \/ Accepts(Current.op, Target) /\ Effect(Current.op, Target)
  BY DEF RunCommand, RefuseCommand, LoseCommand
<1>2. UNCHANGED clusterVars => Unmoved
  BY DEF clusterVars, Unmoved
<1>3. RefusePromotion => Unmoved
  BY DEF RefusePromotion, Unmoved
<1> QED  BY <1>1, <1>2, <1>3 DEF Queried
-----------------------------------------------------------------------------
(* Types *)

(* Spending leaves every bound a natural number, and faults below theirs.   *)
LEMMA SpendFacts ==
  ASSUME ClusterType, NEW kind \in {"edits", "moves", "faults", "refusals", "downs", "elections"}, Spend(kind)
  PROVE  /\ budget' \in Budgets /\ budget'.faults <= MaxFaults
         /\ IF kind = "faults" THEN budget'.faults < MaxFaults ELSE budget'.faults = budget.faults
<1>1. /\ budget \in Budgets /\ budget.faults <= MaxFaults /\ MaxFaults \in Nat
      /\ budget[kind] > 0 /\ budget' = [budget EXCEPT ![kind] = @ - 1]
  BY BoundsAssumption DEF ClusterType, Spend
<1>2. budget' \in Budgets
  BY <1>1 DEF Budgets
<1>3. CASE kind = "faults"
  <2>1. budget'.faults = budget.faults - 1 /\ budget.faults \in Nat
    BY <1>1, <1>3 DEF Budgets
  <2> QED  BY <1>1, <1>2, <2>1
<1>4. CASE kind # "faults"
  <2>1. budget'.faults = budget.faults
    BY <1>1, <1>4 DEF Budgets
  <2> QED  BY <1>1, <1>2, <1>4, <2>1
<1> QED  BY <1>3, <1>4

(* The steps of the world around the operator keep the types.               *)
LEMMA OutsideType ==
  ASSUME ClusterType, Outside
  PROVE  ClusterType'
<1> USE DEF k8sVars, passVars, clusterVars, Joined, Registered
<1>0. /\ up \subseteq DataInstances /\ held \in [DataInstances -> SUBSET Txns]
      /\ Registered \subseteq DataInstances /\ main \in Registered \cup {None}
      /\ None \notin DataInstances
  BY OrdinalFacts DEF ClusterType
<1>1. ASSUME NEW t \in Txns, Commit(t) PROVE ClusterType'
  <2>1. PICK synced \in SUBSET { d \in Registered \cap up : held[d] = held[main] } :
          held' = [ d \in DataInstances |-> IF d \in synced \cup {main} THEN held[d] \cup {t} ELSE held[d] ]
    BY <1>1 DEF Commit
  <2>2. held' \in [DataInstances -> SUBSET Txns]
    BY <1>0, <2>1
  <2> QED  BY <1>1, <2>2 DEF Commit, ClusterType
<1>2. ASSUME NEW d \in DataInstances, Recover(d) PROVE ClusterType'
  <2>1. held' \in [DataInstances -> SUBSET Txns]
    BY <1>0, <1>2 DEF Recover
  <2> QED  BY <1>2, <2>1 DEF Recover, ClusterType
<1>3. ASSUME NEW d \in DataInstances, GoDown(d) PROVE ClusterType'
  BY <1>3, SpendFacts DEF GoDown, ClusterType
<1>4. ASSUME NEW d \in DataInstances, ComeUp(d) PROVE ClusterType'
  BY <1>4 DEF ComeUp, ClusterType
<1>5. ASSUME NEW d \in DataInstances, Failover(d) PROVE ClusterType'
  <2>1. d \in Registered /\ Promote(d) /\ disturbed' = TRUE
        /\ UNCHANGED <<spec, external, running, joined, leader, registered, up, budget>>
    BY <1>5 DEF Failover, FailoverTargets
  <2>2. main' = d /\ demoted' \in DataInstances \cup {None} /\ held' \in [DataInstances -> SUBSET Txns]
    BY <1>0, <2>1 DEF Promote
  <2> QED  BY <2>1, <2>2 DEF ClusterType
<1>6. ASSUME NEW c \in Coordinators, Elect(c) PROVE ClusterType'
  <2>1. leader' = c /\ disturbed' = TRUE /\ UNCHANGED <<spec, external, running, joined, registered, up>>
        /\ budget' \in Budgets /\ budget'.faults <= MaxFaults
    BY <1>6, SpendFacts DEF Elect
  <2>2. main' \in Registered \cup {None} /\ demoted' \in DataInstances \cup {None} /\ held' \in [DataInstances -> SUBSET Txns]
    <3>1. CASE UNCHANGED <<main, held, demoted>>
      BY <3>1 DEF ClusterType
    <3>2. CASE \E d \in FailoverTargets : Promote(d)
      <4>1. PICK d \in FailoverTargets : Promote(d)
        BY <3>2
      <4>2. d \in Registered /\ d \in DataInstances
        BY <1>0, <4>1 DEF FailoverTargets
      <4> QED  BY <1>0, <4>1, <4>2 DEF Promote
    <3> QED  BY <1>6, <3>1, <3>2 DEF Elect
  <2> QED  BY <2>1, <2>2 DEF ClusterType
<1>7. ASSUME NEW d \in Foreign, RegisterForeign(d) PROVE ClusterType'
  <2>1. PICK a \in Addresses : registered' = With(registered, d, a)
    BY <1>7 DEF RegisterForeign
  <2>2. d \in DataInstances /\ UNCHANGED <<spec, external, running, joined, leader, main, up, held, demoted, disturbed, budget>>
    BY <1>7, OrdinalFacts DEF RegisterForeign
  <2>3. /\ DOMAIN registered' = DOMAIN registered \cup {d}
        /\ \A y \in DOMAIN registered' : registered'[y] \in Addresses
    <3>1. \A y \in DOMAIN registered : registered[y] \in Addresses
      BY DEF ClusterType
    <3> QED  BY <2>1, <3>1, WithFacts, WithType
  <2> QED  BY <2>2, <2>3 DEF ClusterType
<1>8. ASSUME Edit PROVE ClusterType'
  <2>1. spec' \in Counts(CoordinatorCounts, DataCounts)
    BY <1>8 DEF Edit, Counts
  <2> QED  BY <1>8, <2>1, SpendFacts DEF Edit, ClusterType
<1>9. ASSUME MoveAddress PROVE ClusterType'
  <2>1. external' \in [coordinators : Addresses, data : [Declarable -> Addresses]]
    BY <1>9 DEF MoveAddress, ClusterType
  <2> QED  BY <1>9, <2>1, SpendFacts DEF MoveAddress, ClusterType
<1>10. ASSUME UNCHANGED vars PROVE ClusterType'
  BY <1>10 DEF vars, ClusterType
<1> QED  BY <1>1, <1>2, <1>3, <1>4, <1>5, <1>6, <1>7, <1>8, <1>9, <1>10 DEF Outside
(* So does the effect of a query.                                           *)
LEMMA EffectType ==
  ASSUME ClusterType, PassType, PlanFormed, pc = "run",
         Accepts(Current.op, Target), Effect(Current.op, Target)
  PROVE  /\ DOMAIN joined' \subseteq Coordinators /\ \A c \in DOMAIN joined' : joined'[c] \in Addresses
         /\ leader' \in Coordinators
         /\ DOMAIN registered' \subseteq DataInstances
         /\ \A d \in DOMAIN registered' : registered'[d] \in Addresses
         /\ main' \in DOMAIN registered' \cup {None}
         /\ up' \subseteq DataInstances /\ held' \in [DataInstances -> SUBSET Txns] /\ demoted' \in DataInstances \cup {None}
<1> USE DEF Joined, Registered
<1>0. /\ DOMAIN joined \subseteq Coordinators /\ \A c \in DOMAIN joined : joined[c] \in Addresses
      /\ leader \in Coordinators
      /\ DOMAIN registered \subseteq DataInstances /\ \A d \in DOMAIN registered : registered[d] \in Addresses
      /\ main \in DOMAIN registered \cup {None}
      /\ up \subseteq DataInstances /\ held \in [DataInstances -> SUBSET Txns] /\ demoted \in DataInstances \cup {None}
  BY DEF ClusterType
<1>1. Current.op \in CommandOps
  BY CurrentFacts
<1>2. up' = up
  BY <1>1, EffectFacts
<1>3. CASE Current.op \in {"AddCoordinator", "UpdateCoordinatorBoltServer"}
  <2>1. /\ joined' = With(joined, Target, pass.topology.coordinatorBolt)
        /\ UNCHANGED <<registered, main, held, demoted, leader>>
    BY <1>1, <1>3, EffectFacts
  <2>2. Target \in Coordinators /\ pass.topology.coordinatorBolt \in Addresses
    BY <1>3, CurrentFacts, TopologyFacts DEF PassType
  <2>3. DOMAIN joined' = DOMAIN joined \cup {Target} /\ \A c \in DOMAIN joined' : joined'[c] \in Addresses
    BY <1>0, <2>1, <2>2, WithFacts, WithType
  <2> QED  BY <1>0, <1>2, <2>1, <2>2, <2>3
<1>4. CASE Current.op \in {"RegisterInstance", "UpdateInstanceBoltServer"}
  <2>1. /\ registered' = With(registered, Target, pass.topology.dataBolt[Target])
        /\ UNCHANGED <<joined, main, held, demoted, leader>>
    BY <1>1, <1>4, EffectFacts
  <2>2. Target \in Declarable /\ Target \in DataInstances /\ pass.topology.dataBolt \in [Declarable -> Addresses]
    BY <1>4, CurrentFacts, TopologyFacts, OrdinalFacts DEF PassType
  <2>3. pass.topology.dataBolt[Target] \in Addresses
    BY <2>2
  <2>4. DOMAIN registered' = DOMAIN registered \cup {Target} /\ \A c \in DOMAIN registered' : registered'[c] \in Addresses
    <3> DEFINE a == pass.topology.dataBolt[Target]
    <3>1. registered' = With(registered, Target, a) /\ a \in Addresses
      BY <2>1, <2>3
    <3> HIDE DEF a
    <3>2. DOMAIN registered' = DOMAIN registered \cup {Target}
      BY <3>1, WithFacts
    <3> QED  BY <1>0, <3>1, <3>2, WithType
  <2> QED  BY <1>0, <1>2, <2>1, <2>2, <2>4
<1>5. CASE Current.op = "DemoteInstance"
  BY <1>0, <1>1, <1>2, <1>5, EffectFacts
<1>6. CASE Current.op = "SetInstanceToMain"
  <2>1. Target \in DOMAIN registered /\ Promote(Target) /\ UNCHANGED <<joined, registered, leader>>
    BY <1>1, <1>6, EffectFacts
  <2>2. main' = Target /\ demoted' \in DataInstances \cup {None} /\ held' \in [DataInstances -> SUBSET Txns]
    BY <1>0, <2>1 DEF Promote
  <2> QED  BY <1>0, <1>2, <2>1, <2>2
<1>7. CASE Current.op = "UnregisterInstance"
  <2>1. /\ Target # main /\ registered' = Without(registered, Target)
        /\ UNCHANGED <<joined, main, held, demoted, leader>>
    BY <1>1, <1>7, EffectFacts
  <2>2. DOMAIN registered' = DOMAIN registered \ {Target} /\ \A c \in DOMAIN registered' : registered'[c] \in Addresses
    BY <1>0, <2>1, WithFacts, WithType
  <2> QED  BY <1>0, <1>2, <2>1, <2>2
<1>8. CASE Current.op = "RemoveCoordinator"
  <2>1. joined' = Without(joined, Target) /\ UNCHANGED <<registered, main, held, demoted, leader>>
    BY <1>1, <1>8, EffectFacts
  <2>2. DOMAIN joined' = DOMAIN joined \ {Target} /\ \A c \in DOMAIN joined' : joined'[c] \in Addresses
    BY <1>0, <2>1, WithFacts, WithType
  <2> QED  BY <1>0, <1>2, <2>1, <2>2
<1>9. CASE Current.op = "YieldLeadership"
  <2>1. leader' \in DOMAIN joined /\ UNCHANGED <<joined, registered, main, held, demoted>>
    BY <1>1, <1>9, EffectFacts
  <2> QED  BY <1>0, <1>2, <2>1
<1> QED  BY <1>1, <1>3, <1>4, <1>5, <1>6, <1>7, <1>8, <1>9 DEF CommandOps

(* The larger of a declared and a current count.                            *)
LEMMA LargerFacts ==
  ASSUME NEW counts \in {CoordinatorCounts, DataCounts}, NEW m \in counts, NEW n \in {0} \cup counts
  PROVE  Larger(m, n) \in counts /\ m <= Larger(m, n) /\ n <= Larger(m, n)
<1>1. m \in Nat \ {0} /\ n \in Nat
  BY CountsAssumption
<1> QED  BY <1>1 DEF Larger

(* The cluster and the StatefulSets stay well typed.                        *)
LEMMA ClusterTypeStep ==
  ASSUME ClusterType, PassType, PlanFormed, [Next]_vars
  PROVE  ClusterType'
<1> USE DEF k8sVars, clusterVars, Joined, Registered
<1>1. CASE Outside
  BY <1>1, OutsideType
<1>2. CASE BeginPass
  <2>1. running' = [ coordinators |-> Larger(spec.coordinators, running.coordinators),
                     data         |-> Larger(spec.data, running.data) ]
        /\ UNCHANGED <<clusterVars, spec, external, disturbed, budget>>
    BY <1>2 DEF BeginPass
  <2>2. /\ spec.coordinators \in CoordinatorCounts /\ running.coordinators \in {0} \cup CoordinatorCounts
        /\ spec.data \in DataCounts /\ running.data \in {0} \cup DataCounts
    BY DEF ClusterType, Counts
  <2>3. Larger(spec.coordinators, running.coordinators) \in CoordinatorCounts
    BY <2>2, LargerFacts
  <2>4. Larger(spec.data, running.data) \in DataCounts
    BY <2>2, LargerFacts
  <2>5. running' \in Counts({0} \cup CoordinatorCounts, {0} \cup DataCounts)
    BY <2>1, <2>3, <2>4 DEF Counts
  <2> QED  BY <2>1, <2>5 DEF ClusterType
<1>3. CASE Observe
  BY <1>3 DEF Observe, ClusterType
<1>4. CASE Planned
  BY <1>4, SpendFacts DEF Planned, ClusterType
<1>5. CASE Queried
  <2>1. pc = "run" /\ UNCHANGED <<spec, external, running, disturbed>>
    BY <1>5, QueriedCases
  <2>2. budget' \in Budgets /\ budget'.faults <= MaxFaults
    <3>1. UNCHANGED budget \/ Spend("faults") \/ Spend("refusals")
      BY <1>5 DEF Queried, RunCommand, RefuseCommand, RefusePromotion, LoseCommand
    <3> QED  BY <3>1, SpendFacts DEF ClusterType
  <2>3. CASE Unmoved
    BY <2>1, <2>2, <2>3 DEF ClusterType, Unmoved
  <2>4. CASE Accepts(Current.op, Target) /\ Effect(Current.op, Target)
    BY <2>1, <2>2, <2>4, EffectType DEF ClusterType
  <2> QED  BY <1>5, <2>3, <2>4, QueriedEffect
<1>6. CASE ShedCoordinators \/ ShedData
  <2>1. pc \in {"shed", "shed data"} /\ UNCHANGED <<clusterVars, spec, external, disturbed, budget>>
    BY <1>6 DEF ShedCoordinators, ShedData
  <2>2. CASE ShedCoordinators
    <3>1. Cardinality(pass.topology.coordinators) \in CoordinatorCounts
      BY <2>2 DEF ShedCoordinators, PassType, Split
    <3>2. running' \in Counts({0} \cup CoordinatorCounts, {0} \cup DataCounts)
      BY <2>2, <3>1 DEF ShedCoordinators, ClusterType, Counts
    <3> QED  BY <2>1, <3>2 DEF ClusterType
  <2>3. CASE ShedData
    <3>1. Cardinality(pass.topology.dataInstances) \in DataCounts
      BY <2>3 DEF ShedData, PassType, Split
    <3>2. running' \in Counts({0} \cup CoordinatorCounts, {0} \cup DataCounts)
      BY <2>3, <3>1 DEF ShedData, ClusterType, Counts
    <3> QED  BY <2>1, <3>2 DEF ClusterType
  <2> QED  BY <1>6, <2>2, <2>3
<1>7. CASE Crash
  BY <1>7, SpendFacts DEF Crash, ClusterType
<1> QED  BY <1>1, <1>2, <1>3, <1>4, <1>5, <1>6, <1>7, StepCases
(* The pass stays well formed, and works for the ordinals the StatefulSets  *)
(* run.                                                                     *)
LEMMA PassTypeStep ==
  ASSUME ClusterType, PassType, [Next]_vars
  PROVE  PassType'
<1>0. /\ pc \in {"idle", "observe", "lag", "run", "shed", "shed data"}
      /\ pass = [ topology |-> pass.topology, observed |-> pass.observed, plan |-> pass.plan,
                   refused |-> pass.refused, proven |-> pass.proven, diverged |-> pass.diverged ]
      /\ running \in [coordinators : {0} \cup CoordinatorCounts, data : {0} \cup DataCounts]
  BY DEF PassType, ClusterType, Counts
<1>1. CASE Outside
  BY <1>1, OutsideFacts DEF PassType
<1>2. ASSUME Finish PROVE PassType'
  <2>1. pc' = "idle" /\ pass' = NoPass
    BY <1>2 DEF Finish
  <2> QED  BY <2>1 DEF PassType, NoPass
<1>3. ASSUME pc # "idle", running' = running, pc' \in {"lag", "run", "shed"}, pc \in {"observe", "lag", "run"},
             pass'.topology = pass.topology, pc' = "run" \/ pass'.refused = pass.refused, pc = "run" => pc' = "run",
             pass' = [ topology |-> pass'.topology, observed |-> pass'.observed, plan |-> pass'.plan,
                       refused |-> pass'.refused, proven |-> pass'.proven, diverged |-> pass'.diverged ]
      PROVE  PassType'
  BY <1>3 DEF PassType
<1>4. CASE BeginPass
  <2> DEFINE C == Larger(spec.coordinators, running.coordinators)
             D == Larger(spec.data, running.data)
             t == [ coordinators          |-> 0 .. spec.coordinators - 1,
                    dataInstances         |-> 0 .. spec.data - 1,
                    retiringCoordinators  |-> spec.coordinators .. C - 1,
                    retiringDataInstances |-> spec.data .. D - 1,
                    coordinatorBolt       |-> external.coordinators,
                    dataBolt              |-> external.data ]
  <2>1. running' = [coordinators |-> C, data |-> D] /\ pc' = "observe" /\ pass' = [NoPass EXCEPT !.topology = t]
    BY <1>4 DEF BeginPass
  <2>2. /\ spec.coordinators \in CoordinatorCounts /\ spec.data \in DataCounts
        /\ running.coordinators \in {0} \cup CoordinatorCounts /\ running.data \in {0} \cup DataCounts
        /\ external.coordinators \in Addresses /\ external.data \in [Declarable -> Addresses]
    BY DEF ClusterType, Counts
  <2>3. spec.coordinators \in Nat \ {0} /\ spec.data \in Nat \ {0}
    BY <2>2, OrdinalFacts
  <2>4. C \in CoordinatorCounts /\ spec.coordinators <= C
    BY <2>2, LargerFacts
  <2>5. D \in DataCounts /\ spec.data <= D
    BY <2>2, LargerFacts
  <2>6. Cardinality(0 .. spec.coordinators - 1) = spec.coordinators /\ Cardinality(0 .. spec.data - 1) = spec.data
    BY <2>3, OrdinalCount
  <2> HIDE DEF C, D
  <2>7. /\ Split(t.coordinators, t.retiringCoordinators, CoordinatorCounts, C)
        /\ Split(t.dataInstances, t.retiringDataInstances, DataCounts, D)
        /\ t.coordinatorBolt \in Addresses /\ t.dataBolt \in [Declarable -> Addresses]
    BY <2>2, <2>4, <2>5, <2>6 DEF Split
  <2> HIDE DEF t
  <2>8. /\ pass' = [ topology |-> pass'.topology, observed |-> pass'.observed, plan |-> pass'.plan,
                      refused |-> pass'.refused, proven |-> pass'.proven, diverged |-> pass'.diverged ]
        /\ pass'.topology = t /\ pass'.refused = {} /\ running'.coordinators = C /\ running'.data = D
    BY <2>1 DEF NoPass
  <2> QED  BY <2>1, <2>7, <2>8 DEF PassType
<1>5. CASE Observe
  <2>1. /\ pc = "observe" /\ pc' = "lag" /\ running' = running
        /\ pass' = [pass EXCEPT !.observed = ShowInstances]
    BY <1>5 DEF Observe, k8sVars
  <2>2. /\ pass'.topology = pass.topology /\ pass'.refused = pass.refused
        /\ pass' = [ topology |-> pass'.topology, observed |-> pass'.observed, plan |-> pass'.plan,
                      refused |-> pass'.refused, proven |-> pass'.proven, diverged |-> pass'.diverged ]
    BY <1>0, <2>1
  <2> QED  BY <1>3, <2>1, <2>2
<1>6. CASE Planned
  <2>1. pc = "lag" /\ running' = running /\ (PlanWith(ShowReplicationLag) \/ PlanWith(<<>>))
    BY <1>6 DEF Planned, k8sVars
  <2>2. ASSUME NEW plan, NEW proven, NEW diverged, pc' = "run",
               pass' = [pass EXCEPT !.plan = plan, !.observed = NoView, !.proven = proven, !.diverged = diverged]
        PROVE  PassType'
    <3>1. /\ pass'.topology = pass.topology /\ pass'.refused = pass.refused
          /\ pass' = [ topology |-> pass'.topology, observed |-> pass'.observed, plan |-> pass'.plan,
                        refused |-> pass'.refused, proven |-> pass'.proven, diverged |-> pass'.diverged ]
      BY <1>0, <2>2
    <3> QED  BY <1>3, <2>1, <2>2, <3>1
  <2>3. ASSUME pc' = "shed", pass' = [pass EXCEPT !.observed = NoView] PROVE PassType'
    <3>1. /\ pass'.topology = pass.topology /\ pass'.refused = pass.refused
          /\ pass' = [ topology |-> pass'.topology, observed |-> pass'.observed, plan |-> pass'.plan,
                        refused |-> pass'.refused, proven |-> pass'.proven, diverged |-> pass'.diverged ]
      BY <1>0, <2>3
    <3> QED  BY <1>3, <2>1, <2>3, <3>1
  <2> QED  BY <1>2, <2>1, <2>2, <2>3 DEF PlanWith
<1>7. CASE Queried
  <2>1. pc = "run" /\ running' = running /\ (Stepped \/ Retried \/ Finish)
    BY <1>7, QueriedCases DEF k8sVars
  <2>2. CASE Stepped
    <3>1. pc' = "run" /\ pass' = [pass EXCEPT !.plan = pass.plan \ {Current}, !.refused = {}]
      BY <2>2 DEF Stepped
    <3>2. /\ pass'.topology = pass.topology
          /\ pass' = [ topology |-> pass'.topology, observed |-> pass'.observed, plan |-> pass'.plan,
                        refused |-> pass'.refused, proven |-> pass'.proven, diverged |-> pass'.diverged ]
      BY <1>0, <3>1
    <3> QED  BY <1>3, <2>1, <3>1, <3>2
  <2>3. CASE Retried
    <3>1. pc' = "run" /\ pass' = [pass EXCEPT !.refused = pass.refused \cup {Target}]
      BY <2>3 DEF Retried
    <3>2. /\ pass'.topology = pass.topology
          /\ pass' = [ topology |-> pass'.topology, observed |-> pass'.observed, plan |-> pass'.plan,
                        refused |-> pass'.refused, proven |-> pass'.proven, diverged |-> pass'.diverged ]
      BY <1>0, <3>1
    <3> QED  BY <1>3, <2>1, <3>1, <3>2
  <2> QED  BY <1>2, <2>1, <2>2, <2>3
<1>8. CASE ShedCoordinators
  <2>1. /\ pc = "shed" /\ pc' = "shed data" /\ pass' = pass
        /\ running'.data = running.data
    BY <1>0, <1>8 DEF ShedCoordinators
  <2> QED  BY <2>1 DEF PassType
<1>9. CASE ShedData \/ Crash
  BY <1>2, <1>9 DEF ShedData, Crash
<1> QED  BY <1>1, <1>4, <1>5, <1>6, <1>7, <1>8, <1>9, StepCases
-----------------------------------------------------------------------------
(* The view and the plan *)

(* SHOW INSTANCES is true when it is read, and nothing the operator manages *)
(* changes before the pass plans.                                           *)
LEMMA ViewTrueStep ==
  ASSUME ClusterType, PassType, ViewTrue, [Next]_vars
  PROVE  ViewTrue'
<1> USE DEF Joined, Registered
<1>0. SUFFICES ASSUME pc' = "lag" PROVE ViewTrue'
  BY DEF ViewTrue
<1>1. CASE Outside
  <2>1. UNCHANGED <<pc, pass, joined>> /\ (~ disturbed' => UNCHANGED <<main, leader, disturbed>>)
    BY <1>1, OutsideFacts
  <2>2. \A d \in Declarable : d \in DOMAIN registered' <=> d \in DOMAIN registered
    BY <1>1, OutsideMembers
  <2> QED  BY <1>0, <2>1, <2>2 DEF ViewTrue
<1>2. CASE Observe
  <2> DEFINE o == ShowInstances
  <2>1. /\ pass'.observed = o /\ disturbed' = FALSE
        /\ UNCHANGED <<joined, leader, registered, main>>
    <3>1. pass = [ topology |-> pass.topology, observed |-> pass.observed, plan |-> pass.plan,
                   refused |-> pass.refused, proven |-> pass.proven, diverged |-> pass.diverged ]
      BY DEF PassType
    <3> HIDE DEF o
    <3>2. pass' = [pass EXCEPT !.observed = o] /\ disturbed' = FALSE
          /\ UNCHANGED <<joined, leader, registered, main>>
      BY <1>2 DEF Observe, clusterVars, o
    <3> QED  BY <3>1, <3>2
  <2>2. /\ o.coordinators = [ c \in DOMAIN joined \cup {leader} |->
             [ leader |-> c = leader, bolt |-> IF c \in DOMAIN joined THEN joined[c] ELSE NoBolt ] ]
        /\ o.dataInstances = [ d \in DOMAIN registered |->
             [ main |-> d = main, up |-> d \in up, bolt |-> registered[d] ] ]
    BY DEF ShowInstances
  <2> HIDE DEF o
  <2>3. \A c \in Coordinators : coordinatorRegistered(o, c) <=> c \in DOMAIN joined
    <3>1. \A c \in DOMAIN joined : joined[c] # NoBolt
      BY AddressAssumption DEF ClusterType
    <3> QED  BY <2>2, <3>1 DEF coordinatorRegistered
  <2>4. \A d \in Declarable : DataRegistered(o, d) <=> d \in DOMAIN registered
    BY <2>2 DEF DataRegistered
  <2>5. Mains(o) = {main} \ {None}
    <3>1. main \in DOMAIN registered \cup {None} /\ None \notin DOMAIN registered
      BY OrdinalFacts DEF ClusterType
    <3>2. DOMAIN o.dataInstances = DOMAIN registered
      BY <2>2
    <3>3. ASSUME NEW d \in DOMAIN registered PROVE o.dataInstances[d].main <=> d = main
      <4> DEFINE isMain == d = main
      <4>1. o.dataInstances[d] = [main |-> isMain, up |-> d \in up, bolt |-> registered[d]]
        BY <2>2, Zenon
      <4> HIDE DEF isMain
      <4>2. o.dataInstances[d].main = isMain
        BY <4>1
      <4> QED  BY <4>2, Zenon DEF isMain
    <3> QED  BY <3>1, <3>2, <3>3 DEF Mains
  <2>6. leaderName(o) = leader
    <3>1. DOMAIN o.coordinators = DOMAIN joined \cup {leader}
      BY <2>2
    <3>2. ASSUME NEW c \in DOMAIN joined \cup {leader} PROVE o.coordinators[c].leader <=> c = leader
      <4> DEFINE isLeader == c = leader
      <4>1. o.coordinators[c] =
              [leader |-> isLeader, bolt |-> IF c \in DOMAIN joined THEN joined[c] ELSE NoBolt]
        BY <2>2, Zenon
      <4> HIDE DEF isLeader
      <4>2. o.coordinators[c].leader = isLeader
        BY <4>1
      <4> QED  BY <4>2, Zenon DEF isLeader
    <3>3. { c \in DOMAIN o.coordinators : o.coordinators[c].leader } = {leader}
      BY <3>1, <3>2
    <3> QED  BY <3>3 DEF leaderName
  <2> QED  BY <2>1, <2>3, <2>4, <2>5, <2>6 DEF ViewTrue
<1>3. ~ (BeginPass \/ Planned \/ Queried \/ ShedCoordinators \/ ShedData \/ Crash)
  BY <1>0, QueriedCases
     DEF BeginPass, Planned, PlanWith, Stepped, Retried, ShedCoordinators, ShedData, Crash, Finish
<1> QED  BY <1>1, <1>2, <1>3, StepCases

(* The plan a pass comes to run, from a view that is true.                  *)
LEMMA PlannedFacts ==
  ASSUME PassType, Planned, pc' = "run"
  PROVE  \E lag \in {ShowReplicationLag, <<>>} :
           /\ pass'.plan = Plan(pass.topology, pass.observed, lag) /\ pass'.plan # {}
           /\ pass'.topology = pass.topology /\ pass'.refused = {}
           /\ main # None => pass'.proven = held[main]
           /\ pass'.diverged = Diverged
<1>0. pass.refused = {} /\ pass = [ topology |-> pass.topology, observed |-> pass.observed, plan |-> pass.plan,
               refused |-> pass.refused, proven |-> pass.proven, diverged |-> pass.diverged ]
  BY DEF PassType, Planned
<1>1. PICK lag \in {ShowReplicationLag, <<>>} : PlanWith(lag)
  BY DEF Planned
<1> DEFINE plan == Plan(pass.topology, pass.observed, lag)
           proven == IF main = None THEN {} ELSE held[main]
<1>2. /\ plan # {}
      /\ pass' = [pass EXCEPT !.plan = plan, !.observed = NoView, !.proven = proven, !.diverged = Diverged]
  BY <1>1 DEF PlanWith, Finish
<1> HIDE DEF plan, proven
<1>3. /\ pass'.plan = plan /\ pass'.topology = pass.topology /\ pass'.refused = {}
      /\ pass'.proven = proven /\ pass'.diverged = Diverged
  BY <1>0, <1>2
<1> QED  BY <1>2, <1>3 DEF plan, proven
(* The part of a plan behind its first command: of the same kind with a     *)
(* larger member, or of a later kind.                                       *)
LEMMA LaterFacts ==
  ASSUME NEW plan, IsPlan(plan), plan # {}, NEW k \in plan, k # FirstCommand(plan)
  PROVE  LET first == FirstCommand(plan)
         IN  /\ StageOf(first.op) \in Nat /\ StageOf(k.op) \in Nat /\ StageOf(first.op) <= StageOf(k.op)
             /\ first.op = k.op => first.id # k.id
             /\ first.op # k.op => StageOf(first.op) < StageOf(k.op)
<1> DEFINE first == FirstCommand(plan)
<1>1. first \in plan /\ Precedes(first, k)
  BY FirstFacts
<1>2. first.op \in CommandOps /\ k.op \in CommandOps /\ first.id \in Names /\ k.id \in Names
  BY <1>1 DEF IsPlan
<1>3. StageOf(first.op) \in Nat /\ StageOf(k.op) \in Nat /\ (StageOf(first.op) = StageOf(k.op) => first.op = k.op)
  BY <1>2, StageFacts
<1> HIDE DEF first
<1> QED  BY <1>1, <1>2, <1>3 DEF Precedes, Names, None, first

(* A plan whose first command promotes has somebody to promote.             *)
LEMMA FirstPromotes ==
  ASSUME NEW plan, plan # {}, IsPlan(plan), NEW t, AimsRight(plan, t),
         FirstCommand(plan).op = "SetInstanceToMain"
  PROVE  FirstCommand(plan).candidates # {}
  BY FirstFacts DEF AimsRight

(* What is left of a plan stays well formed.                                *)
LEMMA PlanFormedStep ==
  ASSUME PassType, ViewTrue, PlanFormed, [Next]_vars
  PROVE  PlanFormed'
<1>0. SUFFICES ASSUME pc' = "run" PROVE PlanFormed'
  BY DEF PlanFormed
<1>1. ASSUME pass'.plan # {}, IsPlan(pass'.plan), AimsRight(pass'.plan, pass'.topology),
             DemotesToPromote(pass'.plan), pass'.refused = {}
      PROVE  PlanFormed'
  <2>1. Promoting' => CandidatesLeft' # {}
    BY <1>1, FirstPromotes DEF Promoting, CandidatesLeft, Current
  <2> QED  BY <1>1, <2>1 DEF PlanFormed
<1>2. CASE Outside
  <2>1. UNCHANGED <<pc, pass>>
    BY <1>2, OutsideFacts
  <2> QED  BY <1>0, <2>1 DEF PlanFormed, Promoting, CandidatesLeft, Current
<1>3. CASE Planned
  <2>1. PICK lag \in {ShowReplicationLag, <<>>} :
          /\ pass'.plan = Plan(pass.topology, pass.observed, lag) /\ pass'.plan # {}
          /\ pass'.topology = pass.topology /\ pass'.refused = {}
    BY <1>0, <1>3, PlannedFacts
  <2>2. IsTopology(pass.topology) /\ \A d, e \in Mains(pass.observed) : d = e
    BY <1>3, TopologyFacts DEF Planned, ViewTrue
  <2> QED  BY <1>1, <2>1, <2>2, PlanIsFormed
<1>4. CASE Stepped
  <2>1. /\ pass.plan # {} /\ IsPlan(pass.plan) /\ AimsRight(pass.plan, pass.topology)
        /\ DemotesToPromote(pass.plan) /\ pc = "run"
    BY <1>4 DEF Stepped, RunCommand, PlanFormed
  <2>2. pass.plan # {Current} /\ pass' = [pass EXCEPT !.plan = pass.plan \ {Current}, !.refused = {}]
    BY <1>4 DEF Stepped
  <2>3. pass'.plan = pass.plan \ {Current} /\ pass'.refused = {} /\ pass'.topology = pass.topology
    BY <2>2 DEF PassType
  <2>4. IsPlan(pass'.plan) /\ AimsRight(pass'.plan, pass'.topology) /\ pass'.plan # {}
    BY <2>1, <2>2, <2>3 DEF IsPlan, AimsRight
  <2>5. DemotesToPromote(pass'.plan)
    <3> SUFFICES ASSUME NEW k \in pass'.plan, k.op = "DemoteInstance"
                 PROVE  \E l \in pass'.plan : l.op = "SetInstanceToMain" /\ l.id = k.id
      BY DEF DemotesToPromote
    <3>1. PICK l \in pass.plan : l.op = "SetInstanceToMain" /\ l.id = k.id
      BY <2>1, <2>3 DEF DemotesToPromote
    <3>2. k \in pass.plan /\ k # Current
      BY <2>3
    <3>3. StageOf(Current.op) <= 5 /\ StageOf(l.op) = 6
      BY <2>1, <3>1, <3>2, LaterFacts, StageFacts DEF Current
    <3>4. l # Current
      BY <3>3
    <3> QED  BY <2>3, <3>1, <3>4
  <2> QED  BY <1>1, <2>3, <2>4, <2>5
<1>5. CASE Retried
  <2>1. /\ pc = "run" /\ Promoting /\ ~ Restoring /\ (Current.id # None \/ CandidatesLeft # {Target})
        /\ pass' = [pass EXCEPT !.refused = pass.refused \cup {Target}]
    BY <1>5 DEF Retried, RefuseCommand, RefusePromotion, LoseCommand
  <2>2. pass'.plan = pass.plan /\ pass'.topology = pass.topology /\ pass'.refused = pass.refused \cup {Target}
    BY <2>1 DEF PassType
  <2>3. Current' = Current /\ (Promoting' <=> Promoting) /\ CandidatesLeft' = CandidatesLeft \ {Target}
    BY <2>2 DEF Current, Promoting, CandidatesLeft
  <2>4. Target \in CandidatesLeft
    BY <2>1, CurrentFacts
  <2> QED  BY <2>1, <2>2, <2>3, <2>4 DEF PlanFormed
<1>6. ~ (BeginPass \/ Observe \/ ShedCoordinators \/ ShedData \/ Crash \/ Finish)
  BY <1>0 DEF BeginPass, Observe, ShedCoordinators, ShedData, Crash, Finish
<1> QED  BY <1>2, <1>3, <1>4, <1>5, <1>6, StepCases, QueriedCases
(* A pass comes to shed pods only with every retiring member gone, and none *)
(* comes back.                                                              *)
LEMMA ShedStep ==
  ASSUME PassType, ViewTrue, ShedInv, [Next]_vars
  PROVE  ShedInv'
<1> USE DEF Joined, Registered
<1>0. SUFFICES ASSUME pc' \in {"shed", "shed data"} PROVE ShedInv'
  BY DEF ShedInv
<1>1. CASE Outside
  <2>1. UNCHANGED <<pc, pass>>
    BY <1>1, OutsideFacts
  <2>2. pass.topology.retiringDataInstances \subseteq Declarable
    BY <1>0, <2>1, TopologyFacts
  <2> QED  BY <1>0, <1>1, <2>1, <2>2, OutsideMembers DEF ShedInv
<1>2. CASE Planned
  <2>1. /\ pc = "lag" /\ pc' = "shed" /\ UNCHANGED <<joined, registered>>
        /\ Retired(pass.topology, pass.observed) /\ pass' = [pass EXCEPT !.observed = NoView]
    BY <1>0, <1>2 DEF Planned, PlanWith, Finish, clusterVars
  <2>2. pass'.topology = pass.topology
    BY <2>1 DEF PassType
  <2>3. /\ \A d \in pass.topology.retiringDataInstances : d \in Declarable /\ ~ DataRegistered(pass.observed, d)
        /\ \A c \in pass.topology.retiringCoordinators : c \in Coordinators /\ ~ coordinatorRegistered(pass.observed, c)
    BY <2>1, TopologyFacts DEF Retired
  <2>4. /\ \A d \in pass.topology.retiringDataInstances : d \notin DOMAIN registered
        /\ \A c \in pass.topology.retiringCoordinators : c \notin DOMAIN joined
    BY <2>1, <2>3 DEF ViewTrue
  <2> QED  BY <2>1, <2>2, <2>4 DEF ShedInv
<1>3. CASE ShedCoordinators
  <2>1. pc = "shed" /\ pc' = "shed data" /\ UNCHANGED <<joined, registered, pass>>
    BY <1>3 DEF ShedCoordinators, clusterVars
  <2> QED  BY <2>1 DEF ShedInv
<1>4. ~ (BeginPass \/ Observe \/ Queried \/ ShedData \/ Crash)
  BY <1>0, QueriedCases DEF BeginPass, Observe, Stepped, Retried, ShedData, Crash, Finish
<1> QED  BY <1>1, <1>2, <1>3, <1>4, StepCases

(* The members after a query took effect.                                   *)
LEMMA EffectMembers ==
  ASSUME NEW op \in CommandOps, NEW id, Accepts(op, id), Effect(op, id)
  PROVE  /\ DOMAIN joined' = IF op \in {"AddCoordinator", "UpdateCoordinatorBoltServer"} THEN DOMAIN joined \cup {id}
                             ELSE IF op = "RemoveCoordinator" THEN DOMAIN joined \ {id} ELSE DOMAIN joined
         /\ DOMAIN registered' = IF op \in {"RegisterInstance", "UpdateInstanceBoltServer"} THEN DOMAIN registered \cup {id}
                                 ELSE IF op = "UnregisterInstance" THEN DOMAIN registered \ {id} ELSE DOMAIN registered
<1>1. CASE op \in {"AddCoordinator", "UpdateCoordinatorBoltServer"}
  <2> DEFINE a == pass.topology.coordinatorBolt
  <2>1. joined' = With(joined, id, a) /\ registered' = registered
    BY <1>1, EffectFacts
  <2> HIDE DEF a
  <2> QED  BY <1>1, <2>1, WithFacts
<1>2. CASE op \in {"RegisterInstance", "UpdateInstanceBoltServer"}
  <2> DEFINE a == pass.topology.dataBolt[id]
  <2>1. registered' = With(registered, id, a) /\ joined' = joined
    BY <1>2, EffectFacts
  <2> HIDE DEF a
  <2> QED  BY <1>2, <2>1, WithFacts
<1>3. CASE op \in {"RemoveCoordinator", "UnregisterInstance"}
  BY <1>3, EffectFacts, WithFacts
<1>4. CASE op \in {"DemoteInstance", "SetInstanceToMain", "YieldLeadership"}
  BY <1>4, EffectFacts
<1> QED  BY <1>1, <1>2, <1>3, <1>4 DEF CommandOps

(* A pass that goes on left the effect of its command behind.               *)
LEMMA SteppedFacts ==
  ASSUME PassType, PlanFormed, Stepped
  PROVE  /\ pc = "run" /\ pc' = "run" /\ disturbed' = disturbed
         /\ Current \in pass.plan /\ Current.op \in CommandOps
         /\ Accepts(Current.op, Target) /\ Effect(Current.op, Target)
         /\ pass'.plan = pass.plan \ {Current} /\ pass'.refused = {}
         /\ pass'.topology = pass.topology /\ pass'.proven = pass.proven /\ pass'.diverged = pass.diverged
         /\ ~ Promoting => Target = Current.id
         /\ Promoting => Target \in pass.topology.dataInstances /\ Target \in CandidatesLeft
         /\ \A k \in pass'.plan : /\ StageOf(Current.op) \in Nat /\ StageOf(k.op) \in Nat
                                  /\ StageOf(Current.op) <= StageOf(k.op)
                                  /\ Current.op = k.op => Current.id # k.id
                                  /\ Current.op # k.op => StageOf(Current.op) < StageOf(k.op)
<1>1. /\ pc = "run" /\ pc' = "run" /\ disturbed' = disturbed
      /\ Accepts(Current.op, Target) /\ Effect(Current.op, Target) /\ ~ Restoring
      /\ pass' = [pass EXCEPT !.plan = pass.plan \ {Current}, !.refused = {}]
  BY DEF Stepped, RunCommand
<1>2. /\ pass'.plan = pass.plan \ {Current} /\ pass'.refused = {}
      /\ pass'.topology = pass.topology /\ pass'.proven = pass.proven /\ pass'.diverged = pass.diverged
  BY <1>1 DEF PassType
<1>3. /\ Current \in pass.plan /\ Current.op \in CommandOps
      /\ ~ Promoting => Target = Current.id
      /\ Promoting => Target \in pass.topology.dataInstances /\ Target \in CandidatesLeft
  BY <1>1, CurrentFacts
<1>4. \A k \in pass'.plan : /\ StageOf(Current.op) \in Nat /\ StageOf(k.op) \in Nat
                            /\ StageOf(Current.op) <= StageOf(k.op)
                            /\ Current.op = k.op => Current.id # k.id
                            /\ Current.op # k.op => StageOf(Current.op) < StageOf(k.op)
  BY <1>1, <1>2, LaterFacts DEF PlanFormed, Current
<1> QED  BY <1>1, <1>2, <1>3, <1>4

(* A pass that tries the next instance left at most a promotion behind.     *)
LEMMA RetriedFacts ==
  ASSUME PassType, PlanFormed, Retried
  PROVE  /\ pc = "run" /\ pc' = "run" /\ disturbed' = disturbed /\ UNCHANGED <<joined, registered, leader>>
         /\ Promoting /\ ~ Restoring /\ Target \in CandidatesLeft
         /\ pass'.plan = pass.plan /\ pass'.refused = pass.refused \cup {Target}
         /\ pass'.topology = pass.topology /\ pass'.proven = pass.proven /\ pass'.diverged = pass.diverged
         /\ \/ UNCHANGED <<main, held>>
            \/ main = None /\ Target \in Registered /\ Promote(Target)
<1>1. /\ pc = "run" /\ pc' = "run" /\ disturbed' = disturbed /\ Promoting /\ ~ Restoring /\ Queried
      /\ pass' = [pass EXCEPT !.refused = pass.refused \cup {Target}]
  BY DEF Retried, RefuseCommand, RefusePromotion, LoseCommand, Queried
<1>2. /\ pass'.plan = pass.plan /\ pass'.refused = pass.refused \cup {Target}
      /\ pass'.topology = pass.topology /\ pass'.proven = pass.proven /\ pass'.diverged = pass.diverged
  BY <1>1 DEF PassType
<1>3. Target \in CandidatesLeft
  BY <1>1, CurrentFacts
<1>4. CASE Unmoved
  BY <1>1, <1>2, <1>3, <1>4 DEF Unmoved
<1>5. CASE Accepts(Current.op, Target) /\ Effect(Current.op, Target)
  <2>1. Current.op = "SetInstanceToMain" /\ Current.op \in CommandOps
    BY <1>1, CurrentFacts DEF Promoting
  <2>2. Target \in Registered /\ main = None /\ Promote(Target) /\ UNCHANGED <<joined, registered, leader>>
    BY <1>5, <2>1, EffectFacts
  <2> QED  BY <1>1, <1>2, <1>3, <2>2
<1> QED  BY <1>1, <1>4, <1>5, QueriedEffect
(* The membership the rest of the plan counts on is there.                  *)
LEMMA PlanOwedStep ==
  ASSUME PassType, ViewTrue, PlanFormed, PlanOwed, [Next]_vars
  PROVE  PlanOwed'
<1> USE DEF Joined, Registered
<1>0. SUFFICES ASSUME pc' = "run" PROVE PlanOwed'
  BY DEF PlanOwed
<1>1. CASE Outside
  <2>1. UNCHANGED <<pc, pass>> /\ DOMAIN joined' = DOMAIN joined /\ DOMAIN registered \subseteq DOMAIN registered'
        /\ \A d \in Declarable : d \in DOMAIN registered' <=> d \in DOMAIN registered
    BY <1>1, OutsideFacts, OutsideMembers
  <2>2. \A k \in pass.plan : k.op = "RegisterInstance" => k.id \in Declarable
    BY <1>0, <2>1, TopologyFacts DEF PlanFormed, AimsRight
  <2> QED  BY <1>0, <2>1, <2>2 DEF PlanOwed
<1>2. CASE Planned
  <2> DEFINE t == pass.topology
             o == pass.observed
  <2>1. PICK lag \in {ShowReplicationLag, <<>>} :
          pass'.plan = Plan(t, o, lag) /\ pass'.topology = t
    BY <1>0, <1>2, PlannedFacts
  <2>2. /\ IsTopology(t) /\ t.coordinators \subseteq Coordinators /\ t.retiringCoordinators \subseteq Coordinators
        /\ t.dataInstances \subseteq Declarable /\ t.retiringDataInstances \subseteq Declarable
    BY <1>2, TopologyFacts DEF Planned
  <2>3. /\ \A c \in Coordinators : coordinatorRegistered(o, c) <=> c \in DOMAIN joined
        /\ \A d \in Declarable : DataRegistered(o, d) <=> d \in DOMAIN registered
        /\ \A d, e \in Mains(o) : d = e
    BY <1>2 DEF Planned, ViewTrue
  <2>4. UNCHANGED <<joined, registered>>
    BY <1>2 DEF Planned, clusterVars
  <2> HIDE DEF t, o
  <2>5. RetiringMain(t, o) # None => DataRegistered(o, RetiringMain(t, o)) /\ RetiringMain(t, o) \in Declarable
    <3>1. ASSUME RetiringMain(t, o) # None
          PROVE  RetiringMain(t, o) \in t.retiringDataInstances /\ Mains(o) = {RetiringMain(t, o)}
      BY <2>2, <2>3, <3>1, RetiringMainFacts DEF IsTopology
    <3> QED  BY <2>2, <3>1 DEF Mains, DataRegistered
  <2>6. ASSUME NEW k \in pass'.plan
        PROVE  /\ k.op = "AddCoordinator" => k.id \notin DOMAIN joined
               /\ k.op = "RegisterInstance" => k.id \notin DOMAIN registered
               /\ k.op \in {"UpdateCoordinatorBoltServer", "RemoveCoordinator"} => k.id \in DOMAIN joined
               /\ k.op \in {"UpdateInstanceBoltServer", "UnregisterInstance"} => k.id \in DOMAIN registered
               /\ k.op = "SetInstanceToMain" => k.id \in DOMAIN registered \cup {None}
    <3>1. k \in Plan(t, o, lag)
      BY <2>1
    <3>2. /\ k.op = "AddCoordinator" => k.id \in t.coordinators /\ ~ coordinatorRegistered(o, k.id)
          /\ k.op = "RegisterInstance" => k.id \in t.dataInstances /\ ~ DataRegistered(o, k.id)
          /\ k.op = "UpdateCoordinatorBoltServer" => k.id \in t.coordinators /\ coordinatorRegistered(o, k.id)
          /\ k.op = "UpdateInstanceBoltServer" => k.id \in t.dataInstances /\ DataRegistered(o, k.id)
          /\ k.op = "SetInstanceToMain" => k.id = None \/ (k.id = RetiringMain(t, o) /\ RetiringMain(t, o) # None)
          /\ k.op = "UnregisterInstance" => k.id \in t.retiringDataInstances /\ DataRegistered(o, k.id)
          /\ k.op = "RemoveCoordinator" => k.id \in t.retiringCoordinators /\ coordinatorRegistered(o, k.id)
      BY <2>2, <2>3, <3>1, CommandFacts
    <3> QED  BY <2>2, <2>3, <2>5, <3>2
  <2>7. /\ \A c \in t.coordinators : c \in DOMAIN joined \/ AddCoordinator(c) \in pass'.plan
        /\ \A d \in t.dataInstances : d \in DOMAIN registered \/ RegisterInstance(d) \in pass'.plan
    BY <2>1, <2>2, <2>3, PlanOwes
  <2> QED  BY <2>1, <2>4, <2>6, <2>7 DEF PlanOwed
<1>3. CASE Stepped
  <2> DEFINE op == Current.op
             id == Target
             t == pass.topology
  <2>1. /\ pc = "run" /\ Current \in pass.plan /\ op \in CommandOps /\ Accepts(op, id) /\ Effect(op, id)
        /\ pass'.plan = pass.plan \ {Current} /\ pass'.topology = t
        /\ op # "SetInstanceToMain" => id = Current.id
    BY <1>3, SteppedFacts DEF Promoting
  <2>2. \A k \in pass'.plan : /\ StageOf(op) \in Nat /\ StageOf(k.op) \in Nat
                              /\ StageOf(op) <= StageOf(k.op)
                              /\ op = k.op => Current.id # k.id
    BY <1>3, SteppedFacts
  <2>3. /\ DOMAIN joined' = IF op \in {"AddCoordinator", "UpdateCoordinatorBoltServer"} THEN DOMAIN joined \cup {id}
                            ELSE IF op = "RemoveCoordinator" THEN DOMAIN joined \ {id} ELSE DOMAIN joined
        /\ DOMAIN registered' = IF op \in {"RegisterInstance", "UpdateInstanceBoltServer"} THEN DOMAIN registered \cup {id}
                                ELSE IF op = "UnregisterInstance" THEN DOMAIN registered \ {id} ELSE DOMAIN registered
    BY <2>1, EffectMembers
  <2>4. /\ op = "RemoveCoordinator" => id \notin t.coordinators
        /\ op = "UnregisterInstance" => id \notin t.dataInstances
    BY <2>1, CurrentFacts, TopologyFacts
  <2>5. PlanOwed /\ pc = "run"
    BY <2>1
  <2>6. Current = [op |-> op, id |-> Current.id, candidates |-> Current.candidates]
        /\ (op # "SetInstanceToMain" => Current.candidates = {})
    BY <2>1 DEF PlanFormed, IsPlan
  <2> HIDE DEF op, id, t
  <2>7. ASSUME NEW k \in pass'.plan
        PROVE  /\ k.op = "AddCoordinator" => k.id \notin DOMAIN joined'
               /\ k.op = "RegisterInstance" => k.id \notin DOMAIN registered'
               /\ k.op \in {"UpdateCoordinatorBoltServer", "RemoveCoordinator"} => k.id \in DOMAIN joined'
               /\ k.op \in {"UpdateInstanceBoltServer", "UnregisterInstance"} => k.id \in DOMAIN registered'
               /\ k.op = "SetInstanceToMain" => k.id \in DOMAIN registered' \cup {None}
    <3>1. /\ k.op = "AddCoordinator" => k.id \notin DOMAIN joined
          /\ k.op = "RegisterInstance" => k.id \notin DOMAIN registered
          /\ k.op \in {"UpdateCoordinatorBoltServer", "RemoveCoordinator"} => k.id \in DOMAIN joined
          /\ k.op \in {"UpdateInstanceBoltServer", "UnregisterInstance"} => k.id \in DOMAIN registered
          /\ k.op = "SetInstanceToMain" => k.id \in DOMAIN registered \cup {None}
      BY <2>1, <2>5 DEF PlanOwed
    <3>2. StageOf(op) <= StageOf(k.op) /\ (op = k.op => Current.id # k.id)
      BY <2>2
    <3>3. CASE k.op = "AddCoordinator"
      BY <2>1, <2>3, <3>1, <3>2, <3>3, StageFacts
    <3>4. CASE k.op = "RegisterInstance"
      BY <2>1, <2>3, <3>1, <3>2, <3>4, StageFacts
    <3>5. CASE k.op \in {"UpdateCoordinatorBoltServer", "RemoveCoordinator"}
      BY <2>1, <2>3, <3>1, <3>2, <3>5, StageFacts
    <3>6. CASE k.op \in {"UpdateInstanceBoltServer", "UnregisterInstance"}
      BY <2>1, <2>3, <3>1, <3>2, <3>6, StageFacts
    <3>7. CASE k.op = "SetInstanceToMain"
      BY <2>1, <2>3, <3>1, <3>2, <3>7, StageFacts
    <3> QED  BY <3>3, <3>4, <3>5, <3>6, <3>7
  <2>8. ASSUME NEW c \in t.coordinators PROVE c \in DOMAIN joined' \/ AddCoordinator(c) \in pass'.plan
    <3>1. c \in DOMAIN joined \/ AddCoordinator(c) \in pass.plan
      BY <2>5 DEF PlanOwed, t
    <3>2. CASE c \in DOMAIN joined
      BY <2>3, <2>4, <3>2
    <3>3. CASE AddCoordinator(c) \in pass.plan /\ AddCoordinator(c) # Current
      BY <2>1, <3>3
    <3>4. CASE AddCoordinator(c) = Current
      <4>1. op = "AddCoordinator" /\ Current.id = c
        BY <3>4 DEF AddCoordinator, Command, op
      <4> QED  BY <2>1, <2>3, <4>1
    <3> QED  BY <3>1, <3>2, <3>3, <3>4
  <2>9. ASSUME NEW d \in t.dataInstances PROVE d \in DOMAIN registered' \/ RegisterInstance(d) \in pass'.plan
    <3>1. d \in DOMAIN registered \/ RegisterInstance(d) \in pass.plan
      BY <2>5 DEF PlanOwed, t
    <3>2. CASE d \in DOMAIN registered
      BY <2>3, <2>4, <3>2
    <3>3. CASE RegisterInstance(d) \in pass.plan /\ RegisterInstance(d) # Current
      BY <2>1, <3>3
    <3>4. CASE RegisterInstance(d) = Current
      <4>1. op = "RegisterInstance" /\ Current.id = d
        BY <3>4 DEF RegisterInstance, Command, op
      <4> QED  BY <2>1, <2>3, <4>1
    <3> QED  BY <3>1, <3>2, <3>3, <3>4
  <2> QED  BY <2>1, <2>7, <2>8, <2>9 DEF PlanOwed
<1>4. CASE Retried
  BY <1>4, RetriedFacts DEF PlanOwed
<1>5. ~ (BeginPass \/ Observe \/ ShedCoordinators \/ ShedData \/ Crash \/ Finish)
  BY <1>0 DEF BeginPass, Observe, ShedCoordinators, ShedData, Crash, Finish
<1> QED  BY <1>1, <1>2, <1>3, <1>4, <1>5, StepCases, QueriedCases
(* Nor is anything but what comes later left behind a first command.        *)
LEMMA NotBehind ==
  ASSUME PassType, PlanFormed, pc = "run", NEW k \in pass.plan, StageOf(k.op) < StageOf(Current.op)
  PROVE  FALSE
<1>1. pass.plan # {} /\ IsPlan(pass.plan)
  BY DEF PlanFormed
<1>2. Current.op \in CommandOps /\ k.op \in CommandOps
  BY <1>1, CurrentFacts DEF IsPlan
<1>3. StageOf(Current.op) \in Nat /\ StageOf(k.op) \in Nat
  BY <1>2, StageFacts
<1>4. k # Current => StageOf(Current.op) <= StageOf(k.op)
  BY <1>1, LaterFacts DEF Current
<1> QED  BY <1>3, <1>4

(* MAIN and leader are where the rest of the plan expects them, while the   *)
(* coordinators leave them there.                                           *)
LEMMA PlanCurrentStep ==
  ASSUME PassType, ViewTrue, PlanFormed, PlanCurrent, [Next]_vars
  PROVE  PlanCurrent'
<1>0. SUFFICES ASSUME pc' = "run", ~ disturbed' PROVE PlanCurrent'
  BY DEF PlanCurrent
<1>1. CASE Outside
  <2>1. UNCHANGED <<pc, pass, main, leader, disturbed>>
    BY <1>0, <1>1, OutsideFacts
  <2> QED  BY <1>0, <2>1 DEF PlanCurrent, Demotes
<1>2. CASE Planned
  <2> DEFINE t == pass.topology
             o == pass.observed
             r == RetiringMain(t, o)
  <2>1. PICK lag \in {ShowReplicationLag, <<>>} : pass'.plan = Plan(t, o, lag)
    BY <1>0, <1>2, PlannedFacts
  <2>2. /\ IsTopology(t) /\ Mains(o) = {main} \ {None} /\ leaderName(o) = leader
        /\ UNCHANGED <<main, leader>> /\ \A d, e \in Mains(o) : d = e
    BY <1>0, <1>2, TopologyFacts DEF Planned, ViewTrue, clusterVars
  <2>3. r # None => r = main
    BY <2>2, RetiringMainFacts DEF IsTopology
  <2>4. main \in t.retiringDataInstances => r # None
    <3>1. None \notin t.retiringDataInstances
      BY <2>2 DEF IsTopology, None
    <3>2. t.retiringDataInstances \subseteq Nat
      BY <2>2 DEF IsTopology
    <3> QED  BY <2>2, <3>1, <3>2, RetiringMainFacts
  <2>5. r # None /\ handoverCandidates(t, o, lag) # {} => Demotes'
    <3>1. r # None /\ handoverCandidates(t, o, lag) # {} => DemoteInstance(r) \in pass'.plan
      BY <2>1, PlanOwes
    <3>2. DemoteInstance(r).op = "DemoteInstance"
      BY DEF DemoteInstance, Command
    <3> QED  BY <3>1, <3>2 DEF Demotes
  <2>6. Mains(o) = {} => main = None
    BY <2>2
  <2>7. ASSUME NEW k \in pass'.plan
        PROVE  /\ k.op = "DemoteInstance" => k.id = main
               /\ k.op = "SetInstanceToMain" => main = None \/ Demotes'
               /\ k.op = "UnregisterInstance" /\ k.id = main => Demotes'
               /\ k.op = "RemoveCoordinator" => k.id # leader
               /\ k.op = "YieldLeadership" => k.id = leader
    <3>1. /\ k.op = "DemoteInstance" => k.id = r /\ r # None
          /\ k.op = "SetInstanceToMain" =>
               (r # None /\ handoverCandidates(t, o, lag) # {}) \/ Mains(o) = {}
          /\ k.op = "UnregisterInstance" =>
               k.id \in t.retiringDataInstances /\ (k.id = r => handoverCandidates(t, o, lag) # {})
          /\ k.op = "RemoveCoordinator" => k.id # leaderName(o)
          /\ k.op = "YieldLeadership" => k.id = leaderName(o)
      BY <2>1, <2>2, CommandFacts
    <3> HIDE DEF r, t, o
    <3> QED  BY <2>2, <2>3, <2>4, <2>5, <2>6, <3>1
  <2> QED  BY <2>2, <2>7 DEF PlanCurrent
<1>3. CASE Stepped
  <2>1. /\ pc = "run" /\ ~ disturbed /\ Current \in pass.plan /\ Current.op \in CommandOps
        /\ Accepts(Current.op, Target) /\ Effect(Current.op, Target)
        /\ pass'.plan = pass.plan \ {Current} /\ pass'.refused = {} /\ pass'.topology = pass.topology
    BY <1>0, <1>3, SteppedFacts
  <2>2. ASSUME NEW k \in pass'.plan
        PROVE  /\ k.op = "DemoteInstance" => k.id = main
               /\ k.op = "SetInstanceToMain" /\ pass.refused = {} => main = None \/ Demotes
               /\ k.op = "UnregisterInstance" => k.id \in pass.topology.retiringDataInstances
               /\ k.op = "UnregisterInstance" /\ k.id = main => Demotes
               /\ k.op = "RemoveCoordinator" => k.id # leader
               /\ k.op = "YieldLeadership" => k.id = leader
    BY <2>1 DEF PlanCurrent, PlanFormed, AimsRight
  <2>3. ASSUME NEW k \in pass'.plan
        PROVE  /\ k \in pass.plan /\ k # Current /\ k.op \in CommandOps
               /\ StageOf(Current.op) \in Nat /\ StageOf(k.op) \in Nat
               /\ StageOf(Current.op) <= StageOf(k.op)
               /\ Current.op = k.op => Current.id # k.id
    BY <1>3, <2>1, SteppedFacts DEF PlanFormed, IsPlan
  <2>4. \A k, l \in pass.plan : k.op = l.op /\ k.op \in {"DemoteInstance", "SetInstanceToMain"} => k = l
    BY <2>1 DEF PlanFormed, IsPlan
  <2>5. Current.op # "DemoteInstance" => (Demotes' <=> Demotes)
    BY <2>1 DEF Demotes
  <2>6. /\ None \notin pass.topology.retiringDataInstances
        /\ pass.topology.dataInstances \cap pass.topology.retiringDataInstances = {}
    BY <2>1, TopologyFacts, OrdinalFacts
  <2>7. ASSUME NEW k \in pass.plan
        PROVE  /\ k.op = "AddCoordinator" => StageOf(k.op) = 1
               /\ k.op = "DemoteInstance" => StageOf(k.op) = 5
               /\ k.op = "SetInstanceToMain" => StageOf(k.op) = 6
               /\ k.op = "UnregisterInstance" => StageOf(k.op) = 7
               /\ k.op = "RemoveCoordinator" => StageOf(k.op) = 8
               /\ k.op = "YieldLeadership" => StageOf(k.op) = 9
    BY StageFacts
  <2>8. CASE Current.op = "DemoteInstance"
    <3>1. main' = None /\ leader' = leader
      BY <2>1, <2>8, EffectFacts
    <3>2. ASSUME NEW k \in pass'.plan PROVE k.op # "DemoteInstance"
      BY <2>1, <2>3, <2>4, <2>8
    <3> QED  BY <2>2, <2>6, <3>1, <3>2 DEF PlanCurrent
  <2>9. CASE Current.op = "SetInstanceToMain"
    <3>1. Target \in pass.topology.dataInstances
      BY <1>3, <2>9, SteppedFacts DEF Promoting
    <3>2. main' = Target /\ leader' = leader
      BY <2>1, <2>9, EffectFacts DEF Promote
    <3>3. ASSUME NEW k \in pass'.plan PROVE k.op \notin {"DemoteInstance", "SetInstanceToMain"}
      BY <2>1, <2>3, <2>4, <2>7, <2>9
    <3> QED  BY <2>2, <2>6, <3>1, <3>2, <3>3 DEF PlanCurrent
  <2>10. CASE Current.op = "YieldLeadership"
    <3>1. Current.id = leader
      BY <2>1, <2>10 DEF PlanCurrent
    <3>2. ASSUME NEW k \in pass'.plan PROVE FALSE
      <4>1. StageOf(k.op) >= 9
        BY <2>1, <2>3, <2>7, <2>10
      <4>2. k.op = "YieldLeadership"
        BY <2>3, <4>1, StageFacts DEF CommandOps
      <4> QED  BY <2>2, <2>3, <2>10, <3>1, <4>2
    <3> QED  BY <3>2 DEF PlanCurrent
  <2>11. CASE Current.op \notin {"DemoteInstance", "SetInstanceToMain", "YieldLeadership"}
    <3>1. main' = main /\ leader' = leader
      BY <2>1, <2>11, EffectFacts DEF CommandOps
    <3>2. ASSUME NEW k \in pass'.plan, k.op = "SetInstanceToMain", pass.refused # {} PROVE main = None \/ Demotes
      BY <2>1, <2>11, <3>2 DEF PlanFormed, Promoting
    <3> QED  BY <2>2, <2>5, <2>11, <3>1, <3>2 DEF PlanCurrent
  <2> QED  BY <2>8, <2>9, <2>10, <2>11
<1>4. CASE Retried
  <2>1. /\ pc = "run" /\ ~ disturbed /\ leader' = leader /\ Current.op = "SetInstanceToMain"
        /\ pass'.plan = pass.plan /\ pass'.refused # {} /\ Target \in pass.topology.dataInstances
        /\ main' = main \/ main' = Target
    BY <1>0, <1>4, RetriedFacts, CurrentFacts DEF Promoting, Promote
  <2>2. ASSUME NEW k \in pass.plan PROVE k.op # "DemoteInstance"
    BY <2>1, NotBehind, StageFacts
  <2>3. pass.topology.dataInstances \cap pass.topology.retiringDataInstances = {}
    BY <2>1, TopologyFacts
  <2>4. \A k \in pass.plan : k.op = "UnregisterInstance" => k.id \in pass.topology.retiringDataInstances
    BY <2>1 DEF PlanFormed, AimsRight
  <2>5. Demotes' = Demotes
    BY <2>1 DEF Demotes
  <2> QED  BY <2>1, <2>2, <2>3, <2>4, <2>5 DEF PlanCurrent
<1>5. ~ (BeginPass \/ Observe \/ ShedCoordinators \/ ShedData \/ Crash \/ Finish)
  BY <1>0 DEF BeginPass, Observe, ShedCoordinators, ShedData, Crash, Finish
<1> QED  BY <1>1, <1>2, <1>3, <1>4, <1>5, StepCases, QueriedCases
-----------------------------------------------------------------------------
(* The databases *)

(* A client's write takes nothing away.                                     *)
LEMMA CommitFacts ==
  ASSUME ClusterType, HeldFinite, NEW t \in Txns, Commit(t)
  PROVE  /\ HeldFinite' /\ main \in DataInstances /\ main' = main /\ demoted' = demoted
         /\ \A d \in DataInstances : held[d] \subseteq held'[d]
<1>1. PICK synced \in SUBSET { d \in Registered \cap up : held[d] = held[main] } :
        held' = [ d \in DataInstances |-> IF d \in synced \cup {main} THEN held[d] \cup {t} ELSE held[d] ]
  BY DEF Commit
<1>2. main \in DataInstances /\ main' = main /\ demoted' = demoted
  BY DEF Commit, ClusterType
<1>3. \A d \in DataInstances : held'[d] = held[d] \cup {t} \/ held'[d] = held[d]
  BY <1>1
<1>4. \A d \in DataInstances : IsFiniteSet(held[d]) /\ IsFiniteSet(held[d] \cup {t})
  BY FS_AddElement DEF HeldFinite
<1> QED  BY <1>2, <1>3, <1>4 DEF HeldFinite

(* A replica that recovers has what the MAIN has, and nothing else.         *)
LEMMA RecoverFacts ==
  ASSUME ClusterType, HeldFinite, NEW d \in DataInstances, Recover(d)
  PROVE  /\ HeldFinite' /\ main \in DataInstances /\ main' = main /\ demoted' = demoted
         /\ \A e \in DataInstances : held'[e] = held[e] \/ held'[e] = held[main]
<1>1. /\ main \in DataInstances /\ main' = main /\ demoted' = demoted
      /\ held' = [held EXCEPT ![d] = held[main]] /\ held \in [DataInstances -> SUBSET Txns]
  BY DEF Recover, ClusterType
<1>2. \A e \in DataInstances : held'[e] = held[e] \/ held'[e] = held[main]
  BY <1>1
<1> QED  BY <1>1, <1>2 DEF HeldFinite

(* Outside the operator's passes MAIN stays MAIN while it is reachable and  *)
(* is never lost, and what a database loses it loses to the MAIN's.         *)
LEMMA OutsideData ==
  ASSUME ClusterType, HeldFinite, Outside
  PROVE  /\ HeldFinite'
         /\ main \in up => main' = main
         /\ main' = None => main = None
         /\ demoted' = None \/ (demoted' = demoted /\ main' = main)
         /\ \A d \in DataInstances :
              held[d] \subseteq held'[d] \/ (main \in DataInstances /\ held'[d] = held[main])
<1> USE DEF k8sVars, passVars, clusterVars
<1>0. up \subseteq DataInstances /\ Registered \subseteq DataInstances /\ None \notin DataInstances
  BY OrdinalFacts DEF ClusterType
<1> DEFINE Kept == \A d \in DataInstances :
                     held[d] \subseteq held'[d] \/ (main \in DataInstances /\ held'[d] = held[main])
<1>1. ASSUME NEW t \in Txns, Commit(t)
      PROVE  HeldFinite' /\ UNCHANGED <<main, demoted>> /\ Kept
  BY <1>1, CommitFacts
<1>2. ASSUME NEW d \in DataInstances, Recover(d)
      PROVE  HeldFinite' /\ UNCHANGED <<main, demoted>> /\ Kept
  BY <1>2, RecoverFacts
<1>3. ASSUME held' = held PROVE HeldFinite' /\ Kept
  BY <1>3 DEF HeldFinite
<1>4. ASSUME NEW d \in DataInstances, GoDown(d) \/ ComeUp(d) PROVE UNCHANGED <<main, held, demoted>>
  BY <1>4 DEF GoDown, ComeUp
<1>5. ASSUME NEW d \in DataInstances, Failover(d)
      PROVE  main \notin up /\ main' # None /\ demoted' = None /\ held' = held
  BY <1>0, <1>5 DEF Failover, Promote
<1>6. ASSUME NEW c \in Coordinators, Elect(c), ~ UNCHANGED <<main, held, demoted>>
      PROVE  main \notin up /\ main' # None /\ demoted' = None /\ held' = held
  <2>1. main = None /\ \E d \in FailoverTargets : Promote(d)
    BY <1>6 DEF Elect
  <2>2. PICK d \in FailoverTargets : Promote(d)
    BY <2>1
  <2>3. d \in DataInstances
    BY <1>0, <2>2 DEF FailoverTargets
  <2> QED  BY <1>0, <2>1, <2>2, <2>3 DEF Promote
<1>7. ASSUME NEW d \in Foreign, RegisterForeign(d) PROVE UNCHANGED <<main, held, demoted>>
  BY <1>7 DEF RegisterForeign
<1>8. ASSUME Edit \/ MoveAddress \/ UNCHANGED vars PROVE UNCHANGED <<main, held, demoted>>
  BY <1>8 DEF Edit, MoveAddress, vars
<1> HIDE DEF Kept
<1>9. /\ HeldFinite' /\ Kept /\ (main \in up => main' = main) /\ (main' = None => main = None)
      /\ demoted' = None \/ (demoted' = demoted /\ main' = main)
  BY <1>1, <1>2, <1>3, <1>4, <1>5, <1>6, <1>7, <1>8 DEF Outside
<1> QED  BY <1>9 DEF Kept

(* No database becomes infinite.                                            *)
LEMMA HeldFiniteStep ==
  ASSUME ClusterType, PassType, PlanFormed, HeldFinite, [Next]_vars
  PROVE  HeldFinite'
<1>1. ASSUME held' = held PROVE HeldFinite'
  BY <1>1 DEF HeldFinite
<1>2. CASE Queried
  <2>1. Accepts(Current.op, Target) /\ Effect(Current.op, Target) => held' = held
    BY DEF Effect, Promote
  <2> QED  BY <1>1, <1>2, <2>1, QueriedEffect DEF Unmoved
<1>3. CASE BeginPass \/ Observe \/ Planned \/ ShedCoordinators \/ ShedData \/ Crash
  BY <1>1, <1>3 DEF BeginPass, Observe, Planned, ShedCoordinators, ShedData, Crash, clusterVars
<1> QED  BY <1>2, <1>3, OutsideData, StepCases

(* An instance SHOW REPLICATION LAG shows caught up holds what the MAIN     *)
(* does, if it holds nothing else.                                          *)
LEMMA CaughtUpHolds ==
  ASSUME ClusterType, HeldFinite, NEW e \in DataInstances \ Diverged, IsCaughtUp(ShowReplicationLag, e)
  PROVE  held[e] = held[main]
<1>1. /\ e \in Registered /\ main \in up
      /\ Cardinality(held[main]) - Cardinality(held[e]) <= 0
  BY DEF IsCaughtUp, ShowReplicationLag
<1>2. main # None /\ main \in DataInstances
  BY <1>1, OrdinalFacts DEF ClusterType
<1>3. held[e] \subseteq held[main] /\ IsFiniteSet(held[main]) /\ IsFiniteSet(held[e])
  BY <1>2 DEF HeldFinite, Diverged
<1>4. Cardinality(held[e]) <= Cardinality(held[main])
      /\ (Cardinality(held[main]) = Cardinality(held[e]) => held[main] = held[e])
  BY <1>3, FS_Subset
<1>5. Cardinality(held[main]) \in Nat /\ Cardinality(held[e]) \in Nat
  BY <1>3, FS_CardinalityType
<1>6. Cardinality(held[main]) = Cardinality(held[e])
  BY <1>1, <1>4, <1>5
<1> QED  BY <1>4, <1>6
(* While nobody else has been promoted, the retiring MAIN and the           *)
(* candidates hold what was proven when the plan was made.                  *)
LEMMA CandidatesHoldStep ==
  ASSUME ClusterType, PassType, ViewTrue, PlanFormed, PlanCurrent, HeldFinite, CandidatesHold, [Next]_vars
  PROVE  CandidatesHold'
<1>0. SUFFICES ASSUME pc' = "run", ~ disturbed', NEW k \in pass'.plan, k.op = "SetInstanceToMain",
                      k.id # None, main' \in {None, k.id}, NEW e \in {k.id} \cup (k.candidates \ pass'.diverged)
               PROVE  pass'.proven \subseteq held'[e]
  BY DEF CandidatesHold
<1>1. ASSUME pc = "run", pass'.plan \subseteq pass.plan, pass'.topology = pass.topology
      PROVE  /\ k.candidates \subseteq pass.topology.dataInstances /\ k.id \in pass.topology.retiringDataInstances
             /\ e \in DataInstances
  <2>1. k.candidates \subseteq pass.topology.dataInstances /\ k.id \in pass.topology.retiringDataInstances
    BY <1>0, <1>1 DEF PlanFormed, AimsRight
  <2> QED  BY <1>1, <2>1, TopologyFacts, OrdinalFacts
<1>2. CASE Outside
  <2>1. UNCHANGED <<pc, pass, main, disturbed>>
    BY <1>0, <1>2, OutsideFacts
  <2>2. e \in DataInstances
    BY <1>0, <1>1, <2>1
  <2>3. pass.proven \subseteq held[e] /\ pass.proven \subseteq held[k.id]
    BY <1>0, <2>1 DEF CandidatesHold
  <2>4. held[e] \subseteq held'[e] \/ (main \in DataInstances /\ held'[e] = held[main])
    BY <1>2, <2>2, OutsideData
  <2>5. main \in DataInstances => main = k.id
    BY <1>0, <2>1, OrdinalFacts
  <2> QED  BY <2>1, <2>3, <2>4, <2>5
<1>3. CASE Planned
  <2> DEFINE t == pass.topology
             o == pass.observed
             r == RetiringMain(t, o)
  <2>1. PICK lag \in {ShowReplicationLag, <<>>} : 
          /\ pass'.plan = Plan(t, o, lag) /\ pass'.diverged = Diverged
          /\ main # None => pass'.proven = held[main]
    BY <1>0, <1>3, PlannedFacts
  <2>2. /\ IsTopology(t) /\ Mains(o) = {main} \ {None} /\ UNCHANGED <<main, held>>
        /\ t.dataInstances \subseteq Declarable /\ \A d, f \in Mains(o) : d = f
    BY <1>0, <1>3, TopologyFacts DEF Planned, ViewTrue, clusterVars
  <2>3. k.id = r /\ r # None /\ k.candidates = handoverCandidates(t, o, lag)
    BY <1>0, <2>1, <2>2, CommandFacts
  <2>4. r = main
    <3>1. t.retiringDataInstances \subseteq Nat
      BY <2>2 DEF IsTopology
    <3>2. Mains(o) = {r}
      BY <2>2, <2>3, <3>1, RetiringMainFacts
    <3> QED  BY <2>2, <3>2
  <2>5. CASE e = k.id
    BY <2>1, <2>2, <2>3, <2>4, <2>5
  <2>6. CASE e \in k.candidates \ Diverged
    <3>1. e \in DataInstances /\ IsCaughtUp(lag, e)
      BY <2>2, <2>3, <2>6, OrdinalFacts DEF handoverCandidates
    <3>2. lag # <<>>
      BY <3>1 DEF IsCaughtUp
    <3>3. IsCaughtUp(ShowReplicationLag, e)
      BY <2>1, <3>1, <3>2
    <3>4. held[e] = held[main]
      BY <2>6, <3>1, <3>3, CaughtUpHolds
    <3> QED  BY <2>1, <2>2, <2>3, <2>4, <3>4
  <2> QED  BY <1>0, <2>1, <2>5, <2>6
<1>4. CASE Stepped
  <2>1. /\ pc = "run" /\ ~ disturbed /\ Current \in pass.plan /\ Current.op \in CommandOps
        /\ Accepts(Current.op, Target) /\ Effect(Current.op, Target)
        /\ pass'.plan = pass.plan \ {Current} /\ pass'.proven = pass.proven /\ pass'.diverged = pass.diverged
    BY <1>0, <1>4, SteppedFacts
  <2>2. \A l, m \in pass.plan : l.op = m.op /\ l.op \in {"DemoteInstance", "SetInstanceToMain"} => l = m
    BY <2>1 DEF PlanFormed, IsPlan
  <2>3. Current.op # "SetInstanceToMain"
    BY <1>0, <2>1, <2>2
  <2>4. held' = held
    BY <2>1, <2>3, EffectFacts DEF CommandOps
  <2>5. main \in {None, k.id}
    <3>1. CASE Current.op = "DemoteInstance"
      <4>1. PICK l \in pass.plan : l.op = "SetInstanceToMain" /\ l.id = Current.id
        BY <2>1, <3>1 DEF PlanFormed, DemotesToPromote
      <4>2. l = k
        BY <1>0, <2>1, <2>2, <4>1
      <4>3. Current.id = main
        BY <2>1, <3>1 DEF PlanCurrent
      <4> QED  BY <4>1, <4>2, <4>3
    <3>2. CASE Current.op # "DemoteInstance"
      <4>1. main' = main
        BY <2>1, <2>3, <3>2, EffectFacts DEF CommandOps
      <4> QED  BY <1>0, <4>1
    <3> QED  BY <3>1, <3>2
  <2> QED  BY <1>0, <2>1, <2>4, <2>5 DEF CandidatesHold
<1>5. CASE Retried
  <2>1. /\ pc = "run" /\ ~ disturbed /\ pass'.plan = pass.plan /\ pass'.proven = pass.proven /\ pass'.diverged = pass.diverged
        /\ pass'.topology = pass.topology /\ Target \in pass.topology.dataInstances
        /\ UNCHANGED <<main, held>> \/ main' = Target
    BY <1>0, <1>5, RetriedFacts, CurrentFacts DEF Promote
  <2>2. CASE UNCHANGED <<main, held>>
    BY <1>0, <2>1, <2>2 DEF CandidatesHold
  <2>3. CASE main' = Target
    <3>1. Target # None /\ Target \notin pass.topology.retiringDataInstances
      BY <2>1, TopologyFacts, OrdinalFacts
    <3> QED  BY <1>0, <1>1, <2>1, <2>3, <3>1
  <2> QED  BY <2>1, <2>2, <2>3
<1>6. ~ (BeginPass \/ Observe \/ ShedCoordinators \/ ShedData \/ Crash \/ Finish)
  BY <1>0 DEF BeginPass, Observe, ShedCoordinators, ShedData, Crash, Finish
<1> QED  BY <1>2, <1>3, <1>4, <1>5, <1>6, StepCases, QueriedCases

(* Whoever is to be promoted is registered by then: the candidates before   *)
(* them, the MAIN that was demoted until after them.                        *)
LEMMA PromotionAccepted ==
  ASSUME PassType, PlanFormed, PlanOwed, pc = "run", Promoting
  PROVE  Target \in Registered
<1>1. Current \in pass.plan /\ Current.op = "SetInstanceToMain"
  BY CurrentFacts DEF Promoting
<1>2. CASE Restoring
  BY <1>1, <1>2, CurrentFacts DEF PlanOwed
<1>3. CASE ~ Restoring
  <2>1. Target \in pass.topology.dataInstances
    BY <1>3, CurrentFacts
  <2>2. Target \in Registered \/ RegisterInstance(Target) \in pass.plan
    BY <2>1 DEF PlanOwed
  <2>3. RegisterInstance(Target).op = "RegisterInstance"
    BY DEF RegisterInstance, Command
  <2>4. RegisterInstance(Target) \notin pass.plan
    BY <1>1, <2>3, NotBehind, StageFacts
  <2> QED  BY <2>2, <2>4
<1> QED  BY <1>2, <1>3

(* MAIN is given up only to promote, and the pass does not end before       *)
(* somebody is promoted or the MAIN given up refuses, if nothing was lost.  *)
LEMMA DemotedStep ==
  ASSUME ClusterType, PassType, PlanFormed, PlanOwed, HeldFinite, DemotedRestored, [Next]_vars
  PROVE  DemotedRestored'
<1>a. main' # None => demoted' = None
  <2>1. ASSUME UNCHANGED main, demoted' \in {demoted, None} PROVE main' # None => demoted' = None
    BY <2>1 DEF DemotedRestored
  <2>2. CASE Outside
    BY <2>1, <2>2, OutsideData
  <2>3. CASE Queried
    <3>1. pc = "run"
      BY <2>3, QueriedCases
    <3>2. CASE Accepts(Current.op, Target) /\ Effect(Current.op, Target)
      <4>1. Current.op \in CommandOps
        BY <3>1, CurrentFacts
      <4>2. Current.op = "SetInstanceToMain" => demoted' = None
        BY <3>2, <4>1, EffectFacts DEF Promote
      <4>3. Current.op = "DemoteInstance" => main' = None
        BY <3>2, <4>1, EffectFacts
      <4>4. Current.op \notin {"DemoteInstance", "SetInstanceToMain"} => UNCHANGED <<main, demoted>>
        BY <3>2, <4>1, EffectFacts DEF CommandOps
      <4> QED  BY <2>1, <4>2, <4>3, <4>4
    <3> QED  BY <2>1, <2>3, <3>2, QueriedEffect DEF Unmoved
  <2>4. CASE BeginPass \/ Observe \/ Planned \/ ShedCoordinators \/ ShedData \/ Crash
    BY <2>1, <2>4 DEF BeginPass, Observe, Planned, ShedCoordinators, ShedData, Crash, clusterVars
  <2> QED  BY <2>2, <2>3, <2>4, StepCases
<1>0. SUFFICES ASSUME main' = None, demoted' # None, budget'.faults = MaxFaults
               PROVE  pc' = "run" /\ Promoting' /\ Current'.id = demoted'
  BY <1>a DEF DemotedRestored
<1>1. MaxFaults \in Nat /\ budget.faults \in Nat
  BY BoundsAssumption DEF ClusterType, Budgets
<1>2. ~ Spend("faults")
  BY <1>0, <1>1, SpendFacts
<1>3. budget.faults = MaxFaults
  <2>1. UNCHANGED budget \/ \E kind \in {"edits", "moves", "faults", "refusals", "downs", "elections"} : Spend(kind)
    <3>1. CASE Outside
      BY <3>1 DEF Outside, Commit, Recover, GoDown, ComeUp, Failover, Elect, RegisterForeign, Edit, MoveAddress, vars
    <3>2. CASE ~ Outside
      BY <3>2, StepCases DEF BeginPass, Observe, Planned, Queried, RunCommand, RefuseCommand,
                              RefusePromotion, LoseCommand, ShedCoordinators, ShedData, Crash
    <3> QED  BY <3>1, <3>2
  <2>2. CASE UNCHANGED budget
    BY <1>0, <2>2
  <2>3. ASSUME NEW kind \in {"edits", "moves", "refusals", "downs", "elections"}, Spend(kind) PROVE budget.faults = MaxFaults
    BY <1>0, <2>3, SpendFacts
  <2> QED  BY <1>2, <2>1, <2>2, <2>3
<1>4. ASSUME main = None, demoted' = demoted PROVE pc = "run" /\ Promoting /\ Current.id = demoted
  BY <1>0, <1>3, <1>4 DEF DemotedRestored
<1>5. CASE Outside
  <2>1. main = None /\ demoted' = demoted /\ UNCHANGED <<pc, pass>>
    BY <1>0, <1>5, OutsideFacts, OutsideData
  <2> QED  BY <1>4, <2>1 DEF Promoting, Current
<1>6. CASE BeginPass \/ Observe \/ Planned \/ ShedCoordinators \/ ShedData
  <2>1. UNCHANGED <<main, demoted>> /\ pc # "run"
    BY <1>6 DEF BeginPass, Observe, Planned, ShedCoordinators, ShedData, clusterVars
  <2> QED  BY <1>0, <1>4, <2>1
<1>7. ~ Crash /\ ~ LoseCommand
  BY <1>2 DEF Crash, LoseCommand
<1>8. CASE RefuseCommand
  <2>1. UNCHANGED <<main, demoted>> /\ ~ Accepts(Current.op, Target) /\ pc = "run"
    BY <1>8 DEF RefuseCommand, clusterVars
  <2>2. main = None /\ Promoting
    BY <1>0, <1>4, <2>1
  <2>3. Accepts(Current.op, Target)
    BY <2>1, <2>2, PromotionAccepted DEF Accepts, Promoting
  <2> QED  BY <2>1, <2>3
<1>10. CASE RefusePromotion
  <2>1. /\ pc = "run" /\ Promoting /\ Failed /\ UNCHANGED main
        /\ demoted' = IF Target = demoted THEN None ELSE demoted
    BY <1>10 DEF RefusePromotion
  <2>2. Target # demoted /\ demoted' = demoted
    BY <1>0, <2>1
  <2>3. Current.id = demoted /\ Current.id # None
    BY <1>0, <1>4, <2>1, <2>2
  <2>4. ~ Restoring
    BY <2>1, <2>2, <2>3, CurrentFacts
  <2>5. pc' = "run" /\ pass' = [pass EXCEPT !.refused = pass.refused \cup {Target}]
    BY <2>1, <2>3, <2>4 DEF Failed
  <2>6. pass'.plan = pass.plan
    BY <2>5 DEF PassType
  <2> QED  BY <2>1, <2>2, <2>3, <2>5, <2>6 DEF Promoting, Current
<1>9. CASE RunCommand
  <2>1. pc = "run" /\ Accepts(Current.op, Target) /\ Effect(Current.op, Target)
    BY <1>9 DEF RunCommand
  <2>2. Current \in pass.plan /\ Current.op \in CommandOps /\ pass.plan # {} /\ IsPlan(pass.plan)
    BY <2>1, CurrentFacts DEF PlanFormed
  <2>3. Current.op # "SetInstanceToMain"
    <3>1. ASSUME Current.op = "SetInstanceToMain" PROVE FALSE
      <4>1. Target \in Registered /\ main' = Target
        BY <2>1, <2>2, <3>1, EffectFacts DEF Promote
      <4>2. Target # None
        BY <4>1, OrdinalFacts DEF ClusterType
      <4> QED  BY <1>0, <4>1, <4>2
    <3> QED  BY <3>1
  <2>4. Current.op # "DemoteInstance" => UNCHANGED <<main, demoted>>
    BY <2>1, <2>2, <2>3, EffectFacts DEF CommandOps
  <2>6. Current.op = "DemoteInstance"
    BY <1>0, <1>4, <2>3, <2>4 DEF Promoting
  <2>5. demoted' = Current.id
    BY <2>1, <2>2, <2>6, CurrentFacts, EffectFacts DEF Promoting
  <2>7. PICK l \in pass.plan : l.op = "SetInstanceToMain" /\ l.id = Current.id
    BY <2>1, <2>2, <2>6 DEF PlanFormed, DemotesToPromote
  <2>8. l # Current
    BY <2>6, <2>7
  <2>9. Stepped
    <3>1. ~ Restoring /\ pass.plan # {Current}
      BY <2>3, <2>7, <2>8 DEF Restoring, Promoting
    <3> QED  BY <1>9, <3>1 DEF RunCommand, Done, Stepped
  <2>10. pc' = "run" /\ pass'.plan = pass.plan \ {Current}
    BY <2>9, SteppedFacts
  <2> DEFINE next == FirstCommand(pass'.plan)
  <2>11. IsPlan(pass'.plan) /\ l \in pass'.plan
    BY <2>2, <2>7, <2>8, <2>10 DEF IsPlan
  <2>12. next \in pass.plan /\ next # Current /\ next.op \in CommandOps
    BY <2>10, <2>11, FirstFacts DEF IsPlan
  <2>13. StageOf(next.op) <= 6
    BY <2>7, <2>11, LaterFacts, StageFacts
  <2>14. StageOf(next.op) >= 5
    BY <2>2, <2>6, <2>12, LaterFacts, StageFacts DEF Current
  <2>15. next.op # "DemoteInstance"
    BY <2>2, <2>6, <2>12 DEF IsPlan
  <2>16. next.op = "SetInstanceToMain"
    <3> HIDE DEF next
    <3> QED  BY <2>12, <2>13, <2>14, <2>15, StageFacts DEF CommandOps
  <2>17. next = l
    BY <2>2, <2>7, <2>12, <2>16 DEF IsPlan
  <2> QED  BY <2>5, <2>7, <2>10, <2>16, <2>17 DEF Promoting, Current
<1> QED  BY <1>5, <1>6, <1>7, <1>8, <1>9, <1>10, StepCases DEF Queried
-----------------------------------------------------------------------------
(* The theorems *)

(* A resource just created, or a cluster formed earlier.                    *)
LEMMA RegistrationInit == Init => RegistrationInv
<1> SUFFICES ASSUME Init PROVE RegistrationInv
  OBVIOUS
<1> USE DEF Joined, Registered
<1>1. /\ spec \in Counts(CoordinatorCounts, DataCounts)
      /\ spec.coordinators \in CoordinatorCounts /\ spec.data \in DataCounts
  BY DEF Init, Counts
<1>2. PICK a \in Addresses : external = [coordinators |-> a, data |-> [d \in Declarable |-> a]]
  BY DEF Init
<1>3. /\ 0 .. spec.coordinators - 1 \subseteq Coordinators /\ 0 .. spec.data - 1 \subseteq Declarable
      /\ Declarable \subseteq DataInstances /\ 0 \in Coordinators /\ None \notin DataInstances
  BY <1>1, OrdinalFacts
<1>4. /\ running \in Counts({0} \cup CoordinatorCounts, {0} \cup DataCounts)
      /\ DOMAIN joined \subseteq Coordinators /\ \A c \in DOMAIN joined : joined[c] \in Addresses
      /\ leader \in Coordinators
      /\ DOMAIN registered \subseteq DataInstances /\ \A d \in DOMAIN registered : registered[d] \in Addresses
      /\ main \in DOMAIN registered \cup {None}
  <2>1. CASE Fresh
    <3>1. /\ running = [coordinators |-> 0, data |-> 0] /\ DOMAIN joined = {} /\ leader = 0
          /\ DOMAIN registered = {} /\ main = None
      BY <2>1 DEF Fresh
    <3> QED  BY <1>3, <3>1 DEF Counts
  <2>2. CASE Formed
    <3>1. /\ running = spec /\ leader \in DOMAIN joined /\ main \in DOMAIN registered
          /\ joined = [c \in 0 .. spec.coordinators - 1 |-> external.coordinators]
          /\ registered = [d \in 0 .. spec.data - 1 |-> external.data[d]]
      BY <2>2 DEF Formed
    <3>2. DOMAIN joined \subseteq Coordinators /\ \A c \in DOMAIN joined : joined[c] \in Addresses
      BY <1>2, <1>3, <3>1
    <3>3. DOMAIN registered \subseteq DataInstances /\ \A d \in DOMAIN registered : registered[d] \in Addresses
      BY <1>2, <1>3, <3>1
    <3>4. running \in Counts({0} \cup CoordinatorCounts, {0} \cup DataCounts)
      BY <1>1, <3>1 DEF Counts
    <3> QED  BY <3>1, <3>2, <3>3, <3>4
  <2> QED  BY <2>1, <2>2 DEF Init
<1>5. /\ up = DataInstances /\ held = [d \in DataInstances |-> {}] /\ demoted = None
      /\ pc = "idle" /\ pass = NoPass /\ disturbed = FALSE
  BY DEF Init
<1>6. budget \in Budgets /\ budget.faults <= MaxFaults
  BY BoundsAssumption DEF Init, Budgets
<1>7. ClusterType
  BY <1>1, <1>2, <1>4, <1>5, <1>6 DEF ClusterType
<1>8. PassType
  BY <1>5 DEF PassType, NoPass
<1>9. HeldFinite
  BY <1>3, <1>4, <1>5, FS_EmptySet DEF HeldFinite
<1>10. ViewTrue /\ PlanFormed /\ PlanOwed /\ PlanCurrent /\ ShedInv /\ CandidatesHold
  BY <1>5 DEF ViewTrue, PlanFormed, PlanOwed, PlanCurrent, ShedInv, CandidatesHold
<1>11. DemotedRestored
  BY <1>5 DEF DemotedRestored
<1> QED  BY <1>7, <1>8, <1>9, <1>10, <1>11 DEF RegistrationInv

(* The invariant is inductive.                                              *)
LEMMA RegistrationStep == RegistrationInv /\ [Next]_vars => RegistrationInv'
  BY ClusterTypeStep, PassTypeStep, ViewTrueStep, PlanFormedStep, PlanOwedStep, PlanCurrentStep, ShedStep,
     HeldFiniteStep, CandidatesHoldStep, DemotedStep
     DEF RegistrationInv

(* So it holds throughout.                                                  *)
LEMMA RegistrationInvariant == Spec => []RegistrationInv
  BY RegistrationInit, RegistrationStep, PTL DEF Spec

(* The cluster, the StatefulSets and the pass are well typed, and a pass    *)
(* that runs a plan always has a command left and a member to aim it at     *)
(* (execute never runs off the end of the candidates).                      *)
THEOREM RegistrationTypeCorrect == Spec => []TypeOK
<1>1. RegistrationInv => TypeOK
  <2> SUFFICES ASSUME RegistrationInv PROVE TypeOK
    OBVIOUS
  <2>1. ClusterType /\ PassType /\ PlanFormed
    BY DEF RegistrationInv
  <2>2. pc = "run" => pass.plan # {} /\ Target \in Coordinators \cup DataInstances
    BY <2>1, CurrentFacts DEF PlanFormed
  <2>3. \A kind \in DOMAIN budget : budget[kind] \in Nat
    <3>1. budget \in Budgets
      BY <2>1 DEF ClusterType
    <3> QED  BY <3>1 DEF Budgets
  <2> QED  BY <2>1, <2>2, <2>3 DEF TypeOK, ClusterType, PassType
<1> QED  BY <1>1, RegistrationInvariant, PTL

(* planner.Plan orders its commands so that the cluster never refuses one,  *)
(* unless the coordinators moved MAIN or leadership after the view.         *)
THEOREM PlansAreAccepted == Spec => []PlanNeverRefused
<1>1. RegistrationInv => PlanNeverRefused
  <2> SUFFICES ASSUME RegistrationInv, pc = "run", ~ disturbed, pass.refused = {}
               PROVE  Accepts(Current.op, Target)
    BY DEF PlanNeverRefused
  <2>0. PassType /\ PlanFormed /\ PlanOwed /\ PlanCurrent
    BY DEF RegistrationInv
  <2>1. /\ Current \in pass.plan /\ Current.op \in CommandOps
        /\ Current.op # "SetInstanceToMain" => Target = Current.id
    BY <2>0, CurrentFacts DEF Promoting
  <2>2. /\ Current.op = "AddCoordinator" => Target \notin Joined
        /\ Current.op = "RegisterInstance" => Target \notin Registered
        /\ Current.op \in {"UpdateCoordinatorBoltServer", "RemoveCoordinator"} => Target \in Joined
        /\ Current.op \in {"UpdateInstanceBoltServer", "UnregisterInstance"} => Target \in Registered
    BY <2>0, <2>1 DEF PlanOwed
  <2>3. /\ Current.op = "DemoteInstance" => Target = main
        /\ Current.op = "SetInstanceToMain" => main = None \/ Demotes
        /\ Current.op = "UnregisterInstance" /\ Target = main => Demotes
        /\ Current.op = "RemoveCoordinator" => Target # leader
        /\ Current.op = "YieldLeadership" => Target = leader
    BY <2>0, <2>1 DEF PlanCurrent
  <2>4. Current.op \in {"SetInstanceToMain", "UnregisterInstance"} => ~ Demotes
    BY <2>0, NotBehind, StageFacts DEF Demotes
  <2>5. Current.op = "SetInstanceToMain" => Target \in Registered
    BY <2>0, PromotionAccepted DEF Promoting
  <2>6. ASSUME Current.op = "YieldLeadership" PROVE Joined \ {leader} # {}
    <3>1. 0 \in pass.topology.coordinators /\ 0 \notin pass.topology.retiringCoordinators
      BY <2>0, TopologyFacts
    <3>2. Target \in pass.topology.retiringCoordinators
      BY <2>0, <2>6, CurrentFacts
    <3>3. AddCoordinator(0) \notin pass.plan
      <4>1. AddCoordinator(0).op = "AddCoordinator"
        BY DEF AddCoordinator, Command
      <4> QED  BY <2>0, <2>6, <4>1, NotBehind, StageFacts
    <3>4. 0 \in Joined
      BY <2>0, <3>1, <3>3 DEF PlanOwed
    <3> QED  BY <2>3, <2>6, <3>1, <3>2, <3>4
  <2>7. CASE Current.op \in {"AddCoordinator", "RegisterInstance", "UpdateCoordinatorBoltServer", "UpdateInstanceBoltServer"}
    BY <2>2, <2>7 DEF Accepts
  <2>8. CASE Current.op \in {"DemoteInstance", "SetInstanceToMain", "UnregisterInstance"}
    BY <2>2, <2>3, <2>4, <2>5, <2>8 DEF Accepts
  <2>9. CASE Current.op \in {"RemoveCoordinator", "YieldLeadership"}
    BY <2>2, <2>3, <2>6, <2>9 DEF Accepts
  <2> QED  BY <2>1, <2>7, <2>8, <2>9 DEF CommandOps
<1> QED  BY <1>1, RegistrationInvariant, PTL

(* Without a lost query or a crash, a cluster whose MAIN was demoted is     *)
(* without one only while the same pass is promoting, whichever candidates  *)
(* refuse (SetInstanceToMain), until the demoted MAIN itself refuses to be  *)
(* restored.                                                                *)
THEOREM HandoverEndsWithMain == Spec => []MainlessOnlyInsideHandover
<1>1. RegistrationInv => MainlessOnlyInsideHandover
  BY DEF RegistrationInv, DemotedRestored, MainlessOnlyInsideHandover
<1> QED  BY <1>1, RegistrationInvariant, PTL

(* reconcileRegistration leaves every member that is not retiring alone,    *)
(* foreign ones included, and a reachable MAIN among them stays MAIN.       *)
THEOREM StayingMembersKept == Spec => StayingMembersUntouched
<1> DEFINE Kept ==
      LET stays == Registered \ pass.topology.retiringDataInstances
      IN  /\ stays \subseteq DOMAIN registered'
          /\ Joined \ pass.topology.retiringCoordinators \subseteq DOMAIN joined'
          /\ main \in stays \cap up => main' = main
<1>1. RegistrationInv /\ [Next]_vars => [Kept]_vars
  <2> SUFFICES ASSUME RegistrationInv, [Next]_vars PROVE Kept
    OBVIOUS
  <2> USE DEF Joined, Registered
  <2>0. ClusterType /\ PassType /\ PlanFormed /\ HeldFinite
    BY DEF RegistrationInv
  <2>1. CASE Outside
    BY <2>0, <2>1, OutsideMembers, OutsideData
  <2>2. ASSUME UNCHANGED <<joined, registered, main>> PROVE Kept
    BY <2>2
  <2>3. CASE Queried
    <3>1. CASE Unmoved
      BY <2>2, <3>1 DEF Unmoved
    <3>2. CASE Accepts(Current.op, Target) /\ Effect(Current.op, Target)
      <4>1. pc = "run" /\ Current.op \in CommandOps
        BY <2>0, <2>3, QueriedCases, CurrentFacts
      <4>2. /\ Current.op = "UnregisterInstance" => Target \in pass.topology.retiringDataInstances
            /\ Current.op = "RemoveCoordinator" => Target \in pass.topology.retiringCoordinators
            /\ Current.op = "DemoteInstance" => Target \in pass.topology.retiringDataInstances
        BY <2>0, <4>1, CurrentFacts
      <4>3. /\ Registered \ pass.topology.retiringDataInstances \subseteq DOMAIN registered'
            /\ Joined \ pass.topology.retiringCoordinators \subseteq DOMAIN joined'
        <5> DEFINE op == Current.op
                   id == Target
        <5>1. op \in CommandOps /\ Accepts(op, id) /\ Effect(op, id)
          BY <3>2, <4>1
        <5>2. /\ op = "UnregisterInstance" => id \in pass.topology.retiringDataInstances
              /\ op = "RemoveCoordinator" => id \in pass.topology.retiringCoordinators
          BY <4>2
        <5> HIDE DEF op, id
        <5>3. /\ DOMAIN joined \subseteq DOMAIN joined' \/ (op = "RemoveCoordinator" /\ DOMAIN joined' = DOMAIN joined \ {id})
              /\ \/ DOMAIN registered \subseteq DOMAIN registered'
                 \/ op = "UnregisterInstance" /\ DOMAIN registered' = DOMAIN registered \ {id}
          BY <5>1, EffectMembers
        <5> QED  BY <5>2, <5>3
      <4>4. main' # main => main \in pass.topology.retiringDataInstances \/ main = None
        BY <3>2, <4>1, <4>2, EffectFacts DEF CommandOps
      <4>5. None \notin Registered
        BY <2>0, OrdinalFacts DEF ClusterType
      <4> QED  BY <4>3, <4>4, <4>5
    <3> QED  BY <2>3, <3>1, <3>2, QueriedEffect
  <2>4. CASE BeginPass \/ Observe \/ Planned \/ ShedCoordinators \/ ShedData \/ Crash
    BY <2>2, <2>4 DEF BeginPass, Observe, Planned, ShedCoordinators, ShedData, Crash, clusterVars
  <2> QED  BY <2>1, <2>3, <2>4, StepCases
<1> QED  BY <1>1, RegistrationInvariant, PTL DEF Spec, StayingMembersUntouched

(* A handover promotes only an instance with every transaction the retiring *)
(* MAIN had when SHOW REPLICATION LAG was read, unless the coordinators     *)
(* intervened or the instance then held transactions the MAIN never saw.    *)
THEOREM HandoverKeepsWrites == Spec => HandoverKeepsProvenWrites
<1> DEFINE Kept ==
      (pc = "run" /\ Promoting /\ Current.id # None /\ main = None /\ main' # None /\ ~ disturbed')
        => main' \in pass.diverged \/ pass.proven \subseteq held[main']
<1>1. RegistrationInv /\ [Next]_vars => [Kept]_vars
  <2> SUFFICES ASSUME RegistrationInv, [Next]_vars, pc = "run", Promoting, Current.id # None, main = None,
                      main' # None, ~ disturbed'
               PROVE  main' \in pass.diverged \/ pass.proven \subseteq held[main']
    OBVIOUS
  <2>0. PassType /\ PlanFormed /\ CandidatesHold
    BY DEF RegistrationInv
  <2>1. ~ Outside
    BY OutsideFacts
  <2>2. ~ (BeginPass \/ Observe \/ Planned \/ ShedCoordinators \/ ShedData \/ Crash)
    BY DEF BeginPass, Observe, Planned, ShedCoordinators, ShedData, Crash, clusterVars
  <2>3. Queried
    BY <2>1, <2>2, StepCases
  <2>4. Accepts(Current.op, Target) /\ Effect(Current.op, Target)
    BY <2>3, QueriedEffect DEF Unmoved
  <2>5. Current \in pass.plan /\ Current.op = "SetInstanceToMain" /\ Current.op \in CommandOps
    BY <2>0, CurrentFacts DEF Promoting
  <2>6. main' = Target
    BY <2>4, <2>5, EffectFacts DEF Promote
  <2>7. Target \in Current.candidates \cup {Current.id}
    BY <2>0, CurrentFacts DEF CandidatesLeft
  <2>8. ~ disturbed
    BY <2>3, QueriedCases
  <2> QED  BY <2>0, <2>5, <2>6, <2>7, <2>8 DEF CandidatesHold
<1> QED  BY <1>1, RegistrationInvariant, PTL DEF Spec, HandoverKeepsProvenWrites

(* shedRetiredPods and applyDesired lower a replica count only past members *)
(* that have left the cluster.                                              *)
THEOREM ShedsOnlyRetired == Spec => ShedOnlyRetired
<1> DEFINE Kept ==
      /\ \A c \in running'.coordinators .. running.coordinators - 1 : c \notin Joined
      /\ \A d \in running'.data .. running.data - 1 : d \notin Registered
<1>1. RegistrationInv /\ [Next]_vars => [Kept]_vars
  <2> SUFFICES ASSUME RegistrationInv, [Next]_vars PROVE Kept
    OBVIOUS
  <2>0. /\ ClusterType /\ PassType /\ ShedInv
        /\ running \in [coordinators : {0} \cup CoordinatorCounts, data : {0} \cup DataCounts]
    BY DEF RegistrationInv, ClusterType, Counts
  <2>1. running.coordinators \in Nat /\ running.data \in Nat
    BY <2>0, OrdinalFacts
  <2>2. ASSUME NEW n \in Nat, NEW m \in Nat, n >= m PROVE n .. m - 1 = {}
    BY <2>2
  <2>3. ASSUME UNCHANGED running PROVE Kept
    BY <2>1, <2>2, <2>3
  <2>4. CASE BeginPass
    <3>1. /\ spec.coordinators \in CoordinatorCounts /\ running.coordinators \in {0} \cup CoordinatorCounts
          /\ spec.data \in DataCounts /\ running.data \in {0} \cup DataCounts
      BY <2>0 DEF ClusterType, Counts
    <3>2. running' = [ coordinators |-> Larger(spec.coordinators, running.coordinators),
                       data         |-> Larger(spec.data, running.data) ]
      BY <2>4 DEF BeginPass
    <3>3. running'.coordinators \in Nat /\ running'.coordinators >= running.coordinators
      BY <2>1, <3>1, <3>2, LargerFacts, OrdinalFacts
    <3>4. running'.data \in Nat /\ running'.data >= running.data
      BY <2>1, <3>1, <3>2, LargerFacts, OrdinalFacts
    <3> QED  BY <2>1, <2>2, <3>3, <3>4
  <2>5. CASE ShedCoordinators
    <3>1. /\ pc = "shed"
          /\ running' = IF pass.topology.retiringCoordinators = {} THEN running
                        ELSE [running EXCEPT !.coordinators = Cardinality(pass.topology.coordinators)]
      BY <2>5 DEF ShedCoordinators
    <3>2. CASE pass.topology.retiringCoordinators = {}
      BY <2>3, <3>1, <3>2
    <3>3. CASE pass.topology.retiringCoordinators # {}
      <4>1. running'.coordinators = Cardinality(pass.topology.coordinators) /\ running'.data = running.data
        BY <2>0, <3>1, <3>3
      <4>2. pass.topology.retiringCoordinators = Cardinality(pass.topology.coordinators) .. running.coordinators - 1
        BY <2>0, <3>1 DEF PassType, Split
      <4>3. pass.topology.retiringCoordinators \cap Joined = {}
        BY <2>0, <3>1 DEF ShedInv
      <4> QED  BY <2>1, <2>2, <4>1, <4>2, <4>3
    <3> QED  BY <3>2, <3>3
  <2>6. CASE ShedData
    <3>1. /\ pc = "shed data"
          /\ running' = IF pass.topology.retiringDataInstances = {} THEN running
                        ELSE [running EXCEPT !.data = Cardinality(pass.topology.dataInstances)]
      BY <2>6 DEF ShedData
    <3>2. CASE pass.topology.retiringDataInstances = {}
      BY <2>3, <3>1, <3>2
    <3>3. CASE pass.topology.retiringDataInstances # {}
      <4>1. running'.data = Cardinality(pass.topology.dataInstances) /\ running'.coordinators = running.coordinators
        BY <2>0, <3>1, <3>3
      <4>2. pass.topology.retiringDataInstances = Cardinality(pass.topology.dataInstances) .. running.data - 1
        BY <2>0, <3>1 DEF PassType, Split
      <4>3. pass.topology.retiringDataInstances \cap Registered = {}
        BY <2>0, <3>1 DEF ShedInv
      <4> QED  BY <2>1, <2>2, <4>1, <4>2, <4>3
    <3> QED  BY <3>2, <3>3
  <2>7. CASE Outside \/ Observe \/ Planned \/ Queried \/ Crash
    BY <2>3, <2>7, OutsideFacts, QueriedCases DEF Observe, Planned, Crash, k8sVars
  <2> QED  BY <2>4, <2>5, <2>6, <2>7, StepCases
<1> QED  BY <1>1, RegistrationInvariant, PTL DEF Spec, ShedOnlyRetired
=============================================================================
