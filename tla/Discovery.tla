------------------------------ MODULE Discovery -----------------------------
(***************************************************************************)
(* How a pass finds the coordinator leader: observeCluster walks the       *)
(* coordinators in ordinal order and takes the first view that names a     *)
(* leader it can reach, while Raft elects, members crash and join, and     *)
(* calls fail in between.                                                  *)
(*                                                                         *)
(* A coordinator that never joined is the leader of a Raft cluster of its  *)
(* own; one that lost its leader, or was removed, answers from its own     *)
(* state machine without naming any; a follower forwards the question.     *)
(*                                                                         *)
(* Abstractions: a view is the number of Raft writes it shows and who it   *)
(* names as leader; Raft itself is its leader, its members and how far     *)
(* each one's state machine is; a leader without a quorum steps down       *)
(* before another is elected.  Coordinators keep their volumes.            *)
(***************************************************************************)
EXTENDS Integers, FiniteSets

CONSTANTS
  Replicas,   \* how many coordinators the operator runs
  Foreign,    \* coordinators a human added, beyond those ordinals
  Nobody,     \* no leader
  MaxWrites,  \* bound on Raft writes
  MaxFaults   \* bound on crashes, lost calls and given-up leaderships

ASSUME ReplicasAssumption == Replicas \in Nat \ {0}
ASSUME ForeignAssumption  == IsFiniteSet(Foreign) /\ Foreign \cap Nat = {}
ASSUME NobodyAssumption   == Nobody \notin Foreign \cup Nat
ASSUME BoundsAssumption   == {MaxWrites, MaxFaults} \subseteq Nat

Endpoints    == 0 .. Replicas - 1
Coordinators == Endpoints \cup Foreign

VARIABLES
  up,         \* the coordinators that run
  members,    \* the members of the cluster's Raft configuration
  fresh,      \* the coordinators that never joined it
  leader,     \* its leader, or Nobody
  version,    \* the Raft writes committed
  local,      \* how many of them each coordinator's state machine has
  announced,  \* the foreign coordinators whose row carries a Bolt address
  pass,       \* the walk of the operator's pass
  steady,     \* the members up ever since the pass began, under one leader
  budget      \* what is left of every bound

raftVars == <<up, members, fresh, leader, version, local, announced>>
vars == <<raftVars, pass, steady, budget>>

-----------------------------------------------------------------------------
Spend(kind) == budget[kind] > 0 /\ budget' = [budget EXCEPT ![kind] = @ - 1]

Majority(S) == 2 * Cardinality(S \cap members) > Cardinality(members)

(* What SHOW INSTANCES on coordinator c shows: a fresh coordinator its own  *)
(* cluster, a member with a leader the leader's view, anyone else its own   *)
(* state machine.                                                           *)
View(c) ==
  IF c \in fresh THEN [leader |-> c, version |-> 0, own |-> TRUE]
  ELSE IF c \in members /\ leader # Nobody
       THEN [leader |-> leader, version |-> version, own |-> FALSE]
       ELSE [leader |-> Nobody, version |-> local[c], own |-> FALSE]

NoView == [leader |-> Nobody, version |-> 0, own |-> FALSE]

-----------------------------------------------------------------------------
(* Raft and the coordinators *)

Crash(c) ==
  /\ c \in up
  /\ Spend("faults")
  /\ up' = up \ {c}
  /\ leader' = IF c = leader \/ ~ Majority(up') THEN Nobody ELSE leader
  /\ steady' = IF leader' = leader THEN steady \ {c} ELSE {}
  /\ UNCHANGED <<members, fresh, version, local, announced, pass>>

Recover(c) ==
  /\ c \in Coordinators \ up
  /\ up' = up \cup {c}
  /\ UNCHANGED <<members, fresh, leader, version, local, announced, pass, steady, budget>>

(* Raft elects a member that has every write. *)
Elect(c) ==
  /\ leader = Nobody
  /\ c \in members \cap up /\ local[c] = version
  /\ Majority(up)
  /\ leader' = c
  /\ steady' = {}
  /\ UNCHANGED <<up, members, fresh, version, local, announced, pass, budget>>

(* A leader that gives up leadership, asked to or because it is slow. *)
Yield ==
  /\ leader # Nobody
  /\ Spend("faults")
  /\ leader' = Nobody
  /\ steady' = {}
  /\ UNCHANGED <<up, members, fresh, version, local, announced, pass>>

CatchUp(c) ==
  /\ c \in members \cap up /\ leader # Nobody /\ local[c] < version
  /\ local' = [local EXCEPT ![c] = version]
  /\ UNCHANGED <<up, members, fresh, leader, version, announced, pass, steady, budget>>

(* A write through the leader: a majority of the members in M has it. *)
Commit(M, joining) ==
  /\ leader # Nobody
  /\ Spend("writes")
  /\ members' = M
  /\ version' = version + 1
  /\ \E Q \in SUBSET (up \cap M) :
       /\ leader \in Q /\ 2 * Cardinality(Q) > Cardinality(M)
       /\ local' = [c \in Coordinators |-> IF c \in Q THEN version + 1 ELSE local[c]]
  /\ fresh' = fresh \ joining
  /\ UNCHANGED <<up, leader, announced>>

(* A human adds a coordinator of their own. *)
AddForeign(c) ==
  /\ c \in (Foreign \cap fresh) \cap up
  /\ Commit(members \cup {c}, {c})
  /\ UNCHANGED <<pass, steady>>

-----------------------------------------------------------------------------
(* The pass *)

NoPass == [pc |-> "idle", next |-> 0, from |-> 0, view |-> NoView, leaderless |-> FALSE]

BeginPass ==
  /\ pass.pc \in {"idle", "found", "no leader", "no answer"}
  /\ pass' = [NoPass EXCEPT !.pc = "ask", !.from = version]
  /\ steady' = IF leader = Nobody THEN {} ELSE members \cap up
  /\ UNCHANGED <<raftVars, budget>>

(* Mutant: the coordinators are asked from the highest ordinal down. *)
AskedLast(n) == Replicas - 1 - n

(* The n-th coordinator asked. *)
Asked(n) == n

(* Mutant: one coordinator too many is asked. *)
ContinuePastLast(leaderless) ==
  pass' = [pass EXCEPT !.view = NoView, !.leaderless = leaderless, !.next = @ + 1,
                       !.pc = IF pass.next <= Replicas THEN "ask"
                              ELSE IF leaderless THEN "no leader" ELSE "no answer"]

(* The walk goes on to the next coordinator, or is over. *)
Continue(leaderless) ==
  pass' = [pass EXCEPT !.view = NoView, !.leaderless = leaderless, !.next = @ + 1,
                       !.pc = IF pass.next + 1 < Replicas THEN "ask"
                              ELSE IF leaderless THEN "no leader" ELSE "no answer"]

Found(view) == pass' = [pass EXCEPT !.pc = "found", !.view = view]

(* Mutant: a view that names no leader is as good as the leader's own. *)
UsesLeaderlessView(c, view) == view.leader \in {c, Nobody}

(* A coordinator that names itself is used directly. *)
NamesItself(c, view) == view.leader = c

(* showInstances on the next coordinator, and what its answer calls for. *)
Ask ==
  LET c    == Asked(pass.next)
      view == View(c)
  IN  /\ pass.pc = "ask"
      /\ \/ /\ c \notin up
            /\ Continue(pass.leaderless)
         \/ /\ c \in up /\ NamesItself(c, view)
            /\ Found(view)
         \/ /\ c \in up /\ ~ NamesItself(c, view) /\ view.leader = Nobody
            /\ Continue(TRUE)
         \/ /\ c \in up /\ ~ NamesItself(c, view) /\ view.leader # Nobody
            /\ pass' = [pass EXCEPT !.pc = "connect", !.view = view]
      /\ UNCHANGED <<raftVars, steady, budget>>

(* Mutant: only the pods' own addresses are known. *)
EndpointsOnly(name) == name \in Endpoints

(* leaderAddress: the pod's address, or the one the view announces. *)
leaderAddress(name) == name \in Endpoints \cup announced

(* The connection the mutating commands need, on the leader itself; the     *)
(* follower's view is kept.                                                 *)
ConnectLeader ==
  /\ pass.pc = "connect"
  /\ IF leaderAddress(pass.view.leader) /\ pass.view.leader \in up
     THEN Found(pass.view)
     ELSE Continue(pass.leaderless)
  /\ UNCHANGED <<raftVars, steady, budget>>

(* A call that times out although the coordinator runs. *)
LoseCall ==
  /\ pass.pc \in {"ask", "connect"}
  /\ Spend("faults")
  /\ Continue(pass.leaderless)
  /\ steady' = {}
  /\ UNCHANGED raftVars

(* What the commands of the pass do to the Raft configuration: they add the *)
(* lowest coordinator missing from it, fresh or removed before, or remove   *)
(* the highest, which retires, unless it leads.  At least one is declared.  *)
RunCommands ==
  /\ pass.pc = "found" /\ ~ pass.view.own
  /\ \/ \E c \in (Endpoints \ members) \cap up :
          /\ \A d \in Endpoints \ members : c <= d
          /\ Commit(members \cup {c}, {c})
     \/ \E c \in (members \cap Endpoints) \ {leader, 0} :
          /\ \A d \in members \cap Endpoints : d <= c
          /\ Commit(members \ {c}, {})
  /\ pass' = NoPass
  /\ steady' = {}

-----------------------------------------------------------------------------
(* Coordinator 0 starts as the one-member cluster the others will join. *)
Init ==
  /\ up = Coordinators
  /\ members = {0} /\ leader = 0 /\ fresh = Coordinators \ {0}
  /\ version = 0 /\ local = [c \in Coordinators |-> 0]
  /\ announced \in SUBSET Foreign
  /\ pass = NoPass
  /\ steady = {}
  /\ budget = [writes |-> MaxWrites, faults |-> MaxFaults]

PassStep == BeginPass \/ Ask \/ ConnectLeader \/ RunCommands

Raft ==
  \/ Yield \/ LoseCall
  \/ \E c \in Coordinators :
       Crash(c) \/ Recover(c) \/ Elect(c) \/ CatchUp(c) \/ AddForeign(c)

Next == PassStep \/ Raft

(* Passes are requeued for ever; crashed coordinators restart, and Raft     *)
(* elects once a majority is up.  Crashes and lost calls are bounded.       *)
Spec ==
  /\ Init /\ [][Next]_vars
  /\ WF_vars(PassStep)
  /\ \A c \in Coordinators : WF_vars(Recover(c)) /\ WF_vars(CatchUp(c))
  /\ WF_vars(\E c \in Coordinators : Elect(c))

-----------------------------------------------------------------------------
(* Properties *)

(* Type correctness; the leader is a running member with every write and a  *)
(* majority up.                                                             *)
TypeOK ==
  /\ up \subseteq Coordinators /\ members \subseteq Coordinators
  /\ fresh \subseteq Coordinators \ members
  /\ leader \in (members \cap up) \cup {Nobody}
  /\ leader # Nobody => local[leader] = version /\ Majority(up)
  /\ local \in [Coordinators -> 0 .. version]
  /\ announced \subseteq Foreign /\ steady \subseteq members \cap up
  /\ pass \in [pc : {"idle", "ask", "connect", "found", "no leader", "no answer"},
               next : 0 .. Replicas, from : 0 .. version, leaderless : BOOLEAN,
               view : [leader : Coordinators \cup {Nobody}, version : 0 .. version,
                       own : BOOLEAN]]
  /\ budget \in [writes : Nat, faults : Nat]

(* "it then answers from its own state machine, which can be arbitrarily    *)
(* stale": a view the planner is given never misses a Raft write that was   *)
(* committed before the pass began, whichever coordinators crashed, lost    *)
(* their leader or were removed while the pass walked past them.            *)
ViewIsCurrent ==
  pass.pc = "found" /\ ~ pass.view.own => pass.view.version >= pass.from

(* The coordinator the walk should have ended at: the leader, up throughout *)
(* the pass, at an address the operator has, asked itself or known to a     *)
(* member asked that was up throughout the pass too.                        *)
Reachable ==
  /\ leader \in steady
  /\ leader \in Endpoints \/ (leader \in announced /\ steady \cap Endpoints # {})

(* A pass that runs beside a steady leader finds it: it never reports that  *)
(* no coordinator leads or answers, and never plans against the one-member  *)
(* cluster a fresh coordinator of a scale-up leads, although that one names *)
(* itself leader as well.                                                   *)
FindsSteadyLeader ==
  pass.pc \in {"found", "no leader", "no answer"} /\ Reachable =>
    pass.pc = "found" /\ ~ pass.view.own /\ pass.view.leader = leader

(* Once the crashes stop, passes find the leader again and again, unless it *)
(* is a coordinator no address is known of.                                 *)
Discovers ==
  []<>(pass.pc = "found" /\ ~ pass.view.own) \/ <>[](leader \in Foreign \ announced)
=============================================================================
