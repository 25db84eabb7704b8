--------------------------- MODULE DiscoveryProofs --------------------------
(***************************************************************************)
(* The safety invariants of Discovery, for every number of coordinators,   *)
(* of foreign ones, of writes and of faults: its types, that the view a    *)
(* pass plans with is current, and that the walk finds a steady leader.    *)
(***************************************************************************)
EXTENDS Discovery, FiniteSetTheorems, TLAPS

-----------------------------------------------------------------------------
(* The inductive invariants *)

(* A coordinator is left to be asked, or connected through. *)
WalkBounded == pass.pc \in {"ask", "connect"} => pass.next < Replicas

TypeInv == TypeOK /\ version \in Nat /\ WalkBounded

(* A view that names a leader other than its own cluster's was forwarded to *)
(* that leader in this pass.                                                *)
ForwardedView ==
  /\ pass.pc = "connect" => ~ pass.view.own /\ pass.view.version >= pass.from
  /\ ViewIsCurrent

(* Coordinators join in the order of their ordinals and retire from the     *)
(* highest: no fresh one is asked before a member.                          *)
FreshAreLast ==
  \A m \in members \cap Endpoints, c \in fresh \cap Endpoints : m < c

(* The leader of the members that were up throughout the pass. *)
SteadyHasLeader == steady # {} => leader # Nobody

(* The view in hand names the steady leader. *)
ViewNamesLeader == pass.pc = "connect" /\ steady # {} => pass.view.leader = leader

(* The steady leader at an address the operator has. *)
LeaderInReach == leader \in steady /\ leader \in Endpoints \cup announced

(* The walk has not passed a steady member while its leader was in reach. *)
NonePassedBy ==
  pass.pc \in {"ask", "connect"} /\ LeaderInReach =>
    \A n \in Endpoints : n < pass.next => n \notin steady

WalkInv ==
  /\ TypeInv
  /\ ForwardedView
  /\ FreshAreLast
  /\ SteadyHasLeader
  /\ ViewNamesLeader
  /\ NonePassedBy
  /\ FindsSteadyLeader

-----------------------------------------------------------------------------
(* Lemmas on the operators *)

Views == [leader : Coordinators \cup {Nobody}, version : 0 .. version, own : BOOLEAN]
Walks == [pc : {"idle", "ask", "connect", "found", "no leader", "no answer"},
          next : 0 .. Replicas, from : 0 .. version, leaderless : BOOLEAN, view : Views]

(* The coordinators are finitely many, coordinator 0 is one of them, and    *)
(* Nobody is none.                                                          *)
LEMMA CoordinatorFacts ==
  /\ IsFiniteSet(Coordinators) /\ Endpoints \subseteq Nat
  /\ 0 \in Endpoints /\ Nobody \notin Coordinators
<1>1. Endpoints \subseteq Nat /\ 0 \in Endpoints /\ Nobody \notin Coordinators
  BY ReplicasAssumption, NobodyAssumption DEF Endpoints, Coordinators
<1>2. IsFiniteSet(Endpoints)
  BY ReplicasAssumption, FS_Interval DEF Endpoints
<1> QED  BY <1>1, <1>2, ForeignAssumption, FS_Union DEF Coordinators

(* A majority stays one when more coordinators are up.                      *)
LEMMA MajorityGrows ==
  ASSUME TypeInv, NEW S, NEW T, S \subseteq T, Majority(S)
  PROVE  Majority(T)
<1>1. IsFiniteSet(members)
  BY CoordinatorFacts, FS_Subset DEF TypeInv, TypeOK
<1>2. IsFiniteSet(T \cap members) /\ S \cap members \subseteq T \cap members
  BY <1>1, FS_Subset
<1>3. Cardinality(S \cap members) <= Cardinality(T \cap members)
  BY <1>2, FS_Subset
<1>4. IsFiniteSet(S \cap members)
  BY <1>2, FS_Subset
<1>5. /\ Cardinality(S \cap members) \in Nat /\ Cardinality(T \cap members) \in Nat
      /\ Cardinality(members) \in Nat
  BY <1>1, <1>2, <1>4, FS_CardinalityType
<1> QED  BY <1>3, <1>5 DEF Majority

(* A spent bound stays a natural number.                                    *)
LEMMA SpendType ==
  ASSUME TypeInv, NEW kind \in {"writes", "faults"}, Spend(kind)
  PROVE  budget' \in [writes : Nat, faults : Nat]
<1>1. budget \in [writes : Nat, faults : Nat] /\ budget[kind] > 0 /\ budget' = [budget EXCEPT ![kind] = @ - 1]
  BY DEF TypeInv, TypeOK, Spend
<1>2. CASE kind = "writes"
  BY <1>1, <1>2
<1>3. CASE kind = "faults"
  BY <1>1, <1>3
<1> QED  BY <1>2, <1>3

(* A committed write leaves the leader with every write and a majority up.  *)
LEMMA CommitFacts ==
  ASSUME TypeInv, NEW M, M \subseteq Coordinators, leader \in M, NEW joining, Commit(M, joining)
  PROVE  /\ leader # Nobody /\ members' = M /\ fresh' = fresh \ joining
         /\ version' = version + 1
         /\ local' \in [Coordinators -> 0 .. version']
         /\ local'[leader] = version'
         /\ Majority(up)'
         /\ budget' \in [writes : Nat, faults : Nat]
         /\ UNCHANGED <<up, leader, announced>>
<1>1. /\ leader # Nobody /\ members' = M /\ fresh' = fresh \ joining
      /\ version' = version + 1 /\ UNCHANGED <<up, leader, announced>>
  BY DEF Commit
<1>2. budget' \in [writes : Nat, faults : Nat]
  BY SpendType DEF Commit
<1>3. PICK Q \in SUBSET (up \cap M) :
        /\ leader \in Q /\ 2 * Cardinality(Q) > Cardinality(M)
        /\ local' = [c \in Coordinators |-> IF c \in Q THEN version + 1 ELSE local[c]]
  BY DEF Commit
<1>4. local' \in [Coordinators -> 0 .. version']
  <2>1. version \in Nat /\ local \in [Coordinators -> 0 .. version]
    BY DEF TypeInv, TypeOK
  <2>2. \A c \in Coordinators : local[c] \in 0 .. version + 1 /\ version + 1 \in 0 .. version + 1
    BY <2>1
  <2> QED  BY <1>1, <1>3, <2>2
<1>5. local'[leader] = version'
  BY <1>1, <1>3
<1>6. IsFiniteSet(M) /\ IsFiniteSet(up \cap M) /\ IsFiniteSet(Q)
  <2>1. IsFiniteSet(M)
    BY CoordinatorFacts, FS_Subset
  <2>2. IsFiniteSet(up \cap M)
    BY <2>1, FS_Subset
  <2> QED  BY <2>1, <2>2, FS_Subset
<1>7. Cardinality(Q) <= Cardinality(up \cap M)
  BY <1>6, FS_Subset
<1>8. /\ Cardinality(Q) \in Nat /\ Cardinality(up \cap M) \in Nat
      /\ Cardinality(M) \in Nat
  BY <1>6, FS_CardinalityType
<1>9. Majority(up)'
  BY <1>1, <1>3, <1>7, <1>8 DEF Majority
<1> QED  BY <1>1, <1>2, <1>4, <1>5, <1>9

(* What a coordinator shows is a view.                                      *)
LEMMA ViewType ==
  ASSUME TypeInv, NEW c \in Coordinators
  PROVE  View(c) \in Views
<1>1. CASE c \in fresh
  <2>1. 0 \in 0 .. version
    BY DEF TypeInv
  <2> QED  BY <1>1, <2>1 DEF View, Views
<1>2. CASE c \notin fresh /\ c \in members /\ leader # Nobody
  BY <1>2 DEF View, Views, TypeInv, TypeOK
<1>3. CASE c \notin fresh /\ ~ (c \in members /\ leader # Nobody)
  BY <1>3 DEF View, Views, TypeInv, TypeOK
<1> QED  BY <1>1, <1>2, <1>3

(* A walk goes on with the next coordinator while there is one, and without *)
(* a view; otherwise it has found no leader or no answer.                   *)
LEMMA ContinueFacts ==
  ASSUME TypeInv, NEW leaderless \in BOOLEAN, pass.pc \in {"ask", "connect"}, Continue(leaderless)
  PROVE  /\ pass' \in Walks
         /\ pass'.next = pass.next + 1
         /\ pass'.pc = IF pass.next + 1 < Replicas THEN "ask"
                       ELSE IF leaderless THEN "no leader" ELSE "no answer"
<1>1. pass \in Walks /\ pass.next \in 0 .. Replicas /\ pass.next < Replicas /\ version \in Nat
  BY DEF TypeInv, TypeOK, Walks, Views, WalkBounded
<1>2. pass.next + 1 \in 0 .. Replicas
  BY <1>1, ReplicasAssumption
<1>3. NoView \in Views
  BY <1>1 DEF NoView, Views
<1>4. pass'.next = pass.next + 1
  BY <1>1 DEF Continue, Walks
<1>5. pass'.pc = IF pass.next + 1 < Replicas THEN "ask"
                ELSE IF leaderless THEN "no leader" ELSE "no answer"
  BY <1>1 DEF Continue, Walks
<1>6. pass' \in Walks
  BY <1>1, <1>2, <1>3 DEF Continue, Walks
<1> QED  BY <1>4, <1>5, <1>6

(* The leader a walk has found is the one its view names.                   *)
LEMMA FoundFacts ==
  ASSUME TypeInv, NEW view \in Views, NEW pc \in {"connect", "found"},
         pass' = [pass EXCEPT !.pc = pc, !.view = view]
  PROVE  /\ pass' \in Walks
         /\ pass'.pc = pc /\ pass'.view = view
         /\ pass'.next = pass.next /\ pass'.from = pass.from
<1>1. pass \in Walks
  BY DEF TypeInv, TypeOK, Walks, Views
<1> QED  BY <1>1 DEF Walks

-----------------------------------------------------------------------------
(* Types *)

(* Discovery starts well typed.                                             *)
LEMMA TypeInit == Init => TypeInv
<1> SUFFICES ASSUME Init PROVE TypeInv
  OBVIOUS
<1>1. 0 \in Coordinators /\ 0 # Nobody
  BY CoordinatorFacts DEF Coordinators
<1>2. Majority(up)
  <2>1. up \cap members = {0} /\ members = {0}
    BY <1>1 DEF Init
  <2>2. Cardinality({0}) = 1
    BY FS_Singleton
  <2> QED  BY <2>1, <2>2 DEF Majority
<1>3. pass \in Walks /\ pass.pc = "idle"
  BY ReplicasAssumption DEF Init, NoPass, NoView, Walks, Views
<1>4. budget \in [writes : Nat, faults : Nat]
  BY BoundsAssumption DEF Init
<1>5. leader # Nobody => local[leader] = version
  BY <1>1 DEF Init
<1>6. local \in [Coordinators -> 0 .. version]
  BY DEF Init
<1>7. /\ up \subseteq Coordinators /\ members \subseteq Coordinators /\ version \in Nat
      /\ fresh \subseteq Coordinators \ members /\ leader \in (members \cap up) \cup {Nobody}
      /\ announced \subseteq Foreign /\ steady \subseteq members \cap up
  BY <1>1 DEF Init
<1>8. TypeOK
  BY <1>2, <1>3, <1>4, <1>5, <1>6, <1>7 DEF TypeOK, Walks, Views
<1> QED  BY <1>3, <1>7, <1>8 DEF TypeInv, WalkBounded

(* Every step keeps the types, the leader's majority included.              *)
LEMMA TypeStep == TypeInv /\ [Next]_vars => TypeInv'
<1> SUFFICES ASSUME TypeInv, [Next]_vars PROVE TypeInv'
  OBVIOUS
<1> USE DEF raftVars
<1>t. pass \in Walks
  BY DEF TypeInv, TypeOK, Walks, Views
<1>z. 0 \in 0 .. Replicas
  BY ReplicasAssumption
<1>1. ASSUME NEW c \in Coordinators, Crash(c) PROVE TypeInv'
  <2>1. /\ up' = up \ {c} /\ leader' \in {leader, Nobody}
        /\ leader' = leader /\ leader # Nobody => c # leader /\ Majority(up')
        /\ steady' \subseteq steady /\ c \notin steady'
        /\ UNCHANGED <<members, fresh, version, local, announced, pass>>
    BY <1>1 DEF Crash
  <2>2. budget' \in [writes : Nat, faults : Nat]
    BY <1>1, SpendType DEF Crash
  <2>3. leader' # Nobody => Majority(up)'
    BY <2>1 DEF Majority
  <2> QED  BY <2>1, <2>2, <2>3 DEF TypeInv, TypeOK, WalkBounded
<1>2. ASSUME NEW c \in Coordinators, Recover(c) PROVE TypeInv'
  <2>1. up' = up \cup {c} /\ UNCHANGED <<members, fresh, leader, version, local, announced, pass, steady, budget>>
    BY <1>2 DEF Recover
  <2>2. Majority(up) => Majority(up')
    BY <2>1, MajorityGrows
  <2>3. leader' # Nobody => Majority(up)'
    BY <2>1, <2>2 DEF TypeInv, TypeOK, Majority
  <2> QED  BY <2>1, <2>3 DEF TypeInv, TypeOK, WalkBounded
<1>3. ASSUME NEW c \in Coordinators, Elect(c) PROVE TypeInv'
  BY <1>3 DEF Elect, TypeInv, TypeOK, WalkBounded, Majority
<1>4. CASE Yield
  <2>1. budget' \in [writes : Nat, faults : Nat]
    BY <1>4, SpendType DEF Yield
  <2> QED  BY <1>4, <2>1 DEF Yield, TypeInv, TypeOK, WalkBounded
<1>5. ASSUME NEW c \in Coordinators, CatchUp(c) PROVE TypeInv'
  <2>1. local' \in [Coordinators -> 0 .. version] /\ (leader # Nobody => local'[leader] = version)
    BY <1>5 DEF CatchUp, TypeInv, TypeOK
  <2> QED  BY <1>5, <2>1 DEF CatchUp, TypeInv, TypeOK, WalkBounded, Majority
<1>6. ASSUME NEW M, M \subseteq Coordinators, leader \in M, NEW joining, Commit(M, joining),
             fresh \cap M \subseteq joining, pass' \in {pass, NoPass},
             steady' = {} \/ (steady' = steady /\ members \subseteq M)
      PROVE  TypeInv'
  <2>1. /\ leader # Nobody /\ members' = M /\ fresh' = fresh \ joining
        /\ version' = version + 1 /\ local' \in [Coordinators -> 0 .. version']
        /\ local'[leader] = version' /\ Majority(up)'
        /\ budget' \in [writes : Nat, faults : Nat]
        /\ UNCHANGED <<up, leader, announced>>
    BY <1>6, CommitFacts
  <2>a. version \in Nat /\ 0 .. version \subseteq 0 .. version' /\ 0 \in 0 .. version'
    BY <2>1 DEF TypeInv
  <2>b. \A view \in Views : view \in Views'
    BY <2>a DEF Views
  <2>c. pass \in Walks'
    BY <1>t, <2>a, <2>b DEF Walks
  <2>d. NoView \in Views'
    BY <2>a DEF Views, NoView
  <2>e. NoPass \in Walks'
    BY <2>a, <2>d, <1>z DEF Walks, NoPass
  <2>2. pass \in Walks' /\ NoPass \in Walks' /\ NoPass.pc = "idle"
    BY <2>c, <2>e DEF NoPass
  <2>3. pass' \in Walks' /\ WalkBounded'
    BY <1>6, <2>2 DEF TypeInv, WalkBounded
  <2>4. fresh' \subseteq Coordinators \ members'
    BY <1>6, <2>1 DEF TypeInv, TypeOK
  <2>5. leader' \in (members' \cap up') \cup {Nobody} /\ steady' \subseteq members' \cap up'
    BY <1>6, <2>1 DEF TypeInv, TypeOK
  <2>6. version' \in Nat /\ up' \subseteq Coordinators /\ announced' \subseteq Foreign
    <3>1. version' \in Nat
      BY <2>1, <2>a
    <3>2. up \subseteq Coordinators /\ announced \subseteq Foreign
      BY DEF TypeInv, TypeOK
    <3> QED  BY <2>1, <3>1, <3>2
  <2>7. TypeOK'
    BY <1>6, <2>1, <2>3, <2>4, <2>5, <2>6 DEF TypeOK, Walks, Views
  <2> QED  BY <2>3, <2>6, <2>7 DEF TypeInv
<1>7. ASSUME NEW c \in Coordinators, AddForeign(c) PROVE TypeInv'
  <2>1. Commit(members \cup {c}, {c}) /\ UNCHANGED <<pass, steady>>
    BY <1>7 DEF AddForeign
  <2>2. members \cup {c} \subseteq Coordinators /\ leader \in members \cup {c}
        /\ fresh \cap (members \cup {c}) \subseteq {c}
    BY <2>1 DEF TypeInv, TypeOK, Commit
  <2> QED  BY <1>6, <2>1, <2>2
<1>8. CASE RunCommands
  <2>1. pass' = NoPass /\ steady' = {}
    BY <1>8 DEF RunCommands
  <2>2. ASSUME NEW c \in (Endpoints \ members) \cap up, Commit(members \cup {c}, {c}) PROVE TypeInv'
    <3>1. members \cup {c} \subseteq Coordinators /\ leader \in members \cup {c}
          /\ fresh \cap (members \cup {c}) \subseteq {c}
      BY <2>2 DEF TypeInv, TypeOK, Commit
    <3> QED  BY <1>6, <2>1, <2>2, <3>1
  <2>3. ASSUME NEW c \in (members \cap Endpoints) \ {leader, 0}, Commit(members \ {c}, {}) PROVE TypeInv'
    <3>1. members \ {c} \subseteq Coordinators /\ leader \in members \ {c}
          /\ fresh \cap (members \ {c}) \subseteq {}
      BY <2>3 DEF TypeInv, TypeOK, Commit
    <3> QED  BY <1>6, <2>1, <2>3, <3>1
  <2> QED  BY <1>8, <2>2, <2>3 DEF RunCommands
<1>9. ASSUME pass' \in Walks, WalkBounded', UNCHANGED raftVars, budget' \in [writes : Nat, faults : Nat],
             steady' \subseteq members \cap up
      PROVE  TypeInv'
  BY <1>9 DEF TypeInv, TypeOK, Walks, Views, Majority
<1>10. CASE BeginPass
  <2>1. pass' = [NoPass EXCEPT !.pc = "ask", !.from = version]
        /\ UNCHANGED <<raftVars, budget>> /\ steady' \subseteq members \cap up
    BY <1>10 DEF BeginPass
  <2>a. version \in 0 .. version /\ 0 \in 0 .. version
    BY DEF TypeInv
  <2>b. NoView \in Views
    BY <2>a DEF NoView, Views
  <2>c. pass' = [pc |-> "ask", next |-> 0, from |-> version, view |-> NoView, leaderless |-> FALSE]
    BY <2>1 DEF NoPass
  <2>2. pass' \in Walks /\ pass'.next = 0
    BY <1>z, <2>a, <2>b, <2>c DEF Walks
  <2>3. WalkBounded'
    BY <2>2, ReplicasAssumption DEF WalkBounded
  <2> QED  BY <1>9, <2>1, <2>2, <2>3 DEF TypeInv, TypeOK
<1>11. ASSUME NEW l \in BOOLEAN, Continue(l), pass.pc \in {"ask", "connect"}
       PROVE  pass' \in Walks /\ WalkBounded'
  BY <1>11, ContinueFacts DEF WalkBounded
<1>12. ASSUME NEW view \in Views, NEW pc \in {"connect", "found"}, pass.pc \in {"ask", "connect"},
              pass' = [pass EXCEPT !.pc = pc, !.view = view]
       PROVE  pass' \in Walks /\ WalkBounded'
  BY <1>12, FoundFacts DEF WalkBounded, TypeInv
<1>13. CASE Ask
  <2>1. pass.pc = "ask" /\ UNCHANGED <<raftVars, steady, budget>>
    BY <1>13 DEF Ask
  <2>2. pass.next \in Coordinators
    <3>1. pass.next \in 0 .. Replicas /\ pass.next < Replicas
      BY <1>t, <2>1 DEF TypeInv, WalkBounded, Walks
    <3> QED  BY <3>1, ReplicasAssumption DEF Coordinators, Endpoints
  <2>3. View(pass.next) \in Views
    BY <2>2, ViewType
  <2>4. \/ \E l \in BOOLEAN : Continue(l)
        \/ \E pc \in {"connect", "found"} : pass' = [pass EXCEPT !.pc = pc, !.view = View(pass.next)]
    <3> HIDE DEF View
    <3> QED  BY <1>13, <1>t DEF Ask, Asked, Found, Walks
  <2>5. pass' \in Walks /\ WalkBounded'
    BY <1>11, <1>12, <2>1, <2>3, <2>4
  <2> QED  BY <1>9, <2>1, <2>5 DEF TypeInv, TypeOK
<1>14. CASE ConnectLeader
  <2>1. pass.pc = "connect" /\ UNCHANGED <<raftVars, steady, budget>>
        /\ (Continue(pass.leaderless) \/ Found(pass.view))
    BY <1>14 DEF ConnectLeader
  <2>2. pass.view \in Views /\ pass.leaderless \in BOOLEAN
    BY <1>t DEF Walks
  <2>3. pass' \in Walks /\ WalkBounded'
    BY <1>11, <1>12, <2>1, <2>2 DEF Found
  <2> QED  BY <1>9, <2>1, <2>3 DEF TypeInv, TypeOK
<1>15. CASE LoseCall
  <2>1. pass.pc \in {"ask", "connect"} /\ UNCHANGED raftVars /\ steady' = {} /\ Continue(pass.leaderless)
        /\ pass.leaderless \in BOOLEAN
    BY <1>15, <1>t DEF LoseCall, Walks
  <2>2. budget' \in [writes : Nat, faults : Nat]
    BY <1>15, SpendType DEF LoseCall
  <2> QED  BY <1>9, <1>11, <2>1, <2>2
<1>16. CASE UNCHANGED vars
  BY <1>16 DEF vars, TypeInv, TypeOK, WalkBounded, Majority
<1> QED
  BY <1>1, <1>2, <1>3, <1>4, <1>5, <1>7, <1>8, <1>10, <1>13, <1>14, <1>15, <1>16
     DEF Next, PassStep, Raft

(* Type correctness: the leader is a running member with every write and a  *)
(* majority up, through every crash, election and change of the members.    *)
THEOREM DiscoveryTypeCorrect == Spec => []TypeOK
<1>1. TypeInv => TypeOK
  BY DEF TypeInv
<1> QED  BY <1>1, TypeInit, TypeStep, PTL DEF Spec

-----------------------------------------------------------------------------
(* The view is current *)

(* A view names its own coordinator if that one is fresh, the leader if the *)
(* question was forwarded, and otherwise nobody.                            *)
LEMMA ViewFacts ==
  ASSUME TypeInv, NEW c \in Coordinators
  PROVE  /\ View(c).own => c \in fresh
         /\ ~ View(c).own /\ View(c).leader # Nobody =>
              c \in members /\ leader # Nobody /\ View(c).leader = leader /\ View(c).version = version
         /\ View(c).own => View(c).leader = c
         /\ View(c).leader = Nobody => c \notin members \/ leader = Nobody
<1>1. c # Nobody
  BY CoordinatorFacts
<1>2. CASE c \in fresh
  BY <1>1, <1>2 DEF View, TypeInv, TypeOK
<1>3. CASE c \notin fresh /\ c \in members /\ leader # Nobody
  BY <1>3 DEF View
<1>4. CASE c \notin fresh /\ ~ (c \in members /\ leader # Nobody)
  BY <1>4 DEF View
<1> QED  BY <1>2, <1>3, <1>4

(* What a step of a walk does: it ends or goes on past the coordinator it   *)
(* asked, takes the view of one that names itself, or takes one a member    *)
(* forwarded and then connects to the leader it names.                      *)
LEMMA AskFacts ==
  ASSUME TypeInv, Ask
  PROVE  LET c == pass.next IN
         /\ pass.pc = "ask" /\ c \in Endpoints /\ UNCHANGED <<raftVars, steady, budget>>
         /\ \/ /\ c \notin up \/ c \notin members \/ leader = Nobody
               /\ \E l \in BOOLEAN : Continue(l)
            \/ /\ pass' = [pass EXCEPT !.pc = "found", !.view = View(c)]
               /\ View(c).leader = c
            \/ /\ pass' = [pass EXCEPT !.pc = "connect", !.view = View(c)]
               /\ View(c).leader \notin {c, Nobody}
<1>1. pass \in Walks /\ pass.pc = "ask" /\ UNCHANGED <<raftVars, steady, budget>>
  BY DEF Ask, TypeInv, TypeOK, Walks, Views
<1>2. pass.next \in 0 .. Replicas /\ pass.next < Replicas /\ pass.leaderless \in BOOLEAN
  BY <1>1 DEF TypeInv, WalkBounded, Walks
<1>3. pass.next \in Endpoints /\ pass.next \in Coordinators
  BY <1>2, ReplicasAssumption DEF Endpoints, Coordinators
<1>4. View(pass.next).leader = Nobody => pass.next \notin members \/ leader = Nobody
  BY <1>3, ViewFacts
<1>5. \/ pass.next \notin up /\ Continue(pass.leaderless)
      \/ View(pass.next).leader = pass.next /\ Found(View(pass.next))
      \/ View(pass.next).leader = Nobody /\ Continue(TRUE)
      \/ /\ View(pass.next).leader \notin {pass.next, Nobody}
         /\ pass' = [pass EXCEPT !.pc = "connect", !.view = View(pass.next)]
  BY DEF Ask, Asked, NamesItself
<1> QED  BY <1>1, <1>2, <1>3, <1>4, <1>5 DEF Found

CurrentInv == TypeInv /\ ForwardedView

(* No step lets the pass use a view that a leader did not answer for.       *)
LEMMA CurrentStep == CurrentInv /\ [Next]_vars => CurrentInv'
<1> SUFFICES ASSUME CurrentInv, [Next]_vars PROVE ForwardedView'
  BY TypeStep DEF CurrentInv
<1>t. TypeInv /\ pass \in Walks
  BY DEF CurrentInv, TypeInv, TypeOK, Walks, Views
<1>1. CASE UNCHANGED pass
  BY <1>1 DEF CurrentInv, ForwardedView, ViewIsCurrent
<1>2. ASSUME pass'.pc \notin {"connect", "found"} PROVE ForwardedView'
  BY <1>2 DEF ForwardedView, ViewIsCurrent
<1>3. ASSUME NEW l \in BOOLEAN, Continue(l), pass.pc \in {"ask", "connect"} PROVE ForwardedView'
  BY <1>t, <1>2, <1>3, ContinueFacts
<1>4. CASE BeginPass \/ RunCommands
  <2>1. pass'.pc \in {"ask", "idle"}
    <3>1. CASE BeginPass
      BY <3>1 DEF BeginPass, NoPass
    <3>2. CASE RunCommands
      BY <3>2 DEF RunCommands, NoPass
    <3> QED  BY <1>4, <3>1, <3>2
  <2> QED  BY <1>2, <2>1
<1>5. CASE Ask
  <2> DEFINE c == pass.next
  <2>1. c \in Coordinators /\ View(c) \in Views
    BY <1>t, <1>5, AskFacts, ViewType DEF Coordinators
  <2>2. CASE \E l \in BOOLEAN : Continue(l)
    BY <1>3, <1>t, <1>5, <2>2, AskFacts
  <2>3. ASSUME NEW pc \in {"connect", "found"}, View(c).leader # Nobody,
               pc = "connect" => View(c).leader # c,
               pass' = [pass EXCEPT !.pc = pc, !.view = View(c)]
        PROVE  ForwardedView'
    <3>1. pass'.pc = pc /\ pass'.view = View(c) /\ pass'.from = pass.from
      BY <1>t, <2>1, <2>3, FoundFacts
    <3>2. ~ View(c).own => View(c).version >= pass.from
      <4>1. ~ View(c).own => View(c).version = version
        BY <1>t, <2>1, <2>3, ViewFacts
      <4>2. pass.from \in 0 .. version /\ version \in Nat
        BY <1>t DEF Walks, TypeInv
      <4> QED  BY <4>1, <4>2
    <3>3. pc = "connect" => ~ View(c).own
      BY <1>t, <2>1, <2>3, ViewFacts
    <3> QED  BY <3>1, <3>2, <3>3 DEF ForwardedView, ViewIsCurrent
  <2>4. c # Nobody
    BY <2>1, CoordinatorFacts
  <2> QED  BY <1>t, <1>5, <2>2, <2>3, <2>4, AskFacts
<1>6. CASE ConnectLeader
  <2>1. pass.pc = "connect" /\ (Continue(pass.leaderless) \/ Found(pass.view))
    BY <1>6 DEF ConnectLeader
  <2>2. pass.leaderless \in BOOLEAN /\ pass.view \in Views
    BY <1>t DEF Walks
  <2>3. CASE Found(pass.view)
    <3>1. pass'.pc = "found" /\ pass'.view = pass.view /\ pass'.from = pass.from
      BY <1>t, <2>2, <2>3, FoundFacts DEF Found
    <3> QED  BY <2>1, <3>1 DEF CurrentInv, ForwardedView, ViewIsCurrent
  <2> QED  BY <1>3, <2>1, <2>2, <2>3
<1>7. CASE LoseCall
  <2>1. pass.leaderless \in BOOLEAN
    BY <1>t DEF Walks
  <2> QED  BY <1>3, <1>7, <2>1 DEF LoseCall
<1>8. CASE Yield \/ UNCHANGED vars \/ \E c \in Coordinators :
             Crash(c) \/ Recover(c) \/ Elect(c) \/ CatchUp(c) \/ AddForeign(c)
  BY <1>1, <1>8 DEF Yield, Crash, Recover, Elect, CatchUp, AddForeign, vars
<1> QED  BY <1>4, <1>5, <1>6, <1>7, <1>8 DEF Next, PassStep, Raft

(* The view a pass plans with shows every Raft write that was committed     *)
(* before the pass began (observeCluster takes no view that names no        *)
(* leader).                                                                 *)
THEOREM PlansWithCurrentView == Spec => []ViewIsCurrent
<1>1. Init => CurrentInv
  BY TypeInit DEF CurrentInv, ForwardedView, ViewIsCurrent, Init, NoPass
<1>2. CurrentInv => ViewIsCurrent
  BY DEF CurrentInv, ForwardedView
<1> QED  BY <1>1, <1>2, CurrentStep, PTL DEF Spec

-----------------------------------------------------------------------------
(* The walk finds the steady leader *)

(* Members join from the lowest ordinal up and retire from the highest down *)
(* (RunCommands), and no other step lets one join at an ordinal.            *)
LEMMA FreshAreLastStep == TypeInv /\ FreshAreLast /\ [Next]_vars => FreshAreLast'
<1> SUFFICES ASSUME TypeInv, FreshAreLast, [Next]_vars PROVE FreshAreLast'
  OBVIOUS
<1> USE DEF raftVars
<1>1. CASE UNCHANGED <<members, fresh>>
  BY <1>1 DEF FreshAreLast
<1>2. ASSUME NEW c \in Coordinators, AddForeign(c) PROVE FreshAreLast'
  <2>1. c \in Foreign /\ members' = members \cup {c} /\ fresh' = fresh \ {c}
    BY <1>2 DEF AddForeign, Commit
  <2>2. c \notin Endpoints
    BY <2>1, ForeignAssumption, CoordinatorFacts
  <2> QED  BY <2>1, <2>2 DEF FreshAreLast
<1>3. CASE RunCommands
  <2>1. ASSUME NEW c \in Endpoints \ members, \A d \in Endpoints \ members : c <= d,
               Commit(members \cup {c}, {c})
        PROVE  FreshAreLast'
    <3>1. members' = members \cup {c} /\ fresh' = fresh \ {c}
      BY <2>1 DEF Commit
    <3>2. \A d \in fresh' \cap Endpoints : c < d
      <4>1. \A d \in fresh' \cap Endpoints : c <= d /\ c # d /\ c \in Nat /\ d \in Nat
        BY <2>1, <3>1, CoordinatorFacts DEF TypeInv, TypeOK
      <4> QED  BY <4>1
    <3> QED  BY <3>1, <3>2 DEF FreshAreLast
  <2>2. ASSUME NEW c, Commit(members \ {c}, {}) PROVE FreshAreLast'
    BY <2>2 DEF Commit, FreshAreLast
  <2> QED  BY <1>3, <2>1, <2>2 DEF RunCommands
<1>4. CASE BeginPass \/ Ask \/ ConnectLeader \/ Yield \/ LoseCall \/ UNCHANGED vars
  BY <1>1, <1>4 DEF BeginPass, Ask, ConnectLeader, Yield, LoseCall, vars
<1>5. ASSUME NEW c \in Coordinators, Crash(c) \/ Recover(c) \/ Elect(c) \/ CatchUp(c)
      PROVE  FreshAreLast'
  BY <1>1, <1>5 DEF Crash, Recover, Elect, CatchUp
<1> QED  BY <1>2, <1>3, <1>4, <1>5 DEF Next, PassStep, Raft

(* The parts of the invariant that are about the members up throughout the  *)
(* pass.                                                                    *)
SteadyInv == SteadyHasLeader /\ ViewNamesLeader /\ NonePassedBy /\ FindsSteadyLeader

(* A step of the coordinators ends the steadiness of some, or changes the   *)
(* leader and ends it for all.                                              *)
LEMMA CoordinatorsKeepSteady ==
  ASSUME SteadyInv, UNCHANGED <<pass, announced>>, steady' \subseteq steady,
         steady' # {} => leader' = leader
  PROVE  SteadyInv'
<1>1. CASE steady' = {}
  BY <1>1 DEF SteadyInv, SteadyHasLeader, ViewNamesLeader, NonePassedBy, LeaderInReach,
              FindsSteadyLeader, Reachable
<1>2. CASE leader' = leader /\ steady' # {}
  <2>1. LeaderInReach' => LeaderInReach
    BY <1>2 DEF LeaderInReach
  <2>2. Reachable' => Reachable
    BY <1>2 DEF Reachable
  <2>3. SteadyHasLeader' /\ ViewNamesLeader'
    BY <1>2 DEF SteadyInv, SteadyHasLeader, ViewNamesLeader
  <2>4. NonePassedBy'
    BY <2>1 DEF SteadyInv, NonePassedBy
  <2>5. FindsSteadyLeader'
    BY <1>2, <2>2 DEF SteadyInv, FindsSteadyLeader
  <2> QED  BY <2>3, <2>4, <2>5 DEF SteadyInv
<1> QED  BY <1>1, <1>2

(* A walk that goes on past a coordinator that is not a steady member, or   *)
(* whose leader is out of reach, leaves no steady member behind; one that   *)
(* ends that way had nobody to find.                                        *)
LEMMA ContinueKeepsSteady ==
  ASSUME WalkInv, NEW l \in BOOLEAN, Continue(l), pass.pc \in {"ask", "connect"},
         UNCHANGED <<raftVars, steady>>, LeaderInReach => pass.next \notin steady
  PROVE  SteadyInv'
<1> USE DEF raftVars
<1>1. /\ pass.next \in Nat /\ pass.next < Replicas /\ pass'.next = pass.next + 1
      /\ pass'.pc = IF pass.next + 1 < Replicas THEN "ask"
                    ELSE IF l THEN "no leader" ELSE "no answer"
  <2>1. TypeInv
    BY DEF WalkInv
  <2>2. pass.next \in 0 .. Replicas /\ pass.next < Replicas
    BY <2>1 DEF TypeInv, TypeOK, WalkBounded
  <2>3. pass.next \in Nat
    BY <2>2, ReplicasAssumption
  <2> QED  BY <2>1, <2>2, <2>3, ContinueFacts
<1>2. LeaderInReach' = LeaderInReach /\ Reachable' = Reachable
  BY DEF LeaderInReach, Reachable
<1>3. LeaderInReach => \A n \in Endpoints : n < pass.next + 1 => n \notin steady
  <2>1. \A n \in Endpoints : n < pass.next + 1 => n < pass.next \/ n = pass.next
    <3> TAKE n \in Endpoints
    <3>1. n \in Nat /\ pass.next \in Nat
      BY <1>1, CoordinatorFacts
    <3> QED  BY <3>1
  <2> QED  BY <2>1 DEF WalkInv, NonePassedBy
<1>4. SteadyHasLeader' /\ ViewNamesLeader'
  BY <1>1 DEF WalkInv, SteadyHasLeader, ViewNamesLeader
<1>5. NonePassedBy'
  BY <1>1, <1>2, <1>3 DEF NonePassedBy
<1>6. FindsSteadyLeader'
  <2>1. CASE pass.next + 1 < Replicas
    BY <1>1, <2>1 DEF FindsSteadyLeader
  <2>2. CASE ~ (pass.next + 1 < Replicas)
    <3>1. \A n \in Endpoints : n < pass.next + 1
      <4> TAKE n \in Endpoints
      <4>1. n \in 0 .. Replicas - 1 /\ pass.next \in Nat /\ Replicas \in Nat
        BY <1>1, ReplicasAssumption DEF Endpoints
      <4> QED  BY <2>2, <4>1
    <3>2. Reachable => LeaderInReach /\ steady \cap Endpoints # {}
      BY DEF Reachable, LeaderInReach
    <3> QED  BY <1>2, <1>3, <3>1, <3>2 DEF FindsSteadyLeader
  <2> QED  BY <2>1, <2>2
<1> QED  BY <1>4, <1>5, <1>6 DEF SteadyInv

(* A walk that ends at a coordinator that names itself has found the leader *)
(* of the steady members, if it was in reach: a fresh one comes after them. *)
LEMMA NamesItselfKeepsSteady ==
  ASSUME WalkInv, Ask, View(pass.next).leader = pass.next,
         pass' = [pass EXCEPT !.pc = "found", !.view = View(pass.next)]
  PROVE  SteadyInv'
<1> USE DEF raftVars
<1> DEFINE c == pass.next
<1>1. /\ TypeInv /\ pass.pc = "ask" /\ c \in Endpoints /\ c \in Coordinators
      /\ UNCHANGED <<raftVars, steady>> /\ c # Nobody
  BY AskFacts, CoordinatorFacts DEF WalkInv, Coordinators
<1>2. pass'.pc = "found" /\ pass'.view = View(c)
  BY <1>1, ViewType, FoundFacts
<1>3. Reachable' = Reachable
  BY <1>1 DEF Reachable
<1>4. SteadyHasLeader' /\ ViewNamesLeader' /\ NonePassedBy'
  BY <1>1, <1>2 DEF WalkInv, SteadyHasLeader, ViewNamesLeader, NonePassedBy
<1>5. View(c).own => ~ Reachable
  <2> SUFFICES ASSUME View(c).own, Reachable PROVE FALSE
    OBVIOUS
  <2>1. c \in fresh \cap Endpoints
    BY <1>1, ViewFacts
  <2>2. PICK m \in Endpoints : m \in steady
    BY DEF Reachable
  <2>3. m < c
    BY <1>1, <2>1, <2>2 DEF WalkInv, FreshAreLast, TypeInv, TypeOK
  <2>4. LeaderInReach
    BY DEF Reachable, LeaderInReach
  <2> QED  BY <1>1, <2>2, <2>3, <2>4 DEF WalkInv, NonePassedBy
<1>6. ~ View(c).own => View(c).leader = leader
  BY <1>1, ViewFacts
<1>7. FindsSteadyLeader'
  BY <1>1, <1>2, <1>3, <1>5, <1>6 DEF FindsSteadyLeader
<1> QED  BY <1>4, <1>7 DEF SteadyInv

(* Every step of the pass and of the coordinators keeps the walk's promise. *)
LEMMA SteadyStep == WalkInv /\ [Next]_vars => SteadyInv'
<1> SUFFICES ASSUME WalkInv, [Next]_vars PROVE SteadyInv'
  OBVIOUS
<1> USE DEF raftVars
<1>t. TypeInv /\ pass \in Walks /\ pass.leaderless \in BOOLEAN /\ pass.view \in Views
  BY DEF WalkInv, TypeInv, TypeOK, Walks, Views
<1>s. SteadyInv
  BY DEF WalkInv, SteadyInv
<1>1. CASE Yield \/ UNCHANGED vars \/ \E c \in Coordinators :
             Crash(c) \/ Recover(c) \/ Elect(c) \/ CatchUp(c) \/ AddForeign(c)
  <2>1. UNCHANGED <<pass, announced>> /\ steady' \subseteq steady /\ (steady' # {} => leader' = leader)
    BY <1>1 DEF Yield, Crash, Recover, Elect, CatchUp, AddForeign, Commit, vars
  <2> QED  BY <1>s, <2>1, CoordinatorsKeepSteady
<1>2. ASSUME steady' = {} PROVE SteadyInv'
  BY <1>2 DEF SteadyInv, SteadyHasLeader, ViewNamesLeader, NonePassedBy, LeaderInReach,
              FindsSteadyLeader, Reachable
<1>3. CASE LoseCall \/ RunCommands
  BY <1>2, <1>3 DEF LoseCall, RunCommands
<1>4. CASE BeginPass
  <2>1. pass'.pc = "ask" /\ pass'.next = 0 /\ leader' = leader /\ (steady' # {} => leader # Nobody)
    BY <1>4 DEF BeginPass, NoPass
  <2>2. \A n \in Endpoints : ~ (n < 0)
    BY CoordinatorFacts
  <2> QED  BY <2>1, <2>2 DEF SteadyInv, SteadyHasLeader, ViewNamesLeader, NonePassedBy, FindsSteadyLeader
<1>5. CASE Ask
  <2> DEFINE c == pass.next
  <2>1. pass.pc = "ask" /\ c \in Endpoints /\ c \in Coordinators /\ UNCHANGED <<raftVars, steady>>
    BY <1>t, <1>5, AskFacts DEF Coordinators
  <2>2. ASSUME c \notin up \/ c \notin members \/ leader = Nobody, NEW l \in BOOLEAN, Continue(l)
        PROVE  SteadyInv'
    <3>1. c \notin steady
      BY <2>2 DEF WalkInv, SteadyHasLeader, TypeInv, TypeOK
    <3> QED  BY <2>1, <2>2, <3>1, ContinueKeepsSteady
  <2>3. ASSUME pass' = [pass EXCEPT !.pc = "found", !.view = View(c)], View(c).leader = c
        PROVE  SteadyInv'
    BY <1>5, <2>3, NamesItselfKeepsSteady
  <2>4. ASSUME pass' = [pass EXCEPT !.pc = "connect", !.view = View(c)], View(c).leader \notin {c, Nobody}
        PROVE  SteadyInv'
    <3>1. pass'.pc = "connect" /\ pass'.view = View(c) /\ pass'.next = pass.next
      BY <1>t, <2>1, <2>4, ViewType, FoundFacts
    <3>2. View(c).leader = leader
      BY <1>t, <2>1, <2>4, ViewFacts
    <3>3. LeaderInReach' = LeaderInReach
      BY <2>1 DEF LeaderInReach
    <3>4. SteadyHasLeader' /\ ViewNamesLeader' /\ FindsSteadyLeader'
      BY <2>1, <3>1, <3>2 DEF WalkInv, SteadyHasLeader, ViewNamesLeader, FindsSteadyLeader
    <3>5. NonePassedBy'
      BY <2>1, <3>1, <3>3 DEF WalkInv, NonePassedBy
    <3> QED  BY <3>4, <3>5 DEF SteadyInv
  <2> QED  BY <1>t, <1>5, <2>2, <2>3, <2>4, AskFacts
<1>6. CASE ConnectLeader
  <2>1. pass.pc = "connect" /\ UNCHANGED <<raftVars, steady>>
    BY <1>6 DEF ConnectLeader
  <2>2. CASE Found(pass.view)
    <3>1. pass'.pc = "found" /\ pass'.view = pass.view
      BY <1>t, <2>2, FoundFacts DEF Found
    <3>2. ~ pass.view.own /\ (steady # {} => pass.view.leader = leader)
      BY <2>1 DEF WalkInv, ForwardedView, ViewNamesLeader
    <3>3. Reachable' => steady # {}
      BY <2>1 DEF Reachable
    <3> QED  BY <2>1, <3>1, <3>2, <3>3
               DEF WalkInv, SteadyInv, SteadyHasLeader, ViewNamesLeader, NonePassedBy, FindsSteadyLeader
  <2>3. CASE ~ (leaderAddress(pass.view.leader) /\ pass.view.leader \in up) /\ Continue(pass.leaderless)
    <3>1. ~ LeaderInReach
      BY <2>1, <2>3 DEF WalkInv, ViewNamesLeader, LeaderInReach, leaderAddress, TypeInv, TypeOK
    <3> QED  BY <1>t, <2>1, <2>3, <3>1, ContinueKeepsSteady
  <2> QED  BY <1>6, <2>2, <2>3 DEF ConnectLeader
<1> QED  BY <1>1, <1>3, <1>4, <1>5, <1>6 DEF Next, PassStep, Raft

(* A pass beside a steady leader finds it and no other, whatever crashed,   *)
(* joined or recovered meanwhile (observeCluster's walk in ordinal order).  *)
THEOREM WalkFindsLeader == Spec => []FindsSteadyLeader
<1>1. Init => WalkInv
  <2> SUFFICES ASSUME Init PROVE WalkInv
    OBVIOUS
  <2>1. TypeInv
    BY TypeInit
  <2>2. FreshAreLast
    <3>1. \A c \in Endpoints \ {0} : 0 < c
      BY CoordinatorFacts
    <3> QED  BY <3>1 DEF Init, FreshAreLast
  <2>3. pass.pc = "idle" /\ steady = {}
    BY DEF Init, NoPass
  <2> QED  BY <2>1, <2>2, <2>3 DEF WalkInv, ForwardedView, ViewIsCurrent, SteadyHasLeader, ViewNamesLeader,
                                  NonePassedBy, FindsSteadyLeader
<1>2. WalkInv /\ [Next]_vars => WalkInv'
  BY CurrentStep, FreshAreLastStep, SteadyStep DEF WalkInv, SteadyInv, CurrentInv
<1>3. WalkInv => FindsSteadyLeader
  BY DEF WalkInv
<1> QED  BY <1>1, <1>2, <1>3, PTL DEF Spec
=============================================================================
