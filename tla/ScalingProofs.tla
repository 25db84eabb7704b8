---------------------------- MODULE ScalingProofs ---------------------------
(***************************************************************************)
(* The safety properties of Scaling, for every set of roles, of counts and *)
(* of operator processes: its types, and for settled edits that members    *)
(* keep their pods, that it implements Membership, and that counts rise    *)
(* only to the declared ones.                                              *)
(***************************************************************************)
EXTENDS Scaling, FiniteSetTheorems, TLAPS

-----------------------------------------------------------------------------
(* The inductive invariant *)

(* The versions process p may still read: the one in its cache and the ones *)
(* its watch has yet to deliver.                                            *)
Readable(p, r) == {cache[p][r]} \cup { v \in events[r] : v.rv > cache[p][r].rv }

(* No cache and no event is ahead of the API server. *)
NothingAhead ==
  \A r \in Roles :
    /\ \A v \in events[r] : v.rv <= live[r].rv
    /\ \A p \in Operators : cache[p][r].rv <= live[r].rv

(* Whichever version a pass is going to read, the count it will apply keeps *)
(* the pod of every member.                                                 *)
MembersCovered ==
  \A p \in Operators, r \in Roles :
    \A v \in Readable(p, r) : members[r] \subseteq Ordinals(Larger(spec[r], v.replicas))

(* A pass works for the spec as it is, and applies no less than its members *)
(* need.                                                                    *)
PassCovers ==
  pc # "idle" =>
    /\ pass.declared = spec
    /\ \A r \in Roles : /\ pass.declared[r] <= pass.applied[r]
                        /\ members[r] \subseteq Ordinals(pass.applied[r])

(* A role the pass has applied has the count the pass chose. *)
AppliedIsLive ==
  \A r \in Roles :
    (pc = "apply" /\ r \notin pass.todo) \/ pc \in {"gate", "members"}
      => live[r].replicas = pass.applied[r]

(* Pods are shed only with no member left above the declared count. *)
ShedCovers ==
  pc = "shed" => \A r \in Roles : members[r] \subseteq Ordinals(pass.declared[r])

SettledInv ==
  /\ TypeOK
  /\ RegisteredHavePods
  /\ NothingAhead
  /\ MembersCovered
  /\ PassCovers
  /\ AppliedIsLive
  /\ ShedCovers

(* While no call failed and the elected process stayed, of every role ...   *)
Untroubled == budget.faults = MaxFaults /\ budget.lostAcks = MaxLostAcks

(* ... generations follow resource versions, up to the live one; *)
GenerationsGrow(r) ==
  \A v \in Readable(active, r) :
    /\ v.gen <= live[r].gen
    /\ \A w \in Readable(active, r) : v.rv <= w.rv => v.gen <= w.gen

(* ... no version but those before an expected shrink asks for more than is *)
(* declared or live now, and with the declared count none for less;         *)
ReadsInStep(r) ==
  \A v \in Readable(active, r) :
    /\ v.gen >= expected[r] => v.replicas <= Larger(spec[r], live[r].replicas)
    /\ live[r].replicas <= Larger(spec[r], v.replicas)

(* ... as long as the cache shows no StatefulSet nothing was shed;          *)
NothingShedUnseen(r) ==
  cache[active][r] = Absent =>
    /\ expected[r] = 0
    /\ pods[r] \subseteq Ordinals(live[r].replicas)
    /\ pc # "idle" => pass.ready[r] = -1

(* ... and the pass applies the count there is, or raises it to the         *)
(* declared one, and sheds behind the gate.                                 *)
AppliesInStep(r) ==
  /\ pc = "apply" /\ r \in pass.todo =>
       /\ live[r].replicas <= pass.applied[r]
       /\ pass.applied[r] \in {live[r].replicas, pass.declared[r]}
  /\ pc \in {"members", "shed"} => pass.ready[r] >= pass.applied[r]
  /\ pc = "shed" /\ r \in pass.todo =>
       live[r].replicas = pass.applied[r] /\ pass.declared[r] < pass.applied[r]

InStep(r) ==
  GenerationsGrow(r) /\ ReadsInStep(r) /\ NothingShedUnseen(r) /\ AppliesInStep(r)

GrowInv ==
  /\ SettledInv
  /\ budget.faults <= MaxFaults /\ budget.lostAcks <= MaxLostAcks
  /\ Untroubled => \A r \in Roles : InStep(r)

-----------------------------------------------------------------------------
(* Lemmas on the operators *)

(* Resizing a StatefulSet yields a version with the count asked for, the    *)
(* same version if it had that count and a newer one otherwise (the apply   *)
(* in applyDesired and in shedRetiredPods).                                 *)
LEMMA ResizedFacts ==
  ASSUME NEW v \in Version \cup {Absent}, NEW n \in Positive
  PROVE  /\ Resized(v, n) \in Version
         /\ Resized(v, n).replicas = n
         /\ Resized(v, n) = v \/ Resized(v, n).rv > v.rv
  BY DEF Resized, Version, Absent, Positive

(* A status report yields a newer version with the same count.             *)
LEMMA ReportedFacts ==
  ASSUME NEW v \in Version, NEW n \in Nat
  PROVE  /\ Reported(v, n) \in Version
         /\ Reported(v, n).replicas = v.replicas
         /\ Reported(v, n).rv > v.rv
  BY DEF Reported, Version, Positive

(* The larger of a declared and a current count is a count no smaller than  *)
(* either (the max in replicaCounts).                                       *)
LEMMA LargerFacts ==
  ASSUME NEW m \in Positive, NEW n \in Nat
  PROVE  /\ Larger(m, n) \in Positive
         /\ m <= Larger(m, n)
         /\ n <= Larger(m, n)
  BY DEF Larger, Positive

(* A larger current count never lowers the count replicaCounts applies.     *)
LEMMA LargerMonotone ==
  ASSUME NEW m \in Positive, NEW n \in Nat, NEW k \in Nat, n <= k
  PROVE  Larger(m, n) <= Larger(m, k)
  BY DEF Larger, Positive

(* Storing a version keeps the types of the StatefulSets and the events.    *)
LEMMA StoreType ==
  ASSUME TypeOK, NEW r \in Roles, NEW v \in Version, Store(r, v)
  PROVE  /\ live' \in [Roles -> Version \cup {Absent}]
         /\ events' \in [Roles -> SUBSET Version]
  BY DEF TypeOK, Store

(* Spending leaves every budget a natural number.                           *)
LEMMA SpendType ==
  ASSUME TypeOK, NEW kind \in {"edits", "faults", "lostAcks"}, Spend(kind)
  PROVE  budget' \in [edits : Nat, faults : Nat, lostAcks : Nat]
  BY DEF TypeOK, Spend

(* The counts a pass may read as current are natural numbers.               *)
LEMMA CurrentType ==
  ASSUME TypeOK, NEW r \in Roles, NEW n \in currentReplicas(r)
  PROVE  n \in Nat
<1>1. CASE cache[active][r] = Absent
  BY <1>1 DEF TypeOK, currentReplicas, runningOrdinals
<1>2. CASE cache[active][r] # Absent
  BY <1>2 DEF TypeOK, currentReplicas, Version, Positive
<1> QED  BY <1>1, <1>2

-----------------------------------------------------------------------------
(* Type correctness *)

(* The initial states are well typed.                                       *)
LEMMA TypeInit == Init => TypeOK
<1> SUFFICES ASSUME Init PROVE TypeOK
  OBVIOUS
<1>1. cache \in [Operators -> [Roles -> Version \cup {Absent}]]
  BY DEF Init
<1>2. budget \in [edits : Nat, faults : Nat, lostAcks : Nat]
  BY BoundsAssumption DEF Init
<1>3. expected \in [Roles -> Nat]
  BY DEF Init, NoExpectations
<1>4. \A r \in Roles : IsFiniteSet(pods[r])
  BY FS_EmptySet DEF Init
<1> QED  BY <1>1, <1>2, <1>3, <1>4 DEF Init, TypeOK

(* Every step of the passes, Kubernetes and the user keeps the types.       *)
LEMMA TypeStep == TypeOK /\ [Next]_vars => TypeOK'
<1> SUFFICES ASSUME TypeOK, [Next]_vars PROVE TypeOK'
  OBVIOUS
<1> USE DEF k8sVars, passVars
<1>0. spec \in [Roles -> Positive]
  BY CountsAssumption DEF TypeOK, Positive
<1>1. ASSUME BeginPass PROVE TypeOK'
  <2>1. PICK current \in [Roles -> UNION { currentReplicas(r) : r \in Roles }] :
          /\ \A r \in Roles : current[r] \in currentReplicas(r)
          /\ pass' = [ declared |-> spec,
                       applied  |-> [r \in Roles |-> Larger(spec[r], current[r])],
                       ready    |-> [r \in Roles |-> cache[active][r].ready],
                       todo     |-> Roles ]
    BY <1>1 DEF BeginPass
  <2>2. \A r \in Roles : Larger(spec[r], current[r]) \in Positive
    BY <2>1, <1>0, CurrentType, LargerFacts
  <2>3. \A r \in Roles : cache[active][r].ready \in Nat \cup {-1}
    BY DEF TypeOK, Version, Absent
  <2>4. pass' \in [declared : [Roles -> Positive], applied : [Roles -> Positive],
                   ready : [Roles -> Nat \cup {-1}], todo : SUBSET Roles]
    BY <2>1, <2>2, <2>3, <1>0
  <2>5. expected' \in [Roles -> Nat]
    BY <1>1 DEF BeginPass, Forget, TypeOK
  <2> QED  BY <1>1, <2>4, <2>5 DEF BeginPass, TypeOK
<1>2. ASSUME DeferPass PROVE TypeOK'
  <2>1. expected' \in [Roles -> Nat]
    BY <1>2 DEF DeferPass, Forget, TypeOK
  <2> QED  BY <1>2, <2>1 DEF DeferPass, TypeOK
<1>3. ASSUME Observe PROVE TypeOK'
  BY <1>3 DEF Observe, Finish, TypeOK
<1>4. ASSUME PlanDone PROVE TypeOK'
  BY <1>4 DEF PlanDone, Finish, TypeOK
<1>5. ASSUME NEW r \in Roles, ApplyRole(r) PROVE TypeOK'
  <2>1. pass.applied[r] \in Positive
    BY <1>5 DEF ApplyRole, TypeOK
  <2>2. Resized(live[r], pass.applied[r]) \in Version
    BY <2>1, ResizedFacts DEF TypeOK
  <2>3. /\ live' \in [Roles -> Version \cup {Absent}]
        /\ events' \in [Roles -> SUBSET Version]
    BY <1>5, <2>2, StoreType DEF ApplyRole
  <2> QED  BY <1>5, <2>3 DEF ApplyRole, TypeOK
<1>6. ASSUME NEW r \in Roles, ShedRole(r) PROVE TypeOK'
  <2>1. pass.declared[r] \in Positive
    BY <1>6 DEF ShedRole, TypeOK
  <2>2. Resized(live[r], pass.declared[r]) \in Version
    BY <2>1, ResizedFacts DEF TypeOK
  <2>3. /\ live' \in [Roles -> Version \cup {Absent}]
        /\ events' \in [Roles -> SUBSET Version]
    BY <1>6, <2>2, StoreType DEF ShedRole
  <2>4. expected' \in [Roles -> Nat]
    BY <1>6, <2>2 DEF ShedRole, Expect, Version, Positive, TypeOK
  <2>5. IF pc' = "idle" THEN pass' = NoPass
        ELSE pass' \in [declared : [Roles -> Positive], applied : [Roles -> Positive],
                        ready : [Roles -> Nat \cup {-1}], todo : SUBSET Roles]
    BY <1>6 DEF ShedRole, Finish, TypeOK
  <2> QED  BY <1>6, <2>3, <2>4, <2>5 DEF ShedRole, Finish, TypeOK
<1>7. ASSUME NEW r \in Roles, NEW o \in Ordinals(pass.applied[r]),
             RegisterMember(r, o) \/ RetireMember(r, o)
      PROVE  TypeOK'
  <2>1. o \in Nat
    BY <1>7 DEF Ordinals, TypeOK, NoPass, Positive
  <2> QED  BY <1>7, <2>1 DEF RegisterMember, RetireMember, TypeOK
<1>8. ASSUME NEW r \in Roles, NEW o \in Ordinals(live[r].replicas) \cup pods[r],
             PodReady(r, o) \/ PodGone(r, o)
      PROVE  TypeOK'
  <2>1. o \in Nat
    BY DEF Ordinals, TypeOK, Version, Absent, Positive
  <2>2. /\ IsFiniteSet(pods[r] \cup {o})
        /\ IsFiniteSet(pods[r] \ {o})
    BY FS_AddElement, FS_RemoveElement DEF TypeOK
  <2>3. pods' \in [Roles -> SUBSET Nat]
    BY <1>8, <2>1 DEF PodReady, PodGone, TypeOK
  <2>4. \A q \in Roles : IsFiniteSet(pods'[q])
    <3> SUFFICES ASSUME NEW q \in Roles PROVE IsFiniteSet(pods'[q])
      OBVIOUS
    <3>1. pods'[q] \in {pods[q], pods[r] \cup {o}, pods[r] \ {o}}
      BY <1>8 DEF PodReady, PodGone, TypeOK
    <3> QED  BY <3>1, <2>2 DEF TypeOK
  <2> QED  BY <1>8, <2>3, <2>4 DEF PodReady, PodGone, TypeOK
<1>9. ASSUME NEW r \in Roles, ReportStatus(r) PROVE TypeOK'
  <2>1. Cardinality(pods[r]) \in Nat
    BY FS_CardinalityType DEF TypeOK
  <2>2. Reported(live[r], Cardinality(pods[r])) \in Version
    BY <1>9, <2>1, ReportedFacts DEF ReportStatus, TypeOK
  <2>3. /\ live' \in [Roles -> Version \cup {Absent}]
        /\ events' \in [Roles -> SUBSET Version]
    BY <1>9, <2>2, StoreType DEF ReportStatus
  <2> QED  BY <1>9, <2>3 DEF ReportStatus, TypeOK
<1>10. ASSUME NEW r \in Roles, NEW p \in Operators, SyncCache(p, r) PROVE TypeOK'
  BY <1>10 DEF SyncCache, Undelivered, TypeOK
<1>11. ASSUME NEW r \in Roles, NEW n \in Counts, Edit(r, n) PROVE TypeOK'
  BY <1>11, SpendType DEF Edit, TypeOK
<1>12. ASSUME NEW r \in Roles, LoseShedAck(r) PROVE TypeOK'
  <2>1. pass.declared[r] \in Positive
    BY <1>12 DEF LoseShedAck, TypeOK
  <2>2. Resized(live[r], pass.declared[r]) \in Version
    BY <2>1, ResizedFacts DEF TypeOK
  <2>3. /\ live' \in [Roles -> Version \cup {Absent}]
        /\ events' \in [Roles -> SUBSET Version]
    BY <1>12, <2>2, StoreType DEF LoseShedAck
  <2> QED  BY <1>12, <2>3, SpendType DEF LoseShedAck, Finish, TypeOK
<1>13. ASSUME FailPass PROVE TypeOK'
  BY <1>13, SpendType DEF FailPass, Finish, TypeOK
<1>14. ASSUME Restart PROVE TypeOK'
  BY <1>14, SpendType DEF Restart, Finish, NoExpectations, Undelivered, TypeOK
<1>15. ASSUME NEW p \in Operators, TakeOver(p) PROVE TypeOK'
  BY <1>15, SpendType DEF TakeOver, Finish, NoExpectations, TypeOK
<1>16. CASE UNCHANGED vars
  BY <1>16 DEF vars, TypeOK
<1> QED
  BY <1>1, <1>2, <1>3, <1>4, <1>5, <1>6, <1>7, <1>8, <1>9, <1>10, <1>11, <1>12,
     <1>13, <1>14, <1>15, <1>16 DEF Next, PassStep, Kubernetes, Disruption

(* Every state the passes, Kubernetes and the user reach is well typed; in  *)
(* particular no pass ever applies a StatefulSet with no replicas.          *)
THEOREM TypeCorrect == Spec => []TypeOK
  BY TypeInit, TypeStep, PTL DEF Spec

-----------------------------------------------------------------------------
(* Registered members keep their pods *)

(* A larger count covers every ordinal a smaller one does.                  *)
LEMMA OrdinalsMonotone ==
  ASSUME NEW m \in Int, NEW n \in Int, m <= n
  PROVE  Ordinals(m) \subseteq Ordinals(n)
  BY DEF Ordinals

(* What a process may still read of a StatefulSet is a version of it or none. *)
LEMMA ReadableType ==
  ASSUME TypeOK, NEW p \in Operators, NEW r \in Roles, NEW v \in Readable(p, r)
  PROVE  v.replicas \in Nat /\ v.rv \in Nat
<1>1. v \in Version \cup {Absent}
  BY DEF TypeOK, Readable
<1> QED  BY <1>1 DEF Version, Absent, Positive

(* A write of the API server is the newest version, and the only one it     *)
(* adds to what a process may still read.                                   *)
LEMMA StoreReadable ==
  ASSUME TypeOK, NothingAhead, NEW r \in Roles, NEW v \in Version,
         v = live[r] \/ v.rv > live[r].rv,
         Store(r, v), UNCHANGED cache
  PROVE  /\ NothingAhead'
         /\ live'[r] = v
         /\ \A q \in Roles \ {r} : live'[q] = live[q]
         /\ \A p \in Operators, q \in Roles :
              Readable(p, q)' \subseteq Readable(p, q) \cup {w \in {v} : q = r}
<1>1. /\ live'[r] = v
      /\ \A q \in Roles \ {r} : live'[q] = live[q] /\ events'[q] = events[q]
      /\ events'[r] \subseteq events[r] \cup {v}
  BY DEF Store, TypeOK
<1>2. v.rv \in Nat /\ live[r].rv \in Nat /\ live[r].rv <= v.rv
  BY DEF TypeOK, Version, Absent, Positive
<1>3. \A w \in events[r] : w.rv \in Nat
  BY DEF TypeOK, Version, Positive
<1>4. \A p \in Operators : cache[p][r].rv \in Nat
  BY DEF TypeOK, Version, Absent, Positive
<1>5. NothingAhead'
  <2> SUFFICES ASSUME NEW q \in Roles
               PROVE  /\ \A w \in events'[q] : w.rv <= live'[q].rv
                      /\ \A p \in Operators : cache'[p][q].rv <= live'[q].rv
    BY DEF NothingAhead
  <2>1. CASE q = r
    BY <1>1, <1>2, <1>3, <1>4, <2>1 DEF NothingAhead
  <2>2. CASE q # r
    BY <1>1, <2>2 DEF NothingAhead
  <2> QED  BY <2>1, <2>2
<1>6. ASSUME NEW p \in Operators, NEW q \in Roles
      PROVE  Readable(p, q)' \subseteq Readable(p, q) \cup {w \in {v} : q = r}
  <2>1. CASE q = r
    BY <1>1, <2>1 DEF Readable
  <2>2. CASE q # r
    BY <1>1, <2>2 DEF Readable
  <2> QED  BY <2>1, <2>2
<1> QED  BY <1>1, <1>5, <1>6

(* A write that covers the members of its role keeps all members covered. *)
LEMMA StoreCovers ==
  ASSUME TypeOK, NothingAhead, MembersCovered, RegisteredHavePods,
         NEW r \in Roles, NEW v \in Version,
         v = live[r] \/ v.rv > live[r].rv,
         Store(r, v), UNCHANGED <<cache, members, spec>>,
         members[r] \subseteq Ordinals(v.replicas)
  PROVE  NothingAhead' /\ MembersCovered' /\ RegisteredHavePods'
<1>1. /\ NothingAhead'
      /\ live'[r] = v
      /\ \A q \in Roles \ {r} : live'[q] = live[q]
      /\ \A p \in Operators, q \in Roles :
           Readable(p, q)' \subseteq Readable(p, q) \cup {w \in {v} : q = r}
  BY StoreReadable
<1>2. RegisteredHavePods'
  BY <1>1 DEF RegisteredHavePods
<1>3. members[r] \subseteq Ordinals(Larger(spec[r], v.replicas))
  <2>1. spec[r] \in Positive /\ v.replicas \in Nat
    BY CountsAssumption DEF TypeOK, Version, Positive
  <2>2. Larger(spec[r], v.replicas) \in Int /\ v.replicas <= Larger(spec[r], v.replicas)
    BY <2>1, LargerFacts DEF Positive
  <2> QED  BY <2>1, <2>2, OrdinalsMonotone
<1>4. MembersCovered'
  BY <1>1, <1>3 DEF MembersCovered
<1> QED  BY <1>1, <1>2, <1>4

(* A step that leaves the StatefulSets, the caches, the spec and the        *)
(* members alone keeps what is said of them.                                *)
LEMMA ClusterUnchanged ==
  ASSUME NothingAhead, MembersCovered, RegisteredHavePods,
         UNCHANGED <<live, events, cache, members, spec>>
  PROVE  NothingAhead' /\ MembersCovered' /\ RegisteredHavePods'
  BY DEF NothingAhead, MembersCovered, RegisteredHavePods, Readable

(* An idle operator has no pass to speak of. *)
LEMMA IdlePass == pc = "idle" => PassCovers /\ AppliedIsLive /\ ShedCovers
  BY DEF PassCovers, AppliedIsLive, ShedCovers

(* The inductive invariant holds before the first pass.                     *)
LEMMA SettledInit == Init => SettledInv
<1> SUFFICES ASSUME Init PROVE SettledInv
  OBVIOUS
<1>1. TypeOK
  BY TypeInit
<1>2. RegisteredHavePods /\ MembersCovered
  BY DEF Init, RegisteredHavePods, MembersCovered
<1>3. NothingAhead
  BY DEF Init, NothingAhead, Absent
<1>4. PassCovers /\ AppliedIsLive /\ ShedCovers
  BY IdlePass DEF Init
<1> QED  BY <1>1, <1>2, <1>3, <1>4 DEF SettledInv

(* Every step keeps the inductive invariant while edits are settled: one case *)
(* for each action of replicaCounts, applyDesired, the plan, the shed and the *)
(* processes around them.                                                   *)
LEMMA SettledStep == Settled /\ SettledInv /\ [Next]_vars => SettledInv'
<1> SUFFICES ASSUME Settled, SettledInv, [Next]_vars PROVE SettledInv'
  OBVIOUS
<1> USE DEF k8sVars, passVars
<1>a. TypeOK /\ NothingAhead /\ MembersCovered /\ RegisteredHavePods
  BY DEF SettledInv
<1>b. PassCovers /\ AppliedIsLive /\ ShedCovers
  BY DEF SettledInv
<1>t. TypeOK'
  BY <1>a, TypeStep
<1>s. spec \in [Roles -> Positive]
  BY <1>a, CountsAssumption DEF TypeOK, Positive
<1>p. ASSUME pc # "idle"
      PROVE  /\ pass.declared \in [Roles -> Positive]
             /\ pass.applied \in [Roles -> Positive]
  BY <1>a, <1>p DEF TypeOK
<1>i. ASSUME pc' = "idle" PROVE PassCovers' /\ AppliedIsLive' /\ ShedCovers'
  BY <1>i DEF PassCovers, AppliedIsLive, ShedCovers
<1>1. ASSUME BeginPass PROVE SettledInv'
  <2>1. PICK current \in [Roles -> UNION { currentReplicas(r) : r \in Roles }] :
          /\ \A r \in Roles : current[r] \in currentReplicas(r)
          /\ pass' = [ declared |-> spec,
                       applied  |-> [r \in Roles |-> Larger(spec[r], current[r])],
                       ready    |-> [r \in Roles |-> cache[active][r].ready],
                       todo     |-> Roles ]
    BY <1>1 DEF BeginPass
  <2>2. ASSUME NEW r \in Roles
        PROVE  /\ spec[r] <= Larger(spec[r], current[r])
               /\ members[r] \subseteq Ordinals(Larger(spec[r], current[r]))
    <3>1. current[r] \in Nat /\ spec[r] \in Positive
      BY <2>1, <1>a, <1>s, CurrentType
    <3>2. members[r] \subseteq Ordinals(Larger(spec[r], cache[active][r].replicas))
      BY <1>a DEF MembersCovered, Readable, TypeOK
    <3>3. cache[active][r].replicas <= current[r] /\ cache[active][r].replicas \in Nat
      <4>1. CASE cache[active][r] = Absent
        BY <3>1, <4>1 DEF Absent
      <4>2. CASE cache[active][r] # Absent
        <5>1. current[r] = cache[active][r].replicas
          BY <2>1, <4>2 DEF currentReplicas
        <5> QED  BY <3>1, <5>1
      <4> QED  BY <4>1, <4>2
    <3>4. Larger(spec[r], cache[active][r].replicas) <= Larger(spec[r], current[r])
      BY <3>1, <3>3, LargerMonotone
    <3>5. Ordinals(Larger(spec[r], cache[active][r].replicas))
            \subseteq Ordinals(Larger(spec[r], current[r]))
      <4>1. /\ Larger(spec[r], cache[active][r].replicas) \in Int
            /\ Larger(spec[r], current[r]) \in Int
        BY <3>1, <3>3, LargerFacts DEF Positive
      <4> QED  BY <3>4, <4>1, OrdinalsMonotone
    <3> QED  BY <3>1, <3>2, <3>5, LargerFacts
  <2>3. PassCovers'
    BY <1>1, <2>1, <2>2 DEF BeginPass, PassCovers
  <2>4. AppliedIsLive' /\ ShedCovers'
    BY <1>1, <2>1 DEF BeginPass, AppliedIsLive, ShedCovers
  <2>5. NothingAhead' /\ MembersCovered' /\ RegisteredHavePods'
    BY <1>1, <1>a, ClusterUnchanged DEF BeginPass
  <2> QED  BY <1>t, <2>3, <2>4, <2>5 DEF SettledInv
<1>2. ASSUME DeferPass PROVE SettledInv'
  <2>1. NothingAhead' /\ MembersCovered' /\ RegisteredHavePods'
    BY <1>2, <1>a, ClusterUnchanged DEF DeferPass
  <2>2. pc' = "idle"
    BY <1>2 DEF DeferPass
  <2> QED  BY <1>t, <1>i, <2>1, <2>2 DEF SettledInv
<1>3. ASSUME Observe PROVE SettledInv'
  <2>1. NothingAhead' /\ MembersCovered' /\ RegisteredHavePods'
    BY <1>3, <1>a, ClusterUnchanged DEF Observe
  <2>2. CASE pc' = "idle"
    BY <1>t, <1>i, <2>1, <2>2 DEF SettledInv
  <2>3. CASE pc' = "members" /\ pass' = pass
    BY <1>t, <1>b, <1>3, <2>1, <2>3
    DEF SettledInv, Observe, PassCovers, AppliedIsLive, ShedCovers
  <2>4. CASE /\ pc' = "shed"
             /\ \A r \in Roles : Unregistered(r) \cup Unretired(r) = {}
             /\ pass' = [pass EXCEPT !.todo = { r \in Roles : RetiringOf(r) # {} }]
    <3>1. pc = "gate" /\ UNCHANGED <<spec, members, live>>
      BY <1>3 DEF Observe
    <3>2. pass'.declared = pass.declared /\ pass'.applied = pass.applied
      BY <2>4, <3>1, <1>a DEF TypeOK
    <3>3. PassCovers' /\ AppliedIsLive'
      BY <1>b, <2>4, <3>1, <3>2 DEF PassCovers, AppliedIsLive
    <3>4. ASSUME NEW r \in Roles
          PROVE  members[r] \subseteq Ordinals(pass.declared[r])
      <4>1. members[r] \subseteq Ordinals(pass.applied[r])
        BY <1>b, <3>1 DEF PassCovers
      <4>2. RetiringOf(r) \cap members[r] = {}
        BY <2>4 DEF Unretired
      <4>3. pass.declared[r] \in Positive /\ pass.applied[r] \in Positive
        BY <1>p, <3>1
      <4> QED  BY <4>1, <4>2, <4>3 DEF Ordinals, RetiringOf, Positive
    <3>5. ShedCovers'
      BY <3>1, <3>2, <3>4 DEF ShedCovers
    <3> QED  BY <1>t, <2>1, <3>3, <3>5 DEF SettledInv
  <2> QED  BY <1>3, <2>2, <2>3, <2>4 DEF Observe, Finish
<1>4. ASSUME PlanDone \/ FailPass PROVE SettledInv'
  <2>1. NothingAhead' /\ MembersCovered' /\ RegisteredHavePods'
    BY <1>4, <1>a, ClusterUnchanged DEF PlanDone, FailPass
  <2>2. pc' = "idle"
    BY <1>4 DEF PlanDone, FailPass, Finish
  <2> QED  BY <1>t, <1>i, <2>1, <2>2 DEF SettledInv
<1>5. ASSUME NEW r \in Roles, ApplyRole(r) PROVE SettledInv'
  <2> DEFINE v == Resized(live[r], pass.applied[r])
  <2>0. pc = "apply" /\ pc' \in {"apply", "gate"} /\ UNCHANGED <<spec, members, cache>>
    BY <1>5 DEF ApplyRole
  <2>1. pass.applied[r] \in Positive
    BY <1>p, <2>0
  <2>2. v \in Version /\ v.replicas = pass.applied[r] /\ (v = live[r] \/ v.rv > live[r].rv)
    BY <2>1, <1>a, ResizedFacts DEF TypeOK
  <2>3. members[r] \subseteq Ordinals(v.replicas)
    BY <1>b, <2>0, <2>2 DEF PassCovers
  <2>4. Store(r, v)
    BY <1>5 DEF ApplyRole
  <2> HIDE DEF v
  <2>5. NothingAhead' /\ MembersCovered' /\ RegisteredHavePods'
    BY <1>a, <2>0, <2>2, <2>3, <2>4, StoreCovers
  <2>6. /\ pass'.declared = pass.declared
        /\ pass'.applied = pass.applied
        /\ pass'.todo = pass.todo \ {r}
    BY <1>5, <2>0, <1>a DEF ApplyRole, TypeOK
  <2>7. PassCovers' /\ ShedCovers'
    BY <1>b, <2>0, <2>6 DEF PassCovers, ShedCovers
  <2>8. AppliedIsLive'
    <3> SUFFICES ASSUME NEW q \in Roles,
                        (pc' = "apply" /\ q \notin pass'.todo) \/ pc' = "gate"
                 PROVE  live'[q].replicas = pass'.applied[q]
      BY <2>0 DEF AppliedIsLive
    <3>1. CASE q = r
      BY <1>a, <2>2, <2>4, <2>6, <3>1 DEF Store, TypeOK
    <3>2. CASE q # r
      <4>1. q \notin pass.todo
        BY <1>5, <2>6, <3>2 DEF ApplyRole
      <4> QED  BY <1>a, <1>b, <2>0, <2>4, <2>6, <3>2, <4>1 DEF Store, TypeOK, AppliedIsLive
    <3> QED  BY <3>1, <3>2
  <2> QED  BY <1>t, <2>5, <2>7, <2>8 DEF SettledInv
<1>6. ASSUME NEW r \in Roles, ShedRole(r) \/ LoseShedAck(r) PROVE SettledInv'
  <2> DEFINE v == Resized(live[r], pass.declared[r])
  <2>0. pc = "shed" /\ UNCHANGED <<spec, members, cache>>
    BY <1>6 DEF ShedRole, LoseShedAck
  <2>1. pass.declared[r] \in Positive
    BY <1>p, <2>0
  <2>2. v \in Version /\ v.replicas = pass.declared[r] /\ (v = live[r] \/ v.rv > live[r].rv)
    BY <2>1, <1>a, ResizedFacts DEF TypeOK
  <2>3. members[r] \subseteq Ordinals(v.replicas)
    BY <1>b, <2>0, <2>2 DEF ShedCovers
  <2>4. Store(r, v)
    BY <1>6 DEF ShedRole, LoseShedAck
  <2> HIDE DEF v
  <2>5. NothingAhead' /\ MembersCovered' /\ RegisteredHavePods'
    BY <1>a, <2>0, <2>2, <2>3, <2>4, StoreCovers
  <2>6. CASE pc' = "idle"
    BY <1>t, <1>i, <2>5, <2>6 DEF SettledInv
  <2>7. CASE pc' = pc /\ pass' = [pass EXCEPT !.todo = @ \ {r}]
    <3>1. pass'.declared = pass.declared /\ pass'.applied = pass.applied
      BY <2>0, <2>7, <1>a DEF TypeOK
    <3>2. PassCovers' /\ AppliedIsLive' /\ ShedCovers'
      BY <1>b, <2>0, <2>7, <3>1 DEF PassCovers, AppliedIsLive, ShedCovers
    <3> QED  BY <1>t, <2>5, <3>2 DEF SettledInv
  <2> QED  BY <1>6, <2>6, <2>7 DEF ShedRole, LoseShedAck, Finish
<1>7. ASSUME NEW r \in Roles, NEW o \in Ordinals(pass.applied[r]), RegisterMember(r, o)
      PROVE  SettledInv'
  <2>0. /\ pc = "members" /\ o \in Ordinals(spec[r])
        /\ UNCHANGED <<spec, live, events, cache, pc, pass>>
        /\ members' = [members EXCEPT ![r] = @ \cup {o}]
    BY <1>7, <1>b DEF RegisterMember, Unregistered, PassCovers
  <2>1. NothingAhead'
    BY <1>a, <2>0 DEF NothingAhead
  <2>2. MembersCovered'
    <3> SUFFICES ASSUME NEW p \in Operators, NEW q \in Roles, NEW v \in Readable(p, q)
                 PROVE  members'[q] \subseteq Ordinals(Larger(spec[q], v.replicas))
      BY <2>0 DEF MembersCovered, Readable
    <3>1. members[q] \subseteq Ordinals(Larger(spec[q], v.replicas))
      BY <1>a DEF MembersCovered
    <3>2. Ordinals(spec[q]) \subseteq Ordinals(Larger(spec[q], v.replicas))
      BY <1>a, <1>s, ReadableType, LargerFacts, OrdinalsMonotone DEF Positive
    <3> QED  BY <1>a, <2>0, <3>1, <3>2 DEF TypeOK
  <2>3. PassCovers'
    BY <1>a, <1>b, <1>7, <2>0 DEF PassCovers, TypeOK
  <2>4. RegisteredHavePods'
    BY <1>a, <1>b, <1>7, <2>0 DEF RegisteredHavePods, AppliedIsLive, TypeOK
  <2>5. AppliedIsLive' /\ ShedCovers'
    BY <1>b, <2>0 DEF AppliedIsLive, ShedCovers
  <2> QED  BY <1>t, <2>1, <2>2, <2>3, <2>4, <2>5 DEF SettledInv
<1>8. ASSUME NEW r \in Roles, NEW o \in Ordinals(pass.applied[r]), RetireMember(r, o)
      PROVE  SettledInv'
  <2>0. /\ pc = "members"
        /\ UNCHANGED <<spec, live, events, cache, pc, pass>>
        /\ \A q \in Roles : members'[q] \subseteq members[q]
    BY <1>8, <1>a DEF RetireMember, TypeOK
  <2>1. NothingAhead' /\ MembersCovered' /\ RegisteredHavePods'
    BY <1>a, <2>0 DEF NothingAhead, MembersCovered, RegisteredHavePods, Readable
  <2>2. PassCovers' /\ AppliedIsLive' /\ ShedCovers'
    BY <1>b, <2>0 DEF PassCovers, AppliedIsLive, ShedCovers
  <2> QED  BY <1>t, <2>1, <2>2 DEF SettledInv
<1>9. ASSUME NEW r \in Roles, NEW o, PodReady(r, o) \/ PodGone(r, o) PROVE SettledInv'
  <2>1. NothingAhead' /\ MembersCovered' /\ RegisteredHavePods'
    BY <1>9, <1>a, ClusterUnchanged DEF PodReady, PodGone
  <2>2. PassCovers' /\ AppliedIsLive' /\ ShedCovers'
    BY <1>9, <1>b DEF PodReady, PodGone, PassCovers, AppliedIsLive, ShedCovers
  <2> QED  BY <1>t, <2>1, <2>2 DEF SettledInv
<1>10. ASSUME NEW r \in Roles, ReportStatus(r) PROVE SettledInv'
  <2> DEFINE v == Reported(live[r], Cardinality(pods[r]))
  <2>0. live[r] \in Version /\ UNCHANGED <<spec, members, cache, pc, pass>>
    BY <1>10, <1>a DEF ReportStatus, TypeOK
  <2>1. v \in Version /\ v.replicas = live[r].replicas /\ v.rv > live[r].rv
    BY <2>0, <1>a, ReportedFacts, FS_CardinalityType DEF TypeOK
  <2>2. Store(r, v)
    BY <1>10 DEF ReportStatus
  <2> HIDE DEF v
  <2>3. NothingAhead' /\ MembersCovered' /\ RegisteredHavePods'
    BY <1>a, <2>0, <2>1, <2>2, StoreCovers DEF RegisteredHavePods
  <2>4. \A q \in Roles : live'[q].replicas = live[q].replicas
    BY <1>a, <2>1, <2>2 DEF Store, TypeOK
  <2>5. PassCovers' /\ AppliedIsLive' /\ ShedCovers'
    BY <1>b, <2>0, <2>4 DEF PassCovers, AppliedIsLive, ShedCovers
  <2> QED  BY <1>t, <2>3, <2>5 DEF SettledInv
<1>11. ASSUME NEW r \in Roles, NEW p \in Operators, SyncCache(p, r) PROVE SettledInv'
  <2>1. PICK v \in events[r] : v.rv > cache[p][r].rv /\ cache' = [cache EXCEPT ![p][r] = v]
    BY <1>11 DEF SyncCache
  <2>2. /\ UNCHANGED <<spec, live, members, pc, pass>>
        /\ \A q \in Roles : events'[q] \subseteq events[q]
    BY <1>11, <1>a DEF SyncCache, Undelivered, TypeOK
  <2>3. ASSUME NEW o \in Operators, NEW q \in Roles
        PROVE  cache'[o][q] = IF o = p /\ q = r THEN v ELSE cache[o][q]
    BY <1>a, <2>1 DEF TypeOK
  <2>4. NothingAhead'
    BY <1>a, <2>1, <2>2, <2>3 DEF NothingAhead
  <2>5. ASSUME NEW o \in Operators, NEW q \in Roles
        PROVE  Readable(o, q)' \subseteq Readable(o, q)
    <3>1. CASE o = p /\ q = r
      <4>1. v.rv \in Nat /\ cache[p][r].rv \in Nat /\ \A w \in events[r] : w.rv \in Nat
        BY <1>a DEF TypeOK, Version, Absent, Positive
      <4> QED  BY <2>1, <2>2, <2>3, <3>1, <4>1 DEF Readable
    <3>2. CASE ~ (o = p /\ q = r)
      BY <2>2, <2>3, <3>2 DEF Readable
    <3> QED  BY <3>1, <3>2
  <2>6. MembersCovered' /\ RegisteredHavePods'
    BY <1>a, <2>2, <2>5 DEF MembersCovered, RegisteredHavePods
  <2>7. PassCovers' /\ AppliedIsLive' /\ ShedCovers'
    BY <1>b, <2>2 DEF PassCovers, AppliedIsLive, ShedCovers
  <2> QED  BY <1>t, <2>4, <2>6, <2>7 DEF SettledInv
<1>12. ASSUME NEW r \in Roles, NEW n \in Counts, Edit(r, n) PROVE SettledInv'
  <2>1. /\ pc' = "idle" /\ CachesCurrent /\ UNCHANGED <<live, events, cache, members>>
    BY <1>12 DEF Edit
  <2>2. NothingAhead' /\ RegisteredHavePods'
    BY <1>a, <2>1 DEF NothingAhead, RegisteredHavePods
  <2>3. MembersCovered'
    <3> SUFFICES ASSUME NEW p \in Operators, NEW q \in Roles, NEW v \in Readable(p, q)
                 PROVE  members[q] \subseteq Ordinals(Larger(spec'[q], v.replicas))
      BY <2>1 DEF MembersCovered, Readable
    <3>1. v = live[q]
      <4>1. cache[p][q] = live[q] /\ live[q].rv \in Nat /\ \A w \in events[q] : w.rv \in Nat
        BY <1>a, <2>1 DEF CachesCurrent, TypeOK, Version, Absent, Positive
      <4> QED  BY <1>a, <4>1 DEF Readable, NothingAhead
    <3>2. spec'[q] \in Positive /\ v.replicas \in Nat
      BY <1>a, <1>t, CountsAssumption, ReadableType DEF TypeOK, Positive
    <3>3. Ordinals(v.replicas) \subseteq Ordinals(Larger(spec'[q], v.replicas))
      BY <3>2, LargerFacts, OrdinalsMonotone DEF Positive
    <3> QED  BY <1>a, <3>1, <3>3 DEF RegisteredHavePods
  <2> QED  BY <1>t, <1>i, <2>1, <2>2, <2>3 DEF SettledInv
<1>13. ASSUME Restart PROVE SettledInv'
  <2>1. /\ pc' = "idle" /\ UNCHANGED <<live, spec, members>>
        /\ cache' = [cache EXCEPT ![active] = live]
        /\ \A q \in Roles : events'[q] \subseteq events[q]
    BY <1>13, <1>a DEF Restart, Finish, Undelivered, TypeOK
  <2>2. /\ \A q \in Roles : cache'[active][q] = live[q]
        /\ \A p \in Operators \ {active} : cache'[p] = cache[p]
    BY <1>a, <2>1 DEF TypeOK
  <2>3. \A q \in Roles : live[q].rv \in Nat
    BY <1>a DEF TypeOK, Version, Absent, Positive
  <2>4. NothingAhead' /\ RegisteredHavePods'
    BY <1>a, <2>1, <2>2, <2>3 DEF NothingAhead, RegisteredHavePods
  <2>5. MembersCovered'
    <3> SUFFICES ASSUME NEW p \in Operators, NEW q \in Roles, NEW v \in Readable(p, q)'
                 PROVE  members[q] \subseteq Ordinals(Larger(spec[q], v.replicas))
      BY <2>1 DEF MembersCovered
    <3>1. CASE p # active
      BY <1>a, <2>1, <2>2, <3>1 DEF MembersCovered, Readable
    <3>2. CASE p = active
      <4>1. v = live[q]
        <5>1. \A w \in events[q] : w.rv \in Nat
          BY <1>a DEF TypeOK, Version, Positive
        <5> QED  BY <1>a, <2>1, <2>2, <2>3, <3>2, <5>1 DEF Readable, NothingAhead
      <4>2. spec[q] \in Positive /\ v.replicas \in Nat
        BY <1>a, <1>s, <4>1 DEF TypeOK, Version, Absent, Positive
      <4>3. Ordinals(v.replicas) \subseteq Ordinals(Larger(spec[q], v.replicas))
        BY <4>2, LargerFacts, OrdinalsMonotone DEF Positive
      <4> QED  BY <1>a, <4>1, <4>3 DEF RegisteredHavePods
    <3> QED  BY <3>1, <3>2
  <2> QED  BY <1>t, <1>i, <2>1, <2>4, <2>5 DEF SettledInv
<1>14. ASSUME NEW p \in Operators, TakeOver(p) PROVE SettledInv'
  <2>1. NothingAhead' /\ MembersCovered' /\ RegisteredHavePods'
    BY <1>14, <1>a, ClusterUnchanged DEF TakeOver
  <2>2. pc' = "idle"
    BY <1>14 DEF TakeOver, Finish
  <2> QED  BY <1>t, <1>i, <2>1, <2>2 DEF SettledInv
<1>15. CASE UNCHANGED vars
  <2>1. NothingAhead' /\ MembersCovered' /\ RegisteredHavePods'
    BY <1>15, <1>a, ClusterUnchanged DEF vars
  <2>2. PassCovers' /\ AppliedIsLive' /\ ShedCovers'
    BY <1>15, <1>b DEF vars, PassCovers, AppliedIsLive, ShedCovers
  <2> QED  BY <1>t, <2>1, <2>2 DEF SettledInv
<1> QED
  BY <1>1, <1>2, <1>3, <1>4, <1>5, <1>6, <1>7, <1>8, <1>9, <1>10, <1>11, <1>12,
     <1>13, <1>14, <1>15 DEF Next, PassStep, Kubernetes, Disruption

(* "the coordinators never see a registered instance's pod disappear": with *)
(* counts edited only once the caches are current, the StatefulSets always  *)
(* ask for the pod of every registered member, for every number of roles,   *)
(* counts and operator processes, through failed passes, restarts, stale    *)
(* takeovers and lost acknowledgements.                                     *)
THEOREM SettledEditsKeepPods == Settled => (Spec => []RegisteredHavePods)
<1> SUFFICES ASSUME Settled PROVE Spec => []RegisteredHavePods
  OBVIOUS
<1>1. Init => SettledInv
  BY SettledInit
<1>2. SettledInv /\ [Next]_vars => SettledInv'
  BY SettledStep
<1>3. SettledInv => RegisteredHavePods
  BY DEF SettledInv
<1> QED  BY <1>1, <1>2, <1>3, PTL DEF Spec

-----------------------------------------------------------------------------
(* Scaling implements Membership *)

(* The abstract variable asked. *)
Asked == [r \in Roles |-> live[r].replicas]

(* A step that leaves the spec, the counts and the members alone stutters   *)
(* for Membership: everything but applies, sheds, edits and registration    *)
(* commands.                                                                *)
LEMMA AbstractStutter ==
  ASSUME UNCHANGED <<spec, members>>, \A r \in Roles : live'[r].replicas = live[r].replicas
  PROVE  [Abstract!Next]_(Abstract!vars)
<1>1. Asked' = Asked
  BY DEF Asked
<1> QED  BY <1>1 DEF Abstract!vars, Asked

(* A version stored with a count that covers the declared one and every     *)
(* member asks for pods the way Membership allows.                          *)
LEMMA AbstractAsk ==
  ASSUME TypeOK, NEW r \in Roles, NEW v \in Version, Store(r, v), UNCHANGED <<spec, members>>,
         v.replicas >= spec[r], members[r] \subseteq Ordinals(v.replicas)
  PROVE  [Abstract!Next]_(Abstract!vars)
<1>1. live' = [live EXCEPT ![r] = v]
  BY DEF Store
<1>2. Asked' = [Asked EXCEPT ![r] = v.replicas] /\ Asked'[r] = v.replicas
  BY <1>1 DEF Asked, TypeOK
<1>3. v.replicas \in Nat
  BY DEF Version, Positive
<1>4. Abstract!Ask(r)
  BY <1>2, <1>3 DEF Abstract!Ask, Abstract!Below, Ordinals, Asked
<1> QED  BY <1>4 DEF Abstract!Next

(* The initial states of Scaling are initial states of Membership.          *)
LEMMA AbstractInit == Init => Abstract!Init
  BY DEF Init, Abstract!Init, Absent

(* Every step of Scaling with settled edits is a step of Membership or a    *)
(* stutter.                                                                 *)
LEMMA AbstractStep ==
  Settled /\ SettledInv /\ [Next]_vars => [Abstract!Next]_(Abstract!vars)
<1> SUFFICES ASSUME Settled, SettledInv, [Next]_vars
             PROVE  [Abstract!Next]_(Abstract!vars)
  OBVIOUS
<1> USE DEF k8sVars, passVars
<1>a. TypeOK /\ PassCovers /\ AppliedIsLive /\ ShedCovers
  BY DEF SettledInv
<1>s. spec \in [Roles -> Positive]
  BY <1>a, CountsAssumption DEF TypeOK, Positive
<1>p. pc # "idle" => \A r \in Roles : pass.declared[r] \in Positive /\ pass.applied[r] \in Positive
  BY <1>a DEF TypeOK
<1>1. CASE BeginPass \/ DeferPass \/ Observe \/ PlanDone \/ FailPass \/ Restart \/ UNCHANGED vars
  <2>1. UNCHANGED <<spec, members, live>>
    BY <1>1 DEF BeginPass, DeferPass, Observe, PlanDone, FailPass, Restart, vars
  <2> QED  BY <2>1, AbstractStutter
<1>2. ASSUME NEW r \in Roles, ApplyRole(r) PROVE [Abstract!Next]_(Abstract!vars)
  <2>1. pc # "idle" /\ UNCHANGED <<spec, members>>
    BY <1>2 DEF ApplyRole
  <2>2. pass.applied[r] >= spec[r] /\ members[r] \subseteq Ordinals(pass.applied[r])
    BY <1>a, <1>p, <1>s, <2>1 DEF PassCovers, Positive
  <2>3. /\ Resized(live[r], pass.applied[r]) \in Version
        /\ Resized(live[r], pass.applied[r]).replicas = pass.applied[r]
    BY <1>a, <1>p, <2>1, ResizedFacts DEF TypeOK
  <2>4. Store(r, Resized(live[r], pass.applied[r]))
    BY <1>2 DEF ApplyRole
  <2> QED  BY <1>a, <2>1, <2>2, <2>3, <2>4, AbstractAsk
<1>3. ASSUME NEW r \in Roles, ShedRole(r) \/ LoseShedAck(r) PROVE [Abstract!Next]_(Abstract!vars)
  <2>1. pc = "shed" /\ UNCHANGED <<spec, members>>
    BY <1>3 DEF ShedRole, LoseShedAck
  <2>2. pass.declared[r] >= spec[r] /\ members[r] \subseteq Ordinals(pass.declared[r])
    BY <1>a, <1>s, <2>1 DEF PassCovers, ShedCovers, Positive
  <2>3. /\ Resized(live[r], pass.declared[r]) \in Version
        /\ Resized(live[r], pass.declared[r]).replicas = pass.declared[r]
    BY <1>a, <1>p, <2>1, ResizedFacts DEF TypeOK
  <2>4. Store(r, Resized(live[r], pass.declared[r]))
    BY <1>3 DEF ShedRole, LoseShedAck
  <2> QED  BY <1>a, <2>1, <2>2, <2>3, <2>4, AbstractAsk
<1>4. ASSUME NEW r \in Roles, NEW o \in Ordinals(pass.applied[r]), RegisterMember(r, o)
      PROVE  [Abstract!Next]_(Abstract!vars)
  <2>1. pc = "members" /\ UNCHANGED <<spec, live>> /\ members' = [members EXCEPT ![r] = @ \cup {o}]
    BY <1>4 DEF RegisterMember
  <2>2. o \in Ordinals(spec[r]) /\ o \in Ordinals(Asked[r])
    BY <1>4, <1>a, <2>1 DEF RegisterMember, Unregistered, PassCovers, AppliedIsLive, Asked
  <2>3. Asked' = Asked
    BY <2>1 DEF Asked
  <2>4. Abstract!Join(r, o)
    BY <2>1, <2>2, <2>3 DEF Abstract!Join, Abstract!Below, Ordinals, Asked
  <2> QED  BY <2>2, <2>4 DEF Abstract!Next, Abstract!Below, Ordinals
<1>5. ASSUME NEW r \in Roles, NEW o \in Ordinals(pass.applied[r]), RetireMember(r, o)
      PROVE  [Abstract!Next]_(Abstract!vars)
  <2>1. pc = "members" /\ UNCHANGED <<spec, live>> /\ members' = [members EXCEPT ![r] = @ \ {o}]
    BY <1>5 DEF RetireMember
  <2>2. o \in members[r] \ Ordinals(spec[r])
    BY <1>5, <1>a, <1>p, <1>s, <2>1 DEF RetireMember, Unretired, RetiringOf, PassCovers, Ordinals, Positive
  <2>3. Asked' = Asked
    BY <2>1 DEF Asked
  <2>4. Abstract!Leave(r, o)
    BY <2>1, <2>2, <2>3 DEF Abstract!Leave, Abstract!Below, Ordinals, Asked
  <2> QED  BY <2>2, <2>4 DEF Abstract!Next
<1>6. ASSUME NEW r \in Roles, NEW o, PodReady(r, o) \/ PodGone(r, o)
      PROVE  [Abstract!Next]_(Abstract!vars)
  BY <1>6, AbstractStutter DEF PodReady, PodGone
<1>7. ASSUME NEW r \in Roles, ReportStatus(r) PROVE [Abstract!Next]_(Abstract!vars)
  <2>1. live[r] \in Version /\ UNCHANGED <<spec, members>>
    BY <1>7, <1>a DEF ReportStatus, TypeOK
  <2>2. live' = [live EXCEPT ![r] = Reported(live[r], Cardinality(pods[r]))]
    BY <1>7 DEF ReportStatus, Store
  <2>3. \A q \in Roles : live'[q].replicas = live[q].replicas
    BY <1>a, <2>2 DEF TypeOK, Reported
  <2> QED  BY <2>1, <2>3, AbstractStutter
<1>8. ASSUME NEW r \in Roles, NEW p \in Operators, SyncCache(p, r)
      PROVE  [Abstract!Next]_(Abstract!vars)
  BY <1>8, AbstractStutter DEF SyncCache
<1>9. ASSUME NEW r \in Roles, NEW n \in Counts, Edit(r, n)
      PROVE  [Abstract!Next]_(Abstract!vars)
  <2>1. spec' = [spec EXCEPT ![r] = n] /\ UNCHANGED <<live, members>>
    BY <1>9 DEF Edit
  <2>2. Asked' = Asked
    BY <2>1 DEF Asked
  <2>3. Abstract!Declare(r, n)
    BY <2>1, <2>2 DEF Abstract!Declare, Asked
  <2> QED  BY <2>3 DEF Abstract!Next
<1>10. ASSUME NEW p \in Operators, TakeOver(p) PROVE [Abstract!Next]_(Abstract!vars)
  BY <1>10, AbstractStutter DEF TakeOver
<1> QED
  BY <1>1, <1>2, <1>3, <1>4, <1>5, <1>6, <1>7, <1>8, <1>9, <1>10
     DEF Next, PassStep, Kubernetes, Disruption

(* With counts edited only once the caches are current, the passes          *)
(* implement the promise of module Membership for every number of roles,    *)
(* counts and operator processes: replicaCounts, applyDesired,              *)
(* shedRetiredPods and the registration commands never ask for fewer pods   *)
(* than are declared or registered, register only declared members with a   *)
(* pod, and retire only undeclared ones.                                    *)
THEOREM ScalingImplementsMembership == Settled => (Spec => ImplementsMembership)
<1> SUFFICES ASSUME Settled PROVE Spec => Abstract!Spec
  BY DEF ImplementsMembership
<1>1. Init => SettledInv /\ Abstract!Init
  BY SettledInit, AbstractInit
<1>2. SettledInv /\ [Next]_vars => SettledInv'
  BY SettledStep
<1>3. SettledInv /\ [Next]_vars => [Abstract!Next]_(Abstract!vars)
  BY AbstractStep
<1> QED  BY <1>1, <1>2, <1>3, PTL DEF Spec, Abstract!Spec

-----------------------------------------------------------------------------
(* Counts rise only to the declared ones *)

(* The numbers of a version a process may still read.                       *)
LEMMA ReadableNumbers ==
  ASSUME TypeOK, NEW p \in Operators, NEW r \in Roles, NEW v \in Readable(p, r)
  PROVE  v.rv \in Nat /\ v.gen \in Nat /\ v.replicas \in Nat
<1>1. v \in Version \cup {Absent}
  BY DEF TypeOK, Readable
<1> QED  BY <1>1 DEF Version, Absent, Positive

(* The numbers of the live StatefulSet and of the declared count.           *)
LEMMA LiveNumbers ==
  ASSUME TypeOK, NEW r \in Roles
  PROVE  /\ live[r].rv \in Nat /\ live[r].gen \in Nat /\ live[r].replicas \in Nat
         /\ spec[r] \in Positive
<1>1. live[r] \in Version \cup {Absent}
  BY DEF TypeOK
<1>2. spec[r] \in Positive
  BY CountsAssumption DEF TypeOK, Positive
<1> QED  BY <1>1, <1>2 DEF Version, Absent, Positive

(* No version a process may still read is newer than the live one.          *)
LEMMA ReadableBehind ==
  ASSUME TypeOK, NothingAhead, NEW p \in Operators, NEW r \in Roles, NEW v \in Readable(p, r)
  PROVE  v.rv <= live[r].rv
  BY DEF NothingAhead, Readable

(* Storing the live version again changes nothing.                          *)
LEMMA StoreSame ==
  ASSUME TypeOK, NEW r \in Roles, Store(r, live[r])
  PROVE  live' = live /\ events' = events
  BY DEF TypeOK, Store

(* Storing a newer version of at least the generation keeps the generations *)
(* in the order of the resource versions.                                   *)
LEMMA StoreGenerations ==
  ASSUME TypeOK, NothingAhead, NEW r \in Roles, NEW v \in Version,
         v.rv > live[r].rv, v.gen >= live[r].gen,
         Store(r, v), UNCHANGED <<cache, active>>,
         NEW q \in Roles, GenerationsGrow(q)
  PROVE  GenerationsGrow(q)'
<1>0. active \in Operators
  BY DEF TypeOK
<1>1. /\ live'[r] = v
      /\ q # r => live'[q] = live[q]
      /\ Readable(active, q)' \subseteq Readable(active, q) \cup {w \in {v} : q = r}
  BY <1>0, StoreReadable
<1>2. v.rv \in Nat /\ v.gen \in Nat
  BY DEF Version, Positive
<1>3. \A w \in Readable(active, q) : /\ w.rv \in Nat /\ w.gen \in Nat
                                     /\ w.rv <= live[q].rv /\ w.gen <= live[q].gen
  BY <1>0, ReadableNumbers, ReadableBehind DEF GenerationsGrow
<1>4. live[q].rv \in Nat /\ live[q].gen \in Nat
  BY LiveNumbers
<1>5. CASE q # r
  BY <1>1, <1>5 DEF GenerationsGrow
<1>6. CASE q = r
  <2>1. ASSUME NEW w \in Readable(active, q)' PROVE w.gen <= live'[q].gen
    BY <1>1, <1>2, <1>3, <1>4, <1>6, <2>1
  <2>2. ASSUME NEW w \in Readable(active, q)', NEW x \in Readable(active, q)', w.rv <= x.rv
        PROVE  w.gen <= x.gen
    <3>1. CASE x = v
      BY <1>1, <1>2, <1>3, <1>4, <1>6, <2>2, <3>1
    <3>2. CASE x # v
      <4>1. x \in Readable(active, q)
        BY <1>1, <2>2, <3>2
      <4>2. w # v
        BY <1>2, <1>3, <1>4, <1>6, <2>2, <4>1
      <4>3. w \in Readable(active, q)
        BY <1>1, <2>2, <4>2
      <4> QED  BY <2>2, <4>1, <4>3 DEF GenerationsGrow
    <3> QED  BY <3>1, <3>2
  <2> QED  BY <2>1, <2>2 DEF GenerationsGrow
<1> QED  BY <1>5, <1>6

(* Resizing to another count is a new generation.                           *)
LEMMA ResizedGeneration ==
  ASSUME NEW v \in Version \cup {Absent}, NEW n \in Positive
  PROVE  /\ Resized(v, n).gen \in Nat /\ v.gen \in Nat
         /\ Resized(v, n) = v \/ (Resized(v, n).rv > v.rv /\ Resized(v, n).gen > v.gen)
         /\ Resized(v, n) = v => v.replicas = n
         /\ v.replicas # n => Resized(v, n).gen = v.gen + 1
  BY DEF Resized, Version, Absent, Positive

(* Nothing that is said of the counts changes with the variables it does    *)
(* not name.                                                                *)
LEMMA ReadsUnchanged ==
  ASSUME UNCHANGED <<live, events, cache, active>>, NEW q \in Roles
  PROVE  /\ Readable(active, q)' = Readable(active, q)
         /\ GenerationsGrow(q) => GenerationsGrow(q)'
         /\ UNCHANGED <<spec, expected>> /\ ReadsInStep(q) => ReadsInStep(q)'
  BY DEF Readable, GenerationsGrow, ReadsInStep

(* The initial states: nothing is stored.                                   *)
LEMMA GrowInit == Init => GrowInv
<1> SUFFICES ASSUME Init PROVE GrowInv
  OBVIOUS
<1>1. SettledInv
  BY SettledInit
<1>2. budget.faults <= MaxFaults /\ budget.lostAcks <= MaxLostAcks
  BY BoundsAssumption DEF Init
<1>3. ASSUME NEW r \in Roles PROVE InStep(r)
  <2>1. active \in Operators /\ cache[active][r] = Absent /\ live[r] = Absent /\ events[r] = {}
    BY DEF Init
  <2>2. Readable(active, r) = {Absent}
    BY <2>1 DEF Readable
  <2>3. spec[r] \in Positive
    BY <1>1, LiveNumbers DEF SettledInv
  <2>4. GenerationsGrow(r)
    BY <2>1, <2>2 DEF GenerationsGrow, Absent
  <2>5. ReadsInStep(r)
    BY <2>1, <2>2, <2>3 DEF ReadsInStep, Absent, Larger, Positive
  <2>6. NothingShedUnseen(r) /\ AppliesInStep(r)
    BY DEF Init, NothingShedUnseen, AppliesInStep, NoExpectations
  <2> QED  BY <2>4, <2>5, <2>6 DEF InStep
<1> QED  BY <1>1, <1>2, <1>3 DEF GrowInv

(* Bounds are only spent, and a step that leaves the operator untroubled is *)
(* none of the faults.                                                      *)
LEMMA TroubleStays ==
  ASSUME TypeOK, [Next]_vars,
         budget.faults <= MaxFaults, budget.lostAcks <= MaxLostAcks
  PROVE  /\ budget'.faults <= MaxFaults /\ budget'.lostAcks <= MaxLostAcks
         /\ Untroubled' => /\ Untroubled /\ active' = active
                           /\ ~ FailPass /\ ~ Restart
                           /\ \A r \in Roles : ~ LoseShedAck(r)
                           /\ \A p \in Operators : ~ TakeOver(p)
<1> USE DEF k8sVars, passVars
<1>1. budget \in [edits : Nat, faults : Nat, lostAcks : Nat] /\ MaxFaults \in Nat /\ MaxLostAcks \in Nat
  BY BoundsAssumption DEF TypeOK
<1>2. ASSUME NEW kind \in {"edits", "faults", "lostAcks"}, Spend(kind)
      PROVE  /\ budget'[kind] = budget[kind] - 1
             /\ \A k \in {"edits", "faults", "lostAcks"} \ {kind} : budget'[k] = budget[k]
  BY <1>1, <1>2 DEF Spend
<1>3. CASE FailPass \/ Restart \/ \E p \in Operators : TakeOver(p)
  <2>1. Spend("faults")
    BY <1>3 DEF FailPass, Restart, TakeOver
  <2>2. budget'.faults = budget.faults - 1 /\ budget'.lostAcks = budget.lostAcks
    BY <1>2, <2>1
  <2> QED  BY <1>1, <2>2 DEF Untroubled
<1>4. CASE \E r \in Roles : LoseShedAck(r)
  <2>1. Spend("lostAcks")
    BY <1>4 DEF LoseShedAck
  <2>2. budget'.lostAcks = budget.lostAcks - 1 /\ budget'.faults = budget.faults
    BY <1>2, <2>1
  <2> QED  BY <1>1, <2>2 DEF Untroubled
<1>5. CASE \E r \in Roles, n \in Counts : Edit(r, n)
  <2>1. Spend("edits") /\ active' = active
    BY <1>5 DEF Edit
  <2>2. budget'.lostAcks = budget.lostAcks /\ budget'.faults = budget.faults
    BY <1>2, <2>1
  <2> QED  BY <1>3, <1>4, <2>1, <2>2 DEF Untroubled
<1>6. CASE UNCHANGED <<budget, active>>
  BY <1>3, <1>4, <1>6 DEF Untroubled
<1>7. CASE PassStep
  BY <1>6, <1>7 DEF PassStep, BeginPass, DeferPass, Observe, PlanDone, ApplyRole, ShedRole,
     RegisterMember, RetireMember
<1>8. CASE Kubernetes
  BY <1>6, <1>8 DEF Kubernetes, PodReady, PodGone, ReportStatus, SyncCache
<1>9. CASE UNCHANGED vars
  BY <1>6, <1>9 DEF vars
<1> QED  BY <1>3, <1>4, <1>5, <1>7, <1>8, <1>9 DEF Next, Disruption

(* The counts stay in step.                                                 *)
LEMMA GrowStep == Settled /\ GrowInv /\ [Next]_vars => GrowInv'
<1> SUFFICES ASSUME Settled, GrowInv, [Next]_vars PROVE GrowInv'
  OBVIOUS
<1> USE DEF k8sVars, passVars
<1>a. SettledInv /\ SettledInv'
  BY SettledStep DEF GrowInv
<1>b. /\ TypeOK /\ TypeOK' /\ NothingAhead /\ NothingAhead'
      /\ PassCovers /\ AppliedIsLive
  BY <1>a DEF SettledInv
<1>c. budget'.faults <= MaxFaults /\ budget'.lostAcks <= MaxLostAcks
  BY <1>b, TroubleStays DEF GrowInv
<1> SUFFICES ASSUME Untroubled', NEW q \in Roles PROVE InStep(q)'
  BY <1>a, <1>c DEF GrowInv
<1>d. /\ Untroubled /\ active' = active /\ active \in Operators
      /\ ~ FailPass /\ ~ Restart
      /\ \A r \in Roles : ~ LoseShedAck(r)
      /\ \A p \in Operators : ~ TakeOver(p)
  BY <1>b, TroubleStays DEF GrowInv, TypeOK
<1>e. \A r \in Roles : GenerationsGrow(r) /\ ReadsInStep(r) /\ NothingShedUnseen(r) /\ AppliesInStep(r)
  BY <1>d DEF GrowInv, InStep
<1>n. \A r \in Roles : /\ live[r].rv \in Nat /\ live[r].gen \in Nat /\ live[r].replicas \in Nat
                       /\ spec[r] \in Nat \ {0}
  BY <1>b, LiveNumbers DEF Positive
<1>v. \A r \in Roles : \A v \in Readable(active, r) :
         v.rv \in Nat /\ v.gen \in Nat /\ v.replicas \in Nat /\ v.rv <= live[r].rv
  BY <1>b, <1>d, ReadableNumbers, ReadableBehind
<1>x. \A r \in Roles : expected[r] \in Nat
  BY <1>b DEF TypeOK
<1>p. ASSUME pc # "idle", NEW r \in Roles
      PROVE  /\ pass.declared[r] = spec[r] /\ pass.applied[r] \in Nat \ {0} /\ pass.ready[r] \in Int
             /\ pass.todo \subseteq Roles
             /\ pass.declared[r] <= pass.applied[r]
  BY <1>b, <1>p DEF TypeOK, PassCovers, Positive
<1>i. ASSUME pc' = "idle" PROVE AppliesInStep(q)'
  BY <1>i DEF AppliesInStep
<1>k. cache[active][q] \in Readable(active, q)
  BY DEF Readable
<1>1. ASSUME BeginPass PROVE InStep(q)'
  <2>1. PICK current \in [Roles -> UNION { currentReplicas(r) : r \in Roles }] :
          /\ \A r \in Roles : current[r] \in currentReplicas(r)
          /\ pass' = [ declared |-> spec,
                       applied  |-> [r \in Roles |-> Larger(spec[r], current[r])],
                       ready    |-> [r \in Roles |-> cache[active][r].ready],
                       todo     |-> Roles ]
    BY <1>1 DEF BeginPass
  <2>2. /\ pass'.declared[q] = spec[q] /\ pass'.applied[q] = Larger(spec[q], current[q])
        /\ pass'.ready[q] = cache[active][q].ready
    BY <2>1
  <2>3. /\ pc' = "apply" /\ UNCHANGED <<spec, live, events, pods, active, cache>>
        /\ Satisfied(q, cache[active][q])
        /\ expected'[q] = 0
    BY <1>1, <1>d DEF BeginPass, Forget
  <2>4. GenerationsGrow(q)' /\ Readable(active, q)' = Readable(active, q)
    BY <1>e, <2>3, ReadsUnchanged
  <2>5. cache[active][q] # Absent => cache[active][q].gen >= expected[q]
    BY <1>v, <1>k, <1>x, <2>3 DEF Satisfied
  <2>6. \A v \in Readable(active, q) : v.gen >= expected[q]
    <3> SUFFICES ASSUME NEW v \in Readable(active, q) PROVE v.gen >= expected[q]
      OBVIOUS
    <3>1. CASE cache[active][q] = Absent
      BY <1>e, <1>v, <3>1 DEF NothingShedUnseen
    <3>2. CASE cache[active][q] # Absent
      <4>0. v = cache[active][q] \/ v.rv > cache[active][q].rv
        BY DEF Readable
      <4>1. cache[active][q].rv <= v.rv
        BY <1>v, <1>k, <4>0
      <4>2. cache[active][q].gen <= v.gen
        BY <1>e, <1>k, <4>1 DEF GenerationsGrow
      <4> QED  BY <1>v, <1>k, <1>x, <2>5, <3>2, <4>2
    <3> QED  BY <3>1, <3>2
  <2>7. ReadsInStep(q)'
    BY <1>e, <2>3, <2>4, <2>6 DEF ReadsInStep
  <2>8. NothingShedUnseen(q)'
    BY <1>e, <2>2, <2>3 DEF NothingShedUnseen, Absent
  <2>9. current[q] \in Nat /\ current[q] <= Larger(spec[q], live[q].replicas)
        /\ live[q].replicas <= Larger(spec[q], current[q])
    <3>1. current[q] \in Nat
      BY <1>b, <2>1, CurrentType
    <3>2. CASE cache[active][q] = Absent
      <4>1. pods[q] \subseteq Ordinals(live[q].replicas)
        BY <1>e, <3>2 DEF NothingShedUnseen
      <4>2. current[q] <= live[q].replicas
        BY <1>n, <2>1, <3>2, <4>1 DEF currentReplicas, runningOrdinals, Ordinals
      <4>3. live[q].replicas <= spec[q]
        BY <1>e, <1>k, <1>n, <3>2 DEF ReadsInStep, Absent, Larger
      <4> QED  BY <1>n, <3>1, <4>2, <4>3 DEF Larger
    <3>3. CASE cache[active][q] # Absent
      <4>1. current[q] = cache[active][q].replicas
        BY <2>1, <3>3 DEF currentReplicas
      <4> QED  BY <1>e, <1>k, <2>6, <3>1, <4>1 DEF ReadsInStep
    <3> QED  BY <3>2, <3>3
  <2>10. /\ live[q].replicas <= Larger(spec[q], current[q])
         /\ Larger(spec[q], current[q]) \in {live[q].replicas, spec[q]}
    BY <1>n, <2>9 DEF Larger
  <2>11. AppliesInStep(q)'
    BY <2>2, <2>3, <2>10 DEF AppliesInStep
  <2> QED  BY <2>4, <2>7, <2>8, <2>11 DEF InStep
<1>2. ASSUME DeferPass PROVE InStep(q)'
  <2>1. /\ pc = "idle" /\ pc' = "idle" /\ UNCHANGED <<spec, live, events, pods, active, cache>>
        /\ expected'[q] = IF Satisfied(q, cache[active][q]) THEN 0 ELSE expected[q]
    BY <1>2, <1>d DEF DeferPass, Forget
  <2>2. GenerationsGrow(q)' /\ Readable(active, q)' = Readable(active, q)
    BY <1>e, <2>1, ReadsUnchanged
  <2>3. NothingShedUnseen(q)'
    BY <1>e, <2>1 DEF NothingShedUnseen
  <2>4. CASE ~ Satisfied(q, cache[active][q])
    BY <1>e, <1>i, <2>1, <2>2, <2>3, <2>4 DEF InStep, ReadsInStep
  <2>5. CASE Satisfied(q, cache[active][q])
    <3>1. \A v \in Readable(active, q) : v.gen >= expected[q]
      <4> SUFFICES ASSUME NEW v \in Readable(active, q) PROVE v.gen >= expected[q]
        OBVIOUS
      <4>1. CASE cache[active][q] = Absent
        BY <1>e, <1>v, <4>1 DEF NothingShedUnseen
      <4>2. CASE cache[active][q] # Absent
        <5>0. v = cache[active][q] \/ v.rv > cache[active][q].rv
          BY DEF Readable
        <5>1. cache[active][q].rv <= v.rv
          BY <1>v, <1>k, <5>0
        <5>2. cache[active][q].gen <= v.gen
          BY <1>e, <1>k, <5>1 DEF GenerationsGrow
        <5> QED  BY <1>v, <1>k, <1>x, <2>5, <4>2, <5>2 DEF Satisfied
      <4> QED  BY <4>1, <4>2
    <3>2. ReadsInStep(q)'
      BY <1>e, <2>1, <2>2, <3>1 DEF ReadsInStep
    <3> QED  BY <1>i, <2>1, <2>2, <2>3, <3>2 DEF InStep
  <2> QED  BY <2>4, <2>5
<1>3. ASSUME Observe PROVE InStep(q)'
  <2>1. UNCHANGED <<spec, live, events, pods, active, cache, expected>> /\ pc = "gate"
    BY <1>3 DEF Observe
  <2>2. GenerationsGrow(q)' /\ ReadsInStep(q)'
    BY <1>e, <2>1, ReadsUnchanged
  <2>3. CASE pc' = "idle"
    BY <1>e, <1>i, <2>1, <2>2, <2>3 DEF InStep, NothingShedUnseen
  <2>4. CASE workloadsReady /\ pc' = "members" /\ pass' = pass
    BY <1>e, <2>1, <2>2, <2>4 DEF InStep, NothingShedUnseen, AppliesInStep, workloadsReady
  <2>5. CASE /\ workloadsReady /\ pc' = "shed"
             /\ pass' = [pass EXCEPT !.todo = { r \in Roles : RetiringOf(r) # {} }]
    <3>1. /\ pass'.declared[q] = pass.declared[q] /\ pass'.applied[q] = pass.applied[q]
          /\ pass'.ready[q] = pass.ready[q]
          /\ pass'.todo = { r \in Roles : RetiringOf(r) # {} }
      BY <1>b, <2>1, <2>5 DEF TypeOK
    <3>2. q \in pass'.todo => pass.declared[q] < pass.applied[q]
      BY <1>n, <1>p, <2>1, <3>1 DEF RetiringOf
    <3>3. live[q].replicas = pass.applied[q] /\ pass.ready[q] >= pass.applied[q]
      BY <1>b, <2>1, <2>5 DEF AppliedIsLive, workloadsReady
    <3> QED  BY <1>e, <2>1, <2>2, <2>5, <3>1, <3>2, <3>3 DEF InStep, NothingShedUnseen, AppliesInStep
  <2> QED  BY <1>3, <2>3, <2>4, <2>5 DEF Observe, Finish
<1>4. ASSUME PlanDone PROVE InStep(q)'
  <2>1. UNCHANGED <<spec, live, events, pods, active, cache, expected>> /\ pc' = "idle"
    BY <1>4 DEF PlanDone, Finish
  <2> QED  BY <1>e, <1>i, <2>1, ReadsUnchanged DEF InStep, NothingShedUnseen
<1>5. ASSUME NEW r \in Roles, ApplyRole(r) PROVE InStep(q)'
  <2> DEFINE v == Resized(live[r], pass.applied[r])
  <2>1. /\ pc = "apply" /\ r \in pass.todo /\ Store(r, v)
        /\ UNCHANGED <<spec, pods, active, cache, expected>>
        /\ pc' \in {"apply", "gate"}
    BY <1>5 DEF ApplyRole, NextRole
  <2>2. /\ pass'.declared = pass.declared /\ pass'.applied = pass.applied /\ pass'.ready = pass.ready
        /\ pass'.todo = pass.todo \ {r}
    BY <1>b, <1>5 DEF ApplyRole, TypeOK
  <2>3. pass.applied[r] \in Positive /\ live[r] \in Version \cup {Absent}
    BY <1>b, <2>1 DEF TypeOK
  <2>4. /\ v \in Version /\ v.replicas = pass.applied[r]
        /\ v = live[r] \/ (v.rv > live[r].rv /\ v.gen > live[r].gen)
    BY <2>3, ResizedFacts, ResizedGeneration
  <2>5. /\ live[r].replicas <= pass.applied[r]
        /\ pass.applied[r] \in {live[r].replicas, spec[r]}
    BY <1>e, <1>p, <2>1 DEF AppliesInStep
  <2> HIDE DEF v
  <2>6. CASE v = live[r]
    <3>1. UNCHANGED <<live, events>>
      BY <1>b, <2>1, <2>6, StoreSame
    <3>2. GenerationsGrow(q)' /\ ReadsInStep(q)'
      BY <1>e, <2>1, <3>1, ReadsUnchanged
    <3> QED  BY <1>e, <2>1, <2>2, <3>1, <3>2 DEF InStep, NothingShedUnseen, AppliesInStep
  <2>7. CASE v # live[r]
    <3>1. v.rv > live[r].rv /\ v.gen >= live[r].gen /\ v.gen \in Nat
      BY <1>n, <2>4, <2>7 DEF Version, Positive
    <3>2. /\ live'[r] = v
          /\ q # r => live'[q] = live[q]
          /\ Readable(active, q)' \subseteq Readable(active, q) \cup {w \in {v} : q = r}
      BY <1>b, <1>d, <2>1, <2>4, <3>1, StoreReadable
    <3>3. GenerationsGrow(q)'
      BY <1>b, <1>e, <2>1, <2>4, <3>1, StoreGenerations
    <3>4. CASE q # r
      BY <1>e, <2>1, <2>2, <3>2, <3>3, <3>4
      DEF InStep, ReadsInStep, NothingShedUnseen, AppliesInStep
    <3>5. CASE q = r
      <4>1. live'[q].replicas = pass.applied[r] /\ pass.applied[r] \in Nat
        BY <2>3, <2>4, <3>2, <3>5 DEF Positive
      <4>2. ReadsInStep(q)'
        <5> SUFFICES ASSUME NEW w \in Readable(active, q)'
                     PROVE  /\ w.gen >= expected[q] => w.replicas <= Larger(spec[q], live'[q].replicas)
                            /\ live'[q].replicas <= Larger(spec[q], w.replicas)
          BY <2>1 DEF ReadsInStep
        <5>1. CASE w = v
          BY <1>n, <2>4, <4>1, <5>1 DEF Larger
        <5>2. CASE w \in Readable(active, q)
          <6>1. /\ w.gen >= expected[q] => w.replicas <= Larger(spec[q], live[q].replicas)
                /\ live[q].replicas <= Larger(spec[q], w.replicas)
            BY <1>e, <5>2 DEF ReadsInStep
          <6>2. w.replicas \in Nat
            BY <1>v, <5>2
          <6> QED  BY <1>n, <2>5, <3>5, <4>1, <6>1, <6>2 DEF Larger
        <5> QED  BY <3>2, <5>1, <5>2
      <4>3. NothingShedUnseen(q)'
        BY <1>e, <1>n, <2>1, <2>2, <2>5, <3>5, <4>1 DEF NothingShedUnseen, Ordinals
      <4>4. AppliesInStep(q)'
        BY <2>1, <2>2, <3>5 DEF AppliesInStep
      <4> QED  BY <3>3, <4>2, <4>3, <4>4 DEF InStep
    <3> QED  BY <3>4, <3>5
  <2> QED  BY <2>6, <2>7
<1>6. ASSUME NEW r \in Roles, ShedRole(r) PROVE InStep(q)'
  <2> DEFINE v == Resized(live[r], pass.declared[r])
  <2>1. /\ pc = "shed" /\ r \in pass.todo /\ Store(r, v)
        /\ UNCHANGED <<spec, pods, active, cache>>
        /\ expected' = [expected EXCEPT ![r] = v.gen]
        /\ \/ pc' = "idle"
           \/ pc' = "shed" /\ pass' = [pass EXCEPT !.todo = pass.todo \ {r}]
    BY <1>6 DEF ShedRole, NextRole, Expect, Finish
  <2>2. live[r].replicas = pass.applied[r] /\ pass.declared[r] < pass.applied[r]
    BY <1>e, <2>1 DEF AppliesInStep
  <2>3. pass.declared[r] \in Positive /\ live[r] \in Version \cup {Absent}
    BY <1>b, <2>1 DEF TypeOK
  <2>4. live[r].replicas # pass.declared[r]
    BY <1>n, <1>p, <2>1, <2>2
  <2>5. /\ v \in Version /\ v.replicas = pass.declared[r]
        /\ v.rv > live[r].rv /\ v.gen = live[r].gen + 1
    BY <2>3, <2>4, ResizedFacts, ResizedGeneration
  <2> HIDE DEF v
  <2>6. v.gen >= live[r].gen /\ v.gen \in Nat
    BY <1>n, <2>5
  <2>7. /\ live'[r] = v
        /\ q # r => live'[q] = live[q]
        /\ Readable(active, q)' \subseteq Readable(active, q) \cup {w \in {v} : q = r}
    BY <1>b, <1>d, <2>1, <2>5, StoreReadable
  <2>8. GenerationsGrow(q)'
    BY <1>b, <1>e, <2>1, <2>5, <2>6, StoreGenerations
  <2>9. expected'[q] = IF q = r THEN v.gen ELSE expected[q]
    BY <1>b, <2>1 DEF TypeOK
  <2>10. cache[active][q] # Absent
    BY <1>e, <1>p, <2>1 DEF NothingShedUnseen, AppliesInStep
  <2>11. NothingShedUnseen(q)'
    BY <2>1, <2>10 DEF NothingShedUnseen
  <2>12. AppliesInStep(q)'
    <3>1. CASE pc' = "idle"
      BY <1>i, <3>1
    <3>2. CASE pc' = "shed" /\ pass' = [pass EXCEPT !.todo = pass.todo \ {r}]
      <4>1. /\ pass'.declared = pass.declared /\ pass'.applied = pass.applied
            /\ pass'.ready = pass.ready /\ pass'.todo = pass.todo \ {r}
        BY <1>b, <2>1, <3>2 DEF TypeOK
      <4> QED  BY <1>e, <2>1, <2>7, <3>2, <4>1 DEF AppliesInStep
    <3> QED  BY <2>1, <3>1, <3>2
  <2>13. ReadsInStep(q)'
    <3>1. CASE q # r
      BY <1>e, <2>1, <2>7, <2>9, <3>1 DEF ReadsInStep
    <3>2. CASE q = r
      <4>1. live'[q].replicas = spec[q]
        BY <1>p, <2>1, <2>5, <2>7, <3>2
      <4>2. \A w \in Readable(active, q)' :
              /\ w.replicas \in Nat
              /\ w.gen >= expected'[q] => w = v
        BY <1>e, <1>n, <1>v, <2>5, <2>6, <2>7, <2>9, <3>2 DEF GenerationsGrow, Version, Positive
      <4>3. v.replicas = spec[q]
        BY <1>p, <2>1, <2>5, <3>2
      <4> QED  BY <1>n, <2>1, <4>1, <4>2, <4>3 DEF ReadsInStep, Larger
    <3> QED  BY <3>1, <3>2
  <2> QED  BY <2>8, <2>11, <2>12, <2>13 DEF InStep
<1>7. ASSUME NEW r \in Roles, NEW o, RegisterMember(r, o) \/ RetireMember(r, o) PROVE InStep(q)'
  <2>1. UNCHANGED <<spec, live, events, pods, active, cache, expected, pc, pass>>
    BY <1>7 DEF RegisterMember, RetireMember
  <2> QED  BY <1>e, <2>1, ReadsUnchanged DEF InStep, NothingShedUnseen, AppliesInStep
<1>8. ASSUME NEW r \in Roles, NEW o, PodReady(r, o) \/ PodGone(r, o) PROVE InStep(q)'
  <2>1. UNCHANGED <<spec, live, events, active, cache, expected, pc, pass>>
    BY <1>8 DEF PodReady, PodGone
  <2>2. GenerationsGrow(q)' /\ ReadsInStep(q)' /\ AppliesInStep(q)'
    BY <1>e, <2>1, ReadsUnchanged DEF AppliesInStep
  <2>3. pods[q] \subseteq Ordinals(live[q].replicas) => pods'[q] \subseteq Ordinals(live[q].replicas)
    BY <1>b, <1>8 DEF PodReady, PodGone, TypeOK
  <2> QED  BY <1>e, <2>1, <2>2, <2>3 DEF InStep, NothingShedUnseen
<1>9. ASSUME NEW r \in Roles, ReportStatus(r) PROVE InStep(q)'
  <2> DEFINE v == Reported(live[r], Cardinality(pods[r]))
  <2>1. Store(r, v) /\ UNCHANGED <<spec, pods, active, cache, expected, pc, pass>> /\ live[r] # Absent
    BY <1>9 DEF ReportStatus
  <2>2. live[r] \in Version /\ Cardinality(pods[r]) \in Nat
    BY <1>b, <2>1, FS_CardinalityType DEF TypeOK
  <2>3. v \in Version /\ v.replicas = live[r].replicas /\ v.rv > live[r].rv
    BY <2>2, ReportedFacts
  <2>4. v.gen = live[r].gen
    BY DEF Reported
  <2> HIDE DEF v
  <2>5. v.gen >= live[r].gen
    BY <1>n, <2>4
  <2>6. /\ live'[r] = v
        /\ q # r => live'[q] = live[q]
        /\ Readable(active, q)' \subseteq Readable(active, q) \cup {w \in {v} : q = r}
    BY <1>b, <1>d, <2>1, <2>3, StoreReadable
  <2>7. live'[q].replicas = live[q].replicas
    BY <2>3, <2>6
  <2>8. GenerationsGrow(q)'
    BY <1>b, <1>e, <2>1, <2>3, <2>5, StoreGenerations
  <2>9. ReadsInStep(q)'
    <3> SUFFICES ASSUME NEW w \in Readable(active, q)'
                 PROVE  /\ w.gen >= expected[q] => w.replicas <= Larger(spec[q], live[q].replicas)
                        /\ live[q].replicas <= Larger(spec[q], w.replicas)
      BY <2>1, <2>7 DEF ReadsInStep
    <3>1. CASE w \in Readable(active, q)
      BY <1>e, <3>1 DEF ReadsInStep
    <3>2. CASE w = v /\ q = r
      BY <1>n, <2>3, <3>2 DEF Larger
    <3> QED  BY <2>6, <3>1, <3>2
  <2>10. NothingShedUnseen(q)' /\ AppliesInStep(q)'
    BY <1>e, <2>1, <2>7 DEF NothingShedUnseen, AppliesInStep
  <2> QED  BY <2>8, <2>9, <2>10 DEF InStep
<1>10. ASSUME NEW p \in Operators, NEW r \in Roles, SyncCache(p, r) PROVE InStep(q)'
  <2>1. UNCHANGED <<spec, live, pods, active, expected, pc, pass>>
    BY <1>10 DEF SyncCache
  <2>2. PICK v \in events[r] : v.rv > cache[p][r].rv /\ cache' = [cache EXCEPT ![p][r] = v]
    BY <1>10 DEF SyncCache
  <2>3. events'[q] \subseteq events[q]
    BY <1>b, <1>10 DEF SyncCache, Undelivered, TypeOK
  <2>4. \/ cache'[active][q] = cache[active][q]
        \/ /\ cache'[active][q] = v /\ v \in events[q] /\ v.rv > cache[active][q].rv
           /\ v # Absent
    <3>1. cache'[active][q] = IF p = active /\ r = q THEN v ELSE cache[active][q]
      BY <1>b, <1>d, <2>2 DEF TypeOK
    <3>2. v \in Version /\ v # Absent
      BY <1>b, <2>2 DEF TypeOK, Version, Absent, Positive
    <3> QED  BY <2>2, <3>1, <3>2
  <2>5. Readable(active, q)' \subseteq Readable(active, q)
    <3>1. \A w \in events[q] : w.rv \in Nat
      BY <1>b DEF TypeOK, Version, Positive
    <3>2. cache[active][q].rv \in Nat
      BY <1>v, <1>k
    <3> QED  BY <2>1, <2>3, <2>4, <3>1, <3>2 DEF Readable
  <2>6. GenerationsGrow(q)' /\ ReadsInStep(q)'
    BY <1>e, <2>1, <2>5 DEF GenerationsGrow, ReadsInStep
  <2>7. NothingShedUnseen(q)' /\ AppliesInStep(q)'
    BY <1>e, <2>1, <2>4 DEF NothingShedUnseen, AppliesInStep
  <2> QED  BY <2>6, <2>7 DEF InStep
<1>11. ASSUME NEW r \in Roles, NEW n \in Counts, Edit(r, n) PROVE InStep(q)'
  <2>1. /\ pc = "idle" /\ CachesCurrent /\ UNCHANGED <<live, events, pods, active, cache, expected, pc>>
        /\ spec' = [spec EXCEPT ![r] = n]
    BY <1>11 DEF Edit
  <2>2. cache[active][q] = live[q]
    BY <1>d, <2>1 DEF CachesCurrent
  <2>3. \A v \in Readable(active, q) : v = live[q]
    BY <1>b, <1>n, <1>v, <2>2 DEF Readable
  <2>4. GenerationsGrow(q)' /\ Readable(active, q)' = Readable(active, q)
    BY <1>e, <2>1, ReadsUnchanged
  <2>5. spec'[q] \in Nat
    BY <1>b, CountsAssumption DEF TypeOK
  <2>6. ReadsInStep(q)'
    BY <1>n, <2>1, <2>3, <2>4, <2>5 DEF ReadsInStep, Larger
  <2> QED  BY <1>e, <1>i, <2>1, <2>4, <2>6 DEF InStep, NothingShedUnseen
<1>12. CASE UNCHANGED vars
  BY <1>e, <1>12, ReadsUnchanged DEF vars, InStep, NothingShedUnseen, AppliesInStep
<1> QED
  BY <1>d, <1>1, <1>2, <1>3, <1>4, <1>5, <1>6, <1>7, <1>8, <1>9, <1>10, <1>11, <1>12
     DEF Next, PassStep, Kubernetes, Disruption

(* Which steps write StatefulSets.                                          *)
LEMMA LiveWriters ==
  ASSUME [Next]_vars
  PROVE  \/ live' = live
         \/ \E r \in Roles : ApplyRole(r) \/ ShedRole(r) \/ LoseShedAck(r) \/ ReportStatus(r)
  BY DEF Next, PassStep, Kubernetes, Disruption, vars, k8sVars, BeginPass, DeferPass, Observe, PlanDone,
         RegisterMember, RetireMember, PodReady, PodGone, SyncCache, Edit, FailPass, Restart, TakeOver

(* A replica count rises only to the declared one as long as no call fails  *)
(* and no other process takes over: a cache that is late never brings back  *)
(* the pods a shrink shed, since the pass waits for the shrink it expects   *)
(* (StatefulSets.Satisfied and the Expect in shedRetiredPods).              *)
THEOREM RisesOnlyToDeclared == Settled => (Spec => GrownOnlyToDeclared)
<1> SUFFICES ASSUME Settled PROVE Spec => GrownOnlyToDeclared
  OBVIOUS
<1>1. GrowInv /\ [Next]_vars =>
        [ \A r \in Roles :
            budget.faults = MaxFaults /\ budget.lostAcks = MaxLostAcks
              /\ live'[r].replicas > live[r].replicas
            => live'[r].replicas = pass.declared[r] ]_vars
  <2> SUFFICES ASSUME GrowInv, [Next]_vars, NEW q \in Roles, Untroubled,
                      live'[q].replicas > live[q].replicas
               PROVE  live'[q].replicas = pass.declared[q]
    BY DEF Untroubled
  <2>1. TypeOK /\ TypeOK' /\ AppliesInStep(q) /\ PassCovers
    BY TypeStep DEF GrowInv, SettledInv, InStep
  <2>2. live[q].replicas \in Nat /\ live'[q].replicas \in Nat
    BY <2>1, LiveNumbers DEF TypeOK, Version, Absent, Positive
  <2>3. live' # live
    BY <2>2
  <2>4. PICK r \in Roles : ApplyRole(r) \/ ShedRole(r) \/ LoseShedAck(r) \/ ReportStatus(r)
    BY <2>3, LiveWriters
  <2>5. r = q
    BY <2>1, <2>2, <2>4 DEF ApplyRole, ShedRole, LoseShedAck, ReportStatus, Store, TypeOK
  <2>6. live[q] \in Version \cup {Absent}
    BY <2>1 DEF TypeOK
  <2>7. CASE ApplyRole(q)
    <3>1. pc = "apply" /\ q \in pass.todo
      BY <2>7 DEF ApplyRole, NextRole
    <3>2. pass.applied[q] \in Positive
      BY <2>1, <3>1 DEF TypeOK
    <3>3. live'[q] = Resized(live[q], pass.applied[q])
      BY <2>1, <2>7 DEF ApplyRole, Store, TypeOK
    <3>4. live'[q].replicas = pass.applied[q]
      BY <2>6, <3>2, <3>3, ResizedFacts
    <3> QED  BY <2>1, <2>2, <3>1, <3>4 DEF AppliesInStep
  <2>8. CASE ShedRole(q) \/ LoseShedAck(q)
    <3>1. pc = "shed"
      BY <2>8 DEF ShedRole, LoseShedAck
    <3>2. pass.declared[q] \in Positive
      BY <2>1, <3>1 DEF TypeOK
    <3>3. live'[q] = Resized(live[q], pass.declared[q])
      BY <2>1, <2>8 DEF ShedRole, LoseShedAck, Store, TypeOK
    <3> QED  BY <2>6, <3>2, <3>3, ResizedFacts
  <2>9. CASE ReportStatus(q)
    <3>1. live[q] \in Version /\ Cardinality(pods[q]) \in Nat
      BY <2>1, <2>6, <2>9, FS_CardinalityType DEF ReportStatus, TypeOK
    <3>2. live'[q] = Reported(live[q], Cardinality(pods[q]))
      BY <2>1, <2>9 DEF ReportStatus, Store, TypeOK
    <3>3. live'[q].replicas = live[q].replicas
      BY <3>1, <3>2, ReportedFacts
    <3> QED  BY <2>2, <3>3
  <2> QED  BY <2>4, <2>5, <2>7, <2>8, <2>9
<1>2. Init => GrowInv
  BY GrowInit
<1>3. GrowInv /\ [Next]_vars => GrowInv'
  BY GrowStep
<1> QED  BY <1>1, <1>2, <1>3, PTL DEF Spec, GrownOnlyToDeclared
=============================================================================
