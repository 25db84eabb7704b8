---------------------------- MODULE VolumesProofs ---------------------------
(***************************************************************************)
(* The safety properties of Volumes, for every set of templates, of sizes  *)
(* and of counts and every lag of the caches: a StatefulSet is recreated   *)
(* around its members, deleted only after the claims were grown, and the   *)
(* storage a pass reports usable is.                                       *)
(***************************************************************************)
EXTENDS Volumes, WellFoundedInduction, TLAPS

-----------------------------------------------------------------------------
(* The inductive invariant *)

(* The versions of an object that are stored, cached or on their way. *)
Versions(log) == { log[i] : i \in 1 .. Len(log) }

IsLog(log) == log \in Seq(Versions(log)) /\ Len(log) >= 1

StoredSet == [uid : Nat, replicas : Nat, sizes : [Templates -> Sizes], deleting : BOOLEAN]
Claim     == [request : Nat, volume : Nat, capacity : Nat, infeasible : BOOLEAN]

(* A count that keeps the pod of every member, if no pass missed one. *)
Keeps(n) == missed \/ members \subseteq Ordinals(n)

NotAbove(small, large) == \A t \in Templates : small[t] <= large[t]

(* Every StatefulSet a pass may read asks for the pods of the members, and  *)
(* has templates no larger than the declared ones.                          *)
SetsKeep ==
  \A v \in Versions(setLog) :
    v # NoSet => v \in StoredSet /\ NotAbove(v.sizes, spec.sizes) /\ Keeps(v.replicas)

(* A UID is that of one StatefulSet, whose templates never change. *)
SameTemplates(v, w) == v # NoSet /\ w # NoSet /\ v.uid = w.uid => v.sizes = w.sizes

UidsIdentify ==
  /\ \A v, w \in Versions(setLog) : SameTemplates(v, w)
  /\ \E bound \in Nat : \A v \in Versions(setLog) : v.uid <= bound

(* The members are the ordinals below a count, and the pods finitely many. *)
PodsBounded ==
  /\ \E top \in Counts : members = Ordinals(top)
  /\ \A P \in Versions(podLog) :
       P \subseteq Nat /\ \E bound \in Nat : \A o \in P : o <= bound

IsClaims(claimed) ==
  /\ claimed = [c \in DOMAIN claimed |-> claimed[c]]
  /\ \A c \in DOMAIN claimed : /\ c[1] \in Templates
                               /\ claimed[c] \in Claim
                               /\ claimed[c].capacity <= claimed[c].volume

(* Claims are never deleted, and only grow. *)
Grown(old, new) ==
  \A c \in DOMAIN old :
    /\ c \in DOMAIN new
    /\ old[c].request <= new[c].request
    /\ old[c].volume <= new[c].volume
    /\ old[c].capacity <= new[c].capacity

ClaimsGrow == \A claimed \in Versions(claimLog) : IsClaims(claimed) /\ Grown(claimed, claims)

TypeInv ==
  /\ spec \in [count : Counts, sizes : [Templates -> Sizes]]
  /\ IsLog(setLog) /\ IsLog(podLog) /\ IsLog(claimLog)
  /\ members \subseteq Nat
  /\ missed \in BOOLEAN
  /\ pc \in {"idle", "claims", "patch", "recreate", "apply"}
  /\ pass = [count |-> pass.count, desired |-> pass.desired, live |-> pass.live, listed |-> pass.listed,
             running |-> pass.running, todo |-> pass.todo, recreate |-> pass.recreate, done |-> pass.done]

(* What the pass read when it began: sizes that were declared, and a        *)
(* StatefulSet that was stored.                                             *)
PassRead ==
  pc # "idle" =>
    /\ pass.count \in Nat /\ Keeps(pass.count)
    /\ pass.desired \in [Templates -> Sizes] /\ NotAbove(pass.desired, spec.sizes)
    /\ pass.live # NoSet => pass.live \in StoredSet /\ NotAbove(pass.live.sizes, pass.desired)
    /\ \A v \in Versions(setLog) : SameTemplates(v, pass.live)

(* What it listed, and decided on it. *)
Asked(c) == pass.listed[c].request >= pass.desired[c[1]]

PassDecided ==
  pc \in {"patch", "recreate", "apply"} =>
    /\ IsClaims(pass.listed) /\ Grown(pass.listed, claims)
    /\ \A c \in pass.todo : c \in DOMAIN pass.listed /\ ~ Asked(c)
    /\ pc = "recreate" <=> pass.recreate /\ pass.todo = {}
    /\ pass.recreate => /\ pass.live # NoSet /\ templatesGrew(pass.desired, pass.live.sizes)
                        /\ \A c \in DOMAIN pass.listed : Asked(c)
    /\ pass.done => /\ pass.live # NoSet /\ templatesGrew(pass.desired, pass.live.sizes) => pass.recreate
                    /\ pass.todo = {}
                    /\ \A c \in DOMAIN pass.listed :
                         /\ Asked(c)
                         /\ \/ usable(pass.listed[c])
                            \/ c[2] \notin pass.running /\ resizePending(pass.listed[c])

PodsInv    == TypeInv /\ SetsKeep /\ PodsBounded /\ PassRead /\ UidsIdentify
VolumesInv == PodsInv /\ ClaimsGrow /\ PassDecided

-----------------------------------------------------------------------------
(* Lemmas on numbers and logs *)

(* A bounded set of numbers has a greatest one.                             *)
LEMMA GreatestExists ==
  ASSUME NEW S, S \subseteq Nat, S # {}, NEW bound \in Nat, \A m \in S : m <= bound
  PROVE  \E n \in S : \A m \in S : m <= n
<1> DEFINE Bounds == { b \in Nat : \A m \in S : m <= b }
           R == OpToRel(<, Nat)
<1>1. Bounds \subseteq Nat /\ Bounds # {}
  OBVIOUS
<1>2. PICK b \in Bounds : \A d \in Bounds : ~ (<<d, b>> \in R)
  <2>1. IsWellFoundedOn(R, Nat)
    BY NatLessThanWellFounded, Zenon
  <2> HIDE DEF R, Bounds
  <2> QED  BY <1>1, <2>1, WFMin
<1>3. \A d \in Bounds : ~ (d < b)
  BY <1>2 DEF OpToRel
<1>4. CASE b \in S
  BY <1>4
<1>5. CASE b \notin S
  <2>1. PICK m \in S : TRUE
    OBVIOUS
  <2>2. \A n \in S : n \in Nat /\ n <= b /\ n # b
    BY <1>5
  <2>3. b - 1 \in Bounds
    BY <2>1, <2>2
  <2>4. b - 1 < b
    OBVIOUS
  <2> QED  BY <1>3, <2>3, <2>4
<1> QED  BY <1>4, <1>5

(* What is stored is the live version, and every other version of the log   *)
(* was in it before.                                                        *)
LEMMA StoreFacts ==
  ASSUME NEW log, IsLog(log), NEW v
  PROVE  /\ IsLog(Store(log, v)) /\ Live(Store(log, v)) = v
         /\ v \in Versions(Store(log, v))
         /\ Versions(Store(log, v)) \subseteq Versions(log) \cup {v}
<1> DEFINE S == Versions(log) \cup {v}
           new == Store(log, v)
<1>1. log \in Seq(S) /\ Len(log) \in Nat /\ Len(log) >= 1
  BY DEF IsLog
<1> HIDE DEF S
<1>2. v \in S
  BY DEF S
<1>3. new \in Seq(S) /\ Len(new) \in Nat /\ Len(new) >= 1 /\ new[Len(new)] = v
  <2>1. CASE v = Live(log)
    BY <1>1, <2>1 DEF Store, Live
  <2>2. CASE v # Live(log) /\ Len(log) > MaxLag
    <3>1. new = Append(Tail(log), v)
      BY <2>2 DEF Store
    <3>2. Tail(log) \in Seq(S)
      BY <1>1
    <3> HIDE DEF new
    <3> QED  BY <1>2, <3>1, <3>2
  <2>3. CASE v # Live(log) /\ ~ (Len(log) > MaxLag)
    <3>1. new = Append(log, v)
      BY <2>3 DEF Store
    <3> HIDE DEF new
    <3> QED  BY <1>1, <1>2, <3>1
  <2> QED  BY <2>1, <2>2, <2>3
<1> HIDE DEF new
<1>4. \A i \in 1 .. Len(new) : new[i] \in S
  BY <1>3
<1>5. Versions(new) \subseteq S
  BY <1>4 DEF Versions
<1>6. new \in Seq(Versions(new))
  BY <1>3 DEF Versions
<1>7. v \in Versions(new)
  BY <1>3 DEF Versions
<1> QED  BY <1>3, <1>5, <1>6, <1>7 DEF new, S, IsLog, Live

(* A watch event delivered leaves the live version.                         *)
LEMMA TailFacts ==
  ASSUME NEW log, IsLog(log), Len(log) > 1
  PROVE  /\ IsLog(Tail(log)) /\ Live(Tail(log)) = Live(log)
         /\ Versions(Tail(log)) \subseteq Versions(log)
<1> DEFINE S == Versions(log)
           new == Tail(log)
<1>1. log \in Seq(S) /\ Len(log) \in Nat
  BY DEF IsLog
<1> HIDE DEF S
<1>2. new \in Seq(S) /\ Len(new) = Len(log) - 1 /\ \A i \in 1 .. Len(new) : new[i] = log[i + 1]
  BY <1>1
<1>3. Len(new) \in Nat /\ Len(new) >= 1 /\ new[Len(new)] = log[Len(log)]
  BY <1>1, <1>2
<1> HIDE DEF new
<1>4. \A i \in 1 .. Len(new) : new[i] \in S
  BY <1>2
<1>5. Versions(new) \subseteq S
  BY <1>4 DEF Versions
<1>6. new \in Seq(Versions(new))
  BY <1>2 DEF Versions
<1> QED  BY <1>3, <1>5, <1>6 DEF new, S, IsLog, Live

(* The cached version and the live one are versions.                        *)
LEMMA EndFacts ==
  ASSUME NEW log, IsLog(log)
  PROVE  Live(log) \in Versions(log) /\ Cached(log) \in Versions(log)
<1>1. log \in Seq(Versions(log)) /\ Len(log) \in Nat /\ Len(log) >= 1
  BY DEF IsLog
<1>2. Head(log) = log[1] /\ 1 \in 1 .. Len(log) /\ Len(log) \in 1 .. Len(log)
  BY <1>1
<1> QED  BY <1>2 DEF Live, Cached, Versions

(* A log of one version.                                                    *)
LEMMA SingletonLog ==
  ASSUME NEW v PROVE IsLog(<<v>>) /\ Versions(<<v>>) = {v} /\ Live(<<v>>) = v
<1>1. Len(<<v>>) = 1 /\ <<v>>[1] = v
  OBVIOUS
<1>2. Versions(<<v>>) = {v}
  BY <1>1 DEF Versions
<1>3. <<v>> \in Seq({v})
  OBVIOUS
<1> QED  BY <1>1, <1>2, <1>3 DEF IsLog, Live

-----------------------------------------------------------------------------
(* Who writes what *)

(* The steps that may change each part of the state.                        *)
LEMMA Writers ==
  ASSUME [Next]_vars
  PROVE  /\ members' = members
         /\ missed' = missed \/ BeginPass
         /\ \/ spec' = spec
            \/ \E t \in Templates, size \in Sizes : EditSize(t, size)
            \/ \E n \in Counts : EditCount(n)
         /\ setLog' = setLog \/ FinishDelete \/ SyncSet \/ Recreate \/ ApplySet
         /\ \/ podLog' = podLog \/ SyncPods
            \/ \E o \in Ordinals(set.replicas) : CreatePod(o)
            \/ \E o \in pods : DeletePod(o) \/ Evict(o)
         /\ \/ claimLog' = claimLog \/ SyncClaims
            \/ \E o \in Ordinals(set.replicas) : CreatePod(o)
            \/ \E c \in DOMAIN claims : ExpandVolume(c) \/ GrowFilesystem(c) \/ GiveUp(c)
            \/ \E c \in pass.todo : growClaim(c)
         /\ \/ UNCHANGED <<pc, pass>> \/ BeginPass \/ ObserveClaims \/ Recreate \/ ApplySet \/ FailPass
            \/ \E c \in pass.todo : growClaim(c) \/ RefusePatch(c)
<1> USE DEF k8sVars, passVars
<1>1. CASE UNCHANGED vars
  BY <1>1 DEF vars
<1>2. CASE PassStep
  BY <1>2 DEF PassStep, BeginPass, ObserveClaims, Recreate, ApplySet, growClaim
<1>3. CASE Kubernetes
  BY <1>3 DEF Kubernetes, FinishDelete, SyncSet, SyncPods, SyncClaims, CreatePod, DeletePod,
              ExpandVolume, GrowFilesystem
<1>4. CASE Disruption
  BY <1>4 DEF Disruption, Evict, GiveUp, RefusePatch, EditSize, EditCount, FailPass
<1> QED  BY <1>1, <1>2, <1>3, <1>4 DEF Next

(* An edit makes no size smaller (as admission has it).                     *)
LEMMA SpecGrows ==
  ASSUME TypeInv, [Next]_vars
  PROVE  /\ spec' \in [count : Counts, sizes : [Templates -> Sizes]]
         /\ \A sizes \in [Templates -> Sizes] : NotAbove(sizes, spec.sizes) => NotAbove(sizes, spec.sizes)'
<1>1. /\ spec \in [count : Counts, sizes : [Templates -> Sizes]] /\ spec.sizes \in [Templates -> Sizes]
      /\ \A size \in Sizes : size \in Nat
  BY SizesAssumption DEF TypeInv
<1>2. CASE spec' = spec
  BY <1>1, <1>2 DEF NotAbove
<1>3. ASSUME NEW t \in Templates, NEW size \in Sizes, EditSize(t, size)
      PROVE  /\ spec' \in [count : Counts, sizes : [Templates -> Sizes]]
             /\ \A u \in Templates : spec.sizes[u] <= spec'.sizes[u]
  <2>1. spec' = [spec EXCEPT !.sizes = [spec.sizes EXCEPT ![t] = size]] /\ size > spec.sizes[t]
    BY <1>3 DEF EditSize
  <2>2. spec'.sizes = [spec.sizes EXCEPT ![t] = size]
    BY <1>1, <2>1
  <2>3. \A u \in Templates : spec.sizes[u] <= spec'.sizes[u]
    BY <1>1, <2>1, <2>2
  <2>4. spec' \in [count : Counts, sizes : [Templates -> Sizes]]
    BY <1>1, <2>1
  <2> QED  BY <2>3, <2>4
<1>4. CASE \E t \in Templates, size \in Sizes : EditSize(t, size)
  <2>1. /\ spec' \in [count : Counts, sizes : [Templates -> Sizes]]
        /\ \A u \in Templates : spec.sizes[u] <= spec'.sizes[u]
    BY <1>3, <1>4
  <2>2. spec'.sizes \in [Templates -> Sizes]
    BY <2>1
  <2>3. ASSUME NEW sizes \in [Templates -> Sizes], NotAbove(sizes, spec.sizes), NEW u \in Templates
        PROVE  sizes[u] <= spec'.sizes[u]
    <3>1. sizes[u] \in Nat /\ spec.sizes[u] \in Nat /\ spec'.sizes[u] \in Nat
      BY <1>1, <2>2
    <3>2. sizes[u] <= spec.sizes[u] /\ spec.sizes[u] <= spec'.sizes[u]
      BY <2>1, <2>3 DEF NotAbove
    <3> QED  BY <3>1, <3>2
  <2> QED  BY <2>1, <2>3 DEF NotAbove
<1>5. CASE \E n \in Counts : EditCount(n)
  <2>1. PICK n \in Counts : spec' = [spec EXCEPT !.count = n]
    BY <1>5 DEF EditCount
  <2> QED  BY <1>1, <2>1 DEF NotAbove
<1> QED  BY <1>2, <1>4, <1>5, Writers

-----------------------------------------------------------------------------
(* The StatefulSet and the pods *)

(* A count at least as large keeps the members too.                         *)
LEMMA KeepsLarger ==
  ASSUME NEW m \in Nat, NEW n \in Nat, m <= n, Keeps(m) PROVE Keeps(n)
<1>1. Ordinals(m) \subseteq Ordinals(n)
  BY DEF Ordinals
<1> QED  BY <1>1 DEF Keeps

(* A miss is remembered, so a count that keeps the members still does.      *)
LEMMA KeepsOn ==
  ASSUME TypeInv, [Next]_vars
  PROVE  /\ missed' \in BOOLEAN
         /\ \A n : Keeps(n) => Keeps(n)'
<1>1. missed' \in BOOLEAN /\ (missed => missed')
  <2>1. CASE missed' = missed
    BY <2>1 DEF TypeInv
  <2>2. CASE BeginPass
    <3> DEFINE now == Cached(setLog) = NoSet /\ EndsBelowMembers(Cached(podLog) \cup Ordinals(spec.count))
    <3>1. missed' = (missed \/ now)
      BY <2>2 DEF BeginPass
    <3> HIDE DEF now
    <3> QED  BY <3>1, Zenon
  <2> QED  BY <2>1, <2>2, Writers
<1> QED  BY <1>1, Writers DEF Keeps

(* One past the highest pod, or the declared count, keeps the members,      *)
(* unless both end below the top one.                                       *)
LEMMA RunningKeep ==
  ASSUME TypeInv, PodsBounded, NEW P \in Versions(podLog), NEW n \in Counts
  PROVE  /\ runningOrdinals(P) \in Nat
         /\ \/ EndsBelowMembers(P \cup Ordinals(n))
            \/ Keeps(n) \/ Keeps(runningOrdinals(P))
<1>1. PICK top \in Counts : members = Ordinals(top)
  BY DEF PodsBounded
<1>2. P \subseteq Nat /\ \E bound \in Nat : \A o \in P : o <= bound
  BY DEF PodsBounded
<1>3. top \in Nat \ {0} /\ n \in Nat \ {0} /\ top - 1 \in members
  BY <1>1, CountsAssumption DEF Ordinals
<1>4. EndsBelowMembers(P \cup Ordinals(n)) \/ Keeps(n) \/ \E o \in P : top - 1 <= o
  <2> SUFFICES ASSUME ~ EndsBelowMembers(P \cup Ordinals(n))
               PROVE  Keeps(n) \/ \E o \in P : top - 1 <= o
    OBVIOUS
  <2>1. PICK o \in P \cup Ordinals(n) : ~ (o < top - 1)
    BY <1>3 DEF EndsBelowMembers
  <2>2. CASE o \in P
    BY <1>2, <1>3, <2>1, <2>2
  <2>3. CASE o \in Ordinals(n)
    <3>1. top <= n
      BY <1>3, <2>1, <2>3 DEF Ordinals
    <3> QED  BY <1>1, <1>3, <3>1 DEF Keeps, Ordinals
  <2> QED  BY <2>2, <2>3
<1>5. CASE P = {}
  BY <1>4, <1>5 DEF runningOrdinals
<1>6. CASE P # {}
  <2> DEFINE highest == CHOOSE o \in P : \A p \in P : p <= o
  <2>1. \E o \in P : \A p \in P : p <= o
    BY <1>2, <1>6, GreatestExists
  <2>2. highest \in P /\ \A p \in P : p <= highest
    BY <2>1
  <2>3. runningOrdinals(P) = 1 + highest
    BY <1>6 DEF runningOrdinals
  <2> HIDE DEF highest
  <2>4. highest \in Nat
    BY <1>2, <2>2
  <2>5. ASSUME NEW o \in P, top - 1 <= o PROVE Keeps(runningOrdinals(P))
    <3>1. top <= 1 + highest
      BY <1>2, <1>3, <2>2, <2>4, <2>5
    <3> QED  BY <1>1, <1>3, <2>3, <2>4, <3>1 DEF Keeps, Ordinals
  <2> QED  BY <1>4, <2>3, <2>4, <2>5
<1> QED  BY <1>5, <1>6

(* A StatefulSet is stored that keeps the members, has templates no larger  *)
(* than declared, and those of every other version of its UID.              *)
LEMMA StoreSet ==
  ASSUME PodsInv, [Next]_vars, NEW v, v.uid \in Nat, setLog' = Store(setLog, v),
         v # NoSet => v \in StoredSet /\ NotAbove(v.sizes, spec.sizes) /\ Keeps(v.replicas),
         \A w \in Versions(setLog) : SameTemplates(v, w)
  PROVE  IsLog(setLog') /\ SetsKeep' /\ UidsIdentify'
<1>1. /\ IsLog(setLog') /\ Versions(setLog') \subseteq Versions(setLog) \cup {v}
      /\ members' = members
  BY StoreFacts, Writers DEF PodsInv, TypeInv
<1>2. \A w \in Versions(setLog') : w # NoSet =>
        w \in StoredSet /\ NotAbove(w.sizes, spec.sizes) /\ Keeps(w.replicas)
  BY <1>1 DEF PodsInv, SetsKeep
<1>3. \A w \in Versions(setLog') : w # NoSet => NotAbove(w.sizes, spec.sizes)'
  BY <1>2, SpecGrows DEF PodsInv, StoredSet
<1>4. SetsKeep'
  BY <1>1, <1>2, <1>3, KeepsOn DEF PodsInv, SetsKeep
<1>5. \A w, x \in Versions(setLog') : SameTemplates(w, x)
  BY <1>1 DEF PodsInv, UidsIdentify, SameTemplates
<1>6. \E bound \in Nat : \A w \in Versions(setLog') : w.uid <= bound
  <2>1. PICK bound \in Nat : \A w \in Versions(setLog) : w.uid <= bound
    BY DEF PodsInv, UidsIdentify
  <2>2. \A w \in Versions(setLog) : w.uid \in Nat
    BY DEF PodsInv, SetsKeep, StoredSet, NoSet
  <2>3. bound + v.uid \in Nat /\ \A w \in Versions(setLog') : w.uid <= bound + v.uid
    BY <1>1, <2>1, <2>2
  <2> QED  BY <2>3
<1>7. UidsIdentify'
  BY <1>5, <1>6 DEF UidsIdentify, SameTemplates
<1> QED  BY <1>1, <1>4, <1>7

(* A StatefulSet that is made has a UID no version has.                     *)
LEMMA NewUid ==
  ASSUME PodsInv
  PROVE  LET uid == 1 + CHOOSE u \in Uids : \A v \in Uids : v <= u
         IN  uid \in Nat /\ \A w \in Versions(setLog) : w.uid # uid
<1> DEFINE highest == CHOOSE u \in Uids : \A v \in Uids : v <= u
<1>1. \A w \in Versions(setLog) : w.uid \in Nat
  BY DEF PodsInv, SetsKeep, StoredSet, NoSet
<1>2. setLog \in Seq(Versions(setLog)) /\ DOMAIN setLog = 1 .. Len(setLog)
  BY DEF PodsInv, TypeInv, IsLog
<1>3. Uids = { w.uid : w \in Versions(setLog) }
  BY <1>2 DEF Uids, Versions
<1>4. set \in Versions(setLog)
  BY EndFacts DEF PodsInv, TypeInv, set
<1>5. PICK bound \in Nat : \A w \in Versions(setLog) : w.uid <= bound
  BY DEF PodsInv, UidsIdentify
<1>6. Uids \subseteq Nat /\ Uids # {} /\ \A u \in Uids : u <= bound
  BY <1>1, <1>3, <1>4, <1>5
<1>7. \E u \in Uids : \A v \in Uids : v <= u
  BY <1>6, GreatestExists
<1>8. highest \in Uids /\ \A v \in Uids : v <= highest
  BY <1>7
<1> HIDE DEF highest
<1>9. highest \in Nat /\ \A w \in Versions(setLog) : w.uid \in Nat /\ w.uid <= highest
  BY <1>1, <1>3, <1>6, <1>8
<1>10. 1 + highest \in Nat /\ \A w \in Versions(setLog) : w.uid # 1 + highest
  BY <1>9
<1> QED  BY <1>10 DEF highest

(* Every StatefulSet a pass may read keeps the members.                     *)
LEMMA SetsStep == PodsInv /\ [Next]_vars => IsLog(setLog') /\ SetsKeep' /\ UidsIdentify'
<1> SUFFICES ASSUME PodsInv, [Next]_vars PROVE IsLog(setLog') /\ SetsKeep' /\ UidsIdentify'
  OBVIOUS
<1>1. ASSUME IsLog(setLog'), Versions(setLog') \subseteq Versions(setLog)
      PROVE  IsLog(setLog') /\ SetsKeep' /\ UidsIdentify'
  <2>1. members' = members
    BY Writers
  <2>2. SetsKeep'
    <3> SUFFICES ASSUME NEW v \in Versions(setLog'), v # NoSet
                 PROVE  v \in StoredSet /\ NotAbove(v.sizes, spec.sizes)' /\ Keeps(v.replicas)'
      BY DEF SetsKeep
    <3>1. v \in StoredSet /\ NotAbove(v.sizes, spec.sizes) /\ Keeps(v.replicas)
      BY <1>1 DEF PodsInv, SetsKeep
    <3>2. v.sizes \in [Templates -> Sizes]
      BY <3>1 DEF StoredSet
    <3> QED  BY <3>1, <3>2, SpecGrows, KeepsOn DEF PodsInv
  <2>3. UidsIdentify'
    BY <1>1 DEF PodsInv, UidsIdentify, SameTemplates
  <2> QED  BY <1>1, <2>2, <2>3
<1>2. CASE setLog' = setLog
  BY <1>1, <1>2 DEF PodsInv, TypeInv
<1>3. CASE SyncSet
  BY <1>1, <1>3, TailFacts DEF SyncSet, PodsInv, TypeInv
<1>4. CASE FinishDelete
  <2>1. setLog' = Store(setLog, NoSet) /\ NoSet.uid \in Nat
    BY <1>4 DEF FinishDelete, NoSet
  <2> QED  BY <2>1, StoreSet DEF SameTemplates
<1>5. set \in Versions(setLog) /\ (set # NoSet => set \in StoredSet)
  BY EndFacts DEF PodsInv, TypeInv, set, SetsKeep
<1>6. CASE Recreate
  <2>1. CASE matchesUID(pass.live.uid)
    <3> DEFINE v == [set EXCEPT !.deleting = TRUE]
    <3>1. setLog' = Store(setLog, v) /\ set # NoSet
      BY <1>6, <2>1 DEF Recreate, matchesUID
    <3>2. v \in StoredSet /\ v.uid = set.uid /\ v.sizes = set.sizes /\ v.replicas = set.replicas /\ v.uid \in Nat
      BY <1>5, <3>1 DEF StoredSet
    <3>3. NotAbove(v.sizes, spec.sizes) /\ Keeps(v.replicas)
      BY <1>5, <3>1, <3>2 DEF PodsInv, SetsKeep
    <3>4. \A w \in Versions(setLog) : SameTemplates(v, w)
      BY <1>5, <3>1, <3>2 DEF PodsInv, UidsIdentify, SameTemplates
    <3> HIDE DEF v
    <3> QED  BY <3>1, <3>2, <3>3, <3>4, StoreSet
  <2> QED  BY <1>2, <1>6, <2>1 DEF Recreate
<1>7. CASE ApplySet
  <2> DEFINE sizes == KeepLiveSizes(pass.desired, pass.live)
             uid == 1 + CHOOSE u \in Uids : \A w \in Uids : w <= u
  <2>1. pc = "apply"
    BY <1>7 DEF ApplySet
  <2>2. /\ pass.count \in Nat /\ Keeps(pass.count)
        /\ sizes \in [Templates -> Sizes] /\ NotAbove(sizes, spec.sizes)
    <3>1. pass.count \in Nat /\ Keeps(pass.count)
      BY <2>1 DEF PodsInv, PassRead
    <3>2. /\ pass.desired \in [Templates -> Sizes] /\ NotAbove(pass.desired, spec.sizes)
          /\ spec.sizes \in [Templates -> Sizes]
      BY <2>1 DEF PodsInv, PassRead, TypeInv
    <3>3. CASE pass.live = NoSet
      BY <3>1, <3>2, <3>3 DEF KeepLiveSizes
    <3>4. CASE pass.live # NoSet
      <4>1. sizes = pass.live.sizes /\ sizes \in [Templates -> Sizes] /\ NotAbove(sizes, pass.desired)
        BY <2>1, <3>4 DEF PodsInv, PassRead, KeepLiveSizes, StoredSet
      <4> HIDE DEF sizes
      <4>2. \A t \in Templates : /\ sizes[t] \in Nat /\ pass.desired[t] \in Nat /\ spec.sizes[t] \in Nat
                                 /\ sizes[t] <= pass.desired[t] /\ pass.desired[t] <= spec.sizes[t]
        BY <3>2, <4>1, SizesAssumption DEF NotAbove
      <4>3. NotAbove(sizes, spec.sizes)
        BY <4>2 DEF NotAbove
      <4> QED  BY <3>1, <4>1, <4>3
    <3> QED  BY <3>3, <3>4
  <2>3. CASE set = NoSet /\ setLog' # setLog
    <3> DEFINE v == [uid |-> uid, replicas |-> pass.count, sizes |-> sizes, deleting |-> FALSE]
    <3>1. setLog' = Store(setLog, v)
      BY <1>7, <2>3 DEF ApplySet
    <3>2. uid \in Nat /\ \A w \in Versions(setLog) : w.uid # uid
      BY NewUid
    <3> HIDE DEF uid, sizes
    <3>3. v \in StoredSet /\ v.uid = uid /\ v.sizes = sizes /\ v.replicas = pass.count
      BY <2>2, <3>2 DEF StoredSet
    <3> HIDE DEF v
    <3>4. \A w \in Versions(setLog) : SameTemplates(v, w)
      BY <3>2, <3>3 DEF SameTemplates
    <3> QED  BY <2>2, <3>1, <3>2, <3>3, <3>4, StoreSet
  <2>4. CASE set # NoSet /\ setLog' # setLog
    <3> DEFINE v == [set EXCEPT !.replicas = pass.count]
    <3>1. setLog' = Store(setLog, v)
      BY <1>7, <2>4 DEF ApplySet
    <3>2. v \in StoredSet /\ v.uid = set.uid /\ v.sizes = set.sizes /\ v.replicas = pass.count /\ v.uid \in Nat
      BY <1>5, <2>2, <2>4 DEF StoredSet
    <3> HIDE DEF v
    <3>3. NotAbove(v.sizes, spec.sizes) /\ Keeps(v.replicas)
      BY <1>5, <2>2, <2>4, <3>2 DEF PodsInv, SetsKeep
    <3>4. \A w \in Versions(setLog) : SameTemplates(v, w)
      BY <1>5, <2>4, <3>2 DEF PodsInv, UidsIdentify, SameTemplates
    <3> QED  BY <3>1, <3>2, <3>3, <3>4, StoreSet
  <2> QED  BY <1>2, <2>3, <2>4
<1> QED  BY <1>2, <1>3, <1>4, <1>6, <1>7, Writers

(* The pods stay finitely many.                                             *)
LEMMA PodsStep == PodsInv /\ [Next]_vars => IsLog(podLog') /\ PodsBounded'
<1> SUFFICES ASSUME PodsInv, [Next]_vars PROVE IsLog(podLog') /\ PodsBounded'
  OBVIOUS
<1>1. members' = members /\ IsLog(podLog)
  BY Writers DEF PodsInv, TypeInv
<1>2. ASSUME IsLog(podLog'), NEW P, Versions(podLog') \subseteq Versions(podLog) \cup {P},
             P \subseteq Nat, \E bound \in Nat : \A o \in P : o <= bound
      PROVE  IsLog(podLog') /\ PodsBounded'
  BY <1>1, <1>2 DEF PodsInv, PodsBounded
<1>3. pods \in Versions(podLog) /\ set \in Versions(setLog)
  BY EndFacts DEF PodsInv, TypeInv, pods, set
<1>4. pods \subseteq Nat
  BY <1>3 DEF PodsInv, PodsBounded
<1>5. PICK bound \in Nat : \A o \in pods : o <= bound
  BY <1>3 DEF PodsInv, PodsBounded
<1>6. CASE podLog' = podLog
  BY <1>1, <1>2, <1>3, <1>4, <1>5, <1>6
<1>7. CASE SyncPods
  <2>1. IsLog(podLog') /\ Versions(podLog') \subseteq Versions(podLog)
    BY <1>1, <1>7, TailFacts DEF SyncPods
  <2> QED  BY <1>2, <1>4, <1>5, <2>1
<1>8. ASSUME NEW o \in Ordinals(set.replicas), CreatePod(o) PROVE IsLog(podLog') /\ PodsBounded'
  <2>1. podLog' = Store(podLog, pods \cup {o})
    BY <1>8 DEF CreatePod
  <2>2. set.replicas \in Nat
    BY <1>3 DEF PodsInv, SetsKeep, StoredSet, NoSet
  <2>3. o \in Nat
    BY <2>2 DEF Ordinals
  <2>4. bound + o \in Nat /\ \A q \in pods \cup {o} : q <= bound + o
    BY <1>4, <1>5, <2>3
  <2>5. IsLog(podLog') /\ Versions(podLog') \subseteq Versions(podLog) \cup {pods \cup {o}}
    BY <1>1, <2>1, StoreFacts
  <2>6. pods \cup {o} \subseteq Nat /\ \E b \in Nat : \A q \in pods \cup {o} : q <= b
    BY <1>4, <2>3, <2>4
  <2> QED  BY <1>2, <2>5, <2>6
<1>9. ASSUME NEW o \in pods, DeletePod(o) \/ Evict(o) PROVE IsLog(podLog') /\ PodsBounded'
  <2>1. podLog' = Store(podLog, pods \ {o})
    BY <1>9 DEF DeletePod, Evict
  <2>2. IsLog(podLog') /\ Versions(podLog') \subseteq Versions(podLog) \cup {pods \ {o}}
    BY <1>1, <2>1, StoreFacts
  <2> QED  BY <1>2, <1>4, <1>5, <2>2
<1> QED  BY <1>6, <1>7, <1>8, <1>9, Writers

(* The pass keeps what it read, and starts from what the caches show.       *)
LEMMA PassStepFacts ==
  ASSUME PodsInv, [Next]_vars
  PROVE  /\ pc' \in {"idle", "claims", "patch", "recreate", "apply"}
         /\ pass' = [count |-> pass'.count, desired |-> pass'.desired, live |-> pass'.live, listed |-> pass'.listed,
                     running |-> pass'.running, todo |-> pass'.todo, recreate |-> pass'.recreate, done |-> pass'.done]
         /\ \/ pc' = "idle"
            \/ BeginPass
            \/ /\ pc # "idle" /\ ~ Recreate /\ ~ ApplySet
               /\ pass'.count = pass.count /\ pass'.desired = pass.desired /\ pass'.live = pass.live
<1>0. /\ pc \in {"idle", "claims", "patch", "recreate", "apply"}
      /\ pass = [count |-> pass.count, desired |-> pass.desired, live |-> pass.live, listed |-> pass.listed,
                 running |-> pass.running, todo |-> pass.todo, recreate |-> pass.recreate, done |-> pass.done]
  BY DEF PodsInv, TypeInv
<1>1. CASE UNCHANGED <<pc, pass>>
  <2>1. pc' # "idle" => ~ Recreate /\ ~ ApplySet
    BY DEF Recreate, ApplySet, Finish
  <2>2. pass'.count = pass.count /\ pass'.desired = pass.desired /\ pass'.live = pass.live
    BY <1>1
  <2>3. pass' = [count |-> pass'.count, desired |-> pass'.desired, live |-> pass'.live, listed |-> pass'.listed,
                 running |-> pass'.running, todo |-> pass'.todo, recreate |-> pass'.recreate, done |-> pass'.done]
    BY <1>0, <1>1
  <2> QED  BY <1>0, <1>1, <2>1, <2>2, <2>3
<1>2. CASE pc' = "idle" /\ pass' = NoPass
  <2>1. pass' = [count |-> pass'.count, desired |-> pass'.desired, live |-> pass'.live, listed |-> pass'.listed,
                 running |-> pass'.running, todo |-> pass'.todo, recreate |-> pass'.recreate, done |-> pass'.done]
    BY <1>2 DEF NoPass
  <2> QED  BY <1>2, <2>1
<1>3. CASE BeginPass
  <2>1. pc' = "claims"
    BY <1>3 DEF BeginPass
  <2>2. \E count, live : pass' = [NoPass EXCEPT !.count = count, !.desired = spec.sizes, !.live = live]
    BY <1>3 DEF BeginPass
  <2>3. pass' = [count |-> pass'.count, desired |-> pass'.desired, live |-> pass'.live, listed |-> pass'.listed,
                 running |-> pass'.running, todo |-> pass'.todo, recreate |-> pass'.recreate, done |-> pass'.done]
    BY <2>2 DEF NoPass
  <2> QED  BY <1>3, <2>1, <2>3
<1>4. CASE ObserveClaims /\ pc' # "idle"
  <2>1. pc = "claims" /\ pc' \in {"patch", "recreate", "apply"}
    BY <1>4 DEF ObserveClaims, Finish
  <2> DEFINE decision == VolumesDecide(pass.desired, pass.live, Cached(claimLog), Cached(podLog))
  <2>2. pass' = [pass EXCEPT !.listed = Cached(claimLog), !.running = Cached(podLog), !.todo = decision.patches,
                             !.recreate = decision.recreate, !.done = decision.done]
    BY <1>4 DEF ObserveClaims, Finish
  <2> HIDE DEF decision
  <2>3. pass'.count = pass.count /\ pass'.desired = pass.desired /\ pass'.live = pass.live
    BY <2>2
  <2>4. pass' = [count |-> pass'.count, desired |-> pass'.desired, live |-> pass'.live, listed |-> pass'.listed,
                 running |-> pass'.running, todo |-> pass'.todo, recreate |-> pass'.recreate, done |-> pass'.done]
    BY <1>0, <2>2
  <2>5. ~ Recreate /\ ~ ApplySet
    BY <2>1 DEF Recreate, ApplySet
  <2> QED  BY <2>1, <2>3, <2>4, <2>5
<1>5. ASSUME NEW c \in pass.todo, growClaim(c) \/ RefusePatch(c)
      PROVE  /\ pc = "patch" /\ pc' \in {"patch", "recreate", "apply"}
             /\ pass' = [pass EXCEPT !.todo = @ \ {c}]
  BY <1>5 DEF growClaim, RefusePatch, Patched
<1>6. CASE \E c \in pass.todo : growClaim(c) \/ RefusePatch(c)
  <2>1. pc = "patch" /\ pc' \in {"patch", "recreate", "apply"} /\ \E todo : pass' = [pass EXCEPT !.todo = todo]
    BY <1>5, <1>6
  <2>2. pass'.count = pass.count /\ pass'.desired = pass.desired /\ pass'.live = pass.live
    BY <2>1
  <2>3. pass' = [count |-> pass'.count, desired |-> pass'.desired, live |-> pass'.live, listed |-> pass'.listed,
                 running |-> pass'.running, todo |-> pass'.todo, recreate |-> pass'.recreate, done |-> pass'.done]
    BY <1>0, <2>1
  <2>4. ~ Recreate /\ ~ ApplySet
    BY <2>1 DEF Recreate, ApplySet
  <2> QED  BY <2>1, <2>2, <2>3, <2>4
<1>7. Recreate \/ ApplySet \/ FailPass => pc' = "idle" /\ pass' = NoPass
  BY DEF Recreate, ApplySet, FailPass, Finish
<1>8. ObserveClaims /\ pc' = "idle" => pass' = NoPass
  BY DEF ObserveClaims, Finish
<1> QED  BY <1>1, <1>2, <1>3, <1>4, <1>6, <1>7, <1>8, Writers

(* The pass works with a count that keeps the members, and for sizes that   *)
(* are no larger than the declared ones.                                    *)
LEMMA PassReadStep == PodsInv /\ [Next]_vars => PassRead'
<1> SUFFICES ASSUME PodsInv, [Next]_vars, pc' # "idle" PROVE PassRead'
  BY DEF PassRead
<1>0. members' = members /\ TypeInv /\ \A n : Keeps(n) => Keeps(n)'
  BY Writers, KeepsOn DEF PodsInv
<1>1. CASE BeginPass
  <2> DEFINE live == Cached(setLog)
             current == IF live = NoSet THEN runningOrdinals(Cached(podLog)) ELSE live.replicas
  <2>1. /\ pass' = [NoPass EXCEPT !.count = Larger(spec.count, current), !.desired = spec.sizes, !.live = live]
        /\ UNCHANGED <<spec, setLog>>
    BY <1>1 DEF BeginPass, k8sVars
  <2>2. /\ spec.count \in Counts /\ spec.count \in Nat
        /\ live \in Versions(setLog) /\ Cached(podLog) \in Versions(podLog)
    BY <1>0, EndFacts, CountsAssumption DEF TypeInv
  <2>3. current \in Nat /\ (missed' \/ Keeps(spec.count) \/ Keeps(current))
    <3>1. CASE live = NoSet
      <4>1. EndsBelowMembers(Cached(podLog) \cup Ordinals(spec.count)) => missed'
        BY <1>1, <3>1 DEF BeginPass
      <4> QED  BY <1>0, <2>2, <3>1, <4>1, RunningKeep DEF PodsInv
    <3>2. CASE live # NoSet
      BY <2>2, <3>2 DEF PodsInv, SetsKeep, StoredSet
    <3> QED  BY <3>1, <3>2
  <2> HIDE DEF current
  <2>4. Larger(spec.count, current) \in Nat /\ (missed' \/ Keeps(Larger(spec.count, current)))
    <3>1. /\ Larger(spec.count, current) \in Nat
          /\ spec.count <= Larger(spec.count, current) /\ current <= Larger(spec.count, current)
      BY <2>2, <2>3 DEF Larger
    <3> QED  BY <2>2, <2>3, <3>1, KeepsLarger
  <2>5. pass'.count = Larger(spec.count, current) /\ pass'.desired = spec.sizes /\ pass'.live = live
    BY <2>1 DEF NoPass
  <2>6. spec.sizes \in [Templates -> Sizes] /\ NotAbove(spec.sizes, spec.sizes)
    BY <1>0, SizesAssumption DEF TypeInv, NotAbove
  <2>7. live # NoSet => live \in StoredSet /\ NotAbove(live.sizes, spec.sizes)
    BY <2>2 DEF PodsInv, SetsKeep
  <2>8. \A v \in Versions(setLog) : SameTemplates(v, live)
    BY <2>2 DEF PodsInv, UidsIdentify
  <2>9. Keeps(pass.count)'
    BY <1>0, <2>4, <2>5 DEF Keeps
  <2> HIDE DEF live
  <2> QED  BY <2>1, <2>4, <2>5, <2>6, <2>7, <2>8, <2>9 DEF PassRead, NotAbove, SameTemplates
<1>2. CASE /\ pc # "idle" /\ ~ Recreate /\ ~ ApplySet
           /\ pass'.count = pass.count /\ pass'.desired = pass.desired /\ pass'.live = pass.live
  <2>1. Versions(setLog') \subseteq Versions(setLog) \cup {NoSet}
    <3>1. CASE setLog' = setLog
      BY <3>1
    <3>2. CASE FinishDelete
      BY <1>0, <3>2, StoreFacts DEF FinishDelete, TypeInv
    <3>3. CASE SyncSet
      BY <1>0, <3>3, TailFacts DEF SyncSet, TypeInv
    <3> QED  BY <1>2, <3>1, <3>2, <3>3, Writers
  <2>2. \A v \in Versions(setLog') : SameTemplates(v, pass.live)
    BY <1>2, <2>1 DEF PodsInv, PassRead, SameTemplates
  <2>3. pass.desired \in [Templates -> Sizes] /\ NotAbove(pass.desired, spec.sizes)'
    BY <1>0, <1>2, SpecGrows DEF PodsInv, PassRead
  <2>4. /\ pass.count \in Nat /\ Keeps(pass.count)
        /\ pass.live # NoSet => pass.live \in StoredSet /\ NotAbove(pass.live.sizes, pass.desired)
    BY <1>2 DEF PodsInv, PassRead
  <2>5. Keeps(pass.count)'
    BY <1>0, <1>2, <2>4 DEF Keeps
  <2> QED  BY <1>2, <2>2, <2>3, <2>4, <2>5 DEF PassRead, NotAbove, SameTemplates
<1> QED  BY <1>1, <1>2, PassStepFacts

-----------------------------------------------------------------------------
(* The claims *)

(* What grew and grew again has grown.                                      *)
LEMMA GrownTransitive ==
  ASSUME NEW a, NEW b, NEW d, IsClaims(a), IsClaims(b), IsClaims(d), Grown(a, b), Grown(b, d)
  PROVE  Grown(a, d)
<1> SUFFICES ASSUME NEW c \in DOMAIN a
             PROVE  /\ c \in DOMAIN d
                    /\ a[c].request <= d[c].request
                    /\ a[c].volume <= d[c].volume
                    /\ a[c].capacity <= d[c].capacity
  BY DEF Grown
<1>1. c \in DOMAIN b /\ c \in DOMAIN d
  BY DEF Grown
<1>2. a[c] \in Claim /\ b[c] \in Claim /\ d[c] \in Claim
  BY <1>1 DEF IsClaims
<1>3. /\ a[c].request <= b[c].request /\ b[c].request <= d[c].request
      /\ a[c].volume <= b[c].volume /\ b[c].volume <= d[c].volume
      /\ a[c].capacity <= b[c].capacity /\ b[c].capacity <= d[c].capacity
  BY <1>1 DEF Grown
<1> QED  BY <1>1, <1>2, <1>3 DEF Claim

(* What is as it was has grown.                                             *)
LEMMA GrownReflexive == ASSUME NEW a, IsClaims(a) PROVE Grown(a, a)
  BY DEF IsClaims, Grown, Claim

(* Grown claims are stored.                                                 *)
LEMMA StoreGrown ==
  ASSUME IsLog(claimLog), ClaimsGrow, NEW new, IsClaims(new), Grown(claims, new), claimLog' = Store(claimLog, new)
  PROVE  IsLog(claimLog') /\ ClaimsGrow' /\ Grown(claims, claims')
<1>1. IsLog(claimLog') /\ claims' = new /\ Versions(claimLog') \subseteq Versions(claimLog) \cup {new}
  BY StoreFacts DEF claims
<1>2. IsClaims(claims)
  BY EndFacts DEF ClaimsGrow, claims
<1>3. ASSUME NEW old \in Versions(claimLog') PROVE IsClaims(old) /\ Grown(old, new)
  <2>1. CASE old = new
    BY <2>1, GrownReflexive
  <2>2. CASE old \in Versions(claimLog)
    BY <1>2, <2>2, GrownTransitive DEF ClaimsGrow
  <2> QED  BY <1>1, <2>1, <2>2
<1>4. ClaimsGrow'
  BY <1>1, <1>3 DEF ClaimsGrow
<1> QED  BY <1>1, <1>4

(* One claim grows.                                                         *)
LEMMA StoreOneGrown ==
  ASSUME IsLog(claimLog), ClaimsGrow, NEW c \in DOMAIN claims, NEW new \in Claim,
         new.capacity <= new.volume, claims[c].request <= new.request,
         claims[c].volume <= new.volume, claims[c].capacity <= new.capacity,
         StoreClaim(c, new)
  PROVE  IsLog(claimLog') /\ ClaimsGrow' /\ Grown(claims, claims')
<1> DEFINE all == [claims EXCEPT ![c] = new]
<1>1. claimLog' = Store(claimLog, all)
  BY DEF StoreClaim
<1>2. IsClaims(claims)
  BY EndFacts DEF ClaimsGrow, claims
<1>3. all = [d \in DOMAIN claims |-> IF d = c THEN new ELSE claims[d]]
  BY <1>2 DEF IsClaims
<1>4. IsClaims(all)
  BY <1>2, <1>3 DEF IsClaims
<1>5. Grown(claims, all)
  BY <1>2, <1>3, GrownReflexive DEF Grown
<1> HIDE DEF all
<1> QED  BY <1>1, <1>4, <1>5, StoreGrown

(* Claims only grow, and are never deleted.                                 *)
LEMMA ClaimsStep ==
  ASSUME VolumesInv, [Next]_vars
  PROVE  IsLog(claimLog') /\ ClaimsGrow' /\ Grown(claims, claims')
<1>0. IsLog(claimLog) /\ ClaimsGrow /\ IsClaims(claims)
  BY EndFacts DEF VolumesInv, PodsInv, TypeInv, ClaimsGrow, claims
<1>1. CASE claimLog' = claimLog
  <2>1. claims' = claims /\ Versions(claimLog') = Versions(claimLog)
    BY <1>1 DEF claims
  <2> QED  BY <1>0, <1>1, <2>1, GrownReflexive DEF ClaimsGrow
<1>2. CASE SyncClaims
  <2>1. IsLog(claimLog') /\ claims' = claims /\ Versions(claimLog') \subseteq Versions(claimLog)
    BY <1>0, <1>2, TailFacts DEF SyncClaims, claims
  <2> QED  BY <1>0, <2>1, GrownReflexive DEF ClaimsGrow
<1>3. ASSUME NEW o \in Ordinals(set.replicas), CreatePod(o)
      PROVE  IsLog(claimLog') /\ ClaimsGrow' /\ Grown(claims, claims')
  <2> DEFINE D == DOMAIN claims \cup (Templates \X {o})
             new == [c \in D |-> IF c \in DOMAIN claims THEN claims[c] ELSE NewClaim(set.sizes[c[1]])]
  <2>1. claimLog' = Store(claimLog, new)
    BY <1>3 DEF CreatePod
  <2>2. set \in Versions(setLog) /\ set # NoSet
    BY <1>3, EndFacts DEF VolumesInv, PodsInv, TypeInv, set, NoSet, Ordinals
  <2>3. set.sizes \in [Templates -> Sizes]
    BY <2>2 DEF VolumesInv, PodsInv, SetsKeep, StoredSet
  <2>4. ASSUME NEW c \in Templates \X {o}
        PROVE  /\ c[1] \in Templates
               /\ NewClaim(set.sizes[c[1]]) \in Claim
               /\ NewClaim(set.sizes[c[1]]).capacity <= NewClaim(set.sizes[c[1]]).volume
    <3>1. c[1] \in Templates /\ set.sizes[c[1]] \in Nat
      BY <2>3, SizesAssumption
    <3> QED  BY <3>1 DEF NewClaim, Claim
  <2>5. \A c \in D : c[1] \in Templates /\ new[c] \in Claim /\ new[c].capacity <= new[c].volume
    BY <1>0, <2>4 DEF IsClaims
  <2>6. DOMAIN new = D /\ new = [c \in DOMAIN new |-> new[c]]
    OBVIOUS
  <2>7. Grown(claims, new)
    <3>1. \A c \in DOMAIN claims : c \in DOMAIN new /\ new[c] = claims[c]
      OBVIOUS
    <3> HIDE DEF new
    <3> QED  BY <1>0, <3>1, GrownReflexive DEF Grown
  <2> HIDE DEF new, D
  <2>8. IsClaims(new)
    BY <2>5, <2>6 DEF IsClaims
  <2> QED  BY <1>0, <2>1, <2>7, <2>8, StoreGrown
<1>4. ASSUME NEW c \in DOMAIN claims, ExpandVolume(c) \/ GrowFilesystem(c) \/ GiveUp(c)
      PROVE  IsLog(claimLog') /\ ClaimsGrow' /\ Grown(claims, claims')
  <2> DEFINE old == claims[c]
  <2>1. old \in Claim /\ old.capacity <= old.volume
    BY <1>0 DEF IsClaims
  <2>2. CASE ExpandVolume(c)
    <3> DEFINE new == [old EXCEPT !.volume = old.request]
    <3>1. StoreClaim(c, new) /\ old.volume < old.request
      BY <2>2 DEF ExpandVolume
    <3>2. /\ new \in Claim /\ new.volume = old.request /\ new.request = old.request
          /\ new.capacity = old.capacity
      <4> HIDE DEF old
      <4> QED  BY <2>1 DEF Claim
    <3>3. new.capacity <= new.volume /\ old.request <= new.request /\ old.volume <= new.volume
          /\ old.capacity <= new.capacity
      BY <2>1, <3>1, <3>2 DEF Claim
    <3> HIDE DEF new
    <3> QED  BY <1>0, <3>1, <3>2, <3>3, StoreOneGrown
  <2>3. CASE GrowFilesystem(c)
    <3> DEFINE new == [old EXCEPT !.capacity = old.volume]
    <3>1. StoreClaim(c, new) /\ old.capacity < old.volume
      BY <2>3 DEF GrowFilesystem
    <3>2. /\ new \in Claim /\ new.volume = old.volume /\ new.request = old.request
          /\ new.capacity = old.volume
      <4> HIDE DEF old
      <4> QED  BY <2>1 DEF Claim
    <3>3. new.capacity <= new.volume /\ old.request <= new.request /\ old.volume <= new.volume
          /\ old.capacity <= new.capacity
      BY <2>1, <3>1, <3>2 DEF Claim
    <3> HIDE DEF new
    <3> QED  BY <1>0, <3>1, <3>2, <3>3, StoreOneGrown
  <2>4. CASE GiveUp(c)
    <3> DEFINE new == [old EXCEPT !.infeasible = TRUE]
    <3>1. StoreClaim(c, new)
      BY <2>4 DEF GiveUp
    <3>2. /\ new \in Claim /\ new.volume = old.volume /\ new.request = old.request
          /\ new.capacity = old.capacity
      <4> HIDE DEF old
      <4> QED  BY <2>1 DEF Claim
    <3>3. new.capacity <= new.volume /\ old.request <= new.request /\ old.volume <= new.volume
          /\ old.capacity <= new.capacity
      BY <2>1, <3>1, <3>2 DEF Claim
    <3> HIDE DEF new
    <3> QED  BY <1>0, <3>1, <3>2, <3>3, StoreOneGrown
  <2> QED  BY <1>4, <2>2, <2>3, <2>4
<1>5. ASSUME NEW c \in pass.todo, growClaim(c), claimLog' # claimLog
      PROVE  IsLog(claimLog') /\ ClaimsGrow' /\ Grown(claims, claims')
  <2> DEFINE old == claims[c]
             size == pass.desired[c[1]]
             new == [old EXCEPT !.request = size, !.infeasible = FALSE]
  <2>1. pc = "patch" /\ StoreClaim(c, new) /\ old = pass.listed[c]
    BY <1>5 DEF growClaim
  <2>2. c \in DOMAIN pass.listed /\ ~ (old.request >= size) /\ IsClaims(pass.listed) /\ c \in DOMAIN claims
    BY <2>1 DEF VolumesInv, PassDecided, Asked, Grown
  <2>3. old \in Claim /\ old.capacity <= old.volume
    BY <1>0, <2>2 DEF IsClaims
  <2>4. size \in Nat
    <3>1. c[1] \in Templates
      BY <2>2 DEF IsClaims
    <3>2. pass.desired \in [Templates -> Sizes]
      BY <2>1 DEF VolumesInv, PodsInv, PassRead
    <3> QED  BY <3>1, <3>2, SizesAssumption
  <2> HIDE DEF size
  <2>5. /\ new \in Claim /\ new.volume = old.volume /\ new.request = size
        /\ new.capacity = old.capacity
    <3> HIDE DEF old
    <3> QED  BY <2>3, <2>4 DEF Claim
  <2>6. new.capacity <= new.volume /\ old.request <= new.request /\ old.volume <= new.volume
        /\ old.capacity <= new.capacity
    BY <2>2, <2>3, <2>4, <2>5 DEF Claim
  <2> HIDE DEF new
  <2> QED  BY <1>0, <2>1, <2>2, <2>5, <2>6, StoreOneGrown
<1> QED  BY <1>1, <1>2, <1>3, <1>4, <1>5, Writers

(* What is decided on the claims listed stays true of them: patches before  *)
(* a recreation, and done only with nothing left to grow.                   *)
LEMMA DecidedStep == VolumesInv /\ [Next]_vars => PassDecided'
<1> SUFFICES ASSUME VolumesInv, [Next]_vars, pc' \in {"patch", "recreate", "apply"} PROVE PassDecided'
  BY DEF PassDecided
<1>0. /\ IsClaims(claims) /\ IsClaims(claims') /\ Grown(claims, claims')
      /\ pass = [count |-> pass.count, desired |-> pass.desired, live |-> pass.live, listed |-> pass.listed,
                 running |-> pass.running, todo |-> pass.todo, recreate |-> pass.recreate, done |-> pass.done]
  <2>1. IsClaims(claims) /\ pass = [count |-> pass.count, desired |-> pass.desired, live |-> pass.live,
               listed |-> pass.listed, running |-> pass.running, todo |-> pass.todo,
               recreate |-> pass.recreate, done |-> pass.done]
    BY EndFacts DEF VolumesInv, PodsInv, TypeInv, ClaimsGrow, claims
  <2>2. IsClaims(claims')
    BY ClaimsStep, EndFacts DEF ClaimsGrow, claims
  <2> QED  BY <2>1, <2>2, ClaimsStep
<1>1. CASE UNCHANGED <<pc, pass>>
  <2>1. Grown(pass.listed, claims')
    BY <1>0, <1>1, GrownTransitive DEF VolumesInv, PassDecided
  <2> QED  BY <1>1, <2>1 DEF VolumesInv, PassDecided, Asked
<1>2. CASE ObserveClaims
  <2> DEFINE listed == Cached(claimLog)
             running == Cached(podLog)
             patches == { c \in DOMAIN listed : listed[c].request < pass.desired[c[1]] }
             failed  == { c \in DOMAIN listed \ patches : listed[c].infeasible }
             growing == { c \in DOMAIN listed \ (patches \cup failed) :
                            ~ usable(listed[c]) /\ (c[2] \in running \/ ~ resizePending(listed[c])) }
             decision == VolumesDecide(pass.desired, pass.live, listed, running)
  <2>1. /\ pc = "claims" /\ claims' = claims
        /\ pc' = IF decision.patches # {} THEN "patch" ELSE IF decision.recreate THEN "recreate" ELSE "apply"
        /\ pass' = [pass EXCEPT !.listed = listed, !.running = running, !.todo = decision.patches,
                                !.recreate = decision.recreate, !.done = decision.done]
    BY <1>2 DEF ObserveClaims, Finish, k8sVars, claims
  <2>2. /\ decision.patches = patches /\ decision.done = (patches \cup failed \cup growing = {})
        /\ decision.recreate = recreate(patches, pass.desired, pass.live)
    BY DEF VolumesDecide
  <2>3. IsClaims(listed) /\ Grown(listed, claims)
    BY EndFacts DEF VolumesInv, PodsInv, TypeInv, ClaimsGrow
  <2>4. pass.desired \in [Templates -> Sizes]
    BY <2>1 DEF VolumesInv, PodsInv, PassRead
  <2> HIDE DEF listed, running
  <2>5. \A c \in DOMAIN listed : listed[c].request \in Nat /\ pass.desired[c[1]] \in Nat
    BY <2>3, <2>4, SizesAssumption DEF IsClaims, Claim
  <2>6. \A c \in DOMAIN listed : c \in patches <=> ~ (listed[c].request >= pass.desired[c[1]])
    BY <2>5
  <2>7. patches \cup failed \cup growing = {} =>
          /\ patches = {}
          /\ \A c \in DOMAIN listed : \/ usable(listed[c])
                                      \/ c[2] \notin running /\ resizePending(listed[c])
    <3>1. ASSUME patches \cup failed \cup growing = {} PROVE patches = {}
      <4> HIDE DEF patches, failed, growing
      <4> QED  BY <3>1
    <3>2. ASSUME patches \cup failed \cup growing = {}, NEW c \in DOMAIN listed
          PROVE  usable(listed[c]) \/ (c[2] \notin running /\ resizePending(listed[c]))
      <4>1. c \notin patches \cup failed /\ c \notin growing
        <5> HIDE DEF patches, failed, growing
        <5> QED  BY <3>2
      <4> HIDE DEF patches, failed
      <4> QED  BY <4>1
    <3> HIDE DEF patches, failed, growing
    <3> QED  BY <3>1, <3>2
  <2> HIDE DEF patches, failed, growing, decision
  <2>8. /\ pass'.listed = listed /\ pass'.running = running /\ pass'.todo = patches
        /\ pass'.recreate = recreate(patches, pass.desired, pass.live)
        /\ pass'.done = (patches \cup failed \cup growing = {})
        /\ pass'.desired = pass.desired /\ pass'.live = pass.live
    BY <1>0, <2>1, <2>2
  <2>9. pc' = "recreate" <=> pass'.recreate /\ pass'.todo = {}
    BY <2>1, <2>2, <2>8
  <2>10. \A c \in pass'.todo : c \in DOMAIN pass'.listed /\ ~ (pass'.listed[c].request >= pass'.desired[c[1]])
    BY <2>6, <2>8 DEF patches
  <2>11. pass'.recreate => /\ pass'.live # NoSet /\ templatesGrew(pass'.desired, pass'.live.sizes)
                           /\ \A c \in DOMAIN pass'.listed : pass'.listed[c].request >= pass'.desired[c[1]]
    BY <2>6, <2>8 DEF recreate
  <2>12. pass'.done =>
           /\ pass'.live # NoSet /\ templatesGrew(pass'.desired, pass'.live.sizes) => pass'.recreate
           /\ pass'.todo = {}
           /\ \A c \in DOMAIN pass'.listed :
                /\ pass'.listed[c].request >= pass'.desired[c[1]]
                /\ \/ usable(pass'.listed[c])
                   \/ c[2] \notin pass'.running /\ resizePending(pass'.listed[c])
    BY <2>6, <2>7, <2>8 DEF recreate
  <2>13. IsClaims(pass'.listed) /\ Grown(pass'.listed, claims')
    BY <2>1, <2>3, <2>8
  <2> QED  BY <2>9, <2>10, <2>11, <2>12, <2>13 DEF PassDecided, Asked
<1>3. ASSUME NEW c \in pass.todo, growClaim(c) \/ RefusePatch(c) PROVE PassDecided'
  <2>1. /\ pc = "patch" /\ pass' = [pass EXCEPT !.todo = pass.todo \ {c}]
        /\ pc' = IF pass.todo # {c} THEN "patch" ELSE IF pass.recreate THEN "recreate" ELSE "apply"
    BY <1>3 DEF growClaim, RefusePatch, Patched
  <2>2. /\ pass'.listed = pass.listed /\ pass'.running = pass.running /\ pass'.todo = pass.todo \ {c}
        /\ pass'.recreate = pass.recreate /\ pass'.done = pass.done
        /\ pass'.desired = pass.desired /\ pass'.live = pass.live
    BY <1>0, <2>1
  <2>3. ~ pass.recreate /\ ~ pass.done
    BY <2>1 DEF VolumesInv, PassDecided
  <2>4. Grown(pass.listed, claims') /\ IsClaims(pass.listed)
    BY <1>0, <2>1, GrownTransitive DEF VolumesInv, PassDecided
  <2>5. \A d \in pass.todo : d \in DOMAIN pass.listed /\ ~ Asked(d)
    BY <2>1 DEF VolumesInv, PassDecided
  <2> QED  BY <2>1, <2>2, <2>3, <2>4, <2>5 DEF PassDecided, Asked
<1>4. ~ BeginPass /\ ~ Recreate /\ ~ ApplySet /\ ~ FailPass
  BY DEF BeginPass, Recreate, ApplySet, FailPass, Finish
<1> QED  BY <1>1, <1>2, <1>3, <1>4, Writers

-----------------------------------------------------------------------------
(* The theorems *)

(* A role that runs what is declared.                                       *)
LEMMA VolumesInit == Init => VolumesInv
<1> SUFFICES ASSUME Init PROVE VolumesInv
  OBVIOUS
<1> DEFINE first == [uid |-> 1, replicas |-> spec.count, sizes |-> spec.sizes, deleting |-> FALSE]
           D == Templates \X (Ordinals(spec.count) \cup Retained)
           made == [c \in D |-> NewClaim(spec.sizes[c[1]])]
<1>1. /\ spec \in [count : Counts, sizes : [Templates -> Sizes]]
      /\ spec.count \in Counts /\ spec.sizes \in [Templates -> Sizes] /\ spec.count \in Nat \ {0}
  BY CountsAssumption DEF Init
<1>2. setLog = <<first>> /\ podLog = <<Ordinals(spec.count)>> /\ claimLog = <<made>>
      /\ members = Ordinals(spec.count) /\ missed = FALSE /\ pc = "idle" /\ pass = NoPass
  BY DEF Init
<1>3. first \in StoredSet /\ first.sizes = spec.sizes /\ first.replicas = spec.count /\ first.uid = 1
  BY <1>1 DEF StoredSet
<1>4. NotAbove(spec.sizes, spec.sizes)
  <2>1. \A t \in Templates : spec.sizes[t] \in Nat
    BY <1>1, SizesAssumption
  <2> QED  BY <2>1 DEF NotAbove
<1>5. /\ IsClaims(made)
  <2>1. ASSUME NEW c \in D
        PROVE  /\ c[1] \in Templates /\ NewClaim(spec.sizes[c[1]]) \in Claim
               /\ NewClaim(spec.sizes[c[1]]).capacity <= NewClaim(spec.sizes[c[1]]).volume
    <3>1. c[1] \in Templates
      OBVIOUS
    <3>2. spec.sizes[c[1]] \in Nat
      BY <1>1, <3>1, SizesAssumption
    <3> QED  BY <3>1, <3>2 DEF NewClaim, Claim
  <2>2. DOMAIN made = D /\ made = [c \in DOMAIN made |-> made[c]]
    OBVIOUS
  <2>3. \A c \in D : c[1] \in Templates /\ made[c] \in Claim /\ made[c].capacity <= made[c].volume
    BY <2>1
  <2> HIDE DEF made, D
  <2> QED  BY <2>2, <2>3 DEF IsClaims
<1> HIDE DEF first, made
<1>6. /\ IsLog(setLog) /\ IsLog(podLog) /\ IsLog(claimLog)
      /\ Versions(setLog) = {first} /\ Versions(podLog) = {Ordinals(spec.count)}
      /\ Versions(claimLog) = {made} /\ claims = made
  BY <1>2, SingletonLog DEF claims
<1>7. SetsKeep
  BY <1>2, <1>3, <1>4, <1>6 DEF SetsKeep, Keeps
<1>8. UidsIdentify
  <2>1. first.uid <= 1
    BY <1>3
  <2> QED  BY <1>6, <2>1 DEF UidsIdentify, SameTemplates
<1>9. PodsBounded
  <2>1. Ordinals(spec.count) \subseteq Nat /\ \A o \in Ordinals(spec.count) : o <= spec.count
    BY <1>1 DEF Ordinals
  <2> QED  BY <1>1, <1>2, <1>6, <2>1 DEF PodsBounded
<1>10. ClaimsGrow
  BY <1>5, <1>6, GrownReflexive DEF ClaimsGrow
<1>11. TypeInv
  <2>1. pass = [count |-> pass.count, desired |-> pass.desired, live |-> pass.live, listed |-> pass.listed,
                running |-> pass.running, todo |-> pass.todo, recreate |-> pass.recreate, done |-> pass.done]
    BY <1>2 DEF NoPass
  <2>2. members \subseteq Nat
    BY <1>1, <1>2 DEF Ordinals
  <2> QED  BY <1>1, <1>2, <1>6, <2>1, <2>2 DEF TypeInv
<1> QED  BY <1>2, <1>7, <1>8, <1>9, <1>10, <1>11 DEF VolumesInv, PodsInv, PassRead, PassDecided

(* Every step keeps the invariant.                                          *)
LEMMA VolumesStep == VolumesInv /\ [Next]_vars => VolumesInv'
<1> SUFFICES ASSUME VolumesInv, [Next]_vars PROVE VolumesInv'
  OBVIOUS
<1>1. PodsInv
  BY DEF VolumesInv
<1>2. IsLog(setLog') /\ SetsKeep' /\ UidsIdentify' /\ IsLog(podLog') /\ PodsBounded' /\ PassRead'
  BY <1>1, SetsStep, PodsStep, PassReadStep
<1>3. IsLog(claimLog') /\ ClaimsGrow' /\ PassDecided'
  BY ClaimsStep, DecidedStep
<1>4. TypeInv'
  <2>1. /\ spec' \in [count : Counts, sizes : [Templates -> Sizes]]
        /\ members' \subseteq Nat
        /\ missed' \in BOOLEAN
    BY <1>1, SpecGrows, Writers, KeepsOn DEF PodsInv, TypeInv
  <2>2. /\ pc' \in {"idle", "claims", "patch", "recreate", "apply"}
        /\ pass' = [count |-> pass'.count, desired |-> pass'.desired, live |-> pass'.live, listed |-> pass'.listed,
                    running |-> pass'.running, todo |-> pass'.todo, recreate |-> pass'.recreate, done |-> pass'.done]
    BY <1>1, PassStepFacts
  <2> QED  BY <1>2, <1>3, <2>1, <2>2 DEF TypeInv
<1> QED  BY <1>2, <1>3, <1>4 DEF VolumesInv, PodsInv

(* A StatefulSet recreated with larger templates asks for the pod of every  *)
(* member (replicaCounts reads the count off the pods it left behind),      *)
(* whichever pods are evicted, unless a pass found no StatefulSet, no pod   *)
(* as high as the top member's and a declared count below it: the case      *)
(* runningOrdinals does not cover.                                          *)
THEOREM RecreationKeepsMembers == Spec => []RecreatedAroundMembers
<1>1. VolumesInv => RecreatedAroundMembers
  BY EndFacts DEF VolumesInv, PodsInv, TypeInv, SetsKeep, Keeps, RecreatedAroundMembers, set
<1> QED  BY <1>1, VolumesInit, VolumesStep, PTL DEF Spec

(* A StatefulSet is deleted only while its templates are too small, and     *)
(* after the claims the pass listed were grown (reconcileVolumes).          *)
THEOREM ClaimsBeforeDeletion == Spec => DeletedOnlyToGrow
<1>1. VolumesInv /\ [Next]_vars =>
        [ (set'.deleting /\ ~ set.deleting) =>
            /\ templatesGrew(spec.sizes, set.sizes)
            /\ \A c \in DOMAIN pass.listed : claims[c].request >= pass.desired[c[1]] ]_vars
  <2> SUFFICES ASSUME VolumesInv, [Next]_vars, set'.deleting, ~ set.deleting
               PROVE  /\ templatesGrew(spec.sizes, set.sizes)
                      /\ \A c \in DOMAIN pass.listed : claims[c].request >= pass.desired[c[1]]
    OBVIOUS
  <2>0. IsLog(setLog) /\ set \in Versions(setLog) /\ (set # NoSet => set \in StoredSet)
    BY EndFacts DEF VolumesInv, PodsInv, TypeInv, SetsKeep, set
  <2>1. Recreate /\ matchesUID(pass.live.uid)
    <3>1. CASE setLog' = setLog
      BY <3>1 DEF set
    <3>2. CASE FinishDelete
      BY <2>0, <3>2, StoreFacts DEF FinishDelete, set, NoSet
    <3>3. CASE SyncSet
      BY <2>0, <3>3, TailFacts DEF SyncSet, set
    <3>4. CASE ApplySet /\ setLog' # setLog
      <4> DEFINE new == [ uid |-> 1 + CHOOSE u \in Uids : \A v \in Uids : v <= u, replicas |-> pass.count,
                          sizes |-> KeepLiveSizes(pass.desired, pass.live), deleting |-> FALSE ]
                 kept == [set EXCEPT !.replicas = pass.count]
      <4>1. \/ setLog' = Store(setLog, new)
            \/ setLog' = Store(setLog, kept) /\ set # NoSet
        BY <3>4 DEF ApplySet
      <4>2. new.deleting = FALSE /\ (set # NoSet => kept.deleting = set.deleting)
        BY <2>0 DEF StoredSet
      <4> HIDE DEF new, kept
      <4>3. set' = new \/ (set' = kept /\ set # NoSet)
        BY <2>0, <4>1, StoreFacts DEF set
      <4> QED  BY <4>2, <4>3
    <3> QED  BY <3>1, <3>2, <3>3, <3>4, Writers DEF Recreate
  <2>2. /\ pc = "recreate" /\ set # NoSet /\ set.uid = pass.live.uid
        /\ pass.live # NoSet /\ templatesGrew(pass.desired, pass.live.sizes)
        /\ \A c \in DOMAIN pass.listed : Asked(c)
    BY <2>1 DEF Recreate, matchesUID, VolumesInv, PassDecided
  <2>3. set.sizes = pass.live.sizes
    BY <2>0, <2>2 DEF VolumesInv, PodsInv, PassRead, SameTemplates
  <2>4. templatesGrew(spec.sizes, set.sizes)
    <3>1. PICK t \in Templates : set.sizes[t] < pass.desired[t]
      BY <2>2, <2>3 DEF templatesGrew
    <3>2. pass.desired[t] <= spec.sizes[t]
      BY <2>2 DEF VolumesInv, PodsInv, PassRead, NotAbove
    <3>3. set.sizes[t] \in Nat /\ pass.desired[t] \in Nat /\ spec.sizes[t] \in Nat
      <4>1. /\ set.sizes \in [Templates -> Sizes] /\ pass.desired \in [Templates -> Sizes]
            /\ spec.sizes \in [Templates -> Sizes]
        BY <2>0, <2>2 DEF VolumesInv, PodsInv, PassRead, TypeInv, StoredSet
      <4> QED  BY <4>1, SizesAssumption
    <3>4. set.sizes[t] < spec.sizes[t]
      BY <3>1, <3>2, <3>3
    <3> QED  BY <3>4 DEF templatesGrew
  <2>5. ASSUME NEW c \in DOMAIN pass.listed PROVE claims[c].request >= pass.desired[c[1]]
    <3>1. /\ IsClaims(pass.listed) /\ c \in DOMAIN claims
          /\ pass.listed[c].request <= claims[c].request /\ pass.listed[c].request >= pass.desired[c[1]]
      BY <2>2, <2>5 DEF VolumesInv, PassDecided, Grown, Asked
    <3>2. IsClaims(claims)
      BY EndFacts DEF VolumesInv, PodsInv, TypeInv, ClaimsGrow, claims
    <3>3. pass.listed[c].request \in Nat /\ claims[c].request \in Nat
      BY <3>1, <3>2 DEF IsClaims, Claim
    <3>4. pass.desired[c[1]] \in Nat
      <4>1. c[1] \in Templates
        BY <3>1 DEF IsClaims
      <4>2. pass.desired \in [Templates -> Sizes]
        BY <2>2 DEF VolumesInv, PodsInv, PassRead
      <4> QED  BY <4>1, <4>2, SizesAssumption
    <3> QED  BY <3>1, <3>3, <3>4
  <2> QED  BY <2>4, <2>5
<1> QED  BY <1>1, VolumesInit, VolumesStep, PTL DEF Spec, DeletedOnlyToGrow

(* What a pass reports usable is: the templates are the declared ones, and  *)
(* the claims it listed have grown, on filesystems where they are mounted   *)
(* (volumes.Decide's verdict, read from caches, of objects that only grow). *)
THEOREM ReportsUsableStorage == Spec => ReportedMeansUsable
<1>1. VolumesInv /\ [Next]_vars =>
        [ (pc = "apply" /\ pc' = "idle" /\ reported') =>
            /\ set'.sizes = pass.desired
            /\ \A c \in DOMAIN pass.listed :
                  /\ claims[c].volume >= pass.desired[c[1]]
                  /\ c[2] \in pass.running => claims[c].capacity >= pass.desired[c[1]] ]_vars
  <2> SUFFICES ASSUME VolumesInv, [Next]_vars, pc = "apply", pc' = "idle", reported'
               PROVE  /\ set'.sizes = pass.desired
                      /\ \A c \in DOMAIN pass.listed :
                            /\ claims[c].volume >= pass.desired[c[1]]
                            /\ c[2] \in pass.running => claims[c].capacity >= pass.desired[c[1]]
    OBVIOUS
  <2>0. IsLog(setLog) /\ (set # NoSet => set \in StoredSet)
    BY EndFacts DEF VolumesInv, PodsInv, TypeInv, SetsKeep, set
  <2> DEFINE sizes == KeepLiveSizes(pass.desired, pass.live)
  <2>1. ApplySet
    <3>1. ~ FailPass
      BY DEF FailPass
    <3>2. \A c \in pass.todo : ~ growClaim(c) /\ ~ RefusePatch(c)
      BY DEF growClaim, RefusePatch
    <3>3. ~ BeginPass /\ ~ ObserveClaims /\ ~ Recreate
      BY DEF BeginPass, ObserveClaims, Recreate
    <3> QED  BY <3>1, <3>2, <3>3, Writers
  <2>2. pass.done /\ set'.sizes = sizes
    <3> DEFINE new == [ uid |-> 1 + CHOOSE u \in Uids : \A v \in Uids : v <= u, replicas |-> pass.count,
                        sizes |-> sizes, deleting |-> FALSE ]
               kept == [set EXCEPT !.replicas = pass.count]
    <3>1. /\ pass.done
          /\ \/ setLog' = Store(setLog, new)
             \/ setLog' = Store(setLog, kept) /\ set # NoSet /\ set.sizes = sizes
      BY <2>1 DEF ApplySet
    <3>2. new.sizes = sizes /\ (set # NoSet => kept.sizes = set.sizes)
      BY <2>0 DEF StoredSet
    <3> HIDE DEF new, kept, sizes
    <3>3. set' = new \/ (set' = kept /\ set # NoSet /\ set.sizes = sizes)
      BY <2>0, <3>1, StoreFacts DEF set
    <3> QED  BY <3>1, <3>2, <3>3
  <2>3. pass.desired \in [Templates -> Sizes]
    BY DEF VolumesInv, PodsInv, PassRead
  <2>4. sizes = pass.desired
    <3>1. CASE pass.live = NoSet
      BY <3>1 DEF KeepLiveSizes
    <3>2. CASE pass.live # NoSet
      <4>1. /\ sizes = pass.live.sizes /\ sizes \in [Templates -> Sizes]
            /\ NotAbove(sizes, pass.desired)
        BY <3>2 DEF VolumesInv, PodsInv, PassRead, StoredSet, KeepLiveSizes
      <4>2. ~ templatesGrew(pass.desired, pass.live.sizes)
        BY <2>2, <3>2 DEF VolumesInv, PassDecided
      <4> HIDE DEF sizes
      <4>3. ASSUME NEW t \in Templates PROVE sizes[t] = pass.desired[t]
        <5>1. sizes[t] \in Nat /\ pass.desired[t] \in Nat
          BY <2>3, <4>1, SizesAssumption
        <5>2. sizes[t] <= pass.desired[t] /\ ~ (sizes[t] < pass.desired[t])
          BY <4>1, <4>2 DEF NotAbove, templatesGrew
        <5> QED  BY <5>1, <5>2
      <4> QED  BY <2>3, <4>1, <4>3
    <3> QED  BY <3>1, <3>2
  <2>5. ASSUME NEW c \in DOMAIN pass.listed
        PROVE  /\ claims[c].volume >= pass.desired[c[1]]
               /\ c[2] \in pass.running => claims[c].capacity >= pass.desired[c[1]]
    <3> DEFINE size == pass.desired[c[1]]
               seen == pass.listed[c]
               now == claims[c]
    <3>1. IsClaims(pass.listed) /\ Grown(pass.listed, claims)
      BY DEF VolumesInv, PassDecided
    <3>2. IsClaims(claims)
      BY EndFacts DEF VolumesInv, PodsInv, TypeInv, ClaimsGrow, claims
    <3>3. seen \in Claim /\ seen.capacity <= seen.volume /\ c[1] \in Templates
      BY <3>1 DEF IsClaims
    <3>4. now \in Claim /\ seen.volume <= now.volume /\ seen.capacity <= now.capacity
      BY <3>1, <3>2 DEF IsClaims, Grown
    <3>5. size \in Nat
      BY <2>3, <3>3, SizesAssumption
    <3>6. /\ seen.request >= size
          /\ \/ seen.capacity >= seen.request
             \/ c[2] \notin pass.running /\ seen.volume >= seen.request
      BY <2>2 DEF VolumesInv, PassDecided, Asked, usable, resizePending
    <3> HIDE DEF size, seen, now
    <3>7. now.volume >= size /\ (c[2] \in pass.running => now.capacity >= size)
      BY <3>3, <3>4, <3>5, <3>6 DEF Claim
    <3> QED  BY <3>7 DEF size, seen, now
  <2> HIDE DEF sizes
  <2> QED  BY <2>2, <2>4, <2>5
<1> QED  BY <1>1, VolumesInit, VolumesStep, PTL DEF Spec, ReportedMeansUsable
=============================================================================
