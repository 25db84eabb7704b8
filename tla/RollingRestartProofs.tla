----------------------- MODULE RollingRestartProofs ------------------------
(***************************************************************************)
(* The safety properties of RollingRestart, for every replica count, every *)
(* set of templates and every bound: its types and that a template costs a *)
(* pod one restart, and, for changes made one roll at a time in a cluster  *)
(* where no container fails on its own, that a role has one pod down, that *)
(* a roll costs one failover and one election, and that the failover keeps *)
(* the proven writes.                                                      *)
(***************************************************************************)
EXTENDS RollingRestart, FiniteSetTheorems, WellFoundedInduction, TLAPS

-----------------------------------------------------------------------------
(* The inductive invariant of every behaviour *)

PodRecord == [uid : Nat \ {0}, revision : Revisions, phase : Phases]
SetRecord == [generation : Nat \ {0}, revision : Revisions, observed : Nat, updateRevision : Revisions,
              replicas : Nat, ready : Nat]

(* The versions of the pods of both roles. *)
PodVersions ==
  { w \in [Roles -> UNION { [Pods(r) -> PodRecord] : r \in Roles }] :
      \A r \in Roles : w[r] \in [Pods(r) -> PodRecord] }

(* The template that is live, and its generation. *)
Rev(r) == Live(sets[r]).revision
Gen(r) == Live(sets[r]).generation

ClusterType ==
  /\ spec \in [Roles -> Revisions]
  /\ sets \in [Roles -> Seq(SetRecord)] /\ \A r \in Roles : Len(sets[r]) \in 1 .. MaxLag + 1
  /\ podLog \in Seq(PodVersions) /\ Len(podLog) \in 1 .. MaxLag + 1
  /\ main \in Pods("data") /\ leader \in Pods("coordinators")
  /\ up \in [Roles -> SUBSET Nat] /\ \A r \in Roles : up[r] \subseteq Pods(r)
  /\ held \in [Pods("data") -> Nat] /\ \A d \in Pods("data") : held[d] + budget.writes <= MaxWrites
  /\ budget \in [edits : 0 .. MaxEdits, faults : Nat, crashes : 0 .. MaxCrashes, writes : Nat]
  /\ pc \in {"idle", "list", "view", "decide", "delete"}

(* A version of a StatefulSet and the live one: the live one is not older,  *)
(* a generation is of one template, and a status that has observed it       *)
(* reports its revision.                                                    *)
InStep(v, live) ==
  /\ v.observed <= v.generation /\ v.generation <= live.generation
  /\ v.generation = live.generation => v.revision = live.revision
  /\ v.observed = v.generation => v.updateRevision = v.revision

SetsInStep == \A r \in Roles : \A i \in DOMAIN sets[r] : InStep(sets[r][i], Live(sets[r]))

(* There are no more generations than edits made for. *)
EditsCounted == \A r \in Roles : Gen(r) + (IF Rev(r) = spec[r] THEN 0 ELSE 1) <= 1 + EditsMade

(* A version of the pods: incarnations are no later than the live ones, no  *)
(* more than the generations, the one of the last generation is of its      *)
(* template, and what was deleted was of an earlier one.                    *)
Born(w) ==
  \A r \in Roles : \A o \in Pods(r) :
    /\ w[r][o].uid <= pods[r][o].uid
    /\ w[r][o].uid <= Gen(r)
    /\ w[r][o].uid = Gen(r) => w[r][o].revision = Rev(r)
    /\ w[r][o].phase \in {"terminating", "gone"} => w[r][o].uid < Gen(r)

PodsBorn == \A i \in DOMAIN podLog : Born(podLog[i])

(* What observeRollout makes of a version of the pods. *)
Listing(w, r) ==
  [ replicas       |-> Replicas[r],
    updateRevision |-> pass.sets[r].updateRevision,
    stale          |-> isStale(pass.sets[r], pass.generation[r]),
    pods           |-> [ o \in { o \in Pods(r) : w[r][o].phase # "gone" } |->
                           [ uid |-> w[r][o].uid, revision |-> w[r][o].revision,
                             ready |-> w[r][o].phase = "ready", current |-> FALSE ] ] ]

Listed(w) == pass.roles = [r \in Roles |-> Listing(w, r)]

(* The pass holds versions of the StatefulSets of the generation it applied *)
(* or of earlier ones ...                                                   *)
SetsRead ==
  pc \in {"list", "view", "decide"} =>
    /\ pass = [sets |-> pass.sets, generation |-> pass.generation, roles |-> pass.roles,
               view |-> pass.view, victim |-> pass.victim, proven |-> pass.proven]
    /\ pass.sets \in [Roles -> SetRecord]
    /\ \A r \in Roles : InStep(pass.sets[r], Live(sets[r])) /\ pass.generation[r] = Gen(r)

(* ... a listing of the pods as they were ...                               *)
PodsRead == pc \in {"view", "decide"} => \E w \in PodVersions : Born(w) /\ Listed(w)

(* ... and takes down only a pod of an earlier template.                    *)
VictimOutdated ==
  pc = "delete" =>
    LET v == pass.victim
    IN  /\ pass = [NoPass EXCEPT !.victim = v, !.proven = pass.proven]
        /\ v.role \in Roles /\ v.ordinal \in Pods(v.role)
        /\ v.uid \in Nat /\ v.uid <= pods[v.role][v.ordinal].uid /\ v.uid < Gen(v.role)

RollInv ==
  ClusterType /\ SetsInStep /\ EditsCounted /\ PodsBorn /\ SetsRead /\ PodsRead /\ VictimOutdated

-----------------------------------------------------------------------------
(* The inductive invariant of settled rolls without failing containers *)

(* The instance that is kept for last, in the cluster and in a view. *)
Special(r)      == IF r = "data" THEN main ELSE leader
SpecialIn(view, r) == IF r = "data" THEN view.main ELSE view.leader

(* The pods of a version that have to be restarted, and whether all are     *)
(* ready.                                                                   *)
Needs(w, r) ==
  { o \in Pods(r) : w[r][o].revision # Rev(r) /\ <<w[r][o].revision, Rev(r)>> \notin NoRestart }

AllReady(w, r) == \A o \in Pods(r) : w[r][o].phase = "ready"

(* Whose turn it is. *)
Choice(needs, s) == Highest(IF needs \ {s} # {} THEN needs \ {s} ELSE needs)
Turn(w, r)       == Choice(Needs(w, r), Special(r))

(* The instance kept for last is down, going down or not back yet. *)
Away(r) == Special(r) \notin up[r] \/ pods[r][Special(r)].phase # "ready"

(* A version and a later one: an incarnation keeps its template and is not  *)
(* started twice, and from where all were ready only the pod whose turn it  *)
(* was has moved on.                                                        *)
Precede(w, x) ==
  \A r \in Roles :
    /\ \A o \in Pods(r) :
         /\ w[r][o].uid <= x[r][o].uid
         /\ w[r][o].uid = x[r][o].uid =>
              /\ w[r][o].revision = x[r][o].revision
              /\ w[r][o].phase = "ready" => x[r][o].phase # "starting"
    /\ AllReady(w, r) =>
         \A o \in Pods(r) : x[r][o] # w[r][o] => Needs(w, r) # {} /\ o = Turn(w, r)

(* With the instance kept for last away, no other was left to restart.      *)
Kept(w) == \A r \in Roles : AllReady(w, r) /\ Away(r) => Needs(w, r) \subseteq {Special(r)}

LogOrdered == \A i, j \in DOMAIN podLog : i < j => Precede(podLog[i], podLog[j])
LogKept    == \A i \in DOMAIN podLog : Kept(podLog[i])

(* A version that a pass has read, which may have left the log since. *)
ReadEarlier(w) == Kept(w) /\ \A i \in DOMAIN podLog : Precede(w, podLog[i])

OneAway == \A r \in Roles : \A o, p \in Pods(r) :
             pods[r][o].phase # "ready" /\ pods[r][p].phase # "ready" => o = p

AwayLast == \A r \in Roles : Away(r) =>
              /\ Needs(pods, r) \subseteq {Special(r)}
              /\ \A o \in Pods(r) \ {Special(r)} : pods[r][o].phase = "ready"

(* A view is current, or nothing but the instance it names is left to       *)
(* restart; what it has up is up, unless restarted since.                   *)
ViewHolds(w) ==
  \A r \in Roles : AllReady(w, r) =>
    /\ SpecialIn(pass.view, r) # Special(r) => Needs(w, r) \subseteq {SpecialIn(pass.view, r)}
    /\ \A o \in Pods(r) : o \in pass.view.up[r] => o \in up[r] \/ pods[r][o] # w[r][o]

ReadsHold ==
  pc \in {"view", "decide"} =>
    \E w \in PodVersions : Listed(w) /\ ReadEarlier(w) /\ (pc = "decide" => ViewHolds(w))

(* The MAIN holds n transactions and so does another instance that is ready *)
(* and up, which can take its place.                                        *)
Covered(n) ==
  /\ held[main] >= n
  /\ \/ Replicas["data"] = 1
     \/ \E o \in up["data"] \ {main} : held[o] >= n /\ pods["data"][o].phase = "ready"

(* The pod to delete is the one whose turn it was; before a coordinator's,  *)
(* all data instances were done; the MAIN's is covered.                     *)
VictimInTurn ==
  pc = "delete" =>
    \E w \in PodVersions :
      LET v == pass.victim
      IN  /\ ReadEarlier(w)
          /\ AllReady(w, v.role) /\ Needs(w, v.role) # {}
          /\ v.ordinal = Turn(w, v.role) /\ v.uid = w[v.role][v.ordinal].uid
          /\ v.role = "coordinators" => AllReady(w, "data") /\ Needs(w, "data") = {}
          /\ v.role = "data" /\ v.ordinal = main /\ pods["data"][main] = w["data"][main] =>
               pass.proven \in Nat /\ Covered(pass.proven)

(* A template that is not applied yet was declared in a cluster at rest.    *)
EditedAtRest ==
  (\E r \in Roles : Rev(r) # spec[r]) =>
    /\ pc = "idle" /\ Len(podLog) = 1
    /\ \A r \in Roles : up[r] = Pods(r) /\ AllReady(pods, r)

(* The history: what the operator took down is what is not ready, a roll    *)
(* with a failover still to come has had none, and a MAIN that was taken    *)
(* down is covered.                                                         *)
TakenNotReady == \A r \in Roles : \A o \in Pods(r) : <<r, o>> \in taken <=> pods[r][o].phase # "ready"

FailoversCounted ==
  /\ failovers \in [Roles -> Nat]
  /\ \A r \in Roles :
       failovers[r] + (IF Special(r) \in Needs(pods, r) \/ Away(r) THEN 1 ELSE 0) <= Gen(r) - 1

MainCovered == <<"data", main>> \in taken => proven \in Nat /\ Covered(proven)

NoCrashes == budget.crashes = 0

SettledInv ==
  /\ RollInv
  /\ NoCrashes /\ EditedAtRest /\ LogOrdered /\ LogKept /\ OneAway /\ AwayLast
  /\ ReadsHold /\ VictimInTurn
  /\ TakenNotReady /\ FailoversCounted /\ MainCovered

-----------------------------------------------------------------------------
(* Lemmas on logs and on the operators *)

(* A log after a step: a version may have been delivered and one stored.    *)
Extends(log, new) ==
  \E k \in 0 .. 1 : \A i \in DOMAIN new : i # Len(new) => i + k \in DOMAIN log /\ new[i] = log[i + k]

(* The last version of a log is one of its versions.                        *)
LEMMA LiveFacts ==
  ASSUME NEW S, NEW log \in Seq(S), Len(log) \in Nat \ {0}
  PROVE  /\ Live(log) \in S /\ Len(log) \in DOMAIN log
         /\ Cached(log) = log[1] /\ 1 \in DOMAIN log /\ Cached(log) \in S
         /\ DOMAIN log = 1 .. Len(log)
         /\ \A i \in DOMAIN log : i \in Nat /\ log[i] \in S
  BY DEF Live, Cached

(* Storing a version makes it the live one and keeps the cache within its   *)
(* bound (an apply, a status or a pod, and the watch behind it).            *)
LEMMA StoreFacts ==
  ASSUME NEW S, NEW log \in Seq(S), Len(log) \in 1 .. MaxLag + 1, NEW v \in S
  PROVE  /\ Store(log, v) \in Seq(S) /\ Len(Store(log, v)) \in 1 .. MaxLag + 1
         /\ Live(Store(log, v)) = v /\ Extends(log, Store(log, v))
<1> DEFINE new == Store(log, v)
<1>0. MaxLag \in Nat
  BY BoundsAssumption
<1>1. CASE v = Live(log)
  <2>1. new = log
    BY <1>1 DEF Store
  <2> QED  BY <1>1, <2>1 DEF Extends
<1>2. CASE v # Live(log) /\ Len(log) > MaxLag
  <2>1. new = Append(Tail(log), v)
    BY <1>2 DEF Store
  <2>2. Tail(log) \in Seq(S) /\ Len(Tail(log)) = Len(log) - 1
        /\ \A i \in 1 .. Len(log) - 1 : Tail(log)[i] = log[i + 1]
    BY <1>0
  <2>3. /\ new \in Seq(S) /\ Len(new) = Len(log) /\ new[Len(new)] = v
        /\ \A i \in 1 .. Len(log) - 1 : new[i] = log[i + 1]
    BY <2>1, <2>2
  <2> HIDE DEF new
  <2>4. Extends(log, new)
    BY <2>3 DEF Extends
  <2> QED  BY <1>0, <2>3, <2>4 DEF Live, new
<1>3. CASE v # Live(log) /\ ~ (Len(log) > MaxLag)
  <2>1. new = Append(log, v)
    BY <1>3 DEF Store
  <2>2. /\ new \in Seq(S) /\ Len(new) = Len(log) + 1 /\ new[Len(new)] = v
        /\ \A i \in 1 .. Len(log) : new[i] = log[i]
    BY <2>1
  <2> HIDE DEF new
  <2>3. Extends(log, new)
    BY <2>2 DEF Extends
  <2> QED  BY <1>0, <1>3, <2>2, <2>3 DEF Live, new
<1> QED  BY <1>1, <1>2, <1>3

(* Delivering a version leaves the live one.                                *)
LEMMA TailFacts ==
  ASSUME NEW S, NEW log \in Seq(S), Len(log) \in 2 .. MaxLag + 1
  PROVE  /\ Tail(log) \in Seq(S) /\ Len(Tail(log)) \in 1 .. MaxLag + 1
         /\ Live(Tail(log)) = Live(log) /\ Extends(log, Tail(log))
<1>0. MaxLag \in Nat
  BY BoundsAssumption
<1>1. /\ Tail(log) \in Seq(S) /\ Len(Tail(log)) = Len(log) - 1
      /\ \A i \in 1 .. Len(log) - 1 : Tail(log)[i] = log[i + 1]
  BY <1>0
<1>2. Extends(log, Tail(log))
  BY <1>1 DEF Extends
<1> QED  BY <1>0, <1>1, <1>2 DEF Live

(* Nothing is delivered or stored.                                          *)
LEMMA SameLog ==
  ASSUME NEW S, NEW log \in Seq(S)
  PROVE  Extends(log, log)
  BY DEF Extends

(* A set of naturals with a bound has a highest member, and Highest is it.  *)
LEMMA HighestFacts ==
  ASSUME NEW n \in Nat, NEW S \in SUBSET (0 .. n - 1), S # {}
  PROVE  Highest(S) \in S
<1> DEFINE T == { n - x : x \in S }
<1>1. T \in SUBSET Nat /\ T # {}
  OBVIOUS
<1>2. PICK t \in T : \A y \in T : ~ (<<y, t>> \in OpToRel(<, Nat))
  BY <1>1, NatLessThanWellFounded, WFMin
<1>3. PICK x \in S : t = n - x
  BY <1>2
<1>4. ASSUME NEW y \in S PROVE y <= x
  <2>1. n - y \in T /\ n - y \in Nat /\ t \in Nat
    BY <1>1
  <2>2. ~ (n - y < t)
    BY <1>2, <2>1 DEF OpToRel
  <2> QED  BY <1>3, <2>2
<1>5. \E z \in S : \A y \in S : y <= z
  BY <1>4
<1> QED  BY <1>5 DEF Highest

(* The instance kept for last has its turn when nothing else is left.       *)
LEMMA ChoiceFacts ==
  ASSUME NEW r \in Roles, NEW needs \in SUBSET Pods(r), needs # {}, NEW s
  PROVE  /\ Choice(needs, s) \in needs
         /\ Choice(needs, s) = s => needs = {s}
         /\ needs \subseteq {s} => Choice(needs, s) = s
         /\ \A t : needs \subseteq {t} => Choice(needs, s) = t
<1> DEFINE from == IF needs \ {s} # {} THEN needs \ {s} ELSE needs
<1>1. Replicas[r] \in Nat
  BY ReplicasAssumption
<1>2. from \in SUBSET (0 .. Replicas[r] - 1) /\ from # {} /\ from \subseteq needs
  BY DEF Pods
<1>3. Highest(from) \in from
  BY <1>1, <1>2, HighestFacts
<1>4. Choice(needs, s) \in from
  BY <1>3 DEF Choice
<1> QED  BY <1>4

(* The ordinals of a role are as many as its replicas.                      *)
LEMMA PodsFacts ==
  ASSUME NEW r \in Roles
  PROVE  /\ IsFiniteSet(Pods(r)) /\ Cardinality(Pods(r)) = Replicas[r]
         /\ Pods(r) \subseteq Nat /\ Replicas[r] \in Nat \ {0}
<1>1. Replicas[r] \in Nat \ {0}
  BY ReplicasAssumption
<1>2. /\ IsFiniteSet(0 .. Replicas[r] - 1)
      /\ Cardinality(0 .. Replicas[r] - 1) = IF 0 > Replicas[r] - 1 THEN 0 ELSE Replicas[r] - 1 - 0 + 1
  <2>1. 0 \in Int /\ Replicas[r] - 1 \in Int
    BY <1>1
  <2> QED  BY <2>1, FS_Interval
<1> QED  BY <1>1, <1>2 DEF Pods

(* A count of pods is a number.                                             *)
LEMMA CountType ==
  ASSUME NEW r \in Roles, NEW S \in SUBSET Pods(r)
  PROVE  Cardinality(S) \in Nat
  BY PodsFacts, FS_Subset, FS_CardinalityType

(* A version of the pods has the pods of both roles, and a pod of it can be *)
(* replaced by another.                                                     *)
LEMMA VersionFacts ==
  ASSUME NEW w \in PodVersions
  PROVE  /\ \A r \in Roles : w[r] \in [Pods(r) -> PodRecord]
         /\ \A r \in Roles : \A o \in Pods(r) :
              /\ w[r][o] \in PodRecord /\ w[r][o].uid \in Nat \ {0}
              /\ w[r][o].revision \in Revisions /\ w[r][o].phase \in Phases
         /\ w = [r \in Roles |-> w[r]]
  BY DEF PodVersions, PodRecord

LEMMA ReplacePod ==
  ASSUME NEW w \in PodVersions, NEW r \in Roles, NEW o \in Pods(r), NEW pod \in PodRecord
  PROVE  LET new == [w EXCEPT ![r][o] = pod]
         IN  /\ new \in PodVersions /\ new[r][o] = pod
             /\ \A q \in Roles : \A p \in Pods(q) : ~ (q = r /\ p = o) => new[q][p] = w[q][p]
<1> DEFINE new == [w EXCEPT ![r][o] = pod]
<1>1. \A q \in Roles : w[q] \in [Pods(q) -> PodRecord]
  BY VersionFacts
<1>2. \A q \in Roles : new[q] = IF q = r THEN [w[r] EXCEPT ![o] = pod] ELSE w[q]
  BY VersionFacts
<1>3. \A q \in Roles : new[q] \in [Pods(q) -> PodRecord]
  BY <1>1, <1>2
<1>4. new = [q \in Roles |-> new[q]]
  BY VersionFacts
<1>5. new \in [Roles -> UNION { [Pods(q) -> PodRecord] : q \in Roles }]
  BY <1>3, <1>4
<1>6. new \in PodVersions
  BY <1>3, <1>5 DEF PodVersions
<1>7. new[r][o] = pod /\ \A q \in Roles : \A p \in Pods(q) : ~ (q = r /\ p = o) => new[q][p] = w[q][p]
  BY <1>1, <1>2
<1> QED  BY <1>6, <1>7

(* Spending takes one from the budget of its kind and no other.             *)
LEMMA SpendFacts ==
  ASSUME ClusterType, NEW kind \in {"edits", "faults", "crashes", "writes"}, Spend(kind)
  PROVE  /\ budget' \in [edits : 0 .. MaxEdits, faults : Nat, crashes : 0 .. MaxCrashes, writes : Nat]
         /\ budget[kind] > 0 /\ budget'[kind] = budget[kind] - 1
         /\ \A other \in {"edits", "faults", "crashes", "writes"} \ {kind} : budget'[other] = budget[other]
<1> DEFINE kinds == {"edits", "faults", "crashes", "writes"}
<1>1. /\ budget \in [edits : 0 .. MaxEdits, faults : Nat, crashes : 0 .. MaxCrashes, writes : Nat]
      /\ MaxEdits \in Nat /\ MaxCrashes \in Nat
  BY BoundsAssumption DEF ClusterType
<1>2. budget = [k \in kinds |-> budget[k]] /\ \A k \in kinds : budget[k] \in Nat
  BY <1>1
<1>3. budget[kind] > 0 /\ budget' = [budget EXCEPT ![kind] = budget[kind] - 1]
  BY DEF Spend
<1>4. budget' = [k \in kinds |-> budget'[k]]
      /\ \A k \in kinds : budget'[k] = IF k = kind THEN budget[kind] - 1 ELSE budget[k]
  BY <1>2, <1>3
<1>5. budget' = [edits |-> budget'.edits, faults |-> budget'.faults, crashes |-> budget'.crashes,
                 writes |-> budget'.writes]
  BY <1>4
<1>6. /\ budget'.edits \in 0 .. MaxEdits /\ budget'.faults \in Nat
      /\ budget'.crashes \in 0 .. MaxCrashes /\ budget'.writes \in Nat
  BY <1>1, <1>2, <1>3, <1>4
<1> QED  BY <1>3, <1>4, <1>5, <1>6

(* The live versions are of their types.                                    *)
LEMMA LiveTypes ==
  ASSUME ClusterType
  PROVE  /\ \A r \in Roles : Live(sets[r]) \in SetRecord /\ Rev(r) \in Revisions /\ Gen(r) \in Nat \ {0}
         /\ pods \in PodVersions /\ \A i \in DOMAIN podLog : podLog[i] \in PodVersions
         /\ podLog \in Seq(PodVersions) /\ Len(podLog) \in Nat \ {0} /\ Len(podLog) \in DOMAIN podLog
         /\ podLog[Len(podLog)] = pods /\ DOMAIN podLog = 1 .. Len(podLog)
<1>1. MaxLag \in Nat
  BY BoundsAssumption
<1>2. ASSUME NEW r \in Roles
      PROVE  Live(sets[r]) \in SetRecord /\ Rev(r) \in Revisions /\ Gen(r) \in Nat \ {0}
  <2>1. sets[r] \in Seq(SetRecord) /\ Len(sets[r]) \in Nat \ {0}
    BY <1>1 DEF ClusterType
  <2>2. Live(sets[r]) \in SetRecord
    BY <2>1, LiveFacts
  <2> QED  BY <2>2 DEF Rev, Gen, SetRecord
<1>3. podLog \in Seq(PodVersions) /\ Len(podLog) \in Nat \ {0}
  BY <1>1 DEF ClusterType
<1>4. /\ Live(podLog) \in PodVersions /\ Len(podLog) \in DOMAIN podLog /\ DOMAIN podLog = 1 .. Len(podLog)
      /\ \A i \in DOMAIN podLog : podLog[i] \in PodVersions
  BY <1>3, LiveFacts
<1> QED  BY <1>2, <1>3, <1>4 DEF pods, Live

-----------------------------------------------------------------------------
(* Who writes what *)

(* The steps that change a variable, and with what.                         *)
LEMMA Writers ==
  ASSUME [Next]_vars
  PROVE  /\ spec' = spec \/ \E r \in Roles : \E revision \in Revisions : Edit(r, revision)
         /\ sets' = sets \/ BeginPass \/ \E r \in Roles : ReportStatus(r) \/ SyncSet(r)
         /\ \/ podLog' = podLog \/ SyncPods \/ restartPod
            \/ \E r \in Roles : \E o \in Pods(r) : Kubelet(r, o) \/ Crash(r, o)
         /\ main' = main \/ \E d \in Pods("data") : Failover(d)
         /\ leader' = leader \/ \E c \in Pods("coordinators") : Elect(c)
         /\ \/ up' = up
            \/ \E r \in Roles : \E o \in Pods(r) : Terminate(r, o) \/ Crash(r, o) \/ Rejoin(r, o)
         /\ held' = held \/ Commit \/ \E d \in Pods("data") : Recover(d) \/ Failover(d)
         /\ \/ pc' = pc /\ pass' = pass
            \/ BeginPass \/ ListPods \/ Observe \/ Decide \/ DecideWithoutLag \/ restartPod
            \/ WaitForFlagClasses \/ FailPass
         /\ taken' = taken \/ restartPod \/ \E r \in Roles : \E o \in Pods(r) : BecomeReady(r, o)
         /\ \/ failovers' = failovers \/ \E d \in Pods("data") : Failover(d)
            \/ \E c \in Pods("coordinators") : Elect(c)
         /\ proven' = proven \/ restartPod
         /\ \/ budget' = budget \/ Spend("faults") \/ Commit
            \/ \E r \in Roles : \E o \in Pods(r) : Crash(r, o)
            \/ \E r \in Roles : \E revision \in Revisions : Edit(r, revision)
<1>1. CASE UNCHANGED vars
  BY <1>1 DEF vars, k8sVars, clusterVars, passVars, history
<1>2. CASE PassStep
  <2>1. CASE BeginPass
    BY <2>1 DEF BeginPass, clusterVars, history
  <2>2. CASE ListPods
    BY <2>2 DEF ListPods, k8sVars, clusterVars, history
  <2>3. CASE Observe
    BY <2>3 DEF Observe, k8sVars, clusterVars, history
  <2>4. CASE Decide
    BY <2>4 DEF Decide, k8sVars, clusterVars, history
  <2>5. CASE restartPod
    BY <2>5 DEF restartPod, clusterVars
  <2> QED  BY <1>2, <2>1, <2>2, <2>3, <2>4, <2>5 DEF PassStep
<1>3. ASSUME NEW r \in Roles, NEW o \in Pods(r), Kubelet(r, o) \/ Crash(r, o) \/ Rejoin(r, o)
      PROVE  /\ spec' = spec /\ sets' = sets /\ main' = main /\ leader' = leader /\ held' = held
             /\ pc' = pc /\ pass' = pass /\ failovers' = failovers /\ proven' = proven
             /\ podLog' = podLog \/ Kubelet(r, o) \/ Crash(r, o)
             /\ up' = up \/ Terminate(r, o) \/ Crash(r, o) \/ Rejoin(r, o)
             /\ taken' = taken \/ BecomeReady(r, o)
             /\ budget' = budget \/ Crash(r, o)
  BY <1>3 DEF Kubelet, Terminate, Create, BecomeReady, Crash, Rejoin, k8sVars, clusterVars, passVars, history
<1>4. ASSUME NEW r \in Roles, ReportStatus(r) \/ SyncSet(r)
      PROVE  UNCHANGED <<spec, podLog, main, leader, up, held, pc, pass, taken, failovers, proven, budget>>
  BY <1>4 DEF ReportStatus, SyncSet, clusterVars, passVars, history
<1>5. ASSUME NEW r \in Roles, NEW revision \in Revisions, Edit(r, revision)
      PROVE  UNCHANGED <<sets, podLog, main, leader, up, held, pc, pass, taken, failovers, proven>>
  BY <1>5 DEF Edit, k8sVars, clusterVars, passVars, history
<1>6. CASE SyncPods
  BY <1>6 DEF SyncPods, clusterVars, passVars, history
<1>7. CASE Commit
  BY <1>7 DEF Commit, k8sVars, passVars, history
<1>8. CASE \E d \in Pods("data") : Recover(d) \/ Failover(d)
  BY <1>8 DEF Recover, Failover, k8sVars, passVars, history
<1>9. CASE \E c \in Pods("coordinators") : Elect(c)
  BY <1>9 DEF Elect, k8sVars, passVars
<1>10. CASE DecideWithoutLag \/ WaitForFlagClasses \/ FailPass
  BY <1>10 DEF DecideWithoutLag, WaitForFlagClasses, FailPass, k8sVars, clusterVars, history
<1>11. CASE \E r \in Roles : \E o \in Pods(r) : Kubelet(r, o) \/ Crash(r, o) \/ Rejoin(r, o)
  BY <1>3, <1>11
<1>12. CASE \E r \in Roles : ReportStatus(r) \/ SyncSet(r)
  BY <1>4, <1>12
<1>13. CASE \E r \in Roles : \E revision \in Revisions : Edit(r, revision)
  BY <1>5, <1>13
<1>14. CASE Environment
  BY <1>14, <1>6, <1>7, <1>8, <1>9, <1>10, <1>11, <1>12, <1>13 DEF Environment
<1> QED  BY <1>1, <1>2, <1>14 DEF Next

-----------------------------------------------------------------------------
(* The StatefulSets *)

(* What is in step with the live version is in step with its successor.     *)
LEMMA InStepKept ==
  ASSUME NEW live \in SetRecord, NEW new \in SetRecord, NEW v \in SetRecord, InStep(v, live),
         new.generation >= live.generation, new.generation = live.generation => new.revision = live.revision
  PROVE  InStep(v, new)
  BY DEF InStep, SetRecord

LEMMA SetLogKept ==
  ASSUME NEW log \in Seq(SetRecord), Len(log) \in Nat \ {0}, \A i \in DOMAIN log : InStep(log[i], Live(log)),
         NEW new \in Seq(SetRecord), Len(new) \in Nat \ {0}, Extends(log, new),
         InStep(Live(new), Live(new)), Live(new).generation >= Live(log).generation,
         Live(new).generation = Live(log).generation => Live(new).revision = Live(log).revision
  PROVE  \A i \in DOMAIN new : InStep(new[i], Live(new))
<1> SUFFICES ASSUME NEW i \in DOMAIN new PROVE InStep(new[i], Live(new))
  OBVIOUS
<1>1. CASE i = Len(new)
  BY <1>1 DEF Live
<1>2. CASE i # Len(new)
  <2>1. PICK j \in DOMAIN log : new[i] = log[j]
    BY <1>2 DEF Extends
  <2>2. Live(log) \in SetRecord /\ Live(new) \in SetRecord /\ log[j] \in SetRecord
    BY LiveFacts
  <2> QED  BY <2>1, <2>2, InStepKept
<1> QED  BY <1>1, <1>2

(* The logs of the StatefulSets stay in step, and only a pass that applies  *)
(* a new template moves to the next generation.                             *)
LEMMA SetsMove ==
  ASSUME ClusterType, SetsInStep, [Next]_vars
  PROVE  /\ sets' \in [Roles -> Seq(SetRecord)] /\ \A r \in Roles : Len(sets'[r]) \in 1 .. MaxLag + 1
         /\ SetsInStep'
         /\ \A r \in Roles :
              \/ Gen(r)' = Gen(r) /\ Rev(r)' = Rev(r)
              \/ BeginPass /\ Gen(r)' = Gen(r) + 1 /\ Rev(r) # spec[r] /\ Rev(r)' = spec[r]
         /\ BeginPass => \A r \in Roles : Rev(r)' = spec[r]
<1>0. /\ MaxLag \in Nat /\ sets \in [Roles -> Seq(SetRecord)]
      /\ \A r \in Roles : Len(sets[r]) \in 1 .. MaxLag + 1 /\ Len(sets[r]) \in Nat \ {0}
      /\ spec \in [Roles -> Revisions]
  BY BoundsAssumption DEF ClusterType
<1>1. \A r \in Roles : Live(sets[r]) \in SetRecord /\ InStep(Live(sets[r]), Live(sets[r]))
  <2> SUFFICES ASSUME NEW r \in Roles PROVE Live(sets[r]) \in SetRecord /\ InStep(Live(sets[r]), Live(sets[r]))
    OBVIOUS
  <2>1. Live(sets[r]) \in SetRecord /\ Len(sets[r]) \in DOMAIN sets[r]
    BY <1>0, LiveFacts
  <2> QED  BY <2>1 DEF SetsInStep, Live
<1> DEFINE Moved(r) ==
      /\ sets'[r] \in Seq(SetRecord) /\ Len(sets'[r]) \in 1 .. MaxLag + 1
      /\ \A i \in DOMAIN sets'[r] : InStep(sets'[r][i], Live(sets'[r]))
      /\ \/ Gen(r)' = Gen(r) /\ Rev(r)' = Rev(r)
         \/ BeginPass /\ Gen(r)' = Gen(r) + 1 /\ Rev(r) # spec[r] /\ Rev(r)' = spec[r]
      /\ BeginPass => Rev(r)' = spec[r]
<1>2. ASSUME NEW r \in Roles, sets'[r] = sets[r], ~ BeginPass PROVE Moved(r)
  BY <1>0, <1>2 DEF SetsInStep, Gen, Rev
<1>4. ASSUME NEW r \in Roles, ReportStatus(r) \/ SyncSet(r)
      PROVE  sets' \in [Roles -> Seq(SetRecord)] /\ \A q \in Roles : Moved(q)
  <2>1. \A q \in Roles \ {r} : sets'[q] = sets[q]
    BY <1>0, <1>4 DEF ReportStatus, SyncSet
  <2>2. pc' = pc
    BY <1>4 DEF ReportStatus, SyncSet, passVars
  <2>3. ~ BeginPass
    BY <2>2 DEF BeginPass
  <2>4. \A q \in Roles \ {r} : Moved(q)
    BY <1>2, <2>1, <2>3
  <2>5. /\ sets'[r] \in Seq(SetRecord) /\ Len(sets'[r]) \in 1 .. MaxLag + 1 /\ Extends(sets[r], sets'[r])
        /\ InStep(Live(sets'[r]), Live(sets'[r])) /\ Live(sets'[r]).generation = Live(sets[r]).generation
        /\ Live(sets'[r]).revision = Live(sets[r]).revision /\ sets' = [q \in Roles |-> sets'[q]]
    <3>1. CASE SyncSet(r)
      <4>1. sets'[r] = Tail(sets[r]) /\ Len(sets[r]) > 1 /\ sets' = [q \in Roles |-> sets'[q]]
        BY <1>0, <3>1 DEF SyncSet
      <4>2. Len(sets[r]) \in 2 .. MaxLag + 1
        BY <1>0, <4>1
      <4> QED  BY <1>0, <1>1, <4>1, <4>2, TailFacts
    <3>2. CASE ReportStatus(r)
      <4> DEFINE v == Live(sets[r])
                 a == Cardinality({ o \in Pods(r) : pods[r][o].phase # "gone" })
                 b == Cardinality({ o \in Pods(r) : pods[r][o].phase \in {"ready", "terminating"} })
                 new == [v EXCEPT !.observed = v.generation, !.updateRevision = v.revision,
                                  !.replicas = a, !.ready = b]
      <4>1. sets' = [sets EXCEPT ![r] = Store(sets[r], new)]
        BY <3>2 DEF ReportStatus
      <4>2. sets'[r] = Store(sets[r], new) /\ sets' = [q \in Roles |-> sets'[q]]
        BY <1>0, <4>1
      <4>3. a \in Nat /\ b \in Nat
        BY CountType
      <4> HIDE DEF a, b
      <4>4. v \in SetRecord
        BY <1>1
      <4> HIDE DEF v
      <4>5. new \in SetRecord /\ new.generation = v.generation /\ new.revision = v.revision
            /\ new.observed = v.generation /\ new.updateRevision = v.revision
        BY <4>3, <4>4 DEF SetRecord
      <4> HIDE DEF new
      <4>6. InStep(new, new)
        BY <4>4, <4>5 DEF InStep, SetRecord
      <4>7. /\ sets'[r] \in Seq(SetRecord) /\ Len(sets'[r]) \in 1 .. MaxLag + 1
            /\ Extends(sets[r], sets'[r]) /\ Live(sets'[r]) = new
        BY <1>0, <4>2, <4>5, StoreFacts
      <4> QED  BY <4>2, <4>5, <4>6, <4>7 DEF v
    <3> QED  BY <1>4, <3>1, <3>2
  <2>6. Len(sets'[r]) \in Nat \ {0} /\ Live(sets'[r]).generation >= Live(sets[r]).generation
    <3>1. Live(sets[r]).generation \in Nat
      BY <1>1 DEF SetRecord
    <3> QED  BY <1>0, <2>5, <3>1
  <2>7. \A i \in DOMAIN sets[r] : InStep(sets[r][i], Live(sets[r]))
    BY DEF SetsInStep
  <2>8. \A i \in DOMAIN sets'[r] : InStep(sets'[r][i], Live(sets'[r]))
    BY <1>0, <2>5, <2>6, <2>7, SetLogKept
  <2>9. Moved(r)
    BY <2>3, <2>5, <2>8 DEF Gen, Rev
  <2> QED  BY <2>4, <2>5, <2>9
<1>5. ASSUME BeginPass PROVE sets' \in [Roles -> Seq(SetRecord)] /\ \A q \in Roles : Moved(q)
  <2> DEFINE applied(r) == IF Live(sets[r]).revision = spec[r] THEN Live(sets[r])
                           ELSE [Live(sets[r]) EXCEPT !.generation = Live(sets[r]).generation + 1,
                                                      !.revision = spec[r]]
  <2>1. sets' = [r \in Roles |-> Store(sets[r], applied(r))]
    BY <1>5 DEF BeginPass
  <2>2. ASSUME NEW r \in Roles
        PROVE  /\ applied(r) \in SetRecord /\ InStep(applied(r), applied(r))
               /\ applied(r).revision = spec[r]
               /\ applied(r).generation = Live(sets[r]).generation + (IF Rev(r) = spec[r] THEN 0 ELSE 1)
    <3> DEFINE v == Live(sets[r])
    <3>1. v \in SetRecord /\ InStep(v, v) /\ spec[r] \in Revisions
      BY <1>0, <1>1
    <3>2. Rev(r) = v.revision
      BY DEF Rev
    <3> HIDE DEF v
    <3>3. CASE v.revision = spec[r]
      <4>1. applied(r) = v
        BY <3>3 DEF v
      <4> QED  BY <3>1, <3>2, <3>3, <4>1 DEF SetRecord, v
    <3>4. CASE v.revision # spec[r]
      <4> DEFINE new == [v EXCEPT !.generation = v.generation + 1, !.revision = spec[r]]
      <4>1. applied(r) = new
        BY <3>4 DEF v
      <4>2. new \in SetRecord /\ new.generation = v.generation + 1 /\ new.revision = spec[r]
            /\ new.observed = v.observed /\ new.observed \in Nat /\ v.generation \in Nat
        <5>1. v.generation \in Nat /\ v.generation + 1 \in Nat \ {0} /\ v.observed \in Nat
          BY <3>1 DEF SetRecord
        <5>2. new \in SetRecord
          BY <3>1, <5>1 DEF SetRecord
        <5>3. new.generation = v.generation + 1 /\ new.revision = spec[r] /\ new.observed = v.observed
          BY <3>1 DEF SetRecord
        <5> QED  BY <5>1, <5>2, <5>3
      <4> HIDE DEF new
      <4>3. v.observed <= v.generation
        BY <3>1 DEF InStep
      <4>4. InStep(new, new)
        BY <4>2, <4>3 DEF InStep
      <4> QED  BY <3>2, <3>4, <4>1, <4>2, <4>4 DEF v
    <3> QED  BY <3>3, <3>4
  <2>3. ASSUME NEW r \in Roles PROVE Moved(r) /\ sets'[r] \in Seq(SetRecord)
    <3>1. sets'[r] = Store(sets[r], applied(r))
      BY <2>1
    <3> HIDE DEF applied
    <3>2. /\ sets'[r] \in Seq(SetRecord) /\ Len(sets'[r]) \in 1 .. MaxLag + 1
          /\ Extends(sets[r], sets'[r]) /\ Live(sets'[r]) = applied(r)
      BY <1>0, <2>2, <3>1, StoreFacts
    <3>3. /\ Len(sets'[r]) \in Nat \ {0} /\ Live(sets[r]).generation \in Nat
          /\ \A i \in DOMAIN sets[r] : InStep(sets[r][i], Live(sets[r]))
      <4>1. Live(sets[r]).generation \in Nat
        BY <1>1 DEF SetRecord
      <4>2. \A i \in DOMAIN sets[r] : InStep(sets[r][i], Live(sets[r]))
        BY DEF SetsInStep
      <4> QED  BY <1>0, <3>2, <4>1, <4>2
    <3>4. Live(sets'[r]).generation = Live(sets[r]).generation => Live(sets'[r]).revision = Live(sets[r]).revision
      BY <2>2, <3>2, <3>3 DEF Rev
    <3>5. Live(sets'[r]).generation >= Live(sets[r]).generation
      BY <2>2, <3>2, <3>3
    <3>6. \A i \in DOMAIN sets'[r] : InStep(sets'[r][i], Live(sets'[r]))
      BY <1>0, <2>2, <3>2, <3>3, <3>4, <3>5, SetLogKept
    <3> QED  BY <1>5, <2>2, <3>2, <3>3, <3>6 DEF Gen, Rev
  <2> QED  BY <2>1, <2>3
<1>6. sets' \in [Roles -> Seq(SetRecord)] /\ \A q \in Roles : Moved(q)
  <2>1. CASE sets' = sets /\ ~ BeginPass
    BY <1>0, <1>2, <2>1
  <2> QED  BY <1>4, <1>5, <2>1, Writers
<1> QED  BY <1>6 DEF SetsInStep

-----------------------------------------------------------------------------
(* The pods *)

At(pod, phase) == [uid |-> pod.uid, revision |-> pod.revision, phase |-> phase]

Deletes(r, o) ==
  /\ restartPod /\ pc = "delete" /\ r = pass.victim.role /\ o = pass.victim.ordinal
  /\ pods[r][o].phase # "gone" /\ pods[r][o].uid = pass.victim.uid

(* What a step may do to a pod. *)
Moved(r, o) ==
  LET old == pods[r][o]  new == pods'[r][o]
  IN  \/ Terminate(r, o) /\ old.phase = "terminating" /\ new = At(old, "gone")
      \/ /\ Create(r, o) /\ old.phase = "gone"
         /\ new = [uid |-> old.uid + 1, revision |-> Rev(r), phase |-> "starting"]
      \/ BecomeReady(r, o) /\ old.phase = "starting" /\ new = At(old, "ready")
      \/ Crash(r, o) /\ old.phase = "ready" /\ new = At(old, "starting")
      \/ Deletes(r, o) /\ new = At(old, "terminating")

PodsSame == podLog' = podLog \/ podLog' = Tail(podLog)

(* Storing another state of a pod leaves the other pods.                    *)
LEMMA StorePodFacts ==
  ASSUME ClusterType, NEW r \in Roles, NEW o \in Pods(r), NEW pod \in PodRecord, StorePod(r, o, pod)
  PROVE  /\ podLog' \in Seq(PodVersions) /\ Len(podLog') \in 1 .. MaxLag + 1
         /\ Extends(podLog, podLog') /\ pods' \in PodVersions /\ pods'[r][o] = pod
         /\ \A q \in Roles : \A p \in Pods(q) : ~ (q = r /\ p = o) => pods'[q][p] = pods[q][p]
<1>1. /\ podLog \in Seq(PodVersions) /\ Len(podLog) \in 1 .. MaxLag + 1 /\ Len(podLog) \in Nat \ {0}
  BY BoundsAssumption DEF ClusterType
<1>2. pods \in PodVersions
  BY <1>1, LiveFacts DEF pods
<1> DEFINE new == [pods EXCEPT ![r][o] = pod]
<1>3. /\ new \in PodVersions /\ new[r][o] = pod
      /\ \A q \in Roles : \A p \in Pods(q) : ~ (q = r /\ p = o) => new[q][p] = pods[q][p]
  BY <1>2, ReplacePod
<1>4. podLog' = Store(podLog, new)
  BY DEF StorePod
<1> HIDE DEF new
<1>5. /\ podLog' \in Seq(PodVersions) /\ Len(podLog') \in 1 .. MaxLag + 1
      /\ Extends(podLog, podLog') /\ Live(podLog') = new
  BY <1>1, <1>3, <1>4, StoreFacts
<1>6. pods' = new
  BY <1>5 DEF pods
<1> QED  BY <1>3, <1>5, <1>6

(* A step leaves the live pods or moves one of them.                        *)
LEMMA PodsMove ==
  ASSUME ClusterType, VictimOutdated, [Next]_vars
  PROVE  /\ podLog' \in Seq(PodVersions) /\ Len(podLog') \in 1 .. MaxLag + 1
         /\ Extends(podLog, podLog') /\ pods' \in PodVersions
         /\ \/ pods' = pods /\ PodsSame
            \/ \E r \in Roles : \E o \in Pods(r) :
                 /\ Moved(r, o)
                 /\ \A q \in Roles : \A p \in Pods(q) : ~ (q = r /\ p = o) => pods'[q][p] = pods[q][p]
<1>1. /\ podLog \in Seq(PodVersions) /\ Len(podLog) \in 1 .. MaxLag + 1 /\ Len(podLog) \in Nat \ {0}
      /\ MaxLag \in Nat
  BY BoundsAssumption DEF ClusterType
<1>2. pods \in PodVersions
  BY <1>1, LiveFacts DEF pods
<1>3. CASE podLog' = podLog
  <2>1. pods' = pods
    BY <1>3 DEF pods
  <2> QED  BY <1>1, <1>2, <1>3, <2>1, SameLog DEF PodsSame
<1>4. CASE SyncPods
  <2>1. Len(podLog) \in 2 .. MaxLag + 1 /\ podLog' = Tail(podLog)
    BY <1>1, <1>4 DEF SyncPods
  <2>2. /\ podLog' \in Seq(PodVersions) /\ Len(podLog') \in 1 .. MaxLag + 1
        /\ Live(podLog') = Live(podLog) /\ Extends(podLog, podLog')
    BY <1>1, <2>1, TailFacts
  <2>3. pods' = pods
    BY <2>2 DEF pods
  <2> QED  BY <1>2, <2>1, <2>2, <2>3 DEF PodsSame
<1>5. ASSUME NEW r \in Roles, NEW o \in Pods(r), NEW pod \in PodRecord, StorePod(r, o, pod),
             pods'[r][o] = pod => Moved(r, o)
      PROVE  /\ podLog' \in Seq(PodVersions) /\ Len(podLog') \in 1 .. MaxLag + 1
             /\ Extends(podLog, podLog') /\ pods' \in PodVersions
             /\ Moved(r, o)
             /\ \A q \in Roles : \A p \in Pods(q) : ~ (q = r /\ p = o) => pods'[q][p] = pods[q][p]
  BY <1>5, StorePodFacts
<1>6. ASSUME NEW r \in Roles, NEW o \in Pods(r)
      PROVE  /\ pods[r][o] \in PodRecord /\ pods[r][o] = At(pods[r][o], pods[r][o].phase)
             /\ \A phase \in Phases : /\ [pods[r][o] EXCEPT !.phase = phase] = At(pods[r][o], phase)
                                      /\ At(pods[r][o], phase) \in PodRecord
  <2>1. pods[r][o] \in PodRecord
    BY <1>2, VersionFacts
  <2> QED  BY <2>1 DEF PodRecord, At
<1>7. {"ready", "terminating", "gone", "starting"} \subseteq Phases
  BY DEF Phases
<1>8. ASSUME NEW r \in Roles, NEW o \in Pods(r), Terminate(r, o)
      PROVE  \E pod \in PodRecord : StorePod(r, o, pod) /\ (pods'[r][o] = pod => Moved(r, o))
  <2>1. /\ StorePod(r, o, [pods[r][o] EXCEPT !.phase = "gone"]) /\ pods[r][o].phase = "terminating"
    BY <1>8 DEF Terminate
  <2>2. StorePod(r, o, At(pods[r][o], "gone")) /\ At(pods[r][o], "gone") \in PodRecord
    BY <1>6, <1>7, <2>1
  <2> QED  BY <1>8, <2>1, <2>2 DEF Moved
<1>9. ASSUME NEW r \in Roles, NEW o \in Pods(r), BecomeReady(r, o)
      PROVE  \E pod \in PodRecord : StorePod(r, o, pod) /\ (pods'[r][o] = pod => Moved(r, o))
  <2>1. /\ StorePod(r, o, [pods[r][o] EXCEPT !.phase = "ready"]) /\ pods[r][o].phase = "starting"
    BY <1>9 DEF BecomeReady
  <2>2. StorePod(r, o, At(pods[r][o], "ready")) /\ At(pods[r][o], "ready") \in PodRecord
    BY <1>6, <1>7, <2>1
  <2> QED  BY <1>9, <2>1, <2>2 DEF Moved
<1>10. ASSUME NEW r \in Roles, NEW o \in Pods(r), Crash(r, o)
       PROVE  \E pod \in PodRecord : StorePod(r, o, pod) /\ (pods'[r][o] = pod => Moved(r, o))
  <2>1. /\ StorePod(r, o, [pods[r][o] EXCEPT !.phase = "starting"]) /\ pods[r][o].phase = "ready"
    BY <1>10 DEF Crash
  <2>2. StorePod(r, o, At(pods[r][o], "starting")) /\ At(pods[r][o], "starting") \in PodRecord
    BY <1>6, <1>7, <2>1
  <2> QED  BY <1>10, <2>1, <2>2 DEF Moved
<1>11. ASSUME NEW r \in Roles, NEW o \in Pods(r), Create(r, o)
       PROVE  \E pod \in PodRecord : StorePod(r, o, pod) /\ (pods'[r][o] = pod => Moved(r, o))
  <2> DEFINE pod == [uid |-> pods[r][o].uid + 1, revision |-> Rev(r), phase |-> "starting"]
  <2>1. StorePod(r, o, pod) /\ pods[r][o].phase = "gone"
    BY <1>11 DEF Create, Rev
  <2>3. Rev(r) \in Revisions
    BY LiveTypes
  <2>4. pod \in PodRecord
    BY <1>6, <1>7, <2>3 DEF PodRecord
  <2> QED  BY <1>11, <2>1, <2>4 DEF Moved
<1>12. CASE restartPod
  <2> DEFINE r == pass.victim.role
             o == pass.victim.ordinal
  <2>1. CASE UNCHANGED podLog
    BY <1>3, <2>1
  <2>2. CASE podLog' # podLog
    <3>1. /\ pc = "delete" /\ StorePod(r, o, [pods[r][o] EXCEPT !.phase = "terminating"])
          /\ matchesUID(pods[r][o], pass.victim.uid)
      BY <1>12, <2>2 DEF restartPod
    <3>2. r \in Roles /\ o \in Pods(r)
      BY <3>1 DEF VictimOutdated
    <3>3. StorePod(r, o, At(pods[r][o], "terminating")) /\ At(pods[r][o], "terminating") \in PodRecord
      BY <1>6, <1>7, <3>1, <3>2
    <3>4. pods'[r][o] = At(pods[r][o], "terminating") => Moved(r, o)
      BY <1>12, <3>1 DEF Moved, Deletes, matchesUID
    <3> QED  BY <1>5, <3>2, <3>3, <3>4
  <2> QED  BY <2>1, <2>2
<1>13. CASE \E r \in Roles : \E o \in Pods(r) : Kubelet(r, o) \/ Crash(r, o)
  <2>0. PICK r \in Roles : \E o \in Pods(r) : Kubelet(r, o) \/ Crash(r, o)
    BY <1>13
  <2>1. PICK o \in Pods(r) : Kubelet(r, o) \/ Crash(r, o)
    BY <2>0
  <2>2. \E pod \in PodRecord : StorePod(r, o, pod) /\ (pods'[r][o] = pod => Moved(r, o))
    BY <1>8, <1>9, <1>10, <1>11, <2>1 DEF Kubelet
  <2> QED  BY <1>5, <2>2
<1> QED  BY <1>3, <1>4, <1>12, <1>13, Writers

-----------------------------------------------------------------------------
(* The decision *)

(* A pod is chosen only when neither role is stale and all the pods of the  *)
(* one that is rolled are present; a data instance first, and the MAIN last *)
(* and covered (Next, nextDataInstance, nextCoordinator).                   *)
LEMMA NextFacts ==
  ASSUME NEW data, NEW coordinators, NEW view, NEW lag,
         NextRestart(data, coordinators, view, lag).action = "delete"
  PROVE  LET decision == NextRestart(data, coordinators, view, lag)
         IN  /\ ~ data.stale /\ ~ coordinators.stale /\ present(data)
             /\ \/ /\ outdated(data) # {}
                   /\ decision = restarting("data", data, Choice(outdated(data), view.main))
                   /\ outdated(data) \ {view.main} = {} => mainMayRestart(data, view, lag)
                \/ /\ outdated(data) = {} /\ outdated(coordinators) # {} /\ present(coordinators)
                   /\ decision = restarting("coordinators", coordinators,
                                            Choice(outdated(coordinators), view.leader))
<1> DEFINE decision == NextRestart(data, coordinators, view, lag)
<1>0. Waiting.action # "delete" /\ Done.action # "delete"
  BY DEF Waiting, Done
<1>1. ~ data.stale /\ ~ coordinators.stale
  BY <1>0 DEF NextRestart
<1>2. CASE outdated(data) # {}
  <2>1. decision = nextDataInstance(data, view, lag)
    BY <1>1, <1>2 DEF NextRestart, InProgress
  <2> HIDE DEF decision
  <2>2. present(data)
    BY <1>0, <2>1 DEF nextDataInstance, decision
  <2>3. CASE outdated(data) \ {view.main} # {}
    <3>1. decision = restarting("data", data, Highest(outdated(data) \ {view.main}))
      BY <1>0, <2>1, <2>2, <2>3 DEF nextDataInstance, pendingExcept, decision
    <3> QED  BY <1>1, <1>2, <2>2, <2>3, <3>1 DEF Choice, decision
  <2>4. CASE outdated(data) \ {view.main} = {}
    <3>1. mainMayRestart(data, view, lag) /\ decision = restarting("data", data, Highest(outdated(data)))
      BY <1>0, <2>1, <2>2, <2>4 DEF nextDataInstance, pendingExcept, decision
    <3> QED  BY <1>1, <1>2, <2>2, <2>4, <3>1 DEF Choice, decision
  <2> QED  BY <2>3, <2>4
<1>3. CASE outdated(data) = {}
  <2>1. /\ decision = nextCoordinator(coordinators, view) /\ present(data) /\ outdated(coordinators) # {}
    BY <1>0, <1>1, <1>3 DEF NextRestart, InProgress
  <2> HIDE DEF decision
  <2>2. /\ present(coordinators)
        /\ decision = restarting("coordinators", coordinators,
                                 Choice(outdated(coordinators), view.leader))
    BY <1>0, <2>1 DEF nextCoordinator, pendingExcept, Choice, decision
  <2> QED  BY <1>1, <1>3, <2>1, <2>2 DEF decision
<1> QED  BY <1>2, <1>3

(* What the decision sees of a listing: unless it is stale or not all pods  *)
(* are there, the pods that have to be restarted.                           *)
LEMMA ListingFacts ==
  ASSUME ClusterType, SetsRead, pc = "decide", NEW w \in PodVersions, Listed(w), NEW r \in Roles
  PROVE  LET e == exemptCurrentPods(r)
         IN  /\ e.replicas = Replicas[r] /\ e.stale = isStale(pass.sets[r], pass.generation[r])
             /\ DOMAIN e.pods = { o \in Pods(r) : w[r][o].phase # "gone" }
             /\ \A o \in DOMAIN e.pods : e.pods[o].uid = w[r][o].uid
             /\ ~ e.stale => outdated(e) = Needs(w, r) \cap DOMAIN e.pods
             /\ present(e) => AllReady(w, r) /\ DOMAIN e.pods = Pods(r)
<1> DEFINE e == exemptCurrentPods(r)
           l == Listing(w, r)
           v == pass.sets[r]
           dom == { o \in Pods(r) : w[r][o].phase # "gone" }
           exempt(o) == /\ FlagsChanged(r, pass.roles[r].pods[o])
                        /\ <<pass.roles[r].pods[o].revision, v.revision>> \in NoRestart
<1>1. pass.roles[r] = l
  BY DEF Listed
<1> DEFINE rec(o) == [uid |-> w[r][o].uid, revision |-> w[r][o].revision,
                      ready |-> w[r][o].phase = "ready", current |-> FALSE]
<1>2. /\ DOMAIN l.pods = dom /\ \A o \in dom : l.pods[o] = rec(o)
      /\ l.replicas = Replicas[r] /\ l.updateRevision = v.updateRevision
      /\ l.stale = isStale(v, pass.generation[r])
  BY DEF Listing
<1>3. e = [l EXCEPT !.pods = [o \in DOMAIN l.pods |-> [l.pods[o] EXCEPT !.current = exempt(o)]]]
  BY <1>1 DEF exemptCurrentPods
<1> DEFINE marked == [o \in DOMAIN l.pods |-> [l.pods[o] EXCEPT !.current = exempt(o)]]
<1>4. e = [replicas |-> l.replicas, updateRevision |-> l.updateRevision, stale |-> l.stale, pods |-> marked]
  BY <1>3 DEF Listing
<1> HIDE DEF e, l, exempt, marked
<1>5. \A o \in dom : rec(o).uid = w[r][o].uid /\ rec(o).revision = w[r][o].revision
                     /\ (rec(o).ready <=> w[r][o].phase = "ready")
  OBVIOUS
<1> DEFINE new(o) == [rec(o) EXCEPT !.current = exempt(o)]
<1>6. \A o \in dom : new(o).uid = rec(o).uid /\ new(o).revision = rec(o).revision
                      /\ (new(o).ready <=> rec(o).ready) /\ (new(o).current <=> exempt(o))
  OBVIOUS
<1> HIDE DEF rec
<1>7. e.pods = marked /\ DOMAIN marked = dom
  BY <1>2, <1>4 DEF marked
<1>8. \A o \in dom : e.pods[o] = new(o)
  BY <1>2, <1>7 DEF marked
<1> HIDE DEF new
<1>9. \A o \in dom : /\ e.pods[o].uid = w[r][o].uid /\ e.pods[o].revision = w[r][o].revision
                      /\ (e.pods[o].ready <=> w[r][o].phase = "ready") /\ (e.pods[o].current <=> exempt(o))
  BY <1>5, <1>6, <1>8
<1>10. /\ e.replicas = Replicas[r] /\ e.stale = isStale(v, pass.generation[r])
      /\ e.updateRevision = v.updateRevision /\ DOMAIN e.pods = dom
  <2>1. e.replicas = l.replicas /\ e.updateRevision = l.updateRevision /\ e.stale = l.stale
    BY <1>4
  <2> QED  BY <1>2, <1>7, <2>1
<1>11. \A o \in DOMAIN e.pods : e.pods[o].uid = w[r][o].uid
  BY <1>9, <1>10
<1>12. ASSUME ~ e.stale PROVE outdated(e) = Needs(w, r) \cap DOMAIN e.pods
  <2>1. /\ v \in SetRecord /\ InStep(v, Live(sets[r])) /\ pass.generation[r] = Gen(r)
        /\ Gen(r) \in Nat /\ Rev(r) \in Revisions
    BY LiveTypes DEF SetsRead
  <2>2. ~ (v.generation < Gen(r)) /\ v.observed = v.generation
    BY <1>10, <1>12, <2>1 DEF isStale
  <2>3. v.generation = Gen(r)
    BY <2>1, <2>2 DEF InStep, Gen, SetRecord
  <2>4. v.updateRevision = Rev(r) /\ v.revision = Rev(r)
    BY <2>1, <2>2, <2>3 DEF InStep, Gen, Rev
  <2>5. NoRevision \notin Revisions
    BY RevisionsAssumption
  <2>6. ASSUME NEW o \in dom
        PROVE  o \in outdated(e) <=> o \in Needs(w, r)
    <3>1. w[r][o].revision \in Revisions
      BY VersionFacts
    <3>2. pass.roles[r].pods[o].revision = w[r][o].revision
      BY <1>1, <1>2, <1>5
    <3>3. exempt(o) <=> w[r][o].revision # Rev(r) /\ <<w[r][o].revision, Rev(r)>> \in NoRestart
      BY <2>4, <3>2, FlagsAssumption DEF FlagsChanged, exempt
    <3>4. o \in outdated(e) <=>
            /\ NoRevision \notin {Rev(r), w[r][o].revision} /\ w[r][o].revision # Rev(r) /\ ~ exempt(o)
      BY <1>9, <1>10, <2>4 DEF outdated
    <3>5. o \in Needs(w, r) <=> w[r][o].revision # Rev(r) /\ <<w[r][o].revision, Rev(r)>> \notin NoRestart
      BY DEF Needs
    <3> QED  BY <2>1, <2>5, <3>1, <3>3, <3>4, <3>5
  <2>7. outdated(e) \subseteq dom
    BY <1>10 DEF outdated
  <2> QED  BY <1>10, <2>6, <2>7
<1>13. ASSUME present(e) PROVE AllReady(w, r) /\ DOMAIN e.pods = Pods(r)
  <2>1. Cardinality(dom) = Replicas[r] /\ \A o \in dom : e.pods[o].ready
    BY <1>10, <1>13 DEF present
  <2>2. dom = Pods(r)
    <3>1. IsFiniteSet(Pods(r)) /\ Cardinality(Pods(r)) = Cardinality(dom) /\ dom \in SUBSET Pods(r)
      BY <2>1, PodsFacts
    <3> HIDE DEF dom
    <3> QED  BY <3>1, FS_Subset
  <2>3. \A o \in dom : w[r][o].phase = "ready"
    BY <1>9, <2>1
  <2> QED  BY <1>10, <2>2, <2>3 DEF AllReady
<1> QED  BY <1>10, <1>11, <1>12, <1>13 DEF e

(* Whoever is to be deleted had its turn in the listing.                    *)
LEMMA DecisionFacts ==
  ASSUME ClusterType, SetsRead, pc = "decide", NEW w \in PodVersions, Listed(w), NEW lag,
         NEW decision, decision.action = "delete",
         decision = NextRestart(exemptCurrentPods("data"), exemptCurrentPods("coordinators"), pass.view, lag)
  PROVE  LET r == decision.role
         IN  /\ r \in Roles /\ AllReady(w, r) /\ Needs(w, r) # {}
             /\ decision = [action |-> "delete", role |-> r, ordinal |-> decision.ordinal, uid |-> decision.uid]
             /\ decision.ordinal = Choice(Needs(w, r), SpecialIn(pass.view, r))
             /\ decision.ordinal \in Needs(w, r) /\ decision.ordinal \in Pods(r)
             /\ decision.uid = w[r][decision.ordinal].uid
             /\ r = "coordinators" => AllReady(w, "data") /\ Needs(w, "data") = {}
             /\ r = "data" /\ Needs(w, "data") \ {pass.view.main} = {} =>
                  mainMayRestart(exemptCurrentPods("data"), pass.view, lag)
<1> DEFINE e(r) == exemptCurrentPods(r)
<1>0. {"data", "coordinators"} \subseteq Roles
  BY DEF Roles
<1>1. \A r \in Roles :
        /\ DOMAIN e(r).pods = { o \in Pods(r) : w[r][o].phase # "gone" }
        /\ \A o \in DOMAIN e(r).pods : e(r).pods[o].uid = w[r][o].uid
        /\ ~ e(r).stale => outdated(e(r)) = Needs(w, r) \cap DOMAIN e(r).pods
        /\ present(e(r)) => AllReady(w, r) /\ DOMAIN e(r).pods = Pods(r)
  BY ListingFacts
<1>2. \A r \in Roles : Needs(w, r) \subseteq Pods(r)
  BY DEF Needs
<1>3. \A r \in Roles : present(e(r)) /\ ~ e(r).stale => outdated(e(r)) = Needs(w, r)
  BY <1>1, <1>2
<1>4. /\ ~ e("data").stale /\ ~ e("coordinators").stale /\ present(e("data"))
      /\ \/ /\ outdated(e("data")) # {}
            /\ decision = restarting("data", e("data"), Choice(outdated(e("data")), pass.view.main))
            /\ outdated(e("data")) \ {pass.view.main} = {} => mainMayRestart(e("data"), pass.view, lag)
         \/ /\ outdated(e("data")) = {} /\ outdated(e("coordinators")) # {} /\ present(e("coordinators"))
            /\ decision = restarting("coordinators", e("coordinators"),
                                     Choice(outdated(e("coordinators")), pass.view.leader))
  BY NextFacts
<1> HIDE DEF e
<1>5. AllReady(w, "data") /\ outdated(e("data")) = Needs(w, "data")
  BY <1>0, <1>1, <1>3, <1>4
<1>6. ASSUME NEW r \in Roles, NEW s, Needs(w, r) # {}, present(e(r)),
             decision = restarting(r, e(r), Choice(Needs(w, r), s))
      PROVE  /\ decision.role = r /\ decision.ordinal = Choice(Needs(w, r), s) /\ decision.ordinal \in Needs(w, r)
             /\ decision.ordinal \in Pods(r) /\ decision.uid = w[r][decision.ordinal].uid
             /\ decision = [action |-> "delete", role |-> r, ordinal |-> decision.ordinal, uid |-> decision.uid]
  <2>1. Choice(Needs(w, r), s) \in Needs(w, r)
    BY <1>2, <1>6, ChoiceFacts
  <2> QED  BY <1>1, <1>2, <1>6, <2>1 DEF restarting
<1>7. CASE outdated(e("data")) # {}
  <2>1. decision = restarting("data", e("data"), Choice(Needs(w, "data"), pass.view.main))
        /\ (Needs(w, "data") \ {pass.view.main} = {} => mainMayRestart(e("data"), pass.view, lag))
        /\ Needs(w, "data") # {}
    BY <1>4, <1>5, <1>7
  <2> QED  BY <1>0, <1>4, <1>5, <1>6, <2>1 DEF SpecialIn, e
<1>8. CASE outdated(e("data")) = {}
  <2>1. outdated(e("coordinators")) = Needs(w, "coordinators") /\ AllReady(w, "coordinators")
    BY <1>0, <1>1, <1>3, <1>4, <1>8
  <2>2. decision = restarting("coordinators", e("coordinators"), Choice(Needs(w, "coordinators"), pass.view.leader))
        /\ Needs(w, "coordinators") # {} /\ present(e("coordinators"))
    BY <1>4, <1>8, <2>1
  <2> QED  BY <1>0, <1>5, <1>6, <1>8, <2>1, <2>2 DEF SpecialIn
<1> QED  BY <1>7, <1>8

-----------------------------------------------------------------------------
(* Types, and one restart per edit *)

(* The cluster, the logs and the bounds keep their types.                   *)
LEMMA ClusterStep ==
  ASSUME ClusterType, SetsInStep, VictimOutdated, [Next]_vars
  PROVE  ClusterType'
<1>0. {"data", "coordinators"} \subseteq Roles /\ \A r \in Roles : Pods(r) \subseteq Nat
  BY PodsFacts DEF Roles
<1>1. spec' \in [Roles -> Revisions]
  BY Writers DEF ClusterType, Edit
<1>2. sets' \in [Roles -> Seq(SetRecord)] /\ \A r \in Roles : Len(sets'[r]) \in 1 .. MaxLag + 1
  BY SetsMove
<1>3. podLog' \in Seq(PodVersions) /\ Len(podLog') \in 1 .. MaxLag + 1
  BY PodsMove
<1>4. main' \in Pods("data") /\ leader' \in Pods("coordinators")
  BY Writers DEF ClusterType, Failover, Elect
<1>5. up' \in [Roles -> SUBSET Nat] /\ \A r \in Roles : up'[r] \subseteq Pods(r)
  <2>1. up \in [Roles -> SUBSET Nat] /\ \A r \in Roles : up[r] \subseteq Pods(r)
    BY DEF ClusterType
  <2>2. ASSUME NEW r \in Roles, NEW o \in Pods(r), Terminate(r, o) \/ Crash(r, o) \/ Rejoin(r, o)
        PROVE  up' = [up EXCEPT ![r] = up[r] \ {o}] \/ up' = [up EXCEPT ![r] = up[r] \cup {o}]
    BY <2>2 DEF Terminate, Crash, Rejoin
  <2>3. ASSUME NEW r \in Roles, NEW o \in Pods(r), Terminate(r, o) \/ Crash(r, o) \/ Rejoin(r, o)
        PROVE  up' \in [Roles -> SUBSET Nat] /\ \A q \in Roles : up'[q] \subseteq Pods(q)
    BY <1>0, <2>1, <2>2, <2>3
  <2> QED  BY <2>1, <2>3, Writers
<1>6. budget' \in [edits : 0 .. MaxEdits, faults : Nat, crashes : 0 .. MaxCrashes, writes : Nat]
      /\ (budget'.writes = budget.writes \/ Commit)
  <2>1. budget \in [edits : 0 .. MaxEdits, faults : Nat, crashes : 0 .. MaxCrashes, writes : Nat]
    BY DEF ClusterType
  <2>2. budget' = budget \/ \E kind \in {"edits", "faults", "crashes"} : Spend(kind) \/ Commit
    BY Writers DEF Crash, Edit
  <2>3. Commit => Spend("writes")
    BY DEF Commit
  <2>4. CASE budget' = budget
    BY <2>1, <2>4
  <2>5. CASE \E kind \in {"edits", "faults", "crashes"} : Spend(kind)
    BY <2>5, SpendFacts
  <2>6. CASE Commit
    BY <2>3, <2>6, SpendFacts
  <2> QED  BY <2>2, <2>4, <2>5, <2>6
<1>7. held' \in [Pods("data") -> Nat] /\ \A d \in Pods("data") : held'[d] + budget'.writes <= MaxWrites
  <2>1. /\ held \in [Pods("data") -> Nat] /\ budget.writes \in Nat /\ MaxWrites \in Nat
        /\ \A d \in Pods("data") : held[d] + budget.writes <= MaxWrites
        /\ main \in Pods("data")
    BY BoundsAssumption DEF ClusterType
  <2>2. CASE Commit
    <3>1. budget'.writes = budget.writes - 1
      BY <2>2, SpendFacts DEF Commit
    <3>2. /\ held' \in [Pods("data") -> Nat]
          /\ \A d \in Pods("data") : held'[d] \in {held[d], held[d] + 1}
      BY <2>1, <2>2 DEF Commit
    <3> QED  BY <2>1, <3>1, <3>2
  <2>3. ASSUME NEW d \in Pods("data"), Recover(d) \/ Failover(d), ~ Commit
        PROVE  /\ held' \in [Pods("data") -> Nat]
               /\ \A e \in Pods("data") : held'[e] \in {held[e], held[main], 0}
    BY <2>1, <2>3 DEF Recover, Failover
  <2>4. CASE ~ Commit /\ \E d \in Pods("data") : Recover(d) \/ Failover(d)
    <3>1. /\ held' \in [Pods("data") -> Nat] /\ \A e \in Pods("data") : held'[e] \in {held[e], held[main], 0}
      BY <2>3, <2>4
    <3> QED  BY <1>6, <2>1, <2>4, <3>1
  <2>5. CASE ~ Commit /\ held' = held
    BY <1>6, <2>1, <2>5
  <2> QED  BY <2>2, <2>4, <2>5, Writers
<1>8. pc' \in {"idle", "list", "view", "decide", "delete"}
  <2>1. CASE pc' = pc
    BY <2>1 DEF ClusterType
  <2>2. CASE BeginPass \/ ListPods \/ Observe
    BY <2>2 DEF BeginPass, ListPods, Observe, Finish
  <2>3. CASE Decide \/ DecideWithoutLag
    BY <2>3 DEF Decide, DecideWithoutLag, Act, Finish
  <2>4. CASE restartPod \/ WaitForFlagClasses \/ FailPass
    BY <2>4 DEF restartPod, WaitForFlagClasses, FailPass, Finish
  <2> QED  BY <2>1, <2>2, <2>3, <2>4, Writers
<1> QED  BY <1>1, <1>2, <1>3, <1>4, <1>5, <1>6, <1>7, <1>8 DEF ClusterType

(* A generation is paid for by an edit.                                     *)
LEMMA EditsStep ==
  ASSUME ClusterType, SetsInStep, EditsCounted, [Next]_vars
  PROVE  EditsCounted'
<1> SUFFICES ASSUME NEW r \in Roles
             PROVE  Gen(r)' + (IF Rev(r)' = spec'[r] THEN 0 ELSE 1) <= 1 + EditsMade'
  BY DEF EditsCounted
<1>1. /\ Gen(r) \in Nat /\ spec \in [Roles -> Revisions] /\ MaxEdits \in Nat
      /\ budget.edits \in Nat /\ budget.edits <= MaxEdits
  BY LiveTypes, BoundsAssumption DEF ClusterType
<1>2. Gen(r) + (IF Rev(r) = spec[r] THEN 0 ELSE 1) <= 1 + (MaxEdits - budget.edits)
  BY DEF EditsCounted, EditsMade
<1>3. \/ Gen(r)' = Gen(r) /\ Rev(r)' = Rev(r)
      \/ BeginPass /\ Gen(r)' = Gen(r) + 1 /\ Rev(r) # spec[r] /\ Rev(r)' = spec[r]
  BY SetsMove
<1>4. CASE \E q \in Roles : \E revision \in Revisions : Edit(q, revision)
  <2>1. budget'.edits = budget.edits - 1
    BY <1>4, SpendFacts DEF Edit
  <2>2. Gen(r)' = Gen(r) /\ Rev(r)' = Rev(r)
    BY <1>4 DEF Edit, k8sVars, Gen, Rev
  <2> QED  BY <1>1, <1>2, <2>1, <2>2 DEF EditsMade
<1>5. CASE spec' = spec /\ ~ \E q \in Roles : \E revision \in Revisions : Edit(q, revision)
  <2>1. budget'.edits = budget.edits
    <3>1. budget' = budget \/ \E kind \in {"faults", "crashes", "writes"} : Spend(kind)
      BY <1>5, Writers DEF Crash, Commit
    <3> QED  BY <3>1, SpendFacts
  <2> QED  BY <1>1, <1>2, <1>3, <1>5, <2>1 DEF EditsMade
<1> QED  BY <1>4, <1>5, Writers

(* Incarnations follow one another, at most one a generation.               *)
LEMMA BornKept ==
  ASSUME ClusterType, SetsInStep, PodsBorn, VictimOutdated, [Next]_vars
  PROVE  /\ \A w \in PodVersions : Born(w) => Born(w)'
         /\ \A r \in Roles : \A o \in Pods(r) : pods[r][o].uid <= pods'[r][o].uid
         /\ Born(pods)'
<1>1. /\ pods \in PodVersions /\ \A r \in Roles : Gen(r) \in Nat
      /\ \A r \in Roles : \A o \in Pods(r) : pods[r][o].uid \in Nat
  BY LiveTypes, VersionFacts
<1>2. Born(pods)
  BY LiveTypes DEF PodsBorn
<1>3. pods' \in PodVersions /\ \A r \in Roles : \A o \in Pods(r) : pods'[r][o].uid \in Nat
  BY PodsMove, VersionFacts
<1>4. ASSUME NEW r \in Roles, NEW o \in Pods(r)
      PROVE  pods'[r][o] = pods[r][o] \/ (Moved(r, o) /\ sets' = sets)
  <2>1. ASSUME NEW q \in Roles, NEW p \in Pods(q), Moved(q, p) PROVE sets' = sets
    BY <2>1 DEF Moved, Terminate, Create, BecomeReady, Crash, Deletes, restartPod
  <2> QED  BY <2>1, PodsMove
<1>5. ASSUME NEW r \in Roles, NEW o \in Pods(r) PROVE pods[r][o].uid <= pods'[r][o].uid
  <2>1. CASE pods'[r][o] = pods[r][o]
    BY <1>1, <2>1
  <2>2. CASE Moved(r, o)
    BY <1>1, <2>2 DEF Moved, At
  <2> QED  BY <1>4, <2>1, <2>2
<1>6. \A r \in Roles : \/ Gen(r)' = Gen(r) /\ Rev(r)' = Rev(r)
                       \/ Gen(r)' = Gen(r) + 1
  BY SetsMove
<1>7. ASSUME NEW w \in PodVersions, Born(w) PROVE Born(w)'
  <2> SUFFICES ASSUME NEW r \in Roles, NEW o \in Pods(r)
               PROVE  /\ w[r][o].uid <= pods'[r][o].uid
                      /\ w[r][o].uid <= Gen(r)'
                      /\ w[r][o].uid = Gen(r)' => w[r][o].revision = Rev(r)'
                      /\ w[r][o].phase \in {"terminating", "gone"} => w[r][o].uid < Gen(r)'
    BY DEF Born
  <2>1. /\ w[r][o].uid <= pods[r][o].uid
        /\ w[r][o].uid <= Gen(r)
        /\ w[r][o].uid = Gen(r) => w[r][o].revision = Rev(r)
        /\ w[r][o].phase \in {"terminating", "gone"} => w[r][o].uid < Gen(r)
    BY <1>7 DEF Born
  <2>2. w[r][o].uid \in Nat
    BY VersionFacts
  <2>3. w[r][o].uid <= pods'[r][o].uid
    BY <1>1, <1>3, <1>5, <2>1, <2>2
  <2> QED  BY <1>1, <1>6, <2>1, <2>2, <2>3
<1>8. Born(pods)'
  <2> SUFFICES ASSUME NEW r \in Roles, NEW o \in Pods(r)
               PROVE  /\ pods'[r][o].uid <= pods'[r][o].uid
                      /\ pods'[r][o].uid <= Gen(r)'
                      /\ pods'[r][o].uid = Gen(r)' => pods'[r][o].revision = Rev(r)'
                      /\ pods'[r][o].phase \in {"terminating", "gone"} => pods'[r][o].uid < Gen(r)'
    BY DEF Born
  <2>1. /\ pods[r][o].uid <= Gen(r)
        /\ pods[r][o].uid = Gen(r) => pods[r][o].revision = Rev(r)
        /\ pods[r][o].phase \in {"terminating", "gone"} => pods[r][o].uid < Gen(r)
    BY <1>2 DEF Born
  <2>2. /\ pods[r][o].uid \in Nat /\ pods'[r][o].uid \in Nat /\ Gen(r) \in Nat
    BY <1>1, <1>3
  <2>3. CASE pods'[r][o] = pods[r][o]
    BY <1>6, <2>1, <2>2, <2>3
  <2>4. CASE Moved(r, o) /\ sets' = sets
    <3>1. Gen(r)' = Gen(r) /\ Rev(r)' = Rev(r)
      BY <2>4 DEF Gen, Rev
    <3>2. CASE Deletes(r, o) /\ pods'[r][o] = At(pods[r][o], "terminating")
      <4>1. pods[r][o].uid < Gen(r)
        BY <3>2 DEF Deletes, VictimOutdated
      <4> QED  BY <2>1, <2>2, <3>1, <3>2, <4>1 DEF At
    <3>3. CASE Create(r, o)
      BY <2>1, <2>2, <2>4, <3>1, <3>3 DEF Moved, At, Create, Terminate, BecomeReady, Crash, Deletes
    <3>4. CASE \E phase \in {"gone", "ready", "starting"} :
                 pods'[r][o] = At(pods[r][o], phase) /\ (phase = "gone" => pods[r][o].phase = "terminating")
      BY <2>1, <2>2, <3>1, <3>4 DEF At
    <3> QED  BY <2>4, <3>2, <3>3, <3>4 DEF Moved
  <2> QED  BY <1>4, <2>3, <2>4
<1> QED  BY <1>5, <1>7, <1>8

LEMMA BornStep ==
  ASSUME ClusterType, SetsInStep, PodsBorn, VictimOutdated, [Next]_vars
  PROVE  PodsBorn'
<1> SUFFICES ASSUME NEW i \in DOMAIN podLog' PROVE Born(podLog[i])'
  BY DEF PodsBorn
<1>1. Extends(podLog, podLog')
  BY PodsMove
<1>2. CASE i = Len(podLog')
  <2>1. podLog'[i] = pods'
    BY <1>2 DEF pods, Live
  <2>2. Born(pods)'
    BY BornKept
  <2> QED  BY <2>1, <2>2 DEF Born
<1>3. CASE i # Len(podLog')
  <2>1. PICK j \in DOMAIN podLog : podLog'[i] = podLog[j]
    BY <1>1, <1>3 DEF Extends
  <2>2. podLog[j] \in PodVersions /\ Born(podLog[j])
    BY LiveTypes DEF PodsBorn
  <2>3. \A w \in PodVersions : Born(w) => Born(w)'
    BY BornKept
  <2>4. PICK w \in PodVersions : w = podLog[j]
    BY <2>2
  <2>5. Born(w)'
    BY <2>2, <2>3, <2>4
  <2> QED  BY <2>1, <2>4, <2>5 DEF Born
<1> QED  BY <1>2, <1>3

(* What the pass read of the StatefulSets stays in step.                    *)
LEMMA SetsReadStep ==
  ASSUME ClusterType, SetsInStep, SetsRead, [Next]_vars
  PROVE  SetsRead'
<1> SUFFICES ASSUME pc' \in {"list", "view", "decide"}
             PROVE  /\ pass' = [sets |-> pass'.sets, generation |-> pass'.generation, roles |-> pass'.roles,
                                view |-> pass'.view, victim |-> pass'.victim, proven |-> pass'.proven]
                    /\ pass'.sets \in [Roles -> SetRecord]
                    /\ \A r \in Roles : InStep(pass'.sets[r], Live(sets'[r])) /\ pass'.generation[r] = Gen(r)'
  BY DEF SetsRead
<1>1. CASE BeginPass
  <2> DEFINE applied(r) == IF Live(sets[r]).revision = spec[r] THEN Live(sets[r])
                           ELSE [Live(sets[r]) EXCEPT !.generation = Live(sets[r]).generation + 1,
                                                      !.revision = spec[r]]
             g == [r \in Roles |-> applied(r).generation]
             c == [r \in Roles |-> Cached(sets[r])]
  <2>1. /\ pass' = [NoPass EXCEPT !.sets = c, !.generation = g]
        /\ sets' = [r \in Roles |-> Store(sets[r], applied(r))]
    BY <1>1 DEF BeginPass
  <2> HIDE DEF c, g
  <2>2. /\ pass' = [sets |-> c, generation |-> g, roles |-> <<>>, view |-> <<>>, victim |-> Done, proven |-> 0]
    BY <2>1 DEF NoPass
  <2>3. pass'.sets = c /\ pass'.generation = g
    BY <2>2
  <2>4. ASSUME NEW r \in Roles
        PROVE  c[r] \in SetRecord /\ InStep(c[r], Live(sets'[r])) /\ g[r] = Gen(r)'
    <3>1. sets[r] \in Seq(SetRecord) /\ Len(sets[r]) \in Nat \ {0} /\ Len(sets[r]) \in 1 .. MaxLag + 1
      BY BoundsAssumption DEF ClusterType
    <3>2. c[r] = sets[r][1] /\ 1 \in DOMAIN sets[r] /\ c[r] \in SetRecord /\ Live(sets[r]) \in SetRecord
      BY <3>1, LiveFacts DEF c
    <3>3. InStep(c[r], Live(sets[r]))
      BY <3>2 DEF SetsInStep
    <3>4. sets'[r] = Store(sets[r], applied(r)) /\ g[r] = applied(r).generation
      BY <2>1 DEF g
    <3>5. \/ Gen(r)' = Gen(r) /\ Rev(r)' = Rev(r)
          \/ Gen(r)' = Gen(r) + 1
      BY SetsMove
    <3>6. Live(sets'[r]) \in SetRecord /\ Live(sets'[r]) = applied(r)
      <4>1. applied(r) \in SetRecord
        <5>1. spec[r] \in Revisions /\ Live(sets[r]).generation + 1 \in Nat \ {0}
          <6>1. Live(sets[r]).generation \in Nat
            BY <3>2 DEF SetRecord
          <6> QED  BY <6>1 DEF ClusterType
        <5> QED  BY <3>2, <5>1 DEF SetRecord
      <4> HIDE DEF applied
      <4> QED  BY <3>1, <3>4, <4>1, StoreFacts
    <3> HIDE DEF applied
    <3>7. Gen(r) \in Nat /\ Gen(r) = Live(sets[r]).generation /\ Rev(r) = Live(sets[r]).revision
          /\ Gen(r)' = Live(sets'[r]).generation /\ Rev(r)' = Live(sets'[r]).revision
      BY LiveTypes DEF Gen, Rev
    <3>8. InStep(c[r], Live(sets'[r]))
      BY <3>2, <3>3, <3>5, <3>6, <3>7, InStepKept
    <3> QED  BY <3>2, <3>4, <3>6, <3>7, <3>8
  <2>5. c \in [Roles -> SetRecord]
    BY <2>4 DEF c
  <2> QED  BY <2>2, <2>3, <2>4, <2>5
<1>2. CASE ~ BeginPass
  <2>1. \A r \in Roles : Gen(r)' = Gen(r) /\ Rev(r)' = Rev(r)
    BY <1>2, SetsMove
  <2>2. /\ pc \in {"list", "view", "decide"}
        /\ \/ pass' = pass
           \/ \E roles : pass' = [pass EXCEPT !.roles = roles]
           \/ \E view : pass' = [pass EXCEPT !.view = view]
    <3>1. CASE pc' = pc /\ pass' = pass
      BY <3>1
    <3>2. CASE ListPods
      BY <3>2 DEF ListPods, Finish
    <3>3. CASE Observe
      BY <3>3 DEF Observe, Finish
    <3>4. CASE Decide \/ DecideWithoutLag
      BY <3>4 DEF Decide, DecideWithoutLag, Act, Finish
    <3>5. CASE restartPod \/ WaitForFlagClasses \/ FailPass
      BY <3>5 DEF restartPod, WaitForFlagClasses, FailPass, Finish
    <3> QED  BY <1>2, <3>1, <3>2, <3>3, <3>4, <3>5, Writers
  <2>3. /\ pass = [sets |-> pass.sets, generation |-> pass.generation, roles |-> pass.roles,
                   view |-> pass.view, victim |-> pass.victim, proven |-> pass.proven]
        /\ pass.sets \in [Roles -> SetRecord]
        /\ \A r \in Roles : InStep(pass.sets[r], Live(sets[r])) /\ pass.generation[r] = Gen(r)
    BY <2>2 DEF SetsRead
  <2>4. /\ pass' = [sets |-> pass'.sets, generation |-> pass'.generation, roles |-> pass'.roles,
                    view |-> pass'.view, victim |-> pass'.victim, proven |-> pass'.proven]
        /\ pass'.sets = pass.sets /\ pass'.generation = pass.generation
    BY <2>2, <2>3
  <2>5. \A r \in Roles : InStep(pass.sets[r], Live(sets'[r]))
    BY <2>1, <2>3 DEF InStep, Gen, Rev
  <2> QED  BY <2>1, <2>3, <2>4, <2>5
<1> QED  BY <1>1, <1>2

(* The version a listing was made of, as long as the listing is kept.       *)
LEMMA ListedKept ==
  ASSUME SetsRead, [Next]_vars, pc' \in {"view", "decide"}, ~ ListPods
  PROVE  /\ pc \in {"view", "decide"} /\ (pc = pc' \/ Observe)
         /\ pass'.roles = pass.roles /\ pass'.sets = pass.sets /\ pass'.generation = pass.generation
         /\ pass'.view = pass.view \/ Observe
         /\ \A w : Listed(w) => Listed(w)'
<1>1. /\ pc \in {"view", "decide"} /\ (pc = pc' \/ Observe)
      /\ \/ pass' = pass
         \/ Observe /\ pass' = [pass EXCEPT !.view = [main |-> main, leader |-> leader, up |-> up]]
  <2>1. CASE pc' = pc /\ pass' = pass
    BY <2>1
  <2>2. CASE BeginPass
    BY <2>2 DEF BeginPass
  <2>3. CASE Observe
    BY <2>3 DEF Observe, Finish
  <2>4. CASE Decide \/ DecideWithoutLag
    BY <2>4 DEF Decide, DecideWithoutLag, Act, Finish
  <2>5. CASE restartPod \/ WaitForFlagClasses \/ FailPass
    BY <2>5 DEF restartPod, WaitForFlagClasses, FailPass, Finish
  <2> QED  BY <2>1, <2>2, <2>3, <2>4, <2>5, Writers
<1>2. /\ pass = [sets |-> pass.sets, generation |-> pass.generation, roles |-> pass.roles,
                 view |-> pass.view, victim |-> pass.victim, proven |-> pass.proven]
  BY <1>1 DEF SetsRead
<1>3. pass'.roles = pass.roles /\ pass'.sets = pass.sets /\ pass'.generation = pass.generation
      /\ (pass'.view = pass.view \/ Observe)
  BY <1>1, <1>2
<1>4. ASSUME NEW w, Listed(w) PROVE Listed(w)'
  <2>1. \A r \in Roles : Listing(w, r)' = Listing(w, r)
    BY <1>3 DEF Listing, isStale
  <2> QED  BY <1>3, <1>4, <2>1 DEF Listed
<1> QED  BY <1>1, <1>3, <1>4

(* A listing is of the cached version.                                      *)
LEMMA ListPodsFacts ==
  ASSUME ClusterType, SetsRead, ListPods, pc' \in {"view", "decide"}
  PROVE  /\ pc' = "view" /\ podLog[1] \in PodVersions /\ 1 \in DOMAIN podLog /\ Listed(podLog[1])'
         /\ UNCHANGED <<sets, podLog, main, leader, up, held>>
<1>1. /\ pc = "list" /\ pc' = "view"
      /\ pass' = [pass EXCEPT !.roles = [r \in Roles |-> observeRolloutRole(r)]]
      /\ UNCHANGED <<sets, podLog, main, leader, up, held>>
  BY DEF ListPods, Finish, k8sVars, clusterVars
<1>2. /\ pass = [sets |-> pass.sets, generation |-> pass.generation, roles |-> pass.roles,
                 view |-> pass.view, victim |-> pass.victim, proven |-> pass.proven]
  BY <1>1 DEF SetsRead
<1>3. podLog[1] \in PodVersions /\ 1 \in DOMAIN podLog /\ Cached(podLog) = podLog[1]
  BY LiveTypes, LiveFacts
<1>4. /\ pass'.roles = [r \in Roles |-> observeRolloutRole(r)]
      /\ pass'.sets = pass.sets /\ pass'.generation = pass.generation
  BY <1>1, <1>2
<1>5. PICK w : w = podLog[1]
  OBVIOUS
<1>6. \A r \in Roles : observeRolloutRole(r) = Listing(w, r)'
  BY <1>3, <1>4, <1>5 DEF observeRolloutRole, Listing, isStale
<1>7. Listed(w)'
  BY <1>4, <1>6 DEF Listed
<1>8. Listed(podLog[1])'
  BY <1>1, <1>5, <1>7 DEF Listed, Listing
<1> QED  BY <1>1, <1>3, <1>8

(* What the pass listed was so.                                             *)
LEMMA PodsReadStep ==
  ASSUME ClusterType, SetsInStep, PodsBorn, VictimOutdated, SetsRead, PodsRead, [Next]_vars
  PROVE  PodsRead'
<1> SUFFICES ASSUME pc' \in {"view", "decide"} PROVE \E w \in PodVersions : Born(w)' /\ Listed(w)'
  BY DEF PodsRead
<1>1. \A w \in PodVersions : Born(w) => Born(w)'
  BY BornKept
<1>2. CASE ListPods
  <2>1. /\ podLog[1] \in PodVersions /\ 1 \in DOMAIN podLog /\ Listed(podLog[1])' /\ podLog' = podLog
    BY <1>2, ListPodsFacts
  <2>2. PICK w \in PodVersions : w = podLog[1]
    BY <2>1
  <2>3. Born(w)' /\ w = podLog'[1]
    BY <1>1, <2>1, <2>2 DEF PodsBorn
  <2>4. Listed(w)'
    BY <2>1, <2>3 DEF Listed, Listing
  <2> QED  BY <2>3, <2>4
<1>3. CASE ~ ListPods
  <2>1. PICK w \in PodVersions : Born(w) /\ Listed(w)
    BY <1>3, ListedKept DEF PodsRead
  <2> QED  BY <1>1, <1>3, <2>1, ListedKept
<1> QED  BY <1>2, <1>3

(* A decision to delete leaves nothing of the pass but the victim.          *)
LEMMA DeleteFacts ==
  ASSUME ClusterType, VictimOutdated, [Next]_vars, pc' = "delete"
  PROVE  \/ pc = "delete" /\ pass' = pass
         \/ /\ pc = "decide"
            /\ UNCHANGED <<spec, sets, podLog, main, leader, up, held, taken, failovers, proven>>
            /\ \E lag \in {ShowReplicationLag, <<>>} :
                 LET decision == NextRestart(exemptCurrentPods("data"), exemptCurrentPods("coordinators"),
                                             pass.view, lag)
                 IN  /\ decision.action = "delete"
                     /\ pass' = [NoPass EXCEPT !.victim = decision, !.proven = held[main]]
                     /\ pass'.victim = decision /\ pass'.proven = held[main]
<1>1. CASE pc' = pc /\ pass' = pass
  BY <1>1
<1>2. CASE BeginPass \/ ListPods \/ Observe
  BY <1>2 DEF BeginPass, ListPods, Observe, Finish
<1>3. CASE restartPod \/ WaitForFlagClasses \/ FailPass
  BY <1>3 DEF restartPod, WaitForFlagClasses, FailPass, Finish
<1>4. CASE Decide \/ DecideWithoutLag
  <2>1. PICK lag \in {ShowReplicationLag, <<>>} :
          Act(NextRestart(exemptCurrentPods("data"), exemptCurrentPods("coordinators"), pass.view, lag))
    BY <1>4 DEF Decide, DecideWithoutLag
  <2> DEFINE decision == NextRestart(exemptCurrentPods("data"), exemptCurrentPods("coordinators"), pass.view, lag)
  <2> HIDE DEF decision
  <2>2. Act(decision)
    BY <2>1 DEF decision
  <2>3. decision.action = "delete" /\ pass' = [NoPass EXCEPT !.victim = decision, !.proven = held[main]]
    BY <2>2 DEF Act, Finish
  <2>4. pass'.victim = decision /\ pass'.proven = held[main]
    BY <2>3 DEF NoPass
  <2>5. pc = "decide" /\ UNCHANGED <<spec, sets, podLog, main, leader, up, held, taken, failovers, proven>>
    BY <1>4 DEF Decide, DecideWithoutLag, k8sVars, clusterVars, history
  <2> QED  BY <1>4, <2>3, <2>4, <2>5 DEF decision
<1> QED  BY <1>1, <1>2, <1>3, <1>4, Writers

(* Only pods of an earlier template are taken down.                         *)
LEMMA VictimStep ==
  ASSUME RollInv, [Next]_vars
  PROVE  VictimOutdated'
<1> SUFFICES ASSUME pc' = "delete", NEW v, v = pass'.victim
             PROVE  /\ pass' = [NoPass EXCEPT !.victim = v, !.proven = pass'.proven]
                    /\ v.role \in Roles /\ v.ordinal \in Pods(v.role)
                    /\ v.uid \in Nat /\ v.uid <= pods'[v.role][v.ordinal].uid /\ v.uid < Gen(v.role)'
  BY DEF VictimOutdated, Gen
<1>0. ClusterType /\ SetsInStep /\ PodsBorn /\ SetsRead /\ PodsRead /\ VictimOutdated
  BY DEF RollInv
<1>1. /\ \A r \in Roles : \A o \in Pods(r) : pods[r][o].uid <= pods'[r][o].uid
      /\ \A r \in Roles : \A o \in Pods(r) : pods[r][o].uid \in Nat /\ pods'[r][o].uid \in Nat
      /\ \A r \in Roles : Gen(r) \in Nat /\ (Gen(r)' = Gen(r) \/ Gen(r)' = Gen(r) + 1)
  <2>1. pods \in PodVersions /\ \A r \in Roles : Gen(r) \in Nat
    BY <1>0, LiveTypes
  <2>2. pods' \in PodVersions
    BY <1>0, PodsMove
  <2> QED  BY <1>0, <2>1, <2>2, BornKept, SetsMove, VersionFacts
<1>2. CASE pc = "delete" /\ pass' = pass
  <2>0. v = pass.victim
    BY <1>2
  <2>1. /\ pass = [NoPass EXCEPT !.victim = v, !.proven = pass.proven]
        /\ v.role \in Roles /\ v.ordinal \in Pods(v.role)
        /\ v.uid \in Nat /\ v.uid <= pods[v.role][v.ordinal].uid /\ v.uid < Gen(v.role)
    BY <1>0, <1>2, <2>0 DEF VictimOutdated
  <2> QED  BY <1>1, <1>2, <2>1
<1>3. CASE ~ (pc = "delete" /\ pass' = pass)
  <2>0. /\ pc = "decide" /\ UNCHANGED <<sets, podLog>>
        /\ \E lag \in {ShowReplicationLag, <<>>} :
             LET decision == NextRestart(exemptCurrentPods("data"), exemptCurrentPods("coordinators"),
                                         pass.view, lag)
             IN  /\ decision.action = "delete"
                 /\ pass' = [NoPass EXCEPT !.victim = decision, !.proven = held[main]]
                 /\ pass'.victim = decision /\ pass'.proven = held[main]
    BY <1>0, <1>3, DeleteFacts
  <2>1. PICK lag \in {ShowReplicationLag, <<>>} :
             LET decision == NextRestart(exemptCurrentPods("data"), exemptCurrentPods("coordinators"),
                                         pass.view, lag)
             IN  /\ decision.action = "delete"
                 /\ pass' = [NoPass EXCEPT !.victim = decision, !.proven = held[main]]
                 /\ pass'.victim = decision /\ pass'.proven = held[main]
    BY <2>0
  <2>2. PICK w \in PodVersions : Born(w) /\ Listed(w)
    BY <1>0, <2>0 DEF PodsRead
  <2>3. /\ v.role \in Roles /\ v.ordinal \in Needs(w, v.role) /\ v.ordinal \in Pods(v.role)
        /\ v.uid = w[v.role][v.ordinal].uid
    BY <1>0, <2>0, <2>1, <2>2, DecisionFacts
  <2>4. /\ v.uid \in Nat /\ v.uid <= pods[v.role][v.ordinal].uid /\ v.uid <= Gen(v.role)
        /\ v.uid = Gen(v.role) => w[v.role][v.ordinal].revision = Rev(v.role)
    BY <2>2, <2>3, VersionFacts DEF Born
  <2>5. w[v.role][v.ordinal].revision # Rev(v.role)
    BY <2>3 DEF Needs
  <2>6. v.uid <= pods'[v.role][v.ordinal].uid
    BY <1>1, <2>3, <2>4
  <2>7. v.uid < Gen(v.role)'
    BY <1>1, <2>3, <2>4, <2>5
  <2>8. pass' = [NoPass EXCEPT !.victim = v, !.proven = pass'.proven]
    BY <2>1
  <2> QED  BY <2>3, <2>4, <2>6, <2>7, <2>8
<1> QED  BY <1>2, <1>3

(* A converged cluster satisfies the invariant.                             *)
LEMMA InitFacts ==
  ASSUME Init
  PROVE  /\ ClusterType /\ Len(podLog) = 1 /\ DOMAIN podLog = {1} /\ podLog[1] = pods /\ pc = "idle"
         /\ \A r \in Roles : /\ Gen(r) = 1 /\ Rev(r) = spec[r] /\ DOMAIN sets[r] = {1}
                             /\ sets[r][1] = Live(sets[r]) /\ InStep(Live(sets[r]), Live(sets[r]))
                             /\ up[r] = Pods(r)
         /\ \A r \in Roles : \A o \in Pods(r) :
              pods[r][o] = [uid |-> 1, revision |-> spec[r], phase |-> "ready"]
         /\ EditsMade = 0
<1>0. MaxLag \in Nat /\ MaxEdits \in Nat /\ MaxCrashes \in Nat /\ MaxWrites \in Nat /\ MaxFaults \in Nat
  BY BoundsAssumption
<1>1. PICK revision \in Revisions :
       /\ spec = [r \in Roles |-> revision]
       /\ sets = [r \in Roles |->
            << [ generation |-> 1, revision |-> revision, observed |-> 1,
                 updateRevision |-> revision, replicas |-> Replicas[r], ready |-> Replicas[r] ] >>]
       /\ podLog = << [r \in Roles |-> [o \in Pods(r) |->
                         [uid |-> 1, revision |-> revision, phase |-> "ready"]]] >>
  BY DEF Init
<1> DEFINE pod == [uid |-> 1, revision |-> revision, phase |-> "ready"]
           first == [r \in Roles |-> [o \in Pods(r) |-> pod]]
           set(r) == [ generation |-> 1, revision |-> revision, observed |-> 1,
                       updateRevision |-> revision, replicas |-> Replicas[r], ready |-> Replicas[r] ]
<1>2. pod \in PodRecord
  BY DEF PodRecord, Phases
<1>3. first \in PodVersions
  <2> HIDE DEF pod
  <2>1. \A r \in Roles : first[r] \in [Pods(r) -> PodRecord]
    BY <1>2
  <2>2. first \in [Roles -> UNION { [Pods(r) -> PodRecord] : r \in Roles }]
    BY <2>1
  <2> QED  BY <2>1, <2>2 DEF PodVersions
<1>4. ASSUME NEW r \in Roles
      PROVE  set(r) \in SetRecord /\ InStep(set(r), set(r)) /\ set(r).generation = 1 /\ set(r).revision = revision
  BY ReplicasAssumption DEF SetRecord, InStep
<1>5. podLog = <<first>> /\ \A r \in Roles : sets[r] = <<set(r)>>
  BY <1>1
<1>6. sets = [r \in Roles |-> sets[r]]
  BY <1>1
<1> HIDE DEF first, set
<1>7. /\ podLog \in Seq(PodVersions) /\ Len(podLog) = 1 /\ DOMAIN podLog = {1} /\ podLog[1] = first
  BY <1>3, <1>5
<1>8. pods = first
  BY <1>7 DEF pods, Live
<1>9. \A r \in Roles : /\ sets[r] \in Seq(SetRecord) /\ Len(sets[r]) = 1 /\ DOMAIN sets[r] = {1}
                       /\ sets[r][1] = set(r)
  <2>1. ASSUME NEW v \in SetRecord
        PROVE  <<v>> \in Seq(SetRecord) /\ Len(<<v>>) = 1 /\ DOMAIN <<v>> = {1} /\ <<v>>[1] = v
    OBVIOUS
  <2>2. ASSUME NEW r \in Roles
        PROVE  sets[r] \in Seq(SetRecord) /\ Len(sets[r]) = 1 /\ DOMAIN sets[r] = {1} /\ sets[r][1] = set(r)
    <3>1. set(r) \in SetRecord
      BY <1>4
    <3>2. sets[r] = <<set(r)>>
      BY <1>5
    <3> QED  BY <2>1, <3>1, <3>2
  <2> QED  BY <2>2
<1>10. \A r \in Roles : Live(sets[r]) = set(r)
  BY <1>9 DEF Live
<1>11. \A r \in Roles : \A o \in Pods(r) : pods[r][o] = pod
  BY <1>8 DEF first
<1>12. spec \in [Roles -> Revisions] /\ \A r \in Roles : spec[r] = revision
  BY <1>1
<1>13. /\ budget = [edits |-> MaxEdits, faults |-> MaxFaults, crashes |-> MaxCrashes, writes |-> MaxWrites]
       /\ held = [d \in Pods("data") |-> 0] /\ up = [r \in Roles |-> Pods(r)] /\ pc = "idle"
       /\ main \in Pods("data") /\ leader \in Pods("coordinators")
  BY DEF Init
<1>14. ClusterType
  <2>1. sets \in [Roles -> Seq(SetRecord)] /\ \A r \in Roles : Len(sets[r]) \in 1 .. MaxLag + 1
    <3>1. \A r \in Roles : sets[r] \in Seq(SetRecord) /\ Len(sets[r]) \in 1 .. MaxLag + 1
      <4>1. 1 \in 1 .. MaxLag + 1
        BY <1>0
      <4> QED  BY <1>9, <4>1
    <3>2. sets \in [Roles -> Seq(SetRecord)]
      BY <1>6, <3>1
    <3> QED  BY <3>1, <3>2
  <2>2. Len(podLog) \in 1 .. MaxLag + 1
    BY <1>0, <1>7
  <2>3. budget \in [edits : 0 .. MaxEdits, faults : Nat, crashes : 0 .. MaxCrashes, writes : Nat]
        /\ budget.writes = MaxWrites
    BY <1>0, <1>13
  <2>4. held \in [Pods("data") -> Nat] /\ \A d \in Pods("data") : held[d] + budget.writes <= MaxWrites
    BY <1>0, <1>13, <2>3
  <2>5. up \in [Roles -> SUBSET Nat] /\ \A r \in Roles : up[r] \subseteq Pods(r)
    BY <1>13, PodsFacts
  <2> QED  BY <1>7, <1>12, <1>13, <2>1, <2>2, <2>3, <2>4, <2>5 DEF ClusterType
<1>15. EditsMade = 0
  BY <1>0, <1>13 DEF EditsMade
<1> QED  BY <1>4, <1>7, <1>8, <1>9, <1>10, <1>11, <1>12, <1>13, <1>14, <1>15 DEF Gen, Rev

LEMMA RollInit ==
  ASSUME Init
  PROVE  RollInv
<1>1. SetsInStep
  BY InitFacts DEF SetsInStep
<1>2. EditsCounted
  BY InitFacts DEF EditsCounted
<1>3. Born(pods)
  <2> SUFFICES ASSUME NEW r \in Roles, NEW o \in Pods(r)
               PROVE  /\ pods[r][o].uid <= pods[r][o].uid /\ pods[r][o].uid <= Gen(r)
                      /\ pods[r][o].uid = Gen(r) => pods[r][o].revision = Rev(r)
                      /\ pods[r][o].phase \in {"terminating", "gone"} => pods[r][o].uid < Gen(r)
    BY DEF Born
  <2>1. /\ pods[r][o] = [uid |-> 1, revision |-> spec[r], phase |-> "ready"] /\ Gen(r) = 1 /\ Rev(r) = spec[r]
    BY InitFacts
  <2> QED  BY <2>1
<1>4. PodsBorn
  BY <1>3, InitFacts DEF PodsBorn
<1>5. SetsRead /\ PodsRead /\ VictimOutdated
  BY InitFacts DEF SetsRead, PodsRead, VictimOutdated
<1> QED  BY <1>1, <1>2, <1>4, <1>5, InitFacts DEF RollInv

LEMMA RollStep ==
  ASSUME RollInv, [Next]_vars
  PROVE  RollInv'
<1>1. ClusterType /\ SetsInStep /\ EditsCounted /\ PodsBorn /\ SetsRead /\ PodsRead /\ VictimOutdated
  BY DEF RollInv
<1>2. ClusterType' /\ SetsInStep' /\ EditsCounted'
  BY <1>1, ClusterStep, SetsMove, EditsStep
<1>3. PodsBorn' /\ SetsRead' /\ PodsRead'
  BY <1>1, BornStep, SetsReadStep, PodsReadStep
<1>4. VictimOutdated'
  BY VictimStep
<1> QED  BY <1>2, <1>3, <1>4 DEF RollInv

(* Every variable keeps its type, and the pod about to be deleted is one of *)
(* its role and no later incarnation than the one there is (observeRollout, *)
(* Next, restartPod), whatever is edited, fails or is read late.            *)
THEOREM RollingRestartTypeCorrect == Spec => []TypeOK
<1>1. RollInv => TypeOK
  <2> SUFFICES ASSUME RollInv PROVE TypeOK
    OBVIOUS
  <2>1. ClusterType /\ VictimOutdated
    BY DEF RollInv
  <2>2. \A r \in Roles : Live(sets[r]).revision \in Revisions
    BY <2>1, LiveTypes DEF Rev
  <2>3. \A r \in Roles : pods[r] \in [Pods(r) -> [uid : Nat \ {0}, revision : Revisions, phase : Phases]]
    BY <2>1, LiveTypes, VersionFacts DEF PodRecord
  <2>4. pc = "delete" => /\ pass.victim.ordinal \in Pods(pass.victim.role)
                         /\ pass.victim.uid <= pods[pass.victim.role][pass.victim.ordinal].uid
    BY <2>1 DEF VictimOutdated
  <2>5. /\ budget \in [edits : 0 .. MaxEdits, faults : Nat, crashes : 0 .. MaxCrashes, writes : Nat]
        /\ MaxEdits \in Nat /\ MaxCrashes \in Nat /\ MaxWrites \in Nat
    BY <2>1, BoundsAssumption DEF ClusterType
  <2>6. \A kind \in DOMAIN budget : budget[kind] \in Nat
    BY <2>5
  <2>7. held \in [Pods("data") -> 0 .. MaxWrites]
    <3>1. held \in [Pods("data") -> Nat] /\ \A d \in Pods("data") : held[d] + budget.writes <= MaxWrites
      BY <2>1 DEF ClusterType
    <3> QED  BY <2>5, <3>1
  <2> QED  BY <2>1, <2>2, <2>3, <2>4, <2>6, <2>7 DEF TypeOK, ClusterType
<1> QED  BY <1>1, RollInit, RollStep, PTL DEF Spec

(* A change of template costs a pod at most one restart: it is deleted only *)
(* if it is of an earlier template than the one the status has observed,    *)
(* and only under the UID it was listed with (Next, restartPod), however    *)
(* late the caches are, whatever else fails and however edits overtake one  *)
(* another.                                                                 *)
THEOREM RestartsOncePerEdit == Spec => []RestartedOncePerEdit
<1>1. RollInv => RestartedOncePerEdit
  <2> SUFFICES ASSUME RollInv, NEW r \in Roles, NEW o \in Pods(r) PROVE pods[r][o].uid <= 1 + EditsMade
    BY DEF RestartedOncePerEdit
  <2>1. ClusterType /\ EditsCounted /\ PodsBorn
    BY DEF RollInv
  <2>2. /\ pods \in PodVersions /\ Gen(r) \in Nat /\ Len(podLog) \in DOMAIN podLog /\ podLog[Len(podLog)] = pods
    BY <2>1, LiveTypes
  <2>3. pods[r][o].uid <= Gen(r) /\ pods[r][o].uid \in Nat
    BY <2>1, <2>2, VersionFacts DEF PodsBorn, Born
  <2>4. Gen(r) <= 1 + EditsMade
    <3>1. /\ Gen(r) + (IF Rev(r) = spec[r] THEN 0 ELSE 1) <= 1 + EditsMade
          /\ EditsMade \in Int
      BY <2>1, BoundsAssumption DEF EditsCounted, EditsMade, ClusterType
    <3> QED  BY <2>2, <3>1
  <2>5. EditsMade \in Int
    BY <2>1, BoundsAssumption DEF EditsMade, ClusterType
  <2> QED  BY <2>2, <2>3, <2>4, <2>5
<1> QED  BY <1>1, RollInit, RollStep, PTL DEF Spec

-----------------------------------------------------------------------------
(* Settled rolls: what a step may do *)

SameTemplates == \A r \in Roles : Gen(r)' = Gen(r) /\ Rev(r)' = Rev(r)

(* What a step may do to a pod when no container fails. *)
Shifts(r, o) ==
  LET old == pods[r][o]  new == pods'[r][o]
  IN  \/ old.phase = "terminating" /\ new = At(old, "gone")
      \/ old.phase = "gone" /\ new = [uid |-> old.uid + 1, revision |-> Rev(r), phase |-> "starting"]
      \/ old.phase = "starting" /\ new = At(old, "ready")
      \/ Deletes(r, o) /\ new = At(old, "terminating")

(* Each pod stays or moves on.                                              *)
LEMMA PodMoves ==
  ASSUME ClusterType, VictimOutdated, NoCrashes, [Next]_vars
  PROVE  /\ \A r \in Roles : \A o \in Pods(r) : pods'[r][o] = pods[r][o] \/ Shifts(r, o)
         /\ pods \in PodVersions /\ pods' \in PodVersions
         /\ \A r \in Roles : \A o \in Pods(r) : ~ Crash(r, o)
         /\ NoCrashes'
<1>1. \A r \in Roles : \A o \in Pods(r) : ~ Crash(r, o)
  BY SpendFacts DEF NoCrashes, Crash
<1>2. NoCrashes'
  <2>1. budget' = budget \/ \E kind \in {"edits", "faults", "writes"} : Spend(kind)
    BY <1>1, Writers DEF Edit, Commit
  <2> QED  BY <2>1, SpendFacts DEF NoCrashes
<1>3. pods \in PodVersions /\ pods' \in PodVersions
  BY LiveTypes, PodsMove
<1>4. ASSUME NEW r \in Roles, NEW o \in Pods(r), Moved(r, o) PROVE Shifts(r, o)
  BY <1>1, <1>4 DEF Moved, Shifts
<1> QED  BY <1>1, <1>2, <1>3, <1>4, PodsMove

(* The instance kept for last is one of its role; another takes its place   *)
(* only when it is out of reach.                                            *)
LEMMA SpecialMoves ==
  ASSUME ClusterType, [Next]_vars
  PROVE  \A r \in Roles :
           /\ Special(r) \in Pods(r)
           /\ \/ Special(r)' = Special(r)
              \/ /\ Special(r) \notin up[r] /\ Special(r)' \in up[r] /\ Special(r)' \in Pods(r)
                 /\ UNCHANGED <<spec, sets, podLog, up, pc, pass, taken, proven>>
<1> SUFFICES ASSUME NEW r \in Roles
             PROVE  /\ Special(r) \in Pods(r)
                    /\ \/ Special(r)' = Special(r)
                       \/ /\ Special(r) \notin up[r] /\ Special(r)' \in up[r] /\ Special(r)' \in Pods(r)
                          /\ UNCHANGED <<spec, sets, podLog, up, pc, pass, taken, proven>>
  OBVIOUS
<1>1. main \in Pods("data") /\ leader \in Pods("coordinators")
  BY DEF ClusterType
<1>2. CASE r = "data"
  <2>1. Special(r) = main /\ Special(r)' = main'
    BY <1>2 DEF Special
  <2>2. ASSUME NEW d \in Pods("data"), Failover(d)
        PROVE  /\ main \notin up["data"] /\ main' \in up["data"] /\ main' \in Pods("data")
               /\ UNCHANGED <<spec, sets, podLog, up, pc, pass, taken, proven>>
    BY <2>2 DEF Failover, k8sVars, passVars
  <2> QED  BY <1>1, <1>2, <2>1, <2>2, Writers
<1>3. CASE r = "coordinators"
  <2>1. Special(r) = leader /\ Special(r)' = leader'
    BY <1>3 DEF Special
  <2>2. ASSUME NEW c \in Pods("coordinators"), Elect(c)
        PROVE  /\ leader \notin up["coordinators"] /\ leader' \in up["coordinators"]
               /\ leader' \in Pods("coordinators")
               /\ UNCHANGED <<spec, sets, podLog, up, pc, pass, taken, proven>>
    BY <2>2 DEF Elect, k8sVars, passVars
  <2> QED  BY <1>1, <1>3, <2>1, <2>2, Writers
<1> QED  BY <1>2, <1>3 DEF Roles

(* Only a pod that terminates takes its instance out of reach.              *)
LEMMA UpMoves ==
  ASSUME ClusterType, VictimOutdated, NoCrashes, [Next]_vars, NEW r \in Roles, NEW o \in Pods(r),
         o \in up[r], o \notin up'[r]
  PROVE  pods[r][o].phase = "terminating" /\ pods'[r][o].phase = "gone"
<1>1. up \in [Roles -> SUBSET Nat]
  BY DEF ClusterType
<1>2. \A q \in Roles : \A p \in Pods(q) : ~ Crash(q, p)
  BY PodMoves
<1>3. PICK q \in Roles : \E p \in Pods(q) : Terminate(q, p) \/ Rejoin(q, p)
  BY <1>2, Writers
<1>4. PICK p \in Pods(q) : Terminate(q, p) \/ Rejoin(q, p)
  BY <1>3
<1>5. ~ Rejoin(q, p)
  BY <1>1 DEF Rejoin
<1>6. Terminate(q, p)
  BY <1>4, <1>5
<1>7. q = r /\ p = o
  BY <1>1, <1>6 DEF Terminate
<1> DEFINE pod == [pods[r][o] EXCEPT !.phase = "gone"]
<1>8. pods[r][o].phase = "terminating" /\ StorePod(r, o, pod)
  BY <1>6, <1>7 DEF Terminate
<1>9. pods[r][o] \in PodRecord
  BY LiveTypes, VersionFacts
<1>10. pod \in PodRecord /\ pod.phase = "gone"
  BY <1>9 DEF PodRecord, Phases
<1> HIDE DEF pod
<1>11. pods'[r][o] = pod
  BY <1>8, <1>10, StorePodFacts
<1> QED  BY <1>8, <1>10, <1>11

(* A template is declared at rest and stays so until it is applied.         *)
LEMMA RestStep ==
  ASSUME Settled, RollInv, NoCrashes, EditedAtRest, [Next]_vars
  PROVE  /\ EditedAtRest'
         /\ \/ SameTemplates
            \/ /\ BeginPass /\ Len(podLog) = 1 /\ podLog' = podLog /\ pc' = "list"
               /\ UNCHANGED <<main, leader, up, held, taken, failovers, proven>>
               /\ \A r \in Roles : /\ up[r] = Pods(r) /\ AllReady(pods, r) /\ Gen(r)' >= Gen(r)
                                   /\ Gen(r)' = Gen(r) => Rev(r)' = Rev(r)
<1>0. ClusterType /\ SetsInStep /\ VictimOutdated
  BY DEF RollInv
<1>1. /\ \A r \in Roles : \/ Gen(r)' = Gen(r) /\ Rev(r)' = Rev(r)
                          \/ BeginPass /\ Gen(r)' = Gen(r) + 1 /\ Rev(r) # spec[r] /\ Rev(r)' = spec[r]
      /\ BeginPass => \A r \in Roles : Rev(r)' = spec[r]
      /\ \A r \in Roles : Gen(r) \in Nat
  BY <1>0, SetsMove, LiveTypes
<1>2. BeginPass => UNCHANGED <<spec, podLog, main, leader, up, held, taken, failovers, proven>> /\ pc' = "list"
  BY DEF BeginPass, clusterVars, history
<1>3. \/ SameTemplates
      \/ /\ BeginPass /\ Len(podLog) = 1 /\ podLog' = podLog /\ pc' = "list"
         /\ UNCHANGED <<main, leader, up, held, taken, failovers, proven>>
         /\ \A r \in Roles : /\ up[r] = Pods(r) /\ AllReady(pods, r) /\ Gen(r)' >= Gen(r)
                             /\ Gen(r)' = Gen(r) => Rev(r)' = Rev(r)
  <2> SUFFICES ASSUME ~ SameTemplates
               PROVE  /\ BeginPass /\ Len(podLog) = 1
                      /\ \A r \in Roles : /\ up[r] = Pods(r) /\ AllReady(pods, r) /\ Gen(r)' >= Gen(r)
                                          /\ Gen(r)' = Gen(r) => Rev(r)' = Rev(r)
    BY <1>2
  <2>1. BeginPass /\ \E r \in Roles : Rev(r) # spec[r]
    BY <1>1 DEF SameTemplates
  <2>2. Len(podLog) = 1 /\ \A r \in Roles : up[r] = Pods(r) /\ AllReady(pods, r)
    BY <2>1 DEF EditedAtRest
  <2> QED  BY <1>1, <2>1, <2>2
<1>4. ASSUME NEW q \in Roles, Rev(q)' # spec'[q]
      PROVE  /\ pc' = "idle" /\ Len(podLog') = 1
             /\ \A r \in Roles : up'[r] = Pods(r) /\ AllReady(pods, r)'
  <2>1. ~ BeginPass
    BY <1>1, <1>2, <1>4
  <2>2. CASE \E r \in Roles : \E revision \in Revisions : Edit(r, revision)
    <3>1. AtRest /\ UNCHANGED <<pc, podLog, up>>
      BY <2>2 DEF Edit, k8sVars, clusterVars, passVars
    <3>2. pods' = pods
      BY <3>1 DEF pods
    <3> QED  BY <3>1, <3>2 DEF AtRest, AllReady
  <2>3. CASE spec' = spec
    <3>1. Rev(q) # spec[q]
      BY <1>1, <1>4, <2>1, <2>3
    <3>2. pc = "idle" /\ Len(podLog) = 1 /\ \A r \in Roles : up[r] = Pods(r) /\ AllReady(pods, r)
      BY <3>1 DEF EditedAtRest
    <3>3. pc' = "idle"
      BY <2>1, <3>2, Writers DEF ListPods, Observe, Decide, DecideWithoutLag, restartPod, WaitForFlagClasses, FailPass
    <3>4. ASSUME NEW r \in Roles, NEW o \in Pods(r) PROVE pods'[r][o] = pods[r][o] /\ o \in up'[r]
      <4>1. pods[r][o].phase = "ready" /\ o \in up[r]
        BY <3>2 DEF AllReady
      <4>2. ~ Shifts(r, o)
        BY <3>2, <4>1 DEF Shifts, Deletes
      <4> QED  BY <1>0, <4>1, <4>2, PodMoves, UpMoves
    <3>5. \A r \in Roles : up'[r] = Pods(r) /\ AllReady(pods, r)'
      <4>1. ClusterType'
        BY <1>0, ClusterStep
      <4>2. \A r \in Roles : up'[r] \subseteq Pods(r)
        BY <4>1 DEF ClusterType
      <4> QED  BY <3>2, <3>4, <4>2 DEF AllReady
    <3>6. Len(podLog') = 1
      <4>1. \A r \in Roles : \A o \in Pods(r) : ~ Moved(r, o)
        <5> SUFFICES ASSUME NEW r \in Roles, NEW o \in Pods(r) PROVE ~ Moved(r, o)
          OBVIOUS
        <5>1. pods[r][o].phase = "ready" /\ ~ Crash(r, o)
          BY <1>0, <3>2, PodMoves DEF AllReady
        <5> QED  BY <3>2, <5>1 DEF Moved, Deletes
      <4>2. /\ podLog' = podLog \/ podLog' = Tail(podLog)
            /\ Len(podLog') \in 1 .. MaxLag + 1
        BY <1>0, <4>1, PodsMove DEF PodsSame
      <4>3. podLog \in Seq(PodVersions)
        BY <1>0 DEF ClusterType
      <4>4. Len(Tail(podLog)) = 0
        BY <3>2, <4>3
      <4>5. Len(podLog') # 0
        BY <4>2, BoundsAssumption
      <4> QED  BY <3>2, <4>2, <4>4, <4>5
    <3> QED  BY <3>3, <3>5, <3>6
  <2> QED  BY <2>2, <2>3, Writers
<1>5. EditedAtRest'
  BY <1>4 DEF EditedAtRest
<1> QED  BY <1>3, <1>5

-----------------------------------------------------------------------------
(* Settled rolls: one pod at a time *)

LEMMA SamePod ==
  ASSUME NEW a \in PodRecord, NEW b \in PodRecord, a.uid = b.uid, a.revision = b.revision, a.phase = b.phase
  PROVE  a = b
  BY DEF PodRecord

LEMMA NeedsFacts ==
  ASSUME NEW w, NEW r \in Roles
  PROVE  /\ Needs(w, r) \subseteq Pods(r)
         /\ SameTemplates => Needs(w, r)' = Needs(w, r)
         /\ \A x : (\A o \in Pods(r) : x[r][o].revision = w[r][o].revision) => Needs(x, r) = Needs(w, r)
  BY DEF Needs, SameTemplates

LEMMA PrecedeSelf ==
  ASSUME NEW w \in PodVersions
  PROVE  Precede(w, w)
  BY VersionFacts DEF Precede

(* Whose turn it is does not change with a failover or an election: those   *)
(* come when nothing else is left to restart.                               *)
LEMMA TurnKept ==
  ASSUME ClusterType, [Next]_vars, SameTemplates, NEW w, Kept(w), NEW r \in Roles, AllReady(w, r),
         Needs(w, r) # {}
  PROVE  Turn(w, r)' = Turn(w, r)
<1>1. Needs(w, r)' = Needs(w, r) /\ Needs(w, r) \in SUBSET Pods(r)
  BY NeedsFacts
<1>2. CASE Special(r)' = Special(r)
  BY <1>1, <1>2 DEF Turn
<1>3. CASE Special(r) \notin up[r]
  <2>1. Needs(w, r) \subseteq {Special(r)}
    BY <1>3 DEF Kept, Away
  <2>2. /\ Choice(Needs(w, r), Special(r)) = Special(r)
        /\ Choice(Needs(w, r), Special(r)') = Special(r)
    BY <1>1, <2>1, ChoiceFacts
  <2> QED  BY <1>1, <2>2 DEF Turn
<1> QED  BY <1>2, <1>3, SpecialMoves

LEMMA PrecedeKept ==
  ASSUME ClusterType, [Next]_vars, SameTemplates, NEW w, NEW x, Kept(w), Precede(w, x)
  PROVE  Precede(w, x)'
<1> SUFFICES ASSUME NEW r \in Roles, AllReady(w, r), NEW o \in Pods(r), x[r][o] # w[r][o]
             PROVE  Needs(w, r)' # {} /\ o = Turn(w, r)'
  <2>1. \A r \in Roles : \A o \in Pods(r) :
          /\ w[r][o].uid <= x[r][o].uid
          /\ w[r][o].uid = x[r][o].uid =>
              /\ w[r][o].revision = x[r][o].revision
              /\ w[r][o].phase = "ready" => x[r][o].phase # "starting"
    BY DEF Precede
  <2>2. \A r \in Roles : AllReady(w, r)' <=> AllReady(w, r)
    BY DEF AllReady
  <2> QED  BY <2>1, <2>2 DEF Precede
<1>1. Needs(w, r) # {} /\ o = Turn(w, r)
  BY DEF Precede
<1> QED  BY <1>1, NeedsFacts, TurnKept

(* What the pod that is deleted was when it was listed, and what it is now. *)
LEMMA DeletesFacts ==
  ASSUME RollInv, VictimInTurn, NEW r \in Roles, NEW o \in Pods(r), Deletes(r, o)
  PROVE  \E w \in PodVersions :
           /\ ReadEarlier(w) /\ AllReady(w, r) /\ Needs(w, r) # {} /\ o = Turn(w, r) /\ o \in Needs(w, r)
           /\ Precede(w, pods)
           /\ pods[r][o].uid = w[r][o].uid /\ pods[r][o].revision = w[r][o].revision
           /\ pods[r][o].phase \in {"ready", "terminating"}
           /\ \A p \in Pods(r) \ {o} : pods[r][p] = w[r][p]
           /\ Needs(pods, r) = Needs(w, r)
           /\ r = "coordinators" => AllReady(w, "data") /\ Needs(w, "data") = {}
           /\ r = "data" /\ o = main /\ pods["data"][main] = w["data"][main] =>
                pass.proven \in Nat /\ Covered(pass.proven)
           /\ \A x \in PodVersions : Precede(w, x) /\ Precede(x, pods) /\ AllReady(x, r) =>
                Needs(x, r) # {} /\ o = Turn(x, r)
<1>0. ClusterType /\ pods \in PodVersions /\ Len(podLog) \in DOMAIN podLog /\ podLog[Len(podLog)] = pods
  BY LiveTypes DEF RollInv
<1>1. /\ pc = "delete" /\ r = pass.victim.role /\ o = pass.victim.ordinal
      /\ pods[r][o].phase # "gone" /\ pods[r][o].uid = pass.victim.uid
  BY DEF Deletes
<1>2. PICK w \in PodVersions :
        /\ ReadEarlier(w) /\ AllReady(w, r) /\ Needs(w, r) # {} /\ o = Turn(w, r)
        /\ pass.victim.uid = w[r][o].uid
        /\ r = "coordinators" => AllReady(w, "data") /\ Needs(w, "data") = {}
        /\ r = "data" /\ o = main /\ pods["data"][main] = w["data"][main] =>
             pass.proven \in Nat /\ Covered(pass.proven)
  BY <1>1 DEF VictimInTurn
<1>3. Precede(w, pods)
  BY <1>0, <1>2 DEF ReadEarlier
<1>4. /\ pods[r][o].uid = w[r][o].uid /\ pods[r][o].revision = w[r][o].revision
      /\ pods[r][o].phase # "starting"
  BY <1>1, <1>2, <1>3 DEF Precede, AllReady
<1>5. pods[r][o].phase \in {"ready", "terminating"}
  BY <1>0, <1>1, <1>4, VersionFacts DEF Phases
<1>6. \A p \in Pods(r) \ {o} : pods[r][p] = w[r][p]
  BY <1>2, <1>3 DEF Precede
<1>7. Needs(pods, r) = Needs(w, r)
  BY <1>4, <1>6, NeedsFacts
<1>8. o \in Needs(w, r)
  BY <1>2, NeedsFacts, ChoiceFacts DEF Turn
<1>9. ASSUME NEW x \in PodVersions, Precede(w, x), Precede(x, pods), AllReady(x, r)
      PROVE  Needs(x, r) # {} /\ o = Turn(x, r)
  <2>1. w[r][o] \in PodRecord /\ x[r][o] \in PodRecord
    BY VersionFacts
  <2>2. w[r][o].uid <= x[r][o].uid /\ x[r][o].uid <= pods[r][o].uid
        /\ (w[r][o].uid = x[r][o].uid => w[r][o].revision = x[r][o].revision)
    BY <1>9 DEF Precede
  <2>3. w[r][o].uid = x[r][o].uid
    BY <1>4, <2>1, <2>2 DEF PodRecord
  <2>4. w[r][o].revision = x[r][o].revision
    BY <2>2, <2>3
  <2>5. \A p \in Pods(r) \ {o} : x[r][p] = w[r][p]
    BY <1>2, <1>9 DEF Precede
  <2>6. Needs(x, r) = Needs(w, r)
    BY <2>4, <2>5, NeedsFacts
  <2> QED  BY <1>2, <2>6 DEF Turn
<1> QED  BY <1>2, <1>3, <1>4, <1>5, <1>6, <1>7, <1>8, <1>9, <1>1

(* The instance kept for last goes away only when its pod is deleted.       *)
LEMMA AwayMoves ==
  ASSUME RollInv, NoCrashes, AwayLast, [Next]_vars, NEW r \in Roles, Away(r)'
  PROVE  Special(r)' = Special(r) /\ (Away(r) \/ Deletes(r, Special(r)))
<1>0. ClusterType /\ VictimOutdated
  BY DEF RollInv
<1> DEFINE s == Special(r)
<1>1. s \in Pods(r)
  BY <1>0, SpecialMoves
<1>2. CASE Special(r)' = s
  <2>1. s \notin up'[r] \/ pods'[r][s].phase # "ready"
    BY <1>2 DEF Away
  <2>2. CASE s \in up[r] /\ s \notin up'[r]
    BY <1>0, <1>1, <1>2, <2>2, UpMoves DEF Away
  <2>3. CASE pods[r][s].phase = "ready" /\ pods'[r][s].phase # "ready"
    <3>1. Shifts(r, s)
      BY <1>0, <1>1, <2>3, PodMoves
    <3>2. Deletes(r, s)
      BY <2>3, <3>1 DEF Shifts
    <3> QED  BY <1>2, <3>2
  <2> QED  BY <1>2, <2>1, <2>2, <2>3 DEF Away
<1>3. CASE Special(r)' # s
  <2>1. /\ s \notin up[r] /\ Special(r)' \in up[r] /\ Special(r)' \in Pods(r)
        /\ UNCHANGED <<podLog, up>>
    BY <1>0, <1>3, SpecialMoves
  <2>2. pods' = pods
    BY <2>1 DEF pods
  <2>3. \A o \in Pods(r) \ {s} : pods[r][o].phase = "ready"
    BY <2>1 DEF AwayLast, Away
  <2>4. Special(r)' \in up'[r] /\ pods'[r][Special(r)'].phase = "ready"
    BY <1>3, <2>1, <2>2, <2>3
  <2> QED  BY <2>4 DEF Away
<1> QED  BY <1>2, <1>3

(* From any version that a pass may have read, only the pod whose turn it   *)
(* was has moved on, and goes on moving.                                    *)
LEMMA FollowsKept ==
  ASSUME RollInv, NoCrashes, AwayLast, VictimInTurn, [Next]_vars, SameTemplates,
         NEW w \in PodVersions, Kept(w), Precede(w, pods),
         \A r \in Roles : \A o \in Pods(r) : Deletes(r, o) /\ AllReady(w, r) => Needs(w, r) # {} /\ o = Turn(w, r)
  PROVE  Precede(w, pods)' /\ Kept(w)'
<1>0. ClusterType /\ VictimOutdated /\ pods \in PodVersions /\ pods' \in PodVersions
  BY PodMoves DEF RollInv
<1>1. ASSUME NEW r \in Roles, NEW o \in Pods(r)
      PROVE  /\ w[r][o].uid <= pods'[r][o].uid
             /\ w[r][o].uid = pods'[r][o].uid =>
                  /\ w[r][o].revision = pods'[r][o].revision
                  /\ w[r][o].phase = "ready" => pods'[r][o].phase # "starting"
             /\ AllReady(w, r) /\ pods'[r][o] # w[r][o] => Needs(w, r) # {} /\ o = Turn(w, r)
  <2>1. /\ w[r][o].uid <= pods[r][o].uid
        /\ w[r][o].uid = pods[r][o].uid =>
             /\ w[r][o].revision = pods[r][o].revision
             /\ w[r][o].phase = "ready" => pods[r][o].phase # "starting"
        /\ AllReady(w, r) /\ pods[r][o] # w[r][o] => Needs(w, r) # {} /\ o = Turn(w, r)
    BY DEF Precede
  <2>2. w[r][o].uid \in Nat /\ pods[r][o].uid \in Nat
    BY <1>0, VersionFacts
  <2>3. CASE pods'[r][o] = pods[r][o]
    BY <2>1, <2>3
  <2>4. CASE Shifts(r, o)
    <3>1. AllReady(w, r) => w[r][o].phase = "ready"
      BY DEF AllReady
    <3>2. AllReady(w, r) => Needs(w, r) # {} /\ o = Turn(w, r)
      <4>1. CASE Deletes(r, o)
        BY <4>1
      <4>2. CASE ~ Deletes(r, o)
        BY <2>1, <2>4, <3>1, <4>2 DEF Shifts
      <4> QED  BY <4>1, <4>2
    <3>3. \/ /\ pods'[r][o].uid = pods[r][o].uid /\ pods'[r][o].revision = pods[r][o].revision
             /\ pods'[r][o].phase # "starting"
          \/ pods'[r][o].uid = pods[r][o].uid + 1
      BY <2>4 DEF Shifts, At
    <3> QED  BY <2>1, <2>2, <3>2, <3>3
  <2> QED  BY <1>0, <2>3, <2>4, PodMoves
<1>2. Precede(w, pods)'
  <2>1. ASSUME NEW r \in Roles, AllReady(w, r), NEW o \in Pods(r), pods'[r][o] # w[r][o]
        PROVE  Needs(w, r)' # {} /\ o = Turn(w, r)'
    <3>1. Needs(w, r) # {} /\ o = Turn(w, r)
      BY <1>1, <2>1
    <3> QED  BY <1>0, <2>1, <3>1, NeedsFacts, TurnKept
  <2>2. \A r \in Roles : AllReady(w, r)' <=> AllReady(w, r)
    BY DEF AllReady
  <2> QED  BY <1>1, <2>1, <2>2 DEF Precede
<1>3. Kept(w)'
  <2> SUFFICES ASSUME NEW r \in Roles, AllReady(w, r), Away(r)'
               PROVE  Needs(w, r)' \subseteq {Special(r)'}
    <3>1. \A r \in Roles : AllReady(w, r)' <=> AllReady(w, r)
      BY DEF AllReady
    <3> QED  BY <3>1 DEF Kept
  <2>1. Special(r)' = Special(r) /\ (Away(r) \/ Deletes(r, Special(r)))
    BY AwayMoves
  <2>2. CASE Away(r)
    BY <2>1, <2>2, NeedsFacts DEF Kept
  <2>3. CASE Deletes(r, Special(r))
    <3>1. Special(r) \in Pods(r)
      BY <1>0, SpecialMoves
    <3>2. Needs(w, r) # {} /\ Turn(w, r) = Special(r)
      BY <2>3, <3>1
    <3>3. Needs(w, r) = {Special(r)}
      BY <3>2, NeedsFacts, ChoiceFacts DEF Turn
    <3> QED  BY <2>1, <3>3, NeedsFacts
  <2> QED  BY <2>1, <2>2, <2>3
<1> QED  BY <1>2, <1>3


(* A pod that is not ready was not before, or is deleted, and what has to   *)
(* be restarted had to be before.                                           *)
LEMMA ReadyMoves ==
  ASSUME ClusterType, VictimOutdated, NoCrashes, [Next]_vars, SameTemplates, NEW r \in Roles
  PROVE  /\ \A o \in Pods(r) : pods'[r][o].phase # "ready" => pods[r][o].phase # "ready" \/ Deletes(r, o)
         /\ Needs(pods, r)' \subseteq Needs(pods, r)
<1>1. ASSUME NEW o \in Pods(r)
      PROVE  /\ pods'[r][o].phase # "ready" => pods[r][o].phase # "ready" \/ Deletes(r, o)
             /\ pods'[r][o].revision \in {pods[r][o].revision, Rev(r)}
  <2>1. pods'[r][o] = pods[r][o] \/ Shifts(r, o)
    BY PodMoves
  <2> QED  BY <2>1 DEF Shifts, At
<1>2. ASSUME NEW o \in Pods(r), pods'[r][o].revision # Rev(r), <<pods'[r][o].revision, Rev(r)>> \notin NoRestart
      PROVE  o \in Needs(pods, r)
  BY <1>1, <1>2 DEF Needs
<1>3. Rev(r)' = Rev(r)
  BY DEF SameTemplates
<1>4. Needs(pods, r)' = { o \in Pods(r) : /\ pods'[r][o].revision # Rev(r)'
                                         /\ <<pods'[r][o].revision, Rev(r)'>> \notin NoRestart }
  BY DEF Needs
<1> QED  BY <1>1, <1>2, <1>3, <1>4

(* One pod of a role is away at a time, and the instance kept for last when *)
(* all others are back and done.                                            *)
LEMMA AwayStep ==
  ASSUME RollInv, NoCrashes, OneAway, AwayLast, VictimInTurn, [Next]_vars, SameTemplates
  PROVE  OneAway' /\ AwayLast'
<1>0. ClusterType /\ VictimOutdated
  BY DEF RollInv
<1>1. ASSUME NEW r \in Roles, NEW o \in Pods(r), Deletes(r, o)
      PROVE  /\ \A p \in Pods(r) \ {o} : pods[r][p].phase = "ready" /\ ~ Deletes(r, p)
             /\ o \in Needs(pods, r) /\ (o = Special(r) => Needs(pods, r) = {o})
  <2>1. PICK w \in PodVersions : /\ AllReady(w, r) /\ Needs(w, r) # {} /\ o = Turn(w, r) /\ o \in Needs(w, r)
                                 /\ \A p \in Pods(r) \ {o} : pods[r][p] = w[r][p]
                                 /\ Needs(pods, r) = Needs(w, r)
    BY <1>1, DeletesFacts
  <2>2. o = Special(r) => Needs(w, r) = {o}
    BY <2>1, NeedsFacts, ChoiceFacts DEF Turn
  <2> QED  BY <1>1, <2>1, <2>2 DEF AllReady, Deletes
<1>2. ASSUME NEW r \in Roles
      PROVE  /\ \A o \in Pods(r) : pods'[r][o].phase # "ready" => pods[r][o].phase # "ready" \/ Deletes(r, o)
             /\ Needs(pods, r)' \subseteq Needs(pods, r)
  BY <1>0, ReadyMoves
<1>3. OneAway'
  <2> SUFFICES ASSUME NEW r \in Roles, NEW o \in Pods(r), NEW p \in Pods(r),
                      pods'[r][o].phase # "ready", pods'[r][p].phase # "ready"
               PROVE  o = p
    BY DEF OneAway
  <2> QED  BY <1>1, <1>2 DEF OneAway
<1>4. AwayLast'
  <2> SUFFICES ASSUME NEW r \in Roles, Away(r)'
               PROVE  /\ Needs(pods, r)' \subseteq {Special(r)'}
                      /\ \A o \in Pods(r) \ {Special(r)'} : pods'[r][o].phase = "ready"
    BY DEF AwayLast
  <2>1. Special(r)' = Special(r) /\ (Away(r) \/ Deletes(r, Special(r))) /\ Special(r) \in Pods(r)
    BY <1>0, AwayMoves, SpecialMoves
  <2>2. CASE Away(r)
    <3>1. /\ Needs(pods, r) \subseteq {Special(r)}
          /\ \A o \in Pods(r) \ {Special(r)} : pods[r][o].phase = "ready"
      BY <2>2 DEF AwayLast
    <3> QED  BY <1>1, <1>2, <2>1, <3>1
  <2>3. CASE Deletes(r, Special(r))
    BY <1>1, <1>2, <2>1, <2>3
  <2> QED  BY <2>1, <2>2, <2>3
<1> QED  BY <1>3, <1>4

(* What a pass has read goes on preceding the log, until the pass deletes a *)
(* pod and ends.                                                            *)
LEMMA ReadEarlierKept ==
  ASSUME RollInv, NoCrashes, AwayLast, VictimInTurn, [Next]_vars, SameTemplates,
         NEW w \in PodVersions, ReadEarlier(w), \A r \in Roles : \A o \in Pods(r) : ~ Deletes(r, o)
  PROVE  ReadEarlier(w)'
<1>0. /\ ClusterType /\ VictimOutdated /\ Len(podLog) \in DOMAIN podLog /\ podLog[Len(podLog)] = pods
      /\ Extends(podLog, podLog')
  BY LiveTypes, PodsMove DEF RollInv
<1>1. Kept(w) /\ \A i \in DOMAIN podLog : Precede(w, podLog[i])
  BY DEF ReadEarlier
<1>2. Precede(w, pods)' /\ Kept(w)'
  BY <1>0, <1>1, FollowsKept
<1>3. ASSUME NEW i \in DOMAIN podLog' PROVE Precede(w, podLog[i])'
  <2>1. CASE i = Len(podLog')
    <3>1. podLog'[i] = pods'
      BY <2>1 DEF pods, Live
    <3> QED  BY <1>2, <3>1 DEF Precede
  <2>2. CASE i # Len(podLog')
    <3>1. PICK j \in DOMAIN podLog : podLog'[i] = podLog[j]
      BY <1>0, <2>2 DEF Extends
    <3>2. PICK x : x = podLog[j]
      OBVIOUS
    <3>3. Precede(w, x)'
      BY <1>0, <1>1, <3>2, PrecedeKept
    <3> QED  BY <3>1, <3>2, <3>3 DEF Precede
  <2> QED  BY <2>1, <2>2
<1> QED  BY <1>2, <1>3 DEF ReadEarlier

LEMMA LogStep ==
  ASSUME RollInv, NoCrashes, OneAway, AwayLast, VictimInTurn, LogOrdered, LogKept, [Next]_vars, SameTemplates
  PROVE  LogOrdered' /\ LogKept'
<1>0. /\ ClusterType /\ VictimOutdated /\ Len(podLog) \in DOMAIN podLog /\ podLog[Len(podLog)] = pods
      /\ Extends(podLog, podLog') /\ podLog' \in Seq(PodVersions) /\ pods \in PodVersions
      /\ \A i \in DOMAIN podLog : podLog[i] \in PodVersions
      /\ DOMAIN podLog = 1 .. Len(podLog) /\ Len(podLog) \in Nat
  BY LiveTypes, PodsMove DEF RollInv
<1>1. ASSUME NEW i \in DOMAIN podLog, NEW w, w = podLog[i] PROVE Precede(w, pods)' /\ Kept(w)'
  <2>1. w \in PodVersions /\ Kept(w) /\ Precede(w, pods)
    <3>1. CASE i = Len(podLog)
      BY <1>0, <1>1, <3>1, PrecedeSelf DEF LogKept
    <3>2. CASE i # Len(podLog)
      <4>1. i < Len(podLog)
        BY <1>0, <3>2
      <4> QED  BY <1>0, <1>1, <4>1 DEF LogKept, LogOrdered
    <3> QED  BY <3>1, <3>2
  <2>2. ASSUME NEW r \in Roles, NEW o \in Pods(r), Deletes(r, o), AllReady(w, r)
        PROVE  Needs(w, r) # {} /\ o = Turn(w, r)
    <3>1. PICK x \in PodVersions :
            /\ ReadEarlier(x)
            /\ \A y \in PodVersions : Precede(x, y) /\ Precede(y, pods) /\ AllReady(y, r) =>
                 Needs(y, r) # {} /\ o = Turn(y, r)
      BY <2>2, DeletesFacts
    <3>2. Precede(x, w)
      BY <1>1, <3>1 DEF ReadEarlier
    <3> QED  BY <2>1, <2>2, <3>1, <3>2
  <2> QED  BY <2>1, <2>2, FollowsKept
<1>2. PICK k \in 0 .. 1 : \A i \in DOMAIN podLog' :
        i # Len(podLog') => i + k \in DOMAIN podLog /\ podLog'[i] = podLog[i + k]
  BY <1>0 DEF Extends
<1>3. \A i \in DOMAIN podLog' : i \in Nat /\ i <= Len(podLog')
  BY <1>0
<1>4. podLog'[Len(podLog')] = pods'
  BY DEF pods, Live
<1>5. ASSUME NEW i \in DOMAIN podLog', NEW j \in DOMAIN podLog', i < j PROVE Precede(podLog[i], podLog[j])'
  <2>1. i # Len(podLog') /\ Len(podLog') \in Nat /\ i \in Nat /\ j \in Nat /\ k \in Nat
    BY <1>0, <1>3, <1>5
  <2>2. PICK w : w = podLog[i + k]
    OBVIOUS
  <2>3. i + k \in DOMAIN podLog /\ podLog'[i] = w
    BY <1>2, <2>1, <2>2
  <2>4. CASE j = Len(podLog')
    <3>1. Precede(w, pods)'
      BY <1>1, <2>2, <2>3
    <3>2. podLog'[j] = pods'
      BY <1>4, <2>4
    <3> QED  BY <2>3, <3>1, <3>2 DEF Precede, AllReady, Needs, Turn
  <2>5. CASE j # Len(podLog')
    <3>1. PICK x : x = podLog[j + k]
      OBVIOUS
    <3>2. j + k \in DOMAIN podLog /\ podLog'[j] = x /\ i + k < j + k
      BY <1>2, <1>5, <2>1, <2>5, <3>1
    <3>3. Precede(w, x) /\ Kept(w)
      BY <2>2, <2>3, <3>1, <3>2 DEF LogOrdered, LogKept
    <3>4. Precede(w, x)'
      BY <1>0, <3>3, PrecedeKept
    <3> QED  BY <2>3, <3>2, <3>4 DEF Precede, AllReady, Needs, Turn
  <2> QED  BY <2>4, <2>5
<1>6. ASSUME NEW i \in DOMAIN podLog' PROVE Kept(podLog[i])'
  <2>1. CASE i = Len(podLog')
    <3>1. podLog'[i] = pods'
      BY <1>4, <2>1
    <3>2. AwayLast'
      BY AwayStep
    <3>3. \A r \in Roles : Away(r)' => Needs(pods, r)' \subseteq {Special(r)'}
      BY <3>2 DEF AwayLast
    <3> QED  BY <3>1, <3>3 DEF Kept, Needs
  <2>2. CASE i # Len(podLog')
    <3>1. PICK w : w = podLog[i + k]
      OBVIOUS
    <3>2. i + k \in DOMAIN podLog /\ podLog'[i] = w
      BY <1>2, <2>2, <3>1
    <3>3. Kept(w)'
      BY <1>1, <3>1, <3>2
    <3> QED  BY <3>2, <3>3 DEF Kept, AllReady, Needs
  <2> QED  BY <2>1, <2>2
<1> QED  BY <1>5, <1>6 DEF LogOrdered, LogKept

-----------------------------------------------------------------------------
(* Settled rolls: the pass *)

(* A pod that has moved on from where it was ready does not return there.   *)
LEMMA DiffersKept ==
  ASSUME ClusterType, VictimOutdated, NoCrashes, [Next]_vars, NEW w \in PodVersions, Precede(w, pods),
         NEW r \in Roles, NEW o \in Pods(r), w[r][o].phase = "ready", pods[r][o] # w[r][o]
  PROVE  pods'[r][o] # w[r][o]
<1>1. pods'[r][o] = pods[r][o] \/ Shifts(r, o)
  BY PodMoves
<1>2. w[r][o].uid = pods[r][o].uid => pods[r][o].phase # "starting"
  BY DEF Precede
<1>3. CASE Shifts(r, o)
  <2>1. CASE pods[r][o].phase = "starting" /\ pods'[r][o] = At(pods[r][o], "ready")
    BY <1>2, <2>1 DEF At
  <2>2. CASE pods'[r][o].phase # "ready"
    BY <2>2
  <2> QED  BY <1>3, <2>1, <2>2 DEF Shifts, At
<1> QED  BY <1>1, <1>3

(* What covers the MAIN goes on covering it.                                *)
LEMMA CoveredKept ==
  ASSUME ClusterType, VictimOutdated, NoCrashes, [Next]_vars, main' = main,
         \A o \in Pods("data") \ {main} : ~ Deletes("data", o), NEW n \in Nat, Covered(n)
  PROVE  Covered(n)'
<1>1. /\ held \in [Pods("data") -> Nat] /\ main \in Pods("data") /\ up["data"] \subseteq Pods("data")
      /\ "data" \in Roles
  BY DEF ClusterType, Roles
<1>2. ASSUME NEW d \in Pods("data"), held[d] >= n PROVE held'[d] >= n
  <2>1. held[main] >= n
    BY DEF Covered
  <2>2. CASE Commit
    <3>1. held'[d] \in {held[d], held[d] + 1}
      BY <2>2 DEF Commit
    <3> QED  BY <1>1, <1>2, <3>1
  <2>3. ASSUME NEW e \in Pods("data"), Recover(e) PROVE held'[d] >= n
    <3>1. held'[d] \in {held[d], held[main]}
      BY <1>1, <2>3 DEF Recover
    <3> QED  BY <1>2, <2>1, <3>1
  <2>4. ASSUME NEW e \in Pods("data"), Failover(e) PROVE FALSE
    BY <2>4 DEF Failover
  <2> QED  BY <1>2, <2>2, <2>3, <2>4, Writers
<1>3. ASSUME NEW o \in up["data"] \ {main}, held[o] >= n, pods["data"][o].phase = "ready"
      PROVE  o \in up'["data"] \ {main'} /\ held'[o] >= n /\ pods'["data"][o].phase = "ready"
  <2>1. o \in Pods("data") /\ ~ Deletes("data", o)
    BY <1>1
  <2>2. pods'["data"][o].phase = "ready"
    <3>1. pods'["data"][o] = pods["data"][o] \/ Shifts("data", o)
      BY <1>1, <2>1, PodMoves
    <3> QED  BY <1>3, <2>1, <3>1 DEF Shifts
  <2>3. o \in up'["data"]
    <3>1. o \in up["data"]
      OBVIOUS
    <3> QED  BY <1>1, <1>3, <2>1, <3>1, UpMoves
  <2> QED  BY <1>2, <1>3, <2>1, <2>2, <2>3
<1>4. held'[main'] >= n
  BY <1>1, <1>2 DEF Covered
<1> QED  BY <1>3, <1>4 DEF Covered

(* A view stays current, or nothing but the instance it names is left.      *)
LEMMA ViewKept ==
  ASSUME RollInv, NoCrashes, [Next]_vars, SameTemplates, NEW w \in PodVersions, ReadEarlier(w),
         ViewHolds(w), pass'.view = pass.view
  PROVE  ViewHolds(w)'
<1>0. /\ ClusterType /\ VictimOutdated /\ Len(podLog) \in DOMAIN podLog /\ podLog[Len(podLog)] = pods
  BY LiveTypes DEF RollInv
<1>1. Kept(w) /\ Precede(w, pods)
  BY <1>0 DEF ReadEarlier
<1> SUFFICES ASSUME NEW r \in Roles, AllReady(w, r)
             PROVE  /\ SpecialIn(pass.view, r) # Special(r)' => Needs(w, r)' \subseteq {SpecialIn(pass.view, r)}
                    /\ \A o \in Pods(r) : o \in pass.view.up[r] => o \in up'[r] \/ pods'[r][o] # w[r][o]
  BY DEF ViewHolds, AllReady, SpecialIn
<1>2. /\ SpecialIn(pass.view, r) # Special(r) => Needs(w, r) \subseteq {SpecialIn(pass.view, r)}
      /\ \A o \in Pods(r) : o \in pass.view.up[r] => o \in up[r] \/ pods[r][o] # w[r][o]
  BY DEF ViewHolds
<1>3. SpecialIn(pass.view, r) # Special(r)' => Needs(w, r)' \subseteq {SpecialIn(pass.view, r)}
  <2>1. Needs(w, r)' = Needs(w, r)
    BY NeedsFacts
  <2>2. CASE Special(r)' = Special(r)
    BY <1>2, <2>1, <2>2
  <2>3. CASE Special(r) \notin up[r]
    <3>1. Needs(w, r) \subseteq {Special(r)}
      BY <1>1, <2>3 DEF Kept, Away
    <3> QED  BY <1>2, <2>1, <3>1
  <2> QED  BY <1>0, <2>2, <2>3, SpecialMoves
<1>4. ASSUME NEW o \in Pods(r), o \in pass.view.up[r] PROVE o \in up'[r] \/ pods'[r][o] # w[r][o]
  <2>1. w[r][o].phase = "ready"
    BY DEF AllReady
  <2>2. CASE o \in up[r]
    BY <1>0, <2>1, <2>2, UpMoves
  <2>3. CASE pods[r][o] # w[r][o]
    BY <1>0, <1>1, <2>1, <2>3, DiffersKept
  <2> QED  BY <1>2, <1>4, <2>2, <2>3
<1> QED  BY <1>3, <1>4

LEMMA ReadsStep ==
  ASSUME RollInv, NoCrashes, AwayLast, VictimInTurn, LogOrdered, LogKept, ReadsHold, [Next]_vars, SameTemplates
  PROVE  ReadsHold'
<1>0. /\ ClusterType /\ VictimOutdated /\ SetsRead
      /\ \A i \in DOMAIN podLog : i \in Nat /\ i >= 1
  BY LiveTypes DEF RollInv
<1> SUFFICES ASSUME pc' \in {"view", "decide"}
             PROVE  \E w \in PodVersions : Listed(w)' /\ ReadEarlier(w)' /\ (pc' = "decide" => ViewHolds(w)')
  BY DEF ReadsHold
<1>1. CASE ListPods
  <2>1. /\ pc' = "view" /\ podLog[1] \in PodVersions /\ 1 \in DOMAIN podLog /\ Listed(podLog[1])'
        /\ podLog' = podLog
    BY <1>0, <1>1, ListPodsFacts
  <2>2. PICK w \in PodVersions : w = podLog[1]
    BY <2>1
  <2>3. ReadEarlier(w)
    <3>1. Kept(w)
      BY <2>1, <2>2 DEF LogKept
    <3>2. ASSUME NEW i \in DOMAIN podLog PROVE Precede(w, podLog[i])
      <4>1. CASE i = 1
        BY <2>2, <4>1, PrecedeSelf
      <4>2. CASE i # 1
        <5>1. 1 < i
          BY <1>0, <4>2
        <5> QED  BY <2>1, <2>2, <5>1 DEF LogOrdered
      <4> QED  BY <4>1, <4>2
    <3> QED  BY <3>1, <3>2 DEF ReadEarlier
  <2>4. \A r \in Roles : \A o \in Pods(r) : ~ Deletes(r, o)
    BY <1>1 DEF ListPods, Deletes
  <2>5. ReadEarlier(w)'
    BY <2>3, <2>4, ReadEarlierKept
  <2>6. Listed(w)'
    BY <2>1, <2>2 DEF Listed, Listing
  <2> QED  BY <2>1, <2>5, <2>6
<1>2. CASE ~ ListPods
  <2>1. /\ pc \in {"view", "decide"} /\ (pc = pc' \/ Observe) /\ (pass'.view = pass.view \/ Observe)
        /\ \A w : Listed(w) => Listed(w)'
    BY <1>0, <1>2, ListedKept
  <2>2. PICK w \in PodVersions : Listed(w) /\ ReadEarlier(w) /\ (pc = "decide" => ViewHolds(w))
    BY <2>1 DEF ReadsHold
  <2>3. \A r \in Roles : \A o \in Pods(r) : ~ Deletes(r, o)
    BY <2>1 DEF Deletes
  <2>4. ReadEarlier(w)' /\ Listed(w)'
    BY <2>1, <2>2, <2>3, ReadEarlierKept
  <2>5. CASE Observe /\ pc' = "decide"
    <3> DEFINE view == [main |-> main, leader |-> leader, up |-> up]
    <3>1. pass' = [pass EXCEPT !.view = view] /\ UNCHANGED <<main, leader, up>> /\ pc = "view"
      BY <2>5 DEF Observe, Finish, clusterVars
    <3>2. pass = [sets |-> pass.sets, generation |-> pass.generation, roles |-> pass.roles,
                  view |-> pass.view, victim |-> pass.victim, proven |-> pass.proven]
      BY <1>0, <3>1 DEF SetsRead
    <3>3. view.main = main' /\ view.leader = leader' /\ view.up = up'
      BY <3>1
    <3> HIDE DEF view
    <3>4. pass'.view = view
      BY <3>1, <3>2
    <3>5. ViewHolds(w)'
      BY <3>3, <3>4 DEF ViewHolds, SpecialIn, Special
    <3> QED  BY <2>4, <3>5
  <2>6. CASE ~ Observe
    <3>1. pc' = "decide" => ViewHolds(w)'
      BY <2>1, <2>2, <2>6, ViewKept
    <3> QED  BY <2>4, <3>1
  <2> QED  BY <2>4, <2>5, <2>6
<1> QED  BY <1>1, <1>2

(* A decision to restart the MAIN's pod is covered by another instance that *)
(* is up and has caught up.                                                 *)
LEMMA DecisionCovered ==
  ASSUME ClusterType, SetsRead, pc = "decide", NEW w \in PodVersions, Listed(w), Precede(w, pods), ViewHolds(w),
         AllReady(w, "data"), Needs(w, "data") = {main}, NEW lag \in {ShowReplicationLag, <<>>},
         Needs(w, "data") \ {pass.view.main} = {} =>
           mainMayRestart(exemptCurrentPods("data"), pass.view, lag)
  PROVE  held[main] \in Nat /\ Covered(held[main])
<1>0. /\ held \in [Pods("data") -> Nat] /\ main \in Pods("data") /\ "data" \in Roles
  BY DEF ClusterType, Roles
<1>1. pass.view.main = main
  BY <1>0 DEF ViewHolds, SpecialIn, Special
<1> DEFINE e == exemptCurrentPods("data")
<1>2. mainMayRestart(e, pass.view, lag)
  BY <1>1
<1>3. /\ e.replicas = Replicas["data"]
      /\ DOMAIN e.pods = { o \in Pods("data") : w["data"][o].phase # "gone" }
  BY <1>0, ListingFacts
<1> HIDE DEF e
<1>4. CASE Replicas["data"] = 1
  BY <1>0, <1>4 DEF Covered
<1>5. CASE \E o \in DOMAIN e.pods \ {main} : o \in pass.view.up["data"] /\ IsCaughtUp(lag, o)
  <2>1. PICK o \in Pods("data") \ {main} : o \in pass.view.up["data"] /\ IsCaughtUp(lag, o)
    BY <1>3, <1>5
  <2>2. pods["data"][o] = w["data"][o]
    <3>1. Turn(w, "data") = main
      BY <1>0, NeedsFacts, ChoiceFacts DEF Turn
    <3> QED  BY <1>0, <2>1, <3>1 DEF Precede
  <2>3. o \in up["data"] /\ pods["data"][o].phase = "ready"
    BY <1>0, <2>1, <2>2 DEF ViewHolds, AllReady
  <2>4. held[o] >= held[main]
    <3>1. lag # <<>>
      BY <2>1 DEF IsCaughtUp
    <3>2. lag = ShowReplicationLag
      BY <3>1
    <3>3. lag[o] <= 0 /\ o \in DOMAIN lag
      BY <2>1 DEF IsCaughtUp
    <3>4. lag[o] = held[main] - held[o]
      BY <3>2, <3>3 DEF ShowReplicationLag
    <3>5. held[o] \in Nat /\ held[main] \in Nat
      BY <1>0, <2>1
    <3> QED  BY <3>3, <3>4, <3>5
  <2> QED  BY <1>0, <2>1, <2>3, <2>4 DEF Covered
<1> QED  BY <1>1, <1>2, <1>3, <1>4, <1>5 DEF mainMayRestart

LEMMA TurnStep ==
  ASSUME RollInv, NoCrashes, AwayLast, ReadsHold, VictimInTurn, [Next]_vars, SameTemplates
  PROVE  VictimInTurn'
<1>0. /\ ClusterType /\ VictimOutdated /\ SetsRead /\ Len(podLog) \in DOMAIN podLog
      /\ podLog[Len(podLog)] = pods /\ main \in Pods("data") /\ "data" \in Roles
  BY LiveTypes DEF RollInv, ClusterType, Roles
<1> SUFFICES ASSUME pc' = "delete", NEW v, v = pass'.victim, NEW n, n = pass'.proven
             PROVE  \E w \in PodVersions :
                      /\ ReadEarlier(w)'
                      /\ AllReady(w, v.role) /\ Needs(w, v.role)' # {}
                      /\ v.ordinal = Turn(w, v.role)' /\ v.uid = w[v.role][v.ordinal].uid
                      /\ v.role = "coordinators" => AllReady(w, "data") /\ Needs(w, "data")' = {}
                      /\ v.role = "data" /\ v.ordinal = main' /\ pods'["data"][main'] = w["data"][main'] =>
                           n \in Nat /\ Covered(n)'
  <2>1. \A w, r : AllReady(w, r)' <=> AllReady(w, r)
    BY DEF AllReady
  <2> QED  BY <2>1 DEF VictimInTurn
<1>1. \A r \in Roles : \A o \in Pods(r) : ~ Deletes(r, o)
  BY DEF Deletes, restartPod, Finish
<1>2. CASE pc = "delete" /\ pass' = pass
  <2>1. PICK w \in PodVersions :
          /\ ReadEarlier(w)
          /\ AllReady(w, v.role) /\ Needs(w, v.role) # {}
          /\ v.ordinal = Turn(w, v.role) /\ v.uid = w[v.role][v.ordinal].uid
          /\ v.role = "coordinators" => AllReady(w, "data") /\ Needs(w, "data") = {}
          /\ v.role = "data" /\ v.ordinal = main /\ pods["data"][main] = w["data"][main] =>
               pass.proven \in Nat /\ Covered(pass.proven)
    BY <1>2 DEF VictimInTurn
  <2>2. v.role \in Roles
    BY <1>2 DEF VictimOutdated, RollInv
  <2>3. Kept(w) /\ Precede(w, pods) /\ ReadEarlier(w)'
    BY <1>0, <1>1, <2>1, ReadEarlierKept DEF ReadEarlier
  <2>4. /\ Needs(w, v.role)' = Needs(w, v.role) /\ Needs(w, "data")' = Needs(w, "data")
        /\ Turn(w, v.role)' = Turn(w, v.role)
    BY <1>0, <2>1, <2>2, <2>3, NeedsFacts, TurnKept
  <2>5. ASSUME v.role = "data", v.ordinal = main', pods'["data"][main'] = w["data"][main']
        PROVE  n \in Nat /\ Covered(n)'
    <3>1. main' = main
      <4> SUFFICES ASSUME main' # main PROVE FALSE
        OBVIOUS
      <4>1. main \notin up["data"]
        BY <1>0, SpecialMoves DEF Special
      <4>2. Needs(w, "data") \subseteq {main}
        BY <1>0, <2>1, <2>3, <2>5, <4>1 DEF Kept, Away, Special
      <4>3. Turn(w, "data") = main
        BY <1>0, <2>1, <2>5, <4>2, NeedsFacts, ChoiceFacts DEF Turn
      <4> QED  BY <2>1, <2>5, <4>3
    <3>2. w["data"][main].phase = "ready"
      BY <1>0, <2>1, <2>5 DEF AllReady
    <3>3. pods["data"][main] = w["data"][main]
      BY <1>0, <2>3, <2>5, <3>1, <3>2, DiffersKept
    <3>4. n \in Nat /\ Covered(n)
      BY <1>2, <2>1, <2>5, <3>1, <3>3
    <3> QED  BY <1>0, <1>1, <3>1, <3>4, CoveredKept
  <2> QED  BY <2>1, <2>3, <2>4, <2>5
<1>3. CASE pc # "delete" \/ pass' # pass
  <2>1. /\ pc = "decide" /\ UNCHANGED <<spec, sets, podLog, main, leader, up, held, taken, failovers, proven>>
        /\ \E lag \in {ShowReplicationLag, <<>>} :
             /\ v = NextRestart(exemptCurrentPods("data"), exemptCurrentPods("coordinators"), pass.view, lag)
             /\ v.action = "delete" /\ pass'.proven = held[main]
    BY <1>0, <1>3, DeleteFacts
  <2>2. PICK lag \in {ShowReplicationLag, <<>>} :
          /\ v = NextRestart(exemptCurrentPods("data"), exemptCurrentPods("coordinators"), pass.view, lag)
          /\ v.action = "delete" /\ pass'.proven = held[main]
    BY <2>1
  <2>3. PICK w \in PodVersions : Listed(w) /\ ReadEarlier(w) /\ ViewHolds(w)
    BY <2>1 DEF ReadsHold
  <2>4. /\ v.role \in Roles /\ AllReady(w, v.role) /\ Needs(w, v.role) # {}
        /\ v.ordinal = Choice(Needs(w, v.role), SpecialIn(pass.view, v.role))
        /\ v.uid = w[v.role][v.ordinal].uid
        /\ v.role = "coordinators" => AllReady(w, "data") /\ Needs(w, "data") = {}
        /\ v.role = "data" /\ Needs(w, "data") \ {pass.view.main} = {} =>
             mainMayRestart(exemptCurrentPods("data"), pass.view, lag)
    BY <1>0, <2>1, <2>2, <2>3, DecisionFacts
  <2>5. v.ordinal = Turn(w, v.role)
    <3>1. CASE SpecialIn(pass.view, v.role) = Special(v.role)
      BY <2>4, <3>1 DEF Turn
    <3>2. CASE Needs(w, v.role) \subseteq {SpecialIn(pass.view, v.role)}
      <4>1. Needs(w, v.role) \in SUBSET Pods(v.role)
        BY <2>4, NeedsFacts
      <4>2. \A s, t : Needs(w, v.role) \subseteq {t} => Choice(Needs(w, v.role), s) = t
        BY <2>4, <4>1, ChoiceFacts
      <4> QED  BY <2>4, <3>2, <4>2 DEF Turn
    <3> QED  BY <2>3, <2>4, <3>1, <3>2 DEF ViewHolds
  <2>6. Kept(w) /\ Precede(w, pods) /\ ReadEarlier(w)'
    BY <1>0, <1>1, <2>3, ReadEarlierKept DEF ReadEarlier
  <2>7. /\ Needs(w, v.role)' = Needs(w, v.role) /\ Needs(w, "data")' = Needs(w, "data")
        /\ Turn(w, v.role)' = Turn(w, v.role)
    BY <1>0, <2>4, <2>6, NeedsFacts, TurnKept
  <2>8. ASSUME v.role = "data", v.ordinal = main'
        PROVE  n \in Nat /\ Covered(n)'
    <3>1. main' = main /\ v.ordinal = main /\ Special("data") = main
      BY <2>1, <2>8 DEF Special
    <3>2. Needs(w, "data") = {main}
      <4>1. Needs(w, "data") \in SUBSET Pods("data") /\ Needs(w, "data") # {}
        BY <1>0, <2>4, <2>8, NeedsFacts
      <4>2. Choice(Needs(w, "data"), main) = main
        BY <2>5, <2>8, <3>1 DEF Turn
      <4> QED  BY <1>0, <4>1, <4>2, ChoiceFacts
    <3>3. held[main] \in Nat /\ Covered(held[main])
      BY <1>0, <2>1, <2>2, <2>3, <2>4, <2>6, <2>8, <3>2, DecisionCovered
    <3>4. n = held[main]
      BY <2>2
    <3> QED  BY <1>0, <1>1, <3>1, <3>3, <3>4, CoveredKept
  <2> QED  BY <2>4, <2>5, <2>6, <2>7, <2>8
<1> QED  BY <1>2, <1>3

-----------------------------------------------------------------------------
(* Settled rolls: what was taken down, failed over and proven *)

(* A pod is deleted with no other of its role away, and it has to be        *)
(* restarted.                                                               *)
LEMMA DeletesLast ==
  ASSUME RollInv, VictimInTurn, NEW r \in Roles, NEW o \in Pods(r), Deletes(r, o)
  PROVE  /\ o \in Needs(pods, r)
         /\ r = "coordinators" => \A d \in Pods("data") : pods["data"][d].phase = "ready"
         /\ r = "data" /\ o = main /\ pods[r][o].phase = "ready" => pass.proven \in Nat /\ Covered(pass.proven)
<1>1. PICK w \in PodVersions :
        /\ AllReady(w, r) /\ o \in Needs(w, r) /\ Precede(w, pods)
        /\ pods[r][o].uid = w[r][o].uid /\ pods[r][o].revision = w[r][o].revision
        /\ Needs(pods, r) = Needs(w, r)
        /\ r = "coordinators" => AllReady(w, "data") /\ Needs(w, "data") = {}
        /\ r = "data" /\ o = main /\ pods["data"][main] = w["data"][main] =>
             pass.proven \in Nat /\ Covered(pass.proven)
  BY DeletesFacts
<1>2. ASSUME r = "coordinators", NEW d \in Pods("data") PROVE pods["data"][d].phase = "ready"
  <2>1. pods["data"][d] = w["data"][d]
    BY <1>1, <1>2 DEF Precede, Roles
  <2> QED  BY <1>1, <1>2, <2>1 DEF AllReady
<1>3. ASSUME pods[r][o].phase = "ready" PROVE pods[r][o] = w[r][o]
  <2>1. pods[r][o] \in PodRecord /\ w[r][o] \in PodRecord
    BY LiveTypes, VersionFacts DEF RollInv
  <2>2. w[r][o].phase = "ready"
    BY <1>1 DEF AllReady
  <2> QED  BY <1>1, <1>3, <2>1, <2>2, SamePod
<1> QED  BY <1>1, <1>2, <1>3

(* The delete goes through for the pod that was listed, or for none.        *)
LEMMA RestartFacts ==
  ASSUME ClusterType, VictimOutdated, restartPod
  PROVE  LET r == pass.victim.role  o == pass.victim.ordinal
         IN  \/ UNCHANGED <<podLog, taken, proven>> /\ \A q, p : ~ Deletes(q, p)
             \/ /\ r \in Roles /\ o \in Pods(r) /\ Deletes(r, o) /\ \A q, p : Deletes(q, p) => q = r /\ p = o
                /\ pods'[r][o].phase = "terminating"
                /\ \A q \in Roles : \A p \in Pods(q) : ~ (q = r /\ p = o) => pods'[q][p] = pods[q][p]
                /\ taken' = taken \cup {<<r, o>>}
                /\ proven' = IF pods[r][o].phase = "terminating" THEN proven ELSE pass.proven
<1> DEFINE r == pass.victim.role
           o == pass.victim.ordinal
           pod == [pods[r][o] EXCEPT !.phase = "terminating"]
<1>1. pc = "delete" /\ r \in Roles /\ o \in Pods(r)
  BY DEF restartPod, VictimOutdated
<1>2. CASE matchesUID(pods[r][o], pass.victim.uid)
  <2>1. /\ StorePod(r, o, pod) /\ taken' = taken \cup {<<r, o>>}
        /\ proven' = IF pods[r][o].phase = "terminating" THEN proven ELSE pass.proven
    BY <1>2 DEF restartPod
  <2>2. Deletes(r, o) /\ \A q, p : Deletes(q, p) => q = r /\ p = o
    BY <1>1, <1>2 DEF Deletes, matchesUID
  <2>3. pods[r][o] \in PodRecord
    BY <1>1, LiveTypes, VersionFacts
  <2>4. pod \in PodRecord /\ pod.phase = "terminating"
    BY <2>3 DEF PodRecord, Phases
  <2> HIDE DEF pod
  <2>5. /\ pods'[r][o] = pod
        /\ \A q \in Roles : \A p \in Pods(q) : ~ (q = r /\ p = o) => pods'[q][p] = pods[q][p]
    BY <1>1, <2>1, <2>4, StorePodFacts
  <2> QED  BY <1>1, <2>1, <2>2, <2>4, <2>5
<1>3. CASE ~ matchesUID(pods[r][o], pass.victim.uid)
  <2>1. UNCHANGED <<podLog, taken, proven>>
    BY <1>3 DEF restartPod
  <2>2. \A q, p : ~ Deletes(q, p)
    BY <1>3 DEF Deletes, matchesUID
  <2> QED  BY <2>1, <2>2
<1> QED  BY <1>2, <1>3

LEMMA TakenStep ==
  ASSUME RollInv, NoCrashes, TakenNotReady, [Next]_vars
  PROVE  TakenNotReady'
<1>0. ClusterType /\ VictimOutdated
  BY DEF RollInv
<1> SUFFICES ASSUME NEW q \in Roles, NEW p \in Pods(q)
             PROVE  <<q, p>> \in taken' <=> pods'[q][p].phase # "ready"
  BY DEF TakenNotReady
<1>1. <<q, p>> \in taken <=> pods[q][p].phase # "ready"
  BY DEF TakenNotReady
<1>2. CASE restartPod
  <2>1. CASE UNCHANGED <<podLog, taken>>
    <3>1. pods' = pods
      BY <2>1 DEF pods
    <3> QED  BY <1>1, <2>1, <3>1
  <2>2. CASE ~ UNCHANGED <<podLog, taken>>
    <3>1. PICK r, o : /\ r \in Roles /\ o \in Pods(r) /\ pods'[r][o].phase = "terminating"
                      /\ \A a \in Roles : \A b \in Pods(a) : ~ (a = r /\ b = o) => pods'[a][b] = pods[a][b]
                      /\ taken' = taken \cup {<<r, o>>}
      BY <1>0, <1>2, <2>2, RestartFacts
    <3>2. CASE q = r /\ p = o
      BY <3>1, <3>2
    <3>3. CASE ~ (q = r /\ p = o)
      BY <1>1, <3>1, <3>3
    <3> QED  BY <3>2, <3>3
  <2> QED  BY <2>1, <2>2
<1>3. ASSUME NEW r \in Roles, NEW o \in Pods(r), BecomeReady(r, o)
      PROVE  <<q, p>> \in taken' <=> pods'[q][p].phase # "ready"
  <2> DEFINE pod == [pods[r][o] EXCEPT !.phase = "ready"]
  <2>1. StorePod(r, o, pod) /\ taken' = taken \ {<<r, o>>}
    BY <1>3 DEF BecomeReady
  <2>2. pods[r][o] \in PodRecord
    BY <1>0, LiveTypes, VersionFacts
  <2>3. pod \in PodRecord /\ pod.phase = "ready"
    BY <2>2 DEF PodRecord, Phases
  <2> HIDE DEF pod
  <2>4. /\ pods'[r][o] = pod
        /\ \A a \in Roles : \A b \in Pods(a) : ~ (a = r /\ b = o) => pods'[a][b] = pods[a][b]
    BY <1>0, <2>1, <2>3, StorePodFacts
  <2>5. CASE q = r /\ p = o
    BY <2>1, <2>3, <2>4, <2>5
  <2>6. CASE ~ (q = r /\ p = o)
    BY <1>1, <2>1, <2>4, <2>6
  <2> QED  BY <2>5, <2>6
<1>4. CASE ~ restartPod /\ \A r \in Roles : \A o \in Pods(r) : ~ BecomeReady(r, o)
  <2>1. taken' = taken
    BY <1>4, Writers
  <2>2. pods'[q][p] = pods[q][p] \/ Moved(q, p)
    BY <1>0, PodsMove
  <2>3. CASE Moved(q, p)
    <3>1. pods[q][p].phase # "ready" /\ pods'[q][p].phase # "ready"
      BY <1>0, <1>4, <2>3, PodMoves DEF Moved, Deletes, At
    <3> QED  BY <1>1, <2>1, <3>1
  <2> QED  BY <1>1, <2>1, <2>2, <2>3
<1> QED  BY <1>2, <1>3, <1>4

(* A failover or an election is counted, and moves the instance kept for    *)
(* last to one that is up.                                                  *)
LEMMA FailoverMoves ==
  ASSUME ClusterType, failovers \in [Roles -> Nat], [Next]_vars
  PROVE  /\ failovers' \in [Roles -> Nat]
         /\ \A r \in Roles :
              \/ failovers'[r] = failovers[r] /\ Special(r)' = Special(r)
              \/ /\ failovers'[r] = failovers[r] + 1 /\ Special(r) \notin up[r] /\ Special(r)' # Special(r)
<1>1. \A r \in Roles : r = "data" \/ r = "coordinators"
  BY DEF Roles
<1>2. ASSUME NEW d \in Pods("data"), Failover(d)
      PROVE  /\ failovers' = [failovers EXCEPT !["data"] = failovers["data"] + 1]
             /\ leader' = leader /\ main' = d /\ main \notin up["data"] /\ d \in up["data"]
  BY <1>2 DEF Failover
<1>3. ASSUME NEW c \in Pods("coordinators"), Elect(c)
      PROVE  /\ failovers' = [failovers EXCEPT !["coordinators"] = failovers["coordinators"] + 1]
             /\ main' = main /\ leader' = c /\ leader \notin up["coordinators"] /\ c \in up["coordinators"]
  BY <1>3 DEF Elect
<1>4. CASE \E d \in Pods("data") : Failover(d)
  BY <1>1, <1>2, <1>4 DEF Special
<1>5. CASE \E c \in Pods("coordinators") : Elect(c)
  BY <1>1, <1>3, <1>5 DEF Special
<1>6. CASE main' = main /\ leader' = leader /\ failovers' = failovers
  BY <1>6 DEF Special
<1> QED  BY <1>4, <1>5, <1>6, Writers

LEMMA FailoversStep ==
  ASSUME RollInv, NoCrashes, AwayLast, VictimInTurn, FailoversCounted, [Next]_vars, SameTemplates
  PROVE  FailoversCounted'
<1>0. ClusterType /\ VictimOutdated /\ failovers \in [Roles -> Nat]
  BY DEF RollInv, FailoversCounted
<1>1. failovers' \in [Roles -> Nat]
  BY <1>0, FailoverMoves
<1>2. ASSUME NEW r \in Roles
      PROVE  failovers'[r] + (IF Special(r)' \in Needs(pods, r)' \/ Away(r)' THEN 1 ELSE 0) <= Gen(r)' - 1
  <2>1. /\ failovers[r] + (IF Special(r) \in Needs(pods, r) \/ Away(r) THEN 1 ELSE 0) <= Gen(r) - 1
        /\ Gen(r)' = Gen(r) /\ Gen(r) \in Nat /\ failovers[r] \in Nat
    BY <1>0, LiveTypes DEF FailoversCounted, SameTemplates
  <2>2. Needs(pods, r)' \subseteq Needs(pods, r) /\ Special(r) \in Pods(r)
    BY <1>0, ReadyMoves, SpecialMoves
  <2>3. Away(r)' => Special(r)' = Special(r) /\ (Away(r) \/ Special(r) \in Needs(pods, r))
    BY <2>2, AwayMoves, DeletesLast
  <2>4. CASE failovers'[r] = failovers[r] /\ Special(r)' = Special(r)
    BY <2>1, <2>2, <2>3, <2>4
  <2>5. CASE failovers'[r] = failovers[r] + 1 /\ Special(r) \notin up[r] /\ Special(r)' # Special(r)
    <3>1. Away(r) /\ Needs(pods, r) \subseteq {Special(r)}
      BY <2>5 DEF Away, AwayLast
    <3>2. ~ (Special(r)' \in Needs(pods, r)' \/ Away(r)')
      BY <2>2, <2>3, <2>5, <3>1
    <3> QED  BY <2>1, <2>5, <3>1, <3>2
  <2> QED  BY <1>0, <2>4, <2>5, FailoverMoves
<1> QED  BY <1>1, <1>2 DEF FailoversCounted

LEMMA CoverStep ==
  ASSUME RollInv, NoCrashes, AwayLast, VictimInTurn, TakenNotReady, MainCovered, [Next]_vars, SameTemplates
  PROVE  MainCovered'
<1>0. ClusterType /\ VictimOutdated /\ "data" \in Roles /\ main \in Pods("data")
  BY DEF RollInv, ClusterType, Roles
<1> SUFFICES ASSUME <<"data", main'>> \in taken', NEW n, n = proven'
             PROVE  n \in Nat /\ Covered(n)'
  BY DEF MainCovered
<1>1. main' = main /\ (Away("data") \/ Deletes("data", main))
  <2>1. TakenNotReady'
    BY TakenStep
  <2>2. ClusterType'
    BY <1>0, ClusterStep DEF RollInv
  <2>3. main' \in Pods("data")
    BY <2>2 DEF ClusterType
  <2>4. pods'["data"][main'].phase # "ready"
    BY <1>0, <2>1, <2>3 DEF TakenNotReady
  <2>5. Away("data")'
    BY <2>4 DEF Away, Special
  <2> QED  BY <1>0, <2>5, AwayMoves DEF Special
<1>2. \A o \in Pods("data") \ {main} : ~ Deletes("data", o)
  <2> SUFFICES ASSUME NEW o \in Pods("data") \ {main}, Deletes("data", o) PROVE FALSE
    OBVIOUS
  <2>1. o \in Needs(pods, "data")
    BY <1>0, DeletesLast
  <2>2. Away("data")
    BY <1>1 DEF Deletes
  <2> QED  BY <2>1, <2>2, <1>0 DEF AwayLast, Special
<1>3. <<"data", main>> \in taken => pods["data"][main].phase # "ready"
  BY <1>0 DEF TakenNotReady
<1>4. ASSUME <<"data", main>> \in taken, n = proven PROVE n \in Nat /\ Covered(n)'
  <2>1. n \in Nat /\ Covered(n)
    BY <1>4 DEF MainCovered
  <2> QED  BY <1>0, <1>1, <1>2, <2>1, CoveredKept
<1>5. CASE restartPod
  <2>1. CASE UNCHANGED <<podLog, taken, proven>>
    BY <1>1, <1>4, <2>1
  <2>2. CASE ~ UNCHANGED <<podLog, taken, proven>>
    <3>1. PICK r, o : /\ r \in Roles /\ o \in Pods(r) /\ Deletes(r, o) /\ taken' = taken \cup {<<r, o>>}
                      /\ proven' = IF pods[r][o].phase = "terminating" THEN proven ELSE pass.proven
      BY <1>0, <1>5, <2>2, RestartFacts
    <3>2. r = "data" /\ o = main
      <4>1. CASE r = "data"
        BY <1>2, <3>1, <4>1
      <4>2. CASE r = "coordinators"
        <5>1. <<"data", main>> \in taken
          BY <1>1, <3>1, <4>2
        <5> QED  BY <1>0, <1>3, <3>1, <4>2, <5>1, DeletesLast
      <4> QED  BY <3>1, <4>1, <4>2 DEF Roles
    <3>3. CASE pods[r][o].phase = "terminating"
      <4>1. <<"data", main>> \in taken
        BY <1>0, <3>2, <3>3 DEF TakenNotReady
      <4> QED  BY <1>4, <3>1, <3>3, <4>1
    <3>4. CASE pods[r][o].phase # "terminating"
      <4>1. pods[r][o].phase = "ready"
        <5>1. PICK w \in PodVersions : pods[r][o].phase \in {"ready", "terminating"}
          BY <3>1, DeletesFacts
        <5> QED  BY <3>4, <5>1
      <4>2. n = pass.proven
        BY <3>1, <3>4
      <4>3. n \in Nat /\ Covered(n)
        BY <3>1, <3>2, <4>1, <4>2, DeletesLast
      <4> QED  BY <1>0, <1>1, <1>2, <4>3, CoveredKept
    <3> QED  BY <3>3, <3>4
  <2> QED  BY <2>1, <2>2
<1>6. CASE ~ restartPod
  <2>1. n = proven /\ (taken' = taken \/ \E r \in Roles : \E o \in Pods(r) : BecomeReady(r, o))
    BY <1>6, Writers
  <2>2. taken' \subseteq taken
    BY <2>1 DEF BecomeReady
  <2> QED  BY <1>1, <1>4, <2>1, <2>2
<1> QED  BY <1>5, <1>6

-----------------------------------------------------------------------------
(* Settled rolls: the invariant and what follows from it *)

(* A pass that applies a new template finds the cluster at rest.            *)
LEMMA FreshStep ==
  ASSUME RollInv, OneAway, TakenNotReady, FailoversCounted,
         Len(podLog) = 1, podLog' = podLog, pc' = "list",
         UNCHANGED <<main, leader, up, held, taken, failovers, proven>>,
         \A r \in Roles : /\ up[r] = Pods(r) /\ AllReady(pods, r) /\ Gen(r)' >= Gen(r)
                          /\ Gen(r)' = Gen(r) => Rev(r)' = Rev(r),
         \A r \in Roles : Gen(r)' \in Nat
  PROVE  /\ LogOrdered' /\ LogKept' /\ OneAway' /\ AwayLast' /\ ReadsHold' /\ VictimInTurn'
         /\ TakenNotReady' /\ FailoversCounted' /\ MainCovered'
<1>0. ClusterType /\ "data" \in Roles /\ main \in Pods("data") /\ leader \in Pods("coordinators")
  BY DEF RollInv, ClusterType, Roles
<1>1. pods' = pods
  BY DEF pods
<1>2. \A r \in Roles : Special(r)' = Special(r) /\ Special(r) \in Pods(r)
  BY <1>0 DEF Special, Roles
<1>3. ASSUME NEW r \in Roles PROVE ~ Away(r) /\ ~ Away(r)'
  <2>1. pods[r][Special(r)].phase = "ready" /\ Special(r) \in up[r]
    BY <1>2 DEF AllReady
  <2> QED  BY <1>1, <1>2, <2>1 DEF Away
<1>4. LogOrdered' /\ LogKept'
  <2>1. DOMAIN podLog' = {1}
    <3>1. DOMAIN podLog = 1 .. Len(podLog)
      BY <1>0, LiveTypes
    <3> QED  BY <3>1
  <2>2. LogOrdered'
    BY <2>1 DEF LogOrdered
  <2>3. LogKept'
    BY <1>3 DEF LogKept, Kept
  <2> QED  BY <2>2, <2>3
<1>5. OneAway' /\ AwayLast' /\ TakenNotReady'
  BY <1>1, <1>3 DEF OneAway, AwayLast, TakenNotReady
<1>6. ReadsHold' /\ VictimInTurn'
  BY DEF ReadsHold, VictimInTurn
<1>7. MainCovered'
  <2>1. pods["data"][main].phase = "ready"
    BY <1>0 DEF AllReady
  <2>2. <<"data", main>> \notin taken
    BY <1>0, <2>1 DEF TakenNotReady
  <2> QED  BY <2>2 DEF MainCovered
<1>8. FailoversCounted'
  <2>1. ASSUME NEW r \in Roles
        PROVE  failovers[r] + (IF Special(r)' \in Needs(pods, r)' \/ Away(r)' THEN 1 ELSE 0) <= Gen(r)' - 1
    <3>1. /\ failovers[r] + (IF Special(r) \in Needs(pods, r) \/ Away(r) THEN 1 ELSE 0) <= Gen(r) - 1
          /\ Gen(r) \in Nat /\ Gen(r)' \in Nat /\ failovers[r] \in Nat /\ Gen(r)' >= Gen(r)
      BY <1>0, LiveTypes DEF FailoversCounted
    <3>2. CASE Gen(r)' = Gen(r)
      <4>1. Needs(pods, r)' = Needs(pods, r)
        BY <1>1, <3>2 DEF Needs
      <4> QED  BY <1>2, <1>3, <3>1, <3>2, <4>1
    <3>3. CASE Gen(r)' # Gen(r)
      <4>1. failovers[r] <= Gen(r) - 1
        BY <3>1
      <4> QED  BY <3>1, <3>3, <4>1
    <3> QED  BY <3>2, <3>3
  <2> QED  BY <2>1 DEF FailoversCounted
<1> QED  BY <1>4, <1>5, <1>6, <1>7, <1>8

LEMMA SettledInit ==
  ASSUME Init, MaxCrashes = 0
  PROVE  SettledInv
<1>0. /\ ClusterType /\ Len(podLog) = 1 /\ DOMAIN podLog = {1} /\ podLog[1] = pods /\ pc = "idle"
      /\ \A r \in Roles : Gen(r) = 1 /\ Rev(r) = spec[r] /\ up[r] = Pods(r)
      /\ \A r \in Roles : \A o \in Pods(r) :
           pods[r][o] = [uid |-> 1, revision |-> spec[r], phase |-> "ready"]
  BY InitFacts
<1>1. \A r \in Roles : \A o \in Pods(r) : pods[r][o].phase = "ready" /\ pods[r][o].revision = Rev(r)
  <2> SUFFICES ASSUME NEW r \in Roles, NEW o \in Pods(r)
               PROVE  pods[r][o].phase = "ready" /\ pods[r][o].revision = Rev(r)
    OBVIOUS
  <2>1. pods[r][o] = [uid |-> 1, revision |-> spec[r], phase |-> "ready"] /\ Rev(r) = spec[r]
    BY <1>0
  <2> QED  BY <2>1
<1>2. \A r \in Roles : AllReady(pods, r) /\ Needs(pods, r) = {}
  BY <1>1 DEF AllReady, Needs
<1>3. \A r \in Roles : Special(r) \in Pods(r)
  BY <1>0 DEF ClusterType, Special, Roles
<1>4. \A r \in Roles : ~ Away(r)
  BY <1>0, <1>1, <1>3 DEF Away
<1>5. NoCrashes
  BY <1>0 DEF ClusterType, NoCrashes
<1>6. EditedAtRest
  BY <1>0, <1>2 DEF EditedAtRest
<1>7. LogOrdered /\ LogKept
  BY <1>0, <1>4 DEF LogOrdered, LogKept, Kept
<1>8. OneAway /\ AwayLast
  BY <1>1, <1>4 DEF OneAway, AwayLast
<1>9. ReadsHold /\ VictimInTurn
  BY <1>0 DEF ReadsHold, VictimInTurn
<1>10. taken = {} /\ failovers = [r \in Roles |-> 0]
  BY DEF Init
<1>11. TakenNotReady /\ MainCovered
  BY <1>1, <1>10 DEF TakenNotReady, MainCovered
<1>12. FailoversCounted
  BY <1>0, <1>2, <1>4, <1>10 DEF FailoversCounted
<1> QED  BY <1>5, <1>6, <1>7, <1>8, <1>9, <1>11, <1>12, RollInit DEF SettledInv

LEMMA SettledStep ==
  ASSUME Settled, SettledInv, [Next]_vars
  PROVE  SettledInv'
<1>0. /\ RollInv /\ NoCrashes /\ EditedAtRest /\ LogOrdered /\ LogKept /\ OneAway /\ AwayLast
      /\ ReadsHold /\ VictimInTurn /\ TakenNotReady /\ FailoversCounted /\ MainCovered
  BY DEF SettledInv
<1>1. RollInv' /\ EditedAtRest' /\ NoCrashes'
  BY <1>0, RollStep, RestStep, PodMoves DEF RollInv
<1>2. CASE SameTemplates
  <2>1. OneAway' /\ AwayLast' /\ LogOrdered' /\ LogKept'
    BY <1>0, <1>2, AwayStep, LogStep
  <2>2. ReadsHold' /\ VictimInTurn'
    BY <1>0, <1>2, ReadsStep, TurnStep
  <2>3. TakenNotReady' /\ FailoversCounted' /\ MainCovered'
    BY <1>0, <1>2, TakenStep, FailoversStep, CoverStep
  <2> QED  BY <1>1, <2>1, <2>2, <2>3 DEF SettledInv
<1>3. CASE ~ SameTemplates
  <2>1. /\ Len(podLog) = 1 /\ podLog' = podLog /\ pc' = "list"
        /\ UNCHANGED <<main, leader, up, held, taken, failovers, proven>>
        /\ \A r \in Roles : /\ up[r] = Pods(r) /\ AllReady(pods, r) /\ Gen(r)' >= Gen(r)
                            /\ Gen(r)' = Gen(r) => Rev(r)' = Rev(r)
    BY <1>0, <1>3, RestStep
  <2>2. \A r \in Roles : Gen(r)' \in Nat
    BY <1>0, SetsMove, LiveTypes DEF RollInv
  <2>3. /\ LogOrdered' /\ LogKept' /\ OneAway' /\ AwayLast' /\ ReadsHold' /\ VictimInTurn'
        /\ TakenNotReady' /\ FailoversCounted' /\ MainCovered'
    BY <1>0, <2>1, <2>2, FreshStep
  <2> QED  BY <1>1, <2>3 DEF SettledInv
<1> QED  BY <1>2, <1>3

(* The operator has at most one pod of a role down by its own hand, however *)
(* far behind the caches it reads are: from where all pods of a listing     *)
(* were ready, only the one whose turn it was can have moved on, and that   *)
(* is the one the pass deletes (Next, restartPod).                          *)
THEOREM OneDownAtATime ==
  Settled /\ MaxCrashes = 0 => (Spec => []OneDownPerRole)
<1> SUFFICES ASSUME Settled, MaxCrashes = 0 PROVE Spec => []OneDownPerRole
  OBVIOUS
<1>1. SettledInv => OneDownPerRole
  <2> SUFFICES ASSUME SettledInv, NEW r \in Roles PROVE Cardinality(TakenOf(r)) <= 1
    BY DEF OneDownPerRole
  <2>1. \A o, p \in TakenOf(r) : o = p
    BY DEF SettledInv, TakenNotReady, OneAway, TakenOf
  <2>2. CASE TakenOf(r) = {}
    BY <2>2, FS_EmptySet
  <2>3. CASE \E o : o \in TakenOf(r)
    <3>1. PICK o : TakenOf(r) = {o}
      BY <2>1, <2>3
    <3>2. Cardinality({o}) = 1
      BY FS_Singleton
    <3> QED  BY <3>1, <3>2
  <2> QED  BY <2>2, <2>3
<1> QED  BY <1>1, SettledInit, SettledStep, PTL DEF Spec

(* A change of template costs at most one failover and one election: the    *)
(* MAIN and the leader are restarted last, and a view that is out of date   *)
(* names an instance that was the last one left (nextDataInstance,          *)
(* nextCoordinator).                                                        *)
THEOREM FailsOverOncePerEdit ==
  Settled /\ MaxCrashes = 0 => (Spec => []OneFailoverPerEdit)
<1> SUFFICES ASSUME Settled, MaxCrashes = 0 PROVE Spec => []OneFailoverPerEdit
  OBVIOUS
<1>1. SettledInv => OneFailoverPerEdit
  <2> SUFFICES ASSUME SettledInv, NEW r \in Roles PROVE failovers[r] <= EditsMade
    BY DEF OneFailoverPerEdit
  <2>1. ClusterType /\ EditsCounted /\ FailoversCounted
    BY DEF SettledInv, RollInv
  <2>2. Gen(r) \in Nat /\ failovers[r] \in Nat /\ EditsMade \in Int
    BY <2>1, LiveTypes, BoundsAssumption DEF FailoversCounted, EditsMade, ClusterType
  <2>3. Gen(r) <= 1 + EditsMade
    <3>1. Gen(r) + (IF Rev(r) = spec[r] THEN 0 ELSE 1) <= 1 + EditsMade
      BY <2>1 DEF EditsCounted
    <3> QED  BY <2>2, <3>1
  <2>4. failovers[r] <= Gen(r) - 1
    <3>1. failovers[r] + (IF Special(r) \in Needs(pods, r) \/ Away(r) THEN 1 ELSE 0) <= Gen(r) - 1
      BY <2>1 DEF FailoversCounted
    <3> QED  BY <2>2, <3>1
  <2> QED  BY <2>2, <2>3, <2>4
<1> QED  BY <1>1, SettledInit, SettledStep, PTL DEF Spec

(* The failover that a restart of the MAIN's pod causes promotes an         *)
(* instance that holds what the MAIN held when the lag was read: one that   *)
(* was caught up then is still reached and ready, since nothing else is     *)
(* restarted while the MAIN is away (mainMayRestart, restartPod).           *)
THEOREM FailoverKeepsProvenWrites ==
  Settled /\ MaxCrashes = 0 => (Spec => RestartKeepsProvenWrites)
<1> SUFFICES ASSUME Settled, MaxCrashes = 0 PROVE Spec => RestartKeepsProvenWrites
  OBVIOUS
<1>1. ASSUME SettledInv, [Next]_vars, main' # main, <<"data", main>> \in taken
      PROVE  held[main'] >= proven
  <2>1. ClusterType /\ MainCovered
    BY <1>1 DEF SettledInv, RollInv
  <2>2. PICK d \in Pods("data") : Failover(d)
    BY <1>1, Writers
  <2>3. main' = d /\ \A e \in up["data"] : held[e] <= held[d]
    BY <2>2 DEF Failover
  <2>4. proven \in Nat /\ Covered(proven)
    BY <1>1, <2>1 DEF MainCovered
  <2>5. Replicas["data"] # 1
    <3>1. main \in Pods("data")
      BY <2>1 DEF ClusterType
    <3> QED  BY <1>1, <2>3, <3>1 DEF Pods
  <2>6. PICK o \in up["data"] : held[o] >= proven
    BY <2>4, <2>5 DEF Covered
  <2>7. held[o] <= held[d] /\ held[o] \in Nat /\ held[d] \in Nat
    BY <2>1, <2>3 DEF ClusterType, Roles
  <2> QED  BY <2>3, <2>4, <2>6, <2>7
<1>2. SettledInv /\ [Next]_vars => [(main' # main /\ <<"data", main>> \in taken) => held[main'] >= proven]_vars
  BY <1>1
<1> QED  BY <1>2, SettledInit, SettledStep, PTL DEF Spec, RestartKeepsProvenWrites
=============================================================================
