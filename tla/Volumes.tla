------------------------------ MODULE Volumes -------------------------------
(***************************************************************************)
(* How a larger claim size reaches the volumes of one role: the pure       *)
(* decision of internal/volumes, and reconcileVolumes patching the claims, *)
(* orphaning the StatefulSet and applying it again around its pods.        *)
(*                                                                         *)
(* A log holds the versions of an object kind from the cached one (its     *)
(* head) to the one the API server holds (its last), as each kind has an   *)
(* informer of its own.                                                    *)
(*                                                                         *)
(* Abstractions: one role, the other one's turn only comes in a later      *)
(* pass; sizes are numbers; every claim is bound; a claim's version is its *)
(* contents; members are registered throughout, as a lowered count waits   *)
(* for a retirement that is not part of this module.                       *)
(***************************************************************************)
EXTENDS Integers, FiniteSets, Sequences

CONSTANTS
  Templates,     \* the claim templates of the role
  Sizes,         \* the sizes a spec may declare
  Counts,        \* the replica counts a spec may declare
  Retained,      \* ordinals whose claims an earlier scale-down left behind
  MaxLag,        \* bound on the versions a cache is behind
  MaxEdits,      \* bound on edits of the spec
  MaxFaults      \* bound on failed passes, evicted pods and refused resizes together

ASSUME SizesAssumption  == Sizes \subseteq Nat \ {0} /\ Sizes # {}
ASSUME CountsAssumption == Counts \subseteq Nat \ {0} /\ Counts # {}
ASSUME OrdinalsAssumption == Retained \subseteq Nat
ASSUME BoundsAssumption == {MaxLag, MaxEdits, MaxFaults} \subseteq Nat

VARIABLES
  spec,      \* the declared count and size of each template
  setLog,    \* the log of the StatefulSet
  podLog,    \* the log of the set of pod ordinals
  claimLog,  \* the log of the claims: [<<template, ordinal>> -> claim]
  members,   \* the registered members
  pc,        \* where the pass is
  pass,      \* what the pass has read and still has to do
  reported,  \* whether the last pass found the declared storage usable
  missed,    \* history: whether a pass counted neither the top member's pod nor declared it
  budget     \* what is left of every bound

k8sVars  == <<setLog, podLog, claimLog>>
passVars == <<pc, pass, reported>>
vars == <<spec, k8sVars, members, passVars, missed, budget>>

-----------------------------------------------------------------------------
(* Logs *)

Live(log)   == log[Len(log)]
Cached(log) == Head(log)

(* A new version is stored; a cache MaxLag behind gets one delivered. *)
Store(log, v) ==
  IF v = Live(log) THEN log
  ELSE IF Len(log) > MaxLag THEN Append(Tail(log), v) ELSE Append(log, v)

set    == Live(setLog)
pods   == Live(podLog)
claims == Live(claimLog)

Ordinals(n) == 0 .. n - 1

NoSet == [uid |-> 0, replicas |-> 0, sizes |-> <<>>, deleting |-> FALSE]

NewClaim(size) == [request |-> size, volume |-> size, capacity |-> size, infeasible |-> FALSE]

Spend(kind) == budget[kind] > 0 /\ budget' = [budget EXCEPT ![kind] = @ - 1]

Larger(m, n) == IF m >= n THEN m ELSE n

-----------------------------------------------------------------------------
(* internal/volumes: the decision *)

(* Mutant: the volume being grown is enough. *)
usableVolume(claim) == claim.volume >= claim.request

usable(claim) == claim.capacity >= claim.request

(* The volume has grown and only the filesystem is left to. *)
resizePending(claim) == claim.volume >= claim.request

(* Mutant: the comparison is the wrong way round. *)
templatesShrank(desired, sizes) == \E t \in Templates : sizes[t] > desired[t]

templatesGrew(desired, sizes) == \E t \in Templates : sizes[t] < desired[t]

(* Mutant: the StatefulSet is recreated while claims are still to be grown. *)
recreateAtOnce(patches, desired, live) == live # NoSet /\ templatesGrew(desired, live.sizes)

recreate(patches, desired, live) ==
  live # NoSet /\ patches = {} /\ templatesGrew(desired, live.sizes)

(* The claims to patch, the ones whose new size is not usable yet, the ones *)
(* the provider gave up on, and whether to recreate the StatefulSet.        *)
VolumesDecide(desired, live, listed, running) ==
  LET patches == { c \in DOMAIN listed : listed[c].request < desired[c[1]] }
      failed  == { c \in DOMAIN listed \ patches : listed[c].infeasible }
      growing == { c \in DOMAIN listed \ (patches \cup failed) :
                     ~ usable(listed[c]) /\ (c[2] \in running \/ ~ resizePending(listed[c])) }
  IN  [ patches  |-> patches,
        done     |-> patches \cup failed \cup growing = {},
        recreate |-> recreate(patches, desired, live) ]

(* An apply restates the sizes the StatefulSet it read already has. *)
KeepLiveSizes(desired, live) == IF live = NoSet THEN desired ELSE live.sizes

-----------------------------------------------------------------------------
(* Kubernetes, the storage provider and the user *)

(* The garbage collector has orphaned the dependents. *)
FinishDelete ==
  /\ set.deleting
  /\ setLog' = Store(setLog, NoSet)
  /\ UNCHANGED <<spec, podLog, claimLog, members, passVars, missed, budget>>

(* A pod comes with the claims it lacks, at the size of the templates. *)
CreatePod(o) ==
  /\ ~ set.deleting /\ o \in Ordinals(set.replicas) \ pods
  /\ podLog' = Store(podLog, pods \cup {o})
  /\ claimLog' = Store(claimLog,
       [ c \in DOMAIN claims \cup (Templates \X {o}) |->
           IF c \in DOMAIN claims THEN claims[c] ELSE NewClaim(set.sizes[c[1]]) ])
  /\ UNCHANGED <<spec, setLog, members, passVars, missed, budget>>

DeletePod(o) ==
  /\ set # NoSet /\ ~ set.deleting /\ o \in pods \ Ordinals(set.replicas)
  /\ podLog' = Store(podLog, pods \ {o})
  /\ UNCHANGED <<spec, setLog, claimLog, members, passVars, missed, budget>>

Evict(o) ==
  /\ o \in pods
  /\ Spend("faults")
  /\ podLog' = Store(podLog, pods \ {o})
  /\ UNCHANGED <<spec, setLog, claimLog, members, passVars, missed>>

StoreClaim(c, claim) == claimLog' = Store(claimLog, [claims EXCEPT ![c] = claim])

ExpandVolume(c) ==
  /\ claims[c].volume < claims[c].request /\ ~ claims[c].infeasible
  /\ StoreClaim(c, [claims[c] EXCEPT !.volume = claims[c].request])
  /\ UNCHANGED <<spec, setLog, podLog, members, passVars, missed, budget>>

GiveUp(c) ==
  /\ claims[c].volume < claims[c].request /\ ~ claims[c].infeasible
  /\ Spend("faults")
  /\ StoreClaim(c, [claims[c] EXCEPT !.infeasible = TRUE])
  /\ UNCHANGED <<spec, setLog, podLog, members, passVars, missed>>

(* The kubelet grows the filesystem under a running pod. *)
GrowFilesystem(c) ==
  /\ claims[c].capacity < claims[c].volume /\ c[2] \in pods
  /\ StoreClaim(c, [claims[c] EXCEPT !.capacity = claims[c].volume])
  /\ UNCHANGED <<spec, setLog, podLog, members, passVars, missed, budget>>

SyncSet    == Len(setLog) > 1 /\ setLog' = Tail(setLog)
              /\ UNCHANGED <<spec, podLog, claimLog, members, passVars, missed, budget>>
SyncPods   == Len(podLog) > 1 /\ podLog' = Tail(podLog)
              /\ UNCHANGED <<spec, setLog, claimLog, members, passVars, missed, budget>>
SyncClaims == Len(claimLog) > 1 /\ claimLog' = Tail(claimLog)
              /\ UNCHANGED <<spec, setLog, podLog, members, passVars, missed, budget>>

(* Sizes only grow, as admission has it; counts go either way. *)
EditSize(t, size) ==
  /\ size > spec.sizes[t]
  /\ Spend("edits")
  /\ spec' = [spec EXCEPT !.sizes[t] = size]
  /\ UNCHANGED <<k8sVars, members, passVars, missed>>

EditCount(n) ==
  /\ n # spec.count
  /\ Spend("edits")
  /\ spec' = [spec EXCEPT !.count = n]
  /\ UNCHANGED <<k8sVars, members, passVars, missed>>

-----------------------------------------------------------------------------
(* The pass *)

NoPass == [count |-> 0, desired |-> <<>>, live |-> NoSet, listed |-> <<>>,
           running |-> {}, todo |-> {}, recreate |-> FALSE, done |-> FALSE]

Finish == pc' = "idle" /\ pass' = NoPass

(* Mutant: a StatefulSet that is gone ran nothing. *)
runningOrdinalsNone(running) == 0

runningOrdinals(running) ==
  IF running = {} THEN 0 ELSE 1 + CHOOSE o \in running : \A p \in running : p <= o

(* No ordinal is as high as the top member's. *)
EndsBelowMembers(ordinals) == \E m \in members : \A o \in ordinals : o < m

(* replicaCounts: the cached StatefulSet's count, or that of its pods. *)
BeginPass ==
  LET live    == Cached(setLog)
      current == IF live = NoSet THEN runningOrdinals(Cached(podLog)) ELSE live.replicas
  IN  /\ pc = "idle"
      /\ pc' = "claims"
      /\ pass' = [NoPass EXCEPT !.count = Larger(spec.count, current),
                                !.desired = spec.sizes, !.live = live]
      /\ missed' = (missed \/ (live = NoSet /\ EndsBelowMembers(Cached(podLog) \cup Ordinals(spec.count))))
      /\ UNCHANGED <<spec, k8sVars, members, reported, budget>>

(* observeClaims and the decision; a StatefulSet being deleted ends the pass. *)
ObserveClaims ==
  LET listed   == Cached(claimLog)
      running  == Cached(podLog)
      decision == VolumesDecide(pass.desired, pass.live, listed, running)
  IN  /\ pc = "claims"
      /\ \/ /\ pass.live.deleting
            /\ Finish /\ reported' = FALSE
         \/ /\ ~ pass.live.deleting
            /\ pc' = IF decision.patches # {} THEN "patch"
                     ELSE IF decision.recreate THEN "recreate" ELSE "apply"
            /\ pass' = [pass EXCEPT !.listed = listed, !.running = running,
                                    !.todo = decision.patches,
                                    !.recreate = decision.recreate, !.done = decision.done]
            /\ UNCHANGED reported
      /\ UNCHANGED <<spec, k8sVars, members, missed, budget>>

Patched(c) ==
  /\ pass' = [pass EXCEPT !.todo = @ \ {c}]
  /\ pc' = IF pass.todo # {c} THEN "patch" ELSE IF pass.recreate THEN "recreate" ELSE "apply"

(* growClaim: conditioned on the version listed, a conflict left to the     *)
(* next pass.                                                               *)
growClaim(c) ==
  /\ pc = "patch" /\ c \in pass.todo
  /\ IF claims[c] = pass.listed[c]
     THEN StoreClaim(c, [claims[c] EXCEPT !.request = pass.desired[c[1]], !.infeasible = FALSE])
     ELSE UNCHANGED claimLog
  /\ Patched(c)
  /\ UNCHANGED <<spec, setLog, podLog, members, reported, missed, budget>>

(* A refusal by the API server is reported, and the pass goes on. *)
RefusePatch(c) ==
  /\ pc = "patch" /\ c \in pass.todo
  /\ Spend("faults")
  /\ Patched(c)
  /\ UNCHANGED <<spec, k8sVars, members, reported, missed>>

(* The delete's precondition. *)
matchesUID(uid) == set # NoSet /\ set.uid = uid

Recreate ==
  /\ pc = "recreate"
  /\ setLog' = IF matchesUID(pass.live.uid) THEN Store(setLog, [set EXCEPT !.deleting = TRUE]) ELSE setLog
  /\ Finish /\ reported' = FALSE
  /\ UNCHANGED <<spec, podLog, claimLog, members, missed, budget>>

Uids == { setLog[i].uid : i \in DOMAIN setLog }

(* applyDesired: claim templates are immutable, so an apply that would      *)
(* change them is rejected and ends the pass.                               *)
ApplySet ==
  LET sizes == KeepLiveSizes(pass.desired, pass.live)
  IN  /\ pc = "apply"
      /\ \/ /\ set = NoSet
            /\ setLog' = Store(setLog, [ uid |-> 1 + CHOOSE u \in Uids : \A v \in Uids : v <= u,
                                         replicas |-> pass.count, sizes |-> sizes, deleting |-> FALSE ])
            /\ reported' = pass.done
         \/ /\ set # NoSet /\ set.sizes = sizes
            /\ setLog' = Store(setLog, [set EXCEPT !.replicas = pass.count])
            /\ reported' = pass.done
         \/ /\ set # NoSet /\ set.sizes # sizes
            /\ UNCHANGED setLog
            /\ reported' = FALSE
      /\ Finish
      /\ UNCHANGED <<spec, podLog, claimLog, members, missed, budget>>

FailPass ==
  /\ pc # "idle"
  /\ Spend("faults")
  /\ Finish /\ reported' = FALSE
  /\ UNCHANGED <<spec, k8sVars, members, missed>>

-----------------------------------------------------------------------------
Init ==
  /\ spec \in [count : Counts, sizes : [Templates -> Sizes]]
  /\ \A t \in Templates, size \in Sizes : spec.sizes[t] <= size
  /\ setLog = << [uid |-> 1, replicas |-> spec.count, sizes |-> spec.sizes, deleting |-> FALSE] >>
  /\ podLog = << Ordinals(spec.count) >>
  /\ claimLog = << [ c \in Templates \X (Ordinals(spec.count) \cup Retained) |-> NewClaim(spec.sizes[c[1]]) ] >>
  /\ members = Ordinals(spec.count)
  /\ pc = "idle"
  /\ pass = NoPass
  /\ reported = FALSE
  /\ missed = FALSE
  /\ budget = [edits |-> MaxEdits, faults |-> MaxFaults]

PassStep ==
  \/ BeginPass \/ ObserveClaims \/ Recreate \/ ApplySet
  \/ \E c \in pass.todo : growClaim(c)

Kubernetes ==
  \/ FinishDelete \/ SyncSet \/ SyncPods \/ SyncClaims
  \/ \E o \in Ordinals(set.replicas) : CreatePod(o)
  \/ \E o \in pods : DeletePod(o)
  \/ \E c \in DOMAIN claims : ExpandVolume(c) \/ GrowFilesystem(c)

Disruption ==
  \/ \E o \in pods : Evict(o)
  \/ \E c \in DOMAIN claims : GiveUp(c)
  \/ \E c \in pass.todo : RefusePatch(c)
  \/ \E t \in Templates, size \in Sizes : EditSize(t, size)
  \/ \E n \in Counts : EditCount(n)
  \/ FailPass

Next == PassStep \/ Kubernetes \/ Disruption

Spec == Init /\ [][Next]_vars

(* Passes are requeued for ever; the garbage collector, the StatefulSet     *)
(* controller, the watches, the provider and the kubelets make progress.    *)
Fairness ==
  /\ WF_vars(PassStep)
  /\ WF_vars(FinishDelete) /\ WF_vars(SyncSet) /\ WF_vars(SyncPods) /\ WF_vars(SyncClaims)
  /\ \A o \in UNION { Ordinals(n) : n \in Counts } : WF_vars(CreatePod(o))
  /\ WF_vars(\E c \in DOMAIN claims : ExpandVolume(c))
  /\ WF_vars(\E c \in DOMAIN claims : GrowFilesystem(c))

FairSpec == Spec /\ Fairness

-----------------------------------------------------------------------------
(* Properties *)

(* "recreating at it would shed pods whose members never left the cluster": *)
(* a StatefulSet recreated around its pods asks for the pod of every        *)
(* member, although the count declared may have been lowered meanwhile,     *)
(* pods be missing, and the count be read again in a later pass.  The one   *)
(* exception is a pass that counted the pods while the top member's was     *)
(* missing and no longer declared: the comment on runningOrdinals has gaps  *)
(* "below the top" only.                                                    *)
RecreatedAroundMembers ==
  set # NoSet /\ ~ missed => members \subseteq Ordinals(set.replicas)

(* "claims first, because a resize the API server refuses must leave the    *)
(* StatefulSet as it is": a StatefulSet is deleted only while its templates *)
(* are too small and, for the sizes then declared, after every claim the    *)
(* pass could list was grown.                                               *)
DeletedOnlyToGrow ==
  [][ (set'.deleting /\ ~ set.deleting) =>
        /\ templatesGrew(spec.sizes, set.sizes)
        /\ \A c \in DOMAIN pass.listed : claims[c].request >= pass.desired[c[1]] ]_vars

(* "A claim is done once its filesystem holds what it asks for", a claim    *)
(* nothing mounts once its volume has grown: when a pass reports the        *)
(* declared storage usable, the StatefulSet stored has the declared         *)
(* templates, every claim it listed has a volume of that size, and those of *)
(* the pods it saw a filesystem, however late its caches were.              *)
ReportedMeansUsable ==
  [][ (pc = "apply" /\ pc' = "idle" /\ reported') =>
        /\ set'.sizes = pass.desired
        /\ \A c \in DOMAIN pass.listed :
              /\ claims[c].volume >= pass.desired[c[1]]
              /\ c[2] \in pass.running => claims[c].capacity >= pass.desired[c[1]] ]_vars

(* Once edits and faults stop, the StatefulSet is back with the declared    *)
(* templates and the pods of the members, every claim asks for the declared *)
(* size, retained ones and ones made from the old templates included, and   *)
(* the members have it, unless the provider gave up or a pass missed the    *)
(* top one.                                                                 *)
Expands ==
  <>[]( /\ set # NoSet /\ ~ set.deleting /\ set.sizes = spec.sizes
        /\ \A c \in DOMAIN claims : claims[c].request >= spec.sizes[c[1]]
        /\ \/ missed
           \/ /\ members \subseteq pods
              /\ \A c \in DOMAIN claims :
                   c[2] \in members =>
                     claims[c].infeasible \/ claims[c].capacity >= spec.sizes[c[1]] )
=============================================================================
