--------------------------- MODULE RollingRestart ---------------------------
(***************************************************************************)
(* Passes that roll a changed pod template through a converged cluster:    *)
(* the apply, observeRollout, the readiness gate, the view and the lag,    *)
(* rollout.Next and restartPod, against pods, statuses and caches that     *)
(* move on between any two of these.                                       *)
(*                                                                         *)
(* A log holds the versions of an object from the cached one (its head) to *)
(* the one the API server holds (its last); the pods of both roles share a *)
(* log because one informer serves them, each StatefulSet has its own.     *)
(*                                                                         *)
(* Abstractions: every member is registered and counts do not change, so   *)
(* the plan is empty whenever a view is had; a template is a revision, and *)
(* an instance's data the number of the MAIN's transactions it holds, none *)
(* once it has diverged (module Registration keeps what it holds).         *)
(***************************************************************************)
EXTENDS Rollout, Sequences

CONSTANTS
  Replicas,     \* the replica count of each role
  Revisions,    \* the pod templates a spec may ask for
  FlagsOnly,    \* the pairs of templates that differ in nothing but flags
  NoRestart,    \* those of them that differ only in keys needing no restart
  Settled,      \* whether templates are edited only once the last roll is over
  MaxLag,       \* bound on the versions a cache is behind
  MaxEdits,     \* bound on edits of the templates
  MaxFaults,    \* bound on failed passes, lag reads and classifications
  MaxCrashes,   \* bound on containers that fail on their own
  MaxWrites     \* bound on transactions

Roles    == {"data", "coordinators"}
Pods(r)  == 0 .. Replicas[r] - 1

ASSUME ReplicasAssumption  == Replicas \in [Roles -> Nat \ {0}]
ASSUME RevisionsAssumption == Revisions \subseteq Nat \ {NoRevision} /\ Revisions # {}
ASSUME FlagsAssumption     == NoRestart \subseteq FlagsOnly /\ FlagsOnly \subseteq Revisions \X Revisions
ASSUME SettledAssumption   == Settled \in BOOLEAN
ASSUME BoundsAssumption    == {MaxLag, MaxEdits, MaxFaults, MaxCrashes, MaxWrites} \subseteq Nat

VARIABLES
  spec,       \* the template each role is declared with
  sets,       \* the log of each role's StatefulSet
  podLog,     \* the log of the pods of both roles
  main,       \* the MAIN
  leader,     \* the Raft leader
  up,         \* the instances of each role the leader reaches
  held,       \* how many of the MAIN's transactions each data instance holds
  pc,         \* where the pass is
  pass,       \* what the pass has read
  taken,      \* history: the pods the operator deleted that are not ready again
  failovers,  \* history: failovers and elections so far
  proven,     \* history: what the MAIN held when the last restart was decided
  budget      \* what is left of every bound

k8sVars     == <<sets, podLog>>
clusterVars == <<main, leader, up, held>>
passVars    == <<pc, pass>>
history     == <<taken, failovers, proven>>
vars == <<spec, k8sVars, clusterVars, passVars, history, budget>>

-----------------------------------------------------------------------------
(* Logs *)

Live(log)   == log[Len(log)]
Cached(log) == Head(log)

(* A new version is stored; a cache MaxLag behind gets one delivered. *)
Store(log, v) ==
  IF v = Live(log) THEN log
  ELSE IF Len(log) > MaxLag THEN Append(Tail(log), v) ELSE Append(log, v)

pods == Live(podLog)

StorePod(r, o, pod) == podLog' = Store(podLog, [pods EXCEPT ![r][o] = pod])

Spend(kind) == budget[kind] > 0 /\ budget' = [budget EXCEPT ![kind] = @ - 1]

-----------------------------------------------------------------------------
(* Kubernetes *)

(* A pod the operator deleted is gone, and its instance with it. *)
Terminate(r, o) ==
  /\ pods[r][o].phase = "terminating"
  /\ StorePod(r, o, [pods[r][o] EXCEPT !.phase = "gone"])
  /\ up' = [up EXCEPT ![r] = @ \ {o}]
  /\ UNCHANGED <<spec, sets, main, leader, held, passVars, history, budget>>

Create(r, o) ==
  /\ pods[r][o].phase = "gone"
  /\ StorePod(r, o, [uid |-> pods[r][o].uid + 1, revision |-> Live(sets[r]).revision,
                     phase |-> "starting"])
  /\ UNCHANGED <<spec, sets, clusterVars, passVars, history, budget>>

BecomeReady(r, o) ==
  /\ pods[r][o].phase = "starting"
  /\ StorePod(r, o, [pods[r][o] EXCEPT !.phase = "ready"])
  /\ taken' = taken \ {<<r, o>>}
  /\ UNCHANGED <<spec, sets, clusterVars, passVars, failovers, proven, budget>>

Crash(r, o) ==
  /\ pods[r][o].phase = "ready"
  /\ Spend("crashes")
  /\ StorePod(r, o, [pods[r][o] EXCEPT !.phase = "starting"])
  /\ up' = [up EXCEPT ![r] = @ \ {o}]
  /\ UNCHANGED <<spec, sets, main, leader, held, passVars, history>>

(* The StatefulSet controller processes the template and counts the pods;   *)
(* a terminating pod keeps passing its probes.                              *)
ReportStatus(r) ==
  LET v == Live(sets[r])
      reported == [v EXCEPT
        !.observed = v.generation,
        !.updateRevision = v.revision,
        !.replicas = Cardinality({ o \in Pods(r) : pods[r][o].phase # "gone" }),
        !.ready = Cardinality({ o \in Pods(r) : pods[r][o].phase \in {"ready", "terminating"} }) ]
  IN  /\ reported # v
      /\ sets' = [sets EXCEPT ![r] = Store(@, reported)]
      /\ UNCHANGED <<spec, podLog, clusterVars, passVars, history, budget>>

SyncSet(r) ==
  /\ Len(sets[r]) > 1
  /\ sets' = [sets EXCEPT ![r] = Tail(@)]
  /\ UNCHANGED <<spec, podLog, clusterVars, passVars, history, budget>>

SyncPods ==
  /\ Len(podLog) > 1
  /\ podLog' = Tail(podLog)
  /\ UNCHANGED <<spec, sets, clusterVars, passVars, history, budget>>

(* Nothing is under way: every cache is current, every pod ready and every  *)
(* instance back in the cluster.                                            *)
AtRest ==
  /\ pc = "idle"
  /\ Len(podLog) = 1
  /\ \A r \in Roles :
       Len(sets[r]) = 1 /\ up[r] = Pods(r) /\ \A o \in Pods(r) : pods[r][o].phase = "ready"

Edit(r, revision) ==
  /\ revision # spec[r]
  /\ Spend("edits")
  /\ Settled => AtRest
  /\ spec' = [spec EXCEPT ![r] = revision]
  /\ UNCHANGED <<k8sVars, clusterVars, passVars, history>>

-----------------------------------------------------------------------------
(* Memgraph *)

(* The leader reaches a started instance again. *)
Rejoin(r, o) ==
  /\ pods[r][o].phase = "ready" /\ o \notin up[r]
  /\ up' = [up EXCEPT ![r] = @ \cup {o}]
  /\ UNCHANGED <<spec, k8sVars, main, leader, held, passVars, history, budget>>

Quorum == 2 * Cardinality(up["coordinators"]) > Replicas["coordinators"]

HasLeader == leader \in up["coordinators"] /\ Quorum

Commit ==
  /\ main \in up["data"]
  /\ Spend("writes")
  /\ \E synced \in SUBSET { d \in up["data"] : held[d] = held[main] } :
       held' = [d \in Pods("data") |-> IF d \in synced \cup {main} THEN held[d] + 1 ELSE held[d]]
  /\ UNCHANGED <<spec, k8sVars, main, leader, up, passVars, history>>

Recover(d) ==
  /\ {main, d} \subseteq up["data"] /\ held[d] # held[main]
  /\ held' = [held EXCEPT ![d] = held[main]]
  /\ UNCHANGED <<spec, k8sVars, main, leader, up, passVars, history, budget>>

(* The leader promotes the most advanced instance it reaches; transactions  *)
(* only the others hold are discarded.                                      *)
Failover(d) ==
  /\ HasLeader /\ main \notin up["data"]
  /\ d \in up["data"] /\ \A e \in up["data"] : held[e] <= held[d]
  /\ main' = d
  /\ held' = [e \in Pods("data") |-> IF held[e] > held[d] THEN 0 ELSE held[e]]
  /\ failovers' = [failovers EXCEPT !["data"] = @ + 1]
  /\ UNCHANGED <<spec, k8sVars, leader, up, passVars, taken, proven, budget>>

Elect(c) ==
  /\ Quorum /\ leader \notin up["coordinators"]
  /\ c \in up["coordinators"]
  /\ leader' = c
  /\ failovers' = [failovers EXCEPT !["coordinators"] = @ + 1]
  /\ UNCHANGED <<spec, k8sVars, main, up, held, passVars, taken, proven, budget>>

-----------------------------------------------------------------------------
(* The pass *)

NoPass == [ sets |-> <<>>, generation |-> <<>>, roles |-> <<>>, view |-> <<>>, victim |-> Done,
            proven |-> 0 ]

Finish == pc' = "idle" /\ pass' = NoPass

(* The StatefulSets are read from the cache, then applied. *)
BeginPass ==
  LET applied(r) == IF Live(sets[r]).revision = spec[r] THEN Live(sets[r])
                    ELSE [Live(sets[r]) EXCEPT !.generation = @ + 1, !.revision = spec[r]]
  IN  /\ pc = "idle"
      /\ sets' = [r \in Roles |-> Store(sets[r], applied(r))]
      /\ pc' = "list"
      /\ pass' = [NoPass EXCEPT !.sets = [r \in Roles |-> Cached(sets[r])],
                                !.generation = [r \in Roles |-> applied(r).generation]]
      /\ UNCHANGED <<spec, podLog, clusterVars, history, budget>>

isStale(v, appliedGeneration) ==
  v.generation < appliedGeneration \/ v.observed # v.generation

observeRolloutRole(r) ==
  LET v == pass.sets[r]
      listed == Cached(podLog)[r]
  IN  [ replicas       |-> Replicas[r],
        updateRevision |-> v.updateRevision,
        stale          |-> isStale(v, pass.generation[r]),
        pods           |-> [ o \in { o \in Pods(r) : listed[o].phase # "gone" } |->
                               [ uid |-> listed[o].uid, revision |-> listed[o].revision,
                                 ready |-> listed[o].phase = "ready", current |-> FALSE ] ] ]

(* Every pod ready, but for the one a restart under way took down. *)
workloadsReady(roles) ==
  \A r \in Roles :
    LET tolerated == InProgress(roles[r]) /\ pass.sets[r].replicas = Replicas[r]
    IN  pass.sets[r].ready >= Replicas[r] - (IF tolerated THEN 1 ELSE 0)

(* observeRollout and the gate. *)
ListPods ==
  LET roles == [r \in Roles |-> observeRolloutRole(r)]
  IN  /\ pc = "list"
      /\ \/ /\ workloadsReady(roles)
            /\ pc' = "view"
            /\ pass' = [pass EXCEPT !.roles = roles]
         \/ /\ ~ workloadsReady(roles)
            /\ Finish
      /\ UNCHANGED <<spec, k8sVars, clusterVars, history, budget>>

Observe ==
  /\ pc = "view"
  /\ \/ /\ HasLeader
        /\ pc' = "decide"
        /\ pass' = [pass EXCEPT !.view = [main |-> main, leader |-> leader, up |-> up]]
     \/ /\ ~ HasLeader
        /\ Finish
  /\ UNCHANGED <<spec, k8sVars, clusterVars, history, budget>>

ShowReplicationLag ==
  [ d \in { d \in Pods("data") : main \in up["data"] } |-> held[main] - held[d] ]

(* The pods exemptCurrentPods has to classify, and the ones it exempts. *)
FlagsChanged(r, pod) ==
  pod.revision # pass.sets[r].updateRevision
    /\ <<pod.revision, pass.sets[r].revision>> \in FlagsOnly

(* Mutant: whatever changed in the flags needs no restart. *)
exemptFlagChanges(r) ==
  [pass.roles[r] EXCEPT !.pods =
     [ o \in DOMAIN @ |-> [ @[o] EXCEPT !.current = FlagsChanged(r, pass.roles[r].pods[o]) ] ]]

exemptCurrentPods(r) ==
  [pass.roles[r] EXCEPT !.pods =
     [ o \in DOMAIN @ |->
         [ @[o] EXCEPT !.current =
             /\ FlagsChanged(r, pass.roles[r].pods[o])
             /\ <<pass.roles[r].pods[o].revision, pass.sets[r].revision>> \in NoRestart ] ]]

Act(decision) ==
  \/ /\ decision.action = "delete"
     /\ pc' = "delete"
     /\ pass' = [NoPass EXCEPT !.victim = decision, !.proven = held[main]]
  \/ /\ decision.action # "delete"
     /\ Finish

(* The lag is read, the flags classified and the one action chosen.  proven *)
(* is history.                                                              *)
Decide ==
  /\ pc = "decide"
  /\ Act(NextRestart(exemptCurrentPods("data"), exemptCurrentPods("coordinators"),
                     pass.view, ShowReplicationLag))
  /\ UNCHANGED <<spec, k8sVars, clusterVars, history, budget>>

(* The lag cannot be read: nothing is known to be caught up. *)
DecideWithoutLag ==
  /\ pc = "decide"
  /\ Spend("faults")
  /\ Act(NextRestart(exemptCurrentPods("data"), exemptCurrentPods("coordinators"),
                     pass.view, <<>>))
  /\ UNCHANGED <<spec, k8sVars, clusterVars, history>>

(* Pods differ in flags nothing could classify: the pass waits. *)
WaitForFlagClasses ==
  /\ pc = "decide"
  /\ Spend("faults")
  /\ \E r \in Roles : \E o \in DOMAIN pass.roles[r].pods : FlagsChanged(r, pass.roles[r].pods[o])
  /\ Finish
  /\ UNCHANGED <<spec, k8sVars, clusterVars, history>>

(* Mutant: the pod is deleted by name, whichever pod has it by now. *)
matchesName(pod, uid) == pod.phase # "gone"

(* The delete's precondition. *)
matchesUID(pod, uid) == pod.phase # "gone" /\ pod.uid = uid

restartPod ==
  LET v   == pass.victim
      pod == pods[v.role][v.ordinal]
  IN  /\ pc = "delete"
      /\ \/ /\ matchesUID(pod, v.uid)
            /\ StorePod(v.role, v.ordinal, [pod EXCEPT !.phase = "terminating"])
            /\ taken' = taken \cup {<<v.role, v.ordinal>>}
            /\ proven' = IF pod.phase = "terminating" THEN proven ELSE pass.proven
         \/ /\ ~ matchesUID(pod, v.uid)
            /\ UNCHANGED <<podLog, taken, proven>>
      /\ Finish
      /\ UNCHANGED <<spec, sets, clusterVars, failovers, budget>>

FailPass ==
  /\ pc # "idle"
  /\ Spend("faults")
  /\ Finish
  /\ UNCHANGED <<spec, k8sVars, clusterVars, history>>

-----------------------------------------------------------------------------
Init ==
  /\ \E revision \in Revisions :
       /\ spec = [r \in Roles |-> revision]
       /\ sets = [r \in Roles |->
            << [ generation |-> 1, revision |-> revision, observed |-> 1,
                 updateRevision |-> revision, replicas |-> Replicas[r], ready |-> Replicas[r] ] >>]
       /\ podLog = << [r \in Roles |-> [o \in Pods(r) |->
                         [uid |-> 1, revision |-> revision, phase |-> "ready"]]] >>
  /\ main \in Pods("data")
  /\ leader \in Pods("coordinators")
  /\ up = [r \in Roles |-> Pods(r)]
  /\ held = [d \in Pods("data") |-> 0]
  /\ pc = "idle"
  /\ pass = NoPass
  /\ taken = {}
  /\ failovers = [r \in Roles |-> 0]
  /\ proven = 0
  /\ budget = [ edits |-> MaxEdits, faults |-> MaxFaults, crashes |-> MaxCrashes, writes |-> MaxWrites ]

PassStep == BeginPass \/ ListPods \/ Observe \/ Decide \/ restartPod

Kubelet(r, o) == Terminate(r, o) \/ Create(r, o) \/ BecomeReady(r, o)

Environment ==
  \/ \E r \in Roles :
       \/ \E o \in Pods(r) : Kubelet(r, o) \/ Crash(r, o) \/ Rejoin(r, o)
       \/ ReportStatus(r) \/ SyncSet(r)
       \/ \E revision \in Revisions : Edit(r, revision)
  \/ SyncPods \/ Commit
  \/ \E d \in Pods("data") : Recover(d) \/ Failover(d)
  \/ \E c \in Pods("coordinators") : Elect(c)
  \/ DecideWithoutLag \/ WaitForFlagClasses \/ FailPass

Next == PassStep \/ Environment

Spec == Init /\ [][Next]_vars

(* Passes are requeued for ever; kubelets, the StatefulSet controller, the  *)
(* watches, the coordinators and replication make progress.                 *)
Fairness ==
  /\ WF_vars(PassStep)
  /\ WF_vars(SyncPods)
  /\ \A r \in Roles :
       /\ WF_vars(ReportStatus(r)) /\ WF_vars(SyncSet(r))
       /\ \A o \in Pods(r) : WF_vars(Kubelet(r, o)) /\ WF_vars(Rejoin(r, o))
  /\ \A d \in Pods("data") : WF_vars(Recover(d))
  /\ WF_vars(\E d \in Pods("data") : Failover(d))
  /\ WF_vars(\E c \in Pods("coordinators") : Elect(c))

FairSpec == Spec /\ Fairness

-----------------------------------------------------------------------------
(* Properties *)

Phases == {"ready", "terminating", "gone", "starting"}

(* Type correctness; a pod about to be deleted is one of its role, and not  *)
(* a later incarnation than the one that exists.                            *)
TypeOK ==
  /\ spec \in [Roles -> Revisions]
  /\ \A r \in Roles : Len(sets[r]) \in 1 .. MaxLag + 1
  /\ \A r \in Roles : Live(sets[r]).revision \in Revisions
  /\ Len(podLog) \in 1 .. MaxLag + 1
  /\ \A r \in Roles : pods[r] \in [Pods(r) -> [uid : Nat \ {0}, revision : Revisions, phase : Phases]]
  /\ main \in Pods("data") /\ leader \in Pods("coordinators")
  /\ \A r \in Roles : up[r] \subseteq Pods(r)
  /\ held \in [Pods("data") -> 0 .. MaxWrites]
  /\ pc \in {"idle", "list", "view", "decide", "delete"}
  /\ pc = "delete" =>
       /\ pass.victim.ordinal \in Pods(pass.victim.role)
       /\ pass.victim.uid <= pods[pass.victim.role][pass.victim.ordinal].uid
  /\ \A kind \in DOMAIN budget : budget[kind] \in Nat

EditsMade == MaxEdits - budget.edits

(* The pods of a role the operator took down and that are not back. *)
TakenOf(r) == { o \in Pods(r) : <<r, o>> \in taken }

(* "exactly one action per pass", "which is what serialises the restarts    *)
(* down to one at a time": the operator never has two pods of one role down *)
(* by its own hand, however stale the pods and statuses it reads, as long   *)
(* as an edit waits for the roll of the one before.                         *)
OneDownPerRole == \A r \in Roles : Cardinality(TakenOf(r)) <= 1

(* "a pod already replaced between the observation and here is left alone   *)
(* rather than restarted twice": a change of template costs each pod at     *)
(* most one restart, whatever a cache still shows of its predecessor.       *)
RestartedOncePerEdit ==
  \A r \in Roles : \A o \in Pods(r) : pods[r][o].uid <= 1 + EditsMade

(* "Restarting the MAIN costs one coordinator-driven failover, so it        *)
(* happens once": a change of template costs at most one failover and at    *)
(* most one election.                                                       *)
OneFailoverPerEdit == \A r \in Roles : failovers[r] <= EditsMade

(* "whichever wins is at least as current as the one proven here": the      *)
(* failover a restart of the MAIN's pod causes promotes an instance holding *)
(* whatever the MAIN held when the lag was read.                            *)
RestartKeepsProvenWrites ==
  [][ (main' # main /\ <<"data", main>> \in taken) => held[main'] >= proven ]_vars

(* A change of template reaches every pod, unless it needs no restart.      *)
Rolled ==
  \A r \in Roles : \A o \in Pods(r) :
    /\ pods[r][o].phase = "ready"
    /\ pods[r][o].revision = spec[r] \/ <<pods[r][o].revision, spec[r]>> \in NoRestart

RollFinishes == <>[]Rolled

=============================================================================
