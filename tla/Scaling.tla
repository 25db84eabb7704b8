------------------------------- MODULE Scaling ------------------------------
(***************************************************************************)
(* How the operator's passes resize the StatefulSets: replicaCounts,       *)
(* applyDesired, the readiness gate, the shrink that sheds retired pods,   *)
(* and the expectation that keeps a stale cache from undoing it, for both  *)
(* roles of one cluster.                                                   *)
(*                                                                         *)
(* What a pass reads is a cache: a version of each StatefulSet the API     *)
(* server once held, delivered in order but late.  Each version carries    *)
(* the replica count asked for and the ready count the StatefulSet         *)
(* controller last reported, which lags the pods on its own.               *)
(*                                                                         *)
(* Abstractions: the Memgraph cluster is the set of member ordinals per    *)
(* role, which the planner's commands fill and empty one by one (module    *)
(* Registration has the commands); resourceVersions are numbers; the pods  *)
(* counted are the ready ones; the one pod a rolling restart may have down *)
(* (module Rollout) and the recreation of a StatefulSet for a larger claim *)
(* are left out, so a StatefulSet once created keeps its UID.              *)
(***************************************************************************)
EXTENDS Integers, FiniteSets

CONSTANTS
  Roles,        \* the roles, numbered in the order a pass handles them
  Counts,       \* the replica counts a spec may declare
  Operators,    \* the operator processes, one of them elected
  Settled,      \* whether counts are edited only once every cache is current
  MaxEdits,     \* bound on edits of the spec
  MaxFaults,    \* bound on failed passes, restarts and takeovers
  MaxLostAcks,  \* bound on writes that land although their call fails
  MaxStale      \* bound on the generations a pass may have a stale cache at

ASSUME RolesAssumption     == Roles \subseteq Nat /\ IsFiniteSet(Roles)
ASSUME CountsAssumption    == Counts \subseteq Nat \ {0} /\ Counts # {}
ASSUME OperatorsAssumption == Operators # {}
ASSUME SettledAssumption   == Settled \in BOOLEAN
ASSUME BoundsAssumption    == {MaxEdits, MaxFaults, MaxLostAcks, MaxStale} \subseteq Nat

VARIABLES
  spec,      \* the declared count of each role
  live,      \* the StatefulSet of each role, as the API server holds it
  events,    \* the versions of it some process's watch has yet to deliver
  pods,      \* the ordinals of each role's ready pods
  members,   \* the ordinals of each role registered with the Memgraph cluster
  active,    \* the elected operator process
  cache,     \* the version of each StatefulSet in each process's cache
  expected,  \* the generation of the shrink waited for, 0 for none
  pc,        \* where the elected process's pass is
  pass,      \* what the pass read: declared, applied and ready counts, roles to do
  budget     \* what is left of every bound

k8sVars  == <<live, events, pods>>
passVars == <<pc, pass>>
vars == <<spec, k8sVars, members, active, cache, expected, passVars, budget>>

-----------------------------------------------------------------------------
(* StatefulSets *)

Positive == Nat \ {0}

(* A version of a StatefulSet: its resourceVersion, its metadata.generation, *)
(* spec.replicas and status.readyReplicas.                                   *)
Version == [rv : Positive, gen : Positive, replicas : Positive, ready : Nat]

(* No StatefulSet: the nil a read of the cache returns before the first     *)
(* apply shows, with a ready count that clears no gate.                     *)
Absent == [rv |-> 0, gen |-> 0, replicas |-> 0, ready |-> -1]

Ordinals(n) == 0 .. n - 1

Spend(kind) == budget[kind] > 0 /\ budget' = [budget EXCEPT ![kind] = @ - 1]

(* v with its replica count set to n: a new generation if that changes it. *)
Resized(v, n) ==
  IF v # Absent /\ v.replicas = n
  THEN v
  ELSE [rv |-> v.rv + 1, gen |-> v.gen + 1, replicas |-> n,
        ready |-> IF v = Absent THEN 0 ELSE v.ready]

(* v with its ready count reported as n: a status has no generation. *)
Reported(v, n) ==
  [rv |-> v.rv + 1, gen |-> v.gen, replicas |-> v.replicas, ready |-> n]

(* The API server stores a version. *)
Store(r, v) ==
  /\ live' = [live EXCEPT ![r] = v]
  /\ events' = [events EXCEPT ![r] = IF v = live[r] THEN @ ELSE @ \cup {v}]

-----------------------------------------------------------------------------
(* Kubernetes and the user *)

PodReady(r, o) ==
  /\ o \in Ordinals(live[r].replicas) \ pods[r]
  /\ pods' = [pods EXCEPT ![r] = @ \cup {o}]
  /\ UNCHANGED <<spec, live, events, members, active, cache, expected, passVars, budget>>

PodGone(r, o) ==
  /\ o \in pods[r] \ Ordinals(live[r].replicas)
  /\ pods' = [pods EXCEPT ![r] = @ \ {o}]
  /\ UNCHANGED <<spec, live, events, members, active, cache, expected, passVars, budget>>

ReportStatus(r) ==
  /\ live[r] # Absent
  /\ live[r].ready # Cardinality(pods[r])
  /\ Store(r, Reported(live[r], Cardinality(pods[r])))
  /\ UNCHANGED <<spec, pods, members, active, cache, expected, passVars, budget>>

(* The versions some cache has yet to see after this step. *)
Undelivered(r, versions) == { v \in versions : \E p \in Operators : v.rv > cache'[p][r].rv }

(* A watch event, possibly several at once, reaches a process's cache. *)
SyncCache(p, r) ==
  /\ \E v \in events[r] :
       /\ v.rv > cache[p][r].rv
       /\ cache' = [cache EXCEPT ![p][r] = v]
  /\ events' = [events EXCEPT ![r] = Undelivered(r, @)]
  /\ UNCHANGED <<spec, live, pods, members, active, expected, passVars, budget>>

CachesCurrent == \A p \in Operators : cache[p] = live

Edit(r, n) ==
  /\ Spend("edits")
  /\ n \in Counts \ {spec[r]}
  /\ Settled => pc = "idle" /\ CachesCurrent
  /\ spec' = [spec EXCEPT ![r] = n]
  /\ UNCHANGED <<k8sVars, members, active, cache, expected, passVars>>

-----------------------------------------------------------------------------
(* The pass *)

NoPass == [declared |-> [r \in Roles |-> 0], applied |-> [r \in Roles |-> 0],
           ready |-> [r \in Roles |-> 0], todo |-> {}]

Finish == pc' = "idle" /\ pass' = NoPass

(* Mutants: the declared count alone; the current count alone. *)
LargerIsDeclared(declared, current) == declared
LargerIsCurrent(declared, current) == current

Larger(declared, current) == IF declared >= current THEN declared ELSE current

(* Mutant: the written copy itself is not trusted. *)
SatisfiedByLaterOnly(r, cached) ==
  expected[r] = 0 \/ cached = Absent \/ cached.gen > expected[r]

(* StatefulSets.Satisfied: no shrink is waited for, or the cached copy is   *)
(* gone or at least of its generation.                                      *)
Satisfied(r, cached) ==
  expected[r] = 0 \/ cached = Absent \/ cached.gen >= expected[r]

(* A satisfied expectation is forgotten. *)
Forget(cached) ==
  expected' = [r \in Roles |-> IF Satisfied(r, cached[r]) THEN 0 ELSE expected[r]]

(* Staleness is bounded: past MaxStale generations a pass reads a current   *)
(* cache.  Two writes that chase a stale cache could follow each other for  *)
(* ever otherwise.                                                          *)
FreshEnough == \A r \in Roles : live[r].gen < MaxStale \/ cache[active][r] = live[r]

(* One past the highest pod ordinal, zero without a pod: a count for each   *)
(* subset of the pods the pod cache may show.                               *)
runningOrdinals(r) == {0} \cup {o + 1 : o \in pods[r]}

(* The current count: the cached StatefulSet's, or else that of the pods. *)
currentReplicas(r) ==
  IF cache[active][r] = Absent THEN runningOrdinals(r) ELSE {cache[active][r].replicas}

(* replicaCounts: the one read of each StatefulSet in a pass. *)
BeginPass ==
  LET cached == cache[active]
  IN  /\ pc = "idle" /\ FreshEnough
      /\ \A r \in Roles : Satisfied(r, cached[r])
      /\ Forget(cached)
      /\ pc' = "apply"
      /\ \E current \in [Roles -> UNION { currentReplicas(r) : r \in Roles }] :
           /\ \A r \in Roles : current[r] \in currentReplicas(r)
           /\ pass' = [ declared |-> spec,
                        applied  |-> [r \in Roles |-> Larger(spec[r], current[r])],
                        ready    |-> [r \in Roles |-> cached[r].ready],
                        todo     |-> Roles ]
      /\ UNCHANGED <<spec, k8sVars, members, active, cache, budget>>

(* A pass that finds a shrink the cache does not show yet is put off. *)
DeferPass ==
  /\ pc = "idle"
  /\ \E r \in Roles : ~ Satisfied(r, cache[active][r])
  /\ Forget(cache[active])
  /\ UNCHANGED <<spec, k8sVars, members, active, cache, passVars, budget>>

(* r is the next of the pass's roles to do. *)
NextRole(r) == r \in pass.todo /\ \A q \in pass.todo : r <= q

(* applyDesired, one StatefulSet at a time. *)
ApplyRole(r) ==
  /\ pc = "apply" /\ NextRole(r)
  /\ Store(r, Resized(live[r], pass.applied[r]))
  /\ pass' = [pass EXCEPT !.todo = @ \ {r}]
  /\ pc' = IF pass.todo = {r} THEN "gate" ELSE "apply"
  /\ UNCHANGED <<spec, pods, members, active, cache, expected, budget>>

RetiringOf(r) == pass.declared[r] .. pass.applied[r] - 1

(* Mutant: the plan retires nobody. *)
NothingUnretired(r) == {}

(* The members the plan still has to register, and to retire. *)
Unregistered(r) == Ordinals(pass.declared[r]) \ members[r]
Unretired(r)    == RetiringOf(r) \cap members[r]

workloadsReady == \A r \in Roles : pass.ready[r] >= pass.applied[r]

(* The gate and the observation of the cluster: an empty plan with members  *)
(* retiring sheds their pods, an empty plan without ends the pass.          *)
Observe ==
  /\ pc = "gate"
  /\ \/ /\ ~ workloadsReady
        /\ Finish
     \/ /\ workloadsReady
        /\ \E r \in Roles : Unregistered(r) \cup Unretired(r) # {}
        /\ pc' = "members" /\ pass' = pass
     \/ /\ workloadsReady
        /\ \A r \in Roles : Unregistered(r) \cup Unretired(r) = {}
        /\ \E r \in Roles : RetiringOf(r) # {}
        /\ pc' = "shed"
        /\ pass' = [pass EXCEPT !.todo = { r \in Roles : RetiringOf(r) # {} }]
     \/ /\ workloadsReady
        /\ \A r \in Roles : Unregistered(r) \cup RetiringOf(r) = {}
        /\ Finish
  /\ UNCHANGED <<spec, k8sVars, members, active, cache, expected, budget>>

RegisterMember(r, o) ==
  /\ pc = "members" /\ o \in Unregistered(r)
  /\ members' = [members EXCEPT ![r] = @ \cup {o}]
  /\ UNCHANGED <<spec, k8sVars, active, cache, expected, passVars, budget>>

RetireMember(r, o) ==
  /\ pc = "members" /\ o \in Unretired(r)
  /\ \A q \in Roles : Unregistered(q) = {}
  /\ members' = [members EXCEPT ![r] = @ \ {o}]
  /\ UNCHANGED <<spec, k8sVars, active, cache, expected, passVars, budget>>

(* Every command of the plan has run: the next pass verifies. *)
PlanDone ==
  /\ pc = "members"
  /\ \A r \in Roles : Unregistered(r) \cup Unretired(r) = {}
  /\ Finish
  /\ UNCHANGED <<spec, k8sVars, members, active, cache, expected, budget>>

(* An apply or a query fails, or a retirement waits for a caught-up         *)
(* survivor: the pass ends, the process and its expectations live on.       *)
FailPass ==
  /\ pc # "idle"
  /\ Spend("faults")
  /\ Finish
  /\ UNCHANGED <<spec, k8sVars, members, active, cache, expected>>

(* Mutant: the generation before the write is waited for. *)
ExpectPrevious(r, gen) == expected' = [expected EXCEPT ![r] = gen - 1]

Expect(r, gen) == expected' = [expected EXCEPT ![r] = gen]

(* shedRetiredPods: the one write the expectation is for. *)
ShedRole(r) ==
  LET shrunk == Resized(live[r], pass.declared[r])
  IN  /\ pc = "shed" /\ NextRole(r)
      /\ Store(r, shrunk)
      /\ Expect(r, shrunk.gen)
      /\ IF pass.todo = {r} THEN Finish
         ELSE pc' = pc /\ pass' = [pass EXCEPT !.todo = @ \ {r}]
      /\ UNCHANGED <<spec, pods, members, active, cache, budget>>

(* The shrink lands but its call fails, so nothing is expected of it. *)
LoseShedAck(r) ==
  /\ pc = "shed" /\ NextRole(r)
  /\ Spend("lostAcks")
  /\ Store(r, Resized(live[r], pass.declared[r]))
  /\ Finish
  /\ UNCHANGED <<spec, pods, members, active, cache, expected>>

NoExpectations == [r \in Roles |-> 0]

(* The process restarts and fills its cache from a fresh list. *)
Restart ==
  /\ Spend("faults")
  /\ cache' = [cache EXCEPT ![active] = live]
  /\ events' = [r \in Roles |-> Undelivered(r, events[r])]
  /\ expected' = NoExpectations
  /\ Finish
  /\ UNCHANGED <<spec, live, pods, members, active>>

(* Another process is elected, with the cache it kept while standing by. *)
TakeOver(p) ==
  /\ p # active
  /\ Spend("faults")
  /\ active' = p
  /\ expected' = NoExpectations
  /\ Finish
  /\ UNCHANGED <<spec, k8sVars, members, cache>>

-----------------------------------------------------------------------------
Init ==
  /\ spec \in [Roles -> Counts]
  /\ live = [r \in Roles |-> Absent]
  /\ events = [r \in Roles |-> {}]
  /\ pods = [r \in Roles |-> {}]
  /\ members = [r \in Roles |-> {}]
  /\ active \in Operators
  /\ cache = [p \in Operators |-> live]
  /\ expected = NoExpectations
  /\ pc = "idle"
  /\ pass = NoPass
  /\ budget = [edits |-> MaxEdits, faults |-> MaxFaults, lostAcks |-> MaxLostAcks]

PassStep ==
  \/ BeginPass \/ DeferPass \/ Observe \/ PlanDone
  \/ \E r \in Roles :
       \/ ApplyRole(r) \/ ShedRole(r)
       \/ \E o \in Ordinals(pass.applied[r]) : RegisterMember(r, o) \/ RetireMember(r, o)

Kubernetes ==
  \E r \in Roles :
    \/ \E o \in Ordinals(live[r].replicas) \cup pods[r] : PodReady(r, o) \/ PodGone(r, o)
    \/ ReportStatus(r)
    \/ \E p \in Operators : SyncCache(p, r)

Disruption ==
  \/ \E r \in Roles : (\E n \in Counts : Edit(r, n)) \/ LoseShedAck(r)
  \/ FailPass \/ Restart
  \/ \E p \in Operators : TakeOver(p)

Next == PassStep \/ Kubernetes \/ Disruption

Spec == Init /\ [][Next]_vars

(* Passes are requeued for ever; the StatefulSet controller and the watches *)
(* make progress.  Edits and faults are bounded.                            *)
Fairness ==
  /\ WF_vars(PassStep)
  /\ \A r \in Roles :
       /\ WF_vars(\E o \in Ordinals(live[r].replicas) : PodReady(r, o))
       /\ WF_vars(\E o \in pods[r] : PodGone(r, o))
       /\ WF_vars(ReportStatus(r))
       /\ \A p \in Operators : WF_vars(SyncCache(p, r))

FairSpec == Spec /\ Fairness

-----------------------------------------------------------------------------
(* Properties *)

(* Type correctness; a StatefulSet is never stored, and a pass never runs,  *)
(* with no replicas at all.                                                 *)
TypeOK ==
  /\ spec \in [Roles -> Counts]
  /\ live \in [Roles -> Version \cup {Absent}]
  /\ events \in [Roles -> SUBSET Version]
  /\ pods \in [Roles -> SUBSET Nat] /\ \A r \in Roles : IsFiniteSet(pods[r])
  /\ members \in [Roles -> SUBSET Nat]
  /\ active \in Operators
  /\ cache \in [Operators -> [Roles -> Version \cup {Absent}]]
  /\ expected \in [Roles -> Nat]
  /\ pc \in {"idle", "apply", "gate", "members", "shed"}
  /\ IF pc = "idle" THEN pass = NoPass
     ELSE pass \in [declared : [Roles -> Positive], applied : [Roles -> Positive],
                    ready : [Roles -> Nat \cup {-1}], todo : SUBSET Roles]
  /\ budget \in [edits : Nat, faults : Nat, lostAcks : Nat]

(* "the coordinators never see a registered instance's pod disappear": the  *)
(* StatefulSet always asks for the pod of every registered member, whatever *)
(* the cache showed the passes, whichever calls failed and whichever        *)
(* process ran them.                                                        *)
RegisteredHavePods ==
  \A r \in Roles : members[r] \subseteq Ordinals(live[r].replicas)

(* What the pass may do to the members, said without caches and passes:     *)
(* asked is what the StatefulSets ask for.                                  *)
Abstract == INSTANCE Membership WITH
  desired <- spec, asked <- [r \in Roles |-> live[r].replicas]

(* The operator implements that promise: replicaCounts and applyDesired     *)
(* never ask for fewer pods than are declared, a count is lowered only past *)
(* members that left, and only declared members with a pod asked for are    *)
(* registered, although every decision is taken from a cache that may be    *)
(* late, by a process that may be replaced at any step.                     *)
ImplementsMembership == Abstract!Spec

(* A replica count rises only to the declared one: a stale cache never      *)
(* brings back the pods a shrink shed, because the pass waits for the       *)
(* shrink it expects.  Expectations live in the process: a takeover or a    *)
(* lost acknowledgement takes them away.                                    *)
GrownOnlyToDeclared ==
  [][ \A r \in Roles :
        budget.faults = MaxFaults /\ budget.lostAcks = MaxLostAcks
          /\ live'[r].replicas > live[r].replicas
        => live'[r].replicas = pass.declared[r] ]_vars

(* Once edits and faults stop, each role runs the declared count, and       *)
(* exactly the declared members are registered.                             *)
Resizes ==
  <>[](\A r \in Roles : live[r].replicas = spec[r] /\ members[r] = Ordinals(spec[r]))
=============================================================================
