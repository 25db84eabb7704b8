# A TLA+ model of the Memgraph Kubernetes operator

The operator reconciles one custom resource, `MemgraphDBCluster`, into a Memgraph
high-availability cluster: two StatefulSets (coordinators and data instances),
their Services and ConfigMaps, and the registration of every pod with the Raft
cluster of coordinators. Nothing of a reconcile survives it: each pass reads the
world again, decides one step and takes it. This project models the passes that
can lose data or a cluster when they go wrong: registration and retirement,
resizing, the rolling restart, volume expansion, leader discovery, the system user,
external access, and the settings, license and status a pass leaves behind.

## 1. Inventory

| part | state it keeps | operations | what makes it correct |
|---|---|---|---|
| planner (`internal/planner`) | none | `Plan`, `Retired`, the commands' `Run` | commands come in an order Memgraph accepts; only retiring members are removed; MAIN moves only onto a caught-up survivor |
| registration pass (`reconcileRegistration`) | none; the Memgraph cluster is its state | read the view, read the lag, plan, run, shed | survives lost queries, refusals, elections, failovers and its own death; converges |
| replica counts (`replicaCounts`, `applyDesired`, `shedRetiredPods`) | `spec.replicas` of two StatefulSets, read from a cache | apply at the larger count, shed at the declared one | a registered member always has a pod; a shed is not undone |
| expectations (`internal/expectations`) | generation of the last shrink, in memory | `Expect`, `Satisfied` | a pass never acts on a cache older than its own shrink, and is never put off for ever |
| rolling restart (`internal/rollout`, `observeRollout`, `restartPod`) | none; pods' revisions are its state | delete one outdated pod | one pod down at a time, each once, MAIN and leader last, ends |
| readiness gate (`workloadsReady`) | none | | tolerates exactly the pod the restart took down |
| leader discovery (`observeCluster`) | none | walk over the coordinators | the view is the leader's, never a stale or foreign one |
| volume expansion (`internal/volumes`, `reconcileVolumes`) | claims and claim templates | patch claims, orphan and recreate the StatefulSet | no pod restarts, no claim left small, count kept over the recreation |
| settings, license, credentials (`internal/settings`, `reconcileSettings`, `reconcileLicense`) | Memgraph's own settings | read, diff, set, per pod | every ready pod gets every value; a rejected one is reported |
| flag classification (`classifyFlags`, `exemptCurrentPods`) | none | | no restart for a key that needs none, no missing restart |
| system user (`systemuser.go`) | two Secrets | create the password once, keep the hash | the operator never locks itself out; a FIPS pod never meets a bcrypt hash |
| status (`setStatus`, `summarizeReady`, `convergedCondition`) | conditions | | conditions describe the pass that wrote them |
| external access, monitoring | Services, Gateway, ServiceMonitor | apply, observe, prune | nothing owned is left behind, nothing foreign is pruned |
| Bolt connector (`bolt.go`) | none | dial by scheme and credentials | a query's failure leaves its effect unknown |
| builders, API types, events, `main` | none | | |

What interacts: a pass reads StatefulSets and pods through informer caches, writes
through the API server, and talks to Memgraph over Bolt. The API server, the
StatefulSet controller, the kubelets, the coordinators (elections, failovers), the
clients (transactions), the user (edits) and, with leader election, a second
operator process all move between any two steps of a pass. The hard behaviours
follow from that: stale reads, effects that land without an answer, views that
are out of date when acted on, a process that dies half-way, and two control
systems (the operator and Raft) that both move MAIN. PROJECT.json lists each as a
hazard at its line.

## 2. Modules

| module | models | over |
|---|---|---|
| `Planner` | `planner.go`, `IsCaughtUp` | pure operators |
| `Registration` | `reconcileRegistration`, the command loop, `SetInstanceToMain.Run`, `shedRetiredPods` | the cluster, two counts, one pass |
| `RegistrationProofs` | theorems about `Registration` and `Planner` | |
| `Scaling` | `replicaCounts`, `applyDesired`, `workloadsReady`, `shedRetiredPods`, `expectations.go` | StatefulSet versions, caches, processes |
| `Membership` | what resizing promises, without passes and caches | counts, pods asked for, members |
| `ScalingProofs` | theorems about `Scaling` | |
| `Rollout` | `rollout.go` | pure operators |
| `RollingRestart` | `observeRollout`, the gate, `exemptCurrentPods`, the decision, `restartPod` | pods, statuses, caches, one pass |
| `RollingRestartProofs` | theorems about `RollingRestart` and `Rollout` | |
| `Volumes` | `volumes.go`, `reconcileVolumes`, `observeClaims`, `growClaim`, the recreation in `applyDesired` | claims, claim templates, pods, caches, one pass |
| `VolumesProofs` | theorems about `Volumes` | |
| `SystemUser` | `systemuser.go`, the mounted hash, `Connect` with its schemes and credentials | two Secrets, pods, processes |
| `SystemUserProofs` | theorems about `SystemUser` | |
| `Discovery` | `observeCluster`, `showInstances`, `leaderAddress` | the Raft cluster, one walk |
| `DiscoveryProofs` | theorems about `Discovery` | |
| `Exposure` | `desiredExternal`, `applyDesired`, the prunes, `observeExternalAccess`, the address announced | Services, Gateway, routes, one monitoring object, caches |
| `ExposureProofs` | theorems about `Exposure` | |
| `Conditions` | `setStatus`, `summarizeReady`, `convergedCondition`, the status patch | pure operators |
| `Settings` | `reconcileLicense`, `reconcileSettings`, `reconcileAWSCredentials`, `classifyFlags`, `reconcileCoordinatorSettings`, `exemptCurrentPods`, and every way a pass ends | the resource and its cached copy, Secrets, pods, one pass |
| `SettingsProofs` | theorems about `Settings` and `Conditions` | |
| `MC...` | nothing: they instantiate the above for TLC | |

`Registration`, `RollingRestart` and `Settings` EXTEND the pure module they run
(`Planner`; `Rollout`, which shares `IsCaughtUp` with `Planner`; `Conditions`).
`Scaling` INSTANCEs `Membership` as its abstract specification. Each state machine has one program counter
`pc` for the pass and a record `pass` for what the pass has read; what the code
re-reads in the next pass is dropped by `Finish`. Each step of a pass is one call
that leaves the process: an apply, a Bolt query, a list. Bounds are counters in
`budget`, one per constant `Max...`.

**Planner.** Members are their ordinals, as `internal/resources` derives all names
from them. `Plan` is a set of commands with the order `Precedes`, by kind and then
ordinal, which is the order the slice is appended in. `Lag` is a function from the
instances `SHOW REPLICATION LAG` lists to the transactions they are behind.

**Registration.** `BeginPass` is `replicaCounts` and `applyDesired`; `Observe`
reads `SHOW INSTANCES`; `ReadLagAndPlan` (or `ReadLagFails`) reads the lag and
plans; `RunCommand`, `RefuseCommand` and `LoseCommand` are one query of the command
loop that is accepted, refused, or unanswered with its effect landed or not, and
`RefusePromotion` is an instance, the one to restore included, that answers its
promotion with an error although the cluster would let it be promoted;
`ShedCoordinators` and `ShedData` are `shedRetiredPods`; `Crash` is the process
dying. The cluster around it commits, replicates, loses instances, fails over and
elects. What Memgraph accepts and what a query does (`Accepts`, `Effect`) is
external: it is taken from how the commands' comments rely on it. A database is
the set of transactions it holds; a promotion changes no database, so a replica with
transactions the new MAIN never saw stays diverged until it recovers from it (`Recover`),
and the lag, a difference of counts, may meanwhile be negative or zero for it.

**Scaling.** `cache` is one version of each StatefulSet per process, moved by
`SyncCache`; `expected` is the expectation map. A version carries the count asked
for and the ready count reported, because the gate compares a cached ready count
with the count just applied. `RegisterMember`, `RetireMember` stand for the plan.
`MaxStale` bounds how long passes may run on a stale cache: after a lost
acknowledgement or a takeover, each write that follows a cache one version late
could otherwise be answered by another one for ever.

**RollingRestart.** A log of versions runs from the one the cache holds to the one
the API server holds, at most `MaxLag` behind. A pod is ready, terminating (deleted,
still running), gone or starting. A template is a revision; `FlagsOnly` and
`NoRestart` are the pairs of revisions that differ in flags alone, and in flags that
need no restart. Pods of both roles are listed in one step. `held` counts the MAIN's
transactions each data instance has: one that diverged counts as having none until it
recovers, so that diverged instances that look caught up are in `Registration` only.

**Volumes.** One role. `BeginPass` is `replicaCounts`, with the count read off the
pods when the StatefulSet is gone; `ObserveClaims` lists the claims and decides;
`growClaim` is one conditional patch and `RefusePatch` one the API server refuses;
`Recreate` is the orphaning delete, which ends the pass; `ApplySet` creates the
StatefulSet, or restates it with the claim templates of the version the pass read,
which the API server rejects when they are not the live ones. A claim has what it
asks for, what its volume holds and what its filesystem holds: the provider closes
the first gap, the kubelet the second under a running pod. Any pod may be evicted, the top one included, and `missed`
records that a pass counted the pods without it. The members are those of
the start: retirements belong to `Scaling`, so a lowered count never gets its turn.

**Membership.** Three variables: the declared count, the pods asked for, the
members. `Scaling` maps them to `spec`, the replica counts of the live StatefulSets
and `members`; everything else in it (versions, caches, expectations, passes,
processes) is implementation.

**SystemUser.** The password Secret, the hash Secret, and pods that mount the hash:
the mounted file follows the Secret late (`RefreshMount`) and Memgraph reads it when
its container starts (`Load`), refusing bcrypt in FIPS mode. `BeginPass` to
`ApplyHash` are `reconcileSystemUser`, `ApplyTemplate` the apply, `RestartNext` the
roll, which needs an answer from every pod and therefore `Connects`. Two processes
may both be inside a pass: the one that lost its lease finishes what it started.

**Discovery.** A coordinator is a member of the Raft cluster, fresh (the leader of
its own one-member cluster) or removed; a member with a leader answers with the
leader's view, any other from its own state machine, which may miss writes. `Ask`
and `ConnectLeader` are one endpoint of the walk each, `RunCommands` what the plan
made from the view does to the membership.

**Exposure.** An object carries its UID, whether the cluster controls it, whether
external-dns publishes a name for it (the roles' annotations, or the Gateway's own), and
its address. `ApplyDesired`, `Prune`, `Observe` and `Announce` are the steps of the pass;
a pass prunes and observes what its cache shows. A human may delete an object, or
replace it by one of their own with the same labels.

**Settings.** One pass from the cached resource to the status patch. Each pod's
settings are read once (`observedSettings`) and planned against for the license,
the run-time flags and the AWS values; every SET may be refused, lost, or land
without an answer. A template is an image and the startup keys each role names;
`Config` is what `SHOW CONFIG` of an image lists. Registration, external access and
volume expansion appear as what they still owe. Facts read only when a pass begins
change between passes (`Quiet`), which loses no behaviour. Every return of
`reconcileCluster` and `reconcileRegistration` is an action that records its
conditions, and `Publish` is the one patch at the end, computed against the copy the
pass started from.

## 3. What TLC checks

| run | properties | what it shows |
|---|---|---|
| `registration` | `TypeOK`, `PlanNeverRefused`, `MainlessOnlyInsideHandover`, `HandoverKeepsProvenWrites`, `ShedOnlyRetired` | one to three data instances, two edits, one fault, two refused promotions, one failure, two transactions |
| `registration_converges` | `PlanNeverRefused`, `StayingMembersUntouched`, `Converges` | one or three coordinators, an election, a moving address, an instance a human registered |
| `scaling` | `TypeOK`, `RegisteredHavePods`, `ImplementsMembership`, `GrownOnlyToDeclared`, `Resizes` | two processes, a failed pass, restart or takeover, a lost acknowledgement, settled edits, a late cache |
| `unsettled_edits` (violation) | `RegisteredHavePods` | see findings |
| `rolling_restart` | `TypeOK`, `OneDownPerRole`, `RestartedOncePerEdit`, `OneFailoverPerEdit`, `RestartKeepsProvenWrites` | two data instances and three coordinators, caches one version late, a write, a fault |
| `rolling_restart_finishes` | `OneDownPerRole`, `RollFinishes` | a container failure, current caches, an edit at any moment that may need no restart |
| `volumes` | `RecreatedAroundMembers`, `DeletedOnlyToGrow`, `ReportedMeansUsable`, `Expands` | a size and a count edited in either order, a retained claim, caches one version late, and one failed pass, eviction or refused resize |
| `system_user` | `TypeOK`, `NeverLockedOut`, `NoPodRefusesItsHash`, `RollsIntoMode` | two pods, two processes, two edits of FIPS mode and TLS, a late pod cache, a crash, a deleted hash, a failed pass or a takeover |
| `discovery` | `TypeOK`, `ViewIsCurrent`, `FindsSteadyLeader`, `Discovers` | three coordinators that join and leave and one a human added, three crashes, elections or lost calls, four Raft writes |
| `exposure` | `ForeignSurvives`, `RunningStayReachable`, `ExposureSettles` | no exposure, LoadBalancers or a Gateway (served or not), one edit, one moved address, human act or failed pass, each watch as late as it likes |
| `settings` | `TypeOK`, `LicensedUnderItsOrganization`, `ReadyIsEarned`, `SettingsReachPods`, `StatusCatchesUp` | a pod per role, two licenses, two images, an unknown key, a refused level; one change, one fault, one pass on a stale cache |
| `ready_with_pod_down` (violation) | `ReadySeesEveryPod` | see findings |

Why the bounds are enough. Two data instances are the least with a handover and
three the least where the survivor promoted can be another than the survivor
proven; three coordinators are the least whose leader can retire and whose quorum
survives one. One edit gives one growth or one shrink from every initial count; the
second one reverses it. One fault is a process dying, or a query lost, at any step
of any pass; later passes start from what it left. Two refusals are enough for both
candidates of a handover to refuse, or for its only candidate and then the demoted MAIN;
`registration_converges` has none, since a promotion lost without effect runs the same
fallback. `registration` treats the transactions as symmetric: they are only told apart,
and its properties are invariants and action properties. One version of lag is a cache
that misses exactly the operator's last write, which is what `expectations` and the
UID precondition are about. In `system_user` the second edit is what overtakes the
roll of the first; in `discovery` three faults are a crash of the leader, one of the
member elected in its place, and a lost call. `settings` reaches every reason of
`convergedCondition` that the settings themselves cause and one of those owed
elsewhere; the ranking treats the others alike. `scaling` has one role, because two
roles with two processes are out of TLC's reach; the theorems below hold for any
set of roles, and `Resizes` also holds with `Roles = {1, 2}` and one process.

Conditions under which the properties hold, found while checking:

- *Settled edits.* In `Scaling`, `Settled` restricts the user to edit once the caches are
  current. Without it `RegisteredHavePods` fails (finding 1). In `RollingRestart` it
  restricts the user to edit once the last roll is over, see *A roll overtaken*.
- *Expectations.* `GrownOnlyToDeclared` speaks of behaviours without a takeover,
  restart or lost acknowledgement so far. After a takeover a standby whose cache is
  behind runs without the expectation and applies the count from before the shed;
  `expectations.go:29-32` argues only about a restarted process.
  `RegisteredHavePods` and `ImplementsMembership` hold through all of them.
- *Container failures.* `OneDownPerRole` holds with late caches and no failing
  container, and with failing containers and current caches. With both, a MAIN that
  fails while another pod terminates moves MAIN onto the terminating instance, and a
  list from before the delete lets the roll take the old MAIN's pod as well.
- *A roll overtaken.* `present` counts the pods of a cached list, "the pod a previous pass
  deleted included, which is what serialises the restarts down to one at a time"
  (`rollout.go:360-362`). If the template is edited back while the MAIN's pod is being
  restarted for the edit before, and the StatefulSets' statuses are seen before the
  deletion is, that pod is ready in the list and up to date again, and the decision falls
  on the instance restarted before it: both are down. TLC finds the path with
  `Settled = FALSE`, two edits and caches one version late, and none with current caches.
  `RestartedOncePerEdit` holds without `Settled`, and `rolling_restart_finishes` lets the
  edit come at any moment.
- *The gate.* After a shed the cached ready count is still the larger one. A count
  raised again at once clears `workloadsReady` on it, and members are registered
  before their pods exist, although the comment on it says that "a lagging status
  only ever reads as not-yet-ready".
- *The top pod.* Any pod may be missing, but if the top one is while the StatefulSet is
  and the count has been lowered, the role is recreated without the pod of a member:
  without `~ missed` TLC refutes `RecreatedAroundMembers` on that path. The comment on
  `runningOrdinals` says that a restart "leaves a gap below the top", which is not so
  when it is the top pod that restarts (`memgraphdbcluster_controller.go:903-907`).
- *Restore refused.* `MainlessOnlyInsideHandover` lets every candidate refuse. If the
  demoted MAIN then refuses too, the pass ends and the cluster is without a MAIN, as the
  error "Left the cluster without a MAIN" of `planner.go:204-207` says; the next pass
  promotes by reachability. The property excepts that outcome, which the run reaches, a
  lost query, whose effect is unknown, and an operator that dies between the two.
- *A diverged candidate.* `IsCaughtUp` says that an instance that is not behind "holds
  every transaction the MAIN has committed" (`client.go:133-135`); the comment on
  `DatabaseLag` says that after a failover a replica "can hold transactions the new MAIN
  never saw" (`client.go:113-117`), and such a one is not behind by its count although it
  lacks some of the MAIN's. A handover may then promote it, and the writes of the MAIN
  are lost: without the exception for instances that had diverged when the lag was read,
  TLC refutes `HandoverKeepsProvenWrites` in twelve states (a write, a MAIN that fails, a
  failover, another write, the old MAIN back, a count lowered before it recovered).
- *The replica count.* A count raised and lowered again while the cache is late makes
  passes apply the two counts in turn as long as each pass starts just before the
  cache follows, so `Expands` speaks of the members' pods only.
- *The tolerance of the gate.* `RollFinishes` also holds without it: a replaced pod
  gets ready on its own. It only lets registration and settings go on meanwhile.

- *Both roles.* `rollout.go:174-176` (and 206-207) promises that "at most one pod of the cluster is
  ever down — across both roles, not per role". It is kept per role:
  `nextDataInstance` never looks at the coordinators and the gate tolerates the one a
  restart took down, so a data template edited meanwhile takes a data pod down beside it.
- *The window of a handover.* The lag is read before the plan, the demotion comes after
  every registration command, and nothing is read in between. A write committed in the
  window is on no survivor that was proven: `HandoverKeepsProvenWrites` is about what
  was proven, not about what was committed.
- *Leaving FIPS mode.* `NoPodRefusesItsHash` holds while each edit waits for the roll of
  the one before and no election leaves a pass behind. Otherwise the switch back to
  bcrypt, decided from a late pod cache, may come before the last FIPS pod is gone,
  against `systemuser.go:88-91`; the roll recovers by itself (`RollsIntoMode`).
- *An unreachable incumbent.* `FindsSteadyLeader` needs a leader that stays up through
  the pass. If the incumbents do not answer while a fresh coordinator of a scale-up
  does, its one-member view is planned from; the walk has nothing to tell it by.
- *The way in of a shed pod.* `memgraphdbcluster_controller.go:305-307` says that "the
  pass that sheds the pod is the one that drops its way in"; the shed comes after the
  prune, so it is the next pass that does.
- *An unread SHOW CONFIG.* `ReadyIsEarned` asks for the coordinator setting only when
  `SHOW CONFIG` was read. Without it `Classify` finds no coordinator setting, so one
  that is not set is neither pending nor reported, and `convergedCondition`, "True,
  unless something the spec asks for beyond registration is not there yet" (1543-1545),
  is True; a later pass that reads it catches up.
- *A stale status.* A pass that starts from a stale copy and computes the same status
  skips the patch, or patches only the difference; the next pass on a current copy
  corrects it (`StatusCatchesUp`).
- *A reason with two meanings.* `ApplyFailed` is a serving reason and also what
  `convergedCondition` says of something the cluster cannot serve, so a pass that ends
  early keeps Ready at `ApplyFailed` although MAIN served.

### Fairness

`WF` on the steps of a pass: controller-runtime requeues a failed pass with backoff
and every other one with `RequeueAfter`, so passes never stop; the watches on Secrets,
pods and claims only start passes earlier. `WF` on the kubelets,
the StatefulSet controller, the watches, replication, health checks, failovers and
elections: each is a control loop that retries. In `Volumes` each pod's creation is
fair by itself, as the StatefulSets manage their pods in parallel; in `Exposure` each
kind's watch and provider is. Edits, faults, crashes, lost calls,
spontaneous elections and failures have no fairness; their bounds make them stop.

## 4. Findings

1. `unsettled_edits`: `applied` is the larger of the declared and the *cached* count.
   When edits overtake the cache, the apply lowers the live count.
2. `ready_with_pod_down`: `workloadsReady` tolerates a missing pod in a role that has
   outdated pods, and asks that before `exemptCurrentPods` spares the pods that an edit
   of a coordinator setting (or any key that is no flag) need not restart. Those pods
   stay off the revision until some other edit restarts them, so from then on the role
   is let through with a pod down, and the pass ends with Ready True.

Smaller divergences are listed above under the conditions; one more is admitted by
the code: after a death between demotion and promotion, `promotionTarget` goes by
reachability alone (`planner.go:397-404`).

## 5. Proofs

TLC's runs are over small sets; the theorems below hold for every value of the
constants that satisfies the assumptions of the module. Each theorem rests on an
inductive invariant: a formula of the initial states that every step preserves, and
that TLC checked on the module's run before it was proved. The properties themselves
are seldom inductive, because a pass acts on what it read earlier: the invariants say
what is still true of it when it is used. Each proof module begins with the parts of
its invariant, then proves lemmas about the module's operators, one step lemma with a
case per action, and the theorems.

| module | theorem | states |
|---|---|---|
| `ScalingProofs` | `TypeCorrect` | `Spec => []TypeOK` |
| | `SettledEditsKeepPods` | `Settled => (Spec => []RegisteredHavePods)` |
| | `ScalingImplementsMembership` | `Settled => (Spec => ImplementsMembership)`, the refinement |
| | `RisesOnlyToDeclared` | `Settled => (Spec => GrownOnlyToDeclared)` |
| `RegistrationProofs` | `RegistrationTypeCorrect` | `Spec => []TypeOK` |
| | `PlansAreAccepted` | `Spec => []PlanNeverRefused` |
| | `HandoverEndsWithMain` | `Spec => []MainlessOnlyInsideHandover` |
| | `StayingMembersKept` | `Spec => StayingMembersUntouched` |
| | `HandoverKeepsWrites` | `Spec => HandoverKeepsProvenWrites` |
| | `ShedsOnlyRetired` | `Spec => ShedOnlyRetired` |
| `VolumesProofs` | `RecreationKeepsMembers` | `Spec => []RecreatedAroundMembers` |
| | `ClaimsBeforeDeletion` | `Spec => DeletedOnlyToGrow` |
| | `ReportsUsableStorage` | `Spec => ReportedMeansUsable` |
| `SystemUserProofs` | `SystemUserTypeCorrect` | `Spec => []TypeOK` |
| | `OperatorNeverLockedOut` | `Spec => []NeverLockedOut` |
| | `PodsNeverRefuse` | `Spec => []NoPodRefusesItsHash` |
| `DiscoveryProofs` | `DiscoveryTypeCorrect` | `Spec => []TypeOK` |
| | `PlansWithCurrentView` | `Spec => []ViewIsCurrent` |
| | `WalkFindsLeader` | `Spec => []FindsSteadyLeader` |
| `ExposureProofs` | `PruneSparesForeign` | `Spec => ForeignSurvives` |
| | `PruneSparesRunning` | `Spec => RunningStayReachable` |
| `SettingsProofs` | `SettingsTypeCorrect` | `Spec => []TypeOK` |
| | `LicensesGoUnderTheirOrganization` | `Spec => LicensedUnderItsOrganization` |
| | `ReadyOnlyWhenEarned` | `Spec => ReadyIsEarned` |
| `RollingRestartProofs` | `RollingRestartTypeCorrect` | `Spec => []TypeOK` |
| | `RestartsOncePerEdit` | `Spec => []RestartedOncePerEdit` |
| | `OneDownAtATime` | `Settled /\ MaxCrashes = 0 => (Spec => []OneDownPerRole)` |
| | `FailsOverOncePerEdit` | `Settled /\ MaxCrashes = 0 => (Spec => []OneFailoverPerEdit)` |
| | `FailoverKeepsProvenWrites` | `Settled /\ MaxCrashes = 0 => (Spec => RestartKeepsProvenWrites)` |

**Scaling.** `RegisteredHavePods` is not inductive: a pass works with counts it read
from a cache and applies them later. The inductive invariant `SettledInv` adds

- `NothingAhead`: no cached or undelivered version is newer than the live one;
- `MembersCovered`: whatever version a process may still read covers the registered
  members, or the declared count does;
- `PassCovers`: the counts a pass read and declared cover the members;
- `AppliedIsLive`: past the apply, the live count is the one the pass applied;
- `ShedCovers`: a role to be shed has no member beyond its declared count.

A lost acknowledgement or a takeover is then harmless for the members: what it makes
a pass read covers them too. `Settled` is used in one place, the edit: with current
caches the declared count can drop below the members only while every readable
version still covers them. In the refinement an edit is `Declare`, an apply or a shed
`Ask`, the two registration steps `Join` and `Leave`, and the rest leaves the abstract
variables alone. `Ask` is the step with content: that a count read from a cache is
neither below the declared one nor below a member is `PassCovers` and `ShedCovers`.
`RisesOnlyToDeclared` needs the converse, that no late count is too large, and with it
the expectations: `GrowInv` adds that generations follow resource versions
(`GenerationsGrow`), that only versions before an expected shrink ask for more than is
declared or live (`ReadsInStep`), and that nothing is shed while the cache shows no
StatefulSet at all (`NothingShedUnseen`: such a read satisfies any expectation).

**Registration.** One invariant, `RegistrationInv`, carries all six theorems.
Its core is what the rest of a plan may count on while it runs, from any view that a
cluster can give:

- `ViewTrue`: between the view and the plan the members the operator manages stay as
  the view has them (only a pass registers them), and so do MAIN and leader unless the
  coordinators moved them, which `disturbed` records;
- `PlanFormed`: the commands of one kind aim at different members, at declared or at
  retiring ones as the kind demands; a plan that demotes goes on to promote; and while
  a promotion is current there is a candidate, or a MAIN to restore, left to try;
- `PlanOwed`: what a command adds is absent, what it changes or removes is there, and
  a declared member is there or still going to be added, so the order `Precedes`
  adds before it promotes and promotes before it removes;
- `PlanCurrent`: undisturbed, the MAIN to be unregistered is demoted before, the
  leader to be removed yields before;
- `ShedInv`: no retiring member is left when a pass comes to shed pods;
- `CandidatesHold`: until the handover has promoted somebody every candidate that had
  not diverged, and the MAIN to fall back on, hold what MAIN held when its lag was read.
  Equal counts give equal databases only for a subset of a finite one (`HeldFinite`),
  which is why the diverged instances are excepted;
- `DemotedRestored`: as long as no query was lost and the operator lived, a MAIN that was
  demoted and has not refused yet is the one the current promotion falls back on, so no
  refusal of a candidate ends the pass.

That a non-empty plan has a first command is the well-foundedness of the order on
kinds and names (`NatLessThanWellFounded` and `WFMin` of the library). The assumption
that each set of counts has a greatest one is the width of the field, an `int32`.

**Volumes.** `VolumesInv` says of every version of the StatefulSet, of the pods and
of the claims that a cache may still show: its count keeps the pod of every member and
its templates are no larger than the declared ones (`SetsKeep`), a UID is that of one
StatefulSet whose templates never change (`UidsIdentify`, so a pass knows the templates
of what it deletes), the pods are finitely many (`PodsBounded`, so the highest listed is
what `runningOrdinals` takes where no StatefulSet is left) and claims only grow
(`ClaimsGrow`). `PassRead` and `PassDecided` say what follows for what the pass read.
That a count keeps the members' pods is claimed unless `missed`: nothing is assumed of
which pods are evicted, and the theorem's one exception is the pass that counted pods
of which none was the top member's while the declared count was below it.

**SystemUser.** `NeverLockedOut` needs that there is one password: every one a pass
knows is the Secret's (`KnowsSecret`, by the uncached read and the re-read after a lost
race) and every hash applied, chosen, mounted or loaded is of it (`OnePassword`).
`NoPodRefusesItsHash` is about edits that wait for one another; while nothing was
overtaken, `SettledInv` keeps that the only pass is for the spec as it is (`OnePass`), a
late cache shows too many FIPS pods and never too few (`CacheCovers`), no pod has left
FIPS mode before the template that leaves it is applied (`NotLeftYet`), and the hash
fits as long as a FIPS pod may find it (`HashFits`, `MountFits`). The assumption on
`None` says that it is neither a password nor a hash.

**Discovery.** `ViewIsCurrent` needs only what the walk has in hand between two calls
(`ForwardedView`). `FindsSteadyLeader` is the harder one, since the walk stops at the
first coordinator that settles it: coordinators join and retire in ordinal order, so no
fresh one is asked before a member (`FreshAreLast`), a view in hand names the steady
leader (`ViewNamesLeader`), and the walk has not passed a steady member while the
leader was in reach (`NonePassedBy`).

**Exposure.** `ExposureInv`: the cache is never ahead (`NothingAhead`), so an object
with the UID of a cached one that this cluster controlled is still its own or gone
(`StillOwn`, why the precondition on the UID suffices), and a pass prunes for the pods
it has just applied (`PrunesForRunning`).

**Settings.** A pass reads each pod's settings once and plans against that read for the
license, the level and the credentials, one SET at a time, while pods crash and restart.
`LicenseInv` says how far the read may be trusted: what was listed of the pods is still
so (`PodsAsRead`), a setting the pass has not dealt with yet is in the pod as it was read,
as long as the pod stayed up (`ReadsMirror`), and a license is asked for with its
organization (`AsksForPairs`). So the license is SET last, onto the organization that is
already there. `SettingsInv` adds what `ReadyIsEarned` needs:

- `Delivered`, `SettingDelivered`: for a setting already dealt with, either the pods the
  pass counts on run what it asks for, or the pass owes something and knows it;
- `AsksForSpec`, `DescribesImage`: what it asks for is the spec's, and the flags it
  classified by are those of the image being rolled out;
- `Recorded`, `ConcludesEarned`: a pass that ends early records nothing that lets Ready
  turn True, and `Converged` is True only if nothing `convergedCondition` ranks holds;
- `StatusesSummarised`: in every status a cache may still serve, the three conditions are
  all True for one generation only where Ready already was, or is kept for want of a MAIN.

The last one is the subtle part: a pass that ends without a verdict summarises Ready again
from the conditions it was served, and only because those were themselves summarised does
it then leave Ready as it was. `Licenses # {}` is the one assumption the proofs added:
the set of licenses that exist is not empty, though a Secret may hold none of them.

**RollingRestart.** Two invariants. `RollInv` holds of every behaviour, with edits that
overtake one another and containers that fail: a version of a StatefulSet is never ahead
of the live one and its status, once it has observed a generation, reports that
generation's revision (`SetsInStep`); there are no more generations than edits
(`EditsCounted`); an incarnation of a pod is no later than the generations, and one of the
last generation runs its template (`PodsBorn`). A decision is made only on statuses that
have caught up with the template the pass applied (`isStale`), so the pod it picks is of
an earlier generation (`VictimOutdated`), and the UID it is deleted under is not that of
its successor: each edit replaces a pod once.

`SettledInv` adds what one edit at a time and no failing container give. The pods may have
moved on since they were listed, so it says how a version relates to a later one
(`Precede`): if all pods of a role were ready in the earlier, only the pod whose turn it
was differs in the later, and it does not return to where it was. A pass that decides from
any of them picks that pod again (`VictimInTurn`), so the worst a late list does is to
delete a pod that is already terminating or to miss on the UID. Whose turn it is depends
on the MAIN or the leader, which may move between the listing, the view and the delete:
it moves only when its pod was taken, and by then nothing else was left to restart
(`Kept`, `AwayLast`, `ViewHolds`). From there:

- `OneAway` and `TakenNotReady`, that what the operator took down is what is not ready,
  give `OneDownPerRole`;
- `FailoversCounted`, that a role whose special instance is outdated or away has a failover
  in hand, and that `EditsCounted` bounds those, gives `OneFailoverPerEdit`;
- `MainCovered`, that another instance that is ready and up holds what the MAIN held when
  the lag was read, gives `RestartKeepsProvenWrites`, since a failover promotes the most
  advanced instance it reaches.

The two hypotheses are those of the run `rolling_restart`. They are needed: section 3
tells what goes wrong without the first (*A roll overtaken*) and without the second
(*Container failures*).

Only model-checked:

- liveness under fairness, which is out of the prover's reach: `Converges`, `Resizes`,
  `RollFinishes`, `Expands`, `RollsIntoMode`, `Discovers`, `ExposureSettles`,
  `SettingsReachPods`, `StatusCatchesUp`;
- `OneDownPerRole` with failing containers and current caches, which
  `rolling_restart_finishes` checks.

## 6. Not modelled, and the plan

- Object builders, beyond what a restart or an address depends on: pure construction
  of Kubernetes objects from the spec (`resources.go`, `statefulset.go`, `vmagent.go`,
  `vector.go`), and generated code.
- API types: field types and CEL rules that the API server evaluates.
- Events and logging: nothing a pass reads.
- The wiring in `main` and the watches, which only start passes.
- In `Discovery`, a deposed leader that has not noticed yet and a coordinator that lost
  its volume: both depend on Memgraph's Raft timing.

Next: `OneDownPerRole` with failing containers as long as the caches are current, which
needs another invariant than `SettledInv`, since a container may then be down beside the
pod that is restarted.
