------------------------------- MODULE Settings ------------------------------
(***************************************************************************)
(* What a pass brings onto running instances without restarting them, and  *)
(* what it then says about the cluster: the license and the AWS values     *)
(* from their Secrets, the run-time flags, the coordinator settings, the   *)
(* classification of startup keys that decides which pods are restarted,   *)
(* and the conditions the pass leaves on the resource.                     *)
(*                                                                         *)
(* The pass reads the resource from the cache, each pod's settings once,   *)
(* and each Secret where it needs it; pods crash, Secrets and the spec     *)
(* change, and calls fail between any two of its steps.                    *)
(*                                                                         *)
(* Abstractions: log_level stands for the run-time flags, one coordinator  *)
(* setting for all of them, one version for the four AWS values; a license *)
(* is issued to one organization, and Secrets pair the two correctly.      *)
(* Registration (module Registration) is whether a command is still        *)
(* missing, the roll (RollingRestart) one restart while the role is whole, *)
(* the external access (Exposure) and the volume expansion (Volumes) what  *)
(* they still owe the spec.  Replica counts do not change (Scaling).       *)
(***************************************************************************)
EXTENDS Conditions, Sequences, FiniteSets, SequencesExt, TLC

CONSTANTS
  DataPods, CoordinatorPods,  \* the pods of the two roles, in ordinal order
  Licenses, Issued,           \* the licenses, and the organization of each
  Keys,                       \* the startup keys a spec may name
  Config,                     \* which of them SHOW CONFIG of each image lists
  CoordinatorSettings,        \* which of them are coordinator settings
  BadLevel,                   \* a log_level every instance refuses
  Specs, FirstSpec,           \* the specs the user may declare, and the first one
  Credentials,                \* the AWS values a Secret may hold
  Owes,                       \* what external access and volume expansion may owe
  None, Failed,               \* no value, no read yet; a read that failed
  MaxChanges,                 \* bound on edits of the spec and of the Secrets
  MaxFaults,                  \* bound on crashes, failed calls and passes
  MaxStale                    \* bound on passes that begin on a stale cache

Pods   == ToSet(DataPods) \union ToSet(CoordinatorPods)
Images == DOMAIN Config

ASSUME PodsAssumption ==
  /\ DataPods \in Seq(ToSet(DataPods)) /\ CoordinatorPods \in Seq(ToSet(CoordinatorPods))
  /\ IsInjective(DataPods \o CoordinatorPods)
  /\ DataPods # <<>> /\ CoordinatorPods # <<>>
ASSUME LicenseAssumption == Licenses = DOMAIN Issued /\ Licenses # {} /\ None \notin Licenses
ASSUME KeysAssumption ==
  /\ \A i \in Images : Config[i] \subseteq Keys \ CoordinatorSettings
  /\ CoordinatorSettings \subseteq Keys
ASSUME SpecsAssumption ==
  \A s \in Specs : /\ s.image \in Images /\ s.level \in Nat
                   /\ s.coordinators \subseteq Keys /\ s.data \subseteq Keys
ASSUME FirstSpecAssumption == FirstSpec \in Specs
ASSUME OwesAssumption == Owes \subseteq {"unservable", "refused", "failed", "address", "growing"}
ASSUME CredentialsAssumption == Credentials # {} /\ None \notin Credentials
ASSUME BoundsAssumption == {MaxChanges, MaxFaults, MaxStale} \subseteq Nat

VARIABLES
  cluster,   \* the resource: spec, generation, status
  cached,    \* the resource as the operator's cache shows it
  secrets,   \* the license and the AWS values in their Secrets, or None
  sets,      \* the StatefulSets' template, its generation, and the flag file
  seenSets,  \* the template and generation the cache shows
  pods,      \* the pods
  raft,      \* the Raft leader, a MAIN that is up, or None; whether every member is
             \* registered; whether the coordinator setting has the spec's value
  owed,      \* what external access and volume expansion still owe
  pass,      \* the pass under way
  budget     \* what is left of every bound

vars == <<cluster, cached, secrets, sets, seenSets, pods, raft, owed, pass, budget>>

-----------------------------------------------------------------------------
Spend(kind) == budget[kind] > 0 /\ budget' = [budget EXCEPT ![kind] = @ - 1]

IsData(o)  == o \in ToSet(DataPods)
Peers(o)   == IF IsData(o) THEN ToSet(DataPods) ELSE ToSet(CoordinatorPods)
Up(o)      == pods[o].state = "ready"
Named(s, o) == IF IsData(o) THEN s.data ELSE s.coordinators
Endpoints  == DataPods \o CoordinatorPods

Unset == [organization |-> None, license |-> None, level |-> 0, aws |-> None]

(* The template of the StatefulSets a spec renders to. *)
TemplateOf(s) == [image |-> s.image, data |-> s.data, coordinators |-> s.coordinators]

Idle == [at |-> "idle"]

-----------------------------------------------------------------------------
(* The user, Kubernetes and Memgraph *)

(* The resource, the StatefulSets' cache and what is owed elsewhere are read *)
(* only when a pass begins, so that they change between passes loses nothing *)
(* but equivalent orders; SyncSpec is the version of the resource an edit    *)
(* made before the last pass published.                                      *)
Quiet == pass.at = "idle"

Edit(s) ==
  /\ Quiet
  /\ s # cluster.spec
  /\ Spend("changes")
  /\ cluster' = [cluster EXCEPT !.spec = s, !.generation = @ + 1]
  /\ UNCHANGED <<cached, secrets, sets, seenSets, pods, raft, owed, pass>>

(* A renewed license, rotated AWS values, or a Secret or key deleted. *)
Rotate(license, aws) ==
  /\ secrets # [license |-> license, aws |-> aws]
  /\ secrets.license = license \/ secrets.aws = aws
  /\ Spend("changes")
  /\ secrets' = [license |-> license, aws |-> aws]
  /\ UNCHANGED <<cluster, cached, sets, seenSets, pods, raft, owed, pass>>

SyncSpec ==
  /\ Quiet
  /\ cached.spec # cluster.spec /\ cached.status # cluster.status
  /\ cached' = [cluster EXCEPT !.status = cached.status]
  /\ UNCHANGED <<cluster, secrets, sets, seenSets, pods, raft, owed, pass, budget>>

SyncCluster ==
  /\ Quiet
  /\ cached # cluster
  /\ cached' = cluster
  /\ UNCHANGED <<cluster, secrets, sets, seenSets, pods, raft, owed, pass, budget>>

Applied == [template |-> sets.template, generation |-> sets.generation]

SyncSets ==
  /\ Quiet
  /\ seenSets # Applied
  /\ seenSets' = Applied
  /\ UNCHANGED <<cluster, cached, secrets, sets, pods, raft, owed, pass, budget>>

(* A pass under way notes which pods stayed up all along. *)
Disturb(o) == IF pass.at = "idle" THEN Idle ELSE [pass EXCEPT !.steady = @ \ {o}]

Without(o) == [raft EXCEPT !.main   = IF @ = o THEN None ELSE @,
                           !.leader = IF @ = o THEN None ELSE @]

(* A container restarts in place; a data pod may lose its volume, which     *)
(* takes its settings and its registration with it.                         *)
Crash(o, wiped) ==
  /\ Up(o)
  /\ wiped => IsData(o)
  /\ Spend("faults")
  /\ pods' = [pods EXCEPT ![o].state = "down", ![o].settings = IF wiped THEN Unset ELSE @]
  /\ raft' = [Without(o) EXCEPT !.registered = @ /\ ~wiped]
  /\ pass' = Disturb(o)
  /\ UNCHANGED <<cluster, cached, secrets, sets, seenSets, owed>>

(* A pod that comes up loads the flag file, and crash-loops on a level it   *)
(* refuses; a recreated one runs the current template.  The settings of its *)
(* volume survive both.                                                     *)
Start(o) ==
  /\ ~Up(o)
  /\ sets.level # BadLevel
  /\ pods' = [pods EXCEPT
        ![o].state          = "ready",
        ![o].template       = IF pods[o].state = "gone" THEN sets.template ELSE @,
        ![o].settings.level = sets.level]
  /\ UNCHANGED <<cluster, cached, secrets, sets, seenSets, raft, owed, pass, budget>>

ElectLeader(o) ==
  /\ raft.leader = None
  /\ Up(o)
  /\ raft' = [raft EXCEPT !.leader = o]
  /\ UNCHANGED <<cluster, cached, secrets, sets, seenSets, pods, owed, pass, budget>>

ElectMain(o) ==
  /\ raft.main = None /\ raft.leader # None
  /\ Up(o)
  /\ raft' = [raft EXCEPT !.main = o]
  /\ UNCHANGED <<cluster, cached, secrets, sets, seenSets, pods, owed, pass, budget>>

(* An external address or a claim is held up, or comes through. *)
Owe(what) ==
  /\ Quiet
  /\ what # owed
  /\ Spend("faults")
  /\ owed' = what
  /\ UNCHANGED <<cluster, cached, secrets, sets, seenSets, pods, raft, pass>>

-----------------------------------------------------------------------------
(* The beginning of a pass and the ways it ends *)

NoOutcome == [pending |-> FALSE, rejected |-> FALSE, unknown |-> FALSE]

BeginPass ==
  /\ Quiet
  /\ IF cached = cluster /\ seenSets = Applied THEN UNCHANGED budget ELSE Spend("stale")
  /\ pass' = [at       |-> "begun",
              spec     |-> cached.spec, generation |-> cached.generation,
              orig     |-> cached.status,
              status   |-> InitializeConditions(cached.status, cached.generation),
              serving  |-> Absent,           \* the serving verdict
              set      |-> seenSets,         \* the StatefulSets as read
              stale    |-> FALSE,            \* read before this pass's apply
              ready    |-> {},               \* the pods seen ready
              running  |-> <<>>,             \* the templates they run
              todo     |-> <<>>,             \* the pods still to visit
              desired  |-> Unset,            \* what the Secrets and the spec ask for
              reads    |-> [o \in Pods |-> None],
              license  |-> NoOutcome, outcome |-> NoOutcome,
              main     |-> None,
              config   |-> None,             \* SHOW CONFIG, once read
              settings |-> FALSE,            \* whether SHOW COORDINATOR SETTINGS was read
              owed     |-> owed,
              steady   |-> Pods]
  /\ UNCHANGED <<cluster, cached, secrets, sets, seenSets, pods, raft, owed>>

(* Records conditions of the current generation and a verdict. *)
Record(main, serving, given) ==
  [pass EXCEPT !.at = "publish", !.serving = serving,
               !.status = setStatus(@, main, given)]

falseCondition(reason) == Condition("False", reason, pass.generation)
trueCondition(reason) == Condition("True", reason, pass.generation)

LastMain == pass.status.main

(* An error, or a shrink the cache does not show yet, before anything is    *)
(* recorded.                                                                *)
EndUnobserved ==
  /\ pass.at = "begun"
  /\ Spend("faults")
  /\ pass' = [pass EXCEPT !.at = "publish"]
  /\ UNCHANGED <<cluster, cached, secrets, sets, seenSets, pods, raft, owed>>

(* A StatefulSet is being recreated around its pods for a grown volume. *)
EndRecreating ==
  /\ pass.at = "begun"
  /\ Spend("faults")
  /\ pass' = Record(LastMain, Absent, [Converged |-> falseCondition("VolumeExpansionInProgress")])
  /\ UNCHANGED <<cluster, cached, secrets, sets, seenSets, pods, raft, owed>>

(* The API server refuses an object. *)
EndApplyFailed ==
  /\ pass.at = "begun"
  /\ Spend("faults")
  /\ pass' = Record(LastMain, falseCondition("ApplyFailed"), [Converged |-> falseCondition("ApplyFailed")])
  /\ UNCHANGED <<cluster, cached, secrets, sets, seenSets, pods, raft, owed>>

(* The Secret exists and has both keys; the read is not from the cache. *)
readLicense == secrets.license # None

(* The flag files go first, then the StatefulSets; a changed template is a  *)
(* new generation.  Then the pods are read, and the license Secret.         *)
Apply ==
  /\ pass.at = "begun"
  /\ LET template   == TemplateOf(pass.spec)
         generation == sets.generation + (IF template = sets.template THEN 0 ELSE 1)
     IN  /\ sets' = [template |-> template, generation |-> generation, level |-> pass.spec.level]
         /\ pass' = [pass EXCEPT
               !.at      = "license",
               !.stale   = pass.set.generation < generation,
               !.ready   = {o \in Pods : Up(o)},
               !.running = [o \in {p \in Pods : pods[p].state # "gone"} |-> pods[o].template],
               !.todo    = IF readLicense THEN Endpoints ELSE <<>>,
               !.desired = IF readLicense
                           THEN [@ EXCEPT !.license = secrets.license,
                                          !.organization = Issued[secrets.license]]
                           ELSE @,
               !.license.pending = ~readLicense]
  /\ UNCHANGED <<cluster, cached, secrets, seenSets, pods, raft, owed, budget>>

-----------------------------------------------------------------------------
(* One pod after the other: read its settings once, SET what differs *)

Visiting == pass.at \in {"license", "flags", "aws"} /\ pass.todo # <<>>
Pod      == Head(pass.todo)

Diff(desired, observed, setting) ==
  IF desired[setting] = observed[setting] THEN <<>> ELSE <<setting>>

(* Mutant: the license first. *)
LicenseFirst(desired, observed) ==
  Diff(desired, observed, "license") \o Diff(desired, observed, "organization")

(* Mutant: a renewal keeps the organization. *)
LicenseOnly(desired, observed) == Diff(desired, observed, "license")

(* The organization first, then the license. *)
License(desired, observed) ==
  Diff(desired, observed, "organization") \o Diff(desired, observed, "license")

Plan(desired, observed) == Diff(desired, observed, "level")

Changes(observed) ==
  CASE pass.at = "license" -> License(pass.desired, observed)
    [] pass.at = "flags"   -> Plan(pass.desired, observed)
    [] pass.at = "aws"     -> Diff(pass.desired, observed, "aws")

(* Mutant: a rejected SET is not counted. *)
NextPodUncounted(owing) ==
  LET tally(outcome) == [outcome EXCEPT !.pending = @ \/ owing = "pending"]
      after == [pass EXCEPT !.todo = Tail(@)]
  IN  IF pass.at = "license" THEN [after EXCEPT !.license = tally(@)]
                             ELSE [after EXCEPT !.outcome = tally(@)]

(* The pod's turn is over, with nothing owed, pending or rejected. *)
NextPod(owing) ==
  LET tally(outcome) == [outcome EXCEPT !.pending  = @ \/ owing = "pending",
                                        !.rejected = @ \/ owing = "rejected"]
      after == [pass EXCEPT !.todo = Tail(@)]
  IN  IF pass.at = "license" THEN [after EXCEPT !.license = tally(@)]
                             ELSE [after EXCEPT !.outcome = tally(@)]

SkipUnready ==
  /\ Visiting
  /\ Pod \notin pass.ready
  /\ pass' = NextPod("nothing")
  /\ UNCHANGED <<cluster, cached, secrets, sets, seenSets, pods, raft, owed, budget>>

(* A failed read is kept for the rest of the pass. *)
observedSettings ==
  /\ Visiting
  /\ Pod \in pass.ready
  /\ pass.reads[Pod] = None
  /\ pass' = [pass EXCEPT !.reads[Pod] = IF Up(Pod) THEN pods[Pod].settings ELSE Failed]
  /\ UNCHANGED <<cluster, cached, secrets, sets, seenSets, pods, raft, owed, budget>>

CanSet == Visiting /\ Pod \in pass.ready /\ pass.reads[Pod] \notin {None, Failed}

SkipUnreadOrInLine ==
  /\ Visiting
  /\ Pod \in pass.ready
  /\ \/ pass.reads[Pod] = Failed /\ pass' = NextPod("pending")
     \/ /\ CanSet
        /\ Changes(pass.reads[Pod]) = <<>>
        /\ pass' = NextPod("nothing")
  /\ UNCHANGED <<cluster, cached, secrets, sets, seenSets, pods, raft, owed, budget>>

Refuses(setting) == setting = "level" /\ pass.desired.level = BadLevel

(* Mutant: the license lands in the organization. *)
SetSwapped ==
  /\ CanSet
  /\ Changes(pass.reads[Pod]) # <<>>
  /\ LET setting == Head(Changes(pass.reads[Pod]))
     IN  /\ Up(Pod) /\ ~Refuses(setting)
         /\ pods' = [pods EXCEPT ![Pod].settings[setting] =
                       IF setting = "organization" THEN pass.desired.license ELSE pass.desired[setting]]
         /\ pass' = [pass EXCEPT !.reads[Pod][setting] = pass.desired[setting]]
  /\ UNCHANGED <<cluster, cached, secrets, sets, seenSets, raft, owed, budget>>

(* A SET that lands is recorded on the pass's read. *)
SetSetting ==
  /\ CanSet
  /\ Changes(pass.reads[Pod]) # <<>>
  /\ LET setting == Head(Changes(pass.reads[Pod]))
     IN  /\ Up(Pod) /\ ~Refuses(setting)
         /\ pods' = [pods EXCEPT ![Pod].settings[setting] = pass.desired[setting]]
         /\ pass' = [pass EXCEPT !.reads[Pod][setting] = pass.desired[setting]]
  /\ UNCHANGED <<cluster, cached, secrets, sets, seenSets, raft, owed, budget>>

(* A refused SET stops the pod's remaining changes; a pod that is down      *)
(* refuses the connection, or fails the SET if it went down under it.       *)
SettingRejected ==
  /\ CanSet
  /\ Changes(pass.reads[Pod]) # <<>>
  /\ \/ Up(Pod) /\ Refuses(Head(Changes(pass.reads[Pod]))) /\ pass' = NextPod("rejected")
     \/ ~Up(Pod) /\ \E owing \in {"pending", "rejected"} : pass' = NextPod(owing)
  /\ UNCHANGED <<cluster, cached, secrets, sets, seenSets, pods, raft, owed, budget>>

(* The same for a call that fails, whether or not the SET landed. *)
LoseSet(landed) ==
  /\ CanSet
  /\ Changes(pass.reads[Pod]) # <<>>
  /\ Spend("faults")
  /\ LET setting == Head(Changes(pass.reads[Pod]))
     IN  /\ Up(Pod) /\ ~Refuses(setting)
         /\ pods' = IF landed THEN [pods EXCEPT ![Pod].settings[setting] = pass.desired[setting]] ELSE pods
  /\ pass' = NextPod("rejected")
  /\ UNCHANGED <<cluster, cached, secrets, sets, seenSets, raft, owed>>

-----------------------------------------------------------------------------
(* The license condition, the readiness gate and the leader's view *)

licenseCondition ==
  IF pass.license.rejected THEN falseCondition("LicenseRejected")
  ELSE IF pass.license.pending THEN falseCondition("LicensePending")
  ELSE trueCondition("LicenseMatchesSecret")

(* The revision of a pod is its role's part of the template. *)
Revision(template, o) == [image |-> template.image, named |-> Named(template, o)]
OffRevision(o) == Revision(pass.running[o], o) # Revision(pass.set.template, o)

(* One absence is tolerated in a role that is being rolled and has all its  *)
(* pods.                                                                    *)
workloadsReady ==
  \A o \in Pods :
    LET seen    == Peers(o) \intersect DOMAIN pass.running
        rolling == seen = Peers(o) /\ \E p \in seen : OffRevision(p)
    IN  Cardinality(Peers(o) \intersect pass.ready) >= Cardinality(Peers(o)) - (IF rolling THEN 1 ELSE 0)

FinishLicense ==
  /\ pass.at = "license" /\ pass.todo = <<>>
  /\ LET unready == falseCondition("WorkloadsNotReady")
     IN  pass' = IF workloadsReady
                 THEN [pass EXCEPT !.at = "observe",
                                   !.status = setStatus(@, LastMain, [LicenseApplied |-> licenseCondition])]
                 ELSE Record(LastMain, unready, [LicenseApplied |-> licenseCondition, Converged |-> unready])
  /\ UNCHANGED <<cluster, cached, secrets, sets, seenSets, pods, raft, owed, budget>>

(* observeCluster found no leader to work through. *)
EndLeaderless ==
  /\ pass.at = "observe"
  /\ raft.leader = None
  /\ LET reason == IF \E o \in ToSet(CoordinatorPods) : Up(o)
                   THEN "NoCoordinatorLeader" ELSE "CoordinatorUnreachable"
     IN  pass' = Record(LastMain, falseCondition(reason), [Converged |-> falseCondition(reason)])
  /\ UNCHANGED <<cluster, cached, secrets, sets, seenSets, pods, raft, owed, budget>>

Verdict(main) == servingOrNot(main # None, pass.generation)

(* Missing commands are issued, and the next pass looks again. *)
EndRegistering ==
  /\ pass.at = "observe"
  /\ raft.leader # None /\ ~raft.registered
  /\ pass' = Record(raft.main, Verdict(raft.main), [Converged |-> falseCondition("RegistrationInProgress")])
  /\ raft' = [raft EXCEPT !.registered = TRUE]
  /\ UNCHANGED <<cluster, cached, secrets, sets, seenSets, pods, owed, budget>>

(* A command fails: the instance it names is still down, or a call is lost. *)
EndRegistrationFailed ==
  /\ pass.at = "observe"
  /\ raft.leader # None /\ ~raft.registered
  /\ IF \A o \in Pods : Up(o) THEN Spend("faults") ELSE UNCHANGED budget
  /\ pass' = Record(raft.main, Verdict(raft.main), [Converged |-> falseCondition("RegistrationFailed")])
  /\ UNCHANGED <<cluster, cached, secrets, sets, seenSets, pods, raft, owed>>

Registered ==
  /\ pass.at = "observe"
  /\ raft.leader # None /\ raft.registered
  /\ pass' = [pass EXCEPT !.at = "flags", !.main = raft.main, !.todo = Endpoints,
                          !.desired.level = pass.spec.level]
  /\ UNCHANGED <<cluster, cached, secrets, sets, seenSets, pods, raft, owed, budget>>

(* The AWS values go to the data instances; an unreadable Secret is owed. *)
BeginAWSCredentials ==
  /\ pass.at = "flags" /\ pass.todo = <<>>
  /\ pass' = IF secrets.aws = None
             THEN [pass EXCEPT !.at = "classify", !.outcome.pending = TRUE]
             ELSE [pass EXCEPT !.at = "aws", !.todo = DataPods, !.desired.aws = secrets.aws]
  /\ UNCHANGED <<cluster, cached, secrets, sets, seenSets, pods, raft, owed, budget>>

-----------------------------------------------------------------------------
(* What the startup keys are, by the running Memgraph's own account *)

(* A ready pod created from its role's current template, data instances     *)
(* first, describes the declared image; the leader is the fallback.         *)
showConfig ==
  LET current   == {i \in DOMAIN Endpoints : /\ Endpoints[i] \in pass.ready /\ Up(Endpoints[i])
                                             /\ pass.running[Endpoints[i]].image = pass.set.template.image}
      answering == IF current # {} THEN Endpoints[Min(current)] ELSE raft.leader
  IN  IF answering = None THEN None ELSE Config[pods[answering].template.image]

classifyFlags ==
  /\ pass.at \in {"classify", "aws"} /\ pass.todo = <<>>
  /\ pass' = [pass EXCEPT !.at = "settings", !.config = showConfig, !.settings = raft.leader # None]
  /\ UNCHANGED <<cluster, cached, secrets, sets, seenSets, pods, raft, owed, budget>>

(* Either view may be missing. *)
LoseView(config) ==
  /\ pass.at \in {"classify", "aws"} /\ pass.todo = <<>>
  /\ Spend("faults")
  /\ pass' = [pass EXCEPT !.at = "settings",
                          !.config   = IF config THEN None ELSE showConfig,
                          !.settings = config /\ raft.leader # None]
  /\ UNCHANGED <<cluster, cached, secrets, sets, seenSets, pods, raft, owed>>

KeysOf(o) == Named(pass.spec, o)
Coordinator == Head(CoordinatorPods)
Data        == Head(DataPods)

(* Classify: nothing is classified without SHOW CONFIG. *)
IsCoordinatorSetting(k) == pass.config # None /\ k \notin pass.config /\ pass.settings /\ k \in CoordinatorSettings
IsUnknown(k) == /\ pass.config # None /\ pass.settings
                /\ k \notin pass.config \union CoordinatorSettings

(* A coordinator setting under the data role is unknown too. *)
unknownMessage ==
  \/ \E k \in KeysOf(Coordinator) : IsUnknown(k)
  \/ \E k \in KeysOf(Data) : IsUnknown(k) \/ IsCoordinatorSetting(k)

WantsSetting == \E k \in KeysOf(Coordinator) : IsCoordinatorSetting(k)

reconcileCoordinatorSettings ==
  /\ pass.at = "settings"
  /\ IF WantsSetting /\ ~raft.setting
     THEN IF raft.leader # None
          THEN /\ raft' = [raft EXCEPT !.setting = TRUE]
               /\ pass' = [pass EXCEPT !.at = "finish"]
          ELSE /\ pass' = [pass EXCEPT !.at = "finish", !.outcome.rejected = TRUE]
               /\ UNCHANGED raft
     ELSE /\ pass' = [pass EXCEPT !.at = "finish",
                         !.outcome.pending = @ \/ (~pass.settings /\ KeysOf(Coordinator) # {})]
          /\ UNCHANGED raft
  /\ UNCHANGED <<cluster, cached, secrets, sets, seenSets, pods, owed, budget>>

LoseCoordinatorSetting(landed) ==
  /\ pass.at = "settings"
  /\ WantsSetting /\ ~raft.setting /\ raft.leader # None
  /\ Spend("faults")
  /\ raft' = [raft EXCEPT !.setting = landed]
  /\ pass' = [pass EXCEPT !.at = "finish", !.outcome.rejected = TRUE]
  /\ UNCHANGED <<cluster, cached, secrets, sets, seenSets, pods, owed>>

-----------------------------------------------------------------------------
(* The roll and the end of the pass *)

ChangedFlags(o) ==
  LET was == Named(pass.running[o], o)  is == Named(pass.set.template, o)
  IN  (was \ is) \union (is \ was)

FlagsOnly(o) == OffRevision(o) /\ pass.running[o].image = pass.set.template.image

Unclassified ==
  (pass.config = None \/ ~pass.settings) /\ \E o \in DOMAIN pass.running : FlagsOnly(o)

(* Spared a restart: it differs in keys that are no flags. *)
exemptCurrentPods(o) == FlagsOnly(o) /\ ChangedFlags(o) \intersect pass.config = {}

outdated == {o \in DOMAIN pass.running : OffRevision(o) /\ ~exemptCurrentPods(o)}

Whole(role) == role \subseteq pass.ready

(* Data instances first, and coordinators only while no data pod is down. *)
Restartable ==
  LET data == outdated \intersect ToSet(DataPods)
  IN  IF data # {} THEN (IF Whole(ToSet(DataPods)) /\ pass.main # None THEN data ELSE {})
      ELSE IF Whole(Pods) THEN outdated ELSE {}

Conclude(updated) ==
  LET outcome == [pass.outcome EXCEPT !.unknown = unknownMessage]
  IN  Record(pass.main, Verdict(pass.main),
             [Converged |-> convergedCondition(pass.owed, outcome, pass.generation), Updated |-> updated])

WaitForRoll ==
  /\ pass.at = "finish"
  /\ \/ Unclassified /\ pass' = Conclude(falseCondition("FlagsUnclassified"))
     \/ ~Unclassified /\ pass.stale /\ pass' = Conclude(falseCondition("WorkloadsNotReady"))
     \/ /\ ~Unclassified /\ ~pass.stale
        /\ outdated # {} /\ Restartable = {}
        /\ pass' = Conclude(falseCondition("RollingRestartInProgress"))
  /\ UNCHANGED <<cluster, cached, secrets, sets, seenSets, pods, raft, owed, budget>>

(* The delete is conditioned on the UID the pass saw. *)
restartPod(o) ==
  /\ pass.at = "finish"
  /\ ~Unclassified /\ ~pass.stale
  /\ o \in Restartable
  /\ pods' = [pods EXCEPT ![o].state = "gone"]
  /\ raft' = Without(o)
  /\ pass' = Conclude(falseCondition("RollingRestartInProgress"))
  /\ UNCHANGED <<cluster, cached, secrets, sets, seenSets, owed, budget>>

ConcludeUpdated ==
  /\ pass.at = "finish"
  /\ ~Unclassified /\ ~pass.stale /\ outdated = {}
  /\ pass' = Conclude(trueCondition("AllPodsUpdated"))
  /\ UNCHANGED <<cluster, cached, secrets, sets, seenSets, pods, raft, owed, budget>>

(* Reconcile: one patch at the end, and none when the pass changed nothing. *)
Publish ==
  /\ pass.at = "publish"
  /\ LET new == summarizeReady(pass.status, pass.serving, pass.generation)
     IN  cluster' = [cluster EXCEPT !.status = MergePatch(@, pass.orig, new)]
  /\ pass' = Idle
  /\ UNCHANGED <<cached, secrets, sets, seenSets, pods, raft, owed, budget>>

(* The process stops inside a pass, or the patch fails. *)
Abandon ==
  /\ pass.at # "idle"
  /\ Spend("faults")
  /\ pass' = Idle
  /\ UNCHANGED <<cluster, cached, secrets, sets, seenSets, pods, raft, owed>>

-----------------------------------------------------------------------------
Init ==
  /\ cluster = [spec |-> FirstSpec, generation |-> 1, status |-> NoStatus(None)]
  /\ cached = cluster
  /\ secrets = [license |-> CHOOSE l \in Licenses : TRUE, aws |-> CHOOSE a \in Credentials : TRUE]
  /\ sets = [template |-> TemplateOf(FirstSpec), generation |-> 1, level |-> FirstSpec.level]
  /\ seenSets = [template |-> sets.template, generation |-> 1]
  /\ pods = [o \in Pods |-> [state    |-> "ready", template |-> sets.template,
                             settings |-> [Unset EXCEPT !.level = FirstSpec.level]]]
  /\ raft = [leader |-> Coordinator, main |-> Data, registered |-> TRUE, setting |-> FALSE]
  /\ owed = {}
  /\ pass = Idle
  /\ budget = [changes |-> MaxChanges, faults |-> MaxFaults, stale |-> MaxStale]

Faults ==
  \/ \E s \in Specs : Edit(s)
  \/ \E l \in Licenses \union {None}, a \in Credentials \union {None} : Rotate(l, a)
  \/ \E o \in Pods, wiped \in BOOLEAN : Crash(o, wiped)
  \/ \E what \in {{}} \union {{w} : w \in Owes} : Owe(what)
  \/ EndUnobserved \/ EndRecreating \/ EndApplyFailed \/ EndRegistrationFailed
  \/ \E lost \in BOOLEAN : LoseSet(lost) \/ LoseView(lost) \/ LoseCoordinatorSetting(lost)
  \/ Abandon

Environment ==
  \/ SyncSpec \/ SyncCluster \/ SyncSets
  \/ \E o \in Pods : Start(o)
  \/ \E o \in ToSet(CoordinatorPods) : ElectLeader(o)
  \/ \E o \in ToSet(DataPods) : ElectMain(o)

Pass ==
  \/ BeginPass \/ Apply
  \/ SkipUnready \/ observedSettings \/ SkipUnreadOrInLine \/ SetSetting \/ SettingRejected
  \/ FinishLicense \/ EndLeaderless \/ EndRegistering \/ Registered \/ BeginAWSCredentials
  \/ classifyFlags \/ reconcileCoordinatorSettings
  \/ WaitForRoll \/ ConcludeUpdated \/ Publish
  \/ \E o \in Pods : restartPod(o)

Next == Faults \/ Environment \/ Pass

Fairness ==
  /\ WF_vars(Pass)
  /\ WF_vars(SyncCluster) /\ WF_vars(SyncSets)
  /\ \A o \in Pods : WF_vars(Start(o))
  /\ WF_vars(\E o \in ToSet(CoordinatorPods) : ElectLeader(o))
  /\ WF_vars(\E o \in ToSet(DataPods) : ElectMain(o))

Spec == Init /\ [][Next]_vars /\ Fairness

-----------------------------------------------------------------------------
(* Properties *)

Templates == [image : Images, data : SUBSET Keys, coordinators : SUBSET Keys]
SettingsOf == [organization : {Issued[l] : l \in Licenses} \union {None},
               license : Licenses \union {None}, level : Nat, aws : Credentials \union {None}]

(* Every variable has its type: among others, a pass plans only with a read *)
(* that is a settings view, and every condition carries a generation the    *)
(* resource has had.                                                        *)
TypeOK ==
  /\ cluster.spec \in Specs
  /\ \A t \in ConditionTypes :
       /\ cluster.status.conditions[t].status \in {"Absent", "True", "False", "Unknown"}
       /\ cluster.status.conditions[t].gen \in 0..cluster.generation
  /\ cluster.status.main \in Pods \union {None}
  /\ pods \in [Pods -> [state : {"ready", "down", "gone"}, template : Templates, settings : SettingsOf]]
  /\ sets.template \in Templates /\ seenSets.generation \in 1..sets.generation
  /\ pass.at # "idle" => \A o \in Pods : pass.reads[o] \in SettingsOf \union {None, Failed}
  /\ \A kind \in DOMAIN budget : budget[kind] \in Nat

(* An instance is given a license only once it has the organization the     *)
(* license is issued to, whatever failed on the way: License orders the two *)
(* SETs and a refused one stops the rest.  Pods that crashed since the pass *)
(* began, whose volume the read may predate, are excepted.                  *)
LicensedUnderItsOrganization ==
  [][\A o \in Pods :
       LET was == pods[o].settings  is == pods'[o].settings
       IN  is.license \notin {was.license, None} /\ o \in pass.steady
           => is.organization = Issued[is.license]]_vars

(* What a steady pod must run for the cluster to be Ready: the license and  *)
(* the AWS values the pass read, and the run-time flags, the image and the  *)
(* startup flags, among the keys its image has, of the spec it read.        *)
RunsWhatWasAsked(o) ==
  /\ pods[o].settings.license = pass.desired.license
  /\ pods[o].settings.organization = pass.desired.organization
  /\ pods[o].settings.level = pass.spec.level
  /\ IsData(o) => pods[o].settings.aws = pass.desired.aws
  /\ pods[o].template.image = pass.spec.image
  /\ Named(pods[o].template, o) \intersect Config[pass.spec.image]
       = Named(pass.spec, o) \intersect Config[pass.spec.image]

BecomesReady == /\ cluster.status.conditions["Ready"].status # "True"
                /\ cluster'.status.conditions["Ready"].status = "True"

(* Ready is turned True only by a pass that itself found a MAIN up and left *)
(* every pod that it saw ready and that stayed up running what was asked    *)
(* for: it is never put together from conditions of earlier passes, of      *)
(* another generation, or of a status the cache served late                 *)
(* (readyCondition, Reconcile).                                             *)
ReadyIsEarned ==
  [][BecomesReady =>
       /\ pass.serving.status = "True" /\ pass.main # None
       /\ \A o \in pass.ready \intersect pass.steady : RunsWhatWasAsked(o)
       /\ pass.config # None /\ WantsSetting => raft.setting]_vars

(* Ready is turned True only by a pass that saw every pod ready, because    *)
(* workloadsReady tolerates a missing pod only while a role has outdated    *)
(* ones, "so a healthy cluster is still held to every pod being ready".     *)
ReadySeesEveryPod == [][BecomesReady => pass.ready = Pods]_vars

Knows(image, s) ==
  /\ s.coordinators \subseteq Config[image] \union CoordinatorSettings
  /\ s.data \subseteq Config[image]

(* Once nothing changes any more and the spec asks for nothing an instance  *)
(* refuses, every instance runs the license and the AWS values of the       *)
(* Secrets and the image and run-time flags of the spec, through restarts,  *)
(* lost calls and stale reads: reconcileLicense, reconcileSettings,         *)
(* reconcileAWSCredentials, the roll.                                       *)
SettingsReachPods ==
  <>[](cluster.spec.level # BadLevel =>
       \A o \in Pods :
         /\ secrets.license # None =>
              /\ pods[o].settings.license = secrets.license
              /\ pods[o].settings.organization = Issued[secrets.license]
         /\ secrets.aws # None /\ IsData(o) => pods[o].settings.aws = secrets.aws
         /\ pods[o].settings.level = cluster.spec.level
         /\ pods[o].template.image = cluster.spec.image)

(* And the status catches up with the truth: it is of the generation that   *)
(* is declared, it names the MAIN, and Ready is True exactly when nothing   *)
(* is left that the operator cannot deliver.                                *)
StatusCatchesUp ==
  LET deliverable == /\ secrets.license # None /\ secrets.aws # None
                     /\ cluster.spec.level # BadLevel
                     /\ Knows(cluster.spec.image, cluster.spec)
                     /\ owed = {}
      ready == cluster.status.conditions["Ready"]
  IN  <>[](/\ ready.gen = cluster.generation
           /\ ready.status = "True" <=> deliverable
           /\ deliverable => cluster.status.main = raft.main)

=============================================================================
