------------------------------ MODULE SystemUser ----------------------------
(***************************************************************************)
(* The internal system user the operator logs in as: reconcileSystemUser,  *)
(* which generates its password once and keeps the mounted hash in the     *)
(* algorithm the pods can load, and the connector that dials an instance   *)
(* with it, while the roll that turns FIPS mode or TLS on or off is under  *)
(* way.                                                                    *)
(*                                                                         *)
(* A process that lost the lease may still be inside a pass when its       *)
(* successor starts one, so every process has a pass of its own.           *)
(*                                                                         *)
(* Abstractions: a password is a number, a hash the password and the       *)
(* algorithm it was made with (salts, encodings and the work factor are    *)
(* left out); both roles are one set of pods; the rest of the pass is the  *)
(* apply of the pod template and one restart of an outdated pod while all  *)
(* are ready (module RollingRestart has the decision); the pods' cache is  *)
(* what the pods were when it was last refreshed.                          *)
(***************************************************************************)
EXTENDS Integers, FiniteSets, Sequences

CONSTANTS
  Pods,          \* the pods of the cluster
  Processes,     \* the operator processes, one of them elected
  Modes,         \* the values of spec.fips and spec.boltTLS
  None,          \* no password, no hash
  MaxEdits,      \* bound on edits of the spec
  MaxFaults      \* bound on failed passes, elections, deleted hashes, in-place restarts

ASSUME PodsAssumption      == Pods # {} /\ IsFiniteSet(Pods)
ASSUME ProcessesAssumption == Processes # {} /\ IsFiniteSet(Processes)
ASSUME ModesAssumption     == Modes # {} /\ Modes \subseteq [fips : BOOLEAN, tls : BOOLEAN]
ASSUME NoneAssumption      == /\ None \notin Nat
                              /\ None \notin [of : Nat, alg : {"bcrypt", "pbkdf2-sha256"}]
ASSUME BoundsAssumption    == {MaxEdits, MaxFaults} \subseteq Nat

VARIABLES
  spec,       \* spec.fips and spec.boltTLS
  secret,     \* the password in its Secret, or None
  generated,  \* how many passwords were ever generated
  hash,       \* the hash in its Secret, or None
  template,   \* the pod template of the StatefulSets
  pods,       \* the pods
  cached,     \* which pods the cache shows in FIPS mode
  active,     \* the elected process
  pass,       \* what the pass of each process has read so far
  unsettled,  \* whether an edit or an election ever overtook a roll or a pass
  budget      \* what is left of every bound

clusterVars == <<template, pods>>
vars == <<spec, secret, generated, hash, clusterVars, cached, active, pass, unsettled, budget>>

-----------------------------------------------------------------------------
Templates == [fips : BOOLEAN, tls : BOOLEAN, user : BOOLEAN]
Algorithm(fips) == IF fips THEN "pbkdf2-sha256" ELSE "bcrypt"

Spend(kind) == budget[kind] > 0 /\ budget' = [budget EXCEPT ![kind] = @ - 1]

(* A pod created before the operator had a system user mounts no hash. *)
Legacy == [fips |-> FALSE, tls |-> FALSE, user |-> FALSE]

(* A pod runs the template it was created with.  Its mounted file follows   *)
(* the hash Secret late; Memgraph reads the file once, when it starts.      *)
Gone == [state |-> "gone", template |-> Legacy, file |-> None, loaded |-> None]

Ready(o)    == pods[o].state = "ready"
Outdated(o) == pods[o].template # template
AllReady    == \A o \in Pods : Ready(o)

Rendered(mode) == [fips |-> mode.fips, tls |-> mode.tls, user |-> TRUE]

-----------------------------------------------------------------------------
(* Kubernetes, the pods and the user *)

(* Memgraph reads the file; in FIPS mode it refuses a bcrypt hash. *)
Load(o, running, file) ==
  LET refused == running.fips /\ file # None /\ file.alg = "bcrypt"
  IN  pods' = [pods EXCEPT ![o] =
        [state  |-> IF refused THEN "refused" ELSE "ready", template |-> running,
         file   |-> file,
         loaded |-> IF refused THEN None ELSE file]]

(* Mutant: the volume is optional. *)
CreateWithoutSecret(o) ==
  /\ pods[o].state = "gone"
  /\ Load(o, template, IF template.user THEN hash ELSE None)
  /\ UNCHANGED <<spec, secret, generated, hash, template, cached, active, pass, unsettled, budget>>

(* A pod is created from the template; its volume is required, so one whose *)
(* Secret is missing waits.                                                 *)
CreatePod(o) ==
  /\ pods[o].state = "gone"
  /\ template.user => hash # None
  /\ Load(o, template, IF template.user THEN hash ELSE None)
  /\ UNCHANGED <<spec, secret, generated, hash, template, cached, active, pass, unsettled, budget>>

(* A container that crashed or refused its hash is started again. *)
RestartContainer(o) ==
  /\ pods[o].state \in {"starting", "refused"}
  /\ Load(o, pods[o].template, pods[o].file)
  /\ pods' # pods
  /\ UNCHANGED <<spec, secret, generated, hash, template, cached, active, pass, unsettled, budget>>

(* The kubelet refreshes the mounted file of a changed Secret. *)
RefreshMount(o) ==
  /\ pods[o].state \in {"starting", "refused", "ready"}
  /\ pods[o].template.user
  /\ hash \notin {None, pods[o].file}
  /\ pods' = [pods EXCEPT ![o].file = hash]
  /\ UNCHANGED <<spec, secret, generated, hash, template, cached, active, pass, unsettled, budget>>

(* A container restarts in place: the same pod loads the file again. *)
CrashInPlace(o) ==
  /\ Ready(o)
  /\ Spend("faults")
  /\ pods' = [pods EXCEPT ![o].state = "starting", ![o].loaded = None]
  /\ UNCHANGED <<spec, secret, generated, hash, template, cached, active, pass, unsettled>>

(* RunsInFIPSMode, of every pod the watch has delivered. *)
InFIPSMode == { o \in Pods : pods[o].state # "gone" /\ pods[o].template.fips }

SyncPods ==
  /\ cached # InFIPSMode
  /\ cached' = InFIPSMode
  /\ UNCHANGED <<spec, secret, generated, hash, clusterVars, active, pass, unsettled, budget>>

DeleteHash ==
  /\ hash # None
  /\ Spend("faults")
  /\ hash' = None
  /\ UNCHANGED <<spec, secret, generated, clusterVars, cached, active, pass, unsettled>>

(* The last edit has been rolled out, and the cache shows it. *)
RolledOut ==
  /\ template = Rendered(spec)
  /\ \A o \in Pods : Ready(o) /\ ~ Outdated(o)
  /\ cached = InFIPSMode

NoPass == [pc |-> "idle", mode |-> [fips |-> FALSE, tls |-> FALSE],
           password |-> None, hash |-> None]
Idle(p) == pass[p].pc = "idle"

Edit ==
  /\ Spend("edits")
  /\ spec' \in Modes \ {spec}
  /\ unsettled' = (unsettled \/ ~ RolledOut \/ \E p \in Processes : ~ Idle(p))
  /\ UNCHANGED <<secret, generated, hash, clusterVars, cached, active, pass>>

-----------------------------------------------------------------------------
(* The connector *)

(* dialSchemes: the mode the spec asks for, then the other. *)
dialSchemes(tls) == IF tls THEN <<"bolt+ssc", "bolt">> ELSE <<"bolt", "bolt+ssc">>

(* dialCredentials: the system user when there is a password, then nobody. *)
dialCredentials(password) == IF password = None THEN <<None>> ELSE <<password, None>>

(* What pod o answers a connection of this scheme with this password. *)
Answer(o, scheme, password) ==
  IF (scheme = "bolt+ssc") # pods[o].template.tls THEN "unreachable"
  ELSE IF pods[o].loaded = None
       THEN IF password = None THEN "connected" ELSE "unauthenticated"
       ELSE IF password = pods[o].loaded.of THEN "connected" ELSE "unauthenticated"

(* Connect: credentials are tried in order while they are refused, and any  *)
(* other failure moves on to the next scheme.                               *)
Connects(o, tls, password) ==
  LET credentials == dialCredentials(password)
  IN  \E scheme \in {dialSchemes(tls)[i] : i \in DOMAIN dialSchemes(tls)} :
        \E c \in DOMAIN credentials :
          /\ Answer(o, scheme, credentials[c]) = "connected"
          /\ \A b \in 1 .. c - 1 : Answer(o, scheme, credentials[b]) = "unauthenticated"

-----------------------------------------------------------------------------
(* The pass of process p *)

EndPass(p) == pass' = [pass EXCEPT ![p] = NoPass]

(* systemUserPassword: an uncached read, the first of the pass. *)
BeginPass(p) ==
  /\ p = active /\ Idle(p)
  /\ pass' = [pass EXCEPT ![p].pc = IF secret = None THEN "create" ELSE "hash",
                          ![p].mode = spec, ![p].password = secret]
  /\ UNCHANGED <<spec, secret, generated, hash, clusterVars, cached, active, unsettled, budget>>

(* Mutant: a create that finds the Secret there keeps its own password. *)
KeepOwnPassword(p) ==
  /\ pass[p].pc = "create"
  /\ generated' = generated + 1
  /\ secret' = IF secret = None THEN generated' ELSE secret
  /\ pass' = [pass EXCEPT ![p].pc = "hash", ![p].password = generated']
  /\ UNCHANGED <<spec, hash, clusterVars, cached, active, unsettled, budget>>

(* createSystemUserSecret: the create that loses the race reads the winner's. *)
CreatePassword(p) ==
  /\ pass[p].pc = "create"
  /\ generated' = generated + 1
  /\ secret' = IF secret = None THEN generated' ELSE secret
  /\ pass' = [pass EXCEPT ![p].pc = "hash", ![p].password = secret']
  /\ UNCHANGED <<spec, hash, clusterVars, cached, active, unsettled, budget>>

(* Mutant: the spec alone decides. *)
NeedsPBKDF2BySpec(mode) == mode.fips

systemUserNeedsPBKDF2(mode) == mode.fips \/ cached # {}

(* Mutant: any hash of the password will do. *)
HashMatchesPassword(h, password, fips) == h # None /\ h.of = password

systemUserHashMatches(h, password, fips) ==
  h # None /\ h.of = password /\ h.alg = Algorithm(fips)

hashSystemUserPassword(password, fips) == [of |-> password, alg |-> Algorithm(fips)]

(* The algorithm the pods call for, and the hash: the one in place is kept  *)
(* while it matches.                                                        *)
ChooseHash(p) ==
  LET password == pass[p].password
      fips     == systemUserNeedsPBKDF2(pass[p].mode)
  IN  /\ pass[p].pc = "hash"
      /\ pass' = [pass EXCEPT ![p].pc = "apply",
           ![p].hash = IF systemUserHashMatches(hash, password, fips) THEN hash
                       ELSE hashSystemUserPassword(password, fips)]
      /\ UNCHANGED <<spec, secret, generated, hash, clusterVars, cached, active, unsettled, budget>>

ApplyHash(p) ==
  /\ pass[p].pc = "apply"
  /\ hash' = pass[p].hash
  /\ pass' = [pass EXCEPT ![p].pc = "template", ![p].hash = None]
  /\ UNCHANGED <<spec, secret, generated, clusterVars, cached, active, unsettled, budget>>

ApplyTemplate(p) ==
  /\ pass[p].pc = "template"
  /\ template' = Rendered(pass[p].mode)
  /\ pass' = [pass EXCEPT ![p].pc = "roll"]
  /\ UNCHANGED <<spec, secret, generated, hash, pods, cached, active, unsettled, budget>>

(* The rest of the pass: it needs every instance's answer, and restarts at  *)
(* most one outdated pod, while all are ready.                              *)
RestartNext(p) ==
  /\ pass[p].pc = "roll"
  /\ \/ \E o \in Pods :
          /\ AllReady /\ Outdated(o)
          /\ \A q \in Pods : Connects(q, pass[p].mode.tls, pass[p].password)
          /\ pods' = [pods EXCEPT ![o] = Gone]
     \/ /\ ~ AllReady \/ \A o \in Pods : ~ Outdated(o)
        /\ pods' = pods
  /\ EndPass(p)
  /\ UNCHANGED <<spec, secret, generated, hash, template, cached, active, unsettled, budget>>

FailPass(p) ==
  /\ ~ Idle(p)
  /\ Spend("faults")
  /\ EndPass(p)
  /\ UNCHANGED <<spec, secret, generated, hash, clusterVars, cached, active, unsettled>>

(* Another process is elected; the pass of the old one may still run on. *)
TakeOver(p) ==
  /\ p # active
  /\ Spend("faults")
  /\ active' = p
  /\ unsettled' = TRUE
  /\ UNCHANGED <<spec, secret, generated, hash, clusterVars, cached, pass>>

-----------------------------------------------------------------------------
(* A new cluster in FIPS mode, whose pods wait for the hash of the first    *)
(* pass, or a plain one that an operator without a system user left running. *)
Init ==
  /\ spec \in Modes
  /\ secret = None /\ generated = 0 /\ hash = None
  /\ \/ /\ template = Legacy /\ ~ spec.fips /\ ~ spec.tls
        /\ pods = [o \in Pods |-> [state |-> "ready", template |-> Legacy,
                                   file |-> None, loaded |-> None]]
     \/ /\ template = Rendered(spec) /\ spec.fips
        /\ pods = [o \in Pods |-> Gone]
  /\ cached = {}
  /\ active = CHOOSE p \in Processes : TRUE
  /\ pass = [p \in Processes |-> NoPass]
  /\ unsettled = FALSE
  /\ budget = [edits |-> MaxEdits, faults |-> MaxFaults]

PassStep(p) ==
  \/ BeginPass(p) \/ CreatePassword(p) \/ ChooseHash(p)
  \/ ApplyHash(p) \/ ApplyTemplate(p) \/ RestartNext(p)

PodStep(o) == CreatePod(o) \/ RestartContainer(o)

Disruption ==
  \/ Edit \/ DeleteHash
  \/ \E o \in Pods : CrashInPlace(o)
  \/ \E p \in Processes : FailPass(p) \/ TakeOver(p)

Next ==
  \/ \E p \in Processes : PassStep(p)
  \/ \E o \in Pods : PodStep(o) \/ RefreshMount(o)
  \/ SyncPods
  \/ Disruption

(* Passes are requeued for ever, kubelet and watches make progress; edits,  *)
(* faults and elections are bounded.                                        *)
Spec ==
  /\ Init /\ [][Next]_vars
  /\ \A p \in Processes : WF_vars(PassStep(p))
  /\ \A o \in Pods : WF_vars(PodStep(o)) /\ WF_vars(RefreshMount(o))
  /\ WF_vars(SyncPods)

-----------------------------------------------------------------------------
(* Properties *)

Passwords == 1 .. generated
Hashes == [of : Passwords, alg : {"bcrypt", "pbkdf2-sha256"}] \cup {None}

(* Type correctness; a pod is ready with a hash exactly if its template     *)
(* mounts one.                                                              *)
TypeOK ==
  /\ spec \in Modes /\ template \in Templates
  /\ secret \in Passwords \cup {None}
  /\ hash \in Hashes
  /\ pods \in [Pods -> [state : {"gone", "starting", "refused", "ready"},
                        template : Templates, file : Hashes, loaded : Hashes]]
  /\ \A o \in Pods : Ready(o) => ((pods[o].loaded # None) <=> pods[o].template.user)
  /\ cached \subseteq Pods /\ active \in Processes /\ unsettled \in BOOLEAN
  /\ pass \in [Processes -> [pc : {"idle", "create", "hash", "apply", "template", "roll"},
                             mode : Modes \cup {NoPass.mode}, password : Passwords \cup {None},
                             hash : Hashes]]
  /\ budget \in [edits : Nat, faults : Nat]

(* "a stale cache can never make the operator generate a second password    *)
(* and lock itself out of instances holding the first one's hash": a pass   *)
(* that knows the password connects to every ready pod, in either TLS mode, *)
(* with or without a system user, in the middle of any roll and beside      *)
(* another process's pass.                                                  *)
NeverLockedOut ==
  \A p \in Processes, o \in Pods :
    pass[p].password # None /\ Ready(o) => Connects(o, pass[p].mode.tls, pass[p].password)

(* The hash is switched before the pods that need it and back only after    *)
(* the last of them: while each edit waits for the roll of the one before   *)
(* and no pass is left behind by an election, no FIPS pod ever finds a hash *)
(* it refuses to load, even when it restarts in place.                      *)
NoPodRefusesItsHash ==
  \A o \in Pods : pods[o].state = "refused" => unsettled

(* "never turn ready, and stall the roll that was meant to replace it":     *)
(* whatever was edited in the middle of a roll, whatever failed, the roll   *)
(* ends with every pod ready in the declared mode and with the hash of the  *)
(* algorithm that mode calls for.                                           *)
RollsIntoMode ==
  <>[](RolledOut /\ hash = hashSystemUserPassword(secret, spec.fips))
=============================================================================
