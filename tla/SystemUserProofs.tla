-------------------------- MODULE SystemUserProofs --------------------------
(***************************************************************************)
(* The safety invariants of SystemUser, for every set of pods, processes   *)
(* and modes and every number of edits and faults: its types, that the     *)
(* operator is never locked out, and that no pod of a settled cluster      *)
(* refuses the hash it finds.                                              *)
(***************************************************************************)
EXTENDS SystemUser, TLAPS

-----------------------------------------------------------------------------
(* The inductive invariants *)

(* A pod that exists has a mounted hash exactly if its template has one. *)
MountedIfUser ==
  \A o \in Pods :
    pods[o].state # "gone" => ((pods[o].file # None) <=> pods[o].template.user)

(* A pass knows the password from its second step on, and the hash it is    *)
(* about to apply.                                                          *)
PassKnows ==
  \A p \in Processes :
    /\ pass[p].pc \in {"hash", "apply", "template", "roll"} => pass[p].password # None
    /\ pass[p].pc = "apply" => pass[p].hash # None

TypeInv ==
  /\ TypeOK
  /\ generated \in Nat
  /\ MountedIfUser
  /\ PassKnows

(* Every password a pass knows is the one in the Secret. *)
KnowsSecret == \A p \in Processes : pass[p].password \in {None, secret}

IsHashOf(h, password) == h # None => h.of = password

(* Every hash there is, applied, chosen, mounted or loaded, is of it. *)
OnePassword ==
  /\ IsHashOf(hash, secret)
  /\ \A p \in Processes : IsHashOf(pass[p].hash, secret)
  /\ \A o \in Pods : IsHashOf(pods[o].file, secret) /\ IsHashOf(pods[o].loaded, secret)

PasswordInv == TypeInv /\ KnowsSecret /\ OnePassword

IsPBKDF2(h) == h # None => h.alg = "pbkdf2-sha256"

(* A pod of this template, or one there is, runs in FIPS mode. *)
SomeFIPS == template.fips \/ InFIPSMode # {}

(* While nothing was overtaken ... *)

(* ... only the elected process has a pass, and it is for the spec as it is; *)
(* what it rolls is its own template.                                        *)
OnePass ==
  \A p \in Processes :
    /\ pass[p].pc # "idle" => p = active /\ pass[p].mode = spec
    /\ pass[p].pc = "roll" => template = Rendered(spec)

(* ... a cache that is behind after FIPS mode was left shows too many FIPS  *)
(* pods, never too few.                                                     *)
CacheCovers == ~ spec.fips => InFIPSMode \subseteq cached

(* ... the pods are all there until the template that leaves FIPS mode is   *)
(* applied.                                                                 *)
NotLeftYet ==
  ~ spec.fips /\ template.fips => \A o \in Pods : o \in InFIPSMode

(* ... the hash is of FIPS mode's algorithm as long as a FIPS pod may find  *)
(* it, and before the first one is asked for.                               *)
HashFits ==
  /\ SomeFIPS \/ (spec.fips /\ \E p \in Processes : pass[p].pc = "template") => IsPBKDF2(hash)
  /\ \A p \in Processes : pass[p].pc = "apply" /\ (SomeFIPS \/ spec.fips) => IsPBKDF2(pass[p].hash)

(* ... and so is the one each FIPS pod has mounted. *)
MountFits == \A o \in InFIPSMode : IsPBKDF2(pods[o].file)

SettledInv ==
  /\ TypeInv
  /\ ~ unsettled => /\ OnePass /\ CacheCovers /\ NotLeftYet /\ HashFits /\ MountFits
                    /\ \A o \in Pods : pods[o].state # "refused"

-----------------------------------------------------------------------------
(* Lemmas *)

PodRecord == [state : {"gone", "starting", "refused", "ready"},
              template : Templates, file : Hashes, loaded : Hashes]

PassRecord == [pc : {"idle", "create", "hash", "apply", "template", "roll"},
               mode : Modes \cup {NoPass.mode}, password : Passwords \cup {None},
               hash : Hashes]

(* A hash is a record, and None is no hash and no password.                 *)
LEMMA HashFacts ==
  ASSUME TypeInv, NEW h \in Hashes, h # None
  PROVE  h.of \in Nat /\ h.of # None /\ h.of \in Passwords
  BY NoneAssumption DEF TypeInv, Hashes, Passwords

(* The mode of a pass, the declared one included, is a mode.                *)
LEMMA ModeFacts ==
  ASSUME NEW m \in Modes \cup {NoPass.mode}
  PROVE  m \in [fips : BOOLEAN, tls : BOOLEAN] /\ Rendered(m) \in Templates
<1>1. NoPass.mode = [fips |-> FALSE, tls |-> FALSE]
  BY DEF NoPass
<1>2. m \in [fips : BOOLEAN, tls : BOOLEAN]
  <2>1. [fips |-> FALSE, tls |-> FALSE] \in [fips : BOOLEAN, tls : BOOLEAN]
    OBVIOUS
  <2> QED  BY <1>1, <2>1, ModesAssumption
<1>3. m.fips \in BOOLEAN /\ m.tls \in BOOLEAN
  BY <1>2
<1>4. Rendered(m) \in Templates
  BY <1>3 DEF Rendered, Templates
<1> QED  BY <1>2, <1>4

(* What Memgraph makes of its file when it starts: the pod is ready with    *)
(* the hash in the file, or refuses it and is not ready.                    *)
LEMMA LoadFacts ==
  ASSUME TypeInv, NEW o \in Pods, NEW t \in Templates, NEW f \in Hashes, Load(o, t, f)
  PROVE  /\ pods' \in [Pods -> PodRecord]
         /\ \A q \in Pods \ {o} : pods'[q] = pods[q]
         /\ pods'[o].template = t /\ pods'[o].file = f
         /\ pods'[o].state \in {"ready", "refused"}
         /\ pods'[o].loaded \in {f, None}
         /\ pods'[o].state = "ready" => pods'[o].loaded = f
         /\ pods'[o].state = "refused" => t.fips /\ f # None /\ f.alg = "bcrypt"
<1> DEFINE refused == t.fips /\ f # None /\ f.alg = "bcrypt"
           new == [state  |-> IF refused THEN "refused" ELSE "ready", template |-> t,
                   file   |-> f, loaded |-> IF refused THEN None ELSE f]
<1>1. pods' = [pods EXCEPT ![o] = new]
  BY DEF Load
<1>2. new \in PodRecord
  BY DEF PodRecord, Hashes
<1>3. pods \in [Pods -> PodRecord]
  BY DEF TypeInv, TypeOK, PodRecord
<1>4. pods'[o] = new
  BY <1>1, <1>3
<1> HIDE DEF new
<1>5. pods' \in [Pods -> PodRecord] /\ \A q \in Pods \ {o} : pods'[q] = pods[q]
  BY <1>1, <1>2, <1>3
<1> QED  BY <1>4, <1>5 DEF new

(* Spending leaves every budget a natural number.                           *)
LEMMA SpendType ==
  ASSUME TypeInv, NEW kind \in {"edits", "faults"}, Spend(kind)
  PROVE  budget' \in [edits : Nat, faults : Nat]
  BY DEF TypeInv, TypeOK, Spend

-----------------------------------------------------------------------------
(* Type correctness *)

(* The initial states are well typed.                                       *)
LEMMA TypeInit == Init => TypeInv
<1> SUFFICES ASSUME Init PROVE TypeInv
  OBVIOUS
<1>1. spec \in [fips : BOOLEAN, tls : BOOLEAN]
  BY ModesAssumption DEF Init
<1>2. Legacy \in Templates /\ Rendered(spec) \in Templates
  BY <1>1 DEF Legacy, Rendered, Templates
<1>3. None \in Hashes
  BY DEF Hashes
<1>4. pods \in [Pods -> PodRecord]
  BY <1>2, <1>3 DEF Init, Gone, PodRecord
<1>5. MountedIfUser /\ \A o \in Pods : Ready(o) => ((pods[o].loaded # None) <=> pods[o].template.user)
  BY DEF Init, Gone, Legacy, MountedIfUser, Ready
<1>6. pass \in [Processes -> PassRecord] /\ PassKnows
  BY <1>3 DEF Init, NoPass, PassRecord, PassKnows
<1>7. budget \in [edits : Nat, faults : Nat]
  BY BoundsAssumption DEF Init
<1>8. active \in Processes
  BY ProcessesAssumption DEF Init
<1> QED  BY <1>2, <1>3, <1>4, <1>5, <1>6, <1>7, <1>8 DEF Init, TypeInv, TypeOK, PodRecord, PassRecord

(* A step that leaves the passwords alone keeps the types if it keeps those *)
(* of the pods and the passes.                                              *)
LEMMA TypeParts ==
  ASSUME TypeInv, generated' = generated,
         spec' \in Modes, template' \in Templates, secret' = secret, hash' \in Hashes,
         pods' \in [Pods -> PodRecord], MountedIfUser',
         \A o \in Pods : Ready(o)' => ((pods'[o].loaded # None) <=> pods'[o].template.user),
         cached' \subseteq Pods, active' \in Processes, unsettled' \in BOOLEAN,
         pass' \in [Processes -> PassRecord], PassKnows',
         budget' \in [edits : Nat, faults : Nat]
  PROVE  TypeInv'
<1>1. Passwords' = Passwords /\ Hashes' = Hashes
  BY DEF Passwords, Hashes
<1>2. NoPass' = NoPass
  BY DEF NoPass
<1> QED  BY <1>1, <1>2 DEF TypeInv, TypeOK, PodRecord, PassRecord

(* Every step of the passes, the pods and the user keeps the types.         *)
LEMMA TypeStep == TypeInv /\ [Next]_vars => TypeInv'
<1> SUFFICES ASSUME TypeInv, [Next]_vars PROVE TypeInv'
  OBVIOUS
<1> USE DEF clusterVars
<1>t. /\ spec \in Modes /\ template \in Templates /\ hash \in Hashes
      /\ pods \in [Pods -> PodRecord] /\ MountedIfUser
      /\ \A o \in Pods : Ready(o) => ((pods[o].loaded # None) <=> pods[o].template.user)
      /\ cached \subseteq Pods /\ active \in Processes /\ unsettled \in BOOLEAN
      /\ pass \in [Processes -> PassRecord] /\ PassKnows
      /\ budget \in [edits : Nat, faults : Nat]
      /\ secret \in Passwords \cup {None} /\ generated \in Nat
  BY DEF TypeInv, TypeOK, PodRecord, PassRecord
<1>n. None \in Hashes
  BY DEF Hashes
<1>1. ASSUME NEW o \in Pods, NEW t \in Templates, NEW f \in Hashes, Load(o, t, f),
             (f # None) <=> t.user,
             UNCHANGED <<spec, secret, generated, hash, template, cached, active, pass, unsettled, budget>>
      PROVE  TypeInv'
  <2>1. pods' \in [Pods -> PodRecord] /\ MountedIfUser'
    BY <1>t, <1>1, LoadFacts DEF MountedIfUser
  <2>2. \A q \in Pods : Ready(q)' => ((pods'[q].loaded # None) <=> pods'[q].template.user)
    BY <1>t, <1>1, LoadFacts DEF Ready
  <2>3. PassKnows'
    BY <1>t, <1>1 DEF PassKnows
  <2> QED  BY <1>t, <1>1, <2>1, <2>2, <2>3, TypeParts
<1>2. ASSUME NEW o \in Pods, CreatePod(o) PROVE TypeInv'
  <2>1. (IF template.user THEN hash ELSE None) \in Hashes
    BY <1>t, <1>n
  <2> QED  BY <1>t, <1>1, <1>2, <2>1 DEF CreatePod
<1>3. ASSUME NEW o \in Pods, RestartContainer(o) PROVE TypeInv'
  <2>1. pods[o].template \in Templates /\ pods[o].file \in Hashes /\ pods[o].state # "gone"
    BY <1>t, <1>3 DEF RestartContainer, PodRecord
  <2>2. (pods[o].file # None) <=> pods[o].template.user
    BY <1>t, <2>1 DEF MountedIfUser
  <2> QED  BY <1>1, <1>3, <2>1, <2>2 DEF RestartContainer
<1>4. ASSUME NEW o \in Pods, RefreshMount(o) PROVE TypeInv'
  <2>1. pods' = [pods EXCEPT ![o].file = hash] /\ hash # None /\ pods[o].template.user
    BY <1>4 DEF RefreshMount
  <2>2. pods' \in [Pods -> PodRecord] /\ MountedIfUser'
    BY <1>t, <2>1 DEF MountedIfUser, PodRecord
  <2>3. \A q \in Pods : Ready(q)' => ((pods'[q].loaded # None) <=> pods'[q].template.user)
    BY <1>t, <2>1 DEF Ready, PodRecord
  <2>4. PassKnows'
    BY <1>t, <1>4 DEF RefreshMount, PassKnows
  <2> QED  BY <1>t, <1>4, <2>2, <2>3, <2>4, TypeParts DEF RefreshMount
<1>5. ASSUME NEW o \in Pods, CrashInPlace(o) PROVE TypeInv'
  <2>1. pods' = [pods EXCEPT ![o].state = "starting", ![o].loaded = None] /\ pods[o].state = "ready"
    BY <1>5 DEF CrashInPlace, Ready
  <2>2. pods' \in [Pods -> PodRecord] /\ MountedIfUser'
    BY <1>t, <1>n, <2>1 DEF MountedIfUser, PodRecord
  <2>3. \A q \in Pods : Ready(q)' => ((pods'[q].loaded # None) <=> pods'[q].template.user)
    BY <1>t, <2>1 DEF Ready, PodRecord
  <2>4. PassKnows' /\ budget' \in [edits : Nat, faults : Nat]
    BY <1>t, <1>5, SpendType DEF CrashInPlace, PassKnows
  <2> QED  BY <1>t, <1>5, <2>2, <2>3, <2>4, TypeParts DEF CrashInPlace
<1>6. ASSUME UNCHANGED <<pods, pass, secret, generated>>,
             spec' \in Modes, hash' \in Hashes, template' = template, cached' \subseteq Pods,
             active' \in Processes, unsettled' \in BOOLEAN,
             budget' \in [edits : Nat, faults : Nat]
      PROVE  TypeInv'
  <2>1. MountedIfUser' /\ PassKnows'
    BY <1>t, <1>6 DEF MountedIfUser, PassKnows
  <2>2. \A q \in Pods : Ready(q)' => ((pods'[q].loaded # None) <=> pods'[q].template.user)
    BY <1>t, <1>6 DEF Ready
  <2> QED  BY <1>t, <1>6, <2>1, <2>2, TypeParts
<1>7. ASSUME SyncPods \/ DeleteHash \/ Edit PROVE TypeInv'
  <2>1. CASE SyncPods
    BY <1>t, <1>6, <2>1 DEF SyncPods, InFIPSMode
  <2>2. CASE DeleteHash
    BY <1>t, <1>n, <1>6, <2>2, SpendType DEF DeleteHash
  <2>3. CASE Edit
    <3>1. unsettled' \in BOOLEAN
      BY <1>t, <2>3 DEF Edit
    <3> QED  BY <1>t, <1>6, <2>3, <3>1, SpendType DEF Edit
  <2> QED  BY <1>7, <2>1, <2>2, <2>3
<1>8. ASSUME NEW p \in Processes, TakeOver(p) PROVE TypeInv'
  BY <1>t, <1>6, <1>8, SpendType DEF TakeOver
<1>9. ASSUME pods' \in [Pods -> PodRecord], MountedIfUser',
             \A q \in Pods : Ready(q)' => ((pods'[q].loaded # None) <=> pods'[q].template.user),
             hash' \in Hashes, template' \in Templates,
             UNCHANGED <<spec, secret, generated, cached, active, unsettled>>,
             budget' \in [edits : Nat, faults : Nat],
             NEW p \in Processes, NEW new \in PassRecord, pass' = [pass EXCEPT ![p] = new],
             new.pc \in {"hash", "apply", "template", "roll"} => new.password # None,
             new.pc = "apply" => new.hash # None
      PROVE  TypeInv'
  <2>1. pass' \in [Processes -> PassRecord] /\ PassKnows'
    BY <1>t, <1>9 DEF PassKnows
  <2> QED  BY <1>t, <1>9, <2>1, TypeParts
<1>10. ASSUME UNCHANGED pods
       PROVE  /\ pods' \in [Pods -> PodRecord] /\ MountedIfUser'
              /\ \A q \in Pods : Ready(q)' => ((pods'[q].loaded # None) <=> pods'[q].template.user)
  BY <1>t, <1>10 DEF MountedIfUser, Ready
<1>p. \A p \in Processes : /\ pass[p] \in PassRecord
                           /\ pass[p].pc \in {"hash", "apply", "template", "roll"} => pass[p].password # None
                           /\ pass[p].pc = "apply" => pass[p].hash # None
  BY <1>t DEF PassKnows
<1>q. NoPass \in PassRecord /\ NoPass.pc = "idle"
  BY <1>n DEF NoPass, PassRecord
<1>11. ASSUME NEW p \in Processes, BeginPass(p) PROVE TypeInv'
  <2> DEFINE new == [pass[p] EXCEPT !.pc = IF secret = None THEN "create" ELSE "hash",
                                    !.mode = spec, !.password = secret]
  <2>1. new \in PassRecord /\ pass' = [pass EXCEPT ![p] = new]
    BY <1>t, <1>p, <1>11 DEF BeginPass, PassRecord
  <2>2. /\ new.pc \in {"hash", "apply", "template", "roll"} => new.password # None
        /\ new.pc # "apply"
    BY <1>p DEF PassRecord
  <2> HIDE DEF new
  <2> QED  BY <1>t, <1>9, <1>10, <1>11, <2>1, <2>2 DEF BeginPass
<1>12. ASSUME NEW p \in Processes, ChooseHash(p) PROVE TypeInv'
  <2>1. PICK h : /\ h = IF systemUserHashMatches(hash, pass[p].password, systemUserNeedsPBKDF2(pass[p].mode))
                        THEN hash
                        ELSE hashSystemUserPassword(pass[p].password, systemUserNeedsPBKDF2(pass[p].mode))
                 /\ pass' = [pass EXCEPT ![p].pc = "apply", ![p].hash = h]
                 /\ pass[p].pc = "hash"
    BY <1>12 DEF ChooseHash
  <2>2. pass[p].password \in Passwords
    BY <1>p, <2>1 DEF PassRecord
  <2>3. h \in Hashes /\ h # None
    <3>1. ASSUME NEW f PROVE hashSystemUserPassword(pass[p].password, f) \in Hashes \ {None}
      BY <1>t, <2>2, NoneAssumption DEF hashSystemUserPassword, Algorithm, Hashes, Passwords
    <3> QED  BY <1>t, <2>1, <3>1 DEF systemUserHashMatches
  <2> DEFINE new == [pass[p] EXCEPT !.pc = "apply", !.hash = h]
  <2>4. new \in PassRecord /\ pass' = [pass EXCEPT ![p] = new] /\ new.password # None /\ new.hash # None
    BY <1>t, <1>p, <2>1, <2>3 DEF PassRecord
  <2> HIDE DEF new
  <2> QED  BY <1>t, <1>9, <1>10, <1>12, <2>4 DEF ChooseHash
<1>13. ASSUME NEW p \in Processes, ApplyHash(p) PROVE TypeInv'
  <2> DEFINE new == [pass[p] EXCEPT !.pc = "template", !.hash = None]
  <2>1. pass[p].pc = "apply" /\ pass' = [pass EXCEPT ![p] = new] /\ hash' \in Hashes
    BY <1>t, <1>p, <1>13 DEF ApplyHash, PassRecord
  <2>2. new \in PassRecord /\ new.password # None /\ new.pc = "template"
    BY <1>n, <1>p, <2>1 DEF PassRecord
  <2> HIDE DEF new
  <2> QED  BY <1>t, <1>9, <1>10, <1>13, <2>1, <2>2 DEF ApplyHash
<1>14. ASSUME NEW p \in Processes, ApplyTemplate(p) PROVE TypeInv'
  <2> DEFINE new == [pass[p] EXCEPT !.pc = "roll"]
  <2>1. pass[p].pc = "template" /\ pass' = [pass EXCEPT ![p] = new] /\ template' = Rendered(pass[p].mode)
    BY <1>t, <1>p, <1>14 DEF ApplyTemplate, PassRecord
  <2>2. new \in PassRecord /\ new.password # None /\ new.pc = "roll"
    BY <1>p, <2>1 DEF PassRecord
  <2>3. template' \in Templates
    BY <1>p, <2>1, ModeFacts DEF PassRecord
  <2> HIDE DEF new
  <2> QED  BY <1>t, <1>9, <1>10, <1>14, <2>1, <2>2, <2>3 DEF ApplyTemplate
<1>15. ASSUME NEW p \in Processes, RestartNext(p) PROVE TypeInv'
  <2>1. pass' = [pass EXCEPT ![p] = NoPass]
    BY <1>15 DEF RestartNext, EndPass
  <2>2. Gone \in PodRecord /\ Gone.state = "gone"
    BY <1>n DEF Gone, Legacy, PodRecord, Templates
  <2>3. UNCHANGED pods \/ \E o \in Pods : pods' = [pods EXCEPT ![o] = Gone]
    BY <1>15 DEF RestartNext
  <2>4. /\ pods' \in [Pods -> PodRecord] /\ MountedIfUser'
        /\ \A q \in Pods : Ready(q)' => ((pods'[q].loaded # None) <=> pods'[q].template.user)
    BY <1>t, <1>10, <2>2, <2>3 DEF MountedIfUser, Ready
  <2> QED  BY <1>t, <1>9, <1>15, <1>q, <2>1, <2>4 DEF RestartNext
<1>16. ASSUME NEW p \in Processes, FailPass(p) PROVE TypeInv'
  BY <1>t, <1>9, <1>10, <1>16, <1>q, SpendType DEF FailPass, EndPass
<1>17. ASSUME NEW p \in Processes, CreatePassword(p) PROVE TypeInv'
  <2>1. /\ generated' = generated + 1
        /\ secret' = IF secret = None THEN generated' ELSE secret
        /\ pass' = [pass EXCEPT ![p].pc = "hash", ![p].password = secret']
        /\ UNCHANGED <<spec, hash, template, pods, cached, active, unsettled, budget>>
    BY <1>17 DEF CreatePassword
  <2>2. Passwords \subseteq Passwords' /\ Hashes \subseteq Hashes' /\ NoPass' = NoPass
    BY <1>t, <2>1 DEF Passwords, Hashes, NoPass
  <2>3. secret' \in Passwords' /\ secret' # None
    BY <1>t, <2>1, NoneAssumption DEF Passwords
  <2>4. PodRecord \subseteq PodRecord' /\ PassRecord \subseteq PassRecord'
    BY <2>2 DEF PodRecord, PassRecord
  <2>5. pods' \in [Pods -> PodRecord'] /\ hash' \in Hashes'
    BY <1>t, <2>1, <2>2, <2>4
  <2>6. pass' \in [Processes -> PassRecord']
    <3> DEFINE new == [pass[p] EXCEPT !.pc = "hash", !.password = secret']
    <3>1. pass[p] \in PassRecord' /\ pass' = [pass EXCEPT ![p] = new]
      BY <1>t, <2>1, <2>4
    <3>2. new \in PassRecord'
      BY <2>3, <3>1 DEF PassRecord
    <3> QED  BY <1>t, <2>4, <3>1, <3>2
  <2>7. PassKnows'
    BY <1>p, <1>t, <2>1, <2>3 DEF PassKnows, PassRecord
  <2>8. MountedIfUser' /\ \A q \in Pods : Ready(q)' => ((pods'[q].loaded # None) <=> pods'[q].template.user)
    BY <1>10, <2>1
  <2> QED  BY <1>t, <2>1, <2>3, <2>5, <2>6, <2>7, <2>8 DEF TypeInv, TypeOK, PodRecord, PassRecord
<1>18. CASE UNCHANGED vars
  BY <1>t, <1>6, <1>18 DEF vars
<1> QED
  BY <1>2, <1>3, <1>4, <1>5, <1>7, <1>8, <1>11, <1>12, <1>13, <1>14, <1>15, <1>16, <1>17, <1>18
     DEF Next, PassStep, PodStep, Disruption

(* Every variable of the system user's model has its type, and a ready pod  *)
(* has loaded a hash exactly if its template mounts one (the required       *)
(* volume of the users file).                                               *)
THEOREM SystemUserTypeCorrect == Spec => []TypeOK
<1>1. TypeInv => TypeOK
  BY DEF TypeInv
<1> QED  BY <1>1, TypeInit, TypeStep, PTL DEF Spec

-----------------------------------------------------------------------------
(* One password, and never locked out *)

(* There is no password and no hash before there is a Secret.               *)
LEMMA NothingBeforeSecret ==
  ASSUME PasswordInv, secret = None
  PROVE  /\ \A p \in Processes : pass[p].password = None /\ pass[p].hash = None
         /\ hash = None
         /\ \A o \in Pods : pods[o].file = None /\ pods[o].loaded = None
<1>1. TypeInv
  BY DEF PasswordInv
<1>2. \A h \in Hashes : IsHashOf(h, None) => h = None
  BY <1>1, HashFacts DEF IsHashOf
<1>3. /\ hash \in Hashes
      /\ \A p \in Processes : pass[p].hash \in Hashes
      /\ \A o \in Pods : pods[o].file \in Hashes /\ pods[o].loaded \in Hashes
  BY <1>1 DEF TypeInv, TypeOK
<1> QED  BY <1>2, <1>3 DEF PasswordInv, KnowsSecret, OnePassword

(* A step after which every hash is one there was before, or the one a pass *)
(* made of the password in the Secret, keeps the one password.              *)
LEMMA PasswordParts ==
  ASSUME PasswordInv, TypeInv', secret' = secret,
         \A p \in Processes : pass'[p].password \in {None, secret},
         \A p \in Processes : IsHashOf(pass'[p].hash, secret),
         IsHashOf(hash', secret),
         \A o \in Pods : IsHashOf(pods'[o].file, secret) /\ IsHashOf(pods'[o].loaded, secret)
  PROVE  PasswordInv'
  BY DEF PasswordInv, KnowsSecret, OnePassword, IsHashOf

(* In the initial states there is no password.                              *)
LEMMA PasswordInit == Init => PasswordInv
<1> SUFFICES ASSUME Init PROVE PasswordInv
  OBVIOUS
<1>1. TypeInv
  BY TypeInit
<1>2. KnowsSecret
  BY DEF Init, NoPass, KnowsSecret
<1>3. OnePassword
  BY DEF Init, NoPass, Gone, OnePassword, IsHashOf
<1> QED  BY <1>1, <1>2, <1>3 DEF PasswordInv

(* No step makes a second password or a hash of one, whichever process's    *)
(* create loses the race for the Secret.                                    *)
LEMMA PasswordStep == PasswordInv /\ [Next]_vars => PasswordInv'
<1> SUFFICES ASSUME PasswordInv, [Next]_vars PROVE PasswordInv'
  OBVIOUS
<1> USE DEF clusterVars
<1>a. TypeInv /\ TypeInv'
  BY TypeStep DEF PasswordInv
<1>k. /\ \A p \in Processes : pass[p].password \in {None, secret} /\ IsHashOf(pass[p].hash, secret)
      /\ IsHashOf(hash, secret) /\ IsHashOf(None, secret)
      /\ \A o \in Pods : IsHashOf(pods[o].file, secret) /\ IsHashOf(pods[o].loaded, secret)
  BY DEF PasswordInv, KnowsSecret, OnePassword, IsHashOf
<1>t. /\ pass \in [Processes -> PassRecord] /\ pods \in [Pods -> PodRecord]
      /\ template \in Templates /\ hash \in Hashes
  BY <1>a DEF TypeInv, TypeOK, PassRecord, PodRecord
<1>n. None \in Hashes
  BY DEF Hashes
<1>1. ASSUME NEW o \in Pods, NEW t \in Templates, NEW f \in Hashes, Load(o, t, f), IsHashOf(f, secret),
             UNCHANGED <<secret, hash, pass>>
      PROVE  PasswordInv'
  <2>1. \A q \in Pods : IsHashOf(pods'[q].file, secret) /\ IsHashOf(pods'[q].loaded, secret)
    BY <1>a, <1>k, <1>1, LoadFacts
  <2> QED  BY <1>a, <1>k, <1>1, <2>1, PasswordParts
<1>2. ASSUME NEW o \in Pods, PodStep(o) PROVE PasswordInv'
  <2>1. CASE CreatePod(o)
    <3>1. (IF template.user THEN hash ELSE None) \in Hashes /\ IsHashOf(IF template.user THEN hash ELSE None, secret)
      BY <1>t, <1>n, <1>k
    <3> QED  BY <1>1, <1>t, <2>1, <3>1 DEF CreatePod
  <2>2. CASE RestartContainer(o)
    <3>1. pods[o].template \in Templates /\ pods[o].file \in Hashes
      BY <1>t DEF PodRecord
    <3> QED  BY <1>1, <1>k, <2>2, <3>1 DEF RestartContainer
  <2> QED  BY <1>2, <2>1, <2>2 DEF PodStep
<1>3. ASSUME NEW o \in Pods, RefreshMount(o) PROVE PasswordInv'
  <2>1. pods' = [pods EXCEPT ![o].file = hash] /\ UNCHANGED <<secret, hash, pass>>
    BY <1>3 DEF RefreshMount
  <2>2. \A q \in Pods : IsHashOf(pods'[q].file, secret) /\ IsHashOf(pods'[q].loaded, secret)
    BY <1>t, <1>k, <2>1 DEF PodRecord
  <2> QED  BY <1>a, <1>k, <2>1, <2>2, PasswordParts
<1>4. ASSUME NEW o \in Pods, CrashInPlace(o) PROVE PasswordInv'
  <2>1. pods' = [pods EXCEPT ![o].state = "starting", ![o].loaded = None] /\ UNCHANGED <<secret, hash, pass>>
    BY <1>4 DEF CrashInPlace
  <2>2. \A q \in Pods : IsHashOf(pods'[q].file, secret) /\ IsHashOf(pods'[q].loaded, secret)
    BY <1>t, <1>k, <2>1 DEF PodRecord
  <2> QED  BY <1>a, <1>k, <2>1, <2>2, PasswordParts
<1>5. CASE SyncPods \/ DeleteHash \/ Edit \/ (\E p \in Processes : TakeOver(p)) \/ UNCHANGED vars
  <2>1. UNCHANGED <<secret, pods, pass>> /\ hash' \in {hash, None}
    BY <1>5 DEF SyncPods, DeleteHash, Edit, TakeOver, vars
  <2> QED  BY <1>a, <1>k, <2>1, PasswordParts
<1>6. ASSUME NEW p \in Processes, BeginPass(p) PROVE PasswordInv'
  <2>1. /\ pass' = [pass EXCEPT ![p].pc = IF secret = None THEN "create" ELSE "hash",
                                ![p].mode = spec, ![p].password = secret]
        /\ UNCHANGED <<secret, hash, pods>>
    BY <1>6 DEF BeginPass
  <2>2. \A q \in Processes : pass'[q].password \in {None, secret} /\ pass'[q].hash = pass[q].hash
    BY <1>t, <1>k, <2>1 DEF PassRecord
  <2> QED  BY <1>a, <1>k, <2>1, <2>2, PasswordParts
<1>7. ASSUME NEW p \in Processes, ChooseHash(p) PROVE PasswordInv'
  <2>1. PICK h : /\ h = IF systemUserHashMatches(hash, pass[p].password, systemUserNeedsPBKDF2(pass[p].mode))
                        THEN hash
                        ELSE hashSystemUserPassword(pass[p].password, systemUserNeedsPBKDF2(pass[p].mode))
                 /\ pass' = [pass EXCEPT ![p].pc = "apply", ![p].hash = h]
                 /\ pass[p].pc = "hash" /\ UNCHANGED <<secret, hash, pods>>
    BY <1>7 DEF ChooseHash
  <2>2. pass[p].password = secret
    BY <1>a, <1>k, <2>1 DEF TypeInv, PassKnows
  <2>3. IsHashOf(h, secret)
    BY <1>k, <2>1, <2>2 DEF hashSystemUserPassword, IsHashOf
  <2>4. \A q \in Processes : pass'[q].password = pass[q].password /\ IsHashOf(pass'[q].hash, secret)
    BY <1>t, <1>k, <2>1, <2>3 DEF PassRecord
  <2> QED  BY <1>a, <1>k, <2>1, <2>4, PasswordParts
<1>8. ASSUME NEW p \in Processes, ApplyHash(p) \/ ApplyTemplate(p) PROVE PasswordInv'
  <2>1. /\ UNCHANGED <<secret, pods>>
        /\ hash' \in {hash, pass[p].hash}
        /\ \/ pass' = [pass EXCEPT ![p].pc = "template", ![p].hash = None]
           \/ pass' = [pass EXCEPT ![p].pc = "roll"]
    BY <1>8 DEF ApplyHash, ApplyTemplate
  <2>2. \A q \in Processes : pass'[q].password = pass[q].password /\ pass'[q].hash \in {None, pass[q].hash}
    BY <1>t, <2>1 DEF PassRecord
  <2> QED  BY <1>a, <1>k, <2>1, <2>2, PasswordParts
<1>9. ASSUME NEW p \in Processes, RestartNext(p) \/ FailPass(p) PROVE PasswordInv'
  <2>1. /\ UNCHANGED <<secret, hash>>
        /\ pass' = [pass EXCEPT ![p] = NoPass]
        /\ UNCHANGED pods \/ \E o \in Pods : pods' = [pods EXCEPT ![o] = Gone]
    BY <1>9 DEF RestartNext, FailPass, EndPass
  <2>2. \A q \in Processes : pass'[q].password \in {None, pass[q].password} /\ pass'[q].hash \in {None, pass[q].hash}
    BY <1>t, <2>1 DEF NoPass
  <2>3. \A o \in Pods : pods'[o].file \in {None, pods[o].file} /\ pods'[o].loaded \in {None, pods[o].loaded}
    BY <1>t, <2>1 DEF Gone
  <2> QED  BY <1>a, <1>k, <2>1, <2>2, <2>3, PasswordParts
<1>10. ASSUME NEW p \in Processes, CreatePassword(p) PROVE PasswordInv'
  <2>1. /\ secret' = IF secret = None THEN generated' ELSE secret
        /\ pass' = [pass EXCEPT ![p].pc = "hash", ![p].password = secret']
        /\ UNCHANGED <<hash, pods>>
    BY <1>10 DEF CreatePassword
  <2>2. \A q \in Processes : /\ pass'[q].password = IF q = p THEN secret' ELSE pass[q].password
                             /\ pass'[q].hash = pass[q].hash
    BY <1>t, <2>1 DEF PassRecord
  <2>3. CASE secret = None
    <3>1. KnowsSecret'
      BY <2>2, <2>3, NothingBeforeSecret DEF KnowsSecret
    <3>2. OnePassword'
      BY <2>1, <2>2, <2>3, NothingBeforeSecret DEF OnePassword, IsHashOf
    <3> QED  BY <1>a, <3>1, <3>2 DEF PasswordInv
  <2>4. CASE secret # None
    BY <1>a, <1>k, <2>1, <2>2, <2>4, PasswordParts
  <2> QED  BY <2>3, <2>4
<1> QED
  BY <1>2, <1>3, <1>4, <1>5, <1>6, <1>7, <1>8, <1>9, <1>10
     DEF Next, PassStep, Disruption

(* A pass that knows the one password gets into every ready pod: the scheme *)
(* the pod serves is tried in either TLS mode, and the credentials it wants *)
(* come first or after a refusal (dialSchemes, dialCredentials, Connect).   *)
LEMMA PasswordConnects ==
  ASSUME PasswordInv, NEW p \in Processes, NEW o \in Pods, pass[p].password # None
  PROVE  Connects(o, pass[p].mode.tls, pass[p].password)
<1> DEFINE tls == pass[p].mode.tls
           schemes == {dialSchemes(tls)[i] : i \in DOMAIN dialSchemes(tls)}
           credentials == dialCredentials(pass[p].password)
<1>1. PICK scheme \in {"bolt+ssc", "bolt"} : (scheme = "bolt+ssc") = pods[o].template.tls
  <2>1. pods[o].template.tls \in BOOLEAN
    BY DEF PasswordInv, TypeInv, TypeOK, Templates
  <2> QED  BY <2>1
<1>2. scheme \in schemes
  <2>1. CASE tls
    <3>1. dialSchemes(tls) = <<"bolt+ssc", "bolt">>
      BY <2>1 DEF dialSchemes
    <3> QED  BY <1>1, <3>1
  <2>2. CASE ~ tls
    <3>1. dialSchemes(tls) = <<"bolt", "bolt+ssc">>
      BY <2>2 DEF dialSchemes
    <3> QED  BY <1>1, <3>1
  <2> QED  BY <2>1, <2>2
<1>3. credentials = <<pass[p].password, None>>
  BY DEF dialCredentials
<1>4. pass[p].password = secret /\ IsHashOf(pods[o].loaded, secret)
  BY DEF PasswordInv, KnowsSecret, OnePassword
<1>5. CASE pods[o].loaded = None
  <2>1. /\ Answer(o, scheme, None) = "connected"
        /\ Answer(o, scheme, pass[p].password) = "unauthenticated"
    BY <1>1, <1>5 DEF Answer
  <2>2. /\ 2 \in DOMAIN credentials
        /\ Answer(o, scheme, credentials[2]) = "connected"
        /\ \A b \in 1 .. 2 - 1 : Answer(o, scheme, credentials[b]) = "unauthenticated"
    BY <1>3, <2>1
  <2> QED  BY <1>2, <2>2 DEF Connects
<1>6. CASE pods[o].loaded # None
  <2>1. Answer(o, scheme, pass[p].password) = "connected"
    BY <1>1, <1>4, <1>6 DEF Answer, IsHashOf
  <2>2. /\ 1 \in DOMAIN credentials
        /\ Answer(o, scheme, credentials[1]) = "connected"
        /\ \A b \in 1 .. 1 - 1 : Answer(o, scheme, credentials[b]) = "unauthenticated"
    BY <1>3, <2>1
  <2> QED  BY <1>2, <2>2 DEF Connects
<1> QED  BY <1>5, <1>6

(* Whatever processes race for the Secret, whatever is edited, deleted,     *)
(* restarted or failed, there is one password, and a pass that knows it     *)
(* connects to every ready pod: systemUserPassword's uncached read, and the *)
(* re-read of createSystemUserSecret after a lost race.                     *)
THEOREM OperatorNeverLockedOut == Spec => []NeverLockedOut
<1>1. PasswordInv => NeverLockedOut
  BY PasswordConnects DEF NeverLockedOut
<1> QED  BY <1>1, PasswordInit, PasswordStep, PTL DEF Spec

-----------------------------------------------------------------------------
(* No pod refuses its hash *)

Calm == OnePass /\ CacheCovers /\ NotLeftYet /\ HashFits /\ MountFits
          /\ \A o \in Pods : pods[o].state # "refused"

(* The initial states are settled: a new FIPS cluster has no pod yet.       *)
LEMMA SettledInit == Init => SettledInv
<1> SUFFICES ASSUME Init PROVE SettledInv
  OBVIOUS
<1>1. TypeInv
  BY TypeInit
<1>2. InFIPSMode = {}
  BY DEF Init, InFIPSMode, Gone, Legacy
<1>3. OnePass
  BY DEF Init, OnePass, NoPass
<1>4. CacheCovers /\ MountFits
  BY <1>2 DEF CacheCovers, MountFits
<1>5. NotLeftYet
  BY DEF Init, NotLeftYet, Legacy, Rendered
<1>6. HashFits
  BY DEF Init, HashFits, IsPBKDF2, NoPass
<1>7. \A o \in Pods : pods[o].state # "refused"
  BY DEF Init, Gone
<1> QED  BY <1>1, <1>3, <1>4, <1>5, <1>6, <1>7 DEF SettledInv

(* A pod that loads a file that fits is not refused, and keeps what the     *)
(* settled invariant says of the others.                                    *)
LEMMA LoadKeepsCalm ==
  ASSUME SettledInv, Calm, NEW o \in Pods, NEW t \in Templates, NEW f \in Hashes,
         Load(o, t, f), UNCHANGED <<spec, hash, template, cached, active, pass>>,
         t.fips => IsPBKDF2(f),
         t.fips /\ pods[o].state = "gone" => template.fips /\ spec.fips,
         pods[o].state # "gone" => t = pods[o].template
  PROVE  Calm'
<1>1. TypeInv
  BY DEF SettledInv
<1>2. /\ \A q \in Pods \ {o} : pods'[q] = pods[q]
      /\ pods'[o].template = t /\ pods'[o].file = f
      /\ pods'[o].state # "gone"
      /\ pods'[o].state = "refused" => t.fips /\ f # None /\ f.alg = "bcrypt"
  BY <1>1, LoadFacts
<1>3. \A q \in Pods : pods'[q].state # "refused"
  BY <1>2 DEF Calm, IsPBKDF2
<1>4. /\ InFIPSMode \subseteq InFIPSMode'
      /\ \A q \in InFIPSMode' : q \in InFIPSMode \/ (q = o /\ template.fips /\ spec.fips)
  BY <1>2 DEF InFIPSMode
<1>5. SomeFIPS' => SomeFIPS
  BY <1>4 DEF SomeFIPS
<1>6. OnePass' /\ HashFits'
  BY <1>5 DEF Calm, OnePass, HashFits, Rendered
<1>7. CacheCovers' /\ NotLeftYet'
  BY <1>4 DEF Calm, CacheCovers, NotLeftYet
<1>8. MountFits'
  BY <1>2, <1>4 DEF Calm, MountFits, InFIPSMode
<1> QED  BY <1>3, <1>6, <1>7, <1>8 DEF Calm

(* A pass moves on, without touching the pods.                              *)
LEMMA PassKeepsCalm ==
  ASSUME SettledInv, Calm, NEW p \in Processes, NEW new,
         pass' = [pass EXCEPT ![p] = new], UNCHANGED <<spec, hash, template, pods, cached, active>>,
         new.pc # "idle" => p = active /\ new.mode = spec,
         new.pc = "roll" => template = Rendered(spec),
         new.pc # "template",
         new.pc = "apply" /\ (SomeFIPS \/ spec.fips) => IsPBKDF2(new.hash)
  PROVE  Calm'
<1>1. pass \in [Processes -> PassRecord]
  BY DEF SettledInv, TypeInv, TypeOK, PassRecord
<1>2. pass'[p] = new /\ \A q \in Processes \ {p} : pass'[q] = pass[q]
  BY <1>1
<1>3. InFIPSMode' = InFIPSMode /\ SomeFIPS' = SomeFIPS
  BY DEF InFIPSMode, SomeFIPS
<1>4. OnePass'
  BY <1>2 DEF Calm, OnePass, Rendered
<1>5. HashFits'
  BY <1>2, <1>3 DEF Calm, HashFits
<1>6. CacheCovers' /\ NotLeftYet' /\ MountFits' /\ \A o \in Pods : pods'[o].state # "refused"
  BY <1>3 DEF Calm, CacheCovers, NotLeftYet, MountFits
<1> QED  BY <1>4, <1>5, <1>6 DEF Calm

(* A hash chosen in a settled cluster is of FIPS mode's algorithm if the    *)
(* spec asks for it, or if there is a FIPS pod or a template for one        *)
(* (systemUserNeedsPBKDF2 asks the cached pods).                            *)
LEMMA ChosenHashFits ==
  ASSUME SettledInv, Calm, NEW p \in Processes, pass[p].pc = "hash", SomeFIPS \/ spec.fips
  PROVE  systemUserNeedsPBKDF2(pass[p].mode)
<1>1. pass[p].mode = spec
  BY DEF Calm, OnePass
<1>2. CASE spec.fips
  BY <1>1, <1>2 DEF systemUserNeedsPBKDF2
<1>3. CASE ~ spec.fips
  <2>1. InFIPSMode # {}
    BY <1>3, PodsAssumption DEF SomeFIPS, Calm, NotLeftYet
  <2>2. cached # {}
    BY <1>3, <2>1 DEF Calm, CacheCovers
  <2> QED  BY <2>2 DEF systemUserNeedsPBKDF2
<1> QED  BY <1>2, <1>3

(* Every step of a settled cluster that leaves it settled keeps the hash    *)
(* fit for the pods that find it.                                           *)
LEMMA CalmStep == SettledInv /\ Calm /\ [Next]_vars /\ ~ unsettled' => Calm'
<1> SUFFICES ASSUME SettledInv, Calm, [Next]_vars, ~ unsettled' PROVE Calm'
  OBVIOUS
<1> USE DEF clusterVars
<1>a. TypeInv
  BY DEF SettledInv
<1>t. /\ pass \in [Processes -> PassRecord] /\ pods \in [Pods -> PodRecord]
      /\ template \in Templates /\ hash \in Hashes /\ spec \in Modes
  BY <1>a DEF TypeInv, TypeOK, PassRecord, PodRecord
<1>n. None \in Hashes /\ IsPBKDF2(None)
  BY DEF Hashes, IsPBKDF2
<1>1. ASSUME NEW o \in Pods, CreatePod(o) PROVE Calm'
  <2> DEFINE f == IF template.user THEN hash ELSE None
  <2>1. pods[o].state = "gone" /\ Load(o, template, f) /\ f \in Hashes
        /\ UNCHANGED <<spec, hash, template, cached, active, pass>>
    BY <1>1, <1>t, <1>n DEF CreatePod
  <2>2. template.fips => IsPBKDF2(f)
    BY <1>n DEF Calm, HashFits, SomeFIPS
  <2>3. template.fips => spec.fips
    BY <2>1 DEF Calm, NotLeftYet, InFIPSMode
  <2> HIDE DEF f
  <2> QED  BY <1>t, <2>1, <2>2, <2>3, LoadKeepsCalm
<1>2. ASSUME NEW o \in Pods, RestartContainer(o) PROVE Calm'
  <2>1. /\ pods[o].template \in Templates /\ pods[o].file \in Hashes /\ pods[o].state # "gone"
        /\ Load(o, pods[o].template, pods[o].file) /\ UNCHANGED <<spec, hash, template, cached, active, pass>>
    BY <1>2, <1>t DEF RestartContainer, PodRecord
  <2>2. pods[o].template.fips => IsPBKDF2(pods[o].file)
    BY <2>1 DEF Calm, MountFits, InFIPSMode
  <2> QED  BY <2>1, <2>2, LoadKeepsCalm
<1>3. ASSUME NEW o \in Pods, RefreshMount(o) \/ CrashInPlace(o) PROVE Calm'
  <2>1. /\ UNCHANGED <<spec, hash, template, cached, active, pass>>
        /\ pods[o].state # "gone"
        /\ \/ pods' = [pods EXCEPT ![o].file = hash]
           \/ pods' = [pods EXCEPT ![o].state = "starting", ![o].loaded = None]
    BY <1>3 DEF RefreshMount, CrashInPlace, Ready
  <2>2. \A q \in Pods : /\ pods'[q].template = pods[q].template
                        /\ pods'[q].state = "gone" <=> pods[q].state = "gone"
                        /\ pods'[q].state # "refused"
                        /\ pods'[q].file \in {pods[q].file, hash}
    BY <1>t, <2>1 DEF PodRecord, Calm
  <2>3. InFIPSMode' = InFIPSMode /\ SomeFIPS' = SomeFIPS
    BY <2>1, <2>2 DEF InFIPSMode, SomeFIPS
  <2>4. MountFits'
    BY <2>2, <2>3 DEF Calm, MountFits, HashFits, SomeFIPS, InFIPSMode
  <2>5. OnePass' /\ CacheCovers' /\ NotLeftYet' /\ HashFits'
    BY <2>1, <2>3 DEF Calm, OnePass, CacheCovers, NotLeftYet, HashFits, Rendered
  <2> QED  BY <2>2, <2>4, <2>5 DEF Calm
<1>4. ASSUME UNCHANGED <<spec, template, pods, active, pass>>, hash' \in {hash, None},
             cached' \in {cached, InFIPSMode}
      PROVE  Calm'
  <2>1. InFIPSMode' = InFIPSMode /\ SomeFIPS' = SomeFIPS
    BY <1>4 DEF InFIPSMode, SomeFIPS
  <2>2. IsPBKDF2(hash) => IsPBKDF2(hash')
    BY <1>n, <1>4
  <2> QED  BY <1>4, <2>1, <2>2 DEF Calm, OnePass, CacheCovers, NotLeftYet, HashFits, MountFits, Rendered
<1>5. CASE SyncPods \/ DeleteHash \/ UNCHANGED vars
  BY <1>4, <1>5 DEF SyncPods, DeleteHash, vars
<1>6. CASE Edit
  <2>1. /\ RolledOut /\ \A p \in Processes : pass[p].pc = "idle"
        /\ spec' \in Modes
        /\ UNCHANGED <<hash, template, pods, cached, active, pass>>
    BY <1>6 DEF Edit, Idle
  <2>2. InFIPSMode' = InFIPSMode /\ SomeFIPS' = SomeFIPS
    BY <2>1 DEF InFIPSMode, SomeFIPS
  <2>3. cached = InFIPSMode /\ (template.fips => \A o \in Pods : o \in InFIPSMode)
    BY <2>1 DEF RolledOut, Outdated, Ready, InFIPSMode
  <2>4. OnePass' /\ HashFits'
    BY <2>1, <2>2 DEF Calm, OnePass, HashFits
  <2>5. CacheCovers' /\ NotLeftYet' /\ MountFits' /\ \A o \in Pods : pods'[o].state # "refused"
    BY <2>1, <2>2, <2>3 DEF Calm, CacheCovers, NotLeftYet, MountFits
  <2> QED  BY <2>4, <2>5 DEF Calm
<1>7. ASSUME NEW p \in Processes, TakeOver(p) PROVE Calm'
  BY <1>7 DEF TakeOver
<1>8. ASSUME NEW p \in Processes, BeginPass(p) PROVE Calm'
  <2> DEFINE new == [pass[p] EXCEPT !.pc = IF secret = None THEN "create" ELSE "hash",
                                    !.mode = spec, !.password = secret]
  <2>1. pass' = [pass EXCEPT ![p] = new] /\ p = active
        /\ UNCHANGED <<spec, hash, template, pods, cached, active>>
    BY <1>t, <1>8 DEF BeginPass, PassRecord
  <2>2. new.pc \in {"create", "hash"}
    BY <1>t DEF PassRecord
  <2>3. new.mode = spec
    BY <1>t DEF PassRecord
  <2> HIDE DEF new
  <2> QED  BY <2>1, <2>2, <2>3, PassKeepsCalm
<1>14. ASSUME NEW p \in Processes, CreatePassword(p) PROVE Calm'
  <2> DEFINE new == [pass[p] EXCEPT !.pc = "hash", !.password = secret']
  <2>1. pass' = [pass EXCEPT ![p] = new] /\ pass[p].pc = "create"
        /\ UNCHANGED <<spec, hash, template, pods, cached, active>>
    BY <1>t, <1>14 DEF CreatePassword, PassRecord
  <2>2. new.pc = "hash" /\ new.mode = pass[p].mode
    BY <1>t DEF PassRecord
  <2>3. p = active /\ pass[p].mode = spec
    BY <2>1 DEF Calm, OnePass
  <2> HIDE DEF new
  <2> QED  BY <2>1, <2>2, <2>3, PassKeepsCalm
<1>9. ASSUME NEW p \in Processes, ChooseHash(p) PROVE Calm'
  <2> DEFINE fips == systemUserNeedsPBKDF2(pass[p].mode)
             h == IF systemUserHashMatches(hash, pass[p].password, fips) THEN hash
                  ELSE hashSystemUserPassword(pass[p].password, fips)
             new == [pass[p] EXCEPT !.pc = "apply", !.hash = h]
  <2>1. pass' = [pass EXCEPT ![p] = new] /\ pass[p].pc = "hash"
    BY <1>t, <1>9 DEF ChooseHash, PassRecord
  <2>2. SomeFIPS \/ spec.fips => IsPBKDF2(h)
    <3>1. fips => IsPBKDF2(h)
      BY DEF systemUserHashMatches, hashSystemUserPassword, Algorithm, IsPBKDF2
    <3> QED  BY <2>1, <3>1, ChosenHashFits
  <2>3. p = active /\ new.mode = spec /\ new.pc = "apply" /\ new.hash = h
    BY <1>t, <2>1 DEF PassRecord, Calm, OnePass
  <2>4. UNCHANGED <<spec, hash, template, pods, cached, active>>
    BY <1>9 DEF ChooseHash
  <2> HIDE DEF new, h
  <2> QED  BY <2>1, <2>2, <2>3, <2>4, PassKeepsCalm
<1>10. ASSUME NEW p \in Processes, ApplyHash(p) PROVE Calm'
  <2>1. /\ pass[p].pc = "apply" /\ hash' = pass[p].hash
        /\ pass' = [pass EXCEPT ![p].pc = "template", ![p].hash = None]
        /\ UNCHANGED <<spec, template, pods, cached, active>>
    BY <1>10 DEF ApplyHash
  <2>2. InFIPSMode' = InFIPSMode /\ SomeFIPS' = SomeFIPS
    BY <2>1 DEF InFIPSMode, SomeFIPS
  <2>3. /\ pass'[p].pc = "template" /\ pass'[p].mode = pass[p].mode
        /\ \A q \in Processes \ {p} : pass'[q] = pass[q]
    BY <1>t, <2>1 DEF PassRecord
  <2>a. p = active /\ pass[p].mode = spec
    BY <2>1 DEF Calm, OnePass
  <2>b. ASSUME NEW q \in Processes
        PROVE  /\ pass'[q].pc # "idle" => q = active /\ pass'[q].mode = spec
               /\ pass'[q].pc = "roll" => template = Rendered(spec)
               /\ pass'[q].pc = "apply" => pass[q].pc = "apply" /\ pass'[q].hash = pass[q].hash
    <3>1. CASE q = p
      BY <2>3, <2>a, <3>1
    <3>2. CASE q # p
      <4>1. pass'[q] = pass[q]
        BY <2>3, <3>2
      <4> QED  BY <4>1 DEF Calm, OnePass
    <3> QED  BY <3>1, <3>2
  <2>4. OnePass'
    BY <2>1, <2>b DEF OnePass, Rendered
  <2>5. SomeFIPS \/ spec.fips => IsPBKDF2(hash')
    BY <2>1 DEF Calm, HashFits
  <2>c. \A q \in Processes : pass'[q].pc = "apply" /\ (SomeFIPS \/ spec.fips) => IsPBKDF2(pass'[q].hash)
    BY <2>b DEF Calm, HashFits
  <2>6. HashFits'
    BY <2>1, <2>2, <2>5, <2>c DEF HashFits, IsPBKDF2
  <2>7. CacheCovers' /\ NotLeftYet' /\ MountFits' /\ \A o \in Pods : pods'[o].state # "refused"
    BY <2>1, <2>2 DEF Calm, CacheCovers, NotLeftYet, MountFits
  <2> QED  BY <2>4, <2>6, <2>7 DEF Calm
<1>11. ASSUME NEW p \in Processes, ApplyTemplate(p) PROVE Calm'
  <2>1. /\ pass[p].pc = "template" /\ template' = Rendered(spec) /\ pass[p].mode = spec
        /\ pass' = [pass EXCEPT ![p].pc = "roll"]
        /\ UNCHANGED <<spec, hash, pods, cached, active>>
    BY <1>11 DEF ApplyTemplate, Calm, OnePass
  <2>2. InFIPSMode' = InFIPSMode /\ template'.fips = spec.fips
    BY <2>1 DEF InFIPSMode, Rendered
  <2>3. \A q \in Processes : /\ pass'[q].pc = IF q = p THEN "roll" ELSE pass[q].pc
                             /\ pass'[q].mode = pass[q].mode /\ pass'[q].hash = pass[q].hash
    BY <1>t, <2>1 DEF PassRecord
  <2>4. OnePass'
    BY <2>1, <2>3 DEF Calm, OnePass, Rendered
  <2>5. NotLeftYet'
    BY <2>1, <2>2 DEF NotLeftYet
  <2>6. SomeFIPS' => SomeFIPS \/ spec.fips
    BY <2>2 DEF SomeFIPS
  <2>7. HashFits'
    BY <2>1, <2>3, <2>6 DEF Calm, HashFits
  <2>8. CacheCovers' /\ MountFits' /\ \A o \in Pods : pods'[o].state # "refused"
    BY <2>1, <2>2 DEF Calm, CacheCovers, MountFits
  <2> QED  BY <2>4, <2>5, <2>7, <2>8 DEF Calm
<1>12. ASSUME NEW p \in Processes, FailPass(p) PROVE Calm'
  <2>1. pass' = [pass EXCEPT ![p] = NoPass] /\ NoPass.pc = "idle"
        /\ UNCHANGED <<spec, hash, template, pods, cached, active>>
    BY <1>12 DEF FailPass, EndPass, NoPass
  <2> QED  BY <2>1, PassKeepsCalm
<1>13. ASSUME NEW p \in Processes, RestartNext(p) PROVE Calm'
  <2>1. /\ pass[p].pc = "roll" /\ pass' = [pass EXCEPT ![p] = NoPass]
        /\ UNCHANGED <<spec, hash, template, cached, active>>
        /\ UNCHANGED pods \/ \E o \in Pods : pods' = [pods EXCEPT ![o] = Gone]
    BY <1>13 DEF RestartNext, EndPass
  <2>2. template.fips => spec.fips
    BY <2>1 DEF Calm, OnePass, Rendered
  <2>3. \A q \in Pods : pods'[q] \in {pods[q], Gone}
    BY <1>t, <2>1
  <2>4. InFIPSMode' \subseteq InFIPSMode /\ \A o \in InFIPSMode' : pods'[o].file = pods[o].file
    BY <2>3 DEF InFIPSMode, Gone
  <2>5. SomeFIPS' => SomeFIPS
    BY <2>1, <2>4 DEF SomeFIPS
  <2>6. \A q \in Processes : pass'[q].pc \in {"idle", pass[q].pc} /\ (pass'[q].pc # "idle" => pass'[q] = pass[q])
    BY <1>t, <2>1 DEF NoPass
  <2>7. OnePass' /\ HashFits'
    BY <2>1, <2>5, <2>6 DEF Calm, OnePass, HashFits, Rendered
  <2>8. CacheCovers' /\ NotLeftYet' /\ MountFits'
    BY <2>1, <2>2, <2>4 DEF Calm, CacheCovers, NotLeftYet, MountFits
  <2>9. \A o \in Pods : pods'[o].state # "refused"
    BY <2>3 DEF Calm, Gone
  <2> QED  BY <2>7, <2>8, <2>9 DEF Calm
<1> QED
  BY <1>1, <1>2, <1>3, <1>5, <1>6, <1>7, <1>8, <1>9, <1>10, <1>11, <1>12, <1>13, <1>14
     DEF Next, PassStep, PodStep, Disruption

(* A cluster that an edit or an election overtook stays marked.             *)
LEMMA UnsettledStays == TypeInv /\ [Next]_vars /\ unsettled => unsettled'
  BY DEF Next, PassStep, PodStep, Disruption, vars, BeginPass, CreatePassword, ChooseHash, ApplyHash,
         ApplyTemplate, RestartNext, CreatePod, RestartContainer, RefreshMount, SyncPods, Edit,
         DeleteHash, CrashInPlace, FailPass, TakeOver

(* Every step keeps the settled invariant.                                  *)
LEMMA SettledStep == SettledInv /\ [Next]_vars => SettledInv'
<1> SUFFICES ASSUME SettledInv, [Next]_vars PROVE SettledInv'
  OBVIOUS
<1>1. TypeInv /\ TypeInv'
  BY TypeStep DEF SettledInv
<1>2. ASSUME ~ unsettled' PROVE Calm'
  BY <1>1, <1>2, CalmStep, UnsettledStays DEF SettledInv, Calm
<1> QED  BY <1>1, <1>2 DEF SettledInv, Calm

(* The mounted hash is switched before the first pod that needs the other   *)
(* algorithm and back only after the last (reconcileSystemUser runs before  *)
(* the template is applied, and asks the cached pods): as long as each edit *)
(* waits for the roll of the one before and no pass is left behind by an    *)
(* election, no pod refuses its hash, for any number of pods and edits,     *)
(* however late the cache and the mounts and through failed passes, deleted *)
(* hashes and containers that restart in place.                             *)
THEOREM PodsNeverRefuse == Spec => []NoPodRefusesItsHash
<1>1. SettledInv => NoPodRefusesItsHash
  BY DEF SettledInv, TypeInv, TypeOK, NoPodRefusesItsHash
<1> QED  BY <1>1, SettledInit, SettledStep, PTL DEF Spec
=============================================================================
