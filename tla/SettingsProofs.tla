--------------------------- MODULE SettingsProofs ---------------------------
(***************************************************************************)
(* The safety properties of Settings, for every set of pods, of licenses,  *)
(* of specs and of startup keys and every number of edits and faults: its  *)
(* types, that a license is given only under the organization it is issued *)
(* to, and that Ready is earned by the pass that reports it.               *)
(***************************************************************************)
EXTENDS Settings, WellFoundedInduction, TLAPS

-----------------------------------------------------------------------------
(* The inductive invariants *)

(* A condition of a generation the resource has had, and a status of such   *)
(* conditions.                                                              *)
IsCondition(c, generation) ==
  /\ c = [status |-> c.status, reason |-> c.reason, gen |-> c.gen]
  /\ c.status \in {"Absent", "True", "False", "Unknown"}
  /\ c.gen \in 0 .. generation

IsStatus(status, generation) ==
  /\ status = [main |-> status.main, conditions |-> status.conditions]
  /\ status.main \in Pods \cup {None}
  /\ status.conditions = [t \in ConditionTypes |-> status.conditions[t]]
  /\ \A t \in ConditionTypes : IsCondition(status.conditions[t], generation)

IsResource(resource) ==
  /\ resource = [spec |-> resource.spec, generation |-> resource.generation, status |-> resource.status]
  /\ resource.spec \in Specs
  /\ resource.generation \in 1 .. cluster.generation
  /\ IsStatus(resource.status, cluster.generation)

PodRecord == [state : {"ready", "down", "gone"}, template : Templates, settings : SettingsOf]
Outcomes  == [pending : BOOLEAN, rejected : BOOLEAN, unknown : BOOLEAN]
SeenSets  == [template : Templates, generation : Nat \ {0}]

ClusterType ==
  /\ cluster.generation \in Nat
  /\ IsResource(cluster) /\ IsResource(cached)
  /\ secrets \in [license : Licenses \cup {None}, aws : Credentials \cup {None}]
  /\ sets \in [template : Templates, generation : Nat \ {0}, level : Nat]
  /\ seenSets \in SeenSets
  /\ pods \in [Pods -> PodRecord]
  /\ raft \in [leader : Pods \cup {None}, main : Pods \cup {None}, registered : BOOLEAN, setting : BOOLEAN]
  /\ budget \in [changes : Nat, faults : Nat, stale : Nat]

(* The stages of a pass between its apply and its end. *)
Visits   == {"license", "observe", "flags", "classify", "aws"}
Underway == Visits \cup {"settings", "finish"}
Stages   == {"begun", "publish"} \cup Underway

Fields == {"at", "spec", "generation", "orig", "status", "serving", "set", "stale", "ready", "running",
           "todo", "desired", "reads", "license", "outcome", "main", "config", "settings", "owed",
           "steady"}

HasFields(p) == p = [f \in Fields |-> p[f]]

IsInjectiveSeq(s, S) == s \in Seq(S) /\ \A i, j \in 1 .. Len(s) : s[i] = s[j] => i = j

PassType ==
  IF pass.at = "idle" THEN pass = Idle
  ELSE /\ HasFields(pass)
       /\ pass.at \in Stages
       /\ pass.spec \in Specs
       /\ pass.generation \in 1 .. cluster.generation
       /\ IsStatus(pass.orig, cluster.generation) /\ IsStatus(pass.status, cluster.generation)
       /\ IsCondition(pass.serving, cluster.generation)
       /\ pass.set \in SeenSets
       /\ pass.stale \in BOOLEAN
       /\ pass.ready \subseteq Pods /\ pass.steady \subseteq Pods
       /\ IsInjectiveSeq(pass.todo, Pods)
       /\ pass.desired \in SettingsOf
       /\ pass.reads \in [Pods -> SettingsOf \cup {None, Failed}]
       /\ pass.license \in Outcomes /\ pass.outcome \in Outcomes
       /\ pass.main \in Pods \cup {None}
       /\ pass.settings \in BOOLEAN

(* The cache is not ahead of the StatefulSets, and a generation is of one   *)
(* template.                                                                *)
SetsSeen ==
  /\ seenSets.generation <= sets.generation
  /\ seenSets.generation = sets.generation => seenSets.template = sets.template

TypeInv == ClusterType /\ PassType /\ SetsSeen

(* The pods a pass still counts on: ready when it looked and up ever since. *)
Counted == pass.ready \cap pass.steady

(* What the pass read of the pods is still so. *)
PodsAsRead ==
  pass.at \in Underway =>
    /\ pass.ready \subseteq DOMAIN pass.running
    /\ \A o \in DOMAIN pass.running :
         o \in Pods /\ pods[o].state # "gone" /\ pass.running[o] = pods[o].template
    /\ \A o \in Counted : Up(o)

(* Whether the pass has yet to deal with a setting of a pod. *)
Ahead(o, setting) ==
  LET inTurn == o \in ToSet(pass.todo)
  IN  CASE setting \in {"license", "organization"} -> pass.at = "license" /\ inTurn
        [] setting = "level" -> pass.at \in {"license", "observe"} \/ (pass.at = "flags" /\ inTurn)
        [] setting = "aws" -> pass.at \in {"license", "observe", "flags"} \/ (pass.at = "aws" /\ inTurn)

SettingNames == {"organization", "license", "level", "aws"}

(* Until it has, its read of the setting is true of the pod. *)
ReadsMirror ==
  /\ pass.at = "begun" => \A o \in Pods : pass.reads[o] = None
  /\ pass.at \in Visits =>
       \A o \in Pods :
         pass.reads[o] \notin {None, Failed} =>
           /\ o \in pass.ready
           /\ o \in pass.steady =>
                \A s \in SettingNames : Ahead(o, s) => pods[o].settings[s] = pass.reads[o][s]

(* A license the pass asks for goes with its organization. *)
AsksForPairs ==
  pass.at = "license" /\ pass.todo # <<>> =>
    pass.desired.license \in Licenses /\ pass.desired.organization = Issued[pass.desired.license]

LicenseInv == TypeInv /\ PodsAsRead /\ ReadsMirror /\ AsksForPairs

(* Nothing is owed of the license, of the other settings. *)
Clean(outcome) == ~ outcome.pending /\ ~ outcome.rejected

Runs(o, setting) == pods[o].settings[setting] = pass.desired[setting]

(* Once it has dealt with a setting and owes nothing, the pods it counts on *)
(* run what it asks for.                                                    *)
DeliveredTo(o) ==
  /\ Clean(pass.license) /\ ~ Ahead(o, "license") => Runs(o, "license") /\ Runs(o, "organization")
  /\ pass.at \notin {"license", "observe"} /\ Clean(pass.outcome) /\ ~ Ahead(o, "level") =>
       Runs(o, "level")
  /\ pass.at \notin {"license", "observe", "flags"} /\ Clean(pass.outcome) /\ IsData(o)
       /\ ~ Ahead(o, "aws") => Runs(o, "aws")

Delivered == pass.at \in Underway => \A o \in Counted : DeliveredTo(o)

(* The level asked for is the spec's, and the StatefulSets read are the     *)
(* applied ones unless they are stale.                                      *)
AsksForSpec ==
  /\ pass.at \in Underway \ {"license", "observe"} => pass.desired.level = pass.spec.level
  /\ pass.at \in Underway /\ ~ pass.stale => pass.set.template = TemplateOf(pass.spec)
  /\ pass.at = "begun" => pass.set.generation <= sets.generation
  /\ pass.at = "begun" /\ pass.set.generation = sets.generation => pass.set.template = sets.template

(* A pod of the image that is being rolled out has described its flags. *)
DescribesImage ==
  pass.at \in {"settings", "finish"} /\ pass.config # None =>
    \A o \in Counted :
      pass.running[o].image = pass.set.template.image => pass.config = Config[pass.set.template.image]

(* The coordinator setting is set, or the pass owes it. *)
SettingDelivered ==
  pass.at = "finish" /\ pass.config # None /\ WantsSetting /\ ~ pass.outcome.rejected => raft.setting

(* The three conditions Ready is summarised from are True for a generation. *)
AllTrue(conditions, generation) ==
  \A t \in ConditionTypes \ {"Ready"} : conditions[t].status = "True" /\ conditions[t].gen = generation

(* They are not, unless Ready is, or says that MAIN is not served. *)
Summarised(conditions) ==
  \A generation \in Nat :
    AllTrue(conditions, generation) =>
      conditions["Ready"] = Condition("True", "Reconciled", generation) \/ KeepsReady(conditions["Ready"])

Untouched == pass.status = InitializeConditions(pass.orig, pass.generation)

(* What the pass has recorded so far is its own. *)
Recorded ==
  /\ pass.at \in {"begun", "license"} => Untouched
  /\ pass.at \in {"begun"} \cup Underway => pass.serving = Absent
  /\ pass.at \in Underway \ {"license"} /\ pass.status.conditions["LicenseApplied"].status = "True" =>
       Clean(pass.license)

(* What Ready is to be earned with. *)
Earned ==
  /\ pass.serving.status = "True" /\ pass.main # None
  /\ \A o \in Counted : Up(o) /\ RunsWhatWasAsked(o)
  /\ pass.config # None /\ WantsSetting => raft.setting

(* A pass that ends without a verdict has recorded nothing that makes Ready *)
(* True; one that ends with it has earned what it records.                  *)
ConcludesEarned ==
  pass.at = "publish" =>
    \/ pass.serving = Absent /\ Untouched
    \/ /\ pass.status.conditions["Converged"].gen = pass.generation
       /\ pass.serving = Absent => pass.status.conditions["Converged"].status = "False"
       /\ pass.serving.status = "False" => pass.serving.reason \in servingReasons
       /\ pass.serving = Absent \/ pass.serving.status \in {"True", "False"}
       /\ AllTrue(pass.status.conditions, pass.generation) /\ pass.serving.status = "True" => Earned

StatusesSummarised ==
  /\ Summarised(cluster.status.conditions) /\ Summarised(cached.status.conditions)
  /\ pass.at # "idle" => Summarised(pass.orig.conditions)

SettingsInv ==
  /\ LicenseInv /\ Delivered /\ AsksForSpec /\ DescribesImage /\ SettingDelivered
  /\ Recorded /\ ConcludesEarned /\ StatusesSummarised

-----------------------------------------------------------------------------
(* Lemmas on conditions *)

(* A condition decided for a generation the resource has had.               *)
LEMMA ConditionType ==
  ASSUME NEW generation \in Nat, NEW g \in 0 .. generation, NEW r,
         NEW s \in {"Absent", "True", "False", "Unknown"}
  PROVE  IsCondition(Condition(s, r, g), generation)
  BY DEF IsCondition, Condition

(* Later generations make no condition or status ill typed.                 *)
LEMMA LaterType ==
  ASSUME NEW g \in Nat, NEW h \in Nat, g <= h
  PROVE  /\ \A c : IsCondition(c, g) => IsCondition(c, h)
         /\ \A s : IsStatus(s, g) => IsStatus(s, h)
<1>1. \A c : IsCondition(c, g) => IsCondition(c, h)
  BY DEF IsCondition
<1> QED  BY <1>1 DEF IsStatus

(* InitializeConditions keeps what is there and sets the rest to Unknown.   *)
LEMMA InitializeFacts ==
  ASSUME NEW generation \in Nat, NEW g \in 0 .. generation, NEW status, IsStatus(status, generation)
  PROVE  LET new == InitializeConditions(status, g)
         IN  /\ IsStatus(new, generation)
             /\ new.main = status.main
             /\ \A t \in ConditionTypes :
                  new.conditions[t] = IF status.conditions[t] = Absent
                                      THEN Condition("Unknown", "Reconciling", g)
                                      ELSE status.conditions[t]
<1> DEFINE new == InitializeConditions(status, g)
           conditions == [t \in ConditionTypes |-> IF status.conditions[t] = Absent
                            THEN Condition("Unknown", "Reconciling", g) ELSE status.conditions[t]]
<1>1. status = [main |-> status.main, conditions |-> status.conditions]
  BY DEF IsStatus
<1>2. new = [status EXCEPT !.conditions = conditions]
  BY DEF InitializeConditions
<1> HIDE DEF conditions
<1>3. new = [main |-> new.main, conditions |-> new.conditions]
      /\ new.main = status.main /\ new.conditions = conditions
  BY <1>1, <1>2
<1>4. IsCondition(Condition("Unknown", "Reconciling", g), generation)
  BY ConditionType
<1>5. \A t \in ConditionTypes : IsCondition(status.conditions[t], generation)
  BY DEF IsStatus
<1> HIDE DEF new
<1>6. conditions = [t \in ConditionTypes |-> conditions[t]]
  BY DEF conditions
<1>7. \A t \in ConditionTypes :
        conditions[t] = IF status.conditions[t] = Absent
                        THEN Condition("Unknown", "Reconciling", g) ELSE status.conditions[t]
  BY DEF conditions
<1>8. \A t \in ConditionTypes : IsCondition(conditions[t], generation)
  BY <1>4, <1>5, <1>7
<1>9. IsStatus(new, generation)
  BY <1>3, <1>6, <1>8 DEF IsStatus
<1> QED  BY <1>3, <1>7, <1>9 DEF new

(* setStatus sets what it is given and keeps the rest.                      *)
LEMMA SetStatusFacts ==
  ASSUME NEW generation \in Nat, NEW status, IsStatus(status, generation),
         NEW main \in Pods \cup {None}, NEW given,
         \A t \in DOMAIN given : IsCondition(given[t], generation)
  PROVE  LET new == setStatus(status, main, given)
         IN  /\ IsStatus(new, generation)
             /\ \A t \in ConditionTypes :
                  new.conditions[t] = IF t \in DOMAIN given THEN given[t] ELSE status.conditions[t]
<1> DEFINE conditions == [t \in ConditionTypes |-> IF t \in DOMAIN given THEN given[t] ELSE status.conditions[t]]
           new == [main |-> main, conditions |-> conditions]
<1>1. setStatus(status, main, given) = new
  BY DEF setStatus
<1>2. \A t \in ConditionTypes : IsCondition(conditions[t], generation)
  BY DEF IsStatus
<1>3. \A t \in ConditionTypes :
        conditions[t] = IF t \in DOMAIN given THEN given[t] ELSE status.conditions[t]
  OBVIOUS
<1>4. conditions = [t \in ConditionTypes |-> conditions[t]]
  OBVIOUS
<1> HIDE DEF conditions
<1>5. new = [main |-> new.main, conditions |-> new.conditions] /\ new.main = main
      /\ new.conditions = conditions
  OBVIOUS
<1> HIDE DEF new
<1>6. IsStatus(new, generation)
  BY <1>2, <1>4, <1>5 DEF IsStatus
<1> QED  BY <1>1, <1>3, <1>5, <1>6

(* Ready is a condition of this generation, True only if it is summarised   *)
(* from three True ones, or one that is kept or a verdict of not serving.   *)
LEMMA ReadyFacts ==
  ASSUME NEW generation \in Nat, NEW g \in 0 .. generation,
         NEW serving, IsCondition(serving, generation),
         NEW conditions, \A t \in ConditionTypes : IsCondition(conditions[t], generation)
  PROVE  LET ready == readyCondition(serving, conditions, g)
         IN  /\ IsCondition(ready, generation) /\ ready.gen = g
             /\ ready.status = "True" =>
                  /\ serving = Absent => ~ KeepsReady(conditions["Ready"])
                  /\ AllTrue(conditions, g) /\ ready.reason = "Reconciled"
                  /\ serving = Absent \/ serving.status = "True"
             /\ \/ ready.status = "True" /\ ready.reason = "Reconciled"
                \/ KeepsReady(ready)
                \/ ~ AllTrue(conditions, g)
                \/ serving # Absent /\ serving.status # "True"
<1> DEFINE ready == readyCondition(serving, conditions, g)
<1>1. /\ ConditionTypes = {"Ready", "LicenseApplied", "Converged", "Updated"}
      /\ IsCondition(conditions["Ready"], generation)
      /\ IsCondition(conditions["LicenseApplied"], generation)
      /\ IsCondition(conditions["Converged"], generation)
      /\ IsCondition(conditions["Updated"], generation)
  BY DEF ConditionTypes
<1>2. ASSUME NEW c, IsCondition(c, generation)
      PROVE  /\ IsCondition([c EXCEPT !.gen = g], generation) /\ [c EXCEPT !.gen = g].gen = g
             /\ [c EXCEPT !.gen = g].status = c.status /\ [c EXCEPT !.gen = g].reason = c.reason
  BY <1>2 DEF IsCondition
<1> DEFINE others == ReadyFromOthers(conditions, g)
<1>3. /\ IsCondition(others, generation) /\ others.gen = g
      /\ others.status = "True" => AllTrue(conditions, g) /\ others.reason = "Reconciled"
      /\ AllTrue(conditions, g) => others.status = "True"
  <2>1. ASSUME NEW c, IsCondition(c, generation), Blocks(c, g)
        PROVE  IsCondition(ReadyOf(c, g), generation) /\ ReadyOf(c, g).gen = g
               /\ ReadyOf(c, g).status # "True"
    BY <2>1, ConditionType DEF ReadyOf, Blocks, IsCondition, Condition, Undecided
  <2>2. \A c : ~ Blocks(c, g) => c.status = "True" /\ c.gen = g
    BY DEF Blocks, Undecided
  <2>3. \A c : Blocks(c, g) => ~ (c.status = "True" /\ c.gen = g)
    <3>1. Absent.status # "True"
      BY DEF Absent, Condition
    <3> QED  BY <3>1 DEF Blocks, Undecided
  <2>4. CASE Blocks(conditions["LicenseApplied"], g)
    <3>1. others = ReadyOf(conditions["LicenseApplied"], g)
      BY <2>4 DEF ReadyFromOthers
    <3>2. ~ AllTrue(conditions, g)
      BY <1>1, <2>3, <2>4 DEF AllTrue
    <3> QED  BY <1>1, <2>1, <2>4, <3>1, <3>2
  <2>5. CASE ~ Blocks(conditions["LicenseApplied"], g) /\ Blocks(conditions["Converged"], g)
    <3>1. others = ReadyOf(conditions["Converged"], g)
      BY <2>5 DEF ReadyFromOthers
    <3>2. ~ AllTrue(conditions, g)
      BY <1>1, <2>3, <2>5 DEF AllTrue
    <3> QED  BY <1>1, <2>1, <2>5, <3>1, <3>2
  <2>6. CASE /\ ~ Blocks(conditions["LicenseApplied"], g) /\ ~ Blocks(conditions["Converged"], g)
             /\ Blocks(conditions["Updated"], g)
    <3>1. others = ReadyOf(conditions["Updated"], g)
      BY <2>6 DEF ReadyFromOthers
    <3>2. ~ AllTrue(conditions, g)
      BY <1>1, <2>3, <2>6 DEF AllTrue
    <3> QED  BY <1>1, <2>1, <2>6, <3>1, <3>2
  <2>7. CASE /\ ~ Blocks(conditions["LicenseApplied"], g) /\ ~ Blocks(conditions["Converged"], g)
             /\ ~ Blocks(conditions["Updated"], g)
    <3>1. others = Condition("True", "Reconciled", g)
      BY <2>7 DEF ReadyFromOthers
    <3>2. AllTrue(conditions, g)
      BY <1>1, <2>2, <2>7 DEF AllTrue
    <3>3. others.status = "True" /\ others.reason = "Reconciled" /\ others.gen = g
      BY <3>1 DEF Condition
    <3> QED  BY <3>1, <3>2, <3>3, ConditionType
  <2> QED  BY <2>4, <2>5, <2>6, <2>7
<1> HIDE DEF others
<1>4. CASE serving = Absent /\ KeepsReady(conditions["Ready"])
  <2>1. ready = [conditions["Ready"] EXCEPT !.gen = g]
    BY <1>4 DEF readyCondition
  <2>2. conditions["Ready"].status # "True"
    BY <1>4 DEF KeepsReady
  <2>3. KeepsReady(ready)
    BY <1>1, <1>2, <1>4, <2>1 DEF KeepsReady
  <2> QED  BY <1>1, <1>2, <2>1, <2>2, <2>3
<1>5. CASE (serving = Absent /\ ~ KeepsReady(conditions["Ready"])) \/ (serving # Absent /\ serving.status = "True")
  <2>1. ready = others
    BY <1>5 DEF readyCondition, others
  <2> QED  BY <1>3, <1>5, <2>1
<1>6. CASE serving # Absent /\ serving.status # "True"
  <2>1. ready = [serving EXCEPT !.gen = g]
    BY <1>6 DEF readyCondition
  <2> QED  BY <1>2, <1>6, <2>1
<1> QED  BY <1>4, <1>5, <1>6

(* What a pass publishes is a status.                                       *)
LEMMA SummarizeFacts ==
  ASSUME NEW generation \in Nat, NEW g \in 0 .. generation,
         NEW serving, IsCondition(serving, generation),
         NEW status, IsStatus(status, generation)
  PROVE  LET new == summarizeReady(status, serving, g)
         IN  /\ IsStatus(new, generation)
             /\ new.conditions["Ready"] = readyCondition(serving, status.conditions, g)
             /\ \A t \in ConditionTypes \ {"Ready"} : new.conditions[t] = status.conditions[t]
<1> DEFINE new == summarizeReady(status, serving, g)
           ready == readyCondition(serving, status.conditions, g)
<1>1. IsCondition(ready, generation)
  BY ReadyFacts DEF IsStatus
<1>2. new = [status EXCEPT !.conditions["Ready"] = ready]
  BY DEF summarizeReady
<1> HIDE DEF ready
<1>3. status = [main |-> status.main, conditions |-> status.conditions]
      /\ status.conditions = [t \in ConditionTypes |-> status.conditions[t]]
  BY DEF IsStatus
<1>4. new = [main |-> new.main, conditions |-> new.conditions] /\ new.main = status.main
      /\ new.conditions = [status.conditions EXCEPT !["Ready"] = ready]
  BY <1>2, <1>3
<1> HIDE DEF new
<1>5. "Ready" \in ConditionTypes
  BY DEF ConditionTypes
<1>6. /\ new.conditions = [t \in ConditionTypes |-> new.conditions[t]]
      /\ new.conditions["Ready"] = ready
      /\ \A t \in ConditionTypes \ {"Ready"} : new.conditions[t] = status.conditions[t]
  BY <1>3, <1>4, <1>5
<1>7. IsStatus(new, generation)
  BY <1>1, <1>4, <1>6 DEF IsStatus
<1> QED  BY <1>6, <1>7 DEF new, ready

(* And so is what the merge patch leaves.                                   *)
LEMMA MergePatchFacts ==
  ASSUME NEW generation \in Nat, NEW current, IsStatus(current, generation),
         NEW orig, NEW new, IsStatus(new, generation)
  PROVE  LET merged == MergePatch(current, orig, new)
         IN  /\ IsStatus(merged, generation)
             /\ merged.conditions \in {current.conditions, new.conditions}
             /\ new.conditions = orig.conditions => merged.conditions = current.conditions
  BY DEF MergePatch, IsStatus

-----------------------------------------------------------------------------
(* Lemmas on sequences and on the records of a pass *)

(* The first of a sequence without repetitions is not among the rest.       *)
LEMMA TailFacts ==
  ASSUME NEW S, NEW s, IsInjectiveSeq(s, S), s # <<>>
  PROVE  /\ Head(s) \in S /\ Head(s) \in ToSet(s)
         /\ IsInjectiveSeq(Tail(s), S)
         /\ Head(s) \notin ToSet(Tail(s))
         /\ ToSet(s) = ToSet(Tail(s)) \cup {Head(s)}
<1>1. s \in Seq(S) /\ Len(s) \in Nat \ {0} /\ DOMAIN s = 1 .. Len(s)
  BY DEF IsInjectiveSeq
<1>2. /\ Head(s) = s[1] /\ Tail(s) \in Seq(S) /\ Len(Tail(s)) = Len(s) - 1
      /\ \A i \in 1 .. Len(s) - 1 : Tail(s)[i] = s[i + 1]
  BY <1>1
<1>3. DOMAIN Tail(s) = 1 .. Len(s) - 1
  BY <1>2
<1>4. IsInjectiveSeq(Tail(s), S)
  <2> SUFFICES ASSUME NEW i \in 1 .. Len(Tail(s)), NEW j \in 1 .. Len(Tail(s)), Tail(s)[i] = Tail(s)[j]
               PROVE  i = j
    BY <1>2 DEF IsInjectiveSeq
  <2>1. s[i + 1] = s[j + 1] /\ i + 1 \in 1 .. Len(s) /\ j + 1 \in 1 .. Len(s)
    BY <1>1, <1>2
  <2>2. i + 1 = j + 1
    BY <2>1 DEF IsInjectiveSeq
  <2> QED  BY <2>2
<1>5. Head(s) \notin ToSet(Tail(s))
  <2> SUFFICES ASSUME NEW i \in 1 .. Len(s) - 1, Tail(s)[i] = s[1] PROVE FALSE
    BY <1>2, <1>3 DEF ToSet
  <2>1. s[i + 1] = s[1] /\ i + 1 \in 1 .. Len(s) /\ 1 \in 1 .. Len(s)
    BY <1>1, <1>2
  <2>2. i + 1 = 1
    BY <2>1 DEF IsInjectiveSeq
  <2> QED  BY <2>2
<1>6. ASSUME NEW x PROVE x \in ToSet(s) <=> x \in ToSet(Tail(s)) \/ x = s[1]
  <2>1. ASSUME x \in ToSet(s) PROVE x \in ToSet(Tail(s)) \/ x = s[1]
    <3>1. PICK i \in 1 .. Len(s) : x = s[i]
      BY <1>1, <2>1 DEF ToSet
    <3>2. CASE i = 1
      BY <3>1, <3>2
    <3>3. CASE i # 1
      <4>1. i - 1 \in 1 .. Len(s) - 1 /\ (i - 1) + 1 = i
        BY <1>1, <3>3
      <4>2. Tail(s)[i - 1] = s[i]
        BY <1>2, <4>1
      <4> QED  BY <1>3, <3>1, <4>1, <4>2 DEF ToSet
    <3> QED  BY <3>2, <3>3
  <2>2. ASSUME x \in ToSet(Tail(s)) PROVE x \in ToSet(s)
    <3>1. PICK i \in 1 .. Len(s) - 1 : x = Tail(s)[i]
      BY <1>3, <2>2 DEF ToSet
    <3>2. x = s[i + 1] /\ i + 1 \in 1 .. Len(s)
      BY <1>1, <1>2, <3>1
    <3> QED  BY <1>1, <3>2 DEF ToSet
  <2>3. s[1] \in ToSet(s)
    BY <1>1 DEF ToSet
  <2> QED  BY <2>1, <2>2, <2>3
<1>7. Head(s) \in S
  BY <1>1, <1>2
<1> QED  BY <1>2, <1>4, <1>5, <1>6, <1>7

(* The pods, in the order they are visited.                                 *)
LEMMA EndpointsFacts ==
  /\ IsInjectiveSeq(Endpoints, Pods) /\ ToSet(Endpoints) = Pods
  /\ IsInjectiveSeq(DataPods, Pods)
  /\ IsInjectiveSeq(<<>>, Pods) /\ ToSet(<<>>) = {}
  /\ Coordinator \in Pods /\ Data \in Pods
<1>1. /\ DataPods \in Seq(ToSet(DataPods)) /\ CoordinatorPods \in Seq(ToSet(CoordinatorPods))
      /\ DataPods # <<>> /\ CoordinatorPods # <<>>
      /\ IsInjective(DataPods \o CoordinatorPods)
  BY PodsAssumption
<1> DEFINE m == Len(DataPods)
           n == Len(CoordinatorPods)
<1>2. /\ m \in Nat \ {0} /\ n \in Nat \ {0}
      /\ DOMAIN DataPods = 1 .. m /\ DOMAIN CoordinatorPods = 1 .. n
      /\ \A i \in 1 .. m : DataPods[i] \in Pods
      /\ \A i \in 1 .. n : CoordinatorPods[i] \in Pods
  BY <1>1 DEF Pods, ToSet
<1>3. DataPods \in Seq(Pods) /\ CoordinatorPods \in Seq(Pods)
  BY <1>1 DEF Pods
<1>4. /\ Endpoints \in Seq(Pods) /\ Len(Endpoints) = m + n /\ DOMAIN Endpoints = 1 .. m + n
      /\ \A i \in 1 .. m + n : Endpoints[i] = IF i <= m THEN DataPods[i] ELSE CoordinatorPods[i - m]
  BY <1>3 DEF Endpoints
<1>5. \A i, j \in 1 .. m + n : Endpoints[i] = Endpoints[j] => i = j
  BY <1>1, <1>4 DEF IsInjective, Endpoints
<1>6. IsInjectiveSeq(Endpoints, Pods)
  BY <1>4, <1>5 DEF IsInjectiveSeq
<1>7. IsInjectiveSeq(DataPods, Pods)
  <2> SUFFICES ASSUME NEW i \in 1 .. m, NEW j \in 1 .. m, DataPods[i] = DataPods[j] PROVE i = j
    BY <1>3 DEF IsInjectiveSeq
  <2>1. i \in 1 .. m + n /\ j \in 1 .. m + n /\ Endpoints[i] = Endpoints[j]
    BY <1>2, <1>4
  <2> QED  BY <1>5, <2>1
<1>8. ToSet(Endpoints) = Pods
  <2>1. ASSUME NEW o \in Pods PROVE o \in ToSet(Endpoints)
    <3>1. CASE \E i \in 1 .. m : o = DataPods[i]
      <4>1. PICK i \in 1 .. m : o = DataPods[i]
        BY <3>1
      <4>2. i \in 1 .. m + n /\ Endpoints[i] = o
        BY <1>2, <1>4, <4>1
      <4> QED  BY <1>4, <4>2 DEF ToSet
    <3>2. CASE \E i \in 1 .. n : o = CoordinatorPods[i]
      <4>1. PICK i \in 1 .. n : o = CoordinatorPods[i]
        BY <3>2
      <4>2. m + i \in 1 .. m + n /\ ~ (m + i <= m) /\ (m + i) - m = i
        BY <1>2, <4>1
      <4>3. Endpoints[m + i] = o
        BY <1>4, <4>1, <4>2
      <4> QED  BY <1>4, <4>2, <4>3 DEF ToSet
    <3> QED  BY <1>2, <2>1, <3>1, <3>2 DEF Pods, ToSet
  <2>2. ASSUME NEW o \in ToSet(Endpoints) PROVE o \in Pods
    BY <1>4, <2>2 DEF ToSet
  <2> QED  BY <2>1, <2>2
<1>9. Coordinator \in Pods /\ Data \in Pods
  BY <1>1, <1>3 DEF Coordinator, Data
<1>10. IsInjectiveSeq(<<>>, Pods) /\ ToSet(<<>>) = {}
  BY DEF IsInjectiveSeq, ToSet
<1> QED  BY <1>6, <1>7, <1>8, <1>9, <1>10

(* The ways a pass changes, field by field: what it records at its end, ... *)
LEMMA RecordFields ==
  ASSUME HasFields(pass), NEW main, NEW serving, NEW given
  PROVE  LET p == Record(main, serving, given)
         IN  /\ HasFields(p)
             /\ \A f \in Fields \ {"at", "serving", "status"} : p[f] = pass[f]
             /\ p.at = "publish" /\ p.serving = serving
             /\ p.status = setStatus(pass.status, main, given)
  BY DEF HasFields, Fields, Record

Tally(outcome, owing) ==
  [outcome EXCEPT !.pending = @ \/ owing = "pending", !.rejected = @ \/ owing = "rejected"]

(* ... the end of a pod's turn, ...                                         *)
LEMMA NextPodFields ==
  ASSUME HasFields(pass), NEW owing
  PROVE  LET p == NextPod(owing)
         IN  /\ HasFields(p)
             /\ \A f \in Fields \ {"todo", "license", "outcome"} : p[f] = pass[f]
             /\ p.todo = Tail(pass.todo)
             /\ p.license = IF pass.at = "license" THEN Tally(pass.license, owing) ELSE pass.license
             /\ p.outcome = IF pass.at = "license" THEN pass.outcome ELSE Tally(pass.outcome, owing)
  BY DEF HasFields, Fields, NextPod, Tally

(* ... a crash that it notes, ...                                           *)
LEMMA DisturbFields ==
  ASSUME HasFields(pass), pass.at # "idle", NEW o
  PROVE  LET p == Disturb(o)
         IN  /\ HasFields(p)
             /\ \A f \in Fields \ {"steady"} : p[f] = pass[f]
             /\ p.steady = pass.steady \ {o}
  BY DEF HasFields, Fields, Disturb

(* ... and its beginning.                                                   *)
LEMMA BeginFields ==
  ASSUME BeginPass
  PROVE  /\ HasFields(pass')
         /\ pass'.at = "begun" /\ pass'.spec = cached.spec /\ pass'.generation = cached.generation
         /\ pass'.orig = cached.status
         /\ pass'.status = InitializeConditions(cached.status, cached.generation)
         /\ pass'.serving = Absent /\ pass'.set = seenSets /\ pass'.stale = FALSE
         /\ pass'.ready = {} /\ pass'.todo = <<>> /\ pass'.desired = Unset
         /\ pass'.reads = [o \in Pods |-> None]
         /\ pass'.license = NoOutcome /\ pass'.outcome = NoOutcome
         /\ pass'.main = None /\ pass'.config = None /\ pass'.settings = FALSE
         /\ pass'.steady = Pods
  BY DEF BeginPass, HasFields, Fields

(* Outcomes stay outcomes.                                                  *)
LEMMA TallyFacts ==
  ASSUME NEW outcome \in Outcomes, NEW owing
  PROVE  /\ Tally(outcome, owing) \in Outcomes
         /\ Clean(Tally(outcome, owing)) <=> Clean(outcome) /\ owing \notin {"pending", "rejected"}
  BY DEF Outcomes, Tally, Clean

(* Settings are four values.                                                *)
LEMMA SettingsFacts ==
  ASSUME NEW x \in SettingsOf
  PROVE  /\ \A y \in SettingsOf, s \in SettingNames : [x EXCEPT ![s] = y[s]] \in SettingsOf
         /\ \A v \in Nat : [x EXCEPT !.level = v] \in SettingsOf
         /\ \A v \in Credentials \cup {None} : [x EXCEPT !.aws = v] \in SettingsOf
         /\ x = [s \in SettingNames |-> x[s]]
  BY DEF SettingsOf, SettingNames

(* No setting yet is a setting of its own.                                  *)
LEMMA UnsetType == Unset \in SettingsOf
  BY DEF Unset, SettingsOf

-----------------------------------------------------------------------------
(* Who writes what *)

Crashes     == \E o \in Pods, wiped \in BOOLEAN : Crash(o, wiped)
Starts      == \E o \in Pods : Start(o)
Elections   == \/ \E o \in ToSet(CoordinatorPods) : ElectLeader(o)
               \/ \E o \in ToSet(DataPods) : ElectMain(o)
SetsLost    == \E lost \in BOOLEAN : LoseSet(lost)
Restarts    == \E o \in Pods : restartPod(o)
Classifies  == classifyFlags \/ \E lost \in BOOLEAN : LoseView(lost)
SetsCoordinators == reconcileCoordinatorSettings \/ \E lost \in BOOLEAN : LoseCoordinatorSetting(lost)

(* The steps that change each variable.                                     *)
LEMMA Writers ==
  ASSUME [Next]_vars
  PROVE  /\ cluster' = cluster \/ (\E s \in Specs : Edit(s)) \/ Publish
         /\ cached' = cached \/ SyncSpec \/ SyncCluster
         /\ secrets' = secrets \/ \E l \in Licenses \cup {None}, a \in Credentials \cup {None} : Rotate(l, a)
         /\ sets' = sets \/ Apply
         /\ seenSets' = seenSets \/ SyncSets
         /\ pods' = pods \/ Crashes \/ Starts \/ SetSetting \/ SetsLost \/ Restarts
         /\ raft' = raft \/ Crashes \/ Elections \/ EndRegistering \/ SetsCoordinators \/ Restarts
         /\ budget' = budget \/ \E kind \in {"changes", "faults", "stale"} : Spend(kind)
<1> USE DEF Next, Faults, Environment, Pass, vars,
            Edit, Rotate, Crash, Owe, EndUnobserved, EndRecreating, EndApplyFailed, EndRegistrationFailed,
            LoseSet, LoseView, LoseCoordinatorSetting, Abandon, SyncSpec, SyncCluster, SyncSets, Start,
            ElectLeader, ElectMain, BeginPass, Apply, SkipUnready, observedSettings, SkipUnreadOrInLine,
            SetSetting, SettingRejected, FinishLicense, EndLeaderless, EndRegistering, Registered,
            BeginAWSCredentials, classifyFlags, reconcileCoordinatorSettings, WaitForRoll,
            ConcludeUpdated, Publish, restartPod
<1>1. cluster' = cluster \/ (\E s \in Specs : Edit(s)) \/ Publish
  OBVIOUS
<1>2. cached' = cached \/ SyncSpec \/ SyncCluster
  OBVIOUS
<1>3. secrets' = secrets \/ \E l \in Licenses \cup {None}, a \in Credentials \cup {None} : Rotate(l, a)
  OBVIOUS
<1>4. sets' = sets \/ Apply
  OBVIOUS
<1>5. seenSets' = seenSets \/ SyncSets
  OBVIOUS
<1>6. pods' = pods \/ Crashes \/ Starts \/ SetSetting \/ SetsLost \/ Restarts
  BY DEF Crashes, Starts, SetsLost, Restarts
<1>7. raft' = raft \/ Crashes \/ Elections \/ EndRegistering \/ SetsCoordinators \/ Restarts
  BY DEF Crashes, Elections, SetsCoordinators, Restarts
<1>8. budget' = budget \/ \E kind \in {"changes", "faults", "stale"} : Spend(kind)
  OBVIOUS
<1> QED  BY <1>1, <1>2, <1>3, <1>4, <1>5, <1>6, <1>7, <1>8

(* The ends of a pass that record something, and of a pod's turn. *)
Ends ==
  EndRecreating \/ EndApplyFailed \/ EndRegistrationFailed \/ EndLeaderless \/ EndRegistering
    \/ (FinishLicense /\ ~ workloadsReady) \/ WaitForRoll \/ ConcludeUpdated \/ Restarts

TurnEnds == SkipUnready \/ SkipUnreadOrInLine \/ SettingRejected \/ SetsLost

(* The ways a pass goes on.                                                 *)
LEMMA PassCases ==
  ASSUME [Next]_vars
  PROVE  \/ pass' = pass /\ UNCHANGED <<sets, cluster>>
         \/ \E s \in Specs : Edit(s)
         \/ Crashes
         \/ Publish \/ Abandon
         \/ BeginPass \/ EndUnobserved \/ Apply
         \/ TurnEnds \/ observedSettings \/ SetSetting
         \/ (FinishLicense /\ workloadsReady) \/ Registered \/ BeginAWSCredentials
         \/ Classifies \/ SetsCoordinators \/ Ends
  BY DEF Next, Faults, Environment, Pass, vars, Edit, Rotate, Owe, SyncSpec, SyncCluster, SyncSets, Start,
         ElectLeader, ElectMain, Crashes, TurnEnds, SetsLost, Classifies, SetsCoordinators, Ends, Restarts

-----------------------------------------------------------------------------
(* Type correctness *)

(* Spending a bound.                                                        *)
LEMMA SpendType ==
  ASSUME budget \in [changes : Nat, faults : Nat, stale : Nat],
         NEW kind \in {"changes", "faults", "stale"}, Spend(kind)
  PROVE  budget' \in [changes : Nat, faults : Nat, stale : Nat]
  BY DEF Spend

(* A setting of a pod is set to what the pass asks for.                     *)
LEMMA SetPod ==
  ASSUME pods \in [Pods -> PodRecord], NEW o \in Pods, NEW s \in SettingNames,
         NEW desired \in SettingsOf,
         pods' = [pods EXCEPT ![o].settings[s] = desired[s]]
  PROVE  /\ pods' \in [Pods -> PodRecord]
         /\ \A p \in Pods \ {o} : pods'[p] = pods[p]
         /\ pods'[o].state = pods[o].state /\ pods'[o].template = pods[o].template
         /\ pods'[o].settings = [pods[o].settings EXCEPT ![s] = desired[s]]
<1> DEFINE settings == [pods[o].settings EXCEPT ![s] = desired[s]]
<1>1. pods[o] \in PodRecord
  OBVIOUS
<1>2. pods[o].settings \in SettingsOf
  BY <1>1 DEF PodRecord
<1>3. settings \in SettingsOf
  BY <1>2, SettingsFacts
<1>4. pods' = [pods EXCEPT ![o] = [pods[o] EXCEPT !.settings = settings]]
  OBVIOUS
<1> HIDE DEF settings
<1>5. /\ [pods[o] EXCEPT !.settings = settings] \in PodRecord
      /\ [pods[o] EXCEPT !.settings = settings].state = pods[o].state
      /\ [pods[o] EXCEPT !.settings = settings].template = pods[o].template
      /\ [pods[o] EXCEPT !.settings = settings].settings = settings
  BY <1>1, <1>3 DEF PodRecord
<1> QED  BY <1>4, <1>5 DEF settings

(* A SET of the pod whose turn it is: which setting, and what the read had. *)
LEMMA ChangesFacts ==
  ASSUME pass.at \in {"license", "flags", "aws"}, NEW observed, Changes(observed) # <<>>
  PROVE  LET s == Head(Changes(observed))
         IN  /\ pass.at = "license" =>
                  \/ s = "organization"
                  \/ s = "license" /\ pass.desired.organization = observed.organization
             /\ pass.at = "flags" => s = "level"
             /\ pass.at = "aws" => s = "aws"
             /\ s \in SettingNames
<1>1. CASE pass.at = "license"
  <2>1. Changes(observed) = Diff(pass.desired, observed, "organization")
                              \o Diff(pass.desired, observed, "license")
    BY <1>1 DEF Changes, License
  <2>2. CASE pass.desired.organization = observed.organization
    <3>1. Diff(pass.desired, observed, "organization") = <<>>
      BY <2>2 DEF Diff
    <3>2. Diff(pass.desired, observed, "license") \in {<<>>, <<"license">>}
      BY DEF Diff
    <3>3. Diff(pass.desired, observed, "license") = <<"license">>
      <4>1. Diff(pass.desired, observed, "license") # <<>>
        <5> SUFFICES ASSUME Diff(pass.desired, observed, "license") = <<>> PROVE FALSE
          OBVIOUS
        <5>1. Changes(observed) = <<>> \o <<>>
          BY <2>1, <3>1
        <5>2. <<>> \o <<>> = <<>>
          OBVIOUS
        <5> QED  BY <5>1, <5>2
      <4> QED  BY <3>2, <4>1
    <3>4. Changes(observed) = <<>> \o <<"license">>
      BY <2>1, <3>1, <3>3
    <3>5. Head(<<>> \o <<"license">>) = "license"
      OBVIOUS
    <3>6. Head(Changes(observed)) = "license"
      BY <3>4, <3>5
    <3> QED  BY <1>1, <2>2, <3>6 DEF SettingNames
  <2>3. CASE pass.desired.organization # observed.organization
    <3>1. Diff(pass.desired, observed, "organization") = <<"organization">>
      BY <2>3 DEF Diff
    <3>2. Diff(pass.desired, observed, "license") \in {<<>>, <<"license">>}
      BY DEF Diff
    <3>3. Head(Changes(observed)) = "organization"
      BY <2>1, <3>1, <3>2
    <3> QED  BY <1>1, <3>3 DEF SettingNames
  <2> QED  BY <2>2, <2>3
<1>2. CASE pass.at = "flags"
  <2>1. Changes(observed) \in {<<>>, <<"level">>}
    BY <1>2 DEF Changes, Plan, Diff
  <2> QED  BY <1>2, <2>1 DEF SettingNames
<1>3. CASE pass.at = "aws"
  <2>1. Changes(observed) \in {<<>>, <<"aws">>}
    BY <1>3 DEF Changes, Diff
  <2> QED  BY <1>3, <2>1 DEF SettingNames
<1> QED  BY <1>1, <1>2, <1>3

(* The pod whose turn it is.                                                *)
LEMMA PodFacts ==
  ASSUME PassType, Visiting
  PROVE  /\ Pod \in Pods /\ Pod \in ToSet(pass.todo) /\ HasFields(pass) /\ pass.at # "idle"
         /\ pass.at \in {"license", "flags", "aws"}
         /\ IsInjectiveSeq(Tail(pass.todo), Pods)
         /\ Pod \notin ToSet(Tail(pass.todo))
         /\ ToSet(pass.todo) = ToSet(Tail(pass.todo)) \cup {Pod}
         /\ pass.desired \in SettingsOf
         /\ CanSet => pass.reads[Pod] \in SettingsOf
<1>1. pass.at \in {"license", "flags", "aws"} /\ pass.at # "idle" /\ pass.todo # <<>>
  BY DEF Visiting
<1>2. /\ HasFields(pass) /\ IsInjectiveSeq(pass.todo, Pods)
      /\ pass.desired \in SettingsOf /\ pass.reads \in [Pods -> SettingsOf \cup {None, Failed}]
  BY <1>1 DEF PassType
<1> QED  BY <1>1, <1>2, TailFacts DEF Pod, CanSet

(* A crash, a start, a restart, and a SET of a pod.                         *)
LEMMA PodsStep ==
  ASSUME TypeInv, [Next]_vars
  PROVE  pods' \in [Pods -> PodRecord]
<1>1. pods \in [Pods -> PodRecord] /\ PassType
  BY DEF TypeInv, ClusterType
<1>2. ASSUME NEW o \in Pods, NEW wiped \in BOOLEAN, Crash(o, wiped) PROVE pods' \in [Pods -> PodRecord]
  <2>1. (IF wiped THEN Unset ELSE pods[o].settings) \in SettingsOf
    BY <1>1, UnsetType DEF PodRecord
  <2> QED  BY <1>1, <1>2, <2>1 DEF Crash, PodRecord
<1>3. ASSUME NEW o \in Pods, Start(o) PROVE pods' \in [Pods -> PodRecord]
  <2>1. sets.template \in Templates /\ sets.level \in Nat
    BY DEF TypeInv, ClusterType
  <2>2. pods[o].settings \in SettingsOf /\ pods[o] \in PodRecord
    BY <1>1 DEF PodRecord
  <2>3. [pods[o].settings EXCEPT !.level = sets.level] \in SettingsOf
    BY <2>1, <2>2, SettingsFacts
  <2> DEFINE template == IF pods[o].state = "gone" THEN sets.template ELSE pods[o].template
             settings == [pods[o].settings EXCEPT !.level = sets.level]
  <2>4. template \in Templates
    BY <2>1, <2>2 DEF PodRecord
  <2>5. pods' = [pods EXCEPT ![o] = [pods[o] EXCEPT !.state = "ready", !.template = template,
                                                    !.settings = settings]]
    BY <1>1, <1>3, <2>2 DEF Start, PodRecord
  <2> HIDE DEF template, settings
  <2>6. [pods[o] EXCEPT !.state = "ready", !.template = template, !.settings = settings] \in PodRecord
    BY <2>2, <2>3, <2>4 DEF PodRecord, settings
  <2> QED  BY <1>1, <2>5, <2>6
<1>4. ASSUME SetSetting \/ SetsLost PROVE pods' \in [Pods -> PodRecord]
  <2>1. CanSet /\ Visiting /\ Changes(pass.reads[Pod]) # <<>>
    BY <1>4 DEF SetSetting, SetsLost, LoseSet, CanSet
  <2> DEFINE s == Head(Changes(pass.reads[Pod]))
  <2>2. Pod \in Pods /\ pass.at \in {"license", "flags", "aws"} /\ pass.desired \in SettingsOf
    BY <1>1, <2>1, PodFacts
  <2>3. s \in SettingNames
    BY <2>1, <2>2, ChangesFacts
  <2>4. pods' = pods \/ pods' = [pods EXCEPT ![Pod].settings[s] = pass.desired[s]]
    BY <1>4 DEF SetSetting, SetsLost, LoseSet
  <2> HIDE DEF s
  <2> QED  BY <1>1, <2>2, <2>3, <2>4, SetPod
<1>5. ASSUME NEW o \in Pods, restartPod(o) PROVE pods' \in [Pods -> PodRecord]
  BY <1>1, <1>5 DEF restartPod, PodRecord
<1> QED  BY <1>1, <1>2, <1>3, <1>4, <1>5, Writers DEF Crashes, Starts, Restarts

(* Elections and restarts, and the registration of members.                 *)
LEMMA RaftStep ==
  ASSUME TypeInv, [Next]_vars
  PROVE  raft' \in [leader : Pods \cup {None}, main : Pods \cup {None}, registered : BOOLEAN, setting : BOOLEAN]
<1> DEFINE Rafts == [leader : Pods \cup {None}, main : Pods \cup {None}, registered : BOOLEAN, setting : BOOLEAN]
<1>1. raft \in Rafts
  BY DEF TypeInv, ClusterType
<1>2. ASSUME NEW o PROVE Without(o) \in Rafts
  BY <1>1 DEF Without
<1>3. ASSUME Crashes PROVE raft' \in Rafts
  <2>1. PICK o \in Pods, wiped \in BOOLEAN :
          raft' = [Without(o) EXCEPT !.registered = Without(o).registered /\ ~ wiped]
    BY <1>2, <1>3 DEF Crashes, Crash
  <2> QED  BY <1>2, <2>1
<1>4. ASSUME Elections PROVE raft' \in Rafts
  BY <1>1, <1>4 DEF Elections, ElectLeader, ElectMain, Pods
<1>5. ASSUME EndRegistering \/ SetsCoordinators PROVE raft' \in Rafts
  BY <1>1, <1>5 DEF EndRegistering, SetsCoordinators, reconcileCoordinatorSettings, LoseCoordinatorSetting
<1>6. ASSUME Restarts PROVE raft' \in Rafts
  BY <1>2, <1>6 DEF Restarts, restartPod
<1> QED  BY <1>1, <1>3, <1>4, <1>5, <1>6, Writers

(* A template a spec renders to.                                            *)
LEMMA TemplateType ==
  ASSUME NEW s \in Specs
  PROVE  TemplateOf(s) \in Templates
  BY SpecsAssumption DEF TemplateOf, Templates

(* The applied template is of a generation of its own.                      *)
LEMMA ApplySets ==
  ASSUME TypeInv, Apply
  PROVE  /\ sets' \in [template : Templates, generation : Nat \ {0}, level : Nat]
         /\ sets'.template = TemplateOf(pass.spec)
         /\ sets'.generation = IF sets.template = TemplateOf(pass.spec)
                               THEN sets.generation ELSE sets.generation + 1
         /\ pass'.stale = (pass.set.generation < sets'.generation)
         /\ sets.generation \in Nat
<1>1. /\ sets \in [template : Templates, generation : Nat \ {0}, level : Nat]
      /\ pass.spec \in Specs /\ pass.at = "begun" /\ HasFields(pass)
  BY DEF TypeInv, ClusterType, PassType, Apply
<1>2. TemplateOf(pass.spec) \in Templates /\ pass.spec.level \in Nat
  BY <1>1, TemplateType, SpecsAssumption
<1> DEFINE generation == sets.generation + (IF TemplateOf(pass.spec) = sets.template THEN 0 ELSE 1)
<1>3. sets' = [template |-> TemplateOf(pass.spec), generation |-> generation, level |-> pass.spec.level]
  BY DEF Apply
<1>4. generation = IF sets.template = TemplateOf(pass.spec) THEN sets.generation ELSE sets.generation + 1
  BY <1>1
<1>5. generation \in Nat \ {0} /\ sets.generation \in Nat
  BY <1>1, <1>4
<1>6. pass'.stale = (pass.set.generation < generation)
  BY <1>1 DEF Apply, HasFields, Fields
<1> HIDE DEF generation
<1> QED  BY <1>2, <1>3, <1>4, <1>5, <1>6

(* The StatefulSets and what the cache shows of them.                       *)
LEMMA SetsStep ==
  ASSUME TypeInv, [Next]_vars
  PROVE  /\ sets' \in [template : Templates, generation : Nat \ {0}, level : Nat]
         /\ seenSets' \in SeenSets
         /\ SetsSeen'
<1>1. /\ sets \in [template : Templates, generation : Nat \ {0}, level : Nat]
      /\ seenSets \in SeenSets /\ SetsSeen
  BY DEF TypeInv, ClusterType
<1>2. CASE Apply
  <2>1. seenSets' = seenSets
    BY <1>2 DEF Apply
  <2>2. /\ sets' \in [template : Templates, generation : Nat \ {0}, level : Nat]
        /\ sets'.template = TemplateOf(pass.spec)
        /\ sets'.generation = IF sets.template = TemplateOf(pass.spec)
                              THEN sets.generation ELSE sets.generation + 1
    BY <1>2, ApplySets
  <2>3. seenSets.generation \in Nat /\ sets.generation \in Nat
    BY <1>1 DEF SeenSets
  <2>4. SetsSeen'
    BY <1>1, <2>1, <2>2, <2>3 DEF SetsSeen
  <2> QED  BY <1>1, <2>1, <2>2, <2>4
<1>3. CASE SyncSets
  BY <1>1, <1>3 DEF SyncSets, Applied, SetsSeen, SeenSets
<1>4. CASE sets' = sets /\ seenSets' = seenSets
  BY <1>1, <1>4 DEF SetsSeen
<1>5. CASE Apply \/ sets' = sets
  BY <1>2, <1>3, <1>4, <1>5, Writers
<1> QED  BY <1>5, Writers

(* The status a pass publishes, against the one there is.                   *)
LEMMA PublishFacts ==
  ASSUME TypeInv, Publish
  PROVE  LET new == summarizeReady(pass.status, pass.serving, pass.generation)
         IN  /\ IsResource(cluster)' /\ cluster'.generation = cluster.generation
             /\ cluster'.spec = cluster.spec
             /\ cluster'.status.conditions \in {cluster.status.conditions, new.conditions}
             /\ new.conditions = pass.orig.conditions => cluster'.status.conditions = cluster.status.conditions
             /\ IsStatus(new, cluster.generation)
             /\ new.conditions["Ready"] = readyCondition(pass.serving, pass.status.conditions, pass.generation)
             /\ \A t \in ConditionTypes \ {"Ready"} : new.conditions[t] = pass.status.conditions[t]
<1> DEFINE new == summarizeReady(pass.status, pass.serving, pass.generation)
           merged == MergePatch(cluster.status, pass.orig, new)
<1>1. /\ pass.at = "publish" /\ cluster' = [cluster EXCEPT !.status = merged]
  BY DEF Publish
<1>2. /\ cluster.generation \in Nat /\ IsResource(cluster)
      /\ pass.generation \in 1 .. cluster.generation
      /\ IsStatus(pass.status, cluster.generation) /\ IsStatus(pass.orig, cluster.generation)
      /\ IsCondition(pass.serving, cluster.generation)
  BY <1>1 DEF TypeInv, ClusterType, PassType
<1>3. pass.generation \in 0 .. cluster.generation
  BY <1>2
<1>4. /\ IsStatus(new, cluster.generation)
      /\ new.conditions["Ready"] = readyCondition(pass.serving, pass.status.conditions, pass.generation)
      /\ \A t \in ConditionTypes \ {"Ready"} : new.conditions[t] = pass.status.conditions[t]
  BY <1>2, <1>3, SummarizeFacts
<1> HIDE DEF new
<1>5. /\ IsStatus(merged, cluster.generation)
      /\ merged.conditions \in {cluster.status.conditions, new.conditions}
      /\ new.conditions = pass.orig.conditions => merged.conditions = cluster.status.conditions
  BY <1>2, <1>4, MergePatchFacts DEF IsResource
<1> HIDE DEF merged
<1>6. cluster = [spec |-> cluster.spec, generation |-> cluster.generation, status |-> cluster.status]
  BY <1>2 DEF IsResource
<1>7. /\ cluster' = [spec |-> cluster'.spec, generation |-> cluster'.generation, status |-> cluster'.status]
      /\ cluster'.spec = cluster.spec /\ cluster'.generation = cluster.generation
      /\ cluster'.status = merged
  BY <1>1, <1>6
<1>8. IsResource(cluster)'
  BY <1>2, <1>5, <1>7 DEF IsResource
<1> QED  BY <1>4, <1>5, <1>7, <1>8 DEF new

(* The resource and its cached copy.                                        *)
LEMMA ResourceStep ==
  ASSUME TypeInv, [Next]_vars
  PROVE  /\ cluster'.generation \in Nat /\ cluster.generation <= cluster'.generation
         /\ IsResource(cluster)' /\ IsResource(cached)'
<1>1. cluster.generation \in Nat /\ IsResource(cluster) /\ IsResource(cached)
  BY DEF TypeInv, ClusterType
<1>2. CASE cluster' = cluster
  <2>1. ASSUME NEW r, IsResource(r), cached' = r PROVE IsResource(cached)'
    BY <1>2, <2>1 DEF IsResource
  <2>2. ASSUME SyncSpec PROVE IsResource([cluster EXCEPT !.status = cached.status])
    <3> DEFINE r == [cluster EXCEPT !.status = cached.status]
    <3>1. cluster = [spec |-> cluster.spec, generation |-> cluster.generation, status |-> cluster.status]
      BY <1>1 DEF IsResource
    <3>2. /\ r = [spec |-> r.spec, generation |-> r.generation, status |-> r.status]
          /\ r.spec = cluster.spec /\ r.generation = cluster.generation /\ r.status = cached.status
      BY <3>1
    <3> HIDE DEF r
    <3>3. IsResource(r)
      BY <1>1, <3>2 DEF IsResource
    <3> QED  BY <3>3 DEF r
  <2>3. IsResource(cached)'
    <3>1. CASE cached' = cached
      BY <1>1, <2>1, <3>1
    <3>2. CASE SyncCluster
      BY <1>1, <2>1, <3>2 DEF SyncCluster
    <3>3. CASE SyncSpec
      <4>1. cached' = [cluster EXCEPT !.status = cached.status]
        BY <3>3 DEF SyncSpec
      <4> HIDE DEF IsResource
      <4> QED  BY <2>1, <2>2, <3>3, <4>1
    <3> QED  BY <3>1, <3>2, <3>3, Writers
  <2>4. IsResource(cluster)'
    BY <1>1, <1>2 DEF IsResource
  <2> QED  BY <1>1, <1>2, <2>3, <2>4
<1>3. CASE \E s \in Specs : Edit(s)
  <2>1. PICK s \in Specs : Edit(s)
    BY <1>3
  <2>2. cached' = cached /\ cluster' = [cluster EXCEPT !.spec = s, !.generation = cluster.generation + 1]
    BY <2>1 DEF Edit
  <2>3. cluster = [spec |-> cluster.spec, generation |-> cluster.generation, status |-> cluster.status]
    BY <1>1 DEF IsResource
  <2>4. /\ cluster' = [spec |-> cluster'.spec, generation |-> cluster'.generation, status |-> cluster'.status]
        /\ cluster'.spec = s /\ cluster'.generation = cluster.generation + 1
        /\ cluster'.status = cluster.status
    BY <2>2, <2>3
  <2>5. cluster'.generation \in Nat /\ cluster.generation <= cluster'.generation
    BY <1>1, <2>4
  <2>6. \A x : IsStatus(x, cluster.generation) => IsStatus(x, cluster'.generation)
    BY <1>1, <2>5, LaterType
  <2>7. IsResource(cluster)'
    BY <1>1, <2>4, <2>5, <2>6 DEF IsResource
  <2>8. IsResource(cached)'
    BY <1>1, <2>2, <2>5, <2>6 DEF IsResource
  <2> QED  BY <2>5, <2>7, <2>8
<1>4. CASE Publish
  <2>1. cached' = cached
    BY <1>4 DEF Publish
  <2>2. IsResource(cluster)' /\ cluster'.generation = cluster.generation
    BY <1>4, PublishFacts
  <2>3. IsResource(cached)'
    BY <1>1, <2>1, <2>2 DEF IsResource
  <2> QED  BY <1>1, <2>2, <2>3
<1> QED  BY <1>2, <1>3, <1>4, Writers

(* What the stages of a pass change of it keeps its type.                   *)
LEMMA PassFields ==
  ASSUME PassType, pass.at # "idle", cluster'.generation = cluster.generation,
         HasFields(pass'), pass'.at \in Stages,
         NEW C, \A f \in Fields \ C : pass'[f] = pass[f],
         C \cap {"spec", "generation", "orig", "set"} = {},
         "status" \in C => IsStatus(pass'.status, cluster.generation),
         "serving" \in C => IsCondition(pass'.serving, cluster.generation),
         "stale" \in C => pass'.stale \in BOOLEAN,
         "ready" \in C => pass'.ready \subseteq Pods,
         "steady" \in C => pass'.steady \subseteq Pods,
         "todo" \in C => IsInjectiveSeq(pass'.todo, Pods),
         "desired" \in C => pass'.desired \in SettingsOf,
         "reads" \in C => pass'.reads \in [Pods -> SettingsOf \cup {None, Failed}],
         "license" \in C => pass'.license \in Outcomes,
         "outcome" \in C => pass'.outcome \in Outcomes,
         "main" \in C => pass'.main \in Pods \cup {None},
         "settings" \in C => pass'.settings \in BOOLEAN
  PROVE  PassType'
<1>1. pass'.at # "idle"
  BY DEF Stages, Underway, Visits
<1>2. /\ pass.spec \in Specs
      /\ pass.generation \in 1 .. cluster.generation
      /\ IsStatus(pass.orig, cluster.generation) /\ IsStatus(pass.status, cluster.generation)
      /\ IsCondition(pass.serving, cluster.generation)
      /\ pass.set \in SeenSets
      /\ pass.stale \in BOOLEAN
      /\ pass.ready \subseteq Pods /\ pass.steady \subseteq Pods
      /\ IsInjectiveSeq(pass.todo, Pods)
      /\ pass.desired \in SettingsOf
      /\ pass.reads \in [Pods -> SettingsOf \cup {None, Failed}]
      /\ pass.license \in Outcomes /\ pass.outcome \in Outcomes
      /\ pass.main \in Pods \cup {None}
      /\ pass.settings \in BOOLEAN
  BY DEF PassType
<1> DEFINE Same(f) == f \notin C => pass'[f] = pass[f]
<1>3. \A f \in Fields : Same(f)
  OBVIOUS
<1>4. /\ Same("spec") /\ Same("generation") /\ Same("orig") /\ Same("set") /\ Same("status")
      /\ Same("serving") /\ Same("stale") /\ Same("ready") /\ Same("steady") /\ Same("todo")
      /\ Same("desired") /\ Same("reads") /\ Same("license") /\ Same("outcome") /\ Same("main")
      /\ Same("settings")
  BY <1>3 DEF Fields
<1>5. /\ pass'.spec = pass.spec /\ pass'.generation = pass.generation
      /\ pass'.orig = pass.orig /\ pass'.set = pass.set
  BY <1>4
<1>6. /\ IsStatus(pass'.status, cluster.generation) /\ IsCondition(pass'.serving, cluster.generation)
      /\ pass'.stale \in BOOLEAN
  BY <1>2, <1>4
<1>7. /\ pass'.ready \subseteq Pods /\ pass'.steady \subseteq Pods
      /\ IsInjectiveSeq(pass'.todo, Pods)
  BY <1>2, <1>4
<1>8. /\ pass'.desired \in SettingsOf
      /\ pass'.reads \in [Pods -> SettingsOf \cup {None, Failed}]
      /\ pass'.license \in Outcomes /\ pass'.outcome \in Outcomes
  BY <1>2, <1>4
<1>9. pass'.main \in Pods \cup {None} /\ pass'.settings \in BOOLEAN
  BY <1>2, <1>4
<1> QED  BY <1>1, <1>2, <1>5, <1>6, <1>7, <1>8, <1>9 DEF PassType

(* A pass that has begun is one.                                            *)
LEMMA BeginType ==
  ASSUME TypeInv, BeginPass
  PROVE  PassType'
<1>1. /\ cluster.generation \in Nat /\ IsResource(cached) /\ cluster' = cluster
      /\ seenSets \in SeenSets
  BY DEF TypeInv, ClusterType, BeginPass
<1>2. /\ HasFields(pass')
      /\ pass'.at = "begun" /\ pass'.spec = cached.spec /\ pass'.generation = cached.generation
      /\ pass'.orig = cached.status
      /\ pass'.status = InitializeConditions(cached.status, cached.generation)
      /\ pass'.serving = Absent /\ pass'.set = seenSets /\ pass'.stale = FALSE
      /\ pass'.ready = {} /\ pass'.todo = <<>> /\ pass'.desired = Unset
      /\ pass'.reads = [o \in Pods |-> None]
      /\ pass'.license = NoOutcome /\ pass'.outcome = NoOutcome
      /\ pass'.main = None /\ pass'.config = None /\ pass'.settings = FALSE
      /\ pass'.steady = Pods
  BY BeginFields
<1>3. cached.spec \in Specs /\ cached.generation \in 1 .. cluster.generation
      /\ IsStatus(cached.status, cluster.generation)
  BY <1>1 DEF IsResource
<1>4. cached.generation \in 0 .. cluster.generation
  BY <1>1, <1>3
<1>5. IsStatus(InitializeConditions(cached.status, cached.generation), cluster.generation)
  BY <1>1, <1>3, <1>4, InitializeFacts
<1>6. IsCondition(Absent, cluster.generation)
  BY <1>1 DEF Absent, Condition, IsCondition
<1>7. NoOutcome \in Outcomes
  BY DEF NoOutcome, Outcomes
<1>8. pass'.reads \in [Pods -> SettingsOf \cup {None, Failed}] /\ IsInjectiveSeq(pass'.todo, Pods)
      /\ pass'.desired \in SettingsOf
  BY <1>2, EndpointsFacts, UnsetType
<1>9. pass'.at # "idle" /\ pass'.at \in Stages
  BY <1>2 DEF Stages
<1>10. pass'.stale \in BOOLEAN /\ pass'.ready \subseteq Pods /\ pass'.steady \subseteq Pods
       /\ pass'.main \in Pods \cup {None} /\ pass'.settings \in BOOLEAN
  BY <1>2
<1>11. pass'.license \in Outcomes /\ pass'.outcome \in Outcomes
  BY <1>2, <1>7
<1>12. /\ pass'.generation \in 1 .. cluster'.generation /\ IsStatus(pass'.orig, cluster'.generation)
       /\ IsStatus(pass'.status, cluster'.generation) /\ IsCondition(pass'.serving, cluster'.generation)
       /\ pass'.set \in SeenSets /\ pass'.spec \in Specs
  BY <1>1, <1>2, <1>3, <1>5, <1>6
<1> QED  BY <1>2, <1>8, <1>9, <1>10, <1>11, <1>12 DEF PassType

(* The fields an apply changes.                                             *)
LEMMA ApplyFields ==
  ASSUME TypeInv, Apply
  PROVE  /\ HasFields(pass') /\ pass.at = "begun" /\ pass'.at = "license"
         /\ \A f \in Fields \ {"at", "stale", "ready", "running", "todo", "desired", "license"} :
              pass'[f] = pass[f]
         /\ pass'.stale \in BOOLEAN
         /\ pass'.ready = {o \in Pods : Up(o)}
         /\ pass'.running = [o \in {p \in Pods : pods[p].state # "gone"} |-> pods[o].template]
         /\ pass'.todo = IF readLicense THEN Endpoints ELSE <<>>
         /\ pass'.desired \in SettingsOf
         /\ readLicense => pass'.desired.license = secrets.license /\ secrets.license \in Licenses
                           /\ pass'.desired.organization = Issued[secrets.license]
         /\ pass'.license = [pass.license EXCEPT !.pending = ~ readLicense]
         /\ pass'.license \in Outcomes
         /\ pass'.license.pending <=> ~ readLicense
<1>1. /\ pass.at = "begun" /\ HasFields(pass) /\ pass.desired \in SettingsOf /\ pass.license \in Outcomes
      /\ secrets \in [license : Licenses \cup {None}, aws : Credentials \cup {None}]
  BY DEF TypeInv, ClusterType, PassType, Apply
<1> DEFINE generation == sets.generation + (IF TemplateOf(pass.spec) = sets.template THEN 0 ELSE 1)
           ready   == {o \in Pods : Up(o)}
           running == [o \in {p \in Pods : pods[p].state # "gone"} |-> pods[o].template]
           todo    == IF readLicense THEN Endpoints ELSE <<>>
           desired == IF readLicense
                      THEN [pass.desired EXCEPT !.license = secrets.license,
                                                !.organization = Issued[secrets.license]]
                      ELSE pass.desired
           license == [pass.license EXCEPT !.pending = ~ readLicense]
<1>2. pass' = [pass EXCEPT !.at = "license", !.stale = pass.set.generation < generation,
                           !.ready = ready, !.running = running, !.todo = todo,
                           !.desired = desired, !.license = license]
  BY DEF Apply
<1>3. readLicense => secrets.license \in Licenses
  BY <1>1 DEF readLicense
<1>4. desired \in SettingsOf
  BY <1>1, <1>3 DEF SettingsOf
<1>5. readLicense => desired.license = secrets.license /\ desired.organization = Issued[secrets.license]
  BY <1>1 DEF SettingsOf
<1>6. license \in Outcomes /\ (license.pending <=> ~ readLicense)
  BY <1>1 DEF Outcomes
<1> HIDE DEF ready, running, todo, desired, license, generation
<1>7. /\ HasFields(pass') /\ pass'.at = "license"
      /\ \A f \in Fields \ {"at", "stale", "ready", "running", "todo", "desired", "license"} :
           pass'[f] = pass[f]
      /\ pass'.stale = (pass.set.generation < generation)
      /\ pass'.ready = ready /\ pass'.running = running /\ pass'.todo = todo
      /\ pass'.desired = desired /\ pass'.license = license
  BY <1>1, <1>2 DEF HasFields, Fields
<1>8. pass'.stale \in BOOLEAN
  BY <1>7
<1> QED  BY <1>1, <1>3, <1>4, <1>5, <1>6, <1>7, <1>8 DEF ready, running, todo, license


(* The fields the other stages change: a read and a SET, ...                *)
LEMMA ReadFields ==
  ASSUME PassType, NEW x \in SettingsOf \cup {None, Failed}, Visiting,
         pass' = [pass EXCEPT !.reads[Pod] = x]
  PROVE  /\ HasFields(pass')
         /\ \A f \in Fields \ {"reads"} : pass'[f] = pass[f]
         /\ pass'.reads = [pass.reads EXCEPT ![Pod] = x]
         /\ pass'.reads \in [Pods -> SettingsOf \cup {None, Failed}]
         /\ pass'.reads[Pod] = x /\ \A o \in Pods \ {Pod} : pass'.reads[o] = pass.reads[o]
<1>1. HasFields(pass) /\ Pod \in Pods /\ pass.at # "idle"
  BY PodFacts
<1>2. pass.reads \in [Pods -> SettingsOf \cup {None, Failed}]
  BY <1>1 DEF PassType
<1> DEFINE reads == [pass.reads EXCEPT ![Pod] = x]
<1>3. pass' = [pass EXCEPT !.reads = reads]
  OBVIOUS
<1>4. reads \in [Pods -> SettingsOf \cup {None, Failed}]
      /\ reads[Pod] = x /\ \A o \in Pods \ {Pod} : reads[o] = pass.reads[o]
  BY <1>1, <1>2
<1> HIDE DEF reads
<1>5. /\ HasFields(pass') /\ pass'.reads = reads
      /\ \A f \in Fields \ {"reads"} : pass'[f] = pass[f]
  BY <1>1, <1>3 DEF HasFields, Fields
<1> QED  BY <1>4, <1>5 DEF reads

(* ... in particular of a SET that lands, ...                               *)
LEMMA SetFields ==
  ASSUME TypeInv, SetSetting
  PROVE  LET s == Head(Changes(pass.reads[Pod]))
         IN  /\ s \in SettingNames /\ CanSet /\ Visiting /\ Changes(pass.reads[Pod]) # <<>>
             /\ pods' = [pods EXCEPT ![Pod].settings[s] = pass.desired[s]]
             /\ HasFields(pass')
             /\ \A f \in Fields \ {"reads"} : pass'[f] = pass[f]
             /\ pass'.reads \in [Pods -> SettingsOf \cup {None, Failed}]
             /\ pass'.reads[Pod] = [pass.reads[Pod] EXCEPT ![s] = pass.desired[s]]
             /\ pass'.reads[Pod] \in SettingsOf
             /\ \A o \in Pods \ {Pod} : pass'.reads[o] = pass.reads[o]
<1> DEFINE s == Head(Changes(pass.reads[Pod]))
           x == [pass.reads[Pod] EXCEPT ![s] = pass.desired[s]]
<1>1. PassType /\ CanSet /\ Visiting /\ Changes(pass.reads[Pod]) # <<>>
  BY DEF TypeInv, SetSetting, CanSet
<1>2. /\ pass.reads[Pod] \in SettingsOf /\ pass.desired \in SettingsOf
      /\ pass.at \in {"license", "flags", "aws"}
  BY <1>1, PodFacts
<1>3. s \in SettingNames
  BY <1>1, <1>2, ChangesFacts
<1>4. pods' = [pods EXCEPT ![Pod].settings[s] = pass.desired[s]]
      /\ pass' = [pass EXCEPT !.reads[Pod] = x]
  BY DEF SetSetting
<1> HIDE DEF s
<1>5. x \in SettingsOf
  BY <1>2, <1>3, SettingsFacts
<1> HIDE DEF x
<1>6. /\ HasFields(pass')
      /\ \A f \in Fields \ {"reads"} : pass'[f] = pass[f]
      /\ pass'.reads \in [Pods -> SettingsOf \cup {None, Failed}]
      /\ pass'.reads[Pod] = x /\ \A o \in Pods \ {Pod} : pass'.reads[o] = pass.reads[o]
  BY <1>1, <1>4, <1>5, ReadFields
<1> QED  BY <1>1, <1>3, <1>4, <1>5, <1>6 DEF s, x

(* ... the end of a pod's turn, ...                                         *)
LEMMA TurnFields ==
  ASSUME PassType, TurnEnds
  PROVE  /\ Visiting
         /\ \E owing \in {"nothing", "pending", "rejected"} :
              /\ pass' = NextPod(owing)
              /\ owing = "nothing" => \/ Pod \notin pass.ready
                                      \/ CanSet /\ Changes(pass.reads[Pod]) = <<>> /\ pods' = pods
              /\ owing = "nothing" => pods' = pods
         /\ HasFields(pass')
         /\ \A f \in Fields \ {"todo", "license", "outcome"} : pass'[f] = pass[f]
         /\ pass'.todo = Tail(pass.todo)
<1>1. Visiting
  BY DEF TurnEnds, SkipUnready, SkipUnreadOrInLine, SettingRejected, SetsLost, LoseSet, CanSet
<1>2. \E owing \in {"nothing", "pending", "rejected"} :
         /\ pass' = NextPod(owing)
         /\ owing = "nothing" => \/ Pod \notin pass.ready
                                 \/ CanSet /\ Changes(pass.reads[Pod]) = <<>> /\ pods' = pods
         /\ owing = "nothing" => pods' = pods
  <2>1. CASE SkipUnready
    BY <2>1 DEF SkipUnready
  <2>2. CASE SkipUnreadOrInLine
    BY <2>2 DEF SkipUnreadOrInLine
  <2>3. CASE SettingRejected
    BY <2>3 DEF SettingRejected
  <2>4. CASE SetsLost
    BY <2>4 DEF SetsLost, LoseSet
  <2> QED  BY <2>1, <2>2, <2>3, <2>4 DEF TurnEnds
<1>3. HasFields(pass)
  BY <1>1, PodFacts
<1> QED  BY <1>1, <1>2, <1>3, NextPodFields

(* ... the stages between the turns, ...                                    *)
LEMMA StageFields ==
  ASSUME PassType
  PROVE  /\ FinishLicense /\ workloadsReady =>
              /\ HasFields(pass') /\ pass.at = "license" /\ pass.todo = <<>> /\ pass'.at = "observe"
              /\ \A f \in Fields \ {"at", "status"} : pass'[f] = pass[f]
              /\ pass'.status = setStatus(pass.status, LastMain, [LicenseApplied |-> licenseCondition])
         /\ Registered =>
              /\ HasFields(pass') /\ pass.at = "observe" /\ pass'.at = "flags"
              /\ \A f \in Fields \ {"at", "main", "todo", "desired"} : pass'[f] = pass[f]
              /\ pass'.main = raft.main /\ pass'.todo = Endpoints
              /\ pass'.desired = [pass.desired EXCEPT !.level = pass.spec.level]
         /\ BeginAWSCredentials =>
              /\ HasFields(pass') /\ pass.at = "flags" /\ pass.todo = <<>>
              /\ \A f \in Fields \ {"at", "todo", "desired", "outcome"} : pass'[f] = pass[f]
              /\ \/ /\ pass'.at = "classify" /\ pass'.todo = pass.todo /\ pass'.desired = pass.desired
                    /\ pass'.outcome = [pass.outcome EXCEPT !.pending = TRUE]
                 \/ /\ pass'.at = "aws" /\ pass'.todo = DataPods /\ pass'.outcome = pass.outcome
                    /\ pass'.desired = [pass.desired EXCEPT !.aws = secrets.aws]
         /\ Classifies =>
              /\ HasFields(pass') /\ pass.at \in {"classify", "aws"} /\ pass.todo = <<>>
              /\ pass'.at = "settings"
              /\ \A f \in Fields \ {"at", "config", "settings"} : pass'[f] = pass[f]
              /\ pass'.config \in {None, showConfig} /\ pass'.settings \in BOOLEAN
         /\ SetsCoordinators =>
              /\ HasFields(pass') /\ pass.at = "settings" /\ pass'.at = "finish"
              /\ \A f \in Fields \ {"at", "outcome"} : pass'[f] = pass[f]
              /\ pass.outcome \in Outcomes
              /\ pass'.outcome \in Outcomes /\ (Clean(pass'.outcome) => Clean(pass.outcome))
         /\ EndUnobserved =>
              /\ HasFields(pass') /\ pass.at = "begun" /\ pass'.at = "publish"
              /\ \A f \in Fields \ {"at"} : pass'[f] = pass[f]
<1>1. pass.at # "idle" => HasFields(pass) /\ pass.outcome \in Outcomes
  BY DEF PassType
<1>2. ASSUME FinishLicense, workloadsReady
      PROVE  /\ HasFields(pass') /\ pass.at = "license" /\ pass.todo = <<>> /\ pass'.at = "observe"
             /\ \A f \in Fields \ {"at", "status"} : pass'[f] = pass[f]
             /\ pass'.status = setStatus(pass.status, LastMain, [LicenseApplied |-> licenseCondition])
  <2> DEFINE status == setStatus(pass.status, LastMain, [LicenseApplied |-> licenseCondition])
  <2>1. pass.at = "license" /\ pass.todo = <<>> /\ pass' = [pass EXCEPT !.at = "observe", !.status = status]
    BY <1>2 DEF FinishLicense
  <2> HIDE DEF status
  <2>2. /\ HasFields(pass') /\ pass'.at = "observe" /\ pass'.status = status
        /\ \A f \in Fields \ {"at", "status"} : pass'[f] = pass[f]
    BY <1>1, <2>1 DEF HasFields, Fields
  <2> QED  BY <2>1, <2>2 DEF status
<1>3. ASSUME Registered
      PROVE  /\ HasFields(pass') /\ pass.at = "observe" /\ pass'.at = "flags"
             /\ \A f \in Fields \ {"at", "main", "todo", "desired"} : pass'[f] = pass[f]
             /\ pass'.main = raft.main /\ pass'.todo = Endpoints
             /\ pass'.desired = [pass.desired EXCEPT !.level = pass.spec.level]
  <2> DEFINE desired == [pass.desired EXCEPT !.level = pass.spec.level]
  <2>1. /\ pass.at = "observe"
        /\ pass' = [pass EXCEPT !.at = "flags", !.main = raft.main, !.todo = Endpoints, !.desired = desired]
    BY <1>3 DEF Registered
  <2> HIDE DEF desired
  <2>2. /\ HasFields(pass') /\ pass'.at = "flags" /\ pass'.main = raft.main /\ pass'.todo = Endpoints
        /\ pass'.desired = desired
        /\ \A f \in Fields \ {"at", "main", "todo", "desired"} : pass'[f] = pass[f]
    BY <1>1, <2>1 DEF HasFields, Fields
  <2> QED  BY <2>1, <2>2 DEF desired
<1>4. ASSUME BeginAWSCredentials
      PROVE  /\ HasFields(pass') /\ pass.at = "flags" /\ pass.todo = <<>>
             /\ \A f \in Fields \ {"at", "todo", "desired", "outcome"} : pass'[f] = pass[f]
             /\ \/ /\ pass'.at = "classify" /\ pass'.todo = pass.todo /\ pass'.desired = pass.desired
                   /\ pass'.outcome = [pass.outcome EXCEPT !.pending = TRUE]
                \/ /\ pass'.at = "aws" /\ pass'.todo = DataPods /\ pass'.outcome = pass.outcome
                   /\ pass'.desired = [pass.desired EXCEPT !.aws = secrets.aws]
  <2> DEFINE desired == [pass.desired EXCEPT !.aws = secrets.aws]
             outcome == [pass.outcome EXCEPT !.pending = TRUE]
  <2>1. /\ pass.at = "flags" /\ pass.todo = <<>>
        /\ \/ pass' = [pass EXCEPT !.at = "classify", !.outcome = outcome]
           \/ pass' = [pass EXCEPT !.at = "aws", !.todo = DataPods, !.desired = desired]
    BY <1>4 DEF BeginAWSCredentials
  <2> HIDE DEF desired, outcome
  <2>2. CASE pass' = [pass EXCEPT !.at = "classify", !.outcome = outcome]
    <3>1. /\ HasFields(pass') /\ pass'.at = "classify" /\ pass'.outcome = outcome
          /\ \A f \in Fields \ {"at", "outcome"} : pass'[f] = pass[f]
      BY <1>1, <2>1, <2>2 DEF HasFields, Fields
    <3>2. pass'.todo = pass.todo /\ pass'.desired = pass.desired
      BY <3>1 DEF Fields
    <3> QED  BY <2>1, <3>1, <3>2 DEF outcome
  <2>3. CASE pass' = [pass EXCEPT !.at = "aws", !.todo = DataPods, !.desired = desired]
    <3>1. /\ HasFields(pass') /\ pass'.at = "aws" /\ pass'.todo = DataPods /\ pass'.desired = desired
          /\ \A f \in Fields \ {"at", "todo", "desired"} : pass'[f] = pass[f]
      BY <1>1, <2>1, <2>3 DEF HasFields, Fields
    <3>2. pass'.outcome = pass.outcome
      BY <3>1 DEF Fields
    <3> QED  BY <2>1, <3>1, <3>2 DEF desired
  <2> QED  BY <2>1, <2>2, <2>3
<1>5. ASSUME Classifies
      PROVE  /\ HasFields(pass') /\ pass.at \in {"classify", "aws"} /\ pass.todo = <<>>
             /\ pass'.at = "settings"
             /\ \A f \in Fields \ {"at", "config", "settings"} : pass'[f] = pass[f]
             /\ pass'.config \in {None, showConfig} /\ pass'.settings \in BOOLEAN
  <2>1. \E config \in {None, showConfig}, settings \in BOOLEAN :
          pass' = [pass EXCEPT !.at = "settings", !.config = config, !.settings = settings]
    <3>1. CASE classifyFlags
      BY <3>1 DEF classifyFlags
    <3>2. ASSUME NEW lost \in BOOLEAN, LoseView(lost)
          PROVE  \E config \in {None, showConfig}, settings \in BOOLEAN :
                   pass' = [pass EXCEPT !.at = "settings", !.config = config, !.settings = settings]
      <4>1. pass' = [pass EXCEPT !.at = "settings", !.config = IF lost THEN None ELSE showConfig,
                                 !.settings = lost /\ raft.leader # None]
        BY <3>2 DEF LoseView
      <4> QED  BY <4>1
    <3> QED  BY <1>5, <3>1, <3>2 DEF Classifies
  <2>2. pass.at \in {"classify", "aws"} /\ pass.todo = <<>>
    BY <1>5 DEF Classifies, classifyFlags, LoseView
  <2> HIDE DEF showConfig
  <2> QED  BY <1>1, <2>1, <2>2 DEF HasFields, Fields
<1>6. ASSUME SetsCoordinators
      PROVE  /\ HasFields(pass') /\ pass.at = "settings" /\ pass'.at = "finish"
             /\ \A f \in Fields \ {"at", "outcome"} : pass'[f] = pass[f]
             /\ pass.outcome \in Outcomes
             /\ pass'.outcome \in Outcomes /\ (Clean(pass'.outcome) => Clean(pass.outcome))
  <2>1. pass.at = "settings"
    BY <1>6 DEF SetsCoordinators, reconcileCoordinatorSettings, LoseCoordinatorSetting
  <2>2. pass.outcome \in Outcomes /\ HasFields(pass)
    BY <1>1, <2>1
  <2>3. \E outcome \in Outcomes : /\ pass' = [pass EXCEPT !.at = "finish", !.outcome = outcome]
                                  /\ Clean(outcome) => Clean(pass.outcome)
    <3>1. CASE pass' = [pass EXCEPT !.at = "finish"]
      <4>1. pass' = [pass EXCEPT !.at = "finish", !.outcome = pass.outcome]
        BY <2>2, <3>1 DEF HasFields, Fields
      <4> QED  BY <2>2, <4>1
    <3>2. CASE pass' = [pass EXCEPT !.at = "finish", !.outcome.rejected = TRUE]
      <4>1. [pass.outcome EXCEPT !.rejected = TRUE] \in Outcomes /\ ~ Clean([pass.outcome EXCEPT !.rejected = TRUE])
        BY <2>2 DEF Outcomes, Clean
      <4> QED  BY <3>2, <4>1
    <3>3. CASE pass' = [pass EXCEPT !.at = "finish",
                          !.outcome.pending = pass.outcome.pending \/ (~pass.settings /\ KeysOf(Coordinator) # {})]
      <4> DEFINE owing == pass.outcome.pending \/ (~pass.settings /\ KeysOf(Coordinator) # {})
      <4>1. [pass.outcome EXCEPT !.pending = owing] \in Outcomes
        BY <2>2 DEF Outcomes
      <4>2. Clean([pass.outcome EXCEPT !.pending = owing]) => Clean(pass.outcome)
        BY <2>2 DEF Outcomes, Clean
      <4> QED  BY <3>3, <4>1, <4>2
    <3> QED  BY <1>6, <3>1, <3>2, <3>3 DEF SetsCoordinators, reconcileCoordinatorSettings, LoseCoordinatorSetting
  <2>4. PICK outcome \in Outcomes : /\ pass' = [pass EXCEPT !.at = "finish", !.outcome = outcome]
                                    /\ Clean(outcome) => Clean(pass.outcome)
    BY <2>3
  <2>5. /\ HasFields(pass') /\ pass'.at = "finish" /\ pass'.outcome = outcome
        /\ \A f \in Fields \ {"at", "outcome"} : pass'[f] = pass[f]
    BY <2>2, <2>4 DEF HasFields, Fields
  <2> QED  BY <2>1, <2>2, <2>4, <2>5
<1>7. ASSUME EndUnobserved
      PROVE  /\ HasFields(pass') /\ pass.at = "begun" /\ pass'.at = "publish"
             /\ \A f \in Fields \ {"at"} : pass'[f] = pass[f]
  BY <1>1, <1>7 DEF EndUnobserved, HasFields, Fields
<1> QED  BY <1>2, <1>3, <1>4, <1>5, <1>6, <1>7

(* Converged is True only if none of the reasons against it holds.          *)
LEMMA ConvergedFacts ==
  ASSUME NEW reasons, NEW outcome \in Outcomes, NEW generation \in Nat, NEW g \in 0 .. generation
  PROVE  LET c == convergedCondition(reasons, outcome, g)
         IN  /\ IsCondition(c, generation) /\ c.gen = g /\ c.status \in {"True", "False"}
             /\ c.status = "True" => Clean(outcome) /\ ~ outcome.unknown
<1> DEFINE ranked == Ranked(reasons, outcome)
           first  == {i \in 1 .. 8 : ranked[i].holds /\ \A j \in 1 .. (i - 1) : ~ ranked[j].holds}
           c == convergedCondition(reasons, outcome, g)
<1>1. c = IF first = {} THEN Condition("True", "AllInstancesRegistered", g)
          ELSE Condition("False", ranked[CHOOSE i \in first : TRUE].reason, g)
  BY DEF convergedCondition
<1>2. c = Condition(c.status, c.reason, g) /\ c.gen = g /\ c.status \in {"True", "False"}
  BY <1>1 DEF Condition
<1>3. IsCondition(c, generation)
  BY <1>2, ConditionType
<1>4. c.status = "True" => first = {}
  BY <1>1 DEF Condition
<1>5. ASSUME first = {} PROVE Clean(outcome) /\ ~ outcome.unknown
  <2>1. /\ ranked[5].holds = outcome.rejected /\ ranked[6].holds = outcome.unknown
        /\ ranked[8].holds = outcome.pending
    BY DEF Ranked
  <2> HIDE DEF ranked
  <2>2. \A i \in 1 .. 8 : ranked[i].holds => \E j \in 1 .. (i - 1) : ranked[j].holds
    BY <1>5
  <2>3. ~ ranked[1].holds
    BY <2>2
  <2>4. ~ ranked[2].holds
    BY <2>2, <2>3
  <2>5. ~ ranked[3].holds
    BY <2>2, <2>3, <2>4
  <2>6. ~ ranked[4].holds
    BY <2>2, <2>3, <2>4, <2>5
  <2>7. ~ ranked[5].holds
    BY <2>2, <2>3, <2>4, <2>5, <2>6
  <2>8. ~ ranked[6].holds
    BY <2>2, <2>3, <2>4, <2>5, <2>6, <2>7
  <2>9. ~ ranked[7].holds
    BY <2>2, <2>3, <2>4, <2>5, <2>6, <2>7, <2>8
  <2>10. ~ ranked[8].holds
    BY <2>2, <2>3, <2>4, <2>5, <2>6, <2>7, <2>8, <2>9
  <2> QED  BY <2>1, <2>7, <2>8, <2>10 DEF Clean
<1> HIDE DEF c
<1> QED  BY <1>2, <1>3, <1>4, <1>5 DEF c

(* A verdict says whether a MAIN is served.                                 *)
LEMMA VerdictFacts ==
  ASSUME NEW main
  PROVE  /\ Verdict(main) = IF main # None THEN trueCondition("MainElected") ELSE falseCondition("NoMainElected")
         /\ Verdict(main).status = "True" <=> main # None
  BY DEF Verdict, servingOrNot, trueCondition, falseCondition, Condition

(* A verdict a pass may end with, or none. *)
IsVerdict(serving) ==
  /\ IsCondition(serving, cluster.generation)
  /\ serving.status = "False" => serving.reason \in servingReasons
  /\ serving = Absent \/ serving.status \in {"True", "False"}

(* What a pass records when it ends: a Converged that is False, unless it   *)
(* got as far as the roll and concludes with what it owes.                  *)
EndsWith(main, serving, given) ==
  /\ pass' = Record(main, serving, given)
  /\ main \in Pods \cup {None}
  /\ \A t \in DOMAIN given : IsCondition(given[t], cluster.generation)
  /\ IsVerdict(serving)
  /\ "Converged" \in DOMAIN given /\ given["Converged"].gen = pass.generation
  /\ serving = Absent => given["Converged"].status = "False"
  /\ \/ given["Converged"].status = "False"
     \/ /\ pass.at = "finish" /\ "LicenseApplied" \notin DOMAIN given
        /\ serving = Verdict(pass.main)
        /\ given["Converged"] =
             convergedCondition(pass.owed, [pass.outcome EXCEPT !.unknown = unknownMessage], pass.generation)
        /\ "Updated" \in DOMAIN given /\ (given["Updated"].status = "True" => ConcludeUpdated)

(* A pass that concludes its roll.                                          *)
LEMMA ConcludeFacts ==
  ASSUME TypeInv, pass.at = "finish", NEW updated, IsCondition(updated, cluster.generation),
         updated.status = "True" => ConcludeUpdated, pass' = Conclude(updated)
  PROVE  \E main, serving, given : EndsWith(main, serving, given)
<1>1. /\ cluster.generation \in Nat /\ pass.generation \in 1 .. cluster.generation
      /\ pass.outcome \in Outcomes /\ pass.main \in Pods \cup {None}
  BY DEF TypeInv, ClusterType, PassType
<1>2. pass.generation \in 0 .. cluster.generation
  BY <1>1
<1> DEFINE outcome == [pass.outcome EXCEPT !.unknown = unknownMessage]
           converged == convergedCondition(pass.owed, outcome, pass.generation)
           given == [Converged |-> converged, Updated |-> updated]
<1>3. outcome \in Outcomes
  <2>1. unknownMessage \in BOOLEAN
    BY DEF unknownMessage
  <2> QED  BY <1>1, <2>1 DEF Outcomes
<1>4. pass' = Record(pass.main, Verdict(pass.main), given)
  BY DEF Conclude
<1> HIDE DEF outcome
<1>5. IsCondition(converged, cluster.generation) /\ converged.gen = pass.generation
      /\ converged.status \in {"True", "False"}
  BY <1>1, <1>2, <1>3, ConvergedFacts
<1> HIDE DEF converged
<1>6. DOMAIN given = {"Converged", "Updated"} /\ given["Converged"] = converged /\ given["Updated"] = updated
  OBVIOUS
<1> HIDE DEF given
<1>7. IsVerdict(Verdict(pass.main)) /\ Verdict(pass.main) # Absent
  <2>1. \A r : /\ IsCondition(trueCondition(r), cluster.generation)
               /\ IsCondition(falseCondition(r), cluster.generation)
    BY <1>1, <1>2, ConditionType DEF trueCondition, falseCondition
  <2>2. /\ trueCondition("MainElected").status = "True"
        /\ falseCondition("NoMainElected").status = "False"
        /\ falseCondition("NoMainElected").reason = "NoMainElected" /\ Absent.status = "Absent"
    BY DEF trueCondition, falseCondition, Condition, Absent
  <2> QED  BY <2>1, <2>2, VerdictFacts DEF IsVerdict, servingReasons
<1>8. EndsWith(pass.main, Verdict(pass.main), given)
  BY <1>1, <1>4, <1>5, <1>6, <1>7 DEF EndsWith, converged, outcome
<1> QED  BY <1>8

(* The ways a pass ends.                                                    *)
LEMMA EndsFacts ==
  ASSUME TypeInv, Ends
  PROVE  /\ pass.at \notin {"idle", "publish"} /\ HasFields(pass)
         /\ \E main, serving, given : EndsWith(main, serving, given)
<1> USE DEF falseCondition, trueCondition
<1>1. pass.at \in {"begun", "observe", "license", "finish"}
  BY DEF Ends, EndRecreating, EndApplyFailed, EndRegistrationFailed, EndLeaderless, EndRegistering,
         FinishLicense, WaitForRoll, ConcludeUpdated, Restarts, restartPod
<1>2. /\ cluster.generation \in Nat /\ pass.generation \in 1 .. cluster.generation
      /\ pass.main \in Pods \cup {None} /\ HasFields(pass)
      /\ LastMain \in Pods \cup {None} /\ raft.main \in Pods \cup {None}
  BY <1>1 DEF TypeInv, ClusterType, PassType, LastMain, IsStatus
<1>3. ASSUME NEW s \in {"True", "False"}, NEW r
      PROVE  /\ IsCondition(Condition(s, r, pass.generation), cluster.generation)
             /\ Condition(s, r, pass.generation).status = s /\ Condition(s, r, pass.generation).reason = r
             /\ Condition(s, r, pass.generation).gen = pass.generation
             /\ Condition(s, r, pass.generation) # Absent
  <2>1. pass.generation \in 0 .. cluster.generation
    BY <1>2
  <2>2. IsCondition(Condition(s, r, pass.generation), cluster.generation)
    BY <1>2, <2>1, ConditionType
  <2> QED  BY <2>2 DEF Condition, Absent
<1>4. IsVerdict(Absent)
  BY <1>2 DEF IsVerdict, Absent, Condition, IsCondition
<1>5. \A r \in servingReasons : IsVerdict(falseCondition(r)) /\ falseCondition(r) # Absent
  BY <1>3 DEF IsVerdict
<1>6. IsVerdict(Verdict(raft.main)) /\ Verdict(raft.main) # Absent
  BY <1>3, VerdictFacts DEF IsVerdict, servingReasons
<1>7. ASSUME NEW main \in Pods \cup {None}, NEW serving, IsVerdict(serving), NEW r,
             pass' = Record(main, serving, [Converged |-> falseCondition(r)])
      PROVE  \E m, v, given : EndsWith(m, v, given)
  <2> DEFINE given == [Converged |-> falseCondition(r)]
  <2>1. DOMAIN given = {"Converged"} /\ given["Converged"] = falseCondition(r)
    OBVIOUS
  <2> HIDE DEF given
  <2>2. EndsWith(main, serving, given)
    BY <1>3, <1>7, <2>1 DEF EndsWith, given
  <2> QED  BY <2>2
<1>8. CASE EndRecreating
  BY <1>1, <1>2, <1>4, <1>7, <1>8 DEF EndRecreating
<1>9. CASE EndApplyFailed
  BY <1>1, <1>2, <1>5, <1>7, <1>9 DEF EndApplyFailed, servingReasons
<1>10. CASE EndRegistrationFailed \/ EndRegistering
  BY <1>1, <1>2, <1>6, <1>7, <1>10 DEF EndRegistrationFailed, EndRegistering
<1>11. CASE EndLeaderless
  <2> DEFINE reason == IF \E o \in ToSet(CoordinatorPods) : Up(o)
                       THEN "NoCoordinatorLeader" ELSE "CoordinatorUnreachable"
  <2>1. reason \in servingReasons
    BY DEF servingReasons
  <2>2. pass' = Record(LastMain, falseCondition(reason), [Converged |-> falseCondition(reason)])
    BY <1>11 DEF EndLeaderless
  <2> HIDE DEF reason
  <2> QED  BY <1>1, <1>2, <1>5, <1>7, <2>1, <2>2
<1>12. CASE FinishLicense /\ ~ workloadsReady
  <2> DEFINE unready == falseCondition("WorkloadsNotReady")
             given == [LicenseApplied |-> licenseCondition, Converged |-> unready]
  <2>1. pass' = Record(LastMain, unready, given)
    BY <1>12 DEF FinishLicense
  <2>2. IsVerdict(unready) /\ unready # Absent
    BY <1>5 DEF servingReasons
  <2>3. IsCondition(licenseCondition, cluster.generation)
    BY <1>3 DEF licenseCondition
  <2>4. IsCondition(unready, cluster.generation) /\ unready.status = "False" /\ unready.gen = pass.generation
    BY <1>3
  <2> HIDE DEF unready
  <2>5. /\ DOMAIN given = {"LicenseApplied", "Converged"}
        /\ given["LicenseApplied"] = licenseCondition /\ given["Converged"] = unready
    OBVIOUS
  <2> HIDE DEF given
  <2>6. EndsWith(LastMain, unready, given)
    BY <1>2, <2>1, <2>2, <2>3, <2>4, <2>5 DEF EndsWith
  <2> QED  BY <1>1, <1>2, <2>6
<1>13. CASE WaitForRoll \/ Restarts
  <2>1. pass.at = "finish" /\ \E r : pass' = Conclude(falseCondition(r))
    BY <1>13 DEF WaitForRoll, Restarts, restartPod
  <2> QED  BY <1>1, <1>2, <1>3, <2>1, ConcludeFacts
<1>14. CASE ConcludeUpdated
  <2>1. pass.at = "finish" /\ pass' = Conclude(trueCondition("AllPodsUpdated"))
    BY <1>14 DEF ConcludeUpdated
  <2> QED  BY <1>1, <1>2, <1>3, <1>14, <2>1, ConcludeFacts
<1> QED  BY <1>8, <1>9, <1>10, <1>11, <1>12, <1>13, <1>14 DEF Ends

(* Ended, a pass is still one.                                              *)
LEMMA EndsFields ==
  ASSUME TypeInv, NEW main, NEW serving, NEW given, EndsWith(main, serving, given), HasFields(pass),
         pass.at # "idle"
  PROVE  /\ HasFields(pass') /\ pass'.at = "publish" /\ pass'.serving = serving
         /\ \A f \in Fields \ {"at", "serving", "status"} : pass'[f] = pass[f]
         /\ IsStatus(pass'.status, cluster.generation)
         /\ \A t \in ConditionTypes :
              pass'.status.conditions[t] = IF t \in DOMAIN given THEN given[t] ELSE pass.status.conditions[t]
<1>1. cluster.generation \in Nat /\ IsStatus(pass.status, cluster.generation)
  BY DEF TypeInv, ClusterType, PassType
<1>2. pass' = Record(main, serving, given)
  BY DEF EndsWith
<1>3. /\ HasFields(pass') /\ pass'.at = "publish" /\ pass'.serving = serving
      /\ \A f \in Fields \ {"at", "serving", "status"} : pass'[f] = pass[f]
      /\ pass'.status = setStatus(pass.status, main, given)
  BY <1>2, RecordFields
<1>4. main \in Pods \cup {None} /\ \A t \in DOMAIN given : IsCondition(given[t], cluster.generation)
  BY DEF EndsWith
<1> QED  BY <1>1, <1>3, <1>4, SetStatusFacts

(* A pass keeps its type, whatever it does and whatever happens to it.      *)
LEMMA PassStep ==
  ASSUME TypeInv, [Next]_vars
  PROVE  PassType'
<1>1. PassType /\ cluster.generation \in Nat
  BY DEF TypeInv, ClusterType
<1>2. cluster'.generation = cluster.generation \/ \E s \in Specs : Edit(s)
  BY Writers, PublishFacts
<1>3. CASE \E s \in Specs : Edit(s)
  <2>1. pass.at = "idle" /\ pass' = pass
    BY <1>3 DEF Edit, Quiet
  <2> QED  BY <1>1, <2>1 DEF PassType
<1>4. CASE pass' = pass /\ UNCHANGED <<sets, cluster>>
  BY <1>1, <1>4 DEF PassType
<1>5. CASE Publish \/ Abandon
  <2>1. pass' = Idle /\ Idle.at = "idle"
    BY <1>5 DEF Publish, Abandon, Idle
  <2> QED  BY <2>1 DEF PassType
<1>6. CASE BeginPass
  BY <1>6, BeginType
<1> SUFFICES ASSUME cluster'.generation = cluster.generation, pass.at # "idle",
                    \/ Crashes \/ EndUnobserved \/ Apply
                    \/ TurnEnds \/ observedSettings \/ SetSetting
                    \/ (FinishLicense /\ workloadsReady) \/ Registered \/ BeginAWSCredentials
                    \/ Classifies \/ SetsCoordinators \/ Ends
             PROVE  PassType'
  <2>1. CASE pass.at = "idle" /\ Crashes
    <3>1. pass' = Idle /\ Idle.at = "idle"
      BY <2>1 DEF Crashes, Crash, Disturb, Idle
    <3> QED  BY <3>1 DEF PassType
  <2>2. EndUnobserved \/ Apply \/ TurnEnds \/ observedSettings \/ SetSetting
        \/ (FinishLicense /\ workloadsReady) \/ Registered \/ BeginAWSCredentials
        \/ Classifies \/ SetsCoordinators \/ Ends => pass.at # "idle"
    <3>1. EndUnobserved \/ Apply \/ (FinishLicense /\ workloadsReady) \/ Registered
          \/ BeginAWSCredentials \/ Classifies \/ SetsCoordinators => pass.at # "idle"
      BY DEF EndUnobserved, Apply, FinishLicense, Registered, BeginAWSCredentials, Classifies,
             classifyFlags, LoseView, SetsCoordinators, reconcileCoordinatorSettings, LoseCoordinatorSetting
    <3>2. TurnEnds \/ observedSettings \/ SetSetting => Visiting
      BY DEF TurnEnds, SkipUnready, SkipUnreadOrInLine, SettingRejected, SetsLost, LoseSet, CanSet,
             observedSettings, SetSetting
    <3>3. Visiting => pass.at # "idle"
      BY DEF Visiting
    <3> QED  BY <3>1, <3>2, <3>3, EndsFacts
  <2> QED  BY <1>2, <1>3, <1>4, <1>5, <1>6, <2>1, <2>2, PassCases
<1>7. /\ HasFields(pass) /\ pass.at \in Stages
      /\ pass.spec \in Specs
      /\ pass.generation \in 1 .. cluster.generation
      /\ IsStatus(pass.status, cluster.generation)
      /\ pass.steady \subseteq Pods
      /\ pass.desired \in SettingsOf
      /\ pass.license \in Outcomes /\ pass.outcome \in Outcomes
  BY <1>1 DEF PassType
<1>8. CASE Crashes
  <2>1. PICK o : pass' = Disturb(o)
    BY <1>8 DEF Crashes, Crash
  <2>2. /\ HasFields(pass') /\ \A f \in Fields \ {"steady"} : pass'[f] = pass[f]
        /\ pass'.steady = pass.steady \ {o}
    BY <1>7, <2>1, DisturbFields
  <2>3. pass'.at = pass.at /\ pass'.steady \subseteq Pods
    BY <1>7, <2>2 DEF Fields
  <2> QED  BY <1>1, <1>7, <2>2, <2>3, PassFields
<1>9. CASE EndUnobserved
  <2>1. /\ HasFields(pass') /\ pass'.at = "publish"
        /\ \A f \in Fields \ {"at"} : pass'[f] = pass[f]
    BY <1>1, <1>9, StageFields
  <2>2. pass'.at \in Stages
    BY <2>1 DEF Stages
  <2> QED  BY <1>1, <2>1, <2>2, PassFields
<1>10. CASE Apply
  <2>1. /\ HasFields(pass') /\ pass'.at = "license"
        /\ \A f \in Fields \ {"at", "stale", "ready", "running", "todo", "desired", "license"} :
             pass'[f] = pass[f]
        /\ pass'.stale \in BOOLEAN
        /\ pass'.ready = {o \in Pods : Up(o)}
        /\ pass'.todo = IF readLicense THEN Endpoints ELSE <<>>
        /\ pass'.desired \in SettingsOf
        /\ pass'.license \in Outcomes
    BY <1>10, ApplyFields
  <2>2. pass'.at \in Stages /\ pass'.ready \subseteq Pods /\ IsInjectiveSeq(pass'.todo, Pods)
    BY <2>1, EndpointsFacts DEF Stages, Underway, Visits
  <2> QED  BY <1>1, <2>1, <2>2, PassFields
<1>11. CASE TurnEnds
  <2>1. /\ Visiting /\ HasFields(pass')
        /\ \A f \in Fields \ {"todo", "license", "outcome"} : pass'[f] = pass[f]
        /\ pass'.todo = Tail(pass.todo)
        /\ \E owing : pass' = NextPod(owing)
    BY <1>1, <1>11, TurnFields
  <2>2. PICK owing : pass' = NextPod(owing)
    BY <2>1
  <2>3. /\ pass'.license = IF pass.at = "license" THEN Tally(pass.license, owing) ELSE pass.license
        /\ pass'.outcome = IF pass.at = "license" THEN pass.outcome ELSE Tally(pass.outcome, owing)
    BY <1>7, <2>2, NextPodFields
  <2>4. pass'.license \in Outcomes /\ pass'.outcome \in Outcomes
    BY <1>7, <2>3, TallyFacts
  <2>5. IsInjectiveSeq(pass'.todo, Pods)
    BY <1>1, <2>1, PodFacts
  <2>6. pass'.at = pass.at
    BY <2>1 DEF Fields
  <2> QED  BY <1>1, <1>7, <2>1, <2>4, <2>5, <2>6, PassFields
<1>12. CASE observedSettings
  <2> DEFINE x == IF Up(Pod) THEN pods[Pod].settings ELSE Failed
  <2>1. Visiting /\ pass' = [pass EXCEPT !.reads[Pod] = x]
    BY <1>12 DEF observedSettings
  <2>2. Pod \in Pods
    BY <1>1, <2>1, PodFacts
  <2>3. pods \in [Pods -> PodRecord]
    BY DEF TypeInv, ClusterType
  <2>4. x \in SettingsOf \cup {None, Failed}
    BY <2>2, <2>3 DEF PodRecord
  <2> HIDE DEF x
  <2>5. /\ HasFields(pass')
        /\ \A f \in Fields \ {"reads"} : pass'[f] = pass[f]
        /\ pass'.reads \in [Pods -> SettingsOf \cup {None, Failed}]
    BY <1>1, <2>1, <2>4, ReadFields
  <2>6. pass'.at = pass.at
    BY <2>5 DEF Fields
  <2> QED  BY <1>1, <1>7, <2>5, <2>6, PassFields
<1>13. CASE SetSetting
  <2>1. /\ HasFields(pass')
        /\ \A f \in Fields \ {"reads"} : pass'[f] = pass[f]
        /\ pass'.reads \in [Pods -> SettingsOf \cup {None, Failed}]
    BY <1>13, SetFields
  <2>2. pass'.at = pass.at
    BY <2>1 DEF Fields
  <2> QED  BY <1>1, <1>7, <2>1, <2>2, PassFields
<1>14. CASE FinishLicense /\ workloadsReady
  <2>1. /\ HasFields(pass') /\ pass'.at = "observe"
        /\ \A f \in Fields \ {"at", "status"} : pass'[f] = pass[f]
        /\ pass'.status = setStatus(pass.status, LastMain, [LicenseApplied |-> licenseCondition])
    BY <1>1, <1>14, StageFields
  <2>2. IsCondition(licenseCondition, cluster.generation)
    <3>1. pass.generation \in 0 .. cluster.generation
      BY <1>1, <1>7
    <3> QED  BY <1>1, <3>1, ConditionType DEF licenseCondition, falseCondition, trueCondition
  <2>3. LastMain \in Pods \cup {None}
    BY <1>7 DEF LastMain, IsStatus
  <2> DEFINE given == [LicenseApplied |-> licenseCondition]
  <2>4. \A t \in DOMAIN given : IsCondition(given[t], cluster.generation)
    BY <2>2
  <2> HIDE DEF given
  <2>5. IsStatus(setStatus(pass.status, LastMain, given), cluster.generation)
    BY <1>1, <1>7, <2>3, <2>4, SetStatusFacts
  <2>6. IsStatus(pass'.status, cluster.generation) /\ pass'.at \in Stages
    BY <2>1, <2>5 DEF given, Stages, Underway, Visits
  <2> QED  BY <1>1, <2>1, <2>6, PassFields
<1>15. CASE Registered
  <2>1. /\ HasFields(pass') /\ pass'.at = "flags"
        /\ \A f \in Fields \ {"at", "main", "todo", "desired"} : pass'[f] = pass[f]
        /\ pass'.main = raft.main /\ pass'.todo = Endpoints
        /\ pass'.desired = [pass.desired EXCEPT !.level = pass.spec.level]
    BY <1>1, <1>15, StageFields
  <2>2. pass'.main \in Pods \cup {None} /\ pass.spec.level \in Nat
    BY <1>7, <2>1, SpecsAssumption DEF TypeInv, ClusterType
  <2>3. pass'.desired \in SettingsOf
    BY <1>7, <2>1, <2>2, SettingsFacts
  <2>4. pass'.at \in Stages /\ IsInjectiveSeq(pass'.todo, Pods)
    BY <2>1, EndpointsFacts DEF Stages, Underway, Visits
  <2> QED  BY <1>1, <2>1, <2>2, <2>3, <2>4, PassFields
<1>16. CASE BeginAWSCredentials
  <2>1. /\ HasFields(pass') /\ pass.at = "flags" /\ pass.todo = <<>>
        /\ \A f \in Fields \ {"at", "todo", "desired", "outcome"} : pass'[f] = pass[f]
        /\ \/ /\ pass'.at = "classify" /\ pass'.todo = pass.todo /\ pass'.desired = pass.desired
              /\ pass'.outcome = [pass.outcome EXCEPT !.pending = TRUE]
           \/ /\ pass'.at = "aws" /\ pass'.todo = DataPods /\ pass'.outcome = pass.outcome
              /\ pass'.desired = [pass.desired EXCEPT !.aws = secrets.aws]
    BY <1>1, <1>16, StageFields
  <2>2. [pass.outcome EXCEPT !.pending = TRUE] \in Outcomes
    BY <1>7 DEF Outcomes
  <2>3. secrets.aws \in Credentials \cup {None}
    BY DEF TypeInv, ClusterType
  <2>4. [pass.desired EXCEPT !.aws = secrets.aws] \in SettingsOf
    BY <1>7, <2>3, SettingsFacts
  <2>5. pass'.at \in Stages /\ IsInjectiveSeq(pass'.todo, Pods)
    BY <2>1, EndpointsFacts DEF Stages, Underway, Visits
  <2>6. pass'.desired \in SettingsOf /\ pass'.outcome \in Outcomes
    BY <1>7, <2>1, <2>2, <2>4
  <2> QED  BY <1>1, <2>1, <2>5, <2>6, PassFields
<1>17. CASE Classifies
  <2>1. /\ HasFields(pass') /\ pass'.at = "settings"
        /\ \A f \in Fields \ {"at", "config", "settings"} : pass'[f] = pass[f]
        /\ pass'.settings \in BOOLEAN
    BY <1>1, <1>17, StageFields
  <2>2. pass'.at \in Stages
    BY <2>1 DEF Stages, Underway
  <2> QED  BY <1>1, <2>1, <2>2, PassFields
<1>18. CASE SetsCoordinators
  <2>1. /\ HasFields(pass') /\ pass'.at = "finish"
        /\ \A f \in Fields \ {"at", "outcome"} : pass'[f] = pass[f]
        /\ pass'.outcome \in Outcomes
    BY <1>1, <1>18, StageFields
  <2>2. pass'.at \in Stages
    BY <2>1 DEF Stages, Underway
  <2> QED  BY <1>1, <2>1, <2>2, PassFields
<1>19. CASE Ends
  <2>1. PICK main, serving, given : EndsWith(main, serving, given)
    BY <1>19, EndsFacts
  <2>2. /\ HasFields(pass') /\ pass'.at = "publish" /\ pass'.serving = serving
        /\ \A f \in Fields \ {"at", "serving", "status"} : pass'[f] = pass[f]
        /\ IsStatus(pass'.status, cluster.generation)
    BY <1>7, <2>1, EndsFields
  <2>3. IsCondition(pass'.serving, cluster.generation) /\ pass'.at \in Stages
    BY <2>1, <2>2 DEF EndsWith, IsVerdict, Stages
  <2> QED  BY <1>1, <2>2, <2>3, PassFields
<1> QED  BY <1>8, <1>9, <1>10, <1>11, <1>12, <1>13, <1>14, <1>15, <1>16, <1>17, <1>18, <1>19

(* The first state.                                                         *)
LEMMA TypeInit ==
  ASSUME Init
  PROVE  TypeInv
<1>1. FirstSpec \in Specs /\ TemplateOf(FirstSpec) \in Templates /\ FirstSpec.level \in Nat
  BY FirstSpecAssumption, TemplateType, SpecsAssumption
<1>2. IsCondition(Absent, 1)
  BY DEF Absent, Condition, IsCondition
<1>3. IsStatus(NoStatus(None), 1)
  BY <1>2 DEF IsStatus, NoStatus
<1>4. /\ cluster = [spec |-> FirstSpec, generation |-> 1, status |-> NoStatus(None)]
      /\ cached = cluster
  BY DEF Init
<1>5. cluster.generation \in Nat /\ IsResource(cluster) /\ IsResource(cached)
  <2>1. /\ cluster = [spec |-> cluster.spec, generation |-> cluster.generation, status |-> cluster.status]
        /\ cluster.generation = 1 /\ cluster.spec = FirstSpec /\ cluster.status = NoStatus(None)
    BY <1>4
  <2>2. cluster.generation \in 1 .. cluster.generation
    BY <2>1
  <2> QED  BY <1>1, <1>3, <1>4, <2>1, <2>2 DEF IsResource
<1>6. secrets \in [license : Licenses \cup {None}, aws : Credentials \cup {None}]
  <2>1. (CHOOSE a \in Credentials : TRUE) \in Credentials
    BY CredentialsAssumption
  <2>2. (CHOOSE l \in Licenses : TRUE) \in Licenses
    BY LicenseAssumption
  <2> QED  BY <2>1, <2>2 DEF Init
<1>7. sets \in [template : Templates, generation : Nat \ {0}, level : Nat] /\ seenSets \in SeenSets /\ SetsSeen
  BY <1>1 DEF Init, SeenSets, SetsSeen
<1>8. pods \in [Pods -> PodRecord]
  <2>1. [Unset EXCEPT !.level = FirstSpec.level] \in SettingsOf
    BY <1>1, UnsetType, SettingsFacts
  <2>2. sets.template \in Templates
    BY <1>7
  <2> QED  BY <2>1, <2>2 DEF Init, PodRecord
<1>9. raft \in [leader : Pods \cup {None}, main : Pods \cup {None}, registered : BOOLEAN, setting : BOOLEAN]
  BY EndpointsFacts DEF Init
<1>10. budget \in [changes : Nat, faults : Nat, stale : Nat]
  BY BoundsAssumption DEF Init
<1>11. PassType
  BY DEF Init, PassType, Idle
<1> QED  BY <1>5, <1>6, <1>7, <1>8, <1>9, <1>10, <1>11 DEF TypeInv, ClusterType

(* Every step keeps the types.                                              *)
LEMMA TypeStep ==
  ASSUME TypeInv, [Next]_vars
  PROVE  TypeInv'
<1>1. cluster'.generation \in Nat /\ IsResource(cluster)' /\ IsResource(cached)'
  BY ResourceStep
<1>2. secrets' \in [license : Licenses \cup {None}, aws : Credentials \cup {None}]
  BY Writers DEF TypeInv, ClusterType, Rotate
<1>3. /\ sets' \in [template : Templates, generation : Nat \ {0}, level : Nat]
      /\ seenSets' \in SeenSets /\ SetsSeen'
  BY SetsStep
<1>4. pods' \in [Pods -> PodRecord]
  BY PodsStep
<1>5. raft' \in [leader : Pods \cup {None}, main : Pods \cup {None}, registered : BOOLEAN, setting : BOOLEAN]
  BY RaftStep
<1>6. budget' \in [changes : Nat, faults : Nat, stale : Nat]
  BY Writers, SpendType DEF TypeInv, ClusterType
<1>7. PassType'
  BY PassStep
<1> QED  BY <1>1, <1>2, <1>3, <1>4, <1>5, <1>6, <1>7 DEF TypeInv, ClusterType

(* The variables have their types, whatever fails and however long the     *)
(* operator runs: the conditions are of generations the resource has had    *)
(* (Reconcile, setStatus), and a pass plans only with a settings view       *)
(* (observedSettings).                                                      *)
THEOREM SettingsTypeCorrect == Spec => []TypeOK
<1>1. TypeInv => TypeOK
  <2> SUFFICES ASSUME TypeInv PROVE TypeOK
    OBVIOUS
  <2>1. cluster.spec \in Specs /\ IsStatus(cluster.status, cluster.generation)
    BY DEF TypeInv, ClusterType, IsResource
  <2>2. \A t \in ConditionTypes :
          /\ cluster.status.conditions[t].status \in {"Absent", "True", "False", "Unknown"}
          /\ cluster.status.conditions[t].gen \in 0 .. cluster.generation
    BY <2>1 DEF IsStatus, IsCondition
  <2>3. cluster.status.main \in Pods \cup {None}
    BY <2>1 DEF IsStatus
  <2>4. pods \in [Pods -> PodRecord] /\ sets.template \in Templates
    BY DEF TypeInv, ClusterType
  <2>5. seenSets.generation \in 1 .. sets.generation
    BY DEF TypeInv, ClusterType, SetsSeen, SeenSets
  <2>6. pass.at # "idle" => \A o \in Pods : pass.reads[o] \in SettingsOf \cup {None, Failed}
    BY DEF TypeInv, PassType
  <2>7. \A kind \in DOMAIN budget : budget[kind] \in Nat
    BY DEF TypeInv, ClusterType
  <2> QED  BY <2>1, <2>2, <2>3, <2>4, <2>5, <2>6, <2>7 DEF TypeOK, PodRecord
<1> QED  BY <1>1, TypeInit, TypeStep, PTL DEF Spec

-----------------------------------------------------------------------------
(* A license goes under its organization *)

(* What a step does to the pods: only a restart recreates one, only a crash *)
(* or a restart takes one down, and settings change where a pod was not up, *)
(* where one crashes, or where the pass SETs one.                           *)
LEMMA PodsMove ==
  ASSUME TypeInv, [Next]_vars, NEW o \in Pods
  PROVE  /\ ~ Restarts /\ pods[o].state # "gone" =>
              pods'[o].state # "gone" /\ pods'[o].template = pods[o].template
         /\ Up(o) => Up(o)' \/ (\E wiped \in BOOLEAN : Crash(o, wiped)) \/ Restarts
         /\ \/ pods'[o].settings = pods[o].settings
            \/ ~ Up(o) /\ Starts /\ pods'[o].settings.license = pods[o].settings.license
            \/ \E wiped \in BOOLEAN : Crash(o, wiped) /\ pods'[o].settings = Unset
            \/ /\ o = Pod /\ (SetSetting \/ SetsLost) /\ CanSet /\ Changes(pass.reads[Pod]) # <<>>
               /\ LET s == Head(Changes(pass.reads[Pod]))
                  IN  pods'[o].settings = [pods[o].settings EXCEPT ![s] = pass.desired[s]]
<1>1. pods \in [Pods -> PodRecord] /\ PassType
  BY DEF TypeInv, ClusterType
<1>2. pods[o] \in PodRecord /\ pods[o].settings \in SettingsOf
  BY <1>1 DEF PodRecord
<1>3. CASE pods' = pods
  BY <1>3 DEF Up
<1>4. CASE Crashes
  <2>1. PICK p \in Pods, wiped \in BOOLEAN : Crash(p, wiped)
    BY <1>4 DEF Crashes
  <2> DEFINE settings == IF wiped THEN Unset ELSE pods[p].settings
  <2>2. pods' = [pods EXCEPT ![p] = [pods[p] EXCEPT !.state = "down", !.settings = settings]] /\ Up(p)
    BY <2>1 DEF Crash
  <2>3. CASE p # o
    <3>1. pods'[o] = pods[o]
      BY <1>1, <2>2, <2>3
    <3> QED  BY <3>1 DEF Up
  <2>4. CASE p = o
    <3> HIDE DEF settings
    <3>1. pods'[o] = [pods[o] EXCEPT !.state = "down", !.settings = settings]
      BY <1>1, <2>2, <2>4
    <3>2. pods'[o].state = "down" /\ pods'[o].template = pods[o].template /\ pods'[o].settings = settings
      BY <1>2, <3>1 DEF PodRecord
    <3>3. settings = Unset \/ settings = pods[o].settings
      BY <2>4 DEF settings
    <3>4. \E w \in BOOLEAN : Crash(o, w)
      BY <2>1, <2>4
    <3> QED  BY <2>1, <2>4, <3>2, <3>3, <3>4
  <2> QED  BY <2>3, <2>4
<1>5. CASE Starts
  <2>1. PICK p \in Pods : Start(p)
    BY <1>5 DEF Starts
  <2>2. CASE p # o
    <3>1. pods'[o] = pods[o]
      BY <1>1, <2>1, <2>2 DEF Start
    <3> QED  BY <3>1 DEF Up
  <2>3. CASE p = o
    <3> DEFINE template == IF pods[o].state = "gone" THEN sets.template ELSE pods[o].template
               settings == [pods[o].settings EXCEPT !.level = sets.level]
    <3>1. pods'[o] = [pods[o] EXCEPT !.state = "ready", !.template = template, !.settings = settings]
      BY <1>1, <1>2, <2>1, <2>3 DEF Start, PodRecord
    <3>2. settings.license = pods[o].settings.license
      BY <1>2 DEF SettingsOf
    <3> HIDE DEF template, settings
    <3>3. pods'[o].state = "ready" /\ pods'[o].template = template /\ pods'[o].settings = settings
      BY <1>2, <3>1 DEF PodRecord
    <3>4. ~ Up(o)
      BY <2>1, <2>3 DEF Start
    <3> QED  BY <1>5, <3>2, <3>3, <3>4 DEF template, Up
  <2> QED  BY <2>2, <2>3
<1>6. CASE SetSetting \/ SetsLost
  <2>1. CanSet /\ Visiting /\ Changes(pass.reads[Pod]) # <<>>
    BY <1>6 DEF SetSetting, SetsLost, LoseSet, CanSet
  <2> DEFINE s == Head(Changes(pass.reads[Pod]))
  <2>2. Pod \in Pods /\ pass.at \in {"license", "flags", "aws"} /\ pass.desired \in SettingsOf
    BY <1>1, <2>1, PodFacts
  <2>3. s \in SettingNames
    BY <2>1, <2>2, ChangesFacts
  <2>4. pods' = pods \/ pods' = [pods EXCEPT ![Pod].settings[s] = pass.desired[s]]
    BY <1>6 DEF SetSetting, SetsLost, LoseSet
  <2>5. CASE pods' = [pods EXCEPT ![Pod].settings[s] = pass.desired[s]]
    <3> HIDE DEF s
    <3>1. /\ \A p \in Pods \ {Pod} : pods'[p] = pods[p]
          /\ pods'[Pod].state = pods[Pod].state /\ pods'[Pod].template = pods[Pod].template
          /\ pods'[Pod].settings = [pods[Pod].settings EXCEPT ![s] = pass.desired[s]]
      BY <1>1, <2>2, <2>3, <2>5, SetPod
    <3>2. CASE o = Pod
      BY <1>6, <2>1, <3>1, <3>2 DEF Up, s
    <3>3. CASE o # Pod
      BY <3>1, <3>3 DEF Up
    <3> QED  BY <3>2, <3>3
  <2> QED  BY <1>3, <2>4, <2>5
<1>7. CASE Restarts
  <2>1. PICK p \in Pods : pods' = [pods EXCEPT ![p].state = "gone"]
    BY <1>7 DEF Restarts, restartPod
  <2>2. pods'[o].settings = pods[o].settings
    BY <1>1, <1>2, <2>1 DEF PodRecord
  <2> QED  BY <1>7, <2>2
<1> QED  BY <1>3, <1>4, <1>5, <1>6, <1>7, Writers

(* How a pass under way got there: it has just applied, or it goes on with  *)
(* what it read then.                                                       *)
LEMMA UnderwayStep ==
  ASSUME TypeInv, [Next]_vars, pass'.at \in Underway
  PROVE  \/ Apply
         \/ /\ pass.at \in Underway /\ ~ Restarts /\ ~ Apply /\ HasFields(pass')
            /\ \A f \in {"spec", "generation", "orig", "set", "stale", "ready", "running", "owed", "serving"} :
                 pass'[f] = pass[f]
            /\ pass'.steady \subseteq pass.steady
            /\ \A o, wiped : Crash(o, wiped) => o \notin pass'.steady
            /\ \A o \in pass.steady \ pass'.steady : \E wiped \in BOOLEAN : Crash(o, wiped)
<1>1. PassType
  BY DEF TypeInv
<1>2. "idle" \notin Underway /\ "begun" \notin Underway /\ "publish" \notin Underway
  BY DEF Underway, Visits
<1>3. ~ Restarts
  <2>1. Restarts => pass'.at = "publish"
    BY EndsFacts, EndsFields DEF Ends
  <2> QED  BY <1>2, <2>1
<1>4. Publish \/ Abandon => pass'.at = "idle"
  BY DEF Publish, Abandon, Idle
<1>5. BeginPass => pass'.at = "begun"
  BY BeginFields
<1>6. EndUnobserved \/ Ends => pass'.at = "publish"
  BY <1>1, EndsFacts, EndsFields, StageFields
<1>7. (\E s \in Specs : Edit(s)) => pass.at = "idle" /\ pass' = pass
  BY DEF Edit, Quiet
<1>8. CASE Crashes
  <2>1. PICK p \in Pods, w \in BOOLEAN : Crash(p, w)
    BY <1>8 DEF Crashes
  <2>2. pass' = Disturb(p)
    BY <2>1 DEF Crash
  <2>3. pass.at # "idle"
    BY <1>2, <2>2 DEF Disturb, Idle
  <2>4. HasFields(pass)
    BY <1>1, <2>3 DEF PassType
  <2>5. /\ HasFields(pass')
        /\ \A f \in Fields \ {"steady"} : pass'[f] = pass[f]
        /\ pass'.steady = pass.steady \ {p}
    BY <2>2, <2>3, <2>4, DisturbFields
  <2>6. \A f \in {"at", "spec", "generation", "orig", "set", "stale", "ready", "running", "owed", "serving"} :
          pass'[f] = pass[f]
    BY <2>5 DEF Fields
  <2>7. ASSUME NEW o, NEW wiped, Crash(o, wiped) PROVE o \notin pass'.steady
    BY <2>3, <2>4, <2>7, DisturbFields DEF Crash
  <2>8. ~ Apply
    BY <1>2, <2>6 DEF Apply
  <2> QED  BY <1>2, <1>3, <2>1, <2>5, <2>6, <2>7, <2>8
<1>9. ASSUME ~ Apply, ~ Crashes,
             \/ pass' = pass
             \/ TurnEnds \/ observedSettings \/ SetSetting
             \/ (FinishLicense /\ workloadsReady) \/ Registered \/ BeginAWSCredentials
             \/ Classifies \/ SetsCoordinators
      PROVE  /\ pass.at \in Underway /\ HasFields(pass')
             /\ \A f \in {"spec", "generation", "orig", "set", "stale", "ready", "running", "owed", "serving",
                          "steady"} : pass'[f] = pass[f]
  <2>1. CASE pass' = pass
    <3>1. pass.at # "idle"
      BY <1>2, <2>1
    <3> QED  BY <1>1, <2>1, <3>1 DEF PassType
  <2>2. CASE TurnEnds
    <3>1. /\ Visiting /\ HasFields(pass')
          /\ \A f \in Fields \ {"todo", "license", "outcome"} : pass'[f] = pass[f]
      BY <1>1, <2>2, TurnFields
    <3> QED  BY <3>1 DEF Fields, Visiting, Underway, Visits
  <2>3. CASE observedSettings
    <3> DEFINE x == IF Up(Pod) THEN pods[Pod].settings ELSE Failed
    <3>1. Visiting /\ pass' = [pass EXCEPT !.reads[Pod] = x]
      BY <2>3 DEF observedSettings
    <3>2. Pod \in Pods /\ pods \in [Pods -> PodRecord]
      BY <1>1, <3>1, PodFacts DEF TypeInv, ClusterType
    <3>3. x \in SettingsOf \cup {None, Failed}
      BY <3>2 DEF PodRecord
    <3> HIDE DEF x
    <3>4. /\ HasFields(pass')
          /\ \A f \in Fields \ {"reads"} : pass'[f] = pass[f]
      BY <1>1, <3>1, <3>3, ReadFields
    <3> QED  BY <3>1, <3>4 DEF Fields, Visiting, Underway, Visits
  <2>4. CASE SetSetting
    <3>1. /\ Visiting /\ HasFields(pass')
          /\ \A f \in Fields \ {"reads"} : pass'[f] = pass[f]
      BY <2>4, SetFields
    <3> QED  BY <3>1 DEF Fields, Visiting, Underway, Visits
  <2>5. CASE FinishLicense /\ workloadsReady
    <3>1. /\ HasFields(pass') /\ pass.at = "license"
          /\ \A f \in Fields \ {"at", "status"} : pass'[f] = pass[f]
      BY <1>1, <2>5, StageFields
    <3> QED  BY <3>1 DEF Fields, Underway, Visits
  <2>6. CASE Registered
    <3>1. /\ HasFields(pass') /\ pass.at = "observe"
          /\ \A f \in Fields \ {"at", "main", "todo", "desired"} : pass'[f] = pass[f]
      BY <1>1, <2>6, StageFields
    <3> QED  BY <3>1 DEF Fields, Underway, Visits
  <2>7. CASE BeginAWSCredentials
    <3>1. /\ HasFields(pass') /\ pass.at = "flags"
          /\ \A f \in Fields \ {"at", "todo", "desired", "outcome"} : pass'[f] = pass[f]
      BY <1>1, <2>7, StageFields
    <3> QED  BY <3>1 DEF Fields, Underway, Visits
  <2>8. CASE Classifies
    <3>1. /\ HasFields(pass') /\ pass.at \in {"classify", "aws"}
          /\ \A f \in Fields \ {"at", "config", "settings"} : pass'[f] = pass[f]
      BY <1>1, <2>8, StageFields
    <3> QED  BY <3>1 DEF Fields, Underway, Visits
  <2>9. CASE SetsCoordinators
    <3>1. /\ HasFields(pass') /\ pass.at = "settings"
          /\ \A f \in Fields \ {"at", "outcome"} : pass'[f] = pass[f]
      BY <1>1, <2>9, StageFields
    <3> QED  BY <3>1 DEF Fields, Underway
  <2> QED  BY <1>9, <2>1, <2>2, <2>3, <2>4, <2>5, <2>6, <2>7, <2>8, <2>9
<1>10. CASE ~ Apply /\ ~ Crashes
  <2>1. \A o, wiped : ~ Crash(o, wiped) \/ o \notin pass'.steady
    <3> SUFFICES ASSUME NEW o, NEW wiped, Crash(o, wiped) PROVE o \notin pass'.steady
      OBVIOUS
    <3>1. pass' = Disturb(o)
      BY DEF Crash
    <3>2. pass.at # "idle"
      BY <1>2, <3>1 DEF Disturb, Idle
    <3>3. HasFields(pass)
      BY <1>1, <3>2 DEF PassType
    <3> QED  BY <3>1, <3>2, <3>3, DisturbFields
  <2> QED  BY <1>2, <1>3, <1>4, <1>5, <1>6, <1>7, <1>9, <1>10, <2>1, PassCases
<1> QED  BY <1>8, <1>10

(* A setting a pass has dealt with stays dealt with.                        *)
LEMMA AheadShrinks ==
  ASSUME TypeInv, [Next]_vars, pass.at \in Visits, pass'.at \in Visits, NEW o \in Pods, NEW s \in SettingNames,
         Ahead(o, s)'
  PROVE  Ahead(o, s)
<1>1. PassType
  BY DEF TypeInv
<1>2. "idle" \notin Visits /\ "begun" \notin Visits /\ "publish" \notin Visits /\ "settings" \notin Visits
      /\ "finish" \notin Visits
  BY DEF Visits
<1>3. ASSUME pass'.at = pass.at, o \in ToSet(pass'.todo) => o \in ToSet(pass.todo) PROVE Ahead(o, s)
  BY <1>3 DEF Ahead, SettingNames
<1>4. ASSUME pass'.at = pass.at, pass'.todo = pass.todo PROVE Ahead(o, s)
  BY <1>3, <1>4
<1>5. Publish \/ Abandon => pass'.at = "idle"
  BY DEF Publish, Abandon, Idle
<1>6. BeginPass => pass'.at = "begun"
  BY BeginFields
<1>7. EndUnobserved \/ Ends => pass'.at = "publish"
  BY <1>1, EndsFacts, EndsFields, StageFields
<1>8. (\E x \in Specs : Edit(x)) => pass' = pass
  BY DEF Edit
<1>9. ~ Apply /\ ~ Classifies /\ ~ SetsCoordinators
  BY <1>1, <1>2, StageFields DEF Apply
<1>10. CASE Crashes
  <2>1. PICK p : pass' = Disturb(p)
    BY <1>10 DEF Crashes, Crash
  <2>2. HasFields(pass) /\ pass.at # "idle"
    BY <1>1, <1>2 DEF PassType
  <2>3. \A f \in Fields \ {"steady"} : pass'[f] = pass[f]
    BY <2>1, <2>2, DisturbFields
  <2> QED  BY <1>4, <2>3 DEF Fields
<1>11. CASE TurnEnds
  <2>1. /\ Visiting /\ pass'.todo = Tail(pass.todo)
        /\ \A f \in Fields \ {"todo", "license", "outcome"} : pass'[f] = pass[f]
    BY <1>1, <1>11, TurnFields
  <2>2. pass'.at = pass.at
    BY <2>1 DEF Fields
  <2>3. o \in ToSet(pass'.todo) => o \in ToSet(pass.todo)
    BY <1>1, <2>1, PodFacts
  <2> QED  BY <1>3, <2>2, <2>3
<1>12. CASE observedSettings
  <2> DEFINE x == IF Up(Pod) THEN pods[Pod].settings ELSE Failed
  <2>1. Visiting /\ pass' = [pass EXCEPT !.reads[Pod] = x]
    BY <1>12 DEF observedSettings
  <2>2. HasFields(pass)
    BY <1>1, <2>1, PodFacts
  <2>3. pass'.at = pass.at /\ pass'.todo = pass.todo
    BY <2>1, <2>2 DEF HasFields, Fields
  <2> QED  BY <1>4, <2>3
<1>13. CASE SetSetting
  <2>1. \A f \in Fields \ {"reads"} : pass'[f] = pass[f]
    BY <1>13, SetFields
  <2> QED  BY <1>4, <2>1 DEF Fields
<1>14. CASE FinishLicense /\ workloadsReady
  <2>1. pass.at = "license" /\ pass'.at = "observe"
    BY <1>1, <1>14, StageFields
  <2> QED  BY <2>1 DEF Ahead, SettingNames
<1>15. CASE Registered
  <2>1. pass.at = "observe" /\ pass'.at = "flags"
    BY <1>1, <1>15, StageFields
  <2> QED  BY <2>1 DEF Ahead, SettingNames
<1>16. CASE BeginAWSCredentials
  <2>1. pass.at = "flags" /\ pass'.at \in {"classify", "aws"}
    BY <1>1, <1>16, StageFields
  <2> QED  BY <2>1 DEF Ahead, SettingNames
<1> QED  BY <1>2, <1>4, <1>5, <1>6, <1>7, <1>8, <1>9, <1>10, <1>11, <1>12, <1>13, <1>14, <1>15, <1>16, PassCases

(* What a pass read of the pods stays true of them.                         *)
LEMMA PodsAsReadStep ==
  ASSUME TypeInv, PodsAsRead, [Next]_vars
  PROVE  PodsAsRead'
<1> SUFFICES ASSUME pass'.at \in Underway
             PROVE  /\ pass'.ready \subseteq DOMAIN pass'.running
                    /\ \A o \in DOMAIN pass'.running :
                         o \in Pods /\ pods'[o].state # "gone" /\ pass'.running[o] = pods'[o].template
                    /\ \A o \in Counted' : Up(o)'
  BY DEF PodsAsRead
<1>1. CASE Apply
  <2>1. /\ pass'.ready = {o \in Pods : Up(o)}
        /\ pass'.running = [o \in {p \in Pods : pods[p].state # "gone"} |-> pods[o].template]
    BY <1>1, ApplyFields
  <2>2. pods' = pods
    BY <1>1 DEF Apply
  <2> QED  BY <2>1, <2>2 DEF Up, Counted
<1>2. CASE ~ Apply
  <2>1. /\ pass.at \in Underway /\ ~ Restarts
        /\ pass'.ready = pass.ready /\ pass'.running = pass.running
        /\ pass'.steady \subseteq pass.steady
        /\ \A o, wiped : Crash(o, wiped) => o \notin pass'.steady
    BY <1>2, UnderwayStep
  <2>2. /\ pass.ready \subseteq DOMAIN pass.running
        /\ \A o \in DOMAIN pass.running :
             o \in Pods /\ pods[o].state # "gone" /\ pass.running[o] = pods[o].template
        /\ \A o \in Counted : Up(o)
    BY <2>1 DEF PodsAsRead
  <2>3. ASSUME NEW o \in DOMAIN pass'.running
        PROVE  o \in Pods /\ pods'[o].state # "gone" /\ pass'.running[o] = pods'[o].template
    BY <2>1, <2>2, PodsMove
  <2>4. ASSUME NEW o \in Counted' PROVE Up(o)'
    <3>1. o \in Counted /\ o \in pass'.steady /\ o \in Pods
      BY <2>1, <2>2 DEF Counted
    <3> QED  BY <2>1, <2>2, <3>1, PodsMove
  <2> QED  BY <2>1, <2>2, <2>3, <2>4
<1> QED  BY <1>1, <1>2

(* The reads a pass works with.                                             *)
LEMMA ReadsMirrorStep ==
  ASSUME TypeInv, PodsAsRead, ReadsMirror, [Next]_vars
  PROVE  ReadsMirror'
<1>1. PassType /\ TypeInv'
  BY TypeStep DEF TypeInv
<1>2. ASSUME pass'.at = "begun" PROVE \A o \in Pods : pass'.reads[o] = None
  <2>1. CASE BeginPass
    BY <2>1, BeginFields
  <2>2. CASE pass' = pass
    BY <1>2, <2>2 DEF ReadsMirror
  <2>3. CASE Crashes
    <3>1. PICK p : pass' = Disturb(p)
      BY <2>3 DEF Crashes, Crash
    <3>2. pass.at # "idle"
      BY <1>2, <3>1 DEF Disturb, Idle
    <3>3. HasFields(pass)
      BY <1>1, <3>2 DEF PassType
    <3>4. pass'.at = pass.at /\ pass'.reads = pass.reads
      BY <3>1, <3>2, <3>3, DisturbFields DEF Fields
    <3> QED  BY <1>2, <3>4 DEF ReadsMirror
  <2>4. Publish \/ Abandon => pass'.at = "idle"
    BY DEF Publish, Abandon, Idle
  <2>5. EndUnobserved \/ Ends => pass'.at = "publish"
    BY <1>1, EndsFacts, EndsFields, StageFields
  <2>6. TurnEnds => Visiting /\ pass'.at = pass.at
    BY <1>1, TurnFields DEF Fields
  <2>7. SetSetting => Visiting /\ pass'.at = pass.at
    BY <1>1, SetFields DEF Fields
  <2>8. observedSettings => Visiting /\ pass'.at = pass.at
    <3> DEFINE x == IF Up(Pod) THEN pods[Pod].settings ELSE Failed
    <3>1. observedSettings => Visiting /\ pass' = [pass EXCEPT !.reads[Pod] = x]
      BY DEF observedSettings
    <3>2. Visiting => HasFields(pass)
      BY <1>1, PodFacts
    <3> HIDE DEF x
    <3> QED  BY <3>1, <3>2 DEF HasFields, Fields
  <2>9. Visiting => pass.at # "begun"
    BY DEF Visiting
  <2>10. /\ Apply => pass'.at = "license"
         /\ (FinishLicense /\ workloadsReady) => pass'.at = "observe"
         /\ Registered => pass'.at = "flags"
         /\ BeginAWSCredentials => pass'.at \in {"classify", "aws"}
         /\ Classifies => pass'.at = "settings"
         /\ SetsCoordinators => pass'.at = "finish"
    BY <1>1, ApplyFields, StageFields
  <2>11. (\E s \in Specs : Edit(s)) => pass' = pass
    BY DEF Edit
  <2> QED  BY <1>2, <2>1, <2>2, <2>3, <2>4, <2>5, <2>6, <2>7, <2>8, <2>9, <2>10, <2>11, PassCases
<1> SUFFICES ASSUME pass'.at \in Visits, NEW o \in Pods, pass'.reads[o] \notin {None, Failed}
             PROVE  /\ o \in pass'.ready
                    /\ o \in pass'.steady =>
                         \A s \in SettingNames : Ahead(o, s)' => pods'[o].settings[s] = pass'.reads[o][s]
  BY <1>2 DEF ReadsMirror
<1>3. pass'.at \in Underway /\ "begun" \notin Visits /\ "settings" \notin Visits /\ "finish" \notin Visits
  BY DEF Underway, Visits
<1>4. ~ Apply
  <2> SUFFICES ASSUME Apply PROVE FALSE
    OBVIOUS
  <2>1. pass.at = "begun" /\ pass'.reads = pass.reads
    BY ApplyFields DEF Fields
  <2> QED  BY <2>1 DEF ReadsMirror
<1>5. /\ pass.at \in Underway /\ ~ Restarts
      /\ pass'.ready = pass.ready
      /\ pass'.steady \subseteq pass.steady
      /\ \A p, wiped : Crash(p, wiped) => p \notin pass'.steady
  BY <1>3, <1>4, UnderwayStep
<1>6. pass.at \in Visits
  <2> SUFFICES ASSUME pass.at \in {"settings", "finish"} PROVE FALSE
    BY <1>5 DEF Underway
  <2>1. pass'.at # pass.at
    BY <1>3
  <2>2. /\ TurnEnds => Visiting
        /\ observedSettings => Visiting
        /\ SetSetting => Visiting
    BY <1>1, TurnFields, SetFields DEF observedSettings
  <2>3. ~ Visiting
    BY DEF Visiting
  <2>4. ~ (FinishLicense /\ workloadsReady) /\ ~ Registered /\ ~ BeginAWSCredentials /\ ~ Classifies
    BY <1>1, StageFields
  <2>5. SetsCoordinators => pass'.at = "finish"
    BY <1>1, StageFields
  <2>6. Publish \/ Abandon => pass'.at = "idle"
    BY DEF Publish, Abandon, Idle
  <2>7. EndUnobserved \/ Ends => pass'.at = "publish"
    BY <1>1, EndsFacts, EndsFields, StageFields
  <2>8. BeginPass => pass'.at = "begun"
    BY BeginFields
  <2>9. Crashes => pass'.at = pass.at
    <3> SUFFICES ASSUME Crashes PROVE pass'.at = pass.at
      OBVIOUS
    <3>1. PICK p : pass' = Disturb(p)
      BY DEF Crashes, Crash
    <3>2. HasFields(pass) /\ pass.at # "idle"
      BY <1>1 DEF PassType
    <3> QED  BY <3>1, <3>2, DisturbFields DEF Fields
  <2>10. (\E s \in Specs : Edit(s)) => pass' = pass
    BY DEF Edit
  <2>11. "idle" \notin Visits /\ "publish" \notin Visits
    BY DEF Visits
  <2> QED  BY <1>3, <1>4, <2>1, <2>2, <2>3, <2>4, <2>5, <2>6, <2>7, <2>8, <2>9, <2>10, <2>11, PassCases
<1>7. \A p \in Pods :
         pass.reads[p] \notin {None, Failed} =>
           /\ p \in pass.ready
           /\ p \in pass.steady =>
                \A s \in SettingNames : Ahead(p, s) => pods[p].settings[s] = pass.reads[p][s]
  BY <1>6 DEF ReadsMirror
<1>8. \A s \in SettingNames : Ahead(o, s)' => Ahead(o, s)
  BY <1>6, AheadShrinks
<1>9. pods \in [Pods -> PodRecord] /\ pods[o].settings \in SettingsOf
  BY DEF TypeInv, ClusterType, PodRecord
<1>10. CASE observedSettings /\ o = Pod
  <2> DEFINE x == IF Up(Pod) THEN pods[Pod].settings ELSE Failed
  <2>1. Visiting /\ Pod \in pass.ready /\ pods' = pods /\ pass' = [pass EXCEPT !.reads[Pod] = x]
    BY <1>10 DEF observedSettings
  <2>2. x \in SettingsOf \cup {None, Failed}
    BY <1>9, <1>10
  <2> HIDE DEF x
  <2>3. pass'.reads[Pod] = x
    BY <1>1, <2>1, <2>2, ReadFields
  <2> USE DEF x
  <2>4. pass'.reads[o] = pods[o].settings
    BY <1>10, <2>3
  <2> QED  BY <1>5, <1>10, <2>1, <2>4
<1>11. CASE SetSetting /\ o = Pod
  <2> DEFINE t == Head(Changes(pass.reads[Pod]))
  <2>1. /\ t \in SettingNames /\ CanSet /\ Visiting
        /\ pods' = [pods EXCEPT ![Pod].settings[t] = pass.desired[t]]
        /\ pass'.reads[Pod] = [pass.reads[Pod] EXCEPT ![t] = pass.desired[t]]
    BY <1>11, SetFields
  <2> HIDE DEF t
  <2>2. pass.desired \in SettingsOf /\ pass.reads[Pod] \in SettingsOf
    BY <1>1, <2>1, PodFacts
  <2>3. pods'[Pod].settings = [pods[Pod].settings EXCEPT ![t] = pass.desired[t]]
    BY <1>9, <1>11, <2>1, <2>2, SetPod
  <2>4. \A s \in SettingNames :
           /\ pods'[o].settings[s] = IF s = t THEN pass.desired[t] ELSE pods[o].settings[s]
           /\ pass'.reads[o][s] = IF s = t THEN pass.desired[t] ELSE pass.reads[o][s]
    <3>1. pods[Pod].settings = [s \in SettingNames |-> pods[Pod].settings[s]]
          /\ pass.reads[Pod] = [s \in SettingNames |-> pass.reads[Pod][s]]
      BY <1>9, <1>11, <2>2, SettingsFacts
    <3> QED  BY <1>11, <2>1, <2>3, <3>1
  <2>5. pass.reads[o] \notin {None, Failed} /\ o \in pass.ready
    BY <1>11, <2>1 DEF CanSet
  <2> QED  BY <1>5, <1>7, <1>8, <2>4, <2>5
<1>12. CASE ~ (observedSettings /\ o = Pod) /\ ~ (SetSetting /\ o = Pod)
  <2>1. pass'.reads[o] = pass.reads[o]
    <3>1. CASE observedSettings
      <4> DEFINE x == IF Up(Pod) THEN pods[Pod].settings ELSE Failed
      <4>1. Visiting /\ pass' = [pass EXCEPT !.reads[Pod] = x]
        BY <3>1 DEF observedSettings
      <4>2. Pod \in Pods
        BY <1>1, <4>1, PodFacts
      <4>3. x \in SettingsOf \cup {None, Failed}
        BY <1>9, <4>2 DEF PodRecord
      <4> HIDE DEF x
      <4> QED  BY <1>1, <1>12, <3>1, <4>1, <4>3, ReadFields
    <3>2. CASE SetSetting
      BY <1>12, <3>2, SetFields
    <3>3. CASE TurnEnds
      BY <1>1, <3>3, TurnFields DEF Fields
    <3>4. CASE (FinishLicense /\ workloadsReady) \/ Registered \/ BeginAWSCredentials \/ Classifies
               \/ SetsCoordinators
      BY <1>1, <3>4, StageFields DEF Fields
    <3>5. CASE Crashes
      <4>1. PICK p : pass' = Disturb(p)
        BY <3>5 DEF Crashes, Crash
      <4>2. HasFields(pass) /\ pass.at # "idle"
        BY <1>1, <1>6 DEF PassType, Visits
      <4> QED  BY <4>1, <4>2, DisturbFields DEF Fields
    <3>6. (\E s \in Specs : Edit(s)) => pass' = pass
      BY DEF Edit
    <3>7. Publish \/ Abandon => pass'.at = "idle"
      BY DEF Publish, Abandon, Idle
    <3>8. EndUnobserved \/ Ends => pass'.at = "publish"
      BY <1>1, EndsFacts, EndsFields, StageFields
    <3>9. BeginPass => pass'.at = "begun"
      BY BeginFields
    <3>10. "idle" \notin Visits /\ "publish" \notin Visits
      BY DEF Visits
    <3> QED  BY <1>3, <1>4, <3>1, <3>2, <3>3, <3>4, <3>5, <3>6, <3>7, <3>8, <3>9, <3>10, PassCases
  <2>2. o \in pass.ready /\ pass.reads[o] \notin {None, Failed}
    BY <1>7, <2>1
  <2>3. ASSUME o \in pass'.steady, NEW s \in SettingNames, Ahead(o, s)'
        PROVE  pods'[o].settings[s] = pods[o].settings[s]
    <3>1. o \in Counted
      BY <1>5, <2>2, <2>3 DEF Counted
    <3>2. Up(o)
      BY <1>5, <3>1 DEF PodsAsRead
    <3>3. ~ \E wiped \in BOOLEAN : Crash(o, wiped)
      BY <1>5, <2>3
    <3>4. CASE pods'[o].settings = pods[o].settings
      BY <3>4
    <3>5. CASE /\ o = Pod /\ SetsLost /\ CanSet /\ Changes(pass.reads[Pod]) # <<>>
               /\ LET t == Head(Changes(pass.reads[Pod]))
                  IN  pods'[o].settings = [pods[o].settings EXCEPT ![t] = pass.desired[t]]
      <4> DEFINE t == Head(Changes(pass.reads[Pod]))
      <4>1. TurnEnds /\ Visiting
        BY <3>5 DEF TurnEnds, CanSet
      <4>2. pass'.todo = Tail(pass.todo) /\ pass'.at = pass.at
        BY <1>1, <4>1, TurnFields DEF Fields
      <4>3. Pod \notin ToSet(Tail(pass.todo)) /\ pass.at \in {"license", "flags", "aws"}
        BY <1>1, <4>1, PodFacts
      <4>4. /\ pass.at = "license" => t \in {"license", "organization"}
            /\ pass.at = "flags" => t = "level"
            /\ pass.at = "aws" => t = "aws"
            /\ t \in SettingNames
        BY <3>5, <4>3, ChangesFacts
      <4>5. pods'[o].settings = [pods[o].settings EXCEPT ![t] = pass.desired[t]]
        BY <3>5
      <4> HIDE DEF t
      <4>6. s # t
        <5> SUFFICES ASSUME s = t PROVE FALSE
          OBVIOUS
        <5>1. o \notin ToSet(pass'.todo)
          BY <3>5, <4>2, <4>3
        <5> QED  BY <2>3, <4>2, <4>3, <4>4, <5>1 DEF Ahead
      <4>7. pods[o].settings = [u \in SettingNames |-> pods[o].settings[u]]
        BY <1>9, SettingsFacts
      <4> QED  BY <4>4, <4>5, <4>6, <4>7
    <3> QED  BY <1>5, <1>12, <3>2, <3>3, <3>4, <3>5, PodsMove
  <2> QED  BY <1>5, <1>7, <1>8, <2>1, <2>2, <2>3
<1> QED  BY <1>10, <1>11, <1>12

(* The ways a pass goes on between its apply and its end.                   *)
LEMMA Onward ==
  ASSUME TypeInv, [Next]_vars, pass'.at \in Underway, ~ Apply
  PROVE  \/ /\ pass' = pass \/ Crashes
            /\ \A f \in Fields \ {"steady"} : pass'[f] = pass[f]
            /\ UNCHANGED sets
         \/ TurnEnds \/ observedSettings \/ SetSetting
         \/ (FinishLicense /\ workloadsReady) \/ Registered \/ BeginAWSCredentials
         \/ Classifies \/ SetsCoordinators
<1>1. PassType /\ "idle" \notin Underway /\ "begun" \notin Underway /\ "publish" \notin Underway
  BY DEF TypeInv, Underway, Visits
<1>2. Publish \/ Abandon => pass'.at = "idle"
  BY DEF Publish, Abandon, Idle
<1>3. BeginPass => pass'.at = "begun"
  BY BeginFields
<1>4. EndUnobserved \/ Ends => pass'.at = "publish"
  BY <1>1, EndsFacts, EndsFields, StageFields
<1>5. (\E s \in Specs : Edit(s)) => pass.at = "idle" /\ pass' = pass
  BY DEF Edit, Quiet
<1>6. CASE Crashes
  <2>1. PICK p : pass' = Disturb(p) /\ UNCHANGED sets
    BY <1>6 DEF Crashes, Crash
  <2>2. pass.at # "idle"
    BY <1>1, <2>1 DEF Disturb, Idle
  <2>3. HasFields(pass)
    BY <1>1, <2>2 DEF PassType
  <2> QED  BY <1>6, <2>1, <2>2, <2>3, DisturbFields
<1> QED  BY <1>1, <1>2, <1>3, <1>4, <1>5, <1>6, PassCases

(* What a pass asks for with a license is its organization.                 *)
LEMMA AsksForPairsStep ==
  ASSUME TypeInv, AsksForPairs, [Next]_vars
  PROVE  AsksForPairs'
<1> SUFFICES ASSUME pass'.at = "license", pass'.todo # <<>>
             PROVE  pass'.desired.license \in Licenses
                    /\ pass'.desired.organization = Issued[pass'.desired.license]
  BY DEF AsksForPairs
<1>1. PassType /\ pass'.at \in Underway
  BY DEF TypeInv, Underway, Visits
<1>2. CASE Apply
  BY <1>2, ApplyFields
<1>3. CASE ~ Apply
  <2>1. pass.at = "license" /\ pass.todo # <<>> /\ pass'.desired = pass.desired
    <3>1. CASE TurnEnds
      BY <1>1, <3>1, TurnFields DEF Fields, Visiting
    <3>2. CASE SetSetting
      BY <1>1, <3>2, SetFields DEF Fields
    <3>3. CASE observedSettings
      <4> DEFINE x == IF Up(Pod) THEN pods[Pod].settings ELSE Failed
      <4>1. Visiting /\ pass' = [pass EXCEPT !.reads[Pod] = x]
        BY <3>3 DEF observedSettings
      <4>2. HasFields(pass)
        BY <1>1, <4>1, PodFacts
      <4> QED  BY <4>1, <4>2 DEF HasFields, Fields
    <3>4. ~ (FinishLicense /\ workloadsReady) /\ ~ Registered /\ ~ BeginAWSCredentials
          /\ ~ Classifies /\ ~ SetsCoordinators
      BY <1>1, StageFields
    <3> QED  BY <1>1, <1>3, <3>1, <3>2, <3>3, <3>4, Onward DEF Fields
  <2> QED  BY <2>1 DEF AsksForPairs
<1> QED  BY <1>2, <1>3

(* LicenseInv is inductive.                                                 *)
LEMMA LicenseInit ==
  ASSUME Init
  PROVE  LicenseInv
<1>1. pass.at = "idle"
  BY DEF Init, Idle
<1> QED  BY <1>1, TypeInit DEF LicenseInv, PodsAsRead, ReadsMirror, AsksForPairs, Underway, Visits

(* Every step keeps it.                                                     *)
LEMMA LicenseStep ==
  ASSUME LicenseInv, [Next]_vars
  PROVE  LicenseInv'
BY TypeStep, PodsAsReadStep, ReadsMirrorStep, AsksForPairsStep DEF LicenseInv

(* An instance is given a license only once it has the organization the     *)
(* license is issued to, for every order of crashes, rotations of the       *)
(* Secret and lost or refused SETs (reconcileLicense, settings.License).    *)
THEOREM LicensesGoUnderTheirOrganization == Spec => LicensedUnderItsOrganization
<1> DEFINE Given(o) == LET was == pods[o].settings  is == pods'[o].settings
                       IN  is.license \notin {was.license, None} /\ o \in pass.steady
                           => is.organization = Issued[is.license]
<1>1. ASSUME LicenseInv, [Next]_vars PROVE [\A o \in Pods : Given(o)]_vars
  <2> SUFFICES ASSUME NEW o \in Pods, pods'[o].settings.license \notin {pods[o].settings.license, None},
                      o \in pass.steady
               PROVE  pods'[o].settings.organization = Issued[pods'[o].settings.license]
    OBVIOUS
  <2>1. TypeInv /\ PassType /\ PodsAsRead /\ ReadsMirror /\ AsksForPairs
    BY <1>1 DEF LicenseInv, TypeInv
  <2>2. Unset.license = None
    BY DEF Unset
  <2> DEFINE t == Head(Changes(pass.reads[Pod]))
  <2>3. /\ o = Pod /\ CanSet /\ Changes(pass.reads[Pod]) # <<>>
        /\ pods'[o].settings = [pods[o].settings EXCEPT ![t] = pass.desired[t]]
    BY <1>1, <2>1, <2>2, PodsMove
  <2>4. Visiting /\ pass.reads[Pod] \notin {None, Failed}
    BY <2>3 DEF CanSet
  <2>5. /\ Pod \in ToSet(pass.todo) /\ pass.at \in {"license", "flags", "aws"}
        /\ pass.reads[Pod] \in SettingsOf /\ pass.desired \in SettingsOf
    BY <2>1, <2>3, <2>4, PodFacts
  <2>6. /\ pass.at = "license" =>
             t = "organization" \/ (t = "license" /\ pass.desired.organization = pass.reads[Pod].organization)
        /\ pass.at = "flags" => t = "level"
        /\ pass.at = "aws" => t = "aws"
        /\ t \in SettingNames
    BY <2>3, <2>5, ChangesFacts
  <2> HIDE DEF t
  <2>7. pods[o].settings \in SettingsOf
    BY <2>1 DEF TypeInv, ClusterType, PodRecord
  <2>8. \A s \in SettingNames : pods'[o].settings[s] = IF s = t THEN pass.desired[t] ELSE pods[o].settings[s]
    <3>1. pods[o].settings = [s \in SettingNames |-> pods[o].settings[s]]
      BY <2>7, SettingsFacts
    <3> QED  BY <2>3, <2>6, <3>1
  <2>9. t = "license"
    BY <2>8 DEF SettingNames
  <2>10. pass.at = "license" /\ pass.todo # <<>> /\ pass.desired.organization = pass.reads[Pod].organization
    BY <2>4, <2>5, <2>6, <2>9 DEF Visiting
  <2>11. Ahead(o, "organization")
    BY <2>3, <2>5, <2>10 DEF Ahead
  <2>12. pods[o].settings.organization = pass.reads[o].organization
    BY <2>1, <2>3, <2>4, <2>10, <2>11 DEF ReadsMirror, Visits, SettingNames
  <2>13. pods'[o].settings.organization = pods[o].settings.organization
         /\ pods'[o].settings.license = pass.desired.license
    BY <2>8, <2>9 DEF SettingNames
  <2>14. pass.desired.organization = Issued[pass.desired.license]
    BY <2>1, <2>10 DEF AsksForPairs
  <2> QED  BY <2>3, <2>10, <2>12, <2>13, <2>14
<1> QED  BY <1>1, LicenseInit, LicenseStep, PTL DEF Spec, LicensedUnderItsOrganization

-----------------------------------------------------------------------------
(* Ready is earned *)

(* A set of natural numbers has a least one, and Min is it.                 *)
LEMMA MinFacts ==
  ASSUME NEW S \in SUBSET Nat, S # {}
  PROVE  Min(S) \in S
<1>1. \E x \in S : \A y \in S : ~ (<<y, x>> \in OpToRel(<, Nat))
  BY NatLessThanWellFounded, WFMin
<1>2. PICK x \in S : \A y \in S : ~ (<<y, x>> \in OpToRel(<, Nat))
  BY <1>1
<1>3. ASSUME NEW y \in S PROVE x <= y
  <2>1. y \in Nat /\ x \in Nat
    OBVIOUS
  <2>2. ~ (y < x)
    BY <1>2, <2>1 DEF OpToRel
  <2> QED  BY <2>1, <2>2
<1>4. \E z \in S : \A y \in S : z <= y
  BY <1>3
<1> QED  BY <1>4 DEF Min

(* What a pass counts on, and how the settings of such a pod change.        *)
LEMMA CountedStep ==
  ASSUME TypeInv, PodsAsRead, [Next]_vars, pass'.at \in Underway, ~ Apply, NEW o \in Counted'
  PROVE  /\ o \in Counted /\ o \in Pods /\ Up(o) /\ pods[o].settings \in SettingsOf
         /\ \/ pods'[o].settings = pods[o].settings
            \/ /\ o = Pod /\ (SetSetting \/ SetsLost) /\ CanSet /\ Changes(pass.reads[Pod]) # <<>>
               /\ LET s == Head(Changes(pass.reads[Pod]))
                  IN  pods'[o].settings = [pods[o].settings EXCEPT ![s] = pass.desired[s]]
<1>1. /\ pass.at \in Underway /\ pass'.ready = pass.ready
      /\ pass'.steady \subseteq pass.steady
      /\ \A p, wiped : Crash(p, wiped) => p \notin pass'.steady
  BY UnderwayStep
<1>2. o \in Counted /\ o \in pass'.steady
  BY <1>1 DEF Counted
<1>3. o \in Pods /\ Up(o)
  BY <1>1, <1>2 DEF PodsAsRead, Counted
<1>4. pods[o].settings \in SettingsOf
  BY <1>3 DEF TypeInv, ClusterType, PodRecord
<1> QED  BY <1>1, <1>2, <1>3, <1>4, PodsMove

(* A turn that ends with nothing owed leaves a pod that was ready with what *)
(* was asked for.                                                           *)
LEMMA TurnDelivers ==
  ASSUME TypeInv, ReadsMirror, TurnEnds, Pod \in Counted, CanSet, Changes(pass.reads[Pod]) = <<>>
  PROVE  /\ pass.at = "license" => Runs(Pod, "license") /\ Runs(Pod, "organization")
         /\ pass.at = "flags" => Runs(Pod, "level")
         /\ pass.at = "aws" => Runs(Pod, "aws")
<1>1. PassType /\ Visiting /\ pass.reads[Pod] \notin {None, Failed}
  BY DEF TypeInv, CanSet
<1>2. Pod \in Pods /\ Pod \in ToSet(pass.todo) /\ pass.at \in {"license", "flags", "aws"}
  BY <1>1, PodFacts
<1>3. \A s \in SettingNames : Ahead(Pod, s) => pods[Pod].settings[s] = pass.reads[Pod][s]
  BY <1>1, <1>2 DEF ReadsMirror, Visits, Counted
<1>4. ASSUME NEW s, Diff(pass.desired, pass.reads[Pod], s) = <<>> PROVE pass.desired[s] = pass.reads[Pod][s]
  <2>1. <<s>> # <<>>
    OBVIOUS
  <2> QED  BY <1>4, <2>1 DEF Diff
<1>5. CASE pass.at = "license"
  <2> DEFINE a == Diff(pass.desired, pass.reads[Pod], "organization")
             b == Diff(pass.desired, pass.reads[Pod], "license")
  <2>1. a \o b = <<>>
    BY <1>5 DEF Changes, License
  <2>2. a \in {<<>>, <<"organization">>} /\ b \in {<<>>, <<"license">>}
    BY DEF Diff
  <2>3. /\ <<"organization">> \o <<>> # <<>>
        /\ <<"organization">> \o <<"license">> # <<>>
        /\ <<>> \o <<"license">> # <<>>
    OBVIOUS
  <2> HIDE DEF a, b
  <2>4. a = <<>> /\ b = <<>>
    BY <2>1, <2>2, <2>3
  <2>5. pass.desired.organization = pass.reads[Pod].organization /\ pass.desired.license = pass.reads[Pod].license
    BY <1>4, <2>4 DEF a, b
  <2>6. Ahead(Pod, "license") /\ Ahead(Pod, "organization")
    BY <1>2, <1>5 DEF Ahead
  <2> QED  BY <1>3, <1>5, <2>5, <2>6 DEF Runs, SettingNames
<1>6. CASE pass.at = "flags"
  <2>1. pass.desired.level = pass.reads[Pod].level
    BY <1>4, <1>6 DEF Changes, Plan
  <2>2. Ahead(Pod, "level")
    BY <1>2, <1>6 DEF Ahead
  <2> QED  BY <1>3, <1>6, <2>1, <2>2 DEF Runs, SettingNames
<1>7. CASE pass.at = "aws"
  <2>1. pass.desired.aws = pass.reads[Pod].aws
    BY <1>4, <1>7 DEF Changes
  <2>2. Ahead(Pod, "aws")
    BY <1>2, <1>7 DEF Ahead
  <2> QED  BY <1>3, <1>7, <2>1, <2>2 DEF Runs, SettingNames
<1> QED  BY <1>2, <1>5, <1>6, <1>7

(* What a pass has delivered stays delivered while it goes on.              *)
LEMMA DeliveredStep ==
  ASSUME LicenseInv, Delivered, [Next]_vars
  PROVE  Delivered'
<1> SUFFICES ASSUME pass'.at \in Underway, NEW o \in Counted' PROVE DeliveredTo(o)'
  BY DEF Delivered
<1>1. TypeInv /\ PassType /\ PodsAsRead /\ ReadsMirror
  BY DEF LicenseInv, TypeInv
<1>2. CASE Apply
  <2>1. /\ pass'.at = "license" /\ pass'.ready \subseteq Pods
        /\ pass'.todo = IF readLicense THEN Endpoints ELSE <<>>
        /\ pass'.license.pending <=> ~ readLicense
    BY <1>1, <1>2, ApplyFields
  <2>2. o \in Pods
    BY <2>1 DEF Counted
  <2>3. readLicense => Ahead(o, "license")'
    BY <2>1, <2>2, EndpointsFacts DEF Ahead
  <2> QED  BY <2>1, <2>3 DEF DeliveredTo, Clean
<1>3. CASE ~ Apply
  <2>1. /\ o \in Counted /\ o \in Pods /\ Up(o) /\ pods[o].settings \in SettingsOf
        /\ \/ pods'[o].settings = pods[o].settings
           \/ /\ o = Pod /\ (SetSetting \/ SetsLost) /\ CanSet /\ Changes(pass.reads[Pod]) # <<>>
              /\ LET s == Head(Changes(pass.reads[Pod]))
                 IN  pods'[o].settings = [pods[o].settings EXCEPT ![s] = pass.desired[s]]
    BY <1>1, <1>3, CountedStep
  <2>2. pass.at \in Underway
    BY <1>1, <1>3, UnderwayStep
  <2>3. DeliveredTo(o)
    BY <2>1, <2>2 DEF Delivered
  <2>4. pass.desired \in SettingsOf /\ pass.outcome \in Outcomes /\ pass.license \in Outcomes
    BY <1>1, <2>2 DEF PassType, Underway, Visits
  <2>5. CASE SetSetting
    <3> DEFINE t == Head(Changes(pass.reads[Pod]))
    <3>1. /\ t \in SettingNames
          /\ \A f \in Fields \ {"reads"} : pass'[f] = pass[f]
      BY <1>1, <2>5, SetFields
    <3>2. /\ pass'.at = pass.at /\ pass'.todo = pass.todo /\ pass'.license = pass.license
          /\ pass'.outcome = pass.outcome /\ pass'.desired = pass.desired
      BY <3>1 DEF Fields
    <3>3. \A s \in SettingNames : Runs(o, s) => Runs(o, s)'
      <4>1. pods[o].settings = [s \in SettingNames |-> pods[o].settings[s]]
        BY <2>1, SettingsFacts
      <4>2. \/ pods'[o].settings = pods[o].settings
            \/ pods'[o].settings = [pods[o].settings EXCEPT ![t] = pass.desired[t]]
        BY <2>1
      <4> HIDE DEF t
      <4>3. \A s \in SettingNames :
               pods'[o].settings[s] \in {pods[o].settings[s], pass.desired[s]}
        BY <3>1, <4>1, <4>2
      <4> QED  BY <3>2, <4>3 DEF Runs
    <3>4. \A s \in SettingNames : Ahead(o, s)' = Ahead(o, s)
      BY <3>2 DEF Ahead
    <3> QED  BY <2>3, <3>2, <3>3, <3>4 DEF DeliveredTo, SettingNames
  <2>6. CASE TurnEnds
    <3>1. PICK owing \in {"nothing", "pending", "rejected"} :
             /\ pass' = NextPod(owing)
             /\ owing = "nothing" => \/ Pod \notin pass.ready
                                     \/ CanSet /\ Changes(pass.reads[Pod]) = <<>> /\ pods' = pods
             /\ owing = "nothing" => pods' = pods
      BY <1>1, <2>6, TurnFields
    <3>2. /\ Visiting /\ \A f \in Fields \ {"todo", "license", "outcome"} : pass'[f] = pass[f]
          /\ pass'.todo = Tail(pass.todo)
      BY <1>1, <2>6, TurnFields
    <3>3. pass'.at = pass.at /\ pass'.desired = pass.desired
      BY <3>2 DEF Fields
    <3>4. /\ HasFields(pass) /\ pass.at \in {"license", "flags", "aws"}
          /\ Pod \notin ToSet(Tail(pass.todo))
          /\ ToSet(pass.todo) = ToSet(Tail(pass.todo)) \cup {Pod}
      BY <1>1, <3>2, PodFacts
    <3>5. /\ pass'.license = IF pass.at = "license" THEN Tally(pass.license, owing) ELSE pass.license
          /\ pass'.outcome = IF pass.at = "license" THEN pass.outcome ELSE Tally(pass.outcome, owing)
      BY <3>1, <3>4, NextPodFields
    <3>6. /\ Clean(pass'.license) => Clean(pass.license) /\ (pass.at = "license" => owing = "nothing")
          /\ Clean(pass'.outcome) => Clean(pass.outcome) /\ (pass.at # "license" => owing = "nothing")
      BY <2>4, <3>1, <3>5, TallyFacts
    <3>7. CASE o # Pod
      <4>1. \A s \in SettingNames : Ahead(o, s)' = Ahead(o, s)
        BY <3>2, <3>3, <3>4, <3>7 DEF Ahead
      <4>2. \A s \in SettingNames : Runs(o, s)' = Runs(o, s)
        BY <2>1, <3>3, <3>7 DEF Runs
      <4> QED  BY <2>3, <3>3, <3>6, <4>1, <4>2 DEF DeliveredTo, SettingNames
    <3>8. CASE o = Pod /\ owing = "nothing"
      <4>1. pods' = pods /\ CanSet /\ Changes(pass.reads[Pod]) = <<>>
        BY <2>1, <3>1, <3>8 DEF Counted
      <4>2. /\ pass.at = "license" => Runs(Pod, "license") /\ Runs(Pod, "organization")
            /\ pass.at = "flags" => Runs(Pod, "level")
            /\ pass.at = "aws" => Runs(Pod, "aws")
        BY <1>1, <2>1, <2>6, <3>8, <4>1, TurnDelivers
      <4>3. \A s \in SettingNames : Runs(o, s)' = Runs(o, s)
        BY <3>3, <4>1 DEF Runs
      <4>4. /\ pass.at # "license" => ~ Ahead(o, "license")
            /\ pass.at = "aws" => ~ Ahead(o, "level")
        BY <3>4 DEF Ahead
      <4> QED  BY <2>3, <3>3, <3>4, <3>6, <3>8, <4>2, <4>3, <4>4 DEF DeliveredTo, SettingNames
    <3>9. CASE o = Pod /\ owing # "nothing"
      <4>1. CASE pass.at = "license"
        BY <3>3, <3>6, <3>9, <4>1 DEF DeliveredTo
      <4>2. CASE pass.at \in {"flags", "aws"}
        <5>1. ~ Clean(pass'.outcome) /\ ~ Ahead(o, "license")
          BY <3>6, <3>9, <4>2 DEF Ahead
        <5>2. /\ pods'[o].settings.license = pods[o].settings.license
              /\ pods'[o].settings.organization = pods[o].settings.organization
          <6>1. CASE pods'[o].settings = pods[o].settings
            BY <6>1
          <6>2. CASE pods'[o].settings # pods[o].settings
            <7> DEFINE t == Head(Changes(pass.reads[Pod]))
            <7>1. /\ Changes(pass.reads[Pod]) # <<>>
                  /\ pods'[o].settings = [pods[o].settings EXCEPT ![t] = pass.desired[t]]
              BY <2>1, <6>2
            <7>2. t \in {"level", "aws"}
              BY <3>4, <4>2, <7>1, ChangesFacts
            <7> HIDE DEF t
            <7>3. pods[o].settings = [s \in SettingNames |-> pods[o].settings[s]]
              BY <2>1, SettingsFacts
            <7> QED  BY <7>1, <7>2, <7>3 DEF SettingNames
          <6> QED  BY <6>1, <6>2
        <5> QED  BY <2>3, <3>3, <3>6, <5>1, <5>2 DEF DeliveredTo, Runs
      <4> QED  BY <3>4, <4>1, <4>2
    <3> QED  BY <3>7, <3>8, <3>9
  <2>7. CASE ~ SetSetting /\ ~ TurnEnds
    <3>1. pods'[o].settings = pods[o].settings
      BY <2>1, <2>7 DEF TurnEnds
    <3>2. CASE /\ pass'.at = pass.at /\ pass'.todo = pass.todo /\ pass'.license = pass.license
               /\ pass'.outcome = pass.outcome /\ pass'.desired = pass.desired
      <4>1. \A s \in SettingNames : Ahead(o, s)' = Ahead(o, s) /\ Runs(o, s)' = Runs(o, s)
        BY <3>1, <3>2 DEF Ahead, Runs
      <4> QED  BY <2>3, <3>2, <4>1 DEF DeliveredTo, SettingNames
    <3>3. CASE observedSettings
      <4> DEFINE x == IF Up(Pod) THEN pods[Pod].settings ELSE Failed
      <4>1. Visiting /\ pass' = [pass EXCEPT !.reads[Pod] = x]
        BY <3>3 DEF observedSettings
      <4>2. HasFields(pass)
        BY <1>1, <4>1, PodFacts
      <4> HIDE DEF x
      <4>3. /\ pass'.at = pass.at /\ pass'.todo = pass.todo /\ pass'.license = pass.license
            /\ pass'.outcome = pass.outcome /\ pass'.desired = pass.desired
        BY <4>1, <4>2 DEF HasFields, Fields
      <4> QED  BY <3>2, <4>3
    <3>4. CASE FinishLicense /\ workloadsReady
      <4>1. /\ pass.at = "license" /\ pass.todo = <<>> /\ pass'.at = "observe"
            /\ \A f \in Fields \ {"at", "status"} : pass'[f] = pass[f]
        BY <1>1, <3>4, StageFields
      <4>2. pass'.license = pass.license /\ pass'.desired = pass.desired
        BY <4>1 DEF Fields
      <4>3. ~ Ahead(o, "license")
        BY <4>1, EndpointsFacts DEF Ahead
      <4> QED  BY <2>3, <3>1, <4>1, <4>2, <4>3 DEF DeliveredTo, Runs
    <3>5. CASE Registered
      <4>1. /\ pass.at = "observe" /\ pass'.at = "flags"
            /\ \A f \in Fields \ {"at", "main", "todo", "desired"} : pass'[f] = pass[f]
            /\ pass'.todo = Endpoints
            /\ pass'.desired = [pass.desired EXCEPT !.level = pass.spec.level]
        BY <1>1, <3>5, StageFields
      <4>2. /\ pass'.license = pass.license /\ pass'.desired.license = pass.desired.license
            /\ pass'.desired.organization = pass.desired.organization
        BY <2>4, <4>1 DEF Fields, SettingsOf
      <4>3. ~ Ahead(o, "license") /\ Ahead(o, "level")'
        BY <2>1, <4>1, EndpointsFacts DEF Ahead
      <4> QED  BY <2>3, <3>1, <4>1, <4>2, <4>3 DEF DeliveredTo, Runs
    <3>6. CASE BeginAWSCredentials
      <4>1. /\ pass.at = "flags" /\ pass.todo = <<>>
            /\ \A f \in Fields \ {"at", "todo", "desired", "outcome"} : pass'[f] = pass[f]
            /\ \/ /\ pass'.at = "classify" /\ pass'.todo = pass.todo /\ pass'.desired = pass.desired
                  /\ pass'.outcome = [pass.outcome EXCEPT !.pending = TRUE]
               \/ /\ pass'.at = "aws" /\ pass'.todo = DataPods /\ pass'.outcome = pass.outcome
                  /\ pass'.desired = [pass.desired EXCEPT !.aws = secrets.aws]
        BY <1>1, <3>6, StageFields
      <4>2. /\ pass'.license = pass.license /\ pass'.desired.license = pass.desired.license
            /\ pass'.desired.organization = pass.desired.organization
            /\ pass'.desired.level = pass.desired.level
        BY <2>4, <4>1 DEF Fields, SettingsOf
      <4>3. ~ Ahead(o, "license") /\ ~ Ahead(o, "level")
        BY <4>1, EndpointsFacts DEF Ahead
      <4>4. CASE pass'.at = "classify"
        <5>1. ~ Clean(pass'.outcome)
          BY <2>4, <4>1, <4>4 DEF Clean, Outcomes
        <5> QED  BY <2>3, <3>1, <4>2, <4>3, <5>1 DEF DeliveredTo, Runs
      <4>5. CASE pass'.at = "aws"
        <5>1. pass'.outcome = pass.outcome /\ (IsData(o) => Ahead(o, "aws")')
          BY <4>1, <4>5 DEF Ahead, IsData
        <5>2. pass.at \notin {"license", "observe"}
          BY <4>1
        <5>3. IsData(o)' = IsData(o)
          BY DEF IsData
        <5> QED  BY <2>3, <3>1, <4>2, <4>3, <5>1, <5>2, <5>3 DEF DeliveredTo, Runs
      <4> QED  BY <4>1, <4>4, <4>5
    <3>7. CASE Classifies \/ SetsCoordinators
      <4>1. /\ pass.at \in {"classify", "aws", "settings"} /\ (pass.at # "settings" => pass.todo = <<>>)
            /\ pass'.at \in {"settings", "finish"}
            /\ \A f \in Fields \ {"at", "config", "settings", "outcome"} : pass'[f] = pass[f]
            /\ Clean(pass'.outcome) => Clean(pass.outcome)
        BY <1>1, <3>7, StageFields DEF Fields
      <4>2. pass'.license = pass.license /\ pass'.desired = pass.desired
        BY <4>1 DEF Fields
      <4>3. ~ Ahead(o, "license") /\ ~ Ahead(o, "level") /\ ~ Ahead(o, "aws")
        BY <4>1, EndpointsFacts DEF Ahead
      <4>4. IsData(o)' = IsData(o)
        BY DEF IsData
      <4>5. pass.at \notin {"license", "observe", "flags"}
        BY <4>1
      <4> QED  BY <2>3, <3>1, <4>1, <4>2, <4>3, <4>4, <4>5 DEF DeliveredTo, Runs
    <3> QED  BY <1>1, <1>3, <2>7, <3>2, <3>3, <3>4, <3>5, <3>6, <3>7, Onward DEF Fields
  <2> QED  BY <2>5, <2>6, <2>7
<1> QED  BY <1>2, <1>3

(* A pass that has only begun.                                              *)
LEMMA BegunStep ==
  ASSUME TypeInv, [Next]_vars, pass'.at = "begun"
  PROVE  \/ BeginPass
         \/ /\ pass.at = "begun" /\ UNCHANGED sets
            /\ \A f \in Fields \ {"steady"} : pass'[f] = pass[f]
<1>1. PassType
  BY DEF TypeInv
<1>2. Publish \/ Abandon => pass'.at = "idle"
  BY DEF Publish, Abandon, Idle
<1>3. EndUnobserved \/ Ends => pass'.at = "publish"
  BY <1>1, EndsFacts, EndsFields, StageFields
<1>4. /\ Apply => pass'.at = "license"
      /\ (FinishLicense /\ workloadsReady) => pass'.at = "observe"
      /\ Registered => pass'.at = "flags"
      /\ BeginAWSCredentials => pass'.at \in {"classify", "aws"}
      /\ Classifies => pass'.at = "settings"
      /\ SetsCoordinators => pass'.at = "finish"
  BY <1>1, ApplyFields, StageFields
<1>5. Visiting => pass.at # "begun" /\ HasFields(pass)
  BY <1>1, PodFacts DEF Visiting
<1>6. ~ TurnEnds
  BY <1>1, <1>5, TurnFields DEF Fields
<1>7. ~ SetSetting
  BY <1>1, <1>5, SetFields DEF Fields
<1>8. ~ observedSettings
  <2> SUFFICES ASSUME observedSettings PROVE FALSE
    OBVIOUS
  <2> DEFINE x == IF Up(Pod) THEN pods[Pod].settings ELSE Failed
  <2>1. Visiting /\ pass' = [pass EXCEPT !.reads[Pod] = x]
    BY DEF observedSettings
  <2> HIDE DEF x
  <2> QED  BY <1>5, <2>1 DEF HasFields, Fields
<1>9. CASE Crashes
  <2>1. PICK p : pass' = Disturb(p) /\ UNCHANGED sets
    BY <1>9 DEF Crashes, Crash
  <2>2. pass.at # "idle"
    BY <2>1 DEF Disturb, Idle
  <2>3. HasFields(pass)
    BY <1>1, <2>2 DEF PassType
  <2>4. \A f \in Fields \ {"steady"} : pass'[f] = pass[f]
    BY <2>1, <2>2, <2>3, DisturbFields
  <2>5. pass.at = "begun"
    BY <2>4 DEF Fields
  <2> QED  BY <2>1, <2>4, <2>5
<1>10. (\E s \in Specs : Edit(s)) => pass' = pass /\ UNCHANGED sets
  BY DEF Edit
<1> QED  BY <1>2, <1>3, <1>4, <1>6, <1>7, <1>8, <1>9, <1>10, PassCases

(* The level a pass asks for, and the StatefulSets it compares with.        *)
LEMMA AsksForSpecStep ==
  ASSUME TypeInv, AsksForSpec, [Next]_vars
  PROVE  AsksForSpec'
<1>1. PassType
  BY DEF TypeInv
<1>2. ASSUME pass'.at \in Underway \ {"license", "observe"} PROVE pass'.desired.level = pass'.spec.level
  <2>1. ~ Apply
    BY <1>2, ApplyFields
  <2>2. pass'.spec = pass.spec /\ pass.at \in Underway
    BY <1>2, <2>1, UnderwayStep
  <2>3. pass.desired \in SettingsOf
    BY <1>1, <2>2 DEF PassType, Underway, Visits
  <2>4. CASE Registered
    <3>1. pass'.desired = [pass.desired EXCEPT !.level = pass.spec.level]
      BY <1>1, <2>4, StageFields
    <3> QED  BY <2>2, <2>3, <3>1 DEF SettingsOf
  <2>5. CASE BeginAWSCredentials
    <3>1. /\ pass.at = "flags"
          /\ pass'.desired = pass.desired \/ pass'.desired = [pass.desired EXCEPT !.aws = secrets.aws]
      BY <1>1, <2>5, StageFields
    <3>2. pass'.desired.level = pass.desired.level
      BY <2>3, <3>1 DEF SettingsOf
    <3> QED  BY <2>2, <3>1, <3>2 DEF AsksForSpec
  <2>6. CASE ~ Registered /\ ~ BeginAWSCredentials
    <3>1. ~ (FinishLicense /\ workloadsReady)
      BY <1>1, <1>2, StageFields
    <3>2. CASE Classifies \/ SetsCoordinators
      <4>1. pass.at \in {"classify", "aws", "settings"} /\ pass'.desired = pass.desired
        BY <1>1, <3>2, StageFields DEF Fields
      <4> QED  BY <2>2, <4>1 DEF AsksForSpec
    <3>3. CASE pass'.at = pass.at /\ pass'.desired = pass.desired
      BY <1>2, <2>2, <3>3 DEF AsksForSpec
    <3>4. CASE observedSettings
      <4> DEFINE x == IF Up(Pod) THEN pods[Pod].settings ELSE Failed
      <4>1. Visiting /\ pass' = [pass EXCEPT !.reads[Pod] = x]
        BY <3>4 DEF observedSettings
      <4>2. HasFields(pass)
        BY <1>1, <4>1, PodFacts
      <4> HIDE DEF x
      <4>3. pass'.at = pass.at /\ pass'.desired = pass.desired
        BY <4>1, <4>2 DEF HasFields, Fields
      <4> QED  BY <3>3, <4>3
    <3>5. TurnEnds \/ SetSetting => pass'.at = pass.at /\ pass'.desired = pass.desired
      BY <1>1, TurnFields, SetFields DEF Fields
    <3> QED  BY <1>2, <2>1, <2>6, <3>1, <3>2, <3>3, <3>4, <3>5, Onward DEF Fields
  <2> QED  BY <2>4, <2>5, <2>6
<1>3. ASSUME pass'.at \in Underway, ~ pass'.stale PROVE pass'.set.template = TemplateOf(pass'.spec)
  <2>1. CASE Apply
    <3>1. /\ sets'.template = TemplateOf(pass.spec)
          /\ sets'.generation = IF sets.template = TemplateOf(pass.spec)
                                THEN sets.generation ELSE sets.generation + 1
          /\ pass'.stale = (pass.set.generation < sets'.generation)
          /\ sets.generation \in Nat
      BY <2>1, ApplySets
    <3>2. pass.at = "begun" /\ pass'.set = pass.set /\ pass'.spec = pass.spec
      BY <2>1, ApplyFields DEF Fields
    <3>3. pass.set.generation \in Nat
      BY <1>1, <3>2 DEF PassType, SeenSets
    <3>4. pass.set.generation <= sets.generation
      BY <3>2 DEF AsksForSpec
    <3>5. sets.template = TemplateOf(pass.spec) /\ pass.set.generation = sets.generation
      <4>1. ~ (pass.set.generation < sets'.generation)
        BY <1>3, <3>1
      <4>2. sets.template = TemplateOf(pass.spec)
        <5> SUFFICES ASSUME sets.template # TemplateOf(pass.spec) PROVE FALSE
          OBVIOUS
        <5>1. sets'.generation = sets.generation + 1
          BY <3>1
        <5> QED  BY <3>1, <3>3, <3>4, <4>1, <5>1
      <4>3. sets'.generation = sets.generation
        BY <3>1, <4>2
      <4> QED  BY <3>1, <3>3, <3>4, <4>1, <4>2, <4>3
    <3>6. pass.set.template = sets.template
      BY <3>2, <3>5 DEF AsksForSpec
    <3> QED  BY <3>2, <3>5, <3>6
  <2>2. CASE ~ Apply
    BY <1>3, <2>2, UnderwayStep DEF AsksForSpec
  <2> QED  BY <2>1, <2>2
<1>4. ASSUME pass'.at = "begun"
      PROVE  /\ pass'.set.generation <= sets'.generation
             /\ pass'.set.generation = sets'.generation => pass'.set.template = sets'.template
  <2>1. CASE BeginPass
    <3>1. pass'.set = seenSets /\ sets' = sets
      BY <2>1, BeginFields DEF BeginPass
    <3> QED  BY <3>1 DEF TypeInv, SetsSeen
  <2>2. CASE ~ BeginPass
    <3>1. pass.at = "begun" /\ sets' = sets /\ pass'.set = pass.set
      BY <1>4, <2>2, BegunStep DEF Fields
    <3> QED  BY <3>1 DEF AsksForSpec
  <2> QED  BY <2>1, <2>2
<1> QED  BY <1>2, <1>3, <1>4 DEF AsksForSpec

(* The pod that answers SHOW CONFIG runs the image that is rolled out, if   *)
(* any pod the pass counts on does.                                         *)
LEMMA ShowConfigFacts ==
  ASSUME TypeInv, PodsAsRead, pass.at \in Visits, showConfig # None, NEW o \in Counted,
         pass.running[o].image = pass.set.template.image
  PROVE  showConfig = Config[pass.set.template.image]
<1>1. pass.at \in Underway
  BY DEF Underway
<1>2. /\ pass.ready \subseteq DOMAIN pass.running
      /\ \A p \in DOMAIN pass.running : p \in Pods /\ pass.running[p] = pods[p].template
      /\ Up(o) /\ o \in pass.ready
  BY <1>1 DEF PodsAsRead, Counted
<1> DEFINE current == {i \in DOMAIN Endpoints : /\ Endpoints[i] \in pass.ready /\ Up(Endpoints[i])
                                                /\ pass.running[Endpoints[i]].image = pass.set.template.image}
<1>3. o \in ToSet(Endpoints)
  BY <1>2, EndpointsFacts
<1>4. PICK i \in DOMAIN Endpoints : Endpoints[i] = o
  BY <1>3 DEF ToSet
<1>5. i \in current
  BY <1>2, <1>4
<1>6. DOMAIN Endpoints \subseteq Nat
  <2>1. Endpoints \in Seq(Pods)
    BY EndpointsFacts DEF IsInjectiveSeq
  <2>2. DOMAIN Endpoints = 1 .. Len(Endpoints) /\ Len(Endpoints) \in Nat
    BY <2>1
  <2> QED  BY <2>2
<1>7. current \in SUBSET Nat /\ current # {}
  BY <1>5, <1>6
<1>8. Min(current) \in current
  BY <1>7, MinFacts
<1>9. showConfig = LET answering == Endpoints[Min(current)]
                   IN  IF answering = None THEN None ELSE Config[pods[answering].template.image]
  BY <1>7 DEF showConfig
<1> DEFINE answering == Endpoints[Min(current)]
<1>10. answering \in pass.ready /\ pass.running[answering].image = pass.set.template.image
  BY <1>8
<1> HIDE DEF answering
<1>11. showConfig = Config[pods[answering].template.image]
  BY <1>9 DEF answering
<1> QED  BY <1>2, <1>10, <1>11

(* The description of the flags stays one of the image.                     *)
LEMMA DescribesImageStep ==
  ASSUME TypeInv, PodsAsRead, DescribesImage, [Next]_vars
  PROVE  DescribesImage'
<1>1. PassType
  BY DEF TypeInv
<1> SUFFICES ASSUME pass'.at \in {"settings", "finish"}, pass'.config # None, NEW o \in Counted',
                    pass'.running[o].image = pass'.set.template.image
             PROVE  pass'.config = Config[pass'.set.template.image]
  BY DEF DescribesImage
<1>2. pass'.at \in Underway /\ ~ Apply
  BY ApplyFields DEF Underway
<1>3. /\ pass'.set = pass.set /\ pass'.running = pass.running
      /\ pass'.ready = pass.ready /\ pass'.steady \subseteq pass.steady
  BY <1>2, UnderwayStep
<1>4. o \in Counted
  BY <1>3 DEF Counted
<1>5. CASE Classifies
  <2>1. pass.at \in {"classify", "aws"} /\ pass'.config \in {None, showConfig}
    BY <1>1, <1>5, StageFields
  <2>2. pass.at \in Visits /\ showConfig = pass'.config
    BY <2>1 DEF Visits
  <2> QED  BY <1>3, <1>4, <2>2, ShowConfigFacts
<1>6. CASE pass.at \in {"settings", "finish"} /\ pass'.config = pass.config
  BY <1>3, <1>4, <1>6 DEF DescribesImage
<1>7. ~ (FinishLicense /\ workloadsReady) /\ ~ Registered /\ ~ BeginAWSCredentials
  BY <1>1, StageFields
<1>8. SetsCoordinators => pass.at = "settings" /\ pass'.config = pass.config
  BY <1>1, StageFields DEF Fields
<1>9. Visiting => pass.at \in {"license", "flags", "aws"} /\ HasFields(pass)
  BY <1>1, PodFacts
<1>10. ~ TurnEnds
  BY <1>1, <1>9, TurnFields DEF Fields
<1>11. ~ SetSetting
  BY <1>1, <1>9, SetFields DEF Fields
<1>12. ~ observedSettings
  <2> SUFFICES ASSUME observedSettings PROVE FALSE
    OBVIOUS
  <2> DEFINE x == IF Up(Pod) THEN pods[Pod].settings ELSE Failed
  <2>1. Visiting /\ pass' = [pass EXCEPT !.reads[Pod] = x]
    BY DEF observedSettings
  <2> HIDE DEF x
  <2> QED  BY <1>9, <2>1 DEF HasFields, Fields
<1> QED  BY <1>2, <1>5, <1>6, <1>7, <1>8, <1>10, <1>11, <1>12, Onward DEF Fields

(* A coordinator setting that is set stays set.                             *)
LEMMA SettingKept ==
  ASSUME TypeInv, [Next]_vars, raft.setting
  PROVE  raft'.setting
<1>1. raft \in [leader : Pods \cup {None}, main : Pods \cup {None}, registered : BOOLEAN, setting : BOOLEAN]
  BY DEF TypeInv, ClusterType
<1>2. ASSUME NEW o PROVE /\ Without(o).setting /\ "setting" \in DOMAIN Without(o)
                         /\ Without(o) \in [leader : Pods \cup {None}, main : Pods \cup {None},
                                            registered : BOOLEAN, setting : BOOLEAN]
  BY <1>1 DEF Without
<1>3. CASE Crashes
  <2>1. PICK o \in Pods, wiped \in BOOLEAN :
          raft' = [Without(o) EXCEPT !.registered = Without(o).registered /\ ~ wiped]
    BY <1>2, <1>3 DEF Crashes, Crash
  <2> QED  BY <1>2, <2>1
<1>4. CASE Elections \/ EndRegistering
  BY <1>1, <1>4 DEF Elections, ElectLeader, ElectMain, EndRegistering
<1>5. CASE SetsCoordinators
  BY <1>1, <1>5 DEF SetsCoordinators, reconcileCoordinatorSettings, LoseCoordinatorSetting
<1>6. CASE Restarts
  BY <1>2, <1>6 DEF Restarts, restartPod
<1> QED  BY <1>3, <1>4, <1>5, <1>6, Writers

(* Whether a pass wants a coordinator setting depends on what it has read.  *)
LEMMA WantsSame ==
  ASSUME pass'.spec = pass.spec, pass'.config = pass.config, pass'.settings = pass.settings
  PROVE  WantsSetting' = WantsSetting
BY DEF WantsSetting, KeysOf, Named, IsData, IsCoordinatorSetting, Coordinator

(* The coordinator setting a pass wants is set, or the pass owes it.        *)
LEMMA SettingDeliveredStep ==
  ASSUME TypeInv, SettingDelivered, [Next]_vars
  PROVE  SettingDelivered'
<1>1. PassType
  BY DEF TypeInv
<1> SUFFICES ASSUME pass'.at = "finish", pass'.config # None, WantsSetting', ~ pass'.outcome.rejected
             PROVE  raft'.setting
  BY DEF SettingDelivered
<1>2. pass'.at \in Underway /\ ~ Apply
  BY ApplyFields DEF Underway
<1>3. CASE SetsCoordinators
  <2>1. \A f \in Fields \ {"at", "outcome"} : pass'[f] = pass[f]
    BY <1>1, <1>3, StageFields
  <2>2. pass'.spec = pass.spec /\ pass'.config = pass.config /\ pass'.settings = pass.settings
    BY <2>1 DEF Fields
  <2>3. WantsSetting
    BY <2>2, WantsSame
  <2>4. pass.at # "idle"
    BY <1>3 DEF SetsCoordinators, reconcileCoordinatorSettings, LoseCoordinatorSetting
  <2>5. HasFields(pass) /\ pass.outcome \in Outcomes
    BY <1>1, <2>4 DEF PassType
  <2>6. pass' # [pass EXCEPT !.at = "finish", !.outcome.rejected = TRUE]
    <3> DEFINE p == [pass EXCEPT !.at = "finish", !.outcome = [pass.outcome EXCEPT !.rejected = TRUE]]
    <3>1. [pass.outcome EXCEPT !.rejected = TRUE].rejected = TRUE
      BY <2>5 DEF Outcomes
    <3>2. p.outcome = [pass.outcome EXCEPT !.rejected = TRUE]
      BY <2>5 DEF HasFields, Fields
    <3> QED  BY <3>1, <3>2
  <2>7. raft \in [leader : Pods \cup {None}, main : Pods \cup {None}, registered : BOOLEAN, setting : BOOLEAN]
    BY DEF TypeInv, ClusterType
  <2>8. reconcileCoordinatorSettings
    BY <1>3, <2>6 DEF SetsCoordinators, LoseCoordinatorSetting
  <2>9. raft.setting \/ raft' = [raft EXCEPT !.setting = TRUE]
    BY <2>3, <2>6, <2>8 DEF reconcileCoordinatorSettings
  <2> QED  BY <2>7, <2>9, SettingKept
<1>4. CASE \A f \in Fields \ {"steady"} : pass'[f] = pass[f]
  <2>1. /\ pass'.spec = pass.spec /\ pass'.config = pass.config /\ pass'.settings = pass.settings
        /\ pass'.at = pass.at /\ pass'.outcome = pass.outcome
    BY <1>4 DEF Fields
  <2>2. WantsSetting
    BY <2>1, WantsSame
  <2> QED  BY <2>1, <2>2, SettingKept DEF SettingDelivered
<1>5. ~ (FinishLicense /\ workloadsReady) /\ ~ Registered /\ ~ BeginAWSCredentials /\ ~ Classifies
  BY <1>1, StageFields
<1>6. Visiting => pass.at \in {"license", "flags", "aws"} /\ HasFields(pass)
  BY <1>1, PodFacts
<1>7. ~ TurnEnds
  BY <1>1, <1>6, TurnFields DEF Fields
<1>8. ~ SetSetting
  BY <1>1, <1>6, SetFields DEF Fields
<1>9. ~ observedSettings
  <2> SUFFICES ASSUME observedSettings PROVE FALSE
    OBVIOUS
  <2> DEFINE x == IF Up(Pod) THEN pods[Pod].settings ELSE Failed
  <2>1. Visiting /\ pass' = [pass EXCEPT !.reads[Pod] = x]
    BY DEF observedSettings
  <2> HIDE DEF x
  <2> QED  BY <1>6, <2>1 DEF HasFields, Fields
<1> QED  BY <1>2, <1>3, <1>4, <1>5, <1>7, <1>8, <1>9, Onward

(* What a pass has recorded is its own.                                     *)
LEMMA RecordedStep ==
  ASSUME TypeInv, Recorded, [Next]_vars
  PROVE  Recorded'
<1>1. PassType
  BY DEF TypeInv
<1>2. observedSettings =>
         Visiting /\ \A f \in {"at", "status", "orig", "generation", "license"} : pass'[f] = pass[f]
  <2> SUFFICES ASSUME observedSettings
               PROVE  Visiting /\ \A f \in {"at", "status", "orig", "generation", "license"} : pass'[f] = pass[f]
    OBVIOUS
  <2> DEFINE x == IF Up(Pod) THEN pods[Pod].settings ELSE Failed
  <2>1. Visiting /\ pass' = [pass EXCEPT !.reads[Pod] = x]
    BY DEF observedSettings
  <2>2. HasFields(pass)
    BY <1>1, <2>1, PodFacts
  <2> HIDE DEF x
  <2> QED  BY <2>1, <2>2 DEF HasFields, Fields
<1>3. ASSUME pass'.at \in {"begun", "license"} PROVE Untouched'
  <2>1. CASE BeginPass
    BY <2>1, BeginFields DEF Untouched
  <2>2. CASE /\ pass.at \in {"begun", "license"}
             /\ pass'.status = pass.status /\ pass'.orig = pass.orig /\ pass'.generation = pass.generation
    BY <2>2 DEF Recorded, Untouched
  <2>3. CASE pass'.at = "begun" /\ ~ BeginPass
    <3>1. /\ pass.at = "begun" /\ pass'.status = pass.status /\ pass'.orig = pass.orig
          /\ pass'.generation = pass.generation
      BY <2>3, BegunStep DEF Fields
    <3> QED  BY <2>2, <3>1
  <2>4. CASE Apply
    <3>1. /\ pass.at = "begun" /\ pass'.status = pass.status /\ pass'.orig = pass.orig
          /\ pass'.generation = pass.generation
      BY <2>4, ApplyFields DEF Fields
    <3> QED  BY <2>2, <3>1
  <2>5. CASE pass'.at = "license" /\ ~ Apply
    <3>1. pass'.at \in Underway
      BY <2>5 DEF Underway, Visits
    <3>2. ~ (FinishLicense /\ workloadsReady) /\ ~ Registered /\ ~ BeginAWSCredentials /\ ~ Classifies
          /\ ~ SetsCoordinators
      BY <1>1, <2>5, StageFields
    <3>3. /\ pass.at = "license" /\ pass'.status = pass.status /\ pass'.orig = pass.orig
          /\ pass'.generation = pass.generation
      BY <1>1, <1>2, <2>5, <3>1, <3>2, Onward, TurnFields, SetFields DEF Fields
    <3> QED  BY <2>2, <3>3
  <2> QED  BY <1>3, <2>1, <2>3, <2>4, <2>5
<1>4. ASSUME pass'.at \in {"begun"} \cup Underway PROVE pass'.serving = Absent
  <2>1. CASE BeginPass
    BY <2>1, BeginFields
  <2>2. CASE pass'.at = "begun" /\ ~ BeginPass
    BY <2>2, BegunStep DEF Fields, Recorded
  <2>3. CASE Apply
    BY <2>3, ApplyFields DEF Fields, Recorded
  <2>4. CASE pass'.at \in Underway /\ ~ Apply
    BY <2>4, UnderwayStep DEF Recorded
  <2> QED  BY <1>4, <2>1, <2>2, <2>3, <2>4
<1>5. ASSUME pass'.at \in Underway \ {"license"}, pass'.status.conditions["LicenseApplied"].status = "True"
      PROVE  Clean(pass'.license)
  <2>1. ~ Apply
    BY <1>5, ApplyFields
  <2>2. CASE FinishLicense /\ workloadsReady
    <3>1. /\ pass'.license = pass.license /\ pass.at = "license"
          /\ pass'.status = setStatus(pass.status, LastMain, [LicenseApplied |-> licenseCondition])
      BY <1>1, <2>2, StageFields DEF Fields
    <3>2. pass'.status.conditions["LicenseApplied"] = licenseCondition
      BY <3>1 DEF setStatus, ConditionTypes
    <3>3. licenseCondition.status = "True"
      BY <1>5, <3>2
    <3>4. ~ pass.license.rejected /\ ~ pass.license.pending
      BY <3>3 DEF licenseCondition, falseCondition, trueCondition, Condition
    <3> QED  BY <3>1, <3>4 DEF Clean
  <2>3. CASE /\ pass.at \in Underway \ {"license"}
             /\ pass'.status = pass.status /\ pass'.license = pass.license
    BY <1>5, <2>3 DEF Recorded
  <2>4. CASE TurnEnds
    <3>1. pass'.status = pass.status /\ pass.at = pass'.at /\ Visiting
      BY <1>1, <2>4, TurnFields DEF Fields
    <3>2. HasFields(pass) /\ pass.at # "license"
      BY <1>1, <1>5, <3>1, PodFacts
    <3>3. pass'.license = pass.license
      BY <1>1, <2>4, <3>2, TurnFields, NextPodFields
    <3> QED  BY <1>5, <2>3, <3>1, <3>3
  <2>5. CASE Registered \/ BeginAWSCredentials \/ Classifies \/ SetsCoordinators
    <3>1. /\ pass.at \in {"observe", "flags", "classify", "aws", "settings"}
          /\ pass'.status = pass.status /\ pass'.license = pass.license
      BY <1>1, <2>5, StageFields DEF Fields
    <3> QED  BY <2>3, <3>1 DEF Underway, Visits
  <2>6. CASE SetSetting
    <3>1. pass'.at = pass.at /\ pass'.status = pass.status /\ pass'.license = pass.license
      BY <1>1, <2>6, SetFields DEF Fields
    <3> QED  BY <1>5, <2>3, <3>1
  <2>7. CASE \A f \in Fields \ {"steady"} : pass'[f] = pass[f]
    <3>1. pass'.at = pass.at /\ pass'.status = pass.status /\ pass'.license = pass.license
      BY <2>7 DEF Fields
    <3> QED  BY <1>5, <2>3, <3>1
  <2> QED  BY <1>2, <1>5, <2>1, <2>2, <2>3, <2>4, <2>5, <2>6, <2>7, Onward
<1> QED  BY <1>3, <1>4, <1>5 DEF Recorded

(* A pass that has ended stays so until it publishes.                       *)
LEMMA PublishStep ==
  ASSUME TypeInv, [Next]_vars, pass'.at = "publish"
  PROVE  \/ EndUnobserved \/ Ends
         \/ /\ pass.at = "publish" /\ ~ Restarts
            /\ \A f \in Fields \ {"steady"} : pass'[f] = pass[f]
            /\ pass'.steady \subseteq pass.steady
            /\ \A o, wiped : Crash(o, wiped) => o \notin pass'.steady
<1>1. PassType
  BY DEF TypeInv
<1>2. Publish \/ Abandon => pass'.at = "idle"
  BY DEF Publish, Abandon, Idle
<1>3. BeginPass => pass'.at = "begun"
  BY BeginFields
<1>4. /\ Apply => pass'.at = "license"
      /\ (FinishLicense /\ workloadsReady) => pass'.at = "observe"
      /\ Registered => pass'.at = "flags"
      /\ BeginAWSCredentials => pass'.at \in {"classify", "aws"}
      /\ Classifies => pass'.at = "settings"
      /\ SetsCoordinators => pass'.at = "finish"
  BY <1>1, ApplyFields, StageFields
<1>5. Visiting => pass.at # "publish" /\ HasFields(pass)
  BY <1>1, PodFacts DEF Visiting
<1>6. ~ TurnEnds
  BY <1>1, <1>5, TurnFields DEF Fields
<1>7. ~ SetSetting
  BY <1>1, <1>5, SetFields DEF Fields
<1>8. ~ observedSettings
  <2> SUFFICES ASSUME observedSettings PROVE FALSE
    OBVIOUS
  <2> DEFINE x == IF Up(Pod) THEN pods[Pod].settings ELSE Failed
  <2>1. Visiting /\ pass' = [pass EXCEPT !.reads[Pod] = x]
    BY DEF observedSettings
  <2> HIDE DEF x
  <2> QED  BY <1>5, <2>1 DEF HasFields, Fields
<1>9. ASSUME NEW o, NEW wiped, Crash(o, wiped)
      PROVE  /\ \A f \in Fields \ {"steady"} : pass'[f] = pass[f]
             /\ pass'.steady = pass.steady \ {o}
  <2>1. pass' = Disturb(o)
    BY <1>9 DEF Crash
  <2>2. pass.at # "idle"
    BY <2>1 DEF Disturb, Idle
  <2>3. HasFields(pass)
    BY <1>1, <2>2 DEF PassType
  <2> QED  BY <2>1, <2>2, <2>3, DisturbFields
<1>10. (\E s \in Specs : Edit(s)) => pass' = pass
  BY DEF Edit
<1>11. CASE Ends \/ EndUnobserved
  BY <1>11
<1>12. CASE ~ Ends /\ ~ EndUnobserved
  <2>1. (pass' = pass \/ Crashes) /\ ~ Restarts
    BY <1>2, <1>3, <1>4, <1>6, <1>7, <1>8, <1>10, <1>12, PassCases DEF Ends
  <2>2. /\ \A f \in Fields \ {"steady"} : pass'[f] = pass[f]
        /\ pass'.steady \subseteq pass.steady
    BY <1>9, <2>1 DEF Crashes
  <2>3. pass.at = "publish"
    BY <2>2 DEF Fields
  <2> QED  BY <1>9, <2>1, <2>2, <2>3
<1> QED  BY <1>11, <1>12

(* A pass that finds no pod outdated leaves the pods it counts on running   *)
(* what was asked for.                                                      *)
LEMMA ConcludesRunning ==
  ASSUME SettingsInv, ConcludeUpdated, Clean(pass.license), Clean(pass.outcome), NEW o \in Counted
  PROVE  Up(o) /\ RunsWhatWasAsked(o)
<1>1. /\ pass.at = "finish" /\ pass.at \in Underway
      /\ ~ Unclassified /\ ~ pass.stale /\ outdated = {}
  BY DEF ConcludeUpdated, Underway
<1>2. /\ TypeInv /\ PodsAsRead /\ Delivered /\ AsksForSpec /\ DescribesImage
  BY DEF SettingsInv, LicenseInv
<1>3. Up(o) /\ o \in DOMAIN pass.running /\ pass.running[o] = pods[o].template /\ o \in Pods
  BY <1>1, <1>2 DEF PodsAsRead, Counted
<1>4. DeliveredTo(o)
  BY <1>1, <1>2 DEF Delivered
<1>5. ~ Ahead(o, "license") /\ ~ Ahead(o, "level") /\ ~ Ahead(o, "aws")
  BY <1>1 DEF Ahead
<1>6. /\ Runs(o, "license") /\ Runs(o, "organization") /\ Runs(o, "level")
      /\ IsData(o) => Runs(o, "aws")
  BY <1>1, <1>4, <1>5 DEF DeliveredTo
<1>7. pass.desired.level = pass.spec.level /\ pass.set.template = TemplateOf(pass.spec)
  BY <1>1, <1>2 DEF AsksForSpec
<1>8. pass.set.template.image = pass.spec.image /\ Named(pass.set.template, o) = Named(pass.spec, o)
  BY <1>7 DEF TemplateOf, Named
<1>9. ~ OffRevision(o) \/ exemptCurrentPods(o)
  BY <1>1, <1>3 DEF outdated
<1>10. CASE ~ OffRevision(o)
  <2>1. /\ pods[o].template.image = pass.spec.image
        /\ Named(pods[o].template, o) = Named(pass.spec, o)
    <3>1. Revision(pass.running[o], o) = Revision(pass.set.template, o)
      BY <1>10 DEF OffRevision
    <3>2. /\ Revision(pass.running[o], o).image = pass.running[o].image
          /\ Revision(pass.running[o], o).named = Named(pass.running[o], o)
          /\ Revision(pass.set.template, o).image = pass.set.template.image
          /\ Revision(pass.set.template, o).named = Named(pass.set.template, o)
      BY DEF Revision
    <3> QED  BY <1>3, <1>8, <3>1, <3>2
  <2> QED  BY <1>3, <1>6, <1>7, <2>1 DEF RunsWhatWasAsked, Runs
<1>11. CASE exemptCurrentPods(o)
  <2>1. FlagsOnly(o) /\ ChangedFlags(o) \cap pass.config = {}
    BY <1>11 DEF exemptCurrentPods
  <2>2. pass.running[o].image = pass.set.template.image
    BY <2>1 DEF FlagsOnly
  <2>3. pass.config # None
    BY <1>1, <1>3, <2>1 DEF Unclassified
  <2>4. pass.config = Config[pass.spec.image]
    BY <1>1, <1>2, <1>8, <2>2, <2>3 DEF DescribesImage
  <2>5. Named(pods[o].template, o) \cap pass.config = Named(pass.spec, o) \cap pass.config
    BY <1>3, <1>8, <2>1 DEF ChangedFlags
  <2> QED  BY <1>3, <1>6, <1>7, <1>8, <2>2, <2>4, <2>5 DEF RunsWhatWasAsked, Runs
<1> QED  BY <1>9, <1>10, <1>11

(* RunsWhatWasAsked is about what a pass reads and the pod.                 *)
LEMMA RunsSame ==
  ASSUME NEW o, pods'[o].settings = pods[o].settings, pods'[o].template = pods[o].template,
         pass'.desired = pass.desired, pass'.spec = pass.spec, RunsWhatWasAsked(o)
  PROVE  RunsWhatWasAsked(o)'
BY DEF RunsWhatWasAsked, Named, IsData

(* What a pass has earned stays earned until it publishes.                  *)
LEMMA EarnedKept ==
  ASSUME SettingsInv, [Next]_vars, pass'.at = "publish", pass.at = "publish", ~ Restarts, Earned,
         \A f \in Fields \ {"steady"} : pass'[f] = pass[f],
         pass'.steady \subseteq pass.steady, \A o, wiped : Crash(o, wiped) => o \notin pass'.steady
  PROVE  Earned'
<1>1. TypeInv /\ PassType
  BY DEF SettingsInv, LicenseInv, TypeInv
<1>2. /\ pass'.serving = pass.serving /\ pass'.main = pass.main /\ pass'.config = pass.config
      /\ pass'.spec = pass.spec /\ pass'.desired = pass.desired /\ pass'.ready = pass.ready
      /\ pass'.settings = pass.settings
  BY DEF Fields
<1>3. ASSUME NEW o \in Counted' PROVE Up(o)' /\ RunsWhatWasAsked(o)'
  <2>1. o \in Counted /\ o \in pass'.steady
    BY <1>2 DEF Counted
  <2>2. Up(o) /\ RunsWhatWasAsked(o)
    BY <2>1 DEF Earned
  <2>3. o \in Pods
    BY <1>1, <2>1 DEF PassType, Counted
  <2>4. ~ Visiting
    BY DEF Visiting
  <2>5. ~ CanSet
    BY <2>4 DEF CanSet
  <2>6. Up(o)' /\ pods'[o].settings = pods[o].settings
    BY <1>1, <2>1, <2>2, <2>3, <2>5, PodsMove
  <2>7. pods[o].state # "gone"
    BY <2>2 DEF Up
  <2>8. pods'[o].template = pods[o].template
    BY <1>1, <2>3, <2>7, PodsMove
  <2> QED  BY <1>2, <2>2, <2>6, <2>8, RunsSame
<1>4. pass'.config # None /\ WantsSetting' => raft'.setting
  BY <1>1, <1>2, WantsSame, SettingKept DEF Earned
<1> QED  BY <1>2, <1>3, <1>4 DEF Earned

(* Whoever ends a pass with every condition True has earned it.             *)
LEMMA EndsEarned ==
  ASSUME SettingsInv, [Next]_vars, Ends, AllTrue(pass'.status.conditions, pass'.generation)
  PROVE  Earned' \/ pass'.serving.status # "True"
<1>1. TypeInv /\ PassType /\ Recorded /\ SettingDelivered
  BY DEF SettingsInv, LicenseInv, TypeInv
<1>2. PICK main, serving, given : EndsWith(main, serving, given)
  BY <1>1, EndsFacts
<1>3. HasFields(pass) /\ pass.at # "idle"
  BY <1>1, EndsFacts
<1>4. /\ pass'.serving = serving
      /\ \A f \in Fields \ {"at", "serving", "status"} : pass'[f] = pass[f]
      /\ \A t \in ConditionTypes :
           pass'.status.conditions[t] = IF t \in DOMAIN given THEN given[t] ELSE pass.status.conditions[t]
  BY <1>1, <1>2, <1>3, EndsFields
<1>5. \A t \in {"LicenseApplied", "Converged", "Updated"} :
         t \in ConditionTypes /\ pass'.status.conditions[t].status = "True"
  BY DEF AllTrue, ConditionTypes
<1>6. given["Converged"].status = "True" /\ "Converged" \in DOMAIN given
  BY <1>2, <1>4, <1>5 DEF EndsWith
<1>7. /\ pass.at = "finish" /\ "LicenseApplied" \notin DOMAIN given
      /\ serving = Verdict(pass.main)
      /\ given["Converged"] =
           convergedCondition(pass.owed, [pass.outcome EXCEPT !.unknown = unknownMessage], pass.generation)
      /\ "Updated" \in DOMAIN given /\ (given["Updated"].status = "True" => ConcludeUpdated)
  BY <1>2, <1>6 DEF EndsWith
<1>8. ConcludeUpdated /\ pass.status.conditions["LicenseApplied"].status = "True"
  BY <1>4, <1>5, <1>7
<1>9. Clean(pass.license)
  BY <1>1, <1>7, <1>8 DEF Recorded, Underway
<1>10. Clean(pass.outcome)
  <2> DEFINE outcome == [pass.outcome EXCEPT !.unknown = unknownMessage]
  <2>1. /\ pass.outcome \in Outcomes /\ cluster.generation \in Nat
        /\ pass.generation \in 1 .. cluster.generation
    BY <1>1, <1>3 DEF PassType, TypeInv, ClusterType
  <2>2. unknownMessage \in BOOLEAN
    BY DEF unknownMessage
  <2>3. outcome \in Outcomes /\ (Clean(outcome) => Clean(pass.outcome))
    BY <2>1, <2>2 DEF Outcomes, Clean
  <2>4. pass.generation \in 0 .. cluster.generation
    BY <2>1
  <2> HIDE DEF outcome
  <2>5. convergedCondition(pass.owed, outcome, pass.generation).status = "True"
    BY <1>6, <1>7 DEF outcome
  <2>6. Clean(outcome)
    BY <2>1, <2>3, <2>4, <2>5, ConvergedFacts
  <2> QED  BY <2>3, <2>6
<1>11. pods' = pods /\ raft' = raft
  BY <1>8 DEF ConcludeUpdated
<1>12. /\ pass'.main = pass.main /\ pass'.config = pass.config /\ pass'.ready = pass.ready
       /\ pass'.steady = pass.steady /\ pass'.settings = pass.settings
       /\ pass'.spec = pass.spec /\ pass'.desired = pass.desired
  BY <1>4 DEF Fields
<1>13. ASSUME NEW o \in Counted' PROVE Up(o)' /\ RunsWhatWasAsked(o)'
  <2>1. o \in Counted
    BY <1>12 DEF Counted
  <2>2. Up(o) /\ RunsWhatWasAsked(o)
    BY <1>8, <1>9, <1>10, <2>1, ConcludesRunning
  <2>3. Up(o)'
    BY <1>11, <2>2 DEF Up
  <2> QED  BY <1>11, <1>12, <2>2, <2>3, RunsSame
<1>14. pass'.config # None /\ WantsSetting' => raft'.setting
  BY <1>1, <1>7, <1>10, <1>11, <1>12, WantsSame DEF SettingDelivered, Clean
<1>15. pass'.serving.status = "True" => pass'.main # None
  BY <1>4, <1>7, <1>12, VerdictFacts
<1> QED  BY <1>13, <1>14, <1>15 DEF Earned

(* A pass ends with nothing recorded, or with what it has earned.           *)
LEMMA ConcludesEarnedStep ==
  ASSUME SettingsInv, [Next]_vars
  PROVE  ConcludesEarned'
<1>1. TypeInv /\ PassType /\ Recorded /\ ConcludesEarned
  BY DEF SettingsInv, LicenseInv, TypeInv
<1> SUFFICES ASSUME pass'.at = "publish"
             PROVE  \/ pass'.serving = Absent /\ Untouched'
                    \/ /\ pass'.status.conditions["Converged"].gen = pass'.generation
                       /\ pass'.serving = Absent => pass'.status.conditions["Converged"].status = "False"
                       /\ pass'.serving.status = "False" => pass'.serving.reason \in servingReasons
                       /\ pass'.serving = Absent \/ pass'.serving.status \in {"True", "False"}
                       /\ AllTrue(pass'.status.conditions, pass'.generation) /\ pass'.serving.status = "True"
                            => Earned'
  BY DEF ConcludesEarned
<1>2. CASE EndUnobserved
  <2>1. /\ pass.at = "begun" /\ pass'.serving = pass.serving /\ pass'.status = pass.status
        /\ pass'.orig = pass.orig /\ pass'.generation = pass.generation
    BY <1>1, <1>2, StageFields DEF Fields
  <2> QED  BY <1>1, <2>1 DEF Recorded, Untouched
<1>3. CASE Ends
  <2>1. PICK main, serving, given : EndsWith(main, serving, given)
    BY <1>1, <1>3, EndsFacts
  <2>2. HasFields(pass) /\ pass.at # "idle"
    BY <1>1, <1>3, EndsFacts
  <2>3. /\ pass'.serving = serving
        /\ \A f \in Fields \ {"at", "serving", "status"} : pass'[f] = pass[f]
        /\ \A t \in ConditionTypes :
             pass'.status.conditions[t] = IF t \in DOMAIN given THEN given[t] ELSE pass.status.conditions[t]
    BY <1>1, <2>1, <2>2, EndsFields
  <2>4. pass'.generation = pass.generation
    BY <2>3 DEF Fields
  <2>5. /\ "Converged" \in DOMAIN given /\ given["Converged"].gen = pass.generation
        /\ serving = Absent => given["Converged"].status = "False"
        /\ IsVerdict(serving)
    BY <2>1 DEF EndsWith
  <2>6. pass'.status.conditions["Converged"] = given["Converged"]
    BY <2>3, <2>5 DEF ConditionTypes
  <2> QED  BY <1>3, <2>3, <2>4, <2>5, <2>6, EndsEarned DEF IsVerdict
<1>4. CASE ~ EndUnobserved /\ ~ Ends
  <2>1. /\ pass.at = "publish" /\ ~ Restarts
        /\ \A f \in Fields \ {"steady"} : pass'[f] = pass[f]
        /\ pass'.steady \subseteq pass.steady
        /\ \A o, wiped : Crash(o, wiped) => o \notin pass'.steady
    BY <1>1, <1>4, PublishStep
  <2>2. /\ pass'.serving = pass.serving /\ pass'.status = pass.status
        /\ pass'.orig = pass.orig /\ pass'.generation = pass.generation
    BY <2>1 DEF Fields
  <2>3. Earned => Earned'
    BY <2>1, EarnedKept
  <2> QED  BY <1>1, <2>1, <2>2, <2>3 DEF ConcludesEarned, Untouched
<1> QED  BY <1>1, <1>2, <1>3, <1>4

(* Ready of a status whose license was decided for another generation.      *)
LEMMA ReadyUndecided ==
  ASSUME NEW generation \in Nat, NEW g \in 0 .. generation,
         NEW conditions, \A t \in ConditionTypes : IsCondition(conditions[t], generation),
         conditions["LicenseApplied"].gen # g
  PROVE  KeepsReady(readyCondition(Absent, conditions, g))
<1>1. CASE KeepsReady(conditions["Ready"])
  <2>1. readyCondition(Absent, conditions, g) = [conditions["Ready"] EXCEPT !.gen = g]
    BY <1>1 DEF readyCondition
  <2>2. IsCondition(conditions["Ready"], generation)
    BY DEF ConditionTypes
  <2>3. /\ readyCondition(Absent, conditions, g).status = conditions["Ready"].status
        /\ readyCondition(Absent, conditions, g).reason = conditions["Ready"].reason
    BY <2>1, <2>2 DEF IsCondition
  <2> QED  BY <1>1, <2>3 DEF KeepsReady
<1>2. CASE ~ KeepsReady(conditions["Ready"])
  <2>1. readyCondition(Absent, conditions, g) = ReadyFromOthers(conditions, g)
    BY <1>2 DEF readyCondition
  <2>2. Blocks(conditions["LicenseApplied"], g) /\ Undecided(conditions["LicenseApplied"], g)
    BY DEF Blocks, Undecided
  <2>3. ReadyFromOthers(conditions, g) = Condition("Unknown", "Reconciling", g)
    BY <2>2 DEF ReadyFromOthers, ReadyOf
  <2>4. Condition("Unknown", "Reconciling", g).status = "Unknown"
        /\ Condition("Unknown", "Reconciling", g).reason = "Reconciling"
    BY DEF Condition
  <2> QED  BY <2>1, <2>3, <2>4 DEF KeepsReady
<1> QED  BY <1>1, <1>2

(* The conditions a pass leaves untouched, if they are all True, are those  *)
(* it started from.                                                         *)
LEMMA UntouchedFacts ==
  ASSUME TypeInv, pass.at = "publish", Untouched, NEW g, AllTrue(pass.status.conditions, g)
  PROVE  /\ AllTrue(pass.orig.conditions, g)
         /\ \A t \in ConditionTypes \ {"Ready"} : pass.status.conditions[t] = pass.orig.conditions[t]
         /\ pass.status.conditions["Ready"] =
              IF pass.orig.conditions["Ready"] = Absent
              THEN Condition("Unknown", "Reconciling", pass.generation) ELSE pass.orig.conditions["Ready"]
<1>1. /\ cluster.generation \in Nat /\ pass.generation \in 1 .. cluster.generation
      /\ IsStatus(pass.orig, cluster.generation)
  BY DEF TypeInv, ClusterType, PassType
<1>2. pass.generation \in 0 .. cluster.generation
  BY <1>1
<1>3. \A t \in ConditionTypes :
         pass.status.conditions[t] = IF pass.orig.conditions[t] = Absent
                                     THEN Condition("Unknown", "Reconciling", pass.generation)
                                     ELSE pass.orig.conditions[t]
  BY <1>1, <1>2, InitializeFacts DEF Untouched
<1>4. Condition("Unknown", "Reconciling", pass.generation).status = "Unknown"
  BY DEF Condition
<1>5. \A t \in ConditionTypes \ {"Ready"} : pass.status.conditions[t] = pass.orig.conditions[t]
  BY <1>3, <1>4 DEF AllTrue
<1>6. "Ready" \in ConditionTypes
  BY DEF ConditionTypes
<1> QED  BY <1>3, <1>5, <1>6 DEF AllTrue

(* What a pass publishes says Ready only if the three conditions do.        *)
LEMMA PublishSummarised ==
  ASSUME SettingsInv, Publish
  PROVE  Summarised(summarizeReady(pass.status, pass.serving, pass.generation).conditions)
<1> DEFINE new == summarizeReady(pass.status, pass.serving, pass.generation)
           ready == readyCondition(pass.serving, pass.status.conditions, pass.generation)
<1>1. TypeInv /\ pass.at = "publish" /\ ConcludesEarned
  BY DEF SettingsInv, LicenseInv, Publish
<1>2. /\ new.conditions["Ready"] = ready
      /\ \A t \in ConditionTypes \ {"Ready"} : new.conditions[t] = pass.status.conditions[t]
  BY <1>1, PublishFacts
<1>3. /\ cluster.generation \in Nat /\ pass.generation \in 1 .. cluster.generation
      /\ IsStatus(pass.status, cluster.generation) /\ IsCondition(pass.serving, cluster.generation)
  BY <1>1 DEF TypeInv, ClusterType, PassType
<1>4. pass.generation \in 0 .. cluster.generation
  BY <1>3
<1>5. \A t \in ConditionTypes : IsCondition(pass.status.conditions[t], cluster.generation)
  BY <1>3 DEF IsStatus
<1>6. /\ IsCondition(ready, cluster.generation) /\ ready.gen = pass.generation
      /\ \/ ready.status = "True" /\ ready.reason = "Reconciled"
         \/ KeepsReady(ready)
         \/ ~ AllTrue(pass.status.conditions, pass.generation)
         \/ pass.serving # Absent /\ pass.serving.status # "True"
  BY <1>3, <1>4, <1>5, ReadyFacts
<1> HIDE DEF new
<1> SUFFICES ASSUME NEW g \in Nat, AllTrue(pass.status.conditions, g)
             PROVE  ready = Condition("True", "Reconciled", g) \/ KeepsReady(ready)
  BY <1>2 DEF Summarised, AllTrue, new
<1>7. /\ pass.status.conditions["LicenseApplied"].gen = g
      /\ pass.status.conditions["Converged"].gen = g
      /\ pass.status.conditions["Converged"].status = "True"
  BY DEF AllTrue, ConditionTypes
<1>8. CASE g = pass.generation /\ (pass.serving = Absent \/ pass.serving.status = "True")
  <2>1. (ready.status = "True" /\ ready.reason = "Reconciled") \/ KeepsReady(ready)
    BY <1>6, <1>8
  <2>2. ready = [status |-> ready.status, reason |-> ready.reason, gen |-> ready.gen]
    BY <1>6 DEF IsCondition
  <2> QED  BY <1>6, <1>8, <2>1, <2>2 DEF Condition
<1>9. CASE pass.serving = Absent /\ g # pass.generation
  <2>1. KeepsReady(readyCondition(Absent, pass.status.conditions, pass.generation))
    BY <1>3, <1>4, <1>5, <1>7, <1>9, ReadyUndecided
  <2> QED  BY <1>9, <2>1
<1>10. CASE pass.serving # Absent
  <2>1. /\ g = pass.generation
        /\ pass.serving.status = "False" => pass.serving.reason \in servingReasons
        /\ pass.serving.status \in {"True", "False"}
    BY <1>1, <1>7, <1>10 DEF ConcludesEarned
  <2>2. CASE pass.serving.status = "True"
    BY <1>8, <2>1, <2>2
  <2>3. CASE pass.serving.status = "False"
    <3>1. ready = [pass.serving EXCEPT !.gen = pass.generation]
      BY <1>10, <2>3 DEF readyCondition
    <3>2. ready.status = pass.serving.status /\ ready.reason = pass.serving.reason
      BY <1>3, <3>1 DEF IsCondition
    <3> QED  BY <2>1, <2>3, <3>2 DEF KeepsReady
  <2> QED  BY <2>1, <2>2, <2>3
<1> QED  BY <1>8, <1>9, <1>10

(* Every status there is is summarised.                                     *)
LEMMA StatusesSummarisedStep ==
  ASSUME SettingsInv, [Next]_vars
  PROVE  StatusesSummarised'
<1>1. TypeInv /\ PassType /\ StatusesSummarised /\ IsResource(cluster)
  BY DEF SettingsInv, LicenseInv, TypeInv, ClusterType
<1>2. Summarised(cluster'.status.conditions)
  <2>1. CASE cluster' = cluster
    BY <1>1, <2>1 DEF StatusesSummarised
  <2>2. CASE \E s \in Specs : Edit(s)
    <3>1. PICK s \in Specs : cluster' = [cluster EXCEPT !.spec = s, !.generation = cluster.generation + 1]
      BY <2>2 DEF Edit
    <3>2. cluster = [spec |-> cluster.spec, generation |-> cluster.generation, status |-> cluster.status]
      BY <1>1 DEF IsResource
    <3>3. cluster'.status = cluster.status
      BY <3>1, <3>2
    <3> QED  BY <1>1, <3>3 DEF StatusesSummarised
  <2>3. CASE Publish
    <3> DEFINE new == summarizeReady(pass.status, pass.serving, pass.generation)
    <3>1. Summarised(new.conditions)
      BY <2>3, PublishSummarised
    <3>2. cluster'.status.conditions \in {cluster.status.conditions, new.conditions}
      BY <1>1, <2>3, PublishFacts
    <3> HIDE DEF new
    <3> QED  BY <1>1, <3>1, <3>2 DEF StatusesSummarised
  <2> QED  BY <2>1, <2>2, <2>3, Writers
<1>3. Summarised(cached'.status.conditions)
  <2>1. CASE cached' = cached
    BY <1>1, <2>1 DEF StatusesSummarised
  <2>2. CASE SyncCluster
    BY <1>1, <2>2 DEF StatusesSummarised, SyncCluster
  <2>3. CASE SyncSpec
    <3>1. cached' = [cluster EXCEPT !.status = cached.status]
      BY <2>3 DEF SyncSpec
    <3>2. cluster = [spec |-> cluster.spec, generation |-> cluster.generation, status |-> cluster.status]
      BY <1>1 DEF IsResource
    <3>3. cached'.status = cached.status
      BY <3>1, <3>2
    <3> QED  BY <1>1, <3>3 DEF StatusesSummarised
  <2> QED  BY <2>1, <2>2, <2>3, Writers
<1>4. ASSUME pass'.at # "idle" PROVE Summarised(pass'.orig.conditions)
  <2>1. CASE BeginPass
    BY <1>1, <2>1, BeginFields DEF StatusesSummarised
  <2>2. CASE pass.at # "idle" /\ pass'.orig = pass.orig
    BY <1>1, <2>2 DEF StatusesSummarised
  <2>3. TypeInv'
    BY <1>1, TypeStep
  <2>4. pass'.at \in Stages
    BY <1>4, <2>3 DEF TypeInv, PassType
  <2>5. CASE pass'.at \in Underway
    <3>1. CASE Apply
      <4>1. pass.at = "begun" /\ pass'.orig = pass.orig
        BY <1>1, <3>1, ApplyFields DEF Fields
      <4> QED  BY <2>2, <4>1
    <3>2. CASE ~ Apply
      <4>1. pass.at \in Underway /\ pass'.orig = pass.orig
        BY <1>1, <2>5, <3>2, UnderwayStep
      <4> QED  BY <2>2, <4>1 DEF Underway, Visits
    <3> QED  BY <3>1, <3>2
  <2>6. CASE pass'.at = "begun" /\ ~ BeginPass
    <3>1. pass.at = "begun" /\ pass'.orig = pass.orig
      BY <1>1, <2>6, BegunStep DEF Fields
    <3> QED  BY <2>2, <3>1
  <2>7. CASE pass'.at = "publish"
    <3>1. CASE EndUnobserved
      <4>1. pass.at = "begun" /\ pass'.orig = pass.orig
        BY <1>1, <3>1, StageFields DEF Fields
      <4> QED  BY <2>2, <4>1
    <3>2. CASE Ends
      <4>1. PICK main, serving, given : EndsWith(main, serving, given)
        BY <1>1, <3>2, EndsFacts
      <4>2. HasFields(pass) /\ pass.at # "idle"
        BY <1>1, <3>2, EndsFacts
      <4>3. pass'.orig = pass.orig
        BY <1>1, <4>1, <4>2, EndsFields DEF Fields
      <4> QED  BY <2>2, <4>2, <4>3
    <3>3. CASE ~ EndUnobserved /\ ~ Ends
      <4>1. pass.at = "publish" /\ pass'.orig = pass.orig
        BY <1>1, <2>7, <3>3, PublishStep DEF Fields
      <4> QED  BY <2>2, <4>1
    <3> QED  BY <3>1, <3>2, <3>3
  <2> QED  BY <2>1, <2>4, <2>5, <2>6, <2>7 DEF Stages
<1> QED  BY <1>2, <1>3, <1>4 DEF StatusesSummarised

(* SettingsInv is inductive.                                                *)
LEMMA SettingsInit ==
  ASSUME Init
  PROVE  SettingsInv
<1>1. pass.at = "idle" /\ LicenseInv
  BY LicenseInit DEF Init, Idle
<1>2. Delivered /\ AsksForSpec /\ DescribesImage /\ SettingDelivered /\ Recorded /\ ConcludesEarned
  BY <1>1 DEF Delivered, AsksForSpec, DescribesImage, SettingDelivered, Recorded, ConcludesEarned,
              Underway, Visits
<1>3. Summarised(NoStatus(None).conditions)
  <2>1. NoStatus(None).conditions["LicenseApplied"].status = "Absent" /\ "LicenseApplied" \in ConditionTypes \ {"Ready"}
    BY DEF NoStatus, ConditionTypes, Absent, Condition
  <2> QED  BY <2>1 DEF Summarised, AllTrue
<1>4. StatusesSummarised
  <2>1. cluster.status = NoStatus(None) /\ cached = cluster
    BY DEF Init
  <2> QED  BY <1>1, <1>3, <2>1 DEF StatusesSummarised
<1> QED  BY <1>1, <1>2, <1>4 DEF SettingsInv

(* Every step keeps it.                                                     *)
LEMMA SettingsStep ==
  ASSUME SettingsInv, [Next]_vars
  PROVE  SettingsInv'
<1>1. /\ LicenseInv /\ TypeInv /\ PodsAsRead /\ Delivered /\ AsksForSpec /\ DescribesImage
      /\ SettingDelivered /\ Recorded
  BY DEF SettingsInv, LicenseInv
<1>2. LicenseInv' /\ Delivered'
  BY <1>1, LicenseStep, DeliveredStep
<1>3. AsksForSpec' /\ DescribesImage' /\ SettingDelivered' /\ Recorded'
  BY <1>1, AsksForSpecStep, DescribesImageStep, SettingDeliveredStep, RecordedStep
<1>4. ConcludesEarned' /\ StatusesSummarised'
  BY ConcludesEarnedStep, StatusesSummarisedStep
<1> QED  BY <1>2, <1>3, <1>4 DEF SettingsInv

(* A pass that turns Ready True has earned it.                              *)
LEMMA ReadyEarned ==
  ASSUME SettingsInv, [Next]_vars, BecomesReady
  PROVE  Earned
<1> DEFINE new == summarizeReady(pass.status, pass.serving, pass.generation)
           ready == readyCondition(pass.serving, pass.status.conditions, pass.generation)
<1>1. TypeInv /\ ConcludesEarned /\ StatusesSummarised /\ IsResource(cluster)
  BY DEF SettingsInv, LicenseInv, TypeInv, ClusterType
<1>2. /\ cluster.status.conditions["Ready"].status # "True"
      /\ cluster'.status.conditions["Ready"].status = "True"
  BY DEF BecomesReady
<1>3. Publish
  <2>1. ASSUME \E s \in Specs : Edit(s) PROVE cluster'.status = cluster.status
    <3>1. PICK s \in Specs : cluster' = [cluster EXCEPT !.spec = s, !.generation = cluster.generation + 1]
      BY <2>1 DEF Edit
    <3>2. cluster = [spec |-> cluster.spec, generation |-> cluster.generation, status |-> cluster.status]
      BY <1>1 DEF IsResource
    <3> QED  BY <3>1, <3>2
  <2> QED  BY <1>2, <2>1, Writers
<1>4. /\ cluster'.status.conditions \in {cluster.status.conditions, new.conditions}
      /\ new.conditions = pass.orig.conditions => cluster'.status.conditions = cluster.status.conditions
      /\ IsStatus(new, cluster.generation)
      /\ new.conditions["Ready"] = ready
      /\ \A t \in ConditionTypes \ {"Ready"} : new.conditions[t] = pass.status.conditions[t]
  BY <1>1, <1>3, PublishFacts
<1> HIDE DEF new
<1>5. new.conditions # pass.orig.conditions /\ ready.status = "True"
  BY <1>2, <1>4
<1>6. /\ pass.at = "publish" /\ cluster.generation \in Nat /\ pass.generation \in 1 .. cluster.generation
      /\ IsStatus(pass.status, cluster.generation) /\ IsStatus(pass.orig, cluster.generation)
      /\ IsCondition(pass.serving, cluster.generation)
  BY <1>1, <1>3 DEF Publish, TypeInv, ClusterType, PassType
<1>7. pass.generation \in 0 .. cluster.generation
  BY <1>6
<1>8. \A t \in ConditionTypes : IsCondition(pass.status.conditions[t], cluster.generation)
  BY <1>6 DEF IsStatus
<1>9. /\ IsCondition(ready, cluster.generation) /\ ready.gen = pass.generation
      /\ pass.serving = Absent => ~ KeepsReady(pass.status.conditions["Ready"])
      /\ AllTrue(pass.status.conditions, pass.generation) /\ ready.reason = "Reconciled"
      /\ pass.serving = Absent \/ pass.serving.status = "True"
  <2>1. IsCondition(ready, cluster.generation) /\ ready.gen = pass.generation
    BY <1>6, <1>7, <1>8, ReadyFacts
  <2>2. pass.serving = Absent => ~ KeepsReady(pass.status.conditions["Ready"])
    <3> SUFFICES ASSUME pass.serving = Absent, KeepsReady(pass.status.conditions["Ready"]) PROVE FALSE
      OBVIOUS
    <3>1. ready = [pass.status.conditions["Ready"] EXCEPT !.gen = pass.generation]
      BY DEF readyCondition
    <3>2. IsCondition(pass.status.conditions["Ready"], cluster.generation)
      BY <1>8 DEF ConditionTypes
    <3>3. ready.status = pass.status.conditions["Ready"].status
      BY <3>1, <3>2 DEF IsCondition
    <3> QED  BY <1>5, <3>3 DEF KeepsReady
  <2>3. AllTrue(pass.status.conditions, pass.generation) /\ ready.reason = "Reconciled"
    BY <1>5, <1>6, <1>7, <1>8, ReadyFacts
  <2>4. pass.serving = Absent \/ pass.serving.status = "True"
    BY <1>5, <1>6, <1>7, <1>8, ReadyFacts
  <2> QED  BY <2>1, <2>2, <2>3, <2>4
<1>10. ~ (pass.serving = Absent /\ Untouched)
  <2> SUFFICES ASSUME pass.serving = Absent, Untouched PROVE FALSE
    OBVIOUS
  <2>1. /\ AllTrue(pass.orig.conditions, pass.generation)
        /\ \A t \in ConditionTypes \ {"Ready"} : pass.status.conditions[t] = pass.orig.conditions[t]
        /\ pass.status.conditions["Ready"] =
             IF pass.orig.conditions["Ready"] = Absent
             THEN Condition("Unknown", "Reconciling", pass.generation) ELSE pass.orig.conditions["Ready"]
    BY <1>1, <1>6, <1>9, UntouchedFacts
  <2>2. Absent.reason = "" /\ Absent.status = "Absent"
    BY DEF Absent, Condition
  <2>3. ~ KeepsReady(pass.orig.conditions["Ready"])
    BY <1>9, <2>1, <2>2 DEF KeepsReady, servingReasons
  <2>4. pass.generation \in Nat /\ pass.at # "idle"
    BY <1>6
  <2>5. pass.orig.conditions["Ready"] = Condition("True", "Reconciled", pass.generation)
    BY <1>1, <2>1, <2>3, <2>4 DEF StatusesSummarised, Summarised
  <2>6. ready = Condition("True", "Reconciled", pass.generation)
    BY <1>5, <1>9 DEF IsCondition, Condition
  <2>7. \A t \in ConditionTypes : new.conditions[t] = pass.orig.conditions[t]
    BY <1>4, <2>1, <2>5, <2>6
  <2>8. /\ new.conditions = [t \in ConditionTypes |-> new.conditions[t]]
        /\ pass.orig.conditions = [t \in ConditionTypes |-> pass.orig.conditions[t]]
    BY <1>4, <1>6 DEF IsStatus
  <2> QED  BY <1>5, <2>7, <2>8
<1>11. pass.status.conditions["Converged"].status = "True"
  BY <1>9 DEF AllTrue, ConditionTypes
<1> QED  BY <1>1, <1>6, <1>9, <1>10, <1>11 DEF ConcludesEarned

(* Ready is turned True only by a pass that itself found a MAIN up and left *)
(* every pod that it saw ready and that stayed up running what was asked    *)
(* for, whatever the cache showed it, whatever crashed and whatever changed *)
(* under it (readyCondition, convergedCondition, Reconcile).                *)
THEOREM ReadyOnlyWhenEarned == Spec => ReadyIsEarned
<1>1. ASSUME SettingsInv, [Next]_vars
      PROVE  [BecomesReady =>
                /\ pass.serving.status = "True" /\ pass.main # None
                /\ \A o \in pass.ready \intersect pass.steady : RunsWhatWasAsked(o)
                /\ pass.config # None /\ WantsSetting => raft.setting]_vars
  BY <1>1, ReadyEarned DEF Earned, Counted
<1> QED  BY <1>1, SettingsInit, SettingsStep, PTL DEF Spec, ReadyIsEarned

=============================================================================
