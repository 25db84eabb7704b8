------------------------------ MODULE Conditions -----------------------------
(***************************************************************************)
(* The status of a MemgraphDBCluster as operators: the conditions a pass   *)
(* records, how Ready is summarised from them and from the serving         *)
(* verdict, and what the status patch at the end of the pass writes.       *)
(*                                                                         *)
(* A condition is its status, its reason and the generation it was decided *)
(* for; messages and transition times are left out.  The member counts and *)
(* the external addresses of the status travel exactly as main does.       *)
(***************************************************************************)
EXTENDS Integers

Condition(s, r, g) == [status |-> s, reason |-> r, gen |-> g]

(* A condition no pass has set yet. *)
Absent == Condition("Absent", "", 0)

ConditionTypes == {"Ready", "LicenseApplied", "Converged", "Updated"}
NoStatus(nobody) == [main |-> nobody, conditions |-> [t \in ConditionTypes |-> Absent]]

(* The reasons a serving verdict can be False with. *)
servingReasons == {"ApplyFailed", "WorkloadsNotReady", "CoordinatorUnreachable",
                   "NoCoordinatorLeader", "NoMainElected"}

(* Sets what is missing to Unknown and leaves the rest untouched. *)
InitializeConditions(status, generation) ==
  [status EXCEPT !.conditions = [t \in ConditionTypes |->
     IF @[t] = Absent THEN Condition("Unknown", "Reconciling", generation) ELSE @[t]]]

(* Conditions not given to setStatus keep what they said, and for which     *)
(* generation they said it.                                                 *)
setStatus(status, main, given) ==
  [main       |-> main,
   conditions |-> [t \in ConditionTypes |->
                     IF t \in DOMAIN given THEN given[t] ELSE status.conditions[t]]]

servingOrNot(elected, generation) ==
  IF elected THEN Condition("True", "MainElected", generation)
             ELSE Condition("False", "NoMainElected", generation)

-----------------------------------------------------------------------------
(* Ready *)

(* The first of the three that is not True for this generation, or none. *)
Undecided(condition, generation) == condition.gen # generation \/ condition = Absent
Blocks(condition, generation)    == Undecided(condition, generation) \/ condition.status # "True"

ReadyOf(condition, generation) ==
  IF Undecided(condition, generation)
  THEN Condition("Unknown", "Reconciling", generation)
  ELSE Condition(condition.status, condition.reason, generation)

ReadyFromOthers(conditions, generation) ==
  CASE Blocks(conditions["LicenseApplied"], generation) -> ReadyOf(conditions["LicenseApplied"], generation)
    [] ~Blocks(conditions["LicenseApplied"], generation) /\ Blocks(conditions["Converged"], generation)
         -> ReadyOf(conditions["Converged"], generation)
    [] ~Blocks(conditions["LicenseApplied"], generation) /\ ~Blocks(conditions["Converged"], generation)
       /\ Blocks(conditions["Updated"], generation)
         -> ReadyOf(conditions["Updated"], generation)
    [] OTHER -> Condition("True", "Reconciled", generation)

(* A pass that gave no verdict keeps a Ready that said "not serving" or was *)
(* not decided.                                                             *)
KeepsReady(previous) ==
  /\ previous.status # "True"
  /\ previous.reason \in servingReasons \union {"Reconciling"}

(* Mutant: keeps it whatever the pass observed. *)
ReadySticks(serving, conditions, generation) ==
  IF KeepsReady(conditions["Ready"]) THEN conditions["Ready"]
  ELSE ReadyFromOthers(conditions, generation)

readyCondition(serving, conditions, generation) ==
  IF serving = Absent
  THEN IF KeepsReady(conditions["Ready"])
       THEN [conditions["Ready"] EXCEPT !.gen = generation]
       ELSE ReadyFromOthers(conditions, generation)
  ELSE IF serving.status = "True" THEN ReadyFromOthers(conditions, generation)
       ELSE [serving EXCEPT !.gen = generation]

summarizeReady(status, serving, generation) ==
  [status EXCEPT !.conditions["Ready"] = readyCondition(serving, status.conditions, generation)]

(* The merge patch of the pass's status against the copy it started from:   *)
(* only what the pass changed is sent, the conditions as one list.          *)
MergePatch(current, orig, new) ==
  [main       |-> IF new.main = orig.main THEN current.main ELSE new.main,
   conditions |-> IF new.conditions = orig.conditions THEN current.conditions ELSE new.conditions]

-----------------------------------------------------------------------------
(* Converged, once every declared member is registered *)

(* Most permanent first.  owed is what the external access and the volume   *)
(* expansion have not delivered, outcome what the settings have not.        *)
Ranked(owed, outcome) ==
  <<  [holds |-> "unservable" \in owed, reason |-> "ApplyFailed"],
      [holds |-> "refused" \in owed,    reason |-> "VolumeExpansionRefused"],
      [holds |-> "failed" \in owed,     reason |-> "VolumeExpansionFailed"],
      [holds |-> "address" \in owed,    reason |-> "ExternalAddressPending"],
      [holds |-> outcome.rejected,      reason |-> "SettingsRejected"],
      [holds |-> outcome.unknown,       reason |-> "UnknownFlags"],
      [holds |-> "growing" \in owed,    reason |-> "VolumeExpansionInProgress"],
      [holds |-> outcome.pending,       reason |-> "SettingsPending"]  >>

convergedCondition(owed, outcome, generation) ==
  LET ranked == Ranked(owed, outcome)
      first  == {i \in 1..8 : ranked[i].holds /\ \A j \in 1..(i - 1) : ~ranked[j].holds}
  IN  IF first = {} THEN Condition("True", "AllInstancesRegistered", generation)
      ELSE Condition("False", ranked[CHOOSE i \in first : TRUE].reason, generation)

=============================================================================
