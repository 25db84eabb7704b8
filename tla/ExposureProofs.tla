---------------------------- MODULE ExposureProofs --------------------------
(***************************************************************************)
(* The action properties of Exposure, for every set of counts, every       *)
(* exposure and every number of edits and faults: the prune of a pass      *)
(* leaves alone what a human put in place of an object, and what a running *)
(* pod is reached through.                                                 *)
(***************************************************************************)
EXTENDS Exposure, FiniteSetTheorems, WellFoundedInduction, TLAPS

-----------------------------------------------------------------------------
(* The inductive invariant *)

(* Types: every object and every cached one is an object, and every count a *)
(* pass works with is one a spec may declare.                               *)
TypeInv ==
  /\ spec \in Specs
  /\ running \in Counts
  /\ objects \in [Names -> Object] /\ cached \in [Names -> Object]
  /\ pc # "idle" => pass.applied \in Counts
  /\ pass.spec.count \in Counts

(* No cached object is ahead of the API server. *)
NothingAhead == \A n \in Names : cached[n].uid <= objects[n].uid

(* The object of a UID this cluster controlled is still its own, unless it  *)
(* is gone.                                                                 *)
StillOwn ==
  \A n \in Names :
    cached[n].controlled /\ objects[n].uid = cached[n].uid /\ objects[n].present
      => objects[n].controlled

(* A pass prunes for the pods it has just applied. *)
PrunesForRunning == pc = "prune" => running = pass.applied

ExposureInv == TypeInv /\ NothingAhead /\ StillOwn /\ PrunesForRunning

-----------------------------------------------------------------------------
(* Lemmas on the operators *)

(* A finite set of numbers has a greatest one.                              *)
LEMMA GreatestExists ==
  ASSUME NEW S, S \subseteq Nat, S # {}, IsFiniteSet(S)
  PROVE  \E n \in S : \A m \in S : m <= n
<1> DEFINE HasGreatest(X) == \E n \in X : \A m \in X : m <= n
           Bad == { X \in SUBSET S : X # {} /\ ~ HasGreatest(X) }
           R == StrictSubsetOrdering(S)
<1>1. SUFFICES Bad = {}
  OBVIOUS
<1>2. SUFFICES ASSUME Bad # {} PROVE FALSE
  OBVIOUS
<1>3. IsWellFoundedOn(R, SUBSET S)
  BY FS_StrictSubsetOrderingWellFounded, FS_FiniteSubsetsOfFinite
<1>4. PICK X \in Bad : \A Y \in Bad : ~ (<<Y, X>> \in R)
  <2> HIDE DEF R
  <2>1. Bad \subseteq SUBSET S
    OBVIOUS
  <2> HIDE DEF Bad
  <2> QED  BY <1>2, <1>3, <2>1, WFMin
<1>5. PICK x \in X : TRUE
  OBVIOUS
<1>6. X \ {x} \notin Bad
  <2>1. <<X \ {x}, X>> \in R
    BY DEF StrictSubsetOrdering
  <2> HIDE DEF R, Bad
  <2> QED  BY <1>4, <2>1
<1>7. CASE X \ {x} = {}
  <2>1. X = {x} /\ x \in Nat
    BY <1>7
  <2>2. x <= x
    BY <2>1
  <2> QED  BY <2>1, <2>2
<1>8. CASE X \ {x} # {}
  <2>1. PICK n \in X \ {x} : \A m \in X \ {x} : m <= n
    BY <1>6, <1>8
  <2>2. n \in Nat /\ x \in Nat /\ X \subseteq Nat
    OBVIOUS
  <2>3. CASE x <= n
    BY <2>1, <2>2, <2>3
  <2>4. CASE n <= x
    <3>1. \A m \in X : m <= x
      BY <2>1, <2>2, <2>4
    <3> QED  BY <3>1
  <2> QED  BY <2>2, <2>3, <2>4
<1> QED  BY <1>7, <1>8

(* The members are those of the highest count.                              *)
LEMMA HighestFacts ==
  /\ Highest \in Counts /\ Highest \in Nat \ {0}
  /\ \A n \in Counts : n \in Nat /\ Ordinals(n) \subseteq Ordinals(Highest)
<1>1. \E n \in Counts : \A m \in Counts : m <= n
  BY CountsAssumption, GreatestExists
<1>2. Highest \in Counts /\ \A m \in Counts : m <= Highest
  BY <1>1 DEF Highest
<1>3. \A n \in Counts : n \in Nat \ {0}
  BY CountsAssumption
<1>4. ASSUME NEW n \in Counts PROVE Ordinals(n) \subseteq Ordinals(Highest)
  <2>1. n \in Nat /\ Highest \in Nat /\ n <= Highest
    BY <1>2, <1>3
  <2> QED  BY <2>1 DEF Ordinals
<1> QED  BY <1>2, <1>3, <1>4

(* What humans touch has a name.                                            *)
LEMMA TouchedNamed == Touched \subseteq Names
<1>1. Highest - 1 \in Ordinals(Highest)
  BY HighestFacts DEF Ordinals
<1> QED  BY <1>1 DEF Touched, Names, Members

(* An applied object is this cluster's own, of the same UID if there was    *)
(* one.                                                                     *)
LEMMA AppliedFacts ==
  ASSUME NEW s, NEW n, NEW o \in Object
  PROVE  /\ Applied(s, n, o) \in Object
         /\ Applied(s, n, o).controlled
         /\ Applied(s, n, o).uid >= o.uid
<1>1. o.uid \in Nat /\ o.uid + 1 \in Nat /\ o.host \in Nat \cup {NoAddress}
  BY DEF Object
<1>2. Rendered(s, n).exposed \in BOOLEAN
  BY DEF Rendered
<1>3. Rendered(s, n).dns \in BOOLEAN
  BY DEF Rendered
<1> QED  BY <1>1, <1>2, <1>3 DEF Applied, Object

(* A deleted object is not there.                                           *)
LEMMA DeletedFacts ==
  ASSUME NEW o \in Object
  PROVE  Deleted(o) \in Object /\ ~ Deleted(o).present /\ Deleted(o).uid = o.uid
  BY DEF Deleted, Object

-----------------------------------------------------------------------------
(* The invariant *)

(* What may become of the objects in one step: each stays as it was, gets   *)
(* an address, is deleted, applied, or replaced under another UID.          *)
LEMMA ObjectsKeep ==
  ASSUME ExposureInv, UNCHANGED cached, objects' \in [Names -> Object],
         \A n \in Names : /\ objects'[n].uid >= objects[n].uid
                          /\ \/ objects'[n].uid > objects[n].uid
                             \/ ~ objects'[n].present
                             \/ objects'[n].controlled
                             \/ /\ objects'[n].present = objects[n].present
                                /\ objects'[n].controlled = objects[n].controlled
  PROVE  NothingAhead' /\ StillOwn'
<1>1. \A n \in Names : /\ objects[n].uid \in Nat /\ objects'[n].uid \in Nat /\ cached[n].uid \in Nat
                       /\ cached[n].uid <= objects[n].uid
  BY DEF ExposureInv, TypeInv, NothingAhead, Object
<1>2. NothingAhead'
  BY <1>1 DEF NothingAhead
<1>3. ASSUME NEW n \in Names, cached[n].controlled, objects'[n].uid = cached[n].uid, objects'[n].present
      PROVE  objects'[n].controlled
  <2>1. objects'[n].uid = objects[n].uid
    BY <1>1, <1>3
  <2>2. ~ (objects'[n].uid > objects[n].uid)
    BY <1>1, <2>1
  <2> QED  BY <1>3, <2>1, <2>2 DEF ExposureInv, StillOwn
<1>4. StillOwn'
  BY <1>3 DEF StillOwn
<1> QED  BY <1>2, <1>4

(* Nothing is there at first.                                               *)
LEMMA ExposureInit == Init => ExposureInv
<1> SUFFICES ASSUME Init PROVE ExposureInv
  OBVIOUS
<1>1. spec \in Specs /\ running \in Counts /\ pc = "idle"
  BY HighestFacts DEF Init, Specs
<1>2. pass.spec.count \in Counts
  BY HighestFacts DEF Init, NoPass
<1>3. objects \in [Names -> Object] /\ cached = objects
  BY DEF Init, Object
<1>4. NothingAhead /\ StillOwn
  BY <1>3 DEF NothingAhead, StillOwn, Object
<1> QED  BY <1>1, <1>2, <1>3, <1>4 DEF ExposureInv, TypeInv, PrunesForRunning

(* Every step keeps the invariant.                                          *)
LEMMA ExposureStep == ExposureInv /\ [Next]_vars => ExposureInv'
<1> SUFFICES ASSUME ExposureInv, [Next]_vars PROVE ExposureInv'
  OBVIOUS
<1>t. /\ spec \in Specs /\ running \in Counts /\ objects \in [Names -> Object] /\ cached \in [Names -> Object]
      /\ \A n \in Names : objects[n] \in Object /\ objects[n].uid \in Nat
      /\ pc # "idle" => pass.applied \in Counts
      /\ pass.spec.count \in Counts
  BY DEF ExposureInv, TypeInv, Object
<1>p. NoPass.spec.count \in Counts
  BY HighestFacts DEF NoPass
<1>1. ASSUME NEW n \in Touched, MoveAddress(n) \/ HumanDeletes(n) \/ HumanReplaces(n) PROVE ExposureInv'
  <2>1. n \in Names /\ UNCHANGED <<spec, running, cached, pc, pass>>
    BY <1>1, TouchedNamed DEF MoveAddress, HumanDeletes, HumanReplaces
  <2>2. PICK new \in Object :
          /\ objects' = [objects EXCEPT ![n] = new]
          /\ new.uid >= objects[n].uid
          /\ \/ new.uid > objects[n].uid
             \/ ~ new.present
             \/ new.present = objects[n].present /\ new.controlled = objects[n].controlled
    <3>1. CASE MoveAddress(n)
      <4> DEFINE new == [objects[n] EXCEPT !.host = @ + 1]
      <4>1. objects' = [objects EXCEPT ![n] = new] /\ objects[n].host # NoAddress
        BY <1>t, <2>1, <3>1 DEF MoveAddress
      <4>2. new \in Object /\ new.uid = objects[n].uid
            /\ new.present = objects[n].present /\ new.controlled = objects[n].controlled
        BY <1>t, <2>1, <4>1 DEF Object
      <4>3. new.uid >= objects[n].uid
        BY <1>t, <2>1, <4>2
      <4> HIDE DEF new
      <4> QED  BY <4>1, <4>2, <4>3
    <3>2. CASE HumanDeletes(n)
      <4>1. objects' = [objects EXCEPT ![n] = Deleted(objects[n])]
        BY <3>2 DEF HumanDeletes
      <4>2. Deleted(objects[n]).uid >= objects[n].uid
        BY <1>t, <2>1, DeletedFacts
      <4> QED  BY <1>t, <2>1, <4>1, <4>2, DeletedFacts
    <3>3. CASE HumanReplaces(n)
      <4> DEFINE o == objects[n]
                 new == [o EXCEPT !.uid = o.uid + 1, !.controlled = FALSE, !.host = NoAddress]
      <4>0. o \in Object /\ o.uid + 1 \in Nat
        BY <1>t, <2>1
      <4>1. objects' = [objects EXCEPT ![n] = new]
        BY <1>t, <2>1, <3>3 DEF HumanReplaces
      <4>2. new \in Object /\ new.uid = objects[n].uid + 1
        <5> HIDE DEF o
        <5>1. new \in Object /\ new.uid = o.uid + 1
          BY <4>0 DEF Object
        <5> QED  BY <5>1 DEF o
      <4>3. new.uid > objects[n].uid /\ new.uid >= objects[n].uid
        BY <1>t, <2>1, <4>2
      <4> HIDE DEF new
      <4> QED  BY <4>1, <4>2, <4>3
    <3> QED  BY <1>1, <3>1, <3>2, <3>3
  <2>3. /\ objects' \in [Names -> Object]
        /\ \A q \in Names : objects'[q] = IF q = n THEN new ELSE objects[q]
    BY <1>t, <2>2
  <2>4. NothingAhead' /\ StillOwn'
    <3>1. \A q \in Names : objects[q].uid >= objects[q].uid
      BY <1>t
    <3> QED  BY <2>1, <2>2, <2>3, <3>1, ObjectsKeep
  <2> QED  BY <1>t, <2>1, <2>3, <2>4 DEF ExposureInv, TypeInv, PrunesForRunning
<1>2. ASSUME NEW kind, AssignAddresses(kind) PROVE ExposureInv'
  <2>1. UNCHANGED <<spec, running, cached, pc, pass>>
    BY <1>2 DEF AssignAddresses
  <2>2. \A n \in Names : objects'[n] \in {objects[n], [objects[n] EXCEPT !.host = Assigned]}
    BY <1>2 DEF AssignAddresses
  <2>3. ASSUME NEW n \in Names
        PROVE  /\ objects'[n] \in Object /\ objects'[n].uid >= objects[n].uid
               /\ objects'[n].present = objects[n].present /\ objects'[n].controlled = objects[n].controlled
    <3>1. CASE objects'[n] = objects[n]
      BY <1>t, <3>1
    <3>2. CASE objects'[n] = [objects[n] EXCEPT !.host = Assigned]
      BY <1>t, <3>2 DEF Object, Assigned
    <3> QED  BY <2>2, <3>1, <3>2
  <2>4. objects' \in [Names -> Object]
    BY <1>2, <2>3 DEF AssignAddresses
  <2>5. NothingAhead' /\ StillOwn'
    BY <2>1, <2>3, <2>4, ObjectsKeep
  <2> QED  BY <1>t, <2>1, <2>4, <2>5 DEF ExposureInv, TypeInv, PrunesForRunning
<1>3. ASSUME NEW kind, Sync(kind) PROVE ExposureInv'
  <2>1. /\ UNCHANGED <<spec, running, objects, pc, pass>> /\ cached' \in [Names -> Object]
        /\ \A n \in Names : cached'[n] \in {objects[n], cached[n]}
    BY <1>3, <1>t DEF Sync
  <2>2. \A n \in Names : objects[n].uid <= objects[n].uid
    BY <1>t
  <2>3. NothingAhead'
    BY <2>1, <2>2 DEF ExposureInv, NothingAhead
  <2>4. StillOwn'
    BY <2>1 DEF ExposureInv, StillOwn
  <2> QED  BY <1>t, <2>1, <2>3, <2>4 DEF ExposureInv, TypeInv, PrunesForRunning
<1>4. ASSUME NEW names, ApplyAll(names), UNCHANGED <<spec, cached>>,
             running' = pass.applied, pc = "apply",
             \/ pc' = "prune" /\ UNCHANGED pass
             \/ pc' = "idle" /\ pass' = NoPass
      PROVE  ExposureInv'
  <2>1. \A n \in Names : objects'[n] \in {objects[n], Applied(pass.spec, n, objects[n])}
    BY <1>4 DEF ApplyAll
  <2>2. ASSUME NEW n \in Names
        PROVE  /\ objects'[n] \in Object /\ objects'[n].uid >= objects[n].uid
               /\ \/ objects'[n].controlled
                  \/ /\ objects'[n].present = objects[n].present
                     /\ objects'[n].controlled = objects[n].controlled
    <3>1. CASE objects'[n] = objects[n]
      BY <1>t, <3>1
    <3>2. CASE objects'[n] = Applied(pass.spec, n, objects[n])
      BY <1>t, <3>2, AppliedFacts
    <3> QED  BY <2>1, <3>1, <3>2
  <2>3. objects' \in [Names -> Object]
    BY <1>4, <2>2 DEF ApplyAll
  <2>4. NothingAhead' /\ StillOwn'
    BY <1>4, <2>2, <2>3, ObjectsKeep
  <2>5. TypeInv'
    BY <1>t, <1>p, <1>4, <2>3 DEF TypeInv
  <2> QED  BY <1>4, <2>4, <2>5 DEF ExposureInv, PrunesForRunning
<1>5. CASE ApplyDesired
  BY <1>4, <1>5 DEF ApplyDesired
<1>6. CASE FailApply
  BY <1>4, <1>6 DEF FailApply, Finish
<1>7. CASE Prune
  <2>1. /\ UNCHANGED <<spec, running, cached, pass>> /\ pc = "prune" /\ pc' = "observe"
        /\ \A n \in Names : objects'[n] \in {objects[n], Deleted(objects[n])}
    BY <1>7 DEF Prune
  <2>2. ASSUME NEW n \in Names
        PROVE  /\ objects'[n] \in Object /\ objects'[n].uid >= objects[n].uid
               /\ \/ ~ objects'[n].present
                  \/ /\ objects'[n].present = objects[n].present
                     /\ objects'[n].controlled = objects[n].controlled
    <3>1. CASE objects'[n] = objects[n]
      BY <1>t, <3>1
    <3>2. CASE objects'[n] = Deleted(objects[n])
      BY <1>t, <3>2, DeletedFacts
    <3> QED  BY <2>1, <3>1, <3>2
  <2>3. objects' \in [Names -> Object]
    BY <1>7, <2>2 DEF Prune
  <2>4. NothingAhead' /\ StillOwn'
    BY <2>1, <2>2, <2>3, ObjectsKeep
  <2> QED  BY <1>t, <2>1, <2>3, <2>4 DEF ExposureInv, TypeInv, PrunesForRunning
<1>8. ASSUME UNCHANGED <<objects, cached>>, TypeInv', pc' # "prune" PROVE ExposureInv'
  BY <1>8 DEF ExposureInv, NothingAhead, StillOwn, PrunesForRunning
<1>9. CASE BeginPass
  <2>1. /\ UNCHANGED <<spec, running, objects, cached>> /\ pc' = "apply"
        /\ pass' = [NoPass EXCEPT !.spec = spec, !.applied = appliedCount]
    BY <1>9 DEF BeginPass
  <2>2. pass'.spec = spec /\ pass'.applied = appliedCount
    BY <2>1 DEF NoPass
  <2>3. appliedCount \in Counts /\ spec.count \in Counts
    BY <1>t DEF appliedCount, Specs
  <2> QED  BY <1>8, <1>t, <2>1, <2>2, <2>3 DEF TypeInv
<1>10. CASE Observe
  <2>1. /\ UNCHANGED <<spec, running, objects, cached>> /\ pc = "observe" /\ pc' = "announce"
        /\ \E a : pass' = [pass EXCEPT !.addresses = a]
    BY <1>10 DEF Observe
  <2>2. pass'.spec = pass.spec /\ pass'.applied = pass.applied
    BY <2>1
  <2> QED  BY <1>8, <1>t, <2>1, <2>2 DEF TypeInv
<1>11. CASE Announce \/ EndEarly
  <2>1. /\ UNCHANGED <<spec, objects, cached>> /\ pc' = "idle" /\ pass' = NoPass
        /\ running' \in {running, pass.spec.count}
    BY <1>11 DEF Announce, EndEarly, Finish
  <2> QED  BY <1>8, <1>t, <1>p, <2>1 DEF TypeInv
<1>12. CASE Edit
  <2>1. UNCHANGED <<running, objects, cached, pc, pass>>
    BY <1>12 DEF Edit
  <2>2. spec' \in Specs
    <3>1. CASE \E a \in Accesses \ {spec.access} : spec' = [spec EXCEPT !.access = a]
      BY <1>t, <3>1 DEF Specs
    <3>2. CASE \E a \in Annotated : spec' = [spec EXCEPT !.dns = Toggled(@, a)]
      BY <1>t, <3>2 DEF Specs, Toggled
    <3>3. CASE spec' = [spec EXCEPT !.monitoring = ~ @]
      BY <1>t, <3>3 DEF Specs
    <3>4. CASE \E n \in Counts \ {spec.count} : spec' = [spec EXCEPT !.count = n]
      BY <1>t, <3>4 DEF Specs
    <3> QED  BY <1>12, <3>1, <3>2, <3>3, <3>4 DEF Edit
  <2> QED  BY <1>t, <2>1, <2>2 DEF ExposureInv, TypeInv, NothingAhead, StillOwn, PrunesForRunning
<1>13. CASE UNCHANGED vars
  BY <1>13 DEF vars, ExposureInv, TypeInv, NothingAhead, StillOwn, PrunesForRunning
<1> QED
  BY <1>1, <1>2, <1>3, <1>5, <1>6, <1>7, <1>9, <1>10, <1>11, <1>12, <1>13
     DEF Next, PassStep, Disruption

-----------------------------------------------------------------------------
(* The action properties *)

(* Only the prune goes from "prune" to "observe".                           *)
LEMMA OnlyPrune ==
  ASSUME [Next]_vars, pc = "prune", pc' = "observe" PROVE Prune
  BY DEF Next, PassStep, Disruption, vars, BeginPass, ApplyDesired, Observe, Announce, Finish, Edit,
         FailApply, EndEarly, MoveAddress, HumanDeletes, HumanReplaces, AssignAddresses, Sync

(* What a human put in place of one of the cluster's objects survives every *)
(* prune (pruneKind deletes by the UID it saw).                             *)
THEOREM PruneSparesForeign == Spec => ForeignSurvives
<1>1. ExposureInv /\ [Next]_vars =>
        [ \A n \in Names :
            objects[n].present /\ ~ objects[n].controlled /\ pc = "prune" /\ pc' = "observe"
              => objects'[n] = objects[n] ]_vars
  <2> SUFFICES ASSUME ExposureInv, [Next]_vars, NEW n \in Names,
                      objects[n].present, ~ objects[n].controlled, pc = "prune", pc' = "observe"
               PROVE  objects'[n] = objects[n]
    OBVIOUS
  <2>1. Prune
    BY OnlyPrune
  <2>2. ~ Prunes(n, Desired)
    BY DEF Prunes, ExposureInv, StillOwn
  <2> QED  BY <2>1, <2>2 DEF Prune
<1> QED  BY <1>1, ExposureInit, ExposureStep, PTL DEF Spec, ForeignSurvives

(* What the pass exposes is what it applied, so the prune spares the        *)
(* Service, and in Gateway mode the route, of every pod that runs.          *)
THEOREM PruneSparesRunning == Spec => RunningStayReachable
<1>1. ExposureInv /\ [Next]_vars =>
        [ pc = "prune" /\ pc' = "observe" /\ pass.spec.access # "none" =>
            \A m \in {Shared} \cup Ordinals(running) :
              /\ objects'[Service(m)] = objects[Service(m)]
              /\ pass.spec.access = "Gateway" /\ served => objects'[Route(m)] = objects[Route(m)] ]_vars
  <2> SUFFICES ASSUME ExposureInv, [Next]_vars, pc = "prune", pc' = "observe", pass.spec.access # "none",
                      NEW m \in {Shared} \cup Ordinals(running)
               PROVE  /\ objects'[Service(m)] = objects[Service(m)]
                      /\ pass.spec.access = "Gateway" /\ served => objects'[Route(m)] = objects[Route(m)]
    OBVIOUS
  <2>1. Prune /\ running = pass.applied
    BY OnlyPrune DEF ExposureInv, PrunesForRunning
  <2>2. Service(m) \in Names /\ Route(m) \in Names
    <3>1. m \in Members
      BY HighestFacts DEF Members, ExposureInv, TypeInv
    <3> QED  BY <3>1 DEF Names
  <2>3. ASSUME NEW n \in Names, n \in Desired PROVE objects'[n] = objects[n]
    BY <2>1, <2>3 DEF Prune, Prunes
  <2>4. Service(m) \in Desired /\ (pass.spec.access = "Gateway" /\ served => Route(m) \in Desired)
    BY <2>1 DEF Desired, desiredExternal
  <2> QED  BY <2>2, <2>3, <2>4
<1> QED  BY <1>1, ExposureInit, ExposureStep, PTL DEF Spec, RunningStayReachable
=============================================================================
