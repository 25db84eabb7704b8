------------------------------- MODULE Exposure -----------------------------
(***************************************************************************)
(* The objects around the workloads: the external Services, the Gateway    *)
(* and its TCPRoutes, and the monitoring objects.  A pass applies those    *)
(* the spec asks for, prunes those it no longer describes, reads the       *)
(* addresses the others got and announces the members at them.             *)
(*                                                                         *)
(* Abstractions: the monitoring objects are one; an address is the name    *)
(* external-dns publishes or the number of the one the provider assigned   *)
(* last; an object's labels are right whenever the operator or a human     *)
(* copying one of its objects made it; the applied count is the larger of  *)
(* the declared and the running one (module Scaling has the counts), and   *)
(* commands to Memgraph are the announcements (module Registration has     *)
(* them).  What is read is a cache: each object as it was when its last    *)
(* watch event arrived.                                                    *)
(***************************************************************************)
EXTENDS Integers, FiniteSets

CONSTANTS
  Counts,     \* the data instance counts a spec may declare
  Accesses,   \* the exposures it may ask for
  NoAddress,  \* no address, and no object
  MaxEdits,   \* bound on edits of the spec
  MaxFaults   \* bound on failed passes, moved addresses, and objects a human
              \* deletes or replaces

ASSUME CountsAssumption    == Counts \subseteq Nat \ {0} /\ Counts # {} /\ IsFiniteSet(Counts)
ASSUME AccessesAssumption  == Accesses \subseteq {"none", "LoadBalancer", "Gateway"}
ASSUME NoAddressAssumption == NoAddress \notin Nat
ASSUME BoundsAssumption    == {MaxEdits, MaxFaults} \subseteq Nat

VARIABLES
  spec,       \* the exposure, its hostname annotations, monitoring, and the data count
  served,     \* whether the cluster serves the Gateway API
  running,    \* the data pods the StatefulSet runs
  objects,    \* the objects the API server holds, by kind and name
  cached,     \* the objects the cache shows
  announced,  \* the address each member is registered with
  pc,         \* where the pass is
  pass,       \* what the pass read: the spec, the applied count, the addresses
  budget      \* what is left of every bound

vars == <<spec, served, running, objects, cached, announced, pc, pass, budget>>

-----------------------------------------------------------------------------
(* Names and objects *)

Ordinals(n) == 0 .. n - 1
Highest     == CHOOSE n \in Counts : \A m \in Counts : m <= n

(* The coordinators share one way in; each data instance has its own. *)
Shared  == -1
Members == {Shared} \cup Ordinals(Highest)

Service(m) == <<"Service", m>>
Route(m)   == <<"TCPRoute", m>>
Gateway    == <<"Gateway", Shared>>
Monitor    == <<"ServiceMonitor", Shared>>

Names == {Service(m) : m \in Members} \cup {Route(m) : m \in Members} \cup {Gateway, Monitor}

Kinds == { n[1] : n \in Names }

(* An object: its UID, or that of the last one of its name; whether there   *)
(* is one, whether this cluster controls it, whether it gets an address of  *)
(* its own, whether external-dns publishes a name for it, and the address   *)
(* the provider assigned.                                                   *)
Object == [uid : Nat, present : BOOLEAN, controlled : BOOLEAN, exposed : BOOLEAN,
           dns : BOOLEAN, host : Nat \cup {NoAddress}]

Deleted(o) == [uid |-> o.uid, present |-> FALSE, controlled |-> FALSE,
               exposed |-> FALSE, dns |-> FALSE, host |-> NoAddress]

(* The address of the hostname external-dns publishes for an object: each   *)
(* member's own, or the one of the whole cluster on the Gateway; the        *)
(* provider's follow.                                                       *)
Published(n) == IF n = Gateway THEN 1 ELSE 0

Assigned == 2

Spend(kind) == budget[kind] > 0 /\ budget' = [budget EXCEPT ![kind] = @ - 1]

-----------------------------------------------------------------------------
(* The provider, the watches and the humans *)

(* A provider gives the objects of its kind the addresses they are owed. *)
AssignAddresses(kind) ==
  /\ objects' = [n \in Names |->
       IF n[1] = kind /\ objects[n].exposed /\ objects[n].host = NoAddress
       THEN [objects[n] EXCEPT !.host = Assigned] ELSE objects[n]]
  /\ objects' # objects
  /\ UNCHANGED <<spec, served, running, cached, announced, pc, pass, budget>>

MoveAddress(n) ==
  /\ objects[n].exposed /\ objects[n].host # NoAddress
  /\ Spend("faults")
  /\ objects' = [objects EXCEPT ![n].host = @ + 1]
  /\ UNCHANGED <<spec, served, running, cached, announced, pc, pass>>

(* The watch on one kind of object catches up. *)
Sync(kind) ==
  /\ cached' = [n \in Names |-> IF n[1] = kind THEN objects[n] ELSE cached[n]]
  /\ cached' # cached
  /\ UNCHANGED <<spec, served, running, objects, announced, pc, pass, budget>>

(* A human deletes an object, or puts one of their own in its place, made   *)
(* from a copy and so with all of its labels.                               *)
HumanDeletes(n) ==
  /\ objects[n].present
  /\ Spend("faults")
  /\ objects' = [objects EXCEPT ![n] = Deleted(@)]
  /\ UNCHANGED <<spec, served, running, cached, announced, pc, pass>>

HumanReplaces(n) ==
  /\ objects[n].present
  /\ Spend("faults")
  /\ objects' = [objects EXCEPT ![n].uid = @ + 1, ![n].controlled = FALSE,
                                ![n].host = NoAddress]
  /\ UNCHANGED <<spec, served, running, cached, announced, pc, pass>>

(* The objects humans and moved addresses are bounded to: one of each kind  *)
(* a pass treats differently, that of the highest ordinal where there is    *)
(* one per member.                                                          *)
Touched == {Service(Highest - 1), Route(Highest - 1), Gateway, Monitor}

(* Whose annotations may carry a hostname: the roles', the Gateway's. *)
Annotated == {"members", "gateway"}

Specs == [access : Accesses, dns : SUBSET Annotated, monitoring : BOOLEAN, count : Counts]

(* An annotation is put on or taken off. *)
Toggled(set, a) == IF a \in set THEN set \ {a} ELSE set \cup {a}

(* An edit changes one field. *)
Edit ==
  /\ Spend("edits")
  /\ \/ \E a \in Accesses \ {spec.access} : spec' = [spec EXCEPT !.access = a]
     \/ \E a \in Annotated :
          /\ spec.access \in IF a = "gateway" THEN {"Gateway"} ELSE {"LoadBalancer", "Gateway"}
          /\ spec' = [spec EXCEPT !.dns = Toggled(@, a)]
     \/ spec' = [spec EXCEPT !.monitoring = ~ @]
     \/ \E n \in Counts \ {spec.count} : spec' = [spec EXCEPT !.count = n]
  /\ UNCHANGED <<served, running, objects, cached, announced, pc, pass>>

-----------------------------------------------------------------------------
(* What the spec asks for *)

(* Mutant: the objects follow the declared count. *)
ExternalOfDeclared(s, applied) ==
  IF s.access = "none" THEN {}
  ELSE { Service(m) : m \in {Shared} \cup Ordinals(s.count) }
       \cup IF s.access = "Gateway" /\ served
            THEN {Gateway} \cup { Route(m) : m \in {Shared} \cup Ordinals(s.count) }
            ELSE {}

(* desiredExternal: a Service for the coordinators and for each data pod    *)
(* the operator runs; in Gateway mode the Gateway and a route to each, on a *)
(* cluster that serves them.                                                *)
desiredExternal(s, applied) ==
  LET exposed == {Shared} \cup Ordinals(applied)
  IN  IF s.access = "none" THEN {}
      ELSE { Service(m) : m \in exposed }
           \cup IF s.access = "Gateway" /\ served
                THEN {Gateway} \cup { Route(m) : m \in exposed } ELSE {}

desiredMonitoring(s) == IF s.monitoring THEN {Monitor} ELSE {}

(* A Service is a LoadBalancer unless a Gateway is the way in, which then   *)
(* has the address while the routes carry the roles' hostnames and the      *)
(* Gateway its own.                                                         *)
Rendered(s, n) ==
  [ exposed |-> n = Gateway \/ (n[1] = "Service" /\ s.access = "LoadBalancer"),
    dns     |-> \/ "members" \in s.dns /\ n[1] = "TCPRoute"
                \/ "members" \in s.dns /\ n[1] = "Service" /\ s.access = "LoadBalancer"
                \/ "gateway" \in s.dns /\ n = Gateway ]

(* The server-side apply of an object: it is created, or updated and taken  *)
(* into this cluster's ownership; one that is no longer exposed loses its   *)
(* address.                                                                 *)
Applied(s, n, o) ==
  [ uid        |-> IF o.present THEN o.uid ELSE o.uid + 1,
    present    |-> TRUE,
    controlled |-> TRUE,
    exposed    |-> Rendered(s, n).exposed,
    dns        |-> Rendered(s, n).dns,
    host       |-> IF Rendered(s, n).exposed THEN o.host ELSE NoAddress ]

-----------------------------------------------------------------------------
(* The pass *)

NoAddresses == [m \in Members |-> NoAddress]
NoPass == [spec |-> [access |-> "none", dns |-> {}, monitoring |-> FALSE, count |-> Highest],
           applied |-> 0, addresses |-> NoAddresses]

Finish == pc' = "idle" /\ pass' = NoPass

(* replicaCounts: the larger of the declared count and the running one. *)
appliedCount == IF spec.count >= running THEN spec.count ELSE running

BeginPass ==
  /\ pc = "idle"
  /\ pc' = "apply"
  /\ pass' = [NoPass EXCEPT !.spec = spec, !.applied = appliedCount]
  /\ UNCHANGED <<spec, served, running, objects, cached, announced, budget>>

Desired == desiredExternal(pass.spec, pass.applied) \cup desiredMonitoring(pass.spec)

ApplyAll(names) ==
  objects' = [n \in Names |-> IF n \in names THEN Applied(pass.spec, n, objects[n]) ELSE objects[n]]

ApplyDesired ==
  /\ pc = "apply"
  /\ running' = pass.applied
  /\ ApplyAll(Desired)
  /\ pc' = "prune"
  /\ UNCHANGED <<spec, served, cached, announced, pass, budget>>

(* An apply fails after some of the objects were applied. *)
FailApply ==
  /\ pc = "apply"
  /\ Spend("faults")
  /\ running' = pass.applied
  /\ \E names \in {{}, desiredExternal(pass.spec, pass.applied)} : ApplyAll(names)
  /\ Finish
  /\ UNCHANGED <<spec, served, cached, announced>>

(* Mutant: the delete is not conditioned on the UID. *)
PrunesByName(n, keep) ==
  n \notin keep /\ cached[n].controlled

(* pruneKind: an object the cache shows, that nothing asks for and this     *)
(* cluster controls, is deleted if it is still the one the cache shows.     *)
Prunes(n, keep) ==
  /\ n \notin keep
  /\ cached[n].controlled
  /\ objects[n].uid = cached[n].uid

(* Mutant: the monitoring objects are left out. *)
PrunedServicesOnly == { n \in Names : n[1] = "Service" }

(* The kinds pruned: those of the Gateway API only where they are served. *)
PrunedKinds == { n \in Names : n[1] \in {"Service", "ServiceMonitor"} \/ served }

Prune ==
  /\ pc = "prune"
  /\ objects' = [n \in Names |->
       IF n \in PrunedKinds /\ Prunes(n, Desired) THEN Deleted(objects[n]) ELSE objects[n]]
  /\ pc' = "observe"
  /\ UNCHANGED <<spec, served, running, cached, announced, pass, budget>>

(* ExternalBoltAddress: the published hostname, or else the provider's. *)
ExternalBoltAddress(n) == IF cached[n].dns THEN Published(n) ELSE cached[n].host

(* GatewayBoltAddress: the hostname of the member's route, or else that of  *)
(* the Gateway, or else the Gateway's address; none before there is one.    *)
GatewayBoltAddress(m) ==
  IF ~ served \/ ~ cached[Gateway].present THEN NoAddress
  ELSE IF cached[Route(m)].dns THEN Published(Route(m))
  ELSE ExternalBoltAddress(Gateway)

(* observeExternalAccess: the address of one member, NoAddress while the    *)
(* object in front of it is owed one.                                       *)
observeAddress(s, m) ==
  IF s.access = "none" THEN NoAddress
  ELSE IF s.access = "Gateway" THEN GatewayBoltAddress(m)
  ELSE ExternalBoltAddress(Service(m))

Observe ==
  /\ pc = "observe"
  /\ pass' = [pass EXCEPT !.addresses = [m \in Members |-> observeAddress(pass.spec, m)]]
  /\ pc' = "announce"
  /\ UNCHANGED <<spec, served, running, objects, cached, announced, budget>>

(* Registration announces the coordinators and the declared instances at    *)
(* what was observed, at their pod address where that is nothing, and sheds *)
(* the pods of the retired.                                                 *)
Announce ==
  /\ pc = "announce"
  /\ announced' = [m \in Members |->
       IF m < pass.spec.count THEN pass.addresses[m] ELSE announced[m]]
  /\ running' = pass.spec.count
  /\ Finish
  /\ UNCHANGED <<spec, served, objects, cached, budget>>

(* A pass ends before registration: a call failed or a gate held it back. *)
EndEarly ==
  /\ pc \in {"prune", "observe", "announce"}
  /\ Spend("faults")
  /\ Finish
  /\ UNCHANGED <<spec, served, running, objects, cached, announced>>

-----------------------------------------------------------------------------
Init ==
  /\ spec \in { s \in Specs : s.monitoring /\ s.count = Highest
                   /\ s.dns = IF s.access = "Gateway" THEN {"gateway"} ELSE {} }
  /\ served \in BOOLEAN
  /\ served \/ spec.access = "none"
  /\ running = spec.count
  /\ objects = [n \in Names |->
                 [uid |-> 0, present |-> FALSE, controlled |-> FALSE,
                  exposed |-> FALSE, dns |-> FALSE, host |-> NoAddress]]
  /\ cached = objects
  /\ announced = NoAddresses
  /\ pc = "idle" /\ pass = NoPass
  /\ budget = [edits |-> MaxEdits, faults |-> MaxFaults]

PassStep == BeginPass \/ ApplyDesired \/ Prune \/ Observe \/ Announce

Disruption ==
  \/ Edit \/ FailApply \/ EndEarly
  \/ \E n \in Touched : MoveAddress(n) \/ HumanDeletes(n) \/ HumanReplaces(n)

Next ==
  \/ PassStep
  \/ \E kind \in Kinds : AssignAddresses(kind) \/ Sync(kind)
  \/ Disruption

(* Passes are requeued for ever, watches and providers make progress; edits,*)
(* faults and humans are bounded.                                           *)
Spec ==
  /\ Init /\ [][Next]_vars
  /\ WF_vars(PassStep)
  /\ \A kind \in Kinds : WF_vars(AssignAddresses(kind)) /\ WF_vars(Sync(kind))

-----------------------------------------------------------------------------
(* Properties *)

(* "Only objects this cluster controls are considered, and each delete is   *)
(* conditioned on the UID observed, so an object recreated in between is    *)
(* left for the next pass": a pass never deletes an object a human put in   *)
(* the place of one of its own, however late the cache shows it.            *)
ForeignSurvives ==
  [][ \A n \in Names :
        objects[n].present /\ ~ objects[n].controlled /\ pc = "prune" /\ pc' = "observe"
          => objects'[n] = objects[n] ]_vars

(* "a retiring instance keeps serving clients until its pod is shed": while *)
(* the cluster is exposed, a pass never takes away the Service of a data    *)
(* pod that still runs, nor in Gateway mode its route.                      *)
RunningStayReachable ==
  [][ pc = "prune" /\ pc' = "observe" /\ pass.spec.access # "none" =>
        \A m \in {Shared} \cup Ordinals(running) :
          /\ objects'[Service(m)] = objects[Service(m)]
          /\ pass.spec.access = "Gateway" /\ served => objects'[Route(m)] = objects[Route(m)] ]_vars

(* The address clients should be given for member m. *)
AddressOf(m) ==
  IF spec.access = "none" \/ (spec.access = "Gateway" /\ ~ served) THEN NoAddress
  ELSE IF "members" \in spec.dns THEN Published(Service(m))
  ELSE IF spec.access = "LoadBalancer" THEN objects[Service(m)].host
  ELSE IF "gateway" \in spec.dns THEN Published(Gateway)
  ELSE objects[Gateway].host

(* Once the edits stop, the cluster controls exactly the objects the spec   *)
(* describes, and every declared member is announced at the address the     *)
(* object in front of it really has: an exposure that came, went, moved or  *)
(* was tampered with leaves neither an object nor an address behind.        *)
ExposureSettles ==
  <>[]( /\ running = spec.count
        /\ { n \in Names : objects[n].controlled } =
             desiredExternal(spec, spec.count) \cup desiredMonitoring(spec)
        /\ \A m \in {Shared} \cup Ordinals(spec.count) : announced[m] = AddressOf(m) )
=============================================================================
