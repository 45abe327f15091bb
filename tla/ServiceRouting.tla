---------------------------- MODULE ServiceRouting ----------------------------
(***************************************************************************)
(* How requests find their way through the children of one                 *)
(* BentoDeployment: the Deployments of the API server and of the runners,  *)
(* each with a twin for "stealing traffic" debugging, the three Services   *)
(* in front of each, the addresses that an API server's pod is started     *)
(* with, and the Envoy proxy beside it that sends debug requests to the    *)
(* debug twin.  The children are applied one API call at a time; the       *)
(* Deployment controller replaces pods, the user edits the object, calls   *)
(* fail, and the cleaner of abandoned runner Services runs beside it all.  *)
(*                                                                         *)
(* Module BentoDeploymentController says which events start a pass and     *)
(* what a pass may read; here every Bento exists and caches are current.   *)
(***************************************************************************)
EXTENDS Naturals, Sequences

CONSTANTS
    Bentos,
    Runners,        \* names of runners
    RunnersOf,      \* per Bento, its runners in order
    Api,            \* the API server, beside the runners
    AnyBento,       \* in the name of a Service that does not depend on the Bento
    Absent,
    Debuggable,     \* the targets whose annotations the user edits
    RunnerLabel,    \* whether runner Services carry the label the cleaner selects:
                    \* only if the user gives it to the runners
    MaxEdits,       \* bound: edits of the spec
    MaxFaults       \* bound: API calls that fail

Targets == Runners \cup {Api}

ASSUME ConstantsAssumption ==
    /\ RunnersOf \in [Bentos -> Seq(Runners)]
    /\ \A b \in Bentos : \A i, j \in 1 .. Len(RunnersOf[b]) :
           RunnersOf[b][i] = RunnersOf[b][j] => i = j
    /\ Bentos # {} /\ Api \notin Runners /\ AnyBento \notin Bentos
    /\ Debuggable \subseteq Targets
    /\ RunnerLabel \in BOOLEAN
    /\ MaxEdits \in Nat /\ MaxFaults \in Nat

\* The Bento, the targets that are annotated for stealing-traffic debugging, and
\* the runners whose debug pods are to receive production traffic.
Specs == [bento : Bentos, debug : SUBSET Debuggable, receive : SUBSET (Debuggable \ {Api})]

\* What a pass goes through: every runner of the Bento, then the API server.
OrderApiFirst(b) == <<Api>> \o RunnersOf[b]
Order(b) == Append(RunnersOf[b], Api)

RunnerSet(b) == {RunnersOf[b][i] : i \in 1 .. Len(RunnersOf[b])}

ContainsDebug(s) == s.debug # {}

\* Whether a target has a debug twin: the API server as soon as anything has.
HasTwin(s, t) == IF t = Api THEN ContainsDebug(s) ELSE t \in s.debug
-----------------------------------------------------------------------------
\* A Deployment is named for the place of its runner in the Bento, whatever
\* runner that is; the API server has place 0.
Places == {0} \cup UNION {1 .. Len(RunnersOf[b]) : b \in Bentos}

DeploymentNames == [place : Places, debug : BOOLEAN]

DeploymentName(b, i, debug) ==
    [place |-> IF Order(b)[i] = Api THEN 0 ELSE i, debug |-> debug]

\* A pod template: its labels, and the runners that it is told to reach at their
\* debug Services.
Templates == [bento : Bentos, target : Targets, debug : BOOLEAN, steal : SUBSET Runners]

Template(s, b, t, debug) ==
    [bento |-> b, target |-> t, debug |-> debug,
     steal |-> IF t = Api /\ debug THEN RunnerSet(b) \cap s.debug ELSE {}]

\* The Services of a target: for all its requests, and for those of either twin.
Kinds == {"generic", "production", "debug"}

\* A runner's Service is named for the Bento and the runner, the API server's
\* for the object alone.
ServiceNames ==
    [kind : Kinds, bento : Bentos \cup {AnyBento}, target : Targets]

ServiceNameShared(kind, b, t) ==
    [kind |-> kind, bento |-> AnyBento, target |-> t]
ServiceName(kind, b, t) ==
    [kind |-> kind, bento |-> IF t = Api THEN AnyBento ELSE b, target |-> t]

\* The selector, in which types says which target types it accepts (TRUE for
\* debug), and whether the Service leads to the proxy's port.
ServiceSpecs == [bento : Bentos, target : Targets, types : SUBSET BOOLEAN, proxy : BOOLEAN]

GenericTypesAll(s, t) == {TRUE, FALSE}
GenericTypes(s, t) ==
    IF t = Api \/ t \in s.receive THEN {TRUE, FALSE} ELSE {FALSE}

ServiceSpecNoProxy(s, b, kind, t) ==
    [bento  |-> b, target |-> t,
     types  |-> IF kind = "generic" THEN GenericTypes(s, t) ELSE {kind = "debug"},
     proxy  |-> FALSE]
ServiceSpec(s, b, kind, t) ==
    [bento  |-> b, target |-> t,
     types  |-> IF kind = "generic" THEN GenericTypes(s, t) ELSE {kind = "debug"},
     proxy  |-> kind = "generic" /\ t = Api /\ ContainsDebug(s)]
-----------------------------------------------------------------------------
ASSUME AbsentAssumption == Absent \notin Templates /\ Absent \notin ServiceSpecs

VARIABLES
    spec,           \* of the BentoDeployment
    queued,         \* the work queue
    deployment,     \* the template of every Deployment, or Absent
    service,        \* the spec of every Service, or Absent
    pods,           \* the templates that each Deployment's pods were made from
    pc, bento, cfg, \* the pass; the Bento and the copy of the spec it works with
    at, part,       \* the target it is at, and which of its children
    failed,         \* the last pass failed: Available=False
    aged,           \* Services older than three minutes
    todo, doomed,   \* the cleaner's list, and the Services it found without pods
    edits, faults   \* what is left of the bounds

specVars    == <<spec, queued, edits>>
childVars   == <<deployment, service>>
passVars    == <<pc, bento, cfg, at, part, failed>>
cleanerVars == <<todo, doomed>>
vars == <<specVars, childVars, pods, passVars, aged, cleanerVars, faults>>

\* What a target's children are, in the order they are applied.
Parts == <<"deployment", "twin", "generic", "production", "debug">>

Listed == [name : ServiceNames, spec : ServiceSpecs, old : BOOLEAN]

TypeOK ==
    /\ spec \in Specs /\ cfg \in Specs /\ bento \in Bentos
    /\ queued \in BOOLEAN /\ failed \in BOOLEAN
    /\ deployment \in [DeploymentNames -> Templates \cup {Absent}]
    /\ service \in [ServiceNames -> ServiceSpecs \cup {Absent}]
    /\ pods \in [DeploymentNames -> SUBSET Templates]
    /\ pc \in {"idle", "found", "apply"}
    /\ at \in 1 .. Len(Order(bento)) /\ part \in 1 .. Len(Parts)
    /\ aged \subseteq ServiceNames
    /\ todo \subseteq Listed /\ doomed \subseteq ServiceNames
    /\ edits \in 0 .. MaxEdits /\ faults \in 0 .. MaxFaults

Init ==
    /\ spec \in Specs /\ queued = TRUE
    /\ deployment = [d \in DeploymentNames |-> Absent]
    /\ service = [n \in ServiceNames |-> Absent]
    /\ pods = [d \in DeploymentNames |-> {}]
    /\ pc = "idle" /\ bento = spec.bento /\ cfg = spec /\ at = 1 /\ part = 1 /\ failed = FALSE
    /\ aged = {} /\ todo = {} /\ doomed = {}
    /\ edits = MaxEdits /\ faults = MaxFaults
-----------------------------------------------------------------------------
EditSpec ==
    /\ edits > 0 /\ edits' = edits - 1
    /\ spec' \in Specs \ {spec}
    /\ queued' = TRUE
    /\ UNCHANGED <<childVars, pods, passVars, aged, cleanerVars, faults>>

\* The pass finds the Bento by the first copy of the object it reads ...
Begin ==
    /\ pc = "idle" /\ queued
    /\ queued' = FALSE
    /\ pc' = "found" /\ bento' = spec.bento
    /\ at' = 1 /\ part' = 1
    /\ UNCHANGED <<spec, edits, childVars, pods, cfg, failed, aged, cleanerVars, faults>>

\* ... and takes everything else from the copy its status write reads back.
Reread ==
    /\ pc = "found"
    /\ pc' = "apply" /\ cfg' = spec
    /\ UNCHANGED <<specVars, childVars, pods, bento, at, part, failed, aged, cleanerVars, faults>>

\* A Deployment as it is to be; all its events enqueue the object.
SetDeployment(d, new) ==
    /\ deployment' = [deployment EXCEPT ![d] = new]
    /\ queued' = (queued \/ deployment[d] # new)
    /\ UNCHANGED <<service, aged>>

\* A Service as it is to be; its updates are not noticed.
SetServiceUnwatched(n, new) ==
    /\ service' = [service EXCEPT ![n] = new]
    /\ aged' = IF service[n] = Absent \/ new = Absent THEN aged \ {n} ELSE aged
    /\ UNCHANGED <<queued, deployment>>
SetService(n, new) ==
    /\ service' = [service EXCEPT ![n] = new]
    /\ queued' = (queued \/ (service[n] = Absent) # (new = Absent))
    /\ aged' = IF service[n] = Absent \/ new = Absent THEN aged \ {n} ELSE aged
    /\ UNCHANGED deployment

\* createOrUpdateOrDeleteDeployments
ApplyDeployment(t, twin) ==
    LET d == DeploymentName(bento, at, twin) IN
    SetDeployment(d, IF ~twin \/ HasTwin(cfg, t) THEN Template(cfg, bento, t, twin) ELSE Absent)

\* createOrUpdateOrDeleteServices
IsWanted(t, kind) == kind = "generic" \/ HasTwin(cfg, t)

ApplyService(t, kind) ==
    SetService(ServiceName(kind, bento, t),
               IF IsWanted(t, kind) THEN ServiceSpec(cfg, bento, kind, t) ELSE Absent)

ApplyPart ==
    LET t == Order(bento)[at] IN
    IF Parts[part] \in {"deployment", "twin"}
    THEN ApplyDeployment(t, Parts[part] = "twin")
    ELSE ApplyService(t, Parts[part])

\* After a target's last child comes the next target, after the last target
\* the rest of the pass.
AdvanceOffByOne ==
    IF part <= Len(Parts)
    THEN part' = part + 1 /\ UNCHANGED <<at, pc, failed>>
    ELSE /\ part' = 1
         /\ IF at < Len(Order(bento))
            THEN at' = at + 1 /\ UNCHANGED <<pc, failed>>
            ELSE at' = 1 /\ pc' = "idle" /\ failed' = FALSE
Advance ==
    IF part < Len(Parts)
    THEN part' = part + 1 /\ UNCHANGED <<at, pc, failed>>
    ELSE /\ part' = 1
         /\ IF at < Len(Order(bento))
            THEN at' = at + 1 /\ UNCHANGED <<pc, failed>>
            ELSE at' = 1 /\ pc' = "idle" /\ failed' = FALSE

Fault == faults > 0 /\ faults' = faults - 1

\* A call that fails, whether it was carried out or not, ends the pass; its
\* error does not put the object back into the queue.
Apply ==
    /\ pc = "apply"
    /\ \/ ApplyPart /\ Advance /\ UNCHANGED faults
       \/ /\ Fault
          /\ ApplyPart \/ UNCHANGED <<childVars, queued, aged>>
          /\ pc' = "idle" /\ failed' = TRUE /\ at' = 1 /\ part' = 1
    /\ UNCHANGED <<spec, edits, pods, bento, cfg, cleanerVars>>
-----------------------------------------------------------------------------
AllPods == UNION {pods[d] : d \in DeploymentNames}

Selects(s, p) == p.bento = s.bento /\ p.target = s.target /\ p.debug \in s.types

\* The pods behind a Service.
Endpoints(n) == IF service[n] = Absent THEN {} ELSE {p \in AllPods : Selects(service[n], p)}

\* Where an API server's pod is told to find a runner.
RunnerAddress(p, r) ==
    ServiceName(IF ~p.debug THEN "generic" ELSE IF r \in p.steal THEN "debug" ELSE "production",
                p.bento, r)

\* The probe of an API server's pod asks all its runners.
Ready(p) ==
    p.target = Api => \A r \in RunnerSet(p.bento) : Endpoints(RunnerAddress(p, r)) # {}

\* The Deployment controller starts pods from the template it finds ...
StartPods(d) ==
    /\ deployment[d] # Absent /\ deployment[d] \notin pods[d]
    /\ pods' = [pods EXCEPT ![d] = @ \cup {deployment[d]}]
    /\ UNCHANGED <<specVars, childVars, passVars, aged, cleanerVars, faults>>

\* ... and stops those of earlier ones when the new ones are ready, and all
\* when the Deployment is gone.
StopPods(d) ==
    /\ deployment[d] # Absent => deployment[d] \in pods[d] /\ Ready(deployment[d])
    /\ \E p \in pods[d] \ {deployment[d]} : pods' = [pods EXCEPT ![d] = @ \ {p}]
    /\ UNCHANGED <<specVars, childVars, passVars, aged, cleanerVars, faults>>
-----------------------------------------------------------------------------
\* Three minutes have passed since the Service was created.
Age(n) ==
    /\ RunnerLabel /\ n.target # Api
    /\ service[n] # Absent /\ n \notin aged
    /\ aged' = aged \cup {n}
    /\ UNCHANGED <<specVars, childVars, pods, passVars, cleanerVars, faults>>

\* The Services that the cleaner's label selects.
Labelled(n) == RunnerLabel /\ n.target # Api

\* The cleaner lists them, as they are now.
ListServices ==
    /\ todo = {} /\ doomed = {}
    /\ todo' = {[name |-> n, spec |-> service[n], old |-> n \in aged] :
                    n \in {m \in ServiceNames : service[m] # Absent /\ Labelled(m)}}
    /\ UNCHANGED <<specVars, childVars, pods, passVars, aged, doomed, faults>>

\* It looks for the pods that a listed Service selected then; if there are none,
\* and the Service is older than three minutes by now, it is one to delete ...
AbandonedByName(s) == \A p \in AllPods : p.target # s.target
Abandoned(s) == \A p \in AllPods : ~Selects(s, p)

CheckService ==
    /\ doomed = {}
    /\ \E l \in todo :
          /\ todo' = todo \ {l}
          /\ \/ doomed' = IF Abandoned(l.spec) THEN {l.name} ELSE {}
             \/ ~l.old /\ doomed' = {}
    /\ UNCHANGED <<specVars, childVars, pods, passVars, aged, faults>>

\* ... and it is deleted by name.  An error ends the round.
DeleteService ==
    \E n \in doomed :
      /\ doomed' = {}
      /\ IF service[n] # Absent
         THEN SetService(n, Absent) /\ UNCHANGED todo
         ELSE todo' = {} /\ UNCHANGED <<childVars, queued, aged>>
      /\ UNCHANGED <<spec, edits, pods, passVars, faults>>

\* A call of the cleaner fails: its round ends.
CleanerFails ==
    /\ todo # {} \/ doomed # {}
    /\ Fault
    /\ todo' = {} /\ doomed' = {}
    /\ \/ \E n \in doomed : SetService(n, Absent)
       \/ UNCHANGED <<childVars, queued, aged>>
    /\ UNCHANGED <<spec, edits, pods, passVars>>

\* The informers' resync: the Bento's watch has no predicate.
Resync ==
    /\ pc = "idle" /\ ~queued /\ failed
    /\ queued' = TRUE
    /\ UNCHANGED <<spec, edits, childVars, pods, passVars, aged, cleanerVars, faults>>

Reconciler == Begin \/ Reread \/ Apply

Cleaner == ListServices \/ CheckService \/ DeleteService

Next ==
    \/ EditSpec \/ Reconciler \/ Resync \/ Cleaner \/ CleanerFails
    \/ \E d \in DeploymentNames : StartPods(d) \/ StopPods(d)
    \/ \E n \in ServiceNames : Age(n)

Spec == Init /\ [][Next]_vars

\* Everything but the user and failures keeps going.
Fairness ==
    /\ WF_vars(Reconciler) /\ WF_vars(Resync) /\ WF_vars(Cleaner)
    /\ \A d \in DeploymentNames : WF_vars(StartPods(d)) /\ WF_vars(StopPods(d))
    /\ \A n \in ServiceNames : WF_vars(Age(n))

FairSpec == Spec /\ Fairness
-----------------------------------------------------------------------------
ApiService(kind) == ServiceName(kind, spec.bento, Api)

ReadyEndpoints(n) == {p \in Endpoints(n) : Ready(p)}

\* Where a pod's proxy sends a request: one for its kind of pod to itself, any
\* other to the Service of the other kind.
Forward(p, isDebug) ==
    IF p.debug = isDebug THEN {p}
    ELSE ReadyEndpoints(ApiService(IF isDebug THEN "debug" ELSE "production"))

\* The API server's pods that may handle a request to the Service that the
\* Ingress leads to, directly or through the proxy of one of its pods.
Handlers(isDebug) ==
    LET entry == ApiService("generic")
    IN  UNION {IF service[entry].proxy THEN Forward(p, isDebug) ELSE {p} :
                   p \in ReadyEndpoints(entry)}

\* The pods of deleted Deployments are gone; with Settled, also those of earlier
\* templates.
Collected == \A d \in DeploymentNames : deployment[d] = Absent => pods[d] = {}

Settled == \A d \in DeploymentNames :
               pods[d] = IF deployment[d] = Absent THEN {} ELSE {deployment[d]}

\* A debug API server can reach a runner only in the runner's debug pods, so
\* debug requests are served if every runner is in debug mode.
DebugServed == RunnerSet(spec.bento) \subseteq spec.debug /\ ContainsDebug(spec)

\* No request is handled by, and no call of a handler reaches, a pod it is not for.
Isolated ==
    /\ \A isDebug \in BOOLEAN : \A p \in Handlers(isDebug) :
         /\ p.bento = spec.bento
         /\ p.debug = (isDebug /\ ContainsDebug(spec))
         /\ \A r \in RunnerSet(p.bento) : \A q \in Endpoints(RunnerAddress(p, r)) :
                IF p.debug THEN q.debug = (r \in p.steal) ELSE q.debug => r \in spec.receive

Served == Handlers(FALSE) # {} /\ (DebugServed => Handlers(TRUE) # {})

\* After a pass that did not fail, every request is handled by the right pods:
\* one with the debug header by a debug pod if there are any, every other by a
\* production pod, which in turn reaches the runner pods it is to reach -
\* whatever passes for other specs and Bentos left behind, and wherever they
\* failed (the Services of generateService, the runner map and the proxies of
\* generatePodTemplateSpec).
RoutesRight ==
    (pc = "idle" /\ ~queued /\ ~failed /\ Collected) =>
        Isolated /\ (Settled => Served)

\* Every runner of an API server's pod has a Service at its address.
HasServices(p) == \A r \in RunnerSet(p.bento) : service[RunnerAddress(p, r)] # Absent

\* Whatever is rolled out, withdrawn or retried, a production API server is
\* never told to reach a runner at a Service that is not there: runners are
\* applied before the API server, and the Services of earlier Bentos stay
\* (Reconcile, getRunnerGenericServiceName).
RunnerServicesStay ==
    \A d \in DeploymentNames : \A p \in pods[d] \cup ({deployment[d]} \ {Absent}) :
        p.target = Api /\ ~p.debug => HasServices(p)

\* However a Bento's runners are placed, and however far a roll-out has come, an
\* API server's call of a runner reaches a pod of that runner in its own Bento
\* only (getRunnerGenericServiceName, generateService).
VersionsAgree ==
    \A p \in AllPods : p.target = Api =>
        \A r \in RunnerSet(p.bento) : \A q \in Endpoints(RunnerAddress(p, r)) :
            q.bento = p.bento /\ q.target = r

\* In the end production requests are served, and by the right pods, although
\* the cleaner may delete a Service that a pass has just found in place
\* (doCleanUpAbandonedRunnerServices, Owns(Service) in SetupWithManager).
ServedInTheEnd == <>[](Handlers(FALSE) # {} /\ Isolated)

\* "start cleaning up abandoned runner services" (doCleanUpAbandonedRunnerServices):
\* those of earlier Bentos are gone in the end.
AbandonedServicesGo ==
    <>[](\A n \in ServiceNames :
            n.target # Api /\ n.bento # spec.bento => service[n] = Absent)

\* An API server is started with an address for each of its runners
\* ("--runner-map '{"iris_clf": "tcp://127.0.0.1:8001"}'", generatePodTemplateSpec),
\* and after a pass each of them leads to a Service.
RunnerMapIsUsable ==
    (pc = "idle" /\ ~queued /\ ~failed) =>
        \A d \in DeploymentNames :
            deployment[d] # Absent /\ deployment[d].target = Api => HasServices(deployment[d])
=============================================================================
