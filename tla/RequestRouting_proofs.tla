------------------------ MODULE RequestRouting_proofs ------------------------
(***************************************************************************)
(* That requests are routed to the right pods after a pass that did not    *)
(* fail, for every set of Bentos, runners and debug annotations.           *)
(*                                                                         *)
(* RoutesRight is not inductive: that the children are those of the        *)
(* present spec is known only from what the pass has gone through since    *)
(* the object was last put into the queue.  Whatever invalidates that - an *)
(* edit, a Service that the cleaner deletes - queues the object again, and *)
(* nothing is claimed while it is queued.                                  *)
(***************************************************************************)
EXTENDS ServiceRouting_proofs

\* A Deployment's pods are of its kind, and API server pods are in no runner's.
Placed ==
    \A d \in DeploymentNames : \A p \in pods[d] \cup ({deployment[d]} \ {Absent}) :
        p.debug = d.debug /\ (p.target = Api => d.place = 0)

\* What the pass works with is the present spec, unless the object is queued.
UpToDate ==
    /\ pc = "found" => at = 1 /\ part = 1
    /\ ~queued => /\ pc = "found" => bento = spec.bento
                  /\ pc = "apply" \/ (pc = "idle" /\ ~failed) =>
                         bento = spec.bento /\ cfg = spec

\* The pass, or the one that has just ended well, is past part k of target i.
Done(i, k) ==
    \/ pc = "apply" /\ (i < at \/ (i = at /\ k < part))
    \/ pc = "idle" /\ ~failed

TemplateWanted(t, twin) ==
    IF ~twin \/ HasTwin(cfg, t) THEN Template(cfg, bento, t, twin) ELSE Absent

ServiceWanted(t, kind) ==
    IF IsWanted(t, kind) THEN ServiceSpec(cfg, bento, kind, t) ELSE Absent

\* Part k of target i is as the pass is to make it.
AsGenerated(i, k) ==
    IF Parts[k] \in {"deployment", "twin"}
    THEN deployment[DeploymentName(bento, i, Parts[k] = "twin")]
             = TemplateWanted(Order(bento)[i], Parts[k] = "twin")
    ELSE service[ServiceName(Parts[k], bento, Order(bento)[i])]
             = ServiceWanted(Order(bento)[i], Parts[k])

Generated ==
    ~queued => \A i \in 1 .. Len(Order(bento)), k \in 1 .. Len(Parts) :
                   Done(i, k) => AsGenerated(i, k)

RoutingInv == TypeOK /\ Placed /\ UpToDate /\ Generated
-----------------------------------------------------------------------------
LEMMA PartFacts ==
    /\ Len(Parts) = 5
    /\ Parts[1] = "deployment" /\ Parts[2] = "twin" /\ Parts[3] = "generic"
    /\ Parts[4] = "production" /\ Parts[5] = "debug"
    /\ \A k \in 1 .. Len(Parts) :
           Parts[k] \notin {"deployment", "twin"} =>
               Parts[k] \in {"generic", "production", "debug"}
BY DEF Parts

\* A pass that applies a child and leaves the object out of the queue has
\* changed no Deployment, and no other child: the child is as wanted now, and
\* what was as wanted still is.
LEMMA ApplyPartGenerates ==
    ASSUME TypeOK, ApplyPart, bento' = bento, cfg' = cfg, ~queued',
           NEW i \in 1 .. Len(Order(bento)), NEW k \in 1 .. Len(Parts),
           AsGenerated(i, k) \/ (i = at /\ k = part)
    PROVE  ~queued /\ AsGenerated(i, k)'
<1> DEFINE t == Order(bento)[at]
           u == Order(bento)[i]
<1>1. CASE Parts[part] \in {"deployment", "twin"}
  <2> DEFINE twin == Parts[part] = "twin"
             d == DeploymentName(bento, at, twin)
             new == TemplateWanted(t, twin)
  <2>1. SetDeployment(d, new)
    BY <1>1 DEF ApplyPart, ApplyDeployment, TemplateWanted
  <2>2. d \in DeploymentNames BY GeneratedTypes DEF TypeOK
  <2>3. deployment[d] = new /\ ~queued /\ service' = service
    <3> HIDE DEF d, new, t, twin
    <3> QED BY <2>1 DEF SetDeployment, TypeOK
  <2>4. deployment' = deployment
    <3> HIDE DEF d, new, t, twin
    <3> QED BY <2>1, <2>2, <2>3 DEF SetDeployment, TypeOK
  <2>5. AsGenerated(i, k)
    <3>1. CASE i = at /\ k = part BY <1>1, <2>3, <3>1 DEF AsGenerated
    <3> QED BY <3>1
  <2> QED BY <2>3, <2>4, <2>5 DEF AsGenerated, TemplateWanted, ServiceWanted, IsWanted
<1>2. CASE Parts[part] \notin {"deployment", "twin"}
  <2> DEFINE kind == Parts[part]
             n == ServiceName(kind, bento, t)
             new == ServiceWanted(t, kind)
  <2>1. SetService(n, new) BY <1>2 DEF ApplyPart, ApplyService, ServiceWanted
  <2>2. n \in ServiceNames BY <1>2, PartFacts, GeneratedTypes DEF TypeOK
  <2>3. ~queued /\ deployment' = deployment
    <3> HIDE DEF n, new, t, kind
    <3> QED BY <2>1 DEF SetService, TypeOK
  <2>4. service'[n] = new
    <3> HIDE DEF n, new, t, kind
    <3> QED BY <2>1, <2>2 DEF SetService, TypeOK
  <2>5. CASE Parts[k] \in {"deployment", "twin"}
    <3>1. AsGenerated(i, k) BY <1>2, <2>5
    <3> QED BY <2>3, <2>5, <3>1 DEF AsGenerated, TemplateWanted
  <2>6. CASE Parts[k] \notin {"deployment", "twin"}
    <3> DEFINE m == ServiceName(Parts[k], bento, u)
    <3>1. m \in ServiceNames BY <2>6, PartFacts, GeneratedTypes DEF TypeOK
    <3>2. m.target = u /\ m.kind = Parts[k] /\ n.target = t /\ n.kind = kind
      BY DEF ServiceName
    <3>3. service'[m] = ServiceWanted(u, Parts[k])
      <4>1. CASE m = n
        <5>1. u = t /\ Parts[k] = kind BY <3>2, <4>1
        <5> HIDE DEF m, n, t, u, kind
        <5> QED BY <2>4, <4>1, <5>1 DEF new
      <4>2. CASE m # n
        <5>1. service[m] = ServiceWanted(u, Parts[k])
          <6>1. ~(i = at /\ k = part) BY <4>2
          <6> QED BY <2>6, <6>1 DEF AsGenerated
        <5>2. service'[m] = service[m]
          <6> HIDE DEF m, n, new
          <6> QED BY <2>1, <3>1, <4>2 DEF SetService, TypeOK
        <5> QED BY <5>1, <5>2
      <4> QED BY <4>1, <4>2
    <3> QED BY <2>3, <2>6, <3>3 DEF AsGenerated, ServiceWanted, IsWanted
  <2> QED BY <2>5, <2>6
<1> QED BY <1>1, <1>2

\* The pass goes on: it is past what it was past, and the part it was at.
LEMMA AdvanceDone ==
    ASSUME TypeOK, pc = "apply", Advance,
           NEW i \in 1 .. Len(Order(bento)), NEW k \in 1 .. Len(Parts), Done(i, k)'
    PROVE  Done(i, k) \/ (i = at /\ k = part)
<1>1. /\ at \in 1 .. Len(Order(bento)) /\ part \in 1 .. 5 /\ Len(Parts) = 5
      /\ Len(Order(bento)) \in Nat
  BY OrderFacts, PartFacts DEF TypeOK
<1>2. CASE part < Len(Parts) BY <1>1, <1>2 DEF Advance, Done
<1>3. CASE ~(part < Len(Parts)) /\ at < Len(Order(bento)) BY <1>1, <1>3 DEF Advance, Done
<1>4. CASE ~(part < Len(Parts)) /\ ~(at < Len(Order(bento)))
  <2>1. part = 5 /\ at = Len(Order(bento)) BY <1>1, <1>4
  <2> QED BY <1>1, <2>1 DEF Done
<1> QED BY <1>2, <1>3, <1>4

\* A Deployment that a pass writes is of the kind its name says.
LEMMA ApplyPartPlaces ==
    ASSUME TypeOK, Placed, ApplyPart, pods' = pods
    PROVE  Placed'
<1> DEFINE t == Order(bento)[at]
           twin == Parts[part] = "twin"
           d == DeploymentName(bento, at, twin)
           new == IF ~twin \/ HasTwin(cfg, t) THEN Template(cfg, bento, t, twin) ELSE Absent
<1>1. CASE Parts[part] \in {"deployment", "twin"}
  <2>1. SetDeployment(d, new) BY <1>1 DEF ApplyPart, ApplyDeployment
  <2>2. d \in DeploymentNames BY GeneratedTypes DEF TypeOK
  <2>3. new # Absent => new.debug = d.debug /\ (new.target = Api => d.place = 0)
    BY DEF Template, DeploymentName
  <2> HIDE DEF d, new, t, twin
  <2> QED BY <2>1, <2>2, <2>3 DEF SetDeployment, TypeOK, Placed
<1>2. CASE Parts[part] \notin {"deployment", "twin"}
  <2>1. deployment' = deployment BY <1>2 DEF ApplyPart, ApplyService, SetService
  <2> QED BY <2>1 DEF Placed
<1> QED BY <1>1, <1>2
-----------------------------------------------------------------------------
LEMMA RoutingInit ==
    ASSUME Init
    PROVE  RoutingInv
BY TypeInit DEF Init, RoutingInv, Placed, UpToDate, Generated

\* A step that changes neither the children nor the pass.
LEMMA RoutingSame ==
    ASSUME RoutingInv, pc' = pc, bento' = bento, cfg' = cfg, at' = at, part' = part,
           failed' = failed, deployment' = deployment, service' = service,
           queued' \/ (queued' = queued /\ spec' = spec)
    PROVE  UpToDate' /\ Generated'
BY DEF RoutingInv, UpToDate, Generated, Done, AsGenerated, TemplateWanted, ServiceWanted, IsWanted

\* A Service is deleted: the object is in the queue, or nothing has changed.
LEMMA RoutingDelete ==
    ASSUME RoutingInv, NEW n \in ServiceNames, SetService(n, Absent),
           UNCHANGED <<spec, pc, bento, cfg, at, part, failed>>
    PROVE  UpToDate' /\ Generated'
<1>1. TypeOK BY DEF RoutingInv
<1>2. CASE service[n] = Absent
  <2>1. service' = service /\ deployment' = deployment /\ queued' = queued
    BY <1>1, <1>2 DEF SetService, TypeOK
  <2> QED BY <2>1, RoutingSame
<1>3. CASE service[n] # Absent
  <2>1. queued' BY <1>3 DEF SetService
  <2> QED BY <2>1 DEF RoutingInv, UpToDate, Generated
<1> QED BY <1>2, <1>3

LEMMA RoutingStep ==
    ASSUME RoutingInv, [Next]_vars
    PROVE  RoutingInv'
<1> USE DEF specVars, childVars, passVars, cleanerVars
<1> TypeOK /\ Placed /\ UpToDate /\ Generated BY DEF RoutingInv
<1> TypeOK' BY TypeStep
<1> SUFFICES (Placed /\ UpToDate /\ Generated)' BY DEF RoutingInv
<1>a. ASSUME deployment' = deployment, pods' = pods PROVE Placed' BY <1>a DEF Placed
<1>1. CASE EditSpec
  BY <1>1, <1>a, RoutingSame DEF EditSpec
<1>2. CASE Begin
  <2>1. UpToDate' BY <1>2 DEF Begin, UpToDate
  <2>2. Generated' BY <1>2 DEF Begin, Generated, Done
  <2> QED BY <1>2, <1>a, <2>1, <2>2 DEF Begin
<1>3. CASE Reread
  <2>1. UpToDate' BY <1>3 DEF Reread, UpToDate
  <2>2. at' = 1 /\ part' = 1 /\ pc' = "apply" BY <1>3 DEF Reread, UpToDate
  <2>3. Generated' BY <2>2 DEF Generated, Done
  <2> QED BY <1>3, <1>a, <2>1, <2>3 DEF Reread
<1>4. CASE Apply
  <2>1. Placed'
    <3>1. CASE ApplyPart BY <1>4, <3>1, ApplyPartPlaces DEF Apply
    <3>2. CASE UNCHANGED <<childVars, queued, aged>> BY <1>4, <1>a, <3>2 DEF Apply
    <3> QED BY <1>4, <3>1, <3>2 DEF Apply
  <2>2. CASE ApplyPart /\ Advance
    <3>1. bento' = bento /\ cfg' = cfg /\ spec' = spec /\ pc = "apply" BY <1>4 DEF Apply
    <3>2. pc' \in {"apply", "idle"} BY <2>2, <3>1 DEF Advance
    <3>3. ~queued' => ~queued
      BY <2>2 DEF ApplyPart, ApplyDeployment, ApplyService, SetDeployment, SetService
    <3>4. UpToDate' BY <3>1, <3>2, <3>3 DEF UpToDate
    <3>5. Generated'
      <4> SUFFICES ASSUME ~queued', NEW i \in 1 .. Len(Order(bento)),
                          NEW k \in 1 .. Len(Parts), Done(i, k)'
                   PROVE  AsGenerated(i, k)'
        BY <3>1 DEF Generated
      <4>1. Done(i, k) \/ (i = at /\ k = part) BY <2>2, <3>1, AdvanceDone
      <4>2. AsGenerated(i, k) \/ (i = at /\ k = part) BY <3>3, <4>1 DEF Generated
      <4> QED BY <2>2, <3>1, <4>2, ApplyPartGenerates
    <3> QED BY <2>1, <3>4, <3>5
  <2>3. CASE pc' = "idle" /\ failed' = TRUE
    BY <2>1, <2>3 DEF UpToDate, Generated, Done
  <2> QED BY <1>4, <2>2, <2>3 DEF Apply
<1>5. CASE Resync BY <1>5, <1>a, RoutingSame DEF Resync
<1>6. CASE ListServices BY <1>6, <1>a, RoutingSame DEF ListServices
<1>7. CASE CheckService BY <1>7, <1>a, RoutingSame DEF CheckService
<1>8. CASE DeleteService
  <2>1. PICK n \in doomed : DeleteService!(n) BY <1>8 DEF DeleteService
  <2>2. n \in ServiceNames BY DEF TypeOK
  <2>3. CASE service[n] # Absent
    <3>1. SetService(n, Absent) BY <2>1, <2>3
    <3> QED BY <1>a, <2>1, <2>2, <3>1, RoutingDelete DEF SetService
  <2>4. CASE service[n] = Absent BY <1>a, <2>1, <2>4, RoutingSame
  <2> QED BY <2>3, <2>4
<1>9. CASE CleanerFails
  <2>1. CASE \E n \in doomed : SetService(n, Absent)
    BY <1>9, <1>a, <2>1, RoutingDelete DEF CleanerFails, SetService, TypeOK
  <2>2. CASE UNCHANGED <<childVars, queued, aged>>
    BY <1>9, <1>a, <2>2, RoutingSame DEF CleanerFails
  <2> QED BY <1>9, <2>1, <2>2 DEF CleanerFails
<1>10. ASSUME NEW d \in DeploymentNames, StartPods(d) \/ StopPods(d)
       PROVE  (Placed /\ UpToDate /\ Generated)'
  <2>1. \A e \in DeploymentNames :
          pods'[e] \subseteq pods[e] \cup ({deployment[e]} \ {Absent})
    BY <1>10 DEF StartPods, StopPods, TypeOK
  <2>2. Placed' BY <1>10, <2>1 DEF StartPods, StopPods, Placed
  <2> QED BY <1>10, <2>2, RoutingSame DEF StartPods, StopPods
<1>11. ASSUME NEW n \in ServiceNames, Age(n) PROVE (Placed /\ UpToDate /\ Generated)'
  BY <1>11, <1>a, RoutingSame DEF Age
<1>12. CASE UNCHANGED vars BY <1>12, <1>a, RoutingSame DEF vars
<1> QED BY <1>1, <1>2, <1>3, <1>4, <1>5, <1>6, <1>7, <1>8, <1>9, <1>10, <1>11, <1>12
    DEF Next, Reconciler, Cleaner
-----------------------------------------------------------------------------
(***************************************************************************)
(* What the invariant says of the children once a pass has ended well and  *)
(* nothing is queued.                                                      *)
(***************************************************************************)
Quiet == pc = "idle" /\ ~queued /\ ~failed

\* All children are those of the spec, whatever the last pass started from.
LEMMA QuietChildren ==
    ASSUME RoutingInv, Quiet, NEW i \in 1 .. Len(Order(spec.bento))
    PROVE  LET b == spec.bento
               t == Order(b)[i]
           IN  /\ deployment[DeploymentName(b, i, FALSE)] = Template(spec, b, t, FALSE)
               /\ HasTwin(spec, t) =>
                    deployment[DeploymentName(b, i, TRUE)] = Template(spec, b, t, TRUE)
               /\ ~HasTwin(spec, t) => deployment[DeploymentName(b, i, TRUE)] = Absent
               /\ service[ServiceName("generic", b, t)] = ServiceSpec(spec, b, "generic", t)
               /\ \A kind \in {"production", "debug"} :
                    service[ServiceName(kind, b, t)] =
                        IF HasTwin(spec, t) THEN ServiceSpec(spec, b, kind, t) ELSE Absent
<1>1. bento = spec.bento /\ cfg = spec BY DEF RoutingInv, UpToDate, Quiet
<1>2. \A k \in 1 .. Len(Parts) : AsGenerated(i, k)
  BY <1>1 DEF RoutingInv, Generated, Quiet, Done
<1>3. /\ AsGenerated(i, 1) /\ AsGenerated(i, 2) /\ AsGenerated(i, 3)
      /\ AsGenerated(i, 4) /\ AsGenerated(i, 5)
  BY <1>2, PartFacts
<1>4. /\ deployment[DeploymentName(bento, i, FALSE)] = TemplateWanted(Order(bento)[i], FALSE)
      /\ deployment[DeploymentName(bento, i, TRUE)] = TemplateWanted(Order(bento)[i], TRUE)
  BY <1>3, PartFacts, Zenon DEF AsGenerated
<1>5. \A kind \in {"generic", "production", "debug"} :
        service[ServiceName(kind, bento, Order(bento)[i])] = ServiceWanted(Order(bento)[i], kind)
  BY <1>3, PartFacts DEF AsGenerated
<1> QED BY <1>1, <1>4, <1>5 DEF TemplateWanted, ServiceWanted, IsWanted

\* The API server is the last target, and every runner is a target before it.
LEMMA ApiLast ==
    ASSUME NEW b \in Bentos
    PROVE  /\ Len(Order(b)) \in 1 .. Len(Order(b)) /\ Order(b)[Len(Order(b))] = Api
           /\ \A r \in RunnerSet(b) :
                /\ r \in Runners /\ r # Api
                /\ \E i \in 1 .. Len(Order(b)) : Order(b)[i] = r
<1>1. /\ Len(Order(b)) \in 1 .. Len(Order(b)) /\ Order(b)[Len(Order(b))] = Api
  BY OrderFacts
<1>2. ASSUME NEW r \in RunnerSet(b)
      PROVE  r \in Runners /\ r # Api /\ \E i \in 1 .. Len(Order(b)) : Order(b)[i] = r
  <2>1. PICK i \in 1 .. Len(RunnersOf[b]) : r = RunnersOf[b][i] BY RunnerSetFacts
  <2>2. i \in 1 .. Len(Order(b)) /\ Order(b)[i] = r BY <2>1, OrderFacts
  <2> QED BY <2>2, RunnerSetFacts, ConstantsAssumption
<1> QED BY <1>1, <1>2

\* The pods a Service leads to match its selector.
LEMMA EndpointFacts ==
    ASSUME TypeOK, NEW n, NEW p \in Endpoints(n)
    PROVE  /\ service[n] # Absent /\ Selects(service[n], p)
           /\ p \in Templates
           /\ \E d \in DeploymentNames : p \in pods[d]
BY DEF Endpoints, AllPods, TypeOK

\* What the three Services of a target accept.
LEMMA ServiceFacts ==
    ASSUME RoutingInv, Quiet, NEW i \in 1 .. Len(Order(spec.bento)),
           NEW kind \in {"generic", "production", "debug"},
           NEW p \in Endpoints(ServiceName(kind, spec.bento, Order(spec.bento)[i]))
    PROVE  /\ p.bento = spec.bento /\ p.target = Order(spec.bento)[i]
           /\ p \in Templates
           /\ kind # "generic" => p.debug = (kind = "debug")
           /\ kind = "generic" => p.debug \in GenericTypes(spec, Order(spec.bento)[i])
<1> DEFINE t == Order(spec.bento)[i]
           n == ServiceName(kind, spec.bento, t)
<1>1. service[n] # Absent /\ Selects(service[n], p) /\ p \in Templates
  BY EndpointFacts DEF RoutingInv
<1>2. service[n] = ServiceSpec(spec, spec.bento, kind, t)
  BY <1>1, QuietChildren
<1> QED BY <1>1, <1>2 DEF Selects, ServiceSpec

\* API server pods that handle requests are of the present Bento; and there are
\* debug pods only if the spec asks for them.
LEMMA ApiPods ==
    ASSUME RoutingInv, Quiet, Collected, NEW kind \in {"generic", "production", "debug"},
           NEW p \in Endpoints(ApiService(kind))
    PROVE  /\ p \in Templates /\ p.bento = spec.bento /\ p.target = Api
           /\ kind # "generic" => p.debug = (kind = "debug")
           /\ ~ContainsDebug(spec) => p.debug = FALSE
<1> DEFINE b == spec.bento
           i == Len(Order(b))
<1>1. TypeOK /\ Placed /\ b \in Bentos BY SpecFacts DEF RoutingInv, TypeOK
<1>2. i \in 1 .. Len(Order(b)) /\ Order(b)[i] = Api BY <1>1, ApiLast
<1>3. /\ p \in Templates /\ p.bento = b /\ p.target = Api
      /\ kind # "generic" => p.debug = (kind = "debug")
  BY <1>2, ServiceFacts DEF ApiService
<1>4. ASSUME ~ContainsDebug(spec), p.debug # FALSE PROVE FALSE
  <2>1. PICK d \in DeploymentNames : p \in pods[d] BY <1>1, EndpointFacts
  <2>2. d.debug = p.debug /\ d.place = 0 BY <1>1, <1>3, <2>1 DEF Placed
  <2>3. d.debug = TRUE BY <1>4, <1>3, <2>2 DEF Templates
  <2>4. DeploymentName(b, i, TRUE) = [place |-> 0, debug |-> TRUE]
    BY <1>2 DEF DeploymentName
  <2>5. d = [place |-> 0, debug |-> TRUE] BY <2>2, <2>3 DEF DeploymentNames
  <2>6. deployment[d] = Absent
    BY <1>2, <1>4, <2>4, <2>5, QuietChildren DEF HasTwin
  <2> QED BY <2>1, <2>6 DEF Collected
<1> QED BY <1>3, <1>4

LEMMA RunnerPods ==
    ASSUME RoutingInv, Quiet, NEW p \in Templates, p.bento = spec.bento,
           NEW r \in RunnerSet(spec.bento), NEW q \in Endpoints(RunnerAddress(p, r))
    PROVE  IF p.debug THEN q.debug = (r \in p.steal) ELSE q.debug => r \in spec.receive
<1> DEFINE b == spec.bento
           kind == IF ~p.debug THEN "generic" ELSE IF r \in p.steal THEN "debug" ELSE "production"
<1>1. b \in Bentos BY SpecFacts DEF RoutingInv, TypeOK
<1>2. r # Api /\ \E i \in 1 .. Len(Order(b)) : Order(b)[i] = r BY <1>1, ApiLast
<1>3. PICK i \in 1 .. Len(Order(b)) : Order(b)[i] = r BY <1>2
<1>4. RunnerAddress(p, r) = ServiceName(kind, b, r) /\ kind \in {"generic", "production", "debug"}
  BY DEF RunnerAddress
<1>5. /\ q \in Templates
      /\ kind # "generic" => q.debug = (kind = "debug")
      /\ kind = "generic" => q.debug \in GenericTypes(spec, r)
  <2> HIDE DEF kind
  <2> QED BY <1>3, <1>4, ServiceFacts
<1>6. CASE p.debug
  <2>1. kind = IF r \in p.steal THEN "debug" ELSE "production" BY <1>6
  <2> QED BY <1>5, <1>6, <2>1
<1>7. CASE ~p.debug
  <2>1. kind = "generic" BY <1>7
  <2>2. q.debug => r \in spec.receive BY <1>2, <1>5, <2>1 DEF GenericTypes
  <2> QED BY <1>7, <2>2
<1> QED BY <1>6, <1>7

LEMMA RoutingIsolates ==
    ASSUME RoutingInv, Quiet, Collected
    PROVE  Isolated
<1> DEFINE entry == ApiService("generic")
           i == Len(Order(spec.bento))
<1> SUFFICES ASSUME NEW isDebug \in BOOLEAN, NEW p \in Handlers(isDebug)
             PROVE  /\ p.bento = spec.bento
                    /\ p.debug = (isDebug /\ ContainsDebug(spec))
                    /\ \A r \in RunnerSet(p.bento) : \A q \in Endpoints(RunnerAddress(p, r)) :
                         IF p.debug THEN q.debug = (r \in p.steal)
                         ELSE q.debug => r \in spec.receive
  BY DEF Isolated
<1>1. spec.bento \in Bentos BY SpecFacts DEF RoutingInv, TypeOK
<1>2. i \in 1 .. Len(Order(spec.bento)) /\ Order(spec.bento)[i] = Api BY <1>1, ApiLast
<1>3. service[entry].proxy = ContainsDebug(spec)
  <2>1. service[entry] = ServiceSpec(spec, spec.bento, "generic", Api)
    BY <1>2, QuietChildren DEF ApiService
  <2> QED BY <2>1 DEF ServiceSpec, ContainsDebug
<1>4. PICK p0 \in ReadyEndpoints(entry) :
        p \in IF ContainsDebug(spec) THEN Forward(p0, isDebug) ELSE {p0}
  BY <1>3 DEF Handlers
<1>5. p0 \in Endpoints(entry) BY DEF ReadyEndpoints
<1>6. /\ p \in Templates /\ p.bento = spec.bento
      /\ p.debug = (isDebug /\ ContainsDebug(spec))
  <2>1. /\ p0 \in Templates /\ p0.bento = spec.bento
        /\ ~ContainsDebug(spec) => p0.debug = FALSE
    BY <1>5, ApiPods
  <2>2. CASE ~ContainsDebug(spec) BY <1>4, <2>1, <2>2
  <2>3. CASE ContainsDebug(spec) /\ p0.debug = isDebug BY <1>4, <2>1, <2>3 DEF Forward
  <2>4. CASE ContainsDebug(spec) /\ p0.debug # isDebug
    <3> DEFINE kind == IF isDebug THEN "debug" ELSE "production"
    <3>1. p \in Endpoints(ApiService(kind)) BY <1>4, <2>4 DEF Forward, ReadyEndpoints
    <3>2. kind \in {"generic", "production", "debug"} /\ kind # "generic"
          /\ (kind = "debug") = isDebug
      OBVIOUS
    <3>3. p \in Templates /\ p.bento = spec.bento /\ p.debug = (kind = "debug")
      <4> HIDE DEF kind
      <4> QED BY <3>1, <3>2, ApiPods
    <3> HIDE DEF kind
    <3> QED BY <2>4, <3>2, <3>3
  <2> QED BY <2>2, <2>3, <2>4
<1>7. \A r \in RunnerSet(p.bento) : \A q \in Endpoints(RunnerAddress(p, r)) :
        IF p.debug THEN q.debug = (r \in p.steal) ELSE q.debug => r \in spec.receive
  BY <1>6, RunnerPods
<1> QED BY <1>6, <1>7
-----------------------------------------------------------------------------
\* When all is settled, each Deployment has the pods of its template, and its
\* target's Service finds them.
LEMMA SettledPods ==
    ASSUME RoutingInv, Quiet, Settled, NEW i \in 1 .. Len(Order(spec.bento)),
           NEW twin \in BOOLEAN, NEW kind \in {"generic", "production", "debug"},
           twin => HasTwin(spec, Order(spec.bento)[i]),
           kind # "generic" => HasTwin(spec, Order(spec.bento)[i]),
           twin \in ServiceSpec(spec, spec.bento, kind, Order(spec.bento)[i]).types
    PROVE  Template(spec, spec.bento, Order(spec.bento)[i], twin)
               \in Endpoints(ServiceName(kind, spec.bento, Order(spec.bento)[i]))
<1> DEFINE b == spec.bento
           t == Order(b)[i]
           d == DeploymentName(b, i, twin)
           p == Template(spec, b, t, twin)
           n == ServiceName(kind, b, t)
<1>1. b \in Bentos /\ spec \in Specs BY SpecFacts DEF RoutingInv, TypeOK
<1>2. /\ d \in DeploymentNames /\ p \in Templates
      /\ ServiceSpec(spec, b, kind, t) \in ServiceSpecs
  BY <1>1, GeneratedTypes
<1>3. deployment[d] = p BY QuietChildren
<1>4. p \in pods[d]
  <2> HIDE DEF p, d
  <2> QED BY <1>2, <1>3, AbsentAssumption DEF Settled
<1>5. p \in AllPods
  <2> HIDE DEF p, d
  <2> QED BY <1>2, <1>4 DEF AllPods
<1>6. service[n] = ServiceSpec(spec, b, kind, t) /\ service[n] # Absent
  <2>1. service[n] = ServiceSpec(spec, b, kind, t) BY QuietChildren
  <2> QED BY <1>2, <2>1, AbsentAssumption
<1>7. Selects(ServiceSpec(spec, b, kind, t), p) BY DEF Selects, ServiceSpec, Template
<1>8. p \in Endpoints(n)
  <2> HIDE DEF p, n
  <2> QED BY <1>5, <1>6, <1>7 DEF Endpoints
<1> QED BY <1>8

LEMMA RoutingServes ==
    ASSUME RoutingInv, Quiet, Settled
    PROVE  Served
<1> DEFINE b == spec.bento
           i == Len(Order(b))
           entry == ServiceName("generic", b, Api)
<1>1. b \in Bentos BY SpecFacts DEF RoutingInv, TypeOK
<1>2. i \in 1 .. Len(Order(b)) /\ Order(b)[i] = Api BY <1>1, ApiLast
\* A pod of the entry Service of the kind that the request is for handles it.
<1>3. ASSUME NEW p \in ReadyEndpoints(entry) PROVE Handlers(p.debug) # {}
  <2>1. p \in IF service[entry].proxy THEN Forward(p, p.debug) ELSE {p} BY DEF Forward
  <2> QED BY <2>1 DEF Handlers, ApiService
<1>4. \A twin \in BOOLEAN : twin \in ServiceSpec(spec, b, "generic", Api).types
  BY DEF ServiceSpec, GenericTypes
<1>5. Handlers(FALSE) # {}
  <2> DEFINE p == Template(spec, b, Api, FALSE)
  <2>1. p \in Endpoints(entry) BY <1>2, <1>4, SettledPods
  <2>2. ASSUME NEW r \in RunnerSet(b) PROVE Endpoints(RunnerAddress(p, r)) # {}
    <3>1. PICK j \in 1 .. Len(Order(b)) : Order(b)[j] = r BY <1>1, ApiLast
    <3>2. RunnerAddress(p, r) = ServiceName("generic", b, r)
      BY DEF RunnerAddress, Template
    <3>3. FALSE \in ServiceSpec(spec, b, "generic", r).types BY DEF ServiceSpec, GenericTypes
    <3> QED BY <3>1, <3>2, <3>3, SettledPods
  <2>3. p.debug = FALSE /\ p.bento = b BY DEF Template
  <2> HIDE DEF p
  <2>4. p \in ReadyEndpoints(entry) BY <2>1, <2>2, <2>3 DEF ReadyEndpoints, Ready
  <2> QED BY <1>3, <2>3, <2>4
<1>6. ASSUME DebugServed PROVE Handlers(TRUE) # {}
  <2> DEFINE p == Template(spec, b, Api, TRUE)
  <2>1. HasTwin(spec, Api) /\ \A r \in RunnerSet(b) : r \in spec.debug
    BY <1>6 DEF DebugServed, HasTwin
  <2>2. p \in Endpoints(entry) BY <1>2, <1>4, <2>1, SettledPods
  <2>3. ASSUME NEW r \in RunnerSet(b) PROVE Endpoints(RunnerAddress(p, r)) # {}
    <3>1. PICK j \in 1 .. Len(Order(b)) : Order(b)[j] = r BY <1>1, ApiLast
    <3>2. RunnerAddress(p, r) = ServiceName("debug", b, r)
      BY <2>1 DEF RunnerAddress, Template
    <3>3. HasTwin(spec, r) BY <1>1, <2>1, ApiLast DEF HasTwin
    <3>4. TRUE \in ServiceSpec(spec, b, "debug", r).types BY DEF ServiceSpec
    <3> QED BY <3>1, <3>2, <3>3, <3>4, SettledPods
  <2>4. p.debug = TRUE /\ p.bento = b BY DEF Template
  <2> HIDE DEF p
  <2>5. p \in ReadyEndpoints(entry) BY <2>2, <2>3, <2>4 DEF ReadyEndpoints, Ready
  <2> QED BY <1>3, <2>4, <2>5
<1> QED BY <1>5, <1>6 DEF Served

\* Whatever passes for other specs and Bentos left behind and wherever they
\* failed, and whatever the cleaner deletes: after a pass that did not fail,
\* requests are handled by pods of the present Bento and of the kind they are
\* for, which reach the runner pods they are to reach; and, when the pods of
\* earlier templates are gone, they are handled (Reconcile,
\* createOrUpdateOrDeleteServices, generateService, generatePodTemplateSpec).
THEOREM RequestsAreRouted == Spec => []RoutesRight
<1>1. Init => RoutingInv BY RoutingInit
<1>2. RoutingInv /\ [Next]_vars => RoutingInv' BY RoutingStep
<1>3. RoutingInv => RoutesRight
  BY RoutingIsolates, RoutingServes DEF RoutesRight, Quiet
<1> QED BY <1>1, <1>2, <1>3, PTL DEF Spec
=============================================================================
