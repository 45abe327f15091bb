---------------------------- MODULE PodGeneration ----------------------------
(***************************************************************************)
(* From the spec of a BentoDeployment to running pods: what a pass         *)
(* generates for one target (the API server, its debug twin or a runner),  *)
(* the ConfigMap of its proxy, its Deployment, its HPA and its Service,    *)
(* and what Kubernetes makes of them.  The user edits the spec, calls fail *)
(* at any point, proxies restart, and Kubernetes rolls out and scales      *)
(* meanwhile.                                                              *)
(*                                                                         *)
(* Which events start a pass is the matter of BentoDeploymentController,   *)
(* where requests go that of ServiceRouting.                               *)
(***************************************************************************)
EXTENDS Integers, Sequences, FiniteSets, SequencesExt

CONSTANTS
    Specs,          \* what the user may store: records of the fields used below
    Edits,          \* the edits that the user may make: pairs of specs
    Targets,        \* of "api", "twin" and "runner"
    Accounts,       \* the service accounts labelled for the pods of Bentos
    YataiClient,    \* whether there is a Yatai server to ask
    Minors,         \* what the API server may report as its minor version: digits
    Unset,          \* an optional field that is not there
    Bad,            \* a number or quantity that cannot be parsed
    Absent,
    MaxEdits,       \* bound: edits of the spec
    MaxFaults       \* bound: API calls that fail

ASSUME ConstantsAssumption ==
    /\ Targets \subseteq {"api", "twin", "runner"} /\ Edits \subseteq Specs \X Specs
    /\ YataiClient \in BOOLEAN
    /\ MaxEdits \in Nat /\ MaxFaults \in Nat
    /\ \A s \in Specs : DOMAIN s = {"bento", "api", "runner", "exporter"}
    /\ \A m \in Minors : Len(m) \in 2 .. 3
-----------------------------------------------------------------------------
\* Entries written one after another into a map of Go: the last one of a key stays.
Over(f, g) == [x \in DOMAIN f \cup DOMAIN g |-> IF x \in DOMAIN f THEN f[x] ELSE g[x]]

\* The part of the spec that is the target's own, as far as there is one: a runner
\* that the spec does not list has no environment, annotations or autoscaling.
Own(s, t) == IF t = "runner" THEN s.runner ELSE s.api

OwnField(s, t, field, none) == IF Own(s, t) = Unset THEN none ELSE Own(s, t)[field]

\* Resources and the extra pod fields of such a runner are those of the API server.
Inherited(s, t) == IF Own(s, t) = Unset THEN s.api ELSE Own(s, t)

\* The first of several environment variables of one name counts.  Only its plain
\* value is copied: one that refers to a Secret or a field becomes empty.
Seen(envs, i) == \E j \in 1 .. i - 1 : envs[j].name = envs[i].name

UserEnvs(s, t) ==
    LET given == OwnField(s, t, "envs", <<>>)
    IN  {[name |-> given[i].name, value |-> given[i].value] : i \in {k \in 1 .. Len(given) : ~Seen(given, k)}}

NameIn(envs, name) == \E e \in envs : e.name = name

\* The port of the server in the main container: the user's PORT, if it is a number.
ServicePort == 3000
UserPorts(s, t) == {e.value : e \in {x \in UserEnvs(s, t) : x.name = "PORT"}}
ContainerPort(s, t) == IF UserPorts(s, t) = {} THEN ServicePort ELSE CHOOSE p \in UserPorts(s, t) : TRUE

\* The object's identity, and what the Yatai server says of itself.
DefaultEnvs(s, t) ==
    {[name |-> "PORT", value |-> ContainerPort(s, t)], [name |-> "DEPLOYMENT", value |-> t]}
      \cup (IF YataiClient THEN {[name |-> "YATAI", value |-> "server"]} ELSE {})
-----------------------------------------------------------------------------
HasExporter(s, t) == s.exporter # Unset /\ t # "runner"

\* The ports beside the server's are counted from its default, in this order, and
\* before the user's PORT is known; that of the exporter is set aside always.
MonitorPort == ServicePort + 2
MetricsPort == MonitorPort + 1
ProxyPort   == MetricsPort + 1
ProbePort   == ProxyPort + 1

SidecarsClash(s, t) ==
    Over(IF t # "runner" THEN [proxy |-> MetricsPort] ELSE <<>>, [metrics |-> MetricsPort])
Sidecars(s, t) ==
    Over(IF HasExporter(s, t) THEN [monitor |-> MonitorPort, probe |-> ProbePort] ELSE <<>>,
         Over(IF t # "runner" THEN [proxy |-> ProxyPort] ELSE <<>>, [metrics |-> MetricsPort]))

Ports(s, t) == Over([main |-> ContainerPort(s, t)], Sidecars(s, t))

\* The server is told to send its monitoring data to the exporter, in a variable
\* of its options that the user may have set already: then it is replaced.
\* A line of the options is a key with a value.
OptionLines(envs) == UNION {e.value : e \in {x \in envs : x.name = "OPTIONS"}}
HasMonitoring(lines) == \E line \in lines : line[1] = "monitoring"
Endpoint == <<"monitoring", MonitorPort>>
AddMonitoringOver(envs) ==
    IF HasMonitoring(OptionLines(envs))
    THEN envs
    ELSE {e \in envs : e.name # "OPTIONS"} \cup {[name |-> "OPTIONS", value |-> {Endpoint}]}
AddMonitoring(envs) ==
    IF HasMonitoring(OptionLines(envs))
    THEN envs
    ELSE {e \in envs : e.name # "OPTIONS"}
           \cup {[name |-> "OPTIONS", value |-> OptionLines(envs) \cup {Endpoint}]}

Envs(s, t) ==
    LET envs == UserEnvs(s, t) \cup {e \in DefaultEnvs(s, t) : ~NameIn(UserEnvs(s, t), e.name)}
    IN  IF HasExporter(s, t) THEN AddMonitoring(envs) ELSE envs

\* The exporter's options: the structured ones in order, the plain ones as Go's
\* iteration over a map has it, which differs from one time to the next.
PlainOptions(s, t) ==
    IF HasExporter(s, t) THEN s.exporter.options \ ToSet(s.exporter.structured) ELSE {}
OptionOrders(s, t) ==
    IF HasExporter(s, t) THEN {s.exporter.structured \o o : o \in SetToSeqs(PlainOptions(s, t))} ELSE {<<>>}
-----------------------------------------------------------------------------
DefaultResources ==
    [requests |-> [cpu |-> 300, memory |-> 500], limits |-> [cpu |-> 500, memory |-> 1024]]

\* What the user gives replaces the default of the same name; a GPU is read from
\* the limits only.
ResourcesOverGiven(given) ==
    [requests |-> Over(DefaultResources.requests, given.requests),
     limits   |-> Over(given.limits, DefaultResources.limits)]
ResourcesConfig(given) ==
    [requests |-> Over([r \in DOMAIN given.requests \ {"gpu"} |-> given.requests[r]], DefaultResources.requests),
     limits   |-> Over(given.limits, DefaultResources.limits)]

Resources(s, t) ==
    LET given == Inherited(s, t).resources
    IN  IF given = Unset THEN DefaultResources ELSE ResourcesConfig(given)

Debugger(s, t) == t = "twin" \/ OwnField(s, t, "debug", FALSE)

Containers(s, t) ==
    {"main", "metrics-transformer"}
      \cup (IF t # "runner" THEN {"proxy"} ELSE {})
      \cup (IF HasExporter(s, t) THEN {"monitor-exporter"} ELSE {})
      \cup (IF Debugger(s, t) THEN {"debugger"} ELSE {})

\* Labels of all that is made for the target; the user may replace any of them.
KubeLabels(s, t) == Over(Inherited(s, t).marks, [version |-> s.bento, type |-> "production"])
TargetLabels(s, t) == Over(IF t = "twin" THEN [type |-> "debug"] ELSE <<>>, KubeLabels(s, t))

\* In a runner's pods the Bento's version counts, whatever the user's labels say.
OwnLabels(s, t) == Over(IF t = "runner" THEN [version |-> s.bento] ELSE <<>>, TargetLabels(s, t))

\* Extra labels for the pods come last, over the label that the Deployment selects by.
PodLabels(s, t) == Over(Inherited(s, t).labels, Over([selector |-> t], OwnLabels(s, t)))

\* The Service selects by the labels for all; that of the API server the debug pods too.
ServiceSelector(s, t) ==
    LET labels == TargetLabels(s, t)
    IN  [k \in DOMAIN labels \ (IF t = "api" THEN {"type"} ELSE {}) |-> labels[k]]
Agrees(selector, labels) == \A k \in DOMAIN selector : k \in DOMAIN labels /\ labels[k] = selector[k]

\* Accounts are listed from the cache, which has no order, and the first is taken.
NeedsAccount(s, t) == Inherited(s, t).account = Unset
AccountChoices(s, t) ==
    IF ~NeedsAccount(s, t) THEN {Inherited(s, t).account}
    ELSE IF Accounts = {} THEN {"default"} ELSE Accounts

Template(s, t, options, account) ==
    [ports |-> Ports(s, t), envs |-> Envs(s, t), resources |-> Resources(s, t),
     sharedMemory |-> Resources(s, t).limits.memory \div 2,
     containers |-> Containers(s, t), labels |-> PodLabels(s, t),
     image |-> s.bento, options |-> options, account |-> account]

\* What Envoy is given: where debug requests and all others go, of which one is the
\* server beside it, at the server's port.
ProxyConfig(s, t) == [here |-> IF t = "twin" THEN "debug" ELSE "production", port |-> ContainerPort(s, t)]

\* What is there differs from what is not.
ASSUME DistinctAssumption ==
    \A s \in Specs, t \in Targets : ProxyConfig(s, t) # Absent /\ ServiceSelector(s, t) # Absent

\* Generation gives up on a number or quantity that it cannot parse, and on a Bento
\* with a version of the library that it cannot parse.
Parses(s, t) ==
    /\ s.bento # Bad /\ ContainerPort(s, t) # Bad
    /\ LET given == Inherited(s, t).resources
       IN  given # Unset => Bad \notin Range(given.requests) \cup Range(given.limits)

\* How pods are replaced, by the user's choice.
Pods(n)    == [unit |-> "pods", n |-> n]
Percent(n) == [unit |-> "percent", n |-> n]
RollingUpdate(surge, unavailable) ==
    [type |-> "RollingUpdate", surge |-> surge, unavailable |-> unavailable]

StrategySwapped(s, t) ==
    LET wish == OwnField(s, t, "strategy", Unset) IN
    CASE wish = "Recreate" -> [type |-> "Recreate"]
      [] wish = "RampedSlowRollout" -> RollingUpdate(Pods(0), Pods(1))
      [] wish = "BestEffortControlledRollout" -> RollingUpdate(Pods(1), Pods(0))
      [] OTHER -> RollingUpdate(Percent(25), Percent(25))
Strategy(s, t) ==
    LET wish == OwnField(s, t, "strategy", Unset) IN
    CASE wish = "Recreate" -> [type |-> "Recreate"]
      [] wish = "RampedSlowRollout" -> RollingUpdate(Pods(1), Pods(0))
      [] wish = "BestEffortControlledRollout" -> RollingUpdate(Pods(0), Percent(20))
      [] OTHER -> RollingUpdate(Percent(25), Percent(25))

\* Only the twin's replicas are given; the API server makes one of none.
Deployment(s, t, options, account) ==
    [template |-> Template(s, t, options, account), strategy |-> Strategy(s, t), replicas |-> 1]

Deployments(s, t) ==
    {Deployment(s, t, o, a) : o \in OptionOrders(s, t), a \in AccountChoices(s, t)}

\* All that may be generated, per spec and target.
Generated == [s \in Specs |-> [t \in Targets |-> Deployments(s, t)]]

\* An update is skipped if what was last applied is what would be applied, and what
\* would be applied is there: replicas that are not given are not compared.
SameDeploymentReplicas(old, new) == old = new
SameDeployment(old, new) == old.template = new.template /\ old.strategy = new.strategy

\* The API server refuses a Deployment that requests more than it allows, or that
\* does not select its own pods.
Refused(t, d) ==
    LET r == d.template.resources IN
    \/ \E x \in DOMAIN r.requests \cap DOMAIN r.limits : r.requests[x] > r.limits[x]
    \/ d.template.labels.selector # t
-----------------------------------------------------------------------------
\* The spec's behavior is not carried over, and the CPU is the default metric.
Autoscaling(s, t) ==
    LET given == OwnField(s, t, "autoscaling", Unset)
    IN  IF given = Unset THEN [min |-> 1, max |-> 1, metrics |-> {}] ELSE given

\* The server's version is compared as a string, digit by digit.
StringGreater(a, b) ==
    \E i \in 1 .. Len(a) :
        /\ \A j \in 1 .. i - 1 : j <= Len(b) /\ a[j] = b[j]
        /\ i > Len(b) \/ a[i] > b[i]
RequireLegacyLate(m) == ~StringGreater(m, <<2, 6>>)
RequireLegacyHPA(m) == ~StringGreater(m, <<2, 3>>)

HPAOf(s, t, m) ==
    [version |-> IF RequireLegacyHPA(m) THEN "v2beta2" ELSE "v2",
     min |-> Autoscaling(s, t).min, max |-> Autoscaling(s, t).max,
     metrics |-> IF Autoscaling(s, t).metrics = {} THEN {"cpu"} ELSE Autoscaling(s, t).metrics]

\* Kubernetes has v2 since 1.23 and v2beta2 until 1.25.  Some providers append a
\* plus sign, which sorts before the digits.
PlusSign == -5
Number(m) == 10 * m[1] + m[2]
Serves(m, version) == IF version = "v2" THEN Number(m) >= 23 ELSE Number(m) <= 25
-----------------------------------------------------------------------------
VARIABLES
    target, minor,  \* what this instance is about; they never change
    past,           \* the specs that were stored, the current one last
    pass,           \* the calls left of the pass, and what it works with
    configMap,      \* what the proxy's ConfigMap says
    deployment,
    hpa,
    service,        \* what the target's Service selects
    pods,           \* running pods: their template, and what their proxy has read
    faults

vars == <<target, minor, past, pass, configMap, deployment, hpa, service, pods, faults>>

spec == Last(past)

\* The calls of a pass, in order, and those that the target needs.
OrderConfigLast == <<"yatai", "account", "deployment", "configMap", "hpa", "service">>
Order == <<"yatai", "configMap", "account", "deployment", "hpa", "service">>

NeededByAll(step, s, t) == step = "account" => NeedsAccount(s, t)
Needed(step, s, t) ==
    CASE step = "yatai" -> YataiClient
      [] step = "configMap" -> t # "runner"
      [] step = "account" -> NeedsAccount(s, t)
      [] step = "hpa" -> t # "twin"
      [] OTHER -> TRUE

Todo(s, t) == {step \in ToSet(Order) : Needed(step, s, t)}

Before(a, b) == \E i, j \in DOMAIN Order : i < j /\ Order[i] = a /\ Order[j] = b

Init ==
    /\ target \in Targets /\ minor \in Minors
    /\ past \in {<<s>> : s \in Specs}
    /\ pass = [todo |-> {}, spec |-> Last(past), account |-> Unset]
    /\ configMap = Absent /\ deployment = Absent /\ hpa = Absent /\ service = Absent
    /\ pods = {} /\ faults = 0

\* The user stores another spec.
EditSpec ==
    /\ Len(past) <= MaxEdits
    /\ \E s \in Specs : <<spec, s>> \in Edits /\ past' = Append(past, s)
    /\ UNCHANGED <<target, minor, pass, configMap, deployment, hpa, service, pods, faults>>

\* A pass over a spec that cannot be parsed ends before it has written anything.
Begin ==
    /\ pass.todo = {} /\ Parses(spec, target)
    /\ pass' = [todo |-> Todo(spec, target), spec |-> spec,
                account |-> Inherited(spec, target).account]
    /\ UNCHANGED <<target, minor, past, configMap, deployment, hpa, service, pods, faults>>

At(step) == step \in pass.todo /\ ~ \E other \in pass.todo : Before(other, step)

Ended(p) == [p EXCEPT !.todo = {}]
Did(step, p) == [p EXCEPT !.todo = @ \ {step}]

\* A call fails, or the process stops before it: nothing is done, and the pass is over.
Fail ==
    /\ pass.todo # {} /\ faults < MaxFaults
    /\ faults' = faults + 1 /\ pass' = Ended(pass)
    /\ UNCHANGED <<target, minor, past, configMap, deployment, hpa, service, pods>>

\* A call that was carried out is answered, or its answer is lost.
Answered(step) ==
    \/ pass' = Did(step, pass) /\ UNCHANGED faults
    \/ /\ faults < MaxFaults
       /\ faults' = faults + 1 /\ pass' = Ended(pass)

AskYatai ==
    /\ At("yatai")
    /\ pass' = Did("yatai", pass)
    /\ UNCHANGED <<target, minor, past, configMap, deployment, hpa, service, pods, faults>>

ApplyConfigMap ==
    /\ At("configMap") /\ Answered("configMap")
    /\ configMap' = ProxyConfig(pass.spec, target)
    /\ UNCHANGED <<target, minor, past, deployment, hpa, service, pods>>

ListAccounts ==
    /\ At("account")
    /\ \E a \in AccountChoices(pass.spec, target) :
           pass' = [Did("account", pass) EXCEPT !.account = a]
    /\ UNCHANGED <<target, minor, past, configMap, deployment, hpa, service, pods, faults>>

ApplyDeployment ==
    /\ At("deployment")
    /\ \E new \in Generated[pass.spec][target] :
         /\ new.template.account = pass.account
         /\ IF deployment # Absent /\ SameDeployment(deployment, new)
            THEN pass' = Did("deployment", pass) /\ UNCHANGED <<deployment, faults>>
            ELSE IF Refused(target, new)
            THEN pass' = Ended(pass) /\ UNCHANGED <<deployment, faults>>
            ELSE deployment' = new /\ Answered("deployment")
    /\ UNCHANGED <<target, minor, past, configMap, hpa, service, pods>>

ApplyHPA ==
    /\ At("hpa")
    /\ LET new == HPAOf(pass.spec, target, minor) IN
       IF Serves(minor, new.version)
       THEN hpa' = new /\ Answered("hpa")
       ELSE pass' = Ended(pass) /\ UNCHANGED <<hpa, faults>>
    /\ UNCHANGED <<target, minor, past, configMap, deployment, service, pods>>

ApplyService ==
    /\ At("service") /\ Answered("service")
    /\ service' = ServiceSelector(pass.spec, target)
    /\ UNCHANGED <<target, minor, past, configMap, deployment, hpa, pods>>
-----------------------------------------------------------------------------
\* Kubernetes.  A Deployment is rolled out at one replica: a share of it is rounded
\* up for pods more than wanted and down for pods fewer, and one of the two is one.
\* A pod waits for the ConfigMap that it mounts.
Current(p) == p.template = deployment.template

RoundedUp(x) == IF x.n = 0 THEN 0 ELSE 1
BesideOld == deployment.strategy.type = "RollingUpdate" /\ RoundedUp(deployment.strategy.surge) = 1

StartPod ==
    /\ deployment # Absent
    /\ target # "runner" => configMap # Absent
    /\ ~ \E p \in pods : Current(p)
    /\ BesideOld \/ pods = {}
    /\ pods' = pods \cup {[template |-> deployment.template, proxy |-> configMap]}
    /\ UNCHANGED <<target, minor, past, pass, configMap, deployment, hpa, service, faults>>

StopPod ==
    /\ deployment # Absent
    /\ \E p \in pods :
         /\ ~Current(p)
         /\ BesideOld => \E q \in pods : Current(q)
         /\ pods' = pods \ {p}
    /\ UNCHANGED <<target, minor, past, pass, configMap, deployment, hpa, service, faults>>

\* A proxy reads its configuration when it starts, never again.
RestartProxy ==
    /\ target # "runner"
    /\ \E p \in pods :
         /\ p.proxy # configMap
         /\ pods' = (pods \ {p}) \cup {[p EXCEPT !.proxy = configMap]}
    /\ UNCHANGED <<target, minor, past, pass, configMap, deployment, hpa, service, faults>>

\* The HPA's controller, under a load that asks for no more than the least.
Scale ==
    /\ hpa # Absent /\ deployment # Absent
    /\ deployment.replicas # hpa.min
    /\ deployment' = [deployment EXCEPT !.replicas = hpa.min]
    /\ UNCHANGED <<target, minor, past, pass, configMap, hpa, service, pods, faults>>

Pass == AskYatai \/ ApplyConfigMap \/ ListAccounts \/ ApplyDeployment \/ ApplyHPA \/ ApplyService
Kubernetes == StartPod \/ StopPod

Next ==
    \/ EditSpec \/ Begin \/ Fail \/ Pass
    \/ Kubernetes \/ RestartProxy \/ Scale

Spec == Init /\ [][Next]_vars

\* Passes come again, if only with the informers' resync, and end; Kubernetes rolls
\* out and scales.
FairSpec ==
    /\ Spec
    /\ WF_vars(Begin) /\ WF_vars(Pass) /\ WF_vars(Kubernetes) /\ WF_vars(Scale)
-----------------------------------------------------------------------------
\* The Deployment is one that the spec may generate, whatever its replicas.
Deployed(s) ==
    /\ deployment # Absent
    /\ \E d \in Generated[s][target] : d = [deployment EXCEPT !.replicas = d.replicas]

\* Types.
TypeOK ==
    /\ target \in Targets /\ minor \in Minors
    /\ past \in Seq(Specs) /\ Len(past) \in 1 .. MaxEdits + 1
    /\ pass.todo \subseteq ToSet(Order) /\ pass.spec \in Specs
    /\ configMap \in {ProxyConfig(s, target) : s \in Specs} \cup {Absent}
    /\ deployment # Absent =>
           /\ \E s \in Specs : Deployed(s)
           /\ deployment.replicas \in {1} \cup {Autoscaling(s, target).min : s \in Specs}
    /\ hpa \in {HPAOf(s, target, minor) : s \in Specs} \cup {Absent}
    /\ service \in {ServiceSelector(s, target) : s \in Specs} \cup {Absent}
    /\ \A p \in pods : p.proxy = Absent <=> target = "runner"
    /\ faults \in 0 .. MaxFaults

\* No two containers of a pod listen on one port, unless the user gives the server
\* one of the four ports after 3001, which generatePodTemplateSpec counts out for the
\* sidecars without looking at the user's PORT.
PortsDistinct ==
    deployment # Absent =>
        LET ports == deployment.template.ports IN
        \/ IsInjective(ports)
        \/ ports.main \in MonitorPort .. ProbePort

\* Whatever is in the user's list, the main container has every variable once, the
\* first value that the user gives of it, all of the user's own options, and with an
\* exporter the address of it, unless the options are about monitoring already.
EnvironmentRight ==
    Deployed(spec) =>
        LET given == OwnField(spec, target, "envs", <<>>)
            envs  == deployment.template.envs
            Kept(old, new) == IF old.name = "OPTIONS" THEN old.value \subseteq new.value
                                                      ELSE old.value = new.value
        IN  /\ \A e, f \in envs : e.name = f.name => e = f
            /\ \A i \in 1 .. Len(given) : ~Seen(given, i) =>
                   \E e \in envs : e.name = given[i].name /\ Kept(given[i], e)
            /\ "monitor" \in DOMAIN deployment.template.ports =>
                   \/ <<"monitoring", deployment.template.ports.monitor>> \in OptionLines(envs)
                   \/ \E i \in 1 .. Len(given) :
                         given[i].name = "OPTIONS" /\ HasMonitoring(given[i].value)

\* The ConfigMap is written before the Deployment that mounts it, so once a roll-out
\* is over every proxy sends its share of requests to the port its own server listens
\* on, whichever calls failed and whenever proxies restarted.  The exception is an
\* edit of the port that is undone: a proxy that restarted between the two writes
\* then keeps the port that is gone.
PortUndone ==
    \E i, j, k \in 1 .. Len(past) :
        /\ i < j /\ j < k
        /\ ContainerPort(past[i], target) = ContainerPort(past[k], target)
        /\ ContainerPort(past[i], target) # ContainerPort(past[j], target)
ProxiesAgree ==
    target # "runner" /\ Deployed(spec) /\ (\A p \in pods : Current(p)) /\ ~PortUndone =>
        \A p \in pods : p.proxy.port = p.template.ports.main

\* A Service that has a pod is never without one, unless the user chose a strategy that
\* stops the old pod first, "Recreate" or "BestEffortControlledRollout", or changed what
\* the Service selects by, if only the version of the Bento (the Service is switched when
\* the Deployment is, whether or not it has been rolled out), or gave the pods an extra
\* label that takes the place of one that the Service selects by, or a runner a version
\* among its labels that is not the Bento's: its Service selects by it, its pods lack it.
Mislabelled(s, t) == {k \in DOMAIN TargetLabels(s, t) : OwnLabels(s, t)[k] # TargetLabels(s, t)[k]}
Backed == service # Absent /\ \E p \in pods : Agrees(service, p.template.labels)
Relabelled ==
    \/ \E i, j \in 1 .. Len(past) : TargetLabels(past[i], target) # TargetLabels(past[j], target)
    \/ \E i \in 1 .. Len(past) :
          DOMAIN Inherited(past[i], target).labels \cap DOMAIN ServiceSelector(past[i], target) # {}
    \/ \E i \in 1 .. Len(past) : Mislabelled(past[i], target) # {}
ServesThroughout ==
    [][Backed => \/ Backed' \/ Relabelled'
                 \/ \E i \in 1 .. Len(past) : OwnField(past[i], target, "strategy", Unset)
                                         \in {"Recreate", "BestEffortControlledRollout"}]_vars

\* What the user gave of a resource, or the default; what can be deployed at all.
Wish(s, kind, r) ==
    LET given == Inherited(s, target).resources
    IN  IF given # Unset /\ r \in DOMAIN given[kind] THEN given[kind][r] ELSE DefaultResources[kind][r]
Deployable(s) ==
    /\ Parses(s, target)
    /\ \A r \in {"cpu", "memory"} : Wish(s, "requests", r) <= Wish(s, "limits", r)
    /\ "selector" \notin DOMAIN Inherited(s, target).labels

\* A spec that can be deployed is deployed in the end, with the resources it asks for,
\* whatever spec was stored before it and whichever calls failed, and its Service selects
\* its pods, as far as their extra labels leave the others alone and a runner's own labels
\* do not claim another version than the Bento's (then it selects none, as
\* generatePodTemplateSpec puts the version over the user's and generateService does not);
\* the specs that cannot be deployed are those that cannot be parsed, replace the
\* selector's label, or ask for less of a limit than the request that getResourcesConfig
\* leaves in place.
DeployedInTheEnd ==
    <>[](Deployable(spec) =>
            /\ Deployed(spec)
            /\ target # "runner" => configMap.port = deployment.template.ports.main
            /\ service # Absent
            /\ LET left == DOMAIN service \ (DOMAIN Inherited(spec, target).labels \cup Mislabelled(spec, target))
               IN  Agrees([k \in left |-> service[k]], deployment.template.labels)
            /\ \A r \in {"cpu", "memory"}, kind \in {"requests", "limits"} :
                   deployment.template.resources[kind][r] = Wish(spec, kind, r))

\* Passes that find nothing to change rewrite nothing, although the HPA's controller
\* changes the replicas of the same Deployment: it settles, unless its template depends
\* on the order in which a map of options or a list of accounts is read.
Ambiguous(s) ==
    \/ Cardinality(PlainOptions(s, target)) >= 2
    \/ NeedsAccount(s, target) /\ Cardinality(Accounts) >= 2
DeploymentSettles ==
    <>[](~Ambiguous(spec)) => <>[][deployment' = deployment]_vars

\* Every update of a Deployment sets its replicas back to one; the target still has
\* the replicas it is to have at the least again and again, on every version of
\* Kubernetes with two digits.
CapacityComesBack ==
    []<>(Deployable(spec) /\ target # "twin" /\ OwnField(spec, target, "autoscaling", Unset) # Unset =>
            /\ deployment # Absent
            /\ deployment.replicas >= OwnField(spec, target, "autoscaling", Unset).min)
=============================================================================
