# Verification of yatai-deployment

yatai-deployment is a Kubernetes controller. A user applies a *BentoDeployment*
that names a *Bento* (a packaged model server with an API server and any number
of runners), and the controller keeps Deployments, HorizontalPodAutoscalers,
Services and an Ingress as the object asks. This directory holds TLA+ models of
it, the TLC configurations that check them on small instances, and theorems
that TLAPS proves for every instance.

    tlc -config MCLag.cfg MCBentoDeploymentController
    tlapm StatusRefinement_proofs.tla

Paths below are relative to `src/`; `controllers/` files are named without it.

## 1. Inventory

| Part | Code | State | Operations | Correct when |
|---|---|---|---|---|
| Passes | `bentodeployment_controller.go:94-564` | locals of one pass: the object's copy, the Bento, the BentoRequest | `Reconcile` | children and status come to agree with the spec |
| Status writes | `handleOthers.go:50-75` | the object's three conditions | `setStatusConditions`: read, update, up to three times, read back | no edit and no condition is lost, and none claims what nobody found out |
| Watches and queue | `bentodeployment_controller.go:568-650` | informer caches, the rate-limited queue | predicates, map functions, resync | no event that matters is dropped, and the controller does not feed itself |
| Child appliers | `handleDeployment.go:53-289`, `handleService.go:47-228`, `handleHPA.go:45-130`, `handleIngress.go:47-161` | Deployments, HPAs, Services, Ingress | create, update, delete or skip after a cached read | a child is as generated, whatever was read stale |
| Names and routes | `handleOthers.go:121-167`, `handleService.go:230-357`, `handleDeployment.go:518-598, 824-870` | names, selectors, ports, runner maps, proxies | generation of Services and pod templates | requests reach the pods they are for, through roll-outs and debug mode |
| Cleaner | `handleService.go:359-440` | its list of Services | list, check, delete, every 30 s | goes after abandoned Services and nothing else |
| Configuration caches | `handleOthers.go:77-119`, `handleIngress.go:163-254` | four package variables per process | read once, kept for the life of the process | what the rest of the process works with does not change under it, and what is generated fits together |
| Registration | `handleOthers.go:198-270` | none | a ticker repeats one call | Yatai knows the component in the end |
| Yatai server sync | `bentodeployment_controller.go:433-564` | the deployment's record at the Yatai server | get, create or update, ask for its status | the record is the object, and has no revision without a change |
| Generation of pods | `handleDeployment.go:291-1180`, `helper.go:20-420` | none | pure construction, but from maps and lists in any order | containers, ports, environment and resources fit together and are what the user asked for |
| HPAs | `handleHPA.go:45-290` | none | bounds, metrics, choice of the version | the replicas asked for come back after every update |
| Ingress | `handleIngress.go:47-161, 256-420` | none | host, class, TLS, five layers of annotations | host and certificate agree, and the host stays |
| API conversions | `apis/serving/v1alpha{1,2,3}/bentodeployment_conversion.go` | BentoRequests that a conversion makes | to and from v2alpha1 | writing back what was read loses what the old form cannot say, once, and nothing else |
| Program | `main.go` | the lease | starts everything above, with or without an elected leader | |
| Yatai client | `yatai-client/client.go` | none | HTTP calls | |

`controllers/bentodeployment_controller.bk.go` is commented out as a whole;
`generated/`, manifests and images are outside.

**How they interact.** Everything goes through the Kubernetes API server. The
controller reads only its informers' caches, which lag, and writes to the API
server. An informer's event passes a predicate and possibly a map function and
puts the object's key into the queue, which runs one pass per key at a time. A
pass writes the status (which makes events of the object it watches) and the
children (which make events too). The cleaner is a second goroutine that
deletes what passes create. Outside are users, the image builder that makes
Bentos from BentoRequests, the garbage collector, the HPA and Deployment
controllers, and the Yatai server. The cleaner and the registration run in every
process, leader or not (`bentodeployment_controller.go:572-582` starts them as plain
goroutines), and share the configuration caches with the passes.

**What is hard.** A pass is a long sequence of calls, of which each may fail
with or without having been carried out, and each read of which may be older
than the pass's own writes; the copy of the object is replaced in the middle of
it (`setStatusConditions` returns what it reads back); a deferred function turns
its errors into a status write and forgets them; two kinds of events are
filtered; the process may stop anywhere; and the children it applies one by one
are in use while it applies them. Configuration is read at different moments by
different goroutines and processes, and never again. `PROJECT.json` lists each of these at its
line with the properties that look after it.

## 2. Plan

1. `BentoDeploymentController`: passes, status, watches, queue (done).
2. `DeploymentStatus`: what the status promises; refinement checked and proved (done).
3. `ServiceRouting`: names, selectors, debug twins, roll-out, cleaner (done).
4. `ConfigurationCaches`: processes, leader election, the four package variables, the
   registration and the passes that fill them, and what follows from them: the
   Ingress, the record at Yatai, the cleaner's namespaces (done).
5. `PodGeneration`: what a pass generates for one target, and its roll-out with
   both strategies and the HPA controller (done).
6. `ApiConversion` with `Autoscaling`, which `ConfigurationCaches` uses too (done).
7. `SharedNames`: two objects `x` and `x-d` in one namespace, whose children
   have the same names (`getKubeName`): owner references, adoption, mutual deletion.

Proofs: every invariant and every action property of the passing runs has its theorem (section 8);
the temporal ones under fairness are model-checked.

Composition: `BentoDeploymentController` instantiates `DeploymentStatus`.
`ServiceRouting` takes the other half of the same pass: it has the content of
children and lets caches be current, while `BentoDeploymentController` has the caches
and lets the content of a child be the Bento and the config it was made from.
What the first says of events (every event of a Deployment enqueues, of a
Service only creation and deletion; a failed pass is not retried for its error)
is what the second assumes. `PodGeneration` is the same pass once more, for one target,
with the rest of a child's content; `ConfigurationCaches` is its beginning (the
configuration) and its end (Ingress and Yatai), for several processes. The three
take the object's copy as current and children as read back at once, since what
stale reads can do to a pass is what `BentoDeploymentController` is about. Both
`ConfigurationCaches` and `ApiConversion` extend `Autoscaling`.

## 3. BentoDeploymentController

One object, its Bento and BentoRequest, its children, as stored and as cached.

| Variable | Code |
|---|---|
| `stored`, `cached`, `pending` | the object: at the API server, in the informer's cache, and the versions in between, in order |
| `bento`, `request`, `child` and `...Seen`, `lagging` | the same for the other kinds; a cache may skip versions |
| `dirty`, `backoff` | the key in the queue; the key waiting to be put back |
| `pc`, `site`, `try`, `next` | the line of `Reconcile`, the call of `setStatusConditions` with its attempt, the child |
| `bd`, `target`, `req`, `conf` | `bentoDeployment`, `bentoCR`, `bentoRequest`; whether the Yatai configuration has been read |

`Begin`, `GetBento`, `GetRequest`, `TryStatus`, `RegetStatus`, `StatusGone`,
`ApplyChild` and `Sync` are the pass, one action per call of the API server;
`Abort` is its deferred function, `StatusError` the paths on which it is not yet
installed or is itself what fails. `DeliverBD`, `DeliverBento`, `DeliverRequest`,
`DeliverChild`, `TouchHPA` and `Resync` are the watches with their predicates.
`EditSpec`, `DeleteBD`, `BuildBento`, `RemoveBento`, `ChangeRequest`,
`TamperChild` and `CollectChild` are the world; `Restart` loses queue and locals
and lists everything anew. Left out: reasons, messages and events of
conditions, except that a message may make a version (`StoreStatus`); what a
child contains besides the Bento and config it was generated from, and foreign edits of
a child's metadata alone.

| Run | Question | Instance |
|---|---|---|
| `lag` | Is the status true when the controller rests (`QuietStatusIsTrue`), and does it ever move as it must not (`KeepsPromise`)? | one Bento; debug twin on or off, so that passes delete children as well; debug Deployment and Service; caches lag by any amount; 1 edit (of spec, Bento, request or child, or deletion), 1 failed call, 1 restart; any number of Bentos is the matter of `QuietStatusAlwaysTrue` (section 8) |
| `heals` | Does the controller come to rest, is the desired state reached, also when edits fall in the middle of passes, and are a deleted object's children collected, also those created after? | one Bento, debug twin on or off; debug Deployment, HPA, Service; 2 edits or deletions, 1 failed call, 1 restart, foreign edits of Services; prompt caches; fair |
| `stale_status` | Does it rest only when done? (violated) | nothing fails, nothing is edited; lagging |
| `request` | Is BentoRequestFound true? (violated) | one Bento that is not built |

The bounds are on what the environment does, never on the controller: queue,
caches and passes run as long as they like. One edit, one failure and one
restart suffice for each of the races in the list of hazards, since they can
fall at every point of every pass, with every cache at every age; two edits are
what it takes to change something back. `CHECK_DEADLOCK FALSE` is there since the
system rests when its bounds are used up.

**Prompt caches.** The liveness run sets `PromptCaches`: the controller's next step
waits for the caches. Without it `ComesToRest` and `DesiredStateReached` need not
hold: a cache that stays behind by exactly the right amount makes every pass
change `BentoRequestFound` again, or conflict with itself, for ever. Nothing in the code
bounds the lag; informers are fast against passes, so this run says what
happens when that is so, and the safety runs say what is true when it is not.

**Fairness.** `FairSpec` has weak fairness on the pass (one goroutine always runs), on
each informer's delivery, on the queue's timer, on the garbage collector and on
the informers' resync (`main.go` leaves the period at its default of ten hours). None
on users, failures and restarts. The resync matters: a pass that failed
returns nil (section 9), and the watches of Bento, BentoRequest and HPA, which have no
predicate, are all that brings the object back when nobody edits anything.

A Service has no generation, so `GenerationChangedPredicate` drops every update of
one. An edit of a Service by another client therefore stays until something else
starts a pass, and so may the content of an edit that was reverted while a cache
lagged. `Maintained` asks of a Service only that it is there. An edit of the labels or
annotations of a Deployment or an Ingress does not raise its generation either and is dropped like
that; `TamperChild` edits what the generation counts, and `Maintained` speaks of that.

## 4. ServiceRouting

The children of one object in use. `deployment` and `service` are what is
stored, `pods` the templates of the pods each Deployment has, `cfg` and `bento`
what the pass works with, `at` and `part` where it is: `ApplyPart` applies one
child, `Apply` is that or a failure. Names are as the code makes them: a runner's
Deployment is named for its place in the Bento, its Services for Bento and
runner, the API server's Services for the object alone. `StartPods` and `StopPods` are
the Deployment controller with the rolling strategy: old pods go when new ones
are ready, and a pod of the API server is ready when all addresses of its
runner map answer. `ListServices`, `CheckService`, `DeleteService` are the cleaner.
`Handlers` follows a request from the Ingress' Service through the Envoy proxies
to the pods that may handle it.

| Run | Question | Instance |
|---|---|---|
| `moved` | When the controller rests after a pass that did not fail, does every request get to the right pods (`RoutesRight`)? Is a production API server ever without a Service of its runner (`RunnerServicesStay`)? Does one ever reach pods of another Bento or runner (`VersionsAgree`)? | two Bentos with two runners and one, so that a Deployment changes its runner; one runner may be put into debug mode; 1 edit, 1 failed call |
| `cleaner` | Are requests served in the end, and the former Bento's Services collected, with the cleaner at work? | runner Services labelled; 1 edit, 1 failed call; fair |
| `abandoned` | The same for Services labelled as the code does (violated) | |
| `runner_map` | Does each address of a runner map lead to a Service? (violated) | no edit |

Three facts that shape the properties:

- Between the creation of the debug API server and the switch of the generic Service to the proxy's
  port, plain requests reach debug pods; `RoutesRight` speaks of the time after the pass.
- The selector of the API server's Service holds the Bento's version, so an
  upgrade drops the old pods before the new ones are ready. `RoutesRight` asks that
  somebody serves only when the roll-out is over.
- A debug API server knows a runner only by its debug Service or by one that does not exist
  (section 9), so debug requests are promised an answer only if every runner is in debug mode.

`RunnerLabel` says whether the user gave the runners the label the cleaner
selects; FALSE also stands for a disabled cleaner. Caches are current here and Kubernetes' own
controllers eventually act: fairness is weak on the pass, the resync after a
failure, the cleaner's ticker, each Deployment's pods and the passing of time. A resync after a
pass that did not fail would change nothing and is left out.

## 5. PodGeneration

One target of an object (its API server, the debug twin of that, or a runner), what a
pass makes for it, and what becomes of that in the cluster.

| Variable | Code |
|---|---|
| `target`, `minor` | the target, and the server's minor version as it reports it |
| `past` | the specs stored so far; the last is `spec` |
| `pass` | the calls still to come, the spec they are for, the service account found |
| `configMap`, `deployment`, `hpa`, `service` | what is stored |
| `pods` | the template that each pod was made from, and the ConfigMap its proxy read at its start |

`UserEnvs`, `Ports`, `AddMonitoring`, `OptionOrders`, `ResourcesConfig`, `Strategy`,
`RequireLegacyHPA` and their neighbours are the pure functions of
`generatePodTemplateSpec`, `getResourcesConfig` and `requireLegacyHPA`; `Generated` has every Deployment that
a spec may give, of which there are several where the code reads a Go map or an
unsorted list. `Begin` and the `Apply...` actions are a pass, one per call, each with
its refusals, failures and lost answers; `StartPod`, `StopPod`, `RestartProxy` and `Scale`
are Kubernetes.

`pass.todo` is a set of calls, which are made in the order of `Order`. Labels, ports and resources are
functions that `Over` puts together as Go fills a map: what is written last stays. The user's list of
variables is a sequence, of which the first of a name counts (`Seen`); the container's is the set of what it
holds, since nothing depends on its order.

| Run | Question | Instance |
|---|---|---|
| `pods` | Do ports, environment, resources, proxy, Service and replicas of a target fit together, during roll-outs (`ServesThroughout`, `ProxiesAgree`) and in the end (`DeployedInTheEnd`, `DeploymentSettles`, `CapacityComesBack`)? | all three targets; eight specs, edited from the first to any other and back; two accounts; minor versions 23+ and 26; 2 edits, 1 failed call; fair |

The eight specs between them have a port given twice, one that clashes and one that does not parse, an
exporter with options in no order, a limit below the default request, labels that
replace generated ones (for a runner the Bento's version, too), and the two strategies. Two edits are there and
back again, the least that an old proxy or pod can notice.

Each exemption in a property is a case in which the code does not do what the
property says of all others, and names just that case:

- `PortsDistinct`: sidecar ports are counted from 3001 before the user's PORT is read, so a
  PORT of 3002 to 3005 clashes (`handleDeployment.go:312`).
- `ProxiesAgree`: an edit of the port that is undone while a proxy restarts (`PortUndone`).
- `ServesThroughout`: strategies that stop first, an edit that changes the labels which
  the Service selects by, of which a new Bento is one, an extra label of the pods that takes the
  place of one of these, and a runner that claims another version (`Relabelled`). Such an extra label is any label, also one that the user gave the object
  (`handleDeployment.go:1086-1115` copies the extra ones over all others): no spec of the instance
  shows that, the proof asks for it.
- `DeployedInTheEnd`: specs that cannot be parsed, that give a limit below the default
  request, or that replace the label that the Deployment selects by (`Deployable`).
- `DeployedInTheEnd` and `ServesThroughout`: a runner whose own labels contain the Bento's version (or
  repository) with another value (`Mislabelled`). `generatePodTemplateSpec` sets these two again over the user's in
  the pods of runners (lines 294-297), `generateService` leaves the user's in the selector: such a
  runner's Service selects no pod. The instance has one, and without the exemption TLC reports it.
- `DeploymentSettles`: two plain options, or two labelled accounts, in no order (`Ambiguous`): each pass
  may then generate another template, and the Deployment is rolled out anew.

## 6. ConfigurationCaches

The processes of the program, what each has read of its configuration, and what
depends on that.

| Variable | Code |
|---|---|
| `elect`, `registers`, `cleans` | settings: leader election, registration and cleaner on or off |
| `lease`, `up`, `watched` | the leader, the processes that run, the namespaces of each one's informers (`main.go:104`) |
| `network`, `secret`, `namespaces`, `spec`, `remote` | the sources: ConfigMap, Secret or environment, namespaces, the object, and the Bentos that Yatai has |
| `cache` | per process the four package variables |
| `pass`, `registration` | how far each process's pass and registration are, and what they have read |
| `ingress`, `available`, `record`, `synced`, `registered` | the Ingress, the message of the condition, Yatai's record (the Bento of its target and the configuration) and whether its status was asked for, the registration |
| `services` | the Services that the cleaner finds: namespace, whether it has the label of runners, whether it has pods, whether it is older than three minutes |

`RegisterRead` and `RegisterStore`, `Begin` and `Store` are two reads and two stores of the one variable that
two goroutines share. `ReadDomain` to `WriteIngress` are `createOrUpdateIngresses`, `GetRemoteBento` to `SyncStatus`
the Yatai part of `Reconcile`, one action per call; `CleanUp` is one round of the cleaner (its races are in
`ServiceRouting`). `Exit` and `Start` replace a process; `Change` is the administrator or the user, or
a Bento pushed to Yatai or removed there; `Age` is the passing of three minutes.

`NoChange` compares what the code compares, `Targets[0].Config`, of which the Bento is no part: hence
`SyncedInTheEnd` is about the configuration, and `BentoArrives` is violated (section 9). `DoCleanUp` takes
what has the label. Services made by passes do not have it (section 9), so `CleanedInTheEnd` says what the cleaner
does for Services that somebody labelled, and where.

| Run | Question | Instance |
|---|---|---|
| `config` | Does what was read stay (`CachesStick`), do host and certificate agree (`HostStays`, `CertificateMatches`), has each revision at Yatai a reason (`NoEmptyRevision`), and are Ingress, record, registration and cleaning as the caches say in the end? | two processes, elected or both leading, in six settings (registering or not, with the cleaner or not, with a Yatai server or not); three networks, one of them not readable; four Secrets; four specs, two of them for two Bentos with one configuration; in each of two namespaces of three the cleaner's four kinds of Services, young and old; 1 change, 1 process replaced, 1 failed call; fair |
| `other_bento` | Does Yatai come to know that an object was moved to another Bento? (violated) | one process, nothing fails, two specs that differ in their Bento alone; 1 change; fair |

One change, exit and failure each, at any point of either process, are what it takes to
have two processes that have read different things, which is what every one
of these properties is about. Longer histories only add further generations of the same, and five of
the properties are proved for any (section 8).

What the properties leave out is again what the code leaves undone: two leaders that have read different
configurations rewrite each other's Ingress and record for ever (`Agree`; the flag's default in
`main.go:76` is no election, the chart asks for one); a certificate follows a
new domain suffix when another process takes over and the host does not (`exits = 0`); the
cleaner stops at a namespace that its process does not watch.

**Fairness.** Weak on each process' pass, registration, cleaner and start, and on the
election. A pass that failed comes again with a resync, the registration with its ticker every five
minutes, the cleaner every thirty seconds, and a process because its Deployment
replaces it; and Services grow old. None on changes, exits and failures.

## 7. ApiConversion and Autoscaling

The conversion functions between the resource's four versions, as the API server would
call them, one action per call that a conversion makes: `CreateRequest`,
`GetRequest`, `UpdateRequest` are `ConvertTo` of v1alpha3 (to which v1alpha1 and v1alpha2 delegate), and `Store` is the
API server's write of the result if nobody else wrote meanwhile. `Read` is `ConvertFrom`,
which needs the Bento; v1alpha1 and v1alpha2 return `Nothing`, since they fill a copy that is
dropped. `WriteHub`, `Build` and `DeleteRequest` are other clients and the image builder. `Autoscaling` has
`TransformToOldHPA`, which the Yatai record uses as well, and the two forms of autoscaling (`OldScale`, `NewScale`).
An environment is a set of variables: conversions keep the order and nothing depends on it. Quantities are in
thousandths; the older form has a whole number of queries per second, so `Value` rounds a fraction up. A metric of another name or
another type, or of these three with another type of target, has the name "other".

| Run | Question | Instance |
|---|---|---|
| `conversion` | What do conversions lose, and does it end (`WriteBackKeeps`, `WriteBackSettles`)? Does what the oldest versions return get into the store (`LossesStayOut`)? Can an object that came in an old version be read in the end (`ReadableInTheEnd`)? | two clients; two tags and a Bento of another name; three contents in the old form, three in the new, with memory targets of each kind, a metric given twice and taken back, one with a fraction, one of another type, and a quantity that does not parse; 2 writes, 1 failed call, 1 deletion; fair |

Two writes are a write and its write-back, or two clients that overwrite each other. A write-back loses fields
that no conversion copies (the behavior of the autoscaling among them), variables that take their value from elsewhere, and of the
metrics those that `Lost` names: all of another name or type (custom Pods metrics, Object, External), those without the number that
`TransformToOldHPA` looks at, all but the last of a name, and targets of zero. Of those that stay it loses
the second number, and a fraction of a number of queries becomes one more (`StandsFor`). `KeepsScale` asks that every other
metric is kept and that none is added but the default where none is left. A memory target without a value
is printed as `<nil>` (`v1alpha3/bentodeployment_conversion.go:77`) and does not parse, so the write-back is refused. A memory target with both a share and a value loses one after the other (`BothTargets`).
Fairness: the API server finishes calls, the image builder builds.

## 8. Proofs

| Theorem | Module | Says |
|---|---|---|
| `TypeCorrect` | `BentoDeploymentController_proofs` | `Spec => []TypeOK` |
| `StatusKeepsPromise` | `StatusRefinement_proofs` | `Spec => KeepsPromise`: the controller implements `DeploymentStatus` |
| `QuietStatusAlwaysTrue` | `QuietStatus_proofs` | `Spec => []QuietStatusIsTrue` |
| `TypeCorrect` | `ServiceRouting_proofs` | `Spec => []TypeOK` |
| `RunnerServicesNeverGo` | `ServiceRouting_proofs` | `Spec => []RunnerServicesStay`, if `RunnerLabel = FALSE` |
| `VersionsAlwaysAgree` | `ServiceRouting_proofs` | `Spec => []VersionsAgree` |
| `RequestsAreRouted` | `RequestRouting_proofs` | `Spec => []RoutesRight`, whatever `RunnerLabel` |
| `PodTypes` | `PodGeneration_proofs` | `Spec => []TypeOK` |
| `PortsAreDistinct` | `PodGeneration_proofs` | `Spec => []PortsDistinct` |
| `ProxiesAlwaysAgree` | `PodGeneration_proofs` | `Spec => []ProxiesAgree` |
| `ServiceNeverEmpty` | `PodGeneration_proofs` | `Spec => ServesThroughout` |
| `EnvironmentAlwaysRight` | `PodGeneration_proofs` | `Spec => []EnvironmentRight` |
| `TypeCorrect` | `ConfigurationCaches_proofs` | `Spec => []TypeOK` |
| `WhatIsReadStays` | `ConfigurationCaches_proofs` | `Spec => CachesStick` |
| `NoRevisionIsEmpty` | `ConfigurationCaches_proofs` | `Spec => NoEmptyRevision` |
| `HostsStay` | `ConfigurationCaches_proofs` | `Spec => HostStays` |
| `CertificatesMatch` | `ConfigurationCaches_proofs` | `Spec => []CertificateMatches` |
| `TypeCorrect` | `ApiConversion_proofs` | `Spec => []TypeOK` |
| `NoLossIsStored` | `ApiConversion_proofs` | `Spec => LossesStayOut` |
| `AutoscalingSettles` | `ApiConversion_proofs` | a second round trip of autoscaling changes nothing, whatever its bounds and metrics, if it has no memory target |
| `WhatIsReadIsKept` | `ApiConversion_proofs` | `Spec => WriteBackKeeps` |
| `WritingBackSettles` | `ApiConversion_proofs` | `Spec => []WriteBackSettles` |

All hold for every value of the constants that satisfies the modules' ASSUMEs:
any number of Bentos, runners, configs, children, processes, clients and tags, any order of
children, any bounds. The assumptions say what the constants are, that the values for "none"
are none of the others (`Nil` is no number, tag, process or Secret, `Absent` no child), that a Bento names each of
its runners once, that a readable network configuration has a domain, and that the program's
settings at its start are among those given. What clients write is typed (`PartsOf`).

*StatusKeepsPromise.* A status write sends the whole object, made from a cached
copy that may be old; why does it never bring an old spec or condition back? It is
accepted only when the cache is current (`Current`), so what is written is the
stored object with the conditions of one call changed. Whether *that* is a step
of `DeploymentStatus` depends on what is stored when the pass gets there:
`Available` may become True only while the stored `BentoFound` is True. The
inductive invariant `StatusInv` has, besides the types: `Latest` (the newest
pending version, or else the cache, is the stored object), `Phase` (what is
stored for sure at each `pc` and `site`: nobody else writes conditions, so what
the pass has written stays), `Agreed` (a pass branches on `BentoRequestFound` as
it reads it back from the cache, and stale as that may be it is what is stored)
and `Precedes` for each version that may still reach the cache (whether the
version was started decides whether a pass resets the conditions to Unknown,
and that must not happen to a stored object that is further on).

*QuietStatusAlwaysTrue.* What a pass has read may be stale when it writes the status, and stale again when it
has ended. The argument is that of level-triggered controllers: while nothing has queued the key since
the pass began (`~dirty`), the caches still hold what the pass read, as far as it depends on it. `Knows`
says that at each `pc` and `site`: on which branch the pass is, that `req` is the request in the
cache, and of each child that it is past (`Applied`) that it is as it is to be or lags behind in a cache
whose catching up queues the key (`Secured`). A Service that another client changes queues nothing, so of
Services that is claimed of their presence alone, as `Maintained` does. `Concluded` is what is left of this when
the pass has ended; in a quiet state nothing lags, and it is the property. `Outcome` says what the last
status write has stored when its answer is still to be read, `SeenOrLagging` that a child that does not lag is
in the cache as it is. `StatusInv` is the rest.

*RunnerServicesNeverGo.* `RunnerServicesStay` is not inductive: when the pass writes the API server's
Deployment, that the runners' Services exist follows only from where the pass
is. `Applied` says that the generic Service of each runner the pass is past exists;
with `NothingListed` (a cleaner whose label nothing carries has nothing to do)
and `TypeOK` it is. No step takes a generic Service away, which keeps the property for
templates and pods of earlier passes. With the label the cleaner may delete a
Service whose runner has no pods at the moment; then the property fails, and
`ServedInTheEnd` is what is left.

*VersionsAlwaysAgree.* A Service selects what it is named for (`NamesAgree`), and a
pod's runner map names Services of its own Bento.

*RequestsAreRouted.* `RoutingInv` has, besides the types: `Generated`, that as long as the object is not queued
the pass works with the present spec and each child it is past is as that spec and Bento generate it;
`UpToDate`, on how a pass comes to work with it; and `Placed`, that a Deployment runs pods of its own kind. At rest
every child has been passed. What is left is a lemma per hop: from the Ingress' Service through the
proxies' routes to the pods that the generated selectors and ports allow. An edit and a deletion by the cleaner both
queue the object, so with the cleaner the theorem is the same.

*PodTypes, ProxiesAlwaysAgree.* `PodInv` says of everything there is from which stored spec it was made: the
Deployment from `past[i]`, the ConfigMap from `past[j]`, and the pass works with `past[k]`, where `i <= j <= k`
since `Order` has the ConfigMap first; of a pod, its template from `past[a]` and its proxy's configuration from
`past[b]`, where `a <= b <= j`. When the template is that of the current spec, its port is that of `past[a]` and of the
last; the proxy's is that of a spec in between, and another one only if the port was changed and changed
back.

*PortsAreDistinct.* `SidecarPorts` computes the four ports, `PortsApart` adds the user's.

*ServiceNeverEmpty.* While neither labels nor strategies are of those excepted, pods have the labels that are
selected by (`PodLabelAt`), the Service selects by the labels of
every stored spec, and the pods of all of them have these (`BackedByAll`). So a pod may go only if another is there:
`StrategyKeeps`, of which the strategies start the new pod first.

*EnvironmentAlwaysRight.* `PodInv` gives the spec that the Deployment was made from; what is left is about functions.
The user's variables (`UserEnvsFacts`), the generated ones (`DefaultEnvsFacts`) and the two together have no name twice;
`AddMonitoringFacts` says that the last step replaces the options by more options and nothing else.

*TypeCorrect of ConfigurationCaches.* `TypeOK` says that a pass runs only in a process that leads, and that it
has what its step needs. It is inductive with `Shape` (which fields the records have) and
`Known` (what has been read is one of the values there are).

*WhatIsReadStays.* Only the two `Store` steps replace what is cached, and only a read that found nothing leads
to one. `TypeInv` is enough.

*NoRevisionIsEmpty.* A pass decides on an update some steps before it sends it. `RecordKnown` says that
meanwhile the configuration at Yatai still differs from what will be sent. That nobody else changes the record follows
from `OnePass`: with an elected leader at most one process is in a pass, since one that loses the lease ends.

*HostsStay, CertificatesMatch.* `HostKnown` carries the kept host from the read of the Ingress to its update, by
`OnePass` again. `DomainKnown` relates four things while no process has ended: the suffix in the leader's cache, the
suffix that its pass holds, the Ingress it has generated, and the stored one. Only the leader has a suffix,
so a change of the ConfigMap reaches none of them.

*NoLossIsStored.* An object with the empty tag never gets to the step `store`: that is a conjunct of `TypeOK`, and the two
oldest versions return nothing else.

*AutoscalingSettles.* `OldOfNewMetrics` computes what the older form keeps of metrics that were made from it, in the
four cases that `NewMetrics` distinguishes; the default metric for the CPU is why the
first round trip may change something and the second does not. That the last metric of a name exists in a list of any length
(`LastExists`) is the well-foundedness of the natural numbers, which the library has for sets, without an operator to instantiate.

*WhatIsReadIsKept, WritingBackSettles.* `CopyInv` says that what a client has read in v1alpha3 is the conversion of what is
stored (`AsStored`), as long as the revision it was read at is the current one, that a request and what was
built for it have the name of their tag, and that contents have the form of their version. A write-back that is
accepted was read at the current revision, so it is the round trip of what it replaces. Of that, `ScaleIsKept` and
`EnvsSettle` say what is kept, for any list: a metric that is not lost is the last of its name that is looked at (`KeptIsLast`), its
number is the one in the old form (`OldNumbers`), and each number there makes one metric (`MadeMetrics`). Names need not differ for different tags.
The proof showed that the property was too strong: it had said that a target of zero beside another of its name keeps the other, but the last one
of a name counts in `TransformToOldHPA` and zero is dropped in `TransformToNewHPA`. The instance has one since then.

Only model-checked:

- Everything under fairness, which is out of the prover's reach: `ComesToRest`, `DesiredStateReached`,
  `NothingLeftBehind`, `ServedInTheEnd`, `AbandonedServicesGo`, `DeployedInTheEnd`, `DeploymentSettles`,
  `CapacityComesBack`, `IngressInTheEnd`, `SyncedInTheEnd`, `RegisteredInTheEnd`, `CleanedInTheEnd`, `ReadableInTheEnd`.

## 9. Findings

- **A failed pass is forgotten** (`bentodeployment_controller.go:143`, run
  `stale_status`). The deferred function assigns its own status write's result
  to `err`, so the pass returns nil and is not queued again. Three conflicts with the
  pass's own earlier write, read from a cache that has not seen it, are enough.
  `docs/bento-deployment.yaml` is such an object. The same holds for any call that fails.
- **BentoRequestFound=True without a request** (`bentodeployment_controller.go:239`,
  run `request`): the read's error is overwritten by the write that reports it.
- **The cleaner never finds a Service** (`handleService.go:391`, run `abandoned`):
  nothing sets the label that it selects.
- **A debug API server is told to use a Service that its pass deletes** (`handleDeployment.go:536`, run
  `runner_map`), for each runner that is not in debug mode itself, and so never becomes ready.
- **Yatai is not told of another Bento** (`bentodeployment_controller.go:527`, run `other_bento`): what is sent is
  compared without the target's Bento, so a move to one with the same configuration is skipped with "No change in yatai
  deployment %s, skipping", and Yatai shows the former one until the configuration changes.

## 10. Not modelled

- `controllers/bentodeployment_controller.bk.go`: all 3270 lines are commented out, a quarter of the lines
  counted as the implementation.
- `generated/`, `zz_generated.deepcopy.go`, manifests, the chart, container images: no logic of this repository.
- Two objects whose children have the same names (`x` and `x-d`, `handleDeployment.go:77`): planned, section 2.
- Two tags that give one name (`v1alpha3/bentodeployment_conversion.go:371`): with them the second
  write takes over the first one's BentoRequest, and a client may read another tag than it wrote. `WhatIsReadIsKept` holds for them
  too; the instance has a name per tag.
- Of a pod: command, probes, volumes, image pull secrets, the affinity, tolerations and other
  extra fields that are copied as they are. Of an HPA: its behavior.
- A proxy's ConfigMap that somebody has emptied: `handleDeployment.go:867` writes into its data,
  which is then a nil map, and the pass panics each time until it is deleted.
- Metrics and health endpoints, flags other than those in section 6, the registration's period.
- `BENTO_DEPLOYMENT_ALL_NAMESPACES` (`main.go:104`), with which informers watch everything.
- What Yatai's JSON may drop: `NoChange`, and with it `NoEmptyRevision`, take what it returns as what was sent. An empty list or
  map that the encoding leaves out would make a difference for `reflect.DeepEqual` at every pass, and then a move to another
  Bento would be sent as well.
- Of the configuration at Yatai: the runners' (made as the API server's), the debug modes, extra pod metadata and spec, the
  exporter, all of which are sent as they are and compared; and what is to be taken over from the BentoRequest, which
  is empty once the Bento is found, since `Reconcile` then does not read the request.
- The labels a user may give the object to override the generated ones are left out of `ServiceRouting`, except
  for the cleaner's; extra labels of pods are in `PodGeneration`.
- Reads without metadata in the two oldest versions, which the API server refuses.

`main.go:146` registers no webhook at this commit, so `ApiConversion` says what
the conversions would do when the API server calls them.
