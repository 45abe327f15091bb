------------------------- MODULE ConfigurationCaches -------------------------
(***************************************************************************)
(* The processes of yatai-deployment and the configuration each keeps: the *)
(* Yatai server's address and token, the domain suffix and the network     *)
(* configuration, and the namespaces of its cleaner, read once and never   *)
(* again.  Each process registers the component with Yatai and cleans up   *)
(* abandoned Services, leader or not; one that leads reconciles an object: *)
(* its Ingress, and its record at the Yatai server.                        *)
(*                                                                         *)
(* The configuration, the object and the Yatai server change meanwhile.    *)
(* Which events start a pass is the matter of BentoDeploymentController.   *)
(***************************************************************************)
EXTENDS Autoscaling, SequencesExt

CONSTANTS
    Processes,
    Namespaces,     \* lists of namespaces that objects may be in
    Networks,       \* network configurations: domain, class and annotations
    Secrets,        \* Yatai configurations: endpoint and token, or Absent
    Specs,          \* of the object: its Bento, its ingress (enabled, tls, annotations),
                    \* the annotations of its pods, its envs, autoscaling and resources
    Starts,         \* the program's settings and what there is of these at first
    Bad, Absent,
    MaxChanges,     \* bound: changes of configuration, object and Yatai server
    MaxExits,       \* bound: processes that end
    MaxFaults       \* bound: calls that fail

ASSUME ConstantsAssumption ==
    /\ Nil \notin Processes \cup Secrets
    /\ \A n \in Networks : n.domain # Nil
    /\ \A s \in Starts : s.network \in Networks /\ s.secret \in Secrets /\ s.spec \in Specs
    /\ MaxChanges \in Nat /\ MaxExits \in Nat /\ MaxFaults \in Nat

VARIABLES
    elect,          \* setting: whether a leader is elected; if not, all lead
    registers,      \* setting: whether the component is registered with Yatai
    cleans,         \* setting: whether abandoned Services are cleaned up
    lease,          \* the leader
    up,             \* processes that run
    network, secret, spec, remote,   \* remote: the Bentos that Yatai has
    namespaces,     \* where objects may be, as it is set now
    services,       \* Services that are there: see Service
    watched,        \* per process: where it watches objects, read when it starts
    cache,          \* per process: what it has read
    pass,           \* per process: how far its pass is
    registration,   \* and its registration
    ingress,        \* the object's Ingress
    available,      \* the message of the object's Available condition
    record,         \* the deployment at the Yatai server: the Bento and the configuration
                    \* of its target; revision tells two apart
    synced,         \* whether Yatai was asked for the status of the last revision
    registered,
    changes, exits, faults

settings == <<elect, registers, cleans>>
world == <<network, secret, spec, remote, namespaces, changes>>
vars == <<settings, lease, up, world, services, watched, cache, pass, registration, ingress, available,
          record, synced, registered, exits, faults>>

Empty == [conf |-> Nil, domain |-> Nil, network |-> Nil, namespaces |-> Nil]
IdlePass == [pc |-> "idle", conf |-> Nil, bento |-> Nil, spec |-> Nil, host |-> Nil, new |-> Nil]
NoRegistration == [pc |-> "wait", conf |-> Nil]

\* A Service has the label of runners or not, pods or not, and is old after three minutes.
Service(namespace, labelled, pods, old) ==
    [namespace |-> namespace, labelled |-> labelled, pods |-> pods, old |-> old]

Init ==
    /\ lease = Nil /\ up = Processes
    /\ \E s \in Starts :
          /\ elect = s.elect /\ registers = s.registers /\ cleans = s.cleans
          /\ namespaces = s.namespaces
          /\ network = s.network /\ secret = s.secret /\ spec = s.spec /\ remote = s.remote
    /\ services = {Service(n, labelled, pods, FALSE) :
                      n \in UNION {ToSet(list) : list \in Namespaces}, labelled \in BOOLEAN, pods \in BOOLEAN}
    /\ watched = [p \in Processes |-> namespaces]
    /\ cache = [p \in Processes |-> Empty]
    /\ pass = [p \in Processes |-> IdlePass]
    /\ registration = [p \in Processes |-> NoRegistration]
    /\ ingress = Absent /\ available = "unknown"
    /\ record = Absent /\ synced = FALSE /\ registered = FALSE
    /\ changes = 0 /\ exits = 0 /\ faults = 0

Leading(p) == p \in up /\ (elect => lease = p)
-----------------------------------------------------------------------------
AcquireAnyway(p) ==
    /\ elect /\ lease # p /\ p \in up
    /\ lease' = p
    /\ UNCHANGED <<settings, up, world, services, watched, cache, pass, registration, ingress, available,
                   record, synced, registered, exits, faults>>

\* Leadership is won when nobody has it.
Acquire(p) ==
    /\ elect /\ lease = Nil /\ p \in up
    /\ lease' = p
    /\ UNCHANGED <<settings, up, world, services, watched, cache, pass, registration, ingress, available,
                   record, synced, registered, exits, faults>>

\* A process ends, at once if it loses the lease, and another takes its place.
Exit(p) ==
    /\ exits < MaxExits /\ p \in up
    /\ exits' = exits + 1 /\ up' = up \ {p}
    /\ lease' = IF lease = p THEN Nil ELSE lease
    /\ cache' = [cache EXCEPT ![p] = Empty]
    /\ pass' = [pass EXCEPT ![p] = IdlePass]
    /\ registration' = [registration EXCEPT ![p] = NoRegistration]
    /\ UNCHANGED <<settings, world, services, watched, ingress, available, record, synced, registered, faults>>

Start(p) ==
    /\ p \notin up
    /\ up' = up \cup {p}
    /\ watched' = [watched EXCEPT ![p] = namespaces]
    /\ UNCHANGED <<settings, lease, world, services, cache, pass, registration, ingress, available,
                   record, synced, registered, exits, faults>>

\* The administrator and the user; Yatai accepts the token of the secret only.
Bentos == {s.bento : s \in Specs}
Toggled(b) == IF b \in remote THEN remote \ {b} ELSE remote \cup {b}
Change ==
    /\ changes < MaxChanges /\ changes' = changes + 1
    /\ \/ network' \in Networks \ {network} /\ UNCHANGED <<secret, remote, spec, namespaces>>
       \/ secret' \in Secrets \ {secret} /\ UNCHANGED <<network, remote, spec, namespaces>>
       \/ remote' \in {Toggled(b) : b \in Bentos} /\ UNCHANGED <<network, secret, spec, namespaces>>
       \/ spec' \in Specs \ {spec} /\ UNCHANGED <<network, secret, remote, namespaces>>
       \/ namespaces' \in Namespaces \ {namespaces} /\ UNCHANGED <<network, secret, remote, spec>>
    /\ UNCHANGED <<settings, lease, up, services, watched, cache, pass, registration, ingress,
                   available, record, synced, registered, exits, faults>>

\* Three minutes go by.
Age ==
    /\ cleans /\ \E s \in services : ~s.old
    /\ services' = {Service(s.namespace, s.labelled, s.pods, TRUE) : s \in services}
    /\ UNCHANGED <<settings, lease, up, world, watched, cache, pass, registration, ingress,
                   available, record, synced, registered, exits, faults>>

\* What has been read counts, if there is any.
CachedNever(x, current) == current
Cached(x, current) == IF x # Nil THEN x ELSE current

HasYatai(conf) == conf.endpoint # Nil

\* Calls of the Yatai server: what they answer, and what they do.
Accepted(conf) == secret # Absent /\ HasYatai(secret) /\ conf.token = secret.token
GetBento(conf, bento) == IF ~Accepted(conf) THEN Bad ELSE IF bento \in remote THEN "found" ELSE Absent
GetDeployment(conf) == IF Accepted(conf) THEN record ELSE Bad
Target(bento, config, revision) == [bento |-> bento, config |-> config, revision |-> revision]
CreateDeployment(conf, bento, config) ==
    /\ Accepted(conf) /\ record = Absent
    /\ record' = Target(bento, config, 0) /\ synced' = FALSE
UpdateDeployment(conf, bento, config) ==
    /\ Accepted(conf) /\ record # Absent
    /\ record' = Target(bento, config, 1 - record.revision) /\ synced' = FALSE
SyncDeploymentStatus(conf) == Accepted(conf) /\ synced' = TRUE
RegisterYataiComponent(conf) == registered' = (registered \/ Accepted(conf))
-----------------------------------------------------------------------------
\* Registration: every process does it when it starts and every five minutes.
others == <<settings, lease, up, world, services, watched, pass, ingress, available, record, synced, exits>>

SetRegistration(p, pc, conf) == registration' = [registration EXCEPT ![p] = [pc |-> pc, conf |-> conf]]

\* Without a configuration, or one without an address, there is nothing to register with.
RegisterWith(p, conf) == IF HasYatai(conf) THEN SetRegistration(p, "register", conf) ELSE SetRegistration(p, "wait", Nil)
RegisterRead(p) ==
    /\ registers /\ p \in up /\ registration[p].pc = "wait"
    /\ IF cache[p].conf # Nil THEN RegisterWith(p, cache[p].conf)
       ELSE secret # Absent /\ SetRegistration(p, "store", secret)
    /\ UNCHANGED <<others, cache, registered, faults>>
RegisterStore(p) ==
    /\ p \in up /\ registration[p].pc = "store"
    /\ cache' = [cache EXCEPT ![p].conf = registration[p].conf]
    /\ RegisterWith(p, registration[p].conf)
    /\ UNCHANGED <<others, registered, faults>>

\* A call that fails is made again with the next tick.
RegisterOnce(p) ==
    /\ p \in up /\ registration[p].pc = "register"
    /\ \/ RegisterYataiComponent(registration[p].conf) /\ UNCHANGED faults
       \/ faults < MaxFaults /\ faults' = faults + 1 /\ UNCHANGED registered
    /\ SetRegistration(p, "ended", Nil)
    /\ UNCHANGED <<others, cache>>
Register(p) ==
    /\ p \in up /\ registration[p].pc = "register"
    /\ \/ RegisterYataiComponent(registration[p].conf) /\ UNCHANGED faults
       \/ faults < MaxFaults /\ faults' = faults + 1 /\ UNCHANGED registered
    /\ SetRegistration(p, "wait", Nil)
    /\ UNCHANGED <<others, cache>>

Registration(p) == RegisterRead(p) \/ RegisterStore(p) \/ Register(p)

\* The cleaner, in every process as well: through its namespaces in order, until one that
\* the process does not watch, where it cannot list Services.  It deletes those with the
\* label of runners that have no pod and are old.  (No Service that is made here has the
\* label, as ServiceRouting shows; it takes others that have it.)
Reached(list, within) == {list[i] : i \in {j \in 1 .. Len(list) : \A k \in 1 .. j : list[k] \in ToSet(within)}}
Abandoned(s) == s.labelled /\ ~s.pods /\ s.old
DoCleanUpFirst(p, list) == services' = {s \in services : ~(Abandoned(s) /\ s.namespace = Head(list))}
DoCleanUp(p, list) == services' = {s \in services : ~(Abandoned(s) /\ s.namespace \in Reached(list, watched[p]))}
CleanUp(p) ==
    /\ cleans /\ p \in up
    /\ LET list == Cached(cache[p].namespaces, namespaces) IN
       /\ cache' = [cache EXCEPT ![p].namespaces = list]
       /\ DoCleanUp(p, list)
    /\ UNCHANGED <<settings, lease, up, world, watched, pass, registration, ingress, available,
                   record, synced, registered, exits, faults>>
-----------------------------------------------------------------------------
\* A pass.
outside == <<settings, lease, up, world, services, watched, registration, registered, exits>>

\* Errors end it and are reported in the status; unless that fails as well, the object
\* does not go back to the queue, and the next pass may be a resync away.
Failed(p) == pass' = [pass EXCEPT ![p] = IdlePass] /\ available' = "failed"
Ended(p, message) ==
    /\ pass' = [pass EXCEPT ![p] = IdlePass] /\ available' = message

Fail(p) ==
    /\ pass[p].pc \notin {"idle", "store"} /\ faults < MaxFaults
    /\ faults' = faults + 1 /\ Failed(p)
    /\ UNCHANGED <<outside, cache, ingress, record, synced>>

\* The object says which Bento it is about; the first thing is the Yatai configuration.
BeginAfresh(p) ==
    /\ pass[p].pc = "idle" /\ Leading(p)
    /\ IF secret = Absent THEN Failed(p)
       ELSE /\ pass' = [pass EXCEPT ![p].pc = "store", ![p].conf = secret, ![p].bento = spec.bento]
            /\ UNCHANGED available
    /\ UNCHANGED <<outside, cache, ingress, record, synced, faults>>
Begin(p) ==
    /\ pass[p].pc = "idle" /\ Leading(p)
    /\ IF cache[p].conf # Nil
       THEN /\ pass' = [pass EXCEPT ![p].pc = "domain", ![p].conf = cache[p].conf, ![p].bento = spec.bento]
            /\ UNCHANGED available
       ELSE IF secret = Absent THEN Failed(p)
       ELSE /\ pass' = [pass EXCEPT ![p].pc = "store", ![p].conf = secret, ![p].bento = spec.bento]
            /\ UNCHANGED available
    /\ UNCHANGED <<outside, cache, ingress, record, synced, faults>>

Store(p) ==
    /\ pass[p].pc = "store"
    /\ cache' = [cache EXCEPT ![p].conf = pass[p].conf]
    /\ pass' = [pass EXCEPT ![p].pc = "domain"]
    /\ UNCHANGED <<outside, ingress, available, record, synced, faults>>

\* The Ingress is generated whether or not the object wants one, for the object as it
\* was read last, when its status was written.
ReadDomain(p) ==
    /\ pass[p].pc = "domain"
    /\ LET domain == Cached(cache[p].domain, network.domain) IN
       /\ cache' = [cache EXCEPT ![p].domain = domain]
       /\ pass' = [pass EXCEPT ![p].pc = "network", ![p].spec = spec, ![p].host = domain]
    /\ UNCHANGED <<outside, ingress, available, record, synced, faults>>

\* Annotations of all that is made for the API server: those that its pods are to have,
\* and the Bento's name and version.
KubeAnnotations(s, b) == s.podAnnotations @@ [bento |-> b]

\* Those of the Ingress win over the configuration's, these over a header for the
\* organization and no redirects, and all over those of the pods.
AnnotationsConfigLast(s, b, config, organization) ==
    config.annotations @@ s.annotations @@ [snippet |-> organization, redirect |-> "false"] @@ KubeAnnotations(s, b)
Annotations(s, b, config, organization) ==
    s.annotations @@ config.annotations @@ [snippet |-> organization, redirect |-> "false"] @@ KubeAnnotations(s, b)
GenerateIngress(s, b, host, config, organization) ==
    [annotations |-> Annotations(s, b, config, organization),
     rule |-> [host |-> host, class |-> config.class, tls |-> IF s.tls THEN host ELSE Nil]]
Organization(conf) == IF HasYatai(conf) THEN "organization" ELSE "unknown"

ReadNetwork(p) ==
    /\ pass[p].pc = "network"
    /\ LET config == Cached(cache[p].network, network) IN
       IF (HasYatai(pass[p].conf) => Accepted(pass[p].conf)) /\ config.annotations # Bad
       THEN /\ cache' = [cache EXCEPT ![p].network = config]
            /\ pass' = [pass EXCEPT ![p].pc = "get", ![p].host = Nil,
                          ![p].new = GenerateIngress(pass[p].spec, pass[p].bento, pass[p].host, config,
                                                     Organization(pass[p].conf))]
            /\ UNCHANGED available
       ELSE Failed(p) /\ UNCHANGED cache
    /\ UNCHANGED <<outside, ingress, record, synced, faults>>

\* The host of an Ingress that is there is kept; its TLS host is not.
KeepNothing(new) == new
KeepHost(new) == [new EXCEPT !.rule.host = ingress.rule.host]
GetIngress(p) ==
    /\ pass[p].pc = "get"
    /\ LET enabled == pass[p].spec.enabled
           step == IF ingress = Absent THEN IF enabled THEN "create" ELSE "record"
                   ELSE IF ~enabled THEN "delete"
                   ELSE IF KeepHost(pass[p].new) = ingress THEN "record" ELSE "update"
       IN  pass' = [pass EXCEPT ![p].pc = step,
                      ![p].new = CASE step = "update" -> KeepHost(pass[p].new)
                                   [] step = "create" -> pass[p].new
                                   [] OTHER -> Nil]
    /\ UNCHANGED <<outside, cache, ingress, available, record, synced, faults>>

\* The writes ask for no revision: they fail only when the Ingress is there, or gone.
Written(p, new) ==
    /\ ingress' = new
    /\ \/ pass' = [pass EXCEPT ![p].pc = "record", ![p].new = Nil] /\ UNCHANGED <<available, faults>>
       \/ faults < MaxFaults /\ faults' = faults + 1 /\ Failed(p)
WriteIngress(p) ==
    /\ pass[p].pc \in {"create", "update", "delete"}
    /\ IF (ingress = Absent) = (pass[p].pc = "create")
       THEN Written(p, IF pass[p].pc = "delete" THEN Absent ELSE pass[p].new)
       ELSE Failed(p) /\ UNCHANGED <<ingress, faults>>
    /\ UNCHANGED <<outside, cache, record, synced>>
-----------------------------------------------------------------------------
\* The record at Yatai: the Bento of its target, and of its configuration whether there is
\* an Ingress, the environment, the resources and the autoscaling.  The rest of the
\* configuration is the runners' alike, whether a debug mode is on, and extra pod metadata
\* and spec; the object's uid and resource version, which are sent too, are not compared.
ConvertToDeploymentTargetResources(r) ==
    IF r = Nil THEN Nil ELSE [requests |-> r.requests, limits |-> r.limits]
Config(s) ==
    [enableIngress |-> s.enabled, envs |-> s.envs,
     resources |-> ConvertToDeploymentTargetResources(s.resources), hpaConf |-> TransformToOldHPA(s.autoscaling)]

\* The configuration is compared, and not the Bento that it is for.
NoChangeNever(s) == FALSE
NoChangePartly(s) == record.config.enableIngress = s.enabled
NoChange(s) == record.config = Config(s)

\* Without its Bento at Yatai, the pass is over.
GetRemoteBento(p) ==
    /\ pass[p].pc = "record"
    /\ LET bento == GetBento(pass[p].conf, pass[p].bento) IN
       IF ~HasYatai(pass[p].conf) THEN Ended(p, "done")
       ELSE IF bento = Bad THEN Failed(p)
       ELSE IF bento = Absent THEN Ended(p, "no remote Bento")
       ELSE pass' = [pass EXCEPT ![p].pc = "deployment"] /\ UNCHANGED available
    /\ UNCHANGED <<outside, cache, ingress, record, synced, faults>>

GetRecord(p) ==
    /\ pass[p].pc = "deployment"
    /\ LET old == GetDeployment(pass[p].conf) IN
       IF old = Bad THEN Failed(p)
       ELSE /\ pass' = [pass EXCEPT ![p].pc =
                         IF old = Absent THEN "post" ELSE IF NoChange(pass[p].spec) THEN "sync" ELSE "patch"]
            /\ UNCHANGED available
    /\ UNCHANGED <<outside, cache, ingress, record, synced, faults>>

\* A call that is refused fails; one that is carried out may seem to.
Send(p) ==
    LET a == pass[p] IN
    IF a.pc = "post" THEN CreateDeployment(a.conf, a.bento, Config(a.spec))
                     ELSE UpdateDeployment(a.conf, a.bento, Config(a.spec))
SendRecord(p) ==
    /\ pass[p].pc \in {"post", "patch"}
    /\ \/ /\ Send(p)
          /\ \/ pass' = [pass EXCEPT ![p].pc = "sync"] /\ UNCHANGED <<available, faults>>
             \/ faults < MaxFaults /\ faults' = faults + 1 /\ Failed(p)
       \/ /\ ~Accepted(pass[p].conf) \/ (record = Absent) # (pass[p].pc = "post")
          /\ Failed(p) /\ UNCHANGED <<record, synced, faults>>
    /\ UNCHANGED <<outside, cache, ingress>>

SyncStatus(p) ==
    /\ pass[p].pc = "sync"
    /\ \/ SyncDeploymentStatus(pass[p].conf) /\ Ended(p, "done")
       \/ ~Accepted(pass[p].conf) /\ Failed(p) /\ UNCHANGED synced
    /\ UNCHANGED <<outside, cache, ingress, record, faults>>

Pass(p) ==
    \/ Begin(p) \/ Store(p) \/ ReadDomain(p) \/ ReadNetwork(p) \/ GetIngress(p)
    \/ WriteIngress(p) \/ GetRemoteBento(p) \/ GetRecord(p) \/ SendRecord(p) \/ SyncStatus(p)

Next ==
    \/ Change \/ Age
    \/ \E p \in Processes :
          Acquire(p) \/ Exit(p) \/ Start(p) \/ Fail(p) \/ Registration(p) \/ CleanUp(p) \/ Pass(p)

Spec == Init /\ [][Next]_vars

\* Passes come again, if only with the informers' resync, and go on; registration and
\* cleaning are repeated; processes are started again, and one of them is elected; and time
\* goes on.
FairSpec ==
    /\ Spec
    /\ \A p \in Processes : WF_vars(Pass(p)) /\ WF_vars(Registration(p)) /\ WF_vars(CleanUp(p))
                           /\ WF_vars(Start(p))
    /\ WF_vars(\E p \in Processes : Acquire(p))
    /\ WF_vars(Age)
-----------------------------------------------------------------------------
\* Types; a pass in a step that needs it has what it needs.
TypeOK ==
    /\ lease \in up \cup {Nil} /\ up \subseteq Processes
    /\ \A p \in Processes :
          /\ cache[p].conf \in (Secrets \ {Absent}) \cup {Nil}
          /\ cache[p].network # Nil => cache[p].network.annotations # Bad
          /\ pass[p].pc # "idle" => Leading(p) /\ pass[p].conf # Nil
          /\ pass[p].pc \in {"create", "update"} => pass[p].spec.enabled
          /\ registration[p].pc \in {"store", "register"} => registration[p].conf # Nil
    /\ record # Absent => record.config \in {Config(s) : s \in Specs}
    /\ changes \in 0 .. MaxChanges /\ exits \in 0 .. MaxExits /\ faults \in 0 .. MaxFaults

\* An Ingress keeps its host as long as it is there, whatever happens to the domain
\* suffix and to the process that made it, if leaders are elected.
HostStays ==
    [][elect /\ ingress # Absent /\ ingress' # Absent =>
         ingress'.rule.host = ingress.rule.host]_vars

\* Hosts of an Ingress and of its certificate agree until a process ends, even if the
\* domain suffix changes meanwhile.
CertificateMatches ==
    elect /\ exits = 0 /\ ingress # Absent => ingress.rule.tls \in {Nil, ingress.rule.host}

\* A process changes the configuration that it works with at most once, in the window in
\* which a pass and a registration have both read before either had stored.
Storing(p) == pass[p].pc = "store" \/ registration[p].pc = "store"
KeepsCache(p) ==
    /\ cache[p].conf # Nil /\ ~Storing(p) => cache'[p].conf = cache[p].conf /\ ~Storing(p)'
    /\ cache[p].domain # Nil => cache'[p].domain = cache[p].domain
    /\ cache[p].network # Nil => cache'[p].network = cache[p].network
    /\ cache[p].namespaces # Nil => cache'[p].namespaces = cache[p].namespaces
CachesStick == [][\A p \in up \cap up' : KeepsCache(p)]_vars

\* What the process p needs to get through a pass.
Works(p) ==
    /\ Leading(p) /\ secret # Absent
    /\ (cache[p].conf # Nil /\ HasYatai(cache[p].conf)) => Accepted(cache[p].conf)
    /\ cache[p].network # Nil \/ network.annotations # Bad

\* Processes that lead together have read the same.
Agree == \A p, q \in up : Leading(p) /\ Leading(q) => cache[p] = cache[q]

\* The Ingress is in the end what the object asks for, by the configuration that its
\* leader has read, unless leaders disagree: its own annotations are there, those of the
\* configuration that it leaves free, and those of the pods that both leave free, other
\* than redirects and the header, and the object's Bento where all leave it free.
IngressAsAsked(p) ==
    IF ~spec.enabled THEN ingress = Absent
    ELSE /\ ingress # Absent /\ cache[p].network # Nil
         /\ ingress.rule.tls = (IF spec.tls THEN cache[p].domain ELSE Nil)
         /\ ingress.rule.class = cache[p].network.class
         /\ LET asked == spec.annotations
                configured == cache[p].network.annotations
                pods == spec.podAnnotations
                Has(k, annotations) == ingress.annotations[k] = annotations[k]
            IN  /\ \A k \in DOMAIN asked : Has(k, asked)
                /\ \A k \in DOMAIN configured \ DOMAIN asked : Has(k, configured)
                /\ \A k \in DOMAIN pods \ (DOMAIN asked \cup DOMAIN configured) :
                      k \in {"snippet", "redirect"} \/ Has(k, pods)
                /\ \/ "bento" \in DOMAIN asked \cup DOMAIN configured \cup DOMAIN pods
                   \/ ingress.annotations["bento"] = spec.bento
IngressInTheEnd == <>[](\A p \in Processes : Works(p) /\ Agree => IngressAsAsked(p))

\* The processes that get through a pass and have a Yatai server to tell.
Tells(p) == Works(p) /\ cache[p].conf # Nil /\ HasYatai(cache[p].conf) /\ Agree

\* Yatai knows the configuration of the deployment in the end, and has asked for its status,
\* and the object's status says so, if Yatai has the object's Bento; if not, the status says
\* that.  Which Bento Yatai takes it to run is the matter of BentoArrives.
SyncedInTheEnd ==
    <>[](\A p \in Processes : Tells(p) =>
           IF spec.bento \in remote
           THEN available = "done" /\ record # Absent /\ record.config = Config(spec) /\ synced
           ELSE available = "no remote Bento")

\* Yatai knows in the end which Bento the object runs, if Yatai has it: what a pass means
\* that ends with "All resources updated!".  It is not so.
BentoArrives ==
    <>[](\A p \in Processes : Tells(p) /\ spec.bento \in remote =>
           record # Absent /\ record.bento = spec.bento)

\* The component is registered in the end if some process has a token that Yatai accepts.
RegisteredInTheEnd ==
    <>[]((\E p \in up : registers /\ cache[p].conf # Nil /\ Accepted(cache[p].conf)) => registered)

\* Services with the label of runners that have no pod go in the end from every namespace
\* that a process watches, unless its cleaner has read another list than the process at its
\* start.  Those without the label, which are all that a pass makes, stay.
CleanedInTheEnd ==
    <>[](\A p \in up : cleans /\ cache[p].namespaces = watched[p] =>
           \A s \in services : s.labelled /\ ~s.pods => s.namespace \notin ToSet(watched[p]))

\* Yatai gets no revision with the configuration of the last one, if leaders are elected:
\* not from a new process, which looks at everything again, nor after a lost answer.  This
\* takes Yatai to return a configuration as it was sent: the code compares with DeepEqual,
\* to which an empty list or map, such as the one it sends without an environment or
\* without runners, differs from one that the server's JSON leaves out or makes null.
NoEmptyRevision ==
    [][elect /\ record # Absent /\ record' # record => record'.config # record.config]_vars
=============================================================================
