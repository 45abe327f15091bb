---------------------- MODULE BentoDeploymentController ----------------------
(***************************************************************************)
(* The reconciliation of one BentoDeployment: the informers and the work   *)
(* queue of SetupWithManager, the passes of Reconcile, the optimistic      *)
(* status writes of setStatusConditions, and the create-or-update-or-      *)
(* delete of every child object, interleaved with the users who edit the   *)
(* object, its Bento, its BentoRequest and its children, with API calls    *)
(* that fail, and with restarts of the controller process.                 *)
(*                                                                         *)
(* Every object exists twice: as the API server stores it (stored, bento,  *)
(* request, child) and as the controller's informer caches hold it         *)
(* (cached, bentoSeen, requestSeen, childSeen).  All reads of the          *)
(* controller come from the caches, all writes go to the API server.       *)
(***************************************************************************)
EXTENDS Naturals, Sequences

CONSTANTS
    Bentos,         \* names of Bentos; a BentoRequest has the name of its Bento
    Configs,        \* everything else a spec may say
    Children,       \* the objects a pass may create
    Services,       \* the children that are Services
    HPAs,           \* the children that are HorizontalPodAutoscalers
    WantedBy,       \* per child, the configs that want it: debug twins and the
                    \* Ingress are not wanted by all
    Steps,          \* per Bento, the children a pass applies, in order
    NoBD, Absent, Foreign,
    MaxActs,        \* bound: edits by users and by other controllers
    MaxFaults,      \* bound: API or Yatai calls that fail
    MaxRestarts,    \* bound: restarts of the controller
    PromptCaches,   \* assumption: caches catch up before the next call
    TamperServices  \* whether others may edit Services as well

ASSUME ConstantsAssumption ==
    /\ Services \subseteq Children /\ HPAs \subseteq Children \ Services
    /\ WantedBy \in [Children -> SUBSET Configs]
    /\ Steps \in [Bentos -> Seq(Children)]
    /\ MaxActs \in Nat /\ MaxFaults \in Nat /\ MaxRestarts \in Nat
    /\ PromptCaches \in BOOLEAN /\ TamperServices \in BOOLEAN

Specs == [bento : Bentos, config : Configs]

ASSUME DistinctAssumption ==
    /\ NoBD \notin [spec : Specs, cond : [{"available", "bentoFound", "requestFound"}
                                            -> {"None", "Unknown", "True", "False"}]]
    /\ Absent \notin Specs /\ Foreign \notin Specs /\ Absent # Foreign

Status == {"None", "Unknown", "True", "False"}

Conditions == [available : Status, bentoFound : Status, requestFound : Status]

Unset == [available |-> "None", bentoFound |-> "None", requestFound |-> "None"]

BentoDeployments == [spec : Specs, cond : Conditions]

\* What a child is generated from: the Bento of the pass and the spec's config.
\* An object somebody else has edited is Foreign.
Contents == Specs \cup {Absent, Foreign}

\* A BentoRequest is absent, has not failed, or reports BentoAvailable=False.
Requests == {"none", "building", "failed"}

\* The calls of setStatusConditions in Reconcile, named for what they report.
Sites == {"initialise", "bentoFound", "bentoMissing", "requestUnknown",
          "requestMissing", "requestFound", "unavailable", "available", "failed"}

\* meta.SetStatusCondition for each condition that the call passes, on a copy.
SetConditions(cond, site) ==
    CASE site = "initialise"     -> [cond EXCEPT !.available = "Unknown", !.bentoFound = "Unknown"]
      [] site = "bentoFound"     -> [cond EXCEPT !.bentoFound = "True"]
      [] site = "bentoMissing"   -> [cond EXCEPT !.bentoFound = "False"]
      [] site = "requestUnknown" -> [cond EXCEPT !.requestFound = "Unknown"]
      [] site = "requestMissing" -> [cond EXCEPT !.bentoFound = "False", !.requestFound = "False"]
      [] site = "requestFound"   -> [cond EXCEPT !.requestFound = "True"]
      [] site = "unavailable"    -> [cond EXCEPT !.available = "False", !.bentoFound = "False"]
      [] site = "available"      -> [cond EXCEPT !.available = "True"]
      [] site = "failed"         -> [cond EXCEPT !.available = "False"]

\* Attempts of setStatusConditions.
MaxTries == 3

AnyBento == CHOOSE b \in Bentos : TRUE
-----------------------------------------------------------------------------
VARIABLES
    stored, cached, pending,  \* the object; its cached copy; versions on their way to the cache
    bento, bentoSeen,         \* which Bentos exist
    request, requestSeen,     \* each BentoRequest
    child, childSeen,         \* the content of each child
    lagging,                  \* children with events on their way to the cache
    dirty, backoff,           \* the work queue: key queued; key waiting to be re-queued
    pc,                       \* where the pass is
    site, try,                \* the status write it is in, and its attempt
    bd, target, req, next,    \* its locals: bentoDeployment, bentoCR, bentoRequest, next step
    conf,                     \* the Yatai configuration has been read and cached
    acts, faults, restarts    \* what is left of the bounds

bdVars      == <<stored, cached, pending>>
bentoVars   == <<bento, bentoSeen>>
requestVars == <<request, requestSeen>>
childVars   == <<child, childSeen, lagging>>
queueVars   == <<dirty, backoff>>
passVars    == <<pc, site, try, bd, target, req, next, conf>>
boundVars   == <<acts, faults, restarts>>
vars == <<bdVars, bentoVars, requestVars, childVars, queueVars, passVars, boundVars>>

clusterVars == <<bentoVars, requestVars, childVars>>

BDType ==
    /\ stored \in BentoDeployments \cup {NoBD}
    /\ cached \in BentoDeployments \cup {NoBD}
    /\ pending \in Seq(BentoDeployments \cup {NoBD})

ClusterType ==
    /\ bento \in [Bentos -> BOOLEAN] /\ bentoSeen \in [Bentos -> BOOLEAN]
    /\ request \in [Bentos -> Requests] /\ requestSeen \in [Bentos -> Requests]
    /\ child \in [Children -> Contents] /\ childSeen \in [Children -> Contents]
    /\ lagging \subseteq Children

PassType ==
    /\ pc \in {"idle", "getBento", "getRequest", "apply", "sync", "status", "reget"}
    /\ site \in Sites /\ try \in 1..MaxTries
    /\ bd \in BentoDeployments \cup {NoBD}
    /\ pc # "idle" => bd # NoBD
    /\ target \in Bentos /\ req \in Requests
    /\ next \in Nat \ {0}
    /\ pc = "apply" => next <= Len(Steps[target])

FlagType == dirty \in BOOLEAN /\ backoff \in BOOLEAN /\ conf \in BOOLEAN

BoundType ==
    /\ acts \in 0..MaxActs /\ faults \in 0..MaxFaults /\ restarts \in 0..MaxRestarts

TypeOK == BDType /\ ClusterType /\ PassType /\ FlagType /\ BoundType

Init ==
    /\ \E s \in Specs : stored = [spec |-> s, cond |-> Unset]
    /\ cached = stored /\ pending = <<>>
    /\ bento = [b \in Bentos |-> FALSE] /\ bentoSeen = bento
    /\ request = [b \in Bentos |-> "none"] /\ requestSeen = request
    /\ child = [c \in Children |-> Absent] /\ childSeen = child /\ lagging = {}
    /\ dirty = TRUE /\ backoff = FALSE
    /\ pc = "idle" /\ site = "initialise" /\ try = 1
    /\ bd = NoBD /\ target = AnyBento /\ req = "none" /\ next = 1 /\ conf = FALSE
    /\ acts = MaxActs /\ faults = MaxFaults /\ restarts = MaxRestarts
-----------------------------------------------------------------------------
\* Every cache holds what the API server holds.
CachesCurrent ==
    /\ pending = <<>> /\ bentoSeen = bento /\ requestSeen = request /\ lagging = {}

\* When the controller may take its next step.
Ready == PromptCaches => CachesCurrent

\* The API server stores version new of the object and tells the informer.
Store(new) == stored' = new /\ pending' = Append(pending, new)

Act == acts > 0 /\ acts' = acts - 1 /\ UNCHANGED <<faults, restarts>>

Fault == faults > 0 /\ faults' = faults - 1 /\ UNCHANGED <<acts, restarts>>

EditSpec ==
    /\ stored # NoBD
    /\ \E s \in Specs \ {stored.spec} : Store([stored EXCEPT !.spec = s])
    /\ Act
    /\ UNCHANGED <<cached, clusterVars, queueVars, passVars>>

DeleteBD ==
    /\ stored # NoBD
    /\ Store(NoBD)
    /\ Act
    /\ UNCHANGED <<cached, clusterVars, queueVars, passVars>>

\* The image builder publishes a Bento, or a user applies one.
BuildBento(b) ==
    /\ ~bento[b]
    /\ bento' = [bento EXCEPT ![b] = TRUE]
    /\ UNCHANGED <<bdVars, bentoSeen, requestVars, childVars, queueVars, passVars, boundVars>>

RemoveBento(b) ==
    /\ bento[b]
    /\ bento' = [bento EXCEPT ![b] = FALSE]
    /\ Act
    /\ UNCHANGED <<bdVars, bentoSeen, requestVars, childVars, queueVars, passVars>>

\* A request is made or withdrawn by a user, or its build fails or is restarted.
ChangeRequest(b) ==
    /\ \E r \in Requests \ {request[b]} :
           request' = [request EXCEPT ![b] = r]
    /\ Act
    /\ UNCHANGED <<bdVars, bentoVars, requestSeen, childVars, queueVars, passVars>>

SetChild(c, content) ==
    /\ child' = [child EXCEPT ![c] = content]
    /\ lagging' = lagging \cup {c}
    /\ UNCHANGED childSeen

\* Another client deletes a child or edits it: its spec, which its generation counts.  An
\* edit of a Deployment's or Ingress' metadata alone does not pass the predicate and is
\* left out.
TamperChild(c) ==
    /\ child[c] # Absent
    /\ \/ (c \in Services => TamperServices) /\ SetChild(c, Foreign)
       \/ SetChild(c, Absent)
    /\ Act
    /\ UNCHANGED <<bdVars, bentoVars, requestVars, queueVars, passVars>>

\* Every child is created with the object as its controller.
OwnedNoService(c) == c \notin Services
Owned(c) == c \in Children

\* The garbage collector deletes the children of a deleted object.
CollectChild(c) ==
    /\ stored = NoBD
    /\ child[c] # Absent /\ Owned(c)
    /\ SetChild(c, Absent)
    /\ UNCHANGED <<bdVars, bentoVars, requestVars, queueVars, passVars, boundVars>>
-----------------------------------------------------------------------------
\* predicate.GenerationChangedPredicate on the object itself: creations and
\* deletions pass, of the updates only those of the spec.
GenerationChangedAlways(old, new) == TRUE
GenerationChanged(old, new) ==
    old = NoBD \/ new = NoBD \/ old.spec # new.spec

DeliverBD ==
    /\ pending # <<>>
    /\ cached' = Head(pending) /\ pending' = Tail(pending)
    /\ dirty' = (dirty \/ GenerationChanged(cached, cached'))
    /\ UNCHANGED <<stored, clusterVars, backoff, passVars, boundVars>>

\* The map functions of the two watches list the BentoDeployments of the cache.
Names(b) == cached # NoBD /\ cached.spec.bento = b

BentoEnqueuesNone(b) == FALSE
BentoEnqueues(b) == Names(b)

RequestEnqueues(b) == ~bentoSeen[b] /\ Names(b)

DeliverBento(b) ==
    /\ bentoSeen[b] # bento[b]
    /\ bentoSeen' = [bentoSeen EXCEPT ![b] = bento[b]]
    /\ dirty' = (dirty \/ BentoEnqueues(b))
    /\ UNCHANGED <<bdVars, bento, requestVars, childVars, backoff, passVars, boundVars>>

DeliverRequest(b) ==
    /\ requestSeen[b] # request[b]
    /\ requestSeen' = [requestSeen EXCEPT ![b] = request[b]]
    /\ dirty' = (dirty \/ RequestEnqueues(b))
    /\ UNCHANGED <<bdVars, bentoVars, request, childVars, backoff, passVars, boundVars>>

\* The same predicate on an owned object: a Service has no generation, so its
\* updates never pass; the updates of the others do.
ChildEnqueuesNoService(c) == Owned(c) /\ c \notin Services
ChildEnqueues(c) ==
    /\ Owned(c)
    /\ c \in Services => child[c] = Absent \/ childSeen[c] = Absent

DeliverChild(c) ==
    /\ c \in lagging
    /\ childSeen' = [childSeen EXCEPT ![c] = child[c]]
    /\ lagging' = lagging \ {c}
    /\ dirty' = (dirty \/ ChildEnqueues(c))
    /\ UNCHANGED <<bdVars, bentoVars, requestVars, child, backoff, passVars, boundVars>>

\* The HPA controller updates a status: HPAs are watched without a predicate.
TouchHPA(c) ==
    /\ c \in HPAs /\ childSeen[c] # Absent /\ Owned(c)
    /\ dirty' = TRUE
    /\ Act
    /\ UNCHANGED <<bdVars, clusterVars, backoff, passVars>>

BackoffExpires ==
    /\ backoff
    /\ backoff' = FALSE /\ dirty' = TRUE
    /\ UNCHANGED <<bdVars, clusterVars, passVars, boundVars>>
-----------------------------------------------------------------------------
\* The pass ends: an error puts the key back after a delay, nil does not.
Return(err) ==
    /\ pc' = "idle" /\ site' = "initialise" /\ try' = 1
    /\ bd' = NoBD /\ target' = AnyBento /\ req' = "none" /\ next' = 1
    /\ backoff' = (backoff \/ err)
    /\ UNCHANGED <<dirty, conf>>

\* The pass calls setStatusConditions.
SetStatus(s) ==
    /\ pc' = "status" /\ site' = s /\ try' = 1 /\ next' = 1
    /\ UNCHANGED <<conf, queueVars>>

Continue(label) ==
    /\ pc' = label /\ site' = "initialise" /\ try' = 1 /\ next' = 1
    /\ UNCHANGED <<conf, queueVars>>

\* The deferred function: any error of the pass becomes Available=False.
Abort == SetStatus("failed") /\ UNCHANGED <<bd, target, req>>

\* A failed setStatusConditions: the first one precedes the deferred function,
\* and the deferred one's own error is the pass's result.
StatusErrorSilent ==
    IF site = "initialise" THEN Return(TRUE)
    ELSE IF site = "failed" THEN Return(FALSE) ELSE Abort
StatusError ==
    IF site \in {"initialise", "failed"} THEN Return(TRUE) ELSE Abort

\* A key whose object is gone is dropped.
Begin ==
    /\ Ready
    /\ pc = "idle" /\ dirty
    /\ dirty' = FALSE
    /\ IF cached = NoBD
       THEN UNCHANGED passVars
       ELSE /\ bd' = cached
            /\ target' = cached.spec.bento
            /\ IF cached.cond = Unset THEN pc' = "status" ELSE pc' = "getBento"
            /\ site' = "initialise"
            /\ UNCHANGED <<try, req, next, conf>>
    /\ UNCHANGED <<bdVars, clusterVars, backoff, boundVars>>

\* getYataiClient: only the first read of the configuration goes to the API server.
ConfigFails == ~conf /\ Fault

GetBento ==
    /\ Ready
    /\ pc = "getBento"
    /\ \/ ConfigFails /\ Abort
       \/ /\ target' = bd.spec.bento
          /\ pc' = "status" /\ try' = 1 /\ conf' = TRUE
          /\ site' = IF bentoSeen[target'] THEN "bentoFound" ELSE "bentoMissing"
          /\ UNCHANGED <<bd, req, next, queueVars, boundVars>>
    /\ UNCHANGED <<bdVars, clusterVars>>

\* The read of the BentoRequest, by the name in the copy read last.  Its
\* error is overwritten by the result of the status write that reports it.
GetRequest ==
    /\ Ready
    /\ pc = "getRequest"
    /\ req' = requestSeen[bd.spec.bento]
    /\ SetStatus(IF req' = "none" THEN "requestMissing" ELSE "requestFound")
    /\ UNCHANGED <<bd, target, bdVars, clusterVars, boundVars>>

\* The update carries the resource version of the cached copy: it is accepted
\* only when nothing newer is stored.
CurrentAlways == TRUE
Current == pending = <<>>

\* An update that changes nothing makes no version; but a condition that keeps
\* its status may get another message, except where the message is always the same.
StoreStatus(new) ==
    \/ Store(new) /\ (new = stored => site \notin {"initialise", "bentoFound"})
    \/ new = stored /\ UNCHANGED <<stored, pending>>

WriteStatus == StoreStatus([cached EXCEPT !.cond = SetConditions(cached.cond, site)])

\* Whether setStatusConditions tries again.
MoreTriesOffByOne == try <= MaxTries
MoreTries == try < MaxTries

\* A conflict, or a call that fails; a failed call may have been carried out.
Refused ==
    \/ ~Current /\ UNCHANGED <<stored, pending, boundVars>>
    \/ Current /\ Fault /\ (WriteStatus \/ UNCHANGED <<stored, pending>>)

TryStatus ==
    /\ Ready
    /\ pc = "status" /\ cached # NoBD
    /\ \/ /\ Current /\ WriteStatus
          /\ pc' = "reget"
          /\ UNCHANGED <<site, try, bd, target, req, next, conf, queueVars, boundVars>>
       \/ /\ Refused
          /\ IF MoreTries
             THEN try' = try + 1 /\ UNCHANGED <<pc, site, bd, target, req, next, conf, queueVars>>
             ELSE StatusError
    /\ UNCHANGED <<cached, clusterVars>>

\* Either read of setStatusConditions finds the object gone.
StatusGone ==
    /\ Ready
    /\ pc \in {"status", "reget"} /\ cached = NoBD
    /\ StatusError
    /\ UNCHANGED <<bdVars, clusterVars, boundVars>>

\* The writes after which the pass returns nil; a failed build is an error.
Returns == site \in {"available", "failed"} \/ (site = "requestFound" /\ req # "failed")

\* Where the pass goes after the others; copy is the object read back.
AfterStatus(copy) ==
    \/ site = "initialise" /\ Continue("getBento")
    \/ site = "bentoFound" /\ Continue(IF Steps[target] = <<>> THEN "sync" ELSE "apply")
    \/ site = "bentoMissing" /\ copy.cond.requestFound = "Unknown" /\ Continue("getRequest")
    \/ site = "bentoMissing" /\ copy.cond.requestFound # "Unknown" /\ SetStatus("requestUnknown")
    \/ site = "requestUnknown" /\ Continue("getRequest")
    \/ site = "requestMissing" /\ SetStatus("requestFound")
    \/ site = "requestFound" /\ SetStatus("unavailable")
    \/ site = "unavailable" /\ SetStatus("failed")

\* setStatusConditions reads the object back, from the cache.
RegetStatus ==
    /\ Ready
    /\ pc = "reget" /\ cached # NoBD
    /\ \/ Returns /\ Return(FALSE)
       \/ ~Returns /\ AfterStatus(cached) /\ bd' = cached /\ UNCHANGED <<target, req>>
    /\ UNCHANGED <<bdVars, clusterVars, boundVars>>
-----------------------------------------------------------------------------
Wanted(c, config) == config \in WantedBy[c]

\* What the pass generates for a child: the Bento it found, and the config of
\* the copy its last status write read back.
Desired == [bento |-> target, config |-> bd.spec.config]

CreateChild(c) ==
    /\ Wanted(c, bd.spec.config) /\ childSeen[c] = Absent
    /\ child[c] = Absent
    /\ SetChild(c, Desired)

\* A Service is updated with the version that was read, the others with none.
UpdateChild(c) ==
    /\ Wanted(c, bd.spec.config) /\ childSeen[c] \notin {Absent, Desired}
    /\ child[c] # Absent
    /\ c \in Services => c \notin lagging
    /\ SetChild(c, Desired)

DeleteChild(c) ==
    /\ ~Wanted(c, bd.spec.config) /\ childSeen[c] # Absent
    /\ child[c] # Absent
    /\ SetChild(c, Absent)

SkipChildPresent(c) ==
    /\ (childSeen[c] # Absent) = Wanted(c, bd.spec.config)
    /\ UNCHANGED childVars
SkipChild(c) ==
    /\ childSeen[c] = IF Wanted(c, bd.spec.config) THEN Desired ELSE Absent
    /\ UNCHANGED childVars

\* The API server refuses a call made from a stale read: AlreadyExists,
\* NotFound or Conflict.
RefuseChild(c) ==
    /\ IF childSeen[c] = Absent
       THEN Wanted(c, bd.spec.config) /\ child[c] # Absent
       ELSE /\ ~Wanted(c, bd.spec.config) \/ childSeen[c] # Desired
            /\ \/ child[c] = Absent
               \/ Wanted(c, bd.spec.config) /\ c \in Services /\ c \in lagging
    /\ UNCHANGED childVars

ApplyChild ==
    /\ Ready
    /\ pc = "apply"
    /\ LET c == Steps[target][next] IN
       \/ /\ CreateChild(c) \/ UpdateChild(c) \/ DeleteChild(c) \/ SkipChild(c)
          /\ IF next < Len(Steps[target])
             THEN next' = next + 1 /\ UNCHANGED <<pc, site, try, conf, queueVars>>
             ELSE Continue("sync")
          /\ UNCHANGED <<bd, target, req, boundVars>>
       \/ RefuseChild(c) /\ Abort /\ UNCHANGED boundVars
       \/ /\ Fault /\ Abort
          /\ CreateChild(c) \/ UpdateChild(c) \/ DeleteChild(c) \/ UNCHANGED childVars
    /\ UNCHANGED <<bdVars, bentoVars, requestVars>>

\* The Yatai server is told; whether it knows the Bento or not, the pass ends
\* with Available=True.
Sync ==
    /\ Ready
    /\ pc = "sync"
    /\ \/ SetStatus("available") /\ UNCHANGED <<bd, target, req, boundVars>>
       \/ Fault /\ Abort
    /\ UNCHANGED <<bdVars, clusterVars>>

\* The process stops; its successor lists every object before it starts, and
\* the lists enqueue the key.
Restart ==
    /\ restarts > 0 /\ restarts' = restarts - 1
    /\ cached' = stored /\ pending' = <<>>
    /\ bentoSeen' = bento /\ requestSeen' = request
    /\ childSeen' = child /\ lagging' = {}
    /\ pc' = "idle" /\ site' = "initialise" /\ try' = 1
    /\ bd' = NoBD /\ target' = AnyBento /\ req' = "none" /\ next' = 1
    /\ backoff' = FALSE /\ dirty' = (stored # NoBD) /\ conf' = FALSE
    /\ UNCHANGED <<stored, bento, request, child, acts, faults>>
-----------------------------------------------------------------------------
\* Nothing is queued, running or on its way to a cache.
Quiet == pc = "idle" /\ ~dirty /\ ~backoff /\ CachesCurrent

\* The informers' resync replays what the caches hold as updates that change
\* nothing, which pass only where there is no predicate.  It comes every ten
\* hours, and finds the controller at rest.
Resync ==
    /\ Quiet
    /\ \/ \E b \in Bentos : bentoSeen[b] /\ BentoEnqueues(b)
       \/ \E b \in Bentos : requestSeen[b] # "none" /\ RequestEnqueues(b)
       \/ \E c \in HPAs : childSeen[c] # Absent /\ Owned(c)
    /\ dirty' = TRUE
    /\ UNCHANGED <<bdVars, clusterVars, backoff, passVars, boundVars>>

Users ==
    \/ EditSpec \/ DeleteBD
    \/ \E b \in Bentos : BuildBento(b) \/ RemoveBento(b) \/ ChangeRequest(b)
    \/ \E c \in Children : TamperChild(c) \/ TouchHPA(c)

Deliver ==
    \/ DeliverBD
    \/ \E b \in Bentos : DeliverBento(b) \/ DeliverRequest(b)
    \/ \E c \in Children : DeliverChild(c)

Step ==
    \/ Begin \/ GetBento \/ GetRequest
    \/ TryStatus \/ StatusGone \/ RegetStatus
    \/ ApplyChild \/ Sync

Collect == \E c \in Children : CollectChild(c)

Next == Users \/ Deliver \/ Step \/ BackoffExpires \/ Resync \/ Collect \/ Restart

Spec == Init /\ [][Next]_vars

\* The controller's goroutine, the informers, the queue's timer and the garbage
\* collector keep running; nobody has to act, fail or restart.
Fairness ==
    /\ WF_vars(Step) /\ WF_vars(BackoffExpires) /\ WF_vars(Resync) /\ WF_vars(Collect)
    /\ WF_vars(DeliverBD)
    /\ \A b \in Bentos : WF_vars(DeliverBento(b)) /\ WF_vars(DeliverRequest(b))
    /\ \A c \in Children : WF_vars(DeliverChild(c))

FairSpec == Spec /\ Fairness
-----------------------------------------------------------------------------
Range(steps) == {steps[i] : i \in DOMAIN steps}

BentoExists == bento[stored.spec.bento]

\* A child as the stored spec asks for it.
InPlace(c) ==
    child[c] = IF Wanted(c, stored.spec.config) THEN stored.spec ELSE Absent

\* What the events of a child suffice to maintain: of a Service only whether it is there,
\* since its updates do not pass the predicate; of the others their spec, as TamperChild says.
Maintained(c) ==
    IF c \in Services THEN (child[c] # Absent) = Wanted(c, stored.spec.config)
                      ELSE InPlace(c)

\* Once the controller has nothing left to do, a status that does not say
\* Available=False is true: BentoFound says whether the Bento of the stored
\* spec exists; if it does, Available is True and every child of the pass is
\* maintained; if it does not, its build has not failed.  Whatever was missed,
\* read stale, refused or lost in a restart on the way is either repaired by a
\* later pass or reported as Available=False (the deferred function of
\* Reconcile, the watches of SetupWithManager).
QuietStatusIsTrue ==
    (Quiet /\ stored # NoBD /\ stored.cond.available # "False") =>
        /\ stored.cond.bentoFound = IF BentoExists THEN "True" ELSE "False"
        /\ BentoExists => /\ stored.cond.available = "True"
                          /\ \A c \in Range(Steps[stored.spec.bento]) : Maintained(c)
        /\ ~BentoExists => request[stored.spec.bento] # "failed"

Promise == INSTANCE DeploymentStatus WITH obj <- stored

\* The controller implements DeploymentStatus: although every status write
\* sends a whole object read from a stale cache, retries it, and runs against
\* users' edits, no condition and no edit is ever lost, and Available becomes
\* True only while the stored BentoFound is True (setStatusConditions and its
\* calls in Reconcile).
KeepsPromise == Promise!Lifecycle

\* The controller keeps coming to rest: its own status writes and child
\* updates do not keep it busy for ever (the predicates of SetupWithManager).
ComesToRest == []<>Quiet

DesiredState ==
    (stored # NoBD /\ BentoExists) =>
        /\ stored.cond.available = "True" /\ stored.cond.bentoFound = "True"
        /\ \A c \in Range(Steps[stored.spec.bento]) : InPlace(c)

\* Once users leave it alone and its Bento exists, the object's children are
\* as its spec says and its status says so, whatever failed before (README.md,
\* "How it works").  A failed pass is not retried for its error, which the
\* status write of the deferred function replaces; what saves it is the next
\* event, at the latest the resync of the Bento it names.
DesiredStateReached == <>[]DesiredState

\* "a reconcile function responsible for synchronizing resources untile the
\* desired state is reached on the cluster" (README.md, "How it works"): the
\* controller does not stop before.
RestsOnlyWhenDone == Quiet => DesiredState

\* The children of a deleted object all go, also those that a pass creates
\* after the deletion from a cache that still has the object (Reconcile ignores
\* a missing object and leaves its children to their owner references).
NothingLeftBehind == <>[](stored = NoBD => \A c \in Children : child[c] = Absent)

\* BentoRequestFound=True says that the BentoRequest exists ("BentoRequest %s
\* is found and waiting for its bento to be provided", in Reconcile).
RequestFoundIsTrue ==
    (Quiet /\ stored # NoBD /\ stored.cond.requestFound = "True" /\ ~BentoExists)
        => request[stored.spec.bento] # "none"
=============================================================================
