-------------------------- MODULE QuietStatus_proofs --------------------------
(***************************************************************************)
(* That the status of a BentoDeployment is true once its controller has    *)
(* nothing left to do, for every value of the constants.                   *)
(*                                                                         *)
(* QuietStatusIsTrue is not inductive: what a pass has read may be stale   *)
(* when it writes the status, and stale again when the pass has ended.     *)
(* The argument is the one of level-triggered controllers.  As long as the *)
(* key has not been queued again (~dirty), the caches hold what the pass   *)
(* read, as far as the pass depends on it; whatever differs in the API     *)
(* server is on its way, and its arrival will queue the key.  Knows says   *)
(* this for every point of a pass; for the children, which the pass also   *)
(* writes, Secured says it for each.                                       *)
(***************************************************************************)
EXTENDS StatusRefinement_proofs

Working(sites) == pc \in {"status", "reget"} /\ site \in sites

\* Where a pass is because it has found its Bento, or because it has not.
FoundSide == pc \in {"apply", "sync"} \/ Working({"bentoFound", "available"})

MissSide == pc = "getRequest" \/ Working(MissingSites \cup {"bentoMissing"})

RequestRead == Working({"requestMissing", "requestFound", "unavailable"})

\* Maintained, for a spec s.
Kept(c, s) ==
    IF c \in Services THEN (child[c] # Absent) = Wanted(c, s.config)
                      ELSE child[c] = IF Wanted(c, s.config) THEN s ELSE Absent

\* The child is as it is to be, or an event is on its way that queues the key.
Secured(c, s) == Kept(c, s) \/ (c \in lagging /\ ChildEnqueues(c))

\* The children that the pass has been through.
Applied(c) ==
    \/ pc = "apply" /\ \E i \in 1 .. Len(Steps[target]) : i < next /\ c = Steps[target][i]
    \/ (pc = "sync" \/ Working({"available"})) /\ c \in Range(Steps[target])

\* How a pass for the spec s may have ended.
Concluded(s) ==
    \/ stored.cond.available = "False"
    \/ /\ bentoSeen[s.bento]
       /\ stored.cond.available = "True" /\ stored.cond.bentoFound = "True"
       /\ \A c \in Range(Steps[s.bento]) : Secured(c, s)
    \/ /\ ~bentoSeen[s.bento] /\ requestSeen[s.bento] # "failed"
       /\ stored.cond.bentoFound = "False"

\* What holds of the pass, and after it, while nothing has queued the key since
\* it began; s is the spec in the cache.
Knows(s) ==
    /\ pc # "idle" => bd.spec = s /\ target = s.bento
    /\ FoundSide => bentoSeen[s.bento]
    /\ MissSide => ~bentoSeen[s.bento]
    /\ RequestRead => req = requestSeen[s.bento]
    /\ \A c \in Children : Applied(c) => Secured(c, s)
    /\ (pc = "idle" /\ ~backoff /\ stored # NoBD) => Concluded(s)

KnowsCached ==
    ~dirty => /\ pc # "idle" => cached # NoBD
              /\ \A s \in Specs : (cached # NoBD /\ cached.spec = s) => Knows(s)

\* What the last status write of a pass has stored.
Outcome ==
    stored # NoBD =>
        /\ Written({"available"}) =>
               stored.cond.available = "True" /\ stored.cond.bentoFound = "True"
        /\ Written({"failed"}) => stored.cond.available = "False"

SeenOrLagging == \A c \in Children : c \notin lagging => childSeen[c] = child[c]

QuietInv == StatusInv /\ SeenOrLagging /\ Outcome /\ KnowsCached
-----------------------------------------------------------------------------
LEMMA StepsFacts ==
    ASSUME NEW b \in Bentos
    PROVE  /\ Steps[b] \in Seq(Children) /\ Len(Steps[b]) \in Nat
           /\ \A i \in 1 .. Len(Steps[b]) : Steps[b][i] \in Children
           /\ Range(Steps[b]) = {Steps[b][i] : i \in 1 .. Len(Steps[b])}
           /\ Range(Steps[b]) \subseteq Children
<1>1. Steps[b] \in Seq(Children) BY ConstantsAssumption
<1>2. DOMAIN Steps[b] = 1 .. Len(Steps[b]) BY <1>1
<1> QED BY <1>1, <1>2 DEF Range

LEMMA CachedSpec ==
    ASSUME TypeOK, cached # NoBD
    PROVE  cached.spec \in Specs
BY DEF TypeOK, BDType, BentoDeployments

LEMMA SpecsFacts ==
    ASSUME NEW s \in Specs
    PROVE  /\ s.bento \in Bentos /\ s.config \in Configs
           /\ s = [bento |-> s.bento, config |-> s.config]
           /\ s # Absent /\ s # Foreign
BY DistinctAssumption DEF Specs

LEMMA SecuredSame ==
    ASSUME UNCHANGED childVars
    PROVE  /\ \A c, s : Secured(c, s) => Secured(c, s)'
           /\ SeenOrLagging => SeenOrLagging'
BY DEF childVars, Secured, Kept, ChildEnqueues, Owned, Wanted, SeenOrLagging
-----------------------------------------------------------------------------
(***************************************************************************)
(* Steps of users, informers, other controllers and the queue.             *)
(***************************************************************************)
\* A step that leaves the pass alone, and what its knowledge is of.
LEMMA WorldKnows ==
    ASSUME NEW s \in Specs, Knows(s), UNCHANGED passVars, backoff' = backoff,
           bentoSeen'[s.bento] = bentoSeen[s.bento],
           ~bentoSeen[s.bento] => requestSeen'[s.bento] = requestSeen[s.bento],
           stored' = NoBD \/ (stored # NoBD /\ stored'.cond = stored.cond),
           \A c \in Children : Secured(c, s) => Secured(c, s)'
    PROVE  Knows(s)'
<1> USE DEF passVars, Working
<1>1. /\ UNCHANGED <<FoundSide, MissSide, RequestRead>>
      /\ MissSide => ~bentoSeen[s.bento]
  BY DEF FoundSide, MissSide, RequestRead, Knows
<1>2. RequestRead => MissSide
  BY DEF RequestRead, MissSide, MissingSites
<1>3. \A c \in Children : Applied(c)' => Secured(c, s)'
  <2>1. \A c \in Children : Applied(c)' => Applied(c)
    BY DEF Applied
  <2> QED BY <2>1 DEF Knows
<1>4. (pc' = "idle" /\ ~backoff' /\ stored' # NoBD) => Concluded(s)'
  <2> SUFFICES ASSUME pc = "idle", ~backoff, stored' # NoBD PROVE Concluded(s)'
    OBVIOUS
  <2>1. Concluded(s) /\ stored'.cond = stored.cond
    BY DEF Knows
  <2>2. Range(Steps[s.bento]) \subseteq Children
    BY StepsFacts, SpecsFacts
  <2> QED BY <2>1, <2>2 DEF Concluded
<1> QED BY <1>1, <1>2, <1>3, <1>4 DEF Knows

\* The same, for a step that queues the key unless the cache keeps its spec.
LEMMA WorldKeeps ==
    ASSUME QuietInv, StatusInv', SeenOrLagging', UNCHANGED passVars,
           stored' = NoBD \/ (stored # NoBD /\ stored'.cond = stored.cond),
           ~dirty' =>
             /\ ~dirty /\ backoff' = backoff
             /\ (cached = NoBD) = (cached' = NoBD)
             /\ cached # NoBD =>
                  /\ cached'.spec = cached.spec
                  /\ bentoSeen'[cached.spec.bento] = bentoSeen[cached.spec.bento]
                  /\ ~bentoSeen[cached.spec.bento] =>
                        requestSeen'[cached.spec.bento] = requestSeen[cached.spec.bento]
             /\ \A c \in Children, s \in Specs : Secured(c, s) => Secured(c, s)'
    PROVE  QuietInv'
<1>1. Outcome'
  BY DEF QuietInv, Outcome, Written, passVars
<1>2. ASSUME ~dirty' PROVE pc' # "idle" => cached' # NoBD
  BY <1>2 DEF QuietInv, KnowsCached, passVars
<1>3. ASSUME ~dirty', NEW s \in Specs, cached' # NoBD, cached'.spec = s
      PROVE  Knows(s)'
  <2>1. cached # NoBD /\ cached.spec = s /\ ~dirty
    BY <1>3
  <2>2. Knows(s)
    BY <2>1 DEF QuietInv, KnowsCached
  <2> QED BY <1>3, <2>1, <2>2, WorldKnows
<1>4. KnowsCached'
  BY <1>2, <1>3 DEF KnowsCached
<1> QED BY <1>1, <1>4 DEF QuietInv

LEMMA UserQuiet ==
    ASSUME QuietInv, StatusInv', EditSpec \/ DeleteBD
    PROVE  QuietInv'
<1> USE DEF clusterVars, queueVars, bentoVars, requestVars
<1>1. /\ UNCHANGED passVars /\ UNCHANGED childVars /\ cached' = cached
      /\ UNCHANGED <<dirty, backoff, bentoSeen, requestSeen>>
  BY DEF EditSpec, DeleteBD
<1>2. stored' = NoBD \/ (stored # NoBD /\ stored'.cond = stored.cond)
  <2>1. CASE DeleteBD BY <2>1 DEF DeleteBD, Store
  <2>2. CASE EditSpec
    <3>1. PICK s \in Specs : Store([stored EXCEPT !.spec = s]) BY <2>2 DEF EditSpec
    <3>2. stored # NoBD /\ stored \in BentoDeployments
      BY <2>2 DEF EditSpec, QuietInv, StatusInv, TypeOK, BDType
    <3> QED BY <3>1, <3>2 DEF Store, BentoDeployments
  <2> QED BY <2>1, <2>2
<1>3. SeenOrLagging' BY <1>1, SecuredSame DEF QuietInv
<1>4. \A c \in Children, s \in Specs : Secured(c, s) => Secured(c, s)'
  BY <1>1, SecuredSame
<1> QED BY <1>1, <1>2, <1>3, <1>4, WorldKeeps

\* What happens to Bentos and requests in the API server reaches the pass only
\* by their informers.
LEMMA ClusterQuiet ==
    ASSUME QuietInv, StatusInv',
           UNCHANGED <<bdVars, bentoSeen, requestSeen, childVars, passVars>>,
           (dirty' = dirty /\ backoff' = backoff) \/ dirty'
    PROVE  QuietInv'
<1>1. SeenOrLagging' BY SecuredSame DEF QuietInv
<1>2. \A c \in Children, s \in Specs : Secured(c, s) => Secured(c, s)'
  BY SecuredSame
<1>3. stored' = NoBD \/ (stored # NoBD /\ stored'.cond = stored.cond)
  BY DEF bdVars
<1>4. cached' = cached BY DEF bdVars
<1> QED BY <1>1, <1>2, <1>3, <1>4, WorldKeeps

\* An update of the object that is not queued leaves the spec as it was.
LEMMA DeliverBDQuiet ==
    ASSUME QuietInv, StatusInv', DeliverBD
    PROVE  QuietInv'
<1> USE DEF clusterVars, bentoVars, requestVars
<1>1. /\ UNCHANGED passVars /\ UNCHANGED childVars /\ stored' = stored
      /\ UNCHANGED <<backoff, bentoSeen, requestSeen>>
      /\ dirty' = (dirty \/ GenerationChanged(cached, cached'))
  BY DEF DeliverBD
<1>2. SeenOrLagging' BY <1>1, SecuredSame DEF QuietInv
<1>3. \A c \in Children, s \in Specs : Secured(c, s) => Secured(c, s)'
  BY <1>1, SecuredSame
<1>4. ~dirty' => /\ ~dirty /\ cached # NoBD /\ cached' # NoBD
                 /\ cached'.spec = cached.spec
  BY <1>1 DEF GenerationChanged
<1>5. stored' = NoBD \/ (stored # NoBD /\ stored'.cond = stored.cond)
  BY <1>1
<1> QED BY <1>1, <1>2, <1>3, <1>4, <1>5, WorldKeeps

\* A change of the Bento that the object names is queued; so is one of its
\* request, while that Bento is missing.
LEMMA DeliverBentoQuiet ==
    ASSUME QuietInv, StatusInv', NEW b \in Bentos, DeliverBento(b) \/ DeliverRequest(b)
    PROVE  QuietInv'
<1> USE DEF bdVars, requestVars
<1>1. /\ UNCHANGED passVars /\ UNCHANGED childVars
      /\ UNCHANGED <<backoff, stored, cached>>
  BY DEF DeliverBento, DeliverRequest, bentoVars
<1>2. SeenOrLagging' BY <1>1, SecuredSame DEF QuietInv
<1>3. \A c \in Children, s \in Specs : Secured(c, s) => Secured(c, s)'
  BY <1>1, SecuredSame
<1>4. ASSUME ~dirty', cached # NoBD
      PROVE  /\ ~dirty
             /\ bentoSeen'[cached.spec.bento] = bentoSeen[cached.spec.bento]
             /\ ~bentoSeen[cached.spec.bento] =>
                   requestSeen'[cached.spec.bento] = requestSeen[cached.spec.bento]
  <2>1. /\ bentoSeen \in [Bentos -> BOOLEAN] /\ requestSeen \in [Bentos -> Requests]
        /\ cached.spec.bento \in Bentos
    BY <1>4, CachedSpec, SpecsFacts DEF QuietInv, StatusInv, TypeOK, ClusterType
  <2>2. CASE DeliverBento(b)
    <3>1. ~dirty /\ cached.spec.bento # b
      BY <1>4, <2>2 DEF DeliverBento, BentoEnqueues, Names
    <3> QED BY <2>1, <2>2, <3>1 DEF DeliverBento
  <2>3. CASE DeliverRequest(b)
    <3>1. ~dirty /\ (bentoSeen[b] \/ cached.spec.bento # b)
      BY <1>4, <2>3 DEF DeliverRequest, RequestEnqueues, Names
    <3> QED BY <2>1, <2>3, <3>1 DEF DeliverRequest, bentoVars
  <2> QED BY <2>2, <2>3
<1>5. ~dirty' => ~dirty BY DEF DeliverBento, DeliverRequest
<1>6. stored' = NoBD \/ (stored # NoBD /\ stored'.cond = stored.cond) BY <1>1
<1> QED BY <1>1, <1>2, <1>3, <1>4, <1>5, <1>6, WorldKeeps
-----------------------------------------------------------------------------
(***************************************************************************)
(* Children: written by passes, by others and by the garbage collector.    *)
(***************************************************************************)
LEMMA SetChildSeen ==
    ASSUME ClusterType, SeenOrLagging, NEW c \in Children, NEW content, SetChild(c, content)
    PROVE  /\ SeenOrLagging'
           /\ c \in lagging' /\ child'[c] = content /\ childSeen' = childSeen
           /\ \A e \in Children : \A s : e # c /\ Secured(e, s) => Secured(e, s)'
<1>1. /\ c \in lagging' /\ child'[c] = content /\ childSeen' = childSeen
      /\ \A e \in Children : e # c => child'[e] = child[e] /\ (e \in lagging' <=> e \in lagging)
  BY DEF ClusterType, SetChild
<1>2. SeenOrLagging' BY <1>1 DEF SeenOrLagging
<1>3. \A e \in Children : \A s : e # c /\ Secured(e, s) => Secured(e, s)'
  BY <1>1 DEF Secured, Kept, ChildEnqueues, Owned, Wanted
<1> QED BY <1>1, <1>2, <1>3

\* Somebody else's edit of a child is noticed, except that of a Service, which
\* does not remove it.
LEMMA OthersChildQuiet ==
    ASSUME QuietInv, StatusInv', NEW c \in Children, TamperChild(c) \/ CollectChild(c)
    PROVE  QuietInv'
<1> USE DEF bdVars, bentoVars, requestVars, queueVars
<1>1. /\ UNCHANGED passVars
      /\ UNCHANGED <<stored, cached, dirty, backoff, bentoSeen, requestSeen>>
      /\ child[c] # Absent
  BY DEF TamperChild, CollectChild
<1>2. PICK content \in {Foreign, Absent} : SetChild(c, content)
  BY DEF TamperChild, CollectChild
<1>3. /\ SeenOrLagging'
      /\ c \in lagging' /\ child'[c] = content /\ childSeen' = childSeen
      /\ \A e \in Children : \A s : e # c /\ Secured(e, s) => Secured(e, s)'
  BY <1>2, SetChildSeen DEF QuietInv, StatusInv, TypeOK
<1>4. ASSUME NEW s \in Specs, Secured(c, s) PROVE Secured(c, s)'
  <2>1. CASE c \notin Services \/ content = Absent
    BY <1>3, <2>1 DEF Secured, ChildEnqueues, Owned
  <2>2. CASE c \in Services /\ content = Foreign
    <3>1. child'[c] # Absent BY <1>3, <2>2, DistinctAssumption
    <3>2. CASE Kept(c, s)
      BY <1>1, <2>2, <3>1, <3>2 DEF Secured, Kept, Wanted
    <3>3. CASE childSeen[c] = Absent
      BY <1>3, <3>3 DEF Secured, ChildEnqueues, Owned
    <3> QED BY <1>1, <1>4, <2>2, <3>2, <3>3 DEF Secured, ChildEnqueues
  <2> QED BY <1>2, <2>1, <2>2
<1>5. \A e \in Children, s \in Specs : Secured(e, s) => Secured(e, s)' BY <1>3, <1>4
<1>6. stored' = NoBD \/ (stored # NoBD /\ stored'.cond = stored.cond) BY <1>1
<1> QED BY <1>1, <1>3, <1>5, <1>6, WorldKeeps

\* A child whose event does not queue the key is as it was to be.
LEMMA DeliverChildQuiet ==
    ASSUME QuietInv, StatusInv', NEW c \in Children, DeliverChild(c)
    PROVE  QuietInv'
<1> USE DEF bdVars, bentoVars, requestVars
<1>1. /\ UNCHANGED passVars
      /\ UNCHANGED <<stored, cached, backoff, bentoSeen, requestSeen, child>>
      /\ dirty' = (dirty \/ ChildEnqueues(c))
  BY DEF DeliverChild
<1>2. /\ childSeen'[c] = child[c] /\ c \notin lagging'
      /\ \A e \in Children : e # c => /\ childSeen'[e] = childSeen[e]
                                      /\ (e \in lagging' <=> e \in lagging)
  BY DEF DeliverChild, QuietInv, StatusInv, TypeOK, ClusterType
<1>3. SeenOrLagging' BY <1>1, <1>2 DEF QuietInv, SeenOrLagging
<1>4. ASSUME ~dirty', NEW e \in Children, NEW s \in Specs, Secured(e, s)
      PROVE  Secured(e, s)'
  <2>1. CASE e = c
    <3>1. Kept(e, s) BY <1>1, <1>4, <2>1 DEF Secured
    <3> QED BY <1>1, <3>1 DEF Secured, Kept, Wanted
  <2>2. CASE e # c
    BY <1>1, <1>2, <1>4, <2>2 DEF Secured, Kept, Wanted, ChildEnqueues, Owned
  <2> QED BY <2>1, <2>2
<1>5. stored' = NoBD \/ (stored # NoBD /\ stored'.cond = stored.cond) BY <1>1
<1> QED BY <1>1, <1>3, <1>4, <1>5, WorldKeeps

\* What a pass does with one child leaves it as it is to be, or with the event
\* on its way that says why not.
LEMMA ChildApplied ==
    ASSUME TypeOK, SeenOrLagging, pc = "apply", NEW s \in Specs, s = Desired,
           NEW c \in Children,
           CreateChild(c) \/ UpdateChild(c) \/ DeleteChild(c) \/ SkipChild(c)
    PROVE  /\ SeenOrLagging'
           /\ Secured(c, s)'
           /\ \A e \in Children : Secured(e, s) => Secured(e, s)'
<1>1. bd.spec.config = s.config /\ s # Absent
  BY SpecsFacts DEF Desired
<1>2. CASE CreateChild(c) \/ UpdateChild(c)
  <2>1. SetChild(c, s) /\ Wanted(c, s.config)
    BY <1>1, <1>2 DEF CreateChild, UpdateChild
  <2>2. /\ SeenOrLagging' /\ child'[c] = s
        /\ \A e \in Children : e # c /\ Secured(e, s) => Secured(e, s)'
    BY <2>1, SetChildSeen DEF TypeOK
  <2>3. Secured(c, s)' BY <1>1, <2>1, <2>2 DEF Secured, Kept, Wanted
  <2> QED BY <2>2, <2>3
<1>3. CASE DeleteChild(c)
  <2>1. SetChild(c, Absent) /\ ~Wanted(c, s.config)
    BY <1>1, <1>3 DEF DeleteChild
  <2>2. /\ SeenOrLagging' /\ child'[c] = Absent
        /\ \A e \in Children : e # c /\ Secured(e, s) => Secured(e, s)'
    BY <2>1, SetChildSeen DEF TypeOK
  <2>3. Secured(c, s)' BY <2>1, <2>2 DEF Secured, Kept, Wanted
  <2> QED BY <2>2, <2>3
<1>4. CASE SkipChild(c)
  <2>1. /\ childSeen[c] = IF Wanted(c, s.config) THEN s ELSE Absent
        /\ UNCHANGED childVars
    BY <1>1, <1>4 DEF SkipChild
  <2>2. Secured(c, s)
    <3>1. CASE c \notin lagging
      <4>1. child[c] = IF Wanted(c, s.config) THEN s ELSE Absent
        BY <2>1, <3>1 DEF SeenOrLagging
      <4>2. Wanted(c, s.config) \in BOOLEAN BY DEF Wanted
      <4> QED BY <1>1, <4>1, <4>2 DEF Secured, Kept
    <3>2. CASE c \in lagging /\ c \notin Services
      BY <3>2 DEF Secured, ChildEnqueues, Owned
    <3>3. CASE c \in lagging /\ c \in Services
      <4>1. CASE child[c] = Absent \/ childSeen[c] = Absent
        BY <3>3, <4>1 DEF Secured, ChildEnqueues, Owned
      <4>2. CASE child[c] # Absent /\ childSeen[c] # Absent
        <5>1. Wanted(c, s.config) BY <2>1, <4>2
        <5>2. Wanted(c, s.config) = TRUE BY <5>1 DEF Wanted
        <5> QED BY <3>3, <4>2, <5>2 DEF Secured, Kept
      <4> QED BY <4>1, <4>2
    <3> QED BY <3>1, <3>2, <3>3
  <2> QED BY <2>1, <2>2, SecuredSame
<1> QED BY <1>2, <1>3, <1>4
-----------------------------------------------------------------------------
(***************************************************************************)
(* Steps of the pass.                                                      *)
(***************************************************************************)
\* A step of a pass changes neither what is in its cache nor whether the key is
\* queued again: what it knows, it knows of the same spec.
LEMMA PassKeeps ==
    ASSUME QuietInv, StatusInv', SeenOrLagging', Outcome', pc # "idle",
           UNCHANGED <<cached, dirty>>,
           \A s \in Specs : (~dirty /\ cached # NoBD /\ cached.spec = s /\ Knows(s)) => Knows(s)'
    PROVE  QuietInv'
<1>1. KnowsCached'
  BY DEF QuietInv, KnowsCached
<1> QED BY <1>1 DEF QuietInv

LEMMA AbortQuiet ==
    ASSUME QuietInv, StatusInv', SeenOrLagging', pc # "idle", Abort,
           UNCHANGED cached
    PROVE  QuietInv'
<1>1. /\ pc' = "status" /\ site' = "failed" /\ bd' = bd /\ target' = target
      /\ dirty' = dirty
  BY DEF Abort, SetStatus, queueVars
<1>2. Outcome' BY <1>1 DEF Outcome, Written
<1>3. ASSUME NEW s \in Specs, Knows(s) PROVE Knows(s)'
  BY <1>1, <1>3
  DEF Knows, FoundSide, MissSide, RequestRead, Working, MissingSites, Applied
<1> QED BY <1>1, <1>2, <1>3, PassKeeps

LEMMA ErrorQuiet ==
    ASSUME QuietInv, StatusInv', SeenOrLagging', pc # "idle", Return(TRUE),
           UNCHANGED cached
    PROVE  QuietInv'
<1>1. pc' = "idle" /\ backoff' /\ dirty' = dirty BY DEF Return
<1>2. Outcome' BY <1>1 DEF Outcome, Written
<1>3. ASSUME NEW s \in Specs PROVE Knows(s)'
  BY <1>1 DEF Knows, FoundSide, MissSide, RequestRead, Working, Applied
<1> QED BY <1>1, <1>2, <1>3, PassKeeps

\* A pass begins with the object as it is in the cache, and knows nothing yet.
LEMMA BeginQuiet ==
    ASSUME QuietInv, StatusInv', Begin
    PROVE  QuietInv'
<1> USE DEF bdVars, clusterVars
<1>1. /\ SeenOrLagging' /\ stored' = stored /\ cached' = cached /\ pc = "idle"
  BY SecuredSame DEF QuietInv, Begin
<1>2. CASE cached = NoBD
  <2>1. UNCHANGED passVars BY <1>2 DEF Begin
  <2>2. Outcome' BY <1>1, <2>1 DEF QuietInv, Outcome, Written, passVars
  <2>3. KnowsCached' BY <1>1, <1>2, <2>1 DEF KnowsCached, passVars
  <2> QED BY <1>1, <2>2, <2>3 DEF QuietInv
<1>3. CASE cached # NoBD
  <2>1. /\ pc' \in {"status", "getBento"} /\ site' = "initialise"
        /\ bd' = cached /\ target' = cached.spec.bento
    BY <1>3 DEF Begin
  <2>2. Outcome' BY <2>1 DEF Outcome, Written
  <2>3. ASSUME NEW s \in Specs, cached.spec = s PROVE Knows(s)'
    BY <1>1, <2>1, <2>3
    DEF Knows, FoundSide, MissSide, RequestRead, Working, MissingSites, Applied
  <2>4. KnowsCached' BY <1>1, <1>3, <2>3 DEF KnowsCached
  <2> QED BY <1>1, <2>2, <2>4 DEF QuietInv
<1> QED BY <1>2, <1>3

LEMMA GetBentoQuiet ==
    ASSUME QuietInv, StatusInv', GetBento
    PROVE  QuietInv'
<1> USE DEF bdVars, clusterVars, bentoVars, requestVars
<1>1. /\ SeenOrLagging' /\ pc = "getBento"
      /\ UNCHANGED <<stored, cached, bentoSeen, requestSeen, childVars>>
  BY SecuredSame DEF QuietInv, GetBento
<1>2. CASE Abort BY <1>1, <1>2, AbortQuiet
<1>3. CASE ~Abort
  <2>1. /\ target' = bd.spec.bento /\ pc' = "status" /\ bd' = bd /\ dirty' = dirty
        /\ site' = IF bentoSeen[target'] THEN "bentoFound" ELSE "bentoMissing"
    BY <1>3 DEF GetBento, queueVars
  <2>2. Outcome' BY <2>1 DEF Outcome, Written
  <2>3. ASSUME NEW s \in Specs, Knows(s) PROVE Knows(s)'
    <3>1. bd'.spec = s /\ target' = s.bento BY <1>1, <2>1, <2>3 DEF Knows
    <3> QED BY <1>1, <2>1, <3>1
        DEF Knows, FoundSide, MissSide, RequestRead, Working, MissingSites, Applied
  <2> QED BY <1>1, <2>1, <2>2, <2>3, PassKeeps
<1> QED BY <1>2, <1>3

LEMMA GetRequestQuiet ==
    ASSUME QuietInv, StatusInv', GetRequest
    PROVE  QuietInv'
<1> USE DEF bdVars, clusterVars, bentoVars, requestVars
<1>1. /\ SeenOrLagging' /\ pc = "getRequest"
      /\ UNCHANGED <<stored, cached, bentoSeen, requestSeen, childVars>>
  BY SecuredSame DEF QuietInv, GetRequest
<1>2. /\ req' = requestSeen[bd.spec.bento] /\ bd' = bd /\ target' = target
      /\ pc' = "status" /\ site' \in {"requestMissing", "requestFound"} /\ dirty' = dirty
  BY DEF GetRequest, SetStatus, queueVars
<1>3. Outcome' BY <1>2 DEF Outcome, Written
<1>4. ASSUME NEW s \in Specs, Knows(s) PROVE Knows(s)'
  <2>1. bd.spec = s /\ ~bentoSeen[s.bento]
    BY <1>1, <1>4 DEF Knows, MissSide
  <2> QED BY <1>1, <1>2, <1>4, <2>1
      DEF Knows, FoundSide, MissSide, RequestRead, Working, MissingSites, Applied
<1> QED BY <1>1, <1>2, <1>3, <1>4, PassKeeps

\* Only an accepted write stores anything, and it says what the pass has found.
LEMMA TryStatusQuiet ==
    ASSUME QuietInv, StatusInv', TryStatus
    PROVE  QuietInv'
<1> USE DEF clusterVars, bentoVars, requestVars
<1>1. /\ SeenOrLagging' /\ pc = "status" /\ cached # NoBD /\ site \in Sites
      /\ UNCHANGED <<cached, bentoSeen, requestSeen, childVars>>
  BY SecuredSame DEF QuietInv, TryStatus, StatusInv, TypeOK, PassType
<1>2. CASE Return(TRUE) BY <1>1, <1>2, ErrorQuiet
<1>3. CASE Abort BY <1>1, <1>3, AbortQuiet
<1>4. CASE /\ pc' \in {"status", "reget"} /\ UNCHANGED <<site, bd, target, req, queueVars>>
           /\ pc' = "reget" => Current /\ WriteStatus
  <2>1. Outcome'
    <3> SUFFICES ASSUME stored' # NoBD, pc' = "reget", site \in {"available", "failed"}
                 PROVE  /\ site = "available" => /\ stored'.cond.available = "True"
                                                 /\ stored'.cond.bentoFound = "True"
                        /\ site = "failed" => stored'.cond.available = "False"
      BY <1>4 DEF Outcome, Written
    <3>1. /\ stored \in BentoDeployments /\ stored # NoBD
          /\ stored'.cond = SetConditions(stored.cond, site)
      BY <1>1, <1>4, WriteStatusStores DEF QuietInv
    <3>2. stored.cond \in Conditions BY <3>1 DEF BentoDeployments
    <3>3. site = "available" => stored.cond.bentoFound = "True"
      BY <1>1, <3>1 DEF QuietInv, StatusInv, Phase, BentoReported, Writing
    <3> QED BY <3>1, <3>2, <3>3 DEF SetConditions, Conditions
  <2>2. ASSUME NEW s \in Specs, Knows(s) PROVE Knows(s)'
    <3>1. (FoundSide' => FoundSide) /\ (MissSide' => MissSide) /\ (RequestRead' => RequestRead)
      BY <1>1, <1>4 DEF FoundSide, MissSide, RequestRead, Working
    <3>2. \A c \in Children : Applied(c)' => Applied(c)
      BY <1>1, <1>4 DEF Applied, Working
    <3>3. \A c \in Children : Applied(c)' => Secured(c, s)'
      BY <1>1, <2>2, <3>2, SecuredSame DEF Knows
    <3> QED BY <1>1, <1>4, <2>2, <3>1, <3>3 DEF Knows
  <2> QED BY <1>1, <1>4, <2>1, <2>2, PassKeeps DEF queueVars
<1> QED BY <1>1, <1>2, <1>3, <1>4 DEF TryStatus, StatusError

LEMMA StatusGoneQuiet ==
    ASSUME QuietInv, StatusInv', StatusGone
    PROVE  QuietInv'
<1>1. SeenOrLagging' /\ pc # "idle" /\ cached' = cached
  BY SecuredSame DEF QuietInv, StatusGone, clusterVars, bdVars
<1> QED BY <1>1, ErrorQuiet, AbortQuiet DEF StatusGone, StatusError

\* The pass has ended: what it has written is what it has found.
LEMMA RegetConcludes ==
    ASSUME QuietInv, NEW s \in Specs, Knows(s), pc = "reget", Returns, stored # NoBD
    PROVE  Concluded(s)
<1>1. CASE site = "failed" BY <1>1 DEF QuietInv, Outcome, Written, Concluded
<1>2. CASE site = "available"
  <2>1. stored.cond.available = "True" /\ stored.cond.bentoFound = "True"
    BY <1>2 DEF QuietInv, Outcome, Written
  <2>2. bentoSeen[s.bento] /\ target = s.bento
    BY <1>2 DEF Knows, FoundSide, Working
  <2>3. \A c \in Range(Steps[s.bento]) : Secured(c, s)
    <3>1. Range(Steps[s.bento]) \subseteq Children BY StepsFacts, SpecsFacts
    <3>2. \A c \in Range(Steps[s.bento]) : Applied(c)
      BY <1>2, <2>2 DEF Applied, Working
    <3> QED BY <3>1, <3>2 DEF Knows
  <2> QED BY <2>1, <2>2, <2>3 DEF Concluded
<1>3. CASE site = "requestFound" /\ req # "failed"
  <2>1. stored.cond.bentoFound = "False"
    BY <1>3 DEF QuietInv, StatusInv, Phase, MissReported, MissingSites, Written
  <2>2. ~bentoSeen[s.bento] /\ req = requestSeen[s.bento]
    BY <1>3 DEF Knows, MissSide, MissingSites, RequestRead, Working
  <2> QED BY <1>3, <2>1, <2>2 DEF Concluded
<1> QED BY <1>1, <1>2, <1>3 DEF Returns

LEMMA RegetStatusQuiet ==
    ASSUME QuietInv, StatusInv', RegetStatus
    PROVE  QuietInv'
<1> USE DEF bdVars, clusterVars, bentoVars, requestVars
<1>1. /\ SeenOrLagging' /\ pc = "reget" /\ cached # NoBD
      /\ UNCHANGED <<stored, cached, bentoSeen, requestSeen, childVars>>
  BY SecuredSame DEF QuietInv, RegetStatus
<1>2. CASE Returns /\ Return(FALSE)
  <2>1. pc' = "idle" /\ dirty' = dirty /\ backoff' = backoff
    BY <1>2 DEF Return, QuietInv, StatusInv, TypeOK, FlagType
  <2>2. Outcome' BY <2>1 DEF Outcome, Written
  <2>3. ASSUME NEW s \in Specs, Knows(s) PROVE Knows(s)'
    <3>1. stored # NoBD => Concluded(s) BY <1>1, <1>2, <2>3, RegetConcludes
    <3>2. stored' # NoBD => Concluded(s)'
      BY <1>1, <3>1, SecuredSame DEF Concluded
    <3> QED BY <2>1, <3>2 DEF Knows, FoundSide, MissSide, RequestRead, Working, Applied
  <2> QED BY <1>1, <2>1, <2>2, <2>3, PassKeeps
<1>3. CASE ~Returns /\ AfterStatus(cached) /\ bd' = cached /\ UNCHANGED <<target, req>>
  <2>1. dirty' = dirty /\ pc' \in {"getBento", "sync", "apply", "getRequest", "status"}
    BY <1>3 DEF AfterStatus, Continue, SetStatus, queueVars
  <2>2. Outcome' BY <2>1 DEF Outcome, Written
  <2>3. /\ FoundSide' => FoundSide
        /\ MissSide' => MissSide
        /\ RequestRead' => RequestRead
    BY <1>1, <1>3
    DEF AfterStatus, Continue, SetStatus, FoundSide, MissSide, RequestRead, Working, MissingSites
  <2>4. \A c : ~Applied(c)'
    <3>1. ~Working({"available"})' /\ (pc' \in {"apply", "sync"} => site = "bentoFound")
      BY <1>1, <1>3 DEF AfterStatus, Continue, SetStatus, Working
    <3>2. pc' = "apply" => next' = 1
      BY <1>1, <1>3 DEF AfterStatus, Continue, SetStatus
    <3>3. pc' = "sync" => Steps[target'] = <<>>
      BY <1>1, <1>3 DEF AfterStatus, Continue, SetStatus
    <3>4. Range(<<>>) = {} BY DEF Range
    <3> QED BY <3>1, <3>2, <3>3, <3>4 DEF Applied
  <2>5. ASSUME NEW s \in Specs, Knows(s), cached.spec = s PROVE Knows(s)'
    <3>1. bd'.spec = s /\ target' = s.bento BY <1>1, <1>3, <2>5 DEF Knows
    <3>2. pc' # "idle" BY <2>1
    <3> QED BY <1>1, <1>3, <2>3, <2>4, <2>5, <3>1, <3>2 DEF Knows
  <2> QED BY <1>1, <2>1, <2>2, <2>5, PassKeeps
<1> QED BY <1>2, <1>3 DEF RegetStatus

LEMMA ApplyChildQuiet ==
    ASSUME QuietInv, StatusInv', ApplyChild
    PROVE  QuietInv'
<1> USE DEF bdVars, bentoVars, requestVars
<1>1. /\ pc = "apply" /\ UNCHANGED <<stored, cached, bentoSeen, requestSeen>>
      /\ target \in Bentos /\ next \in 1 .. Len(Steps[target])
  BY DEF ApplyChild, QuietInv, StatusInv, TypeOK, PassType
<1>2. PICK c \in Children : c = Steps[target][next] BY <1>1, StepsFacts
<1>3. CASE Abort
  <2>1. SeenOrLagging'
    <3>1. CASE UNCHANGED childVars BY <3>1, SecuredSame DEF QuietInv
    <3>2. ASSUME NEW content, SetChild(c, content) PROVE SeenOrLagging'
      BY <3>2, SetChildSeen DEF QuietInv, StatusInv, TypeOK
    <3>3. \/ UNCHANGED childVars
          \/ CreateChild(c) \/ UpdateChild(c) \/ DeleteChild(c)
      BY <1>2 DEF ApplyChild, RefuseChild, SkipChild
    <3> QED BY <3>1, <3>2, <3>3 DEF CreateChild, UpdateChild, DeleteChild
  <2> QED BY <1>1, <1>3, <2>1, AbortQuiet
<1>4. CASE /\ CreateChild(c) \/ UpdateChild(c) \/ DeleteChild(c) \/ SkipChild(c)
           /\ IF next < Len(Steps[target])
              THEN next' = next + 1 /\ UNCHANGED <<pc, site, try, conf, queueVars>>
              ELSE Continue("sync")
           /\ UNCHANGED <<bd, target, req>>
  <2>1. SeenOrLagging'
    <3>1. CASE SkipChild(c) BY <3>1, SecuredSame DEF SkipChild, QuietInv
    <3>2. ASSUME NEW content, SetChild(c, content) PROVE SeenOrLagging'
      BY <3>2, SetChildSeen DEF QuietInv, StatusInv, TypeOK
    <3> QED BY <1>4, <3>1, <3>2 DEF CreateChild, UpdateChild, DeleteChild
  <2>2. /\ dirty' = dirty /\ pc' \in {"apply", "sync"}
        /\ pc' = "apply" => next < Len(Steps[target]) /\ next' = next + 1
        /\ pc' = "sync" => ~(next < Len(Steps[target]))
        /\ ~Working({"available", "requestMissing", "requestFound", "unavailable"})'
    BY <1>1, <1>4 DEF Continue, queueVars, Working
  <2>3. Outcome' BY <2>2 DEF Outcome, Written
  <2>4. ASSUME NEW s \in Specs, Knows(s) PROVE Knows(s)'
    <3>1. bd.spec = s /\ target = s.bento /\ bentoSeen[s.bento]
      BY <1>1, <2>4 DEF Knows, FoundSide
    <3>2. s = Desired BY <3>1, SpecsFacts DEF Desired
    <3>3. Secured(c, s)' /\ \A e \in Children : Secured(e, s) => Secured(e, s)'
      BY <1>1, <1>4, <3>2, ChildApplied DEF QuietInv, StatusInv
    <3>4. ASSUME NEW e \in Children, Applied(e)' PROVE Applied(e) \/ e = c
      <4>1. Len(Steps[target]) \in Nat /\ next \in Nat BY <1>1, StepsFacts
      <4>2. PICK i \in 1 .. Len(Steps[target]) : i <= next /\ e = Steps[target][i]
        <5>1. CASE pc' = "apply" BY <1>4, <2>2, <3>4, <4>1, <5>1 DEF Applied, Working
        <5>2. CASE pc' = "sync"
          <6>1. e \in Range(Steps[target]) BY <1>4, <3>4, <5>2 DEF Applied
          <6>2. PICK i \in 1 .. Len(Steps[target]) : e = Steps[target][i]
            BY <1>1, <6>1, StepsFacts
          <6> QED BY <1>1, <2>2, <4>1, <5>2, <6>2
        <5> QED BY <2>2, <5>1, <5>2
      <4>3. CASE i = next BY <1>2, <4>2, <4>3
      <4>4. CASE i < next BY <1>1, <4>2, <4>4 DEF Applied
      <4> QED BY <4>1, <4>2, <4>3, <4>4
    <3>5. \A e \in Children : Applied(e)' => Secured(e, s)'
      BY <2>4, <3>3, <3>4 DEF Knows
    <3>6. ~MissSide' /\ ~RequestRead'
      BY <1>1, <1>4, <2>2 DEF MissSide, RequestRead, Working
    <3> QED BY <1>1, <1>4, <2>2, <3>1, <3>5, <3>6 DEF Knows
  <2> QED BY <1>1, <2>1, <2>2, <2>3, <2>4, PassKeeps
<1> QED BY <1>2, <1>3, <1>4 DEF ApplyChild

LEMMA SyncQuiet ==
    ASSUME QuietInv, StatusInv', Sync
    PROVE  QuietInv'
<1> USE DEF bdVars, clusterVars, bentoVars, requestVars
<1>1. /\ SeenOrLagging' /\ pc = "sync"
      /\ UNCHANGED <<stored, cached, bentoSeen, requestSeen, childVars>>
  BY SecuredSame DEF QuietInv, Sync
<1>2. CASE Abort BY <1>1, <1>2, AbortQuiet
<1>3. CASE SetStatus("available") /\ UNCHANGED <<bd, target, req>>
  <2>1. pc' = "status" /\ site' = "available" /\ dirty' = dirty
    BY <1>3 DEF SetStatus, queueVars
  <2>2. Outcome' BY <2>1 DEF Outcome, Written
  <2>3. ASSUME NEW s \in Specs, Knows(s) PROVE Knows(s)'
    <3>1. \A c \in Children : Applied(c)' => Applied(c)
      BY <1>1, <1>3, <2>1 DEF Applied
    <3>2. \A c \in Children : Applied(c)' => Secured(c, s)'
      BY <1>1, <2>3, <3>1, SecuredSame DEF Knows
    <3>3. bentoSeen[s.bento] BY <1>1, <2>3 DEF Knows, FoundSide
    <3>4. ~MissSide' /\ ~RequestRead'
      BY <2>1 DEF MissSide, MissingSites, RequestRead, Working
    <3> QED BY <1>1, <1>3, <2>1, <2>3, <3>2, <3>3, <3>4 DEF Knows
  <2> QED BY <1>1, <2>1, <2>2, <2>3, PassKeeps
<1> QED BY <1>2, <1>3 DEF Sync
-----------------------------------------------------------------------------
\* A restart has the key in the queue, unless the object is gone.
LEMMA RestartQuiet ==
    ASSUME QuietInv, StatusInv', Restart
    PROVE  QuietInv'
<1>1. /\ dirty' = (stored # NoBD) /\ cached' = stored /\ stored' = stored /\ pc' = "idle"
      /\ childSeen' = child /\ child' = child
  BY DEF Restart
<1>2. SeenOrLagging' BY <1>1 DEF SeenOrLagging
<1>3. Outcome' BY <1>1 DEF Outcome, Written
<1>4. KnowsCached' BY <1>1 DEF KnowsCached
<1> QED BY <1>2, <1>3, <1>4 DEF QuietInv

LEMMA QuietInit == Init => QuietInv
<1> SUFFICES ASSUME Init PROVE QuietInv
  OBVIOUS
<1>1. SeenOrLagging BY DEF Init, SeenOrLagging
<1>2. Outcome BY DEF Init, Outcome, Written
<1>3. KnowsCached BY DEF Init, KnowsCached
<1> QED BY <1>1, <1>2, <1>3, InitStatus DEF QuietInv

LEMMA QuietStep == QuietInv /\ [Next]_vars => QuietInv'
<1> SUFFICES ASSUME QuietInv, [Next]_vars PROVE QuietInv'
  OBVIOUS
<1>1. StatusInv' BY NextStatus DEF QuietInv
<1> USE DEF bentoVars, requestVars, queueVars, clusterVars
<1>2. CASE Users
  <2>1. CASE EditSpec \/ DeleteBD BY <1>1, <2>1, UserQuiet
  <2>2. CASE \E b \in Bentos : BuildBento(b) \/ RemoveBento(b) \/ ChangeRequest(b)
    BY <1>1, <2>2, ClusterQuiet DEF BuildBento, RemoveBento, ChangeRequest
  <2>3. CASE \E c \in Children : TamperChild(c) BY <1>1, <2>3, OthersChildQuiet
  <2>4. CASE \E c \in Children : TouchHPA(c) BY <1>1, <2>4, ClusterQuiet DEF TouchHPA
  <2> QED BY <1>2, <2>1, <2>2, <2>3, <2>4 DEF Users
<1>3. CASE Deliver
  BY <1>1, <1>3, DeliverBDQuiet, DeliverBentoQuiet, DeliverChildQuiet DEF Deliver
<1>4. CASE Step
  BY <1>1, <1>4, BeginQuiet, GetBentoQuiet, GetRequestQuiet, TryStatusQuiet, StatusGoneQuiet,
     RegetStatusQuiet, ApplyChildQuiet, SyncQuiet
  DEF Step
<1>5. CASE BackoffExpires \/ Resync
  BY <1>1, <1>5, ClusterQuiet DEF BackoffExpires, Resync
<1>6. CASE Collect BY <1>1, <1>6, OthersChildQuiet DEF Collect
<1>7. CASE Restart BY <1>1, <1>7, RestartQuiet
<1>8. CASE UNCHANGED vars BY <1>1, <1>8, ClusterQuiet DEF vars
<1> QED BY <1>2, <1>3, <1>4, <1>5, <1>6, <1>7, <1>8 DEF Next

\* With nothing on its way, what is secured is maintained.
LEMMA QuietSuffices == QuietInv => QuietStatusIsTrue
<1> SUFFICES ASSUME QuietInv, Quiet, stored # NoBD, stored.cond.available # "False"
             PROVE  /\ stored.cond.bentoFound = IF BentoExists THEN "True" ELSE "False"
                    /\ BentoExists => /\ stored.cond.available = "True"
                                      /\ \A c \in Range(Steps[stored.spec.bento]) : Maintained(c)
                    /\ ~BentoExists => request[stored.spec.bento] # "failed"
  BY DEF QuietStatusIsTrue
<1> DEFINE s == stored.spec
<1>1. /\ cached = stored /\ bentoSeen = bento /\ requestSeen = request /\ lagging = {}
      /\ pc = "idle" /\ ~dirty /\ ~backoff
  BY DEF Quiet, CachesCurrent, QuietInv, StatusInv, Latest
<1>2. s \in Specs BY <1>1, CachedSpec DEF QuietInv, StatusInv
<1>3. Concluded(s) BY <1>1, <1>2 DEF QuietInv, KnowsCached, Knows
<1>4. ASSUME NEW c, Secured(c, s) PROVE Maintained(c)
  <2>1. Kept(c, s) BY <1>1, <1>4 DEF Secured
  <2> QED BY <2>1 DEF Kept, Maintained, InPlace
<1>5. BentoExists = bentoSeen[s.bento] /\ request = requestSeen BY <1>1 DEF BentoExists
<1> QED BY <1>3, <1>4, <1>5 DEF Concluded

\* Whatever a pass reads stale, whatever changes while it runs, fails or is
\* refused, and wherever the process restarts: once the controller has nothing
\* left to do, a status that does not say Available=False is true of the Bento
\* and of every child that its events can maintain (Reconcile and its deferred
\* function, the watches and predicates of SetupWithManager).
THEOREM QuietStatusAlwaysTrue == Spec => []QuietStatusIsTrue
<1>1. Init => QuietInv BY QuietInit
<1>2. QuietInv /\ [Next]_vars => QuietInv' BY QuietStep
<1>3. QuietInv => QuietStatusIsTrue BY QuietSuffices
<1> QED BY <1>1, <1>2, <1>3, PTL DEF Spec
=============================================================================
