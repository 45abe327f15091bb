------------------ MODULE BentoDeploymentController_proofs ------------------
(***************************************************************************)
(* What holds of BentoDeploymentController for every set of Bentos,        *)
(* configs and children and for every bound: its type invariant, and that  *)
(* it implements DeploymentStatus.                                         *)
(***************************************************************************)
EXTENDS BentoDeploymentController, TLAPS

Objects == BentoDeployments \cup {NoBD}

\* Which of the four parts of the type invariant a step can disturb is which
\* group of variables it changes.
LEMMA SameBD == BDType /\ UNCHANGED bdVars => BDType'
  BY DEF BDType, bdVars

LEMMA SameCluster == ClusterType /\ UNCHANGED clusterVars => ClusterType'
  BY DEF ClusterType, clusterVars, bentoVars, requestVars, childVars

LEMMA SamePass == PassType /\ UNCHANGED passVars => PassType'
  BY DEF PassType, passVars

LEMMA SameFlags == FlagType /\ UNCHANGED <<dirty, backoff, conf>> => FlagType'
  BY DEF FlagType

\* The conditions after a status write are conditions.
LEMMA SetConditionsType ==
    ASSUME NEW c \in Conditions, NEW s \in Sites
    PROVE  SetConditions(c, s) \in Conditions
  BY DEF SetConditions, Sites, Conditions, Status

\* What the API server sends to the cache stays well-typed.
LEMMA StoreType ==
    ASSUME NEW new \in Objects, BDType, Store(new), cached' \in Objects
    PROVE  BDType'
  BY DEF BDType, Store, Objects

LEMMA SetChildType ==
    ASSUME ClusterType, NEW c \in Children, NEW content \in Contents,
           SetChild(c, content), UNCHANGED <<bentoVars, requestVars>>
    PROVE  ClusterType'
  BY DEF ClusterType, SetChild, bentoVars, requestVars

\* The bounds are counted down to zero.
LEMMA BoundsType == BoundType /\ (Act \/ Fault \/ UNCHANGED boundVars) => BoundType'
  BY ConstantsAssumption DEF BoundType, Act, Fault, boundVars

LEMMA InitType == Init => TypeOK
<1> SUFFICES ASSUME Init PROVE TypeOK
  OBVIOUS
<1> PICK s \in Specs : stored = [spec |-> s, cond |-> Unset]
  BY DEF Init
<1>1. BDType
  BY DEF Init, BDType, BentoDeployments, Conditions, Unset, Status
<1>2. ClusterType
  BY DEF Init, ClusterType, Contents, Requests
<1>3. s.bento \in Bentos
  BY DEF Specs
<1>4. AnyBento \in Bentos
  BY <1>3 DEF AnyBento
<1>5. PassType
  BY <1>4 DEF Init, PassType, Sites, MaxTries, Requests
<1>6. FlagType
  BY DEF Init, FlagType
<1>7. BoundType
  BY ConstantsAssumption DEF Init, BoundType
<1> QED
  BY <1>1, <1>2, <1>5, <1>6, <1>7 DEF TypeOK

\* Users disturb the object, the cluster and the bounds, never the pass.
LEMMA UsersType == TypeOK /\ Users => TypeOK'
<1> SUFFICES ASSUME TypeOK, Users PROVE TypeOK'
  OBVIOUS
<1> USE DEF TypeOK
<1>1. CASE EditSpec
  <2>1. PICK s \in Specs : Store([stored EXCEPT !.spec = s])
    BY <1>1 DEF EditSpec
  <2>2. [stored EXCEPT !.spec = s] \in Objects
    BY <1>1 DEF EditSpec, BDType, BentoDeployments, Objects
  <2>3. BDType'
    BY <1>1, <2>1, <2>2, StoreType DEF EditSpec, BDType, Objects
  <2> QED
    BY <1>1, <2>3, SameCluster, SamePass, SameFlags, BoundsType
    DEF EditSpec, queueVars, passVars
<1>2. CASE DeleteBD
  <2>1. BDType'
    BY <1>2, StoreType DEF DeleteBD, BDType, Objects
  <2> QED
    BY <1>2, <2>1, SameCluster, SamePass, SameFlags, BoundsType
    DEF DeleteBD, queueVars, passVars
<1>3. ASSUME NEW b \in Bentos, BuildBento(b) \/ RemoveBento(b) \/ ChangeRequest(b)
      PROVE  TypeOK'
  <2>1. ClusterType'
    BY <1>3 DEF BuildBento, RemoveBento, ChangeRequest, ClusterType, bentoVars, requestVars,
       childVars
  <2> QED
    BY <1>3, <2>1, SameBD, SamePass, SameFlags, BoundsType
    DEF BuildBento, RemoveBento, ChangeRequest, queueVars, passVars
<1>4. ASSUME NEW c \in Children, TamperChild(c)
      PROVE  TypeOK'
  <2>1. Foreign \in Contents /\ Absent \in Contents
    BY DEF Contents
  <2>2. ClusterType'
    BY <1>4, <2>1, SetChildType DEF TamperChild, bentoVars, requestVars
  <2> QED
    BY <1>4, <2>2, SameBD, SamePass, SameFlags, BoundsType DEF TamperChild, queueVars, passVars
<1>5. ASSUME NEW c \in Children, TouchHPA(c)
      PROVE  TypeOK'
  <2>1. FlagType'
    BY <1>5 DEF TouchHPA, FlagType, passVars
  <2> QED
    BY <1>5, <2>1, SameBD, SameCluster, SamePass, BoundsType DEF TouchHPA
<1> QED
  BY <1>1, <1>2, <1>3, <1>4, <1>5 DEF Users

\* The informers move versions from the API server to the caches.
LEMMA DeliverType == TypeOK /\ Deliver => TypeOK'
<1> SUFFICES ASSUME TypeOK, Deliver PROVE TypeOK'
  OBVIOUS
<1> USE DEF TypeOK
<1>1. CASE DeliverBD
  <2>1. BDType'
    BY <1>1 DEF DeliverBD, BDType
  <2>2. FlagType'
    BY <1>1 DEF DeliverBD, FlagType, passVars
  <2> QED
    BY <1>1, <2>1, <2>2, SameCluster, SamePass, BoundsType DEF DeliverBD
<1>2. ASSUME NEW b \in Bentos, DeliverBento(b)
      PROVE  TypeOK'
  <2>1. ClusterType'
    BY <1>2 DEF DeliverBento, ClusterType, requestVars, childVars
  <2>2. FlagType'
    BY <1>2 DEF DeliverBento, FlagType, passVars
  <2> QED
    BY <1>2, <2>1, <2>2, SameBD, SamePass, BoundsType DEF DeliverBento
<1>3. ASSUME NEW b \in Bentos, DeliverRequest(b)
      PROVE  TypeOK'
  <2>1. ClusterType'
    BY <1>3 DEF DeliverRequest, ClusterType, bentoVars, childVars
  <2>2. FlagType'
    BY <1>3 DEF DeliverRequest, FlagType, passVars
  <2> QED
    BY <1>3, <2>1, <2>2, SameBD, SamePass, BoundsType DEF DeliverRequest
<1>4. ASSUME NEW c \in Children, DeliverChild(c)
      PROVE  TypeOK'
  <2>1. ClusterType'
    BY <1>4 DEF DeliverChild, ClusterType, bentoVars, requestVars
  <2>2. FlagType'
    BY <1>4 DEF DeliverChild, FlagType, passVars
  <2> QED
    BY <1>4, <2>1, <2>2, SameBD, SamePass, BoundsType DEF DeliverChild
<1> QED
  BY <1>1, <1>2, <1>3, <1>4 DEF Deliver

\* How a pass can go on: it ends, it writes a status, or it goes to a label.
LEMMA ReturnType ==
    ASSUME PassType, NEW err, Return(err)
    PROVE  PassType' /\ (FlagType => FlagType')
<1>1. AnyBento \in Bentos
  BY DEF PassType, AnyBento
<1>2. PassType'
  BY <1>1 DEF PassType, Return, Sites, MaxTries, Requests
<1>3. FlagType => FlagType'
  BY DEF Return, FlagType
<1> QED
  BY <1>2, <1>3

LEMMA SetStatusType ==
    ASSUME PassType, NEW s \in Sites, SetStatus(s),
           bd' \in BentoDeployments, bd' # NoBD, target' \in Bentos, req' \in Requests
    PROVE  PassType' /\ (FlagType => FlagType')
<1>1. PassType'
  BY DEF PassType, SetStatus, MaxTries
<1>2. FlagType => FlagType'
  BY SameFlags DEF SetStatus, queueVars
<1> QED
  BY <1>1, <1>2

LEMMA AbortType ==
    ASSUME PassType, pc # "idle", Abort
    PROVE  PassType' /\ (FlagType => FlagType')
<1>1. bd' \in BentoDeployments /\ bd' # NoBD /\ target' \in Bentos /\ req' \in Requests
  BY DEF Abort, PassType
<1>2. "failed" \in Sites
  BY DEF Sites
<1> QED
  BY <1>1, <1>2, SetStatusType DEF Abort

LEMMA StatusErrorType ==
    ASSUME PassType, pc # "idle", StatusError
    PROVE  PassType' /\ (FlagType => FlagType')
  BY AbortType, ReturnType DEF StatusError

LEMMA ContinueType ==
    ASSUME PassType, NEW label \in {"getBento", "getRequest", "sync", "apply"}, Continue(label),
           bd' \in BentoDeployments, bd' # NoBD, target' \in Bentos, req' \in Requests,
           label = "apply" => Len(Steps[target']) >= 1
    PROVE  PassType' /\ (FlagType => FlagType')
<1>1. PassType'
  BY DEF PassType, Continue, MaxTries, Sites
<1>2. FlagType => FlagType'
  BY SameFlags DEF Continue, queueVars
<1> QED
  BY <1>1, <1>2

\* A status write adds a version, or none.
LEMMA WriteStatusType ==
    ASSUME BDType, PassType, cached # NoBD, UNCHANGED cached,
           WriteStatus \/ UNCHANGED <<stored, pending>>
    PROVE  BDType'
<1>1. CASE UNCHANGED <<stored, pending>>
  BY <1>1, SameBD DEF bdVars
<1>2. CASE WriteStatus
  <2> DEFINE new == [cached EXCEPT !.cond = SetConditions(cached.cond, site)]
  <2>1. SetConditions(cached.cond, site) \in Conditions
    BY SetConditionsType DEF BDType, PassType, BentoDeployments
  <2>2. new \in Objects
    BY <2>1 DEF BDType, BentoDeployments, Objects
  <2>3. Store(new) \/ UNCHANGED <<stored, pending>>
    BY <1>2 DEF WriteStatus, StoreStatus
  <2> QED
    BY <1>1, <2>2, <2>3, StoreType DEF BDType, Objects
<1> QED
  BY <1>1, <1>2

LEMMA BeginType == TypeOK /\ Begin => TypeOK'
<1> SUFFICES ASSUME TypeOK, Begin PROVE TypeOK'
  OBVIOUS
<1> USE DEF TypeOK
<1>1. PassType'
  <2>1. CASE cached = NoBD
    BY <2>1, SamePass DEF Begin
  <2>2. CASE cached # NoBD
    <3>1. cached.spec.bento \in Bentos
      BY <2>2 DEF BDType, BentoDeployments, Specs
    <3>2. bd' \in BentoDeployments /\ bd' # NoBD /\ target' \in Bentos
      BY <2>2, <3>1 DEF Begin, BDType
    <3>3. pc' \in {"status", "getBento"} /\ site' = "initialise" /\ UNCHANGED <<try, req, next>>
      BY <2>2 DEF Begin
    <3> QED
      BY <3>2, <3>3 DEF PassType, Sites
  <2> QED
    BY <2>1, <2>2
<1>2. FlagType'
  <2>1. dirty' = FALSE /\ backoff' = backoff /\ conf' = conf
    BY DEF Begin, passVars
  <2> QED
    BY <2>1 DEF FlagType
<1> QED
  BY <1>1, <1>2, SameBD, SameCluster, BoundsType DEF Begin

LEMMA GetBentoType == TypeOK /\ GetBento => TypeOK'
<1> SUFFICES ASSUME TypeOK, GetBento PROVE TypeOK'
  OBVIOUS
<1> USE DEF TypeOK
<1>1. PassType' /\ FlagType'
  <2>1. CASE Abort
    BY <2>1, AbortType DEF GetBento, ConfigFails
  <2>2. CASE ~Abort
    <3>1. bd \in BentoDeployments /\ bd # NoBD
      BY DEF GetBento, ConfigFails, PassType
    <3>2. bd.spec.bento \in Bentos
      BY <3>1 DEF BentoDeployments, Specs
    <3>3. target' \in Bentos /\ pc' = "status" /\ try' = 1 /\ site' \in Sites
      BY <2>2, <3>2 DEF GetBento, ConfigFails, Sites
    <3>4. PassType'
      BY <2>2, <3>1, <3>3 DEF GetBento, ConfigFails, PassType, MaxTries
    <3>5. conf' = TRUE /\ UNCHANGED <<dirty, backoff>>
      BY <2>2 DEF GetBento, ConfigFails, queueVars
    <3> QED
      BY <3>4, <3>5 DEF FlagType
  <2> QED
    BY <2>1, <2>2
<1> QED
  BY <1>1, SameBD, SameCluster, BoundsType DEF GetBento, ConfigFails

LEMMA GetRequestType == TypeOK /\ GetRequest => TypeOK'
<1> SUFFICES ASSUME TypeOK, GetRequest PROVE TypeOK'
  OBVIOUS
<1> USE DEF TypeOK
<1>1. bd \in BentoDeployments /\ bd # NoBD
  BY DEF GetRequest, PassType
<1>2. bd.spec.bento \in Bentos
  BY <1>1 DEF BentoDeployments, Specs
<1>3. req' \in Requests
  BY <1>2 DEF GetRequest, ClusterType
<1>4. "requestMissing" \in Sites /\ "requestFound" \in Sites
  BY DEF Sites
<1>5. PassType' /\ FlagType'
  BY <1>1, <1>3, <1>4, SetStatusType DEF GetRequest, PassType
<1> QED
  BY <1>5, SameBD, SameCluster, BoundsType DEF GetRequest

LEMMA TryStatusType == TypeOK /\ TryStatus => TypeOK'
<1> SUFFICES ASSUME TypeOK, TryStatus PROVE TypeOK'
  OBVIOUS
<1> USE DEF TypeOK
<1>1. BDType'
  BY WriteStatusType DEF TryStatus, Refused
<1>2. PassType' /\ FlagType'
  <2>1. CASE pc' = "reget" /\ UNCHANGED <<site, try, bd, target, req, next, conf, queueVars>>
    BY <2>1, SameFlags DEF PassType, TryStatus, queueVars
  <2>2. CASE StatusError
    BY <2>2, StatusErrorType DEF TryStatus
  <2>3. CASE /\ MoreTries
             /\ try' = try + 1 /\ UNCHANGED <<pc, site, bd, target, req, next, conf, queueVars>>
    BY <2>3, SameFlags DEF PassType, TryStatus, MoreTries, MaxTries, queueVars
  <2> QED
    BY <2>1, <2>2, <2>3 DEF TryStatus
<1>3. BoundType'
  BY BoundsType DEF TryStatus, Refused
<1> QED
  BY <1>1, <1>2, <1>3, SameCluster DEF TryStatus

LEMMA StatusGoneType == TypeOK /\ StatusGone => TypeOK'
  BY SameBD, SameCluster, BoundsType, StatusErrorType DEF TypeOK, StatusGone

LEMMA RegetStatusType == TypeOK /\ RegetStatus => TypeOK'
<1> SUFFICES ASSUME TypeOK, RegetStatus PROVE TypeOK'
  OBVIOUS
<1> USE DEF TypeOK
<1>1. PassType' /\ FlagType'
  <2>1. CASE Return(FALSE)
    BY <2>1, ReturnType
  <2>2. CASE AfterStatus(cached) /\ bd' = cached /\ UNCHANGED <<target, req>>
    <3>1. bd' \in BentoDeployments /\ bd' # NoBD /\ target' \in Bentos /\ req' \in Requests
      BY <2>2 DEF RegetStatus, PassType, BDType
    <3>2. CASE \E s \in Sites : SetStatus(s)
      BY <3>1, <3>2, SetStatusType
    <3>3. CASE \E label \in {"getBento", "getRequest", "sync"} : Continue(label)
      BY <3>1, <3>3, ContinueType
    <3>4. CASE Steps[target] # <<>> /\ Continue("apply")
      <4>1. Steps[target] \in Seq(Children)
        BY ConstantsAssumption DEF PassType
      <4>2. Len(Steps[target']) >= 1
        BY <2>2, <3>4, <4>1
      <4> QED
        BY <3>1, <3>4, <4>2, ContinueType
    <3> QED
      BY <2>2, <3>2, <3>3, <3>4 DEF AfterStatus, Sites
  <2> QED
    BY <2>1, <2>2 DEF RegetStatus
<1> QED
  BY <1>1, SameBD, SameCluster, BoundsType DEF RegetStatus

LEMMA ApplyChildType == TypeOK /\ ApplyChild => TypeOK'
<1> SUFFICES ASSUME TypeOK, ApplyChild PROVE TypeOK'
  OBVIOUS
<1> USE DEF TypeOK
<1> DEFINE c == Steps[target][next]
<1>1. bd \in BentoDeployments /\ bd # NoBD /\ target \in Bentos
  BY DEF ApplyChild, PassType
<1>2. c \in Children
  <2>1. Steps[target] \in Seq(Children)
    BY <1>1, ConstantsAssumption
  <2>2. next \in 1..Len(Steps[target])
    BY <2>1 DEF PassType, ApplyChild
  <2> QED
    BY <2>1, <2>2
<1>3. Desired \in Contents /\ Absent \in Contents
  BY <1>1 DEF Desired, Contents, BentoDeployments, Specs
<1>4. ClusterType'
  <2>1. UNCHANGED <<bentoVars, requestVars>>
    BY DEF ApplyChild
  <2>2. SetChild(c, Desired) \/ SetChild(c, Absent) \/ UNCHANGED childVars
    BY DEF ApplyChild, CreateChild, UpdateChild, DeleteChild, SkipChild, RefuseChild
  <2>3. CASE UNCHANGED childVars
    BY <2>1, <2>3, SameCluster DEF clusterVars
  <2> QED
    BY <1>2, <1>3, <2>1, <2>2, <2>3, SetChildType
<1>5. PassType' /\ FlagType'
  <2>1. CASE Abort
    BY <2>1, AbortType DEF ApplyChild
  <2>2. CASE /\ next < Len(Steps[target])
             /\ next' = next + 1 /\ UNCHANGED <<pc, site, try, bd, target, req, conf, queueVars>>
    <3>1. Len(Steps[target]) \in Nat
      BY <1>1, ConstantsAssumption
    <3> QED
      BY <2>2, <3>1, SameFlags DEF PassType, queueVars
  <2>3. CASE Continue("sync") /\ UNCHANGED <<bd, target, req>>
    BY <1>1, <2>3, ContinueType DEF PassType
  <2> QED
    BY <2>1, <2>2, <2>3 DEF ApplyChild
<1>6. BoundType'
  BY BoundsType DEF ApplyChild
<1> QED
  BY <1>4, <1>5, <1>6, SameBD DEF ApplyChild

LEMMA SyncType == TypeOK /\ Sync => TypeOK'
<1> SUFFICES ASSUME TypeOK, Sync PROVE TypeOK'
  OBVIOUS
<1> USE DEF TypeOK
<1>1. "available" \in Sites
  BY DEF Sites
<1>2. PassType' /\ FlagType'
  BY <1>1, AbortType, SetStatusType DEF Sync, PassType
<1> QED
  BY <1>2, SameBD, SameCluster, BoundsType DEF Sync

LEMMA RestartType == TypeOK /\ Restart => TypeOK'
<1> SUFFICES ASSUME TypeOK, Restart PROVE TypeOK'
  OBVIOUS
<1> USE DEF TypeOK
<1>1. AnyBento \in Bentos
  BY DEF PassType, AnyBento
<1>2. BDType'
  BY DEF Restart, BDType
<1>3. ClusterType'
  BY DEF Restart, ClusterType
<1>4. PassType'
  BY <1>1 DEF Restart, PassType, Sites, MaxTries, Requests
<1>5. FlagType'
  BY DEF Restart, FlagType
<1>6. BoundType'
  BY ConstantsAssumption DEF Restart, BoundType
<1> QED
  BY <1>2, <1>3, <1>4, <1>5, <1>6

LEMMA OthersType == TypeOK /\ (BackoffExpires \/ Resync \/ Collect) => TypeOK'
<1> SUFFICES ASSUME TypeOK PROVE BackoffExpires \/ Resync \/ Collect => TypeOK'
  OBVIOUS
<1> USE DEF TypeOK
<1>1. CASE BackoffExpires
  <2>1. FlagType'
    BY <1>1 DEF BackoffExpires, FlagType, passVars
  <2> QED
    BY <1>1, <2>1, SameBD, SameCluster, SamePass, BoundsType DEF BackoffExpires
<1>2. CASE Resync
  <2>1. FlagType'
    BY <1>2 DEF Resync, FlagType, passVars
  <2> QED
    BY <1>2, <2>1, SameBD, SameCluster, SamePass, BoundsType DEF Resync
<1>3. ASSUME NEW c \in Children, CollectChild(c)
      PROVE  TypeOK'
  <2>1. Absent \in Contents
    BY DEF Contents
  <2>2. ClusterType'
    BY <1>3, <2>1, SetChildType DEF CollectChild, bentoVars, requestVars
  <2> QED
    BY <1>3, <2>2, SameBD, SamePass, SameFlags, BoundsType DEF CollectChild, queueVars, passVars
<1> QED
  BY <1>1, <1>2, <1>3 DEF Collect

LEMMA NextType == TypeOK /\ [Next]_vars => TypeOK'
<1>1. TypeOK /\ UNCHANGED vars => TypeOK'
  BY SameBD, SameCluster, SamePass, SameFlags, BoundsType
  DEF TypeOK, vars, clusterVars, queueVars, passVars
<1> QED
  BY <1>1, UsersType, DeliverType, OthersType, RestartType, BeginType, GetBentoType,
     GetRequestType, TryStatusType, StatusGoneType, RegetStatusType, ApplyChildType, SyncType
  DEF Next, Step

\* In every reachable state every variable is in its range: in particular a pass
\* that runs holds a copy of the object (Reconcile never uses the empty one that
\* a failed read leaves behind), its position is within the children of the
\* Bento it found, and no status write is tried more than three times.
THEOREM TypeCorrect == Spec => []TypeOK
<1>1. Init => TypeOK
  BY InitType
<1>2. TypeOK /\ [Next]_vars => TypeOK'
  BY NextType
<1> QED
  BY <1>1, <1>2, PTL DEF Spec
=============================================================================
