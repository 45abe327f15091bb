----------------------- MODULE StatusRefinement_proofs -----------------------
(***************************************************************************)
(* That BentoDeploymentController implements DeploymentStatus for every    *)
(* value of its constants.  A status write replaces the whole status by a  *)
(* copy of the cached one, so it moves the stored status as DeploymentStatus *)
(* allows only because of what the pass knows of it: the inductive         *)
(* invariant StatusInv says what, for each point at which a pass can be.   *)
(***************************************************************************)
EXTENDS BentoDeploymentController_proofs

\* The versions of the object that the controller has or will have in its cache.
Versions == {cached} \cup {pending[i] : i \in 1..Len(pending)}

\* The cache ends up with the stored version.
Latest ==
    /\ pending = <<>> => cached = stored
    /\ pending # <<>> => pending[Len(pending)] = stored

\* The stored status has come from version v by writes of this controller: once
\* it is started it stays so, and it is started for good only by a pass that
\* has seen it started.
Precedes(v) ==
    (v # NoBD /\ stored # NoBD) =>
        /\ v.cond.available = "None" => v.cond = Unset
        /\ v.cond = Unset => stored.cond.available \in {"None", "Unknown"}
        /\ v.cond # Unset => stored.cond.available # "None"

Writing(sites) == pc = "status" /\ site \in sites
Written(sites) == pc = "reget" /\ site \in sites

\* Where a pass has told the object that its Bento is there, or is not.
BentoReported ==
    pc \in {"apply", "sync"} \/ Written({"bentoFound"}) \/ Writing({"available"})

MissingSites == {"requestUnknown", "requestMissing", "requestFound", "unavailable"}

MissReported ==
    pc = "getRequest" \/ Writing(MissingSites) \/ Written(MissingSites \cup {"bentoMissing"})

\* What the pass may count on at each point: no other pass writes the status.
Phase ==
    stored # NoBD =>
        /\ Writing({"initialise"}) => stored.cond.available \in {"None", "Unknown"}
        /\ (pc # "idle" /\ ~Writing({"initialise"})) => stored.cond.available # "None"
        /\ BentoReported => stored.cond.bentoFound = "True"
        /\ MissReported => stored.cond.bentoFound = "False"
        /\ Written({"requestUnknown"}) \/ pc = "getRequest"
               => stored.cond.requestFound = "Unknown"
        /\ Writing({"requestMissing"}) => stored.cond.requestFound \in {"Unknown", "False"}
        /\ Written({"requestMissing"}) => stored.cond.requestFound = "False"
        /\ Writing({"requestFound"}) => stored.cond.requestFound # "None"

\* After it has reported a missing Bento, a pass looks at RequestFound in its
\* cache: stale as that may be, it says what is stored.
Agreed ==
    (stored # NoBD /\ Written({"bentoMissing"})) =>
        \A v \in Versions : v # NoBD => v.cond.requestFound = stored.cond.requestFound

StatusInv ==
    /\ TypeOK /\ Latest /\ Phase /\ Agreed
    /\ \A v \in Versions : Precedes(v)
-----------------------------------------------------------------------------
\* The pending versions are a sequence of objects, none or more.
LEMMA StoreVersions ==
    ASSUME BDType, NEW new \in Objects, Store(new), UNCHANGED cached
    PROVE  Latest' /\ Versions' = Versions \cup {new}
<1>1. pending \in Seq(Objects) /\ pending' = Append(pending, new) /\ stored' = new
  BY DEF BDType, Store, Objects
<1>2. Len(pending') = Len(pending) + 1 /\ Len(pending) \in Nat
  BY <1>1
<1>3. pending'[Len(pending')] = new /\ pending' # <<>>
  BY <1>1
<1>4. \A i \in 1..Len(pending) : pending'[i] = pending[i]
  BY <1>1
<1>5. Latest'
  BY <1>1, <1>3 DEF Latest
<1>6. {pending'[i] : i \in 1..Len(pending')} = {pending[i] : i \in 1..Len(pending)} \cup {new}
  BY <1>2, <1>3, <1>4
<1> QED
  BY <1>5, <1>6 DEF Versions

LEMMA StoredVersion ==
    ASSUME BDType, Latest
    PROVE  stored \in Versions
<1>1. CASE pending = <<>>
  BY <1>1 DEF Latest, Versions
<1>2. CASE pending # <<>>
  <2>1. pending \in Seq(Objects)
    BY DEF BDType, Objects
  <2>2. Len(pending) \in 1..Len(pending)
    BY <1>2, <2>1
  <2> QED
    BY <1>2, <2>2 DEF Latest, Versions
<1> QED
  BY <1>1, <1>2

LEMMA DeliverVersions ==
    ASSUME BDType, Latest, DeliverBD
    PROVE  Latest' /\ Versions' \subseteq Versions
<1>1. /\ pending \in Seq(Objects) /\ pending # <<>> /\ stored' = stored
      /\ cached' = Head(pending) /\ pending' = Tail(pending)
  BY DEF BDType, DeliverBD, Objects
<1>2. Len(pending) \in Nat /\ Len(pending) >= 1 /\ Len(pending') = Len(pending) - 1
  BY <1>1
<1>3. \A i \in 1..Len(pending') : pending'[i] = pending[i + 1]
  BY <1>1, <1>2
<1>4. cached' = pending[1]
  BY <1>1
<1>5. ASSUME pending' = <<>> PROVE cached' = stored'
  <2>1. Len(pending) = 1
    <3>1. Len(pending') = 0
      BY <1>5
    <3> QED
      BY <1>2, <3>1
  <2> QED
    BY <1>1, <1>4, <2>1 DEF Latest
<1>6. ASSUME pending' # <<>> PROVE pending'[Len(pending')] = stored'
  <2>1. Len(pending') >= 1
    BY <1>1, <1>2, <1>6
  <2>2. pending'[Len(pending')] = pending[Len(pending)]
    BY <1>2, <1>3, <2>1
  <2> QED
    BY <1>1, <2>2 DEF Latest
<1>7. Versions' \subseteq Versions
  BY <1>2, <1>3, <1>4 DEF Versions
<1> QED
  BY <1>5, <1>6, <1>7 DEF Latest

LEMMA SameVersions == UNCHANGED bdVars => UNCHANGED Versions /\ (Latest => Latest')
  BY DEF bdVars, Versions, Latest

\* Steps that disturb neither the object nor the pass.
LEMMA SameStatus ==
    ASSUME StatusInv, TypeOK', UNCHANGED bdVars, UNCHANGED passVars
    PROVE  StatusInv'
<1>1. Phase'
  BY DEF StatusInv, bdVars, passVars, Phase, BentoReported, MissReported, Writing, Written
<1>2. Agreed'
  BY SameVersions DEF StatusInv, bdVars, passVars, Agreed, Writing, Written
<1>3. \A v \in Versions' : Precedes(v)'
  BY SameVersions DEF StatusInv, bdVars, Precedes
<1> QED
  BY <1>1, <1>2, <1>3, SameVersions DEF StatusInv

\* Steps of the pass that leave the object alone.
LEMMA SameObject ==
    ASSUME StatusInv, TypeOK', UNCHANGED bdVars, Phase', Agreed'
    PROVE  StatusInv'
<1>1. \A v \in Versions' : Precedes(v)'
  BY SameVersions DEF StatusInv, bdVars, Precedes
<1> QED
  BY <1>1, SameVersions DEF StatusInv

LEMMA InitStatus == Init => StatusInv
<1> SUFFICES ASSUME Init PROVE StatusInv
  OBVIOUS
<1>1. PICK s \in Specs : stored = [spec |-> s, cond |-> Unset]
  BY DEF Init
<1>2. stored.cond = Unset /\ Versions = {stored}
  BY <1>1 DEF Init, Versions
<1>3. Latest
  BY DEF Init, Latest
<1>4. Phase /\ Agreed
  BY DEF Init, Phase, Agreed, BentoReported, MissReported, Writing, Written
<1>5. \A v \in Versions : Precedes(v)
  BY <1>2 DEF Precedes, Unset
<1> QED
  BY <1>3, <1>4, <1>5, InitType DEF StatusInv
-----------------------------------------------------------------------------
\* An edit keeps the conditions, and a deleted object has none.
LEMMA EditSpecStatus == StatusInv /\ EditSpec => StatusInv'
<1> SUFFICES ASSUME StatusInv, EditSpec PROVE StatusInv'
  OBVIOUS
<1>1. PICK s \in Specs : Store([stored EXCEPT !.spec = s])
  BY DEF EditSpec
<1> DEFINE new == [stored EXCEPT !.spec = s]
<1>2. stored \in BentoDeployments /\ stored # NoBD
  BY DEF EditSpec, StatusInv, TypeOK, BDType
<1>3. new \in Objects /\ new.cond = stored.cond
  BY <1>2 DEF BentoDeployments, Objects
<1>4. stored' = new /\ UNCHANGED cached /\ UNCHANGED passVars
  BY <1>1 DEF EditSpec, Store
<1>5. Latest' /\ Versions' = Versions \cup {new}
  BY <1>1, <1>3, <1>4, StoreVersions DEF StatusInv, TypeOK
<1>6. TypeOK'
  BY UsersType DEF StatusInv, Users
<1>7. Phase'
  BY <1>2, <1>3, <1>4
  DEF StatusInv, passVars, Phase, BentoReported, MissReported, Writing, Written
<1>8. Agreed'
  BY <1>2, <1>3, <1>4, <1>5 DEF StatusInv, passVars, Agreed, Writing, Written
<1>9. \A v \in Versions' : Precedes(v)'
  <2>1. stored \in Versions
    BY StoredVersion DEF StatusInv, TypeOK
  <2>2. \A v \in Versions : Precedes(v)'
    BY <1>2, <1>3, <1>4 DEF StatusInv, Precedes
  <2>3. \A v \in {new} : Precedes(v)'
    BY <1>2, <1>3, <1>4, <2>1 DEF StatusInv, Precedes
  <2> QED
    BY <1>5, <2>2, <2>3
<1> QED
  BY <1>5, <1>6, <1>7, <1>8, <1>9 DEF StatusInv

LEMMA DeleteBDStatus == StatusInv /\ DeleteBD => StatusInv'
<1> SUFFICES ASSUME StatusInv, DeleteBD PROVE StatusInv'
  OBVIOUS
<1>1. stored' = NoBD
  BY DEF DeleteBD, Store
<1>2. Latest'
  BY StoreVersions DEF DeleteBD, StatusInv, TypeOK, Objects
<1>3. TypeOK'
  BY UsersType DEF StatusInv, Users
<1> QED
  BY <1>1, <1>2, <1>3 DEF StatusInv, Phase, Agreed, Precedes

LEMMA DeliverBDStatus == StatusInv /\ DeliverBD => StatusInv'
<1> SUFFICES ASSUME StatusInv, DeliverBD PROVE StatusInv'
  OBVIOUS
<1>1. Latest' /\ Versions' \subseteq Versions
  BY DeliverVersions DEF StatusInv, TypeOK
<1>2. stored' = stored /\ UNCHANGED passVars
  BY DEF DeliverBD
<1>3. TypeOK'
  BY DeliverType DEF StatusInv, Deliver
<1>4. Phase' /\ Agreed'
  BY <1>1, <1>2
  DEF StatusInv, passVars, Phase, Agreed, BentoReported, MissReported, Writing, Written
<1>5. \A v \in Versions' : Precedes(v)'
  BY <1>1, <1>2 DEF StatusInv, Precedes
<1> QED
  BY <1>1, <1>3, <1>4, <1>5 DEF StatusInv
-----------------------------------------------------------------------------
\* An accepted status write moves the stored status in one of the ways that
\* DeploymentStatus allows: it is made from a copy of the stored object.
LEMMA WriteKeepsPromise ==
    ASSUME StatusInv, pc = "status", cached # NoBD, Current, WriteStatus
    PROVE  [Promise!Next]_stored
<1>1. cached = stored /\ stored \in BentoDeployments /\ stored # NoBD
  BY DEF Current, StatusInv, Latest, TypeOK, BDType
<1> DEFINE new == [stored EXCEPT !.cond = SetConditions(stored.cond, site)]
<1>2. SUFFICES ASSUME stored' = new PROVE [Promise!Next]_stored
  BY <1>1 DEF WriteStatus, StoreStatus, Store
<1>3. /\ stored.cond \in Conditions /\ site \in Sites
      /\ stored = [spec |-> stored.spec, cond |-> stored.cond]
  BY <1>1 DEF StatusInv, TypeOK, PassType, BentoDeployments
<1> USE DEF Promise!Next, Promise!Exists, Promise!Started, Promise!Become
<1>4. CASE site = "initialise"
  BY <1>1, <1>2, <1>3, <1>4
  DEF StatusInv, Phase, Writing, SetConditions, Conditions, Promise!Start
<1>5. CASE site = "bentoFound"
  BY <1>1, <1>2, <1>3, <1>5
  DEF StatusInv, Phase, Writing, SetConditions, Conditions, Promise!FindBento
<1>6. CASE site = "bentoMissing"
  BY <1>1, <1>2, <1>3, <1>6
  DEF StatusInv, Phase, Writing, SetConditions, Conditions, Promise!MissBento
<1>7. CASE site = "requestUnknown"
  BY <1>1, <1>2, <1>3, <1>7
  DEF StatusInv, Phase, Writing, MissReported, MissingSites, SetConditions, Conditions,
      Promise!SeekRequest
<1>8. CASE site = "requestMissing"
  BY <1>1, <1>2, <1>3, <1>8
  DEF StatusInv, Phase, Writing, MissReported, MissingSites, SetConditions, Conditions,
      Promise!MissRequest
<1>9. CASE site = "requestFound"
  BY <1>1, <1>2, <1>3, <1>9
  DEF StatusInv, Phase, Writing, MissReported, MissingSites, SetConditions, Conditions, Status,
      Promise!FindRequest
<1>10. CASE site = "unavailable"
  BY <1>1, <1>2, <1>3, <1>10
  DEF StatusInv, Phase, Writing, MissReported, MissingSites, SetConditions, Conditions,
      Promise!Fail
<1>11. CASE site = "available"
  BY <1>1, <1>2, <1>3, <1>11
  DEF StatusInv, Phase, Writing, BentoReported, SetConditions, Conditions, Promise!Succeed
<1>12. CASE site = "failed"
  BY <1>1, <1>2, <1>3, <1>12
  DEF StatusInv, Phase, Writing, SetConditions, Conditions, Promise!Fail
<1> QED
  BY <1>3, <1>4, <1>5, <1>6, <1>7, <1>8, <1>9, <1>10, <1>11, <1>12 DEF Sites

\* Every step of the controller and its world is one of DeploymentStatus, or
\* leaves the object alone.
LEMMA NextKeepsPromise == StatusInv /\ [Next]_vars => [Promise!Next]_stored
<1> SUFFICES ASSUME StatusInv, [Next]_vars, stored' # stored PROVE Promise!Next
  OBVIOUS
<1>1. CASE EditSpec
  <2>1. PICK s \in Specs : stored' = [stored EXCEPT !.spec = s]
    BY <1>1 DEF EditSpec, Store
  <2>2. stored # NoBD
    BY <1>1 DEF EditSpec
  <2> QED
    BY <2>1, <2>2 DEF Promise!Next, Promise!Edit, Promise!Exists
<1>2. CASE DeleteBD
  BY <1>2 DEF DeleteBD, Store, Promise!Next, Promise!Delete
<1>3. CASE TryStatus
  <2>1. pc = "status" /\ cached # NoBD /\ Current /\ WriteStatus
    BY <1>3 DEF TryStatus, Refused
  <2> QED
    BY <2>1, WriteKeepsPromise
<1>4. CASE UNCHANGED bdVars
  BY <1>4 DEF bdVars
<1>5. CASE DeliverBD \/ Restart
  BY <1>5 DEF DeliverBD, Restart
<1>6. EditSpec \/ DeleteBD \/ TryStatus \/ DeliverBD \/ Restart \/ UNCHANGED bdVars
  BY DEF Next, vars, Users, BuildBento, RemoveBento, ChangeRequest, TamperChild, TouchHPA,
     Deliver, DeliverBento, DeliverRequest, DeliverChild, Step, Begin, GetBento, ConfigFails, GetRequest,
     StatusGone, RegetStatus, ApplyChild, Sync, BackoffExpires, Resync, Collect, CollectChild
<1> QED
  BY <1>1, <1>2, <1>3, <1>4, <1>5, <1>6
-----------------------------------------------------------------------------
\* What a status write makes of the stored conditions.
LEMMA WriteStatusStores ==
    ASSUME StatusInv, cached # NoBD, Current, WriteStatus, UNCHANGED cached
    PROVE  /\ stored' \in BentoDeployments /\ stored \in BentoDeployments /\ stored # NoBD
           /\ stored'.cond = SetConditions(stored.cond, site)
           /\ Latest' /\ Versions' = {stored, stored'}
<1>1. cached = stored /\ pending = <<>> /\ stored \in BentoDeployments /\ stored # NoBD
  BY DEF Current, StatusInv, Latest, TypeOK, BDType
<1> DEFINE new == [stored EXCEPT !.cond = SetConditions(stored.cond, site)]
<1>2. SetConditions(stored.cond, site) \in Conditions
  BY <1>1, SetConditionsType DEF StatusInv, TypeOK, PassType, BentoDeployments
<1>3. new \in BentoDeployments /\ new.cond = SetConditions(stored.cond, site)
  BY <1>1, <1>2 DEF BentoDeployments
<1>4. stored' = new
  BY <1>1 DEF WriteStatus, StoreStatus, Store
<1>5. Versions = {stored}
  BY <1>1 DEF Versions
<1>6. CASE Store(new)
  <2>1. Latest' /\ Versions' = Versions \cup {new}
    BY <1>3, <1>6, StoreVersions DEF StatusInv, TypeOK, Objects
  <2> QED
    BY <1>1, <1>3, <1>4, <1>5, <2>1
<1>7. CASE UNCHANGED <<stored, pending>>
  BY <1>1, <1>3, <1>4, <1>5, <1>7, SameVersions DEF StatusInv, bdVars
<1> QED
  BY <1>1, <1>6, <1>7 DEF WriteStatus, StoreStatus

\* Only a pass that initialises the status writes before it is started.
LEMMA WriteStatusPrecedes ==
    ASSUME StatusInv, pc = "status", cached # NoBD, Current, WriteStatus, UNCHANGED cached
    PROVE  \A v \in Versions' : Precedes(v)'
<1>1. /\ stored' \in BentoDeployments /\ stored \in BentoDeployments /\ stored # NoBD
      /\ stored'.cond = SetConditions(stored.cond, site) /\ Versions' = {stored, stored'}
      /\ site \in Sites
  BY WriteStatusStores DEF StatusInv, TypeOK, PassType
<1>2. Precedes(stored)
  BY StoredVersion DEF StatusInv, TypeOK
<1>3. stored.cond \in Conditions /\ stored'.cond \in Conditions
  BY <1>1 DEF BentoDeployments
<1>4. CASE site = "initialise"
  <2>1. stored'.cond.available = "Unknown"
    BY <1>1, <1>3, <1>4 DEF SetConditions, Conditions
  <2> QED
    BY <1>1, <1>2, <2>1 DEF Precedes, Unset
<1>5. CASE site # "initialise"
  <2>1. stored.cond.available # "None"
    BY <1>1, <1>5 DEF StatusInv, Phase, Writing
  <2>2. stored'.cond.available # "None"
    BY <1>1, <1>3, <1>5, <2>1 DEF SetConditions, Conditions, Sites
  <2> QED
    BY <1>1, <2>1, <2>2 DEF Precedes, Unset
<1> QED
  BY <1>4, <1>5

LEMMA TryStatusStatus == StatusInv /\ TryStatus => StatusInv'
<1> SUFFICES ASSUME StatusInv, TryStatus PROVE StatusInv'
  OBVIOUS
<1>1. TypeOK'
  BY TryStatusType DEF StatusInv
<1>2. pc = "status" /\ cached # NoBD /\ UNCHANGED cached /\ site \in Sites
  BY DEF TryStatus, StatusInv, TypeOK, PassType
<1>3. (Current /\ WriteStatus) \/ UNCHANGED bdVars
  BY DEF TryStatus, Refused, bdVars
<1>4. Latest'
  BY <1>2, <1>3, WriteStatusStores, SameVersions DEF StatusInv
<1>5. \A v \in Versions' : Precedes(v)'
  <2>1. CASE UNCHANGED bdVars
    BY <2>1, SameVersions DEF StatusInv, bdVars, Precedes
  <2> QED
    BY <1>2, <1>3, <2>1, WriteStatusPrecedes
<1>6. CASE Current /\ WriteStatus /\ pc' = "reget" /\ site' = site
  <2>1. /\ stored \in BentoDeployments /\ stored # NoBD
        /\ stored'.cond = SetConditions(stored.cond, site) /\ Versions' = {stored, stored'}
    BY <1>2, <1>6, WriteStatusStores
  <2>2. stored.cond \in Conditions
    BY <2>1 DEF BentoDeployments
  <2>3. Phase'
    BY <1>2, <1>6, <2>1, <2>2
    DEF StatusInv, Phase, BentoReported, MissReported, MissingSites, Writing, Written,
        SetConditions, Conditions, Sites
  <2>4. Agreed'
    BY <1>2, <1>6, <2>1, <2>2 DEF Agreed, Writing, Written, SetConditions, Conditions
  <2> QED
    BY <1>1, <1>4, <1>5, <2>3, <2>4 DEF StatusInv
<1>7. CASE Refused /\ MoreTries /\ UNCHANGED <<pc, site>>
  <2>1. Agreed'
    BY <1>2, <1>7 DEF Agreed, Written
  <2>2. CASE UNCHANGED bdVars
    BY <1>1, <1>4, <1>5, <1>7, <2>1, <2>2
    DEF StatusInv, bdVars, Phase, BentoReported, MissReported, Writing, Written
  <2>3. CASE Current /\ WriteStatus
    <3>1. /\ stored \in BentoDeployments /\ stored # NoBD
          /\ stored'.cond = SetConditions(stored.cond, site)
      BY <1>2, <2>3, WriteStatusStores
    <3>2. stored.cond \in Conditions
      BY <3>1 DEF BentoDeployments
    <3>3. Phase'
      BY <1>2, <1>7, <3>1, <3>2
      DEF StatusInv, Phase, BentoReported, MissReported, MissingSites, Writing, Written,
          SetConditions, Conditions, Sites
    <3> QED
      BY <1>1, <1>4, <1>5, <2>1, <3>3 DEF StatusInv
  <2> QED
    BY <1>3, <2>2, <2>3
<1>8. CASE Return(TRUE)
  BY <1>1, <1>4, <1>5, <1>8
  DEF StatusInv, Return, Phase, Agreed, BentoReported, MissReported, Writing, Written
<1>9. CASE Abort /\ site # "initialise"
  <2>1. pc' = "status" /\ site' = "failed"
    BY <1>9 DEF Abort, SetStatus
  <2>2. stored' # NoBD => stored'.cond.available # "None"
    <3>1. CASE UNCHANGED bdVars
      BY <1>2, <1>9, <3>1 DEF StatusInv, Phase, Writing, bdVars
    <3>2. CASE Current /\ WriteStatus
      <4>1. /\ stored \in BentoDeployments /\ stored # NoBD
            /\ stored'.cond = SetConditions(stored.cond, site)
        BY <1>2, <3>2, WriteStatusStores
      <4>2. stored.cond.available # "None" /\ stored.cond \in Conditions
        BY <1>2, <1>9, <4>1 DEF StatusInv, Phase, Writing, BentoDeployments
      <4> QED
        BY <1>2, <1>9, <4>1, <4>2 DEF SetConditions, Conditions, Sites
    <3> QED
      BY <1>3, <3>1, <3>2
  <2>3. Phase' /\ Agreed'
    BY <2>1, <2>2 DEF Phase, Agreed, BentoReported, MissReported, MissingSites, Writing, Written
  <2> QED
    BY <1>1, <1>4, <1>5, <2>3 DEF StatusInv
<1> QED
  BY <1>6, <1>7, <1>8, <1>9 DEF TryStatus, StatusError

\* A pass that fails has seen a started object.
LEMMA AbortStatus ==
    ASSUME StatusInv, TypeOK', UNCHANGED bdVars, Abort,
           pc # "idle", ~Writing({"initialise"})
    PROVE  StatusInv'
<1>1. Phase' /\ Agreed'
  BY DEF StatusInv, Abort, SetStatus, bdVars, Phase, Agreed, BentoReported, MissReported,
     MissingSites, Writing, Written
<1> QED
  BY <1>1, SameObject

LEMMA ReturnStatus ==
    ASSUME StatusInv, TypeOK', UNCHANGED bdVars, NEW err, Return(err)
    PROVE  StatusInv'
<1>1. Phase' /\ Agreed'
  BY DEF Return, Phase, Agreed, BentoReported, MissReported, Writing, Written
<1> QED
  BY <1>1, SameObject

LEMMA BeginStatus == StatusInv /\ Begin => StatusInv'
<1> SUFFICES ASSUME StatusInv, Begin PROVE StatusInv'
  OBVIOUS
<1>1. TypeOK' /\ UNCHANGED bdVars
  BY BeginType DEF StatusInv, Begin
<1>2. CASE cached = NoBD
  BY <1>1, <1>2, SameStatus DEF Begin
<1>3. CASE cached # NoBD
  <2>1. Precedes(cached)
    BY DEF StatusInv, Versions
  <2>2. /\ site' = "initialise" /\ pc' \in {"status", "getBento"}
        /\ pc' = "status" <=> cached.cond = Unset
    BY <1>3 DEF Begin
  <2>3. Phase' /\ Agreed'
    BY <1>1, <1>3, <2>1, <2>2
    DEF Precedes, bdVars, Phase, Agreed, BentoReported, MissReported, MissingSites, Writing, Written
  <2> QED
    BY <1>1, <2>3, SameObject
<1> QED
  BY <1>2, <1>3

LEMMA GetBentoStatus == StatusInv /\ GetBento => StatusInv'
<1> SUFFICES ASSUME StatusInv, GetBento PROVE StatusInv'
  OBVIOUS
<1>1. TypeOK' /\ UNCHANGED bdVars /\ pc = "getBento"
  BY GetBentoType DEF StatusInv, GetBento
<1>2. CASE Abort
  BY <1>1, <1>2, AbortStatus DEF Writing
<1>3. CASE pc' = "status" /\ site' \in {"bentoFound", "bentoMissing"}
  <2>1. Phase' /\ Agreed'
    BY <1>1, <1>3 DEF StatusInv, bdVars, Phase, Agreed, BentoReported, MissReported, MissingSites,
       Writing, Written
  <2> QED
    BY <1>1, <2>1, SameObject
<1> QED
  BY <1>2, <1>3 DEF GetBento, ConfigFails

LEMMA GetRequestStatus == StatusInv /\ GetRequest => StatusInv'
<1> SUFFICES ASSUME StatusInv, GetRequest PROVE StatusInv'
  OBVIOUS
<1>1. TypeOK' /\ UNCHANGED bdVars /\ pc = "getRequest"
  BY GetRequestType DEF StatusInv, GetRequest
<1>2. pc' = "status" /\ site' \in {"requestMissing", "requestFound"}
  BY DEF GetRequest, SetStatus
<1>3. Phase' /\ Agreed'
  BY <1>1, <1>2 DEF StatusInv, bdVars, Phase, Agreed, BentoReported, MissReported, MissingSites,
     Writing, Written
<1> QED
  BY <1>1, <1>3, SameObject

LEMMA StatusGoneStatus == StatusInv /\ StatusGone => StatusInv'
<1> SUFFICES ASSUME StatusInv, StatusGone PROVE StatusInv'
  OBVIOUS
<1>1. TypeOK' /\ UNCHANGED bdVars /\ pc # "idle"
  BY StatusGoneType DEF StatusInv, StatusGone
<1>2. CASE Return(TRUE)
  BY <1>1, <1>2, ReturnStatus
<1>3. CASE Abort /\ site # "initialise"
  BY <1>1, <1>3, AbortStatus DEF Writing
<1> QED
  BY <1>2, <1>3 DEF StatusGone, StatusError

LEMMA RegetStatusStatus == StatusInv /\ RegetStatus => StatusInv'
<1> SUFFICES ASSUME StatusInv, RegetStatus PROVE StatusInv'
  OBVIOUS
<1>1. TypeOK' /\ UNCHANGED bdVars /\ pc = "reget" /\ cached # NoBD
  BY RegetStatusType DEF StatusInv, RegetStatus
<1>2. CASE Return(FALSE)
  BY <1>1, <1>2, ReturnStatus
<1>3. CASE AfterStatus(cached)
  <2>1. cached \in Versions
    BY DEF Versions
  <2>2. ASSUME site = "bentoMissing", stored # NoBD
        PROVE  cached.cond.requestFound = stored.cond.requestFound
    BY <1>1, <2>1, <2>2 DEF StatusInv, Agreed, Written
  <2>3. Phase' /\ Agreed'
    BY <1>1, <1>3, <2>2 DEF AfterStatus, Continue, SetStatus, StatusInv, bdVars, Phase, Agreed,
       BentoReported, MissReported, MissingSites, Writing, Written
  <2> QED
    BY <1>1, <2>3, SameObject
<1> QED
  BY <1>2, <1>3 DEF RegetStatus

LEMMA ApplyChildStatus == StatusInv /\ ApplyChild => StatusInv'
<1> SUFFICES ASSUME StatusInv, ApplyChild PROVE StatusInv'
  OBVIOUS
<1>1. TypeOK' /\ UNCHANGED bdVars /\ pc = "apply"
  BY ApplyChildType DEF StatusInv, ApplyChild
<1>2. CASE Abort
  BY <1>1, <1>2, AbortStatus DEF Writing
<1>3. CASE pc' \in {"apply", "sync"}
  <2>1. Phase' /\ Agreed'
    BY <1>1, <1>3 DEF StatusInv, bdVars, Phase, Agreed, BentoReported, MissReported, MissingSites,
       Writing, Written
  <2> QED
    BY <1>1, <2>1, SameObject
<1> QED
  BY <1>1, <1>2, <1>3 DEF ApplyChild, Continue

LEMMA SyncStatus == StatusInv /\ Sync => StatusInv'
<1> SUFFICES ASSUME StatusInv, Sync PROVE StatusInv'
  OBVIOUS
<1>1. TypeOK' /\ UNCHANGED bdVars /\ pc = "sync"
  BY SyncType DEF StatusInv, Sync
<1>2. CASE Abort
  BY <1>1, <1>2, AbortStatus DEF Writing
<1>3. CASE SetStatus("available")
  <2>1. Phase' /\ Agreed'
    BY <1>1, <1>3 DEF StatusInv, SetStatus, bdVars, Phase, Agreed, BentoReported, MissReported,
       MissingSites, Writing, Written
  <2> QED
    BY <1>1, <2>1, SameObject
<1> QED
  BY <1>2, <1>3 DEF Sync

\* A restart forgets the pass and reads the stored object.
LEMMA RestartStatus == StatusInv /\ Restart => StatusInv'
<1> SUFFICES ASSUME StatusInv, Restart PROVE StatusInv'
  OBVIOUS
<1>1. TypeOK'
  BY RestartType DEF StatusInv
<1>2. Latest' /\ Versions' = {stored}
  BY DEF Restart, Latest, Versions
<1>3. Phase' /\ Agreed'
  BY DEF Restart, Phase, Agreed, BentoReported, MissReported, Writing, Written
<1>4. Precedes(stored)
  BY StoredVersion DEF StatusInv, TypeOK
<1>5. \A v \in Versions' : Precedes(v)'
  BY <1>2, <1>4 DEF Restart, Precedes
<1> QED
  BY <1>1, <1>2, <1>3, <1>5 DEF StatusInv

LEMMA NextStatus == StatusInv /\ [Next]_vars => StatusInv'
<1> SUFFICES ASSUME StatusInv, [Next]_vars PROVE StatusInv'
  OBVIOUS
<1>1. TypeOK'
  BY NextType DEF StatusInv
<1>2. CASE UNCHANGED bdVars /\ UNCHANGED passVars
  BY <1>1, <1>2, SameStatus
<1>3. EditSpec \/ DeleteBD \/ DeliverBD \/ Step \/ Restart
      \/ (UNCHANGED bdVars /\ UNCHANGED passVars)
  BY DEF Next, vars, Users, BuildBento, RemoveBento, ChangeRequest, TamperChild, TouchHPA,
     Deliver, DeliverBento, DeliverRequest, DeliverChild, BackoffExpires, Resync, Collect,
     CollectChild
<1> QED
  BY <1>2, <1>3, EditSpecStatus, DeleteBDStatus, DeliverBDStatus, BeginStatus, GetBentoStatus,
     GetRequestStatus, TryStatusStatus, StatusGoneStatus, RegetStatusStatus, ApplyChildStatus,
     SyncStatus, RestartStatus
  DEF Step

\* The controller implements DeploymentStatus, whatever its caches miss, users
\* edit, calls fail and processes restart: every change of the stored object is
\* one that module allows.  So no status write undoes an edit or revives a
\* deleted object, Available turns True only while BentoFound is True, and an
\* availability once decided never goes back to Unknown (setStatusConditions,
\* Reconcile).
THEOREM StatusKeepsPromise == Spec => KeepsPromise
<1>1. Init => StatusInv
  BY InitStatus
<1>2. StatusInv /\ [Next]_vars => StatusInv'
  BY NextStatus
<1>3. Init => Promise!Init
  BY DEF Init, Promise!Init, Unset, Promise!Unset
<1>4. StatusInv /\ [Next]_vars => [Promise!Next]_stored
  BY NextKeepsPromise
<1> QED
  BY <1>1, <1>2, <1>3, <1>4, PTL DEF Spec, KeepsPromise, Promise!Lifecycle
=============================================================================
