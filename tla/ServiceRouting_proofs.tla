------------------------ MODULE ServiceRouting_proofs ------------------------
(***************************************************************************)
(* Type correctness of ServiceRouting; that no production API server is    *)
(* ever without the Services of its runners; and that none reaches runners *)
(* of another Bento: for every set of Bentos and runners and every order   *)
(* of the runners in a Bento.                                              *)
(***************************************************************************)
EXTENDS ServiceRouting, SequenceTheorems, TLAPS

LEMMA OrderFacts ==
    ASSUME NEW b \in Bentos
    PROVE  /\ RunnersOf[b] \in Seq(Runners)
           /\ Len(RunnersOf[b]) \in Nat
           /\ Len(Order(b)) = Len(RunnersOf[b]) + 1
           /\ Order(b)[Len(RunnersOf[b]) + 1] = Api
           /\ \A i \in 1 .. Len(RunnersOf[b]) :
                  Order(b)[i] = RunnersOf[b][i] /\ RunnersOf[b][i] \in Runners
           /\ \A i \in 1 .. Len(Order(b)) : Order(b)[i] \in Targets
<1>1. RunnersOf[b] \in Seq(Runners) BY ConstantsAssumption
<1>2. /\ Len(RunnersOf[b]) \in Nat
      /\ \A i \in 1 .. Len(RunnersOf[b]) : RunnersOf[b][i] \in Runners
  BY <1>1
<1>3. RunnersOf[b] \in Seq(Targets) BY <1>1 DEF Targets
<1>4. /\ Len(Order(b)) = Len(RunnersOf[b]) + 1
      /\ \A i \in 1 .. Len(RunnersOf[b]) : Order(b)[i] = RunnersOf[b][i]
      /\ Order(b)[Len(RunnersOf[b]) + 1] = Api
  BY <1>1, <1>3, AppendProperties DEF Order, Targets
<1>5. \A i \in 1 .. Len(Order(b)) : Order(b)[i] \in Targets
  BY <1>2, <1>4 DEF Targets
<1> QED BY <1>1, <1>2, <1>4, <1>5

LEMMA RunnerSetFacts ==
    ASSUME NEW b \in Bentos, NEW r \in RunnerSet(b)
    PROVE  /\ r \in Runners
           /\ \E i \in 1 .. Len(RunnersOf[b]) : r = RunnersOf[b][i]
BY OrderFacts DEF RunnerSet

LEMMA SpecFacts ==
    ASSUME NEW s \in Specs
    PROVE  s.bento \in Bentos /\ s.debug \subseteq Targets /\ s.receive \subseteq Targets
BY ConstantsAssumption DEF Specs, Targets
-----------------------------------------------------------------------------
\* What a pass generates for one target.
LEMMA GeneratedTypes ==
    ASSUME NEW s \in Specs, NEW b \in Bentos, NEW i \in 1 .. Len(Order(b)),
           NEW twin \in BOOLEAN, NEW kind \in {"generic", "production", "debug"}
    PROVE  /\ Order(b)[i] \in Targets
           /\ DeploymentName(b, i, twin) \in DeploymentNames
           /\ Template(s, b, Order(b)[i], twin) \in Templates
           /\ ServiceName(kind, b, Order(b)[i]) \in ServiceNames
           /\ ServiceSpec(s, b, kind, Order(b)[i]) \in ServiceSpecs
<1> DEFINE t == Order(b)[i]
<1>1. t \in Targets BY OrderFacts
<1>2. DeploymentName(b, i, twin) \in DeploymentNames
  <2>1. t # Api => i \in 1 .. Len(RunnersOf[b]) BY OrderFacts
  <2>2. (IF t = Api THEN 0 ELSE i) \in Places BY <2>1 DEF Places
  <2> QED BY <2>2 DEF DeploymentName, DeploymentNames
<1>3. Template(s, b, t, twin) \in Templates
  <2>1. RunnerSet(b) \subseteq Runners BY RunnerSetFacts
  <2> QED BY <1>1, <2>1 DEF Template, Templates
<1>4. ServiceName(kind, b, t) \in ServiceNames BY <1>1 DEF ServiceName, ServiceNames, Kinds
<1>5. ServiceSpec(s, b, kind, t) \in ServiceSpecs
  <2>1. (IF kind = "generic" THEN GenericTypes(s, t) ELSE {kind = "debug"}) \in SUBSET BOOLEAN
    BY DEF GenericTypes
  <2>2. (kind = "generic" /\ t = Api /\ ContainsDebug(s)) \in BOOLEAN OBVIOUS
  <2> QED BY <1>1, <2>1, <2>2 DEF ServiceSpec, ServiceSpecs
<1> QED BY <1>1, <1>2, <1>3, <1>4, <1>5

ChildType ==
    /\ deployment \in [DeploymentNames -> Templates \cup {Absent}]
    /\ service \in [ServiceNames -> ServiceSpecs \cup {Absent}]
    /\ aged \subseteq ServiceNames
    /\ queued \in BOOLEAN

LEMMA SetDeploymentType ==
    ASSUME ChildType, NEW d \in DeploymentNames, NEW new \in Templates \cup {Absent},
           SetDeployment(d, new)
    PROVE  ChildType'
BY DEF ChildType, SetDeployment

LEMMA SetServiceType ==
    ASSUME ChildType, NEW n \in ServiceNames, NEW new \in ServiceSpecs \cup {Absent},
           SetService(n, new)
    PROVE  ChildType'
BY DEF ChildType, SetService

\* One child is applied.
LEMMA ApplyPartType ==
    ASSUME TypeOK, ApplyPart
    PROVE  ChildType'
<1> DEFINE t == Order(bento)[at]
<1>1. ChildType BY DEF TypeOK, ChildType
<1>2. CASE Parts[part] \in {"deployment", "twin"}
  <2>1. ApplyDeployment(t, Parts[part] = "twin") BY <1>2 DEF ApplyPart
  <2>2. DeploymentName(bento, at, Parts[part] = "twin") \in DeploymentNames
    BY GeneratedTypes DEF TypeOK
  <2>3. Template(cfg, bento, t, Parts[part] = "twin") \in Templates
    BY GeneratedTypes DEF TypeOK
  <2> HIDE DEF t
  <2> QED BY <1>1, <2>1, <2>2, <2>3, SetDeploymentType DEF ApplyDeployment
<1>3. CASE Parts[part] \notin {"deployment", "twin"}
  <2>1. Parts[part] \in {"generic", "production", "debug"} BY <1>3 DEF TypeOK, Parts
  <2>2. ApplyService(t, Parts[part]) BY <1>3 DEF ApplyPart
  <2>3. /\ ServiceName(Parts[part], bento, t) \in ServiceNames
        /\ ServiceSpec(cfg, bento, Parts[part], t) \in ServiceSpecs
    BY <2>1, GeneratedTypes DEF TypeOK
  <2> HIDE DEF t
  <2> QED BY <1>1, <2>2, <2>3, SetServiceType DEF ApplyService
<1> QED BY <1>2, <1>3

LEMMA AdvanceType ==
    ASSUME TypeOK, pc = "apply", Advance
    PROVE  /\ pc' \in {"idle", "found", "apply"} /\ failed' \in BOOLEAN
           /\ at' \in 1 .. Len(Order(bento)) /\ part' \in 1 .. Len(Parts)
<1>1. /\ at \in 1 .. Len(Order(bento)) /\ part \in 1 .. 5 /\ Len(Parts) = 5
      /\ failed \in BOOLEAN /\ Len(Order(bento)) \in Nat
  BY OrderFacts DEF TypeOK, Parts
<1>2. CASE part < Len(Parts) BY <1>1, <1>2 DEF Advance
<1>3. CASE ~(part < Len(Parts)) /\ at < Len(Order(bento)) BY <1>1, <1>3 DEF Advance
<1>4. CASE ~(part < Len(Parts)) /\ ~(at < Len(Order(bento)))
  <2>1. at' = 1 /\ part' = 1 /\ pc' = "idle" /\ failed' = FALSE BY <1>4 DEF Advance
  <2>2. 1 \in 1 .. Len(Order(bento)) /\ 1 \in 1 .. Len(Parts) BY <1>1
  <2> QED BY <2>1, <2>2
<1> QED BY <1>2, <1>3, <1>4

LEMMA FaultType ==
    ASSUME TypeOK, Fault
    PROVE  faults' \in 0 .. MaxFaults
BY ConstantsAssumption DEF TypeOK, Fault

LEMMA TypeInit ==
    ASSUME Init
    PROVE  TypeOK
<1>1. spec \in Specs /\ bento \in Bentos /\ cfg \in Specs BY SpecFacts DEF Init
<1>2. 1 \in 1 .. Len(Order(bento)) BY <1>1, OrderFacts
<1>3. 1 \in 1 .. Len(Parts) BY DEF Parts
<1>4. /\ deployment \in [DeploymentNames -> Templates \cup {Absent}]
      /\ service \in [ServiceNames -> ServiceSpecs \cup {Absent}]
      /\ pods \in [DeploymentNames -> SUBSET Templates]
  BY DEF Init
<1>5. MaxEdits \in 0 .. MaxEdits /\ MaxFaults \in 0 .. MaxFaults BY ConstantsAssumption
<1>6. at \in 1 .. Len(Order(bento)) /\ part \in 1 .. Len(Parts) BY <1>2, <1>3 DEF Init
<1> QED BY <1>1, <1>4, <1>5, <1>6 DEF Init, TypeOK

LEMMA TypeStep ==
    ASSUME TypeOK, [Next]_vars
    PROVE  TypeOK'
<1> USE DEF specVars, childVars, passVars, cleanerVars
<1>1. CASE EditSpec
  BY <1>1, ConstantsAssumption DEF EditSpec, TypeOK
<1>2. CASE Begin
  <2>1. bento' \in Bentos BY <1>2, SpecFacts DEF Begin, TypeOK
  <2>2. 1 \in 1 .. Len(Order(bento')) BY <2>1, OrderFacts
  <2>3. 1 \in 1 .. Len(Parts) BY DEF Parts
  <2>4. at' \in 1 .. Len(Order(bento')) /\ part' \in 1 .. Len(Parts)
    BY <1>2, <2>2, <2>3 DEF Begin
  <2> QED BY <1>2, <2>1, <2>4 DEF Begin, TypeOK
<1>3. CASE Reread BY <1>3 DEF Reread, TypeOK
<1>4. CASE Apply
  <2>1. ChildType'
    BY <1>4, ApplyPartType DEF Apply, TypeOK, ChildType
  <2>2. /\ pc' \in {"idle", "found", "apply"} /\ failed' \in BOOLEAN
        /\ at' \in 1 .. Len(Order(bento)) /\ part' \in 1 .. Len(Parts)
    <3>1. CASE Advance BY <1>4, <3>1, AdvanceType DEF Apply
    <3>2. CASE pc' = "idle" /\ failed' = TRUE /\ at' = 1 /\ part' = 1
      BY <3>2, OrderFacts DEF TypeOK, Parts
    <3> QED BY <1>4, <3>1, <3>2 DEF Apply
  <2>3. faults' \in 0 .. MaxFaults BY <1>4, FaultType DEF Apply, TypeOK
  <2> QED BY <1>4, <2>1, <2>2, <2>3 DEF Apply, TypeOK, ChildType
<1>5. CASE Resync BY <1>5 DEF Resync, TypeOK
<1>6. CASE ListServices
  <2>1. \A n \in ServiceNames : service[n] # Absent =>
          [name |-> n, spec |-> service[n], old |-> n \in aged] \in Listed
    BY DEF TypeOK, Listed
  <2>2. todo' \subseteq Listed
    BY <1>6, <2>1 DEF ListServices
  <2> QED BY <1>6, <2>2 DEF ListServices, TypeOK
<1>7. CASE CheckService
  <2>1. todo' \subseteq Listed /\ doomed' \subseteq ServiceNames
    BY <1>7 DEF CheckService, TypeOK, Listed
  <2> QED BY <1>7, <2>1 DEF CheckService, TypeOK
<1>8. CASE DeleteService
  <2>1. PICK n \in doomed : DeleteService!(n) BY <1>8 DEF DeleteService
  <2>2. n \in ServiceNames BY DEF TypeOK
  <2>3. CASE service[n] # Absent
    <3>1. ChildType' BY <2>1, <2>2, <2>3, SetServiceType DEF TypeOK, ChildType
    <3> QED BY <2>1, <2>3, <3>1 DEF TypeOK, ChildType
  <2>4. CASE service[n] = Absent BY <2>1, <2>4 DEF TypeOK
  <2> QED BY <2>3, <2>4
<1>9. CASE CleanerFails
  <2>1. ChildType'
    <3>1. CASE \E n \in doomed : SetService(n, Absent)
      BY <3>1, SetServiceType DEF TypeOK, ChildType
    <3>2. CASE UNCHANGED <<childVars, queued, aged>> BY <3>2 DEF TypeOK, ChildType
    <3> QED BY <1>9, <3>1, <3>2 DEF CleanerFails
  <2>2. faults' \in 0 .. MaxFaults BY <1>9, FaultType DEF CleanerFails
  <2> QED BY <1>9, <2>1, <2>2 DEF CleanerFails, TypeOK, ChildType
<1>10. ASSUME NEW d \in DeploymentNames, StartPods(d) \/ StopPods(d) PROVE TypeOK'
  <2>1. pods' \in [DeploymentNames -> SUBSET Templates]
    BY <1>10 DEF StartPods, StopPods, TypeOK
  <2> QED BY <1>10, <2>1 DEF StartPods, StopPods, TypeOK
<1>11. ASSUME NEW n \in ServiceNames, Age(n) PROVE TypeOK'
  BY <1>11 DEF Age, TypeOK
<1>12. CASE UNCHANGED vars BY <1>12 DEF vars, TypeOK
<1> QED BY <1>1, <1>2, <1>3, <1>4, <1>5, <1>6, <1>7, <1>8, <1>9, <1>10, <1>11, <1>12
    DEF Next, Reconciler, Cleaner

\* Every value has its type, whatever the constants are (all of the module).
THEOREM TypeCorrect == Spec => []TypeOK
<1>1. Init => TypeOK BY TypeInit
<1>2. TypeOK /\ [Next]_vars => TypeOK' BY TypeStep
<1> QED BY <1>1, <1>2, PTL DEF Spec
-----------------------------------------------------------------------------
(***************************************************************************)
(* RunnerServicesStay is not inductive: that a pass has put the Services   *)
(* of the runners in place before it comes to the API server is known only *)
(* from where the pass is.                                                 *)
(***************************************************************************)
GenericName(b, i) == ServiceName("generic", b, RunnersOf[b][i])

\* The pass is past the generic Service of the runner at place i.  (When there is
\* no pass, at and part are 1, and it is past none.)
Past(i) == i < at \/ (i = at /\ part > 3)

Applied ==
    \A i \in 1 .. Len(RunnersOf[bento]) : Past(i) => service[GenericName(bento, i)] # Absent

\* Without the label the cleaner never finds anything to do.
NothingListed == todo = {} /\ doomed = {}

IInv == TypeOK /\ NothingListed /\ Applied /\ RunnerServicesStay

\* A step that takes no generic Service away.
GenericsKept ==
    \A m \in ServiceNames : m.kind = "generic" /\ service[m] # Absent => service'[m] # Absent

LEMMA HasServicesKept ==
    ASSUME TypeOK, GenericsKept, NEW p \in Templates, ~p.debug, HasServices(p)
    PROVE  HasServices(p)'
<1> SUFFICES ASSUME NEW r \in RunnerSet(p.bento)
             PROVE  service'[RunnerAddress(p, r)] # Absent
  BY DEF HasServices, RunnerAddress
<1>1. p.bento \in Bentos BY DEF Templates
<1>2. r \in Targets BY <1>1, RunnerSetFacts DEF Targets
<1>3. RunnerAddress(p, r) \in ServiceNames /\ RunnerAddress(p, r).kind = "generic"
  BY <1>1, <1>2 DEF RunnerAddress, ServiceName, ServiceNames, Kinds
<1>4. service[RunnerAddress(p, r)] # Absent BY DEF HasServices
<1> QED BY <1>3, <1>4 DEF GenericsKept

LEMMA StayKept ==
    ASSUME TypeOK, RunnerServicesStay, GenericsKept,
           \A d \in DeploymentNames : \A p \in pods'[d] \cup ({deployment'[d]} \ {Absent}) :
               \/ p \in pods[d] \cup ({deployment[d]} \ {Absent})
               \/ p \in Templates /\ (p.target = Api /\ ~p.debug => HasServices(p))
    PROVE  RunnerServicesStay'
<1> SUFFICES ASSUME NEW d \in DeploymentNames,
                    NEW p \in pods'[d] \cup ({deployment'[d]} \ {Absent}),
                    p.target = Api, ~p.debug
             PROVE  HasServices(p)'
  BY DEF RunnerServicesStay
<1>1. p \in Templates
  BY DEF TypeOK
<1>2. HasServices(p) BY DEF RunnerServicesStay
<1> QED BY <1>1, <1>2, HasServicesKept

LEMMA ServiceKept ==
    ASSUME TypeOK, NEW n \in ServiceNames, NEW new, SetService(n, new),
           n.kind = "generic" => new # Absent
    PROVE  GenericsKept
BY DEF TypeOK, SetService, GenericsKept

LEMMA ApplyPartKeeps ==
    ASSUME TypeOK, ApplyPart
    PROVE  /\ GenericsKept
           /\ part = 3 => service'[ServiceName("generic", bento, Order(bento)[at])] # Absent
<1> DEFINE t == Order(bento)[at]
<1>1. CASE Parts[part] \in {"deployment", "twin"}
  <2>1. ApplyDeployment(t, Parts[part] = "twin") BY <1>1 DEF ApplyPart
  <2>2. service' = service BY <2>1 DEF ApplyDeployment, SetDeployment
  <2>3. part # 3 BY <1>1 DEF Parts
  <2> QED BY <2>2, <2>3 DEF GenericsKept
<1>2. CASE Parts[part] \notin {"deployment", "twin"}
  <2>1. Parts[part] \in {"generic", "production", "debug"} BY <1>2 DEF TypeOK, Parts
  <2>2. ApplyService(t, Parts[part]) BY <1>2 DEF ApplyPart
  <2>3. /\ ServiceName(Parts[part], bento, t) \in ServiceNames
        /\ ServiceSpec(cfg, bento, Parts[part], t) \in ServiceSpecs
    BY <2>1, GeneratedTypes DEF TypeOK
  <2>4. ServiceName(Parts[part], bento, t).kind = Parts[part] BY DEF ServiceName
  <2>5. ServiceSpec(cfg, bento, Parts[part], t) # Absent BY <2>3, AbsentAssumption
  <2> DEFINE new == IF IsWanted(t, Parts[part]) THEN ServiceSpec(cfg, bento, Parts[part], t) ELSE Absent
  <2>6. SetService(ServiceName(Parts[part], bento, t), new) BY <2>2 DEF ApplyService
  <2>7. Parts[part] = "generic" => new # Absent BY <2>5 DEF IsWanted
  <2>8. GenericsKept
    <3> HIDE DEF new, t
    <3> QED BY <2>3, <2>4, <2>6, <2>7, ServiceKept
  <2>9. ASSUME part = 3 PROVE service'[ServiceName("generic", bento, t)] # Absent
    <3>1. Parts[part] = "generic" BY <2>9 DEF Parts
    <3> HIDE DEF new, t
    <3> QED BY <3>1, <2>3, <2>6, <2>7 DEF SetService, TypeOK
  <2> QED BY <2>8, <2>9
<1> QED BY <1>1, <1>2

\* The templates that a pass writes: the API server's only when its runners'
\* Services are there.
LEMMA ApplyPartDeployments ==
    ASSUME TypeOK, Applied, ApplyPart,
           NEW d \in DeploymentNames, deployment'[d] # deployment[d], deployment'[d] # Absent
    PROVE  /\ deployment'[d] \in Templates
           /\ deployment'[d].target = Api /\ ~deployment'[d].debug => HasServices(deployment'[d])
<1> DEFINE t == Order(bento)[at]
           twin == Parts[part] = "twin"
           new == Template(cfg, bento, t, twin)
<1>1. Parts[part] \in {"deployment", "twin"}
  <2> SUFFICES ASSUME Parts[part] \notin {"deployment", "twin"} PROVE FALSE OBVIOUS
  <2>1. ApplyService(t, Parts[part]) BY DEF ApplyPart
  <2> QED BY <2>1 DEF ApplyService, SetService
<1>2. ApplyDeployment(t, twin) BY <1>1 DEF ApplyPart
<1>3. deployment'[d] = new
  <2> HIDE DEF t, twin
  <2> QED BY <1>2 DEF ApplyDeployment, SetDeployment, TypeOK
<1>4. new \in Templates BY GeneratedTypes DEF TypeOK
<1>5. new.bento = bento /\ new.target = t /\ new.debug = twin BY DEF Template
<1>6. ASSUME t = Api PROVE at = Len(RunnersOf[bento]) + 1
  <2>1. bento \in Bentos /\ at \in 1 .. Len(Order(bento)) BY DEF TypeOK
  <2>2. ~(at \in 1 .. Len(RunnersOf[bento])) BY <1>6, <2>1, OrderFacts, ConstantsAssumption
  <2> QED BY <2>1, <2>2, OrderFacts
<1>7. ASSUME t = Api, ~twin PROVE HasServices(new)
  <2> SUFFICES ASSUME NEW r \in RunnerSet(bento)
               PROVE  service[RunnerAddress(new, r)] # Absent
    BY <1>5 DEF HasServices
  <2>1. PICK i \in 1 .. Len(RunnersOf[bento]) : r = RunnersOf[bento][i]
    BY RunnerSetFacts DEF TypeOK
  <2>2. i < at
    <3>1. Len(RunnersOf[bento]) \in Nat BY OrderFacts DEF TypeOK
    <3> HIDE DEF t, twin
    <3> QED BY <1>6, <1>7, <2>1, <3>1
  <2>3. service[GenericName(bento, i)] # Absent BY <2>2 DEF Applied, Past
  <2>4. RunnerAddress(new, r) = GenericName(bento, i)
    <3> HIDE DEF new
    <3> QED BY <1>5, <1>7, <2>1 DEF RunnerAddress, GenericName
  <2> QED BY <2>3, <2>4
<1> HIDE DEF t, twin, new
<1> QED BY <1>3, <1>4, <1>5, <1>7

\* The pass goes on: what it is past, it has put in place.
LEMMA AdvanceKeepsApplied ==
    ASSUME TypeOK, Applied, ApplyPart, Advance, bento' = bento
    PROVE  Applied'
<1> SUFFICES ASSUME NEW i \in 1 .. Len(RunnersOf[bento]), Past(i)'
             PROVE  service'[GenericName(bento, i)] # Absent
  BY DEF Applied, GenericName
<1>1. /\ at \in Nat /\ part \in 1 .. 5 /\ Len(Parts) = 5 /\ i \in Nat
      /\ Len(RunnersOf[bento]) \in Nat
  BY OrderFacts DEF TypeOK, Parts
<1>2. Past(i) \/ (i = at /\ part = 3)
  <2>1. i < at' \/ (i = at' /\ part' > 3) BY DEF Past
  <2>2. CASE part < Len(Parts) BY <1>1, <2>1, <2>2 DEF Advance, Past
  <2>3. CASE ~(part < Len(Parts)) /\ at < Len(Order(bento))
    <3>1. at' = at + 1 /\ part' = 1 /\ part = 5 BY <1>1, <2>3 DEF Advance
    <3> QED BY <1>1, <2>1, <3>1 DEF Past
  <2>4. CASE ~(part < Len(Parts)) /\ ~(at < Len(Order(bento)))
    <3>1. at' = 1 /\ part' = 1 BY <2>4 DEF Advance
    <3> QED BY <1>1, <2>1, <3>1
  <2> QED BY <2>2, <2>3, <2>4
<1>3. CASE Past(i)
  <2>1. service[GenericName(bento, i)] # Absent BY <1>3 DEF Applied
  <2>2. bento \in Bentos /\ RunnersOf[bento][i] \in Targets
    BY OrderFacts DEF TypeOK, Targets
  <2>3. GenericName(bento, i) \in ServiceNames /\ GenericName(bento, i).kind = "generic"
    BY <2>2 DEF GenericName, ServiceName, ServiceNames, Kinds
  <2> QED BY <2>1, <2>3, ApplyPartKeeps DEF GenericsKept
<1>4. CASE i = at /\ part = 3
  <2>1. Order(bento)[at] = RunnersOf[bento][i] BY <1>4, OrderFacts DEF TypeOK
  <2> QED BY <1>4, <2>1, ApplyPartKeeps DEF GenericName
<1> QED BY <1>2, <1>3, <1>4

LEMMA InvInit ==
    ASSUME Init
    PROVE  IInv
<1>1. RunnerServicesStay BY DEF Init, RunnerServicesStay
<1>2. Applied
  <2>1. at = 1 /\ part = 1 BY DEF Init
  <2> QED BY <2>1 DEF Applied, Past
<1> QED BY <1>1, <1>2, TypeInit DEF Init, IInv, NothingListed

\* Steps that leave the children and the pods alone.
LEMMA QuietKeeps ==
    ASSUME RunnerServicesStay, service' = service, deployment' = deployment, pods' = pods
    PROVE  RunnerServicesStay'
BY DEF RunnerServicesStay, HasServices, RunnerAddress

LEMMA InvStep ==
    ASSUME RunnerLabel = FALSE, IInv, [Next]_vars
    PROVE  IInv'
<1> USE DEF specVars, childVars, passVars, cleanerVars
<1> TypeOK /\ NothingListed /\ Applied /\ RunnerServicesStay BY DEF IInv
<1> TypeOK' BY TypeStep
<1> SUFFICES (NothingListed /\ Applied /\ RunnerServicesStay)' BY DEF IInv
<1>1. CASE EditSpec
  BY <1>1, QuietKeeps DEF EditSpec, NothingListed, Applied, Past
<1>2. CASE Begin
  <2>1. at' = 1 /\ part' = 1 BY <1>2 DEF Begin
  <2>2. Applied' BY <2>1 DEF Applied, Past
  <2> QED BY <1>2, <2>2, QuietKeeps DEF Begin, NothingListed
<1>3. CASE Reread
  BY <1>3, QuietKeeps DEF Reread, NothingListed, Applied, Past
<1>4. CASE Apply
  <2>1. NothingListed' BY <1>4 DEF Apply, NothingListed
  <2>2. Applied'
    <3>1. CASE ApplyPart /\ Advance BY <1>4, <3>1, AdvanceKeepsApplied DEF Apply
    <3>2. CASE at' = 1 /\ part' = 1 BY <3>2 DEF Applied, Past
    <3> QED BY <1>4, <3>1, <3>2 DEF Apply
  <2>3. RunnerServicesStay'
    <3>1. CASE ApplyPart
      <4>1. \A d \in DeploymentNames :
              \A p \in pods'[d] \cup ({deployment'[d]} \ {Absent}) :
                \/ p \in pods[d] \cup ({deployment[d]} \ {Absent})
                \/ p \in Templates /\ (p.target = Api /\ ~p.debug => HasServices(p))
        BY <1>4, <3>1, ApplyPartDeployments DEF Apply
      <4> QED BY <3>1, <4>1, ApplyPartKeeps, StayKept
    <3>2. CASE UNCHANGED <<childVars, queued, aged>> BY <1>4, <3>2, QuietKeeps DEF Apply
    <3> QED BY <1>4, <3>1, <3>2 DEF Apply
  <2> QED BY <2>1, <2>2, <2>3
<1>5. CASE Resync
  BY <1>5, QuietKeeps DEF Resync, NothingListed, Applied, Past
<1>6. CASE ListServices
  <2>1. todo' = {} BY <1>6 DEF ListServices, Labelled
  <2> QED BY <1>6, <2>1, QuietKeeps DEF ListServices, NothingListed, Applied, Past
<1>7. CASE CheckService BY <1>7 DEF CheckService, NothingListed
<1>8. CASE DeleteService BY <1>8 DEF DeleteService, NothingListed
<1>9. CASE CleanerFails BY <1>9 DEF CleanerFails, NothingListed
<1>10. ASSUME NEW d \in DeploymentNames, StartPods(d) \/ StopPods(d)
       PROVE  (NothingListed /\ Applied /\ RunnerServicesStay)'
  <2>1. GenericsKept BY <1>10 DEF StartPods, StopPods, GenericsKept
  <2>2. \A e \in DeploymentNames :
          \A p \in pods'[e] \cup ({deployment'[e]} \ {Absent}) :
            p \in pods[e] \cup ({deployment[e]} \ {Absent})
    BY <1>10 DEF StartPods, StopPods, TypeOK
  <2>3. RunnerServicesStay' BY <2>1, <2>2, StayKept
  <2> QED BY <1>10, <2>3 DEF StartPods, StopPods, NothingListed, Applied, Past
<1>11. ASSUME NEW n \in ServiceNames, Age(n)
       PROVE  (NothingListed /\ Applied /\ RunnerServicesStay)'
  BY <1>11 DEF Age
<1>12. CASE UNCHANGED vars
  BY <1>12, QuietKeeps DEF vars, NothingListed, Applied, Past
<1> QED BY <1>1, <1>2, <1>3, <1>4, <1>5, <1>6, <1>7, <1>8, <1>9, <1>10, <1>11, <1>12
    DEF Next, Reconciler, Cleaner

\* As long as the runners' Services do not carry the label that the cleaner
\* selects, no production API server is ever told to reach a runner at a Service
\* that is not there: not while a pass is under way, has failed or is repeated
\* for another Bento, and for none of the pods that are still to be replaced
\* (Reconcile, createOrUpdateOrDeleteServices).
THEOREM RunnerServicesNeverGo ==
    ASSUME RunnerLabel = FALSE
    PROVE  Spec => []RunnerServicesStay
<1>1. Init => IInv BY InvInit
<1>2. IInv /\ [Next]_vars => IInv' BY InvStep
<1>3. IInv => RunnerServicesStay BY DEF IInv
<1> QED BY <1>1, <1>2, <1>3, PTL DEF Spec
-----------------------------------------------------------------------------
\* A Service selects what it is named for.
NamesAgree ==
    \A n \in ServiceNames : service[n] # Absent =>
        service[n].target = n.target /\ (n.target # Api => service[n].bento = n.bento)

LEMMA NamesKept ==
    ASSUME TypeOK, NamesAgree, NEW n \in ServiceNames, NEW new, SetService(n, new),
           new # Absent => new.target = n.target /\ (n.target # Api => new.bento = n.bento)
    PROVE  NamesAgree'
BY DEF TypeOK, NamesAgree, SetService

LEMMA ApplyPartNames ==
    ASSUME TypeOK, NamesAgree, ApplyPart
    PROVE  NamesAgree'
<1> DEFINE t == Order(bento)[at]
           kind == Parts[part]
           new == IF IsWanted(t, kind) THEN ServiceSpec(cfg, bento, kind, t) ELSE Absent
<1>1. CASE Parts[part] \in {"deployment", "twin"}
  <2>1. ApplyDeployment(t, Parts[part] = "twin") BY <1>1 DEF ApplyPart
  <2> QED BY <2>1 DEF ApplyDeployment, SetDeployment, NamesAgree
<1>2. CASE Parts[part] \notin {"deployment", "twin"}
  <2>1. kind \in {"generic", "production", "debug"} BY <1>2 DEF TypeOK, Parts
  <2>2. ServiceName(kind, bento, t) \in ServiceNames
    BY <2>1, GeneratedTypes DEF TypeOK
  <2>3. SetService(ServiceName(kind, bento, t), new)
    BY <1>2 DEF ApplyPart, ApplyService
  <2>4. new # Absent => new.target = t /\ new.bento = bento BY DEF ServiceSpec
  <2>5. ServiceName(kind, bento, t).target = t
        /\ (t # Api => ServiceName(kind, bento, t).bento = bento)
    BY DEF ServiceName
  <2> HIDE DEF t, kind, new
  <2> QED BY <2>2, <2>3, <2>4, <2>5, NamesKept
<1> QED BY <1>1, <1>2

LEMMA NamesStep ==
    ASSUME TypeOK, NamesAgree, [Next]_vars
    PROVE  NamesAgree'
<1> USE DEF specVars, childVars, passVars, cleanerVars
<1>1. CASE service' = service BY <1>1 DEF NamesAgree
<1>2. CASE Apply
  <2>1. CASE ApplyPart BY <2>1, ApplyPartNames
  <2>2. CASE UNCHANGED <<childVars, queued, aged>> BY <1>1, <2>2
  <2> QED BY <1>2, <2>1, <2>2 DEF Apply
<1>3. CASE \E n \in doomed : SetService(n, Absent)
  BY <1>3, NamesKept DEF TypeOK
<1>4. CASE DeleteService BY <1>1, <1>3, <1>4 DEF DeleteService
<1>5. CASE CleanerFails BY <1>1, <1>3, <1>5 DEF CleanerFails
<1>6. CASE EditSpec \/ Begin \/ Reread \/ Resync \/ ListServices \/ CheckService
  BY <1>1, <1>6 DEF EditSpec, Begin, Reread, Resync, ListServices, CheckService
<1>7. ASSUME NEW d \in DeploymentNames, StartPods(d) \/ StopPods(d) PROVE NamesAgree'
  BY <1>1, <1>7 DEF StartPods, StopPods
<1>8. ASSUME NEW n \in ServiceNames, Age(n) PROVE NamesAgree'
  BY <1>1, <1>8 DEF Age
<1>9. CASE UNCHANGED vars BY <1>1, <1>9 DEF vars
<1> QED BY <1>2, <1>4, <1>5, <1>6, <1>7, <1>8, <1>9 DEF Next, Reconciler, Cleaner

LEMMA NamesSuffice ==
    ASSUME TypeOK, NamesAgree
    PROVE  VersionsAgree
<1> SUFFICES ASSUME NEW p \in AllPods, p.target = Api, NEW r \in RunnerSet(p.bento),
                    NEW q \in Endpoints(RunnerAddress(p, r))
             PROVE  q.bento = p.bento /\ q.target = r
  BY DEF VersionsAgree
<1> DEFINE n == RunnerAddress(p, r)
<1>1. p \in Templates BY DEF AllPods, TypeOK
<1>2. p.bento \in Bentos BY <1>1 DEF Templates
<1>3. r \in Runners /\ r # Api BY <1>2, RunnerSetFacts, ConstantsAssumption
<1>4. n \in ServiceNames /\ n.bento = p.bento /\ n.target = r
  BY <1>2, <1>3 DEF RunnerAddress, ServiceName, ServiceNames, Kinds, Targets
<1>5. service[n] # Absent /\ Selects(service[n], q) BY DEF Endpoints
<1> HIDE DEF n
<1> QED BY <1>3, <1>4, <1>5 DEF NamesAgree, Selects

\* An API server never reaches runner pods of another Bento, or another runner's,
\* whatever the Bentos' runners and their order are: a runner's Service is named
\* for Bento and runner, and always selects just these (getRunnerServiceName,
\* getRunnerGenericServiceName, generateService).
THEOREM VersionsAlwaysAgree == Spec => []VersionsAgree
<1>1. Init => TypeOK /\ NamesAgree BY TypeInit DEF Init, NamesAgree
<1>2. TypeOK /\ NamesAgree /\ [Next]_vars => (TypeOK /\ NamesAgree)' BY TypeStep, NamesStep
<1>3. TypeOK /\ NamesAgree => VersionsAgree BY NamesSuffice
<1> QED BY <1>1, <1>2, <1>3, PTL DEF Spec
=============================================================================
