------------------------ MODULE PodGeneration_proofs ------------------------
(***************************************************************************)
(* Proofs about PodGeneration: its types, the ports of a pod's containers, *)
(* and that proxies and Services agree with the pods, for every value of   *)
(* the constants: any specs, edits of them, accounts and versions.         *)
(***************************************************************************)
EXTENDS PodGeneration, TLAPS

-----------------------------------------------------------------------------
(* The inductive invariant.  Everything there is was made from a spec that   *)
(* was stored, and what matters is when: the Deployment from past[i], the    *)
(* ConfigMap from past[j], the pass works with past[k], and i <= j <= k, for *)
(* the ConfigMap is written first.                                           *)

\* The Deployment d is one made from the spec s, but for its replicas.
MadeFrom(d, s, t) ==
    \E o \in OptionOrders(s, t), a \in AccountChoices(s, t) :
        d = [template |-> Template(s, t, o, a), strategy |-> Strategy(s, t), replicas |-> d.replicas]

\* The pod p runs what the spec s says, and its proxy has read what that of r says.
PodOf(p, s, r, t) ==
    /\ p = [template |-> p.template, proxy |-> p.proxy]
    /\ \E o \in OptionOrders(s, t), a \in AccountChoices(s, t) : p.template = Template(s, t, o, a)
    /\ p.proxy = IF t = "runner" THEN Absent ELSE ProxyConfig(r, t)

Replicas(t) == {1} \cup {Autoscaling(s, t).min : s \in Specs}

Constant ==
    /\ target \in Targets /\ minor \in Minors
    /\ past \in Seq(Specs) /\ Len(past) \in 1 .. MaxEdits + 1
    /\ faults \in 0 .. MaxFaults

Shapes ==
    /\ pass = [todo |-> pass.todo, spec |-> pass.spec, account |-> pass.account]
    /\ pass.todo \subseteq ToSet(Order)
    /\ target = "runner" => configMap = Absent /\ "configMap" \notin pass.todo
    /\ target # "runner" /\ pods # {} => configMap # Absent
    /\ hpa \in {HPAOf(s, target, minor) : s \in Specs} \cup {Absent}
    /\ deployment # Absent => deployment.replicas \in Replicas(target)

Selected == service # Absent => \E n \in 1 .. Len(past) : service = ServiceSelector(past[n], target)

History(i, j, k) ==
    /\ pass.spec = past[k]
    /\ deployment # Absent => MadeFrom(deployment, past[i], target)
    /\ configMap # Absent => configMap = ProxyConfig(past[j], target)
    /\ target # "runner" /\ pass.todo # {} /\ "configMap" \notin pass.todo => j = k /\ configMap # Absent
    /\ \A p \in pods : \E a, b \in 1 .. j : a <= b /\ PodOf(p, past[a], past[b], target)

InOrder == \E i, j, k \in 1 .. Len(past) : i <= j /\ j <= k /\ History(i, j, k)

PodInv == Constant /\ Shapes /\ Selected /\ InOrder
-----------------------------------------------------------------------------
(* Lemmas about the operators.                                              *)

\* The API server's Deployment is not written while the ConfigMap is still to be.
LEMMA ConfigMapFirst == At("deployment") => "configMap" \notin pass.todo
<1>1. Before("configMap", "deployment")
  <2>1. 2 \in DOMAIN Order /\ 4 \in DOMAIN Order /\ 2 < 4
    BY DEF Order
  <2>2. Order[2] = "configMap" /\ Order[4] = "deployment"
    BY DEF Order
  <2> QED  BY <2>1, <2>2 DEF Before
<1> QED  BY <1>1 DEF At

LEMMA OrderSet == ToSet(Order) = {"yatai", "configMap", "account", "deployment", "hpa", "service"}
<1>1. DOMAIN Order = 1 .. 6
  BY DEF Order
<1>2. /\ Order[1] = "yatai" /\ Order[2] = "configMap" /\ Order[3] = "account"
      /\ Order[4] = "deployment" /\ Order[5] = "hpa" /\ Order[6] = "service"
  BY DEF Order
<1>3. \A i \in 1 .. 6 : i = 1 \/ i = 2 \/ i = 3 \/ i = 4 \/ i = 5 \/ i = 6
  OBVIOUS
<1> QED  BY <1>1, <1>2, <1>3 DEF ToSet

LEMMA TodoSteps ==
    ASSUME NEW s, NEW t
    PROVE  /\ Todo(s, t) \subseteq ToSet(Order)
           /\ t # "runner" <=> "configMap" \in Todo(s, t)
<1>1. Needed("configMap", s, t) <=> t # "runner"
  BY DEF Needed
<1> QED  BY <1>1, OrderSet DEF Todo

\* Every Deployment that may be generated is one made from its spec, at one replica.
LEMMA GeneratedIsMade ==
    ASSUME NEW s \in Specs, NEW t \in Targets, NEW d \in Generated[s][t]
    PROVE  MadeFrom(d, s, t) /\ d.replicas = 1
<1>1. Generated[s][t] = Deployments(s, t)
  BY DEF Generated
<1>2. PICK o \in OptionOrders(s, t), a \in AccountChoices(s, t) : d = Deployment(s, t, o, a)
  BY <1>1 DEF Deployments
<1>3. d = [template |-> Template(s, t, o, a), strategy |-> Strategy(s, t), replicas |-> 1]
  BY <1>2 DEF Deployment
<1> QED  BY <1>3 DEF MadeFrom

\* The other way round, whatever its replicas are by now.
LEMMA MadeIsDeployed ==
    ASSUME NEW s \in Specs, target \in Targets, deployment # Absent, MadeFrom(deployment, s, target)
    PROVE  Deployed(s)
<1>1. PICK o \in OptionOrders(s, target), a \in AccountChoices(s, target) :
          deployment = [template |-> Template(s, target, o, a), strategy |-> Strategy(s, target),
                        replicas |-> deployment.replicas]
  BY DEF MadeFrom
<1> DEFINE d == Deployment(s, target, o, a)
<1>2. d \in Generated[s][target]
  BY DEF Generated, Deployments
<1>3. d = [deployment EXCEPT !.replicas = d.replicas]
  BY <1>1 DEF Deployment
<1> QED  BY <1>2, <1>3 DEF Deployed

\* And a Deployment that is deployed was made from the spec.
LEMMA DeployedIsMade ==
    ASSUME NEW s \in Specs, target \in Targets, Deployed(s), NEW q, MadeFrom(deployment, q, target)
    PROVE  \E o \in OptionOrders(s, target), a \in AccountChoices(s, target) :
              deployment.template = Template(s, target, o, a)
<1>1. PICK d \in Generated[s][target] : d = [deployment EXCEPT !.replicas = d.replicas]
  BY DEF Deployed
<1>2. PICK o \in OptionOrders(s, target), a \in AccountChoices(s, target) : d = Deployment(s, target, o, a)
  BY DEF Generated, Deployments
<1>3. d.template = Template(s, target, o, a)
  BY <1>2 DEF Deployment
<1>4. \E x, y, z : deployment = [template |-> x, strategy |-> y, replicas |-> z]
  BY DEF MadeFrom
<1>5. d.template = deployment.template
  BY <1>1, <1>4
<1> QED  BY <1>3, <1>5

\* Replicas are all that scaling changes.
LEMMA ScaledIsMade ==
    ASSUME NEW d, NEW s, NEW t, NEW n, MadeFrom(d, s, t)
    PROVE  MadeFrom([d EXCEPT !.replicas = n], s, t) /\ [d EXCEPT !.replicas = n].replicas = n
<1>1. PICK o \in OptionOrders(s, t), a \in AccountChoices(s, t) :
          d = [template |-> Template(s, t, o, a), strategy |-> Strategy(s, t), replicas |-> d.replicas]
  BY DEF MadeFrom
<1>2. [d EXCEPT !.replicas = n]
        = [template |-> Template(s, t, o, a), strategy |-> Strategy(s, t), replicas |-> n]
  BY <1>1
<1> QED  BY <1>2 DEF MadeFrom
-----------------------------------------------------------------------------
(* The invariant holds in the initial states and every step keeps it.       *)

LEMMA InitPodInv == Init => PodInv
<1> SUFFICES ASSUME Init PROVE PodInv
  OBVIOUS
<1>1. PICK s \in Specs : past = <<s>>
  BY DEF Init
<1>2. past \in Seq(Specs) /\ Len(past) = 1 /\ past[1] = s /\ Last(past) = s
  BY <1>1 DEF Last
<1>3. Constant
  BY <1>2, ConstantsAssumption DEF Init, Constant
<1>4. Shapes /\ Selected
  BY DEF Init, Shapes, Selected
<1>5. History(1, 1, 1)
  BY <1>2 DEF Init, History
<1>6. InOrder
  <2>1. 1 \in 1 .. Len(past)
    BY <1>2
  <2> QED  BY <2>1, <1>5 DEF InOrder
<1> QED  BY <1>3, <1>4, <1>6 DEF PodInv

\* The user's edits leave the history of all there is as it was.
LEMMA EditStep == PodInv /\ EditSpec => PodInv'
<1> SUFFICES ASSUME PodInv, EditSpec PROVE PodInv'
  OBVIOUS
<1>1. PICK s \in Specs : past' = Append(past, s)
  BY DEF EditSpec
<1>2. past \in Seq(Specs) /\ Len(past) \in Nat /\ Len(past) <= MaxEdits
  BY DEF PodInv, Constant, EditSpec
<1>3. past' \in Seq(Specs) /\ Len(past') = Len(past) + 1 /\ \A n \in 1 .. Len(past) : past'[n] = past[n]
  BY <1>1, <1>2
<1>4. UNCHANGED <<target, minor, pass, configMap, deployment, hpa, service, pods, faults>>
  BY DEF EditSpec
<1>5. Constant'
  BY <1>2, <1>3, <1>4, ConstantsAssumption DEF PodInv, Constant
<1>6. Shapes'
  BY <1>4 DEF PodInv, Shapes
<1>7. Selected'
  BY <1>2, <1>3, <1>4 DEF PodInv, Selected
<1>8. InOrder'
  <2>1. PICK i, j, k \in 1 .. Len(past) : i <= j /\ j <= k /\ History(i, j, k)
    BY DEF PodInv, InOrder
  <2>2. past'[i] = past[i] /\ past'[j] = past[j] /\ past'[k] = past[k]
    BY <1>3
  <2>3. \A p \in pods' : \E a, b \in 1 .. j : a <= b /\ PodOf(p, past'[a], past'[b], target')
    <3>1. \A a \in 1 .. j : past'[a] = past[a]
      BY <1>2, <1>3
    <3> QED  BY <2>1, <3>1, <1>4 DEF History
  <2>4. History(i, j, k)'
    BY <2>1, <2>2, <2>3, <1>4 DEF History
  <2>5. i \in 1 .. Len(past') /\ j \in 1 .. Len(past') /\ k \in 1 .. Len(past')
    BY <1>2, <1>3
  <2> QED  BY <2>1, <2>4, <2>5 DEF InOrder
<1> QED  BY <1>5, <1>6, <1>7, <1>8 DEF PodInv

\* A pass begins with the current spec, and the ConfigMap is still to be written.
LEMMA BeginStep == PodInv /\ Begin => PodInv'
<1> SUFFICES ASSUME PodInv, Begin PROVE PodInv'
  OBVIOUS
<1>1. pass' = [todo |-> Todo(spec, target), spec |-> spec, account |-> Inherited(spec, target).account]
  BY DEF Begin
<1>2. UNCHANGED <<target, minor, past, configMap, deployment, hpa, service, pods, faults>>
  BY DEF Begin
<1>3. past \in Seq(Specs) /\ Len(past) \in 1 .. Len(past) /\ spec = past[Len(past)]
  BY DEF PodInv, Constant, spec, Last
<1>4. pass'.todo = Todo(spec, target) /\ pass'.spec = spec
  BY <1>1
<1>5. Constant' /\ Selected'
  BY <1>2 DEF PodInv, Constant, Selected
<1>6. Shapes'
  BY <1>1, <1>2, <1>4, TodoSteps DEF PodInv, Shapes
<1>7. PICK i, j, k \in 1 .. Len(past) : i <= j /\ j <= k /\ History(i, j, k)
  BY DEF PodInv, InOrder
<1>8. History(i, j, Len(past))'
  BY <1>2, <1>3, <1>4, <1>7, TodoSteps DEF History
<1>9. InOrder'
  <2>1. j <= Len(past)
    BY <1>7
  <2> QED  BY <1>2, <1>3, <1>7, <1>8, <2>1 DEF InOrder
<1> QED  BY <1>5, <1>6, <1>9 DEF PodInv
\* The calls that change neither the ConfigMap nor the Deployment leave the order alone.
PassGoesOn ==
    /\ pass' = [todo |-> pass'.todo, spec |-> pass.spec, account |-> pass'.account]
    /\ pass'.todo \subseteq pass.todo
    /\ pass'.todo = {} \/ ("configMap" \in pass.todo => "configMap" \in pass'.todo)

LEMMA OtherCall ==
    ASSUME PodInv, PassGoesOn, UNCHANGED <<target, past, configMap, deployment, pods>>
    PROVE  InOrder'
<1>1. PICK i, j, k \in 1 .. Len(past) : i <= j /\ j <= k /\ History(i, j, k)
  BY DEF PodInv, InOrder
<1>2. pass'.spec = pass.spec
  BY DEF PassGoesOn
<1>3. History(i, j, k)'
  BY <1>1, <1>2 DEF History, PassGoesOn
<1> QED  BY <1>1, <1>3 DEF InOrder

LEMMA EndedGoesOn ==
    ASSUME PodInv, pass' = Ended(pass)
    PROVE  PassGoesOn /\ pass'.todo = {}
<1>1. pass = [todo |-> pass.todo, spec |-> pass.spec, account |-> pass.account]
  BY DEF PodInv, Shapes
<1>2. pass' = [todo |-> {}, spec |-> pass.spec, account |-> pass.account]
  BY <1>1 DEF Ended
<1> QED  BY <1>2 DEF PassGoesOn

LEMMA DidGoesOn ==
    ASSUME PodInv, NEW step, pass' = Did(step, pass)
    PROVE  /\ pass'.spec = pass.spec /\ pass'.todo = pass.todo \ {step}
           /\ pass' = [todo |-> pass'.todo, spec |-> pass'.spec, account |-> pass'.account]
           /\ step # "configMap" => PassGoesOn
<1>1. pass = [todo |-> pass.todo, spec |-> pass.spec, account |-> pass.account]
  BY DEF PodInv, Shapes
<1>2. Did(step, pass) = [todo |-> pass.todo \ {step}, spec |-> pass.spec, account |-> pass.account]
  BY <1>1 DEF Did
<1> QED  BY <1>2 DEF PassGoesOn

\* However a call that was carried out is answered, the pass goes on or is over.
LEMMA AnsweredGoesOn ==
    ASSUME PodInv, NEW step, Answered(step)
    PROVE  /\ faults' \in 0 .. MaxFaults
           /\ pass' = [todo |-> pass'.todo, spec |-> pass.spec, account |-> pass'.account]
           /\ pass'.todo \subseteq pass.todo
           /\ step # "configMap" => PassGoesOn
<1>1. CASE pass' = Did(step, pass) /\ UNCHANGED faults
  BY <1>1, DidGoesOn DEF PodInv, Constant
<1>2. CASE faults < MaxFaults /\ faults' = faults + 1 /\ pass' = Ended(pass)
  <2>1. faults' \in 0 .. MaxFaults
    BY <1>2, ConstantsAssumption DEF PodInv, Constant
  <2> QED  BY <1>2, <2>1, EndedGoesOn DEF PassGoesOn
<1> QED  BY <1>1, <1>2 DEF Answered

LEMMA FailStep == PodInv /\ Fail => PodInv'
<1> SUFFICES ASSUME PodInv, Fail PROVE PodInv'
  OBVIOUS
<1>1. PassGoesOn /\ pass'.todo = {}
  BY EndedGoesOn DEF Fail
<1>2. UNCHANGED <<target, minor, past, configMap, deployment, hpa, service, pods>>
  BY DEF Fail
<1>3. Constant'
  BY <1>2, ConstantsAssumption DEF PodInv, Constant, Fail
<1>4. Shapes'
  BY <1>1, <1>2 DEF PodInv, Shapes, PassGoesOn
<1>5. Selected'
  BY <1>2 DEF PodInv, Selected
<1>6. InOrder'
  BY <1>1, <1>2, OtherCall
<1> QED  BY <1>3, <1>4, <1>5, <1>6 DEF PodInv

LEMMA ReadingStep == PodInv /\ (AskYatai \/ ListAccounts) => PodInv'
<1> SUFFICES ASSUME PodInv, AskYatai \/ ListAccounts PROVE PodInv'
  OBVIOUS
<1>1. PassGoesOn
  <2>1. CASE AskYatai
    BY <2>1, DidGoesOn DEF AskYatai
  <2>2. CASE ListAccounts
    <3>1. PICK a : pass' = [Did("account", pass) EXCEPT !.account = a]
      BY <2>2 DEF ListAccounts
    <3>2. pass = [todo |-> pass.todo, spec |-> pass.spec, account |-> pass.account]
      BY DEF PodInv, Shapes
    <3>3. Did("account", pass) = [todo |-> pass.todo \ {"account"}, spec |-> pass.spec, account |-> pass.account]
      BY <3>2 DEF Did
    <3>4. pass' = [todo |-> pass.todo \ {"account"}, spec |-> pass.spec, account |-> a]
      BY <3>1, <3>3
    <3> QED  BY <3>4 DEF PassGoesOn
  <2> QED  BY <2>1, <2>2
<1>2. UNCHANGED <<target, minor, past, configMap, deployment, hpa, service, pods, faults>>
  BY DEF AskYatai, ListAccounts
<1>3. Constant' /\ Selected'
  BY <1>2 DEF PodInv, Constant, Selected
<1>4. Shapes'
  BY <1>1, <1>2 DEF PodInv, Shapes, PassGoesOn
<1>5. InOrder'
  BY <1>1, <1>2, OtherCall
<1> QED  BY <1>3, <1>4, <1>5 DEF PodInv

\* The pass catches the ConfigMap up with the spec it works with.
LEMMA ConfigMapStep == PodInv /\ ApplyConfigMap => PodInv'
<1> SUFFICES ASSUME PodInv, ApplyConfigMap PROVE PodInv'
  OBVIOUS
<1>1. /\ faults' \in 0 .. MaxFaults
      /\ pass' = [todo |-> pass'.todo, spec |-> pass.spec, account |-> pass'.account]
      /\ pass'.todo \subseteq pass.todo
  BY AnsweredGoesOn DEF ApplyConfigMap
<1>2. configMap' = ProxyConfig(pass.spec, target)
      /\ UNCHANGED <<target, minor, past, deployment, hpa, service, pods>>
  BY DEF ApplyConfigMap
<1>3. target # "runner"
  BY DEF ApplyConfigMap, At, PodInv, Shapes
<1>4. Constant' /\ Selected'
  BY <1>1, <1>2 DEF PodInv, Constant, Selected
<1>5. Shapes'
  <2>1. pass.spec \in Specs
    BY DEF PodInv, Constant, InOrder, History
  <2>2. configMap' # Absent
    BY <1>2, <2>1, DistinctAssumption DEF PodInv, Constant
  <2> QED  BY <1>1, <1>2, <1>3, <2>2 DEF PodInv, Shapes
<1>6. InOrder'
  <2>1. PICK i, j, k \in 1 .. Len(past) : i <= j /\ j <= k /\ History(i, j, k)
    BY DEF PodInv, InOrder
  <2>2. pass'.spec = past[k] /\ pass.spec = past[k]
    BY <1>1, <2>1 DEF History
  <2>3. past[k] \in Specs
    BY DEF PodInv, Constant
  <2>4. configMap' = ProxyConfig(past[k], target) /\ configMap' # Absent
    BY <1>2, <2>2, <2>3, DistinctAssumption DEF PodInv, Constant
  <2>5. \A p \in pods' : \E a, b \in 1 .. k : a <= b /\ PodOf(p, past'[a], past'[b], target')
    <3>1. 1 .. j \subseteq 1 .. k
      BY <2>1
    <3> QED  BY <1>2, <2>1, <3>1 DEF History
  <2>6. History(i, k, k)'
    BY <1>2, <2>1, <2>2, <2>4, <2>5 DEF History
  <2>7. i <= k
    BY <2>1
  <2> QED  BY <1>2, <2>6, <2>7 DEF InOrder
<1> QED  BY <1>4, <1>5, <1>6 DEF PodInv
\* The Deployment that the pass writes is of the spec that the ConfigMap is of already.
LEMMA DeploymentStep == PodInv /\ ApplyDeployment => PodInv'
<1> SUFFICES ASSUME PodInv, ApplyDeployment PROVE PodInv'
  OBVIOUS
<1>1. UNCHANGED <<target, minor, past, configMap, hpa, service, pods>>
  BY DEF ApplyDeployment
<1>2. PICK i, j, k \in 1 .. Len(past) : i <= j /\ j <= k /\ History(i, j, k)
  BY DEF PodInv, InOrder
<1>3. pass.spec = past[k] /\ past[k] \in Specs
  BY <1>2 DEF PodInv, Constant, History
<1>4. PICK new \in Generated[pass.spec][target] :
         \/ pass' = Did("deployment", pass) /\ UNCHANGED <<deployment, faults>>
         \/ pass' = Ended(pass) /\ UNCHANGED <<deployment, faults>>
         \/ deployment' = new /\ Answered("deployment")
  BY DEF ApplyDeployment
<1>5. MadeFrom(new, past[k], target) /\ new.replicas = 1
  BY <1>3, <1>4, GeneratedIsMade DEF PodInv, Constant
<1>6. PassGoesOn /\ faults' \in 0 .. MaxFaults
  <2>1. CASE pass' = Did("deployment", pass) /\ UNCHANGED <<deployment, faults>>
    <3>1. PassGoesOn
      BY <2>1, DidGoesOn
    <3>2. faults' = faults
      BY <2>1
    <3> QED  BY <3>1, <3>2 DEF PodInv, Constant
  <2>2. CASE pass' = Ended(pass) /\ UNCHANGED <<deployment, faults>>
    BY <2>2, EndedGoesOn DEF PodInv, Constant
  <2>3. CASE Answered("deployment")
    BY <2>3, AnsweredGoesOn
  <2> QED  BY <1>4, <2>1, <2>2, <2>3
<1>7. Constant' /\ Selected'
  BY <1>1, <1>6 DEF PodInv, Constant, Selected
<1>8. deployment' = deployment \/ deployment' = new
  BY <1>4
<1>9. Shapes'
  <2>1. deployment' # Absent => deployment'.replicas \in Replicas(target')
    BY <1>1, <1>5, <1>8 DEF PodInv, Shapes, Replicas
  <2> QED  BY <1>1, <1>6, <2>1 DEF PodInv, Shapes, PassGoesOn
<1>10. InOrder'
  <2>1. CASE deployment' = deployment
    BY <1>1, <1>6, <2>1, OtherCall
  <2>2. CASE deployment' = new
    <3>1. target # "runner" => j = k /\ configMap # Absent
      <4>1. "configMap" \notin pass.todo /\ pass.todo # {}
        BY ConfigMapFirst DEF ApplyDeployment, At
      <4> QED  BY <1>2, <4>1 DEF History
    <3>2. configMap' # Absent => configMap' = ProxyConfig(past'[k], target')
      BY <1>1, <1>2, <3>1 DEF History, PodInv, Shapes
    <3>3. \A p \in pods' : \E a, b \in 1 .. k : a <= b /\ PodOf(p, past'[a], past'[b], target')
      <4>1. 1 .. j \subseteq 1 .. k
        BY <1>2
      <4> QED  BY <1>1, <1>2, <4>1 DEF History
    <3>4. target' # "runner" /\ pass'.todo # {} /\ "configMap" \notin pass'.todo => k = k /\ configMap' # Absent
      BY <1>1, <3>1
    <3>5. pass'.spec = past'[k]
      BY <1>1, <1>3, <1>6 DEF PassGoesOn
    <3>6. MadeFrom(deployment', past'[k], target')
      BY <1>1, <1>5, <2>2
    <3>7. History(k, k, k)'
      BY <3>2, <3>3, <3>4, <3>5, <3>6 DEF History
    <3> QED  BY <1>1, <3>7 DEF InOrder
  <2> QED  BY <1>8, <2>1, <2>2
<1> QED  BY <1>7, <1>9, <1>10 DEF PodInv

LEMMA HPAStep == PodInv /\ ApplyHPA => PodInv'
<1> SUFFICES ASSUME PodInv, ApplyHPA PROVE PodInv'
  OBVIOUS
<1>1. UNCHANGED <<target, minor, past, configMap, deployment, service, pods>>
  BY DEF ApplyHPA
<1>2. pass.spec \in Specs
  BY DEF PodInv, Constant, InOrder, History
<1>3. /\ hpa' = HPAOf(pass.spec, target, minor) \/ hpa' = hpa
      /\ Answered("hpa") \/ (pass' = Ended(pass) /\ UNCHANGED faults)
  BY DEF ApplyHPA
<1>4. PassGoesOn /\ faults' \in 0 .. MaxFaults
  BY <1>3, AnsweredGoesOn, EndedGoesOn DEF PodInv, Constant
<1>5. Constant' /\ Selected'
  BY <1>1, <1>4 DEF PodInv, Constant, Selected
<1>6. Shapes'
  BY <1>1, <1>2, <1>3, <1>4 DEF PodInv, Shapes, PassGoesOn
<1>7. InOrder'
  BY <1>1, <1>4, OtherCall
<1> QED  BY <1>5, <1>6, <1>7 DEF PodInv

LEMMA ServiceStep == PodInv /\ ApplyService => PodInv'
<1> SUFFICES ASSUME PodInv, ApplyService PROVE PodInv'
  OBVIOUS
<1>1. /\ UNCHANGED <<target, minor, past, configMap, deployment, hpa, pods>>
      /\ service' = ServiceSelector(pass.spec, target)
  BY DEF ApplyService
<1>2. PassGoesOn /\ faults' \in 0 .. MaxFaults
  BY AnsweredGoesOn DEF ApplyService
<1>3. \E n \in 1 .. Len(past) : pass.spec = past[n]
  BY DEF PodInv, InOrder, History
<1>4. Constant' /\ Selected'
  BY <1>1, <1>2, <1>3 DEF PodInv, Constant, Selected
<1>5. Shapes'
  BY <1>1, <1>2 DEF PodInv, Shapes, PassGoesOn
<1>6. InOrder'
  BY <1>1, <1>2, OtherCall
<1> QED  BY <1>4, <1>5, <1>6 DEF PodInv
-----------------------------------------------------------------------------
(* Kubernetes: a pod is made from what is there, and a proxy reads what is    *)
(* there now, which is no older.                                             *)

LEMMA PodsOnly ==
    ASSUME PodInv, UNCHANGED <<target, minor, past, pass, configMap, deployment, hpa, service, faults>>,
           target # "runner" /\ pods' # {} => configMap # Absent,
           \A i, j, k \in 1 .. Len(past) : i <= j /\ j <= k /\ History(i, j, k) =>
               \A p \in pods' : \E a, b \in 1 .. j : a <= b /\ PodOf(p, past[a], past[b], target)
    PROVE  PodInv'
<1>1. Constant' /\ Shapes' /\ Selected'
  BY DEF PodInv, Constant, Shapes, Selected
<1>2. PICK i, j, k \in 1 .. Len(past) : i <= j /\ j <= k /\ History(i, j, k)
  BY DEF PodInv, InOrder
<1>3. History(i, j, k)'
  BY <1>2 DEF History
<1> QED  BY <1>1, <1>2, <1>3 DEF PodInv, InOrder

LEMMA StartStep == PodInv /\ StartPod => PodInv'
<1> SUFFICES ASSUME PodInv, StartPod PROVE PodInv'
  OBVIOUS
<1> DEFINE new == [template |-> deployment.template, proxy |-> configMap]
<1>1. /\ UNCHANGED <<target, minor, past, pass, configMap, deployment, hpa, service, faults>>
      /\ pods' = pods \cup {new} /\ deployment # Absent
      /\ target # "runner" => configMap # Absent
  BY DEF StartPod
<1>2. ASSUME NEW i \in 1 .. Len(past), NEW j \in 1 .. Len(past), NEW k \in 1 .. Len(past),
             i <= j, j <= k, History(i, j, k)
      PROVE  PodOf(new, past[i], past[j], target)
  <2>1. MadeFrom(deployment, past[i], target)
    BY <1>1, <1>2 DEF History
  <2>2. \E o \in OptionOrders(past[i], target), a \in AccountChoices(past[i], target) :
            deployment.template = Template(past[i], target, o, a)
    BY <2>1 DEF MadeFrom
  <2>3. configMap = IF target = "runner" THEN Absent ELSE ProxyConfig(past[j], target)
    BY <1>1, <1>2 DEF History, PodInv, Shapes
  <2>4. new.template = deployment.template /\ new.proxy = configMap
    OBVIOUS
  <2> QED  BY <2>2, <2>3, <2>4 DEF PodOf
<1>3. ASSUME NEW i \in 1 .. Len(past), NEW j \in 1 .. Len(past), NEW k \in 1 .. Len(past),
             i <= j, j <= k, History(i, j, k), NEW p \in pods'
      PROVE  \E a, b \in 1 .. j : a <= b /\ PodOf(p, past[a], past[b], target)
  <2>1. CASE p \in pods
    BY <1>3, <2>1 DEF History
  <2>2. CASE p = new
    <3>1. i \in 1 .. j /\ j \in 1 .. j
      BY <1>3
    <3> QED  BY <1>2, <1>3, <2>2, <3>1
  <2> QED  BY <1>1, <1>3, <2>1, <2>2
<1> QED  BY <1>1, <1>3, PodsOnly

LEMMA StopStep == PodInv /\ StopPod => PodInv'
<1> SUFFICES ASSUME PodInv, StopPod PROVE PodInv'
  OBVIOUS
<1>1. pods' \subseteq pods
      /\ UNCHANGED <<target, minor, past, pass, configMap, deployment, hpa, service, faults>>
  BY DEF StopPod
<1>2. ASSUME NEW i \in 1 .. Len(past), NEW j \in 1 .. Len(past), NEW k \in 1 .. Len(past), History(i, j, k)
      PROVE  \A p \in pods' : \E a, b \in 1 .. j : a <= b /\ PodOf(p, past[a], past[b], target)
  BY <1>1, <1>2 DEF History
<1> QED  BY <1>1, <1>2, PodsOnly DEF PodInv, Shapes

LEMMA RestartStep == PodInv /\ RestartProxy => PodInv'
<1> SUFFICES ASSUME PodInv, RestartProxy PROVE PodInv'
  OBVIOUS
<1>1. PICK p \in pods : pods' = (pods \ {p}) \cup {[p EXCEPT !.proxy = configMap]}
  BY DEF RestartProxy
<1>2. UNCHANGED <<target, minor, past, pass, configMap, deployment, hpa, service, faults>>
      /\ target # "runner"
  BY DEF RestartProxy
<1> DEFINE new == [p EXCEPT !.proxy = configMap]
<1>3. ASSUME NEW i \in 1 .. Len(past), NEW j \in 1 .. Len(past), NEW k \in 1 .. Len(past),
             i <= j, j <= k, History(i, j, k), NEW q \in pods'
      PROVE  \E a, b \in 1 .. j : a <= b /\ PodOf(q, past[a], past[b], target)
  <2>1. CASE q \in pods
    BY <1>3, <2>1 DEF History
  <2>2. CASE q = new
    <3>1. PICK a, b \in 1 .. j : a <= b /\ PodOf(p, past[a], past[b], target)
      BY <1>3 DEF History
    <3>2. new = [template |-> p.template, proxy |-> configMap]
      BY <3>1 DEF PodOf
    <3>3. p.proxy = ProxyConfig(past[b], target)
      BY <1>2, <3>1 DEF PodOf
    <3>4. configMap # Absent => configMap = ProxyConfig(past[j], target)
      BY <1>3 DEF History
    <3>5. configMap # Absent
      BY <1>2 DEF PodInv, Shapes
    <3>6. PodOf(new, past[a], past[j], target)
      BY <1>2, <3>1, <3>2, <3>4, <3>5 DEF PodOf
    <3> QED  BY <1>3, <2>2, <3>1, <3>6
  <2> QED  BY <1>1, <1>3, <2>1, <2>2
<1> QED  BY <1>2, <1>3, PodsOnly DEF PodInv, Shapes
LEMMA ScaleStep == PodInv /\ Scale => PodInv'
<1> SUFFICES ASSUME PodInv, Scale PROVE PodInv'
  OBVIOUS
<1>1. /\ UNCHANGED <<target, minor, past, pass, configMap, hpa, service, pods, faults>>
      /\ deployment # Absent /\ hpa # Absent
      /\ deployment' = [deployment EXCEPT !.replicas = hpa.min]
  BY DEF Scale
<1>2. hpa.min \in Replicas(target)
  <2>1. PICK s \in Specs : hpa = HPAOf(s, target, minor)
    BY <1>1 DEF PodInv, Shapes
  <2>2. hpa.min = Autoscaling(s, target).min
    BY <2>1 DEF HPAOf
  <2> QED  BY <2>2 DEF Replicas
<1>3. PICK i, j, k \in 1 .. Len(past) : i <= j /\ j <= k /\ History(i, j, k)
  BY DEF PodInv, InOrder
<1>4. MadeFrom(deployment', past[i], target) /\ deployment'.replicas = hpa.min
  BY <1>1, <1>3, ScaledIsMade DEF History
<1>5. Constant' /\ Selected'
  BY <1>1 DEF PodInv, Constant, Selected
<1>6. Shapes'
  BY <1>1, <1>2, <1>4 DEF PodInv, Shapes
<1>7. History(i, j, k)'
  BY <1>1, <1>3, <1>4 DEF History
<1> QED  BY <1>1, <1>3, <1>5, <1>6, <1>7 DEF PodInv, InOrder

LEMMA NextPodInv == PodInv /\ [Next]_vars => PodInv'
<1> SUFFICES ASSUME PodInv, [Next]_vars PROVE PodInv'
  OBVIOUS
<1>1. CASE Pass
  BY <1>1, ReadingStep, ConfigMapStep, DeploymentStep, HPAStep, ServiceStep DEF Pass
<1>2. CASE Kubernetes \/ RestartProxy \/ Scale
  BY <1>2, StartStep, StopStep, RestartStep, ScaleStep DEF Kubernetes
<1>3. CASE EditSpec \/ Begin \/ Fail
  BY <1>3, EditStep, BeginStep, FailStep
<1>4. CASE UNCHANGED vars
  BY <1>4 DEF vars, PodInv, Constant, Shapes, Selected, InOrder, History
<1> QED  BY <1>1, <1>2, <1>3, <1>4 DEF Next

LEMMA AlwaysPodInv == Spec => []PodInv
<1> QED  BY InitPodInv, NextPodInv, PTL DEF Spec
-----------------------------------------------------------------------------
(* What follows in every state.                                             *)

\* The types: whatever there is was made from a spec that was stored, and the replicas
\* are one, or the least that the autoscaling of a spec asks for.
THEOREM PodTypes == Spec => []TypeOK
<1>1. PodInv => TypeOK
  <2> SUFFICES ASSUME PodInv PROVE TypeOK
    OBVIOUS
  <2>1. PICK i, j, k \in 1 .. Len(past) : i <= j /\ j <= k /\ History(i, j, k)
    BY DEF PodInv, InOrder
  <2>2. \A n \in 1 .. Len(past) : past[n] \in Specs
    BY DEF PodInv, Constant
  <2>3. pass.spec \in Specs /\ configMap \in {ProxyConfig(s, target) : s \in Specs} \cup {Absent}
    BY <2>1, <2>2 DEF History
  <2>4. deployment # Absent => \E s \in Specs : Deployed(s)
    BY <2>1, <2>2, MadeIsDeployed DEF History, PodInv, Constant
  <2>5. deployment # Absent => deployment.replicas \in {1} \cup {Autoscaling(s, target).min : s \in Specs}
    BY DEF PodInv, Shapes, Replicas
  <2>6. service \in {ServiceSelector(s, target) : s \in Specs} \cup {Absent}
    BY <2>2 DEF PodInv, Selected
  <2>7. ASSUME NEW p \in pods PROVE p.proxy = Absent <=> target = "runner"
    <3>1. PICK a, b \in 1 .. j : a <= b /\ PodOf(p, past[a], past[b], target)
      BY <2>1 DEF History
    <3>2. past[b] \in Specs
      BY <2>1, <2>2
    <3> QED  BY <3>1, <3>2, DistinctAssumption DEF PodOf, PodInv, Constant
  <2> QED  BY <2>3, <2>4, <2>5, <2>6, <2>7 DEF TypeOK, PodInv, Constant, Shapes
<1> QED  BY <1>1, AlwaysPodInv, PTL

\* The sidecars' ports are four different ones.
LEMMA SidecarPorts ==
    ASSUME NEW s, NEW t
    PROVE  /\ DOMAIN Sidecars(s, t) \subseteq {"metrics", "proxy", "monitor", "probe"}
           /\ \A x \in DOMAIN Sidecars(s, t) :
                 Sidecars(s, t)[x] = IF x = "metrics" THEN 3003 ELSE IF x = "proxy" THEN 3004
                                     ELSE IF x = "monitor" THEN 3002 ELSE 3005
<1> DEFINE probes  == IF HasExporter(s, t) THEN [monitor |-> 3002, probe |-> 3005] ELSE <<>>
           proxies == IF t # "runner" THEN [proxy |-> 3004] ELSE <<>>
           metrics == [metrics |-> 3003]
           inner   == Over(proxies, metrics)
<1>1. Sidecars(s, t) = Over(probes, inner)
  BY DEF Sidecars, ProbePort, ProxyPort, MetricsPort, MonitorPort, ServicePort
<1>2. /\ DOMAIN probes \subseteq {"monitor", "probe"}
      /\ \A x \in DOMAIN probes : probes[x] = IF x = "monitor" THEN 3002 ELSE 3005
  <2>1. CASE HasExporter(s, t)
    BY <2>1
  <2>2. CASE ~HasExporter(s, t)
    BY <2>2
  <2> QED  BY <2>1, <2>2
<1>3. /\ DOMAIN proxies \subseteq {"proxy"}
      /\ \A x \in DOMAIN proxies : proxies[x] = 3004
  <2>1. CASE t # "runner"
    BY <2>1
  <2>2. CASE t = "runner"
    BY <2>2
  <2> QED  BY <2>1, <2>2
<1>4. /\ DOMAIN metrics = {"metrics"}
      /\ metrics["metrics"] = 3003
  OBVIOUS
<1> HIDE DEF probes, proxies, metrics
<1>5. /\ DOMAIN inner \subseteq {"metrics", "proxy"}
      /\ \A x \in DOMAIN inner : inner[x] = IF x = "metrics" THEN 3003 ELSE 3004
  BY <1>3, <1>4 DEF Over
<1> HIDE DEF inner
<1> QED  BY <1>1, <1>2, <1>5 DEF Over

\* Only with an exporter there is a port for it.
LEMMA MonitorHasExporter ==
    ASSUME NEW s, NEW t, "monitor" \in DOMAIN Ports(s, t)
    PROVE  HasExporter(s, t) /\ Ports(s, t).monitor = MonitorPort
<1> DEFINE probes  == IF HasExporter(s, t) THEN [monitor |-> MonitorPort, probe |-> ProbePort] ELSE <<>>
           proxies == IF t # "runner" THEN [proxy |-> ProxyPort] ELSE <<>>
           metrics == [metrics |-> MetricsPort]
           main    == [main |-> ContainerPort(s, t)]
           inner   == Over(proxies, metrics)
<1>1. Ports(s, t) = Over(main, Over(probes, inner))
  BY DEF Ports, Sidecars
<1>2. "monitor" \notin DOMAIN main /\ "monitor" \notin DOMAIN proxies /\ "monitor" \notin DOMAIN metrics
  <2>1. "monitor" \notin DOMAIN proxies
    <3>1. CASE t # "runner"
      BY <3>1
    <3>2. CASE t = "runner"
      BY <3>2
    <3> QED  BY <3>1, <3>2
  <2> QED  BY <2>1
<1>3. "monitor" \in DOMAIN probes => HasExporter(s, t) /\ probes["monitor"] = MonitorPort
  BY DEF probes
<1> HIDE DEF main, probes, proxies, metrics
<1>4. "monitor" \notin DOMAIN inner
  BY <1>2 DEF Over
<1> HIDE DEF inner
<1>5. "monitor" \in DOMAIN probes
  BY <1>1, <1>2, <1>4 DEF Over
<1>6. Ports(s, t)["monitor"] = probes["monitor"]
  BY <1>1, <1>2, <1>5 DEF Over
<1> QED  BY <1>3, <1>5, <1>6

LEMMA PortsApart ==
    ASSUME NEW s, NEW t
    PROVE  IsInjective(Ports(s, t)) \/ Ports(s, t).main \in MonitorPort .. ProbePort
<1> DEFINE n    == ContainerPort(s, t)
           main == [main |-> n]
           side == Sidecars(s, t)
<1>1. Ports(s, t) = Over(main, side)
  BY DEF Ports
<1>2. DOMAIN main = {"main"} /\ main["main"] = n
  OBVIOUS
<1>3. /\ DOMAIN side \subseteq {"metrics", "proxy", "monitor", "probe"}
      /\ \A x \in DOMAIN side : side[x] = IF x = "metrics" THEN 3003 ELSE IF x = "proxy" THEN 3004
                                          ELSE IF x = "monitor" THEN 3002 ELSE 3005
  BY SidecarPorts
<1>4. MonitorPort .. ProbePort = {3002, 3003, 3004, 3005}
  BY DEF ProbePort, ProxyPort, MetricsPort, MonitorPort, ServicePort
<1> HIDE DEF n, main, side
<1>5. /\ DOMAIN Ports(s, t) = {"main"} \cup DOMAIN side
      /\ Ports(s, t)["main"] = n
      /\ \A x \in DOMAIN side : Ports(s, t)[x] = side[x]
  BY <1>1, <1>2, <1>3 DEF Over
<1>6. CASE n \notin {3002, 3003, 3004, 3005}
  BY <1>3, <1>5, <1>6 DEF IsInjective
<1>7. CASE n \in {3002, 3003, 3004, 3005}
  BY <1>4, <1>5, <1>7
<1> QED  BY <1>6, <1>7

\* No two containers listen on one port but on the user's choice of a sidecar's.
THEOREM PortsAreDistinct == Spec => []PortsDistinct
<1>1. PodInv => PortsDistinct
  <2> SUFFICES ASSUME PodInv, deployment # Absent
               PROVE  IsInjective(deployment.template.ports)
                        \/ deployment.template.ports.main \in MonitorPort .. ProbePort
    BY DEF PortsDistinct
  <2>1. PICK s : MadeFrom(deployment, s, target)
    BY DEF PodInv, InOrder, History
  <2>2. PICK o, a : deployment.template = Template(s, target, o, a)
    BY <2>1 DEF MadeFrom
  <2>3. deployment.template.ports = Ports(s, target)
    BY <2>2 DEF Template
  <2> QED  BY <2>3, PortsApart
<1> QED  BY <1>1, AlwaysPodInv, PTL
\* A pod of an old spec has a proxy of that spec or a later one.  If the Deployment is
\* of the current spec the old one has its port, and the proxy's then is that too, or
\* a port that was given in between and is gone.
THEOREM ProxiesAlwaysAgree == Spec => []ProxiesAgree
<1>1. PodInv => ProxiesAgree
  <2> SUFFICES ASSUME PodInv, target # "runner", Deployed(spec), \A p \in pods : Current(p), ~PortUndone,
                      NEW p \in pods
               PROVE  p.proxy.port = p.template.ports.main
    BY DEF ProxiesAgree
  <2>1. PICK i, j, k \in 1 .. Len(past) : i <= j /\ j <= k /\ History(i, j, k)
    BY DEF PodInv, InOrder
  <2>2. PICK a, b \in 1 .. j : a <= b /\ PodOf(p, past[a], past[b], target)
    BY <2>1 DEF History
  <2> DEFINE n == Len(past)
             Port(x) == ContainerPort(past[x], target)
  <2>3. n \in Nat /\ a \in 1 .. n /\ b \in 1 .. n /\ n \in 1 .. n
    BY <2>1 DEF PodInv, Constant
  <2>4. spec = past[n] /\ past[n] \in Specs
    BY <2>3 DEF spec, Last, PodInv, Constant
  <2>5. p.template.ports.main = Port(a)
    <3>1. PICK o, acc : p.template = Template(past[a], target, o, acc)
      BY <2>2 DEF PodOf
    <3> QED  BY <3>1 DEF Template, Ports, Over
  <2>6. p.template.ports.main = Port(n)
    <3>1. MadeFrom(deployment, past[i], target)
      BY <2>1 DEF History, Deployed
    <3>2. PICK o, acc : deployment.template = Template(past[n], target, o, acc)
      BY <2>4, <3>1, DeployedIsMade DEF PodInv, Constant
    <3>3. p.template = deployment.template
      BY DEF Current
    <3> QED  BY <3>2, <3>3 DEF Template, Ports, Over
  <2>7. p.proxy.port = Port(b)
    BY <2>2 DEF PodOf, ProxyConfig
  <2>8. Port(b) = Port(n)
    <3>1. CASE a = b \/ b = n
      BY <2>5, <2>6, <3>1
    <3>2. CASE a < b /\ b < n
      BY <2>3, <2>5, <2>6, <3>2 DEF PortUndone
    <3> QED  BY <2>2, <2>3, <3>1, <3>2
  <2> QED  BY <2>6, <2>7, <2>8
<1> QED  BY <1>1, AlwaysPodInv, PTL
-----------------------------------------------------------------------------
(* That a Service keeps a pod, as far as its labels stay.                    *)

\* Where the extra labels leave what the Service selects by alone, and no runner claims
\* another version, a pod has the label of all that is made for the target, or the one
\* that its Deployment selects by.
LEMMA PodLabelAt ==
    ASSUME NEW s, NEW t, NEW k \in DOMAIN ServiceSelector(s, t),
           DOMAIN Inherited(s, t).labels \cap DOMAIN ServiceSelector(s, t) = {}, Mislabelled(s, t) = {}
    PROVE  /\ k \in DOMAIN PodLabels(s, t)
           /\ PodLabels(s, t)[k] = IF k = "selector" THEN t ELSE TargetLabels(s, t)[k]
<1> DEFINE extra == Inherited(s, t).labels
           own   == [selector |-> t]
           all   == OwnLabels(s, t)
           inner == Over(own, all)
<1>1. k \in DOMAIN all /\ all[k] = TargetLabels(s, t)[k]
  <2>1. k \in DOMAIN TargetLabels(s, t)
    BY DEF ServiceSelector
  <2>2. k \in DOMAIN all
    BY <2>1 DEF OwnLabels, Over
  <2> QED  BY <2>1, <2>2 DEF Mislabelled
<1>2. k \notin DOMAIN extra
  OBVIOUS
<1>3. DOMAIN own = {"selector"} /\ own["selector"] = t
  OBVIOUS
<1>4. PodLabels(s, t) = Over(extra, inner)
  BY DEF PodLabels
<1> HIDE DEF extra, own, all
<1>5. k \in DOMAIN inner /\ inner[k] = IF k = "selector" THEN t ELSE all[k]
  BY <1>1, <1>3 DEF Over
<1> HIDE DEF inner
<1>6. k \in DOMAIN PodLabels(s, t) /\ PodLabels(s, t)[k] = IF k = "selector" THEN t ELSE all[k]
  BY <1>2, <1>4, <1>5 DEF Over
<1> QED  BY <1>1, <1>6

\* Then a Service that selects the pods of one spec selects those of any other.
LEMMA AgreesStays ==
    ASSUME NEW s, NEW r, NEW t, TargetLabels(s, t) = TargetLabels(r, t),
           DOMAIN Inherited(s, t).labels \cap DOMAIN ServiceSelector(s, t) = {},
           DOMAIN Inherited(r, t).labels \cap DOMAIN ServiceSelector(r, t) = {},
           Mislabelled(s, t) = {}, Mislabelled(r, t) = {},
           Agrees(ServiceSelector(s, t), PodLabels(s, t))
    PROVE  /\ ServiceSelector(r, t) = ServiceSelector(s, t)
           /\ Agrees(ServiceSelector(s, t), PodLabels(r, t))
<1>1. ServiceSelector(r, t) = ServiceSelector(s, t)
  BY DEF ServiceSelector
<1>2. ASSUME NEW k \in DOMAIN ServiceSelector(s, t)
      PROVE  k \in DOMAIN PodLabels(r, t) /\ PodLabels(r, t)[k] = ServiceSelector(s, t)[k]
  <2>1. k \in DOMAIN PodLabels(r, t) /\ PodLabels(r, t)[k] = IF k = "selector" THEN t ELSE TargetLabels(r, t)[k]
    BY <1>1, <1>2, PodLabelAt
  <2>2. PodLabels(s, t)[k] = IF k = "selector" THEN t ELSE TargetLabels(s, t)[k]
    BY <1>2, PodLabelAt
  <2>3. PodLabels(s, t)[k] = ServiceSelector(s, t)[k]
    BY <1>2 DEF Agrees
  <2> QED  BY <2>1, <2>2, <2>3
<1> QED  BY <1>1, <1>2 DEF Agrees

\* Of the strategies only the two that the property names stop a pod before its
\* successor is there.
LEMMA StrategyKeeps ==
    ASSUME NEW s, MadeFrom(deployment, s, target),
           OwnField(s, target, "strategy", Unset) \notin {"Recreate", "BestEffortControlledRollout"}
    PROVE  BesideOld
<1> DEFINE st == Strategy(s, target)
<1>1. deployment.strategy = st
  BY DEF MadeFrom
<1>2. st = RollingUpdate(Pods(1), Pods(0)) \/ st = RollingUpdate(Percent(25), Percent(25))
  BY DEF Strategy
<1>3. RoundedUp(Pods(1)) = 1 /\ RoundedUp(Percent(25)) = 1
  BY DEF RoundedUp, Pods, Percent
<1>4. /\ RollingUpdate(Pods(1), Pods(0)).type = "RollingUpdate"
      /\ RollingUpdate(Pods(1), Pods(0)).surge = Pods(1)
      /\ RollingUpdate(Percent(25), Percent(25)).type = "RollingUpdate"
      /\ RollingUpdate(Percent(25), Percent(25)).surge = Percent(25)
  BY DEF RollingUpdate
<1> HIDE DEF st
<1> QED  BY <1>1, <1>2, <1>3, <1>4 DEF BesideOld

\* While the labels stay, the Service is of every spec that was stored, and selects the
\* pods of each if it selects any.
LEMMA BackedByAll ==
    ASSUME PodInv, Backed, ~Relabelled
    PROVE  \A n \in 1 .. Len(past) :
              service = ServiceSelector(past[n], target) /\ Agrees(service, PodLabels(past[n], target))
<1>1. PICK p \in pods : Agrees(service, p.template.labels)
  BY DEF Backed
<1>2. PICK m \in 1 .. Len(past) : service = ServiceSelector(past[m], target)
  BY DEF PodInv, Selected, Backed
<1>3. PICK i, j, k \in 1 .. Len(past) : i <= j /\ j <= k /\ History(i, j, k)
  BY DEF PodInv, InOrder
<1>4. PICK a, b \in 1 .. j : PodOf(p, past[a], past[b], target)
  BY <1>3 DEF History
<1>5. a \in 1 .. Len(past)
  BY <1>3 DEF PodInv, Constant
<1>6. p.template.labels = PodLabels(past[a], target)
  BY <1>4 DEF PodOf, Template
<1>7. \A x, y \in 1 .. Len(past) : TargetLabels(past[x], target) = TargetLabels(past[y], target)
  BY DEF Relabelled
<1>8. \A x \in 1 .. Len(past) :
          /\ DOMAIN Inherited(past[x], target).labels \cap DOMAIN ServiceSelector(past[x], target) = {}
          /\ Mislabelled(past[x], target) = {}
  BY DEF Relabelled
<1>9. service = ServiceSelector(past[a], target)
  BY <1>2, <1>5, <1>7 DEF ServiceSelector
<1>10. Agrees(ServiceSelector(past[a], target), PodLabels(past[a], target))
  BY <1>1, <1>6, <1>9
<1> QED  BY <1>5, <1>7, <1>8, <1>9, <1>10, AgreesStays

Excepted ==
    \E i \in 1 .. Len(past) :
        OwnField(past[i], target, "strategy", Unset) \in {"Recreate", "BestEffortControlledRollout"}

LEMMA ServesStep ==
    ASSUME PodInv, [Next]_vars, Backed, ~Relabelled', ~Excepted
    PROVE  Backed'
<1>1. PICK p \in pods : service # Absent /\ Agrees(service, p.template.labels)
  BY DEF Backed
<1>2. past \in Seq(Specs) /\ Len(past) \in Nat /\ \A n \in 1 .. Len(past) : past[n] \in Specs
  BY DEF PodInv, Constant
<1>3. PICK i, j, k \in 1 .. Len(past) : i <= j /\ j <= k /\ History(i, j, k)
  BY DEF PodInv, InOrder
<1>4. CASE UNCHANGED <<service, pods>>
  BY <1>1, <1>4 DEF Backed
<1>5. CASE UNCHANGED <<target, past>>
  <2>1. ~Relabelled
    BY <1>5 DEF Relabelled
  <2>2. \A n \in 1 .. Len(past) :
            service = ServiceSelector(past[n], target) /\ Agrees(service, PodLabels(past[n], target))
    BY <2>1, BackedByAll
  <2>3. CASE ApplyService
    <3>1. service' = ServiceSelector(past[k], target) /\ pods' = pods
      BY <1>3, <2>3 DEF ApplyService, History
    <3>2. service' = service
      BY <2>2, <3>1
    <3> QED  BY <1>1, <3>1, <3>2 DEF Backed
  <2>4. CASE StartPod
    <3>1. service' = service /\ p \in pods'
      BY <2>4 DEF StartPod
    <3> QED  BY <1>1, <3>1 DEF Backed
  <2>5. CASE StopPod
    <3>1. PICK q \in pods : /\ ~Current(q) /\ pods' = pods \ {q}
                            /\ BesideOld => \E r \in pods : Current(r)
      BY <2>5 DEF StopPod
    <3>2. MadeFrom(deployment, past[i], target)
      BY <1>3, <2>5 DEF StopPod, History
    <3>3. BesideOld
      BY <3>2, StrategyKeeps DEF Excepted
    <3>4. PICK r \in pods : Current(r)
      BY <3>1, <3>3
    <3>5. r \in pods' /\ service' = service
      BY <2>5, <3>1, <3>4 DEF StopPod
    <3>6. r.template.labels = PodLabels(past[i], target)
      <4>1. r.template = deployment.template
        BY <3>4 DEF Current
      <4>2. PICK o, a : deployment.template = Template(past[i], target, o, a)
        BY <3>2 DEF MadeFrom
      <4> QED  BY <4>1, <4>2 DEF Template
    <3> QED  BY <1>1, <2>2, <3>5, <3>6 DEF Backed
  <2>6. CASE RestartProxy
    <3>1. PICK q \in pods : pods' = (pods \ {q}) \cup {[q EXCEPT !.proxy = configMap]}
      BY <2>6 DEF RestartProxy
    <3>2. service' = service
      BY <2>6 DEF RestartProxy
    <3>3. CASE p # q
      BY <1>1, <3>1, <3>2, <3>3 DEF Backed
    <3>4. CASE p = q
      <4>1. p = [template |-> p.template, proxy |-> p.proxy]
        BY <1>3 DEF History, PodOf
      <4>2. [p EXCEPT !.proxy = configMap].template = p.template
        BY <4>1
      <4>3. [p EXCEPT !.proxy = configMap] \in pods'
        BY <3>1, <3>4
      <4> QED  BY <1>1, <3>2, <4>2, <4>3 DEF Backed
    <3> QED  BY <3>3, <3>4
  <2> QED  BY <1>4, <2>3, <2>4, <2>5, <2>6
             DEF Next, Pass, Kubernetes, vars, Begin, Fail, AskYatai, ApplyConfigMap, ListAccounts,
                 ApplyDeployment, ApplyHPA, Scale, EditSpec
<1>6. UNCHANGED <<service, pods>> \/ UNCHANGED <<target, past>>
  BY DEF Next, Pass, Kubernetes, vars, EditSpec, Begin, Fail, AskYatai, ApplyConfigMap, ListAccounts,
         ApplyDeployment, ApplyHPA, ApplyService, StartPod, StopPod, RestartProxy, Scale
<1> QED  BY <1>4, <1>5, <1>6

\* A Service that has a pod keeps one through every roll-out, failure and edit, but for
\* the strategies and edits that the property names.
THEOREM ServiceNeverEmpty == Spec => ServesThroughout
<1>1. PodInv /\ [Next]_vars =>
          [Backed => \/ Backed' \/ Relabelled'
                     \/ \E i \in 1 .. Len(past) : OwnField(past[i], target, "strategy", Unset)
                                             \in {"Recreate", "BestEffortControlledRollout"}]_vars
  BY ServesStep DEF Excepted
<1> QED  BY <1>1, AlwaysPodInv, PTL DEF Spec, ServesThroughout
-----------------------------------------------------------------------------
(* The environment of the main container.                                    *)

\* Each variable that the user gives is there once, with its first value.
LEMMA UserEnvsFacts ==
    ASSUME NEW s, NEW t, NEW given, given = OwnField(s, t, "envs", <<>>)
    PROVE  /\ \A e, f \in UserEnvs(s, t) : e.name = f.name => e = f
           /\ \A i \in 1 .. Len(given) : ~Seen(given, i) =>
                 \E e \in UserEnvs(s, t) : e.name = given[i].name /\ e.value = given[i].value
           /\ \A e \in UserEnvs(s, t) :
                 \E i \in 1 .. Len(given) : e.name = given[i].name /\ e.value = given[i].value
<1> DEFINE entry(i) == [name |-> given[i].name, value |-> given[i].value]
           first == {k \in 1 .. Len(given) : ~Seen(given, k)}
<1>1. UserEnvs(s, t) = {entry(i) : i \in first}
  BY DEF UserEnvs
<1>2. \A i \in first : entry(i).name = given[i].name /\ entry(i).value = given[i].value
  OBVIOUS
<1>3. ASSUME NEW i \in first, NEW k \in first, given[i].name = given[k].name PROVE i = k
  <2>1. CASE i < k
    BY <1>3, <2>1 DEF Seen
  <2>2. CASE k < i
    BY <1>3, <2>2 DEF Seen
  <2> QED  BY <2>1, <2>2
<1>4. ASSUME NEW e \in UserEnvs(s, t), NEW f \in UserEnvs(s, t), e.name = f.name PROVE e = f
  <2>1. PICK i \in first : e = entry(i)
    BY <1>1
  <2>2. PICK k \in first : f = entry(k)
    BY <1>1
  <2>3. i = k
    BY <1>2, <1>3, <1>4, <2>1, <2>2
  <2> QED  BY <2>1, <2>2, <2>3
<1>5. ASSUME NEW i \in 1 .. Len(given), ~Seen(given, i)
      PROVE  \E e \in UserEnvs(s, t) : e.name = given[i].name /\ e.value = given[i].value
  <2>1. i \in first /\ entry(i) \in UserEnvs(s, t)
    BY <1>1, <1>5
  <2> QED  BY <1>2, <2>1
<1>6. ASSUME NEW e \in UserEnvs(s, t)
      PROVE  \E i \in 1 .. Len(given) : e.name = given[i].name /\ e.value = given[i].value
  <2>1. PICK i \in first : e = entry(i)
    BY <1>1
  <2> QED  BY <1>2, <2>1
<1> QED  BY <1>4, <1>5, <1>6

LEMMA DefaultEnvsFacts ==
    ASSUME NEW s, NEW t
    PROVE  /\ \A e, f \in DefaultEnvs(s, t) : e.name = f.name => e = f
           /\ \A e \in DefaultEnvs(s, t) : e.name # "OPTIONS"
BY DEF DefaultEnvs

\* The exporter's address is among the options, unless they are about monitoring, and
\* nothing else is lost.
LEMMA AddMonitoringFacts ==
    ASSUME NEW envs, \A e, f \in envs : e.name = f.name => e = f
    PROVE  /\ \A e, f \in AddMonitoring(envs) : e.name = f.name => e = f
           /\ \A e \in envs : \E f \in AddMonitoring(envs) :
                 /\ f.name = e.name
                 /\ IF e.name = "OPTIONS" THEN e.value \subseteq f.value ELSE f.value = e.value
           /\ Endpoint \in OptionLines(AddMonitoring(envs)) \/ HasMonitoring(OptionLines(envs))
<1> DEFINE rest    == {e \in envs : e.name # "OPTIONS"}
           options == [name |-> "OPTIONS", value |-> OptionLines(envs) \cup {Endpoint}]
<1>1. CASE HasMonitoring(OptionLines(envs))
  BY <1>1 DEF AddMonitoring
<1>2. CASE ~HasMonitoring(OptionLines(envs))
  <2>1. AddMonitoring(envs) = rest \cup {options}
    BY <1>2 DEF AddMonitoring
  <2>2. options.name = "OPTIONS" /\ options.value = OptionLines(envs) \cup {Endpoint}
    OBVIOUS
  <2> HIDE DEF options
  <2>3. \A e, f \in AddMonitoring(envs) : e.name = f.name => e = f
    BY <2>1, <2>2
  <2>4. ASSUME NEW e \in envs
        PROVE  \E f \in AddMonitoring(envs) :
                  /\ f.name = e.name
                  /\ IF e.name = "OPTIONS" THEN e.value \subseteq f.value ELSE f.value = e.value
    <3>1. CASE e.name # "OPTIONS"
      BY <2>1, <3>1
    <3>2. CASE e.name = "OPTIONS"
      <4>1. e.value \subseteq OptionLines(envs)
        BY <3>2 DEF OptionLines
      <4>2. options \in AddMonitoring(envs)
        BY <2>1
      <4> QED  BY <2>2, <3>2, <4>1, <4>2
    <3> QED  BY <3>1, <3>2
  <2>5. Endpoint \in OptionLines(AddMonitoring(envs))
    <3>1. options \in {x \in AddMonitoring(envs) : x.name = "OPTIONS"} /\ Endpoint \in options.value
      BY <2>1, <2>2
    <3> QED  BY <3>1 DEF OptionLines
  <2> QED  BY <2>3, <2>4, <2>5
<1> QED  BY <1>1, <1>2

\* The main container has every variable once, the first value that the user gives of it,
\* all of the user's own options, and the address of the exporter.
THEOREM EnvironmentAlwaysRight == Spec => []EnvironmentRight
<1>1. PodInv => EnvironmentRight
  <2> SUFFICES ASSUME PodInv, Deployed(spec) PROVE EnvironmentRight
    BY DEF EnvironmentRight
  <2> DEFINE given   == OwnField(spec, target, "envs", <<>>)
             user    == UserEnvs(spec, target)
             default == DefaultEnvs(spec, target)
             joined  == user \cup {e \in default : ~NameIn(user, e.name)}
             envs    == deployment.template.envs
             ports   == deployment.template.ports
  <2>1. PICK o, a : deployment.template = Template(spec, target, o, a)
    <3>1. spec \in Specs /\ target \in Targets
      BY DEF PodInv, Constant, spec, Last
    <3>2. PICK q : MadeFrom(deployment, q, target)
      BY DEF PodInv, InOrder, History, Deployed
    <3> QED  BY <3>1, <3>2, DeployedIsMade
  <2>2. envs = IF HasExporter(spec, target) THEN AddMonitoring(joined) ELSE joined
    BY <2>1 DEF Template, Envs
  <2>3. ports = Ports(spec, target)
    BY <2>1 DEF Template
  <2>4. /\ \A e, f \in user : e.name = f.name => e = f
        /\ \A i \in 1 .. Len(given) : ~Seen(given, i) =>
              \E e \in user : e.name = given[i].name /\ e.value = given[i].value
        /\ \A e \in user : \E i \in 1 .. Len(given) : e.name = given[i].name /\ e.value = given[i].value
    BY UserEnvsFacts
  <2>5. /\ \A e, f \in default : e.name = f.name => e = f
        /\ \A e \in default : e.name # "OPTIONS"
    BY DefaultEnvsFacts
  <2> HIDE DEF given, user, default, envs, ports
  <2>6. \A e, f \in joined : e.name = f.name => e = f
    <3>1. \A e \in joined : e \in user \/ (e \in default /\ ~NameIn(user, e.name))
      OBVIOUS
    <3> HIDE DEF joined
    <3>2. \A e, f \in user : e.name = f.name => e = f
      BY <2>4
    <3>3. \A e, f \in default : e.name = f.name => e = f
      BY <2>5
    <3> QED  BY <3>1, <3>2, <3>3 DEF NameIn
  <2>7. \A e, f \in envs : e.name = f.name => e = f
    <3> HIDE DEF joined
    <3> QED  BY <2>2, <2>6, AddMonitoringFacts
  <2>8. ASSUME NEW i \in 1 .. Len(given), ~Seen(given, i)
        PROVE  \E e \in envs :
                  /\ e.name = given[i].name
                  /\ IF given[i].name = "OPTIONS" THEN given[i].value \subseteq e.value ELSE given[i].value = e.value
    <3>1. PICK e \in user : e.name = given[i].name /\ e.value = given[i].value
      BY <2>4, <2>8
    <3>2. e \in joined
      OBVIOUS
    <3> HIDE DEF joined
    <3>3. CASE HasExporter(spec, target)
      BY <2>2, <2>6, <3>1, <3>2, <3>3, AddMonitoringFacts
    <3>4. CASE ~HasExporter(spec, target)
      BY <2>2, <3>1, <3>2, <3>4
    <3> QED  BY <3>3, <3>4
  <2>9. ASSUME "monitor" \in DOMAIN ports
        PROVE  \/ <<"monitoring", ports.monitor>> \in OptionLines(envs)
               \/ \E i \in 1 .. Len(given) : given[i].name = "OPTIONS" /\ HasMonitoring(given[i].value)
    <3>1. HasExporter(spec, target) /\ ports.monitor = MonitorPort
      BY <2>3, <2>9, MonitorHasExporter
    <3>2. CASE Endpoint \in OptionLines(envs)
      BY <3>1, <3>2 DEF Endpoint
    <3>3. CASE HasMonitoring(OptionLines(joined))
      <4>1. PICK e \in joined : e.name = "OPTIONS" /\ \E line \in e.value : line[1] = "monitoring"
        BY <3>3 DEF HasMonitoring, OptionLines
      <4>2. e \in user
        BY <2>5, <4>1
      <4>3. PICK i \in 1 .. Len(given) : e.name = given[i].name /\ e.value = given[i].value
        BY <2>4, <4>2
      <4> QED  BY <4>1, <4>3 DEF HasMonitoring
    <3>4. Endpoint \in OptionLines(envs) \/ HasMonitoring(OptionLines(joined))
      <4> HIDE DEF joined
      <4> QED  BY <2>2, <2>6, <3>1, AddMonitoringFacts
    <3> QED  BY <3>2, <3>3, <3>4
  <2> QED  BY <2>7, <2>8, <2>9 DEF EnvironmentRight, given, envs, ports
<1> QED  BY <1>1, AlwaysPodInv, PTL
=============================================================================
