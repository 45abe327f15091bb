-------------------------- MODULE ApiConversion_proofs --------------------------
(***************************************************************************)
(* Type correctness of ApiConversion, and that what the two oldest         *)
(* versions return never gets into the store: for every set of clients,    *)
(* tags, names and specs, and every bound.                                 *)
(***************************************************************************)
EXTENDS ApiConversion, SequenceTheorems, WellFoundedInduction, TLAPS

\* What a client may hold: an object of its own, which replaces any, or one that it has
\* read, whose tag is empty unless it was read in v1alpha3.
Held(o) ==
    /\ o.tag \in Tags \cup {NoTag}
    /\ o.onto # 0 /\ o.version # "v1alpha3" => o.tag = NoTag

Shape ==
    /\ client = [c \in Clients |-> client[c]]
    /\ requests = [n \in Names |-> requests[n]]
    /\ \A c \in Clients : DOMAIN client[c] = {"pc", "object", "seen", "read"}

TypeInv ==
    /\ Shape /\ TypeOK
    /\ \A c \in Clients :
          /\ client[c].read # Nil => Held(client[c].read)
          /\ client[c].pc # "idle" => Held(client[c].object)
          /\ client[c].pc \in {"get", "update", "store"} => client[c].object.tag \in Tags

\* What the transitions need of the constants.
LEMMA TagsAndNames ==
    /\ NameOf \in [Tags -> Names] /\ NoTag \notin Tags
    /\ DOMAIN Foreign \subseteq Names /\ Range(Foreign) \subseteq Tags
    /\ Nil \notin Tags \cup Nat /\ Nil \notin {Absent, Unparsable}
    /\ MaxWrites \in Nat /\ MaxFaults \in Nat
BY ConstantsAssumption

LEMMA TypeInvInit == Init => TypeInv
BY TagsAndNames DEF Init, Idle, TypeInv, Shape, TypeOK, Range

LEMMA TypeInvStep == TypeInv /\ [Next]_vars => TypeInv'
<1> SUFFICES ASSUME TypeInv, [Next]_vars PROVE TypeInv'
  OBVIOUS
<1> USE TagsAndNames DEF TypeInv, Shape, TypeOK, Held
<1>1. CASE UNCHANGED vars BY <1>1 DEF vars
<1>2. ASSUME NEW c \in Clients, BeginWrite(c) PROVE TypeInv'
  <2>1. PICK o : Held(o) /\ client' = [client EXCEPT ![c].pc = "create", ![c].object = o]
    <3>1. CASE client[c].read # Nil /\ Send(c, client[c].read) BY <3>1 DEF Send
    <3>2. ASSUME NEW v \in OldVersions, NEW t \in Tags, NEW p \in OldParts, Send(c, Old(v, t, p, 0))
          PROVE  \E o : Held(o) /\ client' = [client EXCEPT ![c].pc = "create", ![c].object = o]
      <4>1. Held(Old(v, t, p, 0)) BY DEF Old
      <4> HIDE DEF Held
      <4> QED BY <3>2, <4>1 DEF Send
    <3> QED BY <1>2, <3>1, <3>2 DEF BeginWrite
  <2> QED BY <1>2, <2>1 DEF BeginWrite
<1>3. ASSUME NEW c \in Clients, CreateRequest(c) PROVE TypeInv'
  BY <1>3 DEF CreateRequest, Refusal, Goto, Answered, RequestName
<1>4. ASSUME NEW c \in Clients, GetRequest(c) PROVE TypeInv'
  BY <1>4 DEF GetRequest, Refusal, Goto
<1>5. ASSUME NEW c \in Clients, UpdateRequest(c) PROVE TypeInv'
  BY <1>5 DEF UpdateRequest, Refusal, Goto, Answered, RequestName
<1>6. ASSUME NEW c \in Clients, Store(c) PROVE TypeInv'
  BY <1>6 DEF Store, Refusal, Goto, Put, ConvertTo
<1>7. ASSUME NEW c \in Clients, Fail(c) PROVE TypeInv' BY <1>7 DEF Fail, Goto
<1>8. ASSUME NEW c \in Clients, Read(c) PROVE TypeInv'
  <2>1. bentos[stored.spec.bento] \in Tags BY <1>8 DEF Read
  <2>2. PICK v \in OldVersions :
           LET old == ConvertFrom(v, stored.spec, bentos[stored.spec.bento])
           IN  client' = [client EXCEPT ![c].read = Old(v, old.tag, old.parts, revision)]
    BY <1>8 DEF Read
  <2> DEFINE old == ConvertFrom(v, stored.spec, bentos[stored.spec.bento])
             new == Old(v, old.tag, old.parts, revision)
  <2>3. Held(new)
    <3>1. CASE v = "v1alpha3" BY <2>1, <3>1 DEF ConvertFrom, Old
    <3>2. CASE v # "v1alpha3" BY <3>2 DEF ConvertFrom, Nothing, Old
    <3> QED BY <3>1, <3>2
  <2> HIDE DEF new
  <2>4. client' = [client EXCEPT ![c].read = new] BY <2>2 DEF new
  <2>5. UNCHANGED <<stored, revision, requests, bentos, deleted, writes, faults>> BY <1>8 DEF Read
  <2> QED BY <2>3, <2>4, <2>5
<1>9. ASSUME NEW n \in Names, Build(n) PROVE TypeInv' BY <1>9 DEF Build
<1>10. ASSUME NEW n \in Names, DeleteRequest(n) PROVE TypeInv' BY <1>10 DEF DeleteRequest
<1>11. CASE WriteHub BY <1>11 DEF WriteHub, Put
<1> QED BY <1>1, <1>2, <1>3, <1>4, <1>5, <1>6, <1>7, <1>8, <1>9, <1>10, <1>11 DEF Next, Conversion

\* Every variable has its type, and a write that is ready to be stored names a tag.
THEOREM TypeCorrect == Spec => []TypeOK
<1>1. TypeInv => TypeOK BY DEF TypeInv
<1> QED BY <1>1, TypeInvInit, TypeInvStep, PTL DEF Spec

\* What v1alpha1 and v1alpha2 return is never stored, although their ConvertFrom loses
\* everything: its empty tag makes a BentoRequest without a name, which is refused.
THEOREM NoLossIsStored == Spec => LossesStayOut
<1>1. TypeInv /\ [Next]_vars =>
        [revision' # revision => \A c \in Clients :
            client[c].pc = "store" /\ client'[c].pc = "idle" /\ client[c].object.onto # 0 =>
               client[c].object.version = "v1alpha3"]_vars
  BY TagsAndNames DEF TypeInv, TypeOK, Held
<1> QED BY <1>1, TypeInvInit, TypeInvStep, PTL DEF Spec, LossesStayOut
-----------------------------------------------------------------------------
\* The conversion of the autoscaling, back and forth.
LEMMA LastOfOne ==
    ASSUME NEW metrics, NEW name, NEW field, Len(metrics) \in Nat, NEW i \in 1 .. Len(metrics),
           \A j \in 1 .. Len(metrics) :
               (metrics[j].name = name /\ metrics[j][field] # Nil) <=> j = i
    PROVE  LastMetric(metrics, name, field) = metrics[i]
<1> DEFINE found == {j \in 1 .. Len(metrics) : metrics[j].name = name /\ metrics[j][field] # Nil}
<1>1. found = {i} OBVIOUS
<1>2. (CHOOSE k \in found : \A j \in found : j <= k) = i BY <1>1
<1> QED BY <1>1, <1>2 DEF LastMetric

LEMMA LastOfNone ==
    ASSUME NEW metrics, NEW name, NEW field,
           \A j \in 1 .. Len(metrics) : metrics[j].name # name \/ metrics[j][field] = Nil
    PROVE  LastMetric(metrics, name, field) = NoMetric
BY DEF LastMetric

LEMMA Concatenations ==
    ASSUME NEW a, NEW b
    PROVE  /\ <<a>> \o <<b>> \o <<>> = <<a, b>> /\ <<a>> \o <<>> \o <<>> = <<a>>
           /\ <<>> \o <<b>> \o <<>> = <<b>> /\ <<>> \o <<>> \o <<>> = <<>>
           /\ <<a, b>> # <<>> /\ <<a>> # <<>> /\ <<b>> # <<>>
<1> DEFINE S == {a, b}
<1>1. <<>> \in Seq(S) /\ <<a>> \in Seq(S) /\ <<b>> \in Seq(S) /\ <<a, b>> \in Seq(S) OBVIOUS
<1> HIDE DEF S
<1>2. \A s \in Seq(S) : s \o <<>> = s /\ <<>> \o s = s BY ConcatEmptySeq
<1>3. <<a>> \o <<b>> = <<a, b>>
  <2>1. /\ <<a>> \o <<b>> \in Seq(S) /\ Len(<<a>> \o <<b>>) = 2
        /\ (<<a>> \o <<b>>)[1] = a /\ (<<a>> \o <<b>>)[2] = b
    BY <1>1, ConcatProperties
  <2>2. \A i \in 1 .. 2 : (<<a>> \o <<b>>)[i] = <<a, b>>[i] BY <2>1
  <2> QED BY <1>1, <2>1, <2>2, SeqEqual
<1>4. <<a, b>> # <<>> /\ <<a>> # <<>> /\ <<b>> # <<>> OBVIOUS
<1> QED BY <1>1, <1>2, <1>3, <1>4

\* A whole number of thousands stays what it is, and other quantities are rounded up.
LEMMA ValueOfQuantity ==
    ASSUME NEW q \in Nat
    PROVE  /\ Value(q) \in Nat /\ (Value(q) = 0 <=> q = 0)
           /\ 1000 * Value(q) \in q .. q + 999 /\ (1000 * Value(q)) % 1000 = 0
           /\ Value(1000 * q) = q
<1>1. q # Nil /\ 1000 * q # Nil BY ConstantsAssumption
<1>2. Value(q) = (q + 999) \div 1000 /\ Value(1000 * q) = (1000 * q + 999) \div 1000 BY <1>1 DEF Value
<1> QED BY <1>2

LEMMA ValueOfNothing == Value(Nil) = Nil
BY DEF Value

LEMMA WantedValue ==
    ASSUME NEW q \in Nat
    PROVE  Wanted(Value(q)) <=> q # 0
<1>1. Value(q) \in Nat /\ (Value(q) = 0 <=> q = 0) BY ValueOfQuantity
<1>2. Value(q) # Nil BY <1>1, TagsAndNames
<1> QED BY <1>1, <1>2 DEF Wanted

LEMMA LastExists ==
    ASSUME NEW n \in Nat, NEW S, S \subseteq 1 .. n, S # {}
    PROVE  \E i \in S : \A j \in S : j <= i
<1> DEFINE R == {ss \in Nat \X Nat : ss[1] < ss[2]}
           T == {n - i : i \in S}
<1>1. IsWellFoundedOn(R, Nat) BY NatLessThanWellFounded DEF OpToRel
<1>2. T \subseteq Nat /\ T # {}
  <2>1. ASSUME NEW i \in S PROVE n - i \in Nat
    <3>1. i \in 1 .. n OBVIOUS
    <3> QED BY <3>1
  <2>2. T # {} OBVIOUS
  <2> QED BY <2>1, <2>2
<1>3. \E x \in T : \A y \in T : ~ (<<y, x>> \in R)
  <2> HIDE DEF R, T
  <2> QED BY <1>1, <1>2, WFMin
<1>4. PICK x \in T : \A y \in T : ~(y < x) BY <1>2, <1>3
<1>5. PICK i \in S : x = n - i BY <1>4
<1>6. ASSUME NEW j \in S PROVE j <= i
  <2>1. ~ (n - j < n - i) BY <1>4, <1>5
  <2>2. i \in 1 .. n /\ j \in 1 .. n OBVIOUS
  <2> HIDE DEF R, T
  <2> QED BY <2>1, <2>2
<1> QED BY <1>6

\* What is looked for is found if it is there, in a list of any length.
LEMMA LastIsOne ==
    ASSUME NEW metrics \in Seq(Metrics), NEW name, NEW field
    PROVE  \/ /\ LastMetric(metrics, name, field) = NoMetric
              /\ \A j \in 1 .. Len(metrics) : metrics[j].name # name \/ metrics[j][field] = Nil
           \/ \E i \in 1 .. Len(metrics) :
                 /\ LastMetric(metrics, name, field) = metrics[i]
                 /\ metrics[i].name = name /\ metrics[i][field] # Nil
                 /\ \A j \in i + 1 .. Len(metrics) : metrics[j].name # name \/ metrics[j][field] = Nil
<1> DEFINE found == {i \in 1 .. Len(metrics) : metrics[i].name = name /\ metrics[i][field] # Nil}
<1>1. CASE found = {}
  <2>1. LastMetric(metrics, name, field) = NoMetric BY <1>1 DEF LastMetric
  <2> QED BY <1>1, <2>1
<1>2. CASE found # {}
  <2>1. LastMetric(metrics, name, field) = metrics[CHOOSE i \in found : \A j \in found : j <= i]
    BY <1>2 DEF LastMetric
  <2>2. Len(metrics) \in Nat /\ found \subseteq 1 .. Len(metrics) OBVIOUS
  <2>3. \E i \in found : \A j \in found : j <= i
    <3> HIDE DEF found
    <3> QED BY <1>2, <2>2, LastExists
  <2>4. PICK i \in found : i = (CHOOSE k \in found : \A j \in found : j <= k) /\ \A j \in found : j <= i
    <3> HIDE DEF found
    <3> QED BY <2>3
  <2>5. i \in 1 .. Len(metrics) OBVIOUS
  <2>6. \A j \in i + 1 .. Len(metrics) : j \in 1 .. Len(metrics) /\ ~(j <= i)
    <3> HIDE DEF found
    <3> QED BY <2>2, <2>5
  <2> QED BY <2>1, <2>4, <2>5, <2>6
<1> QED BY <1>1, <1>2

LEMMA OldType ==
    ASSUME NEW hpa \in NewScale
    PROVE  TransformToOldHPA(hpa) \in OldScale
<1> DEFINE last(name, field) == LastMetric(hpa.metrics, name, field)
<1>1. hpa.metrics \in Seq(Metrics) /\ hpa.min \in Nat /\ hpa.max \in Nat BY DEF NewScale
<1>2. ASSUME NEW name, NEW field PROVE last(name, field).utilization \in Count /\ last(name, field).value \in Count
  <2>1. CASE last(name, field) = NoMetric BY <2>1 DEF NoMetric, Metric, Count
  <2>2. CASE \E i \in 1 .. Len(hpa.metrics) : last(name, field) = hpa.metrics[i]
    <3>1. PICK i \in 1 .. Len(hpa.metrics) : last(name, field) = hpa.metrics[i] BY <2>2
    <3>2. hpa.metrics[i] \in Metrics BY <1>1
    <3> QED BY <3>1, <3>2 DEF Metrics
  <2> QED BY <1>1, <2>1, <2>2, LastIsOne
<1>qps. Value(last("qps", "value").value) \in Count
  <2>1. PICK q \in Count : q = last("qps", "value").value BY <1>2
  <2>2. Value(q) \in Count
    <3>1. CASE q = Nil BY <3>1, ValueOfNothing DEF Count
    <3>2. CASE q \in Nat BY <3>2, ValueOfQuantity DEF Count
    <3> QED BY <3>1, <3>2 DEF Count
  <2> QED BY <2>1, <2>2
<1>3. OldMemory(hpa.metrics) \in Count \cup {Unparsable} BY <1>2 DEF OldMemory
<1>4. hpa # Nil BY ConstantsAssumption
<1> HIDE DEF last
<1>5. TransformToOldHPA(hpa) = [min |-> hpa.min, max |-> hpa.max, qps |-> Value(last("qps", "value").value),
                                cpu |-> last("cpu", "utilization").utilization, memory |-> OldMemory(hpa.metrics)]
  BY <1>4 DEF TransformToOldHPA, DeploymentTargetHPAConf, last
<1> QED BY <1>1, <1>2, <1>3, <1>5, <1>qps DEF OldScale, Count

\* The metrics that are made from an older form.
LEMMA MadeMetrics ==
    ASSUME NEW old \in OldScale, old.memory \in Count
    PROVE  LET metrics == NewMetrics(old) IN
           /\ metrics \in Seq(Metrics)
           /\ IF ~Wanted(old.qps) /\ ~Wanted(old.cpu) /\ old.memory = Nil
              THEN metrics = <<DefaultMetric>>
              ELSE Range(metrics) = (IF Wanted(old.qps) THEN {Metric("qps", Nil, 1000 * old.qps)} ELSE {})
                              \cup (IF Wanted(old.cpu) THEN {Metric("cpu", old.cpu, Nil)} ELSE {})
                              \cup (IF old.memory # Nil THEN {Metric("memory", Nil, old.memory)} ELSE {})
<1> DEFINE metrics == NewMetrics(old)
           qps == Metric("qps", Nil, 1000 * old.qps)
           cpu == Metric("cpu", old.cpu, Nil)
           memory == Metric("memory", Nil, old.memory)
           a == IF Wanted(old.qps) THEN <<qps>> ELSE <<>>
           b == IF Wanted(old.cpu) THEN <<cpu>> ELSE <<>>
           c == IF old.memory # Nil THEN <<memory>> ELSE <<>>
           all == a \o b \o c
<1>1. metrics = IF all = <<>> THEN <<DefaultMetric>> ELSE all BY DEF NewMetrics
<1>2. /\ Wanted(old.qps) => qps \in Metrics
      /\ cpu \in Metrics /\ memory \in Metrics /\ DefaultMetric \in Metrics
  <2>1. old.cpu \in Count /\ Nil \in Count /\ 80 \in Count BY DEF OldScale, Count
  <2>2. \A name \in {"qps", "cpu", "memory"}, u \in Count, v \in Count : Metric(name, u, v) \in Metrics BY DEF Metrics, Metric
  <2>3. ASSUME Wanted(old.qps) PROVE Metric("qps", Nil, 1000 * old.qps) \in Metrics
    <3>1. old.qps \in Nat BY <2>3 DEF OldScale, Count, Wanted
    <3>2. 1000 * old.qps \in Count BY <3>1 DEF Count
    <3> QED BY <2>1, <2>2, <3>2
  <2>4. Metric("cpu", old.cpu, Nil) \in Metrics BY <2>1, <2>2
  <2>5. Metric("memory", Nil, old.memory) \in Metrics BY <2>1, <2>2
  <2>6. DefaultMetric \in Metrics BY <2>1, <2>2 DEF DefaultMetric
  <2> QED BY <2>3, <2>4, <2>5, <2>6
<1> HIDE DEF metrics, qps, cpu, memory
<1>3. a \in Seq(Metrics) /\ b \in Seq(Metrics) /\ c \in Seq(Metrics) BY <1>2
<1>4. /\ Range(a) = IF Wanted(old.qps) THEN {qps} ELSE {}
      /\ Range(b) = IF Wanted(old.cpu) THEN {cpu} ELSE {}
      /\ Range(c) = IF old.memory # Nil THEN {memory} ELSE {}
  <2>1. \A m : Range(<<m>>) = {m} BY DEF Range
  <2>2. Range(<<>>) = {} BY DEF Range
  <2> QED BY <2>1, <2>2
<1> HIDE DEF a, b, c
<1>5. a \o b \in Seq(Metrics) /\ all \in Seq(Metrics) BY <1>3, ConcatProperties
<1>6. Range(all) = Range(a) \cup Range(b) \cup Range(c)
  <2>1. Range(a \o b) = Range(a) \cup Range(b) BY <1>3, RangeConcatenation
  <2>2. Range(all) = Range(a \o b) \cup Range(c) BY <1>3, <1>5, RangeConcatenation
  <2> QED BY <2>1, <2>2
<1>7. all = <<>> <=> Range(all) = {}
  <2>1. CASE all = <<>> BY <2>1 DEF Range
  <2>2. CASE all # <<>>
    <3>1. 1 \in DOMAIN all BY <1>5, <2>2
    <3> QED BY <2>2, <3>1 DEF Range
  <2> QED BY <2>1, <2>2
<1>8. all = <<>> <=> ~Wanted(old.qps) /\ ~Wanted(old.cpu) /\ old.memory = Nil BY <1>4, <1>6, <1>7
<1>9. metrics \in Seq(Metrics)
  <2>1. <<DefaultMetric>> \in Seq(Metrics) BY <1>2
  <2> QED BY <1>1, <1>5, <2>1
<1> HIDE DEF all
<1> QED BY <1>1, <1>4, <1>6, <1>8, <1>9 DEF metrics, qps, cpu, memory

LEMMA NewType ==
    ASSUME NEW old \in OldScale \cup {Nil}, Transforms(old)
    PROVE  TransformToNewHPA(old) \in NewScale \cup {Nil}
<1>1. CASE old = Nil BY <1>1 DEF TransformToNewHPA
<1>2. CASE old # Nil
  <2>1. old \in OldScale /\ old.memory \in Count BY <1>2 DEF Transforms, OldScale
  <2>2. NewMetrics(old) \in Seq(Metrics) BY <2>1, MadeMetrics
  <2>3. OrDefault(old.min, 2) \in Nat /\ OrDefault(old.max, DefaultMax) \in Nat
    BY <2>1 DEF OrDefault, OldScale, Count, DefaultMax
  <2> QED BY <1>2, <2>2, <2>3 DEF TransformToNewHPA, NewScale
<1> QED BY <1>1, <1>2

\* What the older form keeps of metrics that were made from it.
LEMMA OldOfNewMetrics ==
    ASSUME NEW old, old.memory = Nil, old.qps \in Count
    PROVE  /\ Value(LastMetric(NewMetrics(old), "qps", "value").value) = (IF Wanted(old.qps) THEN old.qps ELSE Nil)
           /\ LastMetric(NewMetrics(old), "cpu", "utilization").utilization =
                 (IF Wanted(old.cpu) THEN old.cpu ELSE IF Wanted(old.qps) THEN Nil ELSE 80)
           /\ OldMemory(NewMetrics(old)) = Nil
<1> DEFINE metrics == NewMetrics(old)
           qps == Metric("qps", Nil, 1000 * old.qps)
           cpu == Metric("cpu", old.cpu, Nil)
<1>1. \/ Wanted(old.qps) /\ Wanted(old.cpu) /\ metrics = <<qps, cpu>>
      \/ Wanted(old.qps) /\ ~Wanted(old.cpu) /\ metrics = <<qps>>
      \/ ~Wanted(old.qps) /\ Wanted(old.cpu) /\ metrics = <<cpu>>
      \/ ~Wanted(old.qps) /\ ~Wanted(old.cpu) /\ metrics = <<DefaultMetric>>
  <2>1. CASE Wanted(old.qps) /\ Wanted(old.cpu) BY <2>1, Concatenations DEF NewMetrics
  <2>2. CASE Wanted(old.qps) /\ ~Wanted(old.cpu) BY <2>2, Concatenations DEF NewMetrics
  <2>3. CASE ~Wanted(old.qps) /\ Wanted(old.cpu) BY <2>3, Concatenations DEF NewMetrics
  <2>4. CASE ~Wanted(old.qps) /\ ~Wanted(old.cpu) BY <2>4, Concatenations DEF NewMetrics
  <2> QED BY <2>1, <2>2, <2>3, <2>4
<1>2. /\ qps.name = "qps" /\ qps.utilization = Nil /\ qps.value = 1000 * old.qps
      /\ cpu.name = "cpu" /\ cpu.utilization = old.cpu /\ cpu.value = Nil
      /\ DefaultMetric.name = "cpu" /\ DefaultMetric.utilization = 80 /\ DefaultMetric.value = Nil
      /\ NoMetric.value = Nil /\ NoMetric.utilization = Nil
  BY DEF Metric, DefaultMetric, NoMetric
<1>qps. /\ Value(Nil) = Nil
        /\ Wanted(old.qps) => 1000 * old.qps # Nil /\ Value(1000 * old.qps) = old.qps
  <2>1. ASSUME Wanted(old.qps) PROVE 1000 * old.qps # Nil /\ Value(1000 * old.qps) = old.qps
    <3>1. PICK q \in Nat : q = old.qps BY <2>1 DEF Wanted, Count
    <3>2. Value(1000 * q) = q /\ 1000 * q \in Nat BY ValueOfQuantity
    <3> QED BY <3>1, <3>2, TagsAndNames
  <2> QED BY <2>1, ValueOfNothing
<1> HIDE DEF metrics, qps, cpu
<1>3. LastMetric(metrics, "memory", "utilization") = NoMetric
  <2>1. \A j \in 1 .. Len(metrics) : metrics[j].name # "memory" BY <1>1, <1>2
  <2> QED BY <2>1, LastOfNone
<1>4. OldMemory(metrics) = Nil BY <1>2, <1>3 DEF OldMemory
<1>5. CASE Wanted(old.qps) /\ Wanted(old.cpu) /\ metrics = <<qps, cpu>>
  <2>1. LastMetric(metrics, "qps", "value") = metrics[1] BY <1>2, <1>5, <1>qps, LastOfOne
  <2>2. LastMetric(metrics, "cpu", "utilization") = metrics[2]
    <3>1. Len(metrics) = 2 /\ metrics[1] = qps /\ metrics[2] = cpu BY <1>5
    <3>2. cpu.utilization # Nil BY <1>2, <1>5 DEF Wanted
    <3>3. /\ Len(metrics) \in Nat /\ 2 \in 1 .. Len(metrics)
          /\ \A j \in 1 .. Len(metrics) : (metrics[j].name = "cpu" /\ metrics[j]["utilization"] # Nil) <=> j = 2
      BY <1>2, <3>1, <3>2
    <3> QED BY <3>3, LastOfOne
  <2> QED BY <1>2, <1>4, <1>5, <1>qps, <2>1, <2>2 DEF metrics
<1>6. CASE Wanted(old.qps) /\ ~Wanted(old.cpu) /\ metrics = <<qps>>
  <2>3. Len(metrics) = 1 /\ metrics[1] = qps BY <1>6
  <2>4. qps.value # Nil BY <1>2, <1>6, <1>qps
  <2>5. /\ Len(metrics) \in Nat /\ 1 \in 1 .. Len(metrics)
        /\ \A j \in 1 .. Len(metrics) : (metrics[j].name = "qps" /\ metrics[j]["value"] # Nil) <=> j = 1
    BY <1>2, <2>3, <2>4
  <2>1. LastMetric(metrics, "qps", "value") = metrics[1]
    BY <2>5, LastOfOne
  <2>2. LastMetric(metrics, "cpu", "utilization") = NoMetric BY <1>2, <1>6, LastOfNone
  <2> QED BY <1>2, <1>4, <1>6, <1>qps, <2>1, <2>2 DEF metrics
<1>7. CASE ~Wanted(old.qps) /\ Wanted(old.cpu) /\ metrics = <<cpu>>
  <2>1. LastMetric(metrics, "qps", "value") = NoMetric BY <1>2, <1>7, LastOfNone
  <2>3. Len(metrics) = 1 /\ metrics[1] = cpu BY <1>7
  <2>4. cpu.utilization # Nil BY <1>2, <1>7 DEF Wanted
  <2>5. /\ Len(metrics) \in Nat /\ 1 \in 1 .. Len(metrics)
        /\ \A j \in 1 .. Len(metrics) : (metrics[j].name = "cpu" /\ metrics[j]["utilization"] # Nil) <=> j = 1
    BY <1>2, <2>3, <2>4
  <2>2. LastMetric(metrics, "cpu", "utilization") = metrics[1]
    BY <2>5, LastOfOne
  <2> QED BY <1>2, <1>4, <1>7, <1>qps, <2>1, <2>2 DEF metrics
<1>8. CASE ~Wanted(old.qps) /\ ~Wanted(old.cpu) /\ metrics = <<DefaultMetric>>
  <2>1. LastMetric(metrics, "qps", "value") = NoMetric BY <1>2, <1>8, LastOfNone
  <2>2. 80 # Nil BY ConstantsAssumption
  <2>3. LastMetric(metrics, "cpu", "utilization") = metrics[1]
    <3>1. Len(metrics) = 1 /\ metrics[1] = DefaultMetric BY <1>8
    <3>2. /\ Len(metrics) \in Nat /\ 1 \in 1 .. Len(metrics)
          /\ \A j \in 1 .. Len(metrics) : (metrics[j].name = "cpu" /\ metrics[j]["utilization"] # Nil) <=> j = 1
      BY <1>2, <2>2, <3>1
    <3> QED BY <3>2, LastOfOne
  <2> QED BY <1>2, <1>4, <1>8, <1>qps, <2>1, <2>3 DEF metrics
<1> QED BY <1>1, <1>5, <1>6, <1>7, <1>8

\* Writing back what was read in v1alpha3 settles after one time, whatever the bounds and
\* however many metrics: TransformToOldHPA brings back what TransformToNewHPA has made.
\* A memory target is lost, or refused, before that.
RoundTripHPA(hpa) == TransformToNewHPA(TransformToOldHPA(hpa))
THEOREM AutoscalingSettles ==
    ASSUME NEW hpa \in NewScale \cup {Nil}, hpa # Nil => OldMemory(hpa.metrics) = Nil
    PROVE  /\ RoundTripHPA(RoundTripHPA(hpa)) = RoundTripHPA(hpa)
           /\ Transforms(TransformToOldHPA(RoundTripHPA(hpa)))
<1> DEFINE old == TransformToOldHPA(hpa)
           new == TransformToNewHPA(old)
           again == TransformToOldHPA(new)
<1>1. CASE hpa = Nil \/ new = Nil
  BY <1>1 DEF RoundTripHPA, TransformToOldHPA, TransformToNewHPA, Transforms
<1>2. CASE hpa # Nil /\ new # Nil
  <2>1. Nil \notin NewScale \cup OldScale
    BY ConstantsAssumption
  <2>2. old # Nil /\ old.memory = Nil /\ old.qps \in Count
    <3>1. old \in OldScale BY <1>2, OldType
    <3> QED BY <1>2, <2>1, <3>1 DEF OldScale, TransformToOldHPA, DeploymentTargetHPAConf
  <2>3. new = [min |-> OrDefault(old.min, 2), max |-> OrDefault(old.max, DefaultMax),
               metrics |-> NewMetrics(old)]
    BY <2>2 DEF TransformToNewHPA
  <2>4. again # Nil
    <3>1. old \in OldScale /\ Transforms(old)
      BY <1>2, <2>2, OldType, ConstantsAssumption DEF Transforms
    <3>2. new \in NewScale
      BY <1>2, <3>1, NewType
    <3> QED  BY <2>1, <3>2, OldType
  <2> HIDE DEF old, new
  <2>5. /\ again.min = new.min /\ again.max = new.max /\ again.memory = Nil
        /\ again.qps = (IF Wanted(old.qps) THEN old.qps ELSE Nil)
        /\ again.cpu = (IF Wanted(old.cpu) THEN old.cpu ELSE IF Wanted(old.qps) THEN Nil ELSE 80)
    BY <1>2, <2>2, <2>3, OldOfNewMetrics DEF TransformToOldHPA, DeploymentTargetHPAConf
  <2>6. Transforms(again)
    BY <2>5, TagsAndNames DEF Transforms
  <2> HIDE DEF again
  <2>7. NewMetrics(again) = NewMetrics(old)
    <3>1. Wanted(again.qps) <=> Wanted(old.qps) BY <2>5 DEF Wanted
    <3>2. CASE Wanted(old.cpu)
      <4>1. Wanted(again.cpu) /\ again.cpu = old.cpu BY <2>5, <3>2
      <4> QED BY <2>2, <2>5, <3>1, <3>2, <4>1 DEF NewMetrics
    <3>3. CASE ~Wanted(old.cpu) /\ Wanted(old.qps)
      <4>1. ~Wanted(again.cpu) /\ again.qps = old.qps BY <2>5, <3>3 DEF Wanted
      <4> QED BY <2>2, <2>5, <3>1, <3>3, <4>1 DEF NewMetrics
    <3>4. CASE ~Wanted(old.cpu) /\ ~Wanted(old.qps)
      <4>1. Wanted(again.cpu) /\ again.cpu = 80 BY <2>5, <3>4, ConstantsAssumption DEF Wanted
      <4>2. NewMetrics(old) = <<DefaultMetric>> BY <2>2, <3>4 DEF NewMetrics
      <4>3. NewMetrics(again) = <<Metric("cpu", again.cpu, Nil)>>
        BY <2>5, <3>1, <3>4, <4>1, Concatenations DEF NewMetrics
      <4> QED BY <4>1, <4>2, <4>3 DEF DefaultMetric
    <3> QED BY <3>2, <3>3, <3>4
  <2>8. OrDefault(new.min, 2) = new.min /\ OrDefault(new.max, DefaultMax) = new.max
    BY <2>3 DEF OrDefault
  <2>9. TransformToNewHPA(again) = new
    BY <2>3, <2>5, <2>7, <2>8, <2>4 DEF TransformToNewHPA
  <2> QED BY <2>9, <2>6 DEF RoundTripHPA, old, new, again
<1> QED BY <1>1, <1>2
-----------------------------------------------------------------------------
\* The conversion of whole specs.
LEMMA EnvsSettle ==
    ASSUME NEW envs, envs # Nil => \A some \in SUBSET envs : some # Nil
    PROVE  /\ TransformToOldEnvs(TransformToOldEnvs(envs)) = TransformToOldEnvs(envs)
           /\ envs # Nil => \A some \in SUBSET TransformToOldEnvs(envs) : some # Nil
           /\ KeepsEnvs(envs, TransformToOldEnvs(envs))
<1>1. CASE envs = Nil BY <1>1 DEF TransformToOldEnvs, KeepsEnvs
<1>2. CASE envs # Nil
  <2> DEFINE plain == {e \in envs : e.value # Nil}
  <2>1. TransformToOldEnvs(envs) = plain BY <1>2 DEF TransformToOldEnvs
  <2>2. plain \in SUBSET envs /\ plain # Nil BY <1>2
  <2>3. TransformToOldEnvs(plain) = plain BY <2>2 DEF TransformToOldEnvs
  <2>4. KeepsEnvs(envs, plain) BY <1>2, <2>2 DEF KeepsEnvs
  <2>5. \A some \in SUBSET plain : some # Nil BY <1>2, <2>2
  <2> QED BY <2>1, <2>3, <2>4, <2>5
<1> QED BY <1>1, <1>2

\* A metric is kept if it is the last one that is read of its name, and not zero.
Kept(metrics) == {i \in 1 .. Len(metrics) : ~Lost(metrics, i)}

LEMMA KeptIsLast ==
    ASSUME NEW metrics \in Seq(Metrics), NEW name \in DOMAIN LookedAt
    PROVE  LET field == LookedAt[name]
               last == LastMetric(metrics, name, field)
           IN  /\ \A i \in Kept(metrics) : metrics[i].name = name =>
                       last = metrics[i] /\ last[field] # Nil /\ (name = "memory" \/ last[field] # 0)
               /\ last # NoMetric /\ (name = "memory" \/ last[field] # 0) =>
                       \E i \in Kept(metrics) : last = metrics[i] /\ metrics[i].name = name
<1> DEFINE field == LookedAt[name]
           last == LastMetric(metrics, name, field)
<1>1. Len(metrics) \in Nat OBVIOUS
<1>2. \A i \in 1 .. Len(metrics) : metrics[i].name = name => (IsRead(metrics[i]) <=> metrics[i][field] # Nil)
  BY DEF IsRead
<1> HIDE DEF field
<1>3. CASE /\ last = NoMetric
           /\ \A j \in 1 .. Len(metrics) : metrics[j].name # name \/ metrics[j][field] = Nil
  BY <1>2, <1>3 DEF Kept, Lost, field
<1>4. CASE \E i \in 1 .. Len(metrics) :
              /\ last = metrics[i]
              /\ metrics[i].name = name /\ metrics[i][field] # Nil
              /\ \A j \in i + 1 .. Len(metrics) : metrics[j].name # name \/ metrics[j][field] = Nil
  <2>1. PICK i \in 1 .. Len(metrics) :
              /\ last = metrics[i]
              /\ metrics[i].name = name /\ metrics[i][field] # Nil
              /\ \A j \in i + 1 .. Len(metrics) : metrics[j].name # name \/ metrics[j][field] = Nil
    BY <1>4
  <2> HIDE DEF last
  <2>2. IsRead(metrics[i]) /\ \A j \in i + 1 .. Len(metrics) : ~(IsRead(metrics[j]) /\ metrics[j].name = name)
    BY <1>1, <1>2, <2>1
  <2>3. Lost(metrics, i) <=> name # "memory" /\ metrics[i][field] = 0
    BY <2>1, <2>2 DEF Lost, field
  <2>4. ASSUME NEW k \in Kept(metrics), metrics[k].name = name PROVE k = i
    <3>1. k \in 1 .. Len(metrics) /\ ~Lost(metrics, k) BY DEF Kept
    <3>2. IsRead(metrics[k]) BY <3>1 DEF Lost
    <3>3. ~(i < k) BY <1>1, <2>2, <2>4, <3>1, <3>2
    <3>4. ~(k < i)
      <4>1. k < i => i \in k + 1 .. Len(metrics) BY <1>1, <3>1
      <4> QED BY <2>1, <2>2, <2>4, <3>1, <4>1 DEF Lost
    <3> QED BY <3>1, <3>3, <3>4
  <2>5. \A k \in Kept(metrics) : metrics[k].name = name =>
            last = metrics[k] /\ last[field] # Nil /\ (name = "memory" \/ last[field] # 0)
    BY <2>1, <2>3, <2>4 DEF Kept
  <2>6. last # NoMetric /\ (name = "memory" \/ last[field] # 0) =>
            \E k \in Kept(metrics) : last = metrics[k] /\ metrics[k].name = name
    BY <2>1, <2>3 DEF Kept
  <2> QED BY <2>5, <2>6 DEF last, field
<1> QED BY <1>3, <1>4, LastIsOne

\* The numbers of the older form, for metrics that are read.
LEMMA OldNumbers ==
    ASSUME NEW metrics \in Seq(Metrics), OldMemory(metrics) # Unparsable
    PROVE  LET qps == LastMetric(metrics, "qps", "value")
               cpu == LastMetric(metrics, "cpu", "utilization")
               memory == LastMetric(metrics, "memory", "utilization")
           IN  /\ Wanted(Value(qps.value)) <=> qps # NoMetric /\ qps.value # 0
               /\ Wanted(cpu.utilization) <=> cpu # NoMetric /\ cpu.utilization # 0
               /\ OldMemory(metrics) # Nil <=> memory # NoMetric
               /\ OldMemory(metrics) = memory.value
<1> DEFINE qps == LastMetric(metrics, "qps", "value")
           cpu == LastMetric(metrics, "cpu", "utilization")
           memory == LastMetric(metrics, "memory", "utilization")
<1>1. NoMetric.value = Nil /\ NoMetric.utilization = Nil BY DEF NoMetric, Metric
<1>2. qps # NoMetric => qps.value \in Nat
  <2>1. qps # NoMetric => \E i \in 1 .. Len(metrics) : qps = metrics[i] /\ metrics[i]["value"] # Nil BY LastIsOne
  <2>2. ASSUME NEW i \in 1 .. Len(metrics) PROVE metrics[i].value \in Count
    <3>1. metrics[i] \in Metrics OBVIOUS
    <3> QED BY <3>1 DEF Metrics
  <2> QED BY <2>1, <2>2 DEF Count
<1>3. cpu # NoMetric => cpu.utilization # Nil
  <2>1. cpu # NoMetric => \E i \in 1 .. Len(metrics) : cpu = metrics[i] /\ metrics[i]["utilization"] # Nil BY LastIsOne
  <2> QED BY <2>1
<1>4. OldMemory(metrics) = memory.value /\ (memory # NoMetric => memory.value # Nil)
  BY <1>1 DEF OldMemory
<1> HIDE DEF qps, cpu, memory
<1>5. Wanted(Value(qps.value)) <=> qps # NoMetric /\ qps.value # 0
  <2>1. CASE qps = NoMetric BY <1>1, <2>1, ValueOfNothing DEF Wanted
  <2>2. CASE qps # NoMetric
    <3>1. PICK q \in Nat : q = qps.value BY <1>2, <2>2
    <3>2. Wanted(Value(q)) <=> q # 0 BY WantedValue
    <3> QED BY <2>2, <3>1, <3>2
  <2> QED BY <2>1, <2>2
<1>6. Wanted(cpu.utilization) <=> cpu # NoMetric /\ cpu.utilization # 0 BY <1>1, <1>3 DEF Wanted
<1>7. OldMemory(metrics) # Nil <=> memory # NoMetric BY <1>1, <1>4
<1> QED BY <1>4, <1>5, <1>6, <1>7 DEF qps, cpu, memory

\* Autoscaling that is read and written back.
LEMMA ScaleIsKept ==
    ASSUME NEW hpa \in NewScale \cup {Nil}, Transforms(TransformToOldHPA(hpa))
    PROVE  KeepsScale(hpa, RoundTripHPA(hpa))
<1>1. CASE hpa = Nil BY <1>1 DEF RoundTripHPA, TransformToOldHPA, TransformToNewHPA, KeepsScale
<1>2. CASE hpa # Nil
  <2> DEFINE old == TransformToOldHPA(hpa)
             new == RoundTripHPA(hpa)
             qps == LastMetric(hpa.metrics, "qps", "value")
             cpu == LastMetric(hpa.metrics, "cpu", "utilization")
             memory == LastMetric(hpa.metrics, "memory", "utilization")
             newQps == Metric("qps", Nil, 1000 * Value(qps.value))
             newCpu == Metric("cpu", cpu.utilization, Nil)
             newMemory == Metric("memory", Nil, memory.value)
             HasQps == qps # NoMetric /\ qps.value # 0
             HasCpu == cpu # NoMetric /\ cpu.utilization # 0
             HasMemory == memory # NoMetric
             kept == Kept(hpa.metrics)
  <2>1. hpa \in NewScale /\ hpa.metrics \in Seq(Metrics) /\ Len(hpa.metrics) \in Nat BY <1>2 DEF NewScale
  <2>2. old \in OldScale /\ old # Nil BY <2>1, OldType, ConstantsAssumption
  <2>3. old.memory \in Count BY <2>2 DEF Transforms, OldScale
  <2>4. /\ new.min = OrDefault(old.min, 2) /\ new.max = OrDefault(old.max, DefaultMax)
        /\ new.metrics = NewMetrics(old)
    BY <2>2 DEF RoundTripHPA, TransformToNewHPA
  <2>5. /\ old.min = hpa.min /\ old.max = hpa.max
        /\ old.qps = Value(qps.value) /\ old.cpu = cpu.utilization /\ old.memory = OldMemory(hpa.metrics)
    BY <1>2 DEF TransformToOldHPA, DeploymentTargetHPAConf
  <2>6. hpa.min \in Nat /\ hpa.max \in Nat BY <2>1 DEF NewScale
  <2>7. new.min = hpa.min /\ new.max = hpa.max BY <2>4, <2>5, <2>6, TagsAndNames DEF OrDefault
  <2>8. /\ Wanted(old.qps) <=> HasQps
        /\ Wanted(old.cpu) <=> HasCpu
        /\ old.memory # Nil <=> HasMemory
        /\ old.memory = memory.value
    <3>1. OldMemory(hpa.metrics) # Unparsable BY <2>2, <2>5 DEF Transforms
    <3> HIDE DEF old
    <3> QED BY <2>1, <2>5, <3>1, OldNumbers
  <2>9. /\ new.metrics \in Seq(Metrics)
        /\ IF ~HasQps /\ ~HasCpu /\ ~HasMemory THEN new.metrics = <<DefaultMetric>>
           ELSE Range(new.metrics) = (IF HasQps THEN {newQps} ELSE {}) \cup (IF HasCpu THEN {newCpu} ELSE {})
                                  \cup (IF HasMemory THEN {newMemory} ELSE {})
    <3> HIDE DEF old, new, HasQps, HasCpu, HasMemory, qps, cpu, memory
    <3> QED BY <2>2, <2>3, <2>4, <2>5, <2>8, MadeMetrics
  <2> HIDE DEF old, new
  <2>10. /\ DOMAIN LookedAt = {"qps", "cpu", "memory"}
         /\ LookedAt["qps"] = "value" /\ LookedAt["cpu"] = "utilization" /\ LookedAt["memory"] = "utilization"
         /\ Carried["qps"] = "value" /\ Carried["cpu"] = "utilization" /\ Carried["memory"] = "value"
    BY DEF LookedAt, Carried
  <2>11. \A i \in kept : hpa.metrics[i].name \in {"qps", "cpu", "memory"}
    BY <2>10 DEF Kept, Lost, IsRead
  <2>12. /\ HasQps <=> \E i \in kept : hpa.metrics[i].name = "qps"
         /\ \A i \in kept : hpa.metrics[i].name = "qps" => hpa.metrics[i] = qps
    <3>1. NoMetric.value = Nil BY DEF NoMetric, Metric
    <3> HIDE DEF kept
    <3> QED BY <2>1, <2>10, <3>1, KeptIsLast DEF kept
  <2>13. /\ HasCpu <=> \E i \in kept : hpa.metrics[i].name = "cpu"
         /\ \A i \in kept : hpa.metrics[i].name = "cpu" => hpa.metrics[i] = cpu
    <3>1. NoMetric.utilization = Nil BY DEF NoMetric, Metric
    <3> QED BY <2>1, <2>10, <3>1, KeptIsLast
  <2>14. /\ HasMemory <=> \E i \in kept : hpa.metrics[i].name = "memory"
         /\ \A i \in kept : hpa.metrics[i].name = "memory" => hpa.metrics[i] = memory
    <3>1. NoMetric.utilization = Nil BY DEF NoMetric, Metric
    <3> QED BY <2>1, <2>10, <3>1, KeptIsLast
  <2>15. ASSUME NEW i \in kept PROVE hpa.metrics[i] \in Metrics BY <2>1 DEF Kept
  <2>16. ASSUME NEW i \in kept, hpa.metrics[i].name = "qps" PROVE StandsFor(newQps, hpa.metrics[i])
    <3>1. hpa.metrics[i] = qps /\ qps.value # Nil BY <2>10, <2>12, <2>16 DEF Kept, Lost, IsRead
    <3>2. qps.value \in Nat BY <2>15, <3>1 DEF Metrics, Count
    <3>3. 1000 * Value(qps.value) \in qps.value .. qps.value + 999 /\ (1000 * Value(qps.value)) % 1000 = 0
      <4>1. PICK q \in Nat : q = qps.value BY <3>2
      <4>2. 1000 * Value(q) \in q .. q + 999 /\ (1000 * Value(q)) % 1000 = 0 BY ValueOfQuantity
      <4> QED BY <4>1, <4>2
    <3>4. newQps.name = "qps" /\ newQps.utilization = Nil /\ newQps.value = 1000 * Value(qps.value) BY DEF Metric
    <3>5. {"utilization", "value"} \ {"value"} = {"utilization"} OBVIOUS
    <3> HIDE DEF newQps, qps
    <3> QED BY <2>10, <2>16, <3>1, <3>3, <3>4, <3>5 DEF StandsFor
  <2>17. ASSUME NEW i \in kept, hpa.metrics[i].name = "cpu" PROVE StandsFor(newCpu, hpa.metrics[i])
    <3>1. newCpu.name = "cpu" /\ newCpu.utilization = cpu.utilization /\ newCpu.value = Nil BY DEF Metric
    <3>2. {"utilization", "value"} \ {"utilization"} = {"value"} OBVIOUS
    <3>3. hpa.metrics[i] = cpu BY <2>13, <2>17
    <3> HIDE DEF newCpu, cpu
    <3> QED BY <2>10, <2>17, <3>1, <3>2, <3>3 DEF StandsFor
  <2>18. ASSUME NEW i \in kept, hpa.metrics[i].name = "memory" PROVE StandsFor(newMemory, hpa.metrics[i])
    <3>1. newMemory.name = "memory" /\ newMemory.value = memory.value /\ newMemory.utilization = Nil BY DEF Metric
    <3>2. {"utilization", "value"} \ {"value"} = {"utilization"} OBVIOUS
    <3>3. hpa.metrics[i] = memory BY <2>14, <2>18
    <3> HIDE DEF newMemory, memory
    <3> QED BY <2>10, <2>18, <3>1, <3>2, <3>3 DEF StandsFor
  <2> HIDE DEF newQps, newCpu, newMemory, HasQps, HasCpu, HasMemory, kept
  <2>19. kept = {} <=> ~HasQps /\ ~HasCpu /\ ~HasMemory BY <2>11, <2>12, <2>13, <2>14
  <2>20. \A i \in kept : \E n \in Range(new.metrics) : StandsFor(n, hpa.metrics[i])
    BY <2>9, <2>11, <2>12, <2>13, <2>14, <2>16, <2>17, <2>18
  <2>21. IF kept = {} THEN new.metrics = <<DefaultMetric>>
         ELSE \A n \in Range(new.metrics) : \E i \in kept : StandsFor(n, hpa.metrics[i])
    BY <2>9, <2>12, <2>13, <2>14, <2>16, <2>17, <2>18, <2>19
  <2> QED BY <1>2, <2>7, <2>20, <2>21 DEF KeepsScale, new, kept, Kept
<1> QED BY <1>1, <1>2

\* Parts that are converted have the form of the version they are converted to.
LEMMA FromHubType ==
    ASSUME NEW parts, PartsOf(NewScale, parts)
    PROVE  PartsOf(OldScale, [i \in 1 .. Len(parts) |-> FromHub(parts[i])])
<1> DEFINE old == [i \in 1 .. Len(parts) |-> FromHub(parts[i])]
<1>1. Len(parts) \in Nat \ {0} BY DEF PartsOf
<1>2. Len(old) = Len(parts) /\ DOMAIN old = 1 .. Len(parts) BY <1>1
<1>3. ASSUME NEW i \in 1 .. Len(parts)
      PROVE  LET p == old[i] IN
             /\ p = Part(p.autoscaling, p.envs, p.resources, p.ingress, p.extra, p.other)
             /\ p.autoscaling \in OldScale \cup {Nil}
             /\ p.envs # Nil => \A some \in SUBSET p.envs : some # Nil
  <2> DEFINE p == parts[i]
  <2>1. p.autoscaling \in NewScale \cup {Nil} /\ (p.envs # Nil => \A some \in SUBSET p.envs : some # Nil)
    BY DEF PartsOf
  <2>2. old[i] = FromHub(p) BY <1>1
  <2>3. TransformToOldHPA(p.autoscaling) \in OldScale \cup {Nil}
    <3>1. CASE p.autoscaling = Nil BY <3>1 DEF TransformToOldHPA
    <3>2. CASE p.autoscaling # Nil BY <2>1, <3>2, OldType
    <3> QED BY <3>1, <3>2
  <2>4. TransformToOldEnvs(p.envs) # Nil => \A some \in SUBSET TransformToOldEnvs(p.envs) : some # Nil
    <3>1. CASE p.envs = Nil BY <3>1 DEF TransformToOldEnvs
    <3>2. CASE p.envs # Nil BY <2>1, <3>2, EnvsSettle
    <3> QED BY <3>1, <3>2
  <2> HIDE DEF p, old
  <2> QED BY <2>2, <2>3, <2>4 DEF FromHub, Part
<1> QED BY <1>1, <1>2, <1>3 DEF PartsOf

LEMMA NothingType == PartsOf(OldScale, <<NoPart>>)
<1>1. NoPart.autoscaling = Nil /\ NoPart.envs = Nil BY DEF NoPart, Part
<1>2. NoPart = Part(NoPart.autoscaling, NoPart.envs, NoPart.resources, NoPart.ingress, NoPart.extra, NoPart.other)
  BY DEF NoPart, Part
<1> QED BY <1>1, <1>2 DEF PartsOf

LEMMA ToV1alpha3Type ==
    ASSUME NEW version \in OldVersions, NEW parts, PartsOf(OldScale, parts)
    PROVE  PartsOf(OldScale, ToV1alpha3(version, parts))
<1>1. CASE version = "v1alpha3" BY <1>1 DEF ToV1alpha3
<1>2. ASSUME NEW fields, NEW i \in 1 .. Len(parts), "autoscaling" \in fields, "envs" \in fields
      PROVE  LET p == Only(fields, parts[i]) IN
             /\ p = Part(p.autoscaling, p.envs, p.resources, p.ingress, p.extra, p.other)
             /\ p.autoscaling = parts[i].autoscaling /\ p.envs = parts[i].envs
  <2>1. parts[i] = Part(parts[i].autoscaling, parts[i].envs, parts[i].resources, parts[i].ingress, parts[i].extra, parts[i].other)
    BY DEF PartsOf
  <2>2. DOMAIN parts[i] = {"autoscaling", "envs", "resources", "ingress", "extra", "other"} BY <2>1 DEF Part
  <2> QED BY <1>2, <2>2 DEF Only, Part
<1>3. "autoscaling" \in FieldsOfV1alpha1 /\ "envs" \in FieldsOfV1alpha1 BY DEF FieldsOfV1alpha1
<1>4. "autoscaling" \in FieldsOfV1alpha2 /\ "envs" \in FieldsOfV1alpha2 BY <1>3 DEF FieldsOfV1alpha2
<1>5. Len(parts) \in Nat \ {0} BY DEF PartsOf
<1>6. CASE version = "v1alpha2"
  <2> DEFINE old == FromV1alpha2(parts)
  <2>1. ToV1alpha3(version, parts) = old BY <1>6 DEF ToV1alpha3
  <2>2. Len(old) = Len(parts) /\ DOMAIN old = 1 .. Len(parts) BY <1>5 DEF FromV1alpha2
  <2>3. \A i \in 1 .. Len(parts) : old[i] = Only(FieldsOfV1alpha2, parts[i]) BY DEF FromV1alpha2
  <2> HIDE DEF old
  <2> QED BY <1>2, <1>4, <1>5, <2>1, <2>2, <2>3 DEF PartsOf
<1>7. CASE version = "v1alpha1"
  <2> DEFINE part == Only(FieldsOfV1alpha1, parts[1])
  <2>1. ToV1alpha3(version, parts) = <<part>> BY <1>5, <1>7 DEF ToV1alpha3, FromV1alpha1
  <2>2. 1 \in 1 .. Len(parts) BY <1>5
  <2>3. /\ part = Part(part.autoscaling, part.envs, part.resources, part.ingress, part.extra, part.other)
        /\ part.autoscaling = parts[1].autoscaling /\ part.envs = parts[1].envs
    BY <1>2, <1>3, <2>2
  <2>4. /\ part.autoscaling \in OldScale \cup {Nil}
        /\ part.envs # Nil => \A some \in SUBSET part.envs : some # Nil
    BY <2>2, <2>3 DEF PartsOf
  <2> HIDE DEF part
  <2> QED BY <2>1, <2>3, <2>4 DEF PartsOf
<1> QED BY <1>1, <1>6, <1>7 DEF OldVersions

LEMMA ConvertToType ==
    ASSUME NEW version \in OldVersions, NEW tag, NEW parts, PartsOf(OldScale, parts),
           Convertible(version, parts)
    PROVE  PartsOf(NewScale, ConvertTo(version, tag, parts).parts)
<1> DEFINE old == ToV1alpha3(version, parts)
           new == [i \in 1 .. Len(old) |-> ToHub(old[i])]
<1>1. PartsOf(OldScale, old) BY ToV1alpha3Type
<1>2. \A i \in 1 .. Len(old) : Transforms(old[i].autoscaling) BY DEF Convertible
<1>3. ConvertTo(version, tag, parts).parts = new BY DEF ConvertTo
<1> HIDE DEF old
<1>4. Len(old) \in Nat \ {0} BY <1>1 DEF PartsOf
<1>5. Len(new) = Len(old) /\ DOMAIN new = 1 .. Len(old) BY <1>4
<1>6. ASSUME NEW i \in 1 .. Len(old)
      PROVE  LET p == new[i] IN
             /\ p = Part(p.autoscaling, p.envs, p.resources, p.ingress, p.extra, p.other)
             /\ p.autoscaling \in NewScale \cup {Nil}
             /\ p.envs # Nil => \A some \in SUBSET p.envs : some # Nil
  <2> DEFINE p == old[i]
  <2>1. p.autoscaling \in OldScale \cup {Nil} /\ (p.envs # Nil => \A some \in SUBSET p.envs : some # Nil)
    BY <1>1 DEF PartsOf
  <2>2. TransformToNewHPA(p.autoscaling) \in NewScale \cup {Nil} BY <1>2, <2>1, NewType
  <2>3. new[i] = ToHub(p) BY <1>4
  <2> HIDE DEF p, new
  <2> QED BY <2>1, <2>2, <2>3 DEF ToHub, Part
<1> QED BY <1>3, <1>4, <1>5, <1>6 DEF PartsOf

\* Of one part, read and written back.
LEMMA RoundTripOf ==
    ASSUME NEW p
    PROVE  /\ RoundTrip(p) = Part(RoundTripHPA(p.autoscaling), TransformToOldEnvs(p.envs), p.resources, p.ingress, p.extra, Nil)
           /\ FromHub(p).autoscaling = TransformToOldHPA(p.autoscaling)
BY DEF RoundTrip, ToHub, FromHub, Part, RoundTripHPA

LEMMA PartSettles ==
    ASSUME NEW p, p.autoscaling \in NewScale \cup {Nil}, p.envs # Nil => \A some \in SUBSET p.envs : some # Nil,
           Transforms(FromHub(p).autoscaling), ~BothTargets(p)
    PROVE  /\ Transforms(FromHub(RoundTrip(p)).autoscaling)
           /\ RoundTrip(RoundTrip(p)) = RoundTrip(p)
<1> DEFINE hpa == p.autoscaling
           envs == TransformToOldEnvs(p.envs)
<1>1. hpa # Nil => OldMemory(hpa.metrics) = Nil
  <2> SUFFICES ASSUME hpa # Nil PROVE OldMemory(hpa.metrics) = Nil
    OBVIOUS
  <2> DEFINE m == LastMetric(hpa.metrics, "memory", "utilization")
  <2>1. hpa.metrics \in Seq(Metrics) BY DEF NewScale
  <2>2. OldMemory(hpa.metrics) # Unparsable
    <3>1. TransformToOldHPA(hpa) # Nil BY OldType, ConstantsAssumption
    <3>2. TransformToOldHPA(hpa).memory = OldMemory(hpa.metrics) BY DEF TransformToOldHPA, DeploymentTargetHPAConf
    <3> QED BY <3>1, <3>2, RoundTripOf DEF Transforms
  <2>3. CASE m = NoMetric BY <2>3 DEF OldMemory, NoMetric, Metric
  <2>4. CASE \E i \in 1 .. Len(hpa.metrics) : /\ m = hpa.metrics[i]
                                             /\ hpa.metrics[i].name = "memory" /\ hpa.metrics[i]["utilization"] # Nil
    <3>1. PICK i \in 1 .. Len(hpa.metrics) : /\ m = hpa.metrics[i]
                                            /\ hpa.metrics[i].name = "memory" /\ hpa.metrics[i]["utilization"] # Nil
      BY <2>4
    <3>2. m # NoMetric BY <3>1 DEF NoMetric, Metric
    <3>3. m \in ToSet(hpa.metrics) BY <2>1, <3>1 DEF ToSet
    <3>4. m.value = Nil
      <4> HIDE DEF m
      <4> QED BY <3>1, <3>3 DEF BothTargets
    <3> QED BY <2>2, <3>2, <3>4 DEF OldMemory
  <2> QED BY <2>1, <2>3, <2>4, LastIsOne
<1>2. /\ RoundTripHPA(RoundTripHPA(hpa)) = RoundTripHPA(hpa)
      /\ Transforms(TransformToOldHPA(RoundTripHPA(hpa)))
  BY <1>1, AutoscalingSettles
<1>3. TransformToOldEnvs(envs) = envs BY EnvsSettle
<1>4. RoundTrip(p).autoscaling = RoundTripHPA(hpa) /\ RoundTrip(p).envs = envs
  BY RoundTripOf DEF Part
<1> HIDE DEF envs
<1>5. RoundTrip(RoundTrip(p)) = RoundTrip(p)
  <2>1. RoundTrip(p) = Part(RoundTripHPA(hpa), envs, p.resources, p.ingress, p.extra, Nil) BY RoundTripOf DEF envs
  <2>2. RoundTrip(RoundTrip(p)) = Part(RoundTripHPA(RoundTripHPA(hpa)), TransformToOldEnvs(envs), p.resources, p.ingress, p.extra, Nil)
    BY <1>4, <2>1, RoundTripOf DEF Part
  <2> QED BY <1>2, <1>3, <2>1, <2>2
<1> QED BY <1>2, <1>4, <1>5, RoundTripOf
-----------------------------------------------------------------------------
(* What is stored, requested, built, read and sent.                          *)

\* What a client has read in v1alpha3 is the stored object, as long as that has the
\* revision that was read.
AsStored(o) ==
    /\ o.parts = [i \in 1 .. Len(stored.spec.parts) |-> FromHub(stored.spec.parts[i])]
    /\ bentos[stored.spec.bento] = o.tag /\ o.tag # Absent

OldObject(o) ==
    /\ o.version \in OldVersions /\ PartsOf(OldScale, o.parts)
    /\ o.onto \in 0 .. revision
    /\ o.onto # 0 /\ o.onto = revision /\ o.version = "v1alpha3" => AsStored(o)

\* A request has the name of its tag, and so has a Bento that was built for one.
CopyInv ==
    /\ revision # 0 => PartsOf(NewScale, stored.spec.parts)
    /\ \A n \in Names : requests[n] # Absent => NameOf[requests[n].tag] = n
    /\ \A n \in Names : bentos[n] # Absent => n \in DOMAIN Foreign \/ NameOf[bentos[n]] = n
    /\ \A c \in Clients :
          /\ client[c].read # Nil => OldObject(client[c].read)
          /\ client[c].pc # "idle" => OldObject(client[c].object)

LEMMA CopyInvInit == Init => CopyInv
BY TagsAndNames DEF Init, Idle, CopyInv

\* No step takes away a Bento or changes its tag.
LEMMA BentosStay ==
    ASSUME TypeInv, [Next]_vars
    PROVE  \A n \in Names : bentos[n] # Absent => bentos'[n] = bentos[n]
<1>1. ASSUME NEW n \in Names, Build(n) PROVE \A m \in Names : bentos[m] # Absent => bentos'[m] = bentos[m]
  BY <1>1 DEF Build, TypeInv, TypeOK
<1>2. ASSUME NEW c \in Clients, BeginWrite(c) \/ Conversion(c) \/ Fail(c) \/ Read(c) PROVE bentos' = bentos
  <2>1. CASE BeginWrite(c) BY <2>1 DEF BeginWrite
  <2>2. CASE Conversion(c)
    BY <2>2 DEF Conversion, CreateRequest, GetRequest, UpdateRequest, Store, Refusal
  <2>3. CASE Fail(c) BY <2>3 DEF Fail
  <2>4. CASE Read(c) BY <2>4 DEF Read
  <2> QED BY <1>2, <2>1, <2>2, <2>3, <2>4
<1>3. ASSUME NEW n \in Names, DeleteRequest(n) PROVE bentos' = bentos BY <1>3 DEF DeleteRequest
<1>4. CASE WriteHub BY <1>4 DEF WriteHub
<1>5. CASE UNCHANGED vars BY <1>5 DEF vars
<1> QED BY <1>1, <1>2, <1>3, <1>4, <1>5 DEF Next

\* What was read before a write is of an older revision then.
LEMMA ObjectsStay ==
    ASSUME NEW o, TypeInv, [Next]_vars, OldObject(o), UNCHANGED <<stored, revision>> \/ revision' = revision + 1
    PROVE  OldObject(o)'
<1>1. revision \in Nat BY DEF TypeInv, TypeOK
<1>2. CASE UNCHANGED <<stored, revision>>
  <2>1. revision # 0 => stored.spec.bento \in Names BY DEF TypeInv, TypeOK
  <2>2. AsStored(o) /\ revision # 0 => AsStored(o)' BY <1>2, <2>1, BentosStay DEF AsStored
  <2> QED BY <1>2, <2>2 DEF OldObject
<1>3. CASE revision' = revision + 1
  BY <1>1, <1>3 DEF OldObject
<1> QED BY <1>2, <1>3

\* The spec that a client stores.
LEMMA StoredByClient ==
    ASSUME NEW c \in Clients, TypeInv, CopyInv, Store(c), revision' # revision
    PROVE  LET o == client[c].object IN
           /\ OldObject(o) /\ Held(o) /\ o.tag \in Tags
           /\ Convertible(o.version, o.parts) /\ o.onto \in {0, revision}
           /\ stored'.spec = ConvertTo(o.version, o.tag, o.parts)
           /\ PartsOf(NewScale, stored'.spec.parts)
           /\ client' = [client EXCEPT ![c].pc = "idle"]
<1> DEFINE o == client[c].object
<1>1. OldObject(o) /\ Held(o) /\ o.tag \in Tags BY DEF Store, CopyInv, TypeInv
<1>2. Convertible(o.version, o.parts) /\ o.onto \in {0, revision} BY DEF Store, Refusal
<1>3. Put(ConvertTo(o.version, o.tag, o.parts), TRUE) /\ client' = [client EXCEPT ![c].pc = "idle"]
  BY <1>2 DEF Store, Goto
<1>4. stored'.spec = ConvertTo(o.version, o.tag, o.parts) BY <1>3 DEF Put
<1>5. PartsOf(NewScale, stored'.spec.parts) BY <1>1, <1>2, <1>4, ConvertToType DEF OldObject
<1> QED BY <1>1, <1>2, <1>3, <1>4, <1>5

LEMMA CopyInvStep == TypeInv /\ CopyInv /\ [Next]_vars => CopyInv'
<1> SUFFICES ASSUME TypeInv, CopyInv, [Next]_vars PROVE CopyInv'
  OBVIOUS
<1> DEFINE Parts == revision # 0 => PartsOf(NewScale, stored.spec.parts)
           Requested == \A n \in Names : requests[n] # Absent => NameOf[requests[n].tag] = n
           Built == \A n \in Names : bentos[n] # Absent => n \in DOMAIN Foreign \/ NameOf[bentos[n]] = n
           Objects == \A c \in Clients : /\ client[c].read # Nil => OldObject(client[c].read)
                                         /\ client[c].pc # "idle" => OldObject(client[c].object)
<1>0. Parts /\ Requested /\ Built /\ Objects BY DEF CopyInv
<1>1. revision \in Nat BY DEF TypeInv, TypeOK
<1>2. \A c \in Clients : DOMAIN client[c] = {"pc", "object", "seen", "read"} /\ client = [d \in Clients |-> client[d]]
  BY DEF TypeInv, Shape
<1>3. requests = [n \in Names |-> requests[n]] /\ bentos \in [Names -> Tags \cup {Absent}]
  BY DEF TypeInv, Shape, TypeOK
<1>4. ASSUME UNCHANGED <<stored, revision>> \/ revision' = revision + 1
      PROVE  \A o : OldObject(o) => OldObject(o)'
  BY <1>4, ObjectsStay
<1>5. CASE UNCHANGED vars
  BY <1>0, <1>4, <1>5 DEF CopyInv, vars
<1>6. ASSUME NEW c \in Clients, BeginWrite(c) PROVE CopyInv'
  <2>1. PICK o : /\ client' = [client EXCEPT ![c].pc = "create", ![c].object = o]
                 /\ \/ o = client[c].read /\ o # Nil
                    \/ \E v \in OldVersions, t \in Tags, p \in OldParts : o = Old(v, t, p, 0)
    BY <1>6 DEF BeginWrite, Send
  <2>2. OldObject(o)
    <3>1. CASE o = client[c].read /\ o # Nil BY <1>0, <3>1
    <3>2. ASSUME NEW v \in OldVersions, NEW t \in Tags, NEW p \in OldParts, o = Old(v, t, p, 0)
          PROVE  OldObject(o)
      <4>1. PartsOf(OldScale, p) BY ConstantsAssumption
      <4> QED BY <1>1, <3>2, <4>1 DEF Old, OldObject
    <3> QED BY <2>1, <3>1, <3>2
  <2>3. UNCHANGED <<stored, revision, requests, bentos>> BY <1>6 DEF BeginWrite
  <2>4. Objects' BY <1>0, <1>2, <1>4, <2>1, <2>2, <2>3
  <2> QED BY <1>0, <2>3, <2>4 DEF CopyInv
<1>7. ASSUME NEW c \in Clients, UNCHANGED <<stored, revision, bentos>>, Requested', client[c].pc # "idle",
             \E pc, seen : client' = [client EXCEPT ![c].pc = pc, ![c].seen = seen]
      PROVE  CopyInv'
  <2>1. Objects' BY <1>0, <1>2, <1>4, <1>7
  <2> QED BY <1>0, <1>7, <2>1 DEF CopyInv
<1>8. ASSUME NEW c \in Clients, NEW pc, Goto(c, pc)
      PROVE  \E new, seen : client' = [client EXCEPT ![c].pc = new, ![c].seen = seen]
  <2>1. client' = [client EXCEPT ![c].pc = pc, ![c].seen = client[c].seen] BY <1>2, <1>8 DEF Goto
  <2> QED BY <2>1
<1>9. ASSUME NEW c \in Clients, CreateRequest(c) PROVE CopyInv'
  <2>1. client[c].pc # "idle" /\ UNCHANGED <<stored, revision, bentos>> BY <1>9 DEF CreateRequest, Refusal
  <2>2. \E pc : Goto(c, pc) BY <1>9 DEF CreateRequest, Refusal, Answered
  <2>3. Requested' BY <1>0, <1>3, <1>9 DEF CreateRequest, Refusal, RequestName
  <2> QED BY <1>7, <1>8, <2>1, <2>2, <2>3
<1>10. ASSUME NEW c \in Clients, GetRequest(c) PROVE CopyInv'
  <2>1. client[c].pc # "idle" /\ UNCHANGED <<stored, revision, requests, bentos>> BY <1>10 DEF GetRequest, Refusal
  <2>2. Requested' BY <1>0, <2>1
  <2>3. CASE Goto(c, "idle") BY <1>7, <1>8, <2>1, <2>2, <2>3
  <2>4. CASE client' = [client EXCEPT ![c].pc = "update", ![c].seen = requests[RequestName(c)].revision]
    <3>1. \E pc, seen : client' = [client EXCEPT ![c].pc = pc, ![c].seen = seen] BY <2>4
    <3> QED BY <1>7, <2>1, <2>2, <3>1
  <2> QED BY <1>10, <2>3, <2>4 DEF GetRequest, Refusal
<1>11. ASSUME NEW c \in Clients, UpdateRequest(c) PROVE CopyInv'
  <2>1. client[c].pc # "idle" /\ UNCHANGED <<stored, revision, bentos>> BY <1>11 DEF UpdateRequest, Refusal
  <2>2. \E pc : Goto(c, pc) BY <1>11 DEF UpdateRequest, Refusal, Answered
  <2>3. Requested' BY <1>0, <1>3, <1>11 DEF UpdateRequest, Refusal, RequestName
  <2> QED BY <1>7, <1>8, <2>1, <2>2, <2>3
<1>12. ASSUME NEW c \in Clients, Store(c) PROVE CopyInv'
  <2>1. client[c].pc # "idle" /\ UNCHANGED <<requests, bentos>> BY <1>12 DEF Store, Refusal
  <2>2. CASE revision' = revision
    <3>1. Goto(c, "idle") BY <1>12 DEF Store, Refusal
    <3>2. Requested' /\ UNCHANGED <<stored, revision, bentos>> BY <1>0, <1>1, <1>12, <2>1, <2>2 DEF Store, Put, Refusal
    <3> QED BY <1>7, <1>8, <2>1, <3>1, <3>2
  <2>3. CASE revision' # revision
    <3>1. /\ client' = [client EXCEPT ![c].pc = "idle"]
          /\ PartsOf(NewScale, stored'.spec.parts)
      BY <1>12, <2>3, StoredByClient
    <3>2. revision' = revision + 1 BY <1>12, <2>3 DEF Store, Put, Refusal
    <3>3. Objects' BY <1>0, <1>2, <1>4, <3>1, <3>2
    <3> QED BY <1>0, <2>1, <3>1, <3>3 DEF CopyInv
  <2> QED BY <2>2, <2>3
<1>13. ASSUME NEW c \in Clients, Fail(c) PROVE CopyInv'
  <2>1. client[c].pc # "idle" /\ UNCHANGED <<stored, revision, requests, bentos>> /\ Goto(c, "idle") BY <1>13 DEF Fail
  <2>2. Requested' BY <1>0, <2>1
  <2> QED BY <1>7, <1>8, <2>1, <2>2
<1>14. ASSUME NEW c \in Clients, Read(c) PROVE CopyInv'
  <2>1. PICK v \in OldVersions :
           LET old == ConvertFrom(v, stored.spec, bentos[stored.spec.bento])
           IN  client' = [client EXCEPT ![c].read = Old(v, old.tag, old.parts, revision)]
    BY <1>14 DEF Read
  <2> DEFINE tag == bentos[stored.spec.bento]
             old == ConvertFrom(v, stored.spec, tag)
             new == Old(v, old.tag, old.parts, revision)
  <2>2. stored # Absent /\ tag # Absent /\ UNCHANGED <<stored, revision, requests, bentos>> BY <1>14 DEF Read
  <2>3. OldObject(new)
    <3>1. PartsOf(NewScale, stored.spec.parts) BY <1>0, <2>2 DEF TypeInv, TypeOK
    <3>2. CASE v = "v1alpha3"
      <4>1. old = [tag |-> tag, parts |-> [i \in 1 .. Len(stored.spec.parts) |-> FromHub(stored.spec.parts[i])]]
        BY <3>2 DEF ConvertFrom
      <4>2. PartsOf(OldScale, old.parts)
        <5>1. PartsOf(OldScale, [i \in 1 .. Len(stored.spec.parts) |-> FromHub(stored.spec.parts[i])])
          BY <3>1, FromHubType
        <5> QED BY <4>1, <5>1
      <4>3. AsStored(new) BY <2>2, <4>1 DEF AsStored, Old
      <4> HIDE DEF old
      <4> QED BY <1>1, <4>2, <4>3 DEF OldObject, Old
    <3>3. CASE v # "v1alpha3"
      <4>1. old = Nothing BY <3>3 DEF ConvertFrom
      <4> QED BY <1>1, <3>3, <4>1, NothingType DEF OldObject, Old, Nothing
    <3> QED BY <3>2, <3>3
  <2> HIDE DEF new
  <2>4. client' = [client EXCEPT ![c].read = new] BY <2>1 DEF new
  <2>5. Objects' BY <1>0, <1>2, <1>4, <2>2, <2>3, <2>4
  <2> QED BY <1>0, <2>2, <2>5 DEF CopyInv
<1>15. ASSUME NEW n \in Names, Build(n) PROVE CopyInv'
  <2>1. UNCHANGED <<stored, revision, requests, client>> /\ requests[n] # Absent /\ bentos' = [bentos EXCEPT ![n] = requests[n].tag]
    BY <1>15 DEF Build
  <2>2. Built' BY <1>0, <1>3, <2>1
  <2>3. Objects' BY <1>0, <1>4, <2>1
  <2> QED BY <1>0, <2>1, <2>2, <2>3 DEF CopyInv
<1>16. ASSUME NEW n \in Names, DeleteRequest(n) PROVE CopyInv'
  <2>1. UNCHANGED <<stored, revision, bentos, client>> /\ requests' = [requests EXCEPT ![n] = Absent]
    BY <1>16 DEF DeleteRequest
  <2>2. Requested' BY <1>0, <1>3, <2>1
  <2>3. Objects' BY <1>0, <1>4, <2>1
  <2> QED BY <1>0, <2>1, <2>2, <2>3 DEF CopyInv
<1>17. CASE WriteHub
  <2>1. PICK n \in Names, p \in HubParts : Put([bento |-> n, parts |-> p], FALSE) BY <1>17 DEF WriteHub
  <2>2. UNCHANGED <<requests, bentos, client>> BY <1>17 DEF WriteHub
  <2>3. stored' = [spec |-> [bento |-> n, parts |-> p], old |-> FALSE] /\ revision' = revision + 1 BY <2>1 DEF Put
  <2>4. PartsOf(NewScale, p) BY ConstantsAssumption
  <2>5. Parts' BY <2>3, <2>4
  <2>6. Objects' BY <1>0, <1>4, <2>2, <2>3
  <2> QED BY <1>0, <2>2, <2>5, <2>6 DEF CopyInv
<1> QED BY <1>5, <1>6, <1>9, <1>10, <1>11, <1>12, <1>13, <1>14, <1>15, <1>16, <1>17 DEF Next, Conversion

\* An object that has been read in v1alpha3 and written back unchanged, before and after
\* any number of other writes, keeps what WriteBackKeeps says, whatever its runners, their
\* metrics and their variables; it is about ConvertFrom, ConvertTo and what is between them.
THEOREM WhatIsReadIsKept == Spec => WriteBackKeeps
<1>1. TypeInv /\ CopyInv /\ [Next]_vars =>
        [\A c \in Clients :
           revision' # revision /\ client[c].pc = "store" /\ client'[c].pc = "idle" /\ client[c].object.onto # 0 =>
              /\ Keeps(stored.spec, stored'.spec)
              /\ stored'.spec.bento = stored.spec.bento \/ stored.spec.bento \in DOMAIN Foreign]_vars
  <2> SUFFICES ASSUME TypeInv, CopyInv, [Next]_vars, NEW c \in Clients, revision' # revision,
                      client[c].pc = "store", client'[c].pc = "idle", client[c].object.onto # 0
               PROVE  /\ Keeps(stored.spec, stored'.spec)
                      /\ stored'.spec.bento = stored.spec.bento \/ stored.spec.bento \in DOMAIN Foreign
    OBVIOUS
  <2> DEFINE o == client[c].object
             parts == stored.spec.parts
  <2>1. Store(c)
    <3>1. \A d \in Clients : client = [e \in Clients |-> client[e]] BY DEF TypeInv, Shape
    <3>2. ASSUME NEW d \in Clients, Store(d) PROVE d = c
      BY <3>1, <3>2 DEF Store, Goto, Refusal
    <3>3. ASSUME NEW d \in Clients, BeginWrite(d) \/ CreateRequest(d) \/ GetRequest(d) \/ UpdateRequest(d) \/ Fail(d) \/ Read(d)
          PROVE  FALSE
      BY <3>3 DEF BeginWrite, CreateRequest, GetRequest, UpdateRequest, Fail, Read, Refusal
    <3>4. ASSUME NEW n \in Names, Build(n) \/ DeleteRequest(n) PROVE FALSE BY <3>4 DEF Build, DeleteRequest
    <3>5. ~WriteHub BY DEF WriteHub
    <3>6. ~UNCHANGED vars BY DEF vars
    <3> QED BY <3>2, <3>3, <3>4, <3>5, <3>6 DEF Next, Conversion
  <2>2. /\ OldObject(o) /\ Held(o) /\ o.tag \in Tags
        /\ Convertible(o.version, o.parts) /\ o.onto = revision
        /\ stored'.spec = ConvertTo(o.version, o.tag, o.parts)
    BY <2>1, StoredByClient
  <2>3. o.version = "v1alpha3" BY <2>2, TagsAndNames DEF Held
  <2>4. AsStored(o) BY <2>2, <2>3 DEF OldObject
  <2>5. stored.spec.bento \in Names /\ PartsOf(NewScale, parts)
    <3>1. revision # 0 /\ stored.spec.bento \in Names BY <2>2 DEF TypeInv, TypeOK
    <3> QED BY <3>1 DEF CopyInv
  <2>6. /\ stored'.spec.bento = NameOf[o.tag]
        /\ stored'.spec.parts = [i \in 1 .. Len(o.parts) |-> ToHub(o.parts[i])]
    BY <2>2, <2>3 DEF ConvertTo, ToV1alpha3
  <2>7. stored'.spec.bento = stored.spec.bento \/ stored.spec.bento \in DOMAIN Foreign
    BY <2>4, <2>5, <2>6 DEF AsStored, CopyInv
  <2>8. Len(parts) \in Nat /\ Len(o.parts) = Len(parts) /\ \A i \in 1 .. Len(parts) : o.parts[i] = FromHub(parts[i])
    BY <2>4, <2>5 DEF AsStored, PartsOf
  <2>9. Len(stored'.spec.parts) = Len(parts) /\ \A i \in 1 .. Len(parts) : stored'.spec.parts[i] = RoundTrip(parts[i])
    BY <2>6, <2>8 DEF RoundTrip
  <2>10. ASSUME NEW i \in 1 .. Len(parts)
         PROVE  LET p == parts[i] q == stored'.spec.parts[i] IN
                /\ KeepsScale(p.autoscaling, q.autoscaling) /\ KeepsEnvs(p.envs, q.envs)
                /\ q.resources = p.resources /\ q.ingress = p.ingress /\ q.extra = p.extra
    <3> DEFINE p == parts[i]
    <3>1. p.autoscaling \in NewScale \cup {Nil} /\ (p.envs # Nil => \A some \in SUBSET p.envs : some # Nil)
      BY <2>5 DEF PartsOf
    <3>2. Transforms(TransformToOldHPA(p.autoscaling))
      BY <2>2, <2>3, <2>8, RoundTripOf DEF Convertible, ToV1alpha3
    <3>3. KeepsScale(p.autoscaling, RoundTripHPA(p.autoscaling)) BY <3>1, <3>2, ScaleIsKept
    <3>4. KeepsEnvs(p.envs, TransformToOldEnvs(p.envs)) BY <3>1, EnvsSettle
    <3>5. stored'.spec.parts[i] = Part(RoundTripHPA(p.autoscaling), TransformToOldEnvs(p.envs), p.resources, p.ingress, p.extra, Nil)
      BY <2>9, RoundTripOf
    <3> HIDE DEF p
    <3> QED BY <3>3, <3>4, <3>5 DEF Part, p
  <2>11. Keeps(stored.spec, stored'.spec) BY <2>9, <2>10 DEF Keeps
  <2> QED BY <2>7, <2>11
<1> QED BY <1>1, TypeInvInit, TypeInvStep, CopyInvInit, CopyInvStep, PTL DEF Spec, WriteBackKeeps

\* What is stored settles after it has been read and written back once, whatever it is, unless
\* the write is refused or a memory target has both a share and a value.
THEOREM WritingBackSettles == Spec => []WriteBackSettles
<1>1. TypeInv /\ CopyInv => WriteBackSettles
  <2> SUFFICES ASSUME TypeInv, CopyInv, stored # Absent, NEW i \in 1 .. Len(stored.spec.parts),
                      Transforms(FromHub(stored.spec.parts[i]).autoscaling), ~BothTargets(stored.spec.parts[i])
               PROVE  /\ Transforms(FromHub(RoundTrip(stored.spec.parts[i])).autoscaling)
                      /\ RoundTrip(RoundTrip(stored.spec.parts[i])) = RoundTrip(stored.spec.parts[i])
    BY DEF WriteBackSettles
  <2> DEFINE p == stored.spec.parts[i]
  <2>1. p.autoscaling \in NewScale \cup {Nil} /\ (p.envs # Nil => \A some \in SUBSET p.envs : some # Nil)
    BY DEF CopyInv, PartsOf, TypeInv, TypeOK
  <2> QED BY <2>1, PartSettles
<1> QED BY <1>1, TypeInvInit, TypeInvStep, CopyInvInit, CopyInvStep, PTL DEF Spec
===============================================================================
