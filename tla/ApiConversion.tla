---------------------------- MODULE ApiConversion ----------------------------
(***************************************************************************)
(* The older versions of the BentoDeployment resource and their conversion *)
(* to and from v2alpha1, the version that is stored: clients that write    *)
(* and read one object in any version, side by side.  A write in an old    *)
(* version makes a BentoRequest for the tag it names before it is stored;  *)
(* a read in an old version asks for the Bento that was made from it.      *)
(*                                                                         *)
(* A conversion runs inside the API server's handling of one call.         *)
(***************************************************************************)
EXTENDS Autoscaling, FiniteSets, SequencesExt

CONSTANTS
    Clients,
    Tags,           \* of Bentos, as the old versions name them
    Names,          \* of Bentos and BentoRequests
    NameOf,         \* the name that is made from a tag
    NoTag,          \* the empty tag
    OldParts,       \* what clients write in old versions: see Part
    HubParts,       \* and in v2alpha1
    Foreign,        \* Bentos that were made from no request of a conversion: name -> tag
    Absent,
    MaxWrites,      \* bound: writes of the object that are begun
    MaxFaults       \* bound: calls that fail, and BentoRequests that are deleted

\* A spec is its API server's part followed by one part for each runner.  A part is
\* its autoscaling, its environment (whose order plays no role), its resources, whether
\* it has an ingress, the extra fields that v1alpha3 and v2alpha1 share (the rest of the
\* ingress, extra pod metadata and most of the extra pod spec), and other fields, which no
\* conversion copies (annotations, the exporter, extra containers, the service account, the
\* behavior of the autoscaling).
Part(autoscaling, envs, resources, ingress, extra, other) ==
    [autoscaling |-> autoscaling, envs |-> envs, resources |-> resources,
     ingress |-> ingress, extra |-> extra, other |-> other]

\* Parts with autoscaling of the given form, if any.
PartsOf(scales, parts) ==
    /\ Len(parts) \in Nat \ {0} /\ DOMAIN parts = 1 .. Len(parts)
    /\ \A i \in 1 .. Len(parts) :
          LET p == parts[i] IN
          /\ p = Part(p.autoscaling, p.envs, p.resources, p.ingress, p.extra, p.other)
          /\ p.autoscaling \in scales \cup {Nil}
          /\ p.envs # Nil => \A some \in SUBSET p.envs : some # Nil

ASSUME ConstantsAssumption ==
    /\ NameOf \in [Tags -> Names] /\ NoTag \notin Tags
    /\ DOMAIN Foreign \subseteq Names /\ Range(Foreign) \subseteq Tags
    /\ Nil \notin Tags \cup Nat /\ Nil \notin {Absent, Unparsable}
    /\ Nil \notin OldScale /\ Nil \notin NewScale
    /\ \A parts \in OldParts : PartsOf(OldScale, parts)
    /\ \A parts \in HubParts : PartsOf(NewScale, parts)
    /\ MaxWrites \in Nat /\ MaxFaults \in Nat

OldVersions == {"v1alpha1", "v1alpha2", "v1alpha3"}
-----------------------------------------------------------------------------
\* Without any metric in an old version, the CPU has one.
DefaultMetric == Metric("cpu", 80, Nil)

OrDefault(x, default) == IF x = Nil THEN default ELSE x
Wanted(x) == x # Nil /\ x # 0

NewMetricsAppended(old) ==
    (IF Wanted(old.qps) THEN <<Metric("qps", Nil, 1000 * old.qps)>> ELSE <<>>)
      \o (IF Wanted(old.cpu) THEN <<Metric("cpu", old.cpu, Nil)>> ELSE <<>>)
      \o (IF old.memory # Nil THEN <<Metric("memory", Nil, old.memory)>> ELSE <<>>)
      \o <<DefaultMetric>>
NewMetrics(old) ==
    LET metrics ==
          (IF Wanted(old.qps) THEN <<Metric("qps", Nil, 1000 * old.qps)>> ELSE <<>>)
            \o (IF Wanted(old.cpu) THEN <<Metric("cpu", old.cpu, Nil)>> ELSE <<>>)
            \o (IF old.memory # Nil THEN <<Metric("memory", Nil, old.memory)>> ELSE <<>>)
    IN  IF metrics = <<>> THEN <<DefaultMetric>> ELSE metrics
DefaultMax == 10
TransformToNewHPA(old) ==
    IF old = Nil THEN Nil
    ELSE [min |-> OrDefault(old.min, 2), max |-> OrDefault(old.max, DefaultMax),
          metrics |-> NewMetrics(old)]
Transforms(old) == old # Nil => old.memory # Unparsable

\* A variable without a plain value is left out of the old list.
TransformToOldEnvs(envs) == IF envs = Nil THEN Nil ELSE {e \in envs : e.value # Nil}

ToHub(p) == Part(TransformToNewHPA(p.autoscaling), p.envs, p.resources, p.ingress, p.extra, Nil)
FromHub(p) == Part(TransformToOldHPA(p.autoscaling), TransformToOldEnvs(p.envs),
                   p.resources, p.ingress, p.extra, Nil)

\* The two oldest versions are made v1alpha3 first: what they do not have stays empty,
\* and v1alpha1 loses its runners.
NoPart == Part(Nil, Nil, Nil, FALSE, Nil, Nil)
FieldsOfV1alpha1 == {"autoscaling", "envs", "resources"}
FieldsOfV1alpha2 == FieldsOfV1alpha1 \cup {"ingress"}
Only(fields, p) == [f \in DOMAIN p |-> IF f \in fields THEN p[f] ELSE NoPart[f]]

FromV1alpha1(parts) == <<Only(FieldsOfV1alpha1, Head(parts))>>
FromV1alpha2(parts) == [i \in 1 .. Len(parts) |-> Only(FieldsOfV1alpha2, parts[i])]
ToV1alpha3(version, parts) ==
    CASE version = "v1alpha3" -> parts
      [] version = "v1alpha2" -> FromV1alpha2(parts)
      [] version = "v1alpha1" -> FromV1alpha1(parts)

ConvertTo(version, tag, parts) ==
    LET old == ToV1alpha3(version, parts)
    IN  [bento |-> NameOf[tag], parts |-> [i \in 1 .. Len(old) |-> ToHub(old[i])]]
Convertible(version, parts) ==
    LET old == ToV1alpha3(version, parts)
    IN  \A i \in 1 .. Len(old) : Transforms(old[i].autoscaling)

\* The two oldest versions fill their result from an empty v1alpha3 object, and the
\* stored one is converted into that afterwards: the result stays empty, its metadata
\* too (an API server that compares metadata refuses such an answer).
Nothing == [tag |-> NoTag, parts |-> <<NoPart>>]
ConvertFromTagged(version, spec, tag) ==
    IF version = "v1alpha3"
    THEN [tag |-> tag, parts |-> [i \in 1 .. Len(spec.parts) |-> FromHub(spec.parts[i])]]
    ELSE [Nothing EXCEPT !.tag = tag]
ConvertFrom(version, spec, tag) ==
    IF version = "v1alpha3"
    THEN [tag |-> tag, parts |-> [i \in 1 .. Len(spec.parts) |-> FromHub(spec.parts[i])]]
    ELSE Nothing
-----------------------------------------------------------------------------
VARIABLES
    stored,     \* the object in the store: its spec, and whether it came in an old version
    revision,   \* and its revision, which is 0 before it is there
    requests,   \* BentoRequests: their tag and revision
    bentos,     \* Bentos: their tag
    client,     \* per client, what it writes and how far that is, and what it read last
    deleted,    \* whether a request was ever deleted
    writes, faults

vars == <<stored, revision, requests, bentos, client, deleted, writes, faults>>

Idle == [pc |-> "idle", object |-> Nil, seen |-> 0, read |-> Nil]

Init ==
    /\ stored = Absent /\ revision = 0
    /\ requests = [n \in Names |-> Absent]
    /\ bentos = [n \in Names |-> IF n \in DOMAIN Foreign THEN Foreign[n] ELSE Absent]
    /\ client = [c \in Clients |-> Idle]
    /\ deleted = FALSE /\ writes = 0 /\ faults = 0

\* An object in an old version, and the revision it is to replace: 0 is any.
Old(version, tag, parts, onto) == [version |-> version, tag |-> tag, parts |-> parts, onto |-> onto]

Goto(c, pc) == client' = [client EXCEPT ![c].pc = pc]

Send(c, o) == client' = [client EXCEPT ![c].pc = "create", ![c].object = o]

\* A client sends one of its own, or the one that it has read.
BeginWrite(c) ==
    /\ client[c].pc = "idle" /\ writes < MaxWrites
    /\ writes' = writes + 1
    /\ \/ \E v \in OldVersions, t \in Tags, p \in OldParts : Send(c, Old(v, t, p, 0))
       \/ client[c].read # Nil /\ Send(c, client[c].read)
    /\ UNCHANGED <<stored, revision, requests, bentos, deleted, faults>>

Refusal(c) == Goto(c, "idle") /\ UNCHANGED <<stored, revision, requests, bentos, deleted, writes, faults>>

\* A call fails, carried out or not; the API server reports it to the client.
Answered(c, pc) ==
    \/ Goto(c, pc) /\ UNCHANGED faults
    \/ faults < MaxFaults /\ faults' = faults + 1 /\ Goto(c, "idle")
FailSilently(c) ==
    /\ client[c].pc # "idle" /\ faults < MaxFaults
    /\ faults' = faults + 1 /\ Goto(c, "store")
    /\ UNCHANGED <<stored, revision, requests, bentos, deleted, writes>>
Fail(c) ==
    /\ client[c].pc # "idle" /\ faults < MaxFaults
    /\ faults' = faults + 1 /\ Goto(c, "idle")
    /\ UNCHANGED <<stored, revision, requests, bentos, deleted, writes>>

RequestName(c) == NameOf[client[c].object.tag]

\* ConvertTo creates the BentoRequest; one with an empty name is refused.
CreateRequest(c) ==
    /\ client[c].pc = "create"
    /\ IF client[c].object.tag = NoTag
       THEN Refusal(c)
       ELSE IF requests[RequestName(c)] = Absent
       THEN /\ Answered(c, "store")
            /\ requests' = [requests EXCEPT ![RequestName(c)] = [tag |-> client[c].object.tag, revision |-> 1]]
            /\ UNCHANGED <<stored, revision, bentos, deleted, writes>>
       ELSE Goto(c, "get") /\ UNCHANGED <<stored, revision, requests, bentos, deleted, writes, faults>>

\* One that is there already is read, to be given the tag.
GetRequest(c) ==
    /\ client[c].pc = "get"
    /\ IF requests[RequestName(c)] = Absent
       THEN Refusal(c)
       ELSE /\ client' = [client EXCEPT ![c].pc = "update", ![c].seen = requests[RequestName(c)].revision]
            /\ UNCHANGED <<stored, revision, requests, bentos, deleted, writes, faults>>

\* An update of another revision than the one read is refused.
UpdateRequest(c) ==
    /\ client[c].pc = "update"
    /\ LET request == requests[RequestName(c)] IN
       IF request = Absent \/ request.revision # client[c].seen
       THEN Refusal(c)
       ELSE /\ Answered(c, "store")
            /\ requests' = IF request.tag = client[c].object.tag THEN requests
                           ELSE [requests EXCEPT ![RequestName(c)] =
                                   [tag |-> client[c].object.tag, revision |-> request.revision + 1]]
            /\ UNCHANGED <<stored, revision, bentos, deleted, writes>>

\* The object is converted and stored, if it replaces what it is to replace.
Put(spec, old) == stored' = [spec |-> spec, old |-> old] /\ revision' = revision + 1
Store(c) ==
    /\ client[c].pc = "store"
    /\ LET o == client[c].object IN
       IF Convertible(o.version, o.parts) /\ o.onto \in {0, revision}
       THEN /\ Put(ConvertTo(o.version, o.tag, o.parts), TRUE) /\ Goto(c, "idle")
            /\ UNCHANGED <<requests, bentos, deleted, writes, faults>>
       ELSE Refusal(c)

\* A client reads in an old version; the read fails while there is no Bento.
Read(c) ==
    /\ client[c].pc = "idle" /\ stored # Absent
    /\ bentos[stored.spec.bento] # Absent
    /\ \E v \in OldVersions :
         LET old == ConvertFrom(v, stored.spec, bentos[stored.spec.bento])
         IN  client' = [client EXCEPT ![c].read = Old(v, old.tag, old.parts, revision)]
    /\ UNCHANGED <<stored, revision, requests, bentos, deleted, writes, faults>>

\* Someone stores the object in v2alpha1, which asks for nothing.
WriteHub ==
    /\ writes < MaxWrites
    /\ writes' = writes + 1
    /\ \E n \in Names, p \in HubParts : Put([bento |-> n, parts |-> p], FALSE)
    /\ UNCHANGED <<requests, bentos, client, deleted, faults>>

\* The image builder makes the Bento of a request.
Build(n) ==
    /\ requests[n] # Absent /\ bentos[n] = Absent
    /\ bentos' = [bentos EXCEPT ![n] = requests[n].tag]
    /\ UNCHANGED <<stored, revision, requests, client, deleted, writes, faults>>

\* Someone deletes a request.
DeleteRequest(n) ==
    /\ requests[n] # Absent /\ ~deleted
    /\ deleted' = TRUE
    /\ requests' = [requests EXCEPT ![n] = Absent]
    /\ UNCHANGED <<stored, revision, bentos, client, writes, faults>>

Conversion(c) == CreateRequest(c) \/ GetRequest(c) \/ UpdateRequest(c) \/ Store(c)

Next ==
    \/ \E c \in Clients : BeginWrite(c) \/ Conversion(c) \/ Fail(c) \/ Read(c)
    \/ \E n \in Names : Build(n) \/ DeleteRequest(n)
    \/ WriteHub

Spec == Init /\ [][Next]_vars

\* The API server finishes the calls it handles; the image builder builds.
FairSpec ==
    /\ Spec
    /\ \A c \in Clients : WF_vars(Conversion(c))
    /\ \A n \in Names : WF_vars(Build(n))
-----------------------------------------------------------------------------
\* Types.
TypeOK ==
    /\ revision \in Nat
    /\ IF revision = 0 THEN stored = Absent ELSE stored.spec.bento \in Names
    /\ \A n \in Names : requests[n] # Absent => requests[n].tag \in Tags
    /\ bentos \in [Names -> Tags \cup {Absent}]
    /\ \A c \in Clients :
          /\ client[c].pc \in {"idle", "create", "get", "update", "store"}
          /\ client[c].pc = "store" => client[c].object.tag \in Tags
    /\ writes \in 0 .. MaxWrites /\ faults \in 0 .. MaxFaults

\* The number of a metric that is looked at, and the one that is kept.
LookedAt == [qps |-> "value", cpu |-> "utilization", memory |-> "utilization"]
Carried == [qps |-> "value", cpu |-> "utilization", memory |-> "value"]

\* A metric that an old version has no place for: one of another name or type, one without
\* the number that is looked at, one that is followed by another of its name, and one of
\* zero, unless of the memory.
IsRead(m) == m.name \in DOMAIN LookedAt /\ m[LookedAt[m.name]] # Nil
Lost(metrics, i) ==
    LET m == metrics[i] IN
    \/ ~IsRead(m)
    \/ m.name # "memory" /\ m[LookedAt[m.name]] = 0
    \/ \E j \in i + 1 .. Len(metrics) : IsRead(metrics[j]) /\ metrics[j].name = m.name

\* A metric that stands for another: with the number that is kept, queries per second
\* rounded up to a whole number, and without the number that is not.
StandsFor(n, m) ==
    /\ n.name = m.name
    /\ LET field == Carried[m.name] IN
       /\ IF m.name = "qps" THEN n.value \in m.value .. m.value + 999 /\ n.value % 1000 = 0
                            ELSE n[field] = m[field]
       /\ \A f \in {"utilization", "value"} \ {field} : n[f] = Nil

\* What one part keeps of another: everything but other fields, variables without a plain
\* value and the metrics that are lost, and nothing is added but a default for no metric.
KeepsScale(old, new) ==
    IF old = Nil THEN new = Nil
    ELSE LET kept == {i \in 1 .. Len(old.metrics) : ~Lost(old.metrics, i)} IN
         /\ new.min = old.min /\ new.max = old.max
         /\ \A i \in kept : \E n \in Range(new.metrics) : StandsFor(n, old.metrics[i])
         /\ IF kept = {} THEN new.metrics = <<DefaultMetric>>
            ELSE \A n \in Range(new.metrics) : \E i \in kept : StandsFor(n, old.metrics[i])
KeepsEnvs(old, new) ==
    IF old = Nil THEN new = Nil
    ELSE new # Nil /\ {e \in old : e.value # Nil} = new
Keeps(old, new) ==
    /\ Len(old.parts) = Len(new.parts)
    /\ \A i \in 1 .. Len(old.parts) :
          LET p == old.parts[i] q == new.parts[i] IN
          /\ KeepsScale(p.autoscaling, q.autoscaling) /\ KeepsEnvs(p.envs, q.envs)
          /\ q.resources = p.resources /\ q.ingress = p.ingress /\ q.extra = p.extra

\* Who reads an object in v1alpha3 and writes it back unchanged, while nobody else
\* writes, loses nothing but other fields, variables that take their value from elsewhere,
\* the metrics that Lost names, the share of a memory target with a value, the second
\* number of the other targets and the fraction of a number of queries, which becomes one
\* more; and the Bento stays the same unless its name is not the one made from its tag.
WriteBackKeeps ==
    [][\A c \in Clients :
         revision' # revision /\ client[c].pc = "store" /\ client'[c].pc = "idle" /\ client[c].object.onto # 0 =>
            /\ Keeps(stored.spec, stored'.spec)
            /\ stored'.spec.bento = stored.spec.bento \/ stored.spec.bento \in DOMAIN Foreign]_vars

\* Reading and writing back once more changes nothing further, unless a memory target
\* has both a share and a value: it loses one and then the other.
RoundTrip(p) == ToHub(FromHub(p))
BothTargets(p) ==
    p.autoscaling # Nil /\ \E m \in ToSet(p.autoscaling.metrics) :
        m.name = "memory" /\ m.utilization # Nil /\ m.value # Nil
WriteBackSettles ==
    stored # Absent =>
        \A i \in 1 .. Len(stored.spec.parts) :
            LET p == stored.spec.parts[i] IN
            Transforms(FromHub(p).autoscaling) /\ ~BothTargets(p) =>
                /\ Transforms(FromHub(RoundTrip(p)).autoscaling)
                /\ RoundTrip(RoundTrip(p)) = RoundTrip(p)

\* What the two oldest versions return is never stored, although their conversions lose
\* everything: its empty tag makes a BentoRequest without a name.
LossesStayOut ==
    [][revision' # revision => \A c \in Clients :
         client[c].pc = "store" /\ client'[c].pc = "idle" /\ client[c].object.onto # 0 =>
            client[c].object.version = "v1alpha3"]_vars

\* Old versions can be read in the end, unless someone stored the name of a Bento that
\* nobody requested or deleted a request before its Bento was built.
ReadableInTheEnd ==
    <>[](stored # Absent /\ stored.old /\ ~deleted => bentos[stored.spec.bento] # Absent)
=============================================================================
