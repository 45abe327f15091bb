----------------------------- MODULE Autoscaling -----------------------------
(***************************************************************************)
(* The autoscaling of v2alpha1, and how it is cut down to the older form:  *)
(* for clients that read an object in an old version, and for the Yatai    *)
(* server, which knows the older form only.                                *)
(***************************************************************************)
EXTENDS Naturals, Sequences

CONSTANTS
    Nil,            \* a pointer to nothing, or an empty field
    Unparsable      \* a quantity that does not parse

\* A metric's target is a share of what is requested, a value, or both.  "qps" is the one
\* of the pods, "cpu" and "memory" are resources, with a target of the type Utilization;
\* every other metric has the name "other": of another name or type, and these three too
\* with a target of another type.
Metric(name, utilization, value) == [name |-> name, utilization |-> utilization, value |-> value]
NoMetric == Metric("none", Nil, Nil)

\* Both forms.  Quantities are in thousandths, but the older form has a whole number
\* of queries per second, and for the memory some text, which may be no quantity.
Count == Nat \cup {Nil}
Metrics == [name : {"qps", "cpu", "memory", "other"}, utilization : Count, value : Count]
NewScale == [min : Nat, max : Nat, metrics : Seq(Metrics)]
OldScale == [min : Count, max : Count, qps : Count, cpu : Count, memory : Count \cup {Unparsable}]

\* The last metric of its name that has the number that is looked for.
LastMetric(metrics, name, field) ==
    LET found == {i \in 1 .. Len(metrics) : metrics[i].name = name /\ metrics[i][field] # Nil}
    IN  IF found = {} THEN NoMetric ELSE metrics[CHOOSE i \in found : \A j \in found : j <= i]

\* A quantity as a whole number: rounded up.
Value(quantity) == IF quantity = Nil THEN Nil ELSE (quantity + 999) \div 1000

\* The value of a memory target is asked for if there is a utilization, and written
\* out as something that does not parse if there is no value.
OldMemory(metrics) ==
    LET m == LastMetric(metrics, "memory", "utilization")
    IN  IF m # NoMetric /\ m.value = Nil THEN Unparsable ELSE m.value

DeploymentTargetHPAConf(min, max, qps, cpu, memory) ==
    [min |-> min, max |-> max, qps |-> qps, cpu |-> cpu, memory |-> memory]

TransformToOldHPASwapped(hpa) ==
    IF hpa = Nil THEN Nil
    ELSE DeploymentTargetHPAConf(hpa.min, hpa.max, Value(LastMetric(hpa.metrics, "qps", "value").value),
            LastMetric(hpa.metrics, "cpu", "value").utilization, OldMemory(hpa.metrics))
TransformToOldHPA(hpa) ==
    IF hpa = Nil THEN Nil
    ELSE DeploymentTargetHPAConf(hpa.min, hpa.max, Value(LastMetric(hpa.metrics, "qps", "value").value),
            LastMetric(hpa.metrics, "cpu", "utilization").utilization, OldMemory(hpa.metrics))
==============================================================================
