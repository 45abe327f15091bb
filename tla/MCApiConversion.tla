--------------------------- MODULE MCApiConversion ---------------------------
(***************************************************************************)
(* Instances of ApiConversion for TLC.                                     *)
(***************************************************************************)
EXTENDS ApiConversion

CONSTANTS t1, t2, n1, n2, own

\* Each tag has a name of its own; a Bento of another name has the tag t1 as well.
OwnNames == [t \in Tags |-> IF t = t1 THEN n1 ELSE n2]
OwnBento == [n \in {own} |-> t1]

Scale(min, qps, cpu, memory) == DeploymentTargetHPAConf(min, 5, qps, cpu, memory)
Env(name, value) == [name |-> name, value |-> value]

\* No metric and no least number of replicas, beside a runner that gives nothing; a
\* memory target, beside one with two targets; and a quantity that does not parse.
SomeOldParts ==
    {<<Part(Scale(Nil, 0, Nil, Nil), {Env("a", 1), Env("b", Nil)}, "small", TRUE, "pod", Nil),
       Part(Nil, Nil, Nil, FALSE, Nil, Nil)>>,
     <<Part(Scale(1, Nil, Nil, 100000), {}, "small", TRUE, Nil, Nil),
       Part(Scale(3, 10, 70, Nil), Nil, "large", FALSE, "pod", Nil)>>,
     <<Part(Scale(1, Nil, 70, Unparsable), Nil, Nil, FALSE, Nil, Nil)>>}

\* No metric, and every kind of target: one taken back, one followed by a fraction, one of
\* another type.
Hub(metrics) == [min |-> 3, max |-> 5, metrics |-> metrics]
SomeHubParts ==
    {<<Part(Hub(<<Metric("cpu", 50, Nil), Metric("memory", Nil, 100000), Metric("qps", Nil, 4000), Metric("qps", 30, 2500)>>),
            {Env("a", Nil)}, "small", TRUE, "pod", "exporter")>>,
     <<Part(Hub(<<Metric("memory", 60, Nil), Metric("qps", Nil, 10000)>>), Nil, "small", FALSE, Nil, Nil)>>,
     <<Part(Hub(<<>>), Nil, Nil, TRUE, Nil, Nil),
       Part(Hub(<<Metric("memory", 60, 100000), Metric("other", 1, Nil), Metric("qps", Nil, 10000), Metric("qps", Nil, 0)>>),
            {}, Nil, FALSE, "pod", Nil)>>}
=============================================================================
