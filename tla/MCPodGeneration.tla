--------------------------- MODULE MCPodGeneration ---------------------------
(***************************************************************************)
(* Instances of PodGeneration for TLC.                                     *)
(***************************************************************************)
EXTENDS PodGeneration

Plain == [envs |-> <<>>, marks |-> <<>>, labels |-> <<>>, account |-> "own", resources |-> Unset,
          autoscaling |-> Unset, strategy |-> Unset, debug |-> FALSE]

Port(p) == [name |-> "PORT", value |-> p]
Named(name) == [name |-> "DEPLOYMENT", value |-> name]
Options(lines) == [name |-> "OPTIONS", value |-> lines]
Scaled(n) == [min |-> n, max |-> n + 1, metrics |-> {}]

\* A port of its own, given twice, beside an exporter that adds to the options.
Moved == [Plain EXCEPT !.envs = <<Port(8000), Options({<<"other", 1>>}), Port(9000)>>,
                       !.autoscaling = Scaled(2), !.strategy = "RampedSlowRollout"]
\* Labels of its own, one that the pods replace and a version; a sidecar's port and a variable that is set anyway; an account
\* that is left to the labels; a limit of memory and GPU.
Clash == [Plain EXCEPT !.envs = <<Port(3003), Options({<<"monitoring", 1>>}), Named("mine")>>, !.account = Unset,
                       !.marks = [team |-> "all", version |-> "mine"], !.labels = [team |-> "pods"],
                       !.resources = [requests |-> [cpu |-> 100, gpu |-> 1],
                                      limits |-> [memory |-> 2048, gpu |-> 1]]]
\* Less than the default request is allowed.
Small == [Plain EXCEPT !.resources = [requests |-> <<>>, limits |-> [cpu |-> 200]]]
Again == [Plain EXCEPT !.strategy = "Recreate", !.debug = TRUE, !.autoscaling = Scaled(1),
                       !.resources = [requests |-> [cpu |-> 100], limits |-> [cpu |-> 200]]]
Stray == [Plain EXCEPT !.labels = [selector |-> "mine"]]
Wrong == [Plain EXCEPT !.envs = <<Port(Bad)>>]

Exporter(options) == [options |-> options, structured |-> <<"host">>]

Entry(bento, api, runner, exporter) == [bento |-> bento, api |-> api, runner |-> runner, exporter |-> exporter]
First == Entry("one", Plain, Unset, Unset)
AllSpecs ==
    {First,
     Entry("one", Moved, Plain, Exporter({"host", "port"})),
     Entry("one", Clash, Moved, Exporter({"port"})),
     Entry("one", Plain, Clash, Exporter({"port", "match"})),
     Entry("one", Small, Unset, Unset),
     Entry("two", Again, Again, Unset),
     Entry(Bad, Stray, Small, Unset),
     Entry("two", Wrong, Stray, Unset)}

\* From the first to any other and back.
Star == {e \in AllSpecs \X AllSpecs : e[1] # e[2] /\ First \in {e[1], e[2]}}

AllMinors == {<<2, 3, PlusSign>>, <<2, 6>>}
=============================================================================
