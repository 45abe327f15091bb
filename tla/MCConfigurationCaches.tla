------------------------ MODULE MCConfigurationCaches ------------------------
(***************************************************************************)
(* Instances of ConfigurationCaches for TLC.                               *)
(***************************************************************************)
EXTENDS ConfigurationCaches

Network(domain, annotations) == [domain |-> domain, class |-> domain, annotations |-> annotations]
SomeNetworks == {Network("one", [redirect |-> "config"]), Network("two", <<>>),
                 Network("one", Bad)}

Server(token) == [endpoint |-> "yatai", token |-> token]
NoServer == [endpoint |-> Nil, token |-> Nil]
SomeSecrets == {Absent, NoServer, Server(1), Server(2)}

Object(enabled, tls, annotations, envs, autoscaling) ==
    [bento |-> "b1", enabled |-> enabled, tls |-> tls, annotations |-> annotations,
     podAnnotations |-> [redirect |-> "pods", team |-> "pods"], envs |-> envs, autoscaling |-> autoscaling,
     resources |-> IF enabled THEN [requests |-> Nil, limits |-> "large"] ELSE Nil]
Scale(metrics) == [min |-> 1, max |-> 2, metrics |-> metrics]
Plain == Object(TRUE, TRUE, <<>>, 1, Scale(<<Metric("cpu", 80, Nil)>>))
OtherBento == [Plain EXCEPT !.bento = "b2"]
SomeSpecs == {Plain, OtherBento, Object(TRUE, FALSE, [redirect |-> "object"], 2, Nil),
              Object(FALSE, FALSE, <<>>, 1, Scale(<<Metric("memory", 60, Nil), Metric("cpu", 80, Nil)>>))}

\* With an elected leader; with one that waits for its network configuration while each
\* process registers; with two processes that lead; and where there is no Yatai server,
\* or no configuration of it at first, in one case with the cleaner.
Begun(one, net, s, r) ==
    [elect |-> one, registers |-> FALSE, cleans |-> FALSE, namespaces |-> <<"one", "two">>,
      network |-> net, secret |-> s, spec |-> Plain, remote |-> r]
SomeStarts == {Begun(TRUE, Network("one", [redirect |-> "config"]), Server(1), {"b1"}),
               [Begun(TRUE, Network("one", Bad), Server(1), {}) EXCEPT !.registers = TRUE],
               Begun(FALSE, Network("one", [redirect |-> "config"]), Server(1), {"b1"}),
               Begun(FALSE, Network("one", Bad), NoServer, {}),
               Begun(FALSE, Network("two", <<>>), Absent, {"b1", "b2"}),
               [Begun(TRUE, Network("two", <<>>), Absent, {"b1", "b2"}) EXCEPT !.cleans = TRUE]}

SomeNamespaces == {<<"one", "two">>, <<"three", "one">>}

\* An object that moves from one Bento to another, when all works.
TwoBentos == {Plain, OtherBento}
OneNetwork == {Network("two", <<>>)}
OneSecret == {Server(1)}
OneStart == {Begun(TRUE, Network("two", <<>>), Server(1), {"b1", "b2"})}
OneNamespace == {<<"one", "two">>}
==============================================================================
