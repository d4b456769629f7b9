---------------------------- MODULE MCRoutingSync ----------------------------
(***************************************************************************)
(* Instances of RoutingSync for TLC: a service "api" with two revisions    *)
(* whose specs list their two routes in another order, one instance of     *)
(* each revision, and a service "web" whose route clashes with the second. *)
(***************************************************************************)
EXTENDS RoutingSync, TLC

Api == [ns |-> "prod", name |-> "api"]
Web == [ns |-> "test", name |-> "web"]

Host(n) == [name |-> n, dot |-> FALSE, port |-> FALSE]
DottedHost(n) == [name |-> n, dot |-> TRUE, port |-> TRUE]
PathRoot == <<"/">>
PathA == <<"/", "a">>

Http(hosts, prefix, port) ==
  [kind |-> "http", hosts |-> hosts, prefix |-> prefix, port |-> port, listen |-> 0]
Tcp(listen, port) ==
  [kind |-> "tcp", hosts |-> {}, prefix |-> <<>>, port |-> port, listen |-> listen]

MCOneService == {Api}
MCTwoServices == {Api, Web}
MCRevisions == {"r1", "r2"}
MCThreeRevisions == {"r1", "r2", "w1"}
MCRouteSpecs ==
  [r \in {"r1", "r2", "w1"} |->
     CASE r = "r1" -> <<Http({Host("x")}, PathRoot, "main"), Http({}, <<"a">>, "admin")>>
       [] r = "r2" -> <<Http({}, PathA, "admin"), Http({Host("x"), Host("y")}, <<>>, "main")>>
       [] r = "w1" -> <<Http({Host("y")}, PathRoot, "main"), Tcp(1, "main")>>]
MCPorts == [r \in {"r1", "r2", "w1"} |-> {"main", "admin"}]
MCInstances == {"i1", "i2"}
MCThreeInstances == {"i1", "i2", "w"}
MCInst ==
  [i \in {"i1", "i2", "w"} |->
     [svc |-> IF i = "w" THEN Web ELSE Api, slot |-> 1, mach |-> 1,
      rev |-> CASE i = "i1" -> "r1" [] i = "i2" -> "r2" [] i = "w" -> "w1",
      ip |-> TRUE, ports |-> {"main", "admin"}]]

SlotOf(i) == [slot |-> MCInst[i].slot, mach |-> MCInst[i].mach, rev |-> MCInst[i].rev, inst |-> i]
ReleaseOf(i) == [rev |-> MCInst[i].rev, slots |-> {SlotOf(i)}]
MCReleases == [s \in {Api} |-> {ReleaseOf("i1"), ReleaseOf("i2")}]
MCTwoReleases ==
  [s \in {Api, Web} |-> IF s = Web THEN {ReleaseOf("w")} ELSE {ReleaseOf("i1"), ReleaseOf("i2")}]

MCDeployed == [s \in {Api} |-> ReleaseOf("i1")]
MCTwoDeployed == [s \in {Api, Web} |-> IF s = Web THEN ReleaseOf("w") ELSE ReleaseOf("i1")]

MCHosts == {Host("x"), DottedHost("x"), Host("y"), Host("")}
MCPaths == {PathRoot, PathA, <<>>}
MCQueries == {[kind |-> "service", name |-> "api", ns |-> "none"],
              [kind |-> "service", name |-> "api", ns |-> "prod"],
              [kind |-> "list", name |-> "", ns |-> "prod"]}
=============================================================================
