----------------------------- MODULE MCMeshPeers -----------------------------
(***************************************************************************)
(* Instances of MeshPeers for TLC: the local machine, one remote machine   *)
(* with two endpoints and, where asked, one that joins.                    *)
(***************************************************************************)
EXTENDS MeshPeers

Rec(eps, sub) == [endpoints |-> eps, subnet |-> sub]
MCRecords ==
  [m \in {"me", "a"} |->
     IF m = "me" THEN {Rec(<<"s">>, "n0")}
     ELSE {Rec(<<"x", "y">>, "n1"), Rec(<<"y">>, "n1"), Rec(<<>>, "n2")}]
MCInitial == [m \in {"me", "a"} |-> IF m = "me" THEN None ELSE Rec(<<"x", "y">>, "n1")]
MCInvited == [m \in {"me", "a"} |-> IF m = "me" THEN None ELSE <<"x", "y">>]
Paths(udp, tcp) == [udp |-> udp, tcp |-> tcp]
MCWorlds == {Paths({"y"}, {"y"}), Paths({"x", "nat"}, {})}
=============================================================================
