--------------------------- MODULE MCNodeRuntime ---------------------------
(* One machine.  Two networks, so that containers, bridges and the marker of *)
(* one can be met by the other; two subnets, so that a heal and a join can    *)
(* change the subnet under an existing bridge.  The networks are              *)
(* interchangeable, the subnets are not (one of them is allocated first).     *)
EXTENDS NodeRuntime, TLC

CONSTANTS n1, n2
TwoNetworks == {n1, n2}
OneNetwork == {n1}
Symmetric == Permutations(Networks)
=============================================================================
