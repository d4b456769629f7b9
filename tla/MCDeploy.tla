------------------------------ MODULE MCDeploy ------------------------------
(***************************************************************************)
(* Instances of Deploy for TLC.  Machines are 1 and 2; deploy d1 is        *)
(* coordinated by machine 1, d2 by machine 2 unless a run says otherwise.  *)
(***************************************************************************)
EXTENDS Deploy, TLC

CONSTANTS d1, d2

GlobalWeb(r) == "web" :> [rev |-> r, place |-> Global]
Single(s, r) == s :> [rev |-> r, place |-> 1]

TwoCoordinators == d1 :> 1 @@ d2 :> 2
\* both deploys are started on machine 1
OneCoordinator == d1 :> 1 @@ d2 :> 1
OneDeploy == d1 :> 1

\* two manifests each of which removes the other's service
Alternating == {Single("web", "r1"), Single("db", "r1")}
\* an upgrade of web, or a db in its place
Upgrading == {Single("web", "r1"), Single("web", "r2"), Single("db", "r1")}
\* web on every machine, or a single db
Placing == {GlobalWeb("r1"), Single("db", "r1")}

Both == [known |-> {1, 2}, deployable |-> {1, 2}]
OnlyTwo == [known |-> {1, 2}, deployable |-> {2}]
NoTwo == [known |-> {1}, deployable |-> {1}]
StableFleet == {Both}
\* the coordinating machine 1 does not take part
RemoteFleet == {OnlyTwo}
\* machine 2 leaves and returns
MovingFleet == {Both, NoTwo}
=============================================================================
