---------------------------- MODULE MCMembership ----------------------------
(* Four situations.  A machine is removed while it runs, and its subnet is  *)
(* given away before its next heartbeat brings it back; three machines have *)
(* joined with invites for one subnet; two have, and a daemon crashes and a *)
(* store write or a restart fails; two are partitioned, one of them crashes *)
(* and one is removed.                                                      *)
EXTENDS Membership

Bounds(founders, joiners, crashes, faults, cuts, removals) ==
    [founders |-> founders, joiners |-> joiners, crashes |-> crashes,
     faults |-> faults, cuts |-> cuts, removals |-> removals]

MCScenarios ==
    { Bounds([m \in {1, 2} |-> m], {3}, 0, 0, 0, 1),
      Bounds([m \in {1, 2, 3} |-> 1], {}, 0, 0, 0, 0),
      Bounds([m \in {1, 2} |-> 1], {}, 1, 1, 0, 0),
      Bounds([m \in {1, 2} |-> m], {}, 1, 0, 1, 1) }
==============================================================================
