---------------------------- MODULE MCMachineAdd ----------------------------
(* Two targets: a user's service on macOS, and a system service.            *)
EXTENDS MachineAdd

MCOptions == [t \in Targets |->
                 IF t = 1 THEN [os |-> "macos", runtime |-> "docker", mode |-> "user"]
                          ELSE [os |-> "linux", runtime |-> "host", mode |-> "system"]]

NoMesh == [ours |-> None, other |-> None, runs |-> None, row |-> None]
Old == [Bare EXCEPT !.cli = "old", !.conf = "user", !.unit["user"] = "docker",
                    !.run["user"] = [version |-> "old", runtime |-> "docker"]]
Fresh == [host |-> Bare, mesh |-> NoMesh]
Unjoined == [host |-> Old, mesh |-> NoMesh]
InNetwork == [host |-> Old, mesh |-> [NoMesh EXCEPT !.other = 1, !.runs = "other"]]

Left(calls, remotes, writes, crashes, downs, adds, inits, invites, expiries) ==
    [calls |-> calls, remotes |-> remotes, writes |-> writes, crashes |-> crashes,
     downs |-> downs, adds |-> adds, inits |-> inits, invites |-> invites, expiries |-> expiries]

MCScenarios ==
    {[wanted |-> {1, 2}, remotes |-> {Fresh}, left |-> Left(1, 0, 0, 1, 0, 1, 0, 0, 0)],
     [wanted |-> {1, 2}, remotes |-> {Fresh}, left |-> Left(0, 0, 0, 0, 0, 2, 0, 0, 0)],
     [wanted |-> {2}, remotes |-> {Fresh, InNetwork}, left |-> Left(0, 1, 1, 1, 1, 1, 1, 0, 0)],
     [wanted |-> {1}, remotes |-> {Fresh}, left |-> Left(0, 0, 1, 2, 1, 1, 0, 0, 0)],
     [wanted |-> {1}, remotes |-> {Fresh}, left |-> Left(1, 1, 1, 1, 0, 1, 0, 0, 0)],
     [wanted |-> {1, 2}, remotes |-> {InNetwork}, left |-> Left(1, 0, 0, 0, 1, 1, 1, 0, 0)],
     [wanted |-> {1}, remotes |-> {Unjoined}, left |-> Left(1, 0, 0, 1, 0, 1, 0, 1, 1)]}
==============================================================================
