----------------------------- MODULE Membership -----------------------------
(***************************************************************************)
(* The machines of one mesh and their rows in the replicated machines      *)
(* table: the subnet each claims, and whether it takes part in deploys.    *)
(*                                                                         *)
(* Subnets are allocated from the inviting machine's replica, so two       *)
(* machines can join with the same one.  Every daemon looks for that in    *)
(* its replica (heal_local_subnet_conflict_if_needed); the one with the    *)
(* greater id claims another subnet, waits a settle window, and restarts   *)
(* on it.  Meanwhile its participation task samples its peers, and all     *)
(* writers of its own record go through one writer task.                   *)
(*                                                                         *)
(* The unit of time is five seconds: the interval of the heartbeat, the    *)
(* participation and the heal loop.  A write reaches every replica it can  *)
(* reach before the unit ends.                                             *)
(***************************************************************************)
EXTENDS Integers, FiniteSets, FiniteSetsExt

CONSTANTS None,
          Subnets,      \* the cluster's subnets, in the order Ipam tries them
          Settle,       \* SUBNET_HEAL_SETTLE_SECS, in units
          Hysteresis,   \* PARTICIPATION_HYSTERESIS_SAMPLES
          StaleAfter,   \* STALE_HEARTBEAT_SECS, in units
          Scenarios     \* bounds: [founders, joiners, crashes, faults, cuts, removals]

ASSUME SubnetAssumption == Subnets \subseteq Nat /\ Subnets # {}
ASSUME WindowAssumption == Settle \in Nat \ {0} /\ Hysteresis \in Nat \ {0}

VARIABLES
    left,    \* what is left of the scenario's bounds
    node,    \* machine id -> its daemon
    row,     \* machine id -> the newest write of its row, or None
    view,    \* view[m][k]: k's row in m's replica
    beat,    \* beat[m][k]: age of k's newest heartbeat in m's replica, in units
    cut,     \* pairs of machines that do not reach each other
    invite,  \* machine id -> the subnet of its invite, or None
    moved,   \* history: machines whose saved subnet came from a heal
    hit      \* history: machines one of whose store writes failed

vars == <<left, node, row, view, beat, cut, invite, moved, hit>>

Machines == DOMAIN node
Parts == {"Enabled", "Disabled"}

(* MachineRecord, without what this module does not tell apart.            *)
Seed(s) == [sub |-> s, part |-> "Disabled", st |-> "Unknown"]
Absent == [proc |-> "out", phase |-> "Stopped", cfg |-> None, use |-> None, rec |-> None,
           pend |-> None, streak |-> 0, forced |-> None, dec |-> None, job |-> None]

TypeOK ==
    /\ \A m \in Machines :
          /\ node[m].proc \in {"out", "up", "down"}
          /\ node[m].phase \in {"Running", "Stopped"}
          /\ {node[m].cfg, node[m].use} \subseteq Subnets \cup {None}
          /\ node[m].pend = None \/ (node[m].pend.target \in Subnets /\ node[m].pend.age <= Settle)
          /\ node[m].streak \in -Hysteresis..Hysteresis
          /\ node[m].forced \in Parts \cup {None} /\ node[m].dec \in Parts \cup {None}
          /\ row[m] = None \/ (row[m].sub \in Subnets /\ row[m].part \in Parts)
          /\ \A k \in Machines : beat[m][k] \in 0..(StaleAfter + 1)
    /\ moved \subseteq Machines /\ hit \subseteq Machines

(* Mesh::up and spawn_background_tasks: the authoritative self record is    *)
(* the seed built from the saved config, all in-memory state is new.        *)
Started(s) == [Absent EXCEPT !.proc = "up", !.phase = "Running", !.cfg = s, !.use = s,
                             !.rec = Seed(s)]

(* The founders have been running for a while.                              *)
Steady(s) == [Started(s) EXCEPT !.rec = [sub |-> s, part |-> "Enabled", st |-> "Up"],
                                !.streak = Hysteresis]
Init ==
    \E sc \in Scenarios :
       LET M == DOMAIN sc.founders \cup sc.joiners
           first == [m \in M |-> IF m \in sc.joiners THEN Absent ELSE Steady(sc.founders[m])]
       IN  /\ left = [crashes |-> sc.crashes, faults |-> sc.faults,
                      cuts |-> sc.cuts, removals |-> sc.removals]
           /\ node = first
           /\ row = [m \in M |-> first[m].rec]
           /\ view = [m \in M |-> [k \in M |-> IF m \in sc.joiners THEN None ELSE first[k].rec]]
           /\ beat = [m \in M |-> [k \in M |-> 0]]
           /\ cut = {} /\ invite = [m \in M |-> None]
           /\ moved = {} /\ hit = {}

Up(m) == node[m].proc = "up"
TasksRun(m) == Up(m) /\ node[m].phase = "Running"
Fault(m) == left.faults > 0 /\ left' = [left EXCEPT !.faults = @ - 1] /\ hit' = hit \cup {m}
NoFault == UNCHANGED <<left, hit>>

-----------------------------------------------------------------------------
(* The store: upsert_self_machine, delete_machine, and gossip.              *)

upsert(m, rec) ==
    /\ row' = [row EXCEPT ![m] = rec]
    /\ view' = [view EXCEPT ![m][m] = rec]

Linked(m, k) == {m, k} \notin cut
Gossips(m, k) == \E j \in Machines : node[j].proc # "out" /\ Linked(m, j) /\ Linked(j, k)
Behind(m, k) == node[m].proc # "out" /\ view[m][k] # row[k] /\ Gossips(m, k)

Replicate(m) ==
    /\ \E k \in Machines : Behind(m, k)
    /\ view' = [view EXCEPT ![m] = [k \in Machines |-> IF Gossips(m, k) THEN row[k] ELSE @[k]]]
    /\ UNCHANGED <<left, node, row, beat, cut, invite, moved, hit>>

-----------------------------------------------------------------------------
(* The self-record writer task: one mutation at a time, written to the      *)
(* store, then to the authoritative record.                                 *)

(* self_liveness: status Up; the heartbeat itself is in Tick.  It also      *)
(* brings back a row that was deleted.                                      *)
Published(m) == row[m] = [node[m].rec EXCEPT !.st = "Up"]
publish_liveness(m) ==
    /\ TasksRun(m) /\ ~Published(m)
    /\ LET rec == [node[m].rec EXCEPT !.st = "Up"]
       IN  upsert(m, rec) /\ node' = [node EXCEPT ![m].rec = rec]
    /\ UNCHANGED <<left, beat, cut, invite, moved, hit>>

-----------------------------------------------------------------------------
(* The participation task.                                                  *)

machine_is_fresh(m, k) == view[m][k].st # "Down" /\ view[m][k].st # "Unknown"
                          /\ beat[m][k] <= StaleAfter
required_peers_for_participation(m) ==
    {k \in Machines \ {m} : /\ view[m][k] # None
                            /\ view[m][k].part # "Disabled"
                            /\ machine_is_fresh(m, k)}
required_peers_health(m) ==
    \A k \in required_peers_for_participation(m) : Linked(m, k) /\ TasksRun(k)

Uncapped(streak, healthy) ==
    IF healthy THEN Max({streak, 0}) + 1 ELSE Min({streak, 0}) - 1
update_hysteresis(streak, healthy) ==
    IF healthy THEN Min({Max({streak, 0}) + 1, Hysteresis})
               ELSE Max({Min({streak, 0}) - 1, -Hysteresis})

StrictStreak(current, streak) ==
    IF streak > Hysteresis THEN "Enabled" ELSE IF streak < -Hysteresis THEN "Disabled" ELSE current
next_participation(current, streak) ==
    CASE current = "Disabled" -> IF streak >= Hysteresis THEN "Enabled" ELSE "Disabled"
      [] current = "Enabled"  -> IF streak <= -Hysteresis THEN "Disabled" ELSE "Enabled"

(* participation_once up to the mutation it sends: the node with the new    *)
(* streak and the decision, if the decision changes anything.               *)
Sampled(m, forced) ==
    LET n == node[m]
        streak == update_hysteresis(n.streak, required_peers_health(m))
        next == IF forced # None THEN forced ELSE next_participation(n.rec.part, streak)
    IN  [n EXCEPT !.forced = forced, !.streak = streak,
                  !.dec = IF next # n.rec.part THEN next ELSE None]

participation_once(m) ==
    /\ TasksRun(m) /\ node[m].dec = None
    /\ Sampled(m, node[m].forced) # node[m]
    /\ node' = [node EXCEPT ![m] = Sampled(m, @.forced)]
    /\ UNCHANGED <<left, row, view, beat, cut, invite, moved, hit>>

(* SetParticipation reaches the writer: a change is written, and a write    *)
(* that fails is dropped.                                                   *)
SetParticipation(m) ==
    /\ TasksRun(m) /\ node[m].dec # None
    /\ LET rec == [node[m].rec EXCEPT !.part = node[m].dec]
       IN  \/ /\ rec # node[m].rec /\ NoFault /\ upsert(m, rec)
              /\ node' = [node EXCEPT ![m].rec = rec, ![m].dec = None]
           \/ /\ \/ rec = node[m].rec /\ NoFault
                 \/ rec # node[m].rec /\ Fault(m)
              /\ node' = [node EXCEPT ![m].dec = None]
              /\ UNCHANGED <<row, view>>
    /\ UNCHANGED <<beat, cut, invite, moved>>

-----------------------------------------------------------------------------
(* Subnets: allocation, conflicts, and the heal loop.                       *)

Claims(m, s) == {k \in Machines : view[m][k] # None /\ view[m][k].sub = s}
allocate(taken) == IF Subnets \subseteq taken THEN None ELSE Min(Subnets \ taken)
Claimed(m, K) == {view[m][k].sub : k \in {j \in K : view[m][j] # None}}

duplicate_subnet_groups(m) == {s \in Subnets : Cardinality(Claims(m, s)) >= 2}

(* A machine claims one subnet, so at most one group has it; the smallest   *)
(* id keeps the subnet.                                                     *)
local_duplicate_subnet_conflict(m) ==
    {s \in duplicate_subnet_groups(m) : m \in Claims(m, s) /\ m # Min(Claims(m, s))}

WinnerIsLocal(m, s) == m
target_subnet_winner(m, s) == Min(Claims(m, s) \cup {m})
allocate_replacement_subnet(m) == allocate(Claimed(m, Machines \ {m}))

HealingInProgress(m) ==
    /\ node[m].pend # None
    /\ node[m].pend.net = node[m].use /\ node[m].pend.target # node[m].use

(* The heal loop has the daemon's write lock, a healthy store and finds     *)
(* itself in the table.                                                     *)
Heals(m) == TasksRun(m) /\ node[m].job = None /\ view[m][m] # None

(* Nothing to heal, or it is the other machine's to heal: the participation *)
(* override is taken back.                                                  *)
Release(m) ==
    /\ node[m].forced # None \/ node[m].pend # None
    /\ node' = [node EXCEPT ![m].job = [at |-> "force", forced |-> None, net |-> None, rec |-> None]]
    /\ UNCHANGED <<left, row, view, beat, cut, invite, moved, hit>>
ClearEagerly(m) == Heals(m) /\ local_duplicate_subnet_conflict(m) = {} /\ Release(m)
ClearOverride(m) ==
    /\ Heals(m) /\ ~HealingInProgress(m) /\ local_duplicate_subnet_conflict(m) = {}
    /\ Release(m)

(* reserve_local_subnet_claim, its read: the record it will write back is   *)
(* a copy of the authoritative one.                                         *)
Reserve(m, net) ==
    /\ allocate_replacement_subnet(m) # None
    /\ node' = [node EXCEPT ![m].job =
                   [at |-> "replace", forced |-> "Disabled", net |-> net,
                    rec |-> [node[m].rec EXCEPT !.sub = allocate_replacement_subnet(m),
                                                !.part = "Disabled"]]]
    /\ UNCHANGED <<left, row, view, beat, cut, invite, moved, hit>>

PlanHeal(m) ==
    /\ Heals(m) /\ ~HealingInProgress(m)
    /\ \E s \in local_duplicate_subnet_conflict(m) : Reserve(m, s)

ReplanHeal(m) ==
    /\ Heals(m) /\ HealingInProgress(m)
    /\ target_subnet_winner(m, node[m].pend.target) # m
    /\ Reserve(m, node[m].use)

publish_local_machine_down(s) == [sub |-> s, part |-> "Disabled", st |-> "Down"]
SaveConfig(m, s) == [node[m] EXCEPT !.cfg = s]

(* The settle window is over (the cooldown between attempts cannot still    *)
(* run: an attempt ends the plan, and a new plan waits as long): the config *)
(* is saved, then the machine is published as Down on its new subnet.       *)
StartHeal(m) ==
    /\ Heals(m) /\ HealingInProgress(m)
    /\ target_subnet_winner(m, node[m].pend.target) = m
    /\ node[m].pend.age >= Settle
    /\ LET target == node[m].pend.target
       IN  node' = [node EXCEPT ![m] =
                      [SaveConfig(m, target) EXCEPT
                         !.pend = None,
                         !.job = [at |-> "replace", forced |-> None, net |-> None,
                                  rec |-> publish_local_machine_down(target)]]]
    /\ moved' = moved \cup {m}
    /\ UNCHANGED <<left, row, view, beat, cut, invite, hit>>

(* update_authoritative_self_record: Replace overwrites whatever the writer *)
(* did since the copy was read.                                             *)
At(m, pc) == TasksRun(m) /\ node[m].job # None /\ node[m].job.at = pc
update_authoritative_self_record(m) ==
    /\ At(m, "replace")
    /\ \/ /\ NoFault /\ upsert(m, node[m].job.rec)
          /\ node' = [node EXCEPT ![m].rec = node[m].job.rec, ![m].job.at = "upsert"]
       \/ Fault(m) /\ node' = [node EXCEPT ![m].job = None] /\ UNCHANGED <<row, view>>
    /\ UNCHANGED <<beat, cut, invite, moved>>

(* The handler then writes the same copy to the store itself.               *)
UpsertCopy(m) ==
    /\ At(m, "upsert")
    /\ \/ /\ NoFault /\ upsert(m, node[m].job.rec)
          /\ node' = [node EXCEPT ![m].job.at = IF node[m].job.net = None
                                                THEN "restart" ELSE "force"]
       \/ Fault(m) /\ node' = [node EXCEPT ![m].job = None] /\ UNCHANGED <<row, view>>
    /\ UNCHANGED <<beat, cut, invite, moved>>

(* SetForced: the participation task takes it when it is idle, and samples  *)
(* at once; the handler waits until that sample is done with.               *)
ForceOnly(m) ==
    /\ At(m, "force") /\ node[m].dec = None
    /\ node' = [node EXCEPT ![m].forced = node[m].job.forced, ![m].job.at = "ack"]
    /\ UNCHANGED <<left, row, view, beat, cut, invite, moved, hit>>
SetForced(m) ==
    /\ At(m, "force") /\ node[m].dec = None
    /\ node' = [node EXCEPT ![m] = [Sampled(m, node[m].job.forced) EXCEPT !.job.at = "ack"]]
    /\ UNCHANGED <<left, row, view, beat, cut, invite, moved, hit>>

Acknowledged(m) ==
    /\ At(m, "ack") /\ node[m].dec = None
    /\ node' = [node EXCEPT
                  ![m].job = None,
                  ![m].pend = IF node[m].job.net = None THEN None
                              ELSE [net |-> node[m].job.net, target |-> node[m].job.rec.sub,
                                    age |-> 0]]
    /\ UNCHANGED <<left, row, view, beat, cut, invite, moved, hit>>

(* restart_active_runtime_for_subnet_heal (module NodeRuntime): all tasks   *)
(* are new.  It can fail before anything is stopped, or leave the machine   *)
(* with no runtime.                                                         *)
Restart(m) ==
    /\ At(m, "restart")
    /\ LET fresh == [node[m] EXCEPT !.rec.sub = node[m].cfg, !.streak = 0, !.forced = None,
                                    !.dec = None, !.job = None]
       IN  \/ NoFault /\ node' = [node EXCEPT ![m] = [fresh EXCEPT !.use = node[m].cfg]]
           \/ Fault(m) /\ node' = [node EXCEPT ![m].job = None]
           \/ Fault(m) /\ node' = [node EXCEPT ![m] = [fresh EXCEPT !.use = None,
                                                                    !.phase = "Stopped"]]
    /\ UNCHANGED <<row, view, beat, cut, invite, moved>>

-----------------------------------------------------------------------------
(* Machines come and go.                                                    *)

(* handle_machine_invite_create: the subnet is not reserved.                *)
allocate_machine_subnets(k) == allocate(Claimed(k, Machines))
Invite(k, m) ==
    /\ TasksRun(k) /\ node[m].proc = "out" /\ invite[m] = None
    /\ allocate_machine_subnets(k) # None
    /\ invite' = [invite EXCEPT ![m] = allocate_machine_subnets(k)]
    /\ UNCHANGED <<left, node, row, view, beat, cut, moved, hit>>

MeshJoin(m) ==
    /\ node[m].proc = "out" /\ invite[m] # None
    /\ node' = [node EXCEPT ![m] = Started(invite[m])]
    /\ UNCHANGED <<left, row, view, beat, cut, invite, moved, hit>>

Crash(m) ==
    /\ Up(m) /\ left.crashes > 0
    /\ left' = [left EXCEPT !.crashes = @ - 1]
    /\ node' = [node EXCEPT ![m] = [Absent EXCEPT !.proc = "down", !.cfg = node[m].cfg]]
    /\ UNCHANGED <<row, view, beat, cut, invite, moved, hit>>

Resume(m) ==
    /\ node[m].proc = "down"
    /\ node' = [node EXCEPT ![m] = Started(node[m].cfg)]
    /\ UNCHANGED <<left, row, view, beat, cut, invite, moved, hit>>

(* handle_machine_remove: the record must be Disabled, unless forced.       *)
MachineRemove(k, m, force) ==
    /\ TasksRun(k) /\ k # m /\ left.removals > 0
    /\ view[k][m] # None /\ (force \/ view[k][m].part = "Disabled")
    /\ left' = [left EXCEPT !.removals = @ - 1]
    /\ row' = [row EXCEPT ![m] = None] /\ view' = [view EXCEPT ![k][m] = None]
    /\ UNCHANGED <<node, beat, cut, invite, moved, hit>>

Cut(m, k) ==
    /\ m # k /\ Linked(m, k) /\ left.cuts > 0
    /\ left' = [left EXCEPT !.cuts = @ - 1] /\ cut' = cut \cup {{m, k}}
    /\ UNCHANGED <<node, row, view, beat, invite, moved, hit>>
Mend ==
    /\ cut # {} /\ cut' = {}
    /\ UNCHANGED <<left, node, row, view, beat, invite, moved, hit>>

(* Five seconds: every running machine has written a heartbeat, no handler  *)
(* is still between its reads and its writes, and what can reach a replica  *)
(* has.                                                                     *)
Aged(m, k) == IF TasksRun(k) /\ Gossips(m, k) THEN 0 ELSE Min({beat[m][k] + 1, StaleAfter + 1})
Tick ==
    /\ \A m \in Machines :
          /\ TasksRun(m) => Published(m)
          /\ ~At(m, "replace") /\ ~At(m, "upsert")
          /\ \A k \in Machines : ~Behind(m, k)
    /\ beat' = [m \in Machines |-> [k \in Machines |-> Aged(m, k)]]
    /\ node' = [m \in Machines |->
                  IF node[m].pend = None THEN node[m]
                  ELSE [node[m] EXCEPT !.pend.age = Min({@ + 1, Settle})]]
    /\ <<beat, node>>' # <<beat, node>>
    /\ UNCHANGED <<left, row, view, cut, invite, moved, hit>>

Work(m) ==
    \/ publish_liveness(m) \/ participation_once(m) \/ SetParticipation(m)
    \/ ClearOverride(m) \/ PlanHeal(m) \/ ReplanHeal(m) \/ StartHeal(m)
    \/ update_authoritative_self_record(m) \/ UpsertCopy(m)
    \/ SetForced(m) \/ Acknowledged(m) \/ Restart(m) \/ Resume(m)
Progress ==
    \/ \E m \in Machines : Work(m) \/ Replicate(m)
    \/ Tick
Environment ==
    \/ \E m \in Machines :
          \/ MeshJoin(m) \/ Crash(m)
          \/ \E k \in Machines :
                \/ Invite(k, m) \/ Cut(m, k)
                \/ \E force \in BOOLEAN : MachineRemove(k, m, force)
    \/ Mend

Next == Progress \/ Environment
Spec == Init /\ [][Next]_vars /\ WF_vars(Progress) /\ WF_vars(Mend)

-----------------------------------------------------------------------------
(* Two machines that changed subnets did not change to the same one, however *)
(* their reads of the table, their claims and their restarts interleave: the *)
(* settle window and target_subnet_winner are what makes the choice, read    *)
(* from a stale replica, exclusive.  (A failed write is another matter.)     *)
HealsDiverge ==
    hit = {} => \A m, k \in moved : m # k => node[m].cfg # node[k].cfg

(* While a machine waits out the settle window it is Disabled, in its own    *)
(* record and in the table, so that no deploy is planned onto a machine      *)
(* about to restart, whatever a participation sample decided just before     *)
(* reserve_local_subnet_claim and wrote in the middle of it.                 *)
ReservedIsDisabled ==
    \A m \in Machines \ hit :
        node[m].pend # None /\ node[m].job = None /\ Up(m)
        => node[m].rec.part = "Disabled" /\ (row[m] # None => row[m].part = "Disabled")

(* A running machine that has no plan to move claims, in its own record and  *)
(* in the table, the subnet its bridge has: a claim that differs would route *)
(* another machine's containers to it.                                       *)
ClaimIsUse ==
    \A m \in Machines \ hit :
        TasksRun(m) /\ node[m].job = None /\ node[m].pend = None /\ node[m].rec.st = "Up"
        => node[m].rec.sub = node[m].use /\ (row[m] # None => row[m].sub = node[m].use)


(* Every running machine ends up Enabled in the table: no machine waits for  *)
(* a peer for good, not for one that crashed, nor does any wait for another  *)
(* that waits for it.                                                        *)
AllParticipate ==
    <>[](hit = {} => \A m \in Machines :
             TasksRun(m) => row[m] # None /\ row[m].part = "Enabled")
==============================================================================
