----------------------------- MODULE MachineAdd -----------------------------
(***************************************************************************)
(* `machine add` and `machine init`: a daemon (the founder) installs ployz  *)
(* on remote machines over ssh, has them join its network with an invite,   *)
(* hands them to its peer sync as transient peers, and waits until they are *)
(* ready.  Every target is a task of its own.  What it has done is recorded *)
(* in a file per operation; a restarted daemon marks what it finds Running  *)
(* as Interrupted and cleans up after it.                                   *)
(*                                                                         *)
(* A call over ssh takes effect and is answered, is lost before it takes    *)
(* effect, or takes effect and its answer is lost or comes after the        *)
(* timeout.                                                                 *)
(***************************************************************************)
EXTENDS Integers, FiniteSets, FiniteSetsExt, HostInstall

CONSTANTS Targets,
          Slots,      \* the operations the model follows at a time
          Subnets,    \* the cluster's subnets, without the founder's
          Options,    \* target -> [os, runtime, mode]: what it is, and what is asked for
          Scenarios   \* [wanted: targets the operator adds, remotes: what they may be
                      \*  at first, left: how often each thing may still go wrong]

ASSUME OptionsAssumption ==
    \A t \in Targets : validate_runtime(Options[t])

VARIABLES
    up,         \* the founder's daemon: "up", "down" or "starting"
    net,        \* whether the founder's network runs
    op,         \* slot -> an operation and its task, or None
    disk,       \* slot -> its record on disk, or None
    host,       \* target -> what is installed (HostInstall)
    mesh,       \* target -> [ours, other: a configured network's subnet or None,
                \*            runs: "ours", "other" or None, row: in the founder's store]
    token,      \* the invite the operator carries to a machine by hand, or None
    transient,  \* targets that are transient peers of the founder
    todo,       \* slots a starting daemon has yet to reconcile
    recon,      \* the slot it is cleaning up after, and the next call
    left,       \* what may still go wrong
    done,       \* targets the operator was told are added
    wanted,     \* targets the operator may ask to add
    asked       \* targets the operator has asked to add

vars == <<up, net, op, disk, host, mesh, token, transient, todo, recon, left, done, wanted, asked>>

(* A task's record is [kind, status, stage, mid]: mid says whether the      *)
(* joiner's id is in the artifacts.  alone and clean are history: no other  *)
(* operation met this one on its target; no call or write of it was lost    *)
(* and its clean-up was neither skipped nor cut short.                      *)
NewTask(kind, req, t, invite, ident, stage, alone) ==
    [req |-> req, target |-> t, sub |-> invite.sub, invite |-> invite, ident |-> ident, pc |-> "bootstrap", res |-> None,
     rec |-> [kind |-> kind, status |-> "Running", stage |-> stage, mid |-> FALSE],
     alone |-> alone, clean |-> TRUE]

Idle == [slot |-> None, call |-> None]
JoinedStages == {"Joined", "SelfRecorded", "TransientPeerInstalled", "Ready", "Finalized"}
InstalledStages == {"TransientPeerInstalled", "Ready", "Finalized"}

Init ==
    /\ up = "up" /\ net = TRUE
    /\ op = [i \in Slots |-> None] /\ disk = [i \in Slots |-> None]
    /\ \E s \in Scenarios :
          /\ left = s.left /\ wanted = s.wanted
          /\ \E r \in [Targets -> s.remotes] :
                /\ host = [t \in Targets |-> r[t].host]
                /\ mesh = [t \in Targets |-> r[t].mesh]
    /\ token = None /\ transient = {} /\ todo = {} /\ recon = Idle /\ done = {} /\ asked = {}

-----------------------------------------------------------------------------
(* Tasks, calls, and the operation store.                                   *)

Can(f) == left[f] > 0
Spend(f) == left' = [left EXCEPT ![f] = @ - 1]
Task(i, pc) == up = "up" /\ op[i] # None /\ op[i].pc = pc
Ended(i) == op[i] # None => op[i].pc \in {"told", "gone"}
NoTasks == \A i \in Slots : Ended(i)
InFlight(t) == \E i \in Slots : ~Ended(i) /\ op[i].target = t

(* A call to t whose effect is to make mesh[t] m.                           *)
Answered(t, m) == mesh' = [mesh EXCEPT ![t] = m] /\ UNCHANGED left
Unanswered(t, m) ==
    /\ Can("calls") /\ Spend("calls")
    /\ mesh' \in {mesh, [mesh EXCEPT ![t] = m]}

(* MachineOperationStore::save and update_stage: the task goes on whether   *)
(* or not the file is written.                                              *)
save(i, task) ==
    /\ op' = [op EXCEPT ![i] = task]
    /\ disk' = [disk EXCEPT ![i] = task.rec]
SaveLost(i, task) ==
    /\ Can("writes") /\ Spend("writes")
    /\ op' = [op EXCEPT ![i] = [task EXCEPT !.clean = FALSE]]
    /\ UNCHANGED disk
Save(i, task) == (save(i, task) /\ UNCHANGED left) \/ SaveLost(i, task)
update_stage(i, stage, pc) ==
    Save(i, [op[i] EXCEPT !.rec.stage = stage, !.pc = pc])

(* update_status, and the result that goes into the report.                 *)
update_status(i, s, res) ==
    Save(i, [op[i] EXCEPT !.rec.status = s, !.pc = "ended", !.res = res])

(* A step of the task that changes nothing but its pc.                      *)
Goto(i, pc) == op' = [op EXCEPT ![i].pc = pc]
GotoUnclean(i, pc) == op' = [op EXCEPT ![i].pc = pc, ![i].clean = FALSE]

-----------------------------------------------------------------------------
(* handle_machine_add, up to the tasks it spawns.                           *)

Taken == {mesh[t].row : t \in Targets} \ {None}
Free == Subnets \ Taken
Rank(s, S) == Cardinality({x \in S : x < s})

(* The n lowest free subnets, in order.                                     *)
allocate_machine_subnets(n) ==
    [k \in 1..n |-> CHOOSE s \in Free : Rank(s, Free) = k - 1]

FreeSlots == {i \in Slots : Ended(i) /\ ~(disk[i] # None /\ disk[i].status = "Running")}
Busy(t) == \E i \in Slots : op[i] # None /\ op[i].target = t /\ i \notin FreeSlots
Unmet(t) == ~Busy(t) /\ t \notin transient /\ ~(token # None /\ token.at = t)

(* An invite is a signed text that carries the subnet and an expiry, and a  *)
(* row of the invites table, which only consume_invite looks at.            *)
issue_invite_token(sub) == [sub |-> sub, expired |-> FALSE, row |-> FALSE]
create_invite(invite) == [invite EXCEPT !.row = TRUE]
do_issue_invite_token(sub) == create_invite(issue_invite_token(sub))
consume_invite(invite) == IF invite.expired THEN invite ELSE [invite EXCEPT !.row = FALSE]

(* The invite of a target may fail to be issued, and its record may fail to *)
(* be saved: begin is the one save whose failure counts.  Such a target is  *)
(* reported as failed, and leaves nothing but a row that is never consumed. *)
Begun(ts) == {ts} \cup (IF Can("writes") THEN SUBSET ts ELSE {})
begin(tasks) ==
    /\ op' = [i \in Slots |->
                 IF i \in DOMAIN tasks THEN tasks[i]
                 ELSE IF op[i] = None THEN None
                 ELSE [op[i] EXCEPT !.alone = @ /\ \A k \in DOMAIN tasks : tasks[k].target # op[i].target]]
    /\ disk' = [i \in Slots |-> IF i \in DOMAIN tasks THEN tasks[i].rec ELSE disk[i]]

Order(ts, t) == 1 + Cardinality({x \in ts : x < t})

handle_machine_add(ts, ident, budget) ==
    /\ up = "up" /\ net
    /\ Cardinality(ts) <= Cardinality(FreeSlots)
    /\ Cardinality(ts) <= Cardinality(Free)
    /\ \E begun \in Begun(ts) :
          LET at == CHOOSE f \in [begun -> FreeSlots] : IsInjective(f)
              subs == allocate_machine_subnets(Cardinality(ts))
              task(t) == NewTask("Add", Min(Range(at)), t, do_issue_invite_token(subs[Order(ts, t)]),
                                 ident, "Preflight", Unmet(t))
          IN  /\ begin([i \in Range(at) |-> task(CHOOSE t \in begun : at[t] = i)])
              /\ left' = IF begun = ts THEN budget ELSE [budget EXCEPT !.writes = @ - 1]
    /\ UNCHANGED <<up, net, host, mesh, token, transient, todo, recon, done, wanted>>

(* The operator's requests: for any targets, members among them; and again  *)
(* for a target as long as no answer said it was added.                     *)
Add(ts, ident) ==
    /\ Can("adds")
    /\ handle_machine_add(ts, ident, [left EXCEPT !.adds = @ - 1])
    /\ asked' = asked \cup ts
Retry(t) ==
    /\ t \in asked \ done /\ ~InFlight(t)
    /\ handle_machine_add({t}, FALSE, left)
    /\ UNCHANGED asked

-----------------------------------------------------------------------------
(* bootstrap_remote_machine: a target whose version matches is not          *)
(* installed again.                                                         *)

Matches(h) == h.cli = "new"
Installed(t, k) ==
    IF Matches(host[t]) THEN host[t]
    ELSE run_installer(host[t], "new", Options[t], k)

AfterBootstrap(i) ==
    IF op[i].rec.kind = "Add" THEN update_stage(i, "Bootstrapped", "join")
                              ELSE update_stage(i, "remote-init", "init")

Bootstrap(i) ==
    LET t == op[i].target IN
    /\ Task(i, "bootstrap")
    /\ host' = [host EXCEPT ![t] = Installed(t, AllSteps(Options[t].mode))]
    /\ IF StatusOk(host'[t]) THEN AfterBootstrap(i) ELSE update_status(i, "Failed", "failed")
    /\ UNCHANGED <<up, net, mesh, token, transient, todo, recon, done, wanted, asked>>

(* The installer stops half-way, or ssh fails at any of the commands.       *)
BootstrapFails(i) ==
    LET t == op[i].target IN
    /\ Task(i, "bootstrap")
    /\ Can("remotes") /\ Spend("remotes")
    /\ \E k \in 0..AllSteps(Options[t].mode) :
          host' \in {host, [host EXCEPT ![t] = Installed(t, k)]}
    /\ save(i, [op[i] EXCEPT !.rec.status = "Failed", !.pc = "ended", !.res = "failed",
                             !.clean = FALSE])
    /\ UNCHANGED <<up, net, mesh, token, transient, todo, recon, done, wanted, asked>>

-----------------------------------------------------------------------------
(* The remote daemon's handlers, as functions of what it has.               *)

(* handle_mesh_join: what runs, and what is configured, is left alone.      *)
handle_mesh_join(m, invite) ==
    IF m.runs # None \/ invite.expired \/ m.ours # None THEN m
    ELSE [m EXCEPT !.ours = invite.sub, !.runs = "ours"]
InviteExpired(m, invite) == m.runs = None /\ invite.expired
handle_mesh_init(m, sub) ==
    IF m.runs # None \/ m.other # None THEN m
    ELSE [m EXCEPT !.other = sub, !.runs = "other"]
handle_mesh_down(m) == [m EXCEPT !.runs = None]
handle_mesh_destroy(m) ==
    [m EXCEPT !.ours = None, !.runs = IF m.runs = "ours" THEN None ELSE m.runs]
handle_mesh_self_record(m) ==
    CASE m.runs = "ours" -> m.ours [] m.runs = "other" -> m.other [] OTHER -> None

-----------------------------------------------------------------------------
(* run_machine_add_target after the bootstrap.                              *)

Others == UNCHANGED <<up, net, host, token, todo, recon, done, wanted, asked>>

JoinOnce(i) ==
    LET t == op[i].target
        m == handle_mesh_join(mesh[t], op[i].invite) IN
    /\ Task(i, "join")
    /\ \/ m # mesh[t] /\ Answered(t, m) /\ Goto(i, "joined") /\ UNCHANGED disk
       \/ m = mesh[t] /\ UNCHANGED mesh /\ update_status(i, "Failed", "failed")
    /\ UNCHANGED transient /\ Others

(* A refusal because something runs or exists counts as having joined.      *)
Join(i) ==
    LET t == op[i].target
        m == handle_mesh_join(mesh[t], op[i].invite) IN
    /\ Task(i, "join")
    /\ \/ /\ ~InviteExpired(mesh[t], op[i].invite)
          /\ Answered(t, m) /\ Goto(i, "joined") /\ UNCHANGED disk
       \/ /\ InviteExpired(mesh[t], op[i].invite)
          /\ UNCHANGED mesh /\ update_status(i, "Failed", "failed")
       \/ /\ Unanswered(t, m)
          /\ save(i, [op[i] EXCEPT !.rec.status = "Failed", !.pc = "ended", !.res = "failed",
                                   !.clean = FALSE])
    /\ UNCHANGED transient /\ Others

(* start_mesh fails on the target, after its configuration was saved.       *)
JoinFails(i) ==
    LET t == op[i].target IN
    /\ Task(i, "join") /\ handle_mesh_join(mesh[t], op[i].invite) # mesh[t]
    /\ Can("remotes") /\ Spend("remotes")
    /\ mesh' = [mesh EXCEPT ![t].ours = op[i].sub]
    /\ save(i, [op[i] EXCEPT !.rec.status = "Failed", !.pc = "ended", !.res = "failed"])
    /\ UNCHANGED transient /\ Others

Joined(i) ==
    /\ Task(i, "joined") /\ update_stage(i, "Joined", "record")
    /\ UNCHANGED <<mesh, transient>> /\ Others

(* The subnet is compared after the stage is saved.                         *)
remote_self_record(t) == handle_mesh_self_record(mesh[t])
SelfRecord(i) ==
    LET subnet == remote_self_record(op[i].target) IN
    /\ Task(i, "record")
    /\ \/ /\ subnet # None
          /\ update_stage(i, "SelfRecorded", IF subnet = op[i].sub THEN "install" ELSE "rollback")
       \/ subnet = None /\ Goto(i, "rollback") /\ UNCHANGED <<disk, left>>
       \/ Can("calls") /\ Spend("calls") /\ GotoUnclean(i, "rollback") /\ UNCHANGED disk
    /\ UNCHANGED <<mesh, transient>> /\ Others

(* The joiner's id goes to disk before the transient peer is installed.     *)
SaveMachineId(i) ==
    /\ Task(i, "install")
    /\ Save(i, [op[i] EXCEPT !.rec.mid = TRUE, !.pc = "upsert"])
    /\ UNCHANGED <<mesh, transient>> /\ Others
upsert_transient_peer(i) ==
    /\ Task(i, "upsert")
    /\ transient' = IF mesh[op[i].target].row # None THEN transient
                    ELSE transient \cup {op[i].target}
    /\ update_stage(i, "TransientPeerInstalled", "ready")
    /\ UNCHANGED mesh /\ Others

(* wait_for_remote_ready: a network that runs, with its store and heartbeat, *)
(* is ready enough, connected to the founder or not; otherwise, or if no    *)
(* probe is answered, the deadline passes.                                  *)
Linked(t) == net /\ (t \in transient \/ mesh[t].row # None)
ready_status(t) ==
    LET connected == mesh[t].runs = "ours" => Linked(t)
    IN  [running |-> TRUE, sync_connected |-> connected, ready |-> connected]
handle_mesh_ready(t) == IF mesh[t].runs = None THEN None ELSE ready_status(t)
remote_join_ready(status) == status # None /\ (status.ready \/ status.running)
wait_for_remote_ready(i) ==
    LET ready == remote_join_ready(handle_mesh_ready(op[i].target)) IN
    /\ Task(i, "ready")
    /\ \/ ready /\ update_stage(i, "Ready", "consume")
       \/ ~ready /\ Goto(i, "rollback") /\ UNCHANGED <<disk, left>>
       \/ Can("calls") /\ Spend("calls") /\ GotoUnclean(i, "rollback") /\ UNCHANGED disk
    /\ UNCHANGED <<mesh, transient>> /\ Others

(* The time between issuing an invite and its use passes its lifetime.      *)
Expire(i) ==
    /\ Task(i, "join") \/ Task(i, "consume")
    /\ Can("expiries") /\ Spend("expiries")
    /\ op' = [op EXCEPT ![i].invite.expired = TRUE]
    /\ UNCHANGED <<disk, mesh, transient>> /\ Others

(* A failure to consume the invite is only logged.                          *)
Finalize(i) ==
    /\ Task(i, "consume")
    /\ \E invite \in {consume_invite(op[i].invite)} \cup (IF Can("writes") THEN {op[i].invite} ELSE {}) :
          Save(i, [op[i] EXCEPT !.invite = invite, !.rec.stage = "Finalized", !.pc = "succeed"])
    /\ UNCHANGED <<mesh, transient>> /\ Others
Succeed(i) ==
    /\ Task(i, "succeed") /\ update_status(i, "Succeeded", "added")
    /\ UNCHANGED <<mesh, transient>> /\ Others

-----------------------------------------------------------------------------
(* rollback_machine_add_target: the transient peer, then mesh down and mesh *)
(* destroy on the target, whose failures are dropped; then Failed.          *)

SkipsTransient(stage) == stage \in {"Ready", "Finalized"}
RemovesTransient(stage) == stage \in InstalledStages
SkipsSelfRecorded(stage) == stage \in JoinedStages \ {"SelfRecorded"}
CleansRemote(stage) == stage \in JoinedStages

Rollback(i) ==
    LET stage == op[i].rec.stage IN
    /\ Task(i, "rollback")
    /\ transient' = IF RemovesTransient(stage) THEN transient \ {op[i].target} ELSE transient
    /\ Goto(i, IF CleansRemote(stage) THEN "down" ELSE "fail")
    /\ UNCHANGED <<disk, mesh, left>> /\ Others

(* best_effort_remote_cleanup, one call.                                    *)
Cleanup(call, m) == IF call = "down" THEN handle_mesh_down(m) ELSE handle_mesh_destroy(m)
AfterCleanup(call) == IF call = "down" THEN "destroy" ELSE "fail"

RollbackCall(i, call) ==
    LET t == op[i].target IN
    /\ Task(i, call)
    /\ \/ Answered(t, Cleanup(call, mesh[t])) /\ Goto(i, AfterCleanup(call))
       \/ Unanswered(t, Cleanup(call, mesh[t])) /\ GotoUnclean(i, AfterCleanup(call))
    /\ UNCHANGED <<disk, transient>> /\ Others
Fail(i) ==
    /\ Task(i, "fail") /\ update_status(i, "Failed", "failed")
    /\ UNCHANGED <<mesh, transient>> /\ Others

(* The report goes out when every task of the request has ended.            *)
Report(r) ==
    LET tasks == {i \in Slots : ~Ended(i) /\ op[i].req = r} IN
    /\ up = "up" /\ tasks # {} /\ \A i \in tasks : op[i].pc = "ended"
    /\ op' = [i \in Slots |-> IF i \in tasks THEN [op[i] EXCEPT !.pc = "told"] ELSE op[i]]
    /\ done' = done \cup {op[i].target : i \in {j \in tasks : op[j].res = "added"}}
    /\ UNCHANGED <<up, net, disk, host, mesh, token, transient, todo, recon, left, wanted, asked>>

-----------------------------------------------------------------------------
(* handle_machine_init: only where no network runs.                         *)
handle_machine_init(t) ==
    /\ up = "up" /\ ~net /\ FreeSlots # {} /\ Can("inits")
    /\ LET i == CHOOSE j \in FreeSlots : TRUE
       IN  begin([k \in {i} |-> NewTask("Init", i, t, issue_invite_token(Min(Subnets)), FALSE, "bootstrapping", Unmet(t))])
    /\ Spend("inits")
    /\ UNCHANGED <<up, net, host, mesh, token, transient, todo, recon, done, wanted, asked>>
RemoteInit(i) ==
    LET t == op[i].target
        m == handle_mesh_init(mesh[t], op[i].sub) IN
    /\ Task(i, "init")
    /\ mesh' = [mesh EXCEPT ![t] = m]
    /\ IF m # mesh[t]
       THEN Save(i, [op[i] EXCEPT !.rec.status = "Succeeded", !.rec.stage = "complete",
                                  !.pc = "ended", !.res = "initialized"])
       ELSE update_status(i, "Failed", "failed")
    /\ UNCHANGED transient /\ Others

-----------------------------------------------------------------------------
(* The founder's own network.  mesh down and mesh up wait for the requests  *)
(* in flight; peer sync and its transient peers end with the network.       *)
KeepTransient == net /\ NoTasks /\ up = "up" /\ Can("downs") /\ Spend("downs") /\ net' = FALSE
                 /\ UNCHANGED <<up, op, disk, host, mesh, token, transient, todo, recon, done, wanted, asked>>
MeshDown ==
    /\ up = "up" /\ net /\ NoTasks /\ Can("downs") /\ Spend("downs")
    /\ net' = FALSE /\ transient' = {}
    /\ UNCHANGED <<up, op, disk, host, mesh, token, todo, recon, done, wanted, asked>>
MeshUp ==
    /\ up = "up" /\ ~net /\ NoTasks /\ net' = TRUE
    /\ UNCHANGED <<up, op, disk, host, mesh, token, transient, todo, recon, left, done, wanted, asked>>

(* Joining by hand: an invite created on the founder, `mesh join` on the    *)
(* target, and `mesh accept` of the record it answers with, on the founder, *)
(* whatever has become of the target in between.                            *)
Meets(t) == op' = [i \in Slots |-> IF op[i] # None /\ op[i].target = t
                                   THEN [op[i] EXCEPT !.alone = FALSE] ELSE op[i]]
handle_machine_invite_create ==
    /\ up = "up" /\ net /\ token = None /\ Can("invites") /\ Spend("invites")
    /\ Free # {}
    /\ token' = [invite |-> do_issue_invite_token(allocate_machine_subnets(1)[1]), at |-> None]
    /\ UNCHANGED <<up, net, op, disk, host, mesh, transient, todo, recon, done, wanted, asked>>
JoinByHand(t) ==
    LET m == handle_mesh_join(mesh[t], token.invite) IN
    /\ token # None /\ token.at = None /\ StatusOk(host[t])
    /\ token' = IF m = mesh[t] THEN None ELSE [token EXCEPT !.at = t]
    /\ mesh' = [mesh EXCEPT ![t] = m]
    /\ Meets(t)
    /\ UNCHANGED <<up, net, disk, host, transient, todo, recon, left, done, wanted, asked>>
handle_mesh_accept ==
    /\ up = "up" /\ net /\ token # None /\ token.at # None
    /\ transient' = IF mesh[token.at].row # None THEN transient ELSE transient \cup {token.at}
    /\ token' = None
    /\ Meets(token.at)
    /\ UNCHANGED <<up, net, disk, host, mesh, todo, recon, left, done, wanted, asked>>

(* A joiner's row reaches the founder, and ends the transient peer.         *)
Publish(t) ==
    /\ mesh[t].runs = "ours" /\ Linked(t) /\ mesh[t].row # mesh[t].ours
    /\ mesh' = [mesh EXCEPT ![t].row = mesh[t].ours]
    /\ transient' = transient \ {t}
    /\ UNCHANGED <<up, net, op, disk, host, token, todo, recon, left, done, wanted, asked>>

-----------------------------------------------------------------------------
(* Crash, and reconcile_machine_operations_on_startup, which comes after    *)
(* the network is resumed (or not) and before any request is served.        *)

Crash ==
    /\ up # "down" /\ Can("crashes") /\ Spend("crashes")
    /\ up' = "down" /\ net' = FALSE /\ transient' = {} /\ todo' = {} /\ recon' = Idle
    /\ op' = [i \in Slots |->
                 IF op[i] = None \/ op[i].pc = "told" THEN op[i]
                 ELSE [op[i] EXCEPT !.pc = "gone", !.clean = @ /\ recon.slot # i]]
    /\ UNCHANGED <<disk, host, mesh, token, done, wanted, asked>>

AnyRecord(i) == disk[i] # None
Reconcilable(i) == disk[i] # None /\ disk[i].status = "Running"
Start ==
    /\ up = "down" /\ up' = "starting"
    /\ \/ net' = TRUE /\ UNCHANGED left
       \/ Can("downs") /\ Spend("downs") /\ net' = FALSE
    /\ todo' = {i \in Slots : Reconcilable(i)}
    /\ UNCHANGED <<op, disk, host, mesh, token, transient, recon, done, wanted, asked>>

Unclean(i) == op' = [op EXCEPT ![i].clean = FALSE]

(* A record that cannot be marked is passed over.                           *)
MarkLost(i) ==
    /\ up = "starting" /\ recon = Idle /\ i \in todo
    /\ Can("writes") /\ Spend("writes")
    /\ todo' = todo \ {i} /\ Unclean(i)
    /\ UNCHANGED <<up, net, disk, host, mesh, token, transient, recon, done, wanted, asked>>

(* reconcile_machine_add_operation, up to the clean-up on the target, which *)
(* is skipped without a network to take the transient peer from, and when   *)
(* the ssh identity came with the request.                                  *)
Reconcile(i) ==
    LET r == disk[i] IN
    /\ up = "starting" /\ recon = Idle /\ i \in todo
    /\ todo' = todo \ {i}
    /\ disk' = [disk EXCEPT ![i].status = "Interrupted"]
    /\ IF r.kind # "Add" \/ (~(r.mid /\ ~net) /\ ~CleansRemote(r.stage))
       THEN UNCHANGED <<op, recon>>
       ELSE IF (r.mid /\ ~net) \/ op[i].ident
            THEN Unclean(i) /\ UNCHANGED recon
            ELSE recon' = [slot |-> i, call |-> "down"] /\ UNCHANGED op
    /\ transient' = IF r.mid /\ net THEN transient \ {op[i].target} ELSE transient
    /\ UNCHANGED <<up, net, host, mesh, token, left, done, wanted, asked>>

ReconcileCall ==
    LET i == recon.slot
        t == op[i].target IN
    /\ recon # Idle
    /\ \/ Answered(t, Cleanup(recon.call, mesh[t])) /\ UNCHANGED op
       \/ Unanswered(t, Cleanup(recon.call, mesh[t])) /\ Unclean(i)
    /\ recon' = IF recon.call = "down" THEN [recon EXCEPT !.call = "destroy"] ELSE Idle
    /\ UNCHANGED <<up, net, disk, host, token, transient, todo, done, wanted, asked>>

Serve ==
    /\ up = "starting" /\ todo = {} /\ recon = Idle /\ up' = "up"
    /\ UNCHANGED <<net, op, disk, host, mesh, token, transient, todo, recon, left, done, wanted, asked>>

-----------------------------------------------------------------------------
Proceed(i) ==
    \/ Bootstrap(i) \/ Join(i) \/ Joined(i) \/ SelfRecord(i) \/ SaveMachineId(i)
    \/ upsert_transient_peer(i) \/ wait_for_remote_ready(i) \/ Finalize(i) \/ Succeed(i)
    \/ Rollback(i) \/ (\E call \in {"down", "destroy"} : RollbackCall(i, call)) \/ Fail(i)
    \/ Report(i) \/ RemoteInit(i)
Fault(i) == BootstrapFails(i) \/ JoinFails(i) \/ Expire(i) \/ MarkLost(i)
Requests ==
    \/ \E ts \in (SUBSET wanted) \ {{}}, ident \in BOOLEAN : Add(ts, ident)
    \/ \E t \in wanted : handle_machine_init(t) \/ JoinByHand(t)
    \/ handle_machine_invite_create \/ handle_mesh_accept
Startup == Start \/ Serve \/ ReconcileCall \/ \E i \in Slots : Reconcile(i)
Progress == \/ Startup \/ MeshUp
            \/ \E i \in Slots : Proceed(i)
            \/ \E t \in Targets : Retry(t)
Next ==
    \/ Progress \/ Requests \/ MeshDown \/ Crash
    \/ \E i \in Slots : Fault(i)
    \/ \E t \in Targets : Publish(t)

(* Tasks, the startup and the supervisor that restarts the daemon run; the  *)
(* operator brings the network up again and repeats a request that failed.  *)
Spec == Init /\ [][Next]_vars /\ WF_vars(Progress)

-----------------------------------------------------------------------------
(* Peer sync's transient peers live only as long as the founder's network;  *)
(* a record is Running on disk while its task runs and no write was lost.   *)
TypeOK ==
    /\ up \in {"up", "down", "starting"} /\ net \in BOOLEAN
    /\ transient \subseteq Targets /\ done \subseteq Targets /\ todo \subseteq Slots
    /\ ~net => transient = {}
    /\ \A i \in Slots : ~Ended(i) /\ op[i].pc # "ended" => disk[i].status = "Running"
    /\ \A t \in Targets :
          /\ {mesh[t].ours, mesh[t].other, mesh[t].row} \subseteq Subnets \cup {None}
          /\ mesh[t].runs = "ours" => mesh[t].ours # None

Told(i, res) == op[i] # None /\ op[i].pc = "told" /\ op[i].res = res

(* A target reported as added stays added, through every restart of the     *)
(* founder and whatever happens to other targets: it runs the founder's     *)
(* network on the subnet it was given, as long as no later request is about *)
(* it and its success was recorded (run_machine_add_target; what a restart  *)
(* cleans up is chosen by the record).  A target that ran another network   *)
(* is not covered: its self-record does not say which network it is of.     *)
ReportedStays ==
    \A i \in Slots :
        Told(i, "added") /\ op[i].alone /\ op[i].clean /\ mesh[op[i].target].other = None
        => /\ mesh[op[i].target].runs = "ours"
           /\ mesh[op[i].target].ours = op[i].sub

(* A failed add leaves no transient peer behind                             *)
(* (rollback_machine_add_target): peer sync does not keep a WireGuard peer  *)
(* for a machine that was told to leave.                                    *)
FailedLeavesNoPeer ==
    \A i \in Slots : Told(i, "failed") /\ op[i].alone => op[i].target \notin transient

(* An add that got as far as its join and then failed, or was interrupted   *)
(* by a crash and reconciled, leaves the target out of the network, unless  *)
(* a call or a write was lost, or the clean-up was skipped or cut short     *)
(* (rollback_machine_add_target, reconcile_machine_add_operation).          *)
CleansUp ==
    \A i \in Slots :
        /\ op[i] # None /\ op[i].alone /\ op[i].clean
        /\ disk[i].kind = "Add" /\ disk[i].stage \in JoinedStages
        /\ Told(i, "failed") \/ (disk[i].status = "Interrupted" /\ recon.slot # i)
        => mesh[op[i].target].ours = None

(* With finitely many faults, an operator who repeats a failed request is   *)
(* told in the end that the target is added, wherever the earlier attempts  *)
(* stopped: half-joined, configured but not running, in a network of its    *)
(* own (the refusals run_machine_add_target takes for a join, and the       *)
(* rollback after them).  A target whose installation broke off after the   *)
(* binaries were copied is the exception: its version matches, so it is not *)
(* installed again.                                                         *)
HalfInstalled(t) == host[t].cli = "new" /\ (host[t].conf = None \/ host[t].run[host[t].conf] = None)
EventuallyAdded == <>[](\A t \in asked : t \in done \/ HalfInstalled(t))
==============================================================================
