------------------------------- MODULE Deploy -------------------------------
(***************************************************************************)
(* The deploy engine of one namespace: coordinators running `apply`, the   *)
(* participant machines' deploy agents with their namespace locks, the     *)
(* container runtime, and the tables of the store that deploys write.      *)
(*                                                                         *)
(* A coordinator talks to one agent at a time over a request/reply session *)
(* (rpc), so it has at most one frame outstanding.  Daemons crash and      *)
(* restart, connections break, every store or container call may fail.     *)
(* Namespaces do not interact (locks, tables and container names are keyed *)
(* by namespace), so one is enough.  The store is read and written one     *)
(* statement at a time, each statement atomic; a write that fails may have *)
(* been done all the same (its reply was lost).                            *)
(***************************************************************************)
EXTENDS Integers, FiniteSets

CONSTANTS
  Machines,    \* machine ids; naturals, ordered as the id strings are
  Deploys,     \* deploy ids, one per call of apply
  Coord,       \* Coord[d]: the machine whose daemon runs apply for d
  Services,    \* service names of the namespace
  Revisions,   \* revision hashes
  Manifests,   \* manifests a user may apply: service -> [rev, place]
  Fleets,      \* machine inventories the store may show: [known, deployable]
  Crashable,   \* machines whose daemon may crash and restart
  Flaky,       \* machines whose deploy connections may break
  SilentLoss   \* a crash may be a host loss, which closes no connection

\* Machine 0 stands for no machine.  A manifest names each service once, with
\* at least one replica (DeployManifest::validate, desired_slots).
ASSUME ConstantsAssumption ==
  /\ Machines \subseteq Nat \ {0} /\ IsFiniteSet(Machines)
  /\ Coord \in [Deploys -> Machines]
  /\ \A M \in Manifests : /\ DOMAIN M \subseteq Services
                          /\ \A s \in DOMAIN M : M[s].rev \in Revisions /\ M[s].place \in Nat
  /\ Fleets \subseteq [known : SUBSET Machines, deployable : SUBSET Machines]
  /\ Crashable \subseteq Machines /\ Flaky \subseteq Machines
  /\ SilentLoss \in BOOLEAN
  /\ "free" \notin Deploys /\ "none" \notin Deploys /\ "none" \notin Revisions

Global == 0    \* Placement::Global; a positive number is Replicated { count }

SlotIds == {"replica", "global"} \X Nat

\* An instance id is fresh for each candidate.  The labels of its container
\* carry the rest, so the id is modelled by what the labels say.
Instances ==
  [deploy : Deploys, svc : Services, slot : SlotIds, mach : Machines,
   rev : Revisions]

NoInst == [deploy |-> "none"]
NoRev == "none"
NoRelease == [rev |-> NoRev, slots |-> {}]
NoLock == "free"
NoManifest == [s \in {} |-> NoRelease]
NoFleet == [known |-> {}, deployable |-> {}]
NoRpc == [st |-> "none", op |-> "none", mach |-> 0, inst |-> NoInst]

\* The local variables of one call of apply.
NoLocals ==
  [man |-> NoManifest,    \* the manifest
   parts |-> {},          \* participants of the initial preview
   seen |-> NoFleet,      \* `machines`, read once before the locks
   opened |-> {},         \* the sessions map
   plan |-> {},           \* slots of the final preview
   gone |-> {},           \* services the final preview plans to remove
   reg |-> {},            \* services whose revision has been upserted
   todo |-> {},           \* desired slots not placed yet
   built |-> {},          \* slots of the releases to commit
   clean |-> {},          \* instances cleanup has still to remove
   errors |-> "none",     \* cleanup_errors: "none" or "some"
   found |-> {},          \* participants whose containers were adopted
   result |-> "none"]     \* what apply will return

VARIABLES
  releases,    \* store: service -> [rev, slots]
  revisions,   \* store: the service revision ledger
  ready,       \* store: instance status rows with phase Ready
  draining,    \* store: instance status rows with phase Draining
  record,      \* store: deploy id -> state of its deploy record
  fleet,       \* store: machine inventory, kept by the machines themselves
  containers,  \* containers that exist, on the machine their id names
  probed,      \* history: instances that passed wait_ready
  lock,        \* machine -> NamespaceLockManager entry of the namespace
  sess,        \* deploy -> machines with a live session handler for it
  mute,        \* deploy -> handlers whose peer vanished without closing
  cut,         \* deploy -> handlers whose connection to it has broken
  adrift,      \* candidates being started by handlers of such connections
  rpc,         \* deploy -> the frame or reply in flight
  pc,          \* deploy -> where apply is
  loc          \* deploy -> locals of apply

store == <<releases, revisions, ready, draining, record>>
runtime == <<containers, probed>>
conns == <<lock, sess, mute, cut, adrift>>
vars == <<store, fleet, runtime, conns, rpc, pc, loc>>

-----------------------------------------------------------------------------
(* Planning: pure functions of what was read from the store. *)

Least(S) == CHOOSE x \in S : \A y \in S : x <= y

\* candidates.get(k % len) of the candidates in id order
CandidateAt(C, k) ==
  CHOOSE x \in C : Cardinality({y \in C : y < x}) = k % Cardinality(C)

\* Enabled and fresh machines, or the local one when there is none.
DeployableMachines(deployable, local) ==
  IF deployable = {} THEN {local} ELSE deployable

\* The machine a slot is bound to now, and the machine desired for it.
CurrentSlot(rel, k) == {x \in rel.slots : x.slot = k}

SlotsOf(place, C) ==
  IF place = Global THEN {<<"global", m>> : m \in C}
  ELSE {<<"replica", i>> : i \in 1..place}

DesiredMachine(rel, C, k) ==
  IF k[1] = "global" THEN k[2]
  ELSE IF CurrentSlot(rel, k) # {}
       THEN (CHOOSE x \in CurrentSlot(rel, k) : TRUE).mach
       ELSE CandidateAt(C, k[2] - 1)

SlotMachines(rels) == {x.mach : x \in UNION {rels[s].slots : s \in Services}}

\* A desired slot is on a candidate or where it is already, so these are all
\* the machines preview collects.
Participants(rels, deployable, local) ==
  DeployableMachines(deployable, local) \cup SlotMachines(rels)

\* preview plans to remove the services the manifest does not name.
Removed(rels, M) == {s \in Services \ DOMAIN M : rels[s] # NoRelease}


\* keep_current: same slot on the same machine at the same revision.
KeepCurrent(rel, k, m, r) ==
  {x \in rel.slots : x.slot = k /\ x.mach = m /\ rel.rev = r}

WorkItem(rel, C, s, k, r) ==
  LET m == DesiredMachine(rel, C, k)
      kept == KeepCurrent(rel, k, m, r)
  IN [svc |-> s, slot |-> k, mach |-> m,
      inst |-> IF kept = {} THEN NoInst ELSE (CHOOSE x \in kept : TRUE).inst]

Work(rels, C, M) ==
  UNION {{WorkItem(rels[s], C, s, k, M[s].rev) : k \in SlotsOf(M[s].place, C)}
           : s \in DOMAIN M}

Placement(items) == {<<x.svc, x.slot, x.mach>> : x \in items}

\* The rows apply_deploy_commit leaves in the release table.
CommitReleases(rels, gone, M, built) ==
  [s \in Services |->
     IF s \in DOMAIN M
     THEN [rev |-> M[s].rev,
           slots |-> {[slot |-> x.slot, mach |-> x.mach, inst |-> x.inst]
                        : x \in {y \in built : y.svc = s}}]
     ELSE IF s \in gone THEN NoRelease ELSE rels[s]]


\* Instances of the participants that the new releases do not point at.
Stale(rows, built, parts) ==
  {i \in rows : i.mach \in parts /\ i \notin {x.inst : x \in built}}

\* The managed containers of the namespace on a machine, by their labels.
ListInstances(m) == {i \in containers : i.mach = m}


\* Containers adopt_instances registers: those on the machine without a row.
Adoptable(m) == ListInstances(m) \ (ready \cup draining)

Active == UNION {{x.inst : x \in releases[s].slots} : s \in Services}

-----------------------------------------------------------------------------
(* The coordinator: apply, one action per statement that touches the store  *)
(* or a session.  `?` on a failed statement leaves by Leave while sessions   *)
(* are being opened and by Close once they all are.                          *)

Idle(d) == rpc[d] = NoRpc

Send(d, op, m, i) ==
  rpc' = [rpc EXCEPT ![d] = [st |-> "sent", op |-> op, mach |-> m, inst |-> i]]

Answered(d, op, st) == rpc[d].op = op /\ rpc[d].st = st

Took(d) == rpc' = [rpc EXCEPT ![d] = NoRpc]

Goto(d, label) == pc' = [pc EXCEPT ![d] = label]

\* Mutant: the in-process session goes, its lock entry stays.
LeaveForgettingLock(d) ==
  /\ Goto(d, "done")
  /\ loc' = [loc EXCEPT ![d] = NoLocals]
  /\ sess' = [sess EXCEPT ![d] = @ \ {Coord[d]}]
  /\ UNCHANGED <<lock, mute, cut, adrift>>


\* An early return before the async block: the sessions map is dropped.  The
\* in-process session takes its lock with it, a TCP handler will read EOF.
Leave(d) ==
  /\ Goto(d, "done")
  /\ loc' = [loc EXCEPT ![d] = NoLocals]
  /\ sess' = [sess EXCEPT ![d] = @ \ {Coord[d]}]
  /\ lock' = [lock EXCEPT ![Coord[d]] =
                IF Coord[d] \in sess[d] THEN NoLock ELSE @]
  /\ UNCHANGED <<mute, cut, adrift>>

\* The async block ended with r; its locals are gone, the sessions are not.
Close(d, r) ==
  /\ Goto(d, "closing")
  /\ loc' = [loc EXCEPT ![d] =
       [NoLocals EXCEPT !.opened = loc[d].opened, !.found = loc[d].found,
                        !.result = r]]

Begin(d) ==
  /\ pc[d] = "idle"
  /\ \E M \in Manifests :
       loc' = [loc EXCEPT ![d].man = M,
                 ![d].parts = Participants(releases, fleet.deployable, Coord[d])]
  /\ Goto(d, "inventory")
  /\ UNCHANGED <<store, fleet, runtime, conns, rpc>>

ListMachines(d) ==
  /\ pc[d] = "inventory"
  /\ \/ /\ loc' = [loc EXCEPT ![d].seen = fleet]
        /\ Goto(d, "opening")
        /\ UNCHANGED conns
     \/ Leave(d)
  /\ UNCHANGED <<store, fleet, runtime, rpc>>

\* Sessions are opened in participant order.
OpenNext(d) ==
  /\ pc[d] = "opening" /\ Idle(d) /\ loc[d].opened # loc[d].parts
  /\ LET m == Least(loc[d].parts \ loc[d].opened) IN
       \/ /\ m \in loc[d].seen.known
          /\ Send(d, "open", m, NoInst)
          /\ UNCHANGED <<pc, loc, conns>>
       \/ /\ m \notin loc[d].seen.known
          /\ Leave(d)
          /\ UNCHANGED rpc
  /\ UNCHANGED <<store, fleet, runtime>>

OpenReply(d) ==
  /\ \/ /\ Answered(d, "open", "ok")
        /\ loc' = [loc EXCEPT ![d].opened = @ \cup {rpc[d].mach}]
        /\ UNCHANGED <<pc, conns>>
     \/ /\ Answered(d, "open", "err")
        /\ Leave(d)
  /\ Took(d)
  /\ UNCHANGED <<store, fleet, runtime>>

\* Recompute the plan under the locks, then write the Applying record.
Revalidate(d) ==
  /\ pc[d] = "opening" /\ Idle(d) /\ loc[d].opened = loc[d].parts
  /\ \/ /\ Participants(releases, fleet.deployable, Coord[d]) = loc[d].parts
        /\ record' = [record EXCEPT ![d] = "applying"]
        /\ loc' = [loc EXCEPT ![d].gone = Removed(releases, loc[d].man),
             ![d].plan = Placement(Work(releases,
               DeployableMachines(fleet.deployable, Coord[d]), loc[d].man))]
        /\ Goto(d, "planning")
     \/ /\ Close(d, "err")
        /\ record' \in {record, [record EXCEPT ![d] = "applying"]}
  /\ UNCHANGED <<releases, revisions, ready, draining, fleet, runtime, conns, rpc>>

\* Read the releases again and place the slots on the machines listed before
\* the locks were taken; some of those records have aged since.
PlanSlots(d) ==
  /\ pc[d] = "planning"
  /\ \/ \E fresh \in SUBSET loc[d].seen.deployable :
          /\ loc' = [loc EXCEPT ![d].todo =
               Work(releases, DeployableMachines(fresh, Coord[d]), loc[d].man)]
          /\ Goto(d, "working")
     \/ Close(d, "err")
  /\ UNCHANGED <<store, fleet, runtime, conns, rpc>>

Pending(d) == {x \in loc[d].todo : x.svc \in loc[d].reg}

\* Mutant: a failed upsert of the revision is ignored.
RegisterIgnoringError(d) ==
  /\ pc[d] = "working" /\ Idle(d) /\ Pending(d) = {}
  /\ \E s \in DOMAIN loc[d].man \ loc[d].reg :
       /\ revisions' \in {revisions, revisions \cup {<<s, loc[d].man[s].rev>>}}
       /\ loc' = [loc EXCEPT ![d].reg = @ \cup {s}]
  /\ UNCHANGED <<releases, ready, draining, record, fleet, runtime, conns, rpc, pc>>

\* Next service of the manifest: upsert its revision.
Register(d) ==
  /\ pc[d] = "working" /\ Idle(d) /\ Pending(d) = {}
  /\ \E s \in DOMAIN loc[d].man \ loc[d].reg :
       \/ /\ revisions' = revisions \cup {<<s, loc[d].man[s].rev>>}
          /\ loc' = [loc EXCEPT ![d].reg = @ \cup {s}]
          /\ UNCHANGED pc
       \/ /\ Close(d, "err")
          /\ revisions' \in {revisions, revisions \cup {<<s, loc[d].man[s].rev>>}}
  /\ UNCHANGED <<releases, ready, draining, record, fleet, runtime, conns, rpc>>

\* Mutant: the slot records the instance of the plan, not the one started.
PlacedAsPlanned(d, x, i) ==
  loc' = [loc EXCEPT ![d].todo = @ \ {x}, ![d].built = @ \cup {x}]

Placed(d, x, i) ==
  loc' = [loc EXCEPT ![d].todo = @ \ {x}, ![d].built = @ \cup {[x EXCEPT !.inst = i]}]

KeepSlot(d) ==
  /\ pc[d] = "working" /\ Idle(d)
  /\ \E x \in Pending(d) : x.inst # NoInst /\ Placed(d, x, x.inst)
  /\ UNCHANGED <<store, fleet, runtime, conns, rpc, pc>>

Candidate(d, x) ==
  [deploy |-> d, svc |-> x.svc, slot |-> x.slot, mach |-> x.mach,
   rev |-> loc[d].man[x.svc].rev]

StartSlot(d) ==
  /\ pc[d] = "working" /\ Idle(d)
  /\ \E x \in Pending(d) :
       /\ x.inst = NoInst
       /\ \/ /\ x.mach \in loc[d].opened
             /\ Send(d, "start", x.mach, Candidate(d, x))
             /\ UNCHANGED <<pc, loc>>
          \/ /\ x.mach \notin loc[d].opened
             /\ Close(d, "err")
             /\ UNCHANGED rpc
  /\ UNCHANGED <<store, fleet, runtime, conns>>

\* The reply carries the status row; the coordinator upserts it a second time.
StartReply(d) ==
  /\ \/ /\ Answered(d, "start", "ok")
        /\ ready' = ready \cup {rpc[d].inst}
        /\ draining' = draining \ {rpc[d].inst}
        /\ \E x \in Pending(d) :
             x.inst = NoInst /\ Candidate(d, x) = rpc[d].inst /\ Placed(d, x, rpc[d].inst)
        /\ UNCHANGED pc
     \/ /\ Answered(d, "start", "ok")
        /\ Close(d, "err")
        /\ ready' \in {ready, ready \cup {rpc[d].inst}}
        /\ draining' = draining \ (ready' \ ready)
     \/ /\ Answered(d, "start", "err")
        /\ Close(d, "err")
        /\ UNCHANGED <<ready, draining>>
  /\ Took(d)
  /\ UNCHANGED <<releases, revisions, record, fleet, runtime, conns>>

\* One transaction: releases and the Committed record.  When its reply is lost
\* apply fails although the deploy is committed.
Commit(d) ==
  /\ pc[d] = "working" /\ Idle(d)
  /\ loc[d].todo = {} /\ loc[d].reg = DOMAIN loc[d].man
  /\ \/ /\ releases' = CommitReleases(releases, loc[d].gone, loc[d].man, loc[d].built)
        /\ record' = [record EXCEPT ![d] = "committed"]
        /\ \/ Goto(d, "listing") /\ UNCHANGED loc
           \/ Close(d, "err")
     \/ /\ Close(d, "err")
        /\ UNCHANGED <<releases, record>>
  /\ UNCHANGED <<revisions, ready, draining, fleet, runtime, conns, rpc>>

ListCleanup(d) ==
  /\ pc[d] = "listing"
  /\ \/ /\ loc' = [loc EXCEPT ![d].clean =
                     Stale(ready \cup draining, loc[d].built, loc[d].parts)]
        /\ Goto(d, "cleaning")
     \/ Close(d, "err")
  /\ UNCHANGED <<store, fleet, runtime, conns, rpc>>

DrainNext(d) ==
  /\ pc[d] = "cleaning" /\ Idle(d)
  /\ \E i \in loc[d].clean : Send(d, "drain", i.mach, i)
  /\ UNCHANGED <<store, fleet, runtime, conns, pc, loc>>

DrainReply(d) ==
  /\ \/ /\ Answered(d, "drain", "ok")
        /\ Send(d, "remove", rpc[d].mach, rpc[d].inst)
        /\ UNCHANGED loc
     \/ /\ Answered(d, "drain", "err")
        /\ loc' = [loc EXCEPT ![d].clean = @ \ {rpc[d].inst}, ![d].errors = "some"]
        /\ Took(d)
  /\ UNCHANGED <<store, fleet, runtime, conns, pc>>

RemoveReply(d) ==
  /\ rpc[d].op = "remove" /\ rpc[d].st \in {"ok", "err"}
  /\ loc' = [loc EXCEPT ![d].clean = @ \ {rpc[d].inst},
                        ![d].errors = IF rpc[d].st = "err" THEN "some" ELSE @]
  /\ Took(d)
  /\ UNCHANGED <<store, fleet, runtime, conns, pc>>

\* Cleanup is over; errors turn the record into CleanupPending.
Finish(d) ==
  /\ pc[d] = "cleaning" /\ Idle(d) /\ loc[d].clean = {}
  /\ \/ loc[d].errors = "none" /\ Close(d, "committed") /\ UNCHANGED record
     \/ /\ loc[d].errors = "some"
        /\ \/ /\ record' = [record EXCEPT ![d] = "cleanup_pending"]
              /\ Close(d, "cleanup_pending") \/ Close(d, "err")
           \/ Close(d, "err") /\ UNCHANGED record
  /\ UNCHANGED <<releases, revisions, ready, draining, fleet, runtime, conns, rpc>>

\* Sessions are closed in machine order, whatever the result.
CloseNext(d) ==
  /\ pc[d] = "closing" /\ Idle(d) /\ loc[d].opened # {}
  /\ Send(d, "close", Least(loc[d].opened), NoInst)
  /\ UNCHANGED <<store, fleet, runtime, conns, pc, loc>>

CloseReply(d) ==
  /\ rpc[d].op = "close" /\ rpc[d].st \in {"ok", "err"}
  /\ loc' = [loc EXCEPT ![d].opened = @ \ {rpc[d].mach}]
  /\ Took(d)
  /\ UNCHANGED <<store, fleet, runtime, conns, pc>>

Return(d) ==
  /\ pc[d] = "closing" /\ Idle(d) /\ loc[d].opened = {}
  /\ Goto(d, "done")
  /\ loc' = [loc EXCEPT ![d] = NoLocals]
  /\ UNCHANGED <<store, fleet, runtime, conns, rpc>>

-----------------------------------------------------------------------------
(* The deploy agent of a participant: one action per frame, two for the    *)
(* candidate start, whose readiness wait is long.                          *)

\* The frame of d that machine m may handle now.
Frame(d, op) == rpc[d].op = op /\ rpc[d].st = "sent"

Live(d) == rpc[d].mach \in sess[d] \ cut[d]

\* The reply of a handler; a coordinator that died does not read it.
Reply(d, st) ==
  rpc' = [rpc EXCEPT ![d] = IF pc[d] = "dead" THEN NoRpc ELSE [@ EXCEPT !.st = st]]

\* The session of d on m is dropped, and its lock with it.
Release(d, m) ==
  /\ lock' = [lock EXCEPT ![m] = NoLock]
  /\ sess' = [sess EXCEPT ![d] = @ \ {m}]
  /\ cut' = [cut EXCEPT ![d] = @ \ {m}]

\* try_acquire, then adoption of the containers without a status row; adoption
\* is skipped when there is no container runtime, and a failure part way
\* through it drops the lock again.
OpenSession(d) ==
  /\ Frame(d, "open")
  /\ LET m == rpc[d].mach IN
       \/ /\ lock[m] = NoLock
          /\ lock' = [lock EXCEPT ![m] = d]
          /\ sess' = [sess EXCEPT ![d] = @ \cup {m}]
          /\ \/ /\ ready' = ready \cup Adoptable(m)
                /\ loc' = [loc EXCEPT ![d].found =
                             IF pc[d] = "dead" THEN @ ELSE @ \cup {m}]
             \/ UNCHANGED <<ready, loc>>
          /\ Reply(d, "ok")
       \/ /\ lock[m] = NoLock
          /\ \E S \in SUBSET Adoptable(m) : ready' = ready \cup S
          /\ Reply(d, "err")
          /\ UNCHANGED <<lock, sess, loc>>
       \/ /\ lock[m] # NoLock
          /\ Reply(d, "err")
          /\ UNCHANGED <<lock, sess, ready, loc>>
  /\ UNCHANGED <<releases, revisions, draining, record, fleet, runtime, mute, cut, adrift, pc>>

\* The instance id is new, so no status row is found for it.
EnsureContainer(d) ==
  /\ Frame(d, "start") /\ Live(d)
  /\ \/ /\ containers' = containers \cup {rpc[d].inst}
        /\ \/ rpc' = [rpc EXCEPT ![d].st = "busy"]
           \/ Reply(d, "err")
     \/ Reply(d, "err") /\ UNCHANGED containers
  /\ UNCHANGED <<store, fleet, probed, conns, pc, loc>>

\* Mutant: the status row is written without waiting for readiness.
WaitReadySkipped(d) ==
  /\ rpc[d].op = "start" /\ rpc[d].st = "busy"
  /\ ready' = ready \cup {rpc[d].inst} /\ Reply(d, "ok")
  /\ UNCHANGED <<releases, revisions, draining, record, fleet, runtime, conns, pc, loc>>

\* The readiness check, tried for as long as the spec says, passes.
BecomesReady(d) == probed' = probed \cup {rpc[d].inst}

WaitReady(d) ==
  /\ rpc[d].op = "start" /\ rpc[d].st = "busy"
  /\ \/ /\ BecomesReady(d)
        /\ \/ ready' = ready \cup {rpc[d].inst} /\ (Reply(d, "ok") \/ Reply(d, "err"))
           \/ UNCHANGED ready /\ Reply(d, "err")
     \/ Reply(d, "err") /\ UNCHANGED <<probed, ready>>
  /\ UNCHANGED <<releases, revisions, draining, record, fleet, containers, conns, pc, loc>>

DrainInstance(d) ==
  /\ Frame(d, "drain") /\ Live(d)
  /\ \/ /\ ready' = ready \ {rpc[d].inst}
        /\ draining' = draining \cup ({rpc[d].inst} \cap ready)
        /\ Reply(d, "ok") \/ Reply(d, "err")
     \/ Reply(d, "err") /\ UNCHANGED <<ready, draining>>
  /\ UNCHANGED <<releases, revisions, record, fleet, runtime, conns, pc, loc>>

\* Remove the container, then its row; the second step may fail alone.
RemoveInstance(d) ==
  /\ Frame(d, "remove") /\ Live(d)
  /\ LET i == rpc[d].inst IN
       \/ /\ containers' = IF i \in ready \cup draining THEN containers \ {i} ELSE containers
          /\ ready' = ready \ {i}
          /\ draining' = draining \ {i}
          /\ Reply(d, "ok") \/ Reply(d, "err")
       \/ /\ i \in ready \cup draining
          /\ containers' = containers \ {i}
          /\ Reply(d, "err")
          /\ UNCHANGED <<ready, draining>>
       \/ Reply(d, "err") /\ UNCHANGED <<containers, ready, draining>>
  /\ UNCHANGED <<releases, revisions, record, fleet, probed, conns, pc, loc>>

\* The in-process session is dropped by close; a TCP handler answers first and
\* drops its session after that (HandlerEof).
CloseSession(d) ==
  /\ Frame(d, "close") /\ Live(d)
  /\ \/ rpc[d].mach = Coord[d] /\ Release(d, rpc[d].mach)
     \/ rpc[d].mach # Coord[d] /\ UNCHANGED <<lock, sess, cut>>
  /\ Reply(d, "ok")
  /\ UNCHANGED <<store, fleet, runtime, mute, adrift, pc, loc>>

-----------------------------------------------------------------------------
(* Faults and the environment. *)

\* A TCP handler ends: it answered Close, or it reads EOF because the peer
\* dropped the connection or died, or because the connection broke.  An unread
\* frame of a dead peer may be lost with it.
HandlerEof(d, m) ==
  /\ m \in sess[d] \ (mute[d] \cup {Coord[d]})
  /\ {i \in adrift : i.deploy = d /\ i.mach = m} = {}
  /\ \/ m \in cut[d]
     \/ m \notin loc[d].opened /\ rpc[d].mach # m
     \/ rpc[d].mach = m /\ pc[d] = "dead" /\ rpc[d].st = "sent"
     \/ rpc[d].mach = m /\ Answered(d, "close", "ok")
  /\ Release(d, m)
  /\ rpc' = [rpc EXCEPT ![d] = IF @.mach = m /\ pc[d] = "dead" THEN NoRpc ELSE @]
  /\ UNCHANGED <<store, fleet, runtime, mute, adrift, pc, loc>>

\* connect fails, or the Open frame does.
ConnectFail(d) ==
  /\ Frame(d, "open") /\ rpc[d].mach # Coord[d]
  /\ Reply(d, "err")
  /\ UNCHANGED <<store, fleet, runtime, conns, pc, loc>>

\* Mutant: only the close frame notices that the connection is gone.
SessionGoneOnClose(d) ==
  /\ rpc[d].st = "sent" /\ rpc[d].op = "close" /\ ~Live(d)
  /\ Reply(d, "err")
  /\ UNCHANGED <<store, fleet, runtime, conns, pc, loc>>

\* A frame sent on a connection whose handler is gone.
SessionGone(d) ==
  /\ rpc[d].st = "sent" /\ rpc[d].op # "open" /\ ~Live(d)
  /\ Reply(d, "err")
  /\ UNCHANGED <<store, fleet, runtime, conns, pc, loc>>

\* The connection of a live coordinator breaks, or the participant restarts its
\* listener: a frame in flight fails for the coordinator, but a candidate start
\* that the handler is busy with goes on.
ConnBreak(d, m) ==
  /\ pc[d] # "dead" /\ m \in Flaky \ {Coord[d]}
  /\ m \in (sess[d] \ cut[d]) \cap (loc[d].opened \cup {rpc[d].mach})
  /\ cut' = [cut EXCEPT ![d] = @ \cup {m}]
  /\ adrift' = IF rpc[d].mach = m /\ rpc[d].st = "busy"
               THEN adrift \cup {rpc[d].inst} ELSE adrift
  /\ rpc' = [rpc EXCEPT ![d] = IF @.mach = m THEN [@ EXCEPT !.st = "err"] ELSE @]
  /\ UNCHANGED <<store, fleet, runtime, lock, sess, mute, pc, loc>>

\* Such a candidate start ends; the handler cannot write its reply and stops.
FinishUnheard(d) ==
  \E i \in adrift :
    /\ i.deploy = d
    /\ \/ /\ probed' = probed \cup {i}
          /\ ready' \in {ready, ready \cup {i}}
       \/ UNCHANGED <<probed, ready>>
    /\ adrift' = adrift \ {i}
    /\ Release(d, i.mach)
    /\ UNCHANGED <<releases, revisions, draining, record, fleet, containers, mute, rpc, pc, loc>>

Running(m) == {d \in Deploys : Coord[d] = m /\ pc[d] \notin {"idle", "done", "dead"}}

InFlight(d) == rpc[d].st \in {"sent", "busy"}

\* The daemon of m dies and restarts: the applies it ran, its lock table and
\* its session handlers are gone, containers and the store are not.  Peers see
\* closed connections, unless the whole host was lost.
Crash(m, silent) ==
  /\ Running(m) # {} \/ lock[m] # NoLock
  /\ pc' = [d \in Deploys |-> IF d \in Running(m) THEN "dead" ELSE pc[d]]
  /\ loc' = [d \in Deploys |-> IF d \in Running(m) THEN NoLocals ELSE loc[d]]
  /\ lock' = [lock EXCEPT ![m] = NoLock]
  /\ sess' = [d \in Deploys |-> sess[d] \ {m}]
  /\ mute' = [d \in Deploys |->
       IF silent /\ d \in Running(m)
       THEN {n \in sess[d] \ {m} : ~(InFlight(d) /\ rpc[d].mach = n)}
       ELSE mute[d] \ {m}]
  /\ cut' = [d \in Deploys |-> IF d \in Running(m) THEN {} ELSE cut[d] \ {m}]
  /\ adrift' = {i \in adrift : i.mach # m}
  /\ rpc' = [d \in Deploys |->
       IF d \in Running(m) \/ pc[d] = "dead"
       THEN IF InFlight(d) /\ rpc[d].mach # m THEN rpc[d] ELSE NoRpc
       ELSE IF rpc[d].mach = m /\ InFlight(d)
            THEN [rpc[d] EXCEPT !.st =
                    IF silent /\ rpc[d].st = "busy" THEN "lost" ELSE "err"]
            ELSE rpc[d]]
  /\ UNCHANGED <<store, fleet, runtime>>

\* Machines refresh, disable or remove their records.
FleetChange ==
  /\ fleet' \in Fleets \ {fleet}
  /\ UNCHANGED <<store, runtime, conns, rpc, pc, loc>>

\* Nothing runs, no lock is held and every deploy has been tried.
Quiescent ==
  /\ \A d \in Deploys : pc[d] \in {"done", "dead"} /\ sess[d] = {} /\ Idle(d)
  /\ UNCHANGED vars

-----------------------------------------------------------------------------
Init ==
  /\ releases = [s \in Services |-> NoRelease]
  /\ revisions = {} /\ ready = {} /\ draining = {}
  /\ record = [d \in Deploys |-> "none"]
  /\ fleet \in Fleets
  /\ containers = {} /\ probed = {}
  /\ lock = [m \in Machines |-> NoLock]
  /\ sess = [d \in Deploys |-> {}] /\ mute = [d \in Deploys |-> {}]
  /\ cut = [d \in Deploys |-> {}] /\ adrift = {}
  /\ rpc = [d \in Deploys |-> NoRpc]
  /\ pc = [d \in Deploys |-> "idle"]
  /\ loc = [d \in Deploys |-> NoLocals]

Apply(d) ==
  \/ ListMachines(d) \/ OpenNext(d) \/ OpenReply(d) \/ Revalidate(d)
  \/ PlanSlots(d) \/ Register(d) \/ KeepSlot(d) \/ StartSlot(d) \/ StartReply(d)
  \/ Commit(d) \/ ListCleanup(d) \/ DrainNext(d) \/ DrainReply(d)
  \/ RemoveReply(d) \/ Finish(d) \/ CloseNext(d) \/ CloseReply(d) \/ Return(d)

Agent(d) ==
  \/ OpenSession(d) \/ EnsureContainer(d) \/ WaitReady(d) \/ DrainInstance(d)
  \/ RemoveInstance(d) \/ CloseSession(d) \/ FinishUnheard(d)
  \/ SessionGone(d) \/ \E m \in Machines : HandlerEof(d, m)

Fault ==
  \/ \E d \in Deploys : ConnectFail(d) \/ \E m \in Machines : ConnBreak(d, m)
  \/ \E m \in Crashable, silent \in {FALSE, SilentLoss} : Crash(m, silent)

Next ==
  \/ \E d \in Deploys : Begin(d) \/ Apply(d) \/ Agent(d)
  \/ Fault \/ FleetChange \/ Quiescent

\* Every task of a live daemon is scheduled, and a closed connection is noticed.
Fairness == \A d \in Deploys : WF_vars(Apply(d)) /\ WF_vars(Agent(d))

Spec == Init /\ [][Next]_vars /\ Fairness

-----------------------------------------------------------------------------
(* Properties *)

SlotRecs == [slot : SlotIds, mach : Machines, inst : Instances]
Items == [svc : Services, slot : SlotIds, mach : Machines, inst : Instances]
WorkItems ==
  [svc : Services, slot : SlotIds, mach : Machines, inst : Instances \cup {NoInst}]

Releases == [Services -> [rev : Revisions \cup {NoRev}, slots : SUBSET SlotRecs]]

\* What can be in flight: nothing, a session frame, or a frame on an instance.
SessionFrames ==
  [st : {"sent", "ok", "err"}, op : {"open", "close"}, mach : Machines, inst : {NoInst}]
InstanceFrames ==
  [st : {"sent", "ok", "err"}, op : {"drain", "remove"}, mach : Machines, inst : Instances]
StartFrames ==
  [st : {"sent", "busy", "ok", "err", "lost"}, op : {"start"}, mach : Machines,
   inst : Instances]
Frames == {NoRpc} \cup SessionFrames \cup InstanceFrames \cup StartFrames

Locals ==
  [man : Manifests \cup {NoManifest}, parts : SUBSET Machines,
   seen : [known : SUBSET Machines, deployable : SUBSET Machines],
   opened : SUBSET Machines, plan : SUBSET (Services \X SlotIds \X Machines),
   gone : SUBSET Services, reg : SUBSET Services, todo : SUBSET WorkItems,
   built : SUBSET Items, clean : SUBSET Instances, errors : {"none", "some"},
   found : SUBSET Machines,
   result : {"none", "err", "committed", "cleanup_pending"}]

Labels == {"idle", "inventory", "opening", "planning", "working", "listing",
           "cleaning", "closing", "done", "dead"}

\* Type correctness of the tables, the lock tables, the sessions, the frames in
\* flight and the locals of apply.
TypeOK ==
  /\ releases \in Releases
  /\ revisions \subseteq Services \X Revisions
  /\ ready \subseteq Instances /\ draining \subseteq Instances
  /\ record \in [Deploys -> {"none", "applying", "committed", "cleanup_pending"}]
  /\ fleet \in Fleets
  /\ containers \subseteq Instances /\ probed \subseteq Instances
  /\ lock \in [Machines -> Deploys \cup {NoLock}]
  /\ sess \in [Deploys -> SUBSET Machines] /\ mute \in [Deploys -> SUBSET Machines]
  /\ cut \in [Deploys -> SUBSET Machines] /\ adrift \subseteq Instances
  /\ rpc \in [Deploys -> Frames]
  /\ pc \in [Deploys -> Labels]
  /\ loc \in [Deploys -> Locals]

\* Mutual exclusion of deploys on a machine: the namespace lock of a machine is
\* held by d exactly while a session handler for d is alive there, so a lock
\* never outlives its session (locks.rs, Drop) nor a session its lock.
SessionHoldsLock ==
  \A d \in Deploys, m \in Machines : m \in sess[d] <=> lock[m] = d

\* What the gateway may route to passed its readiness wait: every instance a
\* committed release points at was probed (apply commits only instances that
\* start_candidate returned or that an earlier release had).
RoutedAreProbed == Active \subseteq probed

\* Every committed release points at a revision that is in the ledger, so that
\* the routing projection and deploy export never miss a revision.
ReleasedRevisionsRegistered ==
  \A s \in Services : releases[s] # NoRelease => <<s, releases[s].rev>> \in revisions

\* No window with a half-deployed state: the instances of the committed
\* releases exist and are ready, whatever other deploys clean up or abandon.
ActiveAreLive == Active \subseteq containers \cap ready



\* A call of apply always comes to an end: it returns or its daemon dies.
ApplyEnds ==
  \A d \in Deploys : pc[d] = "inventory" ~> pc[d] \in {"done", "dead"}

\* Deploys are serializable: the release table moves from manifest to manifest
\* as if the deploys had run one at a time, although each one reads the table
\* several times before its commit.
Committed == {d \in Deploys : record[d] \in {"committed", "cleanup_pending"}}
Table == INSTANCE ReleaseTable WITH committed <- Committed

=============================================================================
