----------------------------- MODULE NodeRuntime -----------------------------
(***************************************************************************)
(* One machine: the daemon (ployzd), its exclusive requests (mesh init,    *)
(* join, up, down, destroy), the resume at start, the subnet heal, and the *)
(* infrastructure they leave on the host: the WireGuard interface or       *)
(* container, the Docker bridge network, Corrosion, the gateway and DNS.   *)
(*                                                                         *)
(* A request holds the daemon's write lock, so at most one runs at a time; *)
(* it is a sequence of awaits, and a crash, a shutdown or a failing call   *)
(* can fall between any two of them.  `job' is that request and the await  *)
(* it is at.  The infrastructure (`world') and the data directory (`disk') *)
(* outlive the daemon; `mesh' and `active' are its memory.                 *)
(***************************************************************************)
EXTENDS Naturals, FiniteSets, ContainerEngine

CONSTANTS Networks,     \* network names
          Subnets,      \* machine subnets
          FirstSubnet,  \* the one Ipam::allocate returns first
          Targets,      \* "docker" (containers), "system" (host interface, systemd)
          MaxId,        \* bound: container ids of ployz-networking
          MaxFaults,    \* bound: failing calls
          MaxStops,     \* bound: crashes, shutdowns and reboots
          MaxHeals      \* bound: subnet heals

ASSUME SubnetAssumption == FirstSubnet \in Subnets

VARIABLES
    target,  \* the runtime profile
    disk,    \* [marker, config]: the active_network file, the saved configs
    world,   \* [net, bridge, svc, work]: what is on the host
    up,      \* the daemon process runs
    mesh,    \* the Mesh object: [net, sub, phase, tasks, dp], or None
    active,  \* DaemonState.active: [net, sub, gw, dns], or None
    job,     \* the exclusive request in progress, or None
    used,    \* [faults, stops, heals]: how much of the bounds is used
    marks    \* history: [healed, clobbered, torn], for the premises of the properties

vars == <<target, disk, world, up, mesh, active, job, used, marks>>

Docker == target = "docker"
Sidecars == {"gw", "dns"}
Kinds == Sidecars \cup {"corro"}
Ids == 0..MaxId

(* Container names are fixed, systemd unit names carry the network, and a   *)
(* host Corrosion is the one child of the daemon.                           *)
Services == Kinds \X (Networks \cup {None})
Service(k, n) == <<k, IF Docker \/ k = "corro" THEN None ELSE n>>
Put(w, k, n, obs) == [w EXCEPT !.svc[Service(k, n)] = obs]

Phases == {"Stopped", "Starting", "Provisioning", "Bootstrapping", "Running", "Stopping"}

(* phase.rs: the transitions that are not errors.                          *)
transition(phase, event) ==
    CASE event = "UpRequested" /\ phase = "Stopped" -> "Starting"
      [] event = "NetworkReady" /\ phase = "Starting" -> "Provisioning"
      [] event = "ComponentsStarted" /\ phase = "Provisioning" -> "Bootstrapping"
      [] event = "SyncComplete" /\ phase = "Bootstrapping" -> "Running"
      [] event = "ComponentFailed"
         /\ phase \in {"Starting", "Provisioning", "Bootstrapping"} -> "Stopped"
      [] event = "DetachRequested" /\ phase = "Running" -> "Stopped"
      [] event = "DestroyRequested" /\ phase # "Stopping" -> "Stopping"
      [] event = "TeardownComplete" /\ phase = "Stopping" -> "Stopped"
      [] OTHER -> "invalid"

ApplyUnchecked(m, event) == [m EXCEPT !.phase = transition(m.phase, event)]
(* Mesh::apply: an invalid event is an error and leaves the phase alone.   *)
apply(m, event) ==
    IF transition(m.phase, event) = "invalid"
    THEN m
    ELSE [m EXCEPT !.phase = transition(m.phase, event)]

TypeOK ==
    /\ target \in Targets
    /\ disk.marker \in Networks \cup {None}
    /\ \A n \in Networks : disk.config[n] \in Subnets \cup {None}
    /\ world.net = None
       \/ (/\ world.net.id \in Ids /\ world.net.on \subseteq Networks
           /\ world.net.iface \in {"bare", "half", "up"})
    /\ world.bridge \in [Networks -> Subnets \cup {None}]
    /\ \A x \in Services : world.svc[x] = None \/ world.svc[x].parent \in Ids \cup {None}
    /\ world.work \in Networks \cup {"none", "stopped"}
    /\ up \in BOOLEAN
    /\ mesh = None \/ mesh.phase \in Phases
    /\ active # None => active.net \in Networks
    /\ job # None => up
    /\ used.faults <= MaxFaults /\ used.stops <= MaxStops
    /\ marks \in [healed : BOOLEAN, clobbered : BOOLEAN, torn : SUBSET Networks]

Init ==
    /\ target \in Targets
    /\ disk = [marker |-> None, config |-> [n \in Networks |-> None]]
    /\ world = [net |-> None, bridge |-> [n \in Networks |-> None],
                svc |-> [x \in Services |-> None], work |-> "none"]
    /\ up = TRUE /\ mesh = None /\ active = None /\ job = None
    /\ used = [faults |-> 0, stops |-> 0, heals |-> 0]
    /\ marks = [healed |-> FALSE, clobbered |-> FALSE, torn |-> {}]

-----------------------------------------------------------------------------
(* The data directory: NetworkConfig::save, load and delete, and the marker. *)

Saved(d, n, s) == [d EXCEPT !.config[n] = s]
Deleted(d, n) == [d EXCEPT !.config[n] = None]
write_active_marker(d, n) == [d EXCEPT !.marker = n]
clear_active_marker(d) == [d EXCEPT !.marker = None]

-----------------------------------------------------------------------------
(* Faults, and the steps of the request in progress.                       *)

Idle == up /\ job = None
At(pc) == job # None /\ job.pc = pc
Go(pc) == job' = [job EXCEPT !.pc = pc]
Touching(j, X) == IF j.healthy THEN [j EXCEPT !.touched = @ \cup X] ELSE j
GoTouching(pc, X) == job' = [Touching(job, X) EXCEPT !.pc = pc]
Fault == /\ used.faults < MaxFaults
         /\ used' = [used EXCEPT !.faults = @ + 1]
NoFault == UNCHANGED used

(* The parent a container of the daemon is bound to: the id of the         *)
(* ployz-networking container (resolve_parent_id), none under systemd.     *)
Parent == IF Docker /\ world.net # None THEN world.net.id ELSE None

(* build_mesh_components and from_runtime: which driver stands behind the   *)
(* mesh's network, its store, and the sidecars.                             *)
docker_components == [network |-> "DockerWireGuard", bridge |-> "docker"]
host_components == [network |-> "HostWireGuard", bridge |-> "docker"]
build_mesh_components ==
    IF Docker
    THEN [mesh |-> docker_components, store_runtime |-> "DockerCorrosion"]
    ELSE [mesh |-> host_components, store_runtime |-> "HostCorrosion"]
sidecar_supervision == IF Docker THEN "DockerContainer" ELSE "Systemd"
Network(driver) == build_mesh_components.mesh.network = driver

There(k, n) == world.svc[Service(k, n)]

StoreStart(n) ==
    IF build_mesh_components.store_runtime = "DockerCorrosion"
    THEN DockerCorrosionStart(There("corro", n), n, Parent)
    ELSE HostCorrosionStart(There("corro", n), n)
StoreStop(n) ==
    IF build_mesh_components.store_runtime = "DockerCorrosion"
    THEN DockerCorrosionStop(There("corro", n))
    ELSE HostCorrosionStop(There("corro", n))

(* SidecarHandle::ensure and shutdown.                                      *)
SidecarEnsure(there, spec) ==
    IF sidecar_supervision = "DockerContainer"
    THEN ensure_docker(there, spec, Parent)
    ELSE ensure_systemd(there, spec)
SidecarShutdown(there) ==
    IF sidecar_supervision = "DockerContainer" THEN DockerShutdown(there)
                                               ELSE SystemdShutdown(there)
start_gateway(n) == SidecarEnsure(There("gw", n), build_gateway_sidecar_spec(n))
start_dns(n) == SidecarEnsure(There("dns", n), build_dns_sidecar_spec(n))

Start(k, n) ==
    CASE k = "corro" -> StoreStart(n) [] k = "gw" -> start_gateway(n) [] k = "dns" -> start_dns(n)
Untouched(k, n) == Start(k, n).action = "Adopted"
Stopped(w, k, n) == Put(w, k, n, SidecarShutdown(w.svc[Service(k, n)]).done)
(* Outcomes of a shutdown that fails.                                       *)
NotStopped(k, n) == {Put(world, k, n, obs) : obs \in SidecarShutdown(There(k, n)).failed}

(* A service runs; it runs for this network, beside the networking          *)
(* container there is now.                                                  *)
IsRunning(k, n) == There(k, n) # None /\ There(k, n).run
ServesNow(k, n) ==
    /\ IsRunning(k, n)
    /\ There(k, n).spec = IF k = "corro" /\ ~Docker THEN host_corrosion_runtime(n) ELSE SpecOf(k, n)
    /\ There(k, n).parent = Parent

(* Everything a running machine needs, and in the shape the daemon wants.  *)
Healthy(n) ==
    /\ world.net # None /\ world.net.iface = "up" /\ (Docker => n \in world.net.on)
    /\ world.bridge[n] = disk.config[n] /\ world.bridge[n] # None
    /\ \A k \in Kinds : (k = "corro" /\ ~Docker) \/ ServesNow(k, n)

NewJob(op, n, pc) ==
    [op |-> op, net |-> n, pc |-> pc, after |-> "none",
     err |-> FALSE, sub |-> None, gw |-> FALSE, dns |-> FALSE,
     healthy |-> op = "resume" /\ Healthy(n), touched |-> {}]

(* Dropping the Mesh drops the child Corrosion of a host runtime           *)
(* (kill_on_drop); containers stay.                                        *)
Dropped(w) == IF Docker THEN w ELSE [w EXCEPT !.svc[<<"corro", None>>] = None]

(* A start that failed: the request answers with an error; the resume also *)
(* forgets which network was active.                                       *)
StartFailed(w) ==
    /\ world' = Dropped(w)
    /\ mesh' = None /\ job' = None
    /\ disk' = IF job.op = "resume" THEN clear_active_marker(disk) ELSE disk
    /\ UNCHANGED <<target, up, active, marks>>

HealFailed == job' = None /\ UNCHANGED <<target, disk, up, marks>>

-----------------------------------------------------------------------------
(* Requests that open a job (handlers/mesh.rs, app.rs, heal.rs).  Their     *)
(* early returns answer with an error and change nothing.                   *)

Open(op, n, pc) ==
    /\ Idle
    /\ job' = NewJob(op, n, pc)
    /\ UNCHANGED <<target, world, up, mesh, active, used, marks>>

RunsNetwork(n) == active # None /\ active.net = n

create_network_config(n) ==
    disk.config[n] = None /\ disk' = Saved(disk, n, FirstSubnet)

MeshCreate(n) ==
    /\ Idle /\ create_network_config(n)
    /\ UNCHANGED <<target, world, up, mesh, active, job, used, marks>>

MeshInit(n) ==
    /\ active = None /\ create_network_config(n)
    /\ Open("init", n, "plan")

(* The invite names the subnet.                                             *)
MeshJoin(n, s) ==
    /\ active = None /\ disk.config[n] = None
    /\ disk' = Saved(disk, n, s)
    /\ Open("join", n, "plan")

MeshUp(n) ==
    /\ active = None /\ disk.config[n] # None
    /\ Open("up", n, "plan") /\ UNCHANGED disk

MeshDown ==
    /\ active # None
    /\ Open("down", active.net, "destroy") /\ UNCHANGED disk

MeshDestroy(n) ==
    /\ RunsNetwork(n)
    /\ Open("destroy", n, "destroy") /\ UNCHANGED disk

(* Destroying a network that does not run deletes its config and removes    *)
(* the active marker, whichever network the marker names.                   *)
MeshDestroyStopped(n) ==
    /\ Idle /\ ~RunsNetwork(n) /\ disk.config[n] # None
    /\ disk' = clear_active_marker(Deleted(disk, n))
    /\ marks' = [marks EXCEPT !.clobbered = active # None,
                              !.torn = IF world.bridge[n] = None THEN @ ELSE @ \cup {n}]
    /\ UNCHANGED <<target, world, up, mesh, active, job, used>>

(* heal_local_subnet_conflict_if_needed, once it decided on a target subnet *)
(* (the decision is the subject of module Membership).                      *)
SubnetHeal(s) ==
    /\ Idle /\ active # None /\ mesh.phase = "Running" /\ s # active.sub
    /\ used.heals < MaxHeals
    /\ used' = [used EXCEPT !.heals = @ + 1]
    /\ job' = [NewJob("heal", active.net, "h_save") EXCEPT !.sub = s]
    /\ UNCHANGED <<target, disk, world, up, mesh, active, marks>>

-----------------------------------------------------------------------------
(* start_mesh: plan_mesh_start, Mesh::up (bring_up), remote control,        *)
(* gateway, DNS, publish_active.  bring_up is also the second half of       *)
(* restart_runtime_for_subnet_change.                                       *)

(* Mesh::up, an error inside bring_up: the runtime is stopped again.        *)
AbortAs == [job EXCEPT !.pc = "s_tasks", !.after = "aborted"]

NewMesh(n) ==
    [net |-> n, sub |-> disk.config[n], phase |-> "Stopped", tasks |-> FALSE, dp |-> FALSE]

PlanStart ==
    /\ At("plan")
    /\ \/ /\ NoFault /\ Go("netup")
          /\ mesh' = apply(NewMesh(job.net), "UpRequested")
          /\ UNCHANGED <<target, disk, world, up, active, marks>>
       \/ Fault /\ StartFailed(world)

FreshId ==
    CHOOSE i \in 1..MaxId :
        /\ world.net = None \/ world.net.id # i
        /\ \A x \in Services : world.svc[x] = None \/ world.svc[x].parent # i
ReadyIface == world.net # None /\ world.net.iface # "bare"
(* A failed removal is only logged; the create after it meets the name.     *)
docker_force_remove(net) == {None, net}

(* DockerWireGuard::up: a running container whose wg0 answers `wg show' is  *)
(* adopted, otherwise it is replaced and its interface set up.              *)
DockerNetworkUp ==
    /\ At("netup") /\ Network("DockerWireGuard")
    /\ UNCHANGED <<target, disk, up, active, mesh, marks>>
    /\ \/ NoFault /\ ReadyIface /\ Go("overlay") /\ UNCHANGED world
       \/ /\ NoFault /\ ~ReadyIface
          /\ world' = [world EXCEPT !.net = [id |-> FreshId, iface |-> "bare", on |-> {}]]
          /\ GoTouching("iface", {"net"})
       \/ /\ Fault /\ job' = AbortAs
          /\ \E net \in IF ReadyIface THEN {world.net} ELSE docker_force_remove(world.net) :
                world' = [world EXCEPT !.net = net]

(* HostWireGuard::up: the kernel interface is created, or used as it is,    *)
(* configured, and given the overlay route; the first error ends it there.  *)
wg_create_interface(net) ==
    IF net = None THEN [id |-> 0, iface |-> "bare", on |-> {}] ELSE net
wg_configure_interface(net) ==
    [net EXCEPT !.iface = IF @ = "bare" THEN "half" ELSE @]
add_route(net) == [net EXCEPT !.iface = "up"]
HostNetworkUp ==
    /\ At("netup") /\ Network("HostWireGuard")
    /\ UNCHANGED <<target, disk, up, active, marks>>
    /\ LET created == wg_create_interface(world.net)
           configured == wg_configure_interface(created)
       IN  \/ /\ NoFault
              /\ world' = [world EXCEPT !.net = add_route(configured)]
              /\ GoTouching("bridge", IF world.net = None THEN {"net"} ELSE {})
              /\ mesh' = apply(mesh, "NetworkReady")
           \/ /\ Fault /\ job' = AbortAs /\ UNCHANGED mesh
              /\ \E net \in {world.net, created, configured} :
                    world' = [world EXCEPT !.net = net]

(* setup_interface: link, key, address, route; the link answers `wg show'   *)
(* from the first command on.                                               *)
SetupInterface ==
    /\ At("iface")
    /\ UNCHANGED <<target, disk, up, active, mesh, marks>>
    /\ \/ /\ NoFault /\ world.net.iface = "bare" /\ UNCHANGED job
          /\ world' = [world EXCEPT !.net.iface = "half"]
       \/ /\ NoFault /\ world.net.iface = "half" /\ Go("overlay")
          /\ world' = [world EXCEPT !.net.iface = "up"]
       \/ Fault /\ job' = AbortAs /\ UNCHANGED world

(* start_bridge: the daemon's own way into the overlay.                     *)
StartOverlayBridge ==
    /\ At("overlay")
    /\ UNCHANGED <<target, disk, world, up, active, marks>>
    /\ \/ NoFault /\ Go("bridge") /\ mesh' = apply(mesh, "NetworkReady")
       \/ Fault /\ job' = AbortAs /\ UNCHANGED mesh

(* DockerBridgeNetwork::ensure adopts a bridge of that name whatever its    *)
(* subnet; connect places ployz-networking on it, at an address of the      *)
(* configured subnet, unless it is on it already at whatever address.       *)
EnsuredBridge(n, s) == IF world.bridge[n] = None THEN s ELSE world.bridge[n]
Connected(w, n) == [w EXCEPT !.net.on = @ \cup {n}]
ConnectFails(w, n, s) == n \notin w.net.on /\ w.bridge[n] # s
EnsureBridge ==
    /\ At("bridge")
    /\ UNCHANGED <<target, disk, up, mesh, active, marks>>
    /\ LET n == mesh.net
           made == [world EXCEPT !.bridge[n] = EnsuredBridge(n, mesh.sub)]
           fails == Docker /\ ConnectFails(made, n, mesh.sub)
       IN  \/ /\ NoFault /\ ~fails
              /\ world' = IF Docker THEN Connected(made, n) ELSE made
              /\ GoTouching("attach", IF world.bridge[n] = None THEN {"bridge"} ELSE {})
           \/ NoFault /\ fails /\ world' = made /\ job' = AbortAs
           \/ Fault /\ UNCHANGED world /\ job' = AbortAs

(* dataplane_factory.attach, then the pre-start peers and the handshake     *)
(* wait, whose failures are only logged.                                    *)
AttachDataplane ==
    /\ At("attach")
    /\ UNCHANGED <<target, disk, world, up, active, marks>>
    /\ \/ NoFault /\ Go("store") /\ mesh' = [mesh EXCEPT !.dp = TRUE]
       \/ Fault /\ job' = AbortAs /\ UNCHANGED mesh

(* store_runtime.start, wait_service_ready, wait_store_init.                *)
StartStore ==
    /\ At("store")
    /\ UNCHANGED <<target, disk, up, mesh, active, marks>>
    /\ LET started == StoreStart(mesh.net)
           touch == IF Untouched("corro", mesh.net) THEN {} ELSE {"corro"}
       IN  \/ /\ NoFault /\ GoTouching("sync", touch)
              /\ world' = Put(world, "corro", mesh.net, started.done)
           \/ /\ Fault /\ job' = Touching(AbortAs, touch)
              /\ \E obs \in started.failed \cup {started.done} :
                    world' = Put(world, "corro", mesh.net, obs)

(* start_peer_sync_task, then ComponentsStarted.                            *)
StartPeerSync ==
    /\ At("sync")
    /\ UNCHANGED <<target, disk, world, up, active, marks>>
    /\ \/ /\ NoFault /\ Go("gate")
          /\ mesh' = apply([mesh EXCEPT !.tasks = TRUE], "ComponentsStarted")
       \/ Fault /\ job' = AbortAs /\ UNCHANGED mesh

(* bootstrap_gate: without a known remote peer, or when the caller allows   *)
(* it, the phase advances at once; otherwise the gossip has to connect      *)
(* within the timeout.  A start fails here on the timeout or, whatever the  *)
(* caller allows, when the machines cannot be listed.                       *)
BootstrapGate ==
    /\ At("gate")
    /\ UNCHANGED <<target, disk, world, up, active, marks>>
    /\ \/ /\ NoFault /\ mesh' = apply(mesh, "SyncComplete")
          /\ Go("tasks")
       \/ Fault /\ job' = AbortAs /\ UNCHANGED mesh

(* spawn_background_tasks: a subscription that fails here fails the start   *)
(* when the phase is Running already.                                       *)
SpawnTasks ==
    /\ At("tasks")
    /\ UNCHANGED <<target, disk, world, up, mesh, active, marks>>
    /\ \/ NoFault /\ Go(IF job.op = "heal" THEN "h_publish" ELSE "remote")
       \/ Fault /\ job' = AbortAs

(* rollback_startup: dns, gateway and remote control stop (`left' are the   *)
(* ones that did not, which is only logged), the mesh is detached and       *)
(* dropped, the rest stays up.                                              *)
RollBack(w) ==
    \E left \in SUBSET Sidecars :
       LET off(v, k) == IF job[k] /\ k \notin left THEN Stopped(v, k, job.net) ELSE v
       IN  StartFailed(off(off(w, "dns"), "gw"))

StartRemoteControl ==
    /\ At("remote")
    /\ \/ NoFault /\ Go("gw") /\ UNCHANGED <<target, disk, world, up, mesh, active, marks>>
       \/ Fault /\ RollBack(world)

(* start_gateway and start_dns of the startup transaction.                  *)
StartSidecar(k, next) ==
    /\ At(k)
    /\ \/ /\ NoFault
          /\ world' = Put(world, k, job.net, Start(k, job.net).done)
          /\ job' = [Touching(job, IF Untouched(k, job.net) THEN {} ELSE {k})
                       EXCEPT !.pc = next, ![k] = TRUE]
          /\ UNCHANGED <<target, disk, up, mesh, active, marks>>
       \/ /\ Fault
          /\ \E obs \in Start(k, job.net).failed : RollBack(Put(world, k, job.net, obs))

(* publish_active: the marker is written first; failing that is a rollback. *)
PublishActive ==
    /\ At("publish")
    /\ \/ /\ NoFault
          /\ disk' = write_active_marker(disk, job.net)
          /\ active' = [net |-> job.net, sub |-> mesh.sub, gw |-> TRUE, dns |-> TRUE]
          /\ job' = None
          /\ marks' = [marks EXCEPT !.healed = FALSE, !.clobbered = FALSE]
          /\ UNCHANGED <<target, world, up, mesh>>
       \/ Fault /\ RollBack(world)

-----------------------------------------------------------------------------
(* Mesh::stop_runtime, used by a failed start, by destroy and by the heal.  *)

StopTasks ==
    /\ At("s_tasks")
    /\ \/ NoFault /\ Go("s_store")
       \/ Fault /\ mesh.tasks /\ job' = [job EXCEPT !.pc = "s_store", !.err = TRUE]
    /\ mesh' = [mesh EXCEPT !.tasks = FALSE, !.dp = FALSE]
    /\ UNCHANGED <<target, disk, world, up, active, marks>>

StopStore ==
    /\ At("s_store")
    /\ UNCHANGED <<target, disk, up, mesh, active, marks>>
    /\ \/ NoFault /\ job.op = "heal" /\ Go("s_net") /\ UNCHANGED world
       \/ /\ NoFault /\ job.op # "heal"
          /\ world' = Put(world, "corro", mesh.net, StoreStop(mesh.net).done)
          /\ GoTouching("s_net", {"corro"})
       \/ /\ Fault /\ job.op # "heal"
          /\ \E obs \in StoreStop(mesh.net).failed : world' = Put(world, "corro", mesh.net, obs)
          /\ job' = [job EXCEPT !.pc = "s_net", !.err = TRUE]

(* DockerWireGuard::down and HostWireGuard::down; a container that could    *)
(* not be removed has been stopped or not.                                  *)
docker_graceful_remove(net) ==
    [done |-> None,
     failed |-> {net} \cup IF net = None THEN {}
                          ELSE {[net EXCEPT !.iface = "bare", !.on = {}]}]
NetworkIsDown(down) ==
    /\ UNCHANGED <<target, disk, up, mesh, active, marks>>
    /\ \/ /\ NoFault /\ world' = [world EXCEPT !.net = down.done]
          /\ GoTouching("s_bridge", {"net"})
       \/ /\ Fault /\ \E net \in down.failed : world' = [world EXCEPT !.net = net]
          /\ job' = [job EXCEPT !.pc = "s_bridge", !.err = TRUE]
DockerNetworkDown ==
    /\ At("s_net") /\ Network("DockerWireGuard")
    /\ NetworkIsDown(docker_graceful_remove(world.net))
(* The route goes first, whether or not the interface can be removed.       *)
del_route(net) ==
    IF net # None /\ net.iface = "up" THEN [net EXCEPT !.iface = "half"] ELSE net
wg_remove_interface(net) == [done |-> None, failed |-> {net, del_route(net)}]
HostNetworkDown ==
    /\ At("s_net") /\ Network("HostWireGuard")
    /\ NetworkIsDown(wg_remove_interface(world.net))

(* Docker refuses to remove a network that still has endpoints.             *)
BridgeInUse ==
    \/ world.work = mesh.net
    \/ world.net # None /\ mesh.net \in world.net.on
BridgeRemoval ==
    \/ /\ NoFault /\ ~BridgeInUse
       /\ world' = [world EXCEPT !.bridge[mesh.net] = None]
       /\ GoTouching("s_end", {"bridge"})
    \/ /\ NoFault /\ BridgeInUse
       /\ UNCHANGED world /\ job' = [job EXCEPT !.pc = "s_end", !.err = TRUE]
    \/ /\ Fault /\ UNCHANGED world
       /\ job' = [job EXCEPT !.pc = "s_end", !.err = TRUE]
KeepBridgeInHeal ==
    /\ At("s_bridge")
    /\ UNCHANGED <<target, disk, up, mesh, active, marks>>
    /\ IF job.op = "heal" THEN NoFault /\ Go("s_end") /\ UNCHANGED world ELSE BridgeRemoval
RemoveBridge ==
    /\ At("s_bridge") /\ BridgeRemoval
    /\ UNCHANGED <<target, disk, up, mesh, active, marks>>

(* A stop that reported an error ends the request.                          *)
DestroyAnyway == [job EXCEPT !.pc = "d_dns"]
AfterDestroy == IF job.err THEN None ELSE [job EXCEPT !.pc = "d_dns"]

(* What follows the stop: the error of a failed start, the rest of a        *)
(* destroy (a failed one leaves the mesh active and Stopped), or the second *)
(* half of the subnet restart, whose stop error is only logged.             *)
StopEnds ==
    /\ At("s_end") /\ NoFault
    /\ \/ job.after = "aborted" /\ job.op # "heal" /\ StartFailed(world)
       \/ /\ job.after = "aborted" /\ job.op = "heal"
          /\ mesh' = apply(mesh, "ComponentFailed")
          /\ HealFailed /\ UNCHANGED <<world, active>>
       \/ /\ job.after = "destroyed"
          /\ mesh' = apply(mesh, "TeardownComplete")
          /\ job' = AfterDestroy
          /\ UNCHANGED <<target, disk, world, up, active, marks>>
       \/ /\ job.after = "restart"
          /\ mesh' = apply(apply([mesh EXCEPT !.sub = job.sub], "TeardownComplete"),
                           "UpRequested")
          /\ Go("netup")
          /\ UNCHANGED <<target, disk, world, up, active, marks>>

-----------------------------------------------------------------------------
(* handle_mesh_down and handle_mesh_destroy of the running network.         *)

DestroyMesh ==
    /\ At("destroy") /\ NoFault
    /\ mesh' = apply(mesh, "DestroyRequested")
    /\ job' = [job EXCEPT !.pc = "s_tasks", !.after = "destroyed"]
    /\ UNCHANGED <<target, disk, world, up, active, marks>>

(* A DNS that does not stop is only logged.                                 *)
StopDns ==
    /\ At("d_dns") /\ Go("d_gw")
    /\ UNCHANGED <<target, disk, up, mesh, active, marks>>
    /\ \/ NoFault /\ world' = IF active.dns THEN Stopped(world, "dns", job.net) ELSE world
       \/ Fault /\ active.dns /\ world' \in NotStopped("dns", job.net)

(* A gateway that does not stop ends the request: the mesh is gone from     *)
(* memory, the marker stays.                                                *)
StopGateway ==
    /\ At("d_gw")
    /\ mesh' = None /\ active' = None
    /\ UNCHANGED <<target, disk, up, marks>>
    /\ \/ /\ NoFault /\ Go("d_disk")
          /\ world' = IF active.gw THEN Stopped(world, "gw", job.net) ELSE world
       \/ Fault /\ active.gw /\ job' = None /\ world' \in NotStopped("gw", job.net)

ClearDisk ==
    /\ At("d_disk") /\ job' = None
    /\ UNCHANGED <<target, world, up, mesh, active>>
    /\ \/ /\ NoFault
          /\ marks' = [healed |-> FALSE, clobbered |-> FALSE, torn |-> marks.torn \ {job.net}]
          /\ disk' = clear_active_marker(IF job.op = "destroy" THEN Deleted(disk, job.net)
                                                               ELSE disk)
       \/ Fault /\ job.op = "destroy" /\ UNCHANGED <<disk, marks>>

-----------------------------------------------------------------------------
(* apply_local_subnet_heal: save the config, publish the machine as down,   *)
(* take the workloads off the bridge, restart_active_runtime_for_subnet_heal, *)
(* put the workloads back.                                                  *)

HealSave ==
    /\ At("h_save")
    /\ UNCHANGED <<world, mesh, active>>
    /\ \/ /\ NoFault /\ Go("h_work")
          /\ disk' = Saved(disk, job.net, job.sub)
          /\ marks' = [marks EXCEPT !.torn = @ \cup {job.net}]
          /\ UNCHANGED <<target, up>>
       \/ Fault /\ HealFailed

(* publish_local_machine_down_for_subnet_heal, then every workload on the   *)
(* bridge is stopped and disconnected by force.                             *)
StopWorkloads(w, n) == [w EXCEPT !.work = IF @ = n THEN "stopped" ELSE @]
StartWorkloads(w, n) == [w EXCEPT !.work = IF @ = "stopped" THEN n ELSE @]
HealStopWorkloads ==
    /\ At("h_work")
    /\ UNCHANGED <<mesh, active>>
    /\ \/ /\ NoFault /\ Go("h_gw")
          /\ world' = StopWorkloads(world, job.net)
          /\ UNCHANGED <<target, disk, up, marks>>
       \/ /\ Fault /\ HealFailed
          /\ world' \in {world, StopWorkloads(world, job.net)}

(* The new gateway and DNS are ensured before the old ones are stopped, and *)
(* both are the same container or unit.                                     *)
HealStartGateway ==
    /\ At("h_gw")
    /\ UNCHANGED <<mesh, active>>
    /\ \/ /\ NoFault /\ Go("h_dns")
          /\ world' = Put(world, "gw", job.net, start_gateway(job.net).done)
          /\ UNCHANGED <<target, disk, up, marks>>
       \/ /\ Fault /\ job' = None
          /\ \E obs \in start_gateway(job.net).failed :
                /\ world' = Put(world, "gw", job.net, obs)
                /\ marks' = [marks EXCEPT !.healed = @ \/ obs # There("gw", job.net)]
          /\ UNCHANGED <<target, disk, up>>

HealStartDns ==
    /\ At("h_dns")
    /\ UNCHANGED <<mesh, active>>
    /\ \/ /\ NoFault /\ Go("h_swap")
          /\ world' = Put(world, "dns", job.net, start_dns(job.net).done)
          /\ UNCHANGED <<target, disk, up, marks>>
       \/ /\ Fault /\ job' = None
          /\ \E obs \in start_dns(job.net).failed :
                world' = Put(Stopped(world, "gw", job.net), "dns", job.net, obs)
          /\ marks' = [marks EXCEPT !.healed = TRUE]
          /\ UNCHANGED <<target, disk, up>>

(* The old handles are replaced by no-ops and stopped (`left' did not, which *)
(* is only logged); then the mesh is asked to restart on the new subnet.    *)
HealSwap ==
    /\ At("h_swap") /\ NoFault
    /\ \E left \in SUBSET Sidecars :
          LET off(v, k) == IF active[k] /\ k \notin left THEN Stopped(v, k, job.net) ELSE v
          IN  world' = off(off(world, "dns"), "gw")
    /\ active' = [active EXCEPT !.gw = FALSE, !.dns = FALSE]
    /\ mesh' = apply(mesh, "DestroyRequested")
    /\ job' = [job EXCEPT !.pc = "s_tasks", !.after = "restart"]
    /\ marks' = [marks EXCEPT !.healed = TRUE]
    /\ UNCHANGED <<target, disk, up>>

HealPublish ==
    /\ At("h_publish") /\ NoFault /\ Go("h_start")
    /\ active' = [active EXCEPT !.sub = job.sub, !.gw = TRUE, !.dns = TRUE]
    /\ marks' = IF job.err THEN marks ELSE [marks EXCEPT !.torn = @ \ {job.net}]
    /\ UNCHANGED <<target, disk, world, up, mesh>>

HealStartWorkloads ==
    /\ At("h_start")
    /\ UNCHANGED <<mesh, active>> /\ HealFailed
    /\ \/ /\ NoFault
          /\ world' = StartWorkloads(world, job.net)
       \/ Fault /\ UNCHANGED world

-----------------------------------------------------------------------------
(* The daemon process and the host.                                         *)

Stop(w) ==
    /\ used.stops < MaxStops
    /\ used' = [used EXCEPT !.stops = @ + 1]
    /\ up' = FALSE /\ mesh' = None /\ active' = None /\ job' = None
    /\ world' = Dropped(w)
    /\ UNCHANGED <<target, disk, marks>>

Crash == up /\ Stop(world)

(* Ctrl-C: commands in flight are dropped at their await; the resume and    *)
(* the heal, which are not commands, finish first.  What is active is       *)
(* detached: sidecars and containers keep running.                          *)
Shutdown ==
    /\ up /\ ~(job # None /\ job.op \in {"resume", "heal"})
    /\ Stop(world)

(* Docker restarts ployz-networking (restart policy always) without its     *)
(* interface; nothing restarts the others.                                  *)
Reboot ==
    /\ LET Off(obs) == IF obs = None THEN None ELSE [obs EXCEPT !.run = FALSE]
       IN  Stop([world EXCEPT
                 !.net = IF Docker /\ @ # None THEN [@ EXCEPT !.iface = "bare"] ELSE None,
                 !.svc = [x \in Services |-> Off(@[x])]])

(* run_daemon: resume_active_network before any request is served.  The     *)
(* config is loaded first; a marker without one is removed.                 *)
Boot ==
    /\ ~up /\ up' = TRUE
    /\ IF disk.marker # None /\ disk.config[disk.marker] # None
       THEN job' = NewJob("resume", disk.marker, "plan") /\ UNCHANGED disk
       ELSE disk' = clear_active_marker(disk) /\ UNCHANGED job
    /\ UNCHANGED <<target, world, mesh, active, used, marks>>

(* A deploy places a workload on the bridge of the active network, or       *)
(* removes it.                                                              *)
DeployWorkload ==
    /\ Idle /\ active # None /\ mesh.phase = "Running"
    /\ world' = [world EXCEPT !.work = IF @ = "none" THEN active.net ELSE "none"]
    /\ UNCHANGED <<target, disk, up, mesh, active, job, used, marks>>

bring_up ==
    \/ DockerNetworkUp \/ SetupInterface \/ StartOverlayBridge \/ HostNetworkUp
    \/ EnsureBridge \/ AttachDataplane \/ StartStore \/ StartPeerSync
    \/ BootstrapGate \/ SpawnTasks
stop_runtime == StopTasks \/ StopStore \/ DockerNetworkDown \/ HostNetworkDown \/ RemoveBridge \/ StopEnds
start_mesh ==
    \/ PlanStart \/ StartRemoteControl
    \/ StartSidecar("gw", "dns") \/ StartSidecar("dns", "publish") \/ PublishActive
mesh_down == DestroyMesh \/ StopDns \/ StopGateway \/ ClearDisk
apply_local_subnet_heal ==
    \/ HealSave \/ HealStopWorkloads \/ HealStartGateway \/ HealStartDns
    \/ HealSwap \/ HealPublish \/ HealStartWorkloads

Step == start_mesh \/ bring_up \/ stop_runtime \/ mesh_down \/ apply_local_subnet_heal

Request ==
    \/ \E n \in Networks :
          \/ MeshCreate(n) \/ MeshInit(n) \/ MeshUp(n) \/ MeshDestroy(n) \/ MeshDestroyStopped(n)
          \/ \E s \in Subnets : MeshJoin(n, s)
    \/ MeshDown
    \/ \E s \in Subnets : SubnetHeal(s)
    \/ DeployWorkload

Next == Step \/ Request \/ Shutdown \/ Crash \/ Reboot \/ Boot
Spec == Init /\ [][Next]_vars

-----------------------------------------------------------------------------
(* Properties.                                                              *)

(* A mesh that an idle daemon reports as Running does run: its tasks and    *)
(* data plane are up, and Corrosion, the gateway and DNS run with the       *)
(* configuration of that network and in the namespace of the networking     *)
(* container that exists now (ContainerEngine::ensure compares the parent's *)
(* id), however the daemon came up and whatever failed before.  After a     *)
(* subnet heal it does not hold (HealSwap), hence the premise.              *)
RunningServes ==
    (Idle /\ active # None /\ mesh.phase = "Running" /\ ~marks.healed)
    => /\ mesh.tasks /\ mesh.dp
       /\ world.net # None /\ world.net.iface # "bare"
       /\ \A k \in Kinds : ServesNow(k, active.net)

(* A resume that finds healthy infrastructure and succeeds has adopted all  *)
(* of it: no container, unit or network was created, replaced or removed    *)
(* (the adopt paths of DockerWireGuard::up, DockerBridgeNetwork::ensure,    *)
(* ContainerEngine::ensure and ensure_systemd).  A host Corrosion is the    *)
(* daemon's child and is started each time.                                 *)
ResumeAdopts ==
    [][(At("publish") /\ job.op = "resume" /\ job.healthy /\ active' # None)
       => job.touched \subseteq (IF Docker THEN {} ELSE {"corro"})]_vars


(* The Docker bridge workloads are placed on has the subnet the daemon      *)
(* believes it has, across restarts, failed starts and a completed heal;    *)
(* ensure adopts whatever bridge has the name, so this rests on the bridge  *)
(* being removed before the subnet changes.                                 *)
BridgeMatches ==
    (Idle /\ active # None /\ mesh.phase = "Running" /\ active.net \notin marks.torn)
    => world.bridge[active.net] = active.sub /\ (Docker => active.net \in world.net.on)

(* A `mesh down' or `mesh destroy' that gets past Mesh::destroy leaves no   *)
(* interface, no bridge and no store, and answers only when its gateway     *)
(* stopped too, unless an earlier failed heal lost the gateway's handle.    *)
DownIsDown ==
    [][(At("d_disk") /\ job' = None)
       => /\ world.net = None /\ world.bridge[job.net] = None
          /\ world.svc[Service("corro", job.net)] = None
          /\ ~marks.healed => ~IsRunning("gw", job.net)]_vars

(* What docs/architecture.md promises of a restart: the resume leaves       *)
(* healthy infrastructure alone, also when it fails.                        *)
RestartUndisturbed ==
    [][(job # None /\ job.op = "resume" /\ job.healthy /\ job' = None)
       => job.touched \subseteq (IF Docker THEN {} ELSE {"corro"})]_vars
==============================================================================
