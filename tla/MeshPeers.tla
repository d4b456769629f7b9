------------------------------ MODULE MeshPeers ------------------------------
(***************************************************************************)
(* One machine's overlay links: the peer-sync task (mesh/tasks/peer_sync), *)
(* the WireGuard device it configures (host or Docker backend) and the     *)
(* eBPF route task (mesh/tasks/ebpf_sync), both fed by a subscription to   *)
(* the machines table, against a network whose paths come and go.          *)
(*                                                                         *)
(* A handler of either task is one step: a task handles one event, tick or *)
(* command at a time.  What the device does meanwhile (a handshake, a      *)
(* roaming peer) interleaves between handlers.                             *)
(***************************************************************************)
EXTENDS PeerState, FiniteSets

CONSTANTS
  Machines, Local,   \* Local \in Machines is the machine modelled
  Records,           \* machine -> the records it may publish
  Initial,           \* machine -> its record at the start, or None
  Invited,           \* machine -> its endpoints in the invite joined with, or None
  Endpoints,         \* every address a peer can have, listed or not
  Worlds,            \* the network's possible states, [udp, tcp]
  Rtts,              \* round-trip times a probe can measure
  None,              \* a model value: no record, no peer state, no device peer
  Docker,            \* the Docker backend rather than the host one
  MaxWrites, MaxQueue, MaxFaults, MaxChanges   \* bounds

Subscribers == {"peers", "ebpf"}
NoSubnet == "none"

VARIABLES
  tab,        \* the machines table, as this machine's store has it
  events,     \* subscriber -> the machine events it has not handled yet
  deaf,       \* the subscribers whose stream ended
  running,    \* the tasks run
  seeds,      \* seed records of a mesh about to start its tasks, or None
  due,        \* an interval tick has to be handled before more time passes
  stored, transient,   \* PeerStateMap
  dev,        \* the WireGuard device: machine -> None or [endpoint, handshake]
  kroutes,    \* IPv4 routes over the WireGuard interface
  eroutes,    \* the eBPF ROUTES map
  world,      \* paths that pass WireGuard (udp) and probes (tcp)
  synced,     \* the last set_peers call did all of its work
  broken,     \* eBPF routes that a failed call left out
  writes, faults, changes

vars == <<tab, events, deaf, running, seeds, due, stored, transient, dev, kroutes, eroutes, world,
          synced, broken, writes, faults, changes>>
tasks == <<stored, transient>>
device == <<dev, kroutes, synced>>
feed == <<tab, events, deaf, seeds, writes>>
ebpf == <<eroutes, broken>>

Remote == Machines \ {Local}

-----------------------------------------------------------------------------
(* The machines table and its subscriptions. *)

Notify(kind, m, r) ==
  events' = [s \in Subscribers |->
               IF s \in deaf \/ ~running THEN events[s]
               ELSE Append(events[s], [kind |-> kind, m |-> m, record |-> r])]

CanWrite == writes < MaxWrites /\ \A s \in Subscribers : Len(events[s]) < MaxQueue

\* Added, or Updated when the row existed; a heartbeat is an update with the
\* same endpoints.
UpsertMachine(m, r) ==
  /\ CanWrite
  /\ tab' = [tab EXCEPT ![m] = r]
  /\ Notify("upsert", m, r)
  /\ writes' = writes + 1
  /\ UNCHANGED <<deaf, running, seeds, due, tasks, device, ebpf, world, faults, changes>>

\* The removal event carries the record the subscription last knew.
DeleteMachine(m) ==
  /\ CanWrite
  /\ tab[m] # None
  /\ tab' = [tab EXCEPT ![m] = None]
  /\ Notify("remove", m, tab[m])
  /\ writes' = writes + 1
  /\ UNCHANGED <<deaf, running, seeds, due, tasks, device, ebpf, world, faults, changes>>

\* The subscription task returns on any stream error and is not restarted.
StreamEnds(s) ==
  /\ running
  /\ s \notin deaf
  /\ faults < MaxFaults
  /\ faults' = faults + 1
  /\ deaf' = deaf \cup {s}
  /\ UNCHANGED <<tab, events, running, seeds, due, tasks, device, ebpf, world, writes, changes>>

-----------------------------------------------------------------------------
(* The WireGuard device. *)

PeerOf(st, tr, m) == IF st[m] # None THEN st[m] ELSE tr[m]

Planned(st, tr) ==
  {m \in Remote : PeerOf(st, tr, m) # None /\ PeerOf(st, tr, m).endpoints # <<>>}

\* plan_mesh_peers lists the endpoint in use first; set_peers takes the first.
PlanMeshPeers(st, tr) ==
  [m \in Machines |->
     IF m \notin Planned(st, tr) THEN None
     ELSE [endpoint |-> ActiveEndpoint(PeerOf(st, tr, m)), subnet |-> PeerOf(st, tr, m).subnet]]

\* set_peers(want).  A peer that stays keeps its session.
Wanted(want) == {m \in Machines : want[m] # None}
Configured(want, m) ==
  [endpoint |-> want[m].endpoint,
   handshake |-> IF dev[m] = None THEN Never ELSE dev[m].handshake]
Subnets(want) == {want[m].subnet : m \in Wanted(want)} \ {NoSubnet}

HostApply(want) ==
  /\ dev' = [m \in Machines |-> IF m \in Wanted(want) THEN Configured(want, m) ELSE None]
  /\ kroutes' = Subnets(want)

\* It stops at its first error: some stale peers removed, or all of them and
\* some wanted ones configured, the routes not reached; an `ip route` that
\* fails is ignored.
HostFails(want) ==
  LET stale == {m \in Machines : dev[m] # None} \ Wanted(want)
      wrong == (Subnets(want) \ kroutes) \cup (kroutes \ Subnets(want))
  IN  \/ /\ \E gone \in SUBSET stale, set \in SUBSET Wanted(want) :
              /\ set # {} => gone = stale
              /\ dev' = [m \in Machines |-> CASE m \in gone -> None
                                              [] m \in set -> Configured(want, m)
                                              [] OTHER -> dev[m]]
         /\ UNCHANGED kroutes
      \/ /\ dev' = [m \in Machines |-> IF m \in Wanted(want) THEN Configured(want, m) ELSE None]
         /\ \E left \in SUBSET wrong \ {{}} :
              kroutes' = (Subnets(want) \ left) \cup (left \ Subnets(want))

\* The whole desired state is written to a file and applied by one syncconf,
\* tried twice; then each route is replaced or deleted.
DockerApply(want) ==
  /\ dev' = [m \in Machines |-> IF m \in Wanted(want) THEN Configured(want, m) ELSE None]
  /\ kroutes' = Subnets(want)

ApplyPeers(want) ==
  /\ IF Docker THEN DockerApply(want) ELSE HostApply(want)
  /\ synced' = TRUE

\* A failed call is only logged.
SetPeers(want) ==
  \/ /\ ApplyPeers(want)
     /\ UNCHANGED faults
  \/ /\ faults < MaxFaults
     /\ faults' = faults + 1
     /\ IF Docker THEN UNCHANGED <<dev, kroutes>> ELSE HostFails(want)
     /\ synced' = FALSE

SyncPeers(st, tr) == SetPeers(PlanMeshPeers(st, tr))

HostReadPeer(m) == dev[m]

\* `wg show latest-handshakes` has no endpoint.
DockerReadPeer(m) == [dev[m] EXCEPT !.endpoint = NoEndpoint]

ReadPeers ==
  [m \in Machines |-> CASE dev[m] = None -> NoPeer
                        [] Docker -> DockerReadPeer(m)
                        [] OTHER -> HostReadPeer(m)]

-----------------------------------------------------------------------------
(* The peer-sync task. *)

OnPeers(map, Op(_, _)) == [m \in Machines |-> IF map[m] = None THEN None ELSE Op(m, map[m])]

SeedFromDevicePeers(map, peers) == OnPeers(map, LAMBDA m, ps : SeedFromDevice(ps, peers[m]))
RefreshFromDevicePeers(map, peers) == OnPeers(map, LAMBDA m, ps : RefreshFromDevice(ps, peers[m]))

UpsertStored(st, m, r) ==
  [st EXCEPT ![m] = IF @ = None THEN FromRecord(r) ELSE UpdateFromRecord(@, r)]
UpsertTransient(st, tr, m, r) ==
  IF st[m] # None THEN tr
  ELSE [tr EXCEPT ![m] = IF @ = None THEN FromRecord(r) ELSE UpdateFromRecord(@, r)]

\* A probe connects, sends the request and reads the answer within the
\* timeout, from an address that passes TCP.
ProbeResults ==
  {[e \in Endpoints |-> IF e \in world.tcp THEN answer[e] ELSE NoRtt] :
     answer \in [world.tcp -> Rtts \cup {NoRtt}]}

RankPending(map, res) ==
  OnPeers(map, LAMBDA m, ps : IF Pending(ps) THEN ApplyProbeResults(ps, res) ELSE ps)

\* rank_pending_peers, then sync_peers: the tail of every handler but a tick.
RankAndSync(st, tr) ==
  \E res \in IF \E m \in Machines : \/ st[m] # None /\ Pending(st[m])
                                    \/ tr[m] # None /\ Pending(tr[m])
             THEN ProbeResults ELSE {[e \in Endpoints |-> NoRtt]} :
    /\ stored' = RankPending(st, res)
    /\ transient' = RankPending(tr, res)
    /\ SyncPeers(stored', transient')

\* ployz-bpfctl attach loads the programs anew: their ROUTES map is empty.
CtlAttach == eroutes' = {} /\ broken' = {}

\* The eBPF task seeds the map from its own snapshot, one call a machine, as
\* if each had just been added, before it looks at an event.
SeedRoutes ==
  LET Added(m) == [kind |-> "upsert", m |-> m, record |-> tab[m]]
  IN  SetToSeq({Added(m) : m \in {n \in Remote : tab[n] # None}})

\* The tasks subscribe and start: snapshot, seed records, live links.
SubscribeMachines ==
  /\ events' = [s \in Subscribers |-> IF s = "ebpf" THEN SeedRoutes ELSE <<>>]
  /\ deaf' = {}
InitFromSnapshot == [m \in Machines |-> IF tab[m] = None THEN None ELSE FromRecord(tab[m])]

\* The seed records of a mesh: what its own database knows, read as a file
\* before Corrosion runs, and the machines of the invite it joined with, which
\* come without a subnet.  A missing or unreadable file counts as empty.
NoRecords == [m \in Machines |-> None]
PeerRecordsFromDb == {tab, NoRecords}
BootstrapPeer(m) ==
  IF Invited[m] = None THEN None ELSE [endpoints |-> Invited[m], subnet |-> NoSubnet]
LoadBootstrapPeerRecords == {[m \in Machines |-> BootstrapPeer(m)], NoRecords}
BuildSeedRecords(db, file) == [m \in Machines |-> IF db[m] # None THEN db[m] ELSE file[m]]

\* bring_up configures the seed records on the device before the store, and
\* with it the machines table, is there.
PreStartPeers ==
  /\ ~running /\ seeds = None
  /\ \E db \in PeerRecordsFromDb, file \in LoadBootstrapPeerRecords :
       LET records == BuildSeedRecords(db, file)
           First(r) == IF r.endpoints = <<>> THEN NoEndpoint ELSE Head(r.endpoints)
           want == [m \in Machines |->
                      IF m = Local \/ records[m] = None THEN None
                      ELSE [endpoint |-> First(records[m]), subnet |-> records[m].subnet]]
       IN  /\ seeds' = records
           /\ IF Wanted(want) = {} THEN UNCHANGED <<device, faults>> ELSE SetPeers(want)
  /\ UNCHANGED <<tab, events, deaf, running, due, tasks, ebpf, world, writes, changes>>

Start ==
  LET snapshot == InitFromSnapshot
      boot == [m \in Machines |->
                 IF m # Local /\ seeds[m] # None /\ snapshot[m] = None
                 THEN FromRecord(seeds[m]) ELSE None]
  IN  /\ ~running /\ seeds # None
      /\ running' = TRUE /\ seeds' = None
      /\ SubscribeMachines
      /\ RankAndSync(SeedFromDevicePeers(snapshot, ReadPeers), SeedFromDevicePeers(boot, ReadPeers))
      /\ CtlAttach
      /\ UNCHANGED <<tab, due, world, writes, changes>>

\* The tasks stop with the mesh detached: the device keeps its peers.
Stop ==
  /\ running
  /\ changes < MaxChanges
  /\ changes' = changes + 1
  /\ running' = FALSE
  /\ stored' = [m \in Machines |-> None]
  /\ transient' = [m \in Machines |-> None]
  /\ events' = [s \in Subscribers |-> <<>>]
  /\ synced' = FALSE
  /\ due' = FALSE
  /\ UNCHANGED <<tab, deaf, seeds, dev, kroutes, ebpf, world, writes, faults>>

StoredAfter(e) == IF e.kind = "upsert" THEN UpsertStored(stored, e.m, e.record)
                                       ELSE [stored EXCEPT ![e.m] = None]
TransientAfter(e) == IF e.kind = "upsert" THEN [transient EXCEPT ![e.m] = None] ELSE transient

HandleEvent ==
  LET e == Head(events["peers"])
  IN  /\ running
      /\ events["peers"] # <<>>
      /\ events' = [events EXCEPT !["peers"] = Tail(@)]
      /\ RankAndSync(StoredAfter(e), TransientAfter(e))
      /\ UNCHANGED <<tab, deaf, running, seeds, due, ebpf, world, writes, changes>>

\* Machine add hands over a joining machine before its record is in the
\* table, and takes it back.
UpsertTransientCommand(m, r) ==
  /\ running
  /\ changes < MaxChanges
  /\ changes' = changes + 1
  /\ RankAndSync(stored, UpsertTransient(stored, transient, m, r))
  /\ UNCHANGED <<feed, running, due, ebpf, world>>

RemoveTransientCommand(m) ==
  /\ running
  /\ transient[m] # None
  /\ RankAndSync(stored, [transient EXCEPT ![m] = None])
  /\ UNCHANGED <<feed, running, due, ebpf, world, changes>>

\* peer_sync_tick, on the interval or by TickNow: set_peers only after a
\* rotation, and nothing is ranked, as refreshing clears needs_ranking.
\* A failed read is logged and taken for a device without peers.
PeerSyncTick(blind) ==
  LET peers == IF blind THEN [m \in Machines |-> NoPeer] ELSE ReadPeers
      Rotates(map) == \E m \in Machines : map[m] # None /\ Rotated(map[m], peers[m])
      rotates == Rotates(stored) \/ Rotates(transient)
  IN  /\ running
      /\ due' = FALSE
      /\ stored' = RefreshFromDevicePeers(stored, peers)
      /\ transient' = RefreshFromDevicePeers(transient, peers)
      /\ \/ ~rotates /\ UNCHANGED <<device, faults>>
         \/ rotates /\ ~blind /\ SyncPeers(stored', transient')
         \/ rotates /\ blind /\ ApplyPeers(PlanMeshPeers(stored', transient')) /\ faults' = faults + 1
      /\ UNCHANGED <<feed, running, ebpf, world, changes>>

Tick == PeerSyncTick(FALSE)
TickBlind == faults < MaxFaults /\ PeerSyncTick(TRUE)

-----------------------------------------------------------------------------
(* The eBPF route task. *)

\* ployz-bpfctl route add | del.
CtlRoute(routes, op, subnet) ==
  IF op = "add" THEN routes \cup {subnet} ELSE routes \ {subnet}
UpsertRoute(routes, subnet) == CtlRoute(routes, "add", subnet)
RemoveRoute(routes, subnet) == CtlRoute(routes, "del", subnet)

RouteAfter(e) ==
  CASE e.m = Local -> eroutes
    [] e.kind = "upsert" -> UpsertRoute(eroutes, e.record.subnet)
    [] OTHER -> RemoveRoute(eroutes, e.record.subnet)

\* A failed call is only logged; `broken` remembers it.
HandleEbpfEvent ==
  LET e == Head(events["ebpf"])
      subnet == e.record.subnet
  IN  /\ running
      /\ events["ebpf"] # <<>>
      /\ events' = [events EXCEPT !["ebpf"] = Tail(@)]
      /\ \/ /\ eroutes' = RouteAfter(e)
            /\ broken' = IF e.kind = "upsert" THEN broken \ {subnet} ELSE broken
            /\ UNCHANGED faults
         \/ /\ e.m # Local
            /\ faults < MaxFaults
            /\ faults' = faults + 1
            /\ broken' = broken \cup {subnet}
            /\ UNCHANGED eroutes
      /\ UNCHANGED <<tab, deaf, running, seeds, due, tasks, device, world, writes, changes>>

-----------------------------------------------------------------------------
(* The network and the device on their own. *)

\* WireGuard tries a peer without a session at once, and renews a session
\* well within PEER_DOWN_INTERVAL while keepalives flow.
HandshakeDue(m) ==
  /\ dev[m] # None
  /\ dev[m].endpoint \in world.udp
  /\ dev[m].handshake >= DownInterval - 1

Handshake(m) ==
  /\ HandshakeDue(m)
  /\ dev' = [dev EXCEPT ![m].handshake = 0]
  /\ UNCHANGED <<feed, running, due, tasks, kroutes, synced, ebpf, world, faults, changes>>

\* An authenticated packet from another address moves the peer's endpoint.
Roam(m, e) ==
  /\ dev[m] # None
  /\ dev[m].handshake < DownInterval
  /\ e \in world.udp \ {dev[m].endpoint}
  /\ changes < MaxChanges
  /\ changes' = changes + 1
  /\ dev' = [dev EXCEPT ![m].endpoint = e]
  /\ UNCHANGED <<feed, running, due, tasks, kroutes, synced, ebpf, world, faults>>

WorldChanges(w) ==
  /\ w # world
  /\ changes < MaxChanges
  /\ changes' = changes + 1
  /\ world' = w
  /\ UNCHANGED <<feed, running, due, tasks, device, ebpf, faults>>

\* Time: a unit holds at least one interval tick.
Elapse ==
  LET Age(m, ps) == AgePeer(ps)
  IN  /\ running => ~due
      /\ \A m \in Machines : ~HandshakeDue(m)
      /\ due' = running
      /\ stored' = OnPeers(stored, Age)
      /\ transient' = OnPeers(transient, Age)
      /\ dev' = [m \in Machines |-> IF dev[m] = None THEN None
                                    ELSE [dev[m] EXCEPT !.handshake = Older(@)]]
      /\ UNCHANGED <<feed, running, kroutes, synced, ebpf, world, faults, changes>>

-----------------------------------------------------------------------------
Init ==
  /\ tab = Initial
  /\ events = [s \in Subscribers |-> <<>>]
  /\ deaf = {}
  /\ running = FALSE
  /\ seeds = None
  /\ due = FALSE
  /\ stored = [m \in Machines |-> None]
  /\ transient = [m \in Machines |-> None]
  /\ dev = [m \in Machines |-> None]
  /\ kroutes = {}
  /\ eroutes = {}
  /\ broken = {}
  /\ world \in Worlds
  /\ synced = FALSE
  /\ writes = 0
  /\ faults = 0
  /\ changes = 0

Next ==
  \/ \E m \in Machines, r \in UNION {Records[n] : n \in Machines} :
       r \in Records[m] /\ (UpsertMachine(m, r) \/ UpsertTransientCommand(m, r))
  \/ \E m \in Machines : DeleteMachine(m) \/ RemoveTransientCommand(m) \/ Handshake(m)
  \/ \E s \in Subscribers : StreamEnds(s)
  \/ \E m \in Machines, e \in Endpoints : Roam(m, e)
  \/ \E w \in Worlds : WorldChanges(w)
  \/ PreStartPeers \/ Start \/ Stop \/ HandleEvent \/ Tick \/ TickBlind \/ HandleEbpfEvent \/ Elapse

Spec == Init /\ [][Next]_vars

\* The runtime keeps scheduling the tasks, the device keeps trying and time
\* passes: one of these steps is taken again and again.
Progress ==
  \/ PreStartPeers \/ Start \/ HandleEvent \/ HandleEbpfEvent \/ (due /\ Tick) \/ Elapse
  \/ \E m \in Machines : Handshake(m)

FairSpec == Spec /\ WF_vars(Progress)

-----------------------------------------------------------------------------
(* Properties. *)

PeerStates ==
  [endpoints : Seq(Endpoints), active : Nat \ {0}, changed : Ages, handshake : Ages \cup {Never},
   status : {"up", "down", "unknown"}, ranking : BOOLEAN, subnet : STRING,
   candidates : Seq([endpoint : Endpoints, index : Nat, reachable : BOOLEAN,
                     rtt : Rtts \cup {NoRtt}, success : Ages \cup {Never}])]

\* Every variable keeps its shape, and ages stay within the down interval.
TypeOK ==
  /\ \A m \in Machines :
       /\ tab[m] \in Records[m] \cup {None}
       /\ stored[m] = None \/ stored[m] \in PeerStates
       /\ transient[m] = None \/ transient[m] \in PeerStates
       /\ dev[m] = None \/ dev[m] \in [endpoint : Endpoints \cup {NoEndpoint}, handshake : Ages \cup {Never}]
  /\ deaf \subseteq Subscribers
  /\ {running, due, synced} \subseteq BOOLEAN

KnownPeers == ({stored[m] : m \in Machines} \cup {transient[m] : m \in Machines}) \ {None}

\* Updates, re-rankings and rotations, in any order, never lose or invent an
\* endpoint: a stored peer holds exactly the endpoints of the record it was
\* last told, its candidates are listed in the same order as its endpoints,
\* and the endpoint in use is one of them (peer_state.rs keeps the two lists
\* and the index by hand).
EndpointsInStep ==
  /\ \A ps \in KnownPeers :
       /\ [i \in DOMAIN ps.candidates |-> ps.candidates[i].endpoint] = ps.endpoints
       /\ {ps.candidates[i].index : i \in DOMAIN ps.candidates} = DOMAIN ps.endpoints
       /\ ps.endpoints # <<>> => ps.active \in DOMAIN ps.endpoints
  /\ (running /\ "peers" \notin deaf /\ events["peers"] = <<>>) =>
       \A m \in Machines :
         /\ (stored[m] = None) = (tab[m] = None)
         /\ stored[m] # None => ToSet(stored[m].endpoints) = ToSet(tab[m].endpoints)



\* A tick that reads the device moves a peer to another endpoint only when
\* its link is not fresh: an endpoint over which the last handshake is recent
\* stays in use (peer.rs: "rotates on failure").
RotatesOnFailure ==
  [][\A m \in Remote :
       (Tick /\ stored[m] # None /\ dev[m] # None
         /\ dev[m].endpoint = ActiveEndpoint(stored[m])
         /\ dev[m].handshake < DownInterval)
       => ActiveEndpoint(stored'[m]) = ActiveEndpoint(stored[m])]_vars

Usable(m) ==
  /\ running
  /\ stored[m] # None
  /\ Len(stored[m].endpoints) > 1
  /\ \E i \in DOMAIN stored[m].endpoints : stored[m].endpoints[i] \in world.udp

Linked(m) == dev[m] # None /\ dev[m].endpoint \in world.udp /\ dev[m].handshake < DownInterval

=============================================================================
