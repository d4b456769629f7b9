------------------------------ MODULE PeerState ------------------------------
(***************************************************************************)
(* What the peer-sync task knows about one WireGuard peer: the endpoints   *)
(* its machine advertises, ranked by TCP probes, the one in use, and the   *)
(* health read from the device's handshakes (mesh/peer.rs and              *)
(* mesh/peer_state.rs).  Pure operators; the task itself is MeshPeers.     *)
(*                                                                         *)
(* An instant is its age in whole units of ConnTimeout's clock, kept at    *)
(* DownInterval once that old: the code only compares ages with the two    *)
(* intervals and with each other.  Never is `None`.                        *)
(***************************************************************************)
EXTENDS Integers, Sequences, SequencesExt

CONSTANTS
  ConnTimeout,   \* ENDPOINT_CONNECTION_TIMEOUT, 15 s
  DownInterval   \* PEER_DOWN_INTERVAL, 275 s

ASSUME IntervalsAssumption ==
  ConnTimeout \in Nat \ {0} /\ DownInterval \in Nat /\ ConnTimeout < DownInterval

Never == DownInterval + 1
Ages == 0 .. DownInterval
Older(age) == IF age < DownInterval THEN age + 1 ELSE age

NoEndpoint == "no endpoint"
NoRtt == 99

-----------------------------------------------------------------------------
(* WireGuardPeer. *)

ActiveEndpoint(ps) ==
  IF ps.active \in DOMAIN ps.endpoints THEN ps.endpoints[ps.active] ELSE NoEndpoint

\* last_handshake >= last_endpoint_change; within the third zone only the
\* handshake's own age counts.
Status(ps) ==
  CASE ps.changed < ConnTimeout ->
         IF ps.handshake <= ps.changed THEN "up" ELSE "unknown"
    [] ps.changed >= ConnTimeout /\ ps.changed < DownInterval ->
         IF ps.handshake <= ps.changed THEN "up" ELSE "down"
    [] OTHER -> IF ps.handshake < DownInterval THEN "up" ELSE "down"
CalculateStatus(ps) == [ps EXCEPT !.status = Status(ps)]

RotateEndpoint(ps) ==
  [ps EXCEPT !.active = (@ % Len(ps.endpoints)) + 1, !.changed = 0, !.status = "unknown"]

UpdateKeepIndex(ps, new) == [ps EXCEPT !.endpoints = new]
UpdateEndpoints(ps, new) ==
  LET at == SelectInSeq(new, LAMBDA e : e = ActiveEndpoint(ps))
  IN  [ps EXCEPT !.endpoints = new, !.active = IF at = 0 THEN 1 ELSE at]

-----------------------------------------------------------------------------
(* Endpoint candidates. *)

NewCandidate(e, i) ==
  [endpoint |-> e, index |-> i, reachable |-> FALSE, rtt |-> NoRtt, success |-> Never]

BuildCandidates(endpoints, existing) ==
  [i \in DOMAIN endpoints |->
     LET at == SelectInSeq(existing, LAMBDA c : c.endpoint = endpoints[i])
     IN  IF at = 0 THEN NewCandidate(endpoints[i], i)
         ELSE [existing[at] EXCEPT !.index = i]]

\* Reachable first, then the shorter round trip, then the more recent
\* handshake, then the advertised order.
Before(a, b) ==
  LET ka == <<IF a.reachable THEN 0 ELSE 1, a.rtt, a.success, a.index>>
      kb == <<IF b.reachable THEN 0 ELSE 1, b.rtt, b.success, b.index>>
  IN  \E i \in 1 .. 4 : ka[i] < kb[i] /\ \A j \in 1 .. i - 1 : ka[j] = kb[j]

-----------------------------------------------------------------------------
(* PeerState. *)

FromRecord(record) ==
  [endpoints |-> record.endpoints, active |-> 1, changed |-> 0, handshake |-> Never,
   status |-> "unknown", candidates |-> BuildCandidates(record.endpoints, <<>>),
   ranking |-> record.endpoints # <<>>, subnet |-> record.subnet]

UpdateFromRecord(ps, record) ==
  LET removed == /\ ActiveEndpoint(ps) # NoEndpoint
                 /\ ~Contains(record.endpoints, ActiveEndpoint(ps))
      updated == UpdateEndpoints(ps, record.endpoints)
  IN  [updated EXCEPT
         !.subnet = record.subnet,
         !.candidates = BuildCandidates(record.endpoints, ps.candidates),
         !.ranking = record.endpoints # <<>> /\ (ps.status # "up" \/ removed)]

Succeeded(candidates, e, age) ==
  [i \in DOMAIN candidates |->
     IF candidates[i].endpoint = e THEN [candidates[i] EXCEPT !.success = age]
                                   ELSE candidates[i]]

\* A device peer is [endpoint, handshake]; a live link wins over the list's
\* order and over any ranking.
SeedUnchecked(ps, peer) ==
  LET at == SelectInSeq(ps.endpoints, LAMBDA e : e = peer.endpoint)
  IN  IF at = 0 THEN ps
      ELSE [ps EXCEPT !.active = at, !.changed = peer.handshake,
                      !.handshake = peer.handshake, !.ranking = FALSE]
SeedFromDevice(ps, peer) ==
  LET at == SelectInSeq(ps.endpoints, LAMBDA e : e = peer.endpoint)
  IN  IF at = 0 \/ peer.handshake >= DownInterval THEN ps
      ELSE [CalculateStatus([ps EXCEPT !.active = at, !.changed = peer.handshake,
                                       !.handshake = peer.handshake]) EXCEPT
              !.candidates = Succeeded(@, peer.endpoint, peer.handshake),
              !.ranking = FALSE]

\* What a tick reads, before it decides: NoPeer when the device has none.
NoPeer == [endpoint |-> NoEndpoint, handshake |-> Never]

ObserveUnseeded(ps, peer) ==
  LET known == Contains(ps.endpoints, peer.endpoint)
  IN  [CalculateStatus([ps EXCEPT !.handshake = IF known THEN peer.handshake ELSE Never])
         EXCEPT !.ranking = FALSE]
Observe(ps, peer) ==
  LET seeded == SeedFromDevice(ps, peer)
      known == Contains(ps.endpoints, peer.endpoint)
  IN  [CalculateStatus([seeded EXCEPT !.handshake = IF known THEN peer.handshake ELSE Never])
         EXCEPT !.candidates = IF peer.handshake = Never THEN @
                               ELSE Succeeded(@, peer.endpoint, peer.handshake),
                !.ranking = FALSE]

ShouldChangeEndpoint(ps) == ps.status = "down" /\ Len(ps.endpoints) > 1

RefreshFromDevice(ps, peer) ==
  LET seen == Observe(ps, peer)
  IN  IF ShouldChangeEndpoint(seen) THEN RotateEndpoint(seen) ELSE seen

\* The peer is handed to set_peers again when its rotation changed the
\* endpoint in use.
Rotated(ps, peer) == ShouldChangeEndpoint(Observe(ps, peer))

Pending(ps) == ps.ranking /\ Len(ps.endpoints) > 1

\* results: the round trip of each endpoint that answered, NoRtt otherwise.
ApplyProbeResults(ps, results) ==
  LET probed == [i \in DOMAIN ps.candidates |->
                   LET c == ps.candidates[i]
                   IN  [c EXCEPT !.reachable = results[c.endpoint] # NoRtt,
                                 !.rtt = results[c.endpoint]]]
      ranked == SortSeq(probed, Before)
  IN  IF \E i \in DOMAIN probed : probed[i].reachable
      THEN [ps EXCEPT !.candidates = ranked,
                      !.endpoints = [i \in DOMAIN ranked |-> ranked[i].endpoint],
                      !.active = 1, !.changed = 0, !.handshake = Never,
                      !.status = "unknown", !.ranking = FALSE]
      ELSE [ps EXCEPT !.candidates = probed, !.ranking = FALSE]

AgePeer(ps) ==
  [ps EXCEPT !.changed = Older(@), !.handshake = Older(@),
             !.candidates = [i \in DOMAIN @ |-> [@[i] EXCEPT !.success = Older(@)]]]
=============================================================================
