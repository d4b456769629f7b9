----------------------------- MODULE RoutingViews -----------------------------
(***************************************************************************)
(* How the gateway and the resolver turn the rows of the routing tables    *)
(* into what they serve, and how a request is matched to a route.          *)
(*                                                                         *)
(* The tables are abstracted to what these functions read: the set of      *)
(* registered revisions, service -> release, instance -> status.  The      *)
(* columns of a status row that never change are the constant Inst.  The   *)
(* deploy engine only writes Direct routing policies, so a release names   *)
(* one revision.                                                           *)
(***************************************************************************)
EXTENDS Sequences, Naturals

CONSTANTS
  Services,    \* services: [ns, name], a namespace and a name in it
  Revisions,   \* revision hashes
  RouteSpecs,  \* revision -> sequence of the routes of its spec
  Ports,       \* revision -> names of the service ports of its spec
  Instances,   \* instance ids
  Inst         \* instance -> [svc, slot, mach, rev, ip, ports] of its row

ASSUME RoutesAssumption ==
  /\ \A i \in Instances : Inst[i].svc \in Services /\ Inst[i].rev \in Revisions
  /\ "none" \notin Revisions

NoRelease == [rev |-> "none", slots |-> {}]
Error == [kind |-> "error"]

-----------------------------------------------------------------------------
(* Normalization.  A host is a name, in lower case or not, possibly fully  *)
(* qualified (a trailing dot) and possibly followed by a port.             *)

\* A dot is only trimmed at the end of the whole text, so it survives when a
\* port follows it.
NormalizeRequestHost(h) == [name |-> h.name, dot |-> h.dot /\ h.port]

EmptyHost == [name |-> "", dot |-> FALSE]

\* A path is the sequence of its characters.
NormalizePathPrefix(p) ==
  IF p = <<>> THEN <<"/">> ELSE IF Head(p) = "/" THEN p ELSE <<"/">> \o p

StartsWith(path, prefix) ==
  /\ Len(prefix) <= Len(path)
  /\ SubSeq(path, 1, Len(prefix)) = prefix

-----------------------------------------------------------------------------
(* The projection of the gateway. *)

IsRoutableInstance(i, st, slot, s, allowed) ==
  /\ Inst[i].svc = s
  /\ Inst[i].slot = slot.slot
  /\ Inst[i].mach = slot.mach
  /\ Inst[i].rev = slot.rev
  /\ Inst[i].rev \in allowed
  /\ st = "ready"

\* Mutant of RoutableBackends: any ready instance of the service.
ReadyBackends(s, rel, status, p) ==
  {i \in Instances : Inst[i].svc = s /\ status[i] = "ready" /\ Inst[i].ip /\ p \in Inst[i].ports}

\* Backends of release `rel` of service s that expose service port p.
RoutableBackends(s, rel, status, p) ==
  {i \in Instances : /\ status[i] # "absent"
                     /\ \E slot \in rel.slots :
                          /\ slot.inst = i
                          /\ IsRoutableInstance(i, status[i], slot, s, {rel.rev})
                     /\ Inst[i].ip
                     /\ p \in Ports[rel.rev] \cap Inst[i].ports}


RouteView(s, rel, status, k) ==
  LET r == RouteSpecs[rel.rev][k]
  IN  [id |-> <<r.kind, s, k>>,
       svc |-> s,
       hosts |-> {NormalizeRequestHost(h) : h \in r.hosts} \ {EmptyHost},
       prefix |-> NormalizePathPrefix(r.prefix),
       listen |-> r.listen,
       port |-> r.port,
       backends |-> RoutableBackends(s, rel, status, r.port)]

RouteViews(tab) ==
  UNION {{RouteView(s, tab.releases[s], tab.instances, k) :
            k \in DOMAIN RouteSpecs[tab.releases[s].rev]} :
         s \in {t \in Services : tab.releases[t] # NoRelease}}

HostKeys(v) == IF v.hosts = {} THEN {"*"} ELSE v.hosts

\* Mutant of Conflict: compares whole host lists.
ConflictSameHosts(v, u) ==
  /\ v.id # u.id
  /\ v.id[1] = u.id[1]
  /\ IF v.id[1] = "http" THEN v.prefix = u.prefix /\ HostKeys(v) = HostKeys(u)
                         ELSE v.listen = u.listen

Conflict(v, u) ==
  /\ v.id # u.id
  /\ v.id[1] = u.id[1]
  /\ IF v.id[1] = "http" THEN v.prefix = u.prefix /\ HostKeys(v) \cap HostKeys(u) # {}
                         ELSE v.listen = u.listen

MissingRevision(tab) ==
  \E s \in Services : /\ tab.releases[s] # NoRelease
                      /\ tab.releases[s].rev \notin tab.revisions

\* project: the routes served, or an error that keeps the previous ones.
Project(tab) ==
  IF MissingRevision(tab) THEN Error
  ELSE LET views == RouteViews(tab)
       IN  IF \E v, u \in views : Conflict(v, u) THEN Error
           ELSE [kind |-> "gateway", routes |-> views]

-----------------------------------------------------------------------------
(* Matching.  The routes are kept in the order project sorts them in, and  *)
(* the first one that matches is taken.                                    *)

\* v is sorted before u whatever the names of their services are; routes that
\* neither of the two comparisons separates are ordered by names.
SortsBefore(v, u) ==
  \/ v.hosts # {} /\ u.hosts = {}
  \/ (v.hosts = {}) = (u.hosts = {}) /\ Len(v.prefix) > Len(u.prefix)

\* SnapshotState::build: route id -> the view behind its load balancer; a
\* route without backends has none.
LoadBalancers(snap) ==
  [id \in {v.id : v \in {u \in snap.routes : u.backends # {}}} |->
     CHOOSE v \in snap.routes : v.id = id /\ v.backends # {}]

RouteMatchesHost(v, host) == v.hosts = {} \/ host \in v.hosts

\* The routes match_http_route may return, over all orders of the names.
MatchHttpRoute(snap, rawHost, rawPath) ==
  LET host == NormalizeRequestHost(rawHost)
      path == NormalizePathPrefix(rawPath)
      hits == {v \in snap.routes : /\ v.id[1] = "http"
                                   /\ RouteMatchesHost(v, host)
                                   /\ StartsWith(path, v.prefix)}
  IN  {v \in hits : ~ \E u \in hits : SortsBefore(u, v)}

-----------------------------------------------------------------------------
(* The resolver: its projection reads the status rows alone. *)

ServingInstances(tab) ==
  {i \in Instances : tab.instances[i] = "ready" /\ Inst[i].ip}

\* callers stands for ip_to_namespace: the instances whose address is known.
ProjectDns(tab) ==
  [kind |-> "dns",
   services |-> [s \in Services |-> {i \in ServingInstances(tab) : Inst[i].svc = s}],
   callers |-> ServingInstances(tab)]

NxDomain == {}

LookupService(snap, ns, name) ==
  UNION {snap.services[s] : s \in {t \in Services : t.ns = ns /\ t.name = name}}

LookupServiceList(snap, ns) ==
  {s.name : s \in {t \in Services : t.ns = ns /\ snap.services[t] # {}}}

\* A query asks for a service or for the list of services, and is either bare
\* (ns is "none": the namespace is that of the source address) or names its
\* namespace.
Resolve(snap, q, caller) ==
  LET ns == IF q.ns # "none" THEN q.ns
            ELSE IF caller \in snap.callers THEN Inst[caller].svc.ns ELSE "none"
  IN  IF ns = "none" THEN NxDomain
      ELSE IF q.kind = "list" THEN LookupServiceList(snap, ns)
      ELSE LookupService(snap, ns, q.name)
=============================================================================
