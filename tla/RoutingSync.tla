----------------------------- MODULE RoutingSync -----------------------------
(***************************************************************************)
(* How the gateway and the resolver of a machine follow the routing tables *)
(* of the store: the subscriptions to the three tables with their          *)
(* reconnection, the invalidation channel they feed, the sync loop that    *)
(* debounces, drains and reloads, and the requests and queries answered    *)
(* from the snapshot.                                                      *)
(*                                                                         *)
(* The tables are written by deploys, in the order Deploy.tla writes them. *)
(* They are those of the local replica; when Ordered is FALSE replication  *)
(* may apply the writes of other machines in another order.  An            *)
(* invalidation carries no data, so the channel is a count.                *)
(***************************************************************************)
EXTENDS RoutingViews, FiniteSets

CONSTANTS
  Deployed,    \* releases in force when the processes start
  Registered,  \* revisions registered by then
  Started,     \* instances that are ready by then
  Consumers,   \* subset of {"gateway", "dns"}
  Releases,    \* service -> releases a commit may write
  Hosts,       \* Host headers of requests
  Paths,       \* paths of requests
  Queries,     \* questions asked of the resolver
  MaxRows,     \* bound on the rows of an initial query that are told apart
  ChanCap,     \* capacity of the invalidation channel
  MaxRetries,  \* backoff_count at which a stream stops pausing
  Ordered,     \* writes are applied in the order they were made
  MaxWrites,   \* bound on the writes to the tables
  MaxFaults,   \* bound on failures
  FaultKinds   \* failures considered, of "io", "early" (io before the end of
               \* the initial query), "eof", "gap", "refuse", "query", "restart"

ActiveIn(releases) == UNION {{slot.inst : slot \in releases[s].slots} : s \in Services}

ASSUME SyncAssumption ==
  /\ Consumers \subseteq {"gateway", "dns"}
  /\ Releases \in [Services -> SUBSET [rev : Revisions, slots : SUBSET
                     [slot : Nat, mach : Nat, rev : Revisions, inst : Instances]]]
  /\ Deployed \in [Services -> UNION {Releases[s] : s \in Services} \cup {NoRelease}]
  /\ {Deployed[s].rev : s \in Services} \ {"none"} \subseteq Registered
  /\ Registered \subseteq Revisions
  /\ ActiveIn(Deployed) \subseteq Started /\ Started \subseteq Instances
  /\ ChanCap \in Nat \ {0} /\ MaxRetries \in Nat /\ MaxRows \in Nat \ {0}
  /\ Ordered \in BOOLEAN
  /\ MaxWrites \in Nat /\ MaxFaults \in Nat

Tables == {"revisions", "releases", "instances"}

VARIABLES
  tab,      \* the contents of the three tables
  running,  \* instances whose container runs
  changes,  \* table -> number of changes made to it
  stream,   \* consumer -> table -> its subscription
  chan,     \* consumer -> invalidations waiting in its channel
  pc,       \* consumer -> where its process is
  read,     \* consumer -> table -> what the last load read of it
  served,   \* consumer -> the snapshot it answers from
  during,   \* history of the gateway's current load: the instances that were
            \* both released and ready at some moment of it
  req,      \* the request being proxied
  faults    \* failures so far

tables == <<tab, running, changes>>
sync == <<stream, chan, pc, read, served>>
vars == <<tables, sync, during, req, faults>>

NoSnapshot == [kind |-> "none"]
NoStream == [st |-> "none", left |-> 0, eoq |-> FALSE, last |-> 0, next |-> 0, tries |-> 0]
NoReq == [st |-> "none", route |-> "none", retry |-> FALSE, to |-> "none", port |-> "none"]
NoRead == [t \in {} |-> {}]

LiveIn(t) == {i \in ActiveIn(t.releases) : t.instances[i] = "ready"}


Init ==
  /\ tab = [revisions |-> Registered,
            releases |-> Deployed,
            instances |-> [i \in Instances |-> IF i \in Started THEN "ready" ELSE "absent"]]
  /\ running = Started
  /\ changes = [t \in Tables |-> 0]
  /\ stream = [c \in Consumers |-> [t \in Tables |-> NoStream]]
  /\ chan = [c \in Consumers |-> 0]
  /\ pc = [c \in Consumers |-> "boot"]
  /\ read = [c \in Consumers |-> NoRead]
  /\ served = [c \in Consumers |-> NoSnapshot]
  /\ during = LiveIn(tab) /\ req = NoReq /\ faults = 0

Fault(kind) ==
  /\ kind \in FaultKinds
  /\ faults < MaxFaults
  /\ faults' = faults + 1

-----------------------------------------------------------------------------
(* The writers: what deploys do to the tables. *)

Write(t, v) ==
  /\ v # tab[t]
  /\ changes["revisions"] + changes["releases"] + changes["instances"] < MaxWrites
  /\ tab' = [tab EXCEPT ![t] = v]
  /\ changes' = [changes EXCEPT ![t] = @ + 1]
  /\ during' = during \cup LiveIn(tab')
  /\ UNCHANGED <<sync, req, faults>>

RegisterRevision(r) ==
  /\ Write("revisions", tab.revisions \cup {r})
  /\ UNCHANGED running

\* A candidate's container runs and is probed before it has a row.
StartCandidate(i) ==
  /\ i \notin running
  /\ Ordered => Inst[i].rev \in tab.revisions
  /\ tab.instances[i] = "absent"
  /\ running' = running \cup {i}
  /\ UNCHANGED <<tab, changes, sync, during, req, faults>>

CandidateReady(i) ==
  /\ i \in running
  /\ tab.instances[i] = "absent"
  /\ Write("instances", [tab.instances EXCEPT ![i] = "ready"])
  /\ UNCHANGED running

ApplyDeployCommit(s) ==
  /\ \E rel \in Releases[s] \cup {NoRelease} :
       /\ Ordered => /\ rel # NoRelease => rel.rev \in tab.revisions
                     /\ \A slot \in rel.slots : tab.instances[slot.inst] = "ready"
       /\ Write("releases", [tab.releases EXCEPT ![s] = rel])
  /\ UNCHANGED running

DrainInstance(i) ==
  /\ tab.instances[i] = "ready"
  /\ Ordered => i \notin ActiveIn(tab.releases)
  /\ Write("instances", [tab.instances EXCEPT ![i] = "draining"])
  /\ UNCHANGED running

RemoveInstance(i) ==
  /\ tab.instances[i] = "draining"
  /\ Write("instances", [tab.instances EXCEPT ![i] = "absent"])
  /\ running' = running \ {i}

-----------------------------------------------------------------------------
(* The subscription of consumer c to table t (run_routing_invalidator over *)
(* SubscriptionStream).  last is last_change_id; next is the change the    *)
(* server sends next; left counts the rows of the initial query to come.   *)

RowCount(t) ==
  CASE t = "revisions" -> Cardinality(tab.revisions)
    [] t = "releases"  -> Cardinality({s \in Services : tab.releases[s] # NoRelease})
    [] t = "instances" -> Cardinality({i \in Instances : tab.instances[i] # "absent"})

Rows(t) == IF RowCount(t) < MaxRows THEN RowCount(t) ELSE MaxRows

SetStream(c, t, w) == stream' = [stream EXCEPT ![c][t] = w]

\* Mutant of Invalidate: a channel without a bound.
InvalidateUnbounded(c) == chan' = [chan EXCEPT ![c] = @ + 1]

\* refresh_tx.send(()).await: waits while the channel is full.
Invalidate(c) ==
  /\ chan[c] < ChanCap
  /\ chan' = [chan EXCEPT ![c] = @ + 1]

StreamFrame(c) == UNCHANGED <<tables, pc, read, served, during, req>>

\* SubscriptionStream::new over the answer to subscribe_request, or over the
\* one to resubscribe.
subscribe_request(t) ==
  [NoStream EXCEPT !.st = "open", !.left = Rows(t), !.next = changes[t] + 1]
resubscribe(w) == [w EXCEPT !.st = "open", !.next = w.last + 1]


Subscribe(c, t) ==
  /\ stream[c][t].st = "new"
  /\ \/ /\ SetStream(c, t, subscribe_request(t))
        /\ UNCHANGED faults
     \/ /\ Fault("refuse")
        /\ SetStream(c, t, [NoStream EXCEPT !.st = "ended"])
  /\ UNCHANGED chan
  /\ StreamFrame(c)

\* A Row of the initial query.
StreamRow(c, t) ==
  LET w == stream[c][t] IN
  /\ w.st = "open" /\ w.left > 0
  /\ SetStream(c, t, [w EXCEPT !.left = @ - 1, !.tries = 0])
  /\ Invalidate(c)
  /\ UNCHANGED faults
  /\ StreamFrame(c)

\* handle_eoq
EndOfQuery(c, t) ==
  LET w == stream[c][t] IN
  /\ w.st = "open" /\ w.left = 0 /\ ~w.eoq
  /\ SetStream(c, t, [w EXCEPT !.eoq = TRUE, !.last = w.next - 1, !.tries = 0])
  /\ UNCHANGED <<chan, faults>>
  /\ StreamFrame(c)

\* handle_change: a change whose id does not follow the last one is reported
\* as an error, which invalidates nothing and leaves last_change_id alone.
StreamChange(c, t) ==
  LET w == stream[c][t] IN
  /\ w.st = "open" /\ w.eoq /\ w.next <= changes[t]
  /\ \/ /\ w.last + 1 = w.next
        /\ SetStream(c, t, [w EXCEPT !.last = w.next, !.next = @ + 1, !.tries = 0])
        /\ Invalidate(c)
     \/ /\ w.last + 1 # w.next
        /\ SetStream(c, t, [w EXCEPT !.next = @ + 1, !.tries = 0])
        /\ UNCHANGED chan
  /\ UNCHANGED faults
  /\ StreamFrame(c)

\* The connection fails; MaxRetries failures in a row end the pauses between
\* attempts, not the attempts.
StreamIoError(c, t) ==
  LET w == stream[c][t] IN
  /\ w.st = "open"
  /\ Fault(IF w.eoq THEN "io" ELSE "early")
  /\ SetStream(c, t, [w EXCEPT !.st = "lost",
                               !.tries = IF @ < MaxRetries THEN @ + 1 ELSE @])
  /\ UNCHANGED chan
  /\ StreamFrame(c)

\* poll_reconnect: resubscribe from last_change_id.  Without an EndOfQuery
\* there is nothing to resume from: every further poll reports the same error.
Reconnect(c, t) ==
  LET w == stream[c][t] IN
  /\ w.st = "lost"
  /\ \/ /\ w.eoq
        /\ SetStream(c, t, resubscribe(w))
     \/ /\ w.eoq
        /\ SetStream(c, t, [w EXCEPT !.tries = IF @ < MaxRetries THEN @ + 1 ELSE @])
     \/ /\ ~w.eoq
        /\ SetStream(c, t, [w EXCEPT !.st = "unfinished", !.tries = 0])
  /\ UNCHANGED <<chan, faults>>
  /\ StreamFrame(c)

\* The server closes streams: next() returns None and their tasks return.
StreamEnd(c) ==
  /\ Fault("eof")
  /\ \E ts \in SUBSET {t \in Tables : stream[c][t].st = "open"} :
       /\ ts # {}
       /\ stream' = [stream EXCEPT ![c] = [t \in Tables |->
                       IF t \in ts THEN [@[t] EXCEPT !.st = "ended"] ELSE @[t]]]
  /\ UNCHANGED chan
  /\ StreamFrame(c)

\* The server loses a change.
StreamGap(c, t) ==
  LET w == stream[c][t] IN
  /\ w.st = "open" /\ w.eoq /\ w.next <= changes[t]
  /\ Fault("gap")
  /\ SetStream(c, t, [w EXCEPT !.next = @ + 1])
  /\ UNCHANGED chan
  /\ StreamFrame(c)

-----------------------------------------------------------------------------
(* The process of consumer c. *)

LoopFrame == UNCHANGED <<tables, req>>

\* The sidecar is started again by its supervisor, after it stopped or not.
Start(c) ==
  /\ \/ pc[c] = "down" /\ UNCHANGED faults
     \/ pc[c] # "down" /\ Fault("restart")
  /\ pc' = [pc EXCEPT ![c] = "boot"]
  /\ read' = [read EXCEPT ![c] = NoRead]
  /\ stream' = [stream EXCEPT ![c] = [t \in Tables |-> NoStream]]
  /\ chan' = [chan EXCEPT ![c] = 0]
  /\ served' = [served EXCEPT ![c] = NoSnapshot]
  /\ during' = IF c = "gateway" THEN LiveIn(tab) ELSE during
  /\ req' = IF c = "gateway" THEN NoReq ELSE req
  /\ UNCHANGED tables

\* The rows of one query are those of one moment.
query_rows(t) == tab[t]

\* load_routing_state joins three queries, each of one table.
QueryTable(c, t) ==
  /\ pc[c] \in {"boot", "load"} /\ t \notin DOMAIN read[c]
  /\ read' = [read EXCEPT ![c] = [u \in DOMAIN @ \cup {t} |->
                                    IF u = t THEN query_rows(t) ELSE @[u]]]
  /\ UNCHANGED <<stream, chan, pc, served, during, faults>>
  /\ LoopFrame

\* A failed load stops the process while it boots, and is skipped later.
QueryFails(c) ==
  /\ pc[c] \in {"boot", "load"} /\ DOMAIN read[c] # Tables
  /\ Fault("query")
  /\ pc' = [pc EXCEPT ![c] = IF @ = "boot" THEN "down" ELSE "recv"]
  /\ read' = [read EXCEPT ![c] = NoRead]
  /\ UNCHANGED <<stream, chan, served, during>>
  /\ LoopFrame

View(c, t) == IF c = "gateway" THEN Project(t) ELSE ProjectDns(t)

\* The first snapshot: the process serves it and has a sync loop started
\* (spawn_sync), or stops when it cannot be projected.
spawn_sync(c) == pc' = [pc EXCEPT ![c] = "subscribe"]
BootFrame == UNCHANGED <<stream, chan, read, during, faults>>

run_gateway_process ==
  LET c == "gateway" IN
  /\ c \in Consumers /\ pc[c] = "boot" /\ DOMAIN read[c] = Tables
  /\ \/ /\ Project(read[c]) # Error
        /\ served' = [served EXCEPT ![c] = Project(read[c])]
        /\ spawn_sync(c)
     \/ /\ Project(read[c]) = Error
        /\ pc' = [pc EXCEPT ![c] = "down"]
        /\ UNCHANGED served
  /\ BootFrame /\ LoopFrame

run_dns_process ==
  LET c == "dns" IN
  /\ c \in Consumers /\ pc[c] = "boot" /\ DOMAIN read[c] = Tables
  /\ served' = [served EXCEPT ![c] = ProjectDns(read[c])]
  /\ spawn_sync(c)
  /\ BootFrame /\ LoopFrame

\* Mutant of Publish: the channel is drained after the load as well.
PublishThenDrain(c) ==
  /\ pc[c] = "load" /\ DOMAIN read[c] = Tables
  /\ LET v == View(c, read[c])
     IN  served' = [served EXCEPT ![c] = IF v = Error THEN @ ELSE v]
  /\ pc' = [pc EXCEPT ![c] = "recv"]
  /\ chan' = [chan EXCEPT ![c] = 0]
  /\ UNCHANGED <<stream, read, during, faults>>
  /\ LoopFrame

\* snapshot.replace, or a projection error, which keeps the previous snapshot.
Publish(c) ==
  /\ pc[c] = "load" /\ DOMAIN read[c] = Tables
  /\ LET v == View(c, read[c])
     IN  served' = [served EXCEPT ![c] = IF v = Error THEN @ ELSE v]
  /\ pc' = [pc EXCEPT ![c] = "recv"]
  /\ UNCHANGED <<stream, chan, read, during, faults>>
  /\ LoopFrame

\* Mutant of SubscribeRoutingInvalidations: nothing follows the instance table.
SubscribeWithoutInstances(c) ==
  /\ pc[c] = "subscribe"
  /\ pc' = [pc EXCEPT ![c] = "recv"]
  /\ stream' = [stream EXCEPT ![c] = [t \in Tables |->
                  IF t = "instances" THEN NoStream ELSE [NoStream EXCEPT !.st = "new"]]]
  /\ UNCHANGED <<chan, read, served, during, faults>>
  /\ LoopFrame

SubscribeRoutingInvalidations(c) ==
  /\ pc[c] = "subscribe"
  /\ pc' = [pc EXCEPT ![c] = "recv"]
  /\ stream' = [stream EXCEPT ![c] = [t \in Tables |-> [NoStream EXCEPT !.st = "new"]]]
  /\ UNCHANGED <<chan, read, served, during, faults>>
  /\ LoopFrame

Recv(c) ==
  /\ pc[c] = "recv"
  /\ \/ /\ chan[c] > 0
        /\ chan' = [chan EXCEPT ![c] = @ - 1]
        /\ pc' = [pc EXCEPT ![c] = "debounce"]
     \/ /\ chan[c] = 0 /\ \A t \in Tables : stream[c][t].st = "ended"
        /\ pc' = [pc EXCEPT ![c] = "exited"]
        /\ UNCHANGED chan
  /\ UNCHANGED <<stream, read, served, during, faults>>
  /\ LoopFrame

\* After the pause: try_recv until the channel is empty, then load.
Drain(c) ==
  /\ pc[c] = "debounce"
  /\ chan' = [chan EXCEPT ![c] = 0]
  /\ pc' = [pc EXCEPT ![c] = "load"]
  /\ read' = [read EXCEPT ![c] = NoRead]
  /\ during' = IF c = "gateway" THEN LiveIn(tab) ELSE during
  /\ UNCHANGED <<stream, served, faults>>
  /\ LoopFrame

-----------------------------------------------------------------------------
(* Requests and queries. *)

UseFrame == UNCHANGED <<tables, sync, during, faults>>

\* request_filter; a request that matches no route is answered 404.
RequestFilter ==
  /\ "gateway" \in Consumers /\ served["gateway"] # NoSnapshot
  /\ req.st = "none"
  /\ \E h \in Hosts, p \in Paths : \E v \in MatchHttpRoute(served["gateway"], h, p),
                                      retry \in BOOLEAN :
       req' = [NoReq EXCEPT !.st = "matched", !.route = v, !.retry = retry]
  /\ UseFrame

\* upstream_peer looks the route up again, by its id, in the snapshot of now.
UpstreamPeer ==
  LET lb == LoadBalancers(served["gateway"])
      id == req.route.id IN
  /\ req.st = "matched"
  /\ \/ /\ id \in DOMAIN lb
        /\ \E i \in lb[id].backends :
             req' = [req EXCEPT !.st = "sent", !.to = i, !.port = lb[id].port]
     \/ id \notin DOMAIN lb /\ req' = NoReq
  /\ UseFrame

\* The upstream answers, or the connection fails and may be tried again.
RequestDone ==
  /\ req.st = "sent"
  /\ \/ req' = NoReq
     \/ req.retry /\ req' = [req EXCEPT !.st = "matched", !.to = "none", !.port = "none"]
  /\ UseFrame

\* handle_request of the resolver, for a query from a workload.
HandleQuery(q, caller) == Resolve(served["dns"], q, caller)

-----------------------------------------------------------------------------
WriterStep ==
  \/ \E r \in Revisions : RegisterRevision(r)
  \/ \E i \in Instances : \/ StartCandidate(i) \/ CandidateReady(i)
                          \/ DrainInstance(i) \/ RemoveInstance(i)
  \/ \E s \in Services : ApplyDeployCommit(s)

StreamStep(c, t) ==
  \/ Subscribe(c, t) \/ StreamRow(c, t) \/ EndOfQuery(c, t) \/ StreamChange(c, t)
  \/ Reconnect(c, t)

StreamFault(c, t) == StreamIoError(c, t) \/ StreamGap(c, t)

LoopStep(c) ==
  \/ \E t \in Tables : QueryTable(c, t)
  \/ (c = "gateway" /\ run_gateway_process) \/ (c = "dns" /\ run_dns_process)
  \/ Publish(c) \/ SubscribeRoutingInvalidations(c) \/ Recv(c) \/ Drain(c)

Next ==
  \/ WriterStep
  \/ \E c \in Consumers :
       \/ LoopStep(c) \/ Start(c) \/ QueryFails(c) \/ StreamEnd(c)
       \/ \E t \in Tables : StreamStep(c, t) \/ StreamFault(c, t)
  \/ RequestFilter \/ UpstreamPeer \/ RequestDone

Spec == Init /\ [][Next]_vars

\* The tasks of the process are scheduled, a stream's server answers, systemd
\* starts a process that failed again, and replication delivers the revisions
\* that rows refer to.
FairSpec ==
  /\ Spec
  /\ \A c \in Consumers :
       /\ WF_vars(LoopStep(c))
       /\ WF_vars(pc[c] = "down" /\ Start(c))
       /\ \A t \in Tables : WF_vars(StreamStep(c, t))
  /\ \A s \in Services : WF_vars(/\ tab.releases[s] # NoRelease
                                 /\ RegisterRevision(tab.releases[s].rev))

-----------------------------------------------------------------------------
(* Properties. *)

Streams ==
  [st : {"none", "new", "open", "lost", "unfinished", "ended"}, left : Nat,
   eoq : BOOLEAN, last : Nat, next : Nat, tries : 0 .. MaxRetries]

\* The variables stay in their ranges; the channel never exceeds its capacity.
TypeOK ==
  /\ tab.revisions \subseteq Revisions
  /\ tab.releases \in [Services -> UNION {Releases[s] : s \in Services} \cup {NoRelease}]
  /\ tab.instances \in [Instances -> {"absent", "ready", "draining"}]
  /\ running \subseteq Instances
  /\ changes \in [Tables -> Nat]
  /\ stream \in [Consumers -> [Tables -> Streams]]
  /\ chan \in [Consumers -> 0 .. ChanCap]
  /\ pc \in [Consumers -> {"down", "boot", "subscribe", "recv", "debounce", "load", "exited"}]
  /\ \A c \in Consumers : DOMAIN read[c] \subseteq Tables
  /\ during \subseteq Instances
  /\ faults \in 0 .. MaxFaults

\* The stream of c on t has delivered everything and will deliver the rest.
CaughtUp(c, t) ==
  LET w == stream[c][t]
  IN  w.st = "open" /\ w.left = 0 /\ w.eoq /\ w.last = changes[t] /\ w.next = changes[t] + 1

Quiet(c) == pc[c] = "recv" /\ chan[c] = 0 /\ \A t \in Tables : CaughtUp(c, t)

Fresh(c) == View(c, tab) \in {served[c], Error}

NoTableEmpty == \A t \in Tables : RowCount(t) > 0

\* No wakeup is lost: when a sync loop waits on an empty channel, no stream has
\* anything left to deliver and its last load was not cut short by a failed
\* query, then what is served is the projection of the tables as they are (or
\* the tables cannot be projected).  The signals drained before a load, the
\* loads that read the three tables at different moments, and the writes made
\* between the first load and the subscriptions are all accounted for.  (A
\* table that is empty when its stream starts sends no first signal, hence
\* the last premise.)
FreshWhenQuiet ==
  NoTableEmpty =>
    \A c \in Consumers : Quiet(c) /\ DOMAIN read[c] = Tables => Fresh(c)

\* A gateway snapshot put together from three separate queries never contains
\* a backend that was not, at one moment of that load, both part of a release
\* and ready.
BackendsWereLive ==
  [][\A c \in Consumers \cap {"gateway"} :
       served'[c] \notin {served[c], NoSnapshot} =>
         \A v \in served'[c].routes : v.backends \subseteq during]_vars

\* The route a request matches does not depend on how ties are sorted:
\* project's conflict checks leave at most one best match for a host and path.
MatchIsUnambiguous ==
  \A c \in Consumers \cap {"gateway"} : served[c] # NoSnapshot =>
    \A h \in Hosts, p \in Paths : Cardinality(MatchHttpRoute(served[c], h, p)) <= 1



\* Once deploys stop writing, every sync loop ends up serving the projection
\* of the tables (unless they have none, or one of them has been emptied).
Converges == \A c \in Consumers : <>[](NoTableEmpty => Fresh(c))

=============================================================================
