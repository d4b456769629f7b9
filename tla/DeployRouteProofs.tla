------------------------- MODULE DeployRouteProofs --------------------------
(***************************************************************************)
(* What a commit may put into the release table: instances that were       *)
(* probed, at revisions that are in the ledger.                            *)
(***************************************************************************)
EXTENDS DeployTypeProofs

\* RoutedAreProbed needs the instances on their way into a release: kept, just
\* started, or in the reply of the agent.
ProbeInv ==
  /\ RoutedAreProbed
  /\ \A d \in Deploys :
       /\ \A x \in loc[d].built : x.inst \in probed
       /\ \A x \in loc[d].todo : x.inst # NoInst => x.inst \in probed
       /\ rpc[d].op = "start" /\ rpc[d].st = "ok" => rpc[d].inst \in probed

\* ReleasedRevisionsRegistered needs the revisions of the services whose slots
\* are being placed.
LedgerInv ==
  /\ ReleasedRevisionsRegistered
  /\ \A d \in Deploys : \A s \in loc[d].reg : <<s, loc[d].man[s].rev>> \in revisions

RouteInv == ProbeInv /\ LedgerInv

\* Nothing new is on its way into the releases of e.
NothingNew(e) ==
  /\ loc'[e].built \subseteq loc[e].built /\ loc'[e].todo \subseteq loc[e].todo
  /\ \/ loc'[e].reg = {}
     \/ loc'[e].reg = loc[e].reg /\ loc'[e].man = loc[e].man
  /\ rpc'[e].op = "start" /\ rpc'[e].st = "ok" => rpc'[e] = rpc[e]

LEMMA QuietStep ==
  ASSUME RouteInv, probed \subseteq probed', revisions \subseteq revisions',
         UNCHANGED releases, \A e \in Deploys : NothingNew(e)
  PROVE  RouteInv'
<1>1. RoutedAreProbed' /\ ReleasedRevisionsRegistered'
  BY Zenon DEF RouteInv, ProbeInv, LedgerInv, RoutedAreProbed, ReleasedRevisionsRegistered, Active
<1>2. ASSUME NEW d \in Deploys
      PROVE  /\ \A x \in loc'[d].built : x.inst \in probed'
             /\ \A x \in loc'[d].todo : x.inst # NoInst => x.inst \in probed'
             /\ rpc'[d].op = "start" /\ rpc'[d].st = "ok" => rpc'[d].inst \in probed'
             /\ \A s \in loc'[d].reg : <<s, loc'[d].man[s].rev>> \in revisions'
  <2>1. NothingNew(d)
    BY Zenon
  <2> QED BY <2>1, Zenon DEF NothingNew, RouteInv, ProbeInv, LedgerInv
<1> QED BY <1>1, <1>2, Zenon DEF RouteInv, ProbeInv, LedgerInv

\* The instances a plan keeps are those of the current releases.
LEMMA WorkKeepsActive ==
  ASSUME TypeInv, NEW C, NEW M \in Manifests \cup {NoManifest},
         NEW x \in Work(releases, C, M), x.inst # NoInst
  PROVE  x.inst \in Active
<1>1. PICK s \in DOMAIN M : \E k \in SlotsOf(M[s].place, C) :
        x = WorkItem(releases[s], C, s, k, M[s].rev)
  BY Zenon DEF Work
<1>2. PICK k \in SlotsOf(M[s].place, C) : x = WorkItem(releases[s], C, s, k, M[s].rev)
  BY <1>1, Zenon
<1> DEFINE kept == KeepCurrent(releases[s], k, DesiredMachine(releases[s], C, k), M[s].rev)
<1>3. kept # {} /\ x.inst = (CHOOSE y \in kept : TRUE).inst
  BY <1>2, Zenon DEF WorkItem
<1>4. PICK y \in kept : x.inst = y.inst
  BY <1>3, Zenon
<1>5. y \in releases[s].slots
  BY Zenon DEF KeepCurrent
<1>6. s \in Services
  BY ManifestType, Zenon
<1> QED BY <1>4, <1>5, <1>6 DEF Active

LEMMA RouteStep ==
  ASSUME TypeInv, RouteInv, Next
  PROVE  RouteInv'
<1>l. /\ loc \in [Deploys -> Locals] /\ rpc \in [Deploys -> Frames]
      /\ loc' \in [Deploys -> Locals]
  BY NextType, Zenon DEF TypeInv, TypeOK
<1>n. NoLocals.built = {} /\ NoLocals.todo = {} /\ NoLocals.reg = {}
  BY Zenon DEF NoLocals
<1> DEFINE Quiet(d, new) ==
             /\ new.built \subseteq loc[d].built /\ new.todo \subseteq loc[d].todo
             /\ new.reg = {} \/ (new.reg = loc[d].reg /\ new.man = loc[d].man)
           QuietLoc(d) ==
             UNCHANGED loc \/ \E new \in Locals : loc' = [loc EXCEPT ![d] = new] /\ Quiet(d, new)
           QuietRpc(d) ==
             UNCHANGED rpc \/ \E f : /\ rpc' = [rpc EXCEPT ![d] = f]
                                     /\ ~(f.op = "start" /\ f.st = "ok")
           QuietStore == /\ probed \subseteq probed' /\ revisions \subseteq revisions'
                         /\ UNCHANGED releases
<1>q. ASSUME NEW d \in Deploys, QuietLoc(d), QuietRpc(d), QuietStore PROVE RouteInv'
  <2>1. ASSUME NEW e \in Deploys PROVE NothingNew(e)
    <3>1. /\ loc'[e].built \subseteq loc[e].built /\ loc'[e].todo \subseteq loc[e].todo
          /\ \/ loc'[e].reg = {}
             \/ loc'[e].reg = loc[e].reg /\ loc'[e].man = loc[e].man
      BY <1>q, <1>l, Zenon
    <3>2. rpc'[e].op = "start" /\ rpc'[e].st = "ok" => rpc'[e] = rpc[e]
      BY <1>q, <1>l, Zenon
    <3> QED BY <3>1, <3>2, Zenon DEF NothingNew
  <2> QED BY <1>q, <2>1, QuietStep, Zenon
<1>c. ASSUME NEW d \in Deploys
      PROVE  /\ \A r \in {"err", "committed", "cleanup_pending"} : Close(d, r) => QuietLoc(d)
             /\ Leave(d) => QuietLoc(d)
             /\ Took(d) => QuietRpc(d)
  <2>1. ASSUME NEW r \in {"err", "committed", "cleanup_pending"}, Close(d, r)
        PROVE  QuietLoc(d)
    <3> DEFINE new == [NoLocals EXCEPT !.opened = loc[d].opened, !.found = loc[d].found,
                                       !.result = r]
    <3>1. new \in Locals /\ new.built = {} /\ new.todo = {} /\ new.reg = {}
      BY <1>l, <1>n, NoLocalsType, Zenon DEF Locals
    <3>2. loc' = [loc EXCEPT ![d] = new]
      BY <2>1, Zenon DEF Close
    <3> HIDE DEF new
    <3> QED BY <3>1, <3>2, Zenon
  <2>2. ASSUME Leave(d) PROVE QuietLoc(d)
    <3>1. loc' = [loc EXCEPT ![d] = NoLocals]
      BY <2>2, Zenon DEF Leave
    <3>2. Quiet(d, NoLocals)
      BY <1>n, Zenon
    <3> HIDE DEF Quiet
    <3> QED BY <3>1, <3>2, NoLocalsType, Zenon
  <2>3. Took(d) => QuietRpc(d)
    <3>1. NoRpc.op # "start"
      BY Zenon DEF NoRpc
    <3> QED BY <3>1, Zenon DEF Took
  <2> QED BY <2>1, <2>2, <2>3, Zenon
<1>f. ASSUME NEW d \in Deploys, NEW P, NEW O, NEW G, NEW S, NEW E, NEW F
      PROVE  /\ Quiet(d, [loc[d] EXCEPT !.seen = S])
             /\ Quiet(d, [loc[d] EXCEPT !.opened = O])
             /\ Quiet(d, [loc[d] EXCEPT !.gone = G, !.plan = P])
             /\ Quiet(d, [loc[d] EXCEPT !.clean = S])
             /\ Quiet(d, [loc[d] EXCEPT !.clean = S, !.errors = E])
             /\ Quiet(d, [loc[d] EXCEPT !.found = F])
  BY <1>l DEF Locals
<1>g. ASSUME NEW d \in Deploys, NEW new, loc' = [loc EXCEPT ![d] = new], Quiet(d, new)
      PROVE  QuietLoc(d)
  <2>1. new \in Locals
    BY <1>l, <1>g, Zenon
  <2> QED BY <1>g, <2>1, Zenon
<1>s. ASSUME NEW d \in Deploys, NEW op, NEW m, NEW i, Send(d, op, m, i) PROVE QuietRpc(d)
  <2> DEFINE f == [st |-> "sent", op |-> op, mach |-> m, inst |-> i]
  <2>1. rpc' = [rpc EXCEPT ![d] = f] /\ f.st # "ok"
    BY <1>s, Zenon DEF Send
  <2> HIDE DEF f
  <2> QED BY <2>1, Zenon
<1>r. ASSUME NEW d \in Deploys, NEW st, Reply(d, st), st # "ok" \/ rpc[d].op # "start"
      PROVE  QuietRpc(d)
  <2> DEFINE f == IF pc[d] = "dead" THEN NoRpc ELSE [rpc[d] EXCEPT !.st = st]
  <2>1. rpc' = [rpc EXCEPT ![d] = f]
    BY <1>r, Zenon DEF Reply
  <2>2. ~(f.op = "start" /\ f.st = "ok")
    <3>1. rpc[d] \in Frames
      BY <1>l, Zenon
    <3> QED BY <1>r, <3>1, Zenon DEF Frames, NoRpc, SessionFrames, InstanceFrames, StartFrames
  <2> HIDE DEF f
  <2> QED BY <2>1, <2>2, Zenon
<1>u. UNCHANGED loc => \A d \in Deploys : QuietLoc(d)
  BY Zenon
<1>w. UNCHANGED rpc => \A d \in Deploys : QuietRpc(d)
  BY Zenon
<1> HIDE DEF Quiet, QuietLoc, QuietRpc
<1>1. ASSUME NEW d \in Deploys, QuietStore,
             \/ \E r \in {"err", "committed", "cleanup_pending"} : Close(d, r)
             \/ Leave(d),
             UNCHANGED rpc \/ Took(d)
      PROVE  RouteInv'
  BY <1>1, <1>c, <1>q, <1>w, Zenon
<1>2. ASSUME NEW d \in Deploys, Begin(d) PROVE RouteInv'
  <2>1. PICK M \in Manifests :
          loc' = [loc EXCEPT ![d].man = M,
                    ![d].parts = Participants(releases, fleet.deployable, Coord[d])]
    BY <1>2, Zenon DEF Begin
  <2> DEFINE new == [loc[d] EXCEPT !.man = M,
                       !.parts = Participants(releases, fleet.deployable, Coord[d])]
  <2>2. loc' = [loc EXCEPT ![d] = new]
    BY <2>1, Zenon
  <2>3. loc[d].reg = {}
    BY <1>2, Zenon DEF Begin, TypeInv
  <2>4. Quiet(d, new)
    BY <1>l, <2>3 DEF Locals, Quiet
  <2> HIDE DEF new
  <2>5. QuietLoc(d)
    BY <1>g, <2>2, <2>4, Zenon
  <2> QED BY <1>2, <1>q, <1>w, <2>5, Zenon DEF Begin, store, runtime
<1>3. ASSUME NEW d \in Deploys, ListMachines(d) PROVE RouteInv'
  <2>1. CASE Leave(d)
    BY <1>1, <1>3, <2>1, Zenon DEF ListMachines, store, runtime
  <2>2. CASE loc' = [loc EXCEPT ![d].seen = fleet]
    <3>1. loc' = [loc EXCEPT ![d] = [loc[d] EXCEPT !.seen = fleet]]
      BY <2>2, Zenon
    <3>2. QuietLoc(d)
      BY <1>f, <1>g, <3>1, Zenon
    <3> QED BY <1>3, <1>q, <1>w, <3>2, Zenon DEF ListMachines, store, runtime
  <2> QED BY <1>3, <2>1, <2>2, Zenon DEF ListMachines
<1>4. ASSUME NEW d \in Deploys, OpenNext(d) PROVE RouteInv'
  <2>1. QuietStore
    BY <1>4, Zenon DEF OpenNext, store, runtime
  <2>2. CASE Leave(d) /\ UNCHANGED rpc
    BY <1>1, <2>1, <2>2, Zenon
  <2>3. CASE UNCHANGED loc /\ \E m : Send(d, "open", m, NoInst)
    BY <1>q, <1>s, <1>u, <2>1, <2>3, Zenon
  <2> QED BY <1>4, <2>2, <2>3, Zenon DEF OpenNext
<1>5. ASSUME NEW d \in Deploys, OpenReply(d) PROVE RouteInv'
  <2>1. QuietStore /\ Took(d)
    BY <1>5, Zenon DEF OpenReply, store, runtime
  <2>2. CASE Leave(d)
    BY <1>1, <2>1, <2>2, Zenon
  <2>3. CASE loc' = [loc EXCEPT ![d].opened = @ \cup {rpc[d].mach}]
    <3>1. PICK O : loc' = [loc EXCEPT ![d] = [loc[d] EXCEPT !.opened = O]]
      BY <2>3, Zenon
    <3>2. Quiet(d, [loc[d] EXCEPT !.opened = O])
      BY <1>f, Zenon
    <3>3. QuietLoc(d)
      BY <1>g, <3>1, <3>2, Zenon
    <3> QED BY <1>c, <1>q, <2>1, <3>3, Zenon
  <2> QED BY <1>5, <2>2, <2>3, Zenon DEF OpenReply
<1>6. ASSUME NEW d \in Deploys, Revalidate(d) PROVE RouteInv'
  <2>1. QuietStore /\ UNCHANGED rpc
    BY <1>6, Zenon DEF Revalidate, runtime
  <2>2. CASE Close(d, "err")
    BY <1>1, <2>1, <2>2, Zenon
  <2>3. CASE \E G, P : loc' = [loc EXCEPT ![d].gone = G, ![d].plan = P]
    <3>1. PICK G, P : loc' = [loc EXCEPT ![d].gone = G, ![d].plan = P]
      BY <2>3, Zenon
    <3>2. loc' = [loc EXCEPT ![d] = [loc[d] EXCEPT !.gone = G, !.plan = P]]
      BY <3>1, Zenon
    <3>3. QuietLoc(d)
      BY <1>f, <1>g, <3>2, Zenon
    <3> QED BY <1>q, <1>w, <2>1, <3>3, Zenon
  <2> QED BY <1>6, <2>2, <2>3, Zenon DEF Revalidate
<1>7. ASSUME NEW d \in Deploys, PlanSlots(d) PROVE RouteInv'
  <2>1. QuietStore /\ UNCHANGED rpc /\ UNCHANGED <<probed, revisions, releases>>
    BY <1>7, Zenon DEF PlanSlots, store, runtime
  <2>2. CASE Close(d, "err")
    BY <1>1, <2>1, <2>2, Zenon
  <2>3. CASE \E fresh : loc' = [loc EXCEPT ![d].todo =
                Work(releases, DeployableMachines(fresh, Coord[d]), loc[d].man)]
    <3>1. PICK C : loc' = [loc EXCEPT ![d].todo = Work(releases, C, loc[d].man)]
      BY <2>3, Zenon
    <3>2. loc[d].man \in Manifests \cup {NoManifest}
      BY <1>l, Zenon DEF Locals
    <3>3. \A x \in Work(releases, C, loc[d].man) : x.inst # NoInst => x.inst \in probed
      BY <3>2, WorkKeepsActive, Zenon DEF RouteInv, ProbeInv, RoutedAreProbed
    <3>4. \A e \in Deploys : /\ loc'[e].built = loc[e].built /\ loc'[e].reg = loc[e].reg
                             /\ loc'[e].man = loc[e].man
                             /\ \/ loc'[e].todo = loc[e].todo
                                \/ loc'[e].todo = Work(releases, C, loc[d].man)
      BY <1>l, <3>1 DEF Locals
    <3>5. ProbeInv'
      BY <2>1, <3>3, <3>4, Zenon DEF RouteInv, ProbeInv, RoutedAreProbed, Active
    <3>6. LedgerInv'
      BY <2>1, <3>4, Zenon DEF RouteInv, LedgerInv, ReleasedRevisionsRegistered
    <3> QED BY <3>5, <3>6, Zenon DEF RouteInv
  <2> QED BY <1>7, <2>2, <2>3, Zenon DEF PlanSlots
<1>8. ASSUME NEW d \in Deploys, Register(d) PROVE RouteInv'
  <2>1. UNCHANGED <<rpc, releases, probed>>
    BY <1>8, Zenon DEF Register, runtime
  <2>2. CASE Close(d, "err") /\ revisions \subseteq revisions'
    BY <1>1, <2>1, <2>2, Zenon
  <2>3. CASE \E s \in DOMAIN loc[d].man :
               /\ revisions' = revisions \cup {<<s, loc[d].man[s].rev>>}
               /\ loc' = [loc EXCEPT ![d].reg = @ \cup {s}]
    <3>1. PICK s \in DOMAIN loc[d].man :
               /\ revisions' = revisions \cup {<<s, loc[d].man[s].rev>>}
               /\ loc' = [loc EXCEPT ![d].reg = @ \cup {s}]
      BY <2>3, Zenon
    <3>2. \A e \in Deploys : /\ loc'[e].built = loc[e].built /\ loc'[e].todo = loc[e].todo
                             /\ loc'[e].man = loc[e].man
                             /\ \/ loc'[e].reg = loc[e].reg
                                \/ e = d /\ loc'[e].reg = loc[e].reg \cup {s}
      BY <1>l, <3>1 DEF Locals
    <3>3. ProbeInv'
      BY <2>1, <3>2, Zenon DEF RouteInv, ProbeInv, RoutedAreProbed, Active
    <3>4. LedgerInv'
      BY <2>1, <3>1, <3>2 DEF RouteInv, LedgerInv, ReleasedRevisionsRegistered
    <3> QED BY <3>3, <3>4, Zenon DEF RouteInv
  <2> QED BY <1>8, <2>2, <2>3, Zenon DEF Register
<1>9. ASSUME NEW d \in Deploys, NEW x \in loc[d].todo, NEW i \in Instances, Placed(d, x, i),
             i \in probed, UNCHANGED <<releases, revisions, probed>>,
             \A e \in Deploys : rpc'[e] = rpc[e] \/ rpc'[e].op # "start"
      PROVE  RouteInv'
  <2> DEFINE y == [x EXCEPT !.inst = i]
             new == [loc[d] EXCEPT !.todo = loc[d].todo \ {x}, !.built = loc[d].built \cup {y}]
  <2>1. loc' = [loc EXCEPT ![d] = new]
    BY <1>9, Zenon DEF Placed
  <2>2. x \in WorkItems
    BY <1>l, <1>9, Zenon DEF Locals
  <2>3. y.inst = i
    BY <2>2, Zenon DEF WorkItems
  <2> HIDE DEF y
  <2>a. /\ new.todo \subseteq loc[d].todo /\ new.built = loc[d].built \cup {y}
        /\ new.reg = loc[d].reg /\ new.man = loc[d].man
    BY <1>l DEF Locals
  <2> HIDE DEF new
  <2>4. \A e \in Deploys : /\ loc'[e].todo \subseteq loc[e].todo /\ loc'[e].reg = loc[e].reg
                           /\ loc'[e].man = loc[e].man
                           /\ \A z \in loc'[e].built : z \in loc[e].built \/ z.inst = i
    BY <1>l, <2>1, <2>3, <2>a, Zenon
  <2>5. ProbeInv'
    BY <1>9, <2>4, Zenon DEF RouteInv, ProbeInv, RoutedAreProbed, Active
  <2>6. LedgerInv'
    BY <1>9, <2>4, Zenon DEF RouteInv, LedgerInv, ReleasedRevisionsRegistered
  <2> QED BY <2>5, <2>6, Zenon DEF RouteInv
<1>10. ASSUME NEW d \in Deploys, KeepSlot(d) PROVE RouteInv'
  <2>1. PICK x \in Pending(d) : x.inst # NoInst /\ Placed(d, x, x.inst)
    BY <1>10, Zenon DEF KeepSlot
  <2>2. x \in loc[d].todo /\ x \in WorkItems
    BY <1>l, Zenon DEF Pending, Locals
  <2>3. x.inst \in Instances /\ x.inst \in probed
    BY <2>1, <2>2, Zenon DEF WorkItems, RouteInv, ProbeInv
  <2> QED BY <1>9, <1>10, <2>1, <2>2, <2>3, Zenon DEF KeepSlot, store, runtime
<1>11. ASSUME NEW d \in Deploys, StartSlot(d) PROVE RouteInv'
  <2>1. QuietStore
    BY <1>11, Zenon DEF StartSlot, store, runtime
  <2>2. CASE Close(d, "err") /\ UNCHANGED rpc
    BY <1>1, <2>1, <2>2, Zenon
  <2>3. CASE UNCHANGED loc /\ \E m, i : Send(d, "start", m, i)
    BY <1>q, <1>s, <1>u, <2>1, <2>3, Zenon
  <2> QED BY <1>11, <2>2, <2>3, Zenon DEF StartSlot
<1>12. ASSUME NEW d \in Deploys, StartReply(d) PROVE RouteInv'
  <2>1. Took(d) /\ UNCHANGED <<releases, revisions, probed>>
    BY <1>12, Zenon DEF StartReply, runtime
  <2>2. CASE Close(d, "err")
    BY <1>1, <2>1, <2>2, Zenon
  <2>3. CASE /\ Answered(d, "start", "ok")
             /\ \E x \in Pending(d) : Placed(d, x, rpc[d].inst)
    <3>1. PICK x \in Pending(d) : Placed(d, x, rpc[d].inst)
      BY <2>3, Zenon
    <3>2. rpc[d].inst \in probed
      BY <2>3, Zenon DEF Answered, RouteInv, ProbeInv
    <3>3. rpc[d].inst \in Instances
      BY <3>2, Zenon DEF TypeInv, TypeOK
    <3>4. x \in loc[d].todo
      BY Zenon DEF Pending
    <3>5. \A e \in Deploys : rpc'[e] = rpc[e] \/ rpc'[e].op # "start"
      <4>1. NoRpc.op # "start"
        BY Zenon DEF NoRpc
      <4> QED BY <1>l, <2>1, <4>1, Zenon DEF Took
    <3> QED BY <1>9, <2>1, <3>1, <3>2, <3>3, <3>4, <3>5, Zenon
  <2> QED BY <1>12, <2>2, <2>3, Zenon DEF StartReply
<1>13. ASSUME NEW d \in Deploys, Commit(d) PROVE RouteInv'
  <2>1. UNCHANGED <<rpc, probed, revisions>>
    BY <1>13, Zenon DEF Commit, runtime
  <2>2. CASE Close(d, "err") /\ UNCHANGED releases
    BY <1>1, <2>1, <2>2, Zenon
  <2>3. CASE /\ releases' = CommitReleases(releases, loc[d].gone, loc[d].man, loc[d].built)
             /\ UNCHANGED loc \/ Close(d, "err")
    <3>1. ASSUME NEW s \in Services, NEW x \in releases'[s].slots PROVE x.inst \in probed
      <4>1. CASE s \in DOMAIN loc[d].man
        BY <2>3, <3>1, <4>1 DEF CommitReleases, RouteInv, ProbeInv
      <4>2. CASE s \notin DOMAIN loc[d].man
        <5>1. releases'[s] = NoRelease \/ releases'[s] = releases[s]
          BY <2>3, <4>2, Zenon DEF CommitReleases
        <5> QED BY <3>1, <5>1 DEF NoRelease, RouteInv, ProbeInv, RoutedAreProbed, Active
      <4> QED BY <4>1, <4>2, Zenon
    <3>2. ASSUME NEW s \in Services, releases'[s] # NoRelease
          PROVE  <<s, releases'[s].rev>> \in revisions
      <4>1. CASE s \in DOMAIN loc[d].man
        <5>1. s \in loc[d].reg
          BY <1>13, <4>1, Zenon DEF Commit
        <5>2. releases'[s].rev = loc[d].man[s].rev
          BY <2>3, <4>1, Zenon DEF CommitReleases
        <5> QED BY <5>1, <5>2, Zenon DEF RouteInv, LedgerInv
      <4>2. CASE s \notin DOMAIN loc[d].man
        <5>1. releases'[s] = NoRelease \/ releases'[s] = releases[s]
          BY <2>3, <4>2, Zenon DEF CommitReleases
        <5> QED BY <3>2, <5>1, Zenon DEF RouteInv, LedgerInv, ReleasedRevisionsRegistered
      <4> QED BY <4>1, <4>2, Zenon
    <3>3. \A e \in Deploys : NothingNew(e)
      <4>1. QuietLoc(d)
        BY <1>c, <1>u, <2>3, Zenon
      <4>2. ASSUME NEW e \in Deploys PROVE NothingNew(e)
        BY <1>l, <2>1, <4>1, Zenon DEF NothingNew, QuietLoc, Quiet
      <4> QED BY <4>2, Zenon
    <3>4. RoutedAreProbed' /\ ReleasedRevisionsRegistered'
      BY <2>1, <3>1, <3>2 DEF RoutedAreProbed, Active, ReleasedRevisionsRegistered
    <3>5. ProbeInv'
      BY <2>1, <3>3, <3>4, Zenon DEF NothingNew, RouteInv, ProbeInv
    <3>6. LedgerInv'
      BY <2>1, <3>3, <3>4, Zenon DEF NothingNew, RouteInv, LedgerInv
    <3> QED BY <3>5, <3>6, Zenon DEF RouteInv
  <2> QED BY <1>13, <2>2, <2>3, Zenon DEF Commit
<1>14. ASSUME NEW d \in Deploys, ListCleanup(d) PROVE RouteInv'
  <2>1. QuietStore /\ UNCHANGED rpc
    BY <1>14, Zenon DEF ListCleanup, store, runtime
  <2>2. CASE Close(d, "err")
    BY <1>1, <2>1, <2>2, Zenon
  <2>3. CASE \E S : loc' = [loc EXCEPT ![d].clean = S]
    <3>1. PICK S : loc' = [loc EXCEPT ![d] = [loc[d] EXCEPT !.clean = S]]
      BY <2>3, Zenon
    <3>2. QuietLoc(d)
      BY <1>f, <1>g, <3>1, Zenon
    <3> QED BY <1>q, <1>w, <2>1, <3>2, Zenon
  <2> QED BY <1>14, <2>2, <2>3, Zenon DEF ListCleanup
<1>15. ASSUME NEW d \in Deploys, DrainNext(d) \/ CloseNext(d) PROVE RouteInv'
  <2>1. QuietStore /\ UNCHANGED loc /\ \E op, m, i : Send(d, op, m, i)
    BY <1>15, Zenon DEF DrainNext, CloseNext, store, runtime
  <2> QED BY <1>q, <1>s, <1>u, <2>1, Zenon
<1>16. ASSUME NEW d \in Deploys, DrainReply(d) \/ RemoveReply(d) PROVE RouteInv'
  <2>1. QuietStore
    BY <1>16, Zenon DEF DrainReply, RemoveReply, store, runtime
  <2>2. CASE UNCHANGED loc /\ \E op, m, i : Send(d, op, m, i)
    BY <1>q, <1>s, <1>u, <2>1, <2>2, Zenon
  <2>3. CASE Took(d) /\ \E S, E : loc' = [loc EXCEPT ![d].clean = S, ![d].errors = E]
    <3>1. PICK S, E : loc' = [loc EXCEPT ![d] = [loc[d] EXCEPT !.clean = S, !.errors = E]]
      BY <2>3, Zenon
    <3>2. QuietLoc(d)
      BY <1>f, <1>g, <3>1, Zenon
    <3> QED BY <1>c, <1>q, <2>1, <2>3, <3>2, Zenon
  <2> QED BY <1>16, <2>2, <2>3, Zenon DEF DrainReply, RemoveReply
<1>17. ASSUME NEW d \in Deploys, Finish(d) PROVE RouteInv'
  <2>1. QuietStore /\ UNCHANGED rpc /\ \E r \in {"err", "committed", "cleanup_pending"} : Close(d, r)
    BY <1>17, Zenon DEF Finish, runtime
  <2> QED BY <1>1, <2>1, Zenon
<1>18. ASSUME NEW d \in Deploys, CloseReply(d) PROVE RouteInv'
  <2>1. loc' = [loc EXCEPT ![d] = [loc[d] EXCEPT !.opened = loc[d].opened \ {rpc[d].mach}]]
    BY <1>18, Zenon DEF CloseReply
  <2>2. QuietLoc(d)
    BY <1>f, <1>g, <2>1
  <2> QED BY <1>18, <1>c, <1>q, <2>2, Zenon DEF CloseReply, store, runtime
<1>19. ASSUME NEW d \in Deploys, Return(d) PROVE RouteInv'
  <2>1. Quiet(d, NoLocals)
    BY <1>n, Zenon DEF Quiet
  <2>2. QuietLoc(d)
    BY <1>19, <1>g, <2>1, Zenon DEF Return
  <2> QED BY <1>19, <1>q, <1>w, <2>2, Zenon DEF Return, store, runtime
<1>20. ASSUME NEW d \in Deploys, OpenSession(d) PROVE RouteInv'
  <2>1. QuietStore /\ rpc[d].op # "start" /\ \E st : Reply(d, st)
    BY <1>20, Zenon DEF OpenSession, Frame, runtime
  <2>2. QuietRpc(d)
    BY <1>r, <2>1, Zenon
  <2>3. QuietLoc(d)
    <3>1. CASE UNCHANGED loc
      BY <1>u, <3>1, Zenon
    <3>2. CASE \E F : loc' = [loc EXCEPT ![d].found = F]
      <4>1. PICK F : loc' = [loc EXCEPT ![d] = [loc[d] EXCEPT !.found = F]]
        BY <3>2, Zenon
      <4> QED BY <1>f, <1>g, <4>1, Zenon
    <3> QED BY <1>20, <3>1, <3>2, Zenon DEF OpenSession
  <2> QED BY <1>q, <2>1, <2>2, <2>3, Zenon
<1>21. ASSUME NEW d \in Deploys, EnsureContainer(d) PROVE RouteInv'
  <2>1. QuietStore /\ UNCHANGED loc
    BY <1>21, Zenon DEF EnsureContainer, store
  <2>2. CASE Reply(d, "err")
    BY <1>q, <1>r, <1>u, <2>1, <2>2, Zenon
  <2>3. CASE rpc' = [rpc EXCEPT ![d].st = "busy"]
    <3>1. rpc[d] \in Frames
      BY <1>l, Zenon
    <3>2. [rpc[d] EXCEPT !.st = "busy"].st = "busy"
      BY <3>1, Zenon DEF Frames, NoRpc, SessionFrames, InstanceFrames, StartFrames
    <3>3. rpc' = [rpc EXCEPT ![d] = [rpc[d] EXCEPT !.st = "busy"]]
      BY <2>3, Zenon
    <3>4. QuietRpc(d)
      BY <3>2, <3>3, Zenon DEF QuietRpc
    <3> QED BY <1>q, <1>u, <2>1, <3>4, Zenon
  <2> QED BY <1>21, <2>2, <2>3, Zenon DEF EnsureContainer
<1>22. ASSUME NEW d \in Deploys, WaitReady(d) PROVE RouteInv'
  <2>1. QuietStore /\ UNCHANGED loc /\ UNCHANGED <<releases, revisions>>
    BY <1>22, Zenon DEF WaitReady, BecomesReady
  <2>2. CASE Reply(d, "err")
    BY <1>q, <1>r, <1>u, <2>1, <2>2, Zenon
  <2>3. CASE probed' = probed \cup {rpc[d].inst} /\ Reply(d, "ok")
    <3>1. rpc[d] \in Frames
      BY <1>l, Zenon
    <3>2. [rpc[d] EXCEPT !.st = "ok"].inst = rpc[d].inst
      BY <3>1, Zenon DEF Frames, NoRpc, SessionFrames, InstanceFrames, StartFrames
    <3>3. NoRpc.op # "start"
      BY Zenon DEF NoRpc
    <3>4. \A e \in Deploys : \/ rpc'[e] = rpc[e]
                             \/ rpc'[e].op # "start"
                             \/ rpc'[e].inst = rpc[d].inst
      BY <1>l, <2>3, <3>2, <3>3, Zenon DEF Reply
    <3>5. ProbeInv'
      BY <2>1, <2>3, <3>4, Zenon DEF RouteInv, ProbeInv, RoutedAreProbed, Active
    <3>6. LedgerInv'
      BY <2>1, Zenon DEF RouteInv, LedgerInv, ReleasedRevisionsRegistered
    <3> QED BY <3>5, <3>6, Zenon DEF RouteInv
  <2> QED BY <1>22, <2>2, <2>3, Zenon DEF WaitReady, BecomesReady
<1>23. ASSUME NEW d \in Deploys,
              \/ DrainInstance(d) \/ RemoveInstance(d) \/ CloseSession(d)
              \/ SessionGone(d) \/ ConnectFail(d)
       PROVE  RouteInv'
  <2>1. /\ QuietStore /\ UNCHANGED loc
        /\ \E st : Reply(d, st) /\ (st # "ok" \/ rpc[d].op # "start")
    BY <1>23 DEF DrainInstance, RemoveInstance, CloseSession, SessionGone, ConnectFail, Frame,
                 store, runtime
  <2> QED BY <1>q, <1>r, <1>u, <2>1, Zenon
<1>24. ASSUME NEW d \in Deploys, FinishUnheard(d) PROVE RouteInv'
  <2>1. QuietStore /\ UNCHANGED <<loc, rpc>>
    BY <1>24, Zenon DEF FinishUnheard
  <2> QED BY <1>q, <1>u, <1>w, <2>1, Zenon
<1>25. ASSUME NEW d \in Deploys, NEW m \in Machines, HandlerEof(d, m) \/ ConnBreak(d, m)
       PROVE  RouteInv'
  <2>1. QuietStore /\ UNCHANGED loc
    BY <1>25, Zenon DEF HandlerEof, ConnBreak, store, runtime
  <2>2. \/ rpc' = [rpc EXCEPT ![d] = NoRpc] \/ UNCHANGED rpc
        \/ rpc' = [rpc EXCEPT ![d] = [rpc[d] EXCEPT !.st = "err"]]
    BY <1>l, <1>25, Zenon DEF HandlerEof, ConnBreak
  <2>3. NoRpc.op # "start" /\ [rpc[d] EXCEPT !.st = "err"].st # "ok"
    <3>1. rpc[d] \in Frames
      BY <1>l, Zenon
    <3> QED BY <3>1, Zenon DEF Frames, NoRpc, SessionFrames, InstanceFrames, StartFrames
  <2>4. QuietRpc(d)
    BY <2>2, <2>3, Zenon DEF QuietRpc
  <2> QED BY <1>q, <1>u, <2>1, <2>4, Zenon
<1>26. ASSUME NEW m, NEW silent, Crash(m, silent) PROVE RouteInv'
  <2>1. QuietStore
    BY <1>26, Zenon DEF Crash, store, runtime
  <2>2. ASSUME NEW e \in Deploys PROVE NothingNew(e)
    <3>1. loc'[e] = NoLocals \/ loc'[e] = loc[e]
      BY <1>26, Zenon DEF Crash
    <3>2. rpc'[e].op = "start" /\ rpc'[e].st = "ok" => rpc'[e] = rpc[e]
      <4>1. rpc[e] \in Frames
        BY <1>l, Zenon
      <4>2. /\ NoRpc.op # "start" /\ [rpc[e] EXCEPT !.st = "err"].st # "ok"
            /\ [rpc[e] EXCEPT !.st = "lost"].st # "ok"
        BY <4>1, Zenon DEF Frames, NoRpc, SessionFrames, InstanceFrames, StartFrames
      <4>3. \/ rpc'[e] = rpc[e] \/ rpc'[e] = NoRpc
            \/ rpc'[e] = [rpc[e] EXCEPT !.st = "err"] \/ rpc'[e] = [rpc[e] EXCEPT !.st = "lost"]
        BY <1>26, Zenon DEF Crash
      <4> QED BY <4>2, <4>3, Zenon
    <3> QED BY <1>n, <3>1, <3>2, Zenon DEF NothingNew
  <2> QED BY <2>1, <2>2, QuietStep, Zenon
<1>27. ASSUME FleetChange \/ Quiescent PROVE RouteInv'
  <2>1. UNCHANGED <<releases, revisions, probed, loc, rpc>>
    BY <1>27, Zenon DEF FleetChange, Quiescent, vars, store, runtime
  <2> QED BY <2>1, QuietStep, Zenon DEF NothingNew
<1> HIDE DEF QuietStore
<1>28. ASSUME NEW d \in Deploys, Apply(d) PROVE RouteInv'
  BY <1>28, <1>3, <1>4, <1>5, <1>6, <1>7, <1>8, <1>10, <1>11, <1>12, <1>13, <1>14, <1>15,
     <1>16, <1>17, <1>18, <1>19, Zenon DEF Apply
<1>29. ASSUME NEW d \in Deploys, Agent(d) PROVE RouteInv'
  BY <1>29, <1>20, <1>21, <1>22, <1>23, <1>24, <1>25, Zenon DEF Agent
<1>30. ASSUME Fault PROVE RouteInv'
  BY <1>30, <1>23, <1>25, <1>26, Zenon DEF Fault
<1> QED BY <1>2, <1>27, <1>28, <1>29, <1>30, Zenon DEF Next

LEMMA RouteInit == Init => RouteInv
<1>1. NoLocals.built = {} /\ NoLocals.todo = {} /\ NoLocals.reg = {} /\ NoRpc.op # "start"
  BY Zenon DEF NoLocals, NoRpc
<1>2. NoRelease.slots = {}
  BY Zenon DEF NoRelease
<1> QED BY <1>1, <1>2 DEF Init, RouteInv, ProbeInv, LedgerInv, RoutedAreProbed,
                          ReleasedRevisionsRegistered, Active

LEMMA RouteStutter == RouteInv /\ UNCHANGED vars => RouteInv'
BY QuietStep, Zenon DEF vars, store, runtime, NothingNew

LEMMA RouteInvariant == Spec => []RouteInv
<1>1. TypeInv /\ RouteInv /\ [Next]_vars => RouteInv'
  BY RouteStep, RouteStutter, Zenon
<1>2. TypeInv /\ [Next]_vars => TypeInv'
  BY NextType, Zenon
<1> QED BY <1>1, <1>2, InitType, RouteInit, PTL DEF Spec

\* Only instances that passed their readiness wait are ever in a committed
\* release, so the gateway routes to nothing else: for any fleet, any number of
\* concurrent applies and any crashes and broken connections.
THEOREM RoutedWereProbed == Spec => []RoutedAreProbed
<1>1. RouteInv => RoutedAreProbed
  BY Zenon DEF RouteInv, ProbeInv
<1> QED BY <1>1, RouteInvariant, PTL

\* Every committed release names a revision of the ledger, although the ledger
\* is written service by service long before the commit and by other deploys.
THEOREM ReleasedAreRegistered == Spec => []ReleasedRevisionsRegistered
<1>1. RouteInv => ReleasedRevisionsRegistered
  BY Zenon DEF RouteInv, LedgerInv
<1> QED BY <1>1, RouteInvariant, PTL
=============================================================================
