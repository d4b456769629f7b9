-------------------------- MODULE DeployTypeProofs --------------------------
(***************************************************************************)
(* Type correctness of Deploy.                                             *)
(***************************************************************************)
EXTENDS Deploy, FiniteSetTheorems, WellFoundedInduction, TLAPS

-----------------------------------------------------------------------------
(* Planning *)

\* A nonempty set of naturals has a least element, and Least is it: sessions
\* are opened and closed on a machine of the set being walked.
LEMMA LeastIsLeast ==
  ASSUME NEW S, S \subseteq Nat, S # {}
  PROVE  Least(S) \in S /\ \A y \in S : Least(S) <= y
<1> DEFINE Less == {ss \in Nat \X Nat : ss[1] < ss[2]}
<1>1. IsWellFoundedOn(Less, Nat)
  BY NatLessThanWellFounded, Zenon DEF OpToRel
<1> HIDE DEF Less
<1>2. PICK x \in S : \A y \in S : ~(<<y, x>> \in Less)
  BY <1>1, WFMin, Zenon
<1>3. ASSUME NEW y \in S PROVE x <= y
  <2>1. x \in Nat /\ y \in Nat
    BY Zenon
  <2>2. <<y, x>> \in Less <=> y < x
    BY <2>1, Zenon DEF Less
  <2> QED BY <1>2, <2>1, <2>2
<1> QED BY <1>3, Zenon DEF Least

Rank(C, x) == Cardinality({y \in C : y < x})

\* Every rank below the size of a finite set of naturals is the rank of one of
\* its elements.  The proof takes the least rank that is not.
LEMMA EveryRankOccurs ==
  ASSUME NEW C, C \subseteq Nat, IsFiniteSet(C), C # {},
         NEW r \in Nat, r < Cardinality(C)
  PROVE  \E x \in C : Rank(C, x) = r
<1> DEFINE Missing == {j \in 0..r : \A x \in C : Rank(C, x) # j}
<1> SUFFICES ASSUME Missing # {} PROVE FALSE
  OBVIOUS
<1>n. Cardinality(C) \in Nat
  BY FS_CardinalityType, Zenon
<1>1. Missing \subseteq Nat
  OBVIOUS
<1> DEFINE j == Least(Missing)
<1>2. j \in Missing /\ \A i \in Missing : j <= i
  BY <1>1, LeastIsLeast, Zenon
<1>3. CASE j = 0
  <2>1. PICK x \in C : \A y \in C : x <= y
    BY LeastIsLeast, Zenon
  <2>2. \A y \in C : ~(y < x)
    BY <2>1
  <2>3. Rank(C, x) = 0
    BY <2>2, FS_EmptySet, Zenon DEF Rank
  <2> QED BY <1>2, <1>3, <2>3, Zenon
<1>4. CASE j # 0
  <2>1. j \in Nat /\ j - 1 \in Nat /\ j - 1 \notin Missing /\ j <= r /\ j - 1 \in 0..r
    BY <1>1, <1>2, <1>4
  <2>2. PICK x \in C : Rank(C, x) = j - 1
    BY <2>1, Zenon
  <2> DEFINE Below == {y \in C : y < x}
             Above == {y \in C : x < y}
  <2>3. IsFiniteSet(Below) /\ Cardinality(Below) = j - 1
    BY <2>2, FS_Subset, Zenon DEF Rank
  <2>4. IsFiniteSet(Below \cup {x}) /\ Cardinality(Below \cup {x}) = j
    <3>1. x \notin Below
      BY C \subseteq Nat
    <3> HIDE DEF Below, Missing, j
    <3> QED BY <2>3, <3>1, FS_AddElement, <2>1
  <2>5. Above # {}
    <3>1. SUFFICES ASSUME Above = {} PROVE FALSE
      BY Zenon
    <3>2. \A y \in C : y < x \/ y = x
      <4>1. \A y \in C : ~(x < y)
        BY <3>1, Zenon
      <4> QED BY <4>1
    <3>3. C = Below \cup {x}
      BY <3>2, Zenon
    <3> HIDE DEF Below, Above, Missing, j
    <3> QED BY <3>3, <2>4, <2>1, <1>n
  <2>6. PICK z \in Above : \A y \in Above : z <= y
    <3>1. Above \subseteq Nat
      BY Zenon
    <3> HIDE DEF Above
    <3> QED BY <2>5, <3>1, LeastIsLeast, Zenon
  <2>7. {y \in C : y < z} = Below \cup {x}
    <3>1. \A y \in C : y < z <=> y < x \/ y = x
      <4>1. z \in Nat /\ x \in Nat /\ x < z
        BY <2>6, Zenon
      <4>2. \A y \in C : x < y => z <= y
        BY <2>6, Zenon
      <4> QED BY <4>1, <4>2
    <3> QED BY <3>1, Zenon
  <2>8. z \in C /\ Rank(C, z) = j
    BY <2>4, <2>6, <2>7, Zenon DEF Rank
  <2> QED BY <1>2, <2>8, Zenon
<1> QED BY <1>3, <1>4, Zenon

\* The machine desired_slots picks for a new replica is one of the candidates,
\* so the "candidate index out of bounds" error cannot happen.
LEMMA CandidateAtIsCandidate ==
  ASSUME NEW C, C \subseteq Nat, IsFiniteSet(C), C # {}, NEW k \in Nat
  PROVE  CandidateAt(C, k) \in C
<1>1. Cardinality(C) \in Nat \ {0}
  BY FS_CardinalityType, FS_EmptySet, Zenon
<1>2. k % Cardinality(C) \in Nat /\ k % Cardinality(C) < Cardinality(C)
  BY <1>1
<1>3. \E x \in C : Cardinality({y \in C : y < x}) = k % Cardinality(C)
  BY <1>2, EveryRankOccurs, Zenon DEF Rank
<1> QED BY <1>3, Zenon DEF CandidateAt

\* The machines a plan may use form a nonempty finite set.
LEMMA DeployableType ==
  ASSUME NEW D \in SUBSET Machines, NEW m \in Machines
  PROVE  /\ DeployableMachines(D, m) \in SUBSET Machines
         /\ DeployableMachines(D, m) # {}
         /\ IsFiniteSet(DeployableMachines(D, m))
<1>1. DeployableMachines(D, m) \in SUBSET Machines /\ DeployableMachines(D, m) # {}
  BY Zenon DEF DeployableMachines
<1> QED BY <1>1, ConstantsAssumption, FS_Subset, Zenon

\* desired_slots and keep_current yield well-formed work: every slot has a
\* machine, and a kept slot the instance its release has.
LEMMA WorkItemType ==
  ASSUME NEW rel \in [rev : Revisions \cup {NoRev}, slots : SUBSET SlotRecs],
         NEW C \in SUBSET Machines, C # {}, IsFiniteSet(C),
         NEW s \in Services, NEW place \in Nat, NEW k \in SlotsOf(place, C), NEW r
  PROVE  WorkItem(rel, C, s, k, r) \in WorkItems
<1>1. k \in SlotIds
  BY ConstantsAssumption DEF SlotsOf, SlotIds
<1>2. DesiredMachine(rel, C, k) \in Machines
  <2>1. CASE k[1] = "global"
    <3>1. CASE place = Global
      BY <2>1, <3>1 DEF SlotsOf, DesiredMachine
    <3>2. CASE place # Global
      BY <2>1, <3>2 DEF SlotsOf
    <3> QED BY <3>1, <3>2, Zenon
  <2>2. CASE k[1] # "global" /\ CurrentSlot(rel, k) # {}
    BY <2>2, Zenon DEF DesiredMachine, CurrentSlot, SlotRecs
  <2>3. CASE k[1] # "global" /\ CurrentSlot(rel, k) = {}
    <3>1. place # Global
      BY <2>3 DEF SlotsOf
    <3>2. k[2] - 1 \in Nat
      BY <3>1 DEF SlotsOf
    <3>3. CandidateAt(C, k[2] - 1) \in C
      BY <3>2, ConstantsAssumption, CandidateAtIsCandidate, Zenon
    <3> QED BY <2>3, <3>3, Zenon DEF DesiredMachine
  <2> QED BY <2>1, <2>2, <2>3, Zenon
<1>3. ASSUME NEW m PROVE \A x \in KeepCurrent(rel, k, m, r) : x.inst \in Instances
  BY Zenon DEF KeepCurrent, SlotRecs
<1> DEFINE kept == KeepCurrent(rel, k, DesiredMachine(rel, C, k), r)
           inst == IF kept = {} THEN NoInst ELSE (CHOOSE x \in kept : TRUE).inst
<1>4. inst \in Instances \cup {NoInst}
  BY <1>3, Zenon
<1>5. WorkItem(rel, C, s, k, r) =
        [svc |-> s, slot |-> k, mach |-> DesiredMachine(rel, C, k), inst |-> inst]
  BY Zenon DEF WorkItem
<1> HIDE DEF inst
<1> QED BY <1>1, <1>2, <1>4, <1>5 DEF WorkItems

LEMMA WorkType ==
  ASSUME NEW rels \in Releases, NEW D \in SUBSET Machines, NEW m \in Machines,
         NEW M \in Manifests \cup {NoManifest}
  PROVE  Work(rels, DeployableMachines(D, m), M) \in SUBSET WorkItems
<1> DEFINE C == DeployableMachines(D, m)
<1>1. C \in SUBSET Machines /\ C # {} /\ IsFiniteSet(C)
  BY DeployableType, Zenon
<1> HIDE DEF C
<1>2. ASSUME NEW s \in DOMAIN M, NEW k \in SlotsOf(M[s].place, C)
      PROVE  WorkItem(rels[s], C, s, k, M[s].rev) \in WorkItems
  <2>1. s \in Services /\ M[s].place \in Nat
    BY ConstantsAssumption, Zenon DEF NoManifest
  <2>2. rels[s] \in [rev : Revisions \cup {NoRev}, slots : SUBSET SlotRecs]
    BY <2>1, Zenon DEF Releases
  <2> QED BY <1>1, <2>1, <2>2, WorkItemType, Zenon
<1> QED BY <1>2 DEF Work, C

LEMMA PlacementType ==
  ASSUME NEW W \in SUBSET WorkItems
  PROVE  Placement(W) \in SUBSET (Services \X SlotIds \X Machines)
BY DEF Placement, WorkItems

\* apply_deploy_commit writes well-formed releases.
LEMMA CommitType ==
  ASSUME NEW rels \in Releases, NEW gone, NEW M \in Manifests \cup {NoManifest},
         NEW built \in SUBSET Items
  PROVE  CommitReleases(rels, gone, M, built) \in Releases
<1> DEFINE row(s) == [rev |-> M[s].rev,
                      slots |-> {[slot |-> x.slot, mach |-> x.mach, inst |-> x.inst]
                                   : x \in {y \in built : y.svc = s}}]
<1>1. ASSUME NEW s \in DOMAIN M
      PROVE  row(s) \in [rev : Revisions \cup {NoRev}, slots : SUBSET SlotRecs]
  <2>1. M[s].rev \in Revisions
    BY ConstantsAssumption, Zenon DEF NoManifest
  <2>2. {[slot |-> x.slot, mach |-> x.mach, inst |-> x.inst]
           : x \in {y \in built : y.svc = s}} \in SUBSET SlotRecs
    BY DEF Items, SlotRecs
  <2> QED BY <2>1, <2>2, Zenon
<1>2. NoRelease \in [rev : Revisions \cup {NoRev}, slots : SUBSET SlotRecs]
  BY Zenon DEF NoRelease
<1> HIDE DEF row
<1>3. \A s \in Services : rels[s] \in [rev : Revisions \cup {NoRev}, slots : SUBSET SlotRecs]
  BY Zenon DEF Releases
<1>4. CommitReleases(rels, gone, M, built) =
        [s \in Services |-> IF s \in DOMAIN M THEN row(s)
                            ELSE IF s \in gone THEN NoRelease ELSE rels[s]]
  BY Zenon DEF CommitReleases, row
<1> QED BY <1>1, <1>2, <1>3, <1>4, Zenon DEF Releases

-----------------------------------------------------------------------------
(* Type correctness *)

\* TypeOK is not inductive alone: the candidate that is started has the revision
\* its manifest gives the service, so services in progress are in the manifest.
TypeInv ==
  /\ TypeOK
  /\ \A d \in Deploys : /\ loc[d].reg \subseteq DOMAIN loc[d].man
                        /\ pc[d] = "idle" => loc[d].reg = {}

LEMMA NoLocalsType == NoLocals \in Locals /\ NoLocals.reg = {}
BY Zenon DEF NoLocals, Locals, NoFleet

LEMMA ManifestType ==
  ASSUME NEW M \in Manifests \cup {NoManifest}, NEW s \in DOMAIN M
  PROVE  s \in Services /\ M[s].rev \in Revisions
BY ConstantsAssumption, Zenon DEF NoManifest

LEMMA FleetType ==
  ASSUME TypeOK
  PROVE  fleet.known \in SUBSET Machines /\ fleet.deployable \in SUBSET Machines
BY ConstantsAssumption, Zenon DEF TypeOK

LEMMA CandidateType ==
  ASSUME TypeInv, NEW d \in Deploys, NEW x \in Pending(d)
  PROVE  Candidate(d, x) \in Instances
<1>1. loc[d] \in Locals /\ x \in WorkItems /\ x.svc \in DOMAIN loc[d].man
  BY Zenon DEF TypeInv, TypeOK, Locals, Pending
<1>2. loc[d].man[x.svc].rev \in Revisions /\ x.svc \in Services
  BY <1>1, ManifestType, Zenon DEF Locals
<1> QED BY <1>1, <1>2, Zenon DEF Candidate, Instances, WorkItems

LEMMA InitType == Init => TypeInv
BY NoLocalsType, ConstantsAssumption
   DEF Init, TypeInv, TypeOK, Releases, NoRelease, Frames, Labels

LEMMA LeaveType ==
  ASSUME TypeInv, NEW d \in Deploys, Leave(d)
  PROVE  /\ pc' \in [Deploys -> Labels] /\ loc' \in [Deploys -> Locals]
         /\ lock' \in [Machines -> Deploys \cup {NoLock}]
         /\ sess' \in [Deploys -> SUBSET Machines]
         /\ UNCHANGED <<mute, cut, adrift>>
         /\ \A e \in Deploys : /\ loc'[e].reg \subseteq DOMAIN loc'[e].man
                               /\ pc'[e] = "idle" => loc'[e].reg = {}
BY NoLocalsType, Zenon DEF TypeInv, TypeOK, Leave, Goto, Labels

LEMMA CloseType ==
  ASSUME TypeInv, NEW d \in Deploys,
         NEW r \in {"none", "err", "committed", "cleanup_pending"}, Close(d, r)
  PROVE  /\ pc' \in [Deploys -> Labels] /\ loc' \in [Deploys -> Locals]
         /\ \A e \in Deploys : /\ loc'[e].reg \subseteq DOMAIN loc'[e].man
                               /\ pc'[e] = "idle" => loc'[e].reg = {}
<1> DEFINE new == [NoLocals EXCEPT !.opened = loc[d].opened, !.found = loc[d].found,
                                   !.result = r]
<1>1. new \in Locals /\ new.reg = {}
  BY NoLocalsType, Zenon DEF TypeInv, TypeOK, Locals
<1>2. loc' = [loc EXCEPT ![d] = new] /\ pc' = [pc EXCEPT ![d] = "closing"]
  BY Zenon DEF Close, Goto
<1> HIDE DEF new
<1> QED BY <1>1, <1>2, Zenon DEF TypeInv, TypeOK, Labels

\* A step that gives d new locals and moves it to label l, or leaves it where
\* it is.
LEMMA LocalsStepType ==
  ASSUME TypeInv, NEW d \in Deploys, NEW new \in Locals,
         new.reg \subseteq DOMAIN new.man, loc' = [loc EXCEPT ![d] = new],
         \/ pc' = pc /\ (pc[d] = "idle" => new.reg = {})
         \/ \E l \in Labels \ {"idle"} : pc' = [pc EXCEPT ![d] = l]
  PROVE  /\ pc' \in [Deploys -> Labels] /\ loc' \in [Deploys -> Locals]
         /\ \A e \in Deploys : /\ loc'[e].reg \subseteq DOMAIN loc'[e].man
                               /\ pc'[e] = "idle" => loc'[e].reg = {}
BY DEF TypeInv, TypeOK

\* Every step of the coordinator preserves the types.
LEMMA ApplyType ==
  ASSUME TypeInv, NEW d \in Deploys, Begin(d) \/ Apply(d)
  PROVE  TypeInv'
<1> USE DEF TypeInv, TypeOK, store, runtime, conns
<1>l. loc[d] \in Locals /\ rpc[d] \in Frames /\ Coord[d] \in Machines
  BY ConstantsAssumption, Zenon
<1>f. fleet \in [known : SUBSET Machines, deployable : SUBSET Machines]
  BY ConstantsAssumption, Zenon
<1>1. CASE Begin(d)
  <2>1. Participants(releases, fleet.deployable, Coord[d]) \in SUBSET Machines
    <3>1. SlotMachines(releases) \in SUBSET Machines
      BY DEF SlotMachines, Releases, SlotRecs
    <3> QED BY <1>l, <1>f, <3>1, DeployableType, Zenon DEF Participants
  <2>2. PICK M \in Manifests :
          loc' = [loc EXCEPT ![d].man = M,
                    ![d].parts = Participants(releases, fleet.deployable, Coord[d])]
    BY <1>1, Zenon DEF Begin
  <2> DEFINE new == [loc[d] EXCEPT !.man = M,
                       !.parts = Participants(releases, fleet.deployable, Coord[d])]
  <2>3. new \in Locals /\ new.reg \subseteq DOMAIN new.man
    BY <1>1, <1>l, <2>1, Zenon DEF Begin, Locals
  <2>4. loc' = [loc EXCEPT ![d] = new]
    BY <2>2, Zenon
  <2>5. pc' = [pc EXCEPT ![d] = "inventory"] /\ "inventory" \in Labels \ {"idle"}
    BY <1>1, Zenon DEF Begin, Goto, Labels
  <2> HIDE DEF new
  <2> QED BY <1>1, <2>3, <2>4, <2>5, LocalsStepType, Zenon DEF Begin
<1>2. CASE ListMachines(d)
  <2>1. CASE Leave(d)
    BY <1>2, <2>1, LeaveType, Zenon DEF ListMachines
  <2>2. CASE loc' = [loc EXCEPT ![d].seen = fleet] /\ Goto(d, "opening") /\ UNCHANGED conns
    <3> DEFINE new == [loc[d] EXCEPT !.seen = fleet]
    <3>1. new \in Locals /\ new.reg \subseteq DOMAIN new.man
      BY <1>l, <1>f, Zenon DEF Locals
    <3>2. loc' = [loc EXCEPT ![d] = new]
      BY <2>2, Zenon
    <3>3. pc' = [pc EXCEPT ![d] = "opening"] /\ "opening" \in Labels \ {"idle"}
      BY <2>2, Zenon DEF Goto, Labels
    <3> HIDE DEF new
    <3> QED BY <1>2, <2>2, <3>1, <3>2, <3>3, LocalsStepType, Zenon DEF ListMachines
  <2> QED BY <1>2, <2>1, <2>2, Zenon DEF ListMachines
<1>3. CASE OpenNext(d)
  <2>1. CASE \E m \in loc[d].seen.known : Send(d, "open", m, NoInst) /\ UNCHANGED <<pc, loc, conns>>
    BY <1>3, <1>l, <2>1 DEF OpenNext, Send, Frames, SessionFrames, Locals
  <2>2. CASE Leave(d) /\ UNCHANGED rpc
    BY <1>3, <2>2, LeaveType, Zenon DEF OpenNext
  <2> QED BY <1>3, <2>1, <2>2, Zenon DEF OpenNext
<1>4. CASE OpenReply(d)
  <2>1. rpc' \in [Deploys -> Frames]
    BY <1>4, Zenon DEF OpenReply, Took, Frames
  <2>2. CASE Answered(d, "open", "ok")
    <3>1. rpc[d].mach \in Machines
      BY <1>l, <2>2 DEF Answered, Frames, NoRpc, SessionFrames, InstanceFrames, StartFrames
    <3>2. loc' = [loc EXCEPT ![d].opened = @ \cup {rpc[d].mach}] /\ UNCHANGED <<pc, conns>>
      BY <1>4, <2>2, Zenon DEF OpenReply, Answered
    <3> QED BY <1>4, <1>l, <2>1, <3>1, <3>2 DEF OpenReply, Locals
  <2>3. CASE Leave(d)
    BY <1>4, <2>1, <2>3, LeaveType, Zenon DEF OpenReply
  <2> QED BY <1>4, <2>2, <2>3, Zenon DEF OpenReply
<1>5. CASE Revalidate(d)
  <2>1. CASE Close(d, "err") /\ record' \in {record, [record EXCEPT ![d] = "applying"]}
    BY <1>5, <2>1, CloseType, Zenon DEF Revalidate
  <2> DEFINE W == Work(releases, DeployableMachines(fleet.deployable, Coord[d]), loc[d].man)
  <2>2. CASE /\ record' = [record EXCEPT ![d] = "applying"]
             /\ loc' = [loc EXCEPT ![d].gone = Removed(releases, loc[d].man),
                                   ![d].plan = Placement(W)]
             /\ Goto(d, "planning")
    <3>1. W \in SUBSET WorkItems
      BY <1>l, <1>f, WorkType, Zenon DEF Locals
    <3>2. Placement(W) \in SUBSET (Services \X SlotIds \X Machines)
      BY <3>1, PlacementType, Zenon
    <3>3. Removed(releases, loc[d].man) \in SUBSET Services
      BY Zenon DEF Removed
    <3> HIDE DEF W
    <3> QED BY <1>5, <1>l, <2>2, <3>2, <3>3 DEF Revalidate, Goto, Labels, Locals
  <2> QED BY <1>5, <2>1, <2>2, Zenon DEF Revalidate
<1>6. CASE PlanSlots(d)
  <2>1. CASE Close(d, "err")
    BY <1>6, <2>1, CloseType, Zenon DEF PlanSlots
  <2>2. ASSUME NEW fresh \in SUBSET loc[d].seen.deployable,
               loc' = [loc EXCEPT ![d].todo =
                 Work(releases, DeployableMachines(fresh, Coord[d]), loc[d].man)],
               Goto(d, "working")
        PROVE  TypeInv'
    <3> DEFINE W == Work(releases, DeployableMachines(fresh, Coord[d]), loc[d].man)
    <3>1. W \in SUBSET WorkItems
      BY <1>l, WorkType, Zenon DEF Locals
    <3>2. loc' = [loc EXCEPT ![d].todo = W]
      BY <2>2, Zenon
    <3> HIDE DEF W
    <3> DEFINE new == [loc[d] EXCEPT !.todo = W]
    <3>3. new \in Locals /\ new.reg \subseteq DOMAIN new.man
      BY <1>l, <3>1, Zenon DEF Locals
    <3>4. loc' = [loc EXCEPT ![d] = new]
      BY <3>2, Zenon
    <3>5. pc' = [pc EXCEPT ![d] = "working"] /\ "working" \in Labels \ {"idle"}
      BY <2>2, Zenon DEF Goto, Labels
    <3> HIDE DEF new
    <3> QED BY <1>6, <3>3, <3>4, <3>5, LocalsStepType, Zenon DEF PlanSlots
  <2> QED BY <1>6, <2>1, <2>2, Zenon DEF PlanSlots
<1>7. CASE Register(d)
  <2>1. ASSUME NEW s \in DOMAIN loc[d].man \ loc[d].reg, Close(d, "err"),
               revisions' \in {revisions, revisions \cup {<<s, loc[d].man[s].rev>>}}
        PROVE  TypeInv'
    <3>1. s \in Services /\ loc[d].man[s].rev \in Revisions
      BY <1>l, ManifestType, Zenon DEF Locals
    <3>2. revisions' \subseteq Services \X Revisions
      BY <2>1, <3>1
    <3> QED BY <1>7, <2>1, <3>2, CloseType, Zenon DEF Register
  <2>2. ASSUME NEW s \in DOMAIN loc[d].man \ loc[d].reg,
               revisions' = revisions \cup {<<s, loc[d].man[s].rev>>},
               loc' = [loc EXCEPT ![d].reg = @ \cup {s}], UNCHANGED pc
        PROVE  TypeInv'
    <3>1. s \in Services /\ loc[d].man[s].rev \in Revisions
      BY <1>l, ManifestType, Zenon DEF Locals
    <3>2. pc[d] = "working"
      BY <1>7, Zenon DEF Register
    <3> DEFINE new == [loc[d] EXCEPT !.reg = @ \cup {s}]
    <3>3. new \in Locals /\ new.reg \subseteq DOMAIN new.man
      BY <1>l, <3>1, Zenon DEF Locals
    <3>4. loc' = [loc EXCEPT ![d] = new]
      BY <2>2, Zenon
    <3> HIDE DEF new
    <3>5. revisions' \subseteq Services \X Revisions
      BY <2>2, <3>1
    <3>6. UNCHANGED <<releases, ready, draining, record, fleet, runtime, conns, rpc>>
      BY <1>7, Zenon DEF Register
    <3>7. /\ pc' \in [Deploys -> Labels] /\ loc' \in [Deploys -> Locals]
          /\ \A e \in Deploys : /\ loc'[e].reg \subseteq DOMAIN loc'[e].man
                                /\ pc'[e] = "idle" => loc'[e].reg = {}
      BY <2>2, <3>2, <3>3, <3>4, LocalsStepType, Zenon
    <3> QED BY <3>5, <3>6, <3>7, Zenon
  <2> QED BY <1>7, <2>1, <2>2, Zenon DEF Register
<1>8. ASSUME NEW x \in Pending(d), NEW i \in Instances, Placed(d, x, i), UNCHANGED pc
      PROVE  /\ loc' \in [Deploys -> Locals]
             /\ \A e \in Deploys : /\ loc'[e].reg \subseteq DOMAIN loc'[e].man
                                   /\ pc'[e] = "idle" => loc'[e].reg = {}
  <2> DEFINE item == [x EXCEPT !.inst = i]
             new == [loc[d] EXCEPT !.todo = @ \ {x}, !.built = @ \cup {item}]
  <2>1. item \in Items
    BY <1>l DEF Pending, Locals, WorkItems, Items
  <2>2. loc' = [loc EXCEPT ![d] = new]
    BY <1>8, Zenon DEF Placed
  <2> HIDE DEF item
  <2>3. new \in Locals /\ new.reg = loc[d].reg /\ new.man = loc[d].man
    BY <1>l, <2>1, Zenon DEF Locals
  <2> HIDE DEF new
  <2> QED BY <1>8, <2>2, <2>3, LocalsStepType, Zenon
<1>9. CASE KeepSlot(d)
  <2>1. PICK x \in Pending(d) : x.inst # NoInst /\ Placed(d, x, x.inst)
    BY <1>9, Zenon DEF KeepSlot
  <2>2. x.inst \in Instances
    BY <1>l, <2>1, Zenon DEF Pending, Locals, WorkItems
  <2>3. UNCHANGED <<store, fleet, runtime, conns, rpc, pc>>
    BY <1>9, Zenon DEF KeepSlot
  <2>4. /\ loc' \in [Deploys -> Locals]
        /\ \A e \in Deploys : /\ loc'[e].reg \subseteq DOMAIN loc'[e].man
                              /\ pc'[e] = "idle" => loc'[e].reg = {}
    BY <1>8, <2>1, <2>2, <2>3, Zenon
  <2> QED BY <2>3, <2>4, Zenon
<1>10. CASE StartSlot(d)
  <2>1. CASE Close(d, "err") /\ UNCHANGED rpc
    BY <1>10, <2>1, CloseType, Zenon DEF StartSlot
  <2>2. ASSUME NEW x \in Pending(d), x.mach \in loc[d].opened,
               Send(d, "start", x.mach, Candidate(d, x)), UNCHANGED <<pc, loc>>
        PROVE  TypeInv'
    <3>1. Candidate(d, x) \in Instances
      BY CandidateType, Zenon
    <3>2. rpc' \in [Deploys -> Frames]
      BY <1>l, <2>2, <3>1, Zenon DEF Send, Frames, StartFrames, Locals
    <3> QED BY <1>10, <2>2, <3>2, Zenon DEF StartSlot
  <2> QED BY <1>10, <2>1, <2>2, Zenon DEF StartSlot
<1>11. CASE StartReply(d)
  <2>1. /\ rpc' \in [Deploys -> Frames]
        /\ UNCHANGED <<releases, revisions, record, fleet, runtime, conns>>
    BY <1>11, Zenon DEF StartReply, Took, Frames
  <2>2. CASE Close(d, "err") /\ UNCHANGED <<ready, draining>>
    BY <2>1, <2>2, CloseType, Zenon
  <2>a. CASE /\ Answered(d, "start", "ok")
             /\ Close(d, "err")
             /\ ready' \in {ready, ready \cup {rpc[d].inst}}
             /\ draining' = draining \ (ready' \ ready)
    <3>1. rpc[d].inst \in Instances
      BY <1>l, <2>a DEF Answered, Frames, NoRpc, SessionFrames, InstanceFrames, StartFrames
    <3>2. ready' \subseteq Instances /\ draining' \subseteq Instances
      BY <2>a, <3>1, Zenon
    <3> QED BY <2>1, <2>a, <3>2, CloseType, Zenon
  <2>3. ASSUME NEW x \in Pending(d), Candidate(d, x) = rpc[d].inst,
               Placed(d, x, rpc[d].inst), UNCHANGED pc,
               ready' = ready \cup {rpc[d].inst}, draining' = draining \ {rpc[d].inst}
        PROVE  TypeInv'
    <3>1. rpc[d].inst \in Instances
      BY <2>3, CandidateType, Zenon
    <3>2. /\ loc' \in [Deploys -> Locals]
          /\ \A e \in Deploys : /\ loc'[e].reg \subseteq DOMAIN loc'[e].man
                                /\ pc'[e] = "idle" => loc'[e].reg = {}
      BY <1>8, <2>3, <3>1, Zenon
    <3> QED BY <2>1, <2>3, <3>1, <3>2, Zenon
  <2> QED BY <1>11, <2>2, <2>a, <2>3, Zenon DEF StartReply
<1>12. CASE Commit(d)
  <2>1. CommitReleases(releases, loc[d].gone, loc[d].man, loc[d].built) \in Releases
    BY <1>l, CommitType, Zenon DEF Locals
  <2>2. CASE Close(d, "err")
    BY <1>12, <2>1, <2>2, CloseType, Zenon DEF Commit
  <2>3. CASE Goto(d, "listing") /\ UNCHANGED loc
    BY <1>12, <2>1, <2>3, Zenon DEF Commit, Close, Goto, Labels
  <2> QED BY <1>12, <2>2, <2>3, Zenon DEF Commit
<1>13. CASE ListCleanup(d)
  <2>1. CASE Close(d, "err")
    BY <1>13, <2>1, CloseType, Zenon DEF ListCleanup
  <2> DEFINE S == Stale(ready \cup draining, loc[d].built, loc[d].parts)
  <2>2. CASE loc' = [loc EXCEPT ![d].clean = S] /\ Goto(d, "cleaning")
    <3>1. S \in SUBSET Instances
      BY Zenon DEF Stale
    <3> HIDE DEF S
    <3> DEFINE new == [loc[d] EXCEPT !.clean = S]
    <3>2. new \in Locals /\ new.reg \subseteq DOMAIN new.man
      BY <1>l, <3>1, Zenon DEF Locals
    <3>3. loc' = [loc EXCEPT ![d] = new]
      BY <2>2, Zenon
    <3>4. pc' = [pc EXCEPT ![d] = "cleaning"] /\ "cleaning" \in Labels \ {"idle"}
      BY <2>2, Zenon DEF Goto, Labels
    <3> HIDE DEF new
    <3> QED BY <1>13, <3>2, <3>3, <3>4, LocalsStepType, Zenon DEF ListCleanup
  <2> QED BY <1>13, <2>1, <2>2, Zenon DEF ListCleanup
<1>14. CASE DrainNext(d)
  <2>1. PICK i \in loc[d].clean : Send(d, "drain", i.mach, i)
    BY <1>14, Zenon DEF DrainNext
  <2>2. i \in Instances /\ i.mach \in Machines
    BY <1>l, Zenon DEF Locals, Instances
  <2>3. rpc' \in [Deploys -> Frames]
    BY <2>1, <2>2, Zenon DEF Send, Frames, InstanceFrames
  <2> QED BY <1>14, <2>3, Zenon DEF DrainNext
<1>15. ASSUME NEW i, NEW e \in {"none", "some"}, UNCHANGED pc,
              loc' = [loc EXCEPT ![d].clean = @ \ {i}, ![d].errors = e]
       PROVE  /\ loc' \in [Deploys -> Locals]
              /\ \A c \in Deploys : /\ loc'[c].reg \subseteq DOMAIN loc'[c].man
                                    /\ pc'[c] = "idle" => loc'[c].reg = {}
  <2> DEFINE new == [loc[d] EXCEPT !.clean = @ \ {i}, !.errors = e]
  <2>1. new \in Locals /\ new.reg = loc[d].reg /\ new.man = loc[d].man
    BY <1>l, Zenon DEF Locals
  <2>2. loc' = [loc EXCEPT ![d] = new]
    BY <1>15, Zenon
  <2> HIDE DEF new
  <2> QED BY <1>15, <2>1, <2>2, LocalsStepType, Zenon
<1>16. CASE DrainReply(d)
  <2>1. CASE Answered(d, "drain", "ok") /\ UNCHANGED loc
    <3>1. rpc[d].mach \in Machines /\ rpc[d].inst \in Instances
      BY <1>l, <2>1 DEF Answered, Frames, NoRpc, SessionFrames, InstanceFrames, StartFrames
    <3>2. rpc' = [rpc EXCEPT ![d] = [st |-> "sent", op |-> "remove",
                                     mach |-> rpc[d].mach, inst |-> rpc[d].inst]]
      BY <1>16, <2>1, Zenon DEF DrainReply, Answered, Send
    <3>3. rpc' \in [Deploys -> Frames]
      BY <3>1, <3>2, Zenon DEF Frames, InstanceFrames
    <3> QED BY <1>16, <2>1, <3>3, Zenon DEF DrainReply
  <2>2. CASE /\ Answered(d, "drain", "err") /\ Took(d)
             /\ loc' = [loc EXCEPT ![d].clean = @ \ {rpc[d].inst}, ![d].errors = "some"]
    <3>1. rpc' \in [Deploys -> Frames]
      BY <2>2, Zenon DEF Took, Frames
    <3> QED BY <1>15, <1>16, <2>2, <3>1, Zenon DEF DrainReply
  <2> QED BY <1>16, <2>1, <2>2, Zenon DEF DrainReply
<1>17. CASE RemoveReply(d)
  <2> DEFINE e == IF rpc[d].st = "err" THEN "some" ELSE loc[d].errors
  <2>1. loc' = [loc EXCEPT ![d].clean = @ \ {rpc[d].inst}, ![d].errors = e]
    BY <1>17, <1>l, Zenon DEF RemoveReply, Locals
  <2>2. e \in {"none", "some"}
    BY <1>l, Zenon DEF Locals
  <2>3. rpc' \in [Deploys -> Frames] /\ UNCHANGED <<store, fleet, runtime, conns, pc>>
    BY <1>17, Zenon DEF RemoveReply, Took, Frames
  <2> HIDE DEF e
  <2> QED BY <1>15, <2>1, <2>2, <2>3, Zenon
<1>18. CASE Finish(d)
  <2>1. CASE Close(d, "committed")
    BY <1>18, <2>1, CloseType, Zenon DEF Finish
  <2>2. CASE Close(d, "cleanup_pending")
    BY <1>18, <2>2, CloseType, Zenon DEF Finish
  <2>3. CASE Close(d, "err")
    BY <1>18, <2>3, CloseType, Zenon DEF Finish
  <2> QED BY <1>18, <2>1, <2>2, <2>3, Zenon DEF Finish
<1>19. CASE CloseNext(d)
  <2>1. Least(loc[d].opened) \in Machines
    BY <1>19, <1>l, ConstantsAssumption, LeastIsLeast, Zenon DEF CloseNext, Locals
  <2>2. rpc' \in [Deploys -> Frames]
    BY <1>19, <2>1, Zenon DEF CloseNext, Send, Frames, SessionFrames
  <2> QED BY <1>19, <2>2, Zenon DEF CloseNext
<1>20. CASE CloseReply(d)
  <2> DEFINE new == [loc[d] EXCEPT !.opened = @ \ {rpc[d].mach}]
  <2>1. new \in Locals /\ new.reg = loc[d].reg /\ new.man = loc[d].man
    BY <1>l, Zenon DEF Locals
  <2>2. loc' = [loc EXCEPT ![d] = new]
    BY <1>20, Zenon DEF CloseReply
  <2>3. rpc' \in [Deploys -> Frames] /\ UNCHANGED <<store, fleet, runtime, conns, pc>>
    BY <1>20, Zenon DEF CloseReply, Took, Frames
  <2> HIDE DEF new
  <2> QED BY <2>1, <2>2, <2>3, LocalsStepType, Zenon
<1>21. CASE Return(d)
  BY <1>21, NoLocalsType, Zenon DEF Return, Goto, Labels
<1> QED BY <1>1, <1>2, <1>3, <1>4, <1>5, <1>6, <1>7, <1>9, <1>10, <1>11, <1>12,
           <1>13, <1>14, <1>16, <1>17, <1>18, <1>19, <1>20, <1>21, Zenon DEF Apply

\* Every step of an agent preserves the types.
LEMMA AgentType ==
  ASSUME TypeInv, NEW d \in Deploys, Agent(d)
  PROVE  TypeInv'
<1> USE DEF TypeInv, TypeOK, store, runtime, conns
<1>l. loc[d] \in Locals /\ rpc[d] \in Frames /\ Coord[d] \in Machines
  BY ConstantsAssumption, Zenon
<1>r. ASSUME NEW st \in {"ok", "err"}, rpc[d] # NoRpc, Reply(d, st)
      PROVE  rpc' \in [Deploys -> Frames]
  BY <1>l, <1>r, Zenon DEF Reply, Frames, SessionFrames, InstanceFrames, StartFrames
<1>s. ASSUME NEW m \in Machines, Release(d, m)
      PROVE  /\ lock' \in [Machines -> Deploys \cup {NoLock}]
             /\ sess' \in [Deploys -> SUBSET Machines]
             /\ cut' \in [Deploys -> SUBSET Machines]
  BY <1>s, Zenon DEF Release
<1>i. /\ rpc[d].op \in {"open", "start", "drain", "remove", "close"} =>
           rpc[d] # NoRpc /\ rpc[d].mach \in Machines
      /\ rpc[d].op \in {"start", "drain", "remove"} => rpc[d].inst \in Instances
  <2>1. rpc[d] \in Frames
    BY <1>l, Zenon
  <2>2. CASE rpc[d] = NoRpc
    BY <2>2 DEF NoRpc
  <2>3. CASE rpc[d] \in SessionFrames
    BY <2>3 DEF SessionFrames, NoRpc
  <2>4. CASE rpc[d] \in InstanceFrames \cup StartFrames
    <3>1. rpc[d].st # "none" /\ rpc[d].mach \in Machines /\ rpc[d].inst \in Instances
      BY <2>4, Zenon DEF InstanceFrames, StartFrames
    <3>2. rpc[d] # NoRpc
      BY <3>1 DEF NoRpc
    <3> QED BY <3>1, <3>2, Zenon
  <2> QED BY <2>1, <2>2, <2>3, <2>4, Zenon DEF Frames
<1>1. CASE OpenSession(d)
  <2>1. rpc' \in [Deploys -> Frames]
    BY <1>1, <1>i, <1>r, Zenon DEF OpenSession, Frame
  <2>2. ready' \subseteq Instances
    BY <1>1, Zenon DEF OpenSession, Adoptable, ListInstances
  <2>3. /\ lock' \in [Machines -> Deploys \cup {NoLock}]
        /\ sess' \in [Deploys -> SUBSET Machines]
    BY <1>1, <1>i DEF OpenSession, Frame
  <2>4. CASE UNCHANGED loc
    BY <1>1, <2>1, <2>2, <2>3, <2>4, Zenon DEF OpenSession
  <2> DEFINE f == IF pc[d] = "dead" THEN loc[d].found ELSE loc[d].found \cup {rpc[d].mach}
             new == [loc[d] EXCEPT !.found = f]
  <2>5. CASE loc' = [loc EXCEPT ![d] = new]
    <3>1. f \in SUBSET Machines
      BY <1>1, <1>i, <1>l, Zenon DEF OpenSession, Frame, Locals
    <3> HIDE DEF f
    <3>2. new \in Locals /\ new.reg = loc[d].reg /\ new.man = loc[d].man
      BY <1>l, <3>1, Zenon DEF Locals
    <3> HIDE DEF new
    <3> QED BY <1>1, <2>1, <2>2, <2>3, <2>5, <3>2, LocalsStepType, Zenon DEF OpenSession
  <2> QED BY <1>1, <2>4, <2>5, Zenon DEF OpenSession
<1>2. CASE EnsureContainer(d)
  <2>1. rpc' \in [Deploys -> Frames]
    <3>1. CASE \E st \in {"ok", "err"} : Reply(d, st)
      BY <1>2, <1>i, <1>r, <3>1, Zenon DEF EnsureContainer, Frame
    <3>2. CASE rpc' = [rpc EXCEPT ![d].st = "busy"]
      <4>1. rpc[d] \in StartFrames
        BY <1>2, <1>l DEF EnsureContainer, Frame, Frames, NoRpc, SessionFrames, InstanceFrames
      <4>2. [rpc[d] EXCEPT !.st = "busy"] \in Frames
        BY <4>1, Zenon DEF StartFrames, Frames
      <4> QED BY <3>2, <4>2, Zenon
    <3> QED BY <1>2, <3>1, <3>2, Zenon DEF EnsureContainer
  <2>2. containers' \subseteq Instances
    BY <1>2, <1>i, Zenon DEF EnsureContainer, Frame
  <2> QED BY <1>2, <2>1, <2>2, Zenon DEF EnsureContainer
<1>3. CASE WaitReady(d)
  <2>1. rpc' \in [Deploys -> Frames]
    BY <1>3, <1>i, <1>r, Zenon DEF WaitReady, BecomesReady
  <2>2. probed' \subseteq Instances /\ ready' \subseteq Instances
    BY <1>3, <1>i, Zenon DEF WaitReady, BecomesReady
  <2> QED BY <1>3, <2>1, <2>2, Zenon DEF WaitReady, BecomesReady
<1>4. CASE DrainInstance(d)
  <2>1. rpc' \in [Deploys -> Frames]
    BY <1>4, <1>i, <1>r, Zenon DEF DrainInstance, Frame
  <2>2. ready' \subseteq Instances /\ draining' \subseteq Instances
    BY <1>4, Zenon DEF DrainInstance
  <2> QED BY <1>4, <2>1, <2>2, Zenon DEF DrainInstance
<1>5. CASE RemoveInstance(d)
  <2>1. rpc' \in [Deploys -> Frames]
    BY <1>5, <1>i, <1>r, Zenon DEF RemoveInstance, Frame
  <2>2. /\ containers' \subseteq Instances
        /\ ready' \subseteq Instances /\ draining' \subseteq Instances
    BY <1>5, Zenon DEF RemoveInstance
  <2> QED BY <1>5, <2>1, <2>2, Zenon DEF RemoveInstance
<1>6. CASE CloseSession(d)
  <2>1. rpc' \in [Deploys -> Frames]
    BY <1>6, <1>i, <1>r, Zenon DEF CloseSession, Frame
  <2>2. CASE Release(d, rpc[d].mach)
    BY <1>6, <1>i, <1>s, <2>1, <2>2, Zenon DEF CloseSession, Frame
  <2>3. CASE UNCHANGED <<lock, sess, cut>>
    BY <1>6, <2>1, <2>3, Zenon DEF CloseSession
  <2> QED BY <1>6, <2>2, <2>3, Zenon DEF CloseSession
<1>7. CASE FinishUnheard(d)
  <2>1. PICK i \in adrift :
          /\ i.deploy = d
          /\ \/ /\ probed' = probed \cup {i}
                /\ ready' \in {ready, ready \cup {i}}
             \/ UNCHANGED <<probed, ready>>
          /\ adrift' = adrift \ {i}
          /\ Release(d, i.mach)
          /\ UNCHANGED <<releases, revisions, draining, record, fleet, containers, mute,
                         rpc, pc, loc>>
    BY <1>7, Zenon DEF FinishUnheard
  <2>2. i \in Instances /\ i.mach \in Machines
    BY Zenon DEF Instances
  <2>3. probed' \subseteq Instances /\ ready' \subseteq Instances /\ adrift' \subseteq Instances
    BY <2>1, <2>2, Zenon
  <2> QED BY <1>s, <2>1, <2>2, <2>3, Zenon
<1>8. CASE SessionGone(d)
  <2>1. rpc' \in [Deploys -> Frames]
    <3>1. rpc[d] # NoRpc
      BY <1>8 DEF SessionGone, NoRpc
    <3> QED BY <1>8, <1>r, <3>1, Zenon DEF SessionGone
  <2> QED BY <1>8, <2>1, Zenon DEF SessionGone
<1>9. ASSUME NEW m \in Machines, HandlerEof(d, m) PROVE TypeInv'
  <2>1. rpc' \in [Deploys -> Frames]
    BY <1>9, <1>l, Zenon DEF HandlerEof, Frames
  <2> QED BY <1>9, <1>s, <2>1, Zenon DEF HandlerEof
<1> QED BY <1>1, <1>2, <1>3, <1>4, <1>5, <1>6, <1>7, <1>8, <1>9, Zenon DEF Agent

\* Faults and changes of the fleet preserve the types.
LEMMA FaultType ==
  ASSUME TypeInv, Fault \/ FleetChange
  PROVE  TypeInv'
<1> USE DEF TypeInv, TypeOK, store, runtime, conns
<1>1. ASSUME NEW d \in Deploys, ConnectFail(d) PROVE TypeInv'
  <2>1. rpc' \in [Deploys -> Frames]
    BY <1>1 DEF ConnectFail, Frame, Reply, Frames, NoRpc, SessionFrames, InstanceFrames,
                StartFrames
  <2> QED BY <1>1, <2>1, Zenon DEF ConnectFail
<1>2. ASSUME NEW d \in Deploys, NEW m \in Machines, ConnBreak(d, m) PROVE TypeInv'
  <2>1. rpc[d] \in Frames /\ m # 0
    BY ConstantsAssumption, Zenon
  <2>2. rpc' \in [Deploys -> Frames]
    <3>1. rpc[d].mach = m => [rpc[d] EXCEPT !.st = "err"] \in Frames
      BY <2>1 DEF Frames, NoRpc, SessionFrames, InstanceFrames, StartFrames
    <3> QED BY <1>2, <2>1, <3>1, Zenon DEF ConnBreak
  <2>3. adrift' \subseteq Instances
    BY <1>2, <2>1 DEF ConnBreak, Frames, NoRpc, SessionFrames, InstanceFrames, StartFrames
  <2>4. cut' \in [Deploys -> SUBSET Machines]
    BY <1>2, Zenon DEF ConnBreak
  <2> QED BY <1>2, <2>2, <2>3, <2>4, Zenon DEF ConnBreak
<1>3. ASSUME NEW m \in Crashable, NEW silent \in {FALSE, SilentLoss}, Crash(m, silent) PROVE TypeInv'
  <2>1. rpc' \in [Deploys -> Frames]
    <3>1. ASSUME NEW d \in Deploys, InFlight(d), NEW st \in {"err", "lost"},
                 st = "lost" => rpc[d].st = "busy"
          PROVE  [rpc[d] EXCEPT !.st = st] \in Frames
      <4>1. rpc[d] \in Frames
        BY Zenon
      <4> QED BY <3>1, <4>1 DEF InFlight, Frames, NoRpc, SessionFrames, InstanceFrames,
                                StartFrames
    <3>2. NoRpc \in Frames
      BY Zenon DEF Frames
    <3> QED BY <1>3, <3>1, <3>2, Zenon DEF Crash
  <2>2. pc' \in [Deploys -> Labels]
    BY <1>3, Zenon DEF Crash, Labels
  <2>3. /\ loc' \in [Deploys -> Locals]
        /\ \A d \in Deploys : /\ loc'[d].reg \subseteq DOMAIN loc'[d].man
                              /\ pc'[d] = "idle" => loc'[d].reg = {}
    BY <1>3, NoLocalsType, Zenon DEF Crash
  <2>4. /\ lock' \in [Machines -> Deploys \cup {NoLock}]
        /\ sess' \in [Deploys -> SUBSET Machines] /\ mute' \in [Deploys -> SUBSET Machines]
        /\ cut' \in [Deploys -> SUBSET Machines] /\ adrift' \subseteq Instances
    BY <1>3, ConstantsAssumption, Zenon DEF Crash
  <2> QED BY <1>3, <2>1, <2>2, <2>3, <2>4, Zenon DEF Crash
<1>4. CASE FleetChange
  BY <1>4, Zenon DEF FleetChange
<1> HIDE DEF TypeInv, TypeOK, store, runtime, conns
<1>5. CASE Fault
  BY <1>1, <1>2, <1>3, <1>5, Zenon DEF Fault
<1> QED BY <1>4, <1>5, Zenon

LEMMA NextType == TypeInv /\ [Next]_vars => TypeInv'
<1>1. CASE UNCHANGED vars
  BY <1>1, Zenon DEF vars, store, runtime, conns, TypeInv, TypeOK
<1>2. CASE Quiescent
  BY <1>1, <1>2, Zenon DEF Quiescent
<1> QED BY <1>1, <1>2, ApplyType, AgentType, FaultType, Zenon DEF Next

\* The store, the lock tables, the sessions, the frames and the locals of apply
\* always have their types, however deploys, crashes, broken connections and
\* changes of the fleet interleave.  In particular apply never starts a
\* candidate without a machine or a revision, and commits only slots with one
\* machine and one instance each.
THEOREM TypeCorrect == Spec => []TypeOK
<1>1. TypeInv => TypeOK
  BY Zenon DEF TypeInv
<1> QED BY <1>1, InitType, NextType, PTL DEF Spec
=============================================================================
