-------------------------- MODULE DeployLockProofs --------------------------
(***************************************************************************)
(* Namespace locks and session handlers: the proof that they match.        *)
(***************************************************************************)
EXTENDS DeployTypeProofs

\* A frame that starts a candidate is about an instance of its own deploy and
\* machine, and nobody answers a coordinator that died.
FrameInv ==
  \A d \in Deploys :
    /\ rpc[d].op = "start" => rpc[d].inst.deploy = d /\ rpc[d].inst.mach = rpc[d].mach
    /\ pc[d] = "dead" => rpc[d].st \in {"none", "sent", "busy"}

\* A candidate start nobody waits for keeps the session of its handler.  The
\* connection is broken for good, so there is one such start per session.
AdriftInv ==
  /\ \A i \in adrift :
       /\ i.mach \in sess[i.deploy] /\ i.mach # Coord[i.deploy]
       /\ i.mach \in cut[i.deploy] \/ pc[i.deploy] = "dead"
  /\ \A i, j \in adrift : i.deploy = j.deploy /\ i.mach = j.mach => i = j

\* SessionHoldsLock is inductive together with what makes Release right: the
\* session that is dropped is alive.
LockInv == SessionHoldsLock /\ FrameInv /\ AdriftInv

DeadStaysDead == \A d \in Deploys : pc[d] = "dead" => pc'[d] = "dead"

\* A step of the coordinator of d, which is alive.
LEMMA LiveFrame ==
  ASSUME TypeInv, FrameInv, NEW d \in Deploys, pc[d] # "dead",
         \/ UNCHANGED pc
         \/ \E l \in Labels \ {"dead"} : pc' = [pc EXCEPT ![d] = l],
         \/ UNCHANGED rpc
         \/ \E f \in Frames :
              /\ rpc' = [rpc EXCEPT ![d] = f]
              /\ f.op = "start" => f.inst.deploy = d /\ f.inst.mach = f.mach
  PROVE  FrameInv' /\ DeadStaysDead
BY DEF TypeInv, TypeOK, FrameInv, DeadStaysDead

\* A step of an agent that handles the frame of d.
LEMMA AgentFrame ==
  ASSUME TypeInv, FrameInv, NEW d \in Deploys, UNCHANGED pc,
         \/ rpc' = [rpc EXCEPT ![d] = NoRpc]
         \/ \E st \in {"busy", "ok", "err"} :
              /\ rpc' = [rpc EXCEPT ![d] = [rpc[d] EXCEPT !.st = st]]
              /\ pc[d] = "dead" => st = "busy"
  PROVE  FrameInv' /\ DeadStaysDead
<1>1. CASE rpc' = [rpc EXCEPT ![d] = NoRpc]
  BY <1>1, Zenon DEF TypeInv, TypeOK, FrameInv, DeadStaysDead, NoRpc
<1>2. ASSUME NEW st \in {"busy", "ok", "err"},
             rpc' = [rpc EXCEPT ![d] = [rpc[d] EXCEPT !.st = st]],
             pc[d] = "dead" => st = "busy"
      PROVE  FrameInv' /\ DeadStaysDead
  <2> DEFINE f == [rpc[d] EXCEPT !.st = st]
  <2>1. rpc[d] \in Frames
    BY Zenon DEF TypeInv, TypeOK
  <2>2. f.st = st /\ f.op = rpc[d].op /\ f.mach = rpc[d].mach /\ f.inst = rpc[d].inst
    BY <2>1, Zenon DEF Frames, NoRpc, SessionFrames, InstanceFrames, StartFrames
  <2> HIDE DEF f
  <2>3. rpc' = [rpc EXCEPT ![d] = f]
    BY <1>2, Zenon DEF f
  <2> QED BY <1>2, <2>2, <2>3 DEF TypeInv, TypeOK, FrameInv, DeadStaysDead
<1> QED BY <1>1, <1>2, Zenon

LEMMA FrameStep ==
  ASSUME TypeInv, FrameInv, Next
  PROVE  FrameInv' /\ DeadStaysDead
<1>p. ASSUME NEW d \in Deploys
      PROVE  /\ \A r : Close(d, r) => pc' = [pc EXCEPT ![d] = "closing"]
             /\ Leave(d) => pc' = [pc EXCEPT ![d] = "done"]
             /\ \A l : Goto(d, l) => pc' = [pc EXCEPT ![d] = l]
             /\ Took(d) => rpc' = [rpc EXCEPT ![d] = NoRpc]
             /\ NoRpc \in Frames /\ NoRpc.op # "start"
  BY Zenon DEF Close, Leave, Goto, Took, Frames, NoRpc
<1>1. ASSUME NEW d \in Deploys,
             \/ Begin(d) \/ ListMachines(d) \/ Revalidate(d) \/ PlanSlots(d)
             \/ Register(d) \/ KeepSlot(d) \/ Commit(d) \/ ListCleanup(d)
             \/ Finish(d) \/ Return(d)
      PROVE  FrameInv' /\ DeadStaysDead
  <2>1. pc[d] # "dead" /\ UNCHANGED rpc
    BY <1>1, Zenon DEF Begin, ListMachines, Revalidate, PlanSlots, Register, KeepSlot, Commit,
                ListCleanup, Finish, Return
  <2>2. UNCHANGED pc \/ \E l \in Labels \ {"dead"} : pc' = [pc EXCEPT ![d] = l]
    BY <1>1, <1>p DEF Begin, ListMachines, Revalidate, PlanSlots, Register, KeepSlot,
                Commit, ListCleanup, Finish, Return, Labels
  <2> QED BY <2>1, <2>2, LiveFrame, Zenon
<1>2. ASSUME NEW d \in Deploys,
             OpenReply(d) \/ StartReply(d) \/ RemoveReply(d) \/ CloseReply(d)
      PROVE  FrameInv' /\ DeadStaysDead
  <2>1. pc[d] # "dead"
    BY <1>2, Zenon DEF OpenReply, StartReply, RemoveReply, CloseReply, Answered, FrameInv
  <2>2. rpc' = [rpc EXCEPT ![d] = NoRpc]
    BY <1>2, <1>p, Zenon DEF OpenReply, StartReply, RemoveReply, CloseReply
  <2>3. UNCHANGED pc \/ \E l \in Labels \ {"dead"} : pc' = [pc EXCEPT ![d] = l]
    BY <1>2, <1>p, Zenon DEF OpenReply, StartReply, RemoveReply, CloseReply, Labels
  <2> QED BY <1>p, <2>1, <2>2, <2>3, LiveFrame, Zenon
<1>t. TypeInv'
  BY NextType, Zenon
<1>3. ASSUME NEW d \in Deploys, OpenNext(d) \/ DrainNext(d) \/ CloseNext(d) \/ DrainReply(d)
      PROVE  FrameInv' /\ DeadStaysDead
  <2>1. pc[d] # "dead"
    BY <1>3, Zenon DEF OpenNext, DrainNext, CloseNext, DrainReply, Answered, FrameInv
  <2>2. UNCHANGED pc \/ \E l \in Labels \ {"dead"} : pc' = [pc EXCEPT ![d] = l]
    BY <1>3, <1>p, Zenon DEF OpenNext, DrainNext, CloseNext, DrainReply, Labels
  <2>3. \/ UNCHANGED rpc \/ rpc' = [rpc EXCEPT ![d] = NoRpc]
        \/ \E op \in {"open", "drain", "remove", "close"} : \E m, i :
             rpc' = [rpc EXCEPT ![d] = [st |-> "sent", op |-> op, mach |-> m, inst |-> i]]
    BY <1>3, <1>p DEF OpenNext, DrainNext, CloseNext, DrainReply, Send
  <2>4. rpc'[d] \in Frames
    BY <1>t, Zenon DEF TypeInv, TypeOK
  <2>5. \/ UNCHANGED rpc
        \/ \E f \in Frames :
             /\ rpc' = [rpc EXCEPT ![d] = f]
             /\ f.op = "start" => f.inst.deploy = d /\ f.inst.mach = f.mach
    <3>1. rpc \in [Deploys -> Frames]
      BY Zenon DEF TypeInv, TypeOK
    <3> QED BY <1>p, <2>3, <2>4, <3>1
  <2> QED BY <2>1, <2>2, <2>5, LiveFrame, Zenon
<1>4. ASSUME NEW d \in Deploys, StartSlot(d)
      PROVE  FrameInv' /\ DeadStaysDead
  <2>1. pc[d] # "dead"
    BY <1>4, Zenon DEF StartSlot
  <2>2. CASE Close(d, "err") /\ UNCHANGED rpc
    BY <1>p, <2>1, <2>2, LiveFrame, Zenon DEF Labels
  <2>3. ASSUME NEW x \in Pending(d), Send(d, "start", x.mach, Candidate(d, x)), UNCHANGED pc
        PROVE  FrameInv' /\ DeadStaysDead
    <3> DEFINE f == [st |-> "sent", op |-> "start", mach |-> x.mach, inst |-> Candidate(d, x)]
    <3>1. rpc' = [rpc EXCEPT ![d] = f]
      BY <2>3, Zenon DEF Send
    <3>2. f \in Frames
      BY <1>t, <3>1, Zenon DEF TypeInv, TypeOK
    <3>3. f.inst.deploy = d /\ f.inst.mach = f.mach
      BY Zenon DEF Candidate
    <3> HIDE DEF f
    <3> QED BY <2>1, <2>3, <3>1, <3>2, <3>3, LiveFrame, Zenon
  <2> QED BY <1>4, <2>2, <2>3, Zenon DEF StartSlot
<1>5. ASSUME NEW d \in Deploys, Agent(d) \/ ConnectFail(d)
      PROVE  FrameInv' /\ DeadStaysDead
  <2>1. UNCHANGED pc
    BY <1>5, Zenon DEF Agent, OpenSession, EnsureContainer, WaitReady, BecomesReady, DrainInstance, RemoveInstance,
                CloseSession, FinishUnheard, SessionGone, HandlerEof, ConnectFail
  <2>2. CASE UNCHANGED rpc
    BY <2>1, <2>2, Zenon DEF FrameInv, DeadStaysDead
  <2>3. CASE \E st \in {"ok", "err"} : Reply(d, st)
    BY <2>1, <2>3, AgentFrame, Zenon DEF Reply
  <2>4. CASE EnsureContainer(d) /\ rpc' = [rpc EXCEPT ![d].st = "busy"]
    BY <2>1, <2>4, AgentFrame, Zenon
  <2>5. CASE \E m \in Machines : HandlerEof(d, m)
    <3>1. rpc' = [rpc EXCEPT ![d] = NoRpc] \/ UNCHANGED rpc
      BY <2>5, Zenon DEF HandlerEof, TypeInv, TypeOK
    <3> QED BY <2>1, <2>2, <3>1, AgentFrame, Zenon
  <2>6. CASE FinishUnheard(d)
    BY <2>2, <2>6, Zenon DEF FinishUnheard
  <2> QED BY <1>5, <2>3, <2>4, <2>5, <2>6, Zenon DEF Agent, OpenSession, EnsureContainer, WaitReady, BecomesReady,
             DrainInstance, RemoveInstance, CloseSession, SessionGone, ConnectFail
<1>6. ASSUME NEW d \in Deploys, NEW m \in Machines, ConnBreak(d, m)
      PROVE  FrameInv' /\ DeadStaysDead
  <2>1. UNCHANGED pc /\ pc[d] # "dead"
    BY <1>6, Zenon DEF ConnBreak
  <2>2. UNCHANGED rpc \/ rpc' = [rpc EXCEPT ![d] = [rpc[d] EXCEPT !.st = "err"]]
    BY <1>6, Zenon DEF ConnBreak, TypeInv, TypeOK
  <2>3. CASE UNCHANGED rpc
    BY <2>1, <2>3, Zenon DEF FrameInv, DeadStaysDead
  <2> QED BY <2>1, <2>2, <2>3, AgentFrame, Zenon
<1>7. ASSUME NEW m \in Crashable, NEW silent \in {FALSE, SilentLoss}, Crash(m, silent)
      PROVE  FrameInv' /\ DeadStaysDead
  <2>1. DeadStaysDead
    BY <1>7, Zenon DEF Crash, DeadStaysDead
  <2>2. ASSUME NEW d \in Deploys
        PROVE  /\ rpc'[d].op = "start" =>
                    rpc'[d].inst.deploy = d /\ rpc'[d].inst.mach = rpc'[d].mach
               /\ pc'[d] = "dead" => rpc'[d].st \in {"none", "sent", "busy"}
    <3>1. CASE d \in Running(m) \/ pc[d] = "dead"
      BY <1>7, <3>1, Zenon DEF Crash, InFlight, NoRpc, FrameInv
    <3>2. CASE ~(d \in Running(m) \/ pc[d] = "dead")
      <4>1. pc'[d] # "dead"
        BY <1>7, <3>2, Zenon DEF Crash
      <4>2. rpc[d] \in Frames
        BY Zenon DEF TypeInv, TypeOK
      <4>3. rpc'[d].op = rpc[d].op /\ rpc'[d].mach = rpc[d].mach /\ rpc'[d].inst = rpc[d].inst
        BY <1>7, <3>2, <4>2, Zenon
           DEF Crash, Frames, NoRpc, SessionFrames, InstanceFrames, StartFrames
      <4> QED BY <4>1, <4>3, Zenon DEF FrameInv
    <3> QED BY <3>1, <3>2, Zenon
  <2> QED BY <2>1, <2>2, Zenon DEF FrameInv
<1>8. CASE FleetChange \/ Quiescent
  BY <1>8, Zenon DEF FleetChange, Quiescent, vars, FrameInv, DeadStaysDead
<1> QED BY <1>1, <1>2, <1>3, <1>4, <1>5, <1>6, <1>7, <1>8, Zenon DEF Next, Apply, Fault

\* Dropping a live session of d on m that no adrift candidate start needs.
LEMMA ReleaseStep ==
  ASSUME TypeInv, SessionHoldsLock, AdriftInv, DeadStaysDead,
         NEW d \in Deploys, NEW m \in Machines, m \in sess[d], Release(d, m),
         adrift' \subseteq adrift, \A i \in adrift' : i.deploy # d \/ i.mach # m
  PROVE  SessionHoldsLock' /\ AdriftInv'
<1> USE DEF TypeInv, TypeOK
<1>1. lock[m] = d /\ d # NoLock
  BY ConstantsAssumption DEF SessionHoldsLock, NoLock
<1>2. ASSUME NEW e \in Deploys, NEW n \in Machines
      PROVE  n \in sess'[e] <=> lock'[n] = e
  <2>1. n \in sess[e] <=> lock[n] = e
    BY Zenon DEF SessionHoldsLock
  <2>2. e # NoLock
    BY ConstantsAssumption, Zenon DEF NoLock
  <2>3. lock'[n] = IF n = m THEN NoLock ELSE lock[n]
    BY Zenon DEF Release
  <2>4. sess'[e] = IF e = d THEN sess[e] \ {m} ELSE sess[e]
    BY Zenon DEF Release
  <2> QED BY <1>1, <2>1, <2>2, <2>3, <2>4, Zenon
<1>3. ASSUME NEW i \in adrift'
      PROVE  /\ i.mach \in sess'[i.deploy] /\ i.mach # Coord[i.deploy]
             /\ i.mach \in cut'[i.deploy] \/ pc'[i.deploy] = "dead"
  <2>1. i \in adrift /\ i.deploy \in Deploys
    BY Zenon DEF Instances
  <2>2. /\ i.mach \in sess[i.deploy] /\ i.mach # Coord[i.deploy]
        /\ i.mach \in cut[i.deploy] \/ pc[i.deploy] = "dead"
    BY <2>1, Zenon DEF AdriftInv
  <2> QED BY <2>1, <2>2, Zenon DEF Release, DeadStaysDead
<1> QED BY <1>2, <1>3, Zenon DEF AdriftInv, SessionHoldsLock

LEMMA LockStep ==
  ASSUME TypeInv, LockInv, Next
  PROVE  LockInv'
<1> USE DEF LockInv
<1>d. FrameInv' /\ DeadStaysDead
  BY FrameStep, Zenon
<1>u. ASSUME UNCHANGED conns PROVE SessionHoldsLock' /\ AdriftInv'
  <2>1. \A i \in adrift : i.deploy \in Deploys
    BY Zenon DEF TypeInv, TypeOK, Instances
  <2> QED BY <1>d, <1>u, <2>1, Zenon DEF conns, SessionHoldsLock, AdriftInv, DeadStaysDead
<1>v. ASSUME NEW d \in Deploys, Leave(d) PROVE SessionHoldsLock' /\ AdriftInv'
  <2>1. CASE Coord[d] \notin sess[d]
    <3>1. UNCHANGED conns
      BY <1>v, <2>1 DEF Leave, conns, TypeInv, TypeOK
    <3> QED BY <1>u, <3>1, Zenon
  <2>2. CASE Coord[d] \in sess[d]
    <3>1. /\ lock' = [lock EXCEPT ![Coord[d]] = NoLock]
          /\ sess' = [sess EXCEPT ![d] = @ \ {Coord[d]}]
          /\ UNCHANGED <<cut, adrift>>
      BY <1>v, <2>2, Zenon DEF Leave
    <3>2. lock[Coord[d]] = d /\ d # NoLock /\ Coord[d] \in Machines
      BY <2>2, ConstantsAssumption, Zenon DEF SessionHoldsLock, NoLock
    <3>3. ASSUME NEW e \in Deploys, NEW n \in Machines
          PROVE  n \in sess'[e] <=> lock'[n] = e
      <4>1. n \in sess[e] <=> lock[n] = e
        BY Zenon DEF SessionHoldsLock
      <4>2. e # NoLock
        BY ConstantsAssumption, Zenon DEF NoLock
      <4>3. lock'[n] = IF n = Coord[d] THEN NoLock ELSE lock[n]
        BY <3>1, Zenon DEF TypeInv, TypeOK
      <4>4. sess'[e] = IF e = d THEN sess[e] \ {Coord[d]} ELSE sess[e]
        BY <3>1, Zenon DEF TypeInv, TypeOK
      <4> QED BY <3>2, <4>1, <4>2, <4>3, <4>4, Zenon
    <3>4. \A i \in adrift : i.deploy \in Deploys
      BY Zenon DEF TypeInv, TypeOK, Instances
    <3>5. AdriftInv'
      BY <1>d, <3>1, <3>4, Zenon DEF AdriftInv, DeadStaysDead, TypeInv, TypeOK
    <3> QED BY <3>3, <3>5, Zenon DEF SessionHoldsLock
  <2> QED BY <2>1, <2>2, Zenon
<1>1. ASSUME NEW d \in Deploys, Begin(d) \/ Apply(d) PROVE SessionHoldsLock' /\ AdriftInv'
  <2>1. UNCHANGED conns \/ Leave(d)
    BY <1>1, Zenon DEF Begin, Apply, ListMachines, OpenNext, OpenReply, Revalidate, PlanSlots,
                Register, KeepSlot, StartSlot, StartReply, Commit, ListCleanup, DrainNext,
                DrainReply, RemoveReply, Finish, CloseNext, CloseReply, Return
  <2> QED BY <1>u, <1>v, <2>1, Zenon
<1>2. ASSUME NEW d \in Deploys, OpenSession(d) PROVE SessionHoldsLock' /\ AdriftInv'
  <2>1. CASE UNCHANGED <<lock, sess>>
    BY <1>2, <1>u, <2>1, Zenon DEF OpenSession, conns
  <2> DEFINE m == rpc[d].mach
  <2>2. CASE /\ lock[m] = NoLock
             /\ lock' = [lock EXCEPT ![m] = d] /\ sess' = [sess EXCEPT ![d] = @ \cup {m}]
    <3>1. m \in Machines
      BY <1>2 DEF OpenSession, Frame, TypeInv, TypeOK, Frames, NoRpc, SessionFrames,
                  InstanceFrames, StartFrames
    <3> HIDE DEF m
    <3>2. SessionHoldsLock'
      BY <2>2, <3>1, ConstantsAssumption DEF SessionHoldsLock, TypeInv, TypeOK, NoLock
    <3>3. UNCHANGED <<cut, adrift, pc>> /\ \A i \in adrift : i.deploy \in Deploys
      BY <1>2, Zenon DEF OpenSession, TypeInv, TypeOK, Instances
    <3>4. AdriftInv'
      BY <2>2, <3>3, Zenon DEF AdriftInv, TypeInv, TypeOK
    <3> QED BY <3>2, <3>4, Zenon
  <2> QED BY <1>2, <2>1, <2>2, Zenon DEF OpenSession
<1>3. ASSUME NEW d \in Deploys,
             EnsureContainer(d) \/ WaitReady(d) \/ DrainInstance(d) \/ RemoveInstance(d)
               \/ SessionGone(d) \/ ConnectFail(d)
      PROVE  SessionHoldsLock' /\ AdriftInv'
  BY <1>3, <1>u, Zenon DEF EnsureContainer, WaitReady, BecomesReady, DrainInstance, RemoveInstance, SessionGone,
                    ConnectFail
<1>4. ASSUME NEW d \in Deploys, CloseSession(d) PROVE SessionHoldsLock' /\ AdriftInv'
  <2>1. CASE UNCHANGED <<lock, sess, cut>>
    BY <1>4, <1>u, <2>1, Zenon DEF CloseSession, conns
  <2>2. CASE rpc[d].mach = Coord[d] /\ Release(d, rpc[d].mach)
    <3>1. Coord[d] \in Machines /\ Coord[d] \in sess[d] /\ adrift' = adrift
      BY <1>4, <2>2, ConstantsAssumption, Zenon DEF CloseSession, Live
    <3>2. \A i \in adrift' : i.deploy # d \/ i.mach # Coord[d]
      BY <3>1, Zenon DEF AdriftInv
    <3> QED BY <1>d, <2>2, <3>1, <3>2, ReleaseStep
  <2> QED BY <1>4, <2>1, <2>2, Zenon DEF CloseSession
<1>5. ASSUME NEW d \in Deploys, FinishUnheard(d) PROVE SessionHoldsLock' /\ AdriftInv'
  <2>1. PICK i \in adrift : i.deploy = d /\ adrift' = adrift \ {i} /\ Release(d, i.mach)
    BY <1>5, Zenon DEF FinishUnheard
  <2>2. i.mach \in Machines /\ i.mach \in sess[d]
    BY <2>1, Zenon DEF AdriftInv, TypeInv, TypeOK, Instances
  <2>3. \A j \in adrift' : j.deploy # d \/ j.mach # i.mach
    BY <2>1, Zenon DEF AdriftInv
  <2> QED BY <1>d, <2>1, <2>2, <2>3, ReleaseStep
<1>6. ASSUME NEW d \in Deploys, NEW m \in Machines, HandlerEof(d, m)
      PROVE  SessionHoldsLock' /\ AdriftInv'
  <2>1. m \in sess[d] /\ Release(d, m) /\ adrift' = adrift
    BY <1>6, Zenon DEF HandlerEof
  <2>2. \A i \in adrift' : i.deploy # d \/ i.mach # m
    BY <1>6, <2>1, Zenon DEF HandlerEof
  <2> QED BY <1>d, <2>1, <2>2, ReleaseStep, Zenon
<1>7. ASSUME NEW d \in Deploys, NEW m \in Machines, ConnBreak(d, m)
      PROVE  SessionHoldsLock' /\ AdriftInv'
  <2>1. /\ UNCHANGED <<lock, sess, pc>> /\ cut' = [cut EXCEPT ![d] = @ \cup {m}]
        /\ pc[d] # "dead" /\ m \in sess[d] /\ m \notin cut[d] /\ m # Coord[d]
    BY <1>7, Zenon DEF ConnBreak
  <2>2. SessionHoldsLock'
    BY <2>1, Zenon DEF SessionHoldsLock
  <2>3. \A i \in adrift : i.deploy \in Deploys /\ (i.deploy # d \/ i.mach # m)
    BY <2>1, Zenon DEF AdriftInv, TypeInv, TypeOK, Instances
  <2>4. CASE adrift' = adrift
    BY <2>1, <2>2, <2>3, <2>4, Zenon DEF AdriftInv, TypeInv, TypeOK
  <2>5. CASE adrift' = adrift \cup {rpc[d].inst} /\ rpc[d].mach = m /\ rpc[d].st = "busy"
    <3>1. rpc[d].op = "start"
      <4>1. rpc[d] \in Frames
        BY Zenon DEF TypeInv, TypeOK
      <4> QED BY <2>5, <4>1 DEF Frames, NoRpc, SessionFrames, InstanceFrames, StartFrames
    <3>2. rpc[d].inst.deploy = d /\ rpc[d].inst.mach = m
      BY <2>5, <3>1, Zenon DEF FrameInv
    <3>3. ASSUME NEW i \in adrift'
          PROVE  /\ i.mach \in sess'[i.deploy] /\ i.mach # Coord[i.deploy]
                 /\ i.mach \in cut'[i.deploy] \/ pc'[i.deploy] = "dead"
      <4>1. CASE i = rpc[d].inst
        BY <2>1, <3>2, <4>1 DEF TypeInv, TypeOK
      <4>2. CASE i \in adrift
        BY <2>1, <2>3, <4>2, Zenon DEF AdriftInv, TypeInv, TypeOK
      <4> QED BY <2>5, <4>1, <4>2, Zenon
    <3>4. \A i, j \in adrift' : i.deploy = j.deploy /\ i.mach = j.mach => i = j
      BY <2>3, <2>5, <3>2 DEF AdriftInv
    <3> QED BY <2>2, <3>3, <3>4, Zenon DEF AdriftInv
  <2> QED BY <1>7, <2>4, <2>5, Zenon DEF ConnBreak
<1>8. ASSUME NEW m \in Crashable, NEW silent \in {FALSE, SilentLoss}, Crash(m, silent)
      PROVE  SessionHoldsLock' /\ AdriftInv'
  <2>1. /\ pc' = [d \in Deploys |-> IF d \in Running(m) THEN "dead" ELSE pc[d]]
        /\ lock' = [lock EXCEPT ![m] = NoLock]
        /\ sess' = [d \in Deploys |-> sess[d] \ {m}]
        /\ cut' = [d \in Deploys |-> IF d \in Running(m) THEN {} ELSE cut[d] \ {m}]
        /\ adrift' = {i \in adrift : i.mach # m}
        /\ m \in Machines
    BY <1>8, ConstantsAssumption, Zenon DEF Crash
  <2>2. ASSUME NEW e \in Deploys, NEW n \in Machines
        PROVE  n \in sess'[e] <=> lock'[n] = e
    <3>1. n \in sess[e] <=> lock[n] = e
      BY Zenon DEF SessionHoldsLock
    <3>2. e # NoLock
      BY ConstantsAssumption, Zenon DEF NoLock
    <3> QED BY <2>1, <3>1, <3>2, Zenon DEF TypeInv, TypeOK
  <2>3. ASSUME NEW i \in adrift'
        PROVE  /\ i.mach \in sess'[i.deploy] /\ i.mach # Coord[i.deploy]
               /\ i.mach \in cut'[i.deploy] \/ pc'[i.deploy] = "dead"
    <3>1. i \in adrift /\ i.mach # m /\ i.deploy \in Deploys
      BY <2>1, Zenon DEF TypeInv, TypeOK, Instances
    <3> QED BY <2>1, <3>1, Zenon DEF AdriftInv
  <2>4. \A i, j \in adrift' : i.deploy = j.deploy /\ i.mach = j.mach => i = j
    BY <2>1, Zenon DEF AdriftInv
  <2> QED BY <2>2, <2>3, <2>4, Zenon DEF SessionHoldsLock, AdriftInv
<1>9. CASE FleetChange \/ Quiescent
  <2>1. UNCHANGED conns
    BY <1>9, Zenon DEF FleetChange, Quiescent, vars
  <2> QED BY <1>d, <1>u, <2>1, Zenon
<1>10. SessionHoldsLock' /\ AdriftInv'
  <2>1. ASSUME NEW d \in Deploys, Agent(d) PROVE SessionHoldsLock' /\ AdriftInv'
    BY <1>2, <1>3, <1>4, <1>5, <1>6, <2>1, Zenon DEF Agent
  <2>2. CASE Fault
    BY <1>3, <1>7, <1>8, <2>2, Zenon DEF Fault
  <2> QED BY <1>1, <1>9, <2>1, <2>2, Zenon DEF Next
<1> QED BY <1>d, <1>10, Zenon

LEMMA LockInit == Init => LockInv
BY ConstantsAssumption DEF Init, LockInv, SessionHoldsLock, FrameInv, AdriftInv, NoRpc, NoLock

LEMMA LockStutter == LockInv /\ UNCHANGED vars => LockInv'
BY DEF LockInv, SessionHoldsLock, FrameInv, AdriftInv, vars, conns

\* At every moment a machine's namespace lock is held by the deploy that has a
\* session there, and by no other: no crash, broken connection, early return or
\* candidate start that nobody waits for leaks a lock or frees one that is used.
THEOREM LocksMatchSessions == Spec => []SessionHoldsLock
<1>1. TypeInv /\ LockInv /\ [Next]_vars => TypeInv' /\ LockInv'
  BY NextType, LockStep, LockStutter, Zenon
<1>2. LockInv => SessionHoldsLock
  BY Zenon DEF LockInv
<1> QED BY <1>1, <1>2, InitType, LockInit, PTL DEF Spec
=============================================================================
