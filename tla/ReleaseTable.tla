---------------------------- MODULE ReleaseTable ----------------------------
(***************************************************************************)
(* What a namespace promises its users: deploys take effect one at a time, *)
(* each as a single flip of the whole release table from one manifest to   *)
(* the next.  A deploy that commits removes every service its manifest     *)
(* does not name, and gives every service it names a release at the        *)
(* manifest's revision whose slots are either taken over unchanged from    *)
(* the release being replaced or filled by the deploy's own instances.     *)
(***************************************************************************)
CONSTANTS Deploys, Services, Manifests, NoRelease

VARIABLES
  releases,    \* service -> [rev, slots]
  committed    \* deploys that have taken effect

vars == <<releases, committed>>

Init ==
  /\ releases = [s \in Services |-> NoRelease]
  /\ committed = {}

\* x may be a slot of d's new release of a service whose release was old.
MaySucceed(d, old, rev, x) ==
  \/ x.inst.deploy = d
  \/ x \in old.slots /\ old.rev = rev

\* A slot that stays on its machine at its revision keeps its instance.
KeepsRunning(old, new) ==
  \A x \in old.slots, y \in new.slots :
    old.rev = new.rev /\ x.slot = y.slot /\ x.mach = y.mach => x.inst = y.inst

Flip(d) ==
  /\ d \notin committed
  /\ committed' = committed \cup {d}
  /\ \E M \in Manifests :
       /\ DOMAIN releases' = Services
       /\ \A s \in Services \ DOMAIN M : releases'[s] = NoRelease
       /\ \A s \in DOMAIN M :
            /\ releases'[s].rev = M[s].rev
            /\ releases'[s].slots # {}
            /\ \A x \in releases'[s].slots : MaySucceed(d, releases[s], M[s].rev, x)
            /\ KeepsRunning(releases[s], releases'[s])

Next == \E d \in Deploys : Flip(d)

Spec == Init /\ [][Next]_vars
=============================================================================
