--------------------------- MODULE ExpectedScale ---------------------------
(***************************************************************************)
(* FindExpectedScale of internal/pdb/scale.go: how many replicas the       *)
(* workloads behind a list of pods should have.  The pods have been listed *)
(* from the API server; their controllers are then looked up one by one,   *)
(* through a cache that may lag behind (ScaleFinder gets mgr.GetClient()), *)
(* and as a last resort through the scale subresource, which is read from  *)
(* the API server.  Meanwhile workloads are scaled and deleted.            *)
(*                                                                         *)
(* A controller is its UID: an object of the same name with another UID is *)
(* not found, as in the code.                                              *)
(***************************************************************************)
EXTENDS Integers, Sequences, Functions

CONSTANTS
  Refs,        \* the listed pods: the controller of each of them, or None
  Controller,  \* the UIDs of workload controllers
  Kind,        \* Kind[u]: what kind of controller u is
  ParentOf,    \* ParentOf[u]: the controller of controller u, or None
  None,        \* no controller, no scale
  MaxScale,    \* bound: the largest scale
  MaxChanges   \* bound: how often workloads are scaled or deleted during the call

ASSUME ControllerAssumption ==
  /\ None \notin Controller
  /\ Kind \in [Controller -> {"ReplicationController", "ReplicaSet", "Deployment",
                              "StatefulSet", "Scalable", "Unscalable"}]
  /\ Refs \in Seq(Controller \cup {None})
  /\ ParentOf \in [Controller -> Controller \cup {None}]
  /\ MaxScale \in Nat
  /\ None \notin 0 .. MaxScale
  /\ MaxChanges \in Nat

VARIABLES
  live,             \* live[u]: spec.replicas of u in the API server, or None
  cache,            \* cache[u]: the same in the cache
  i,                \* the pod the loop has come to
  finder,           \* the finder that is next, if they are at work
  controllerScale,  \* the scales found so far
  verdict,          \* how the call has ended
  changes,          \* how often workloads have been changed
  missed            \* whether a lookup in the cache gave anything but the live state

svars == <<live, cache, i, finder, controllerScale, verdict, changes, missed>>

Scale == 0 .. MaxScale
Finders == {"replicationController", "replicaSetOfDeployment", "deployment", "replicaSet", "statefulSet", "scale"}
PodIndex == 1 .. Len(Refs)

SInit ==
  /\ live \in [Controller -> Scale]
  /\ cache \in {[u \in Controller |-> IF u \in new THEN None ELSE live[u]] : new \in SUBSET Controller}
  /\ i = 1
  /\ finder = "none"
  /\ controllerScale = [u \in Controller |-> None]
  /\ verdict = "running"
  /\ changes = 0
  /\ missed = FALSE

-----------------------------------------------------------------------------
controllerRef == Refs[i]

Continue == i' = i + 1 /\ finder' = "none"

OfDeployment(u) == ParentOf[u] # None /\ Kind[ParentOf[u]] = "Deployment"

\* A variant of FirstFinder without getPodDeployment.
FirstFinderFlat(kind) ==
  CASE kind = "ReplicationController" -> "replicationController"
    [] kind = "ReplicaSet"            -> "replicaSet"
    [] kind = "StatefulSet"           -> "statefulSet"
    [] OTHER                          -> "scale"

\* verifyGroupKind makes every finder pass on kinds that are not its own: the
\* first finder that looks anything up, by the kind of the controller.
FirstFinder(kind) ==
  CASE kind = "ReplicationController" -> "replicationController"
    [] kind = "ReplicaSet"            -> "replicaSetOfDeployment"
    [] kind = "StatefulSet"           -> "statefulSet"
    [] OTHER                          -> "scale"

\* A variant of NextFinder that asks for the Deployment again.
NextFinderAgain(f) == IF f = "deployment" THEN "replicaSetOfDeployment"
                      ELSE IF f = "replicaSetOfDeployment" THEN "replicaSet" ELSE "scale"

\* The one after it in finders() that may find something.
NextFinder(f) == IF f \in {"replicaSetOfDeployment", "deployment"} THEN "replicaSet" ELSE "scale"

\* client.Get from the cache.  The finders take every error for NotFound.
Get(u, n) ==
  /\ n \in {cache[u], None}
  /\ missed' = (missed \/ n # live[u])

\* A variant of Found that files the scale under the pod's own controller.
FoundForRef(u, n) ==
  /\ controllerScale' = [controllerScale EXCEPT ![controllerRef] = n]
  /\ Continue
  /\ UNCHANGED verdict

\* A finder has returned controller u with scale n: on to the next pod.
Found(u, n) ==
  /\ controllerScale' = [controllerScale EXCEPT ![u] = n]
  /\ Continue
  /\ UNCHANGED verdict

GoOn(f) ==
  /\ finder' = f
  /\ UNCHANGED <<i, controllerScale, verdict>>

\* The head of the loop: unmanaged pods, and pods whose controller is already
\* known by its UID, need no lookup.
NextPod ==
  /\ verdict = "running"
  /\ finder = "none"
  /\ i \in PodIndex
  /\ \/ controllerRef = None /\ Continue
     \/ /\ controllerRef # None
        /\ controllerScale[controllerRef] # None
        /\ Continue
     \/ /\ controllerRef # None
        /\ controllerScale[controllerRef] = None
        /\ finder' = FirstFinder(Kind[controllerRef])
        /\ UNCHANGED i
  /\ UNCHANGED <<live, cache, controllerScale, verdict, changes, missed>>

\* getPodReplicationController and getPodStatefulSet.
GetPodController ==
  /\ finder \in {"replicationController", "statefulSet"}
  /\ \E n \in Scale \cup {None} :
       /\ Get(controllerRef, n)
       /\ IF n # None THEN Found(controllerRef, n) ELSE GoOn(NextFinder(finder))
  /\ UNCHANGED <<live, cache, changes>>

\* A variant of GetReplicaSetOfDeployment that takes a parent for granted.
GetReplicaSetWithParent ==
  /\ finder = "replicaSetOfDeployment"
  /\ \E n \in Scale \cup {None} :
       /\ Get(controllerRef, n)
       /\ GoOn(IF n # None THEN "deployment" ELSE NextFinder(finder))
  /\ UNCHANGED <<live, cache, changes>>

\* getPodDeployment, up to its second Get.
GetReplicaSetOfDeployment ==
  /\ finder = "replicaSetOfDeployment"
  /\ \E n \in Scale \cup {None} :
       /\ Get(controllerRef, n)
       /\ GoOn(IF n # None /\ OfDeployment(controllerRef) THEN "deployment" ELSE NextFinder(finder))
  /\ UNCHANGED <<live, cache, changes>>

\* The second Get of getPodDeployment: the scale is filed under the Deployment.
GetPodDeployment ==
  /\ finder = "deployment"
  /\ \E n \in Scale \cup {None} :
       /\ Get(ParentOf[controllerRef], n)
       /\ IF n # None THEN Found(ParentOf[controllerRef], n) ELSE GoOn(NextFinder(finder))
  /\ UNCHANGED <<live, cache, changes>>

\* getPodReplicaSet, which passes on ReplicaSets of Deployments.
GetPodReplicaSet ==
  /\ finder = "replicaSet"
  /\ \E n \in Scale \cup {None} :
       /\ Get(controllerRef, n)
       /\ IF n # None /\ ~ OfDeployment(controllerRef)
            THEN Found(controllerRef, n) ELSE GoOn(NextFinder(finder))
  /\ UNCHANGED <<live, cache, changes>>

\* implementsScale: whether the kind has a scale subresource.
ImplementsScale(u) == Kind[u] # "Unscalable"

\* A variant of GetScaleController that passes over what it cannot find.
GetScaleControllerOrSkip ==
  /\ finder = "scale"
  /\ IF live[controllerRef] # None /\ ImplementsScale(controllerRef)
       THEN Found(controllerRef, live[controllerRef])
       ELSE Continue /\ UNCHANGED <<controllerScale, verdict>>
  /\ UNCHANGED <<live, cache, changes, missed>>

\* getScaleController, the last finder: a controller that is gone or cannot be
\* scaled, and any error of the API server, ends the whole call with an error.
GetScaleController ==
  /\ finder = "scale"
  /\ \/ /\ live[controllerRef] # None
        /\ ImplementsScale(controllerRef)
        /\ Found(controllerRef, live[controllerRef])
     \/ /\ verdict' = "error"
        /\ finder' = "none"
        /\ UNCHANGED <<i, controllerScale>>
  /\ UNCHANGED <<live, cache, changes, missed>>

\* The loop is done; the scales are added up.
Return ==
  /\ verdict = "running"
  /\ i \notin PodIndex
  /\ verdict' = "ok"
  /\ UNCHANGED <<live, cache, i, finder, controllerScale, changes, missed>>

FindExpectedScale ==
  \/ NextPod
  \/ GetPodController
  \/ GetReplicaSetOfDeployment
  \/ GetPodDeployment
  \/ GetPodReplicaSet
  \/ GetScaleController
  \/ Return

-----------------------------------------------------------------------------
\* Users, autoscalers and controllers scale and delete workloads; a UID does not
\* come back.
Change(u, n) ==
  /\ verdict = "running"
  /\ live[u] \notin {None, n}
  /\ live' = [live EXCEPT ![u] = n]
  /\ changes < MaxChanges
  /\ changes' = changes + 1
  /\ UNCHANGED <<cache, i, finder, controllerScale, verdict, missed>>

\* The cache catches up.
Sync(u) ==
  /\ verdict = "running"
  /\ cache[u] # live[u]
  /\ cache' = [cache EXCEPT ![u] = live[u]]
  /\ UNCHANGED <<live, i, finder, controllerScale, verdict, changes, missed>>

Ended == verdict # "running" /\ UNCHANGED svars

SNext ==
  \/ FindExpectedScale
  \/ \E u \in Controller : Sync(u) \/ \E n \in Scale \cup {None} : Change(u, n)
  \/ Ended

\* Every lookup comes back, with an answer or an error.
SSpec == SInit /\ [][SNext]_svars /\ WF_svars(FindExpectedScale)

-----------------------------------------------------------------------------
Known == {u \in Controller : controllerScale[u] # None}

expectedCount == SumFunction(Restrict(controllerScale, Known))

\* "SUM_{all c in C} scale(c) where C is the union of C_p1, C_p2, ..., C_pN":
\* the workload of a managed pod is the Deployment behind its ReplicaSet while
\* there is one, and its controller otherwise.
Workload(u) ==
  IF Kind[u] = "ReplicaSet" /\ live[u] # None /\ OfDeployment(u) /\ live[ParentOf[u]] # None
    THEN ParentOf[u] ELSE u

Owners == {Refs[k] : k \in PodIndex} \ {None}

\* Type correctness; and the finder at work is one for the pod's controller.
STypeOK ==
  /\ live \in [Controller -> Scale \cup {None}]
  /\ cache \in [Controller -> Scale \cup {None}]
  /\ i \in 1 .. Len(Refs) + 1
  /\ finder \in Finders \cup {"none"}
  /\ controllerScale \in [Controller -> Scale \cup {None}]
  /\ verdict \in {"running", "ok", "error"}
  /\ changes \in 0 .. MaxChanges
  /\ missed \in BOOLEAN
  /\ finder \in {"replicaSetOfDeployment", "deployment", "replicaSet"} => Kind[controllerRef] = "ReplicaSet"
  /\ finder = "deployment" => OfDeployment(controllerRef)

\* The comment on FindExpectedScale: when the workloads do not change during the
\* call and the cache is up to date where it is used, the result is the sum of the
\* scales of the workloads, each counted once, although a Deployment may be met
\* through several ReplicaSets and under UIDs that the test for known controllers
\* does not know.
ExpectedIsTheSum ==
  verdict = "ok" /\ changes = 0 /\ ~ missed
  => expectedCount = SumFunction(Restrict(live, {Workload(u) : u \in Owners}))

\* Whatever the caches miss and whatever is scaled or deleted meanwhile, a count
\* that succeeds leaves no managed pod out: its controller, or the Deployment
\* behind it, has been counted.
NoPodLeftOut ==
  verdict = "ok" => \A u \in Owners : {u, ParentOf[u]} \cap Known # {}

\* Only workloads of listed pods are counted, and a ReplicaSet is counted by itself,
\* next to the Deployment that counts its pods already, only if the Deployment has
\* been deleted meanwhile or a lookup in the cache has missed, as the finders cannot
\* tell an error or a cache that lags behind from a Deployment that is gone.
CountsNothingTwice ==
  /\ Known \subseteq Owners \cup {ParentOf[u] : u \in {v \in Owners : OfDeployment(v)}}
  /\ ~ missed => \A u \in Known : Kind[u] = "ReplicaSet" /\ OfDeployment(u) => live[ParentOf[u]] = None

(***************************************************************************)
(* The inductive invariants behind them, one conjunct per idea.            *)
(***************************************************************************)
\* The finders work on a managed pod whose controller is not known yet.
FinderInv ==
  /\ finder # "none" => verdict = "running" /\ i \in PodIndex /\ controllerRef # None
  /\ verdict = "ok" => i \notin PodIndex

\* No pod that the loop has passed is left out.
PassedInv ==
  \A k \in PodIndex : k < i /\ Refs[k] # None => {Refs[k], ParentOf[Refs[k]]} \cap Known # {}

\* While nothing changes and nothing is missed, what is known are workloads of
\* listed pods, with their scales, and all those of the pods that were passed;
\* and the finders that look elsewhere than in the workload do not get to work.
ExactInv ==
  changes = 0 /\ ~ missed =>
    /\ \A u \in Controller : live[u] # None
    /\ \A u \in Known : controllerScale[u] = live[u] /\ u \in {Workload(v) : v \in Owners}
    /\ \A k \in PodIndex : k < i /\ Refs[k] # None => Workload(Refs[k]) \in Known
    /\ finder \in {"scale", "replicationController", "statefulSet"} => Kind[controllerRef] # "ReplicaSet"
    /\ finder = "replicaSet" => ~ OfDeployment(controllerRef)

\* A ReplicaSet whose Deployment does not count for it: there is none, or one of
\* the two is gone, for good.
Unbacked(u) ==
  Kind[u] = "ReplicaSet" /\ OfDeployment(u) => live[u] = None \/ live[ParentOf[u]] = None

\* The finders that would count a ReplicaSet by itself come after one that has found
\* it unbacked, unless that one has missed something.
TwiceInv ==
  /\ finder \in {"replicationController", "statefulSet"} => Kind[controllerRef] # "ReplicaSet"
  /\ ~ missed /\ finder \in {"replicaSet", "scale"} => Unbacked(controllerRef)
  /\ CountsNothingTwice

\* Why the sum is right: the controllers in controllerScale are the workloads of
\* the listed pods, no more and no fewer, each with its own scale.
KnownAreTheWorkloads ==
  verdict = "ok" /\ changes = 0 /\ ~ missed =>
    /\ Known = {Workload(u) : u \in Owners}
    /\ \A u \in Known : controllerScale[u] = live[u]

\* The call comes back: finders that miss hand over to one another and never
\* back, although the cache changes between their lookups.
CallReturns == <>(verdict # "running")
=============================================================================
