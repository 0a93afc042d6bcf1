------------------------- MODULE ExpectedScaleProofs ------------------------
(***************************************************************************)
(* FindExpectedScale for any list of pods and any hierarchy of workloads:  *)
(* which controllers it counts, and with which scales.                     *)
(***************************************************************************)
EXTENDS ExpectedScale, TLAPS

USE ControllerAssumption

\* The controller of a pod the loop has come to.
LEMMA RefType ==
  ASSUME NEW k \in PodIndex
  PROVE  Refs[k] \in Controller \cup {None}
  BY DEF PodIndex

\* Every call starts in a state of the invariants.
LEMMA ScaleInit == SInit => STypeOK /\ FinderInv /\ PassedInv /\ ExactInv
<1> SUFFICES ASSUME SInit PROVE STypeOK /\ FinderInv /\ PassedInv /\ ExactInv
  OBVIOUS
<1>1. Len(Refs) \in Nat
  OBVIOUS
<1>2. cache \in [Controller -> Scale \cup {None}] /\ live \in [Controller -> Scale \cup {None}]
  BY DEF SInit
<1>3. i \in 1 .. Len(Refs) + 1 /\ changes \in 0 .. MaxChanges
  BY <1>1 DEF SInit
<1>4. controllerScale \in [Controller -> Scale \cup {None}]
  BY DEF SInit
<1>5. STypeOK
  BY <1>2, <1>3, <1>4 DEF SInit, STypeOK
<1>6. \A u \in Controller : live[u] # None
  BY DEF SInit, Scale
<1>7. Known = {}
  BY DEF SInit, Known
<1>8. \A k \in PodIndex : ~(k < i)
  BY DEF SInit, PodIndex
<1>9. finder = "none" /\ verdict = "running"
  BY DEF SInit
<1> QED BY <1>5, <1>6, <1>7, <1>8, <1>9 DEF FinderInv, PassedInv, ExactInv

\* What a step of the finders does, whichever it is: the loop goes on with a scale
\* for the pod, another finder takes over, or the call fails.
FoundScale ==
  \E u \in {controllerRef, ParentOf[controllerRef]} \ {None}, n \in Scale :
    /\ controllerScale' = [controllerScale EXCEPT ![u] = n]
    /\ i' = i + 1 /\ finder' = "none" /\ verdict' = verdict

HandsOver == finder' \in Finders /\ i' = i /\ controllerScale' = controllerScale /\ verdict' = verdict

Fails == verdict' = "error" /\ finder' = "none" /\ i' = i /\ controllerScale' = controllerScale

Lookup ==
  \/ GetPodController \/ GetReplicaSetOfDeployment \/ GetPodDeployment
  \/ GetPodReplicaSet \/ GetScaleController

\* Every lookup is such a step.
LEMMA Lookups ==
  ASSUME STypeOK, FinderInv, Lookup
  PROVE  /\ FoundScale \/ HandsOver \/ Fails
         /\ live' = live /\ cache' = cache /\ changes' = changes /\ missed' \in BOOLEAN
         /\ verdict = "running" /\ i \in PodIndex /\ controllerRef \in Controller
<1>1. verdict = "running" /\ i \in PodIndex /\ controllerRef \in Controller
  <2>1. finder # "none"
    BY DEF Lookup, GetPodController, GetReplicaSetOfDeployment, GetPodDeployment,
           GetPodReplicaSet, GetScaleController
  <2> QED BY <2>1, RefType DEF FinderInv, controllerRef
<1>2. missed' \in BOOLEAN /\ live' = live /\ cache' = cache /\ changes' = changes
  BY DEF Lookup, GetPodController, GetReplicaSetOfDeployment, GetPodDeployment,
         GetPodReplicaSet, GetScaleController, Get, STypeOK
<1>3. \A f : NextFinder(f) \in Finders
  BY DEF NextFinder, Finders
<1>4. ASSUME NEW f \in Finders, GoOn(f) PROVE HandsOver
  BY <1>4 DEF GoOn, HandsOver
<1>5. ASSUME NEW u \in {controllerRef, ParentOf[controllerRef]} \ {None}, NEW n \in Scale, Found(u, n)
      PROVE  FoundScale
  BY <1>5 DEF Found, Continue, FoundScale
<1>6. CASE GetPodController
  <2>1. PICK n \in Scale \cup {None} :
          IF n # None THEN Found(controllerRef, n) ELSE GoOn(NextFinder(finder))
    BY <1>6 DEF GetPodController
  <2>2. CASE n # None
    <3>1. Found(controllerRef, n) /\ n \in Scale /\ controllerRef # None
      BY <1>1, <2>1, <2>2
    <3> QED BY <1>1, <1>2, <1>5, <3>1
  <2>3. CASE n = None
    <3>1. GoOn(NextFinder(finder))
      BY <2>1, <2>3
    <3> QED BY <1>1, <1>2, <1>3, <1>4, <3>1
  <2> QED BY <2>2, <2>3
<1>7. CASE GetReplicaSetOfDeployment
  <2>1. GoOn("deployment") \/ GoOn(NextFinder(finder))
    BY <1>7 DEF GetReplicaSetOfDeployment
  <2>2. "deployment" \in Finders
    BY DEF Finders
  <2>3. HandsOver
    BY <1>3, <1>4, <2>1, <2>2
  <2> QED BY <1>1, <1>2, <2>3
<1>8. CASE GetPodDeployment
  <2>1. PICK n \in Scale \cup {None} :
          IF n # None THEN Found(ParentOf[controllerRef], n) ELSE GoOn(NextFinder(finder))
    BY <1>8 DEF GetPodDeployment
  <2>2. CASE n # None
    <3>1. Found(ParentOf[controllerRef], n) /\ n \in Scale
      BY <2>1, <2>2
    <3>2. ParentOf[controllerRef] # None
      BY <1>8 DEF GetPodDeployment, STypeOK, OfDeployment
    <3> QED BY <1>1, <1>2, <1>5, <3>1, <3>2
  <2>3. CASE n = None
    <3>1. GoOn(NextFinder(finder))
      BY <2>1, <2>3
    <3> QED BY <1>1, <1>2, <1>3, <1>4, <3>1
  <2> QED BY <2>2, <2>3
<1>9. CASE GetPodReplicaSet
  <2>1. PICK n \in Scale \cup {None} :
          IF n # None /\ ~ OfDeployment(controllerRef)
            THEN Found(controllerRef, n) ELSE GoOn(NextFinder(finder))
    BY <1>9 DEF GetPodReplicaSet
  <2>2. CASE n # None /\ ~ OfDeployment(controllerRef)
    <3>1. Found(controllerRef, n) /\ n \in Scale /\ controllerRef # None
      BY <1>1, <2>1, <2>2
    <3> QED BY <1>1, <1>2, <1>5, <3>1
  <2>3. CASE ~(n # None /\ ~ OfDeployment(controllerRef))
    <3>1. GoOn(NextFinder(finder))
      BY <2>1, <2>3
    <3> QED BY <1>1, <1>2, <1>3, <1>4, <3>1
  <2> QED BY <2>2, <2>3
<1>10. CASE GetScaleController
  <2>1. CASE Found(controllerRef, live[controllerRef]) /\ live[controllerRef] # None
    <3>1. live[controllerRef] \in Scale /\ controllerRef # None
      BY <1>1, <2>1 DEF STypeOK
    <3> QED BY <1>1, <1>2, <1>5, <2>1, <3>1
  <2>2. CASE verdict' = "error" /\ finder' = "none" /\ UNCHANGED <<i, controllerScale>>
    BY <1>1, <1>2, <2>2 DEF Fails
  <2> QED BY <1>10, <2>1, <2>2 DEF GetScaleController
<1> QED BY <1>6, <1>7, <1>8, <1>9, <1>10 DEF Lookup

\* A lookup hands over to finders for the kind of the pod's controller only.
LEMMA FinderKind ==
  ASSUME STypeOK, Lookup
  PROVE  /\ finder' \in {"replicaSetOfDeployment", "deployment", "replicaSet"}
            => Kind[controllerRef] = "ReplicaSet"
         /\ finder' = "deployment" => OfDeployment(controllerRef)
<1> USE DEF GoOn, NextFinder
<1>1. CASE GetPodController
  BY <1>1 DEF GetPodController, Found, Continue
<1>2. CASE GetReplicaSetOfDeployment
  BY <1>2 DEF GetReplicaSetOfDeployment, STypeOK
<1>3. CASE GetPodDeployment
  BY <1>3 DEF GetPodDeployment, Found, Continue, STypeOK
<1>4. CASE GetPodReplicaSet
  BY <1>4 DEF GetPodReplicaSet, Found, Continue
<1>5. CASE GetScaleController
  BY <1>5 DEF GetScaleController, Found, Continue
<1> QED BY <1>1, <1>2, <1>3, <1>4, <1>5 DEF Lookup

\* The steps of the call and of the world around it, for the inductive invariants
\* that hold whatever the cache misses and whatever changes.
LEMMA ScaleStep ==
  ASSUME STypeOK, FinderInv, PassedInv, [SNext]_svars
  PROVE  STypeOK' /\ FinderInv' /\ PassedInv'
<1>0. Len(Refs) \in Nat /\ PodIndex = 1 .. Len(Refs)
  BY DEF PodIndex
<1>1. CASE NextPod
  <2>1. i \in PodIndex /\ verdict = "running" /\ verdict' = "running" /\ controllerScale' = controllerScale
    BY <1>1 DEF NextPod
  <2>2. CASE Continue /\ (controllerRef = None \/ controllerScale[controllerRef] # None)
    <3>1. i' = i + 1 /\ finder' = "none"
      BY <2>2 DEF Continue
    <3>2. STypeOK'
      BY <1>0, <1>1, <2>1, <3>1 DEF NextPod, STypeOK
    <3>3. FinderInv'
      BY <2>1, <3>1 DEF FinderInv
    <3>4. Known' = Known
      BY <2>1 DEF Known
    <3>5. controllerRef # None => controllerRef \in Known
      BY <2>1, <2>2, RefType DEF Known, controllerRef
    <3>6. ASSUME NEW k \in PodIndex, k < i + 1, Refs[k] # None
          PROVE  {Refs[k], ParentOf[Refs[k]]} \cap Known # {}
      <4>1. CASE k = i
        BY <3>5, <3>6, <4>1 DEF controllerRef
      <4>2. CASE k < i
        BY <3>6, <4>2 DEF PassedInv
      <4> QED BY <1>0, <2>1, <3>6, <4>1, <4>2
    <3>7. PassedInv'
      BY <3>1, <3>4, <3>6 DEF PassedInv
    <3> QED BY <3>2, <3>3, <3>7
  <2>3. CASE controllerRef # None /\ finder' = FirstFinder(Kind[controllerRef]) /\ i' = i
    <3>1. /\ finder' \in Finders
          /\ finder' \notin {"deployment", "replicaSet"}
          /\ finder' = "replicaSetOfDeployment" => Kind[controllerRef] = "ReplicaSet"
      BY <2>3 DEF FirstFinder, Finders
    <3>2. controllerRef' = controllerRef
      BY <2>3 DEF controllerRef
    <3>3. STypeOK'
      BY <1>1, <2>1, <2>3, <3>1, <3>2 DEF NextPod, STypeOK
    <3>4. FinderInv'
      BY <2>1, <2>3, <3>2 DEF FinderInv
    <3>5. Known' = Known
      BY <2>1 DEF Known
    <3>6. PassedInv'
      BY <2>3, <3>5 DEF PassedInv
    <3> QED BY <3>3, <3>4, <3>6
  <2> QED BY <1>1, <2>2, <2>3 DEF NextPod
<1>2. CASE Lookup
  <2>1. /\ FoundScale \/ HandsOver \/ Fails
        /\ live' = live /\ cache' = cache /\ changes' = changes /\ missed' \in BOOLEAN
        /\ verdict = "running" /\ i \in PodIndex /\ controllerRef \in Controller
    BY <1>2, Lookups
  <2>2. CASE FoundScale
    <3>1. PICK u \in {controllerRef, ParentOf[controllerRef]} \ {None}, n \in Scale :
            /\ controllerScale' = [controllerScale EXCEPT ![u] = n]
            /\ i' = i + 1 /\ finder' = "none" /\ verdict' = verdict
      BY <2>2 DEF FoundScale
    <3>2. u \in Controller /\ n # None
      BY <2>1 DEF Scale
    <3>3. STypeOK'
      BY <1>0, <2>1, <3>1, <3>2 DEF STypeOK
    <3>4. FinderInv'
      BY <2>1, <3>1 DEF FinderInv
    <3>5. Known \subseteq Known' /\ u \in Known'
      BY <3>1, <3>2 DEF Known, STypeOK
    <3>6. ASSUME NEW k \in PodIndex, k < i + 1, Refs[k] # None
          PROVE  {Refs[k], ParentOf[Refs[k]]} \cap Known' # {}
      <4>1. CASE k = i
        BY <3>1, <3>5, <4>1 DEF controllerRef
      <4>2. CASE k < i
        BY <3>5, <3>6, <4>2 DEF PassedInv
      <4> QED BY <1>0, <2>1, <3>6, <4>1, <4>2
    <3>7. PassedInv'
      BY <3>1, <3>6 DEF PassedInv
    <3> QED BY <3>3, <3>4, <3>7
  <2>3. CASE HandsOver
    <3>1. finder' \in Finders /\ i' = i /\ controllerScale' = controllerScale /\ verdict' = verdict
      BY <2>3 DEF HandsOver
    <3>2. controllerRef' = controllerRef /\ Known' = Known
      BY <3>1 DEF controllerRef, Known
    <3>3. STypeOK'
      BY <1>2, <2>1, <3>1, <3>2, FinderKind DEF STypeOK
    <3>4. FinderInv'
      BY <2>1, <3>1, <3>2 DEF FinderInv
    <3>5. PassedInv'
      BY <3>1, <3>2 DEF PassedInv
    <3> QED BY <3>3, <3>4, <3>5
  <2>4. CASE Fails
    <3>1. verdict' = "error" /\ finder' = "none" /\ i' = i /\ controllerScale' = controllerScale
      BY <2>4 DEF Fails
    <3>2. Known' = Known
      BY <3>1 DEF Known
    <3>3. STypeOK'
      BY <2>1, <3>1 DEF STypeOK
    <3> QED BY <3>1, <3>2, <3>3 DEF FinderInv, PassedInv
  <2> QED BY <2>1, <2>2, <2>3, <2>4
<1>3. CASE UNCHANGED <<i, finder, controllerScale>> /\ STypeOK' /\ (verdict' = verdict \/ Return)
  <2>1. controllerRef' = controllerRef /\ Known' = Known
    BY <1>3 DEF controllerRef, Known
  <2>2. FinderInv'
    BY <1>3, <2>1 DEF FinderInv, Return
  <2> QED BY <1>3, <2>1, <2>2 DEF PassedInv
<1>4. CASE Return
  <2>1. STypeOK'
    BY <1>4 DEF Return, STypeOK, controllerRef
  <2> QED BY <1>3, <1>4, <2>1 DEF Return
<1>5. ASSUME NEW u \in Controller, Sync(u) PROVE STypeOK' /\ FinderInv' /\ PassedInv'
  <2>1. STypeOK'
    BY <1>5 DEF Sync, STypeOK, controllerRef
  <2> QED BY <1>3, <1>5, <2>1 DEF Sync
<1>6. ASSUME NEW u \in Controller, NEW n \in Scale \cup {None}, Change(u, n)
      PROVE  STypeOK' /\ FinderInv' /\ PassedInv'
  <2>1. STypeOK'
    BY <1>6 DEF Change, STypeOK, controllerRef
  <2> QED BY <1>3, <1>6, <2>1 DEF Change
<1>7. CASE UNCHANGED svars
  <2>1. STypeOK'
    BY <1>7 DEF svars, STypeOK, controllerRef
  <2> QED BY <1>3, <1>7, <2>1 DEF svars
<1> QED BY <1>1, <1>2, <1>4, <1>5, <1>6, <1>7 DEF SNext, FindExpectedScale, Ended, Lookup

\* Type correctness of the call, and which finder is at work for which controller,
\* for any pods, workloads and changes.
THEOREM ScaleTypeCorrect == SSpec => []STypeOK
<1>1. SInit => STypeOK /\ FinderInv /\ PassedInv
  BY ScaleInit
<1>2. STypeOK /\ FinderInv /\ PassedInv /\ [SNext]_svars => STypeOK' /\ FinderInv' /\ PassedInv'
  BY ScaleStep
<1> QED BY <1>1, <1>2, PTL DEF SSpec

\* No managed pod is left out of a count that succeeds, for any list of pods and
\* any hierarchy of workloads, whatever the cache misses and whatever is scaled or
\* deleted during the call.
THEOREM EveryPodIsCounted == SSpec => []NoPodLeftOut
<1>1. SInit => STypeOK /\ FinderInv /\ PassedInv
  BY ScaleInit
<1>2. STypeOK /\ FinderInv /\ PassedInv /\ [SNext]_svars => STypeOK' /\ FinderInv' /\ PassedInv'
  BY ScaleStep
<1>3. STypeOK /\ FinderInv /\ PassedInv => NoPodLeftOut
  <2> SUFFICES ASSUME STypeOK, FinderInv, PassedInv, verdict = "ok", NEW u \in Owners
               PROVE  {u, ParentOf[u]} \cap Known # {}
    BY DEF NoPodLeftOut
  <2>1. PICK k \in PodIndex : u = Refs[k] /\ u # None
    BY DEF Owners
  <2>2. k < i
    BY DEF STypeOK, FinderInv, PodIndex
  <2> QED BY <2>1, <2>2 DEF PassedInv
<1> QED BY <1>1, <1>2, <1>3, PTL DEF SSpec

\* What a lookup finds while nothing changes and nothing is missed: the workload of
\* the pod and its live scale, and never a finder that would look elsewhere.
ExactlyFound ==
  /\ controllerScale' = [controllerScale EXCEPT ![Workload(controllerRef)] = live[Workload(controllerRef)]]
  /\ i' = i + 1 /\ finder' = "none"

ExactlyHandedOver ==
  /\ i' = i /\ controllerScale' = controllerScale
  /\ finder' \in {"deployment", "replicaSet", "none"}
  /\ finder' = "replicaSet" => ~ OfDeployment(controllerRef)

\* Every lookup is one of the two.
LEMMA ExactLookup ==
  ASSUME STypeOK, FinderInv, ExactInv, Lookup, changes = 0, ~ missed'
  PROVE  ~ missed /\ (ExactlyFound \/ ExactlyHandedOver)
<1>1. i \in PodIndex /\ controllerRef \in Controller
  BY Lookups
<1>2. ~ missed
  BY DEF Lookup, GetPodController, GetReplicaSetOfDeployment, GetPodDeployment,
         GetPodReplicaSet, GetScaleController, Get
<1>3. /\ \A u \in Controller : live[u] # None
      /\ finder \in {"scale", "replicationController", "statefulSet"} => Kind[controllerRef] # "ReplicaSet"
      /\ finder = "replicaSet" => ~ OfDeployment(controllerRef)
  BY <1>2 DEF ExactInv
<1>4. ASSUME NEW u, NEW n, Get(u, n) PROVE n = live[u]
  BY <1>2, <1>4 DEF Get
<1>5. ASSUME Found(Workload(controllerRef), live[Workload(controllerRef)]) PROVE ExactlyFound
  BY <1>5 DEF Found, Continue, ExactlyFound
<1>6. CASE GetPodController
  <2>1. PICK n \in Scale \cup {None} :
          /\ Get(controllerRef, n)
          /\ IF n # None THEN Found(controllerRef, n) ELSE GoOn(NextFinder(finder))
    BY <1>6 DEF GetPodController
  <2>2. Found(controllerRef, live[controllerRef])
    BY <1>1, <1>3, <1>4, <2>1
  <2>3. Workload(controllerRef) = controllerRef
    BY <1>3, <1>6 DEF Workload, GetPodController
  <2> QED BY <1>2, <1>5, <2>2, <2>3
<1>7. CASE GetReplicaSetOfDeployment
  <2>1. PICK n \in Scale \cup {None} :
          /\ Get(controllerRef, n)
          /\ GoOn(IF n # None /\ OfDeployment(controllerRef) THEN "deployment" ELSE NextFinder(finder))
    BY <1>7 DEF GetReplicaSetOfDeployment
  <2>2. n # None
    BY <1>1, <1>3, <1>4, <2>1
  <2>3. NextFinder(finder) = "replicaSet"
    BY <1>7 DEF GetReplicaSetOfDeployment, NextFinder
  <2>4. ExactlyHandedOver
    BY <2>1, <2>2, <2>3 DEF GoOn, ExactlyHandedOver
  <2> QED BY <1>2, <2>4
<1>8. CASE GetPodDeployment
  <2>1. PICK n \in Scale \cup {None} :
          /\ Get(ParentOf[controllerRef], n)
          /\ IF n # None THEN Found(ParentOf[controllerRef], n) ELSE GoOn(NextFinder(finder))
    BY <1>8 DEF GetPodDeployment
  <2>2. OfDeployment(controllerRef) /\ Kind[controllerRef] = "ReplicaSet"
    BY <1>8 DEF GetPodDeployment, STypeOK
  <2>3. ParentOf[controllerRef] \in Controller
    BY <1>1, <2>2 DEF OfDeployment
  <2>4. Found(ParentOf[controllerRef], live[ParentOf[controllerRef]])
    BY <1>3, <1>4, <2>1, <2>3
  <2>5. Workload(controllerRef) = ParentOf[controllerRef]
    BY <1>1, <1>3, <2>2, <2>3 DEF Workload
  <2> QED BY <1>2, <1>5, <2>4, <2>5
<1>9. CASE GetPodReplicaSet
  <2>1. PICK n \in Scale \cup {None} :
          /\ Get(controllerRef, n)
          /\ IF n # None /\ ~ OfDeployment(controllerRef)
               THEN Found(controllerRef, n) ELSE GoOn(NextFinder(finder))
    BY <1>9 DEF GetPodReplicaSet
  <2>2. ~ OfDeployment(controllerRef)
    BY <1>3, <1>9 DEF GetPodReplicaSet
  <2>3. Found(controllerRef, live[controllerRef])
    BY <1>1, <1>3, <1>4, <2>1, <2>2
  <2>4. Workload(controllerRef) = controllerRef
    BY <2>2 DEF Workload
  <2> QED BY <1>2, <1>5, <2>3, <2>4
<1>10. CASE GetScaleController
  <2>1. Workload(controllerRef) = controllerRef
    BY <1>3, <1>10 DEF Workload, GetScaleController
  <2>2. CASE Found(controllerRef, live[controllerRef])
    BY <1>2, <1>5, <2>1, <2>2
  <2>3. CASE finder' = "none" /\ UNCHANGED <<i, controllerScale>>
    BY <1>2, <2>3 DEF ExactlyHandedOver
  <2> QED BY <1>10, <2>2, <2>3 DEF GetScaleController
<1> QED BY <1>6, <1>7, <1>8, <1>9, <1>10 DEF Lookup

\* A controller that has been filed is a workload of its own: no ReplicaSet of a
\* Deployment is filed while nothing is missed, and a Deployment has no kind that a
\* finder would look behind.
LEMMA KnownIsAWorkload ==
  ASSUME NEW u \in {Workload(v) : v \in Owners}
  PROVE  Workload(u) = u
  BY DEF Workload, OfDeployment

\* ExactInv is inductive, given the others.
LEMMA ExactStep ==
  ASSUME STypeOK, FinderInv, ExactInv, [SNext]_svars
  PROVE  ExactInv'
<1> SUFFICES ASSUME changes' = 0, ~ missed' PROVE ExactInv'
  BY DEF ExactInv
<1> DEFINE W == {Workload(v) : v \in Owners}
<1>0. Len(Refs) \in Nat /\ PodIndex = 1 .. Len(Refs)
  BY DEF PodIndex
<1>1. CASE NextPod
  <2>1. /\ i \in PodIndex /\ changes = 0 /\ ~ missed
        /\ live' = live /\ controllerScale' = controllerScale
    BY <1>1 DEF NextPod
  <2>2. /\ \A u \in Controller : live[u] # None
        /\ \A u \in Known : controllerScale[u] = live[u] /\ u \in W
        /\ \A k \in PodIndex : k < i /\ Refs[k] # None => Workload(Refs[k]) \in Known
    BY <2>1 DEF ExactInv
  <2>3. Known' = Known /\ W' = W /\ \A v : Workload(v)' = Workload(v)
    BY <2>1 DEF Known, Workload
  <2>4. CASE Continue /\ (controllerRef = None \/ controllerScale[controllerRef] # None)
    <3>1. i' = i + 1 /\ finder' = "none"
      BY <2>4 DEF Continue
    <3>2. controllerRef # None => Workload(controllerRef) \in Known
      <4>1. controllerRef # None => controllerRef \in Known
        BY <2>1, <2>4, RefType DEF Known, controllerRef
      <4> QED BY <2>2, <4>1, KnownIsAWorkload
    <3>3. \A k \in PodIndex : k < i + 1 /\ Refs[k] # None => Workload(Refs[k]) \in Known
      <4> SUFFICES ASSUME NEW k \in PodIndex, k < i + 1, Refs[k] # None
                   PROVE  Workload(Refs[k]) \in Known
        OBVIOUS
      <4>1. k = i \/ k < i
        BY <1>0, <2>1
      <4> QED BY <2>2, <3>2, <4>1 DEF controllerRef
    <3> QED BY <2>1, <2>2, <2>3, <3>1, <3>3 DEF ExactInv
  <2>5. CASE finder' = FirstFinder(Kind[controllerRef]) /\ i' = i
    <3>1. /\ finder' # "replicaSet"
          /\ finder' \in {"scale", "replicationController", "statefulSet"} => Kind[controllerRef] # "ReplicaSet"
      BY <2>5 DEF FirstFinder
    <3>2. controllerRef' = controllerRef
      BY <2>5 DEF controllerRef
    <3> QED BY <2>1, <2>2, <2>3, <2>5, <3>1, <3>2 DEF ExactInv
  <2> QED BY <1>1, <2>4, <2>5 DEF NextPod
<1>2. CASE Lookup
  <2>1. live' = live /\ changes = 0 /\ i \in PodIndex /\ controllerRef \in Controller
    BY <1>2, Lookups
  <2>2. ~ missed /\ (ExactlyFound \/ ExactlyHandedOver)
    BY <1>2, <2>1, ExactLookup
  <2>3. /\ \A u \in Controller : live[u] # None
        /\ \A u \in Known : controllerScale[u] = live[u] /\ u \in W
        /\ \A k \in PodIndex : k < i /\ Refs[k] # None => Workload(Refs[k]) \in Known
    BY <2>1, <2>2 DEF ExactInv
  <2>4. W' = W /\ \A v : Workload(v)' = Workload(v)
    BY <2>1 DEF Workload
  <2>5. CASE ExactlyFound
    <3> DEFINE w == Workload(controllerRef)
    <3>1. controllerScale' = [controllerScale EXCEPT ![w] = live[w]] /\ i' = i + 1 /\ finder' = "none"
      BY <2>5 DEF ExactlyFound
    <3>2. w \in Controller /\ w \in W
      <4>1. controllerRef \in Owners
        BY <2>1 DEF Owners, controllerRef
      <4> QED BY <2>1, <4>1 DEF Workload, OfDeployment
    <3> HIDE DEF w
    <3>3. live[w] # None
      BY <2>3, <3>2
    <3>4. Known' = Known \cup {w}
      BY <3>1, <3>2, <3>3 DEF Known, STypeOK
    <3>5. \A u \in Known' : controllerScale'[u] = live[u] /\ u \in W
      <4>1. \A u \in Controller : controllerScale'[u] = IF u = w THEN live[w] ELSE controllerScale[u]
        BY <3>1 DEF STypeOK
      <4>2. Known \subseteq Controller
        BY DEF Known
      <4> HIDE DEF W
      <4> QED BY <2>3, <3>2, <3>4, <4>1, <4>2
    <3>6. \A k \in PodIndex : k < i + 1 /\ Refs[k] # None => Workload(Refs[k]) \in Known'
      <4> SUFFICES ASSUME NEW k \in PodIndex, k < i + 1, Refs[k] # None
                   PROVE  Workload(Refs[k]) \in Known'
        OBVIOUS
      <4>1. k = i \/ k < i
        BY <1>0, <2>1
      <4>2. k = i => Workload(Refs[k]) = w
        BY DEF w, controllerRef
      <4> QED BY <2>3, <3>4, <4>1, <4>2
    <3> QED BY <2>1, <2>3, <2>4, <3>1, <3>5, <3>6 DEF ExactInv
  <2>6. CASE ExactlyHandedOver
    <3>1. /\ i' = i /\ controllerScale' = controllerScale
          /\ finder' \in {"deployment", "replicaSet", "none"}
          /\ finder' = "replicaSet" => ~ OfDeployment(controllerRef)
      BY <2>6 DEF ExactlyHandedOver
    <3>2. controllerRef' = controllerRef /\ Known' = Known
      BY <3>1 DEF controllerRef, Known
    <3> QED BY <2>1, <2>3, <2>4, <3>1, <3>2 DEF ExactInv
  <2> QED BY <2>2, <2>5, <2>6
<1>3. CASE UNCHANGED <<live, i, finder, controllerScale, changes, missed>>
  <2>1. controllerRef' = controllerRef /\ Known' = Known /\ W' = W /\ \A v : Workload(v)' = Workload(v)
    BY <1>3 DEF controllerRef, Known, Workload
  <2> QED BY <1>3, <2>1 DEF ExactInv
<1>4. ASSUME NEW u \in Controller, NEW n \in Scale \cup {None}, Change(u, n) PROVE FALSE
  BY <1>4 DEF Change, STypeOK
<1>5. ASSUME NEW u \in Controller, Sync(u) PROVE ExactInv'
  BY <1>3, <1>5 DEF Sync
<1>6. CASE Return \/ Ended \/ UNCHANGED svars
  BY <1>3, <1>6 DEF Return, Ended, svars
<1> QED BY <1>1, <1>2, <1>4, <1>5, <1>6 DEF SNext, FindExpectedScale, Lookup

\* The controllers that are counted are the workloads of the pods, each with its
\* live scale, while nothing changes and nothing is missed; so their scales add up
\* to the sum over the workloads, each counted once, for any pods and any hierarchy
\* of workloads.
THEOREM SumOverWorkloads == SSpec => [](KnownAreTheWorkloads /\ ExpectedIsTheSum)
<1> DEFINE IInv == STypeOK /\ FinderInv /\ PassedInv /\ ExactInv
<1>1. SInit => IInv
  BY ScaleInit
<1>2. IInv /\ [SNext]_svars => IInv'
  BY ScaleStep, ExactStep
<1>3. IInv => KnownAreTheWorkloads
  <2> SUFFICES ASSUME IInv, verdict = "ok", changes = 0, ~ missed
               PROVE  /\ Known = {Workload(u) : u \in Owners}
                      /\ \A u \in Known : controllerScale[u] = live[u]
    BY DEF KnownAreTheWorkloads
  <2>1. \A u \in Known : controllerScale[u] = live[u] /\ u \in {Workload(v) : v \in Owners}
    BY DEF ExactInv
  <2>2. ASSUME NEW v \in Owners PROVE Workload(v) \in Known
    <3>1. PICK k \in PodIndex : v = Refs[k] /\ v # None
      BY DEF Owners
    <3>2. k < i
      BY DEF STypeOK, FinderInv, PodIndex
    <3> QED BY <3>1, <3>2 DEF ExactInv
  <2> QED BY <2>1, <2>2
<1>4. KnownAreTheWorkloads => ExpectedIsTheSum
  <2> SUFFICES ASSUME KnownAreTheWorkloads, verdict = "ok", changes = 0, ~ missed
               PROVE  expectedCount = SumFunction(Restrict(live, {Workload(u) : u \in Owners}))
    BY DEF ExpectedIsTheSum
  <2>1. Restrict(controllerScale, Known) = Restrict(live, {Workload(u) : u \in Owners})
    BY DEF KnownAreTheWorkloads, Restrict
  <2> QED BY <2>1 DEF expectedCount
<1> QED BY <1>1, <1>2, <1>3, <1>4, PTL DEF SSpec

-----------------------------------------------------------------------------
\* What a lookup files, and what it knows about a ReplicaSet that it does not file.
LEMMA TwiceLookup ==
  ASSUME STypeOK, FinderInv, TwiceInv, Lookup
  PROVE  /\ ~ missed' => ~ missed
         /\ finder' \notin {"replicationController", "statefulSet"}
         /\ ~ missed' /\ finder' \in {"replicaSet", "scale"} => Unbacked(controllerRef)
         /\ \/ controllerScale' = controllerScale
            \/ \E u \in Controller, n \in Scale :
                 /\ controllerScale' = [controllerScale EXCEPT ![u] = n]
                 /\ \/ u = ParentOf[controllerRef] /\ OfDeployment(controllerRef)
                    \/ /\ u = controllerRef
                       /\ ~ missed /\ Kind[u] = "ReplicaSet" /\ OfDeployment(u) => live[ParentOf[u]] = None
<1> DEFINE Files(u, n) ==
      /\ controllerScale' = [controllerScale EXCEPT ![u] = n]
      /\ \/ u = ParentOf[controllerRef] /\ OfDeployment(controllerRef)
         \/ /\ u = controllerRef
            /\ ~ missed /\ Kind[u] = "ReplicaSet" /\ OfDeployment(u) => live[ParentOf[u]] = None
      Goal ==
      /\ ~ missed' => ~ missed
      /\ finder' \notin {"replicationController", "statefulSet"}
      /\ ~ missed' /\ finder' \in {"replicaSet", "scale"} => Unbacked(controllerRef)
      /\ controllerScale' = controllerScale \/ \E u \in Controller, n \in Scale : Files(u, n)
<1>1. controllerRef \in Controller
  BY Lookups
<1>2. ~ missed' => ~ missed
  BY DEF Lookup, GetPodController, GetReplicaSetOfDeployment, GetPodDeployment,
         GetPodReplicaSet, GetScaleController, Get
<1>3. ASSUME NEW u, NEW n, Get(u, n), ~ missed' PROVE n = live[u]
  BY <1>3 DEF Get
\* A scale has been found.
<1>4. ASSUME NEW u \in Controller, NEW n \in Scale, Found(u, n),
             \/ u = ParentOf[controllerRef] /\ OfDeployment(controllerRef)
             \/ /\ u = controllerRef
                /\ ~ missed /\ Kind[u] = "ReplicaSet" /\ OfDeployment(u) => live[ParentOf[u]] = None
      PROVE  Goal
  <2>1. finder' = "none" /\ Files(u, n)
    BY <1>4 DEF Found, Continue
  <2> QED BY <1>2, <2>1
\* Another finder is next.
<1>5. ASSUME NEW f \in {"deployment", "replicaSet", "scale"}, GoOn(f),
             ~ missed' /\ f \in {"replicaSet", "scale"} => Unbacked(controllerRef)
      PROVE  Goal
  <2>1. finder' = f /\ controllerScale' = controllerScale
    BY <1>5 DEF GoOn
  <2> QED BY <1>2, <1>5, <2>1
<1> HIDE DEF Goal
<1>6. ASSUME GetPodController PROVE Goal
  <2>1. PICK n \in Scale \cup {None} :
          IF n # None THEN Found(controllerRef, n) ELSE GoOn(NextFinder(finder))
    BY <1>6 DEF GetPodController
  <2>2. Kind[controllerRef] # "ReplicaSet" /\ NextFinder(finder) = "scale"
    BY <1>6 DEF GetPodController, TwiceInv, NextFinder
  <2>3. CASE n # None
    <3>1. Found(controllerRef, n) /\ n \in Scale
      BY <2>1, <2>3
    <3> QED BY <1>1, <1>4, <2>2, <3>1
  <2>4. CASE n = None
    <3>1. GoOn("scale")
      BY <2>1, <2>2, <2>4
    <3> QED BY <1>5, <2>2, <3>1 DEF Unbacked
  <2> QED BY <2>3, <2>4
<1>7. ASSUME GetReplicaSetOfDeployment PROVE Goal
  <2>1. PICK n \in Scale \cup {None} :
          /\ Get(controllerRef, n)
          /\ GoOn(IF n # None /\ OfDeployment(controllerRef) THEN "deployment" ELSE "replicaSet")
    BY <1>7 DEF GetReplicaSetOfDeployment, NextFinder
  <2>2. CASE n # None /\ OfDeployment(controllerRef)
    <3>1. GoOn("deployment")
      BY <2>1, <2>2
    <3> QED BY <1>5, <3>1
  <2>3. CASE ~(n # None /\ OfDeployment(controllerRef))
    <3>1. GoOn("replicaSet")
      BY <2>1, <2>3
    <3>2. ~ missed' => Unbacked(controllerRef)
      BY <1>3, <2>1, <2>3 DEF Unbacked
    <3> QED BY <1>5, <3>1, <3>2
  <2> QED BY <2>2, <2>3
<1>8. ASSUME GetPodDeployment PROVE Goal
  <2>1. PICK n \in Scale \cup {None} :
          /\ Get(ParentOf[controllerRef], n)
          /\ IF n # None THEN Found(ParentOf[controllerRef], n) ELSE GoOn("replicaSet")
    BY <1>8 DEF GetPodDeployment, NextFinder
  <2>2. OfDeployment(controllerRef) /\ ParentOf[controllerRef] \in Controller
    BY <1>1, <1>8 DEF GetPodDeployment, STypeOK, OfDeployment
  <2>3. CASE n # None
    <3>1. Found(ParentOf[controllerRef], n) /\ n \in Scale
      BY <2>1, <2>3
    <3> QED BY <1>4, <2>2, <3>1
  <2>4. CASE n = None
    <3>1. GoOn("replicaSet")
      BY <2>1, <2>4
    <3>2. ~ missed' => Unbacked(controllerRef)
      BY <1>3, <2>1, <2>4 DEF Unbacked
    <3> QED BY <1>5, <3>1, <3>2
  <2> QED BY <2>3, <2>4
<1>9. ASSUME GetPodReplicaSet PROVE Goal
  <2>1. PICK n \in Scale \cup {None} :
          IF n # None /\ ~ OfDeployment(controllerRef)
            THEN Found(controllerRef, n) ELSE GoOn("scale")
    BY <1>9 DEF GetPodReplicaSet, NextFinder
  <2>2. CASE n # None /\ ~ OfDeployment(controllerRef)
    <3>1. Found(controllerRef, n) /\ n \in Scale
      BY <2>1, <2>2
    <3> QED BY <1>1, <1>4, <2>2, <3>1
  <2>3. CASE ~(n # None /\ ~ OfDeployment(controllerRef))
    <3>1. GoOn("scale")
      BY <2>1, <2>3
    <3>2. ~ missed' => Unbacked(controllerRef)
      BY <1>2, <1>9 DEF GetPodReplicaSet, TwiceInv
    <3> QED BY <1>5, <3>1, <3>2
  <2> QED BY <2>2, <2>3
<1>10. ASSUME GetScaleController PROVE Goal
  <2>1. CASE Found(controllerRef, live[controllerRef]) /\ live[controllerRef] # None
    <3>1. live[controllerRef] \in Scale
      BY <1>1, <2>1 DEF STypeOK
    <3>2. ~ missed /\ Kind[controllerRef] = "ReplicaSet" /\ OfDeployment(controllerRef)
          => live[ParentOf[controllerRef]] = None
      BY <1>10, <2>1 DEF GetScaleController, TwiceInv, Unbacked
    <3> QED BY <1>1, <1>4, <2>1, <3>1, <3>2
  <2>2. CASE finder' = "none" /\ UNCHANGED controllerScale
    BY <1>2, <2>2 DEF Goal
  <2> QED BY <1>10, <2>1, <2>2 DEF GetScaleController
<1> QED BY <1>6, <1>7, <1>8, <1>9, <1>10 DEF Lookup, Goal

\* TwiceInv is inductive, given the types: a workload that is gone does not come back.
LEMMA TwiceStep ==
  ASSUME STypeOK, FinderInv, TwiceInv, [SNext]_svars
  PROVE  TwiceInv'
<1> DEFINE Counted == Owners \cup {ParentOf[u] : u \in {v \in Owners : OfDeployment(v)}}
<1>0. Counted' = Counted
  BY DEF Owners, OfDeployment
<1>1. Known \subseteq Counted
  BY DEF TwiceInv, CountsNothingTwice
<1>2. ~ missed => \A u \in Known : Kind[u] = "ReplicaSet" /\ OfDeployment(u) => live[ParentOf[u]] = None
  BY DEF TwiceInv, CountsNothingTwice
<1>3. CASE NextPod
  <2>1. UNCHANGED <<live, controllerScale, missed>>
    BY <1>3 DEF NextPod
  <2>2. Known' = Known
    BY <2>1 DEF Known
  <2>3. CountsNothingTwice'
    BY <1>0, <1>1, <1>2, <2>1, <2>2 DEF CountsNothingTwice
  <2>4. CASE finder' = "none"
    BY <2>3, <2>4 DEF TwiceInv
  <2>5. CASE finder' = FirstFinder(Kind[controllerRef]) /\ i' = i
    <3>1. /\ controllerRef' = controllerRef
          /\ finder' # "replicaSetOfDeployment" => finder' # "replicaSet" /\ Kind[controllerRef] # "ReplicaSet"
      BY <2>5 DEF controllerRef, FirstFinder
    <3>2. finder' # "replicaSetOfDeployment" => Unbacked(controllerRef)'
      BY <3>1 DEF Unbacked
    <3> QED BY <2>3, <3>1, <3>2 DEF TwiceInv
  <2> QED BY <1>3, <2>4, <2>5 DEF NextPod, Continue
<1>4. CASE Lookup
  <2>1. /\ live' = live /\ controllerRef \in Controller /\ i \in PodIndex
        /\ FoundScale \/ HandsOver \/ Fails
    BY <1>4, Lookups
  <2>2. /\ ~ missed' => ~ missed
        /\ finder' \notin {"replicationController", "statefulSet"}
        /\ ~ missed' /\ finder' \in {"replicaSet", "scale"} => Unbacked(controllerRef)
        /\ \/ controllerScale' = controllerScale
           \/ \E u \in Controller, n \in Scale :
                /\ controllerScale' = [controllerScale EXCEPT ![u] = n]
                /\ \/ u = ParentOf[controllerRef] /\ OfDeployment(controllerRef)
                   \/ /\ u = controllerRef
                      /\ ~ missed /\ Kind[u] = "ReplicaSet" /\ OfDeployment(u) => live[ParentOf[u]] = None
    BY <1>4, TwiceLookup
  <2>3. finder' # "none" => controllerRef' = controllerRef /\ Unbacked(controllerRef)' = Unbacked(controllerRef)
    <3>1. finder' # "none" => i' = i
      BY <2>1 DEF FoundScale, HandsOver, Fails
    <3> QED BY <2>1, <3>1 DEF controllerRef, Unbacked
  <2>4. CountsNothingTwice'
    <3>1. CASE controllerScale' = controllerScale
      <4>1. Known' = Known
        BY <3>1 DEF Known
      <4> QED BY <1>0, <1>1, <1>2, <2>1, <2>2, <4>1 DEF CountsNothingTwice
    <3>2. ASSUME NEW u \in Controller, NEW n \in Scale,
                 controllerScale' = [controllerScale EXCEPT ![u] = n],
                 \/ u = ParentOf[controllerRef] /\ OfDeployment(controllerRef)
                 \/ /\ u = controllerRef
                    /\ ~ missed /\ Kind[u] = "ReplicaSet" /\ OfDeployment(u) => live[ParentOf[u]] = None
          PROVE  CountsNothingTwice'
      <4>1. Known' \subseteq Known \cup {u}
        BY <3>2 DEF Known, STypeOK
      <4>2. controllerRef \in Owners
        BY <2>1 DEF Owners, controllerRef
      <4>3. u \in Counted
        BY <3>2, <4>2
      <4>4. ~ missed /\ Kind[u] = "ReplicaSet" /\ OfDeployment(u) => live[ParentOf[u]] = None
        BY <3>2 DEF OfDeployment
      <4> HIDE DEF Counted
      <4>5. (Known \subseteq Counted)'
        BY <1>0, <1>1, <4>1, <4>3
      <4>6. ~ missed' => \A v \in Known' : Kind[v] = "ReplicaSet" /\ OfDeployment(v) => live'[ParentOf[v]] = None
        BY <1>2, <2>1, <2>2, <4>1, <4>4
      <4> QED BY <4>5, <4>6 DEF CountsNothingTwice, Counted
    <3> QED BY <2>2, <3>1, <3>2
  <2> QED BY <2>2, <2>3, <2>4 DEF TwiceInv
\* Nothing comes back, and the call does not move.
<1>5. ASSUME UNCHANGED <<i, finder, controllerScale, missed>>,
             \A u \in Controller : live[u] = None => live'[u] = None
      PROVE  TwiceInv'
  <2>1. Known' = Known /\ controllerRef' = controllerRef
    BY <1>5 DEF Known, controllerRef
  <2>2. CountsNothingTwice'
    <3>1. \A u \in Known : OfDeployment(u) => ParentOf[u] \in Controller
      BY DEF OfDeployment, Known
    <3> HIDE DEF Counted
    <3>2. ~ missed' => \A u \in Known' : Kind[u] = "ReplicaSet" /\ OfDeployment(u) => live'[ParentOf[u]] = None
      BY <1>2, <1>5, <2>1, <3>1
    <3>3. (Known \subseteq Counted)'
      BY <1>0, <1>1, <2>1
    <3> QED BY <3>2, <3>3 DEF CountsNothingTwice, Counted
  <2>3. ~ missed' /\ finder' \in {"replicaSet", "scale"} => Unbacked(controllerRef)'
    <3> SUFFICES ASSUME ~ missed, finder \in {"replicaSet", "scale"} PROVE Unbacked(controllerRef)'
      BY <1>5
    <3>1. Unbacked(controllerRef) /\ controllerRef \in Controller
      BY RefType DEF TwiceInv, FinderInv, controllerRef
    <3>2. OfDeployment(controllerRef) => ParentOf[controllerRef] \in Controller
      BY <3>1 DEF OfDeployment
    <3> QED BY <1>5, <2>1, <3>1, <3>2 DEF Unbacked
  <2> QED BY <1>5, <2>1, <2>2, <2>3 DEF TwiceInv
<1>6. ASSUME NEW u \in Controller, NEW n \in Scale \cup {None}, Change(u, n) PROVE TwiceInv'
  BY <1>5, <1>6 DEF Change, STypeOK
<1>7. ASSUME NEW u \in Controller, Sync(u) PROVE TwiceInv'
  BY <1>5, <1>7 DEF Sync
<1>8. CASE Return \/ Ended \/ UNCHANGED svars
  BY <1>5, <1>8 DEF Return, Ended, svars
<1> QED BY <1>3, <1>4, <1>6, <1>7, <1>8 DEF SNext, FindExpectedScale, Lookup

\* A ReplicaSet is not counted next to its Deployment, for any pods, any hierarchy of
\* workloads and any changes, unless the Deployment has been deleted or a lookup has
\* missed; and nothing but the workloads of the pods is ever counted.
THEOREM NothingIsCountedTwice == SSpec => []CountsNothingTwice
<1> DEFINE IInv == STypeOK /\ FinderInv /\ PassedInv /\ TwiceInv
<1>1. SInit => IInv
  <2> SUFFICES ASSUME SInit PROVE IInv
    OBVIOUS
  <2>1. Known = {} /\ finder = "none"
    BY DEF SInit, Known
  <2> QED BY <2>1, ScaleInit DEF TwiceInv, CountsNothingTwice
<1>2. IInv /\ [SNext]_svars => IInv'
  BY ScaleStep, TwiceStep
<1>3. IInv => CountsNothingTwice
  BY DEF TwiceInv
<1> HIDE DEF IInv
<1> QED BY <1>1, <1>2, <1>3, PTL DEF SSpec
=============================================================================
