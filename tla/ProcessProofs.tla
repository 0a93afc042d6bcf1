--------------------------- MODULE ProcessProofs ----------------------------
(***************************************************************************)
(* Proofs about one process of x-pdb: the handler of its admission webhook *)
(* (Webhook), and the connections, servers and goroutines it runs with,    *)
(* from the flags to the shutdown (Controller).                            *)
(***************************************************************************)
EXTENDS Webhook, Controller, TLAPS

(***************************************************************************)
(* The admission webhook.                                                  *)
(***************************************************************************)
USE WebhookAssumption

\* Responses keep the types of the handler's own state.
LEMMA RespondType ==
  ASSUME WTypeOK, NEW r \in Request, NEW allowed \in BOOLEAN,
         NEW code \in {"none", "tooManyRequests", "internalError"},
         NEW next \in {"reply", "unlock"},
         pc' = [pc EXCEPT ![r] = next],
         answer' = [answer EXCEPT ![r] = Response(allowed, code)]
  PROVE  /\ pc' \in [Request -> Pc]
         /\ answer' \in [Request -> Code \cup {"none"}]
         /\ \A q \in Request : pc'[q] \in {"unlock", "reply", "done"} => answer'[q] # "none"
BY DEF WTypeOK, Pc, Code, Response

\* So does going on to the next check.
LEMMA ContinueType ==
  ASSUME WTypeOK, NEW r \in Request, NEW next \in {"preactivities", "xpdbs", "lock", "budget", "probe"},
         Continue(r, next)
  PROVE  /\ pc' \in [Request -> Pc]
         /\ answer' \in [Request -> Code \cup {"none"}]
         /\ \A q \in Request : pc'[q] \in {"unlock", "reply", "done"} => answer'[q] # "none"
BY DEF WTypeOK, Pc, Code, Continue

\* Every step of Handle keeps the types.
LEMMA HandleType ==
  ASSUME WTypeOK, NEW r \in Request, Handle(r)
  PROVE  WTypeOK'
<1> DEFINE Control ==
      /\ pc' \in [Request -> Pc]
      /\ answer' \in [Request -> Code \cup {"none"}]
      /\ \A q \in Request : pc'[q] \in {"unlock", "reply", "done"} => answer'[q] # "none"
<1>1. CASE DecodePod(r)
  <2>1. Control
    BY <1>1, RespondType, ContinueType DEF DecodePod, Respond
  <2>2. snap' \in [Request -> PodObject]
    BY <1>1 DEF DecodePod, WTypeOK, Announced
  <2> QED
    BY <1>1, <2>1, <2>2 DEF DecodePod, WTypeOK
<1>2. CASE CheckPreactivities(r)
  <2>1. Control
    BY <1>2, RespondType, ContinueType DEF CheckPreactivities, Respond
  <2>2. Annotated(r) \in PodObject
    <3>1. /\ pod.status \in Status /\ pod.version \in Nat /\ pod.version + 1 \in Nat
          /\ snap[r].annotations \cup {HasPendingDisruption} \in SUBSET Annotation
      BY DEF WTypeOK, PodObject, Annotation
    <3> QED
      BY <3>1 DEF Annotated, PodObject
  <2>3. pod' \in PodObject
    BY <1>2, <2>2 DEF CheckPreactivities, WTypeOK
  <2> QED
    BY <1>2, <2>1, <2>3 DEF CheckPreactivities, WTypeOK
<1>3. CASE GetXPdbsForPod(r)
  <2>1. Control
    BY <1>3, RespondType, ContinueType DEF GetXPdbsForPod, Respond
  <2> QED
    BY <1>3, <2>1 DEF GetXPdbsForPod, WTypeOK
<1>4. CASE Lock(r)
  <2>1. Control
    BY <1>4, RespondType, ContinueType DEF Lock, Respond
  <2> QED
    BY <1>4, <2>1 DEF Lock, WTypeOK
<1>5. CASE CheckBudget(r)
  <2>1. Control
    BY <1>5, RespondType, ContinueType DEF CheckBudget, Respond, ReleaseAndDeny
  <2> QED
    BY <1>5, <2>1 DEF CheckBudget, WTypeOK
<1>6. CASE CheckProbe(r)
  <2>1. Control
    BY <1>6, RespondType DEF CheckProbe, Respond, ReleaseAndDeny
  <2> QED
    BY <1>6, <2>1 DEF CheckProbe, WTypeOK
<1>7. CASE Unlock(r)
  BY <1>7 DEF Unlock, WTypeOK, Pc
<1> QED
  BY <1>1, <1>2, <1>3, <1>4, <1>5, <1>6, <1>7 DEF Handle

\* What the other writers of the pod do, in one fact.
LEMMA WriteEffect ==
  ASSUME WTypeOK,
         \/ \E a \in Activity : AddActivity(a) \/ FinishActivity(a)
         \/ \E s \in Status : ChangeStatus(s)
  PROVE  /\ UNCHANGED <<cache, xpdbs, holders, passed, pc, snap, answer>>
         /\ pod' \in PodObject
         /\ pod'.version = pod.version + 1
         /\ Announced => Announced'
<1>1. ASSUME NEW p \in PodObject, (Announced => HasPendingDisruption \in p.annotations), Write(p)
      PROVE  /\ UNCHANGED <<cache, xpdbs, holders, passed, pc, snap, answer>>
             /\ pod' \in PodObject
             /\ pod'.version = pod.version + 1
             /\ Announced => Announced'
  BY <1>1 DEF Write, WTypeOK, PodObject, Announced
<1>2. ASSUME NEW a \in Activity
      PROVE  /\ [pod EXCEPT !.annotations = @ \cup {a}] \in PodObject
             /\ [pod EXCEPT !.annotations = @ \ {a}] \in PodObject
  BY DEF WTypeOK, PodObject, Annotation
<1>3. ASSUME NEW s \in Status PROVE [pod EXCEPT !.status = s] \in PodObject
  BY DEF WTypeOK, PodObject
<1>4. ASSUME NEW a \in Activity, AddActivity(a) \/ FinishActivity(a)
      PROVE  \E p \in PodObject : (Announced => HasPendingDisruption \in p.annotations) /\ Write(p)
  BY <1>4, <1>2 DEF AddActivity, FinishActivity, WTypeOK, PodObject, Announced
<1>5. ASSUME NEW s \in Status, ChangeStatus(s)
      PROVE  \E p \in PodObject : (Announced => HasPendingDisruption \in p.annotations) /\ Write(p)
  BY <1>5, <1>3 DEF ChangeStatus, WTypeOK, PodObject, Announced
<1> QED
  BY <1>1, <1>4, <1>5

\* The state of the webhook keeps its types.
THEOREM WTypeCorrect == WSpec => []WTypeOK
<1>1. WInit => WTypeOK
  <2> SUFFICES ASSUME WInit PROVE WTypeOK
    OBVIOUS
  <2>1. pod \in PodObject
    BY DEF WInit, PodObject, Status, Annotation
  <2> QED
    BY <2>1 DEF WInit, WTypeOK, Pc
<1>2. WTypeOK /\ [WNext]_wvars => WTypeOK'
  <2> SUFFICES ASSUME WTypeOK, [WNext]_wvars PROVE WTypeOK'
    OBVIOUS
  <2>1. ASSUME NEW r \in Request, Handle(r) PROVE WTypeOK'
    BY <2>1, HandleType
  <2>2. ASSUME NEW r \in Request, Reply(r) PROVE WTypeOK'
    <3>1. pod \in PodObject /\ pod.version + 1 \in Nat /\ "deleting" \in Status
      BY DEF WTypeOK, PodObject, Status
    <3>2. [pod EXCEPT !.status = "deleting", !.version = @ + 1] \in PodObject
      BY <3>1 DEF PodObject
    <3>3. pod' \in PodObject
      BY <2>2, <3>1, <3>2 DEF Reply
    <3> QED
      BY <2>2, <3>3 DEF Reply, WTypeOK, Pc
  <2>3. CASE (\E r \in Request : Expire(r)) \/ Sync \/ Reconfigure
    BY <2>3 DEF Expire, Sync, Reconfigure, WTypeOK
  <2>4. CASE \/ \E a \in Activity : AddActivity(a) \/ FinishActivity(a)
             \/ \E s \in Status : ChangeStatus(s)
    BY <2>4, WriteEffect DEF WTypeOK
  <2>5. CASE UNCHANGED wvars
    BY <2>5 DEF wvars, WTypeOK
  <2> QED
    BY <2>1, <2>2, <2>3, <2>4, <2>5 DEF WNext
<1> QED
  BY <1>1, <1>2, PTL DEF WSpec

-----------------------------------------------------------------------------
\* What every step does to the versions of the pod: it leaves the pod alone or
\* gives it a higher one, and copies of it are the current pod or older copies.
LEMMA PodMoves ==
  ASSUME WTypeOK, WebhookInv, [WNext]_wvars
  PROVE  /\ pod' = pod \/ pod'.version > pod.version
         /\ Announced => Announced'
         /\ cache' \in {cache, pod}
         /\ \A r \in Request : snap'[r] \in {snap[r], pod, cache}
         /\ pc' # pc => GetPendingPreactivities(pod') = GetPendingPreactivities(pod)
<1> DEFINE Goal ==
      /\ pod' = pod \/ pod'.version > pod.version
      /\ Announced => Announced'
      /\ cache' \in {cache, pod}
      /\ \A r \in Request : snap'[r] \in {snap[r], pod, cache}
      /\ pc' # pc => GetPendingPreactivities(pod') = GetPendingPreactivities(pod)
<1>0. pod \in PodObject /\ pod.version \in Nat
  BY DEF WTypeOK, PodObject
<1>1. ASSUME NEW r \in Request, DecodePod(r) PROVE Goal
  BY <1>1 DEF DecodePod, WTypeOK, Announced
<1>2. ASSUME NEW r \in Request, CheckPreactivities(r) PROVE Goal
  <2>1. ASSUME NoConflict(r), GetPendingPreactivities(snap[r]) # {}, pod' = Annotated(r)
        PROVE  /\ pod' = pod \/ pod'.version > pod.version
               /\ Announced'
               /\ GetPendingPreactivities(pod') = GetPendingPreactivities(pod)
    <3>1. snap[r] = pod
      BY <2>1 DEF NoConflict, WebhookInv, VersionsInv, SameVersionSamePod
    <3>2. /\ pod'.annotations = pod.annotations \cup {HasPendingDisruption}
          /\ pod'.version = pod.version + 1 \/ pod' = pod
      BY <1>0, <2>1, <3>1 DEF Annotated, PodObject
    <3>3. GetPendingPreactivities(pod') = GetPendingPreactivities(pod)
      BY <3>2 DEF GetPendingPreactivities
    <3> QED
      BY <1>0, <3>2, <3>3 DEF Announced
  <2> QED
    BY <1>2, <2>1 DEF CheckPreactivities, Announced
<1>3. ASSUME NEW r \in Request,
             GetXPdbsForPod(r) \/ Lock(r) \/ CheckBudget(r) \/ CheckProbe(r) \/ Unlock(r)
      PROVE  Goal
  BY <1>3 DEF GetXPdbsForPod, Lock, CheckBudget, CheckProbe, Unlock, Announced
<1>4. ASSUME NEW r \in Request, Reply(r) PROVE Goal
  <2>1. UNCHANGED <<cache, snap>>
    BY <1>4 DEF Reply
  <2>2. pod' = pod \/ (pod'.version = pod.version + 1 /\ pod'.annotations = pod.annotations)
    BY <1>0, <1>4 DEF Reply, PodObject
  <2> QED
    BY <1>0, <2>1, <2>2 DEF GetPendingPreactivities, Announced
<1>5. CASE (\E r \in Request : Expire(r)) \/ Sync \/ Reconfigure
  BY <1>5 DEF Expire, Sync, Reconfigure, Announced
<1>6. CASE \/ \E a \in Activity : AddActivity(a) \/ FinishActivity(a)
           \/ \E s \in Status : ChangeStatus(s)
  BY <1>0, <1>6, WriteEffect
<1>7. CASE UNCHANGED wvars
  BY <1>7 DEF wvars, Announced
<1> QED
  BY <1>1, <1>2, <1>3, <1>4, <1>5, <1>6, <1>7 DEF WNext, Handle

\* The version of a copy of the pod identifies it, after every step.
LEMMA VersionsStep ==
  ASSUME WTypeOK, WTypeOK', WebhookInv, [WNext]_wvars
  PROVE  VersionsInv'
<1>1. ASSUME NEW p \in PodObject, SameVersionSamePod(p)
      PROVE  /\ p.version <= pod'.version
             /\ p.version = pod'.version => p = pod'
  BY <1>1, PodMoves DEF SameVersionSamePod, WTypeOK, PodObject
<1>2. SameVersionSamePod(pod)
  BY DEF SameVersionSamePod, WTypeOK, PodObject
<1>3. SameVersionSamePod(cache) /\ \A r \in Request : SameVersionSamePod(snap[r])
  BY DEF WebhookInv, VersionsInv
<1>4. ASSUME NEW p \in {cache, pod} PROVE p \in PodObject /\ SameVersionSamePod(p)
  BY <1>2, <1>3 DEF WTypeOK
<1>5. cache'.version <= pod'.version /\ (cache'.version = pod'.version => cache' = pod')
  BY <1>1, <1>4, PodMoves
<1>6. ASSUME NEW r \in Request
      PROVE  snap'[r].version <= pod'.version /\ (snap'[r].version = pod'.version => snap'[r] = pod')
  <2>1. snap'[r] \in {snap[r], pod, cache}
    BY PodMoves
  <2>2. snap'[r] \in PodObject /\ SameVersionSamePod(snap'[r])
    BY <2>1, <1>3, <1>4 DEF WTypeOK
  <2> QED
    BY <2>2, <1>1
<1> QED
  BY <1>5, <1>6 DEF VersionsInv, SameVersionSamePod

\* Handle's progress is as ProgressInv says, after every step.
LEMMA ProgressStep ==
  ASSUME WTypeOK, WebhookInv, [WNext]_wvars
  PROVE  ProgressInv'
<1> USE DEF WebhookInv, ProgressInv, WTypeOK
<1>1. ASSUME NEW r \in Request, DecodePod(r) PROVE ProgressInv'
  <2>1. /\ UNCHANGED <<holders, passed>>
        /\ pc[r] = "start"
        /\ (pc'[r] = "preactivities" /\ answer' = answer) \/ pc'[r] = "reply"
        /\ \A q \in Request \ {r} : pc'[q] = pc[q] /\ answer'[q] = answer[q] /\ snap'[q] = snap[q]
    BY <1>1 DEF DecodePod, Respond, Continue
  <2> QED
    BY <2>1
<1>2. ASSUME NEW r \in Request, CheckPreactivities(r) PROVE ProgressInv'
  BY <1>2 DEF CheckPreactivities, Respond, Continue
<1>3. ASSUME NEW r \in Request, GetXPdbsForPod(r) PROVE ProgressInv'
  BY <1>3 DEF GetXPdbsForPod, Respond, Continue
<1>4. ASSUME NEW r \in Request, Lock(r) PROVE ProgressInv'
  <2>1. /\ snap' = snap
        /\ pc[r] = "lock"
        /\ pc'[r] \in {"budget", "reply"}
        /\ holders' \subseteq holders \cup {r} /\ passed' \subseteq passed \cup {r}
        /\ \A q \in Request \ {r} : pc'[q] = pc[q] /\ answer'[q] = answer[q]
    BY <1>4 DEF Lock, Respond, Continue
  <2> QED
    BY <2>1
<1>5. ASSUME NEW r \in Request, CheckBudget(r) \/ CheckProbe(r) PROVE ProgressInv'
  <2>1. CASE CheckBudget(r)
    BY <2>1 DEF CheckBudget, Respond, Continue, ReleaseAndDeny
  <2>2. CASE CheckProbe(r)
    BY <2>2 DEF CheckProbe, Respond, Continue, ReleaseAndDeny
  <2> QED BY <1>5, <2>1, <2>2
<1>6. ASSUME NEW r \in Request, Unlock(r) \/ Reply(r) PROVE ProgressInv'
  BY <1>6 DEF Unlock, Reply
<1>7. CASE (\E r \in Request : Expire(r)) \/ Sync \/ Reconfigure
  BY <1>7 DEF Expire, Sync, Reconfigure
<1>8. CASE \/ \E a \in Activity : AddActivity(a) \/ FinishActivity(a)
           \/ \E s \in Status : ChangeStatus(s)
  BY <1>8, WriteEffect
<1>9. CASE UNCHANGED wvars
  BY <1>9 DEF wvars
<1> QED
  BY <1>1, <1>2, <1>3, <1>4, <1>5, <1>6, <1>7, <1>8, <1>9 DEF WNext, Handle

\* A copy of the pod with the current version is the current pod, and no request
\* has the lock, an answer or pending activities when it should not.
LEMMA WebhookInvariant == WSpec => []WebhookInv
<1>1. WInit => WebhookInv
  BY DEF WInit, WebhookInv, VersionsInv, ProgressInv, SameVersionSamePod
<1>2. WTypeOK /\ WTypeOK' /\ WebhookInv /\ [WNext]_wvars => WebhookInv'
  BY VersionsStep, ProgressStep DEF WebhookInv
<1> QED
  BY <1>1, <1>2, WTypeCorrect, PTL DEF WSpec

\* Handle's Update of the pod never revives a pre-activity that its owner has
\* finished and never drops one that the owner has added.
THEOREM NoLostAnnotation == WSpec => AnnotationsSurvive
<1>1. WTypeOK /\ WebhookInv /\ [WNext]_wvars
      => [pc' # pc => GetPendingPreactivities(pod') = GetPendingPreactivities(pod)]_wvars
  BY PodMoves
<1> QED
  BY <1>1, WTypeCorrect, WebhookInvariant, PTL DEF WSpec, AnnotationsSurvive

\* Only CheckPreactivities gives the code for "later" to a request about a pod
\* with pending activities, and it does so together with the annotation.
THEOREM LaterMeansAnnounced == WSpec => []PendingAnnounced
<1>1. WInit => PendingAnnounced
  BY DEF WInit, PendingAnnounced
<1>2. WTypeOK /\ WebhookInv /\ PendingAnnounced /\ [WNext]_wvars => PendingAnnounced'
  <2> SUFFICES ASSUME WTypeOK, WebhookInv, PendingAnnounced, [WNext]_wvars, NEW r \in Request,
                      answer'[r] = "tooManyRequests", GetPendingPreactivities(snap[r])' # {}
               PROVE  Announced'
    BY DEF PendingAnnounced
  <2>1. ASSUME answer'[r] = answer[r], snap'[r] = snap[r] PROVE Announced'
    BY <2>1, PodMoves DEF PendingAnnounced, GetPendingPreactivities
  <2>2. ASSUME NEW q \in Request, q # r, Handle(q) \/ Reply(q)
        PROVE  answer'[r] = answer[r] /\ snap'[r] = snap[r]
    BY <2>2 DEF Handle, Reply, DecodePod, CheckPreactivities, GetXPdbsForPod, Lock, CheckBudget,
                CheckProbe, Unlock, Respond, Continue, ReleaseAndDeny, WTypeOK
  <2>3. ASSUME DecodePod(r) PROVE FALSE
    BY <2>3 DEF DecodePod, Respond, Continue, Response, WebhookInv, ProgressInv, WTypeOK
  <2>4. ASSUME CheckPreactivities(r) PROVE Announced'
    <3>1. answer[r] = "none" /\ snap' = snap
      BY <2>4 DEF CheckPreactivities, WebhookInv, ProgressInv
    <3>2. CASE NoConflict(r) /\ pod' = Annotated(r)
      BY <3>2 DEF Annotated, Announced
    <3>3. CASE Continue(r, "xpdbs")
      BY <3>1, <3>3 DEF Continue
    <3>4. CASE Respond(r, FALSE, "none")
      BY <3>4 DEF Respond, Response, WTypeOK
    <3> QED
      BY <2>4, <3>2, <3>3, <3>4 DEF CheckPreactivities
  <2>5. ASSUME GetXPdbsForPod(r) \/ Lock(r) \/ CheckBudget(r) \/ CheckProbe(r) PROVE FALSE
    BY <2>5 DEF GetXPdbsForPod, Lock, CheckBudget, CheckProbe, GetPendingPreactivities,
                WebhookInv, ProgressInv
  <2>6. ASSUME Unlock(r) \/ Reply(r) PROVE answer'[r] = answer[r] /\ snap'[r] = snap[r]
    BY <2>6 DEF Unlock, Reply
  <2>7. CASE (\E q \in Request : Expire(q)) \/ Sync \/ Reconfigure \/ UNCHANGED wvars
    BY <2>1, <2>7 DEF Expire, Sync, Reconfigure, wvars
  <2>8. CASE \/ \E a \in Activity : AddActivity(a) \/ FinishActivity(a)
             \/ \E s \in Status : ChangeStatus(s)
    BY <2>1, <2>8, WriteEffect
  <2> QED
    BY <2>1, <2>2, <2>3, <2>4, <2>5, <2>6, <2>7, <2>8 DEF WNext, Handle
<1> QED
  BY <1>1, <1>2, WTypeCorrect, WebhookInvariant, PTL DEF WSpec

\* A refused request that had the lock leaves none of its leases behind, on whichever
\* way it left Handle after Lock and whatever fails for others, unless its own Unlock
\* fails.
THEOREM RefusalIsClean == WSpec => []RefusalReleasesLock
<1>1. WInit => RefusalReleasesLock
  BY DEF WInit, RefusalReleasesLock
<1>2. WTypeOK /\ WTypeOK' /\ WebhookInv /\ RefusalReleasesLock /\ [WNext]_wvars
      => RefusalReleasesLock'
  <2> SUFFICES ASSUME WTypeOK, WTypeOK', WebhookInv, RefusalReleasesLock, [WNext]_wvars,
                      NEW r \in Request \ UnlockFaults, r \in passed',
                      pc'[r] \in {"reply", "done"}, answer'[r] # "allowed"
               PROVE  r \notin holders'
    BY DEF RefusalReleasesLock, WTypeOK
  <2>1. ASSUME pc'[r] = pc[r], answer'[r] = answer[r], r \in passed, r \in holders' => r \in holders
        PROVE  r \notin holders'
    BY <2>1 DEF RefusalReleasesLock
  <2>2. ASSUME NEW q \in Request, q # r, Handle(q) \/ Reply(q) \/ Expire(q)
        PROVE  /\ pc'[r] = pc[r] /\ answer'[r] = answer[r]
               /\ r \in passed /\ (r \in holders' => r \in holders)
    BY <2>2 DEF Handle, Reply, Expire, DecodePod, CheckPreactivities, GetXPdbsForPod, Lock, CheckBudget,
                CheckProbe, Unlock, Respond, Continue, ReleaseAndDeny, WTypeOK
  <2>3. ASSUME DecodePod(r) \/ CheckPreactivities(r) \/ GetXPdbsForPod(r) PROVE FALSE
    BY <2>3 DEF DecodePod, CheckPreactivities, GetXPdbsForPod, WebhookInv, ProgressInv
  <2>4. ASSUME Lock(r) PROVE FALSE
    BY <2>4 DEF Lock, Continue, WebhookInv, ProgressInv, WTypeOK
  <2>5. ASSUME CheckBudget(r) \/ CheckProbe(r) PROVE FALSE
    BY <2>5 DEF CheckBudget, CheckProbe, Respond, Response, Continue, ReleaseAndDeny, WTypeOK
  <2>6. ASSUME Unlock(r) \/ Expire(r) PROVE r \notin holders'
    BY <2>6 DEF Unlock, Expire
  <2>7. ASSUME Reply(r) PROVE r \notin holders'
    BY <2>7 DEF Reply, RefusalReleasesLock
  <2>8. CASE Sync \/ Reconfigure \/ UNCHANGED wvars
    BY <2>1, <2>8 DEF Sync, Reconfigure, wvars
  <2>9. CASE \/ \E a \in Activity : AddActivity(a) \/ FinishActivity(a)
             \/ \E s \in Status : ChangeStatus(s)
    BY <2>1, <2>9, WriteEffect
  <2> QED
    BY <2>1, <2>2, <2>3, <2>4, <2>5, <2>6, <2>7, <2>8, <2>9 DEF WNext, Handle
<1> QED
  BY <1>1, <1>2, WTypeCorrect, WebhookInvariant, PTL DEF WSpec

-----------------------------------------------------------------------------
(***************************************************************************)
(* The process around it.                                                  *)
(***************************************************************************)
HIDE WebhookAssumption

(***************************************************************************)
(* The pools.                                                              *)
(***************************************************************************)
\* Both pools start well-typed.
LEMMA PoolTypeInit == PInit => PTypeOK
  BY PoolAssumption DEF PInit, PTypeOK, Pool, InNewClient, Returned, Watch

\* Every step of a caller, and every change of the files, keeps the types.
LEMMA PoolTypeStep ==
  ASSUME PTypeOK, [PNext]_poolVars
  PROVE  PTypeOK'
<1> DEFINE Place == {"idle", "get", "call", "waiting"} \cup InNewClient \cup Returned
<1>1. ASSUME NEW g \in Caller, NEW l \in Place, Step(g, l)
      PROVE  gpc' \in [Caller -> Place]
  BY <1>1 DEF PTypeOK, Step
<1>2. /\ {"get", "call", "waiting", "failed", "pair", "probe", "ca"} \subseteq Place
      /\ {"waiting"} \cup Returned \subseteq Place
  BY DEF InNewClient, Returned
<1>3. \A k : PoolOf(k) \in Pool
  BY DEF PoolOf, Pool
<1> HIDE DEF Place
<1>4. PTypeOK' <=> /\ (files \subseteq {"pair", "ca"})'
                   /\ changes' \in 0..MaxFileChanges
                   /\ mux' \in [Pool -> Caller \cup {NoOne}]
                   /\ clients' \in [Key -> Caller \cup {NoOne}]
                   /\ watch' \in [Caller -> Watch]
                   /\ (stale \subseteq Caller)'
                   /\ (quiet \subseteq Caller)'
                   /\ gpc' \in [Caller -> Place]
                   /\ key' \in [Caller -> Key]
                   /\ got' \in [Caller -> Caller \cup {NoOne}]
  BY DEF PTypeOK, Place
<1>5. ASSUME NEW g \in Caller, Ask(g) PROVE PTypeOK'
  BY <1>5, <1>1, <1>2, <1>4 DEF Ask, PTypeOK, watcherVars
<1>6. ASSUME NEW g \in Caller, Found(g) PROVE PTypeOK'
  <2>1. clients[key[g]] \in Caller \cup {NoOne}
    BY DEF PTypeOK
  <2> QED BY <1>6, <2>1, <1>1, <1>2, <1>4 DEF Found, PTypeOK, watcherVars
<1>7. ASSUME NEW g \in Caller, NEW l \in {"pair", "probe"}, Missing(g, l) PROVE PTypeOK'
  <2>1. mux' \in [Pool -> Caller \cup {NoOne}]
    BY <1>7, <1>3 DEF Missing, PTypeOK
  <2>2. got' \in [Caller -> Caller \cup {NoOne}]
    BY <1>7 DEF Missing, PTypeOK
  <2> QED BY <1>7, <2>1, <2>2, <1>1, <1>2, <1>4 DEF Missing, PTypeOK, watcherVars
<1>8. ASSUME NEW g \in Caller, Fail(g) PROVE PTypeOK'
  <2>1. mux' \in [Pool -> Caller \cup {NoOne}]
    BY <1>8, <1>3 DEF Fail, PTypeOK
  <2> QED BY <1>8, <2>1, <1>1, <1>2, <1>4 DEF Fail, PTypeOK, watcherVars
<1>9. ASSUME NEW g \in Caller, Store(g) PROVE PTypeOK'
  <2>1. mux' \in [Pool -> Caller \cup {NoOne}]
    BY <1>9, <1>3 DEF Store, PTypeOK
  <2>2. clients' \in [Key -> Caller \cup {NoOne}]
    BY <1>9 DEF Store, PTypeOK
  <2> QED BY <1>9, <2>1, <2>2, <1>1, <1>2, <1>4 DEF Store, PTypeOK, watcherVars
<1>10. ASSUME NEW g \in Caller, GetStep(g) PROVE PTypeOK'
  <2>1. CASE Get(g) \/ ProbeGet(g)
    BY <2>1, <1>6, <1>7 DEF Get, ProbeGet
  <2>2. CASE LoadPair(g) /\ ~ Fail(g)
    <3>1. watch' \in [Caller -> Watch]
      BY <2>2 DEF LoadPair, PTypeOK, Watch
    <3> QED BY <2>2, <3>1, <1>1, <1>2, <1>4 DEF LoadPair, PTypeOK
  <2>3. CASE Fail(g) \/ Store(g)
    BY <2>3, <1>8, <1>9
  <2> QED BY <1>10, <2>1, <2>2, <2>3 DEF GetStep, FinishNewClient, ProbeNewClient
<1>11. ASSUME NEW g \in Caller, NEW l \in {"waiting"} \cup Returned, Leave(g, l) PROVE PTypeOK'
  BY <1>11, <1>1, <1>2, <1>4 DEF Leave, PTypeOK, watcherVars
<1>12. CASE FilesChange
  <2>1. watch' \in [Caller -> Watch]
    BY <1>12 DEF FilesChange, PTypeOK, Watch
  <2> QED BY <1>12, <2>1, <1>4, PoolAssumption DEF FilesChange, PTypeOK, Place
<1>13. ASSUME NEW c \in Caller, WatcherStep(c) PROVE PTypeOK'
  <2>1. /\ watch' \in [Caller -> Watch]
        /\ (stale \subseteq Caller)'
        /\ (quiet \subseteq Caller)'
    BY <1>13 DEF WatcherStep, AddWatches, GiveUp, HandleEvent, PTypeOK, Watch
  <2>2. UNCHANGED <<files, changes, mux, clients, gpc, key, got>>
    BY <1>13 DEF WatcherStep, AddWatches, GiveUp, HandleEvent
  <2> QED BY <2>1, <2>2, <1>4 DEF PTypeOK, Place
<1>14. CASE UNCHANGED poolVars
  BY <1>14 DEF poolVars, watcherVars, PTypeOK
<1> QED BY <1>5, <1>10, <1>11, <1>12, <1>13, <1>14 DEF PNext

\* At first nobody is in newClient, the maps are empty and there are no watchers.
LEMMA PoolInvInit == PInit => PoolInv
  BY PoolAssumption
  DEF PInit, PoolInv, MutexInv, WatcherInv, LoadedInv, SharedClient, InNewClient

\* Who holds the mutex is alone in newClient of its pool, and a watcher that has had
\* an event loads the pair before it waits for the next one.
LEMMA PoolInvStep ==
  ASSUME PTypeOK, PoolInv, [PNext]_poolVars
  PROVE  PoolInv'
<1>t. /\ clients \in [Key -> Caller \cup {NoOne}]
      /\ gpc \in [Caller -> {"idle", "get", "call", "waiting"} \cup InNewClient \cup Returned]
      /\ key \in [Caller -> Key] /\ got \in [Caller -> Caller \cup {NoOne}]
      /\ mux \in [Pool -> Caller \cup {NoOne}]
      /\ watch \in [Caller -> Watch]
  BY DEF PTypeOK
<1>p. \A k : PoolOf(k) \in Pool
  BY DEF PoolOf, Pool
<1>m. MutexInv /\ NoOne \notin Caller
  BY PoolAssumption DEF PoolInv
<1>w. WatcherInv
  BY DEF PoolInv
<1>s. SharedClient
  BY DEF PoolInv
<1>l. LoadedInv
  BY DEF PoolInv
<1> DEFINE Rest(g) == \A h \in Caller \ {g} : gpc'[h] = gpc[h] /\ got'[h] = got[h]
<1> DEFINE OtherPools(g) ==
      \A h \in Caller : PoolOf(key[h]) # PoolOf(key[g]) => mux'[PoolOf(key[h])] = mux[PoolOf(key[h])]
\* A step that leaves the watchers and the files alone.
<1>u. ASSUME UNCHANGED <<files, watch, stale, quiet>> PROVE LoadedInv'
  BY <1>u, <1>l DEF LoadedInv
\* A caller that moves among the places outside of newClient.
<1>1. ASSUME NEW g \in Caller, gpc[g] \notin InNewClient, gpc'[g] \notin InNewClient, Rest(g),
             UNCHANGED <<files, mux, clients, watch, stale, quiet, key>>,
             gpc'[g] \in {"call", "waiting", "answered", "denied"}
               => got'[g] # NoOne /\ got'[g] = clients[key[g]]
      PROVE  PoolInv'
  <2>1. MutexInv'
    BY <1>1, <1>m DEF MutexInv, Mux
  <2>2. WatcherInv'
    BY <1>1, <1>w DEF WatcherInv, InNewClient
  <2>3. SharedClient'
    BY <1>1, <1>s DEF SharedClient
  <2> QED BY <1>1, <1>u, <2>1, <2>2, <2>3 DEF PoolInv
\* A caller that goes into newClient with the mutex.
<1>2. ASSUME NEW g \in Caller, NEW l \in {"pair", "probe"}, Mux(g) = NoOne,
             l = "probe" => key[g] \in ProbeKey, Missing(g, l)
      PROVE  PoolInv'
  <2>1. /\ gpc'[g] = l /\ got'[g] = g /\ Rest(g)
        /\ UNCHANGED <<files, clients, watch, stale, quiet, key>> /\ clients[key[g]] = NoOne
    BY <1>2, <1>t DEF Missing, Step, watcherVars
  <2>2. mux'[PoolOf(key[g])] = g /\ OtherPools(g)
    BY <1>2, <1>t, <1>p DEF Missing
  <2>3. \A h \in Caller : gpc[h] \in InNewClient => PoolOf(key[h]) # PoolOf(key[g])
    BY <1>2, <1>m DEF MutexInv, Mux
  <2>4. MutexInv'
    <3> SUFFICES ASSUME NEW h \in Caller, gpc'[h] \in InNewClient
                 PROVE  mux'[PoolOf(key[h])] = h /\ clients[key[h]] = NoOne /\ got'[h] = h
      BY <2>1 DEF MutexInv, Mux
    <3>1. CASE h = g
      BY <2>1, <2>2, <3>1
    <3>2. CASE h # g
      BY <1>m, <2>1, <2>2, <2>3, <3>2 DEF MutexInv, Mux
    <3> QED BY <3>1, <3>2
  <2>5. WatcherInv'
    BY <1>2, <1>w, <2>1 DEF WatcherInv
  <2>6. SharedClient'
    BY <1>s, <2>1 DEF SharedClient
  <2> QED BY <1>u, <2>1, <2>4, <2>5, <2>6 DEF PoolInv
\* Who is in newClient has its pool to itself.
<1>3. ASSUME NEW g \in Caller, gpc[g] \in InNewClient
      PROVE  /\ \A h \in Caller \ {g} : gpc[h] \in InNewClient => PoolOf(key[h]) # PoolOf(key[g])
             /\ clients[key[g]] = NoOne /\ got[g] = g
  BY <1>3, <1>m, <1>t DEF MutexInv, Mux
<1>4. ASSUME NEW g \in Caller, gpc[g] \in InNewClient, Fail(g) PROVE PoolInv'
  <2>1. gpc'[g] = "failed" /\ Rest(g) /\ UNCHANGED <<files, clients, watch, stale, quiet, key>>
    BY <1>4, <1>t DEF Fail, Step, watcherVars
  <2>2. OtherPools(g)
    BY <1>4, <1>t, <1>p DEF Fail
  <2>3. MutexInv'
    BY <1>3, <1>4, <1>m, <2>1, <2>2 DEF MutexInv, Mux, InNewClient
  <2>4. WatcherInv'
    BY <1>w, <2>1 DEF WatcherInv
  <2>5. SharedClient'
    BY <1>s, <2>1 DEF SharedClient
  <2> QED BY <1>u, <2>1, <2>3, <2>4, <2>5 DEF PoolInv
<1>5. ASSUME NEW g \in Caller, gpc[g] \in {"ca", "probe"}, Store(g) PROVE PoolInv'
  <2>1. gpc'[g] = "call" /\ Rest(g) /\ UNCHANGED <<files, watch, stale, quiet, key, got>>
    BY <1>5, <1>t DEF Store, Step, watcherVars
  <2>2. OtherPools(g)
    BY <1>5, <1>t, <1>p DEF Store
  <2>3. clients'[key[g]] = got[g] /\ \A k \in Key \ {key[g]} : clients'[k] = clients[k]
    BY <1>5, <1>t DEF Store
  <2>4. /\ \A h \in Caller \ {g} : gpc[h] \in InNewClient => PoolOf(key[h]) # PoolOf(key[g])
        /\ clients[key[g]] = NoOne /\ got[g] = g /\ got[g] # NoOne
    BY <1>3, <1>5, <1>m DEF InNewClient
  <2>5. MutexInv'
    <3> SUFFICES ASSUME NEW h \in Caller, gpc'[h] \in InNewClient
                 PROVE  mux'[PoolOf(key[h])] = h /\ clients'[key[h]] = NoOne /\ got[h] = h
      BY <2>1 DEF MutexInv, Mux
    <3>1. h # g /\ gpc[h] \in InNewClient
      BY <2>1 DEF InNewClient
    <3>2. PoolOf(key[h]) # PoolOf(key[g]) /\ key[h] # key[g] /\ key[h] \in Key
      BY <1>t, <2>4, <3>1
    <3> QED BY <1>m, <2>2, <2>3, <3>1, <3>2 DEF MutexInv, Mux
  <2>6. WatcherInv'
    <3>1. key[g] \in ProbeKey \/ watch[g] # "none"
      BY <1>5, <1>w DEF WatcherInv
    <3>2. ASSUME NEW k \in Key \ ProbeKey, clients'[k] # NoOne PROVE watch[clients'[k]] # "none"
      BY <1>w, <2>3, <2>4, <3>1, <3>2 DEF WatcherInv
    <3> QED BY <1>w, <2>1, <3>2 DEF WatcherInv
  <2>7. SharedClient'
    <3> SUFFICES ASSUME NEW h \in Caller, gpc'[h] \in {"call", "waiting", "answered", "denied"}
                 PROVE  got[h] # NoOne /\ got[h] = clients'[key[h]]
      BY <2>1 DEF SharedClient
    <3>1. CASE h = g
      BY <2>3, <2>4, <3>1
    <3>2. CASE h # g
      <4>1. got[h] # NoOne /\ got[h] = clients[key[h]] /\ key[h] \in Key
        BY <1>s, <1>t, <2>1, <3>2 DEF SharedClient
      <4> QED BY <2>3, <2>4, <4>1
    <3> QED BY <3>1, <3>2
  <2> QED BY <1>u, <2>1, <2>5, <2>6, <2>7 DEF PoolInv
<1>6. ASSUME NEW g \in Caller, gpc[g] = "get", Found(g) PROVE PoolInv'
  <2>1. /\ gpc'[g] = "call" /\ got'[g] = clients[key[g]] /\ clients[key[g]] # NoOne /\ Rest(g)
        /\ UNCHANGED <<files, mux, clients, watch, stale, quiet, key>>
    BY <1>6, <1>t DEF Found, Step, watcherVars
  <2> QED BY <1>1, <1>6, <2>1 DEF InNewClient
<1>7. ASSUME NEW g \in Caller, Ask(g) PROVE PoolInv'
  <2>1. /\ gpc[g] = "idle" /\ gpc'[g] = "get" /\ Rest(g)
        /\ UNCHANGED <<files, mux, clients, watch, stale, quiet, key>>
    BY <1>7, <1>t DEF Ask, Step, watcherVars
  <2> QED BY <1>1, <2>1 DEF InNewClient
<1>8. ASSUME NEW g \in Caller, NEW l \in {"waiting"} \cup Returned, Leave(g, l) PROVE PoolInv'
  <2>1. /\ gpc[g] \in {"call", "waiting"} /\ gpc'[g] = l /\ Rest(g) /\ got' = got
        /\ UNCHANGED <<files, mux, clients, watch, stale, quiet, key>>
    BY <1>8, <1>t DEF Leave, Step, watcherVars
  <2>2. got[g] # NoOne /\ got[g] = clients[key[g]]
    BY <1>s, <2>1 DEF SharedClient
  <2>3. gpc[g] \notin InNewClient /\ gpc'[g] \notin InNewClient
    BY <2>1 DEF InNewClient, Returned
  <2> QED BY <1>1, <2>1, <2>2, <2>3
\* Watchers that start, move on or end, but never are as if there had been none.
<1>9. ASSUME UNCHANGED <<mux, clients, key, got>>,
             \A h \in Caller : gpc'[h] = gpc[h] \/ (gpc[h] = "pair" /\ gpc'[h] = "ca" /\ watch'[h] # "none"),
             \A h \in Caller : watch[h] # "none" => watch'[h] # "none",
             LoadedInv'
      PROVE  PoolInv'
  <2>1. MutexInv'
    BY <1>9, <1>m DEF MutexInv, Mux, InNewClient
  <2>2. WatcherInv'
    BY <1>9, <1>t, <1>w DEF WatcherInv
  <2>3. SharedClient'
    BY <1>9, <1>s DEF SharedClient
  <2> QED BY <1>9, <2>1, <2>2, <2>3 DEF PoolInv
<1>10. ASSUME NEW g \in Caller, LoadPair(g), ~ Fail(g) PROVE PoolInv'
  <2>1. /\ gpc[g] = "pair" /\ gpc'[g] = "ca" /\ \A h \in Caller \ {g} : gpc'[h] = gpc[h]
        /\ watch'[g] = "starting" /\ \A h \in Caller \ {g} : watch'[h] = watch[h]
        /\ UNCHANGED <<files, mux, clients, stale, quiet, key, got>>
    BY <1>10, <1>t DEF LoadPair, Step
  <2>2. LoadedInv'
    BY <1>l, <2>1 DEF LoadedInv
  <2> QED BY <1>9, <2>1, <2>2
<1>11. ASSUME NEW c \in Caller, WatcherStep(c) PROVE PoolInv'
  <2>1. /\ UNCHANGED <<files, mux, clients, gpc, key, got>>
        /\ watch'[c] # "none" /\ \A h \in Caller \ {c} : watch'[h] = watch[h]
    BY <1>11, <1>t DEF WatcherStep, AddWatches, GiveUp, HandleEvent
  <2>2. LoadedInv'
    <3>1. CASE AddWatches(c)
      BY <1>l, <1>t, <3>1 DEF LoadedInv, AddWatches
    <3>2. CASE GiveUp(c)
      BY <1>l, <1>t, <3>2 DEF LoadedInv, GiveUp
    <3>3. CASE HandleEvent(c)
      BY <1>l, <1>t, <3>3 DEF LoadedInv, HandleEvent
    <3> QED BY <1>11, <3>1, <3>2, <3>3 DEF WatcherStep
  <2> QED BY <1>9, <2>1, <2>2
<1>12. CASE FilesChange
  <2>1. /\ \A h \in Caller : watch'[h] # "watching" /\ (watch[h] # "none" => watch'[h] # "none")
        /\ UNCHANGED <<mux, clients, gpc, key, got>>
    BY <1>12 DEF FilesChange
  <2> QED BY <1>9, <2>1 DEF LoadedInv
<1>13. ASSUME NEW g \in Caller, GetStep(g) PROVE PoolInv'
  <2>1. CASE Get(g)
    BY <2>1, <1>2, <1>6 DEF Get
  <2>2. CASE ProbeGet(g)
    BY <2>2, <1>2, <1>6 DEF ProbeGet
  <2>3. CASE LoadPair(g)
    <3>1. gpc[g] \in InNewClient
      BY <2>3 DEF LoadPair, InNewClient
    <3> QED BY <1>4, <1>10, <2>3, <3>1
  <2>4. CASE FinishNewClient(g) \/ ProbeNewClient(g)
    <3>1. gpc[g] \in {"ca", "probe"} /\ gpc[g] \in InNewClient /\ (Store(g) \/ Fail(g))
      BY <2>4 DEF FinishNewClient, ProbeNewClient, InNewClient
    <3> QED BY <1>4, <1>5, <3>1
  <2> QED BY <1>13, <2>1, <2>2, <2>3, <2>4 DEF GetStep
<1>14. CASE UNCHANGED poolVars
  <2>1. UNCHANGED <<files, mux, clients, watch, stale, quiet, gpc, key, got>>
    BY <1>14 DEF poolVars, watcherVars
  <2> QED BY <1>9, <1>u, <2>1
<1> QED BY <1>7, <1>8, <1>11, <1>12, <1>13, <1>14 DEF PNext

\* Only Get takes the mutex, on the way into newClient, and only the two ways out of
\* newClient change where its holder is: both unlock.
LEMMA MutexStep ==
  ASSUME PTypeOK, PoolInv, MutexIsReleased, [PNext]_poolVars
  PROVE  MutexIsReleased'
<1>1. /\ gpc \in [Caller -> {"idle", "get", "call", "waiting"} \cup InNewClient \cup Returned]
      /\ key \in [Caller -> Key]
      /\ mux \in [Pool -> Caller \cup {NoOne}]
      /\ NoOne \notin Caller
      /\ \A k : PoolOf(k) \in Pool
  BY PoolAssumption DEF PTypeOK, PoolOf, Pool
<1>2. ASSUME NEW g \in Caller, gpc[g] \notin InNewClient,
             UNCHANGED <<mux, key>>, \A h \in Caller \ {g} : gpc'[h] = gpc[h]
      PROVE  MutexIsReleased'
  BY <1>1, <1>2 DEF MutexIsReleased
<1>3. ASSUME NEW g \in Caller, NEW l \in {"pair", "probe"}, gpc[g] = "get", Missing(g, l)
      PROVE  MutexIsReleased'
  <2>1. /\ mux' = [mux EXCEPT ![PoolOf(key[g])] = g] /\ key' = key
        /\ gpc'[g] \in InNewClient /\ \A h \in Caller \ {g} : gpc'[h] = gpc[h]
    BY <1>1, <1>3 DEF Missing, Step, InNewClient
  <2>2. gpc[g] \notin InNewClient
    BY <1>3 DEF InNewClient
  <2> QED BY <1>1, <2>1, <2>2 DEF MutexIsReleased
<1>4. ASSUME NEW g \in Caller, gpc[g] \in InNewClient, Fail(g) \/ Store(g)
      PROVE  MutexIsReleased'
  <2>1. /\ mux' = [mux EXCEPT ![PoolOf(key[g])] = NoOne] /\ key' = key
        /\ \A h \in Caller \ {g} : gpc'[h] = gpc[h]
    BY <1>1, <1>4 DEF Fail, Store, Step
  <2> QED BY <1>1, <2>1 DEF MutexIsReleased
<1>5. ASSUME NEW g \in Caller, GetStep(g) PROVE MutexIsReleased'
  <2>1. CASE gpc[g] = "get" /\ Found(g)
    BY <2>1, <1>1, <1>2 DEF Found, Step, InNewClient
  <2>2. CASE \E l \in {"pair", "probe"} : gpc[g] = "get" /\ Missing(g, l)
    BY <2>2, <1>3
  <2>3. CASE gpc[g] \in InNewClient /\ (Fail(g) \/ Store(g))
    BY <2>3, <1>4
  <2>4. CASE gpc[g] = "pair" /\ Step(g, "ca") /\ UNCHANGED <<mux, key>>
    <3>1. gpc'[g] \in InNewClient /\ \A h \in Caller \ {g} : gpc'[h] = gpc[h]
      BY <2>4, <1>1 DEF Step, InNewClient
    <3> QED BY <2>4, <3>1, <1>1 DEF MutexIsReleased
  <2> QED BY <1>5, <2>1, <2>2, <2>3, <2>4
       DEF GetStep, Get, ProbeGet, LoadPair, FinishNewClient, ProbeNewClient, InNewClient
<1>6. ASSUME NEW g \in Caller, Ask(g) PROVE MutexIsReleased'
  BY <1>6, <1>1, <1>2 DEF Ask, Step, InNewClient
<1>7. ASSUME NEW g \in Caller, NEW l, Leave(g, l) PROVE MutexIsReleased'
  BY <1>7, <1>1, <1>2 DEF Leave, Step, InNewClient
<1>8. ASSUME UNCHANGED <<mux, gpc, key>> PROVE MutexIsReleased'
  BY <1>8 DEF MutexIsReleased
<1>9. CASE FilesChange \/ UNCHANGED poolVars \/ \E c \in Caller : WatcherStep(c)
  BY <1>8, <1>9 DEF FilesChange, poolVars, WatcherStep, AddWatches, GiveUp, HandleEvent
<1> QED BY <1>5, <1>6, <1>7, <1>9 DEF PNext

(***************************************************************************)
(* What the callers and the server do beside it leaves the pools to their  *)
(* own specification.                                                      *)
(***************************************************************************)
\* To the pools every step of the two processes is a step of a caller or of a watcher,
\* a change of the files, or none.
LEMMA PoolStepSimulation ==
  ASSUME CNext
  PROVE  [PNext]_poolVars
<1>1. CASE PoolStep
  BY <1>1 DEF PoolStep, Asks, PNext
<1>2. CASE ServerStep
  BY <1>2 DEF ServerStep
<1>3. ASSUME NEW g \in Caller, CallArrives(g) PROVE [PNext]_poolVars
  BY <1>3 DEF CallArrives, PNext
<1>4. ASSUME NEW g \in Caller, CallEnds(g) PROVE [PNext]_poolVars
  BY <1>4 DEF CallEnds, PNext, Returned
<1>5. ASSUME NEW g \in Caller, CallFails(g) PROVE [PNext]_poolVars
  BY <1>5 DEF CallFails, PNext, Returned
<1>6. ASSUME NEW g \in Caller, ProbeAnswers(g) PROVE [PNext]_poolVars
  BY <1>6 DEF ProbeAnswers, PNext, Returned
<1>7. CASE CQuiescent
  BY <1>7 DEF CQuiescent, controllerVars
<1> QED BY <1>1, <1>2, <1>3, <1>4, <1>5, <1>6, <1>7 DEF CNext

\* The composition implements the specification of the pools: what the server,
\* its shutdown and the outcomes of calls do cannot disturb Get and newClient.
LEMMA PoolsAsSpecified == CSpec => PSpec
<1>1. CInit => PInit
  BY DEF CInit
<1>2. [CNext]_controllerVars => [PNext]_poolVars
  BY PoolStepSimulation DEF controllerVars
<1> QED BY <1>1, <1>2, PTL DEF CSpec, PSpec

\* What holds of the pools by themselves holds of them in the processes.
LEMMA PoolInvariant == CSpec => [](PTypeOK /\ PoolInv /\ MutexIsReleased)
<1>1. PInit => PTypeOK /\ PoolInv /\ MutexIsReleased
  BY PoolTypeInit, PoolInvInit DEF PInit, MutexIsReleased
<1>2. PTypeOK /\ PoolInv /\ MutexIsReleased /\ [PNext]_poolVars
      => (PTypeOK /\ PoolInv /\ MutexIsReleased)'
  BY PoolTypeStep, PoolInvStep, MutexStep
<1> QED BY <1>1, <1>2, PoolsAsSpecified, PTL DEF PSpec

\* However many handlers ask at once and however the certificate files change,
\* the callers of an endpoint use one client.
THEOREM ClientsAreShared == CSpec => []SharedClient
<1>1. PTypeOK /\ PoolInv => SharedClient
  BY DEF PoolInv
<1> QED BY <1>1, PoolInvariant, PTL

\* A state client presents the pair on disk whenever its watcher is at rest, except
\* for a change that came before the watch, for any number of changes of the files
\* and of endpoints.
THEOREM WatchedClientsAreCurrent == CSpec => []WatchedClientIsCurrent
<1>1. PTypeOK /\ PoolInv => WatchedClientIsCurrent
  <2> SUFFICES ASSUME PTypeOK, PoolInv, NEW k \in Key \ ProbeKey, clients[k] # NoOne
               PROVE  /\ watch[clients[k]] # "none"
                      /\ watch[clients[k]] = "watching" /\ "pair" \in files =>
                           clients[k] \notin stale \/ clients[k] \in quiet
    BY DEF WatchedClientIsCurrent
  <2>1. clients[k] \in Caller
    BY DEF PTypeOK
  <2> QED BY <2>1 DEF PoolInv, WatcherInv, LoadedInv
<1> QED BY <1>1, PoolInvariant, PTL

\* Nobody leaves the mutex of a pool behind, however newClient ends: the only thing
\* a Get waits for is a newClient under way.
THEOREM MutexesAreReleased == CSpec => []MutexIsReleased
  BY PoolInvariant, PTL

(***************************************************************************)
(* The server.                                                             *)
(***************************************************************************)
\* An Exit that is clean follows a Start that returned without a handler at work.
LEMMA ServerInvServer ==
  ASSUME ServerInv, handler \in [Call -> {"none", "running", "finished", "killed"}],
         StartStep \/ ManagerStep \/ OutsideStep
  PROVE  ServerInv'
<1> USE DEF ServerInv, CleanExitFinishesCalls
<1>1. CASE StartFails \/ StartGoesOn \/ SelectError
  BY <1>1 DEF StartFails, StartGoesOn, SelectError, StartUp
<1>2. CASE SelectDone \/ Drained
  BY <1>2 DEF SelectDone, Drained
<1>3. CASE RunnableFailed \/ Signal \/ OtherRunnableFails \/ SetUp \/ ServeBreaks
  BY <1>3 DEF RunnableFailed, Signal, OtherRunnableFails, SetUp, ServeBreaks
<1>4. CASE ManagerReturns
  BY <1>4 DEF ManagerReturns, Exit
<1>5. CASE GraceExpires \/ SecondSignal \/ SetUpFails
  BY <1>5 DEF GraceExpires, SecondSignal, SetUpFails, Exit
<1> QED BY <1>1, <1>2, <1>3, <1>4, <1>5 DEF StartStep, ManagerStep, OutsideStep

\* The invariant of the server is inductive: calls start handlers only while it
\* serves, and the steps of the pools do not touch it.
LEMMA ServerInvStep ==
  ASSUME ServerInv, handler \in [Call -> {"none", "running", "finished", "killed"}],
         [CNext]_controllerVars
  PROVE  /\ ServerInv'
         /\ handler' \in [Call -> {"none", "running", "finished", "killed"}]
<1> DEFINE HandlerOK == handler \in [Call -> {"none", "running", "finished", "killed"}]
<1>1. CASE UNCHANGED serverVars
  BY <1>1 DEF serverVars, ServerInv, CleanExitFinishesCalls
<1>2. CASE ServerStep
  <2>1. ServerInv'
    BY <1>2, ServerInvServer DEF ServerStep
  <2>2. handler' = handler \/ handler' = [g \in Call |-> IF handler[g] = "running" THEN "killed" ELSE handler[g]]
    BY <1>2 DEF ServerStep, StartStep, ManagerStep, OutsideStep, StartFails, StartGoesOn,
         SelectError, SelectDone, Drained, RunnableFailed, Signal, OtherRunnableFails, SetUp,
         ServeBreaks, ManagerReturns, GraceExpires, SecondSignal, SetUpFails, Exit
  <2>3. HandlerOK'
    BY <2>2
  <2> QED BY <2>1, <2>3
<1>3. ASSUME NEW g \in Caller, CallArrives(g) PROVE ServerInv' /\ HandlerOK'
  BY <1>3, CallerAssumption DEF CallArrives, HandlerStarts, ServerInv, CleanExitFinishesCalls
<1>4. ASSUME NEW g \in Caller, CallEnds(g) PROVE ServerInv' /\ HandlerOK'
  BY <1>4, CallerAssumption DEF CallEnds, HandlerEnds, ServerInv, CleanExitFinishesCalls
<1>5. CASE PoolStep \/ CQuiescent \/ UNCHANGED controllerVars
  BY <1>5, <1>1 DEF PoolStep, CQuiescent, controllerVars
<1>6. ASSUME NEW g \in Caller, CallFails(g) \/ ProbeAnswers(g) PROVE ServerInv' /\ HandlerOK'
  BY <1>6, <1>1 DEF CallFails, ProbeAnswers
<1> QED BY <1>2, <1>3, <1>4, <1>5, <1>6 DEF CNext

\* A process that was asked to stop and exits with status 0 cut no call off,
\* unless its server had been lost to a failing Serve.
THEOREM CleanShutdown == CSpec => []CleanExitFinishesCalls
<1> DEFINE HandlerOK == handler \in [Call -> {"none", "running", "finished", "killed"}]
<1>1. CInit => ServerInv /\ HandlerOK
  BY DEF CInit, SInit, ServerInv, CleanExitFinishesCalls
<1>2. ServerInv /\ HandlerOK /\ [CNext]_controllerVars => (ServerInv /\ HandlerOK)'
  BY ServerInvStep
<1>3. ServerInv => CleanExitFinishesCalls
  BY DEF ServerInv
<1> HIDE DEF HandlerOK
<1> QED BY <1>1, <1>2, <1>3, PTL DEF CSpec

(***************************************************************************)
(* Both processes together.                                                *)
(***************************************************************************)
\* Endpoints that parseEndpoints accepts are endpoints of state servers or probes:
\* no empty one is among them.
LEMMA ParsedEndpoints ==
  ASSUME NEW flag \in Flags, ~ ParseEndpoints(flag).failed
  PROVE  ParseEndpoints(flag).endpoints \in Seq(Key)
<1> DEFINE trimmed == [i \in DOMAIN flag |-> TrimSpace(flag[i])]
<1>1. flag \in Seq(Key \cup {"", " "})
  BY FlagsAssumption
<1>2. CASE flag = <<"">>
  <2>1. ParseEndpoints(flag).endpoints = << >>
    BY <1>2, Zenon DEF ParseEndpoints
  <2> QED BY <2>1
<1>3. CASE flag # <<"">>
  <2>1. \A i \in DOMAIN flag : trimmed[i] # ""
    BY <1>3 DEF ParseEndpoints
  <2> DEFINE Part == Key \cup {"", " "}
  <2>2. flag \in Seq(Part)
    BY <1>1
  <2>3. trimmed \in Seq(Key)
    <3> HIDE DEF Part
    <3>1. /\ DOMAIN flag = 1..Len(flag) /\ Len(flag) \in Nat
          /\ \A i \in DOMAIN flag : flag[i] \in Part
      BY <2>2
    <3>2. ASSUME NEW i \in DOMAIN flag PROVE trimmed[i] \in Key
      BY <2>1, <3>1 DEF TrimSpace, Part
    <3>3. trimmed \in [1..Len(flag) -> Key]
      BY <3>1, <3>2
    <3> QED BY <3>1, <3>3
  <2>4. ParseEndpoints(flag).endpoints = trimmed
    BY <1>3, <2>1 DEF ParseEndpoints
  <2> QED BY <2>3, <2>4
<1> QED BY <1>2, <1>3

\* The state server and its process keep to their states.
LEMMA ServerTypeStep ==
  ASSUME CTypeOK, CNext
  PROVE  /\ proc' \in {"setup", "running", "stopping", "exited"}
         /\ exit' \in {"none", "ok", "error"}
         /\ cause' \in {"none", "signal", "error"}
         /\ srv' \in {"off", "select", "draining", "returned", "lost", "failed"} \cup StartUp
         /\ accept' \in {"none", "accepting", "broken", "ended"}
<1> USE DEF CTypeOK
<1>1. CASE StartStep
  BY <1>1 DEF StartStep, StartFails, StartGoesOn, SelectError, SelectDone, Drained, StartUp
<1>2. CASE ManagerStep
  BY <1>2 DEF ManagerStep, RunnableFailed, ManagerReturns, GraceExpires, Exit
<1>3. CASE OutsideStep
  BY <1>3 DEF OutsideStep, SetUpFails, SetUp, ServeBreaks, Signal, OtherRunnableFails,
       SecondSignal, Exit, StartUp
<1>4. CASE UNCHANGED <<proc, exit, cause, srv, accept>>
  BY <1>4
<1>5. ASSUME NEW g \in Caller, CallArrives(g) \/ CallEnds(g)
      PROVE  UNCHANGED <<proc, exit, cause, srv, accept>>
  BY <1>5 DEF CallArrives, CallEnds, HandlerStarts, HandlerEnds
<1>6. ASSUME PoolStep \/ CQuiescent \/ \E g \in Caller : CallFails(g) \/ ProbeAnswers(g)
      PROVE  UNCHANGED <<proc, exit, cause, srv, accept>>
  BY <1>6 DEF PoolStep, CQuiescent, CallFails, ProbeAnswers, controllerVars, serverVars
<1> QED BY <1>1, <1>2, <1>3, <1>4, <1>5, <1>6 DEF CNext, ServerStep

\* The two processes keep their types.
LEMMA ControllerTypeStep ==
  ASSUME CTypeOK, ServerInv, PoolInv, [CNext]_controllerVars
  PROVE  CTypeOK'
<1>1. CASE UNCHANGED controllerVars
  BY <1>1 DEF controllerVars, poolVars, watcherVars, serverVars, CTypeOK, PTypeOK
<1>2. CASE CNext
  <2>1. PTypeOK'
    BY <1>2, PoolStepSimulation, PoolTypeStep DEF CTypeOK
  <2>2. handler' \in [Call -> {"none", "running", "finished", "killed"}]
    BY <1>2, ServerInvStep DEF CTypeOK
  <2>3. /\ endpoints' = endpoints
        /\ \/ conns' \in {conns, {}}
           \/ \E g \in Caller : gpc[g] = "call" /\ conns' = conns \cup {got[g]}
    BY <1>2 DEF CNext, PoolStep, ServerStep, CallArrives, CallEnds, CallFails, ProbeAnswers,
         CQuiescent, controllerVars
  <2>4. \A g \in Caller : gpc[g] = "call" => got[g] \in Caller
    BY DEF CTypeOK, PTypeOK, PoolInv, SharedClient
  <2>5. conns' \subseteq Caller /\ endpoints' \in Seq(Key)
    BY <2>3, <2>4 DEF CTypeOK
  <2> QED BY <1>2, <2>1, <2>2, <2>5, ServerTypeStep DEF CTypeOK
<1> QED BY <1>1, <1>2

\* Type correctness of the pools, of the process and of its state server, with the
\* endpoints that parseEndpoints leaves.
THEOREM ControllerTypeCorrect == CSpec => []CTypeOK
<1>1. CInit => CTypeOK /\ ServerInv
  <2> SUFFICES ASSUME CInit PROVE CTypeOK /\ ServerInv
    OBVIOUS
  <2>1. PTypeOK
    BY PoolTypeInit DEF CInit
  <2>2. endpoints \in Seq(Key)
    BY ParsedEndpoints DEF CInit
  <2> QED BY <2>1, <2>2 DEF CInit, SInit, CTypeOK, ServerInv, CleanExitFinishesCalls
<1>2. CTypeOK /\ ServerInv /\ PoolInv /\ [CNext]_controllerVars => (CTypeOK /\ ServerInv)'
  BY ControllerTypeStep, ServerInvStep DEF CTypeOK
<1> QED BY <1>1, <1>2, PoolInvariant, PTL DEF CSpec
=============================================================================
