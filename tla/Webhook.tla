------------------------------ MODULE Webhook ------------------------------
(***************************************************************************)
(* The control flow of the admission webhook's Handle, from the request to *)
(* the response and what the kube-apiserver does with it, for the requests *)
(* about one pod: the early returns, the pre-activities that may hold a    *)
(* disruption back and the annotation that tells their owner, the budget   *)
(* and its lock, the probe, and the code of the response.                  *)
(*                                                                         *)
(* LeaseLock and Disruption look into the lock and the budget; here they   *)
(* are seen as Handle sees them: a request has leases of the lock or none, *)
(* in one cluster or in all, and the verdict is any answer the service may *)
(* give.  Other writers of the pod (its owner, the kubelet, controllers)   *)
(* run at any time between two calls that Handle makes to the API server.  *)
(***************************************************************************)
EXTENDS Integers

CONSTANTS
  Request,       \* admission requests about the pod
  ServerDryRun,  \* the requests with dryRun set by the client
  DryRun,        \* the --dry-run flag of the controller
  Activity,      \* annotations for pre-activities an owner may put on the pod
  HasPendingDisruption,  \* the annotation that asks the owner to finish them
  UnlockFaults,  \* the requests whose Unlock may fail
  MaxVersion     \* bound: the other writers stop at this version of the pod

ASSUME WebhookAssumption ==
  /\ HasPendingDisruption \notin Activity
  /\ ServerDryRun \subseteq Request
  /\ DryRun \in BOOLEAN
  /\ UnlockFaults \subseteq Request
  /\ MaxVersion \in Nat

VARIABLES
  pod,     \* the pod in the API server
  cache,   \* the pod in the controller's informer cache
  xpdbs,   \* what GetXPdbsForPod finds for the pod
  holders, \* the requests that have a lease of the budget's lock in some cluster
  passed,  \* the requests whose Lock has succeeded
  pc,      \* pc[r]: how far Handle has come with request r
  snap,    \* snap[r]: the pod as request r has decoded it
  answer   \* answer[r]: the response to request r

wvars == <<pod, cache, xpdbs, holders, passed, pc, snap, answer>>

Status  == {"running", "deleting", "disruptionTarget", "nodeLost"}
Annotation == Activity \cup {HasPendingDisruption}
PodObject == [status : Status, annotations : SUBSET Annotation, version : Nat]
Budgets == {"none", "one", "suspended", "many"}
Pc      == {"start", "preactivities", "xpdbs", "lock", "budget", "probe", "unlock", "reply", "done"}
Code    == {"allowed", "forbidden", "tooManyRequests", "internalError"}

WInit ==
  /\ pod \in {[status |-> "running", annotations |-> as, version |-> 0] : as \in SUBSET Activity}
  /\ cache = pod
  /\ xpdbs \in Budgets
  /\ holders = {}
  /\ passed = {}
  /\ pc = [r \in Request |-> "start"]
  /\ snap = [r \in Request |-> pod]
  /\ answer = [r \in Request |-> "none"]

-----------------------------------------------------------------------------
\* A variant of Response that gives no code of its own.
ResponseWithoutDefault(allowed, errorCode) ==
  IF allowed THEN "allowed" ELSE errorCode

\* admissionResponse: without an error code, and always under --dry-run, the
\* code is that of a ValidationResponse.
Response(allowed, errorCode) ==
  IF allowed THEN "allowed"
  ELSE IF DryRun \/ errorCode = "none" THEN "forbidden" ELSE errorCode

Continue(r, next) ==
  /\ pc' = [pc EXCEPT ![r] = next]
  /\ UNCHANGED answer

Respond(r, allowed, errorCode) ==
  /\ pc' = [pc EXCEPT ![r] = "reply"]
  /\ answer' = [answer EXCEPT ![r] = Response(allowed, errorCode)]

\* A variant of ReleaseAndDeny that forgets the lock.
DenyOnly(r, errorCode) == Respond(r, FALSE, errorCode)

\* handleError and handleNotAllowedDisruption once a budget is involved: the
\* lock is released before the response is sent.
ReleaseAndDeny(r, errorCode) ==
  /\ pc' = [pc EXCEPT ![r] = "unlock"]
  /\ answer' = [answer EXCEPT ![r] = Response(FALSE, errorCode)]

\* getDisruptionTargetCondition, podHasNodeLostReason, deletionTimestamp: such a
\* pod is let go without any check.
Ignored(p) == p.status # "running"

\* decodePod: the object the kube-apiserver sent along, or for an eviction the
\* one in the cache.  An error allows the disruption.
DecodePod(r) ==
  /\ pc[r] = "start"
  /\ \/ /\ snap' \in {[snap EXCEPT ![r] = p] : p \in {pod, cache}}
        /\ IF Ignored(snap'[r]) THEN Respond(r, TRUE, "none") ELSE Continue(r, "preactivities")
     \/ /\ Respond(r, TRUE, "none")
        /\ UNCHANGED snap
  /\ UNCHANGED <<pod, cache, xpdbs, holders, passed>>

\* A variant of NoConflict: an Update without a resourceVersion.
Unconditional(r) == TRUE

GetPendingPreactivities(p) == p.annotations \cap Activity

\* The API server's version check on the Update of the pod.
NoConflict(r) == snap[r].version = pod.version

\* setPendingDisruptionAnnotationOnPod writes the whole decoded object; the
\* version changes only if the object does.
Annotated(r) ==
  LET written == snap[r].annotations \cup {HasPendingDisruption}
  IN  [status |-> pod.status,
       annotations |-> written,
       version |-> IF written = pod.annotations THEN pod.version ELSE pod.version + 1]

\* A variant of CheckPreactivities that only logs a failed Update.
CheckPreactivitiesLogOnly(r) ==
  /\ pc[r] = "preactivities"
  /\ \/ /\ GetPendingPreactivities(snap[r]) = {}
        /\ Continue(r, "xpdbs")
        /\ UNCHANGED pod
     \/ /\ GetPendingPreactivities(snap[r]) # {}
        /\ pod' = IF NoConflict(r) THEN Annotated(r) ELSE pod
        /\ Respond(r, FALSE, "tooManyRequests")
  /\ UNCHANGED <<cache, xpdbs, holders, passed, snap>>

\* preactivities.CanPodBeDisrupted: pending activities deny the disruption, and
\* the annotation asks for them to be finished; it is an error if the pod cannot
\* be updated.
CheckPreactivities(r) ==
  /\ pc[r] = "preactivities"
  /\ \/ /\ GetPendingPreactivities(snap[r]) = {}
        /\ Continue(r, "xpdbs")
        /\ UNCHANGED pod
     \/ /\ GetPendingPreactivities(snap[r]) # {}
        /\ NoConflict(r)
        /\ pod' = Annotated(r)
        /\ Respond(r, FALSE, "tooManyRequests")
     \/ /\ GetPendingPreactivities(snap[r]) # {}
        /\ Respond(r, FALSE, "none")
        /\ UNCHANGED pod
  /\ UNCHANGED <<cache, xpdbs, holders, passed, snap>>

\* GetXPdbsForPod and the cases Handle makes of its result; the list may fail.
GetXPdbsForPod(r) ==
  /\ pc[r] = "xpdbs"
  /\ \/ Respond(r, FALSE, "none")
     \/ xpdbs \in {"none", "suspended"} /\ Respond(r, TRUE, "none")
     \/ xpdbs = "many" /\ Respond(r, FALSE, "internalError")
     \/ xpdbs = "one" /\ Continue(r, "lock")
  /\ UNCHANGED <<pod, cache, xpdbs, holders, passed, snap>>

\* lockService.Lock.  All requests here are about one pod and lock the same
\* clusters, the local one first: a lease that another of them has makes Lock
\* fail.  So does a lease of a request about another pod, in any cluster, and an
\* error.  When Lock fails nothing is released: a request that a remote cluster
\* has refused keeps its local lease.
Lock(r) ==
  /\ pc[r] = "lock"
  /\ \/ /\ holders = {}
        /\ holders' = {r}
        /\ passed' = passed \cup {r}
        /\ Continue(r, "budget")
     \/ /\ holders' \in {holders, holders \cup {r}}
        /\ UNCHANGED passed
        /\ Respond(r, FALSE, "none")
  /\ UNCHANGED <<pod, cache, xpdbs, snap>>

\* pdbService.CanPodBeDisrupted; the probe is next if the budget has one that is
\* enabled, and otherwise the disruption is accepted and the lock left alone.
CheckBudget(r) ==
  /\ pc[r] = "budget"
  /\ \/ Respond(r, TRUE, "none")
     \/ Continue(r, "probe")
     \/ ReleaseAndDeny(r, "tooManyRequests")
     \/ ReleaseAndDeny(r, "none")
  /\ UNCHANGED <<pod, cache, xpdbs, holders, passed, snap>>

\* disruptionProbeService.CanPodBeDisrupted.
CheckProbe(r) ==
  /\ pc[r] = "probe"
  /\ \/ Respond(r, TRUE, "none")
     \/ ReleaseAndDeny(r, "tooManyRequests")
     \/ ReleaseAndDeny(r, "none")
  /\ UNCHANGED <<pod, cache, xpdbs, holders, passed, snap>>

\* lockService.Unlock: an error is logged and the response is the same; leases
\* are left then in the clusters it has not come to.
Unlock(r) ==
  /\ pc[r] = "unlock"
  /\ \/ holders' = holders \ {r}
     \/ r \in UnlockFaults /\ UNCHANGED holders
  /\ pc' = [pc EXCEPT ![r] = "reply"]
  /\ UNCHANGED <<pod, cache, xpdbs, passed, snap, answer>>

Handle(r) ==
  \/ DecodePod(r)
  \/ CheckPreactivities(r)
  \/ GetXPdbsForPod(r)
  \/ Lock(r)
  \/ CheckBudget(r)
  \/ CheckProbe(r)
  \/ Unlock(r)

-----------------------------------------------------------------------------
\* The kube-apiserver acts on the response: an allowed request deletes the pod,
\* unless it is a dry run or something else stops it.
Reply(r) ==
  /\ pc[r] = "reply"
  /\ pc' = [pc EXCEPT ![r] = "done"]
  /\ \/ /\ answer[r] = "allowed"
        /\ r \notin ServerDryRun
        /\ pod.status # "deleting"
        /\ pod' = [pod EXCEPT !.status = "deleting", !.version = @ + 1]
     \/ UNCHANGED pod
  /\ UNCHANGED <<cache, xpdbs, holders, passed, snap, answer>>

\* The leases of a request that is over run out.
Expire(r) ==
  /\ r \in holders
  /\ pc[r] = "done"
  /\ holders' = holders \ {r}
  /\ UNCHANGED <<pod, cache, xpdbs, passed, pc, snap, answer>>

\* Another writer changes the pod.
Write(p) ==
  /\ pod.version < MaxVersion
  /\ pod' = [p EXCEPT !.version = pod.version + 1]
  /\ UNCHANGED <<cache, xpdbs, holders, passed, pc, snap, answer>>

AddActivity(a) == a \notin pod.annotations /\ Write([pod EXCEPT !.annotations = @ \cup {a}])

FinishActivity(a) == a \in pod.annotations /\ Write([pod EXCEPT !.annotations = @ \ {a}])

ChangeStatus(s) == pod.status = "running" /\ s # "running" /\ Write([pod EXCEPT !.status = s])

\* The informer catches up.
Sync ==
  /\ cache # pod
  /\ cache' = pod
  /\ UNCHANGED <<pod, xpdbs, holders, passed, pc, snap, answer>>

\* An operator creates, suspends or deletes budgets.
Reconfigure ==
  /\ xpdbs' \in Budgets \ {xpdbs}
  /\ UNCHANGED <<pod, cache, holders, passed, pc, snap, answer>>

WNext ==
  \/ \E r \in Request : Handle(r) \/ Reply(r) \/ Expire(r)
  \/ \E a \in Activity : AddActivity(a) \/ FinishActivity(a)
  \/ \E s \in Status : ChangeStatus(s)
  \/ Sync
  \/ Reconfigure

WSpec == WInit /\ [][WNext]_wvars

-----------------------------------------------------------------------------
\* Type correctness; and every response has a code that admissionResponse gave.
WTypeOK ==
  /\ pod \in PodObject
  /\ cache \in PodObject
  /\ xpdbs \in Budgets
  /\ holders \subseteq Request
  /\ passed \subseteq Request
  /\ pc \in [Request -> Pc]
  /\ snap \in [Request -> PodObject]
  /\ answer \in [Request -> Code \cup {"none"}]
  /\ \A r \in Request : pc[r] \in {"unlock", "reply", "done"} => answer[r] # "none"

\* A decoded pod, or the cached one, is the current one if its version is: what
\* makes the Update of a whole object safe.
SameVersionSamePod(p) ==
  /\ p.version <= pod.version
  /\ p.version = pod.version => p = pod

VersionsInv ==
  /\ SameVersionSamePod(cache)
  /\ \A r \in Request : SameVersionSamePod(snap[r])

\* How far Handle has come determines what it has done.
ProgressInv ==
  \A r \in Request :
    /\ pc[r] \in {"start", "preactivities"} => answer[r] = "none"
    /\ pc[r] \in {"xpdbs", "lock", "budget", "probe"} => GetPendingPreactivities(snap[r]) = {}
    /\ pc[r] \in {"start", "preactivities", "xpdbs", "lock"} => r \notin holders \cup passed

\* What makes the safety properties below inductive.
WebhookInv == VersionsInv /\ ProgressInv

\* setPendingDisruptionAnnotationOnPod writes back all annotations it has
\* decoded, from a cache that may lag and while the owner works on them: Handle
\* never revives a pre-activity that was finished, nor drops one that was added.
AnnotationsSurvive ==
  [][pc' # pc => GetPendingPreactivities(pod') = GetPendingPreactivities(pod)]_wvars

Announced == HasPendingDisruption \in pod.annotations

\* A caller that is told to try again later because of pre-activities can rely
\* on their owner having been asked to finish them, whoever wrote the pod since.
PendingAnnounced ==
  \A r \in Request :
    answer[r] = "tooManyRequests" /\ GetPendingPreactivities(snap[r]) # {} => Announced

\* A request that had the lock and is refused does not keep others waiting for
\* five seconds: on every way out of Handle after Lock, by a verdict or by an
\* error of the budget or of the probe, its leases have been released when the
\* response is sent, and stay so.  (One that fails in Lock may leave some behind.)
RefusalReleasesLock ==
  \A r \in passed \ UnlockFaults :
    pc[r] \in {"reply", "done"} /\ answer[r] # "allowed" => r \notin holders

\* "sideEffects: None" (webhooks.yaml): handling a request that is itself a dry
\* run leaves the pod and the lock as they are.
ServerDryRunHasNoEffect ==
  [][\A r \in ServerDryRun : pc'[r] # pc[r] => pod' = pod /\ holders' = holders]_wvars
=============================================================================
