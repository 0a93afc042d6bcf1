----------------------------- MODULE Disruption -----------------------------
(***************************************************************************)
(* The disruption decision on top of the lock: the part of the webhook's   *)
(* Handle between decoding the pod and the response, CanPodBeDisrupted of  *)
(* internal/pdb with its remote GetState calls, and the pods it is about.  *)
(*                                                                         *)
(* One XPodDisruptionBudget is modelled, whose selector matches Pod.  A    *)
(* pod stands for a replica of a workload: the same name comes back after  *)
(* it has been disrupted.  Every action of LeaseLock is taken over, either *)
(* as it is or together with its effect on the decision.                   *)
(*                                                                         *)
(* Counts are kept as the sets of pods they count: clusters have disjoint  *)
(* pods, so the sums of CanPodBeDisrupted are the cardinalities.           *)
(***************************************************************************)
EXTENDS LeaseLock, FiniteSets

CONSTANTS
  Pod,                  \* the pods selected by the budget, in all clusters
  PodCluster,           \* PodCluster[p]: the cluster pod p runs in
  Target,               \* Target[h]: the pod request h wants to disrupt
  UseMaxUnavailable,    \* whether the budget sets maxUnavailable
  Limit,                \* the number in maxUnavailable or minAvailable
  ProbeConfigured,      \* whether the budget names a disruption probe
  CandidateMayRecover,  \* whether a candidate may become ready meanwhile
  Involuntary           \* whether pods may become unready on their own

ASSUME PodAssumption ==
  /\ IsFiniteSet(Pod)
  /\ PodCluster \in [Pod -> Cluster]
  /\ Target \in [Handler -> Pod]
  /\ \A h \in Handler : PodCluster[Target[h]] = Home[h]

ASSUME BudgetAssumption ==
  /\ UseMaxUnavailable \in BOOLEAN
  /\ Limit \in Nat
  /\ ProbeConfigured \in BOOLEAN
  /\ CandidateMayRecover \in BOOLEAN
  /\ Involuntary \in BOOLEAN

VARIABLES
  pod,       \* pod[p]: the state of pod p in its cluster
  view,      \* view[h]: readiness of the candidate when request h was decoded
  counted,   \* counted[h]: the clusters whose counts request h has
  healthy,   \* healthy[h]: the pods those counts include as healthy
  expected   \* expected[h]: the replicas those counts include as expected

dvars == <<pod, view, counted, healthy, expected>>
allVars == <<vars, dvars>>

PodState == {"ready", "unready", "terminating", "gone"}

PodsOf(c) == {p \in Pod : PodCluster[p] = c}

\* A variant of CountHealthy that counts pods that are being deleted.
CountHealthyDeleted(c) == {p \in PodsOf(c) : pod[p] \in {"ready", "terminating"}}

\* countHealthyPods: listed, not being deleted, and ready.
CountHealthy(c) == {p \in PodsOf(c) : pod[p] = "ready"}

\* FindExpectedScale: controllers are found through the pods that exist, so a
\* workload without a pod object contributes nothing.
FindExpectedScale(c) == IF \E p \in PodsOf(c) : pod[p] # "gone" THEN PodsOf(c) ELSE {}

DInit ==
  /\ Init
  /\ pod \in [Pod -> {"ready", "unready"}]
  /\ view = [h \in Handler |-> "none"]
  /\ counted = [h \in Handler |-> {}]
  /\ healthy = [h \in Handler |-> {}]
  /\ expected = [h \in Handler |-> {}]

-----------------------------------------------------------------------------
\* A variant of Decode without the early return for pods being deleted.
DecodeDeleted(h) ==
  /\ hpc[h] = "idle"
  /\ view[h] = "none"
  /\ pod[Target[h]] # "gone"
  /\ view' = [view EXCEPT ![h] = pod[Target[h]]]
  /\ UNCHANGED <<vars, pod, counted, healthy, expected>>

\* decodePod: the pod as the kube-apiserver sent it with a DELETE, or as the
\* cache has it for an eviction; how long ago that was is left open.  A pod that
\* is gone or being deleted does not reach the lock.
Decode(h) ==
  /\ hpc[h] = "idle"
  /\ view[h] = "none"
  /\ pod[Target[h]] \in {"ready", "unready"}
  /\ view' = [view EXCEPT ![h] = pod[Target[h]]]
  /\ UNCHANGED <<vars, pod, counted, healthy, expected>>

\* A variant of EnterLock that does not take the lock.
EnterUnlocked(h) ==
  /\ view[h] # "none"
  /\ hpc[h] = "idle"
  /\ Goto(h, "locked")
  /\ UNCHANGED <<now, lease, op, start, dvars>>

\* Handle asks for the lock.
EnterLock(h) ==
  /\ view[h] # "none"
  /\ BeginLock(h)
  /\ UNCHANGED dvars

\* getRemotePodCounts asks all endpoints at once, and only when all of them have
\* answered are the local pods counted.
MayCount(h, c) ==
  \/ c \in Remote(h)
  \/ c = Home[h] /\ Remote(h) \subseteq counted[h]

\* A variant of Count that starts while the lock is being taken.
CountEarly(h, c) ==
  /\ hpc[h] \in {"localLock", "remoteLock", "locked"}
  /\ c \notin counted[h]
  /\ MayCount(h, c)
  /\ counted' = [counted EXCEPT ![h] = @ \cup {c}]
  /\ healthy' = [healthy EXCEPT ![h] = @ \cup CountHealthy(c)]
  /\ expected' = [expected EXCEPT ![h] = @ \cup FindExpectedScale(c)]
  /\ UNCHANGED <<vars, pod, view>>

\* GetPodCounts in cluster c: one list of its pods.
Count(h, c) ==
  /\ hpc[h] = "locked"
  /\ c \notin counted[h]
  /\ MayCount(h, c)
  /\ counted' = [counted EXCEPT ![h] = @ \cup {c}]
  /\ healthy' = [healthy EXCEPT ![h] = @ \cup CountHealthy(c)]
  /\ expected' = [expected EXCEPT ![h] = @ \cup FindExpectedScale(c)]
  /\ UNCHANGED <<vars, pod, view>>

DesiredHealthy(h) ==
  IF UseMaxUnavailable THEN Cardinality(expected[h]) - Limit ELSE Limit

\* A candidate that is not ready was not counted, so disrupting it costs nothing.
HealthyCompensation(h) == IF view[h] = "ready" THEN 0 ELSE 1

\* A variant of DisruptionAllowed that forgets the candidate itself.
DisruptionAllowedOneMore(h) ==
  Cardinality(healthy[h]) + HealthyCompensation(h) >= DesiredHealthy(h)

DisruptionAllowed(h) ==
  Cardinality(healthy[h]) + HealthyCompensation(h) - 1 >= DesiredHealthy(h)

\* Handle's verdict is positive, and so is the probe's if there is one.
Accept(h) ==
  /\ counted[h] = LockSet(h)
  /\ DisruptionAllowed(h)
  /\ Admit(h)
  /\ UNCHANGED dvars

\* The budget or the probe says no, or one of the calls failed.
Refuse(h) ==
  /\ \/ counted[h] = LockSet(h) /\ (~ DisruptionAllowed(h) \/ ProbeConfigured)
     \/ h \in Faults
  /\ Reject(h)
  /\ UNCHANGED dvars

\* The kube-apiserver deletes or evicts the pod.
Apply(h) ==
  /\ Disrupt(h)
  /\ pod' = IF pod[Target[h]] \in {"ready", "unready"}
              THEN [pod EXCEPT ![Target[h]] = "terminating"] ELSE pod
  /\ UNCHANGED <<view, counted, healthy, expected>>

-----------------------------------------------------------------------------
\* The pods' own life: kubelets and workload controllers.
Undecided(h) == view[h] # "none" /\ hpc[h] \notin Terminal

BecomeReady(p) ==
  /\ pod[p] = "unready"
  /\ CandidateMayRecover \/ \A h \in Handler : Undecided(h) => Target[h] # p
  /\ pod' = [pod EXCEPT ![p] = "ready"]
  /\ UNCHANGED <<vars, view, counted, healthy, expected>>

BecomeUnready(p) ==
  /\ Involuntary
  /\ pod[p] = "ready"
  /\ pod' = [pod EXCEPT ![p] = "unready"]
  /\ UNCHANGED <<vars, view, counted, healthy, expected>>

Terminate(p) ==
  /\ pod[p] = "terminating"
  /\ pod' = [pod EXCEPT ![p] = "gone"]
  /\ UNCHANGED <<vars, view, counted, healthy, expected>>

Recreate(p) ==
  /\ pod[p] = "gone"
  /\ pod' = [pod EXCEPT ![p] = "unready"]
  /\ UNCHANGED <<vars, view, counted, healthy, expected>>

\* Steps of the lock that the decision does not depend on.
LockStep ==
  /\ \/ \E h \in Handler : HandlerStep(h) \/ Abort(h) \/ \E c \in Cluster : OpStep(h, c) \/ OpError(h, c)
     \/ Tick
     \/ Quiescent
  /\ UNCHANGED dvars

DNext ==
  \/ \E h \in Handler :
       \/ Decode(h)
       \/ EnterLock(h)
       \/ \E c \in Cluster : Count(h, c)
       \/ Accept(h)
       \/ Refuse(h)
       \/ Apply(h)
  \/ \E p \in Pod : BecomeReady(p) \/ BecomeUnready(p) \/ Terminate(p) \/ Recreate(p)
  \/ LockStep

DSpec == DInit /\ [][DNext]_allVars

-----------------------------------------------------------------------------
Healthy == {p \in Pod : pod[p] = "ready"}

\* The number of pods the budget asks for, whatever the counts say.
Required == IF UseMaxUnavailable THEN Cardinality(Pod) - Limit ELSE Limit

\* Type correctness; and no request about a pod that was gone or being deleted
\* when it was decoded gets past Handle's early return.
DTypeOK ==
  /\ pod \in [Pod -> PodState]
  /\ view \in [Handler -> {"none", "ready", "unready"}]
  /\ counted \in [Handler -> SUBSET Cluster]
  /\ healthy \in [Handler -> SUBSET Pod]
  /\ expected \in [Handler -> SUBSET Pod]

\* The decisions are serial: no verdict counts as healthy a pod that an earlier
\* verdict has already given away.  This is the race that leaving the lease in
\* place after an accepted disruption is there to prevent.
CountsAreCurrent ==
  \A h \in Handler : hpc[h] \in Window =>
    \A p \in healthy[h] : pod[p] \notin {"terminating", "gone"}

(***************************************************************************)
(* The inductive invariant behind the theorems about the decision, one     *)
(* conjunct per idea.                                                      *)
(***************************************************************************)
\* A request that asks for the lock has decoded its candidate.
DecodedInv ==
  \A h \in Handler : hpc[h] # "idle" => view[h] # "none"

\* One that has not returned from Lock has counted nothing.
EarlyInv ==
  \A h \in Handler : hpc[h] \in {"idle", "localLock", "remoteLock"} => healthy[h] = {}

\* A request is only ever admitted on counts that allow it.
AcceptedInv ==
  \A h \in Handler : hpc[h] = "admitted" => DisruptionAllowed(h)

\* Counts lag behind the pods only in pods that became ready since.
CountedInv ==
  ~ Involuntary => \A h \in Handler : hpc[h] \in Window => healthy[h] \subseteq Healthy

\* A candidate that looked unready still is.
CandidateInv ==
  ~ CandidateMayRecover =>
    \A h \in Handler : Undecided(h) /\ view[h] = "unready" => pod[Target[h]] # "ready"

\* Together: a decision that CanPodBeDisrupted took a while ago is still good
\* when the kube-apiserver acts on it.
DecisionInv ==
  /\ DecodedInv
  /\ EarlyInv
  /\ AcceptedInv
  /\ CountedInv
  /\ CandidateInv

\* Pods that no request is about: they may be unready, but they exist.
Untouched == Pod \ {Target[h] : h \in Handler}

\* Every request counts every cluster that has pods, and the workload there keeps
\* a pod object throughout.
Staffed ==
  \A p \in Pod :
    /\ \A h \in Handler : PodCluster[p] \in LockSet(h)
    /\ \E q \in Untouched : PodCluster[q] = PodCluster[p]

\* What the counts of a Staffed instance expect: all replicas of the clusters that
\* have been counted, and of all clusters once the request is admitted.
ScaleInv ==
  /\ \A p \in Untouched : pod[p] \in {"ready", "unready"}
  /\ \A h \in Handler, p \in Pod : PodCluster[p] \in counted[h] => p \in expected[h]
  /\ \A h \in Handler : hpc[h] = "admitted" => counted[h] = LockSet(h)

Abstract == INSTANCE AtomicBudget WITH healthy <- Healthy

\* The distributed decision implements the atomic one: a pod only stops being
\* available by a disruption that the budget, looked at in that very instant,
\* allows.
ImplementsAtomicBudget == Abstract!Spec

\* "An eviction is allowed if at least minAvailable pods selected by selector
\* will still be available after the eviction", and likewise for maxUnavailable:
\* no disruption of an available pod leaves fewer pods than the budget requires.
DisruptionKeepsBudget ==
  [][Healthy \subseteq Healthy' \/ Cardinality(Healthy') >= Required]_allVars
=============================================================================
