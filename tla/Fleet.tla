------------------------------- MODULE Fleet --------------------------------
(***************************************************************************)
(* Several clusters, each with XPodDisruptionBudgets of its own: which     *)
(* budget a request falls under (GetXPdbsForPod and Handle's cases), which *)
(* lease it locks (createLeaseNameForSelector), what the remote clusters   *)
(* make of the selector they are sent (internal/converters), and the       *)
(* verdict (BudgetVerdict), while operators edit and suspend budgets.      *)
(*                                                                         *)
(* LeaseLock models one lease and how it is won in the presence of time,   *)
(* faults and races; here a lease is won in one step, there are as many of *)
(* them as there are names, a lease outlives its request as long as        *)
(* LeaseLock!Timely says, and calls between clusters do not fail.  A       *)
(* selector is a record [labels, exprs]: a set of key/value pairs and Nil  *)
(* or a sequence of [key, op, values].                                     *)
(***************************************************************************)
EXTENDS BudgetVerdict, Sequences, FiniteSets

CONSTANTS
  Cluster, Request, Pod,
  Home,         \* Home[r]: the cluster whose webhook reviews request r
  Endpoints,    \* Endpoints[c]: the remote clusters that c is configured with
  PodCluster,   \* PodCluster[p]: the cluster pod p runs in
  Namespace,    \* Namespace[p]: its namespace
  Labels,       \* Labels[p]: its labels, a set of key/value pairs
  Target,       \* Target[r]: the pod request r wants to disrupt
  Configs,      \* the sets of budgets an operator may put in a cluster
  MaxEdits,     \* how many times operators change a cluster's budgets
  Nil,          \* a nil slice
  NoBudget      \* the budget of a request that falls under none

ASSUME FleetAssumption ==
  /\ Home \in [Request -> Cluster]
  /\ Endpoints \in [Cluster -> SUBSET Cluster]
  /\ PodCluster \in [Pod -> Cluster]
  /\ Target \in [Request -> Pod]
  /\ \A r \in Request : PodCluster[Target[r]] = Home[r]
  /\ IsFiniteSet(Pod)
  /\ MaxEdits \in Nat

\* Two webhooks have a cluster in common that both lock: with every cluster
\* configured with all others, any of them.
ASSUME SharedClusterAssumption ==
  \A q, r \in Request :
    \E c \in Cluster : /\ c \in {Home[q]} \cup Endpoints[Home[q]]
                       /\ c \in {Home[r]} \cup Endpoints[Home[r]]

\* The selectors that the API server accepts.
ASSUME SelectorAssumption ==
  \A S \in Configs : \A b \in S :
    \/ b.selector.exprs = Nil
    \/ b.selector.exprs \in Seq([key : STRING, op : STRING, values : Seq(STRING)])

\* The counts and the limits that decide are int32, and limits are not negative.
ASSUME LimitAssumption ==
  /\ Cardinality(Pod) < Half
  /\ \A S \in Configs : \A b \in S : \A n \in 0 .. Cardinality(Pod) :
       LimitInvalid(b) \/ Sensible(Effective(b), n)

VARIABLES
  pod,        \* pod[p]: "ready", "unready" or "terminating"
  budgets,    \* budgets[c]: the XPodDisruptionBudgets in cluster c
  edits,      \* how many times an operator has edited them
  leases,     \* the unexpired leases: [cluster, name, holder]
  pc,         \* pc[r]: where Handle is with request r
  view,       \* view[r]: the candidate's readiness as it was decoded
  budget,     \* budget[r]: the budget request r falls under
  answered,   \* answered[r]: the clusters that have answered Lock
  locked,     \* locked[r]: the clusters that answered that the lock is taken
  counted,    \* counted[r]: the clusters whose pods have been counted
  healthy,    \* healthy[r]: the pods counted as healthy
  expected    \* expected[r]: the pods counted as expected

worldVars == <<pod, budgets, edits>>
countVars == <<counted, healthy, expected>>
fleetVars == <<pod, budgets, edits, leases, pc, view, budget, answered, locked,
               counted, healthy, expected>>

Terminal == {"done", "refused"}

\* Between the lock and the effect of the decision on the pod.
Window == {"count", "admitted"}

-----------------------------------------------------------------------------
\* The converters of internal/converters.  In the protocol's form of a selector
\* a requirement's key and operator are optional: <<>> when absent.

ConvertLabelSelectorRequirementToState(q) ==
  [key |-> <<q.key>>, op |-> <<q.op>>, values |-> q.values]

ConvertLabelSelectorToState(s) ==
  [labels |-> s.labels,
   exprs |-> IF s.exprs = Nil THEN <<>>
             ELSE [i \in DOMAIN s.exprs |->
                     ConvertLabelSelectorRequirementToState(s.exprs[i])]]

ConvertLabelSelectorRequirementToMetaV1(q) ==
  [key |-> IF q.key = <<>> THEN "" ELSE q.key[1],
   op |-> IF q.op = <<>> THEN "" ELSE q.op[1],
   values |-> q.values]

\* A variant that loses the match expressions.
ToMetaV1LabelsOnly(s) == [labels |-> s.labels, exprs |-> <<>>]

ConvertLabelSelectorToMetaV1(s) ==
  [labels |-> s.labels,
   exprs |-> [i \in DOMAIN s.exprs |->
                ConvertLabelSelectorRequirementToMetaV1(s.exprs[i])]]

\* The selector a cluster works with: its own, or the one that was sent.
SelectorAt(r, c, s) ==
  IF c = Home[r] THEN s ELSE ConvertLabelSelectorToMetaV1(ConvertLabelSelectorToState(s))

\* LabelSelectorAsSelector(s).Matches: all labels and all expressions.
Satisfies(q, l) ==
  LET values == {q.values[i] : i \in DOMAIN q.values}
      has == {kv \in l : kv[1] = q.key}
  IN CASE q.op = "In" -> \E kv \in has : kv[2] \in values
       [] q.op = "NotIn" -> \A kv \in has : kv[2] \notin values
       [] q.op = "Exists" -> has # {}
       [] q.op = "DoesNotExist" -> has = {}
       [] OTHER -> FALSE

Matches(s, l) ==
  /\ s.labels \subseteq l
  /\ s.exprs = Nil \/ \A i \in DOMAIN s.exprs : Satisfies(s.exprs[i], l)

\* LabelSelector.String(): the labels sorted, the expressions in their order; a
\* nil slice prints like an empty one.
Text(s) == <<s.labels, IF s.exprs = Nil THEN <<>> ELSE s.exprs>>

\* createLeaseNameForSelector; the hash of namespace and text has no collisions.
LeaseName(namespace, s) == <<namespace, Text(s)>>

-----------------------------------------------------------------------------
\* GetXPdbsForPod: the budgets of the pod's cluster and namespace that match it.
GetXPdbsForPod(p) ==
  {b \in budgets[PodCluster[p]] :
     b.namespace = Namespace[p] /\ Matches(b.selector, Labels[p])}

\* getPodsMatchingSelector in cluster c.
PodsMatching(c, namespace, s) ==
  {p \in Pod : PodCluster[p] = c /\ Namespace[p] = namespace /\ Matches(s, Labels[p])}

LockSet(r) == {Home[r]} \cup Endpoints[Home[r]]

\* The name of the lease that request r locks in cluster c.
LeaseAt(r, c) ==
  LeaseName(budget[r].namespace, SelectorAt(r, c, budget[r].selector))

Held(c, n) == \E l \in leases : l.cluster = c /\ l.name = n

FInit ==
  /\ pod \in [Pod -> {"ready", "unready"}]
  /\ budgets \in [Cluster -> Configs]
  /\ edits = 0
  /\ leases = {}
  /\ pc = [r \in Request |-> "idle"]
  /\ view = [r \in Request |-> "none"]
  /\ budget = [r \in Request |-> NoBudget]
  /\ answered = [r \in Request |-> {}]
  /\ locked = [r \in Request |-> {}]
  /\ counted = [r \in Request |-> {}]
  /\ healthy = [r \in Request |-> {}]
  /\ expected = [r \in Request |-> {}]

Goto(r, l) == pc' = [pc EXCEPT ![r] = l]

\* decodePod; a pod being deleted is let go without a review.
Decode(r) ==
  /\ pc[r] = "idle"
  /\ pod[Target[r]] \in {"ready", "unready"}
  /\ view' = [view EXCEPT ![r] = pod[Target[r]]]
  /\ Goto(r, "decoded")
  /\ UNCHANGED <<worldVars, leases, budget, answered, locked, countVars>>

\* No budget matches, or the one that does is suspended: Handle lets the pod go
\* without the lock.
Bypass(r) ==
  /\ pc[r] = "decoded"
  /\ \/ GetXPdbsForPod(Target[r]) = {}
     \/ \E b \in GetXPdbsForPod(Target[r]) : GetXPdbsForPod(Target[r]) = {b} /\ b.suspend
  /\ Goto(r, "admitted")
  /\ UNCHANGED <<worldVars, leases, view, budget, answered, locked, countVars>>

\* More than one budget matches: an invalid configuration, answered with a 500.
Conflict(r) ==
  /\ pc[r] = "decoded"
  /\ Cardinality(GetXPdbsForPod(Target[r])) > 1
  /\ Goto(r, "refused")
  /\ UNCHANGED <<worldVars, leases, view, budget, answered, locked, countVars>>

\* Exactly one budget matches: it is the one the review is about from here on,
\* whatever operators do to it.
Protect(r) ==
  /\ pc[r] = "decoded"
  /\ \E b \in GetXPdbsForPod(Target[r]) :
       /\ GetXPdbsForPod(Target[r]) = {b}
       /\ ~ b.suspend
       /\ budget' = [budget EXCEPT ![r] = b]
  /\ Goto(r, "lock")
  /\ UNCHANGED <<worldVars, leases, view, answered, locked, countVars>>

\* The own cluster is locked first; the remote ones, all at once, only after it.
MayAsk(r, c) ==
  /\ c \in LockSet(r) \ answered[r]
  /\ c # Home[r] => Home[r] \in locked[r]

\* Cluster c answers Lock: it creates the lease, or reports that it is held.
Lock(r, c) ==
  /\ pc[r] = "lock"
  /\ MayAsk(r, c)
  /\ answered' = [answered EXCEPT ![r] = @ \cup {c}]
  /\ \/ /\ Held(c, LeaseAt(r, c))
        /\ UNCHANGED <<leases, locked>>
     \/ /\ ~ Held(c, LeaseAt(r, c))
        /\ leases' = leases \cup {[cluster |-> c, name |-> LeaseAt(r, c), holder |-> r]}
        /\ locked' = [locked EXCEPT ![r] = @ \cup {c}]
  /\ UNCHANGED <<worldVars, pc, view, budget, countVars>>

\* Lock has returned without an error.
Locked(r) ==
  /\ pc[r] = "lock"
  /\ locked[r] = LockSet(r)
  /\ Goto(r, "count")
  /\ UNCHANGED <<worldVars, leases, view, budget, answered, locked, countVars>>

\* Lock has returned an error: the local lease was held, or all endpoints have
\* answered and one of them refused.  Handle leaves what was locked to expire.
LockFailed(r) ==
  /\ pc[r] = "lock"
  /\ \/ answered[r] = {Home[r]} /\ locked[r] = {}
     \/ answered[r] = LockSet(r) /\ locked[r] # LockSet(r)
  /\ Goto(r, "refused")
  /\ UNCHANGED <<worldVars, leases, view, budget, answered, locked, countVars>>

\* GetPodCounts in cluster c; the local one comes after the remote ones.  A pod
\* is the one replica of its workload, and stays until its replacement comes.
Count(r, c) ==
  LET found == PodsMatching(c, budget[r].namespace, SelectorAt(r, c, budget[r].selector))
  IN /\ pc[r] = "count"
     /\ c \in LockSet(r) \ counted[r]
     /\ c = Home[r] => Endpoints[c] \ {c} \subseteq counted[r]
     /\ counted' = [counted EXCEPT ![r] = @ \cup {c}]
     /\ healthy' = [healthy EXCEPT ![r] = @ \cup {p \in found : pod[p] = "ready"}]
     /\ expected' = [expected EXCEPT ![r] = @ \cup found]
     /\ UNCHANGED <<worldVars, leases, pc, view, budget, answered, locked>>

Verdict(r) ==
  /\ ~ LimitInvalid(budget[r])
  /\ DisruptionAllowed(budget[r], view[r] = "ready",
                       Cardinality(expected[r]), Cardinality(healthy[r]))

Accept(r) ==
  /\ pc[r] = "count"
  /\ counted[r] = LockSet(r)
  /\ Verdict(r)
  /\ Goto(r, "admitted")
  /\ UNCHANGED <<worldVars, leases, view, budget, answered, locked, countVars>>

\* The budget does not allow it, or its limit is not a number: handleError and
\* handleNotAllowedDisruption unlock everywhere.
Refuse(r) ==
  /\ pc[r] = "count"
  /\ counted[r] = LockSet(r)
  /\ ~ Verdict(r)
  /\ leases' = {l \in leases :
                  ~ (l.holder = r /\ l.cluster \in LockSet(r) /\ l.name = LeaseAt(r, l.cluster))}
  /\ Goto(r, "refused")
  /\ UNCHANGED <<worldVars, view, budget, answered, locked, countVars>>

\* The kube-apiserver acts on the response.
Apply(r) ==
  /\ pc[r] = "admitted"
  /\ pod' = [pod EXCEPT ![Target[r]] = "terminating"]
  /\ Goto(r, "done")
  /\ UNCHANGED <<budgets, edits, leases, view, budget, answered, locked, countVars>>

\* A lease expires once its request is over.
Expire(l) ==
  /\ pc[l.holder] \in Terminal
  /\ leases' = leases \ {l}
  /\ UNCHANGED <<worldVars, pc, view, budget, answered, locked, countVars>>

-----------------------------------------------------------------------------
\* A pod comes up, or its replacement does; not while its own disruption is
\* under review (Disruption looks at a candidate that recovers meanwhile).
BecomeReady(p) ==
  /\ pod[p] # "ready"
  /\ \A r \in Request : Target[r] = p => pc[r] \in {"idle"} \cup Terminal
  /\ pod' = [pod EXCEPT ![p] = "ready"]
  /\ UNCHANGED <<budgets, edits, leases, pc, view, budget, answered, locked, countVars>>

\* An operator creates, deletes, changes, suspends or resumes budgets.
Edit(c) ==
  /\ edits < MaxEdits
  /\ edits' = edits + 1
  /\ \E S \in Configs : budgets' = [budgets EXCEPT ![c] = S]
  /\ UNCHANGED <<pod, leases, pc, view, budget, answered, locked, countVars>>

\* Every request has been answered.
FQuiescent ==
  /\ \A r \in Request : pc[r] \in Terminal
  /\ UNCHANGED fleetVars

FNext ==
  \/ \E r \in Request :
       \/ Decode(r) \/ Bypass(r) \/ Conflict(r) \/ Protect(r)
       \/ \E c \in Cluster : Lock(r, c) \/ Count(r, c)
       \/ Locked(r) \/ LockFailed(r) \/ Accept(r) \/ Refuse(r) \/ Apply(r)
  \/ \E l \in leases : Expire(l)
  \/ \E p \in Pod : BecomeReady(p)
  \/ \E c \in Cluster : Edit(c)
  \/ FQuiescent

FSpec == FInit /\ [][FNext]_fleetVars

-----------------------------------------------------------------------------
LeaseOf(r) == LeaseName(budget[r].namespace, budget[r].selector)

\* The pods that request r's budget is about.
Selected(r) ==
  {p \in Pod : /\ PodCluster[p] \in LockSet(r)
               /\ Namespace[p] = budget[r].namespace
               /\ Matches(budget[r].selector, Labels[p])}

\* The requests that request r's lock does not hold up: those that were let go
\* without a review, and those whose budget is written with another selector.
Outsider(r) ==
  {q \in Request \ {r} : budget[q] = NoBudget \/ LeaseOf(q) # LeaseOf(r)}

\* Type correctness.
FTypeOK ==
  /\ pod \in [Pod -> {"ready", "unready", "terminating"}]
  /\ budgets \in [Cluster -> Configs]
  /\ edits \in 0..MaxEdits
  /\ \A l \in leases : l.cluster \in Cluster /\ l.holder \in Request
  /\ pc \in [Request -> {"idle", "decoded", "lock"} \cup Window \cup Terminal]
  /\ view \in [Request -> {"none", "ready", "unready"}]
  /\ budget \in [Request -> (UNION Configs) \cup {NoBudget}]
  /\ answered \in [Request -> SUBSET Cluster]
  /\ locked \in [Request -> SUBSET Cluster]
  /\ counted \in [Request -> SUBSET Cluster]
  /\ healthy \in [Request -> SUBSET Pod]
  /\ expected \in [Request -> SUBSET Pod]

\* "The lock is valid for a specific namespace/selector combination"
\* (docs/index.md): two requests whose budgets have the same namespace and the
\* same selector are never both between the lock and the disruption, whichever
\* clusters they come from, although one of the two selectors has been through
\* the state protocol and back, and whatever operators do to the budgets.
SameSelectorExcludes ==
  \A q, r \in Request :
    /\ q # r
    /\ pc[q] \in Window /\ budget[q] # NoBudget
    /\ pc[r] \in Window /\ budget[r] # NoBudget
    => LeaseOf(q) # LeaseOf(r)

(***************************************************************************)
(* The inductive invariant behind SameSelectorExcludes.                    *)
(***************************************************************************)
\* A lease has one holder.
UniqueInv ==
  \A k, l \in leases : k.cluster = l.cluster /\ k.name = l.name => k.holder = l.holder

\* Every answer of Lock that a review relies on stands for a lease that is
\* still there.
BackedInv ==
  \A r \in Request : pc[r] \in {"lock"} \cup Window =>
    \A c \in locked[r] : [cluster |-> c, name |-> LeaseAt(r, c), holder |-> r] \in leases

\* Nothing is locked before a budget is found, and everything once Lock is over.
ProgressInv ==
  \A r \in Request :
    /\ pc[r] \in {"idle", "decoded"} => locked[r] = {} /\ budget[r] = NoBudget
    /\ pc[r] \in Window => budget[r] = NoBudget \/ locked[r] = LockSet(r)

\* Pod p is still available, or an outsider has taken it.
Accounted(r, p) ==
  pod[p] = "ready" \/ \E q \in Outsider(r) : Target[q] = p /\ pc[q] = "done"

\* Before the lock nothing is counted.
EarlyOf(r) ==
  pc[r] \in {"idle", "decoded", "lock"} =>
    counted[r] = {} /\ healthy[r] = {} /\ expected[r] = {}

\* A candidate that looked unready still is, and is not counted as healthy.
CandidateOf(r) ==
  pc[r] \in {"decoded", "lock"} \cup Window /\ view[r] # "ready" =>
    pod[Target[r]] # "ready" /\ Target[r] \notin healthy[r]

\* What a review has counted is about the pods of its budget, and what it has
\* counted as healthy still is, but for what outsiders have taken since.
ReviewOf(r) ==
  pc[r] \in Window /\ budget[r] # NoBudget =>
    /\ counted[r] \subseteq LockSet(r)
    /\ expected[r] = {p \in Selected(r) : PodCluster[p] \in counted[r]}
    /\ healthy[r] \subseteq expected[r]
    /\ \A p \in healthy[r] : Accounted(r, p)
    /\ pc[r] = "admitted" => counted[r] = LockSet(r) /\ Verdict(r)

CountsOf(r) == EarlyOf(r) /\ CandidateOf(r) /\ ReviewOf(r)

\* This is so for every review.
CountsInv == \A r \in Request : CountsOf(r)

\* The locks of all reviews, whatever their budgets, are accounted for.
FleetInv == UniqueInv /\ BackedInv /\ ProgressInv

\* A review that locks or counts has a budget, and one that ended in a verdict
\* against the disruption still has it and the counts behind the verdict.
ReasonOf(r) ==
  /\ pc[r] \in {"lock", "count"} => budget[r] \in UNION Configs
  /\ pc[r] = "refused" /\ counted[r] = LockSet(r) => budget[r] \in UNION Configs /\ ~ Verdict(r)

ReasonInv == \A r \in Request : ReasonOf(r)

\* What the API says of minAvailable and maxUnavailable, for a fleet in which
\* every cluster has its own budgets: when a reviewed disruption takes effect,
\* the pods that are left keep the budget it was reviewed under, but for the
\* pods that outsiders have taken since they were counted.
ReviewedDisruptionKeepsBudget ==
  [][\A r \in Request :
       pc[r] = "admitted" /\ pc'[r] = "done" /\ budget[r] # NoBudget =>
         LET taken == {Target[q] : q \in Outsider(r)} \cap healthy[r]
             left == {p \in Selected(r) : pod'[p] = "ready" \/ p \in taken \ {Target[r]}}
         IN KeepsBudget(budget[r], Cardinality(Selected(r)), Cardinality(left))]_fleetVars

\* A review that refuses a disruption has a reason in the budget: on the counts
\* it was given, the disruption would have broken it.
RefusalIsJustified ==
  \A r \in Request :
    pc[r] = "refused" /\ counted[r] = LockSet(r) /\ ~ LimitInvalid(budget[r]) =>
      ~ KeepsBudget(budget[r], Cardinality(expected[r]),
                    Cardinality(healthy[r]) - (IF view[r] = "ready" THEN 1 ELSE 0))

(***************************************************************************)
(* The leases of one name as the lock that AtomicLock describes, which is  *)
(* also what LeaseLock implements in the presence of time and faults.      *)
(***************************************************************************)
Names == {LeaseName(b.namespace, b.selector) : b \in UNION Configs}

PhaseFor(n, r) ==
  IF pc[r] \in Terminal THEN "after"
  ELSE IF pc[r] \in Window /\ budget[r] # NoBudget /\ LeaseOf(r) = n THEN "inside" ELSE "before"

HoldsFor(n, r) ==
  {c \in Cluster :
     pc[r] \notin Terminal /\ [cluster |-> c, name |-> n, holder |-> r] \in leases}

LockOf(n) ==
  INSTANCE AtomicLock WITH
    Needs <- [r \in Request |-> LockSet(r)],
    phase <- [r \in Request |-> PhaseFor(n, r)],
    holds <- [r \in Request |-> HoldsFor(n, r)]

\* Every lease name is a lock of its own, which a review enters when all of its
\* clusters have granted it under that name, although the remote ones have made
\* the name from a converted selector and budgets are edited meanwhile.
EveryNameIsALock ==
  /\ \A n \in Names : LockOf(n)!Init
  /\ [][\A n \in Names : UNCHANGED LockOf(n)!lockVars \/ LockOf(n)!Next]_fleetVars
=============================================================================
