# x-pdb in TLA+

x-pdb is a PodDisruptionBudget that spans clusters.  A validating webhook in
every cluster is asked before a pod is evicted or deleted; it takes a lock in
all clusters, counts the healthy pods everywhere, and lets the disruption happen
or not.  This directory holds TLA+ models of that protocol, the TLC runs that
check them on small instances, and proofs for all instances.

## The system

| Part | State | Operations | Talks to |
|------|-------|------------|----------|
| admission webhook (`internal/webhooks`) | none; one goroutine per request | `Handle` | all services below, kube-apiserver |
| lock service (`internal/lock`) | one `Lease` per (namespace, selector) and cluster | `Lock`, `Unlock`, `LocalLock`, `LocalUnlock` | API server, remote state servers |
| state server (`internal/state/server`) | a gRPC server and its handlers | `Start`, `Lock`, `Unlock`, `GetState` | lock service, budget service |
| state client pool (`internal/state/client`) | cached gRPC clients, certificate watchers | `Get` | remote state servers |
| budget service (`internal/pdb/service.go`) | none; pods are the API server's | `CanPodBeDisrupted`, `GetPodCounts`, `GetXPdbsForPod` | API server, remote state servers |
| expected scale (`internal/pdb/scale.go`) | none | `FindExpectedScale` | API server |
| pre-activities (`internal/preactivities`) | annotations on the pod | `CanPodBeDisrupted` | API server |
| disruption probe (`internal/disruptionprobe`) | cached gRPC clients | `CanPodBeDisrupted` | user's probe |
| converters (`internal/converters`) | none | selectors to the state protocol and back | |
| process (`cmd/controller`) | the manager's runnables, the exit status | `main`, `parseEndpoints` | all of the above |

What makes it hard: requests in several clusters run at once; every step is a
call over a network that may fail, time out, or take effect after its caller has
given up; the lock is released by nobody after an accepted disruption and has to
run out by itself, neither too early nor never; the pod that the verdict is about
was read before the lock was taken; every cluster has budgets of its own, which
operators edit and suspend during a review; processes stop while calls from other
clusters are under way; and other controllers write the same objects.

## Modules

| Module | Models |
|--------|--------|
| `LeaseLock` | the lock: every API call of `LocalLock` and `LocalUnlock`, both fan-outs, the way `Handle` uses them, faults and time |
| `AtomicLock` | what the callers of the lock rely on: a lock taken cluster by cluster, each in one step |
| `Disruption` | extends `LeaseLock` by the pods, the counts and the verdict of `CanPodBeDisrupted` |
| `AtomicBudget` | the promise: one authority that sees all pods and takes one away in one step |
| `ExpectedScale` | `FindExpectedScale`, lookup by lookup, with a cache that lags and workloads that change |
| `Webhook` | the control flow of `Handle`: early returns, pre-activities, budgets, lock, probe, response codes; what the kube-apiserver and other writers do |
| `BudgetVerdict` | the arithmetic of `disruptionAllowed`: percentages, rounding, int32, no limit or both |
| `Fleet` | extends `BudgetVerdict` by clusters with budgets of their own: which budget applies, which lease it names, which pods it selects, through the state protocol and back |
| `ClientPools` | `Get` and `newClient` of both client pools, the mutex, certificate files, and the life of the watchers that `newClient` starts |
| `StateServer` | the life of a process and of `Server.Start`: set-up, `Serve`, signals, graceful stop, exit status |
| `Controller` | composes `ClientPools` of one process with `StateServer` of another: calls, connections, deadlines, `parseEndpoints` |
| `MCLeaseLock`, `MCDisruption`, `MCExpectedScale`, `MCWebhook`, `MCFleet`, `MCController` | instances for TLC |
| `LeaseLockProofs`, `LeaseStepProofs`, `LockContractProofs` | theorems about `LeaseLock` |
| `DisruptionProofs` | about `Disruption` |
| `ExpectedScaleProofs` | about `ExpectedScale` |
| `FleetProofs`, `FleetBudgetProofs` | about `Fleet` (locks, then verdicts) and `BudgetVerdict` |
| `ProcessProofs` | about `Webhook` and `Controller`, the parts of one process |

**LeaseLock.**  One lease name.  `lease[c]` is the Lease object in cluster `c`,
`hpc[h]` how far admission request `h` has come, `op[h][c]` the `LocalLock` or
`LocalUnlock` call it has in cluster `c` (directly, or through the state server
there).  A request's holder identity has a fresh UUID and a request writes a
lease at most once, so the holder also stands for the object's version: the
`Update` of a takeover conflicts exactly when the holder has changed since the
`Get`.  `Create`, `Get`, `Update` and `Delete` are separate steps; so are the
pick-up of a remote request and the return of a fan-out.  `OpError` fails a call
without effect.  `Abort` ends a request (crash, timeout, lost answer) while its
calls go on; a call that took effect although its caller saw an error is an
`Abort` after the effect.  Time is a discrete clock; a replica reads it with an
error of up to `MaxSkew`.

**AtomicLock.**  `phase[r]` is "before", "inside" or "after", `holds[r]` the
clusters that request `r` has locked.  `Acquire` takes a cluster that nobody
has, `Enter` needs all of them, and only the holder gives a cluster back
(`Leave`, `Release`).  Both models of the lock implement it.  In `LeaseLock`
(`ImplementsAtomicLock`) a request holds a cluster while the call that has won
the lease, or that gives it back, is not over and the request or one of its
calls is still in progress; a lease that its dead request has left behind is
held by nobody, and that it is not taken over early is what
`TakeoverOnlyExpired` adds.  In `Fleet` (`EveryNameIsALock`) there is one such
lock per lease name.

**Disruption.**  Each request has a candidate pod in its own cluster.  `Decode`
reads its readiness before the lock is taken, `Count` lists one cluster (all
remote ones, in any order, then the local one), `Accept` and `Refuse` are the
verdict, `Apply` is what the kube-apiserver then does.  Pods terminate, come back
and become ready at any time.  Counts are kept as sets of pods; clusters have
disjoint pods, so sums are cardinalities.  `FindExpectedScale` has one workload
per cluster, found only through pods that exist, as in the code.

**ExpectedScale.**  The listed pods are the sequence of their controllers.  Every
lookup of a finder is a step of its own and reads `cache[u]`, or fails, which the
finders take for NotFound; the scale subresource reads `live[u]`.  A controller
is its UID, so an object that was recreated under the same name is not found.
`missed` records that some lookup in the cache did not give the live state.

**Webhook.**  Requests about one pod.  The lock and the verdict are seen from
outside: `holders` are the requests with a lease in some cluster, `passed` those
whose `Lock` has succeeded, the verdict is any answer.  A `Lock` that fails,
because of another request or of an error, may leave leases behind, as in the
code, and so may an `Unlock` that fails (`UnlockFaults`); leases of requests that
are over run out (`Expire`).  In exchange the module has what the other two leave
out: the object a request has decoded (sent along or from a lagging cache), its
version, the annotations, other writers, the number of matching budgets, the
response code.  An `Update` that changes nothing leaves the version alone.

**BudgetVerdict.**  No state.  A limit is a number, a percentage or another
string; `Wrap` is int32 addition with `Half` for 2^31, so that a small `Half`
puts the edge of the range within TLC's reach.  `DisruptionAllowed` follows the
code (the desired number, the compensation for an unready candidate, the
comparison); `KeepsBudget` is what the comments on the API fields promise.

**Fleet.**  The other half of the picture that `LeaseLock` and `Disruption` take
at one lease and one budget.  `budgets[c]` are the XPodDisruptionBudgets in
cluster `c`, and `Edit` replaces them at any time.  `Decode`, `Bypass`,
`Conflict` and `Protect` are the cases of `Handle` up to `Lock`; `Lock` and
`Count` do one cluster each; `Accept`, `Refuse` and `Apply` follow.  Remote
clusters see the selector after `ConvertLabelSelectorToMetaV1` of
`ConvertLabelSelectorToState`, and both the lease name and the pods that are
counted come from what they see.  Winning a lease is one step and a lease stays
as long as its request is under way: that is `AtomicLock`, which `LockIsAtomic`
proves of `LeaseLock` under `Timely` and `EveryNameLocks` of the leases of each
name here.  Calls between clusters do not fail.  The hash in a lease
name is taken to have no collisions: the name is the namespace and the text.  A
pod is the one replica of its workload.

**ClientPools, StateServer, Controller.**  A caller calls `Get` once, so a client
is named after the caller that made it, and so is the certificate watcher of a
state client.  `Get` takes the mutex, and reading the key pair, reading the CA and
storing the client are separate steps between which files on disk come and go.
The watcher is a goroutine of its own (`watch[c]`): it adds its watches some time
after the pair was loaded (`AddWatches`) or gives up (`GiveUp`), loads the pair
again upon an event (`HandleEvent`) and may lose its watch then.  `stale` are the
watchers that have loaded another pair than the one on disk, `quiet` those without
an event since they watch.  A watcher whose `newClient` failed later stays, as in
the code.  The state server uses a watcher in the same way; it is not modelled a
second time.  `StateServer` has the steps of `Start`, the
goroutine around `Serve`, its `select`, the part of the manager that `main`
relies on (external), handlers that may hang, and exits.  In `Controller` a call
reaches the server over a connection that the client has or that `Serve` still
accepts; it ends with the handler's answer or with the caller's deadline,
whichever comes first, and the handler goes on regardless.

## What is checked

| Run | Instance | Shows |
|-----|----------|-------|
| `lock_timely` | 2 clusters, 3 requests, faults, lease 2, work 1 | mutual exclusion; the leases stay with their holder from `Lock` to the visible disruption; `Unlock` frees only its own lease; refinement of `AtomicLock`; the inductive invariant |
| `lock_recovery` | 2 requests, one hit by faults, work not bounded by the lease | no takeover before the deadline; every step takes a request forward, what it waits for is under way, and every request is answered; an unopposed request is never turned away; left-over leases never block an unopposed request after their deadline |
| `budget` | 3 pods, `minAvailable` 2, a request in each cluster, faults | refinement of `AtomicBudget`; no verdict counts a pod already given away |
| `budget_retry` | 2 pods, two requests about the same pod of which the first may fail, failing pods, recovering candidates, a probe | a retry that races with the first attempt counts no pod already given away |
| `expected_scale` | a Deployment with two ReplicaSets, a ReplicaSet, a StatefulSet with two pods, an unmanaged pod; any of them missing in the cache, one change during the call | every workload of a steady state is counted once; no managed pod is left out; nothing is counted that no listed pod leads to, and a ReplicaSet is counted next to its Deployment only after a failed or stale lookup; the call returns |
| `webhook` | 2 requests, one whose `Unlock` may fail, 2 activities | no annotation is lost or revived; "later" implies the owner has been asked; every refusal of a request that got past `Lock` has released its leases, unless its `Unlock` failed |
| `fleet` | 2 clusters, 3 pods, 2 requests, 8 configurations (percentages, numbers, both limits, a limit that is no number, two budgets, a suspended one, four selectors of which two have the same text), one edit, int32 of 3 bits | requests whose budgets have the same selector exclude each other; the leases of each name are an `AtomicLock`; a reviewed disruption keeps its budget, but for pods that others take under another lock or none; a refusal after counting has its reason in the budget |
| `controller` | 2 callers, a shared state endpoint, a probe, an unusable endpoint, any files and one change of them, a handler that may hang, four values of the flag | one client per endpoint; a state client has a watcher, and while that watches and has no event to handle the client has the pair on disk, unless the pair was replaced between its loading and the watch and not since; the mutex of a pool is never left behind; a clean exit cuts no handler off; every call returns; a stopping process exits; a state server that cannot start is fatal |

Two questions have no run of their own because a theorem answers them for all
instances: mutual exclusion with skewed clocks and incomplete endpoint lists
(`LockIsExclusive`, for every `MaxSkew` and every topology with a cluster in
common; the runs have no skew), and the refinement of `AtomicBudget` for
`maxUnavailable` (`ImplementsBudget`, for workloads that keep a pod object).

Four runs show the code doing something a comment or document rules out:

| Run | Documented | The code |
|-----|------------|----------|
| `unlock_foreign` | "Frees a lock on the local cluster if the lease identity matches" (`proto/state/v1/state.proto`) | `LocalUnlock` tests the identity in a `Get` and deletes by name later; if the lease expires and is taken over in between, the new holder's lease goes. Needs work that outlasts the lease; `UnlockIsOwn` proves it cannot happen otherwise |
| `candidate_recovers` | `minAvailable` pods "will still be available after the eviction" (API types) | a candidate that becomes ready between decoding and counting is counted and compensated for |
| `max_unavailable_gone` | "at most maxUnavailable pods ... are unavailable after the eviction" (API types) | a workload without a pod object for a moment is expected to have no replica |
| `server_dry_run` | `sideEffects: None` (`charts/x-pdb/templates/webhooks.yaml`) | a dry-run request takes the lock and annotates the pod |

Some remarks without a run.  The comment on `Handle` says that a pod that cannot
be disrupted gets "a HTTP status code 429"; losing the race for the lock gives
403.  The flag `--dry-run` promises a mode "which never rejects a voluntary
disruption"; `admissionResponse` returns the real verdict, only with another
code.  When the cache does not have a new ReplicaSet yet, `FindExpectedScale`
counts it by its scale subresource, next to its Deployment; `CountsNothingTwice`
says that this is the only way to a double count.  A watcher that gives up, or
loses its watch, is only logged: its client, which stays in the pool for good, goes
on with the pair it has.  Every `Get` that fails after `certwatcher.New` leaves a
watcher behind.  When `Serve` fails,
`Start` receives the error from the channel but returns the `err` of its own
scope, which is nil: the manager forgets the server, the process goes on without
it, and at the end nobody waits for its handlers.  No comment or document speaks
of that case; `EveryCallReturns` shows that callers survive it, and
`CleanExitFinishesCalls` excepts it.  An endpoint listed twice in
`--remote-endpoints` stays twice, and the second `Lock` of a request would meet
its own first one.  Clusters that word a selector differently take different
locks, so their requests count at the same time; `docs/configuring-xpdb.md` calls
remote budgets irrelevant, and `ReviewedDisruptionKeepsBudget` says exactly which
pods such a review may be wrong about.

### Bounds

`MaxTime` stops the clock, `MaxVersion` the other writers of the pod,
`MaxChanges` the changes to workloads, `MaxEdits` the edits of budgets and
`MaxFileChanges` the changes of certificate files; they are large enough for a
lease to be written, to expire and to be taken over, for the pod to change
before and after each call of a request, for a workload to go between any two
lookups, for a budget to change between any two steps of a review, and for the
files to appear, go or be replaced between any two steps of `newClient` and of a
watcher.  `controller` has one such change, from any initial files; sequences of
changes, such as a pair that is unreadable at one event and readable at the next,
are covered by the proof of `WatchedClientsAreCurrent`.  `Half` is 4 for three
pods: the smallest int32 that holds the counts, so that any overflow would
show.  A request runs once; a retry is another request.  Two clusters have all
the asymmetry there is (local and remote); three requests allow a taker, a
competing taker and a late releaser. The bounds appear as constants in the
theorems, which hold for all their values.

### Time

`MaxWork` bounds how long a request *and the calls it has left behind* are in
progress: `Tick` waits for them.  The condition `Timely`, `MaxWork + 2 * MaxSkew
< LeaseDuration`, is what the comment on `LeaseDurationSeconds` asks of the five
seconds.  Nothing in the code enforces it (the state server's `Unlock` has no
deadline), so it is an explicit hypothesis of every theorem that needs it, and
`lock_recovery` and `unlock_foreign` do without it.

### Fairness

`LeaseLock`: weak fairness of the steps a running goroutine takes by itself, of
the verdict, of the API calls it has made (each either answers or fails: their
contexts have deadlines or the server answers) and of time.  Nothing obliges a
caller to send a request, an owner to finish an activity, or a fault to happen.
`ExpectedScale`: weak fairness of the call itself, for the same reason; the cache
need never catch up.  `Controller`: weak fairness of the steps of `Get`, of the
deadline of a call (every call to a state server or probe is made with one), of
`Start` and the manager, and of handlers other than those in `HangCall`.  Nothing
obliges a file to appear, `Serve` to fail or a signal to be sent.  `Webhook` and
`Fleet` have safety properties only.

## What is proved

All proofs are checked by TLAPS for arbitrary sets of clusters, requests and
pods, any topology, lease duration, skew and bounds.

`LeaseLockProofs`: `TypeCorrect`; and under `Timely`, `LockInvariant`,
`WindowIsLocked` and `LockIsExclusive`, which also needs `SharedCluster`: any
two requests lock some cluster in common.  `LeaseStepProofs`, what a step may
never do to a lease: `UnlockIsOwn` and `AdmittedStays` under `Timely`, and
`TakeoverIsLate` without any condition on time, from `VersioningInv`, the part
of the invariant that says that a version is never mistaken for another and that
a matching `Update` meets an expired lease.  The same module proves the part of
the lock's liveness that is safety, with no condition on time either.
`OnlyForward`: along a ranking of the places of requests and calls
(`HandlerRank`, `OpRank`) no step goes back, and every step but a tick of the
clock goes forward. `NobodyHangs`: every call a request waits for has been made,
and is under way or has come back with an answer to the question it waits
about.  `UnopposedGetsTheLock`: as long as a request meets only expired leases,
no competitor and no fault, no step turns it away. With the fairness of
`FairSpec`, which the prover cannot use, these three are why
`EveryRequestAnswered` and `ExpiredLocksHeal` hold.

Mutual exclusion is not inductive.  `LockInv` adds where the calls of a request
can be (`PhaseInv`), that it is not older than `MaxWork` (`TimeInv`), that the
time it stamps on a lease is not older than itself (`StampInv`), that it holds
the leases it has written (`OwnInv`), that holders have written their lease, so a
version is never mistaken for another (`VersionInv`), and that an `Update` about
to succeed meets an expired lease (`TakeoverInv`).  The argument: a lease stamped
after the start of a request that is at most `MaxWork` old is, by `Timely`, not
expired on any clock; so no pending `Update` matches it; so it is still the
request's; so the `Delete` that follows, conditional or not, meets its own lease.

`LockContractProofs`: `LockIsAtomic`, the refinement of `AtomicLock` under
`Timely`.  Every step of a call or of a request is classified by what it does to
the lock (`LockMove`): nothing, one cluster more, entering, or giving back.  That
a cluster is free when it is granted follows from `LockInv` (`GrantIsFree`); that a
request enters with all of its clusters and that calls of `Unlock` are made only
by requests that have left follows from `PhaseInv`, `NoWaitInVain` and `CallsInv`,
that a request has calls only in the clusters of its lock.

`DisruptionProofs`: every step of `Disruption` is a step of `LeaseLock`
(`Simulation`), which brings the lock's invariant along.  `DecisionsStayGood`
proves the inductive `DecisionInv` and `DecisionsAreSerial` from it
`CountsAreCurrent`, for every setting of the environment.  `BudgetIsKept` proves
the documented budget itself (`DisruptionKeepsBudget`), which
`candidate_recovers` and `max_unavailable_gone` violate, under exactly the
hypotheses that exclude those two; `ImplementsBudget` proves the refinement of
`AtomicBudget` when candidates do not recover while their request is under way
and only disruptions make pods unavailable; for `maxUnavailable` also when every
cluster is counted and its workload keeps a pod object (`Staffed`), from which
`ScaleInv` follows: the expected scale is the whole one.  Without the first
hypothesis it is false (`candidate_recovers`), and so it is without `Staffed`
(`max_unavailable_gone`); the second is what "voluntary" means.

`ExpectedScaleProofs`: `ScaleTypeCorrect`, `EveryPodIsCounted`,
`SumOverWorkloads`, `NothingIsCountedTwice`.  `FinderInv` says which finder is at work
for which kind of controller, `PassedInv` that every managed pod the loop has
passed is accounted for, `ExactInv` that while nothing changes and nothing is
missed the controllers found are the workloads of the pods passed, with their
live scale; the sum is then over the same function.  `TwiceInv` says that, as long
as no lookup has missed, a ReplicaSet of a Deployment is looked up by a later
finder only if it or its Deployment is gone, and so is counted by itself only without
the Deployment.

`FleetProofs`: `FleetTypeCorrect`; `SameSelectorIsExclusive`, from the conversion
round trip that keeps the text of a selector and an invariant that holders of a
lease have locked it (`FleetInv`); and `EveryNameLocks`, that the leases of every
name are an `AtomicLock`, for which a review that locks must have a configured
budget (`LockingInv`): only then do all of its clusters use one name.

`FleetBudgetProofs`: `VerdictIsTheBudget`, that the code's comparison is the
documented one for all counts and limits that fit an int32;
`FullBudgetYieldsOnlyToSurplus`, when a budget of 100% or of `maxUnavailable` 0,
which the API comments say prevents all evictions, allows one: exactly when as
many pods as expected are healthy without the candidate (unmanaged pods and those
of a surge are counted as healthy, and not as expected);
`ReviewsKeepBudgets`, from `CountsInv`, that a count stays right about every pod
but those of outsiders, together with `VerdictIsTheBudget`;
`RefusalsAreJustified`, from `ReasonInv`, that a review that has counted and
refused still has the counts and the budget behind its verdict.  Assumed of the
configuration: webhooks that lock a cluster in common, selectors the API server
accepts, limits that are not negative and fit an int32.

`ProcessProofs`, of `Webhook`: `WTypeCorrect`, `NoLostAnnotation`,
`LaterMeansAnnounced`, and `RefusalIsClean`, about the requests that got past `Lock`.
The invariant (`WebhookInv`) is that any copy of the pod with the current version is
the current pod, and what a request can have done when it has come so far.  Of
`Controller`: `ControllerTypeCorrect`, `ClientsAreShared`,
`WatchedClientsAreCurrent`, `MutexesAreReleased`, `CleanShutdown`; those about the
pools come from `ClientPools`, since every step of `Controller` is a step of it or
leaves the pools alone.  The types say
that no empty endpoint comes out of `parseEndpoints`; `FlagsAssumption` says that a
flag is a list of endpoints, blanks and empty parts.  `MutexInv` says that whoever
is in `newClient` holds the mutex of the pool, and that the endpoint has no client
yet; `WatcherInv` that the watcher of a client was started before it was stored;
`LoadedInv` what a watcher without an event to handle has loaded;
`ServerInv` that handlers run only while the server serves or drains.

Only model-checked: the liveness properties `EveryRequestAnswered`,
`ExpiredLocksHeal`, `CallReturns`, `EveryCallReturns`, `ShutdownEnds` and
`FailedStartIsFatal`: fairness is beyond the prover.

## Not modelled

Metrics, events and log lines, which nothing in the protocol reads; flags other
than `--remote-endpoints` and `--dry-run`; the TLS handshake and the contents of
certificates (their files being there or not is in `ClientPools`); the bytes of a
lease name and its hash; generated code (`pkg/proto`, deep copies); the test
applications, which are fixtures of the end-to-end tests.

What the models leave out on purpose.  `Fleet` takes the lock as `AtomicLock`
and calls as reliable; time and faults are in `LeaseLock`, which implements it.
`Webhook` takes lock and verdict from outside, so that its theorems about
annotations and response codes do not depend on them.  How far
`FindExpectedScale` can be off while the cache misses a controller is not
bounded by anything in the code.  Whether a caller that is told "later" comes
back is up to the caller, so no liveness of pre-activities is claimed.
