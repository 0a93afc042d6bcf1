------------------------------ MODULE LeaseLock ------------------------------
(***************************************************************************)
(* The multi-cluster disruption lock of x-pdb: internal/lock (Lock,        *)
(* Unlock, LocalLock, LocalUnlock and the remote fan-out), the Lock and    *)
(* Unlock handlers of the state server, and the way the admission webhook  *)
(* uses them.                                                              *)
(*                                                                         *)
(* One disruption lock is modelled: the Lease named after one (namespace,  *)
(* selector) pair, which exists at most once in every cluster.  A Handler  *)
(* is one admission request that reached CreateLeaseHolderIdentity; the    *)
(* identity carries a fresh UUID, so the request itself stands for it, and *)
(* a caller that retries is another Handler.                               *)
(*                                                                         *)
(* Every call to a Kubernetes API server is one atomic step of its own, so *)
(* all interleavings of the Create / Get / Update of LocalLock and of the  *)
(* Get / Delete of LocalUnlock are explored.  A request writes a given     *)
(* lease at most once, hence the holder identity found by a Get also       *)
(* stands for the resourceVersion (and UID) that the later Update sends:   *)
(* the Update conflicts exactly when the holder is no longer that one.     *)
(***************************************************************************)
EXTENDS Integers

CONSTANTS
  Cluster,        \* the Kubernetes clusters
  Handler,        \* the admission requests that try to take the lock
  Home,           \* Home[h] is the cluster whose webhook serves request h
  Endpoints,      \* Endpoints[c] is the --remote-endpoints list of cluster c
  None,           \* the holder of a lease that does not exist
  LeaseDuration,  \* lock.LeaseDurationSeconds, in ticks of the clock
  MaxSkew,        \* how far a clock of an x-pdb replica may be off
  MaxWork,        \* how long a request and its effects are in progress
  MaxTime,        \* bound: the clock stops here
  Faults          \* the requests that failing calls, crashes and timeouts may hit

ASSUME TopologyAssumption ==
  /\ None \notin Handler
  /\ Home \in [Handler -> Cluster]
  /\ Endpoints \in [Cluster -> SUBSET Cluster]
  /\ \A c \in Cluster : c \notin Endpoints[c]

ASSUME ClockAssumption ==
  /\ LeaseDuration \in Nat \ {0}
  /\ MaxSkew \in Nat
  /\ MaxWork \in Nat
  /\ MaxTime \in Nat
  /\ Faults \subseteq Handler

VARIABLES
  now,    \* true time
  lease,  \* lease[c]: the Lease object of the lock in cluster c
  hpc,    \* hpc[h]: how far the webhook handler of request h has come
  op,     \* op[h][c]: the LocalLock / LocalUnlock call that h has in cluster c
  start   \* start[h]: when request h entered Lock

vars == <<now, lease, hpc, op, start>>

Remote(h) == Endpoints[Home[h]]

LockSet(h) == {Home[h]} \cup Remote(h)

NoLease == [holder |-> None, acq |-> 0]

\* createLeaseForSelector: the holder, and the time from which the lease counts.
NewLease(h, t) == [holder |-> h, acq |-> t]

\* Values time.Now() may return on some replica when the true time is now.
Clock == (now - MaxSkew) .. (now + MaxSkew)

(***************************************************************************)
(* Program counters.  An operation in a remote cluster starts as a request *)
(* on its way ("rpc", "urpc") that the state server picks up.              *)
(***************************************************************************)
Locking   == {"rpc", "create", "get", "update"}
Unlocking == {"urpc", "uget", "delete"}
OpPc      == {"idle", "ok", "err", "uok", "uerr"} \cup Locking \cup Unlocking

Terminal  == {"refused", "disrupted"}
Window    == {"locked", "admitted"}
Running   == {"localLock", "remoteLock", "locked", "localUnlock", "remoteUnlock", "admitted"}
HandlerPc == {"idle"} \cup Running \cup Terminal

OpState   == [pc : OpPc, acq : Int, seen : Handler \cup {None}]

At(pc) == [pc |-> pc, acq |-> 0, seen |-> None]

\* Request h, or a call it has left behind in some cluster, is in progress.
Busy(h) ==
  \/ hpc[h] \in Running
  \/ \E c \in Cluster : op[h][c].pc \in Locking \cup Unlocking

SetOp(h, c, o) == op' = [op EXCEPT ![h][c] = o]

Goto(h, pc) == hpc' = [hpc EXCEPT ![h] = pc]

\* A variant of FanOut that leaves out the endpoints it has called before.
FanOutOnce(h, pc) ==
  op' = [op EXCEPT ![h] =
           [c \in Cluster |-> IF c \in Remote(h) /\ op[h][c].pc = "idle" THEN At(pc) ELSE op[h][c]]]

\* One RPC per remote endpoint, all at once.
FanOut(h, pc) ==
  op' = [op EXCEPT ![h] =
           [c \in Cluster |-> IF c \in Remote(h) THEN At(pc) ELSE op[h][c]]]

Init ==
  /\ now = 0
  /\ lease = [c \in Cluster |-> NoLease]
  /\ hpc = [h \in Handler |-> "idle"]
  /\ op = [h \in Handler |-> [c \in Cluster |-> At("idle")]]
  /\ start = [h \in Handler |-> 0]

(***************************************************************************)
(* LocalLock, in the home cluster or in a state server                     *)
(***************************************************************************)
\* Handle enters Lock; LocalLock builds the lease, reading the clock.
BeginLock(h) ==
  /\ hpc[h] = "idle"
  /\ Goto(h, "localLock")
  /\ \E t \in Clock : SetOp(h, Home[h], [At("create") EXCEPT !.acq = t])
  /\ start' = [start EXCEPT ![h] = now]
  /\ UNCHANGED <<now, lease>>

\* stateServer.Lock picks up the request and calls LocalLock.
ServeLock(h, c) ==
  /\ op[h][c].pc = "rpc"
  /\ \E t \in Clock : SetOp(h, c, [At("create") EXCEPT !.acq = t])
  /\ UNCHANGED <<now, lease, hpc, start>>

\* A variant of CreateLease: the lease is applied whether or not it exists.
ApplyLease(h, c) ==
  /\ op[h][c].pc = "create"
  /\ lease' = [lease EXCEPT ![c] = NewLease(h, op[h][c].acq)]
  /\ SetOp(h, c, At("ok"))
  /\ UNCHANGED <<now, hpc, start>>

\* client.Create of the lease; AlreadyExists leads to the Get.
CreateLease(h, c) ==
  /\ op[h][c].pc = "create"
  /\ \/ /\ lease[c].holder = None
        /\ lease' = [lease EXCEPT ![c] = NewLease(h, op[h][c].acq)]
        /\ SetOp(h, c, At("ok"))
     \/ /\ lease[c].holder # None
        /\ SetOp(h, c, At("get"))
        /\ UNCHANGED lease
  /\ UNCHANGED <<now, hpc, start>>

\* A variant of Expired that is one tick early.
ExpiredEarly(l, t) == l.acq + LeaseDuration <= t + 1

\* The negation of deadline.After(time.Now()).
Expired(l, t) == l.acq + LeaseDuration <= t

\* Variants of CanTakeOver: a lease that is gone counts as expired, the deadline
\* is not looked at, and its test is the wrong way round.
CanTakeOverMissing(l, t) == Expired(l, t)

CanTakeOverAny(l, t) == l.holder # None

CanTakeOverFresh(l, t) == l.holder # None /\ ~ Expired(l, t)

\* The lease read by the Get exists and may be taken over.
CanTakeOver(l, t) == l.holder # None /\ Expired(l, t)

\* reader.Get of the existing lease, and the test of its deadline.
GetLease(h, c) ==
  /\ op[h][c].pc = "get"
  /\ \E t \in Clock :
       SetOp(h, c, IF CanTakeOver(lease[c], t)
                     THEN [pc |-> "update", acq |-> t, seen |-> lease[c].holder]
                     ELSE At("err"))
  /\ UNCHANGED <<now, lease, hpc, start>>

\* A variant of SameVersion: an Update without a resourceVersion.
AnyVersion(h, c) == TRUE

\* The optimistic concurrency check of the API server on an Update.
SameVersion(h, c) == lease[c].holder = op[h][c].seen

\* A variant of UpdateLease that starts again after a conflict.
UpdateLeaseAgain(h, c) ==
  /\ op[h][c].pc = "update"
  /\ \/ /\ SameVersion(h, c)
        /\ lease' = [lease EXCEPT ![c] = NewLease(h, op[h][c].acq)]
        /\ SetOp(h, c, At("ok"))
     \/ /\ ~ SameVersion(h, c)
        /\ SetOp(h, c, [op[h][c] EXCEPT !.pc = "create"])
        /\ UNCHANGED lease
  /\ UNCHANGED <<now, hpc, start>>

\* client.Update of the expired lease; a conflict is an error.
UpdateLease(h, c) ==
  /\ op[h][c].pc = "update"
  /\ \/ /\ SameVersion(h, c)
        /\ lease' = [lease EXCEPT ![c] = NewLease(h, op[h][c].acq)]
        /\ SetOp(h, c, At("ok"))
     \/ /\ ~ SameVersion(h, c)
        /\ SetOp(h, c, At("err"))
        /\ UNCHANGED lease
  /\ UNCHANGED <<now, hpc, start>>

(***************************************************************************)
(* LocalUnlock, in the home cluster or in a state server                   *)
(***************************************************************************)
\* stateServer.Unlock picks up the request and calls LocalUnlock.
ServeUnlock(h, c) ==
  /\ op[h][c].pc = "urpc"
  /\ SetOp(h, c, At("uget"))
  /\ UNCHANGED <<now, lease, hpc, start>>

\* What LocalUnlock does next once its Get has answered: NotFound ends it with
\* success, another holder ends it with an error.
AfterUnlockGet(h, c) ==
  IF lease[c].holder = None THEN "uok"
  ELSE IF lease[c].holder = h THEN "delete" ELSE "uerr"

\* reader.Get of the lease.  An error other than NotFound is not looked at: the
\* identity test then compares the request with the lease object LocalUnlock
\* built itself, and the Delete follows.
UnlockGet(h, c) ==
  /\ op[h][c].pc = "uget"
  /\ \/ SetOp(h, c, At(AfterUnlockGet(h, c)))
     \/ h \in Faults /\ SetOp(h, c, At("delete"))
  /\ UNCHANGED <<now, lease, hpc, start>>

\* client.Delete, which carries no precondition: whatever lease has the name
\* is deleted; NotFound is an error.
UnlockDelete(h, c) ==
  /\ op[h][c].pc = "delete"
  /\ lease' = [lease EXCEPT ![c] = NoLease]
  /\ SetOp(h, c, At(IF lease[c].holder = None THEN "uerr" ELSE "uok"))
  /\ UNCHANGED <<now, hpc, start>>

(***************************************************************************)
(* The request's own control flow: Lock, the verdict, Unlock               *)
(***************************************************************************)
\* A variant of LocalLockFailed that releases the lock it did not get.
LocalLockFailedUnlocks(h) ==
  /\ hpc[h] = "localLock"
  /\ op[h][Home[h]].pc = "err"
  /\ Goto(h, "localUnlock")
  /\ SetOp(h, Home[h], At("uget"))
  /\ UNCHANGED <<now, lease, start>>

\* LocalLock returned an error: Lock fails and nothing is released.
LocalLockFailed(h) ==
  /\ hpc[h] = "localLock"
  /\ op[h][Home[h]].pc = "err"
  /\ Goto(h, "refused")
  /\ UNCHANGED <<now, lease, op, start>>

\* A variant of LocalLockDone that does not wait for the remote clusters.
LocalLockDoneAtOnce(h) ==
  /\ hpc[h] = "localLock"
  /\ op[h][Home[h]].pc = "ok"
  /\ Goto(h, "locked")
  /\ FanOut(h, "rpc")
  /\ UNCHANGED <<now, lease, start>>

\* LocalLock succeeded: call every remote endpoint, or return if there is none.
LocalLockDone(h) ==
  /\ hpc[h] = "localLock"
  /\ op[h][Home[h]].pc = "ok"
  /\ Goto(h, IF Remote(h) = {} THEN "locked" ELSE "remoteLock")
  /\ FanOut(h, "rpc")
  /\ UNCHANGED <<now, lease, start>>

\* remoteLock waits for all answers; every one must say Acquired.
RemoteLockDone(h) ==
  /\ hpc[h] = "remoteLock"
  /\ \A c \in Remote(h) : op[h][c].pc = "ok"
  /\ Goto(h, "locked")
  /\ UNCHANGED <<now, lease, op, start>>

\* Some endpoint did not acquire: Lock fails and the leases taken so far stay.
RemoteLockFailed(h) ==
  /\ hpc[h] = "remoteLock"
  /\ \A c \in Remote(h) : op[h][c].pc \in {"ok", "err"}
  /\ \E c \in Remote(h) : op[h][c].pc = "err"
  /\ Goto(h, "refused")
  /\ UNCHANGED <<now, lease, op, start>>

\* A variant of Admit: a deferred Unlock that also runs on acceptance.
AdmitAndUnlock(h) ==
  /\ hpc[h] = "locked"
  /\ Goto(h, "admitted")
  /\ SetOp(h, Home[h], At("uget"))
  /\ UNCHANGED <<now, lease, start>>

\* The disruption is acceptable: the lease is left in place while the
\* response is in flight.
Admit(h) ==
  /\ hpc[h] = "locked"
  /\ Goto(h, "admitted")
  /\ UNCHANGED <<now, lease, op, start>>

\* It is not, or the check failed: Unlock, the home cluster first.
Reject(h) ==
  /\ hpc[h] = "locked"
  /\ Goto(h, "localUnlock")
  /\ SetOp(h, Home[h], At("uget"))
  /\ UNCHANGED <<now, lease, start>>

\* LocalUnlock failed: Unlock returns at once, the remote leases stay.
LocalUnlockFailed(h) ==
  /\ hpc[h] = "localUnlock"
  /\ op[h][Home[h]].pc = "uerr"
  /\ Goto(h, "refused")
  /\ UNCHANGED <<now, lease, op, start>>

LocalUnlockDone(h) ==
  /\ hpc[h] = "localUnlock"
  /\ op[h][Home[h]].pc = "uok"
  /\ Goto(h, IF Remote(h) = {} THEN "refused" ELSE "remoteUnlock")
  /\ FanOut(h, "urpc")
  /\ UNCHANGED <<now, lease, start>>

\* A variant of RemoteUnlockReturned that waits for answers of failed calls.
RemoteUnlockWaits(h) ==
  /\ hpc[h] = "remoteUnlock"
  /\ \A c \in Remote(h) : op[h][c].pc = "uok"
  /\ Goto(h, "refused")
  /\ UNCHANGED <<now, lease, op, start>>

\* remoteUnlock waits for all answers; an error is only logged.
RemoteUnlockReturned(h) ==
  /\ hpc[h] = "remoteUnlock"
  /\ \A c \in Remote(h) : op[h][c].pc \in {"uok", "uerr"}
  /\ Goto(h, "refused")
  /\ UNCHANGED <<now, lease, op, start>>

\* The kube-apiserver acts on the admission response and the disruption is
\* visible to everyone who lists pods.
Disrupt(h) ==
  /\ hpc[h] = "admitted"
  /\ Goto(h, "disrupted")
  /\ UNCHANGED <<now, lease, op, start>>

(***************************************************************************)
(* Failures and time                                                       *)
(***************************************************************************)
\* A call fails without effect: an API server error, a cancelled context, a
\* lost request, a crashed state server.
OpError(h, c) ==
  /\ h \in Faults
  /\ op[h][c].pc \in Locking \cup {"urpc", "delete"}
  /\ SetOp(h, c, At(IF op[h][c].pc \in Locking THEN "err" ELSE "uerr"))
  /\ UNCHANGED <<now, lease, hpc, start>>

\* The request ends early while calls it made may still be running: the x-pdb
\* pod crashes, the webhook call times out, an RPC times out after two seconds
\* or its answer is lost; or the kube-apiserver drops an admitted disruption.
Abort(h) ==
  /\ h \in Faults
  /\ hpc[h] \in Running
  /\ Goto(h, "refused")
  /\ UNCHANGED <<now, lease, op, start>>

\* Time passes, but no request is in progress for more than MaxWork.
Tick ==
  /\ now < MaxTime
  /\ \A h \in Handler : Busy(h) => now < start[h] + MaxWork
  /\ now' = now + 1
  /\ UNCHANGED <<lease, hpc, op, start>>

\* Every request has been answered and no call is left: nothing more happens.
Quiescent ==
  /\ \A h \in Handler : hpc[h] \in Terminal /\ ~ Busy(h)
  /\ UNCHANGED vars

OpStep(h, c) ==
  \/ ServeLock(h, c)
  \/ CreateLease(h, c)
  \/ GetLease(h, c)
  \/ UpdateLease(h, c)
  \/ ServeUnlock(h, c)
  \/ UnlockGet(h, c)
  \/ UnlockDelete(h, c)

\* Everything a handler does by itself, apart from reaching its verdict.
HandlerStep(h) ==
  \/ LocalLockFailed(h)
  \/ LocalLockDone(h)
  \/ RemoteLockDone(h)
  \/ RemoteLockFailed(h)
  \/ LocalUnlockFailed(h)
  \/ LocalUnlockDone(h)
  \/ RemoteUnlockReturned(h)

Next ==
  \/ \E h \in Handler :
       \/ BeginLock(h)
       \/ HandlerStep(h)
       \/ Admit(h)
       \/ Reject(h)
       \/ Disrupt(h)
       \/ Abort(h)
       \/ \E c \in Cluster : OpStep(h, c) \/ OpError(h, c)
  \/ Tick
  \/ Quiescent

Spec == Init /\ [][Next]_vars

\* The code runs on once it is called; nothing obliges a caller to send a
\* request, and nothing obliges a fault to happen.
Fairness ==
  /\ WF_vars(Tick)
  /\ \A h \in Handler :
       /\ WF_vars(HandlerStep(h))
       /\ WF_vars(Admit(h) \/ Reject(h))
       /\ WF_vars(Disrupt(h))
       /\ \A c \in Cluster : WF_vars(OpStep(h, c))

FairSpec == Spec /\ Fairness

-----------------------------------------------------------------------------
(***************************************************************************)
(* The timing condition that leases.go puts on LeaseDurationSeconds: the   *)
(* lease outlasts the round trip, the processing and the time until the    *)
(* disruption is observable, here with the clock error of both the replica *)
(* that wrote the lease and the one that reads it.                         *)
(***************************************************************************)
Timely == MaxWork + 2 * MaxSkew < LeaseDuration

\* Any two requests lock some cluster in common.  With the same full list of
\* clusters behind every webhook this is true of every cluster.
SharedCluster ==
  \A g, h \in Handler : LockSet(g) \cap LockSet(h) # {}

\* Type correctness: a lease has a holder and an acquire time, a pending Update
\* of LocalLock carries the version it has read, and the clock keeps its bound.
TypeOK ==
  /\ now \in 0 .. MaxTime
  /\ lease \in [Cluster -> [holder : Handler \cup {None}, acq : Int]]
  /\ hpc \in [Handler -> HandlerPc]
  /\ op \in [Handler -> [Cluster -> OpState]]
  /\ start \in [Handler -> 0 .. MaxTime]
  /\ \A h \in Handler, c \in Cluster : op[h][c].pc = "update" => op[h][c].seen \in Handler

(***************************************************************************)
(* The inductive invariant behind MutualExclusion, one conjunct per idea.  *)
(***************************************************************************)
\* Operation states in which request h has written the lease of the cluster.
Written == {"ok", "urpc", "uget", "delete", "uok", "uerr"}

\* How far a request has come determines where its calls are.
PhaseOf(h) ==
  /\ hpc[h] = "idle" => \A c \in Cluster : op[h][c].pc = "idle"
  /\ hpc[h] = "localLock" => \A c \in Remote(h) : op[h][c].pc = "idle"
  /\ hpc[h] = "remoteLock" => op[h][Home[h]].pc = "ok"
  /\ hpc[h] \in Window => \A c \in LockSet(h) : op[h][c].pc = "ok"
  /\ hpc[h] = "localUnlock" => \A c \in Remote(h) : op[h][c].pc = "ok"

PhaseInv == \A h \in Handler : PhaseOf(h)

\* No request is in progress for longer than the clock allows.
TimeInv ==
  \A h \in Handler : Busy(h) => start[h] <= now /\ now <= start[h] + MaxWork

\* An acquire time is not older than the request that stamped it.
StampInv ==
  \A h \in Handler, c \in Cluster :
    op[h][c].pc \in {"create", "update"} => start[h] - MaxSkew <= op[h][c].acq

\* A lease that a request in progress has acquired, and has not finished
\* releasing, is still its own and was acquired since it started.
OwnInv ==
  \A h \in Handler, c \in Cluster :
    Busy(h) /\ op[h][c].pc \in {"ok", "urpc", "uget", "delete"}
    => lease[c].holder = h /\ start[h] - MaxSkew <= lease[c].acq

\* Holders, and holders that a pending Update has read, did write their lease;
\* so no request writes a lease that some pending Update would mistake for the
\* version it has read.
VersionInv ==
  \A c \in Cluster :
    /\ lease[c].holder # None => op[lease[c].holder][c].pc \in Written
    /\ \A h \in Handler :
         op[h][c].pc = "update" => op[op[h][c].seen][c].pc \in Written

\* An Update that would succeed takes over an expired lease.
TakeoverInv ==
  \A h \in Handler, c \in Cluster :
    op[h][c].pc = "update" /\ SameVersion(h, c) => Expired(lease[c], now + MaxSkew)

\* The part of it that does not depend on time: what the API server's check of the
\* version guarantees even when work outlasts the lease.
VersioningInv == PhaseInv /\ VersionInv /\ TakeoverInv

\* Together they say why the lock works: a lease of a request in progress
\* cannot expire under it, so no Update can take it and no Delete of another
\* request can meet it.
LockInv ==
  /\ PhaseInv
  /\ TimeInv
  /\ StampInv
  /\ OwnInv
  /\ VersionInv
  /\ TakeoverInv

\* The lock of validation.go is exclusive: between the return of Lock and the
\* moment the disruption is observable, no other request is in that window, in
\* whatever cluster it is served.
MutualExclusion ==
  \A g, h \in Handler : hpc[g] \in Window /\ hpc[h] \in Window => g = h

\* "Note: You should use .Lock()/.Unlock() before using this func": while the
\* verdict is computed and applied, the lease of every locked cluster is the
\* request's own, whatever crashed or late calls of others do meanwhile.
WindowOwnsLeases ==
  \A h \in Handler : hpc[h] \in Window => \A c \in LockSet(h) : lease[c].holder = h

\* A lease changes hands only after its deadline, by the clock of some replica:
\* the Get, the deadline test and the Update of LocalLock never overwrite a
\* lease that was created, taken over or renewed in between.
TakeoverOnlyExpired ==
  [][\A c \in Cluster :
       lease[c].holder # None /\ lease'[c].holder \notin {None, lease[c].holder}
       => Expired(lease[c], now + MaxSkew)]_vars

\* "Frees a lock on the local cluster if the lease identity matches": a lease
\* disappears only when the request that holds it is at its own Delete.
UnlockFreesOnlyOwn ==
  [][\A c \in Cluster :
       lease[c].holder # None /\ lease'[c].holder = None
       => op[lease[c].holder][c].pc = "delete"]_vars

\* validation.go leaves the lease behind an accepted disruption: as long as the
\* response is in flight nobody removes it or takes it over.
AdmittedLeaseStays ==
  [][\A h \in Handler :
       hpc[h] = "admitted" => \A c \in LockSet(h) : lease'[c] = lease[c]]_vars

\* Every admission request is answered, whatever fails on its way.
EveryRequestAnswered ==
  \A h \in Handler : (hpc[h] # "idle") ~> (hpc[h] \in Terminal)

\* Request h is at its Create, nothing else is in progress, and what others have
\* left behind has expired on every clock.
Unopposed(h) ==
  /\ hpc[h] = "localLock"
  /\ op[h][Home[h]].pc = "create"
  /\ \A g \in Handler \ {h} : hpc[g] \in Terminal /\ ~ Busy(g)
  /\ \A c \in LockSet(h) : lease[c].holder # None => Expired(lease[c], now - MaxSkew)

\* Leases left behind by failed Locks, by crashes, by Unlocks that stopped half
\* way and by accepted disruptions heal by themselves: a request that starts when
\* they have expired, meets no competitor and is not hit by a fault of its own,
\* gets the lock in every cluster.
ExpiredLocksHeal ==
  \A h \in Handler \ Faults : Unopposed(h) ~> (hpc[h] = "locked")

(***************************************************************************)
(* What is safety in these two: a request has only so many steps to take,  *)
(* it always has one to take or to wait for, and an unopposed one takes    *)
(* those that lead to the lock.                                            *)
(***************************************************************************)
\* How far a call has come, and how far a request.
OpRank(pc) ==
  CASE pc = "idle"             -> 0
    [] pc = "rpc"              -> 1
    [] pc = "create"           -> 2
    [] pc = "get"              -> 3
    [] pc = "update"           -> 4
    [] pc \in {"ok", "err"}    -> 5
    [] pc = "urpc"             -> 6
    [] pc = "uget"             -> 7
    [] pc = "delete"           -> 8
    [] pc \in {"uok", "uerr"}  -> 9

HandlerRank(pc) ==
  CASE pc = "idle"                        -> 0
    [] pc = "localLock"                   -> 1
    [] pc = "remoteLock"                  -> 2
    [] pc = "locked"                      -> 3
    [] pc \in {"admitted", "localUnlock"} -> 4
    [] pc = "remoteUnlock"                -> 5
    [] pc \in Terminal                    -> 6

\* Whoever takes a step, a request or a call of one, is further than before.
Advances ==
  /\ \A h \in Handler : hpc'[h] # hpc[h] => HandlerRank(hpc[h]) < HandlerRank(hpc'[h])
  /\ \A h \in Handler, c \in Cluster :
       op'[h][c] # op[h][c] => OpRank(op[h][c].pc) < OpRank(op'[h][c].pc)
  /\ now' = now => <<hpc, op>>' # <<hpc, op>>

\* Neither a request nor a call of it ever goes back, whatever fails and whoever
\* competes: there is no retry in Lock and Unlock, so that between two ticks of the
\* clock only a bounded number of steps is taken.
RequestsOnlyAdvance == [][Advances]_vars

\* The calls that request h waits for.
Awaited(h) ==
  CASE hpc[h] \in {"localLock", "localUnlock"}   -> {Home[h]}
    [] hpc[h] \in {"remoteLock", "remoteUnlock"} -> Remote(h)
    [] OTHER                                     -> {}

\* Each of them is under way, or has returned with a result that the wait is about.
WaitsForCalls(h) ==
  \A c \in Awaited(h) :
    op[h][c].pc \in IF hpc[h] \in {"localLock", "remoteLock"}
                      THEN Locking \cup {"ok", "err"} ELSE Unlocking \cup {"uok", "uerr"}

\* No request ever waits for a call that was not made or that has answered another
\* question, so that none can hang.
NoWaitInVain == \A h \in Handler : WaitsForCalls(h)

\* The lease of cluster c is request h's, or is there to be taken at the step that
\* its call has come to.
Obtainable(h, c) ==
  \/ /\ op[h][c].pc \in {"idle", "rpc", "create"}
     /\ lease[c].holder # None => Expired(lease[c], now - MaxSkew)
  \/ /\ op[h][c].pc = "get"
     /\ lease[c].holder # None
     /\ Expired(lease[c], now - MaxSkew)
  \/ op[h][c].pc = "update" /\ SameVersion(h, c)
  \/ op[h][c].pc = "ok"

\* Request h is on its way to the lock, and nothing else is in progress.
OnCourse(h) ==
  /\ hpc[h] \in {"localLock", "remoteLock"}
  /\ \A g \in Handler \ {h} : hpc[g] \in Terminal /\ ~ Busy(g)
  /\ \A c \in LockSet(h) : Obtainable(h, c)

\* A request that is unopposed is never turned away: it stays on its course, past
\* everything that others have left behind, until it has the lock.
UnopposedStaysOnCourse ==
  [][\A h \in Handler \ Faults :
       Unopposed(h) \/ OnCourse(h) => OnCourse(h)' \/ hpc'[h] = "locked"]_vars

(***************************************************************************)
(* The lock as one that is taken and given back cluster by cluster, each   *)
(* in one instant: AtomicLock.                                             *)
(***************************************************************************)
\* What a call goes through between its write of the lease and its Delete, and a
\* request before it has the lock.
Owning   == {"ok", "urpc", "uget", "delete"}
Entering == {"idle", "localLock", "remoteLock"}

\* A request has calls only in the clusters it is to lock.
CallsInv == \A h \in Handler, c \in Cluster : c \notin LockSet(h) => op[h][c].pc = "idle"

\* Request h is under way and has the lock in cluster c.
Owns(h, c) == op[h][c].pc \in Owning /\ Busy(h)

Phase(h) ==
  IF hpc[h] \in Window THEN "inside" ELSE IF hpc[h] \in Entering THEN "before" ELSE "after"

Contract ==
  INSTANCE AtomicLock WITH
    Request <- Handler,
    Needs <- [h \in Handler |-> LockSet(h)],
    phase <- [h \in Handler |-> Phase(h)],
    holds <- [h \in Handler |-> {c \in Cluster : Owns(h, c)}]

\* If the lease outlasts the work, the Create, Get, Update and Delete calls of all
\* requests, with late calls, crashes and takeovers, add up to a lock that each
\* cluster grants to one request at a time and that only its holder gives back.
ImplementsAtomicLock == Contract!Spec
=============================================================================
