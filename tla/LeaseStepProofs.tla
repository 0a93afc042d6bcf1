-------------------------- MODULE LeaseStepProofs ---------------------------
(***************************************************************************)
(* What a step of LeaseLock may never do to a lease: the action properties *)
(* that follow from the invariant of LeaseLockProofs, and the one that     *)
(* needs no condition on time.                                             *)
(***************************************************************************)
EXTENDS LeaseLockProofs

USE TopologyAssumption, ClockAssumption

\* What the types say of each variable, one at a time.
LEMMA TypeFacts ==
  ASSUME TypeOK
  PROVE  /\ now \in 0 .. MaxTime
         /\ lease \in [Cluster -> [holder : Handler \cup {None}, acq : Int]]
         /\ hpc \in [Handler -> HandlerPc]
         /\ op \in [Handler -> [Cluster -> OpState]]
BY DEF TypeOK

\* Only three calls change a lease, each the one of its own cluster.
LEMMA LeaseChange ==
  ASSUME TypeOK, [Next]_vars, NEW c \in Cluster, lease'[c] # lease[c]
  PROVE  \E h \in Handler : CreateLease(h, c) \/ UpdateLease(h, c) \/ UnlockDelete(h, c)
<1>1. ASSUME NEW h \in Handler, NEW d \in Cluster, CreateLease(h, d) \/ UpdateLease(h, d) \/ UnlockDelete(h, d)
      PROVE  d = c
  BY <1>1 DEF TypeOK, CreateLease, UpdateLease, UnlockDelete
<1>2. ASSUME NEW h \in Handler, HandlerStep(h) PROVE FALSE
  BY <1>2 DEF HandlerStep, LocalLockFailed, LocalLockDone, RemoteLockDone, RemoteLockFailed,
              LocalUnlockFailed, LocalUnlockDone, RemoteUnlockReturned
<1>3. ASSUME NEW h \in Handler, NEW d \in Cluster,
             ServeLock(h, d) \/ GetLease(h, d) \/ ServeUnlock(h, d) \/ UnlockGet(h, d) \/ OpError(h, d)
      PROVE  FALSE
  BY <1>3 DEF ServeLock, GetLease, ServeUnlock, UnlockGet, OpError
<1>4. ASSUME NEW h \in Handler, BeginLock(h) \/ Admit(h) \/ Reject(h) \/ Disrupt(h) \/ Abort(h) PROVE FALSE
  BY <1>4 DEF BeginLock, Admit, Reject, Disrupt, Abort
<1>5. ~ Tick /\ ~ Quiescent /\ ~ UNCHANGED vars
  BY DEF Tick, Quiescent, vars
<1> QED
  BY <1>1, <1>2, <1>3, <1>4, <1>5 DEF Next, OpStep

\* LocalUnlock frees only the request's own lease, if the lease outlasts the
\* work: neither the missing precondition of the Delete nor the ignored error of
\* the Get can then do harm.
THEOREM UnlockIsOwn == Timely => (Spec => UnlockFreesOnlyOwn)
<1> SUFFICES ASSUME Timely PROVE Spec => UnlockFreesOnlyOwn
  OBVIOUS
<1> DEFINE FreesOwn == \A c \in Cluster :
             lease[c].holder # None /\ lease'[c].holder = None => op[lease[c].holder][c].pc = "delete"
<1>1. TypeOK /\ LockInv /\ [Next]_vars => FreesOwn
  <2> SUFFICES ASSUME TypeOK, LockInv, [Next]_vars, NEW c \in Cluster,
                      lease[c].holder # None, lease'[c].holder = None
               PROVE  op[lease[c].holder][c].pc = "delete"
    OBVIOUS
  <2>1. PICK h \in Handler : CreateLease(h, c) \/ UpdateLease(h, c) \/ UnlockDelete(h, c)
    BY LeaseChange
  <2>2. UnlockDelete(h, c)
    <3>1. ~ CreateLease(h, c)
      BY DEF CreateLease, NewLease, TypeOK
    <3>2. CASE UpdateLease(h, c)
      <4>1. lease'[c] = lease[c] \/ lease'[c] = NewLease(h, op[h][c].acq)
        BY <3>2 DEF UpdateLease, TypeOK
      <4>2. NewLease(h, op[h][c].acq).holder = h /\ h # None
        BY DEF NewLease
      <4> QED
        BY <4>1, <4>2
    <3> QED
      BY <2>1, <3>1, <3>2
  <2> QED
    BY <2>2 DEF UnlockDelete, LockInv, OwnInv, Busy, Unlocking
<1> QED
  BY <1>1, LockInvariant, PTL DEF Spec, UnlockFreesOnlyOwn

\* The leases behind an accepted disruption stay as they are until it is
\* observable, if the lease outlasts the work.
THEOREM AdmittedStays == Timely => (Spec => AdmittedLeaseStays)
<1> SUFFICES ASSUME Timely PROVE Spec => AdmittedLeaseStays
  OBVIOUS
<1> DEFINE Stays == \A h \in Handler : hpc[h] = "admitted" => \A c \in LockSet(h) : lease'[c] = lease[c]
<1>1. TypeOK /\ LockInv /\ [Next]_vars => Stays
  <2> SUFFICES ASSUME TypeOK, LockInv, [Next]_vars, NEW h \in Handler, hpc[h] = "admitted",
                      NEW c \in LockSet(h), lease'[c] # lease[c]
               PROVE  FALSE
    OBVIOUS
  <2>1. c \in Cluster /\ op[h][c].pc = "ok" /\ Busy(h) /\ lease[c].holder = h
    <3>1. c \in Cluster
      BY DEF LockSet, Remote
    <3>2. op[h][c].pc = "ok"
      BY DEF LockInv, PhaseInv, PhaseOf, Window
    <3>3. Busy(h)
      BY DEF Busy, Running
    <3>4. lease[c].holder = h
      BY WindowOwns DEF Window, WindowOwnsLeases
    <3> QED
      BY <3>1, <3>2, <3>3, <3>4
  <2>2. PICK g \in Handler : CreateLease(g, c) \/ UpdateLease(g, c) \/ UnlockDelete(g, c)
    BY <2>1, LeaseChange
  <2>3. CASE CreateLease(g, c)
    BY <2>1, <2>3 DEF CreateLease
  <2>4. CASE UpdateLease(g, c)
    BY <2>1, <2>4, NoTakeoverFromBusy DEF UpdateLease
  <2>5. CASE UnlockDelete(g, c)
    BY <2>1, <2>5 DEF UnlockDelete, LockInv, OwnInv, Busy, Unlocking
  <2> QED
    BY <2>2, <2>3, <2>4, <2>5
<1> QED
  BY <1>1, LockInvariant, PTL DEF Spec, AdmittedLeaseStays

-----------------------------------------------------------------------------
(***************************************************************************)
(* The part of the invariant that optimistic concurrency alone maintains,  *)
(* however long the work takes.                                            *)
(***************************************************************************)
\* No write is forgotten.
WritesKept ==
  \A h \in Handler, c \in Cluster : op[h][c].pc \in Written => op'[h][c].pc \in Written

\* A lease is only written by a request that had not written it.
LeaseWritten(c) ==
  \/ lease'[c] = lease[c]
  \/ lease'[c].holder = None
  \/ \E h \in Handler : /\ lease'[c].holder = h
                       /\ op[h][c].pc \notin Written
                       /\ op'[h][c].pc = "ok"

\* An Update is prepared only for the lease that is there, once that has expired.
UpdatePrepared(h, c) ==
  \/ op'[h][c] = op[h][c]
  \/ /\ lease'[c] = lease[c]
     /\ op'[h][c].seen = lease[c].holder
     /\ Expired(lease[c], now + MaxSkew)

\* With that, versions identify what was read: no pending Update can mistake a
\* newer lease for the one it has seen expire.
LEMMA VersioningFrame ==
  ASSUME TypeOK, TypeOK', VersionInv, TakeoverInv, now <= now', WritesKept,
         \A c \in Cluster : LeaseWritten(c),
         \A h \in Handler, c \in Cluster : op'[h][c].pc = "update" => UpdatePrepared(h, c)
  PROVE  VersionInv' /\ TakeoverInv'
<1>1. ASSUME NEW c \in Cluster, lease'[c].holder # None
      PROVE  op'[lease'[c].holder][c].pc \in Written
  <2>1. CASE lease'[c] = lease[c]
    <3>1. lease[c].holder \in Handler
      BY <1>1, <2>1 DEF TypeOK
    <3>2. op[lease[c].holder][c].pc \in Written
      BY <1>1, <2>1 DEF VersionInv
    <3> QED BY <2>1, <3>1, <3>2 DEF WritesKept
  <2>2. CASE \E h \in Handler : lease'[c].holder = h /\ op'[h][c].pc = "ok"
    BY <2>2 DEF Written
  <2> QED BY <1>1, <2>1, <2>2 DEF LeaseWritten
<1>2. ASSUME NEW h \in Handler, NEW c \in Cluster, op'[h][c].pc = "update"
      PROVE  /\ op'[h][c].seen \in Handler
             /\ op[op'[h][c].seen][c].pc \in Written
  <2>1. op'[h][c].seen \in Handler /\ op'[h][c].seen # None
    BY <1>2 DEF TypeOK
  <2>2. CASE op'[h][c] = op[h][c]
    BY <1>2, <2>1, <2>2 DEF VersionInv
  <2>3. CASE op'[h][c].seen = lease[c].holder
    BY <2>1, <2>3 DEF VersionInv
  <2> QED BY <1>2, <2>1, <2>2, <2>3 DEF UpdatePrepared
<1>3. ASSUME NEW h \in Handler, NEW c \in Cluster, op'[h][c].pc = "update",
             lease'[c].holder = op'[h][c].seen
      PROVE  lease'[c].acq + LeaseDuration <= now' + MaxSkew
  <2>1. op'[h][c].seen \in Handler /\ op[op'[h][c].seen][c].pc \in Written
    BY <1>2, <1>3
  <2>2. now \in Int /\ now' \in Int /\ lease[c].acq \in Int
    BY DEF TypeOK
  <2>3. lease'[c] = lease[c]
    BY <1>3, <2>1 DEF LeaseWritten
  <2>4. Expired(lease[c], now + MaxSkew)
    <3>1. CASE op'[h][c] = op[h][c]
      BY <1>3, <2>3, <3>1 DEF TakeoverInv, SameVersion
    <3> QED BY <1>3, <3>1 DEF UpdatePrepared
  <2> QED BY <2>2, <2>3, <2>4 DEF Expired
<1>4. VersionInv'
  BY <1>1, <1>2 DEF VersionInv, WritesKept
<1>5. TakeoverInv'
  BY <1>3 DEF TakeoverInv, SameVersion, Expired
<1> QED BY <1>4, <1>5

\* A step of one call.
LEMMA VersioningOp ==
  ASSUME TypeOK, TypeOK', VersioningInv, NEW h \in Handler, NEW c \in Cluster,
         OpStep(h, c) \/ OpError(h, c)
  PROVE  VersioningInv'
<1>t. op \in [Handler -> [Cluster -> OpState]]
  BY TypeFacts
<1>n. now \in Int
  BY TypeFacts
<1>l. lease \in [Cluster -> [holder : Handler \cup {None}, acq : Int]]
  BY TypeFacts
<1> USE DEF Locking, Unlocking, OpPc, Written
<1>1. ASSUME NEW o \in OpState, SetOp(h, c, o), op[h][c].pc \in Locking \cup Unlocking,
             UNCHANGED <<now, hpc>>,
             op[h][c].pc \in Written => o.pc \in Written,
             \/ lease' = lease
             \/ /\ \A d \in Cluster \ {c} : lease'[d] = lease[d]
                /\ \/ lease'[c].holder = None
                   \/ lease'[c].holder = h /\ op[h][c].pc \notin Written /\ o.pc = "ok",
             o.pc = "update" => /\ lease' = lease
                                /\ o.seen = lease[c].holder
                                /\ Expired(lease[c], now + MaxSkew)
      PROVE  VersioningInv'
  <2>1. /\ op'[h][c] = o
        /\ \A g \in Handler, d \in Cluster : ~(g = h /\ d = c) => op'[g][d] = op[g][d]
    BY <1>1, <1>t, SetOpEffect
  <2>2. PhaseInv'
    BY <1>1, OpPhase DEF VersioningInv
  <2>3. now <= now'
    BY <1>1, <1>n
  <2>4. WritesKept
    BY <1>1, <2>1 DEF WritesKept
  <2>5. ASSUME NEW d \in Cluster PROVE LeaseWritten(d)
    BY <1>1, <2>1 DEF LeaseWritten
  <2>6. ASSUME NEW g \in Handler, NEW d \in Cluster, op'[g][d].pc = "update"
        PROVE  UpdatePrepared(g, d)
    BY <1>1, <2>1, <2>6 DEF UpdatePrepared
  <2>7. VersionInv' /\ TakeoverInv'
    BY <2>3, <2>4, <2>5, <2>6, VersioningFrame DEF VersioningInv
  <2> QED BY <2>2, <2>7 DEF VersioningInv
<1>2. ASSUME NEW pc \in OpPc \ {"update"}, SetOp(h, c, At(pc)), UNCHANGED <<now, lease, hpc>>,
             op[h][c].pc \in Locking \cup Unlocking, op[h][c].pc \in Written => pc \in Written
      PROVE  VersioningInv'
  BY <1>1, <1>2, AtType
<1>3. CASE ServeLock(h, c)
  <2>1. PICK t \in Clock : SetOp(h, c, [At("create") EXCEPT !.acq = t])
    BY <1>3 DEF ServeLock
  <2>2. [At("create") EXCEPT !.acq = t] \in OpState /\ [At("create") EXCEPT !.acq = t].pc = "create"
    BY <1>n DEF At, OpState, Clock
  <2>3. UNCHANGED <<now, lease, hpc>> /\ op[h][c].pc = "rpc"
    BY <1>3 DEF ServeLock
  <2> QED BY <1>1, <2>1, <2>2, <2>3
<1>4. CASE CreateLease(h, c)
  <2>1. CASE lease[c].holder = None
    <3>1. At("ok") \in OpState /\ At("ok").pc = "ok"
      BY AtType
    <3>2. /\ SetOp(h, c, At("ok")) /\ op[h][c].pc = "create" /\ UNCHANGED <<now, hpc>>
          /\ lease' = [lease EXCEPT ![c] = NewLease(h, op[h][c].acq)]
      BY <1>4, <2>1 DEF CreateLease
    <3>3. lease'[c].holder = h /\ \A d \in Cluster \ {c} : lease'[d] = lease[d]
      BY <1>l, <3>2 DEF NewLease
    <3> QED BY <1>1, <3>1, <3>2, <3>3
  <2>2. CASE lease[c].holder # None
    <3>1. SetOp(h, c, At("get")) /\ op[h][c].pc = "create" /\ UNCHANGED <<now, lease, hpc>>
      BY <1>4, <2>2 DEF CreateLease
    <3> QED BY <1>2, <3>1
  <2> QED BY <2>1, <2>2
<1>5. CASE GetLease(h, c)
  <2>1. PICK t \in Clock :
          SetOp(h, c, IF CanTakeOver(lease[c], t)
                        THEN [pc |-> "update", acq |-> t, seen |-> lease[c].holder]
                        ELSE At("err"))
    BY <1>5 DEF GetLease
  <2>2. op[h][c].pc = "get" /\ UNCHANGED <<now, lease, hpc>>
    BY <1>5 DEF GetLease
  <2>3. CASE ~ CanTakeOver(lease[c], t)
    BY <1>2, <2>1, <2>2, <2>3
  <2>4. CASE CanTakeOver(lease[c], t)
    <3> DEFINE o == [pc |-> "update", acq |-> t, seen |-> lease[c].holder]
    <3>1. o \in OpState
      BY <1>n, <1>l DEF OpState, Clock
    <3>2. Expired(lease[c], now + MaxSkew)
      BY <1>n, <1>l, <2>4 DEF CanTakeOver, Expired, Clock
    <3>3. o.pc = "update" /\ o.seen = lease[c].holder /\ SetOp(h, c, o)
      BY <2>1, <2>4
    <3> QED BY <1>1, <2>2, <3>1, <3>2, <3>3
  <2> QED BY <2>3, <2>4
<1>6. CASE UpdateLease(h, c)
  <2>1. CASE SameVersion(h, c)
    <3>1. At("ok") \in OpState /\ At("ok").pc = "ok"
      BY AtType
    <3>2. /\ SetOp(h, c, At("ok")) /\ op[h][c].pc = "update" /\ UNCHANGED <<now, hpc>>
          /\ lease' = [lease EXCEPT ![c] = NewLease(h, op[h][c].acq)]
      BY <1>6, <2>1 DEF UpdateLease
    <3>3. lease'[c].holder = h /\ \A d \in Cluster \ {c} : lease'[d] = lease[d]
      BY <1>l, <3>2 DEF NewLease
    <3> QED BY <1>1, <3>1, <3>2, <3>3
  <2>2. CASE ~ SameVersion(h, c)
    <3>1. SetOp(h, c, At("err")) /\ op[h][c].pc = "update" /\ UNCHANGED <<now, lease, hpc>>
      BY <1>6, <2>2 DEF UpdateLease
    <3> QED BY <1>2, <3>1
  <2> QED BY <2>1, <2>2
<1>7. CASE ServeUnlock(h, c) \/ UnlockGet(h, c) \/ OpError(h, c)
  <2>1. PICK pc \in OpPc \ {"update"} :
          /\ SetOp(h, c, At(pc))
          /\ op[h][c].pc \in Written => pc \in Written
          /\ op[h][c].pc \in Locking \cup Unlocking
    BY <1>7 DEF ServeUnlock, UnlockGet, AfterUnlockGet, OpError
  <2>2. UNCHANGED <<now, lease, hpc>>
    BY <1>7 DEF ServeUnlock, UnlockGet, OpError
  <2> QED BY <1>2, <2>1, <2>2
<1>8. CASE UnlockDelete(h, c)
  <2>1. PICK pc \in {"uok", "uerr"} : SetOp(h, c, At(pc))
    BY <1>8 DEF UnlockDelete
  <2>2. At(pc) \in OpState /\ At(pc).pc = pc
    BY AtType
  <2>3. /\ op[h][c].pc = "delete" /\ UNCHANGED <<now, hpc>>
        /\ lease' = [lease EXCEPT ![c] = NoLease]
    BY <1>8 DEF UnlockDelete
  <2>4. lease'[c].holder = None /\ \A d \in Cluster \ {c} : lease'[d] = lease[d]
    BY <1>l, <2>3 DEF NoLease
  <2> QED BY <1>1, <2>1, <2>2, <2>3, <2>4
<1> QED
  BY <1>3, <1>4, <1>5, <1>6, <1>7, <1>8 DEF OpStep

\* A step of a request's own control flow: its calls start or move on as its phase
\* says.
LEMMA VersioningControl ==
  ASSUME TypeOK, TypeOK', VersioningInv, NEW h \in Handler,
         BeginLock(h) \/ HandlerStep(h) \/ Admit(h) \/ Reject(h) \/ Disrupt(h) \/ Abort(h)
  PROVE  VersioningInv'
<1>t. op \in [Handler -> [Cluster -> OpState]]
  BY TypeFacts
<1>n. now \in Int
  BY TypeFacts
<1>l. lease \in [Cluster -> [holder : Handler \cup {None}, acq : Int]]
  BY TypeFacts
<1>h. hpc \in [Handler -> HandlerPc]
  BY TypeFacts
<1> USE DEF Running, Terminal, Window, HandlerPc, Written, Locking, Unlocking, OpPc
<1>1. ASSUME PhaseOf(h)', UNCHANGED <<now, lease>>,
             \A g \in Handler \ {h} : hpc'[g] = hpc[g] /\ \A d \in Cluster : op'[g][d] = op[g][d],
             \A d \in Cluster :
               \/ op'[h][d] = op[h][d]
               \/ /\ op'[h][d].pc # "update"
                  /\ op[h][d].pc \in Written => op'[h][d].pc \in Written
      PROVE  VersioningInv'
  <2>1. PhaseInv'
    BY <1>1, PhaseFrame DEF VersioningInv, PhaseInv
  <2>2. now <= now'
    BY <1>1, <1>n
  <2>3. WritesKept
    BY <1>1 DEF WritesKept
  <2>4. ASSUME NEW g \in Handler, NEW d \in Cluster
        PROVE  LeaseWritten(d) /\ (op'[g][d].pc = "update" => UpdatePrepared(g, d))
    BY <1>1 DEF LeaseWritten, UpdatePrepared
  <2>5. \A d \in Cluster : LeaseWritten(d)
    BY <1>1 DEF LeaseWritten
  <2>6. VersionInv' /\ TakeoverInv'
    BY <2>2, <2>3, <2>4, <2>5, VersioningFrame DEF VersioningInv
  <2> QED BY <2>1, <2>6 DEF VersioningInv
<1>2. PhaseOf(h) /\ Home[h] \in Cluster /\ Remote(h) \subseteq Cluster /\ Home[h] \notin Remote(h)
  BY DEF VersioningInv, PhaseInv, Remote
<1>3. ASSUME NEW pc \in HandlerPc, Goto(h, pc)
      PROVE  hpc'[h] = pc /\ \A g \in Handler \ {h} : hpc'[g] = hpc[g]
  BY <1>h, <1>3 DEF Goto
<1>4. ASSUME NEW pc \in Terminal \cup Window, Goto(h, pc), UNCHANGED <<now, lease, op>>,
             pc \in Window => \A c \in LockSet(h) : op[h][c].pc = "ok"
      PROVE  VersioningInv'
  <2>1. hpc'[h] = pc /\ \A g \in Handler \ {h} : hpc'[g] = hpc[g]
    BY <1>3, <1>4
  <2>2. PhaseOf(h)'
    BY <1>4, <2>1 DEF PhaseOf
  <2> QED BY <1>1, <1>4, <2>1, <2>2
<1>5. CASE LocalLockFailed(h) \/ RemoteLockFailed(h) \/ LocalUnlockFailed(h)
           \/ RemoteUnlockReturned(h) \/ Disrupt(h) \/ Abort(h)
  BY <1>4, <1>5 DEF LocalLockFailed, RemoteLockFailed, LocalUnlockFailed,
                    RemoteUnlockReturned, Disrupt, Abort
<1>6. CASE RemoteLockDone(h)
  <2>1. \A c \in LockSet(h) : op[h][c].pc = "ok"
    BY <1>2, <1>6 DEF RemoteLockDone, LockSet, PhaseOf
  <2> QED BY <1>4, <1>6, <2>1 DEF RemoteLockDone
<1>7. CASE Admit(h)
  <2>1. \A c \in LockSet(h) : op[h][c].pc = "ok"
    BY <1>2, <1>7 DEF Admit, PhaseOf
  <2> QED BY <1>4, <1>7, <2>1 DEF Admit
<1>8. CASE LocalLockDone(h) \/ LocalUnlockDone(h)
  <2>1. PICK r \in {"rpc", "urpc"}, pc \in {"remoteLock", "locked", "remoteUnlock", "refused"} :
          /\ Goto(h, pc) /\ FanOut(h, r) /\ UNCHANGED <<now, lease>>
          /\ \A c \in Remote(h) : op[h][c].pc = IF r = "rpc" THEN "idle" ELSE "ok"
          /\ pc \in {"remoteLock", "locked"} => op[h][Home[h]].pc = "ok"
          /\ pc = "locked" => Remote(h) = {}
    BY <1>2, <1>8 DEF LocalLockDone, LocalUnlockDone, PhaseOf
  <2>2. hpc'[h] = pc /\ \A g \in Handler \ {h} : hpc'[g] = hpc[g]
    BY <1>3, <2>1
  <2>3. /\ \A c \in Cluster : op'[h][c] = IF c \in Remote(h) THEN At(r) ELSE op[h][c]
        /\ \A g \in Handler \ {h} : op'[g] = op[g]
        /\ At(r).pc = r
    BY <1>t, <2>1, FanOutEffect, AtType
  <2>4. PhaseOf(h)'
    BY <1>2, <2>1, <2>2, <2>3 DEF PhaseOf, LockSet
  <2> QED BY <1>1, <2>1, <2>2, <2>3, <2>4
<1>9. CASE Reject(h)
  <2>1. hpc'[h] = "localUnlock" /\ hpc[h] = "locked" /\ \A g \in Handler \ {h} : hpc'[g] = hpc[g]
    BY <1>3, <1>9 DEF Reject
  <2>2. /\ op'[h][Home[h]].pc = "uget"
        /\ \A g \in Handler, d \in Cluster : ~(g = h /\ d = Home[h]) => op'[g][d] = op[g][d]
    BY <1>2, <1>9, <1>t, SetOpEffect, AtType DEF Reject
  <2>3. PhaseOf(h)'
    BY <1>2, <2>1, <2>2 DEF PhaseOf, LockSet
  <2> QED BY <1>1, <1>9, <2>1, <2>2, <2>3 DEF Reject
<1>10. CASE BeginLock(h)
  <2>1. hpc'[h] = "localLock" /\ hpc[h] = "idle" /\ \A g \in Handler \ {h} : hpc'[g] = hpc[g]
    BY <1>3, <1>10 DEF BeginLock
  <2>2. PICK t \in Clock : SetOp(h, Home[h], [At("create") EXCEPT !.acq = t])
    BY <1>10 DEF BeginLock
  <2> DEFINE o == [At("create") EXCEPT !.acq = t]
  <2>3. o \in OpState /\ o.pc = "create" /\ SetOp(h, Home[h], o)
    BY <1>n, <2>2 DEF At, OpState, Clock
  <2> HIDE DEF o
  <2>4. /\ op'[h][Home[h]] = o
        /\ \A g \in Handler, d \in Cluster : ~(g = h /\ d = Home[h]) => op'[g][d] = op[g][d]
    BY <1>2, <1>t, <2>3, SetOpEffect
  <2>5. \A d \in Cluster : op[h][d].pc = "idle"
    BY <1>2, <2>1 DEF PhaseOf
  <2>6. PhaseOf(h)'
    <3>1. \A c \in Remote(h) : op'[h][c].pc = "idle"
      BY <1>2, <2>4, <2>5
    <3> QED BY <2>1, <3>1 DEF PhaseOf
  <2> QED BY <1>1, <1>10, <2>1, <2>3, <2>4, <2>5, <2>6 DEF BeginLock
<1> QED
  BY <1>5, <1>6, <1>7, <1>8, <1>9, <1>10 DEF HandlerStep

\* It holds whatever the durations.
LEMMA VersioningHolds == Spec => []VersioningInv
<1>1. Init => VersioningInv
  <2> SUFFICES ASSUME Init PROVE VersioningInv
    OBVIOUS
  <2>1. \A h \in Handler : hpc[h] = "idle" /\ \A c \in Cluster : op[h][c].pc = "idle"
    BY DEF Init, At
  <2>2. \A c \in Cluster : lease[c].holder = None
    BY DEF Init, NoLease
  <2> QED
    BY <2>1, <2>2 DEF VersioningInv, PhaseInv, PhaseOf, Window, VersionInv, TakeoverInv
<1>2. TypeOK /\ TypeOK' /\ VersioningInv /\ [Next]_vars => VersioningInv'
  <2> SUFFICES ASSUME TypeOK, TypeOK', VersioningInv, [Next]_vars PROVE VersioningInv'
    OBVIOUS
  <2>1. ASSUME NEW h \in Handler,
               BeginLock(h) \/ HandlerStep(h) \/ Admit(h) \/ Reject(h) \/ Disrupt(h) \/ Abort(h)
        PROVE  VersioningInv'
    BY <2>1, VersioningControl
  <2>2. ASSUME NEW h \in Handler, NEW c \in Cluster, OpStep(h, c) \/ OpError(h, c)
        PROVE  VersioningInv'
    BY <2>2, VersioningOp
  <2>3. CASE Tick \/ Quiescent \/ UNCHANGED vars
    <3>1. UNCHANGED <<lease, hpc, op>> /\ now <= now'
      BY <2>3 DEF Tick, Quiescent, vars, TypeOK
    <3>2. PhaseInv'
      BY <3>1, PhaseFrame DEF VersioningInv, PhaseInv
    <3>3. WritesKept
      BY <3>1 DEF WritesKept
    <3>4. \A c \in Cluster : LeaseWritten(c) /\ \A h \in Handler : UpdatePrepared(h, c)
      BY <3>1 DEF LeaseWritten, UpdatePrepared
    <3>5. VersionInv' /\ TakeoverInv'
      BY <3>1, <3>3, <3>4, VersioningFrame DEF VersioningInv
    <3> QED BY <3>2, <3>5 DEF VersioningInv
  <2> QED BY <2>1, <2>2, <2>3 DEF Next
<1> QED
  BY <1>1, <1>2, TypeCorrect, PTL DEF Spec

\* LocalLock takes over only leases that have run out by the clock of some
\* replica, although its Get, its test of the deadline and its Update are three
\* steps, and however long the work takes.
THEOREM TakeoverIsLate == Spec => TakeoverOnlyExpired
<1> DEFINE Late == \A c \in Cluster :
             lease[c].holder # None /\ lease'[c].holder \notin {None, lease[c].holder}
             => Expired(lease[c], now + MaxSkew)
<1>1. TypeOK /\ VersioningInv /\ [Next]_vars => Late
  <2> SUFFICES ASSUME TypeOK, VersioningInv, [Next]_vars, NEW c \in Cluster,
                      lease[c].holder # None, lease'[c].holder \notin {None, lease[c].holder}
               PROVE  Expired(lease[c], now + MaxSkew)
    OBVIOUS
  <2>1. PICK h \in Handler : CreateLease(h, c) \/ UpdateLease(h, c) \/ UnlockDelete(h, c)
    BY LeaseChange
  <2>2. UpdateLease(h, c)
    <3>1. ~ CreateLease(h, c)
      BY DEF CreateLease
    <3>2. ~ UnlockDelete(h, c)
      <4> SUFFICES ASSUME UnlockDelete(h, c) PROVE FALSE
        OBVIOUS
      <4>1. lease'[c] = NoLease
        BY DEF UnlockDelete, TypeOK
      <4> QED
        BY <4>1 DEF NoLease
    <3> QED
      BY <2>1, <3>1, <3>2
  <2> QED
    BY <2>2 DEF UpdateLease, VersioningInv, TakeoverInv
<1> QED
  BY <1>1, TypeCorrect, VersioningHolds, PTL DEF Spec, TakeoverOnlyExpired

-----------------------------------------------------------------------------
(***************************************************************************)
(* Progress: the safety part of the liveness of the lock.                  *)
(***************************************************************************)
\* A step of a call: it goes on, or returns an answer of its kind.
Proceeds(h, c, o) ==
  /\ SetOp(h, c, o)
  /\ UNCHANGED <<now, hpc>>
  /\ OpRank(op[h][c].pc) < OpRank(o.pc)
  /\ \/ op[h][c].pc \in Locking /\ o.pc \in Locking \cup {"ok", "err"}
     \/ op[h][c].pc \in Unlocking /\ o.pc \in Unlocking \cup {"uok", "uerr"}

\* Every step of a call is one.
LEMMA CallProceeds ==
  ASSUME TypeOK, NEW h \in Handler, NEW c \in Cluster, OpStep(h, c) \/ OpError(h, c)
  PROVE  \E o \in OpState : Proceeds(h, c, o)
<1>n. now \in Int /\ lease \in [Cluster -> [holder : Handler \cup {None}, acq : Int]]
  BY TypeFacts
<1>o. op[h][c] \in OpState
  BY TypeFacts
<1>1. ASSUME NEW pc \in OpPc, SetOp(h, c, At(pc)), UNCHANGED <<now, hpc>>,
             OpRank(op[h][c].pc) < OpRank(pc),
             \/ op[h][c].pc \in Locking /\ pc \in Locking \cup {"ok", "err"}
             \/ op[h][c].pc \in Unlocking /\ pc \in Unlocking \cup {"uok", "uerr"}
      PROVE  \E o \in OpState : Proceeds(h, c, o)
  <2>1. At(pc) \in OpState /\ At(pc).pc = pc
    BY AtType
  <2>2. Proceeds(h, c, At(pc))
    BY <1>1, <2>1 DEF Proceeds
  <2> QED BY <2>1, <2>2
<1> USE DEF Locking, Unlocking, OpRank
<1>2. CASE ServeLock(h, c)
  <2>1. PICK t \in Clock : SetOp(h, c, [At("create") EXCEPT !.acq = t])
    BY <1>2 DEF ServeLock
  <2> DEFINE o == [At("create") EXCEPT !.acq = t]
  <2>2. o \in OpState /\ o.pc = "create" /\ SetOp(h, c, o)
    BY <1>n, <2>1 DEF At, OpState, Clock, OpPc
  <2>3. op[h][c].pc = "rpc" /\ UNCHANGED <<now, hpc>>
    BY <1>2 DEF ServeLock
  <2> HIDE DEF o
  <2>4. Proceeds(h, c, o)
    BY <2>2, <2>3 DEF Proceeds
  <2> QED BY <2>2, <2>4
<1>3. CASE CreateLease(h, c)
  <2>1. \E pc \in {"ok", "get"} : SetOp(h, c, At(pc))
    BY <1>3 DEF CreateLease
  <2>2. op[h][c].pc = "create" /\ UNCHANGED <<now, hpc>>
    BY <1>3 DEF CreateLease
  <2> QED BY <1>1, <2>1, <2>2 DEF OpPc
<1>4. CASE GetLease(h, c)
  <2>1. PICK t \in Clock :
          SetOp(h, c, IF CanTakeOver(lease[c], t)
                        THEN [pc |-> "update", acq |-> t, seen |-> lease[c].holder]
                        ELSE At("err"))
    BY <1>4 DEF GetLease
  <2>2. op[h][c].pc = "get" /\ UNCHANGED <<now, hpc>>
    BY <1>4 DEF GetLease
  <2>3. CASE ~ CanTakeOver(lease[c], t)
    BY <1>1, <2>1, <2>2, <2>3 DEF OpPc
  <2>4. CASE CanTakeOver(lease[c], t)
    <3>1. [pc |-> "update", acq |-> t, seen |-> lease[c].holder] \in OpState
      BY <1>n DEF OpState, OpPc, Clock
    <3> QED BY <2>1, <2>2, <2>4, <3>1 DEF Proceeds
  <2> QED BY <2>3, <2>4
<1>5. CASE UpdateLease(h, c)
  <2>1. \E pc \in {"ok", "err"} : SetOp(h, c, At(pc))
    BY <1>5 DEF UpdateLease
  <2>2. op[h][c].pc = "update" /\ UNCHANGED <<now, hpc>>
    BY <1>5 DEF UpdateLease
  <2> QED BY <1>1, <2>1, <2>2 DEF OpPc
<1>6. CASE ServeUnlock(h, c)
  BY <1>1, <1>6 DEF ServeUnlock, OpPc
<1>7. CASE UnlockGet(h, c)
  <2>1. \E pc \in {"uok", "delete", "uerr"} : SetOp(h, c, At(pc))
    BY <1>7 DEF UnlockGet, AfterUnlockGet
  <2>2. op[h][c].pc = "uget" /\ UNCHANGED <<now, hpc>>
    BY <1>7 DEF UnlockGet
  <2> QED BY <1>1, <2>1, <2>2 DEF OpPc
<1>8. CASE UnlockDelete(h, c)
  <2>1. \E pc \in {"uok", "uerr"} : SetOp(h, c, At(pc))
    BY <1>8 DEF UnlockDelete
  <2>2. op[h][c].pc = "delete" /\ UNCHANGED <<now, hpc>>
    BY <1>8 DEF UnlockDelete
  <2> QED BY <1>1, <2>1, <2>2 DEF OpPc
<1>9. CASE OpError(h, c)
  <2>1. UNCHANGED <<now, hpc>>
    BY <1>9 DEF OpError
  <2>2. CASE op[h][c].pc \in Locking
    <3>1. SetOp(h, c, At("err"))
      BY <1>9, <2>2 DEF OpError
    <3>2. OpRank(op[h][c].pc) < OpRank("err") /\ "err" \in OpPc
      BY <2>2 DEF OpPc
    <3> HIDE DEF Locking, Unlocking, OpRank
    <3> QED BY <1>1, <2>1, <2>2, <3>1, <3>2
  <2>3. CASE op[h][c].pc \in {"urpc", "delete"}
    <3>1. SetOp(h, c, At("uerr"))
      BY <1>9, <2>3 DEF OpError
    <3>2. /\ OpRank(op[h][c].pc) < OpRank("uerr") /\ "uerr" \in OpPc
          /\ op[h][c].pc \in Unlocking
      BY <2>3 DEF OpPc
    <3> HIDE DEF Locking, Unlocking, OpRank
    <3> QED BY <1>1, <2>1, <3>1, <3>2
  <2> QED BY <1>9, <2>2, <2>3 DEF OpError
<1> QED BY <1>2, <1>3, <1>4, <1>5, <1>6, <1>7, <1>8, <1>9 DEF OpStep

\* The ranks of the calls that a request starts.
LEMMA RankOrder ==
  /\ OpRank("idle") < OpRank("create") /\ OpRank("idle") < OpRank("rpc")
  /\ OpRank("ok") < OpRank("uget") /\ OpRank("ok") < OpRank("urpc")
BY DEF OpRank

\* A step of a request's own: it is further than it was, and so are the calls that
\* it starts, which are the ones it waits for next.
MovesOn(h) ==
  /\ UNCHANGED <<now, lease>>
  /\ HandlerRank(hpc[h]) < HandlerRank(hpc'[h])
  /\ \A c \in Cluster : op'[h][c] = op[h][c] \/ OpRank(op[h][c].pc) < OpRank(op'[h][c].pc)
  /\ \A g \in Handler \ {h} : hpc'[g] = hpc[g] /\ \A c \in Cluster : op'[g][c] = op[g][c]
  /\ WaitsForCalls(h)'

\* Every step of a request's own is one.
LEMMA RequestMovesOn ==
  ASSUME TypeOK, PhaseInv, NEW h \in Handler,
         BeginLock(h) \/ HandlerStep(h) \/ Admit(h) \/ Reject(h) \/ Disrupt(h) \/ Abort(h)
  PROVE  MovesOn(h)
<1>t. op \in [Handler -> [Cluster -> OpState]] /\ now \in Int
  BY TypeFacts
<1>h. hpc \in [Handler -> HandlerPc]
  BY TypeFacts
<1>p. PhaseOf(h) /\ Home[h] \in Cluster /\ Remote(h) \subseteq Cluster /\ Home[h] \notin Remote(h)
  BY DEF PhaseInv, Remote
<1> USE DEF HandlerRank
<1>1. ASSUME NEW pc \in HandlerPc, Goto(h, pc)
      PROVE  hpc'[h] = pc /\ \A g \in Handler \ {h} : hpc'[g] = hpc[g]
  BY <1>h, <1>1 DEF Goto
<1>2. ASSUME NEW pc \in Terminal \cup Window, Goto(h, pc), UNCHANGED <<now, lease, op>>,
             HandlerRank(hpc[h]) < HandlerRank(pc)
      PROVE  MovesOn(h)
  <2>1. hpc'[h] = pc /\ \A g \in Handler \ {h} : hpc'[g] = hpc[g]
    BY <1>1, <1>2 DEF HandlerPc, Window, Running
  <2>2. Awaited(h)' = {}
    BY <1>2, <2>1 DEF Awaited, Terminal, Window
  <2> QED BY <1>2, <2>1, <2>2 DEF MovesOn, WaitsForCalls
<1>3. CASE LocalLockFailed(h) \/ RemoteLockDone(h) \/ RemoteLockFailed(h) \/ LocalUnlockFailed(h)
           \/ RemoteUnlockReturned(h)
  BY <1>2, <1>3 DEF LocalLockFailed, RemoteLockDone, RemoteLockFailed, LocalUnlockFailed,
                    RemoteUnlockReturned, Terminal, Window
<1>4. CASE Admit(h) \/ Disrupt(h) \/ Abort(h)
  BY <1>2, <1>4 DEF Admit, Disrupt, Abort, Terminal, Window, Running
<1>5. CASE LocalLockDone(h) \/ LocalUnlockDone(h)
  <2>1. PICK r \in {"rpc", "urpc"}, pc \in {"remoteLock", "locked", "remoteUnlock", "refused"} :
          /\ Goto(h, pc) /\ FanOut(h, r) /\ UNCHANGED <<now, lease>>
          /\ \A c \in Remote(h) : op[h][c].pc = IF r = "rpc" THEN "idle" ELSE "ok"
          /\ pc = "remoteLock" => r = "rpc"
          /\ pc = "remoteUnlock" => r = "urpc"
          /\ HandlerRank(hpc[h]) < HandlerRank(pc)
    BY <1>p, <1>5 DEF LocalLockDone, LocalUnlockDone, PhaseOf, Terminal
  <2>2. hpc'[h] = pc /\ \A g \in Handler \ {h} : hpc'[g] = hpc[g]
    BY <1>1, <2>1 DEF HandlerPc, Running, Terminal
  <2>3. /\ \A c \in Cluster : op'[h][c] = IF c \in Remote(h) THEN At(r) ELSE op[h][c]
        /\ \A g \in Handler \ {h} : op'[g] = op[g]
        /\ At(r).pc = r
    BY <1>t, <2>1, FanOutEffect, AtType DEF OpPc, Locking, Unlocking
  <2>4. \A c \in Cluster : op'[h][c] = op[h][c] \/ OpRank(op[h][c].pc) < OpRank(op'[h][c].pc)
    <3>1. ASSUME NEW c \in Remote(h)
          PROVE  OpRank(op[h][c].pc) < OpRank(r)
      BY <2>1, RankOrder
    <3> QED BY <2>3, <3>1
  <2>5. WaitsForCalls(h)'
    BY <1>p, <2>1, <2>2, <2>3 DEF WaitsForCalls, Awaited, Locking, Unlocking
  <2> QED BY <2>1, <2>2, <2>3, <2>4, <2>5 DEF MovesOn
<1>6. CASE Reject(h)
  <2>1. hpc'[h] = "localUnlock" /\ hpc[h] = "locked" /\ \A g \in Handler \ {h} : hpc'[g] = hpc[g]
    BY <1>1, <1>6 DEF Reject, HandlerPc, Running
  <2>2. /\ op'[h][Home[h]].pc = "uget"
        /\ \A g \in Handler, d \in Cluster : ~(g = h /\ d = Home[h]) => op'[g][d] = op[g][d]
    BY <1>p, <1>6, <1>t, SetOpEffect, AtType DEF Reject, OpPc, Unlocking
  <2>3. op[h][Home[h]].pc = "ok"
    BY <1>p, <2>1 DEF PhaseOf, Window, LockSet
  <2>4. \A c \in Cluster : op'[h][c] = op[h][c] \/ OpRank(op[h][c].pc) < OpRank(op'[h][c].pc)
    BY <2>2, <2>3, RankOrder
  <2>5. WaitsForCalls(h)'
    BY <2>1, <2>2 DEF WaitsForCalls, Awaited, Unlocking
  <2>6. HandlerRank(hpc[h]) < HandlerRank(hpc'[h])
    BY <2>1 DEF Terminal
  <2>7. UNCHANGED <<now, lease>>
    BY <1>6 DEF Reject
  <2> HIDE DEF HandlerRank
  <2> QED BY <2>1, <2>2, <2>4, <2>5, <2>6, <2>7 DEF MovesOn
<1>7. CASE BeginLock(h)
  <2>1. hpc'[h] = "localLock" /\ hpc[h] = "idle" /\ \A g \in Handler \ {h} : hpc'[g] = hpc[g]
    BY <1>1, <1>7 DEF BeginLock, HandlerPc, Running
  <2>2. PICK t \in Clock : SetOp(h, Home[h], [At("create") EXCEPT !.acq = t])
    BY <1>7 DEF BeginLock
  <2> DEFINE o == [At("create") EXCEPT !.acq = t]
  <2>3. o \in OpState /\ o.pc = "create" /\ SetOp(h, Home[h], o)
    BY <1>t, <2>2 DEF At, OpState, Clock, OpPc, Locking
  <2> HIDE DEF o
  <2>4. /\ op'[h][Home[h]].pc = "create"
        /\ \A g \in Handler, d \in Cluster : ~(g = h /\ d = Home[h]) => op'[g][d] = op[g][d]
    BY <1>p, <1>t, <2>3, SetOpEffect
  <2>5. op[h][Home[h]].pc = "idle"
    BY <1>p, <2>1 DEF PhaseOf
  <2>6. \A c \in Cluster : op'[h][c] = op[h][c] \/ OpRank(op[h][c].pc) < OpRank(op'[h][c].pc)
    BY <2>4, <2>5, RankOrder
  <2>7. WaitsForCalls(h)'
    BY <2>1, <2>4 DEF WaitsForCalls, Awaited, Locking
  <2>8. HandlerRank(hpc[h]) < HandlerRank(hpc'[h])
    BY <2>1 DEF Terminal
  <2>9. UNCHANGED <<now, lease>>
    BY <1>7 DEF BeginLock
  <2> HIDE DEF HandlerRank
  <2> QED BY <2>1, <2>4, <2>6, <2>7, <2>8, <2>9 DEF MovesOn
<1> QED BY <1>3, <1>4, <1>5, <1>6, <1>7 DEF HandlerStep

\* Ranks are numbers.
LEMMA RankType ==
  /\ \A pc \in HandlerPc : HandlerRank(pc) \in Nat
  /\ \A pc \in OpPc : OpRank(pc) \in Nat
<1>1. \A pc \in HandlerPc : HandlerRank(pc) \in Nat
  BY DEF HandlerPc, Running, Terminal, HandlerRank
<1>2. \A pc \in OpPc : OpRank(pc) \in Nat
  BY DEF OpPc, Locking, Unlocking, OpRank
<1> QED BY <1>1, <1>2

\* One step of the whole.
LEMMA StepAdvances ==
  ASSUME TypeOK, PhaseInv, [Next]_vars, ~ UNCHANGED vars
  PROVE  Advances
<1>1. ASSUME NEW h \in Handler, MovesOn(h) PROVE Advances
  <2>1. hpc'[h] # hpc[h]
    <3>1. HandlerRank(hpc[h]) \in Nat
      BY TypeFacts, RankType
    <3> QED BY <1>1, <3>1 DEF MovesOn
  <2> QED BY <1>1, <2>1 DEF MovesOn, Advances
<1>2. ASSUME NEW h \in Handler, NEW c \in Cluster, NEW o \in OpState, Proceeds(h, c, o)
      PROVE  Advances
  <2>1. /\ op'[h][c] = o
        /\ \A g \in Handler, d \in Cluster : ~(g = h /\ d = c) => op'[g][d] = op[g][d]
    BY <1>2, TypeFacts, SetOpEffect DEF Proceeds
  <2>2. hpc' = hpc /\ OpRank(op[h][c].pc) < OpRank(o.pc)
    BY <1>2 DEF Proceeds
  <2>3. op'[h][c] # op[h][c]
    <3>1. OpRank(op[h][c].pc) \in Nat
      BY TypeFacts, RankType DEF OpState
    <3> QED BY <2>1, <2>2, <3>1
  <2> QED BY <2>1, <2>2, <2>3 DEF Advances
<1>3. CASE Tick
  <2>1. now' # now /\ UNCHANGED <<hpc, op>>
    BY <1>3, TypeFacts DEF Tick
  <2> QED BY <2>1 DEF Advances
<1>4. ASSUME NEW h \in Handler,
             BeginLock(h) \/ HandlerStep(h) \/ Admit(h) \/ Reject(h) \/ Disrupt(h) \/ Abort(h)
      PROVE  Advances
  BY <1>1, <1>4, RequestMovesOn
<1>5. ASSUME NEW h \in Handler, NEW c \in Cluster, OpStep(h, c) \/ OpError(h, c) PROVE Advances
  BY <1>2, <1>5, CallProceeds
<1>6. ~ Quiescent
  BY DEF Quiescent
<1> QED BY <1>3, <1>4, <1>5, <1>6 DEF Next

\* Requests and their calls only ever advance, whatever fails, whoever competes and
\* however long things take: as long as the clock stands, the lock can only take so
\* many steps.
THEOREM OnlyForward == Spec => RequestsOnlyAdvance
<1>1. TypeOK /\ VersioningInv /\ [Next]_vars => [Advances]_vars
  BY StepAdvances DEF VersioningInv
<1> QED
  BY <1>1, TypeCorrect, VersioningHolds, PTL DEF Spec, RequestsOnlyAdvance

\* A call that a request waits for stays one, whoever takes the step.
LEMMA WaitStep ==
  ASSUME TypeOK, PhaseInv, NoWaitInVain, [Next]_vars
  PROVE  NoWaitInVain'
<1>a. ASSUME NEW g \in Handler PROVE Awaited(g) \subseteq Cluster
  BY DEF Awaited, Remote
<1>1. ASSUME NEW g \in Handler, hpc'[g] = hpc[g], \A c \in Cluster : op'[g][c] = op[g][c]
      PROVE  WaitsForCalls(g)'
  <2>1. Awaited(g)' = Awaited(g)
    BY <1>1 DEF Awaited
  <2> QED BY <1>1, <1>a, <2>1 DEF NoWaitInVain, WaitsForCalls
<1>2. ASSUME NEW h \in Handler, MovesOn(h) PROVE NoWaitInVain'
  BY <1>1, <1>2 DEF MovesOn, NoWaitInVain
<1>3. ASSUME NEW h \in Handler, NEW c \in Cluster, NEW o \in OpState, Proceeds(h, c, o)
      PROVE  NoWaitInVain'
  <2>1. /\ op'[h][c] = o /\ hpc' = hpc
        /\ \A g \in Handler, d \in Cluster : ~(g = h /\ d = c) => op'[g][d] = op[g][d]
    BY <1>3, TypeFacts, SetOpEffect DEF Proceeds
  <2>2. \A g \in Handler \ {h} : WaitsForCalls(g)'
    BY <1>1, <2>1
  <2>3. WaitsForCalls(h)'
    <3>1. Awaited(h)' = Awaited(h)
      BY <2>1 DEF Awaited
    <3> SUFFICES ASSUME NEW d \in Awaited(h)
                 PROVE  op'[h][d].pc \in IF hpc[h] \in {"localLock", "remoteLock"}
                          THEN Locking \cup {"ok", "err"} ELSE Unlocking \cup {"uok", "uerr"}
      BY <2>1, <3>1 DEF WaitsForCalls
    <3>2. op[h][d].pc \in IF hpc[h] \in {"localLock", "remoteLock"}
                          THEN Locking \cup {"ok", "err"} ELSE Unlocking \cup {"uok", "uerr"}
      BY DEF NoWaitInVain, WaitsForCalls
    <3>3. CASE d # c
      BY <1>a, <2>1, <3>2, <3>3
    <3>4. CASE d = c
      <4>1. \/ op[h][c].pc \in Locking /\ o.pc \in Locking \cup {"ok", "err"}
            \/ op[h][c].pc \in Unlocking /\ o.pc \in Unlocking \cup {"uok", "uerr"}
        BY <1>3 DEF Proceeds
      <4> QED BY <2>1, <3>2, <3>4, <4>1 DEF Locking, Unlocking
    <3> QED BY <3>3, <3>4
  <2> QED BY <2>2, <2>3 DEF NoWaitInVain
<1>4. CASE Tick \/ Quiescent \/ UNCHANGED vars
  <2>1. UNCHANGED <<hpc, op>>
    BY <1>4 DEF Tick, Quiescent, vars
  <2> QED BY <1>1, <2>1 DEF NoWaitInVain
<1>5. ASSUME NEW h \in Handler,
             BeginLock(h) \/ HandlerStep(h) \/ Admit(h) \/ Reject(h) \/ Disrupt(h) \/ Abort(h)
      PROVE  NoWaitInVain'
  BY <1>2, <1>5, RequestMovesOn
<1>6. ASSUME NEW h \in Handler, NEW c \in Cluster, OpStep(h, c) \/ OpError(h, c)
      PROVE  NoWaitInVain'
  BY <1>3, <1>6, CallProceeds
<1> QED BY <1>4, <1>5, <1>6 DEF Next

\* No request can hang: what it waits for is under way or has come.
THEOREM NobodyHangs == Spec => []NoWaitInVain
<1>1. Init => NoWaitInVain
  BY DEF Init, NoWaitInVain, WaitsForCalls, Awaited
<1>2. TypeOK /\ VersioningInv /\ NoWaitInVain /\ [Next]_vars => NoWaitInVain'
  BY WaitStep DEF VersioningInv
<1> QED
  BY <1>1, <1>2, TypeCorrect, VersioningHolds, PTL DEF Spec

\* A call of a request on its course goes on to the lease.
LEMMA CallOnCourse ==
  ASSUME TypeOK, NEW h \in Handler, NEW c \in Cluster, OpStep(h, c), Obtainable(h, c)
  PROVE  Obtainable(h, c)'
<1>t. op \in [Handler -> [Cluster -> OpState]] /\ now \in Int
  BY TypeFacts
<1>l. lease \in [Cluster -> [holder : Handler \cup {None}, acq : Int]]
  BY TypeFacts
<1>1. ASSUME NEW pc \in OpPc, SetOp(h, c, At(pc)) PROVE op'[h][c].pc = pc
  BY <1>1, <1>t, AtType, SetOpEffect
<1>2. CASE ServeLock(h, c)
  <2>1. PICK t \in Clock : SetOp(h, c, [At("create") EXCEPT !.acq = t])
    BY <1>2 DEF ServeLock
  <2> DEFINE o == [At("create") EXCEPT !.acq = t]
  <2>2. o \in OpState /\ o.pc = "create" /\ SetOp(h, c, o)
    BY <1>t, <2>1 DEF At, OpState, Clock, OpPc, Locking
  <2> HIDE DEF o
  <2>3. op'[h][c].pc = "create"
    BY <1>t, <2>2, SetOpEffect
  <2>4. op[h][c].pc = "rpc" /\ UNCHANGED <<now, lease>>
    BY <1>2 DEF ServeLock
  <2> QED BY <2>3, <2>4 DEF Obtainable
<1>3. CASE CreateLease(h, c)
  <2>1. op[h][c].pc = "create" /\ now' = now
    BY <1>3 DEF CreateLease
  <2>2. CASE lease[c].holder = None
    BY <1>1, <1>3, <2>2 DEF CreateLease, Obtainable, OpPc
  <2>3. CASE lease[c].holder # None
    <3>1. op'[h][c].pc = "get" /\ lease' = lease
      BY <1>1, <1>3, <2>3 DEF CreateLease, OpPc, Locking
    <3> QED BY <2>1, <2>3, <3>1 DEF Obtainable
  <2> QED BY <2>2, <2>3
<1>4. CASE GetLease(h, c)
  <2>1. op[h][c].pc = "get" /\ UNCHANGED <<now, lease>>
    BY <1>4 DEF GetLease
  <2>2. lease[c].holder # None /\ Expired(lease[c], now - MaxSkew)
    BY <2>1 DEF Obtainable
  <2>3. \A t \in Clock : CanTakeOver(lease[c], t)
    BY <1>t, <1>l, <2>2 DEF CanTakeOver, Expired, Clock
  <2>4. PICK t \in Clock : SetOp(h, c, [pc |-> "update", acq |-> t, seen |-> lease[c].holder])
    BY <1>4, <2>3 DEF GetLease
  <2> DEFINE o == [pc |-> "update", acq |-> t, seen |-> lease[c].holder]
  <2>5. o \in OpState /\ o.pc = "update" /\ o.seen = lease[c].holder /\ SetOp(h, c, o)
    BY <1>t, <1>l, <2>4 DEF OpState, Clock, OpPc, Locking
  <2> HIDE DEF o
  <2>6. o \in OpState /\ SetOp(h, c, o)
    BY <2>5
  <2>7. op'[h][c] = o
    BY <1>t, <2>6, SetOpEffect
  <2> QED BY <2>1, <2>5, <2>7 DEF Obtainable, SameVersion
<1>5. CASE UpdateLease(h, c)
  <2>1. op[h][c].pc = "update"
    BY <1>5 DEF UpdateLease
  <2>2. SameVersion(h, c)
    BY <2>1 DEF Obtainable
  <2> QED BY <1>1, <1>5, <2>2 DEF UpdateLease, Obtainable, OpPc
<1>6. CASE ServeUnlock(h, c) \/ UnlockGet(h, c) \/ UnlockDelete(h, c)
  BY <1>6 DEF ServeUnlock, UnlockGet, UnlockDelete, Obtainable
<1> QED BY <1>2, <1>3, <1>4, <1>5, <1>6 DEF OpStep

\* Nothing takes a request off its course: the others are over, faults spare it, and
\* what has expired stays so.
LEMMA CourseStep ==
  ASSUME TypeOK, PhaseInv, NEW h \in Handler \ Faults, OnCourse(h), [Next]_vars
  PROVE  OnCourse(h)' \/ hpc'[h] = "locked"
<1>t. op \in [Handler -> [Cluster -> OpState]] /\ now \in Int
  BY TypeFacts
<1>l. lease \in [Cluster -> [holder : Handler \cup {None}, acq : Int]]
  BY TypeFacts
<1>h. hpc \in [Handler -> HandlerPc]
  BY TypeFacts
<1>p. PhaseOf(h) /\ Home[h] \in Cluster /\ Remote(h) \subseteq Cluster /\ LockSet(h) \subseteq Cluster
  BY DEF PhaseInv, Remote, LockSet
<1>1. ASSUME NEW g \in Handler \ {h}
      PROVE  hpc[g] \in Terminal /\ \A c \in Cluster : op[g][c].pc \notin Locking \cup Unlocking
  BY DEF OnCourse, Busy
<1>2. ASSUME \A g \in Handler \ {h} : hpc'[g] = hpc[g] /\ \A c \in Cluster : op'[g][c] = op[g][c],
             hpc'[h] \in {"localLock", "remoteLock"},
             \A c \in LockSet(h) : Obtainable(h, c)'
      PROVE  OnCourse(h)'
  BY <1>1, <1>2 DEF OnCourse, Busy, Terminal, Running
<1>3. ASSUME NEW c \in Cluster, op'[h][c] = op[h][c], lease'[c] = lease[c], now <= now', now' \in Int,
             Obtainable(h, c)
      PROVE  Obtainable(h, c)'
  BY <1>3, <1>t, <1>l DEF Obtainable, SameVersion, Expired
<1>4. ASSUME NEW g \in Handler, NEW c \in Cluster, OpStep(g, c) PROVE OnCourse(h)'
  <2>1. PICK o \in OpState : Proceeds(g, c, o)
    BY <1>4, CallProceeds
  <2>2. op[g][c].pc \in Locking \cup Unlocking /\ SetOp(g, c, o) /\ now' = now /\ hpc' = hpc
    BY <2>1 DEF Proceeds
  <2>3. g = h
    BY <1>1, <2>2
  <2>4. \A f \in Handler, d \in Cluster : ~(f = h /\ d = c) => op'[f][d] = op[f][d]
    BY <1>t, <2>2, <2>3, SetOpEffect
  <2>5. \A d \in Cluster \ {c} : lease'[d] = lease[d]
    BY <1>4, <1>l DEF OpStep, ServeLock, CreateLease, GetLease, UpdateLease, ServeUnlock,
         UnlockGet, UnlockDelete
  <2>6. ASSUME NEW d \in LockSet(h) PROVE Obtainable(h, d)'
    <3>1. Obtainable(h, d) /\ d \in Cluster
      BY <1>p DEF OnCourse
    <3>2. CASE d = c
      BY <1>4, <2>3, <3>1, <3>2, CallOnCourse
    <3>3. CASE d # c
      <4>1. op'[h][d] = op[h][d] /\ lease'[d] = lease[d]
        BY <2>4, <2>5, <3>1, <3>3
      <4>2. now <= now' /\ now' \in Int
        BY <1>t, <2>2
      <4> QED BY <1>3, <3>1, <4>1, <4>2
    <3> QED BY <3>2, <3>3
  <2>7. hpc'[h] \in {"localLock", "remoteLock"}
    BY <2>2 DEF OnCourse
  <2> QED BY <1>2, <2>2, <2>4, <2>6, <2>7
<1>5. ASSUME NEW g \in Handler, NEW c \in Cluster, OpError(g, c) PROVE FALSE
  <2>1. g # h /\ op[g][c].pc \in Locking \cup Unlocking
    BY <1>5 DEF OpError, Unlocking
  <2> QED BY <1>1, <2>1
<1>6. ASSUME NEW g \in Handler \ {h},
             BeginLock(g) \/ HandlerStep(g) \/ Admit(g) \/ Reject(g) \/ Disrupt(g) \/ Abort(g)
      PROVE  FALSE
  <2>1. hpc[g] \in Terminal
    BY <1>1
  <2> QED BY <1>6, <2>1 DEF Terminal, Running, BeginLock, HandlerStep, Admit, Reject, Disrupt, Abort,
       LocalLockFailed, LocalLockDone, RemoteLockDone, RemoteLockFailed, LocalUnlockFailed,
       LocalUnlockDone, RemoteUnlockReturned
<1>7. CASE LocalLockDone(h)
  <2>1. hpc[h] = "localLock" /\ FanOut(h, "rpc") /\ UNCHANGED <<now, lease>>
    BY <1>7 DEF LocalLockDone
  <2>2. /\ \A c \in Cluster : op'[h][c] = IF c \in Remote(h) THEN At("rpc") ELSE op[h][c]
        /\ \A g \in Handler \ {h} : op'[g] = op[g]
        /\ At("rpc").pc = "rpc"
    BY <1>t, <2>1, FanOutEffect, AtType DEF OpPc, Locking
  <2>3. hpc'[h] \in {"locked", "remoteLock"} /\ \A g \in Handler \ {h} : hpc'[g] = hpc[g]
    BY <1>7, <1>h DEF LocalLockDone, Goto
  <2>4. ASSUME NEW c \in LockSet(h) PROVE Obtainable(h, c)'
    <3>1. Obtainable(h, c) /\ c \in Cluster
      BY <1>p DEF OnCourse
    <3>2. CASE c \in Remote(h)
      <4>1. op[h][c].pc = "idle"
        BY <1>p, <2>1, <3>2 DEF PhaseOf
      <4>2. op'[h][c].pc = "rpc"
        BY <2>2, <3>1, <3>2
      <4> QED BY <2>1, <3>1, <4>1, <4>2 DEF Obtainable
    <3>3. CASE c \notin Remote(h)
      <4>1. op'[h][c] = op[h][c] /\ lease'[c] = lease[c]
        BY <2>1, <2>2, <3>1, <3>3
      <4>2. now <= now' /\ now' \in Int
        BY <1>t, <2>1
      <4> QED BY <1>3, <3>1, <4>1, <4>2
    <3> QED BY <3>2, <3>3
  <2> QED BY <1>2, <2>2, <2>3, <2>4
<1>8. CASE RemoteLockDone(h)
  BY <1>8, <1>h DEF RemoteLockDone, Goto
<1>9. ~ LocalLockFailed(h) /\ ~ RemoteLockFailed(h)
  <2>1. \A c \in LockSet(h) : op[h][c].pc # "err"
    BY DEF OnCourse, Obtainable
  <2> QED BY <2>1 DEF LocalLockFailed, RemoteLockFailed, LockSet
<1>10. ~(BeginLock(h) \/ Admit(h) \/ Reject(h) \/ Disrupt(h) \/ Abort(h) \/ LocalUnlockFailed(h)
         \/ LocalUnlockDone(h) \/ RemoteUnlockReturned(h))
  BY DEF OnCourse, BeginLock, Admit, Reject, Disrupt, Abort, LocalUnlockFailed, LocalUnlockDone,
         RemoteUnlockReturned
<1>11. CASE Tick \/ Quiescent \/ UNCHANGED vars
  <2>1. UNCHANGED <<lease, hpc, op>> /\ now <= now' /\ now' \in Int
    BY <1>11, <1>t DEF Tick, Quiescent, vars
  <2>2. \A c \in LockSet(h) : Obtainable(h, c)'
    BY <1>3, <1>p, <2>1 DEF OnCourse
  <2>3. hpc'[h] \in {"localLock", "remoteLock"}
    BY <2>1 DEF OnCourse
  <2> QED BY <1>2, <2>1, <2>2, <2>3
<1> QED
  BY <1>4, <1>5, <1>6, <1>7, <1>8, <1>9, <1>10, <1>11 DEF Next, HandlerStep

\* A request that is unopposed is on its course, and stays on it until it has the
\* lock: the safety part of ExpiredLocksHeal, whatever the durations.
THEOREM UnopposedGetsTheLock == Spec => UnopposedStaysOnCourse
<1> DEFINE Stays == \A h \in Handler \ Faults :
             Unopposed(h) \/ OnCourse(h) => OnCourse(h)' \/ hpc'[h] = "locked"
<1>1. ASSUME PhaseInv, NEW h \in Handler, Unopposed(h) PROVE OnCourse(h)
  <2>1. ASSUME NEW c \in LockSet(h) PROVE Obtainable(h, c)
    <3>1. op[h][c].pc \in {"create", "idle"}
      BY <1>1 DEF Unopposed, PhaseInv, PhaseOf, LockSet
    <3> QED BY <1>1, <3>1 DEF Unopposed, Obtainable
  <2> QED BY <1>1, <2>1 DEF Unopposed, OnCourse
<1>2. TypeOK /\ VersioningInv /\ [Next]_vars => Stays
  BY <1>1, CourseStep DEF VersioningInv
<1> QED
  BY <1>2, TypeCorrect, VersioningHolds, PTL DEF Spec, UnopposedStaysOnCourse
=============================================================================
