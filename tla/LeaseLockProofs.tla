-------------------------- MODULE LeaseLockProofs --------------------------
(***************************************************************************)
(* Proofs about LeaseLock, for every set of clusters and requests, every   *)
(* endpoint configuration and every duration.                              *)
(***************************************************************************)
EXTENDS LeaseLock, TLAPS

USE TopologyAssumption, ClockAssumption

\* At(pc) is the state of a call that carries no data.
LEMMA AtType ==
  ASSUME NEW pc \in OpPc
  PROVE  At(pc) \in OpState /\ At(pc).pc = pc
BY DEF At, OpState

\* SetOp replaces the state of one call and of no other.
LEMMA SetOpEffect ==
  ASSUME op \in [Handler -> [Cluster -> OpState]],
         NEW h \in Handler, NEW c \in Cluster, NEW o \in OpState, SetOp(h, c, o)
  PROVE  /\ op' \in [Handler -> [Cluster -> OpState]]
         /\ op'[h][c] = o
         /\ \A g \in Handler, d \in Cluster : ~(g = h /\ d = c) => op'[g][d] = op[g][d]
<1>1. [op[h] EXCEPT ![c] = o] \in [Cluster -> OpState]
  OBVIOUS
<1> QED
  BY <1>1 DEF SetOp

\* FanOut replaces the states of the calls of one request in its remote clusters.
LEMMA FanOutEffect ==
  ASSUME op \in [Handler -> [Cluster -> OpState]],
         NEW h \in Handler, NEW pc \in OpPc, FanOut(h, pc)
  PROVE  /\ op' \in [Handler -> [Cluster -> OpState]]
         /\ \A c \in Cluster : op'[h][c] = IF c \in Remote(h) THEN At(pc) ELSE op[h][c]
         /\ \A g \in Handler \ {h} : op'[g] = op[g]
<1>1. [c \in Cluster |-> IF c \in Remote(h) THEN At(pc) ELSE op[h][c]] \in [Cluster -> OpState]
  BY AtType
<1> QED
  BY <1>1 DEF FanOut

\* What a call reads and writes stays within the types, whatever the step.
LEMMA TypeStep == TypeOK /\ [Next]_vars => TypeOK'
<1> SUFFICES ASSUME TypeOK, [Next]_vars PROVE TypeOK'
  OBVIOUS
<1> DEFINE UpdateOK == \A h \in Handler, c \in Cluster : op[h][c].pc = "update" => op[h][c].seen \in Handler
<1> USE DEF Locking, Unlocking, OpPc, Running, Terminal, HandlerPc, Goto
<1>1. ASSUME NEW h \in Handler, NEW c \in Cluster, NEW o \in OpState, SetOp(h, c, o),
             o.pc = "update" => o.seen \in Handler
      PROVE  op' \in [Handler -> [Cluster -> OpState]] /\ UpdateOK'
  <2>1. /\ op' \in [Handler -> [Cluster -> OpState]]
        /\ op'[h][c] = o
        /\ \A g \in Handler, d \in Cluster : ~(g = h /\ d = c) => op'[g][d] = op[g][d]
    BY <1>1, SetOpEffect DEF TypeOK
  <2>2. ASSUME NEW g \in Handler, NEW d \in Cluster, op'[g][d].pc = "update"
        PROVE  op'[g][d].seen \in Handler
    BY <1>1, <2>1, <2>2 DEF TypeOK
  <2> QED
    BY <2>1, <2>2
<1>2. ASSUME NEW h \in Handler, NEW c \in Cluster, NEW pc \in OpPc \ {"update"}, SetOp(h, c, At(pc))
      PROVE  op' \in [Handler -> [Cluster -> OpState]] /\ UpdateOK'
  BY <1>1, <1>2, AtType
<1>3. ASSUME NEW h \in Handler, NEW pc \in OpPc \ {"update"}, FanOut(h, pc)
      PROVE  op' \in [Handler -> [Cluster -> OpState]] /\ UpdateOK'
  <2>1. /\ op' \in [Handler -> [Cluster -> OpState]]
        /\ \A c \in Cluster : op'[h][c] = IF c \in Remote(h) THEN At(pc) ELSE op[h][c]
        /\ \A g \in Handler \ {h} : op'[g] = op[g]
    BY <1>3, FanOutEffect DEF TypeOK
  <2>2. ASSUME NEW g \in Handler, NEW d \in Cluster, op'[g][d].pc = "update"
        PROVE  op'[g][d].seen \in Handler
    <3>1. At(pc).pc # "update"
      BY AtType
    <3>2. op'[g][d] = op[g][d]
      BY <2>1, <2>2, <3>1
    <3> QED
      BY <2>2, <3>2 DEF TypeOK
  <2> QED
    BY <2>1, <2>2
<1>4. ASSUME NEW t \in Clock
      PROVE  [At("create") EXCEPT !.acq = t] \in OpState /\ [At("create") EXCEPT !.acq = t].pc = "create"
  BY DEF At, OpState, Clock, TypeOK
<1>5. ASSUME NEW h \in Handler, BeginLock(h) PROVE TypeOK'
  BY <1>5, <1>1, <1>4 DEF BeginLock, TypeOK
<1>6. ASSUME NEW h \in Handler, HandlerStep(h) PROVE TypeOK'
  <2>1. CASE LocalLockDone(h)
    BY <2>1, <1>3 DEF LocalLockDone, TypeOK
  <2>2. CASE LocalUnlockDone(h)
    BY <2>2, <1>3 DEF LocalUnlockDone, TypeOK
  <2>3. CASE LocalLockFailed(h)
    BY <2>3 DEF LocalLockFailed, TypeOK
  <2>4. CASE RemoteLockDone(h)
    BY <2>4 DEF RemoteLockDone, TypeOK
  <2>5. CASE RemoteLockFailed(h)
    BY <2>5 DEF RemoteLockFailed, TypeOK
  <2>6. CASE LocalUnlockFailed(h)
    BY <2>6 DEF LocalUnlockFailed, TypeOK
  <2>7. CASE RemoteUnlockReturned(h)
    BY <2>7 DEF RemoteUnlockReturned, TypeOK
  <2> QED
    BY <1>6, <2>1, <2>2, <2>3, <2>4, <2>5, <2>6, <2>7 DEF HandlerStep
<1>7. ASSUME NEW h \in Handler, Admit(h) \/ Disrupt(h) \/ Abort(h) PROVE TypeOK'
  BY <1>7 DEF Admit, Disrupt, Abort, TypeOK
<1>8. ASSUME NEW h \in Handler, Reject(h) PROVE TypeOK'
  BY <1>8, <1>2 DEF Reject, TypeOK
<1>9. ASSUME NEW h \in Handler, NEW c \in Cluster, OpStep(h, c) PROVE TypeOK'
  <2>1. CASE ServeLock(h, c)
    BY <2>1, <1>1, <1>4 DEF ServeLock, TypeOK
  <2>2. CASE CreateLease(h, c)
    <3>1. op' \in [Handler -> [Cluster -> OpState]] /\ UpdateOK'
      BY <2>2, <1>2 DEF CreateLease
    <3>2. NewLease(h, op[h][c].acq) \in [holder : Handler \cup {None}, acq : Int]
      BY DEF NewLease, TypeOK, OpState
    <3>3. lease' \in [Cluster -> [holder : Handler \cup {None}, acq : Int]]
      BY <2>2, <3>2 DEF CreateLease, TypeOK
    <3> QED
      BY <2>2, <3>1, <3>3 DEF CreateLease, TypeOK
  <2>3. CASE GetLease(h, c)
    <3>1. PICK t \in Clock : SetOp(h, c, IF CanTakeOver(lease[c], t)
                               THEN [pc |-> "update", acq |-> t, seen |-> lease[c].holder]
                               ELSE At("err"))
      BY <2>3 DEF GetLease
    <3>2. CASE CanTakeOver(lease[c], t)
      <4> DEFINE o == [pc |-> "update", acq |-> t, seen |-> lease[c].holder]
      <4>1. o \in OpState /\ o.seen \in Handler
        BY <3>2 DEF CanTakeOver, OpState, Clock, TypeOK
      <4> QED
        BY <2>3, <3>1, <3>2, <4>1, <1>1 DEF GetLease, TypeOK
    <3>3. CASE ~ CanTakeOver(lease[c], t)
      BY <2>3, <3>1, <3>3, <1>2 DEF GetLease, TypeOK
    <3> QED
      BY <3>2, <3>3
  <2>4. CASE UpdateLease(h, c)
    <3>1. op' \in [Handler -> [Cluster -> OpState]] /\ UpdateOK'
      BY <2>4, <1>2 DEF UpdateLease
    <3>2. NewLease(h, op[h][c].acq) \in [holder : Handler \cup {None}, acq : Int]
      BY DEF NewLease, TypeOK, OpState
    <3>3. lease' \in [Cluster -> [holder : Handler \cup {None}, acq : Int]]
      BY <2>4, <3>2 DEF UpdateLease, TypeOK
    <3> QED
      BY <2>4, <3>1, <3>3 DEF UpdateLease, TypeOK
  <2>5. CASE ServeUnlock(h, c)
    BY <2>5, <1>2 DEF ServeUnlock, TypeOK
  <2>6. CASE UnlockGet(h, c)
    BY <2>6, <1>2 DEF UnlockGet, AfterUnlockGet, TypeOK
  <2>7. CASE UnlockDelete(h, c)
    BY <2>7, <1>2 DEF UnlockDelete, NoLease, TypeOK
  <2> QED
    BY <1>9, <2>1, <2>2, <2>3, <2>4, <2>5, <2>6, <2>7 DEF OpStep
<1>10. ASSUME NEW h \in Handler, NEW c \in Cluster, OpError(h, c) PROVE TypeOK'
  BY <1>10, <1>2 DEF OpError, TypeOK
<1>11. CASE Tick
  BY <1>11 DEF Tick, TypeOK
<1>12. CASE Quiescent \/ UNCHANGED vars
  BY <1>12 DEF Quiescent, vars, TypeOK
<1> QED
  BY <1>5, <1>6, <1>7, <1>8, <1>9, <1>10, <1>11, <1>12 DEF Next

\* The lease, the calls and the program counters of LeaseLock keep their types.
THEOREM TypeCorrect == Spec => []TypeOK
<1>1. Init => TypeOK
  BY DEF Init, TypeOK, NoLease, At, HandlerPc, OpPc, OpState
<1> QED
  BY <1>1, TypeStep, PTL DEF Spec

-----------------------------------------------------------------------------
\* Only an entry into Lock makes a request busy: no other step that changes a
\* single call does.
LEMMA OpBusy ==
  ASSUME TypeOK, NEW h \in Handler, NEW c \in Cluster, NEW o \in OpState,
         op[h][c].pc \in Locking \cup Unlocking, SetOp(h, c, o), hpc' = hpc,
         NEW g \in Handler, Busy(g)'
  PROVE  Busy(g)
<1>1. \A f \in Handler, d \in Cluster : ~(f = h /\ d = c) => op'[f][d] = op[f][d]
  BY SetOpEffect DEF TypeOK
<1>2. CASE hpc'[g] \in Running
  BY <1>2 DEF Busy
<1>3. CASE \E d \in Cluster : op'[g][d].pc \in Locking \cup Unlocking
  BY <1>1, <1>3 DEF Busy
<1> QED
  BY <1>2, <1>3 DEF Busy

\* The calls that a phase pins down are idle or finished, so a call in progress
\* may move on without disturbing PhaseInv.
LEMMA OpPhase ==
  ASSUME TypeOK, PhaseInv, NEW h \in Handler, NEW c \in Cluster, NEW o \in OpState,
         op[h][c].pc \in Locking \cup Unlocking, SetOp(h, c, o), hpc' = hpc
  PROVE  PhaseInv'
<1>1. \A f \in Handler, d \in Cluster : ~(f = h /\ d = c) => op'[f][d] = op[f][d]
  BY SetOpEffect DEF TypeOK
<1>2. op[h][c].pc # "idle" /\ op[h][c].pc # "ok"
  BY DEF Locking, Unlocking
<1> QED
  BY <1>1, <1>2 DEF PhaseInv, PhaseOf, Remote, LockSet

\* The phase of a request depends on its own program counter and calls only.
LEMMA PhaseFrame ==
  ASSUME NEW g \in Handler, PhaseOf(g), hpc'[g] = hpc[g],
         \A d \in Cluster : op'[g][d] = op[g][d]
  PROVE  PhaseOf(g)'
<1>1. Home[g] \in Cluster /\ Remote(g) \subseteq Cluster /\ LockSet(g) \subseteq Cluster
  BY DEF Remote, LockSet
<1> QED
  BY <1>1 DEF PhaseOf

\* A step of one call that writes no lease preserves the invariant if it claims
\* no lease, forgets no write, and prepares an Update only of an expired lease
\* it has just read.
LEMMA OpOnlyStep ==
  ASSUME TypeOK, LockInv, NEW h \in Handler, NEW c \in Cluster, NEW o \in OpState,
         op[h][c].pc \in Locking \cup Unlocking, SetOp(h, c, o),
         UNCHANGED <<now, lease, hpc, start>>,
         o.pc \in {"create", "update"} => start[h] - MaxSkew <= o.acq,
         o.pc \in {"ok", "urpc", "uget", "delete"} => op[h][c].pc \in {"ok", "urpc", "uget", "delete"},
         op[h][c].pc \in Written => o.pc \in Written,
         o.pc = "update" => /\ o.seen = lease[c].holder
                            /\ o.seen \in Handler
                            /\ Expired(lease[c], now + MaxSkew)
  PROVE  LockInv'
<1>1. /\ op' \in [Handler -> [Cluster -> OpState]]
      /\ op'[h][c] = o
      /\ \A g \in Handler, d \in Cluster : ~(g = h /\ d = c) => op'[g][d] = op[g][d]
  BY SetOpEffect DEF TypeOK
<1>2. \A g \in Handler : Busy(g)' => Busy(g)
  BY OpBusy
<1>3. PhaseInv'
  BY OpPhase DEF LockInv
<1>4. TimeInv'
  BY <1>2 DEF LockInv, TimeInv
<1>5. StampInv'
  <2> SUFFICES ASSUME NEW g \in Handler, NEW d \in Cluster, op'[g][d].pc \in {"create", "update"}
               PROVE  start'[g] - MaxSkew <= op'[g][d].acq
    BY DEF StampInv
  <2> QED
    BY <1>1 DEF LockInv, StampInv
<1>6. OwnInv'
  <2> SUFFICES ASSUME NEW g \in Handler, NEW d \in Cluster, Busy(g)',
                      op'[g][d].pc \in {"ok", "urpc", "uget", "delete"}
               PROVE  lease'[d].holder = g /\ start'[g] - MaxSkew <= lease'[d].acq
    BY DEF OwnInv
  <2> QED
    BY <1>1, <1>2 DEF LockInv, OwnInv
<1>7. VersionInv'
  <2>1. \A g \in Handler, d \in Cluster : op[g][d].pc \in Written => op'[g][d].pc \in Written
    BY <1>1
  <2>2. ASSUME NEW d \in Cluster, lease'[d].holder # None PROVE op'[lease'[d].holder][d].pc \in Written
    BY <2>1, <2>2 DEF LockInv, VersionInv, TypeOK
  <2>3. ASSUME NEW g \in Handler, NEW d \in Cluster, op'[g][d].pc = "update"
        PROVE  op'[op'[g][d].seen][d].pc \in Written
    <3>1. CASE g = h /\ d = c
      BY <1>1, <2>1, <2>3, <3>1 DEF LockInv, VersionInv, TypeOK
    <3>2. CASE ~(g = h /\ d = c)
      <4>1. op[g][d].seen \in Handler /\ op[op[g][d].seen][d].pc \in Written
        BY <1>1, <2>3, <3>2 DEF LockInv, VersionInv, TypeOK
      <4> QED
        BY <1>1, <2>1, <3>2, <4>1
    <3> QED
      BY <3>1, <3>2
  <2> QED
    BY <2>2, <2>3 DEF VersionInv
<1>8. TakeoverInv'
  <2> SUFFICES ASSUME NEW g \in Handler, NEW d \in Cluster,
                      op'[g][d].pc = "update", lease'[d].holder = op'[g][d].seen
               PROVE  lease'[d].acq + LeaseDuration <= now' + MaxSkew
    BY DEF TakeoverInv, SameVersion, Expired
  <2> QED
    BY <1>1 DEF LockInv, TakeoverInv, SameVersion, Expired
<1> QED
  BY <1>3, <1>4, <1>5, <1>6, <1>7, <1>8 DEF LockInv

\* A write of a lease that no request in progress owns preserves the invariant.
LEMMA WriteStep ==
  ASSUME TypeOK, LockInv, NEW h \in Handler, NEW c \in Cluster,
         op[h][c].pc \in {"create", "update"}, SetOp(h, c, At("ok")),
         lease' = [lease EXCEPT ![c] = NewLease(h, op[h][c].acq)],
         UNCHANGED <<now, hpc, start>>,
         \A g \in Handler : ~(Busy(g) /\ op[g][c].pc \in {"ok", "urpc", "uget", "delete"})
  PROVE  LockInv'
<1>1. /\ op' \in [Handler -> [Cluster -> OpState]]
      /\ op'[h][c].pc = "ok"
      /\ \A g \in Handler, d \in Cluster : ~(g = h /\ d = c) => op'[g][d] = op[g][d]
  BY SetOpEffect, AtType DEF TypeOK, OpPc
<1>2. \A g \in Handler : Busy(g)' => Busy(g)
  BY OpBusy, AtType DEF OpPc, Locking
<1>3. PhaseInv'
  BY OpPhase, AtType DEF LockInv, OpPc, Locking
<1>4. TimeInv'
  BY <1>2 DEF LockInv, TimeInv
<1>5. StampInv'
  <2> SUFFICES ASSUME NEW g \in Handler, NEW d \in Cluster, op'[g][d].pc \in {"create", "update"}
               PROVE  start'[g] - MaxSkew <= op'[g][d].acq
    BY DEF StampInv
  <2> QED
    BY <1>1 DEF LockInv, StampInv
<1>6. /\ lease'[c] = [holder |-> h, acq |-> op[h][c].acq]
      /\ \A d \in Cluster \ {c} : lease'[d] = lease[d]
  BY DEF NewLease, TypeOK
<1>7. OwnInv'
  <2> SUFFICES ASSUME NEW g \in Handler, NEW d \in Cluster, Busy(g)',
                      op'[g][d].pc \in {"ok", "urpc", "uget", "delete"}
               PROVE  lease'[d].holder = g /\ start[g] - MaxSkew <= lease'[d].acq
    BY DEF OwnInv
  <2>1. CASE g = h /\ d = c
    BY <2>1, <1>6 DEF LockInv, StampInv
  <2>2. CASE g # h /\ d = c
    BY <2>2, <1>1, <1>2
  <2>3. CASE d # c
    BY <2>3, <1>1, <1>2, <1>6 DEF LockInv, OwnInv
  <2> QED
    BY <2>1, <2>2, <2>3
<1>8. op[h][c].pc \notin Written
  BY DEF Written
<1>9. \A g \in Handler, d \in Cluster : op[g][d].pc \in Written => op'[g][d].pc \in Written
  BY <1>1 DEF Written
<1>10. ASSUME NEW g \in Handler, NEW d \in Cluster, op'[g][d].pc = "update"
       PROVE  /\ op'[g][d] = op[g][d]
              /\ op[g][d].seen \in Handler
              /\ op[op[g][d].seen][d].pc \in Written
  <2>1. op'[g][d] = op[g][d]
    BY <1>1, <1>10
  <2> QED
    BY <1>10, <2>1 DEF LockInv, VersionInv, TypeOK
<1>11. VersionInv'
  <2>1. ASSUME NEW d \in Cluster, lease'[d].holder # None PROVE op'[lease'[d].holder][d].pc \in Written
    <3>1. CASE d = c
      <4>1. lease'[d].holder = h
        BY <3>1, <1>6
      <4>2. op'[h][d].pc = "ok"
        BY <3>1, <1>1
      <4> QED
        BY <4>1, <4>2 DEF Written
    <3>2. CASE d # c
      <4>1. lease'[d] = lease[d]
        BY <3>2, <1>6
      <4>2. lease[d].holder \in Handler /\ op[lease[d].holder][d].pc \in Written
        BY <2>1, <4>1 DEF LockInv, VersionInv, TypeOK
      <4> QED
        BY <4>1, <4>2, <1>9
    <3> QED
      BY <3>1, <3>2
  <2> QED
    BY <2>1, <1>9, <1>10 DEF VersionInv
<1>12. TakeoverInv'
  <2> SUFFICES ASSUME NEW g \in Handler, NEW d \in Cluster,
                      op'[g][d].pc = "update", lease'[d].holder = op'[g][d].seen
               PROVE  lease'[d].acq + LeaseDuration <= now' + MaxSkew
    BY DEF TakeoverInv, SameVersion, Expired
  <2>1. op'[g][d] = op[g][d] /\ op[op[g][d].seen][d].pc \in Written
    BY <1>10
  <2>2. d # c
    BY <1>6, <1>8, <2>1
  <2>3. lease'[d] = lease[d] /\ now' = now
    BY <1>6, <2>2
  <2> QED
    BY <2>1, <2>3 DEF LockInv, TakeoverInv, SameVersion, Expired
<1> QED
  BY <1>3, <1>4, <1>5, <1>7, <1>11, <1>12 DEF LockInv

\* Deleting the request's own lease preserves the invariant.
LEMMA DeleteStep ==
  ASSUME TypeOK, LockInv, NEW h \in Handler, NEW c \in Cluster, UnlockDelete(h, c)
  PROVE  LockInv'
<1> DEFINE pc == IF lease[c].holder = None THEN "uerr" ELSE "uok"
<1>1. /\ op[h][c].pc = "delete"
      /\ op[h][c].pc \in Locking \cup Unlocking
      /\ SetOp(h, c, At(pc))
      /\ UNCHANGED <<now, hpc, start>>
      /\ lease' = [lease EXCEPT ![c] = NoLease]
  BY DEF UnlockDelete, Unlocking
<1>2. pc \in OpPc /\ At(pc) \in OpState /\ At(pc).pc = pc
  BY AtType DEF OpPc
<1>3. /\ op' \in [Handler -> [Cluster -> OpState]]
      /\ op'[h][c].pc = pc
      /\ \A g \in Handler, d \in Cluster : ~(g = h /\ d = c) => op'[g][d] = op[g][d]
  BY <1>1, <1>2, SetOpEffect DEF TypeOK
<1>4. \A g \in Handler : Busy(g)' => Busy(g)
  BY <1>1, <1>2, OpBusy
<1>5. PhaseInv'
  BY <1>1, <1>2, OpPhase DEF LockInv
<1>6. TimeInv'
  BY <1>1, <1>4 DEF LockInv, TimeInv
<1>7. StampInv'
  <2> SUFFICES ASSUME NEW g \in Handler, NEW d \in Cluster, op'[g][d].pc \in {"create", "update"}
               PROVE  start'[g] - MaxSkew <= op'[g][d].acq
    BY DEF StampInv
  <2> QED
    BY <1>1, <1>3 DEF LockInv, StampInv
<1>8. Busy(h) /\ lease[c].holder = h
  BY <1>1 DEF LockInv, OwnInv, Busy
<1>9. lease'[c].holder = None /\ \A d \in Cluster \ {c} : lease'[d] = lease[d]
  BY <1>1 DEF TypeOK, NoLease
<1>10. OwnInv'
  <2> SUFFICES ASSUME NEW g \in Handler, NEW d \in Cluster, Busy(g)',
                      op'[g][d].pc \in {"ok", "urpc", "uget", "delete"}
               PROVE  lease'[d].holder = g /\ start[g] - MaxSkew <= lease'[d].acq
    BY <1>1 DEF OwnInv
  <2>1. CASE g = h /\ d = c
    BY <2>1, <1>3
  <2>2. CASE g # h /\ d = c
    BY <2>2, <1>3, <1>4, <1>8 DEF LockInv, OwnInv
  <2>3. CASE d # c
    BY <2>3, <1>3, <1>4, <1>9 DEF LockInv, OwnInv
  <2> QED
    BY <2>1, <2>2, <2>3
<1>11. \A g \in Handler, d \in Cluster : op[g][d].pc \in Written => op'[g][d].pc \in Written
  BY <1>3 DEF Written
<1>12. ASSUME NEW g \in Handler, NEW d \in Cluster, op'[g][d].pc = "update"
       PROVE  /\ op'[g][d] = op[g][d]
              /\ op[g][d].seen \in Handler
              /\ op[op[g][d].seen][d].pc \in Written
  BY <1>3, <1>12 DEF LockInv, VersionInv, TypeOK
<1>13. VersionInv'
  <2>1. ASSUME NEW d \in Cluster, lease'[d].holder # None PROVE op'[lease'[d].holder][d].pc \in Written
    BY <2>1, <1>9, <1>11 DEF LockInv, VersionInv, TypeOK
  <2> QED
    BY <2>1, <1>11, <1>12 DEF VersionInv
<1>14. TakeoverInv'
  <2> SUFFICES ASSUME NEW g \in Handler, NEW d \in Cluster,
                      op'[g][d].pc = "update", lease'[d].holder = op'[g][d].seen
               PROVE  lease'[d].acq + LeaseDuration <= now' + MaxSkew
    BY DEF TakeoverInv, SameVersion, Expired
  <2>1. op'[g][d] = op[g][d] /\ op[g][d].seen # None /\ now' = now
    BY <1>1, <1>12
  <2>2. lease'[d] = lease[d]
    BY <1>9, <2>1
  <2> QED
    BY <2>1, <2>2 DEF LockInv, TakeoverInv, SameVersion, Expired
<1> QED
  BY <1>5, <1>6, <1>7, <1>10, <1>13, <1>14 DEF LockInv

\* A step of the request's own control flow that starts no call.
LEMMA GotoStep ==
  ASSUME TypeOK, LockInv, NEW h \in Handler, NEW pc \in HandlerPc, Goto(h, pc),
         hpc[h] \in Running, UNCHANGED <<now, lease, op, start>>,
         pc \in Window => \A c \in LockSet(h) : op[h][c].pc = "ok",
         pc \in {"refused", "disrupted"} \cup Window
  PROVE  LockInv'
<1>1. hpc'[h] = pc /\ \A g \in Handler \ {h} : hpc'[g] = hpc[g]
  BY DEF Goto, TypeOK
<1>2. \A g \in Handler : Busy(g)' => Busy(g)
  BY <1>1 DEF Busy
<1>3. PhaseInv'
  BY <1>1 DEF LockInv, PhaseInv, PhaseOf, Window
<1>4. TimeInv'
  BY <1>2 DEF LockInv, TimeInv
<1>5. OwnInv'
  <2> SUFFICES ASSUME NEW g \in Handler, NEW d \in Cluster, Busy(g)',
                      op'[g][d].pc \in {"ok", "urpc", "uget", "delete"}
               PROVE  lease'[d].holder = g /\ start'[g] - MaxSkew <= lease'[d].acq
    BY DEF OwnInv
  <2> QED
    BY <1>2 DEF LockInv, OwnInv
<1> QED
  BY <1>3, <1>4, <1>5 DEF LockInv, StampInv, VersionInv, TakeoverInv, SameVersion, Expired

\* Starting the calls of a fan-out, either all of them for the first time or all
\* of them on leases the request owns.
LEMMA FanOutStep ==
  ASSUME TypeOK, LockInv, NEW h \in Handler, NEW pc \in HandlerPc, NEW r \in {"rpc", "urpc"},
         Goto(h, pc), FanOut(h, r), hpc[h] \in Running, UNCHANGED <<now, lease, start>>,
         \A c \in Remote(h) : op[h][c].pc = IF r = "rpc" THEN "idle" ELSE "ok",
         \/ pc = "remoteLock" /\ op[h][Home[h]].pc = "ok"
         \/ pc = "locked" /\ op[h][Home[h]].pc = "ok" /\ Remote(h) = {}
         \/ pc \in {"remoteUnlock", "refused"}
  PROVE  LockInv'
<1>1. hpc'[h] = pc /\ \A g \in Handler \ {h} : hpc'[g] = hpc[g]
  BY DEF Goto, TypeOK
<1>2. /\ op' \in [Handler -> [Cluster -> OpState]]
      /\ \A c \in Cluster : op'[h][c] = IF c \in Remote(h) THEN At(r) ELSE op[h][c]
      /\ \A g \in Handler \ {h} : op'[g] = op[g]
      /\ At(r).pc = r
  BY FanOutEffect, AtType DEF TypeOK, OpPc, Locking, Unlocking
<1>3. \A g \in Handler : Busy(g)' => Busy(g)
  BY <1>1, <1>2 DEF Busy
<1>4. PhaseInv'
  <2>1. Home[h] \notin Remote(h) /\ Home[h] \in Cluster /\ Remote(h) \subseteq Cluster
    BY DEF Remote
  <2>2. PhaseOf(h)'
    BY <1>1, <1>2, <2>1 DEF PhaseOf, Window, LockSet
  <2>3. ASSUME NEW g \in Handler \ {h} PROVE PhaseOf(g)'
    BY <1>1, <1>2, PhaseFrame DEF LockInv, PhaseInv
  <2> QED
    BY <2>2, <2>3 DEF PhaseInv
<1>5. TimeInv'
  BY <1>3 DEF LockInv, TimeInv
<1>6. StampInv'
  <2> SUFFICES ASSUME NEW g \in Handler, NEW d \in Cluster, op'[g][d].pc \in {"create", "update"}
               PROVE  start'[g] - MaxSkew <= op'[g][d].acq
    BY DEF StampInv
  <2> QED
    BY <1>2 DEF LockInv, StampInv
<1>7. OwnInv'
  <2> SUFFICES ASSUME NEW g \in Handler, NEW d \in Cluster, Busy(g)',
                      op'[g][d].pc \in {"ok", "urpc", "uget", "delete"}
               PROVE  lease'[d].holder = g /\ start'[g] - MaxSkew <= lease'[d].acq
    BY DEF OwnInv
  <2> QED
    BY <1>2, <1>3 DEF LockInv, OwnInv
<1>8. \A g \in Handler, d \in Cluster : op[g][d].pc \in Written => op'[g][d].pc \in Written
  BY <1>2 DEF Written
<1>9. ASSUME NEW g \in Handler, NEW d \in Cluster, op'[g][d].pc = "update"
      PROVE  /\ op'[g][d] = op[g][d]
             /\ op[g][d].seen \in Handler
             /\ op[op[g][d].seen][d].pc \in Written
  <2>1. op'[g][d] = op[g][d]
    BY <1>2, <1>9
  <2> QED
    BY <1>9, <2>1 DEF LockInv, VersionInv, TypeOK
<1>10. VersionInv'
  <2>1. ASSUME NEW d \in Cluster, lease'[d].holder # None PROVE op'[lease'[d].holder][d].pc \in Written
    BY <2>1, <1>8 DEF LockInv, VersionInv, TypeOK
  <2> QED
    BY <2>1, <1>8, <1>9 DEF VersionInv
<1>11. TakeoverInv'
  <2> SUFFICES ASSUME NEW g \in Handler, NEW d \in Cluster,
                      op'[g][d].pc = "update", lease'[d].holder = op'[g][d].seen
               PROVE  lease'[d].acq + LeaseDuration <= now' + MaxSkew
    BY DEF TakeoverInv, SameVersion, Expired
  <2>1. op'[g][d] = op[g][d] /\ lease' = lease /\ now' = now
    BY <1>9
  <2> QED
    BY <2>1 DEF LockInv, TakeoverInv, SameVersion, Expired
<1> QED
  BY <1>4, <1>5, <1>6, <1>7, <1>10, <1>11 DEF LockInv

\* Entering Lock preserves the invariant.
LEMMA BeginStep ==
  ASSUME TypeOK, LockInv, NEW h \in Handler, BeginLock(h)
  PROVE  LockInv'
<1>1. PICK t \in Clock : SetOp(h, Home[h], [At("create") EXCEPT !.acq = t])
  BY DEF BeginLock
<1> DEFINE c == Home[h]
           o == [At("create") EXCEPT !.acq = t]
<1>2. o \in OpState /\ o.pc = "create" /\ o.acq = t /\ now - MaxSkew <= t /\ c \in Cluster
  BY DEF At, OpState, OpPc, Locking, Clock, TypeOK
<1>3. /\ op' \in [Handler -> [Cluster -> OpState]]
      /\ op'[h][c] = o
      /\ \A g \in Handler, d \in Cluster : ~(g = h /\ d = c) => op'[g][d] = op[g][d]
  BY <1>1, <1>2, SetOpEffect DEF TypeOK
<1> HIDE DEF o
<1>4. /\ hpc[h] = "idle" /\ hpc'[h] = "localLock" /\ start'[h] = now
      /\ \A g \in Handler \ {h} : hpc'[g] = hpc[g] /\ start'[g] = start[g]
      /\ now' = now /\ lease' = lease
  BY DEF BeginLock, Goto, TypeOK
<1>5. \A d \in Cluster : op[h][d].pc = "idle"
  BY <1>4 DEF LockInv, PhaseInv, PhaseOf
<1>6. \A g \in Handler \ {h} : Busy(g)' => Busy(g)
  BY <1>3, <1>4 DEF Busy
<1>7. PhaseInv'
  <2>1. c \notin Remote(h) /\ Remote(h) \subseteq Cluster
    BY DEF Remote
  <2>2. PhaseOf(h)'
    BY <1>3, <1>4, <1>5, <2>1 DEF PhaseOf, Window
  <2>3. ASSUME NEW g \in Handler \ {h} PROVE PhaseOf(g)'
    BY <1>3, <1>4, PhaseFrame DEF LockInv, PhaseInv
  <2> QED
    BY <2>2, <2>3 DEF PhaseInv
<1>8. TimeInv'
  <2>1. ASSUME NEW g \in Handler, Busy(g)' PROVE start'[g] <= now /\ now <= start'[g] + MaxWork
    <3>1. CASE g = h
      BY <1>4, <3>1 DEF TypeOK
    <3>2. CASE g # h
      BY <1>4, <1>6, <2>1, <3>2 DEF LockInv, TimeInv
    <3> QED
      BY <3>1, <3>2
  <2> QED
    BY <1>4, <2>1 DEF TimeInv
<1>9. StampInv'
  <2> SUFFICES ASSUME NEW g \in Handler, NEW d \in Cluster, op'[g][d].pc \in {"create", "update"}
               PROVE  start'[g] - MaxSkew <= op'[g][d].acq
    BY DEF StampInv
  <2> QED
    BY <1>2, <1>3, <1>4, <1>5 DEF LockInv, StampInv
<1>10. OwnInv'
  <2> SUFFICES ASSUME NEW g \in Handler, NEW d \in Cluster, Busy(g)',
                      op'[g][d].pc \in {"ok", "urpc", "uget", "delete"}
               PROVE  lease'[d].holder = g /\ start'[g] - MaxSkew <= lease'[d].acq
    BY DEF OwnInv
  <2>1. g # h
    BY <1>2, <1>3, <1>5
  <2>2. op'[g][d] = op[g][d] /\ start'[g] = start[g] /\ lease' = lease /\ Busy(g)
    BY <1>3, <1>4, <1>6, <2>1
  <2> QED
    BY <2>2 DEF LockInv, OwnInv
<1>11. \A g \in Handler, d \in Cluster : op[g][d].pc \in Written => op'[g][d].pc \in Written
  BY <1>2, <1>3, <1>5 DEF Written
<1>12. ASSUME NEW g \in Handler, NEW d \in Cluster, op'[g][d].pc = "update"
       PROVE  /\ op'[g][d] = op[g][d]
              /\ op[g][d].seen \in Handler
              /\ op[op[g][d].seen][d].pc \in Written
  <2>1. op'[g][d] = op[g][d]
    BY <1>2, <1>3, <1>12
  <2> QED
    BY <1>12, <2>1 DEF LockInv, VersionInv, TypeOK
<1>13. VersionInv'
  <2>1. ASSUME NEW d \in Cluster, lease'[d].holder # None PROVE op'[lease'[d].holder][d].pc \in Written
    <3>1. lease[d].holder \in Handler /\ op[lease[d].holder][d].pc \in Written
      BY <2>1, <1>4 DEF LockInv, VersionInv, TypeOK
    <3> QED
      BY <3>1, <1>4, <1>11
  <2> QED
    BY <2>1, <1>11, <1>12 DEF VersionInv
<1>14. TakeoverInv'
  <2> SUFFICES ASSUME NEW g \in Handler, NEW d \in Cluster,
                      op'[g][d].pc = "update", lease'[d].holder = op'[g][d].seen
               PROVE  lease'[d].acq + LeaseDuration <= now' + MaxSkew
    BY DEF TakeoverInv, SameVersion, Expired
  <2> QED
    BY <1>4, <1>12 DEF LockInv, TakeoverInv, SameVersion, Expired
<1> QED
  BY <1>7, <1>8, <1>9, <1>10, <1>13, <1>14 DEF LockInv

\* Starting Unlock preserves the invariant: the lease to release is owned.
LEMMA RejectStep ==
  ASSUME TypeOK, LockInv, NEW h \in Handler, Reject(h)
  PROVE  LockInv'
<1> DEFINE c == Home[h]
           o == At("uget")
<1>1. o \in OpState /\ o.pc = "uget" /\ c \in Cluster
  BY AtType DEF OpPc, Unlocking
<1>2. /\ op' \in [Handler -> [Cluster -> OpState]]
      /\ op'[h][c] = o
      /\ \A g \in Handler, d \in Cluster : ~(g = h /\ d = c) => op'[g][d] = op[g][d]
  <2>1. SetOp(h, c, o)
    BY DEF Reject
  <2> QED
    BY <1>1, <2>1, SetOpEffect DEF TypeOK
<1> HIDE DEF o
<1>3. /\ hpc[h] = "locked" /\ hpc'[h] = "localUnlock"
      /\ \A g \in Handler \ {h} : hpc'[g] = hpc[g]
      /\ now' = now /\ lease' = lease /\ start' = start
  BY DEF Reject, Goto, TypeOK
<1>4. \A d \in LockSet(h) : op[h][d].pc = "ok"
  BY <1>3 DEF LockInv, PhaseInv, PhaseOf, Window
<1>5. \A g \in Handler : Busy(g)' => Busy(g)
  BY <1>2, <1>3 DEF Busy, Running
<1>6. c \notin Remote(h) /\ Remote(h) \subseteq Cluster /\ c \in LockSet(h)
  BY DEF Remote, LockSet
<1>7. PhaseInv'
  <2>1. PhaseOf(h)'
    BY <1>2, <1>3, <1>4, <1>6 DEF PhaseOf, Window, LockSet
  <2>2. ASSUME NEW g \in Handler \ {h} PROVE PhaseOf(g)'
    BY <1>2, <1>3, PhaseFrame DEF LockInv, PhaseInv
  <2> QED
    BY <2>1, <2>2 DEF PhaseInv
<1>8. TimeInv'
  BY <1>3, <1>5 DEF LockInv, TimeInv
<1>9. StampInv'
  <2> SUFFICES ASSUME NEW g \in Handler, NEW d \in Cluster, op'[g][d].pc \in {"create", "update"}
               PROVE  start'[g] - MaxSkew <= op'[g][d].acq
    BY DEF StampInv
  <2> QED
    BY <1>1, <1>2, <1>3 DEF LockInv, StampInv
<1>10. OwnInv'
  <2> SUFFICES ASSUME NEW g \in Handler, NEW d \in Cluster, Busy(g)',
                      op'[g][d].pc \in {"ok", "urpc", "uget", "delete"}
               PROVE  lease'[d].holder = g /\ start'[g] - MaxSkew <= lease'[d].acq
    BY DEF OwnInv
  <2>1. op[g][d].pc \in {"ok", "urpc", "uget", "delete"}
    BY <1>2, <1>4, <1>6
  <2>2. start'[g] = start[g] /\ lease' = lease /\ Busy(g)
    BY <1>3, <1>5
  <2> QED
    BY <2>1, <2>2 DEF LockInv, OwnInv
<1>11. \A g \in Handler, d \in Cluster : op[g][d].pc \in Written => op'[g][d].pc \in Written
  BY <1>1, <1>2 DEF Written
<1>12. ASSUME NEW g \in Handler, NEW d \in Cluster, op'[g][d].pc = "update"
       PROVE  /\ op'[g][d] = op[g][d]
              /\ op[g][d].seen \in Handler
              /\ op[op[g][d].seen][d].pc \in Written
  <2>1. op'[g][d] = op[g][d]
    BY <1>1, <1>2, <1>12
  <2> QED
    BY <1>12, <2>1 DEF LockInv, VersionInv, TypeOK
<1>13. VersionInv'
  <2>1. ASSUME NEW d \in Cluster, lease'[d].holder # None PROVE op'[lease'[d].holder][d].pc \in Written
    <3>1. lease[d].holder \in Handler /\ op[lease[d].holder][d].pc \in Written
      BY <2>1, <1>3 DEF LockInv, VersionInv, TypeOK
    <3> QED
      BY <3>1, <1>3, <1>11
  <2> QED
    BY <2>1, <1>11, <1>12 DEF VersionInv
<1>14. TakeoverInv'
  <2> SUFFICES ASSUME NEW g \in Handler, NEW d \in Cluster,
                      op'[g][d].pc = "update", lease'[d].holder = op'[g][d].seen
               PROVE  lease'[d].acq + LeaseDuration <= now' + MaxSkew
    BY DEF TakeoverInv, SameVersion, Expired
  <2> QED
    <3>1. op'[g][d] = op[g][d] /\ lease' = lease /\ now' = now
      BY <1>3, <1>12
    <3> QED
      BY <3>1 DEF LockInv, TakeoverInv, SameVersion, Expired
<1> QED
  BY <1>7, <1>8, <1>9, <1>10, <1>13, <1>14 DEF LockInv

\* A pending Update meets no lease of a request in progress: that lease cannot
\* have expired.  This is where the timing condition of leases.go is used.
LEMMA NoTakeoverFromBusy ==
  ASSUME Timely, TypeOK, LockInv, NEW h \in Handler, NEW c \in Cluster,
         op[h][c].pc = "update", SameVersion(h, c), NEW g \in Handler
  PROVE  ~(Busy(g) /\ op[g][c].pc \in {"ok", "urpc", "uget", "delete"})
<1> SUFFICES ASSUME Busy(g), op[g][c].pc \in {"ok", "urpc", "uget", "delete"} PROVE FALSE
  OBVIOUS
<1>1. lease[c].acq + LeaseDuration <= now + MaxSkew
  BY DEF LockInv, TakeoverInv, Expired
<1>2. start[g] - MaxSkew <= lease[c].acq
  BY DEF LockInv, OwnInv
<1>3. now <= start[g] + MaxWork
  BY DEF LockInv, TimeInv
<1>4. lease[c].acq \in Int /\ now \in Int /\ start[g] \in Int
  BY DEF TypeOK
<1> QED
  BY <1>1, <1>2, <1>3, <1>4 DEF Timely

\* A step of a call preserves the invariant.
LEMMA OpPreserves ==
  ASSUME Timely, TypeOK, LockInv, NEW h \in Handler, NEW c \in Cluster, OpStep(h, c) \/ OpError(h, c)
  PROVE  LockInv'
<1> USE DEF Locking, Unlocking, OpPc, Written
<1>1. CASE ServeLock(h, c)
  <2>1. PICK t \in Clock : SetOp(h, c, [At("create") EXCEPT !.acq = t])
    BY <1>1 DEF ServeLock
  <2> DEFINE o == [At("create") EXCEPT !.acq = t]
  <2>2. o \in OpState /\ o.pc = "create" /\ o.acq = t /\ now - MaxSkew <= t
    BY DEF At, OpState, Clock, TypeOK
  <2>3. start[h] <= now
    BY <1>1 DEF ServeLock, LockInv, TimeInv, Busy
  <2> HIDE DEF o
  <2>4. start[h] - MaxSkew <= o.acq
    BY <2>2, <2>3 DEF TypeOK, Clock
  <2> QED
    BY <1>1, <2>1, <2>2, <2>4, OpOnlyStep DEF ServeLock, o
<1>2. CASE CreateLease(h, c)
  <2>1. CASE lease[c].holder = None
    <3>1. \A g \in Handler : ~(Busy(g) /\ op[g][c].pc \in {"ok", "urpc", "uget", "delete"})
      BY <2>1 DEF LockInv, OwnInv
    <3> QED
      BY <1>2, <2>1, <3>1, WriteStep DEF CreateLease
  <2>2. CASE lease[c].holder # None
    BY <1>2, <2>2, OpOnlyStep, AtType DEF CreateLease
  <2> QED
    BY <2>1, <2>2
<1>3. CASE GetLease(h, c)
  <2>1. PICK t \in Clock : SetOp(h, c, IF CanTakeOver(lease[c], t)
                             THEN [pc |-> "update", acq |-> t, seen |-> lease[c].holder]
                             ELSE At("err"))
    BY <1>3 DEF GetLease
  <2>2. CASE CanTakeOver(lease[c], t)
    <3> DEFINE o == [pc |-> "update", acq |-> t, seen |-> lease[c].holder]
    <3>1. o \in OpState /\ o.pc = "update" /\ o.seen = lease[c].holder /\ o.seen \in Handler
      BY <2>2 DEF CanTakeOver, OpState, Clock, TypeOK
    <3>2. Expired(lease[c], now + MaxSkew)
      BY <2>2 DEF CanTakeOver, Expired, Clock, TypeOK
    <3>3. start[h] <= now
      BY <1>3 DEF GetLease, LockInv, TimeInv, Busy
    <3>4. start[h] - MaxSkew <= o.acq
      BY <3>3 DEF Clock, TypeOK
    <3>5. SetOp(h, c, o)
      BY <2>1, <2>2
    <3> HIDE DEF o
    <3> QED
      BY <1>3, <3>1, <3>2, <3>4, <3>5, OpOnlyStep DEF GetLease
  <2>3. CASE ~ CanTakeOver(lease[c], t)
    BY <1>3, <2>1, <2>3, OpOnlyStep, AtType DEF GetLease
  <2> QED
    BY <2>2, <2>3
<1>4. CASE UpdateLease(h, c)
  <2>1. CASE SameVersion(h, c)
    <3>1. \A g \in Handler : ~(Busy(g) /\ op[g][c].pc \in {"ok", "urpc", "uget", "delete"})
      BY <1>4, <2>1, NoTakeoverFromBusy DEF UpdateLease
    <3> QED
      BY <1>4, <2>1, <3>1, WriteStep DEF UpdateLease
  <2>2. CASE ~ SameVersion(h, c)
    <3>1. op[h][c].pc = "update" /\ SetOp(h, c, At("err")) /\ UNCHANGED <<now, lease, hpc, start>>
      BY <1>4, <2>2 DEF UpdateLease
    <3>2. At("err") \in OpState /\ At("err").pc = "err"
      BY AtType
    <3> QED
      BY <3>1, <3>2, OpOnlyStep
  <2> QED
    BY <2>1, <2>2
<1>5. CASE ServeUnlock(h, c)
  BY <1>5, OpOnlyStep, AtType DEF ServeUnlock
<1>6. CASE UnlockGet(h, c)
  <2>1. PICK pc \in {"uok", "delete", "uerr"} : SetOp(h, c, At(pc))
    BY <1>6 DEF UnlockGet, AfterUnlockGet
  <2> QED
    BY <1>6, <2>1, OpOnlyStep, AtType DEF UnlockGet
<1>7. CASE UnlockDelete(h, c)
  BY <1>7, DeleteStep
<1>8. CASE OpError(h, c)
  <2>1. PICK pc \in {"err", "uerr"} :
          /\ op[h][c].pc \in Locking \cup Unlocking
          /\ op[h][c].pc \in Written => pc \in Written
          /\ SetOp(h, c, At(pc)) /\ UNCHANGED <<now, lease, hpc, start>>
    BY <1>8 DEF OpError
  <2>2. At(pc) \in OpState /\ At(pc).pc = pc
    BY AtType
  <2> QED
    BY <2>1, <2>2, OpOnlyStep
<1> QED
  BY <1>1, <1>2, <1>3, <1>4, <1>5, <1>6, <1>7, <1>8 DEF OpStep

\* A step of the request's own control flow preserves the invariant.
LEMMA HandlerPreserves ==
  ASSUME TypeOK, LockInv, NEW h \in Handler,
         HandlerStep(h) \/ Admit(h) \/ Disrupt(h) \/ Abort(h)
  PROVE  LockInv'
<1> USE DEF Running, Terminal, Window, HandlerPc
<1>1. CASE LocalLockFailed(h) \/ RemoteLockFailed(h) \/ LocalUnlockFailed(h)
           \/ RemoteUnlockReturned(h) \/ Disrupt(h) \/ Abort(h)
  BY <1>1, GotoStep DEF LocalLockFailed, RemoteLockFailed, LocalUnlockFailed,
                        RemoteUnlockReturned, Disrupt, Abort
<1>2. CASE RemoteLockDone(h)
  <2>1. \A c \in LockSet(h) : op[h][c].pc = "ok"
    BY <1>2 DEF RemoteLockDone, LockSet, LockInv, PhaseInv, PhaseOf
  <2> QED
    BY <1>2, <2>1, GotoStep DEF RemoteLockDone
<1>3. CASE Admit(h)
  <2>1. \A c \in LockSet(h) : op[h][c].pc = "ok"
    BY <1>3 DEF Admit, LockInv, PhaseInv, PhaseOf
  <2> QED
    BY <1>3, <2>1, GotoStep DEF Admit
<1>4. CASE LocalLockDone(h)
  <2>1. \A c \in Remote(h) : op[h][c].pc = "idle"
    BY <1>4 DEF LocalLockDone, LockInv, PhaseInv, PhaseOf
  <2> QED
    BY <1>4, <2>1, FanOutStep DEF LocalLockDone
<1>5. CASE LocalUnlockDone(h)
  <2>1. \A c \in Remote(h) : op[h][c].pc = "ok"
    BY <1>5 DEF LocalUnlockDone, LockInv, PhaseInv, PhaseOf
  <2> QED
    BY <1>5, <2>1, FanOutStep DEF LocalUnlockDone
<1> QED
  BY <1>1, <1>2, <1>3, <1>4, <1>5 DEF HandlerStep

\* Every step preserves the invariant if the lease outlasts the work.
LEMMA LockInvStep ==
  ASSUME Timely, TypeOK, LockInv, [Next]_vars
  PROVE  LockInv'
<1>1. ASSUME NEW h \in Handler, BeginLock(h) PROVE LockInv'
  BY <1>1, BeginStep
<1>2. ASSUME NEW h \in Handler, HandlerStep(h) \/ Admit(h) \/ Disrupt(h) \/ Abort(h) PROVE LockInv'
  BY <1>2, HandlerPreserves
<1>3. ASSUME NEW h \in Handler, Reject(h) PROVE LockInv'
  BY <1>3, RejectStep
<1>4. ASSUME NEW h \in Handler, NEW c \in Cluster, OpStep(h, c) \/ OpError(h, c) PROVE LockInv'
  BY <1>4, OpPreserves
<1>5. CASE Tick
  <2>1. /\ UNCHANGED <<lease, hpc, op, start>>
        /\ now' = now + 1
        /\ \A h \in Handler : Busy(h) => now < start[h] + MaxWork
    BY <1>5 DEF Tick
  <2>2. \A h \in Handler : Busy(h)' <=> Busy(h)
    BY <2>1 DEF Busy
  <2>3. TimeInv'
    BY <2>1, <2>2 DEF LockInv, TimeInv, TypeOK
  <2>4. OwnInv'
    BY <2>1, <2>2 DEF LockInv, OwnInv
  <2>5. TakeoverInv'
    <3>1. \A c \in Cluster : Expired(lease[c], now + MaxSkew) => Expired(lease[c], now' + MaxSkew)
      BY <2>1 DEF Expired, TypeOK
    <3> QED
      BY <2>1, <3>1 DEF LockInv, TakeoverInv, SameVersion, Expired
  <2>6. PhaseInv' /\ StampInv' /\ VersionInv'
    BY <2>1 DEF LockInv, PhaseInv, PhaseOf, StampInv, VersionInv
  <2> QED
    BY <2>3, <2>4, <2>5, <2>6 DEF LockInv
<1>6. CASE Quiescent \/ UNCHANGED vars
  <2>1. now' = now /\ lease' = lease /\ hpc' = hpc /\ op' = op /\ start' = start
    BY <1>6 DEF Quiescent, vars
  <2>2. PhaseInv' /\ StampInv'
    BY <2>1 DEF LockInv, PhaseInv, PhaseOf, StampInv
  <2>3. TimeInv' /\ OwnInv'
    BY <2>1 DEF LockInv, TimeInv, OwnInv, Busy
  <2>4. VersionInv' /\ TakeoverInv'
    BY <2>1 DEF LockInv, VersionInv, TakeoverInv, SameVersion, Expired
  <2> QED
    BY <2>2, <2>3, <2>4 DEF LockInv
<1> QED
  BY <1>1, <1>2, <1>3, <1>4, <1>5, <1>6 DEF Next

\* The inductive invariant of the lock holds in every reachable state.
THEOREM LockInvariant == Timely => (Spec => [](TypeOK /\ LockInv))
<1> SUFFICES ASSUME Timely PROVE Spec => [](TypeOK /\ LockInv)
  OBVIOUS
<1>1. Init => TypeOK
  BY DEF Init, TypeOK, NoLease, At, HandlerPc, OpPc, OpState
<1>2. Init => LockInv
  <2> SUFFICES ASSUME Init PROVE LockInv
    OBVIOUS
  <2>1. \A h \in Handler : hpc[h] = "idle" /\ \A c \in Cluster : op[h][c].pc = "idle"
    BY DEF Init, At
  <2>2. \A c \in Cluster : lease[c].holder = None
    BY DEF Init, NoLease
  <2>3. \A h \in Handler : ~ Busy(h)
    BY <2>1 DEF Busy, Running, Locking, Unlocking
  <2>4. PhaseInv
    BY <2>1 DEF PhaseInv, PhaseOf, Window
  <2>5. TimeInv /\ OwnInv
    BY <2>3 DEF TimeInv, OwnInv
  <2>6. StampInv /\ VersionInv /\ TakeoverInv
    BY <2>1, <2>2 DEF StampInv, VersionInv, TakeoverInv
  <2> QED
    BY <2>4, <2>5, <2>6 DEF LockInv
<1>3. TypeOK /\ LockInv /\ [Next]_vars => (TypeOK /\ LockInv)'
  BY TypeStep, LockInvStep
<1> QED
  BY <1>1, <1>2, <1>3, PTL DEF Spec

\* A request in its window owns the lease of every cluster it locks.
LEMMA WindowOwns == TypeOK /\ LockInv => WindowOwnsLeases
<1> SUFFICES ASSUME TypeOK, LockInv, NEW h \in Handler, hpc[h] \in Window, NEW c \in LockSet(h)
             PROVE  lease[c].holder = h
  BY DEF WindowOwnsLeases
<1>1. op[h][c].pc = "ok" /\ c \in Cluster
  BY DEF LockInv, PhaseInv, PhaseOf, LockSet, Remote
<1>2. Busy(h)
  BY DEF Busy, Window, Running
<1> QED
  BY <1>1, <1>2 DEF LockInv, OwnInv

\* While a verdict is computed and applied the request holds the lease of every
\* cluster it locks, if the lease outlasts the work.
THEOREM WindowIsLocked == Timely => (Spec => []WindowOwnsLeases)
BY LockInvariant, WindowOwns, PTL

\* No two requests, in whatever clusters they are served, are between the return
\* of Lock and the observable disruption at the same time.  The endpoint lists
\* need not be complete: it is enough that two requests lock one cluster in
\* common.
THEOREM LockIsExclusive == Timely /\ SharedCluster => (Spec => []MutualExclusion)
<1> SUFFICES ASSUME Timely, SharedCluster PROVE Spec => []MutualExclusion
  OBVIOUS
<1>1. WindowOwnsLeases => MutualExclusion
  BY DEF WindowOwnsLeases, MutualExclusion, SharedCluster
<1> QED
  BY <1>1, WindowIsLocked, PTL
=============================================================================
