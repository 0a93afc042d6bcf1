------------------------- MODULE LockContractProofs -------------------------
(***************************************************************************)
(* The lock as its callers see it: LeaseLock implements AtomicLock, for    *)
(* every number of clusters and requests.                                  *)
(***************************************************************************)
EXTENDS LeaseStepProofs

\* What is left of the lock of a request after a step.
Keeps(h) == \A c \in Cluster : Owns(h, c)' <=> Owns(h, c)
Drops(h) == \A c \in Cluster : Owns(h, c)' => Owns(h, c)
Rests(h) == Phase(h)' = Phase(h) /\ Keeps(h)

\* What request h may do to the lock in one step: nothing, take it in a cluster where
\* nobody has it, enter with all of its clusters, or give some of it back.
LockMove(h) ==
  \/ Rests(h)
  \/ /\ Phase(h)' = Phase(h) /\ Phase(h) # "inside"
     /\ \E c \in LockSet(h) :
          /\ \A g \in Handler : ~ Owns(g, c)
          /\ Owns(h, c)' /\ \A d \in Cluster \ {c} : Owns(h, d)' <=> Owns(h, d)
  \/ /\ Phase(h) = "before" /\ Phase(h)' = "inside"
     /\ Keeps(h) /\ \A c \in LockSet(h) : Owns(h, c)
  \/ Phase(h)' = "after" /\ Drops(h)

\* That is a step of the atomic lock.
LEMMA MoveIsAtomic ==
  ASSUME NEW h \in Handler, LockMove(h), \A g \in Handler \ {h} : Rests(g)
  PROVE  Contract!Next \/ UNCHANGED Contract!lockVars
<1> DEFINE ph == [g \in Handler |-> Phase(g)]
           ho == [g \in Handler |-> {c \in Cluster : Owns(g, c)}]
<1>c. LockSet(h) \subseteq Cluster
  BY TopologyAssumption DEF LockSet, Remote
<1>1. \A g \in Handler : /\ ph[g] = Phase(g) /\ (ph')[g] = Phase(g)'
                         /\ ho[g] = {c \in Cluster : Owns(g, c)}
                         /\ (ho')[g] = {c \in Cluster : Owns(g, c)'}
  OBVIOUS
<1>2. \A g \in Handler \ {h} : (ph')[g] = ph[g] /\ (ho')[g] = ho[g]
  BY <1>1 DEF Rests, Keeps
<1>3. Contract!Only(h)
  BY <1>2 DEF Contract!Only
<1>4. CASE Rests(h)
  <2>1. \A g \in Handler : Phase(g)' = Phase(g) /\ {c \in Cluster : Owns(g, c)'} = {c \in Cluster : Owns(g, c)}
    BY <1>4 DEF Rests, Keeps
  <2>2. ph' = ph /\ ho' = ho
    BY <2>1
  <2> QED BY <2>2 DEF Contract!lockVars
<1>5. CASE /\ Phase(h)' = Phase(h) /\ Phase(h) # "inside"
           /\ \E c \in LockSet(h) :
                /\ \A g \in Handler : ~ Owns(g, c)
                /\ Owns(h, c)' /\ \A d \in Cluster \ {c} : Owns(h, d)' <=> Owns(h, d)
  <2>1. PICK c \in LockSet(h) :
                /\ \A g \in Handler : ~ Owns(g, c)
                /\ Owns(h, c)' /\ \A d \in Cluster \ {c} : Owns(h, d)' <=> Owns(h, d)
    BY <1>5
  <2>2. (ho')[h] = ho[h] \cup {c}
    BY <1>1, <1>c, <2>1
  <2>3. \A g \in Handler : c \notin ho[g]
    BY <1>1, <2>1
  <2>4. Contract!Acquire(h, c)
    BY <1>1, <1>3, <1>5, <2>2, <2>3 DEF Contract!Acquire
  <2> QED BY <2>1, <2>4 DEF Contract!Next
<1>6. CASE /\ Phase(h) = "before" /\ Phase(h)' = "inside"
           /\ Keeps(h) /\ \A c \in LockSet(h) : Owns(h, c)
  <2>1. (ho')[h] = ho[h] /\ LockSet(h) \subseteq ho[h]
    BY <1>1, <1>c, <1>6 DEF Keeps
  <2>2. Contract!Enter(h)
    BY <1>1, <1>3, <1>6, <2>1 DEF Contract!Enter
  <2> QED BY <2>2 DEF Contract!Next
<1>7. CASE Phase(h)' = "after" /\ Drops(h)
  <2>1. (ho')[h] \subseteq ho[h]
    BY <1>1, <1>7 DEF Drops
  <2>2. Contract!Leave(h) \/ Contract!Release(h)
    BY <1>1, <1>3, <1>7, <2>1 DEF Contract!Leave, Contract!Release
  <2> QED BY <2>2 DEF Contract!Next
<1> QED BY <1>4, <1>5, <1>6, <1>7 DEF LockMove

\* Calls start in the home cluster and at the remote endpoints, and nowhere else.
LEMMA CallsStep ==
  ASSUME TypeOK, CallsInv, [Next]_vars
  PROVE  CallsInv'
<1>t. op \in [Handler -> [Cluster -> OpState]] /\ now \in Int
  BY TypeFacts
<1>p. \A h \in Handler : Home[h] \in Cluster /\ Home[h] \in LockSet(h) /\ Remote(h) \subseteq LockSet(h)
  BY TopologyAssumption DEF LockSet
<1>1. ASSUME \A h \in Handler, c \in Cluster : c \notin LockSet(h) => op'[h][c] = op[h][c]
      PROVE  CallsInv'
  BY <1>1 DEF CallsInv
<1>2. ASSUME NEW h \in Handler, NEW c \in LockSet(h), c \in Cluster, NEW o \in OpState, SetOp(h, c, o)
      PROVE  CallsInv'
  <2>1. \A g \in Handler, d \in Cluster : ~(g = h /\ d = c) => op'[g][d] = op[g][d]
    BY <1>2, <1>t, SetOpEffect
  <2> QED BY <1>1, <1>2, <2>1
<1>3. ASSUME NEW h \in Handler, NEW r \in {"rpc", "urpc"}, FanOut(h, r) PROVE CallsInv'
  <2>1. /\ \A c \in Cluster : op'[h][c] = IF c \in Remote(h) THEN At(r) ELSE op[h][c]
        /\ \A g \in Handler \ {h} : op'[g] = op[g]
    BY <1>3, <1>t, FanOutEffect DEF OpPc, Locking, Unlocking
  <2> QED BY <1>1, <1>p, <2>1
<1>4. ASSUME NEW h \in Handler, NEW c \in Cluster, OpStep(h, c) \/ OpError(h, c) PROVE CallsInv'
  <2>1. PICK o \in OpState : Proceeds(h, c, o)
    BY <1>4, CallProceeds
  <2>2. SetOp(h, c, o) /\ op[h][c].pc # "idle"
    BY <2>1 DEF Proceeds, Locking, Unlocking
  <2>3. c \in LockSet(h)
    BY <2>2 DEF CallsInv
  <2> QED BY <1>2, <2>2, <2>3
<1>5. ASSUME NEW h \in Handler, BeginLock(h) PROVE CallsInv'
  <2>1. PICK t \in Clock : SetOp(h, Home[h], [At("create") EXCEPT !.acq = t])
    BY <1>5 DEF BeginLock
  <2>2. [At("create") EXCEPT !.acq = t] \in OpState
    BY <1>t DEF At, OpState, Clock, OpPc, Locking
  <2> QED BY <1>2, <1>p, <2>1, <2>2
<1>6. ASSUME NEW h \in Handler, Reject(h) PROVE CallsInv'
  <2>1. SetOp(h, Home[h], At("uget")) /\ At("uget") \in OpState
    BY <1>6, AtType DEF Reject, OpPc, Unlocking
  <2> QED BY <1>2, <1>p, <2>1
<1>7. ASSUME NEW h \in Handler, LocalLockDone(h) \/ LocalUnlockDone(h) PROVE CallsInv'
  BY <1>3, <1>7 DEF LocalLockDone, LocalUnlockDone
<1>8. CASE op' = op
  BY <1>1, <1>8
<1>9. ASSUME NEW h \in Handler, LocalLockFailed(h) \/ RemoteLockDone(h) \/ RemoteLockFailed(h)
             \/ LocalUnlockFailed(h) \/ RemoteUnlockReturned(h) \/ Admit(h) \/ Disrupt(h) \/ Abort(h)
      PROVE  op' = op
  BY <1>9 DEF LocalLockFailed, RemoteLockDone, RemoteLockFailed, LocalUnlockFailed,
              RemoteUnlockReturned, Admit, Disrupt, Abort
<1>10. Tick \/ Quiescent \/ UNCHANGED vars => op' = op
  BY DEF Tick, Quiescent, vars
<1> QED BY <1>4, <1>5, <1>6, <1>7, <1>8, <1>9, <1>10 DEF Next, HandlerStep

\* The state of a request and of its calls is all that its lock depends on.
LEMMA LockFrame ==
  ASSUME NEW g \in Handler, hpc'[g] = hpc[g], \A c \in Cluster : op'[g][c] = op[g][c]
  PROVE  Rests(g)
<1>1. Phase(g)' = Phase(g)
  BY DEF Phase
<1>2. Busy(g)' <=> Busy(g)
  BY DEF Busy
<1> QED BY <1>1, <1>2 DEF Rests, Keeps, Owns

\* Only a request that has left the lock has calls that release it.
LEMMA UnlockingIsAfter ==
  ASSUME PhaseInv, NoWaitInVain, CallsInv, TypeOK, NEW h \in Handler, NEW c \in Cluster,
         op[h][c].pc \in Unlocking
  PROVE  Phase(h) = "after"
<1>1. c \in LockSet(h) /\ PhaseOf(h) /\ WaitsForCalls(h)
  BY DEF CallsInv, PhaseInv, NoWaitInVain, Unlocking
<1>2. hpc[h] # "idle" /\ hpc[h] \notin Window
  BY <1>1 DEF PhaseOf, Unlocking
<1>3. hpc[h] # "localLock"
  BY <1>1 DEF PhaseOf, WaitsForCalls, Awaited, Unlocking, Locking, LockSet
<1>4. hpc[h] # "remoteLock"
  BY <1>1 DEF PhaseOf, WaitsForCalls, Awaited, Unlocking, Locking, LockSet
<1> QED BY <1>2, <1>3, <1>4 DEF Phase, Entering

\* A request that has not left the lock and has a call is under way by itself.
LEMMA NotAfterRuns ==
  ASSUME PhaseInv, TypeOK, NEW h \in Handler, NEW c \in Cluster,
         op[h][c].pc # "idle", Phase(h) # "after"
  PROVE  hpc[h] \in Running
BY DEF PhaseInv, PhaseOf, Phase, Entering, Window, Running

\* A cluster grants the lock only when nobody has it there.
LEMMA GrantIsFree ==
  ASSUME Timely, TypeOK, LockInv, NEW h \in Handler, NEW c \in Cluster,
         OpStep(h, c) \/ OpError(h, c), op'[h][c].pc = "ok", NEW g \in Handler
  PROVE  ~ Owns(g, c)
<1>t. op \in [Handler -> [Cluster -> OpState]] /\ now \in Int
  BY TypeFacts
<1>1. ASSUME NEW pc \in OpPc, SetOp(h, c, At(pc)) PROVE op'[h][c].pc = pc
  BY <1>1, <1>t, AtType, SetOpEffect
<1>2. CASE CreateLease(h, c)
  <2>1. CASE lease[c].holder = None
    <3>1. g # None
      BY TopologyAssumption
    <3> QED BY <2>1, <3>1 DEF Owns, Owning, LockInv, OwnInv
  <2>2. CASE lease[c].holder # None
    <3>1. op'[h][c].pc = "get"
      BY <1>1, <1>2, <2>2 DEF CreateLease, OpPc, Locking
    <3> QED BY <3>1
  <2> QED BY <2>1, <2>2
<1>3. CASE UpdateLease(h, c)
  <2>1. CASE SameVersion(h, c)
    <3>1. op[h][c].pc = "update"
      BY <1>3 DEF UpdateLease
    <3> QED BY <2>1, <3>1, NoTakeoverFromBusy DEF Owns, Owning
  <2>2. CASE ~ SameVersion(h, c)
    <3>1. op'[h][c].pc = "err"
      BY <1>1, <1>3, <2>2 DEF UpdateLease, OpPc
    <3> QED BY <3>1
  <2> QED BY <2>1, <2>2
<1>4. CASE ServeLock(h, c)
  <2>1. PICK t \in Clock : SetOp(h, c, [At("create") EXCEPT !.acq = t])
    BY <1>4 DEF ServeLock
  <2> DEFINE o == [At("create") EXCEPT !.acq = t]
  <2>2. o \in OpState /\ o.pc = "create" /\ SetOp(h, c, o)
    BY <1>t, <2>1 DEF At, OpState, Clock, OpPc, Locking
  <2> HIDE DEF o
  <2>3. op'[h][c] = o
    BY <1>t, <2>2, SetOpEffect
  <2> QED BY <2>2, <2>3
<1>5. CASE GetLease(h, c)
  <2>1. PICK t \in Clock :
          SetOp(h, c, IF CanTakeOver(lease[c], t)
                        THEN [pc |-> "update", acq |-> t, seen |-> lease[c].holder]
                        ELSE At("err"))
    BY <1>5 DEF GetLease
  <2>2. CASE ~ CanTakeOver(lease[c], t)
    <3>1. op'[h][c].pc = "err"
      BY <1>1, <2>1, <2>2 DEF OpPc
    <3> QED BY <3>1
  <2>3. CASE CanTakeOver(lease[c], t)
    <3> DEFINE o == [pc |-> "update", acq |-> t, seen |-> lease[c].holder]
    <3>1. o \in OpState /\ o.pc = "update" /\ SetOp(h, c, o)
      BY <1>t, <2>1, <2>3, TypeFacts DEF OpState, Clock, OpPc, Locking
    <3> HIDE DEF o
    <3>2. op'[h][c] = o
      BY <1>t, <3>1, SetOpEffect
    <3> QED BY <3>1, <3>2
  <2> QED BY <2>2, <2>3
<1>6. CASE ServeUnlock(h, c) \/ UnlockGet(h, c) \/ UnlockDelete(h, c) \/ OpError(h, c)
  <2>1. PICK pc \in {"uget", "uok", "uerr", "delete", "err"} : SetOp(h, c, At(pc))
    BY <1>6 DEF ServeUnlock, UnlockGet, AfterUnlockGet, UnlockDelete, OpError
  <2>2. op'[h][c].pc = pc
    BY <1>1, <2>1 DEF OpPc, Unlocking
  <2> QED BY <2>1, <2>2
<1> QED BY <1>2, <1>3, <1>4, <1>5, <1>6 DEF OpStep

\* A step of a call: it is granted the lock, gives it back, or is under way still.
LEMMA CallMoves ==
  ASSUME Timely, TypeOK, LockInv, NoWaitInVain, CallsInv, NEW h \in Handler, NEW c \in Cluster,
         OpStep(h, c) \/ OpError(h, c)
  PROVE  LockMove(h) /\ \A g \in Handler \ {h} : Rests(g)
<1>i. PhaseInv
  BY DEF LockInv
<1>1. PICK o \in OpState : Proceeds(h, c, o)
  BY CallProceeds
<1>2. /\ SetOp(h, c, o) /\ hpc' = hpc
      /\ \/ op[h][c].pc \in Locking /\ o.pc \in Locking \cup {"ok", "err"}
         \/ op[h][c].pc \in Unlocking /\ o.pc \in Unlocking \cup {"uok", "uerr"}
  BY <1>1 DEF Proceeds
<1>3. /\ op'[h][c] = o
      /\ \A g \in Handler, d \in Cluster : ~(g = h /\ d = c) => op'[g][d] = op[g][d]
  BY <1>2, TypeFacts, SetOpEffect
<1>4. \A g \in Handler \ {h} : Rests(g)
  BY <1>2, <1>3, LockFrame
<1>5. Busy(h) /\ Phase(h)' = Phase(h)
  BY <1>2 DEF Busy, Phase
<1>6. ASSUME o.pc \in Owning => op[h][c].pc \in Owning PROVE Drops(h)
  <2> SUFFICES ASSUME NEW d \in Cluster, Owns(h, d)' PROVE op[h][d].pc \in Owning
    BY <1>5 DEF Drops, Owns
  <2>1. op'[h][d].pc \in Owning
    BY DEF Owns
  <2> QED BY <1>3, <1>6, <2>1
<1>7. CASE op[h][c].pc \in Unlocking
  <2>1. Phase(h) = "after"
    BY <1>i, <1>7, UnlockingIsAfter
  <2>2. Drops(h)
    BY <1>6, <1>7 DEF Unlocking, Owning
  <2> QED BY <1>4, <1>5, <2>1, <2>2 DEF LockMove
<1>8. CASE op[h][c].pc \in Locking /\ o.pc # "ok"
  <2>1. op[h][c].pc \notin Owning /\ o.pc \notin Owning /\ op[h][c].pc # "idle"
    BY <1>2, <1>8 DEF Locking, Unlocking, Owning
  <2>2. CASE Phase(h) = "after"
    BY <1>4, <1>5, <1>6, <2>1, <2>2 DEF LockMove
  <2>3. CASE Phase(h) # "after"
    <3>1. hpc[h] \in Running
      BY <1>i, <2>1, <2>3, NotAfterRuns
    <3>2. Busy(h)'
      BY <1>2, <3>1 DEF Busy
    <3>3. \A d \in Cluster : op'[h][d].pc \in Owning <=> op[h][d].pc \in Owning
      BY <1>3, <2>1
    <3>4. Keeps(h)
      BY <1>5, <3>2, <3>3 DEF Keeps, Owns
    <3> QED BY <1>4, <1>5, <3>4 DEF LockMove, Rests
  <2> QED BY <2>2, <2>3
<1>9. CASE op[h][c].pc \in Locking /\ o.pc = "ok"
  <2>1. op[h][c].pc # "idle" /\ op[h][c].pc # "ok"
    BY <1>9 DEF Locking
  <2>2. \A g \in Handler : ~ Owns(g, c)
    BY <1>3, <1>9, GrantIsFree
  <2>3. c \in LockSet(h)
    BY <2>1 DEF CallsInv
  <2>4. CASE ~ Busy(h)'
    <3>1. Drops(h)
      BY <2>4 DEF Drops, Owns
    <3>2. Phase(h) = "after"
      <4>1. hpc[h] \notin Running
        BY <1>2, <2>4 DEF Busy
      <4> QED BY <1>i, <2>1, <4>1, NotAfterRuns
    <3> QED BY <1>4, <1>5, <3>1, <3>2 DEF LockMove
  <2>5. CASE Busy(h)'
    <3>1. Phase(h) # "inside"
      BY <1>i, <2>1, <2>3 DEF PhaseInv, PhaseOf, Phase, Entering
    <3>2. Owns(h, c)' /\ \A d \in Cluster \ {c} : Owns(h, d)' <=> Owns(h, d)
      BY <1>3, <1>5, <1>9, <2>5 DEF Owns, Owning
    <3> QED BY <1>4, <1>5, <2>2, <2>3, <3>1, <3>2 DEF LockMove
  <2> QED BY <2>4, <2>5
<1> QED BY <1>2, <1>7, <1>8, <1>9

\* A step of a request's own: it enters with everything or leaves.
LEMMA RequestMoves ==
  ASSUME TypeOK, PhaseInv, NoWaitInVain, NEW h \in Handler,
         BeginLock(h) \/ HandlerStep(h) \/ Admit(h) \/ Reject(h) \/ Disrupt(h) \/ Abort(h)
  PROVE  LockMove(h) /\ \A g \in Handler \ {h} : Rests(g)
<1>t. op \in [Handler -> [Cluster -> OpState]] /\ now \in Int
  BY TypeFacts
<1>h. hpc \in [Handler -> HandlerPc]
  BY TypeFacts
<1>p. PhaseOf(h) /\ Home[h] \in Cluster /\ Remote(h) \subseteq Cluster /\ Home[h] \notin Remote(h)
  BY TopologyAssumption DEF PhaseInv, Remote
<1>m. MovesOn(h)
  BY RequestMovesOn
<1>1. \A g \in Handler \ {h} : Rests(g)
  BY <1>m, LockFrame DEF MovesOn
<1>2. ASSUME NEW pc \in HandlerPc, Goto(h, pc) PROVE hpc'[h] = pc
  BY <1>h, <1>2 DEF Goto
<1>3. ASSUME Busy(h), Phase(h)' = "after",
             \A d \in Cluster : op'[h][d].pc \in Owning => op[h][d].pc \in Owning
      PROVE  LockMove(h)
  BY <1>3 DEF LockMove, Drops, Owns
<1>4. ASSUME Busy(h), Busy(h)', \A d \in Cluster : op'[h][d].pc \in Owning <=> op[h][d].pc \in Owning
      PROVE  Keeps(h)
  BY <1>4 DEF Keeps, Owns
<1>5. CASE LocalLockFailed(h) \/ RemoteLockFailed(h) \/ LocalUnlockFailed(h)
           \/ RemoteUnlockReturned(h) \/ Disrupt(h) \/ Abort(h)
  <2>1. hpc[h] \in Running /\ op' = op /\ \E pc \in Terminal : Goto(h, pc)
    BY <1>5 DEF LocalLockFailed, RemoteLockFailed, LocalUnlockFailed, RemoteUnlockReturned,
                Disrupt, Abort, Running, Terminal
  <2>2. hpc'[h] \in Terminal
    BY <1>2, <2>1 DEF HandlerPc
  <2>3. Busy(h) /\ Phase(h)' = "after"
    BY <2>1, <2>2 DEF Busy, Phase, Terminal, Window, Entering
  <2> QED BY <1>1, <1>3, <2>1, <2>3
<1>6. CASE RemoteLockDone(h)
  <2>1. hpc[h] = "remoteLock" /\ hpc'[h] = "locked" /\ op' = op
    BY <1>2, <1>6 DEF RemoteLockDone, HandlerPc, Running
  <2>2. Busy(h) /\ Busy(h)' /\ Phase(h) = "before" /\ Phase(h)' = "inside"
    BY <2>1 DEF Busy, Running, Phase, Window, Entering
  <2>3. \A c \in LockSet(h) : op[h][c].pc = "ok"
    BY <1>p, <1>6, <2>1 DEF RemoteLockDone, LockSet, PhaseOf
  <2>4. \A c \in LockSet(h) : Owns(h, c)
    BY <2>2, <2>3 DEF Owns, Owning
  <2> QED BY <1>1, <1>4, <2>1, <2>2, <2>4 DEF LockMove
<1>7. CASE Admit(h)
  <2>1. hpc[h] = "locked" /\ hpc'[h] = "admitted" /\ op' = op
    BY <1>2, <1>7 DEF Admit, HandlerPc, Running
  <2>2. Busy(h) /\ Busy(h)' /\ Phase(h)' = Phase(h)
    BY <2>1 DEF Busy, Running, Phase, Window
  <2> QED BY <1>1, <1>4, <2>1, <2>2 DEF LockMove, Rests
<1>8. CASE LocalLockDone(h)
  <2>1. /\ hpc[h] = "localLock" /\ op[h][Home[h]].pc = "ok" /\ FanOut(h, "rpc")
        /\ hpc'[h] = IF Remote(h) = {} THEN "locked" ELSE "remoteLock"
    BY <1>2, <1>8 DEF LocalLockDone, HandlerPc, Running
  <2>2. /\ \A c \in Cluster : op'[h][c] = IF c \in Remote(h) THEN At("rpc") ELSE op[h][c]
        /\ At("rpc").pc = "rpc"
    BY <1>t, <2>1, FanOutEffect, AtType DEF OpPc, Locking
  <2>3. \A c \in Remote(h) : op[h][c].pc = "idle"
    BY <1>p, <2>1 DEF PhaseOf
  <2>4. Busy(h) /\ Busy(h)' /\ Phase(h) = "before"
    BY <2>1 DEF Busy, Running, Phase, Window, Entering
  <2>5. \A d \in Cluster : op'[h][d].pc \in Owning <=> op[h][d].pc \in Owning
    BY <2>2, <2>3 DEF Owning
  <2>6. CASE Remote(h) = {}
    <3>1. Phase(h)' = "inside"
      BY <2>1, <2>6 DEF Phase, Window
    <3>2. \A c \in LockSet(h) : Owns(h, c)
      BY <2>1, <2>4, <2>6 DEF LockSet, Owns, Owning
    <3> QED BY <1>1, <1>4, <2>4, <2>5, <3>1, <3>2 DEF LockMove
  <2>7. CASE Remote(h) # {}
    <3>1. Phase(h)' = "before"
      BY <2>1, <2>7 DEF Phase, Window, Entering
    <3> QED BY <1>1, <1>4, <2>4, <2>5, <3>1 DEF LockMove, Rests
  <2> QED BY <2>6, <2>7
<1>9. CASE LocalUnlockDone(h)
  <2>1. /\ hpc[h] = "localUnlock" /\ FanOut(h, "urpc") /\ hpc'[h] \in {"refused", "remoteUnlock"}
    BY <1>2, <1>9 DEF LocalUnlockDone, HandlerPc, Running, Terminal
  <2>2. \A c \in Cluster : op'[h][c] = IF c \in Remote(h) THEN At("urpc") ELSE op[h][c]
    BY <1>t, <2>1, FanOutEffect DEF OpPc, Unlocking
  <2>3. \A c \in Remote(h) : op[h][c].pc = "ok"
    BY <1>p, <2>1 DEF PhaseOf
  <2>4. Busy(h) /\ Phase(h)' = "after"
    BY <2>1 DEF Busy, Running, Phase, Window, Entering
  <2>5. \A d \in Cluster : op'[h][d].pc \in Owning => op[h][d].pc \in Owning
    BY <2>2, <2>3 DEF Owning
  <2> QED BY <1>1, <1>3, <2>4, <2>5
<1>10. CASE Reject(h)
  <2>1. hpc[h] = "locked" /\ hpc'[h] = "localUnlock" /\ SetOp(h, Home[h], At("uget"))
    BY <1>2, <1>10 DEF Reject, HandlerPc, Running
  <2>a. At("uget") \in OpState
    BY AtType DEF OpPc, Unlocking
  <2>2. \A d \in Cluster : d # Home[h] => op'[h][d] = op[h][d]
    BY <1>p, <1>t, <2>1, <2>a, SetOpEffect
  <2>3. op[h][Home[h]].pc = "ok"
    BY <1>p, <2>1 DEF PhaseOf, Window, LockSet
  <2>4. Busy(h) /\ Phase(h)' = "after"
    BY <2>1 DEF Busy, Running, Phase, Window, Entering
  <2>5. \A d \in Cluster : op'[h][d].pc \in Owning => op[h][d].pc \in Owning
    BY <2>2, <2>3 DEF Owning
  <2> QED BY <1>1, <1>3, <2>4, <2>5
<1>11. CASE BeginLock(h)
  <2>1. hpc[h] = "idle" /\ hpc'[h] = "localLock"
    BY <1>2, <1>11 DEF BeginLock, HandlerPc, Running
  <2>2. PICK t \in Clock : SetOp(h, Home[h], [At("create") EXCEPT !.acq = t])
    BY <1>11 DEF BeginLock
  <2> DEFINE o == [At("create") EXCEPT !.acq = t]
  <2>3. o \in OpState /\ o.pc = "create" /\ SetOp(h, Home[h], o)
    BY <1>t, <2>2 DEF At, OpState, Clock, OpPc, Locking
  <2> HIDE DEF o
  <2>4. /\ op'[h][Home[h]].pc = "create"
        /\ \A d \in Cluster : d # Home[h] => op'[h][d] = op[h][d]
    BY <1>p, <1>t, <2>3, SetOpEffect
  <2>5. \A d \in Cluster : op[h][d].pc = "idle"
    BY <1>p, <2>1 DEF PhaseOf
  <2>6. \A d \in Cluster : op[h][d].pc \notin Owning /\ op'[h][d].pc \notin Owning
    BY <2>4, <2>5 DEF Owning
  <2>7. Phase(h)' = Phase(h)
    BY <2>1 DEF Phase, Window, Entering
  <2> QED BY <1>1, <2>6, <2>7 DEF LockMove, Rests, Keeps, Owns
<1> QED BY <1>5, <1>6, <1>7, <1>8, <1>9, <1>10, <1>11 DEF HandlerStep

\* The lock of internal/lock is atomic in every cluster, if the lease outlasts the
\* work: what the calls to the API servers do to the leases, in whatever order and
\* whatever fails, is what AtomicLock does in single steps.
THEOREM LockIsAtomic == Timely => (Spec => ImplementsAtomicLock)
<1> SUFFICES ASSUME Timely PROVE Spec => ImplementsAtomicLock
  OBVIOUS
<1>1. Init => Contract!Init
  <2> SUFFICES ASSUME Init PROVE Contract!Init
    OBVIOUS
  <2>1. ASSUME NEW h \in Handler
        PROVE  Phase(h) = "before" /\ {c \in Cluster : Owns(h, c)} = {}
    BY DEF Init, At, Phase, Window, Entering, Owns, Owning
  <2> QED BY <2>1 DEF Contract!Init
<1>2. Init => CallsInv
  BY DEF Init, CallsInv, At
<1>3. TypeOK /\ LockInv /\ NoWaitInVain /\ CallsInv /\ [Next]_vars
      => [Contract!Next]_(Contract!lockVars)
  <2> SUFFICES ASSUME TypeOK, LockInv, NoWaitInVain, CallsInv, [Next]_vars
               PROVE  Contract!Next \/ UNCHANGED Contract!lockVars
    OBVIOUS
  <2>1. ASSUME NEW h \in Handler, NEW c \in Cluster, OpStep(h, c) \/ OpError(h, c)
        PROVE  Contract!Next \/ UNCHANGED Contract!lockVars
    BY <2>1, CallMoves, MoveIsAtomic
  <2>2. ASSUME NEW h \in Handler,
               BeginLock(h) \/ HandlerStep(h) \/ Admit(h) \/ Reject(h) \/ Disrupt(h) \/ Abort(h)
        PROVE  Contract!Next \/ UNCHANGED Contract!lockVars
    <3>1. PhaseInv
      BY DEF LockInv
    <3> QED BY <2>2, <3>1, RequestMoves, MoveIsAtomic
  <2>3. CASE Tick \/ Quiescent \/ UNCHANGED vars
    <3>1. UNCHANGED <<hpc, op>>
      BY <2>3 DEF Tick, Quiescent, vars
    <3>2. \A g \in Handler : Rests(g)
      BY <3>1, LockFrame
    <3>3. CASE Handler = {}
      BY <3>3 DEF Contract!lockVars
    <3>4. CASE \E h \in Handler : TRUE
      BY <3>2, <3>4, MoveIsAtomic DEF LockMove
    <3> QED BY <3>3, <3>4
  <2> QED BY <2>1, <2>2, <2>3 DEF Next
<1>4. TypeOK /\ CallsInv /\ [Next]_vars => CallsInv'
  BY CallsStep
<1> QED
  BY <1>1, <1>2, <1>3, <1>4, LockInvariant, NobodyHangs, PTL
     DEF Spec, ImplementsAtomicLock, Contract!Spec
=============================================================================
