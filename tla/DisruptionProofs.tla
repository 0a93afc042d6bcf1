-------------------------- MODULE DisruptionProofs --------------------------
(***************************************************************************)
(* Proofs about Disruption: the lock makes the distributed decision as     *)
(* good as an atomic one, for every number of clusters, requests and pods. *)
(***************************************************************************)
EXTENDS Disruption, LeaseLockProofs, FiniteSetTheorems

USE PodAssumption, BudgetAssumption

\* Whatever the decision does, the lock underneath takes a step of its own or
\* none.
LEMMA Simulation == DSpec => Spec
<1>1. DInit => Init
  BY DEF DInit
<1>2. [DNext]_allVars => [Next]_vars
  <2> SUFFICES ASSUME [DNext]_allVars PROVE [Next]_vars
    OBVIOUS
  <2>1. ASSUME NEW h \in Handler,
               Decode(h) \/ EnterLock(h) \/ (\E c \in Cluster : Count(h, c))
               \/ Accept(h) \/ Refuse(h) \/ Apply(h)
        PROVE  [Next]_vars
    BY <2>1 DEF Decode, EnterLock, Count, Accept, Refuse, Apply, Next
  <2>2. ASSUME NEW p \in Pod, BecomeReady(p) \/ BecomeUnready(p) \/ Terminate(p) \/ Recreate(p)
        PROVE  [Next]_vars
    BY <2>2 DEF BecomeReady, BecomeUnready, Terminate, Recreate
  <2>3. CASE LockStep
    BY <2>3 DEF LockStep, Next
  <2>4. CASE UNCHANGED allVars
    BY <2>4 DEF allVars
  <2> QED
    BY <2>1, <2>2, <2>3, <2>4 DEF DNext
<1> QED
  BY <1>1, <1>2, PTL DEF DSpec, Spec

\* The state the decision adds to the lock keeps its types.
LEMMA DTypeStep == DTypeOK /\ [DNext]_allVars => DTypeOK'
<1> SUFFICES ASSUME DTypeOK, [DNext]_allVars PROVE DTypeOK'
  OBVIOUS
<1> USE DEF DTypeOK, PodState
<1>1. ASSUME NEW h \in Handler, Decode(h) PROVE DTypeOK'
  BY <1>1 DEF Decode
<1>2. ASSUME NEW h \in Handler, NEW c \in Cluster, Count(h, c) PROVE DTypeOK'
  BY <1>2 DEF Count, CountHealthy, FindExpectedScale, PodsOf
<1>3. ASSUME NEW h \in Handler, EnterLock(h) \/ Accept(h) \/ Refuse(h) PROVE DTypeOK'
  BY <1>3 DEF EnterLock, Accept, Refuse, dvars
<1>4. ASSUME NEW h \in Handler, Apply(h) PROVE DTypeOK'
  BY <1>4 DEF Apply
<1>5. ASSUME NEW p \in Pod, BecomeReady(p) \/ BecomeUnready(p) \/ Terminate(p) \/ Recreate(p)
      PROVE  DTypeOK'
  BY <1>5 DEF BecomeReady, BecomeUnready, Terminate, Recreate
<1>6. CASE LockStep \/ UNCHANGED allVars
  BY <1>6 DEF LockStep, allVars, dvars
<1> QED
  BY <1>1, <1>2, <1>3, <1>4, <1>5, <1>6 DEF DNext

\* The decision's state keeps its types.
THEOREM DTypeCorrect == DSpec => []DTypeOK
<1>1. DInit => DTypeOK
  BY DEF DInit, DTypeOK, PodState
<1> QED
  BY <1>1, DTypeStep, PTL DEF DSpec

-----------------------------------------------------------------------------
\* How the lock's own steps move a request: it comes closer to the lock, enters
\* the window from there, or leaves it for good.
LEMMA LockMoves ==
  ASSUME TypeOK, LockStep, NEW h \in Handler
  PROVE  \/ hpc'[h] = hpc[h]
         \/ hpc[h] \in {"localLock", "remoteLock"} /\ hpc'[h] \in {"remoteLock", "locked"}
         \/ hpc'[h] \in {"remoteUnlock", "refused"} /\ hpc[h] \in Running
<1>1. ASSUME NEW g \in Handler, HandlerStep(g) \/ Abort(g)
      PROVE  \/ hpc'[h] = hpc[h]
             \/ hpc[h] \in {"localLock", "remoteLock"} /\ hpc'[h] \in {"remoteLock", "locked"}
             \/ hpc'[h] \in {"remoteUnlock", "refused"} /\ hpc[h] \in Running
  BY <1>1 DEF HandlerStep, Abort, LocalLockFailed, LocalLockDone, RemoteLockDone, RemoteLockFailed,
              LocalUnlockFailed, LocalUnlockDone, RemoteUnlockReturned, Goto, TypeOK, Running
<1>2. ASSUME NEW g \in Handler, NEW c \in Cluster, OpStep(g, c) \/ OpError(g, c) PROVE hpc' = hpc
  BY <1>2 DEF OpStep, OpError, ServeLock, CreateLease, GetLease, UpdateLease, ServeUnlock,
              UnlockGet, UnlockDelete
<1>3. CASE Tick \/ Quiescent
  BY <1>3 DEF Tick, Quiescent, vars
<1> QED
  BY <1>1, <1>2, <1>3 DEF LockStep

\* A step that leaves pods, views and counts alone, and enters the window only
\* from the lock, preserves the decision's invariant.
LEMMA ControlStep ==
  ASSUME DecisionInv, CountsAreCurrent, UNCHANGED dvars,
         \A h \in Handler :
           \/ hpc'[h] = hpc[h]
           \/ hpc[h] = "idle" /\ view[h] # "none" /\ hpc'[h] = "localLock"
           \/ hpc[h] \in {"localLock", "remoteLock"} /\ hpc'[h] \in {"remoteLock", "locked"}
           \/ hpc[h] # "idle" /\ hpc'[h] \in {"localUnlock", "remoteUnlock", "refused"}
           \/ hpc[h] = "locked" /\ hpc'[h] = "admitted" /\ DisruptionAllowed(h),
         \A h \in Handler : hpc[h] \in Terminal => hpc'[h] \in Terminal
  PROVE  DecisionInv' /\ CountsAreCurrent'
<1> USE DEF dvars, Window, Terminal
<1>1. \A h \in Handler : DisruptionAllowed(h)' <=> DisruptionAllowed(h)
  BY DEF DisruptionAllowed, HealthyCompensation, DesiredHealthy
<1>2. DecodedInv' /\ EarlyInv'
  BY DEF DecisionInv, DecodedInv, EarlyInv
<1>3. AcceptedInv'
  BY <1>1 DEF DecisionInv, AcceptedInv
<1>4. CountedInv'
  BY DEF DecisionInv, EarlyInv, CountedInv, Healthy
<1>5. CandidateInv'
  BY DEF DecisionInv, CandidateInv, Undecided
<1>6. CountsAreCurrent'
  BY DEF DecisionInv, EarlyInv, CountsAreCurrent
<1> QED
  BY <1>2, <1>3, <1>4, <1>5, <1>6 DEF DecisionInv

\* A change of a pod by its own kubelet or controller preserves the invariant.
LEMMA PodStep ==
  ASSUME DTypeOK, DecisionInv, CountsAreCurrent, NEW p \in Pod,
         BecomeReady(p) \/ BecomeUnready(p) \/ Terminate(p) \/ Recreate(p)
  PROVE  DecisionInv' /\ CountsAreCurrent'
<1>1. /\ UNCHANGED <<vars, view, counted, healthy, expected>>
      /\ hpc' = hpc
      /\ \A q \in Pod \ {p} : pod'[q] = pod[q]
      /\ \/ pod[p] = "unready" /\ pod'[p] = "ready"
            /\ (CandidateMayRecover \/ \A h \in Handler : Undecided(h) => Target[h] # p)
         \/ pod[p] = "ready" /\ pod'[p] = "unready" /\ Involuntary
         \/ pod[p] = "terminating" /\ pod'[p] = "gone"
         \/ pod[p] = "gone" /\ pod'[p] = "unready"
  BY DEF BecomeReady, BecomeUnready, Terminate, Recreate, DTypeOK, vars
<1>2. \A h \in Handler : DisruptionAllowed(h)' <=> DisruptionAllowed(h)
  BY <1>1 DEF DisruptionAllowed, HealthyCompensation, DesiredHealthy
<1>3. DecodedInv' /\ EarlyInv' /\ AcceptedInv'
  BY <1>1, <1>2 DEF DecisionInv, DecodedInv, EarlyInv, AcceptedInv
<1>4. CountedInv'
  BY <1>1 DEF DecisionInv, CountedInv, Healthy, DTypeOK
<1>5. CandidateInv'
  BY <1>1 DEF DecisionInv, CandidateInv, Undecided
<1>6. CountsAreCurrent'
  BY <1>1 DEF CountsAreCurrent, DTypeOK
<1> QED
  BY <1>3, <1>4, <1>5, <1>6 DEF DecisionInv

\* Reading the candidate preserves the invariant.
LEMMA DecodeStep ==
  ASSUME DTypeOK, DecisionInv, CountsAreCurrent, NEW h \in Handler, Decode(h)
  PROVE  DecisionInv' /\ CountsAreCurrent'
<1>1. /\ UNCHANGED <<vars, pod, counted, healthy, expected>>
      /\ hpc' = hpc /\ hpc[h] = "idle"
      /\ view'[h] = pod[Target[h]]
      /\ \A g \in Handler \ {h} : view'[g] = view[g]
  BY DEF Decode, DTypeOK, vars
<1>2. \A g \in Handler \ {h} : DisruptionAllowed(g)' <=> DisruptionAllowed(g)
  BY <1>1 DEF DisruptionAllowed, HealthyCompensation, DesiredHealthy
<1>3. AcceptedInv'
  BY <1>1, <1>2 DEF DecisionInv, AcceptedInv
<1>4. CandidateInv'
  BY <1>1 DEF DecisionInv, CandidateInv, Undecided
<1>5. DecodedInv' /\ EarlyInv' /\ CountedInv' /\ CountsAreCurrent'
  BY <1>1 DEF DecisionInv, DecodedInv, EarlyInv, CountedInv, CountsAreCurrent, Healthy
<1> QED
  BY <1>3, <1>4, <1>5 DEF DecisionInv

\* Adding the counts of a cluster preserves the invariant: they are current.
LEMMA CountStep ==
  ASSUME DTypeOK, DecisionInv, CountsAreCurrent, NEW h \in Handler, NEW c \in Cluster, Count(h, c)
  PROVE  DecisionInv' /\ CountsAreCurrent'
<1>1. /\ UNCHANGED <<vars, pod, view>>
      /\ hpc' = hpc /\ hpc[h] = "locked"
      /\ healthy'[h] = healthy[h] \cup CountHealthy(c)
      /\ \A g \in Handler \ {h} : healthy'[g] = healthy[g] /\ expected'[g] = expected[g]
  BY DEF Count, DTypeOK, vars
<1>2. \A p \in CountHealthy(c) : p \in Pod /\ pod[p] = "ready"
  BY DEF CountHealthy, PodsOf
<1>3. \A g \in Handler \ {h} : DisruptionAllowed(g)' <=> DisruptionAllowed(g)
  BY <1>1 DEF DisruptionAllowed, HealthyCompensation, DesiredHealthy
<1>4. AcceptedInv'
  BY <1>1, <1>3 DEF DecisionInv, AcceptedInv
<1>5. DecodedInv' /\ EarlyInv' /\ CandidateInv'
  BY <1>1 DEF DecisionInv, DecodedInv, EarlyInv, CandidateInv, Undecided
<1>6. CountedInv'
  BY <1>1, <1>2 DEF DecisionInv, CountedInv, Healthy
<1>7. CountsAreCurrent'
  BY <1>1, <1>2 DEF CountsAreCurrent
<1> QED
  BY <1>4, <1>5, <1>6, <1>7 DEF DecisionInv

\* The disruption itself preserves the invariant because nobody else is in the
\* window: no count that is still in use loses a pod.
LEMMA ApplyStep ==
  ASSUME TypeOK, DTypeOK, MutualExclusion, DecisionInv, CountsAreCurrent,
         NEW h \in Handler, Apply(h)
  PROVE  DecisionInv' /\ CountsAreCurrent'
<1>1. /\ UNCHANGED <<view, counted, healthy, expected>>
      /\ hpc[h] = "admitted" /\ hpc'[h] = "disrupted"
      /\ \A g \in Handler \ {h} : hpc'[g] = hpc[g]
      /\ \A p \in Pod : pod'[p] = pod[p] \/ pod'[p] = "terminating"
  BY DEF Apply, Disrupt, Goto, DTypeOK, TypeOK
<1>2. \A g \in Handler : hpc'[g] \notin Window
  BY <1>1 DEF MutualExclusion, Window
<1>3. DecodedInv' /\ EarlyInv'
  BY <1>1 DEF DecisionInv, DecodedInv, EarlyInv
<1>4. AcceptedInv' /\ CountedInv' /\ CountsAreCurrent'
  BY <1>2 DEF AcceptedInv, CountedInv, CountsAreCurrent, Window
<1>5. CandidateInv'
  BY <1>1 DEF DecisionInv, CandidateInv, Undecided, Terminal
<1> QED
  BY <1>3, <1>4, <1>5 DEF DecisionInv

\* Every step preserves the decision's invariant while the lock is exclusive.
LEMMA DecisionStep ==
  ASSUME TypeOK, DTypeOK, MutualExclusion, DecisionInv, CountsAreCurrent, [DNext]_allVars
  PROVE  DecisionInv' /\ CountsAreCurrent'
<1>1. ASSUME NEW h \in Handler, Decode(h) PROVE DecisionInv' /\ CountsAreCurrent'
  BY <1>1, DecodeStep
<1>2. ASSUME NEW h \in Handler, NEW c \in Cluster, Count(h, c) PROVE DecisionInv' /\ CountsAreCurrent'
  BY <1>2, CountStep
<1>3. ASSUME NEW h \in Handler, Apply(h) PROVE DecisionInv' /\ CountsAreCurrent'
  BY <1>3, ApplyStep
<1>4. ASSUME NEW p \in Pod, BecomeReady(p) \/ BecomeUnready(p) \/ Terminate(p) \/ Recreate(p)
      PROVE  DecisionInv' /\ CountsAreCurrent'
  BY <1>4, PodStep
<1>5. ASSUME NEW h \in Handler, EnterLock(h) \/ Accept(h) \/ Refuse(h)
      PROVE  DecisionInv' /\ CountsAreCurrent'
  <2>1. UNCHANGED dvars /\ \A g \in Handler \ {h} : hpc'[g] = hpc[g]
    BY <1>5 DEF EnterLock, Accept, Refuse, BeginLock, Admit, Reject, Goto, TypeOK
  <2>2. \/ hpc[h] = "idle" /\ view[h] # "none" /\ hpc'[h] = "localLock"
        \/ hpc[h] = "locked" /\ hpc'[h] = "admitted" /\ DisruptionAllowed(h)
        \/ hpc[h] = "locked" /\ hpc'[h] = "localUnlock"
    BY <1>5 DEF EnterLock, Accept, Refuse, BeginLock, Admit, Reject, Goto, TypeOK
  <2> QED
    BY <2>1, <2>2, ControlStep DEF Terminal
<1>6. CASE LockStep
  <2>1. UNCHANGED dvars
    BY <1>6 DEF LockStep
  <2> QED
    BY <1>6, <2>1, LockMoves, ControlStep DEF Terminal, Running
<1>7. CASE UNCHANGED allVars
  BY <1>7, ControlStep DEF allVars, vars
<1> QED
  BY <1>1, <1>2, <1>3, <1>4, <1>5, <1>6, <1>7 DEF DNext

\* Counts and decisions stay good together, if the lease outlasts the work and any
\* two requests lock some cluster in common.
LEMMA DecisionInvariant ==
  Timely /\ SharedCluster => (DSpec => [](DecisionInv /\ CountsAreCurrent))
<1> SUFFICES ASSUME Timely, SharedCluster PROVE DSpec => [](DecisionInv /\ CountsAreCurrent)
  OBVIOUS
<1>1. DInit => DecisionInv /\ CountsAreCurrent
  BY DEF DInit, Init, DecisionInv, DecodedInv, EarlyInv, AcceptedInv, CountedInv, CandidateInv,
         CountsAreCurrent, Window, Undecided
<1>2. /\ TypeOK /\ DTypeOK /\ MutualExclusion /\ DecisionInv /\ CountsAreCurrent
      /\ [DNext]_allVars
      => (DecisionInv /\ CountsAreCurrent)'
  BY DecisionStep
<1> QED
  BY <1>1, <1>2, Simulation, TypeCorrect, DTypeCorrect, LockIsExclusive, PTL DEF DSpec

\* A decision that was taken on the counts is still good when the kube-apiserver
\* acts on it, whatever else happens to the pods meanwhile.
THEOREM DecisionsStayGood ==
  Timely /\ SharedCluster => (DSpec => []DecisionInv)
  BY DecisionInvariant, PTL

\* No verdict rests on a pod that an earlier verdict has given away, whatever else
\* happens to the pods.
THEOREM DecisionsAreSerial ==
  Timely /\ SharedCluster => (DSpec => []CountsAreCurrent)
  BY DecisionInvariant, PTL

-----------------------------------------------------------------------------
\* In a Staffed instance a request that is admitted expects every replica.
LEMMA ScaleStep ==
  ASSUME Staffed, TypeOK, DTypeOK, ScaleInv, [DNext]_allVars
  PROVE  ScaleInv'
<1> USE DEF ScaleInv
<1>1. ASSUME NEW h \in Handler, Decode(h) PROVE ScaleInv'
  BY <1>1 DEF Decode, vars
<1>2. ASSUME NEW h \in Handler, NEW c \in Cluster, Count(h, c) PROVE ScaleInv'
  <2>1. /\ UNCHANGED <<pod, hpc>> /\ hpc[h] = "locked"
        /\ counted'[h] = counted[h] \cup {c}
        /\ expected'[h] = expected[h] \cup FindExpectedScale(c)
        /\ \A g \in Handler \ {h} : counted'[g] = counted[g] /\ expected'[g] = expected[g]
    BY <1>2 DEF Count, DTypeOK, vars
  <2>2. ASSUME NEW p \in Pod, PodCluster[p] = c PROVE p \in FindExpectedScale(c)
    <3>1. PICK q \in Untouched : PodCluster[q] = c
      BY <2>2 DEF Staffed
    <3>2. q \in PodsOf(c) /\ pod[q] # "gone" /\ p \in PodsOf(c)
      BY <2>2, <3>1 DEF PodsOf, Untouched
    <3> QED BY <3>2 DEF FindExpectedScale
  <2>3. \A p \in Pod : PodCluster[p] \in counted'[h] => p \in expected'[h]
    BY <2>1, <2>2
  <2> QED BY <2>1, <2>3
<1>3. ASSUME NEW h \in Handler, EnterLock(h) \/ Accept(h) \/ Refuse(h) PROVE ScaleInv'
  BY <1>3 DEF EnterLock, Accept, Refuse, BeginLock, Admit, Reject, Goto, TypeOK, dvars,
              LockSet, Remote
<1>4. ASSUME NEW h \in Handler, Apply(h) PROVE ScaleInv'
  <2>1. /\ UNCHANGED <<counted, expected>> /\ hpc'[h] = "disrupted"
        /\ \A g \in Handler \ {h} : hpc'[g] = hpc[g]
        /\ \A p \in Pod \ {Target[h]} : pod'[p] = pod[p]
    BY <1>4 DEF Apply, Disrupt, Goto, DTypeOK, TypeOK
  <2> QED BY <2>1 DEF Untouched
<1>5. ASSUME NEW p \in Pod, BecomeReady(p) \/ BecomeUnready(p) \/ Terminate(p) \/ Recreate(p)
      PROVE  ScaleInv'
  BY <1>5 DEF BecomeReady, BecomeUnready, Terminate, Recreate, vars, DTypeOK, Untouched
<1>6. CASE LockStep
  <2>1. UNCHANGED dvars
    BY <1>6 DEF LockStep
  <2>2. \A h \in Handler : hpc'[h] = "admitted" => hpc[h] = "admitted"
    BY <1>6, LockMoves
  <2> QED BY <2>1, <2>2 DEF dvars
<1>7. CASE UNCHANGED allVars
  BY <1>7 DEF allVars, vars, dvars
<1> QED
  BY <1>1, <1>2, <1>3, <1>4, <1>5, <1>6, <1>7 DEF DNext

\* Workloads that never lose their last pod object have the scale they should have.
LEMMA ScaleInvariant == Staffed => (DSpec => []ScaleInv)
<1> SUFFICES ASSUME Staffed PROVE DSpec => []ScaleInv
  OBVIOUS
<1>1. DInit => ScaleInv
  BY DEF DInit, Init, ScaleInv, Untouched
<1>2. TypeOK /\ DTypeOK /\ ScaleInv /\ [DNext]_allVars => ScaleInv'
  BY ScaleStep
<1> QED
  BY <1>1, <1>2, Simulation, TypeCorrect, DTypeCorrect, PTL DEF DSpec

\* With minAvailable, or in a Staffed instance, a request that is admitted was
\* measured against the number the budget requires.
LEMMA DesiredIsRequired ==
  ASSUME DTypeOK, ~ UseMaxUnavailable \/ (Staffed /\ ScaleInv),
         NEW h \in Handler, hpc[h] = "admitted"
  PROVE  DesiredHealthy(h) = Required
<1>1. CASE ~ UseMaxUnavailable
  BY <1>1 DEF DesiredHealthy, Required
<1>2. CASE Staffed /\ ScaleInv
  <2>1. expected[h] = Pod
    <3>1. \A p \in Pod : PodCluster[p] \in counted[h]
      BY <1>2 DEF Staffed, ScaleInv
    <3>2. \A p \in Pod : p \in expected[h]
      BY <1>2, <3>1 DEF ScaleInv
    <3>3. expected[h] \subseteq Pod
      BY DEF DTypeOK
    <3> QED BY <3>2, <3>3
  <2> QED BY <2>1 DEF DesiredHealthy, Required
<1> QED BY <1>1, <1>2

\* A disruption that takes an available pod away is an atomic eviction: the
\* candidate was ready when it was decoded, so it was not compensated for, and
\* every pod that was counted is still available.
LEMMA ApplyEvicts ==
  ASSUME TypeOK, DTypeOK, DecisionInv,
         ~ UseMaxUnavailable \/ (Staffed /\ ScaleInv), ~ CandidateMayRecover, ~ Involuntary,
         NEW h \in Handler, Apply(h)
  PROVE  \/ Healthy' = Healthy
         \/ /\ Target[h] \in Healthy
            /\ Cardinality(Healthy \ {Target[h]}) >= Required
            /\ Healthy' = Healthy \ {Target[h]}
<1> DEFINE t == Target[h]
<1>1. t \in Pod /\ hpc[h] = "admitted"
  BY DEF Apply, Disrupt
<1>2. CASE pod[t] # "ready"
  BY <1>1, <1>2 DEF Apply, Healthy, DTypeOK
<1>3. CASE pod[t] = "ready"
  <2>1. t \in Healthy /\ Healthy' = Healthy \ {t}
    BY <1>1, <1>3 DEF Apply, Healthy, DTypeOK
  <2>2. view[h] = "ready"
    BY <1>1, <1>3 DEF DecisionInv, DecodedInv, CandidateInv, Undecided, Terminal, DTypeOK
  <2>3. IsFiniteSet(Healthy) /\ IsFiniteSet(healthy[h])
    BY FS_Subset DEF Healthy, DTypeOK
  <2>4. Cardinality(healthy[h]) \in Nat /\ Cardinality(Healthy) \in Nat
    BY <2>3, FS_CardinalityType
  <2>5. Required \in Int /\ Cardinality(healthy[h]) - 1 >= Required
    <3>1. Required \in Int
      BY FS_CardinalityType DEF Required
    <3>2. DisruptionAllowed(h) /\ DesiredHealthy(h) = Required
      BY <1>1, DesiredIsRequired DEF DecisionInv, AcceptedInv
    <3> QED BY <3>1, <3>2, <2>2, <2>4 DEF DisruptionAllowed, HealthyCompensation
  <2>6. Cardinality(healthy[h]) <= Cardinality(Healthy)
    BY <1>1, <2>3, FS_Subset DEF DecisionInv, CountedInv, Window
  <2>7. Cardinality(Healthy \ {t}) = Cardinality(Healthy) - 1
    BY <2>1, <2>3, FS_RemoveElement
  <2> QED
    BY <2>1, <2>4, <2>5, <2>6, <2>7
<1> QED
  BY <1>2, <1>3

\* Every step of the detailed decision is a step of the atomic one or leaves the
\* set of available pods alone.
LEMMA AbstractStep ==
  ASSUME TypeOK, DTypeOK, DecisionInv,
         ~ UseMaxUnavailable \/ (Staffed /\ ScaleInv), ~ CandidateMayRecover, ~ Involuntary,
         [DNext]_allVars
  PROVE  [Abstract!Next]_Healthy
<1>1. ASSUME NEW h \in Handler, Apply(h) PROVE [Abstract!Next]_Healthy
  <2>1. \/ Healthy' = Healthy
        \/ /\ Target[h] \in Healthy
           /\ Cardinality(Healthy \ {Target[h]}) >= Required
           /\ Healthy' = Healthy \ {Target[h]}
    BY <1>1, ApplyEvicts
  <2>2. Healthy' = Healthy \/ Abstract!Evict(Target[h])
    BY <2>1 DEF Abstract!Evict, Abstract!Cardinality, Cardinality
  <2>3. Target[h] \in Pod
    OBVIOUS
  <2> QED
    BY <2>2, <2>3 DEF Abstract!Next
<1>2. ASSUME NEW p \in Pod, BecomeReady(p) PROVE [Abstract!Next]_Healthy
  <2>1. Healthy' = Healthy \cup {p}
    BY <1>2 DEF BecomeReady, Healthy, DTypeOK
  <2> QED
    BY <2>1 DEF Abstract!Next, Abstract!Recover
<1>3. ASSUME NEW p \in Pod, BecomeUnready(p) \/ Terminate(p) \/ Recreate(p)
      PROVE  [Abstract!Next]_Healthy
  BY <1>3 DEF BecomeUnready, Terminate, Recreate, Healthy, DTypeOK
<1>4. ASSUME pod' = pod PROVE [Abstract!Next]_Healthy
  BY <1>4 DEF Healthy
<1>5. ASSUME NEW h \in Handler,
             Decode(h) \/ EnterLock(h) \/ (\E c \in Cluster : Count(h, c)) \/ Accept(h) \/ Refuse(h)
      PROVE  pod' = pod
  BY <1>5 DEF Decode, EnterLock, Count, Accept, Refuse, dvars
<1>6. ASSUME LockStep \/ UNCHANGED allVars PROVE pod' = pod
  BY <1>6 DEF LockStep, allVars, dvars
<1> QED
  BY <1>1, <1>2, <1>3, <1>4, <1>5, <1>6 DEF DNext

\* What a request expects in its counts is the whole application: a matter of
\* maxUnavailable only, which looks at it.
LEMMA MeasuredInvariant ==
  ASSUME UseMaxUnavailable => Staffed
  PROVE  DSpec => [](~ UseMaxUnavailable \/ (Staffed /\ ScaleInv))
<1> DEFINE Measured == ~ UseMaxUnavailable \/ (Staffed /\ ScaleInv)
<1>1. CASE ~ UseMaxUnavailable
  <2>1. Measured
    BY <1>1
  <2> QED BY <2>1, PTL
<1>2. CASE Staffed
  <2>1. ScaleInv => Measured
    BY <1>2
  <2> QED BY <1>2, <2>1, ScaleInvariant, PTL
<1> QED BY <1>1, <1>2

\* The decision that CanPodBeDisrupted takes over several clusters is as good as
\* an atomic one.  What it needs: the timing condition of leases.go, a cluster
\* in common, that only disruptions make pods unavailable, that no candidate
\* becomes ready while its request is under way, and for maxUnavailable that no
\* workload loses all its pods.
THEOREM ImplementsBudget ==
  /\ Timely /\ SharedCluster /\ ~ CandidateMayRecover /\ ~ Involuntary
  /\ UseMaxUnavailable => Staffed
  => (DSpec => ImplementsAtomicBudget)
<1> SUFFICES ASSUME Timely, SharedCluster, ~ CandidateMayRecover, ~ Involuntary,
                    UseMaxUnavailable => Staffed
             PROVE  DSpec => ImplementsAtomicBudget
  OBVIOUS
<1> DEFINE Measured == ~ UseMaxUnavailable \/ (Staffed /\ ScaleInv)
<1>1. DInit => Abstract!Init
  BY DEF Abstract!Init, Healthy
<1>2. TypeOK /\ DTypeOK /\ DecisionInv /\ Measured /\ [DNext]_allVars => [Abstract!Next]_Healthy
  BY AbstractStep
<1> QED
  BY <1>1, <1>2, MeasuredInvariant, Simulation, TypeCorrect, DTypeCorrect, DecisionsStayGood, PTL
     DEF DSpec, ImplementsAtomicBudget, Abstract!Spec

\* What the documentation promises of an eviction holds, under the conditions of
\* ImplementsBudget: a disruption that takes an available pod away leaves as many
\* as the budget requires.  The runs that break the promise drop the condition on
\* the candidate, or the one on the workloads of maxUnavailable.
THEOREM BudgetIsKept ==
  /\ Timely /\ SharedCluster /\ ~ CandidateMayRecover /\ ~ Involuntary
  /\ UseMaxUnavailable => Staffed
  => (DSpec => DisruptionKeepsBudget)
<1> SUFFICES ASSUME Timely, SharedCluster, ~ CandidateMayRecover, ~ Involuntary,
                    UseMaxUnavailable => Staffed
             PROVE  DSpec => DisruptionKeepsBudget
  OBVIOUS
<1> DEFINE Measured == ~ UseMaxUnavailable \/ (Staffed /\ ScaleInv)
           Kept     == Healthy \subseteq Healthy' \/ Cardinality(Healthy') >= Required
<1>1. [Abstract!Next]_Healthy => Kept
  <2>1. ASSUME NEW p \in Pod, Abstract!Evict(p) PROVE Kept
    BY <2>1 DEF Abstract!Evict, Abstract!Cardinality, Cardinality
  <2>2. ASSUME NEW p \in Pod, Abstract!Recover(p) PROVE Kept
    BY <2>2 DEF Abstract!Recover
  <2> QED BY <2>1, <2>2 DEF Abstract!Next
<1>2. TypeOK /\ DTypeOK /\ DecisionInv /\ Measured /\ [DNext]_allVars => Kept
  BY <1>1, AbstractStep
<1> QED
  BY <1>2, MeasuredInvariant, Simulation, TypeCorrect, DTypeCorrect, DecisionsStayGood, PTL
     DEF DSpec, DisruptionKeepsBudget
=============================================================================
