---------------------------- MODULE FleetProofs -----------------------------
(***************************************************************************)
(* The locks of a fleet of budgets, for any number of clusters, requests,  *)
(* pods, budgets and edits.                                                *)
(***************************************************************************)
EXTENDS Fleet, TLAPS

\* The type of an element of a list of requirements.
LEMMA ElementOfSeq ==
  ASSUME NEW S, NEW e \in Seq(S), NEW i \in DOMAIN e
  PROVE  e[i] \in S
OBVIOUS

\* A selector that has been sent to another cluster and converted back prints
\* like the one that was sent, so that both clusters name the same lease.
LEMMA RoundTrip ==
  ASSUME NEW s,
         \/ s.exprs = Nil
         \/ s.exprs \in Seq([key : STRING, op : STRING, values : Seq(STRING)])
  PROVE  Text(ConvertLabelSelectorToMetaV1(ConvertLabelSelectorToState(s))) = Text(s)
<1> DEFINE Requirement == [key : STRING, op : STRING, values : Seq(STRING)]
<1> DEFINE wire == ConvertLabelSelectorToState(s)
<1> DEFINE back == ConvertLabelSelectorToMetaV1(wire)
<1>1. back.labels = s.labels
  BY DEF ConvertLabelSelectorToMetaV1, ConvertLabelSelectorToState
<1>2. CASE s.exprs = Nil
  <2>1. wire.exprs = << >>
    BY <1>2 DEF ConvertLabelSelectorToState
  <2>2. back.exprs = << >>
    BY <2>1 DEF ConvertLabelSelectorToMetaV1
  <2> QED BY <1>1, <1>2, <2>2 DEF Text
<1>3. CASE s.exprs # Nil
  <2>1. s.exprs \in Seq(Requirement)
    BY <1>3
  <2>2. \A i \in DOMAIN s.exprs :
          ConvertLabelSelectorRequirementToMetaV1(
            ConvertLabelSelectorRequirementToState(s.exprs[i])) = s.exprs[i]
    <3> SUFFICES ASSUME NEW i \in DOMAIN s.exprs
                 PROVE  ConvertLabelSelectorRequirementToMetaV1(
                          ConvertLabelSelectorRequirementToState(s.exprs[i])) = s.exprs[i]
      OBVIOUS
    <3>1. s.exprs[i] \in Requirement
      BY <2>1, ElementOfSeq, Zenon
    <3> DEFINE q == s.exprs[i]
    <3> DEFINE w == ConvertLabelSelectorRequirementToState(q)
    <3>2. w.key = <<q.key>> /\ w.op = <<q.op>> /\ w.values = q.values
      BY DEF ConvertLabelSelectorRequirementToState
    <3>3. w.key # << >> /\ w.key[1] = q.key /\ w.op # << >> /\ w.op[1] = q.op
      BY <3>2
    <3>4. ConvertLabelSelectorRequirementToMetaV1(w)
            = [key |-> q.key, op |-> q.op, values |-> q.values]
      BY <3>2, <3>3 DEF ConvertLabelSelectorRequirementToMetaV1
    <3>5. q = [key |-> q.key, op |-> q.op, values |-> q.values]
      BY <3>1
    <3> QED BY <3>4, <3>5
  <2>3. wire.exprs = [i \in DOMAIN s.exprs |->
                        ConvertLabelSelectorRequirementToState(s.exprs[i])]
    BY <1>3 DEF ConvertLabelSelectorToState
  <2>4. back.exprs = [i \in DOMAIN wire.exprs |->
                        ConvertLabelSelectorRequirementToMetaV1(wire.exprs[i])]
    BY DEF ConvertLabelSelectorToMetaV1
  <2>5. back.exprs = [i \in DOMAIN s.exprs |-> s.exprs[i]]
    BY <2>2, <2>3, <2>4
  <2>6. back.exprs = s.exprs
    BY <2>1, <2>5
  <2> QED BY <1>1, <2>6 DEF Text
<1> QED BY <1>2, <1>3

\* The budget of a review is one that an operator has configured.
LEMMA BudgetIsConfigured ==
  ASSUME FTypeOK, NEW r \in Request, budget[r] # NoBudget
  PROVE  \E S \in Configs : budget[r] \in S
<1> DEFINE All == UNION Configs
<1>1. budget \in [Request -> All \cup {NoBudget}]
  BY Zenon DEF FTypeOK
<1>2. budget[r] \in All
  <2> HIDE DEF All
  <2> QED BY <1>1
<1> QED BY <1>2, Zenon

\* The name of the lease that a review locks does not depend on the cluster.
LEMMA LeaseAtOfConfigured ==
  ASSUME NEW r \in Request, NEW S \in Configs, budget[r] \in S, NEW c
  PROVE  LeaseAt(r, c) = LeaseOf(r)
<1>1. \/ budget[r].selector.exprs = Nil
      \/ budget[r].selector.exprs \in Seq([key : STRING, op : STRING, values : Seq(STRING)])
  BY SelectorAssumption
<1>2. Text(SelectorAt(r, c, budget[r].selector)) = Text(budget[r].selector)
  BY <1>1, RoundTrip, Zenon DEF SelectorAt
<1> QED BY <1>2 DEF LeaseAt, LeaseOf, LeaseName

\* So it is for every review that has a budget.
LEMMA LeaseAtIsLeaseOf ==
  ASSUME FTypeOK, NEW r \in Request, budget[r] # NoBudget, NEW c
  PROVE  LeaseAt(r, c) = LeaseOf(r)
BY BudgetIsConfigured, LeaseAtOfConfigured

-----------------------------------------------------------------------------
\* Every fleet starts well-typed.
LEMMA TypeInit == FInit => FTypeOK
<1> SUFFICES ASSUME FInit PROVE FTypeOK
  OBVIOUS
<1>1. edits \in 0 .. MaxEdits
  BY FleetAssumption DEF FInit
<1>2. pod \in [Pod -> {"ready", "unready", "terminating"}]
  BY DEF FInit
<1>3. /\ pc \in [Request -> {"idle", "decoded", "lock"} \cup Window \cup Terminal]
      /\ view \in [Request -> {"none", "ready", "unready"}]
  BY DEF FInit
<1>6. budget \in [Request -> (UNION Configs) \cup {NoBudget}]
  <2> DEFINE All == UNION Configs
  <2> HIDE DEF All
  <2>1. budget \in [Request -> All \cup {NoBudget}]
    BY DEF FInit
  <2> QED BY <2>1 DEF All
<1>4. /\ answered \in [Request -> SUBSET Cluster]
      /\ locked \in [Request -> SUBSET Cluster]
      /\ counted \in [Request -> SUBSET Cluster]
      /\ healthy \in [Request -> SUBSET Pod]
      /\ expected \in [Request -> SUBSET Pod]
  BY DEF FInit
<1>5. budgets \in [Cluster -> Configs] /\ leases = {}
  BY DEF FInit
<1> QED BY <1>1, <1>2, <1>3, <1>4, <1>5, <1>6 DEF FTypeOK

\* Every step keeps the types.
LEMMA TypeStep ==
  ASSUME FTypeOK, [FNext]_fleetVars
  PROVE  FTypeOK'
<1> USE DEF FTypeOK, Goto, Window, Terminal, worldVars, countVars
<1>1. ASSUME NEW r \in Request, Decode(r) PROVE FTypeOK'
  BY <1>1, FleetAssumption DEF Decode
<1>2. ASSUME NEW r \in Request, Bypass(r) PROVE FTypeOK'
  BY <1>2 DEF Bypass
<1>3. ASSUME NEW r \in Request, Conflict(r) PROVE FTypeOK'
  BY <1>3 DEF Conflict
<1>4. ASSUME NEW r \in Request, Protect(r) PROVE FTypeOK'
  <2>1. PICK b \in GetXPdbsForPod(Target[r]) : budget' = [budget EXCEPT ![r] = b]
    BY <1>4 DEF Protect
  <2>2. b \in UNION Configs
    BY <2>1, FleetAssumption DEF GetXPdbsForPod
  <2>3. budget' \in [Request -> (UNION Configs) \cup {NoBudget}]
    BY <2>1, <2>2
  <2> QED BY <1>4, <2>3 DEF Protect
<1>5. ASSUME NEW r \in Request, NEW c \in Cluster, Lock(r, c) PROVE FTypeOK'
  <2>1. \A l \in leases' : l.cluster \in Cluster /\ l.holder \in Request
    BY <1>5 DEF Lock
  <2> QED BY <1>5, <2>1 DEF Lock
<1>6. ASSUME NEW r \in Request, NEW c \in Cluster, Count(r, c) PROVE FTypeOK'
  <2>1. PodsMatching(c, budget[r].namespace, SelectorAt(r, c, budget[r].selector)) \subseteq Pod
    BY DEF PodsMatching
  <2> QED BY <1>6, <2>1 DEF Count
<1>7. ASSUME NEW r \in Request, Locked(r) PROVE FTypeOK'
  BY <1>7 DEF Locked
<1>8. ASSUME NEW r \in Request, LockFailed(r) PROVE FTypeOK'
  BY <1>8 DEF LockFailed
<1>9. ASSUME NEW r \in Request, Accept(r) PROVE FTypeOK'
  BY <1>9 DEF Accept
<1>10. ASSUME NEW r \in Request, Refuse(r) PROVE FTypeOK'
  <2>1. \A l \in leases' : l \in leases
    BY <1>10 DEF Refuse
  <2> QED BY <1>10, <2>1 DEF Refuse
<1>11. ASSUME NEW r \in Request, Apply(r) PROVE FTypeOK'
  BY <1>11, FleetAssumption DEF Apply
<1>12. ASSUME NEW l \in leases, Expire(l) PROVE FTypeOK'
  BY <1>12 DEF Expire
<1>13. ASSUME NEW p \in Pod, BecomeReady(p) PROVE FTypeOK'
  BY <1>13 DEF BecomeReady
<1>14. ASSUME NEW c \in Cluster, Edit(c) PROVE FTypeOK'
  BY <1>14, FleetAssumption DEF Edit
<1>15. CASE UNCHANGED fleetVars
  BY <1>15 DEF fleetVars
<1> HIDE DEF FTypeOK
<1> QED BY <1>1, <1>2, <1>3, <1>4, <1>5, <1>6, <1>7, <1>8, <1>9, <1>10, <1>11,
           <1>12, <1>13, <1>14, <1>15 DEF FNext, FQuiescent

-----------------------------------------------------------------------------
\* At first there are no leases.
LEMMA FleetInvInit == FInit => FleetInv
BY DEF FInit, FleetInv, UniqueInv, BackedInv, ProgressInv, Window

\* A step that leaves the leases, the budgets under review and the locks alone
\* only has to get the progress of its own request right.
LEMMA FleetInvFrame ==
  ASSUME FleetInv, UNCHANGED <<leases, budget, locked>>, ProgressInv',
         \A r \in Request : pc'[r] \in {"lock"} \cup Window
                              => pc[r] \in {"lock"} \cup Window \/ locked[r] = {}
  PROVE  FleetInv'
<1>1. UniqueInv'
  BY DEF FleetInv, UniqueInv
<1>2. BackedInv'
  BY DEF FleetInv, BackedInv, LeaseAt
<1> QED BY <1>1, <1>2 DEF FleetInv

\* A request that is over may lose its leases.
LEMMA OthersKeepLeases ==
  ASSUME FTypeOK, FleetInv, NEW r \in Request,
         pc' = [pc EXCEPT ![r] = "refused"], budget' = budget, locked' = locked,
         leases' \subseteq leases,
         \A l \in leases : l.holder # r => l \in leases'
  PROVE  FleetInv'
<1>1. \A q \in Request : pc'[q] = IF q = r THEN "refused" ELSE pc[q]
  BY DEF FTypeOK
<1>2. UniqueInv'
  BY DEF FleetInv, UniqueInv
<1>3. BackedInv'
  <2> SUFFICES ASSUME NEW q \in Request, pc'[q] \in {"lock"} \cup Window, NEW c \in locked[q]
               PROVE  [cluster |-> c, name |-> LeaseAt(q, c), holder |-> q] \in leases'
    BY DEF BackedInv, LeaseAt
  <2>1. q # r /\ pc[q] \in {"lock"} \cup Window
    BY <1>1 DEF Window
  <2>2. [cluster |-> c, name |-> LeaseAt(q, c), holder |-> q] \in leases
    BY <2>1 DEF FleetInv, BackedInv
  <2> QED BY <2>1, <2>2
<1>4. ProgressInv'
  BY <1>1 DEF FleetInv, ProgressInv, LockSet, Window
<1> QED BY <1>2, <1>3, <1>4 DEF FleetInv

\* A lease has one holder, and a review's leases stay until it is over.
LEMMA FleetInvStep ==
  ASSUME FTypeOK, FTypeOK', FleetInv, [FNext]_fleetVars
  PROVE  FleetInv'
<1> USE DEF Window, Terminal, worldVars, countVars
<1>1. ASSUME NEW r \in Request, Decode(r) PROVE FleetInv'
  <2>1. ProgressInv'
    BY <1>1 DEF Decode, Goto, FTypeOK, FleetInv, ProgressInv, LockSet
  <2> QED BY <1>1, <2>1, FleetInvFrame DEF Decode, Goto, FTypeOK
<1>2. ASSUME NEW r \in Request, Bypass(r) PROVE FleetInv'
  <2>1. ProgressInv' /\ locked[r] = {}
    BY <1>2 DEF Bypass, Goto, FTypeOK, FleetInv, ProgressInv, LockSet
  <2> QED BY <1>2, <2>1, FleetInvFrame DEF Bypass, Goto, FTypeOK
<1>3. ASSUME NEW r \in Request, Conflict(r) PROVE FleetInv'
  <2>1. ProgressInv'
    BY <1>3 DEF Conflict, Goto, FTypeOK, FleetInv, ProgressInv, LockSet
  <2> QED BY <1>3, <2>1, FleetInvFrame DEF Conflict, Goto, FTypeOK
<1>4. ASSUME NEW r \in Request, Protect(r) PROVE FleetInv'
  <2>1. PICK b : budget' = [budget EXCEPT ![r] = b]
    BY <1>4 DEF Protect
  <2>2. pc[r] = "decoded" /\ pc' = [pc EXCEPT ![r] = "lock"]
        /\ leases' = leases /\ locked' = locked
    BY <1>4 DEF Protect, Goto
  <2>3. locked[r] = {}
    BY <2>2 DEF FleetInv, ProgressInv
  <2>4. ProgressInv'
    BY <2>1, <2>2 DEF FTypeOK, FleetInv, ProgressInv, LockSet
  <2>5. BackedInv'
    <3> SUFFICES ASSUME NEW q \in Request, pc'[q] \in {"lock"} \cup Window, NEW c \in locked'[q]
                 PROVE  [cluster |-> c, name |-> LeaseAt(q, c)', holder |-> q] \in leases'
      BY DEF BackedInv
    <3>1. q # r
      BY <2>2, <2>3
    <3>2. pc'[q] = pc[q] /\ budget'[q] = budget[q]
      BY <2>1, <2>2, <3>1 DEF FTypeOK
    <3> QED BY <2>2, <3>2 DEF FleetInv, BackedInv, LeaseAt
  <2> QED BY <2>2, <2>4, <2>5 DEF FleetInv, UniqueInv
<1>5. ASSUME NEW r \in Request, NEW c \in Cluster, Lock(r, c) PROVE FleetInv'
  <2> DEFINE mine == [cluster |-> c, name |-> LeaseAt(r, c), holder |-> r]
  <2>1. pc[r] = "lock" /\ pc' = pc /\ budget' = budget /\ MayAsk(r, c)
    BY <1>5 DEF Lock
  <2>2. CASE leases' = leases /\ locked' = locked
    BY <2>1, <2>2 DEF FleetInv, UniqueInv, BackedInv, ProgressInv, LeaseAt
  <2>3. CASE /\ ~ Held(c, LeaseAt(r, c))
             /\ leases' = leases \cup {mine}
             /\ locked' = [locked EXCEPT ![r] = @ \cup {c}]
    <3>1. UniqueInv'
      BY <2>3 DEF FleetInv, UniqueInv, Held
    <3>2. BackedInv'
      <4> SUFFICES ASSUME NEW q \in Request, pc[q] \in {"lock"} \cup Window, NEW d \in locked'[q]
                   PROVE  [cluster |-> d, name |-> LeaseAt(q, d), holder |-> q] \in leases'
        BY <2>1 DEF BackedInv, LeaseAt
      <4>1. CASE q = r /\ d = c
        BY <2>3, <4>1
      <4>2. CASE ~ (q = r /\ d = c)
        BY <2>3, <4>2 DEF FTypeOK, FleetInv, BackedInv
      <4> QED BY <4>1, <4>2
    <3>3. ProgressInv'
      BY <2>1, <2>3 DEF FTypeOK, FleetInv, ProgressInv, LockSet
    <3> QED BY <3>1, <3>2, <3>3 DEF FleetInv
  <2> QED BY <1>5, <2>2, <2>3 DEF Lock
<1>6. ASSUME NEW r \in Request, NEW c \in Cluster, Count(r, c) PROVE FleetInv'
  <2>1. UNCHANGED <<leases, pc, budget, locked>>
    BY <1>6 DEF Count
  <2>2. ProgressInv'
    BY <2>1 DEF FleetInv, ProgressInv, LockSet
  <2> QED BY <2>1, <2>2, FleetInvFrame
<1>7. ASSUME NEW r \in Request, Locked(r) PROVE FleetInv'
  <2>1. ProgressInv'
    BY <1>7 DEF Locked, Goto, FTypeOK, FleetInv, ProgressInv, LockSet
  <2> QED BY <1>7, <2>1, FleetInvFrame DEF Locked, Goto, FTypeOK
<1>8. ASSUME NEW r \in Request, LockFailed(r) PROVE FleetInv'
  <2>1. ProgressInv'
    BY <1>8 DEF LockFailed, Goto, FTypeOK, FleetInv, ProgressInv, LockSet
  <2> QED BY <1>8, <2>1, FleetInvFrame DEF LockFailed, Goto, FTypeOK
<1>9. ASSUME NEW r \in Request, Accept(r) PROVE FleetInv'
  <2>1. ProgressInv'
    BY <1>9 DEF Accept, Goto, FTypeOK, FleetInv, ProgressInv, LockSet
  <2> QED BY <1>9, <2>1, FleetInvFrame DEF Accept, Goto, FTypeOK
<1>10. ASSUME NEW r \in Request, Refuse(r) PROVE FleetInv'
  <2>1. /\ pc' = [pc EXCEPT ![r] = "refused"]
        /\ budget' = budget /\ locked' = locked
        /\ leases' \subseteq leases
        /\ \A l \in leases : l.holder # r => l \in leases'
    BY <1>10 DEF Refuse, Goto
  <2> QED BY <2>1, OthersKeepLeases
<1>11. ASSUME NEW r \in Request, Apply(r) PROVE FleetInv'
  <2>1. ProgressInv'
    BY <1>11 DEF Apply, Goto, FTypeOK, FleetInv, ProgressInv, LockSet
  <2> QED BY <1>11, <2>1, FleetInvFrame DEF Apply, Goto, FTypeOK
<1>12. ASSUME NEW l \in leases, Expire(l) PROVE FleetInv'
  <2>1. pc' = pc /\ budget' = budget /\ locked' = locked /\ leases' = leases \ {l}
        /\ pc[l.holder] \in Terminal
    BY <1>12 DEF Expire
  <2>2. UniqueInv' /\ ProgressInv'
    BY <2>1 DEF FleetInv, UniqueInv, ProgressInv, LockSet
  <2>3. BackedInv'
    BY <2>1 DEF FleetInv, BackedInv, LeaseAt
  <2> QED BY <2>2, <2>3 DEF FleetInv
<1>13. ASSUME NEW p \in Pod, BecomeReady(p) PROVE FleetInv'
  <2>1. UNCHANGED <<leases, pc, budget, locked>>
    BY <1>13 DEF BecomeReady
  <2> QED BY <2>1 DEF FleetInv, UniqueInv, BackedInv, ProgressInv, LockSet, LeaseAt
<1>14. ASSUME NEW c \in Cluster, Edit(c) PROVE FleetInv'
  <2>1. UNCHANGED <<leases, pc, budget, locked>>
    BY <1>14 DEF Edit
  <2> QED BY <2>1 DEF FleetInv, UniqueInv, BackedInv, ProgressInv, LockSet, LeaseAt
<1>15. CASE UNCHANGED fleetVars
  <2>1. UNCHANGED <<leases, pc, budget, locked>>
    BY <1>15 DEF fleetVars
  <2> QED BY <2>1 DEF FleetInv, UniqueInv, BackedInv, ProgressInv, LockSet, LeaseAt
<1> QED BY <1>1, <1>2, <1>3, <1>4, <1>5, <1>6, <1>7, <1>8, <1>9, <1>10, <1>11,
           <1>12, <1>13, <1>14, <1>15 DEF FNext, FQuiescent

-----------------------------------------------------------------------------
\* Two reviews of one lease name share a cluster, whose lease has one holder.
LEMMA FleetInvExcludes ==
  ASSUME FTypeOK, FleetInv
  PROVE  SameSelectorExcludes
<1> SUFFICES ASSUME NEW q \in Request, NEW r \in Request, q # r,
                    pc[q] \in Window, budget[q] # NoBudget,
                    pc[r] \in Window, budget[r] # NoBudget,
                    LeaseOf(q) = LeaseOf(r)
             PROVE  FALSE
  BY DEF SameSelectorExcludes
<1>1. PICK c \in Cluster : c \in LockSet(q) /\ c \in LockSet(r)
  BY SharedClusterAssumption DEF LockSet
<1>2. c \in locked[q] /\ c \in locked[r]
  BY <1>1 DEF FleetInv, ProgressInv
<1>3. /\ [cluster |-> c, name |-> LeaseAt(q, c), holder |-> q] \in leases
      /\ [cluster |-> c, name |-> LeaseAt(r, c), holder |-> r] \in leases
  BY <1>2 DEF FleetInv, BackedInv
<1>4. LeaseAt(q, c) = LeaseAt(r, c)
  BY LeaseAtIsLeaseOf
<1> QED BY <1>3, <1>4 DEF FleetInv, UniqueInv

\* The state of a fleet is well typed in every behaviour.
THEOREM FleetTypeCorrect == FSpec => []FTypeOK
BY TypeInit, TypeStep, PTL DEF FSpec

\* The locks are accounted for in every behaviour.
THEOREM FleetInvariant == FSpec => [](FTypeOK /\ FleetInv)
<1>1. FInit => FTypeOK /\ FleetInv
  BY TypeInit, FleetInvInit
<1>2. FTypeOK /\ FleetInv /\ [FNext]_fleetVars => (FTypeOK /\ FleetInv)'
  BY TypeStep, FleetInvStep
<1> QED BY <1>1, <1>2, PTL DEF FSpec

\* The lock is valid for a namespace and a selector, in any fleet in which every
\* two webhooks lock a cluster in common: requests whose budgets have the same
\* namespace and selector are never both between the lock and the disruption.
THEOREM SameSelectorIsExclusive == FSpec => []SameSelectorExcludes
<1>1. FTypeOK /\ FleetInv => SameSelectorExcludes
  BY FleetInvExcludes
<1> QED BY <1>1, FleetInvariant, PTL

-----------------------------------------------------------------------------
(***************************************************************************)
(* Every lease name is a lock of its own.                                  *)
(***************************************************************************)
\* Request r is in the lock of name n as it was before.
RestsIn(n, r) == PhaseFor(n, r)' = PhaseFor(n, r) /\ HoldsFor(n, r)' = HoldsFor(n, r)

\* What a step may do to the lock of name n: nothing, or one request gets the lease
\* of a cluster where nobody has it, enters with all of them, or leaves.
MovesIn(n) ==
  \/ \A q \in Request : RestsIn(n, q)
  \/ \E r \in Request :
       /\ \A q \in Request \ {r} : RestsIn(n, q)
       /\ \/ /\ PhaseFor(n, r) # "inside" /\ PhaseFor(n, r)' = PhaseFor(n, r)
             /\ \E c \in LockSet(r) :
                  /\ \A q \in Request : c \notin HoldsFor(n, q)
                  /\ HoldsFor(n, r)' = HoldsFor(n, r) \cup {c}
          \/ /\ PhaseFor(n, r) = "before" /\ PhaseFor(n, r)' = "inside"
             /\ HoldsFor(n, r)' = HoldsFor(n, r) /\ LockSet(r) \subseteq HoldsFor(n, r)
          \/ /\ PhaseFor(n, r) # "after" /\ PhaseFor(n, r)' = "after"
             /\ HoldsFor(n, r)' \subseteq HoldsFor(n, r)

\* That is a step of AtomicLock, or none.
LEMMA MoveIsAtomic ==
  ASSUME NEW n, MovesIn(n)
  PROVE  UNCHANGED LockOf(n)!lockVars \/ LockOf(n)!Next
<1>1. CASE \A q \in Request : RestsIn(n, q)
  BY <1>1 DEF RestsIn, LockOf!lockVars
<1>2. ASSUME NEW r \in Request, \A q \in Request \ {r} : RestsIn(n, q)
      PROVE  LockOf(n)!Only(r)
  BY <1>2 DEF RestsIn, LockOf!Only
<1>3. ASSUME NEW r \in Request, \A q \in Request \ {r} : RestsIn(n, q),
             PhaseFor(n, r) # "inside", PhaseFor(n, r)' = PhaseFor(n, r),
             NEW c \in LockSet(r), \A q \in Request : c \notin HoldsFor(n, q),
             HoldsFor(n, r)' = HoldsFor(n, r) \cup {c}
      PROVE  LockOf(n)!Next
  <2>1. LockOf(n)!Acquire(r, c)
    BY <1>2, <1>3 DEF LockOf!Acquire
  <2> QED BY <2>1 DEF LockOf!Next
<1>4. ASSUME NEW r \in Request, \A q \in Request \ {r} : RestsIn(n, q),
             PhaseFor(n, r) = "before", PhaseFor(n, r)' = "inside",
             HoldsFor(n, r)' = HoldsFor(n, r), LockSet(r) \subseteq HoldsFor(n, r)
      PROVE  LockOf(n)!Next
  <2>1. LockOf(n)!Enter(r)
    BY <1>2, <1>4 DEF LockOf!Enter
  <2> QED BY <2>1 DEF LockOf!Next
<1>5. ASSUME NEW r \in Request, \A q \in Request \ {r} : RestsIn(n, q),
             PhaseFor(n, r) # "after", PhaseFor(n, r)' = "after",
             HoldsFor(n, r)' \subseteq HoldsFor(n, r)
      PROVE  LockOf(n)!Next
  <2>1. LockOf(n)!Leave(r)
    BY <1>2, <1>5 DEF LockOf!Leave
  <2> QED BY <2>1 DEF LockOf!Next
<1> QED BY <1>1, <1>3, <1>4, <1>5 DEF MovesIn

\* A request whose review and leases stay as they are rests in every lock; the
\* leases of one that is over do not count.
LEMMA FrameRests ==
  ASSUME NEW n, NEW q \in Request, pc'[q] = pc[q], budget'[q] = budget[q],
         pc[q] \notin Terminal =>
           \A c \in Cluster : [cluster |-> c, name |-> n, holder |-> q] \in leases'
                              <=> [cluster |-> c, name |-> n, holder |-> q] \in leases
  PROVE  RestsIn(n, q)
<1>1. PhaseFor(n, q)' = PhaseFor(n, q)
  BY DEF PhaseFor, LeaseOf
<1>2. HoldsFor(n, q)' = HoldsFor(n, q)
  BY DEF HoldsFor
<1> QED BY <1>1, <1>2 DEF RestsIn

\* A step by which only request r moves, and that leaves the leases to others alone.
LEMMA OthersRest ==
  ASSUME FTypeOK, NEW n, NEW r \in Request, NEW l, Goto(r, l), UNCHANGED <<leases, budget>>
  PROVE  /\ pc'[r] = l
         /\ \A q \in Request \ {r} : RestsIn(n, q)
<1>1. pc'[r] = l /\ \A q \in Request \ {r} : pc'[q] = pc[q]
  BY DEF FTypeOK, Goto
<1>2. ASSUME NEW q \in Request \ {r} PROVE RestsIn(n, q)
  BY <1>1, FrameRests
<1> QED BY <1>1, <1>2

\* The end of a review is the end of its stay in every lock.
LEMMA EndLeaves ==
  ASSUME NEW n, NEW r \in Request, pc[r] \notin Terminal, pc'[r] \in Terminal,
         \A q \in Request \ {r} : RestsIn(n, q)
  PROVE  MovesIn(n)
<1>1. PhaseFor(n, r) # "after" /\ PhaseFor(n, r)' = "after"
  BY DEF PhaseFor
<1>2. HoldsFor(n, r)' = {}
  BY DEF HoldsFor
<1> QED BY <1>1, <1>2 DEF MovesIn

\* Before Lock there is no lock and no budget.
LEMMA EarlyRests ==
  ASSUME FTypeOK, NEW n, NEW r \in Request, pc[r] \in {"idle", "decoded"},
         pc'[r] \in {"decoded", "lock", "admitted"}, leases' = leases,
         pc'[r] = "admitted" => budget'[r] = NoBudget
  PROVE  RestsIn(n, r)
<1>1. PhaseFor(n, r) = "before" /\ PhaseFor(n, r)' = "before"
  BY DEF PhaseFor, Terminal, Window
<1>2. HoldsFor(n, r)' = HoldsFor(n, r)
  BY DEF HoldsFor, Terminal
<1> QED BY <1>1, <1>2 DEF RestsIn

\* A cluster answers Lock: the lease is granted under the name of the review's own
\* budget, where nobody has it, or not at all.
LEMMA LockMoves ==
  ASSUME FTypeOK, NEW n, NEW r \in Request, NEW c \in Cluster, Lock(r, c),
         \E S \in Configs : budget[r] \in S
  PROVE  MovesIn(n)
<1> DEFINE mine == [cluster |-> c, name |-> LeaseAt(r, c), holder |-> r]
<1>1. pc[r] = "lock" /\ pc' = pc /\ budget' = budget /\ c \in LockSet(r)
  BY DEF Lock, MayAsk
<1>2. LeaseAt(r, c) = LeaseOf(r)
  BY LeaseAtOfConfigured
<1>3. CASE leases' = leases
  BY <1>1, <1>3, FrameRests DEF MovesIn
<1>4. CASE leases' = leases \cup {mine} /\ ~ Held(c, LeaseAt(r, c))
  <2>1. \A q \in Request \ {r} : RestsIn(n, q)
    BY <1>1, <1>4, FrameRests
  <2>2. CASE n # LeaseOf(r)
    <3>1. RestsIn(n, r)
      BY <1>1, <1>2, <1>4, <2>2, FrameRests
    <3> QED BY <2>1, <3>1 DEF MovesIn
  <2>3. CASE n = LeaseOf(r)
    <3>1. \A q \in Request : c \notin HoldsFor(n, q)
      BY <1>2, <1>4, <2>3 DEF Held, HoldsFor
    <3>2. HoldsFor(n, r)' = HoldsFor(n, r) \cup {c}
      BY <1>1, <1>2, <1>4, <2>3 DEF HoldsFor, Terminal
    <3>3. PhaseFor(n, r) = "before" /\ PhaseFor(n, r)' = "before"
      BY <1>1 DEF PhaseFor, Terminal, Window
    <3> QED BY <1>1, <2>1, <3>1, <3>2, <3>3 DEF MovesIn
  <2> QED BY <2>2, <2>3
<1> QED BY <1>3, <1>4 DEF Lock

\* Lock returns: every cluster the review needs has granted the lease, under one
\* and the same name.
LEMMA LockedMoves ==
  ASSUME FTypeOK, FleetInv, NEW n, NEW r \in Request, Locked(r),
         \E S \in Configs : budget[r] \in S
  PROVE  MovesIn(n)
<1>1. pc[r] = "lock" /\ locked[r] = LockSet(r) /\ Goto(r, "count") /\ UNCHANGED <<leases, budget>>
  BY DEF Locked
<1>2. pc'[r] = "count" /\ \A q \in Request \ {r} : RestsIn(n, q)
  BY <1>1, OthersRest
<1>3. HoldsFor(n, r)' = HoldsFor(n, r)
  BY <1>1, <1>2 DEF HoldsFor, Terminal
<1>4. PhaseFor(n, r) = "before"
  BY <1>1 DEF PhaseFor, Terminal, Window
<1>5. CASE n # LeaseOf(r) \/ budget[r] = NoBudget
  <2>1. PhaseFor(n, r)' = "before"
    BY <1>1, <1>2, <1>5 DEF PhaseFor, Terminal, LeaseOf
  <2> QED BY <1>2, <1>3, <1>4, <2>1 DEF MovesIn, RestsIn
<1>6. CASE n = LeaseOf(r) /\ budget[r] # NoBudget
  <2>1. PhaseFor(n, r)' = "inside"
    BY <1>1, <1>2, <1>6 DEF PhaseFor, Terminal, Window, LeaseOf
  <2>2. ASSUME NEW c \in LockSet(r) PROVE c \in HoldsFor(n, r)
    <3>1. LeaseAt(r, c) = n /\ c \in Cluster
      BY <1>6, LeaseAtOfConfigured, FleetAssumption DEF LockSet
    <3>2. [cluster |-> c, name |-> LeaseAt(r, c), holder |-> r] \in leases
      BY <1>1 DEF FleetInv, BackedInv
    <3> QED BY <1>1, <3>1, <3>2 DEF HoldsFor, Terminal
  <2> QED BY <1>2, <1>3, <1>4, <2>1, <2>2 DEF MovesIn
<1> QED BY <1>5, <1>6

\* A review that locks has a budget that an operator has configured.
LockingInv == \A r \in Request : pc[r] = "lock" => \E S \in Configs : budget[r] \in S

\* It is found before the lock and not changed until the lock is over.
LEMMA LockingStep ==
  ASSUME FTypeOK, LockingInv, [FNext]_fleetVars
  PROVE  LockingInv'
<1>1. ASSUME UNCHANGED budget, \A r \in Request : pc'[r] = "lock" => pc[r] = "lock"
      PROVE  LockingInv'
  BY <1>1 DEF LockingInv
<1>2. ASSUME NEW r \in Request, NEW l, Goto(r, l), l # "lock", UNCHANGED budget
      PROVE  LockingInv'
  BY <1>1, <1>2 DEF Goto, FTypeOK
<1>3. ASSUME NEW r \in Request, Protect(r) PROVE LockingInv'
  <2>1. PICK b \in GetXPdbsForPod(Target[r]) : budget' = [budget EXCEPT ![r] = b]
    BY <1>3 DEF Protect
  <2>2. b \in budgets[PodCluster[Target[r]]] /\ budgets[PodCluster[Target[r]]] \in Configs
    BY <2>1, FleetAssumption DEF GetXPdbsForPod, FTypeOK
  <2>3. budget'[r] = b /\ \A q \in Request \ {r} : budget'[q] = budget[q]
    BY <2>1 DEF FTypeOK
  <2>4. \A q \in Request \ {r} : pc'[q] = pc[q]
    BY <1>3 DEF Protect, Goto, FTypeOK
  <2> QED BY <2>2, <2>3, <2>4 DEF LockingInv
<1>4. ASSUME NEW r \in Request, NEW c \in Cluster, Lock(r, c) \/ Count(r, c) PROVE LockingInv'
  BY <1>1, <1>4 DEF Lock, Count
<1>5. ASSUME NEW r \in Request,
             Decode(r) \/ Bypass(r) \/ Conflict(r) \/ Locked(r) \/ LockFailed(r) \/ Accept(r)
             \/ Refuse(r) \/ Apply(r)
      PROVE  LockingInv'
  BY <1>2, <1>5 DEF Decode, Bypass, Conflict, Locked, LockFailed, Accept, Refuse, Apply
<1>6. CASE (\E l \in leases : Expire(l)) \/ (\E p \in Pod : BecomeReady(p))
           \/ (\E c \in Cluster : Edit(c)) \/ UNCHANGED fleetVars
  BY <1>1, <1>6 DEF Expire, BecomeReady, Edit, fleetVars
<1> QED BY <1>3, <1>4, <1>5, <1>6 DEF FNext, FQuiescent

\* Every step of a fleet is a step of AtomicLock for the leases of one name, or
\* leaves them alone.
LEMMA NameMoves ==
  ASSUME FTypeOK, FleetInv, LockingInv, [FNext]_fleetVars, NEW n
  PROVE  MovesIn(n)
<1>1. ASSUME UNCHANGED <<pc, budget, leases>> PROVE MovesIn(n)
  BY <1>1, FrameRests DEF MovesIn
<1>2. ASSUME NEW r \in Request, Decode(r) \/ Bypass(r) PROVE MovesIn(n)
  <2>1. PICK l \in {"decoded", "admitted"} :
          /\ Goto(r, l) /\ UNCHANGED <<leases, budget>> /\ pc[r] \in {"idle", "decoded"}
    BY <1>2 DEF Decode, Bypass
  <2>2. pc'[r] = l /\ \A q \in Request \ {r} : RestsIn(n, q)
    BY <2>1, OthersRest
  <2>3. budget'[r] = NoBudget
    BY <2>1 DEF FleetInv, ProgressInv
  <2>4. RestsIn(n, r)
    BY <2>1, <2>2, <2>3, EarlyRests
  <2> QED BY <2>2, <2>4 DEF MovesIn
<1>3. ASSUME NEW r \in Request, Protect(r) PROVE MovesIn(n)
  <2>1. /\ pc[r] = "decoded" /\ pc'[r] = "lock" /\ leases' = leases
        /\ \A q \in Request \ {r} : pc'[q] = pc[q]
    BY <1>3 DEF Protect, Goto, FTypeOK
  <2>2. \A q \in Request \ {r} : budget'[q] = budget[q]
    BY <1>3 DEF Protect, FTypeOK
  <2>3. \A q \in Request \ {r} : RestsIn(n, q)
    BY <2>1, <2>2, FrameRests
  <2>4. RestsIn(n, r)
    BY <2>1, EarlyRests
  <2> QED BY <2>3, <2>4 DEF MovesIn
<1>4. ASSUME NEW r \in Request, NEW c \in Cluster, Lock(r, c) PROVE MovesIn(n)
  BY <1>4, LockMoves DEF LockingInv, Lock
<1>5. ASSUME NEW r \in Request, NEW c \in Cluster, Count(r, c) PROVE MovesIn(n)
  BY <1>1, <1>5 DEF Count
<1>6. ASSUME NEW r \in Request, Locked(r) PROVE MovesIn(n)
  BY <1>6, LockedMoves DEF LockingInv, Locked
<1>7. ASSUME NEW r \in Request, Conflict(r) \/ LockFailed(r) \/ Apply(r) PROVE MovesIn(n)
  <2>1. PICK l \in Terminal :
          Goto(r, l) /\ UNCHANGED <<leases, budget>> /\ pc[r] \in {"decoded", "lock", "admitted"}
    BY <1>7 DEF Conflict, LockFailed, Apply, Terminal
  <2>2. pc'[r] = l /\ \A q \in Request \ {r} : RestsIn(n, q)
    BY <2>1, OthersRest
  <2>3. pc[r] \notin Terminal
    BY <2>1 DEF Terminal
  <2> QED BY <2>2, <2>3, EndLeaves
<1>8. ASSUME NEW r \in Request, Accept(r) PROVE MovesIn(n)
  <2>1. Goto(r, "admitted") /\ UNCHANGED <<leases, budget>> /\ pc[r] = "count"
    BY <1>8 DEF Accept
  <2>2. pc'[r] = "admitted" /\ \A q \in Request \ {r} : RestsIn(n, q)
    BY <2>1, OthersRest
  <2>3. RestsIn(n, r)
    BY <2>1, <2>2 DEF RestsIn, PhaseFor, HoldsFor, Terminal, Window, LeaseOf
  <2> QED BY <2>2, <2>3 DEF MovesIn
<1>9. ASSUME NEW r \in Request, Refuse(r) PROVE MovesIn(n)
  <2>1. /\ pc[r] = "count" /\ pc'[r] = "refused" /\ budget' = budget
        /\ \A q \in Request \ {r} : pc'[q] = pc[q]
    BY <1>9 DEF Refuse, Goto, FTypeOK
  <2>2. leases' \subseteq leases /\ \A l \in leases : l.holder # r => l \in leases'
    BY <1>9 DEF Refuse
  <2>3. \A q \in Request \ {r} : RestsIn(n, q)
    BY <2>1, <2>2, FrameRests
  <2> QED BY <2>1, <2>3, EndLeaves DEF Terminal
<1>10. ASSUME NEW l \in leases, Expire(l) PROVE MovesIn(n)
  <2>1. pc' = pc /\ budget' = budget /\ leases' = leases \ {l} /\ pc[l.holder] \in Terminal
    BY <1>10 DEF Expire
  <2>2. ASSUME NEW q \in Request PROVE RestsIn(n, q)
    BY <2>1, FrameRests
  <2> QED BY <2>2 DEF MovesIn
<1>11. CASE (\E p \in Pod : BecomeReady(p)) \/ (\E c \in Cluster : Edit(c)) \/ UNCHANGED fleetVars
  BY <1>1, <1>11 DEF BecomeReady, Edit, fleetVars
<1> QED BY <1>2, <1>3, <1>4, <1>5, <1>6, <1>7, <1>8, <1>9, <1>10, <1>11 DEF FNext, FQuiescent

\* In any fleet the leases of every name are a lock as LeaseLock implements it: the
\* clusters of a review all lock the same name, although all but one made it from a
\* converted selector, and no review enters without all of them.
THEOREM EveryNameLocks == FSpec => EveryNameIsALock
<1> DEFINE Moves == \A n \in Names : UNCHANGED LockOf(n)!lockVars \/ LockOf(n)!Next
<1> DEFINE Starts == \A n \in Names : LockOf(n)!Init
<1>1. FInit => Starts
  <2> SUFFICES ASSUME FInit, NEW n \in Names PROVE LockOf(n)!Init
    OBVIOUS
  <2>1. ASSUME NEW r \in Request PROVE PhaseFor(n, r) = "before" /\ HoldsFor(n, r) = {}
    BY DEF FInit, PhaseFor, HoldsFor, Terminal, Window
  <2> QED BY <2>1 DEF LockOf!Init
<1>2. FInit => LockingInv
  BY DEF FInit, LockingInv
<1>3. FTypeOK /\ LockingInv /\ [FNext]_fleetVars => LockingInv'
  BY LockingStep
<1>4. FTypeOK /\ FleetInv /\ LockingInv /\ [FNext]_fleetVars => Moves
  BY NameMoves, MoveIsAtomic
<1>5. FSpec => Starts /\ [][Moves]_fleetVars
  <2> HIDE DEF Starts, Moves
  <2> QED BY <1>1, <1>2, <1>3, <1>4, FleetInvariant, PTL DEF FSpec
<1> QED BY <1>5 DEF EveryNameIsALock
=============================================================================
