------------------------- MODULE FleetBudgetProofs --------------------------
(***************************************************************************)
(* The budgets of a fleet: the verdict of disruptionAllowed is what the    *)
(* API comments promise, for every limit and every count that an int32     *)
(* holds, and the disruptions that take effect keep the budgets they were  *)
(* reviewed under, for any number of clusters, requests, pods and edits.   *)
(***************************************************************************)
EXTENDS FleetProofs, FiniteSetTheorems

(***************************************************************************)
(* The verdict.                                                            *)
(***************************************************************************)
\* int32 arithmetic is exact as long as the result is an int32.
LEMMA WrapInRange ==
  ASSUME NEW x \in Int32
  PROVE  Wrap(x) = x
<1>1. x + Half \in 0 .. 2 * Half - 1
  BY HalfAssumption DEF Int32
<1> DEFINE y == x + Half
<1> DEFINE m == 2 * Half
<1>2. y \in 0 .. m - 1 /\ m \in Nat \ {0}
  BY <1>1, HalfAssumption
<1>3. y % m = y
  <2> HIDE DEF y, m
  <2> QED BY <1>2
<1> QED BY <1>3, HalfAssumption DEF Wrap, Int32

\* One above the largest int32 is the smallest, and one below the smallest is
\* the largest.
LEMMA WrapAtTheEdge ==
  Wrap(Half) = - Half /\ Wrap(- Half - 1) = Half - 1
<1> DEFINE m == 2 * Half
<1>1. m \in Nat \ {0}
  BY HalfAssumption
<1>2. m % m = 0 /\ (-1) % m = m - 1
  <2> HIDE DEF m
  <2> QED BY <1>1
<1> QED BY <1>2, HalfAssumption DEF Wrap

\* A percentage is rounded up: the scaled value is the least number of pods that
\* is at least that share of the total.
LEMMA ScaledValueIsCeiling ==
  ASSUME NEW p \in Nat, NEW total \in Nat
  PROVE  LET c == (p * total + 99) \div 100
         IN c \in Nat /\ 100 * c >= p * total /\ 100 * (c - 1) < p * total
<1> DEFINE x == p * total
<1>1. x \in Nat
  OBVIOUS
<1>2. LET c == (x + 99) \div 100
      IN c \in Nat /\ 100 * c >= x /\ 100 * (c - 1) < x
  <2> HIDE DEF x
  <2> QED BY <1>1
<1> QED BY <1>2

\* The candidate's compensation cancels the subtraction, also where the
\* intermediate sum leaves the int32 range.
LEMMA AvailableAfter ==
  ASSUME NEW ready \in BOOLEAN, NEW up \in 0 .. Half - 1
  PROVE  Wrap(Wrap(up + Compensation(ready)) - 1)
           = IF ready THEN up - 1 ELSE up
<1>1. CASE ready
  <2>1. up \in Int32 /\ up - 1 \in Int32 /\ up + 0 = up
    BY HalfAssumption DEF Int32
  <2> QED BY <1>1, <2>1, WrapInRange DEF Compensation
<1>2. CASE ~ ready /\ up < Half - 1
  <2>1. up \in Int32 /\ up + 1 \in Int32 /\ (up + 1) - 1 = up
    BY <1>2, HalfAssumption DEF Int32
  <2> QED BY <1>2, <2>1, WrapInRange DEF Compensation
<1>3. CASE ~ ready /\ up = Half - 1
  <2>1. up + 1 = Half
    BY <1>3, HalfAssumption
  <2> QED BY <1>3, <2>1, WrapAtTheEdge DEF Compensation
<1> QED BY <1>1, <1>2, <1>3, HalfAssumption

\* disruptionAllowed and the API comments agree: a disruption is allowed exactly
\* when the pods that it leaves available keep the budget, for numbers and for
\* percentages, for maxUnavailable and minAvailable, whether or not the candidate
\* is ready.
THEOREM VerdictIsTheBudget ==
  ASSUME NEW b, NEW ready \in BOOLEAN,
         NEW total \in 0 .. Half - 1, NEW up \in 0 .. Half - 1,
         Sensible(Effective(b), total)
  PROVE  DisruptionAllowed(b, ready, total, up)
           <=> KeepsBudget(b, total, IF ready THEN up - 1 ELSE up)
<1> DEFINE left == IF ready THEN up - 1 ELSE up
<1>1. left \in Int /\ total \in Nat
  BY HalfAssumption
<1>2. Wrap(Wrap(up + Compensation(ready)) - 1) = left
  BY AvailableAfter
<1>3. CASE b.max # NoLimit
  <2>0. Sensible(b.max, total)
    BY <1>3 DEF Effective
  <2> DEFINE v == ScaledValue(b.max, total)
  <2>1. v \in Int32 /\ v \in Nat
    <3>1. CASE b.max.kind = "percent"
      BY <1>3, <2>0, <3>1, <1>1, ScaledValueIsCeiling DEF Sensible, ScaledValue
    <3>2. CASE b.max.kind = "int"
      BY <1>3, <2>0, <3>2 DEF Sensible, ScaledValue
    <3> QED BY <1>3, <2>0, <3>1, <3>2 DEF Sensible
  <2>2. total - v \in Int32
    BY <2>1, HalfAssumption DEF Int32
  <2>3. DesiredHealthy(b, total) = total - v
    BY <1>3, <2>1, <2>2, WrapInRange DEF DesiredHealthy
  <2>4. KeepsBudget(b, total, left) <=> AtMost(total - left, b.max, total)
    BY <1>3 DEF KeepsBudget
  <2>5. AtMost(total - left, b.max, total) <=> total - left <= v
    <3>1. CASE b.max.kind = "percent"
      <4> DEFINE x == b.max.value * total
      <4>1. v = (x + 99) \div 100
        BY <3>1 DEF ScaledValue
      <4>0. b.max.value \in Nat
        BY <1>3, <2>0 DEF Sensible
      <4>2. x \in Nat /\ 100 * v >= x /\ 100 * (v - 1) < x
        BY <1>1, <4>0, <4>1, ScaledValueIsCeiling
      <4>3. AtMost(total - left, b.max, total) <=> 100 * ((total - left) - 1) < x
        BY <3>1 DEF AtMost
      <4> HIDE DEF x, v, left
      <4> QED BY <1>1, <2>1, <4>2, <4>3
    <3>2. CASE b.max.kind = "int"
      BY <3>2 DEF AtMost, ScaledValue
    <3> QED BY <1>3, <2>0, <3>1, <3>2 DEF Sensible
  <2> HIDE DEF v, left
  <2>6. left >= total - v <=> total - left <= v
    BY <1>1, <2>1
  <2> QED BY <1>2, <2>3, <2>4, <2>5, <2>6 DEF DisruptionAllowed, left
<1>4. CASE b.max = NoLimit /\ b.min # NoLimit
  <2>0. Sensible(b.min, total)
    BY <1>4 DEF Effective
  <2> DEFINE v == ScaledValue(b.min, total)
  <2>1. v \in Int32 /\ v \in Nat
    <3>1. CASE b.min.kind = "percent"
      BY <1>4, <2>0, <3>1, <1>1, ScaledValueIsCeiling DEF Sensible, ScaledValue
    <3>2. CASE b.min.kind = "int"
      BY <1>4, <2>0, <3>2 DEF Sensible, ScaledValue
    <3> QED BY <1>4, <2>0, <3>1, <3>2 DEF Sensible
  <2>2. DesiredHealthy(b, total) = v
    BY <1>4, <2>1, WrapInRange DEF DesiredHealthy
  <2>3. KeepsBudget(b, total, left) <=> AtLeast(left, b.min, total)
    BY <1>4 DEF KeepsBudget
  <2>4. AtLeast(left, b.min, total) <=> left >= v
    <3>1. CASE b.min.kind = "percent"
      <4> DEFINE x == b.min.value * total
      <4>1. v = (x + 99) \div 100
        BY <3>1 DEF ScaledValue
      <4>0. b.min.value \in Nat
        BY <1>4, <2>0 DEF Sensible
      <4>2. x \in Nat /\ 100 * v >= x /\ 100 * (v - 1) < x
        BY <1>1, <4>0, <4>1, ScaledValueIsCeiling
      <4>3. AtLeast(left, b.min, total) <=> 100 * left >= x
        BY <3>1 DEF AtLeast
      <4> HIDE DEF x, v, left
      <4> QED BY <1>1, <2>1, <4>2, <4>3
    <3>2. CASE b.min.kind = "int"
      BY <3>2 DEF AtLeast, ScaledValue
    <3> QED BY <1>4, <2>0, <3>1, <3>2 DEF Sensible
  <2> HIDE DEF v, left
  <2> QED BY <1>2, <2>2, <2>3, <2>4 DEF DisruptionAllowed, left
<1>5. CASE b.max = NoLimit /\ b.min = NoLimit
  BY <1>2, <1>5 DEF DisruptionAllowed, DesiredHealthy, KeepsBudget
<1> QED BY <1>3, <1>4, <1>5

\* "You can prevent all voluntary evictions by specifying 100%", and by specifying
\* a maxUnavailable of 0 (the comments in api/v1alpha1).  With such a budget a
\* disruption is allowed exactly when the pods that are healthy without the candidate
\* are as many as are expected: none is while the healthy pods are pods of the
\* expected ones, but unmanaged pods and those that a rollout surges by are counted as
\* healthy and not as expected, and each of them makes room for a disruption.
THEOREM FullBudgetYieldsOnlyToSurplus ==
  ASSUME NEW b, NEW ready \in BOOLEAN,
         NEW total \in 0 .. Half - 1, NEW up \in 0 .. Half - 1,
         \/ b.max # NoLimit /\ b.max.kind = "int" /\ b.max.value = 0
         \/ b.max = NoLimit /\ b.min # NoLimit /\ b.min.kind = "percent" /\ b.min.value = 100
  PROVE  DisruptionAllowed(b, ready, total, up) <=> IF ready THEN up > total ELSE up >= total
<1>1. total \in Int32 /\ 0 \in Int32
  BY HalfAssumption DEF Int32
<1>2. DesiredHealthy(b, total) = total
  <2>1. CASE b.max # NoLimit
    <3>1. ScaledValue(b.max, total) = 0
      BY <2>1 DEF ScaledValue
    <3>2. Wrap(0) = 0 /\ Wrap(total) = total /\ total - 0 = total
      BY <1>1, WrapInRange, HalfAssumption
    <3> QED BY <2>1, <3>1, <3>2 DEF DesiredHealthy
  <2>2. CASE b.max = NoLimit
    <3>1. (100 * total + 99) \div 100 = total
      BY HalfAssumption
    <3>2. ScaledValue(b.min, total) = total
      BY <2>2, <3>1 DEF ScaledValue
    <3> QED BY <1>1, <2>2, <3>2, WrapInRange DEF DesiredHealthy
  <2> QED BY <2>1, <2>2
<1>3. Wrap(Wrap(up + Compensation(ready)) - 1) = IF ready THEN up - 1 ELSE up
  BY AvailableAfter
<1> QED BY <1>2, <1>3, HalfAssumption DEF DisruptionAllowed

\* More available pods never break a budget.
LEMMA MorePodsKeepBudget ==
  ASSUME NEW b, NEW total \in Nat, NEW m \in Int, NEW n \in Int, m <= n,
         Sensible(Effective(b), total), KeepsBudget(b, total, m)
  PROVE  KeepsBudget(b, total, n)
<1>1. CASE b.max # NoLimit
  <2>1. b.max.value \in Nat /\ b.max.kind \in {"int", "percent"}
    BY <1>1 DEF Sensible, Effective
  <2> DEFINE x == b.max.value * total
  <2>2. x \in Nat
    BY <2>1
  <2>3. AtMost(total - m, b.max, total)
    BY <1>1 DEF KeepsBudget
  <2>4. CASE b.max.kind = "percent"
    <3>1. 100 * ((total - m) - 1) < x
      BY <2>3, <2>4 DEF AtMost
    <3> HIDE DEF x
    <3>2. 100 * ((total - n) - 1) < x
      BY <2>2, <3>1
    <3> QED BY <1>1, <2>4, <3>2 DEF KeepsBudget, AtMost, x
  <2>5. CASE b.max.kind = "int"
    BY <1>1, <2>1, <2>3, <2>5 DEF KeepsBudget, AtMost
  <2> QED BY <2>1, <2>4, <2>5
<1>2. CASE b.max = NoLimit /\ b.min # NoLimit
  <2>1. b.min.value \in Nat /\ b.min.kind \in {"int", "percent"}
    BY <1>2 DEF Sensible, Effective
  <2> DEFINE x == b.min.value * total
  <2>2. x \in Nat
    BY <2>1
  <2>3. AtLeast(m, b.min, total)
    BY <1>2 DEF KeepsBudget
  <2>4. CASE b.min.kind = "percent"
    <3>1. 100 * m >= x
      BY <2>3, <2>4 DEF AtLeast
    <3> HIDE DEF x
    <3>2. 100 * n >= x
      BY <2>2, <3>1
    <3> QED BY <1>2, <2>4, <3>2 DEF KeepsBudget, AtLeast, x
  <2>5. CASE b.min.kind = "int"
    BY <1>2, <2>1, <2>3, <2>5 DEF KeepsBudget, AtLeast
  <2> QED BY <2>1, <2>4, <2>5
<1>3. CASE b.max = NoLimit /\ b.min = NoLimit
  BY <1>3 DEF KeepsBudget
<1> QED BY <1>1, <1>2, <1>3

-----------------------------------------------------------------------------
(***************************************************************************)
(* The counts it is given, and the disruptions it admits.                  *)
(***************************************************************************)
\* A converted selector picks the pods that the original picks.
LEMMA SamePods ==
  ASSUME FTypeOK, NEW r \in Request, budget[r] # NoBudget, NEW c \in Cluster
  PROVE  PodsMatching(c, budget[r].namespace, SelectorAt(r, c, budget[r].selector))
           = {p \in Pod : /\ PodCluster[p] = c
                          /\ Namespace[p] = budget[r].namespace
                          /\ Matches(budget[r].selector, Labels[p])}
<1> DEFINE s == budget[r].selector
<1> DEFINE t == SelectorAt(r, c, s)
<1>1. PICK S \in Configs : budget[r] \in S
  BY BudgetIsConfigured
<1>2. s.exprs = Nil \/ s.exprs \in Seq([key : STRING, op : STRING, values : Seq(STRING)])
  BY <1>1, SelectorAssumption
<1>3. Text(t) = Text(s)
  BY <1>2, RoundTrip, Zenon DEF SelectorAt
<1>4. /\ t.labels = s.labels
      /\ (IF t.exprs = Nil THEN << >> ELSE t.exprs) = (IF s.exprs = Nil THEN << >> ELSE s.exprs)
  <2> DEFINE te == IF t.exprs = Nil THEN << >> ELSE t.exprs
  <2> DEFINE se == IF s.exprs = Nil THEN << >> ELSE s.exprs
  <2>1. <<t.labels, te>> = <<s.labels, se>>
    BY <1>3 DEF Text
  <2> HIDE DEF te, se, s, t
  <2> QED BY <2>1 DEF te, se
<1>5. \A l : Matches(t, l) <=> Matches(s, l)
  <2> SUFFICES ASSUME NEW l PROVE Matches(t, l) <=> Matches(s, l)
    OBVIOUS
  <2> HIDE DEF s, t
  <2>1. CASE t.exprs = Nil /\ s.exprs = Nil
    BY <1>4, <2>1 DEF Matches
  <2>2. CASE t.exprs # Nil /\ s.exprs # Nil
    BY <1>4, <2>2 DEF Matches
  <2>3. CASE t.exprs = Nil /\ s.exprs # Nil
    <3>1. s.exprs = << >>
      BY <1>4, <2>3
    <3> QED BY <1>4, <2>3, <3>1 DEF Matches
  <2>4. CASE t.exprs # Nil /\ s.exprs = Nil
    <3>1. t.exprs = << >>
      BY <1>4, <2>4
    <3> QED BY <1>4, <2>4, <3>1 DEF Matches
  <2> QED BY <2>1, <2>2, <2>3, <2>4
<1> HIDE DEF s, t
<1>6. PodsMatching(c, budget[r].namespace, t)
        = {p \in Pod : /\ PodCluster[p] = c
                       /\ Namespace[p] = budget[r].namespace
                       /\ Matches(s, Labels[p])}
  BY <1>5 DEF PodsMatching
<1> QED BY <1>6 DEF s, t

-----------------------------------------------------------------------------
\* At first nothing is counted.
LEMMA CountsInit == FInit => CountsInv
BY DEF FInit, CountsInv, CountsOf, EarlyOf, CandidateOf, ReviewOf, Window

\* A step keeps the counts of a request that it does not touch, if it keeps the
\* account of the pods.
LEMMA CountsKept ==
  ASSUME NEW q \in Request, CountsOf(q),
         pc'[q] = pc[q], view'[q] = view[q], budget'[q] = budget[q],
         counted'[q] = counted[q], healthy'[q] = healthy[q], expected'[q] = expected[q],
         pc[q] \in {"decoded", "lock"} \cup Window /\ pod[Target[q]] # "ready"
           => pod'[Target[q]] # "ready",
         pc[q] \in Window /\ budget[q] # NoBudget
           => \A p \in healthy[q] : Accounted(q, p) => Accounted(q, p)'
  PROVE  CountsOf(q)'
<1>1. EarlyOf(q)'
  BY DEF CountsOf, EarlyOf
<1>2. CandidateOf(q)'
  <2>1. CandidateOf(q)
    BY DEF CountsOf
  <2> QED BY <2>1 DEF CandidateOf
<1>3. ReviewOf(q)'
  <2>1. ReviewOf(q)
    BY DEF CountsOf
  <2>2. LockSet(q)' = LockSet(q) /\ Selected(q)' = Selected(q) /\ Verdict(q)' = Verdict(q)
    BY DEF Selected, LockSet, Verdict
  <2> SUFFICES ASSUME pc[q] \in Window, budget[q] # NoBudget
               PROVE  /\ counted[q] \subseteq LockSet(q)
                      /\ expected[q] = {p \in Selected(q) : PodCluster[p] \in counted[q]}
                      /\ healthy[q] \subseteq expected[q]
                      /\ \A p \in healthy[q] : Accounted(q, p)'
                      /\ pc[q] = "admitted" => counted[q] = LockSet(q) /\ Verdict(q)
    BY <2>2 DEF ReviewOf
  <2> QED BY <2>1 DEF ReviewOf
<1> QED BY <1>1, <1>2, <1>3 DEF CountsOf

\* An account of the pods survives a step that neither changes pods nor budgets
\* nor undoes a disruption.
LEMMA AccountedFrame ==
  ASSUME NEW q \in Request, NEW p, pod' = pod,
         \A x \in Request : pc[x] = "done" => pc'[x] = "done" /\ budget'[x] = budget[x],
         budget'[q] = budget[q], Accounted(q, p)
  PROVE  Accounted(q, p)'
<1>1. \A x \in Outsider(q) : pc[x] = "done" => x \in Outsider(q)' /\ pc'[x] = "done"
  BY DEF Outsider, LeaseOf
<1> QED BY <1>1 DEF Accounted

\* A step of request r that touches neither pods nor counts only has to get the
\* counts of r right.
LEMMA CountsFrame ==
  ASSUME FTypeOK, CountsInv, NEW r \in Request, NEW l,
         pc' = [pc EXCEPT ![r] = l], pc[r] # "done",
         UNCHANGED <<pod, view, budget, counted, healthy, expected>>,
         CountsOf(r)'
  PROVE  CountsInv'
<1> SUFFICES ASSUME NEW q \in Request, q # r PROVE CountsOf(q)'
  BY DEF CountsInv
<1>1. \A x \in Request : pc'[x] = IF x = r THEN l ELSE pc[x]
  BY DEF FTypeOK
<1>2. CountsOf(q)
  BY DEF CountsInv
<1>3. \A p : Accounted(q, p) => Accounted(q, p)'
  BY <1>1, AccountedFrame
<1> QED BY <1>1, <1>2, <1>3, CountsKept

\* A step that touches none of this keeps the counts.
LEMMA CountsUnchanged ==
  ASSUME CountsInv, UNCHANGED <<pod, pc, view, budget, counted, healthy, expected>>
  PROVE  CountsInv'
<1> SUFFICES ASSUME NEW q \in Request PROVE CountsOf(q)'
  BY DEF CountsInv
<1>1. CountsOf(q)
  BY DEF CountsInv
<1>2. \A p : Accounted(q, p) => Accounted(q, p)'
  BY AccountedFrame
<1> QED BY <1>1, <1>2, CountsKept

\* The candidate of the review is as it was decoded.
LEMMA DecodeCounts ==
  ASSUME FTypeOK, CountsInv, NEW r \in Request, Decode(r)
  PROVE  CountsInv'
<1> SUFFICES ASSUME NEW q \in Request PROVE CountsOf(q)'
  BY DEF CountsInv
<1>1. /\ pc[r] = "idle" /\ pc' = [pc EXCEPT ![r] = "decoded"]
      /\ view' = [view EXCEPT ![r] = pod[Target[r]]]
      /\ UNCHANGED <<pod, budget, counted, healthy, expected>>
  BY DEF Decode, Goto, worldVars, countVars
<1>2. \A x \in Request : pc'[x] = IF x = r THEN "decoded" ELSE pc[x]
  BY <1>1 DEF FTypeOK
<1>3. \A x \in Request : view'[x] = IF x = r THEN pod[Target[r]] ELSE view[x]
  BY <1>1 DEF FTypeOK
<1>4. CountsOf(q)
  BY DEF CountsInv
<1>5. CASE q = r
  <2>1. healthy[r] = {} /\ counted[r] = {} /\ expected[r] = {}
    BY <1>1, <1>4, <1>5 DEF CountsOf, EarlyOf
  <2>2. pc'[r] = "decoded" /\ view'[r] = pod[Target[r]]
    BY <1>2, <1>3
  <2>3. EarlyOf(r)'
    BY <1>1, <2>1 DEF EarlyOf
  <2>4. CandidateOf(r)'
    BY <1>1, <2>1, <2>2 DEF CandidateOf
  <2>5. ReviewOf(r)'
    BY <2>2 DEF ReviewOf, Window
  <2> QED BY <1>5, <2>3, <2>4, <2>5 DEF CountsOf
<1>6. CASE q # r
  <2>1. view'[q] = view[q] /\ pc'[q] = pc[q]
    BY <1>2, <1>3, <1>6
  <2>2. \A p : Accounted(q, p) => Accounted(q, p)'
    BY <1>1, <1>2, AccountedFrame
  <2> QED BY <1>1, <1>4, <2>1, <2>2, CountsKept
<1> QED BY <1>5, <1>6

\* Finding its budget makes a review an insider of some reviews and an outsider of
\* others, none of which it has taken a pod from.
LEMMA ProtectCounts ==
  ASSUME FTypeOK, CountsInv, NEW r \in Request, Protect(r)
  PROVE  CountsInv'
<1> SUFFICES ASSUME NEW q \in Request PROVE CountsOf(q)'
  BY DEF CountsInv
<1>0. PICK b : budget' = [budget EXCEPT ![r] = b]
  BY DEF Protect
<1>1. /\ pc[r] = "decoded" /\ pc' = [pc EXCEPT ![r] = "lock"]
      /\ UNCHANGED <<pod, view, counted, healthy, expected>>
  BY DEF Protect, Goto, worldVars, countVars
<1>2. \A x \in Request : pc'[x] = IF x = r THEN "lock" ELSE pc[x]
  BY <1>1 DEF FTypeOK
<1>3. \A x \in Request : x # r => budget'[x] = budget[x]
  BY <1>0 DEF FTypeOK
<1>4. CountsOf(q)
  BY DEF CountsInv
<1>5. CASE q = r
  <2>1. EarlyOf(r)'
    BY <1>1, <1>4, <1>5 DEF CountsOf, EarlyOf
  <2>2. CandidateOf(r)'
    BY <1>1, <1>4, <1>5 DEF CountsOf, CandidateOf
  <2>3. ReviewOf(r)'
    BY <1>2 DEF ReviewOf, Window
  <2> QED BY <1>5, <2>1, <2>2, <2>3 DEF CountsOf
<1>6. CASE q # r
  <2>1. pc'[q] = pc[q] /\ budget'[q] = budget[q]
    BY <1>2, <1>3, <1>6
  <2>2. \A p : Accounted(q, p) => Accounted(q, p)'
    BY <1>1, <1>2, <1>3, <2>1, AccountedFrame
  <2> QED BY <1>1, <1>4, <2>1, <2>2, CountsKept
<1> QED BY <1>5, <1>6

\* The pods counted in a cluster are those of the budget, although the selector has
\* been converted, and they are available now.
LEMMA CountCounts ==
  ASSUME FTypeOK, CountsInv, NEW r \in Request, NEW c \in Cluster, Count(r, c)
  PROVE  CountsInv'
<1> SUFFICES ASSUME NEW q \in Request PROVE CountsOf(q)'
  BY DEF CountsInv
<1> DEFINE found == PodsMatching(c, budget[r].namespace, SelectorAt(r, c, budget[r].selector))
<1>1. /\ pc[r] = "count" /\ c \in LockSet(r) \ counted[r]
      /\ counted' = [counted EXCEPT ![r] = @ \cup {c}]
      /\ healthy' = [healthy EXCEPT ![r] = @ \cup {p \in found : pod[p] = "ready"}]
      /\ expected' = [expected EXCEPT ![r] = @ \cup found]
      /\ UNCHANGED <<pod, pc, view, budget>>
  BY DEF Count, worldVars
<1>2. CountsOf(q)
  BY DEF CountsInv
<1>3. \A p : Accounted(q, p) => Accounted(q, p)'
  BY <1>1, AccountedFrame
<1>4. CASE q # r
  <2>1. counted'[q] = counted[q] /\ healthy'[q] = healthy[q] /\ expected'[q] = expected[q]
    BY <1>1, <1>4 DEF FTypeOK
  <2> HIDE DEF found
  <2> QED BY <1>1, <1>2, <1>3, <2>1, CountsKept
<1>5. CASE q = r
  <2>1. /\ counted'[r] = counted[r] \cup {c}
        /\ healthy'[r] = healthy[r] \cup {p \in found : pod[p] = "ready"}
        /\ expected'[r] = expected[r] \cup found
    BY <1>1 DEF FTypeOK
  <2>2. EarlyOf(r)'
    BY <1>1 DEF EarlyOf
  <2>3. CandidateOf(r)'
    <3>1. CandidateOf(r)
      BY <1>2, <1>5 DEF CountsOf
    <3> HIDE DEF found
    <3> QED BY <1>1, <2>1, <3>1 DEF CandidateOf, Window
  <2>4. ReviewOf(r)'
    <3> SUFFICES ASSUME budget[r] # NoBudget
                 PROVE  /\ counted'[r] \subseteq LockSet(r)
                        /\ expected'[r] = {p \in Selected(r) : PodCluster[p] \in counted'[r]}
                        /\ healthy'[r] \subseteq expected'[r]
                        /\ \A p \in healthy'[r] : Accounted(r, p)'
      BY <1>1 DEF ReviewOf, Selected, LockSet
    <3>1. ReviewOf(r)
      BY <1>2, <1>5 DEF CountsOf
    <3>2. /\ counted[r] \subseteq LockSet(r)
          /\ expected[r] = {p \in Selected(r) : PodCluster[p] \in counted[r]}
          /\ healthy[r] \subseteq expected[r]
          /\ \A p \in healthy[r] : Accounted(r, p)
      BY <1>1, <3>1 DEF ReviewOf, Window
    <3>3. found = {p \in Selected(r) : PodCluster[p] = c}
      <4>1. found = {p \in Pod : /\ PodCluster[p] = c
                                 /\ Namespace[p] = budget[r].namespace
                                 /\ Matches(budget[r].selector, Labels[p])}
        BY SamePods
      <4> HIDE DEF found
      <4> QED BY <1>1, <4>1 DEF Selected
    <3> HIDE DEF found
    <3>4. \A p \in found : pod[p] = "ready" => Accounted(r, p)'
      BY <1>1 DEF Accounted
    <3>5. \A p \in healthy'[r] : Accounted(r, p)'
      BY <1>3, <1>5, <2>1, <3>2, <3>4
    <3>6. expected'[r] = {p \in Selected(r) : PodCluster[p] \in counted'[r]}
      BY <2>1, <3>2, <3>3
    <3> QED BY <1>1, <2>1, <3>2, <3>5, <3>6
  <2> QED BY <1>5, <2>2, <2>3, <2>4 DEF CountsOf
<1> QED BY <1>4, <1>5

\* A pod that goes is counted in no review that does not know of it.
LEMMA ApplyCounts ==
  ASSUME FTypeOK, SameSelectorExcludes, CountsInv, NEW r \in Request, Apply(r)
  PROVE  CountsInv'
<1> SUFFICES ASSUME NEW q \in Request PROVE CountsOf(q)'
  BY DEF CountsInv
<1>1. /\ pc[r] = "admitted" /\ pc' = [pc EXCEPT ![r] = "done"]
      /\ pod' = [pod EXCEPT ![Target[r]] = "terminating"]
      /\ UNCHANGED <<view, budget, counted, healthy, expected>>
  BY DEF Apply, Goto, countVars
<1>2. \A x \in Request : pc'[x] = IF x = r THEN "done" ELSE pc[x]
  BY <1>1 DEF FTypeOK
<1>3. \A p \in Pod : pod'[p] = IF p = Target[r] THEN "terminating" ELSE pod[p]
  BY <1>1 DEF FTypeOK
<1>4. CountsOf(q)
  BY DEF CountsInv
<1>5. CASE q = r
  BY <1>2, <1>5 DEF CountsOf, EarlyOf, CandidateOf, ReviewOf, Window
<1>6. CASE q # r
  <2>1. pc'[q] = pc[q]
    BY <1>2, <1>6
  <2>2. pod[Target[q]] # "ready" => pod'[Target[q]] # "ready"
    BY <1>3, FleetAssumption
  <2>3. ASSUME pc[q] \in Window, budget[q] # NoBudget
        PROVE  \A p \in healthy[q] : Accounted(q, p) => Accounted(q, p)'
    <3>1. r \in Outsider(q)
      BY <1>1, <1>6, <2>3 DEF Outsider, SameSelectorExcludes, Window
    <3>2. Outsider(q)' = Outsider(q)
      BY <1>1 DEF Outsider, LeaseOf
    <3>3. \A x \in Outsider(q) : pc[x] = "done" => pc'[x] = "done"
      BY <1>2 DEF Outsider
    <3>4. pc'[r] = "done"
      BY <1>2
    <3> SUFFICES ASSUME NEW p \in healthy[q], Accounted(q, p) PROVE Accounted(q, p)'
      OBVIOUS
    <3>5. p \in Pod
      BY DEF FTypeOK
    <3>6. CASE p = Target[r]
      BY <3>1, <3>2, <3>4, <3>6 DEF Accounted
    <3>7. CASE p # Target[r]
      <4>1. pod'[p] = pod[p]
        BY <1>3, <3>5, <3>7
      <4> QED BY <3>2, <3>3, <4>1 DEF Accounted
    <3> QED BY <3>6, <3>7
  <2> QED BY <1>1, <1>4, <2>1, <2>2, <2>3, CountsKept
<1> QED BY <1>5, <1>6

\* Pods that come up do not change what was counted.
LEMMA BecomeReadyCounts ==
  ASSUME FTypeOK, CountsInv, NEW p \in Pod, BecomeReady(p)
  PROVE  CountsInv'
<1> SUFFICES ASSUME NEW q \in Request PROVE CountsOf(q)'
  BY DEF CountsInv
<1>1. /\ \A r \in Request : Target[r] = p => pc[r] \in {"idle"} \cup Terminal
      /\ pod' = [pod EXCEPT ![p] = "ready"]
      /\ UNCHANGED <<pc, view, budget, counted, healthy, expected>>
  BY DEF BecomeReady, countVars
<1>2. \A x \in Pod : pod'[x] = IF x = p THEN "ready" ELSE pod[x]
  BY <1>1 DEF FTypeOK
<1>3. CountsOf(q)
  BY DEF CountsInv
<1>4. Outsider(q)' = Outsider(q)
  BY <1>1 DEF Outsider, LeaseOf
<1>5. pc[q] \in {"decoded", "lock"} \cup Window => pod'[Target[q]] = pod[Target[q]]
  BY <1>1, <1>2, FleetAssumption DEF Window, Terminal
<1>6. \A x \in healthy[q] : Accounted(q, x) => Accounted(q, x)'
  <2>1. \A x \in healthy[q] : x \in Pod
    BY DEF FTypeOK
  <2> QED BY <1>1, <1>2, <1>4, <2>1 DEF Accounted
<1> QED BY <1>1, <1>3, <1>5, <1>6, CountsKept

\* The counts stay current, step by step.
LEMMA CountsStep ==
  ASSUME FTypeOK, FleetInv, CountsInv, [FNext]_fleetVars
  PROVE  CountsInv'
<1> USE DEF Goto, worldVars, countVars
<1>1. ASSUME NEW r \in Request, Decode(r) PROVE CountsInv'
  BY <1>1, DecodeCounts
<1>2. ASSUME NEW r \in Request, Bypass(r) PROVE CountsInv'
  <2>1. /\ pc[r] = "decoded" /\ pc' = [pc EXCEPT ![r] = "admitted"]
        /\ UNCHANGED <<pod, view, budget, counted, healthy, expected>>
    BY <1>2 DEF Bypass
  <2>2. budget[r] = NoBudget /\ CountsOf(r)
    BY <2>1 DEF FleetInv, ProgressInv, CountsInv
  <2>3. CountsOf(r)'
    BY <2>1, <2>2 DEF FTypeOK, CountsOf, EarlyOf, CandidateOf, ReviewOf, Window
  <2> QED BY <2>1, <2>3, CountsFrame
<1>3. ASSUME NEW r \in Request, Conflict(r) PROVE CountsInv'
  <2>1. /\ pc[r] = "decoded" /\ pc' = [pc EXCEPT ![r] = "refused"]
        /\ UNCHANGED <<pod, view, budget, counted, healthy, expected>>
    BY <1>3 DEF Conflict
  <2>2. CountsOf(r)'
    BY <2>1 DEF FTypeOK, CountsOf, EarlyOf, CandidateOf, ReviewOf, Window
  <2> QED BY <2>1, <2>2, CountsFrame
<1>4. ASSUME NEW r \in Request, Protect(r) PROVE CountsInv'
  BY <1>4, ProtectCounts
<1>5. ASSUME NEW r \in Request, NEW c \in Cluster, Lock(r, c) PROVE CountsInv'
  <2>1. UNCHANGED <<pod, pc, view, budget, counted, healthy, expected>>
    BY <1>5 DEF Lock
  <2> QED BY <2>1, CountsUnchanged
<1>6. ASSUME NEW r \in Request, NEW c \in Cluster, Count(r, c) PROVE CountsInv'
  BY <1>6, CountCounts
<1>7. ASSUME NEW r \in Request, Locked(r) PROVE CountsInv'
  <2>1. /\ pc[r] = "lock" /\ pc' = [pc EXCEPT ![r] = "count"]
        /\ UNCHANGED <<pod, view, budget, counted, healthy, expected>>
    BY <1>7 DEF Locked
  <2>2. CountsOf(r) /\ pc'[r] = "count"
    BY <2>1 DEF FTypeOK, CountsInv
  <2>3. EarlyOf(r)' /\ CandidateOf(r)'
    BY <2>1, <2>2 DEF CountsOf, EarlyOf, CandidateOf, Window
  <2>4. counted[r] = {} /\ healthy[r] = {} /\ expected[r] = {}
    BY <2>1, <2>2 DEF CountsOf, EarlyOf
  <2>5. ReviewOf(r)'
    BY <2>1, <2>2, <2>4 DEF ReviewOf
  <2>6. CountsOf(r)'
    BY <2>3, <2>5 DEF CountsOf
  <2> QED BY <2>1, <2>6, CountsFrame
<1>8. ASSUME NEW r \in Request, LockFailed(r) PROVE CountsInv'
  <2>1. /\ pc[r] = "lock" /\ pc' = [pc EXCEPT ![r] = "refused"]
        /\ UNCHANGED <<pod, view, budget, counted, healthy, expected>>
    BY <1>8 DEF LockFailed
  <2>2. CountsOf(r)'
    BY <2>1 DEF FTypeOK, CountsOf, EarlyOf, CandidateOf, ReviewOf, Window
  <2> QED BY <2>1, <2>2, CountsFrame
<1>9. ASSUME NEW r \in Request, Accept(r) PROVE CountsInv'
  <2>1. /\ pc[r] = "count" /\ pc' = [pc EXCEPT ![r] = "admitted"]
        /\ counted[r] = LockSet(r) /\ Verdict(r)
        /\ UNCHANGED <<pod, view, budget, counted, healthy, expected>>
    BY <1>9 DEF Accept
  <2>2. CountsOf(r) /\ pc'[r] = "admitted"
    BY <2>1 DEF FTypeOK, CountsInv
  <2>3. EarlyOf(r)' /\ CandidateOf(r)'
    BY <2>1, <2>2 DEF CountsOf, EarlyOf, CandidateOf, Window
  <2>4. LockSet(r)' = LockSet(r) /\ Selected(r)' = Selected(r) /\ Verdict(r)' = Verdict(r)
    BY <2>1 DEF Selected, LockSet, Verdict
  <2>5. \A p : Accounted(r, p) => Accounted(r, p)'
    <3>1. \A x \in Request : pc[x] = "done" => pc'[x] = "done"
      BY <2>1 DEF FTypeOK
    <3> QED BY <2>1, <3>1, AccountedFrame
  <2>6. ReviewOf(r)'
    <3>1. ReviewOf(r)
      BY <2>2 DEF CountsOf
    <3> QED BY <2>1, <2>2, <2>4, <2>5, <3>1 DEF ReviewOf, Window
  <2>7. CountsOf(r)'
    BY <2>3, <2>6 DEF CountsOf
  <2> QED BY <2>1, <2>7, CountsFrame
<1>10. ASSUME NEW r \in Request, Refuse(r) PROVE CountsInv'
  <2>1. /\ pc[r] = "count" /\ pc' = [pc EXCEPT ![r] = "refused"]
        /\ UNCHANGED <<pod, view, budget, counted, healthy, expected>>
    BY <1>10 DEF Refuse
  <2>2. CountsOf(r)'
    BY <2>1 DEF FTypeOK, CountsOf, EarlyOf, CandidateOf, ReviewOf, Window
  <2> QED BY <2>1, <2>2, CountsFrame
<1>11. ASSUME NEW r \in Request, Apply(r) PROVE CountsInv'
  BY <1>11, FleetInvExcludes, ApplyCounts
<1>12. ASSUME NEW l \in leases, Expire(l) PROVE CountsInv'
  <2>1. UNCHANGED <<pod, pc, view, budget, counted, healthy, expected>>
    BY <1>12 DEF Expire
  <2> QED BY <2>1, CountsUnchanged
<1>13. ASSUME NEW p \in Pod, BecomeReady(p) PROVE CountsInv'
  BY <1>13, BecomeReadyCounts
<1>14. ASSUME NEW c \in Cluster, Edit(c) PROVE CountsInv'
  <2>1. UNCHANGED <<pod, pc, view, budget, counted, healthy, expected>>
    BY <1>14 DEF Edit
  <2> QED BY <2>1, CountsUnchanged
<1>15. CASE UNCHANGED fleetVars
  <2>1. UNCHANGED <<pod, pc, view, budget, counted, healthy, expected>>
    BY <1>15 DEF fleetVars
  <2> QED BY <2>1, CountsUnchanged
<1> QED BY <1>1, <1>2, <1>3, <1>4, <1>5, <1>6, <1>7, <1>8, <1>9, <1>10, <1>11,
           <1>12, <1>13, <1>14, <1>15 DEF FNext, FQuiescent

-----------------------------------------------------------------------------
\* The only step from "admitted" to "done" is the disruption itself.
LEMMA OnlyApplyDisrupts ==
  ASSUME FTypeOK, [FNext]_fleetVars, NEW r \in Request, pc[r] = "admitted", pc'[r] = "done"
  PROVE  Apply(r)
<1> USE DEF Goto, FTypeOK
<1>1. \A q \in Request : ~ Decode(q) /\ ~ Bypass(q) /\ ~ Conflict(q) /\ ~ Protect(q)
  BY DEF Decode, Bypass, Conflict, Protect
<1>2. \A q \in Request : \A c \in Cluster : ~ Lock(q, c) /\ ~ Count(q, c)
  BY DEF Lock, Count
<1>3. \A q \in Request : ~ Locked(q) /\ ~ LockFailed(q) /\ ~ Accept(q) /\ ~ Refuse(q)
  BY DEF Locked, LockFailed, Accept, Refuse
<1>4. \A l \in leases : ~ Expire(l)
  BY DEF Expire
<1>5. \A p \in Pod : ~ BecomeReady(p)
  BY DEF BecomeReady
<1>6. \A c \in Cluster : ~ Edit(c)
  BY DEF Edit
<1>7. ~ FQuiescent /\ ~ UNCHANGED fleetVars
  BY DEF FQuiescent, fleetVars
<1>8. \A q \in Request : Apply(q) => q = r
  BY DEF Apply
<1> QED BY <1>1, <1>2, <1>3, <1>4, <1>5, <1>6, <1>7, <1>8 DEF FNext

\* The step from the verdict to the pods: what is left when the disruption takes
\* effect is at least what the verdict was about.
LEMMA ApplyKeepsBudget ==
  ASSUME FTypeOK, CountsInv, NEW r \in Request, Apply(r), budget[r] # NoBudget,
         NEW left,
         left = {p \in Selected(r) :
                   \/ pod'[p] = "ready"
                   \/ p \in ({Target[q] : q \in Outsider(r)} \cap healthy[r]) \ {Target[r]}}
  PROVE  KeepsBudget(budget[r], Cardinality(Selected(r)), Cardinality(left))
<1>1. /\ pc[r] = "admitted"
      /\ pod' = [pod EXCEPT ![Target[r]] = "terminating"]
  BY DEF Apply
<1>2. CountsOf(r)
  BY DEF CountsInv
<1>3. counted[r] = LockSet(r) /\ Verdict(r)
  BY <1>1, <1>2 DEF CountsOf, ReviewOf, Window
<1>4. expected[r] = Selected(r) /\ healthy[r] \subseteq Selected(r)
  BY <1>1, <1>2, <1>3 DEF CountsOf, ReviewOf, Window, Selected
<1>5. view[r] # "ready" => Target[r] \notin healthy[r]
  BY <1>1, <1>2 DEF CountsOf, CandidateOf, Window
<1>6. \A p \in healthy[r] \ {Target[r]} : p \in left
  <2> SUFFICES ASSUME NEW p \in healthy[r], p # Target[r] PROVE p \in left
    OBVIOUS
  <2>1. pod[p] = "ready" \/ \E q \in Outsider(r) : Target[q] = p
    BY <1>1, <1>2 DEF CountsOf, ReviewOf, Accounted, Window
  <2>2. p \in Pod /\ p \in Selected(r)
    BY <1>4 DEF FTypeOK
  <2>3. pod'[p] = pod[p]
    BY <1>1, <2>2 DEF FTypeOK
  <2> QED BY <2>1, <2>2, <2>3
<1>7. /\ IsFiniteSet(Selected(r)) /\ IsFiniteSet(healthy[r]) /\ IsFiniteSet(left)
      /\ Cardinality(Selected(r)) <= Cardinality(Pod)
      /\ Cardinality(healthy[r]) <= Cardinality(Pod)
  <2>1. Selected(r) \subseteq Pod /\ healthy[r] \subseteq Pod /\ left \subseteq Pod
    BY DEF Selected, FTypeOK
  <2>2. IsFiniteSet(Pod)
    BY FleetAssumption
  <2> QED BY <2>1, <2>2, FS_Subset
<1>8. /\ Cardinality(Selected(r)) \in Nat /\ Cardinality(healthy[r]) \in Nat
      /\ Cardinality(left) \in Nat /\ Cardinality(Pod) \in Nat
  BY <1>7, FleetAssumption, FS_CardinalityType
<1> DEFINE total == Cardinality(Selected(r))
<1> DEFINE before == Cardinality(healthy[r])
<1> DEFINE after == IF view[r] = "ready" THEN before - 1 ELSE before
<1>9. total \in 0 .. Half - 1 /\ before \in 0 .. Half - 1 /\ total \in 0 .. Cardinality(Pod)
  <2>1. Cardinality(Pod) < Half
    BY LimitAssumption
  <2>2. /\ total \in Nat /\ before \in Nat
        /\ total <= Cardinality(Pod) /\ before <= Cardinality(Pod)
    BY <1>7, <1>8
  <2> HIDE DEF total, before
  <2>3. Half \in Nat /\ Cardinality(Pod) \in Nat
    BY <1>8, HalfAssumption
  <2> QED BY <2>1, <2>2, <2>3
<1>10. Sensible(Effective(budget[r]), total)
  <2>1. PICK S \in Configs : budget[r] \in S
    BY BudgetIsConfigured
  <2>2. ~ LimitInvalid(budget[r])
    BY <1>3 DEF Verdict
  <2> QED BY <1>9, <2>1, <2>2, LimitAssumption
<1>11. DisruptionAllowed(budget[r], view[r] = "ready", total, before)
  BY <1>3, <1>4 DEF Verdict
<1>12. KeepsBudget(budget[r], total, after)
  BY <1>9, <1>10, <1>11, VerdictIsTheBudget
<1>13. after <= Cardinality(left)
  <2>1. CASE Target[r] \in healthy[r]
    <3>1. view[r] = "ready"
      BY <1>5, <2>1
    <3>2. /\ IsFiniteSet(healthy[r] \ {Target[r]})
          /\ Cardinality(healthy[r] \ {Target[r]}) = before - 1
      BY <1>7, <2>1, FS_RemoveElement
    <3>3. healthy[r] \ {Target[r]} \subseteq left
      BY <1>6
    <3>4. Cardinality(healthy[r] \ {Target[r]}) <= Cardinality(left)
      BY <1>7, <3>3, FS_Subset
    <3> QED BY <3>1, <3>2, <3>4
  <2>2. CASE Target[r] \notin healthy[r]
    <3>1. healthy[r] \subseteq left
      BY <1>6, <2>2
    <3>2. before <= Cardinality(left)
      BY <1>7, <3>1, FS_Subset
    <3>3. before \in Nat /\ Cardinality(left) \in Nat
      BY <1>8
    <3> DEFINE k == Cardinality(left)
    <3> HIDE DEF before, k
    <3>4. before - 1 <= k /\ before <= k
      BY <3>2, <3>3 DEF k
    <3> QED BY <3>4, Zenon DEF k
  <2> QED BY <2>1, <2>2
<1>14. after \in Int /\ Cardinality(left) \in Int /\ total \in Nat
  <2>1. before \in Nat /\ Cardinality(left) \in Nat /\ total \in Nat
    BY <1>8
  <2> HIDE DEF before, total
  <2> QED BY <2>1
<1> HIDE DEF total, after
<1>15. KeepsBudget(budget[r], total, Cardinality(left))
  BY <1>10, <1>12, <1>13, <1>14, MorePodsKeepBudget
<1> QED BY <1>15 DEF total

\* The API's promise, for every fleet: a reviewed disruption leaves what its
\* budget asks for, but for the pods that outsiders took after they were counted.
THEOREM ReviewsKeepBudgets == FSpec => ReviewedDisruptionKeepsBudget
<1> DEFINE Inv == FTypeOK /\ FleetInv /\ CountsInv
<1> DEFINE Kept ==
      \A r \in Request :
        pc[r] = "admitted" /\ pc'[r] = "done" /\ budget[r] # NoBudget =>
          LET taken == {Target[q] : q \in Outsider(r)} \cap healthy[r]
              left == {p \in Selected(r) : pod'[p] = "ready" \/ p \in taken \ {Target[r]}}
          IN KeepsBudget(budget[r], Cardinality(Selected(r)), Cardinality(left))
<1>1. FInit => Inv
  BY TypeInit, FleetInvInit, CountsInit
<1>2. Inv /\ [FNext]_fleetVars => Inv'
  BY TypeStep, FleetInvStep, CountsStep
<1>3. Inv /\ [FNext]_fleetVars => [Kept]_fleetVars
  <2> SUFFICES ASSUME Inv, [FNext]_fleetVars, NEW r \in Request,
                      pc[r] = "admitted", pc'[r] = "done", budget[r] # NoBudget
               PROVE  LET taken == {Target[q] : q \in Outsider(r)} \cap healthy[r]
                          left == {p \in Selected(r) :
                                     pod'[p] = "ready" \/ p \in taken \ {Target[r]}}
                      IN KeepsBudget(budget[r], Cardinality(Selected(r)), Cardinality(left))
    OBVIOUS
  <2>1. Apply(r)
    BY OnlyApplyDisrupts
  <2> QED BY <2>1, ApplyKeepsBudget
<1>4. ReviewedDisruptionKeepsBudget <=> [][Kept]_fleetVars
  BY PTL DEF ReviewedDisruptionKeepsBudget
<1> HIDE DEF Inv, Kept
<1> QED BY <1>1, <1>2, <1>3, <1>4, PTL DEF FSpec

-----------------------------------------------------------------------------
\* A step that does not touch a review keeps its reason.
LEMMA ReasonKept ==
  ASSUME NEW q \in Request, ReasonOf(q),
         pc'[q] = pc[q], view'[q] = view[q], budget'[q] = budget[q],
         counted'[q] = counted[q], healthy'[q] = healthy[q], expected'[q] = expected[q]
  PROVE  ReasonOf(q)'
<1>1. LockSet(q)' = LockSet(q) /\ Verdict(q)' = Verdict(q)
  BY DEF LockSet, Verdict
<1> QED BY <1>1 DEF ReasonOf

\* A review that has not counted does not end in a verdict.
LEMMA NoVerdictYet ==
  ASSUME NEW r \in Request, counted[r] = {}, counted' = counted
  PROVE  counted'[r] # LockSet(r)'
  BY DEF LockSet

\* Only Refuse ends a review that has counted everywhere with a refusal.
LEMMA ReasonStep ==
  ASSUME FTypeOK, CountsInv, ReasonInv, [FNext]_fleetVars
  PROVE  ReasonInv'
<1> SUFFICES ASSUME NEW q \in Request PROVE ReasonOf(q)'
  BY DEF ReasonInv
<1> USE DEF Goto, worldVars, countVars
<1>0. ReasonOf(q)
  BY DEF ReasonInv
<1>1. \A r \in Request : pc[r] \in {"idle", "decoded", "lock"} => counted[r] = {}
  BY DEF CountsInv, CountsOf, EarlyOf
<1>2. ASSUME NEW r \in Request, NEW l \in {"decoded", "admitted", "done"},
             pc' = [pc EXCEPT ![r] = l],
             \A x \in Request : x # r => view'[x] = view[x],
             UNCHANGED <<budget, counted, healthy, expected>>
      PROVE  ReasonOf(q)'
  <2>1. \A x \in Request : pc'[x] = IF x = r THEN l ELSE pc[x]
    BY <1>2 DEF FTypeOK
  <2>2. CASE q = r
    BY <2>1, <2>2 DEF ReasonOf
  <2>3. CASE q # r
    BY <1>0, <1>2, <2>1, <2>3, ReasonKept
  <2> QED BY <2>2, <2>3
<1>3. ASSUME NEW r \in Request, pc[r] \in {"decoded", "lock"}, pc' = [pc EXCEPT ![r] = "refused"],
             UNCHANGED <<view, budget, counted, healthy, expected>>
      PROVE  ReasonOf(q)'
  <2>1. \A x \in Request : pc'[x] = IF x = r THEN "refused" ELSE pc[x]
    BY <1>3 DEF FTypeOK
  <2>2. CASE q = r
    <3>1. counted'[q] # LockSet(q)'
      BY <1>1, <1>3, <2>2, NoVerdictYet
    <3> QED BY <2>1, <2>2, <3>1 DEF ReasonOf
  <2>3. CASE q # r
    BY <1>0, <1>3, <2>1, <2>3, ReasonKept
  <2> QED BY <2>2, <2>3
<1>4. ASSUME UNCHANGED <<pc, view, budget, counted, healthy, expected>>
      PROVE  ReasonOf(q)'
  BY <1>0, <1>4, ReasonKept
<1>5. ASSUME NEW r \in Request, Decode(r) PROVE ReasonOf(q)'
  <2>1. \A x \in Request : x # r => view'[x] = view[x]
    BY <1>5 DEF Decode, FTypeOK
  <2>2. /\ pc' = [pc EXCEPT ![r] = "decoded"]
        /\ UNCHANGED <<budget, counted, healthy, expected>>
    BY <1>5 DEF Decode
  <2> QED BY <1>2, <2>1, <2>2, Zenon
<1>6. ASSUME NEW r \in Request, Bypass(r) \/ Accept(r) \/ Apply(r) PROVE ReasonOf(q)'
  BY <1>2, <1>6 DEF Bypass, Accept, Apply
<1>7. ASSUME NEW r \in Request, Conflict(r) \/ LockFailed(r) PROVE ReasonOf(q)'
  BY <1>3, <1>7 DEF Conflict, LockFailed
<1>8. ASSUME NEW r \in Request, Protect(r) PROVE ReasonOf(q)'
  <2>1. PICK b \in GetXPdbsForPod(Target[r]) : budget' = [budget EXCEPT ![r] = b]
    BY <1>8 DEF Protect
  <2>2. b \in UNION Configs
    BY FleetAssumption DEF GetXPdbsForPod, FTypeOK
  <2>3. /\ \A x \in Request : pc'[x] = IF x = r THEN "lock" ELSE pc[x]
        /\ \A x \in Request : budget'[x] = IF x = r THEN b ELSE budget[x]
    BY <1>8, <2>1 DEF Protect, FTypeOK
  <2>4. CASE q = r
    BY <2>2, <2>3, <2>4 DEF ReasonOf
  <2>5. CASE q # r
    BY <1>0, <1>8, <2>3, <2>5, ReasonKept DEF Protect
  <2> QED BY <2>4, <2>5
<1>9. ASSUME NEW r \in Request, NEW c \in Cluster, Lock(r, c) PROVE ReasonOf(q)'
  BY <1>4, <1>9 DEF Lock
<1>10. ASSUME NEW r \in Request, NEW c \in Cluster, Count(r, c) PROVE ReasonOf(q)'
  <2>1. /\ pc[r] = "count" /\ pc' = pc /\ view' = view /\ budget' = budget
        /\ \A x \in Request : x # r => /\ counted'[x] = counted[x]
                                      /\ healthy'[x] = healthy[x]
                                      /\ expected'[x] = expected[x]
    BY <1>10 DEF Count, FTypeOK
  <2>2. CASE q = r
    BY <1>0, <2>1, <2>2 DEF ReasonOf
  <2>3. CASE q # r
    BY <1>0, <2>1, <2>3, ReasonKept
  <2> QED BY <2>2, <2>3
<1>11. ASSUME NEW r \in Request, Locked(r) PROVE ReasonOf(q)'
  <2>1. /\ pc[r] = "lock" /\ UNCHANGED <<view, budget, counted, healthy, expected>>
        /\ \A x \in Request : pc'[x] = IF x = r THEN "count" ELSE pc[x]
    BY <1>11 DEF Locked, FTypeOK
  <2>2. CASE q = r
    BY <1>0, <2>1, <2>2 DEF ReasonOf
  <2>3. CASE q # r
    BY <1>0, <2>1, <2>3, ReasonKept
  <2> QED BY <2>2, <2>3
<1>12. ASSUME NEW r \in Request, Refuse(r) PROVE ReasonOf(q)'
  <2>1. /\ pc[r] = "count" /\ ~ Verdict(r) /\ UNCHANGED <<view, budget, counted, healthy, expected>>
        /\ \A x \in Request : pc'[x] = IF x = r THEN "refused" ELSE pc[x]
    BY <1>12 DEF Refuse, FTypeOK
  <2>2. CASE q = r
    <3>1. Verdict(q)' = Verdict(q)
      BY <2>1 DEF Verdict
    <3> QED BY <1>0, <2>1, <2>2, <3>1 DEF ReasonOf
  <2>3. CASE q # r
    BY <1>0, <2>1, <2>3, ReasonKept
  <2> QED BY <2>2, <2>3
<1>13. ASSUME NEW l \in leases, Expire(l) PROVE ReasonOf(q)'
  BY <1>4, <1>13 DEF Expire
<1>14. ASSUME NEW p \in Pod, BecomeReady(p) PROVE ReasonOf(q)'
  BY <1>4, <1>14 DEF BecomeReady
<1>15. ASSUME NEW c \in Cluster, Edit(c) PROVE ReasonOf(q)'
  BY <1>4, <1>15 DEF Edit
<1>16. CASE UNCHANGED fleetVars
  BY <1>4, <1>16 DEF fleetVars
<1> QED BY <1>5, <1>6, <1>7, <1>8, <1>9, <1>10, <1>11, <1>12, <1>13, <1>14, <1>15, <1>16
        DEF FNext, FQuiescent

\* A verdict against the disruption is right on the counts it is made from.
LEMMA ReasonJustifies ==
  ASSUME FTypeOK, ReasonInv
  PROVE  RefusalIsJustified
<1> SUFFICES ASSUME NEW r \in Request,
                    pc[r] = "refused", counted[r] = LockSet(r), ~ LimitInvalid(budget[r])
             PROVE  ~ KeepsBudget(budget[r], Cardinality(expected[r]),
                                  Cardinality(healthy[r]) - (IF view[r] = "ready" THEN 1 ELSE 0))
  BY DEF RefusalIsJustified
<1> DEFINE total == Cardinality(expected[r])
<1> DEFINE before == Cardinality(healthy[r])
<1> DEFINE ready == view[r] = "ready"
<1>1. PICK S \in Configs : budget[r] \in S
  BY DEF ReasonInv, ReasonOf
<1>2. ~ DisruptionAllowed(budget[r], ready, total, before)
  BY DEF ReasonInv, ReasonOf, Verdict
<1>3. /\ total \in Nat /\ before \in Nat /\ Cardinality(Pod) \in Nat
      /\ total <= Cardinality(Pod) /\ before <= Cardinality(Pod)
  <2>1. expected[r] \subseteq Pod /\ healthy[r] \subseteq Pod
    BY DEF FTypeOK
  <2>2. IsFiniteSet(Pod)
    BY FleetAssumption
  <2>3. IsFiniteSet(expected[r]) /\ IsFiniteSet(healthy[r]) /\ total <= Cardinality(Pod)
        /\ before <= Cardinality(Pod)
    BY <2>1, <2>2, FS_Subset
  <2> QED BY <2>2, <2>3, FS_CardinalityType
<1> HIDE DEF total, before
<1>4. total \in 0 .. Half - 1 /\ before \in 0 .. Half - 1 /\ total \in 0 .. Cardinality(Pod)
  <2>1. Cardinality(Pod) < Half
    BY LimitAssumption
  <2> QED BY <1>3, <2>1, HalfAssumption
<1>5. Sensible(Effective(budget[r]), total)
  BY <1>1, <1>4, LimitAssumption
<1>6. ready \in BOOLEAN
  OBVIOUS
<1> HIDE DEF ready
<1>7. ~ KeepsBudget(budget[r], total, IF ready THEN before - 1 ELSE before)
  BY <1>2, <1>4, <1>5, <1>6, VerdictIsTheBudget
<1>8. before - (IF ready THEN 1 ELSE 0) = IF ready THEN before - 1 ELSE before
  BY <1>3
<1>9. ~ KeepsBudget(budget[r], total, before - (IF ready THEN 1 ELSE 0))
  BY <1>7, <1>8, Zenon
<1> QED BY <1>9, Zenon DEF total, before, ready

\* No disruption that its budget would allow on the counts of the review is refused
\* once the lock is taken and the limit is a number, for every fleet.
THEOREM RefusalsAreJustified == FSpec => []RefusalIsJustified
<1> DEFINE Inv == FTypeOK /\ FleetInv /\ CountsInv /\ ReasonInv
<1>1. FInit => ReasonInv
  <2> SUFFICES ASSUME FInit, NEW r \in Request PROVE ReasonOf(r)
    BY DEF ReasonInv
  <2>1. pc[r] = "idle"
    BY DEF FInit
  <2> QED BY <2>1 DEF ReasonOf
<1>2. FInit => Inv
  BY <1>1, TypeInit, FleetInvInit, CountsInit
<1>3. Inv /\ [FNext]_fleetVars => Inv'
  BY TypeStep, FleetInvStep, CountsStep, ReasonStep
<1>4. Inv => RefusalIsJustified
  BY ReasonJustifies
<1> HIDE DEF Inv
<1> QED BY <1>2, <1>3, <1>4, PTL DEF FSpec
=============================================================================
