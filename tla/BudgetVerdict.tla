--------------------------- MODULE BudgetVerdict ---------------------------
(***************************************************************************)
(* The arithmetic of internal/pdb/service.go: how many pods an             *)
(* XPodDisruptionBudget asks for, and whether the pod under review may go. *)
(*                                                                         *)
(* A budget is a record with the fields max and min, each NoLimit (a nil   *)
(* pointer) or a limit [kind, value], an intstr.IntOrString: kind "int"    *)
(* for a number, "percent" for a string "N%", "text" for any other string. *)
(* The counts are int32 in the code.  Half stands for 2^31, so that        *)
(* -Half .. Half-1 is the range of an int32; a small Half brings the edge  *)
(* of that range within the reach of the model checker.                    *)
(***************************************************************************)
EXTENDS Integers

CONSTANTS NoLimit, Half

ASSUME HalfAssumption == Half \in Nat \ {0}

Int32 == -Half .. Half - 1

\* What int32 arithmetic makes of the sum or difference of two int32.
Wrap(x) == IF x >= Half THEN x - 2 * Half
         ELSE IF x < -Half THEN x + 2 * Half ELSE x

----------------------------------------------------------------------------

\* A variant of ScaledValue that rounds down.
ScaledValueDown(l, total) ==
  IF l.kind = "percent" THEN (l.value * total) \div 100 ELSE l.value

\* The percentage of the total, rounded up.
ScaledValue(l, total) ==
  IF l.kind = "percent" THEN (l.value * total + 99) \div 100 ELSE l.value

\* The limit that decides: maxUnavailable when it is set.
Effective(b) == IF b.max # NoLimit THEN b.max ELSE b.min

\* A string that is not a percentage makes the review end in an error.
LimitInvalid(b) == Effective(b) # NoLimit /\ Effective(b).kind = "text"

DesiredHealthy(b, expected) ==
  IF b.max # NoLimit THEN Wrap(expected - Wrap(ScaledValue(b.max, expected)))
  ELSE IF b.min # NoLimit THEN Wrap(ScaledValue(b.min, expected))
  ELSE 0

\* A variant in which the unready candidate is subtracted all the same.
CompensationNone(ready) == 0

\* An unready candidate is not among the healthy pods, so that taking it
\* away changes nothing: the code adds it before it subtracts it.
Compensation(ready) == IF ready THEN 0 ELSE 1

DisruptionAllowed(b, ready, expected, healthy) ==
  Wrap(Wrap(healthy + Compensation(ready)) - 1) >= DesiredHealthy(b, expected)

----------------------------------------------------------------------------
\* What the API promises (the comments on MinAvailable and MaxUnavailable
\* in api/v1alpha1), stated without the code's arithmetic: of `total` pods
\* `available` are left after the eviction.

\* n is at least the limit: for a percentage, n pods are at least that
\* share of the total.
AtLeast(n, l, total) ==
  IF l.kind = "percent" THEN 100 * n >= l.value * total ELSE n >= l.value

\* n is at most the limit, a percentage counting as the whole number of
\* pods that it reaches: one pod fewer would be less than the share.
AtMost(n, l, total) ==
  IF l.kind = "percent" THEN 100 * (n - 1) < l.value * total ELSE n <= l.value

KeepsBudget(b, total, available) ==
  CASE b.max # NoLimit -> AtMost(total - available, b.max, total)
    [] b.max = NoLimit /\ b.min # NoLimit -> AtLeast(available, b.min, total)
    [] OTHER -> available >= 0

\* The limits the theorems speak of: not negative, and within an int32
\* once a percentage is applied to the total.
Sensible(l, total) ==
  l = NoLimit \/ /\ l.kind \in {"int", "percent"}
                 /\ l.value \in Nat
                 /\ ScaledValue(l, total) \in Int32
============================================================================
