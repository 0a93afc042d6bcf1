---------------------------- MODULE AtomicBudget ----------------------------
(***************************************************************************)
(* What x-pdb promises: the pods selected by a budget, in all clusters     *)
(* together, behave as if one authority looked at all of them and took a   *)
(* pod away in the same instant.  (minAvailable: "An eviction is allowed   *)
(* if at least minAvailable pods selected by selector will still be        *)
(* available after the eviction".)                                         *)
(***************************************************************************)
EXTENDS Integers, FiniteSets

CONSTANTS
  Pod,       \* the selected pods of all clusters
  Required   \* how many of them must stay available

VARIABLE healthy  \* the available pods

Init == healthy \in SUBSET Pod

Recover(p) == healthy' = healthy \cup {p}

\* A voluntary disruption.
Evict(p) ==
  /\ p \in healthy
  /\ Cardinality(healthy \ {p}) >= Required
  /\ healthy' = healthy \ {p}

Next == \E p \in Pod : Recover(p) \/ Evict(p)

Spec == Init /\ [][Next]_healthy
=============================================================================
