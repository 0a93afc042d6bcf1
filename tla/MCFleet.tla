------------------------------ MODULE MCFleet -------------------------------
(* A small instance of Fleet for TLC. *)
EXTENDS Fleet, TLC

CONSTANTS c1, c2, r1, r2, p1, p2, p3

\* Two clusters that know each other; one pod in the first, two in the second,
\* and a request for the first pod of each.
HomeOf == [r \in Request |-> IF r = r1 THEN c1 ELSE c2]
AllOthers == [c \in Cluster |-> Cluster \ {c}]
ClusterOf == [p \in Pod |-> IF p = p1 THEN c1 ELSE c2]
TargetOf == [r \in Request |-> IF r = r1 THEN p1 ELSE p2]
OneNamespace == [p \in Pod |-> "ns"]
LabelsOf == [p \in Pod |-> {<<"app", "a">>, <<"tier", IF p = p3 THEN "y" ELSE "x">>}]

\* Two selectors with the same text that pick all pods, one with a nil and one
\* with an empty list of expressions; one that picks the same pods in other
\* words; one that leaves the third pod out.
ByLabel == [labels |-> {<<"app", "a">>}, exprs |-> Nil]
ByLabelEmpty == [labels |-> {<<"app", "a">>}, exprs |-> <<>>]
ByExpr == [labels |-> {},
           exprs |-> <<[key |-> "app", op |-> "In", values |-> <<"a", "b">>]>>]
TierX == [labels |-> {<<"app", "a">>},
          exprs |-> <<[key |-> "app", op |-> "Exists", values |-> <<>>],
                      [key |-> "tier", op |-> "NotIn", values |-> <<"y">>]>>]

Limit(k, v) == [kind |-> k, value |-> v]

Budget(selector, max, min, suspend) ==
  [namespace |-> "ns", selector |-> selector, max |-> max, min |-> min, suspend |-> suspend]

ConfigSets ==
  { {},
    {Budget(ByLabel, NoLimit, Limit("percent", 50), FALSE)},
    {Budget(ByLabel, NoLimit, Limit("int", 1), TRUE)},
    {Budget(ByLabelEmpty, Limit("percent", 34), NoLimit, FALSE)},
    {Budget(ByExpr, Limit("int", 1), Limit("int", 3), FALSE)},
    {Budget(TierX, NoLimit, Limit("int", 1), FALSE), Budget(ByExpr, NoLimit, NoLimit, FALSE)},
    {Budget(TierX, NoLimit, Limit("int", 1), FALSE)},
    {Budget(ByExpr, NoLimit, Limit("text", 0), FALSE)} }
=============================================================================
