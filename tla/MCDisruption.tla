---------------------------- MODULE MCDisruption ----------------------------
(* Small instances of Disruption for TLC. *)
EXTENDS Disruption, TLC

CONSTANTS c1, c2, h1, h2, p1, p2, p3

\* Two clusters that know each other, with one request and its pod in each; the
\* third pod is in the first cluster.
HomeOf == [h \in Handler |-> IF h = h2 THEN c2 ELSE c1]
AllOthers == [c \in Cluster |-> Cluster \ {c}]
ClusterOf == [p \in Pod |-> IF p = p2 THEN c2 ELSE c1]
TargetOf == [h \in Handler |-> IF h = h2 THEN p2 ELSE p1]

\* A request and its retry: the same cluster, the same pod.
FirstCluster == [h \in Handler |-> c1]
FirstPod == [h \in Handler |-> p1]
=============================================================================
