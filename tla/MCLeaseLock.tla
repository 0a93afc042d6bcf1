---------------------------- MODULE MCLeaseLock ----------------------------
(* Small instances of LeaseLock for TLC. *)
EXTENDS LeaseLock, TLC

CONSTANTS c1, c2, h1, h2, h3

\* Two clusters that know each other; the third request is served in the
\* cluster of the first.
HomeOf == [h \in Handler |-> IF h = h2 THEN c2 ELSE c1]
AllOthers == [c \in Cluster |-> Cluster \ {c}]

\* Nothing tells the two requests of the first cluster apart.
SameHome == Permutations({h1, h3})
=============================================================================
