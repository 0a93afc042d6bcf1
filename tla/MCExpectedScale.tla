-------------------------- MODULE MCExpectedScale --------------------------
(* A small instance of ExpectedScale for TLC. *)
EXTENDS ExpectedScale

CONSTANTS d, rs1, rs2, alone, ss

\* A Deployment in the middle of a rollout, with a pod in each of its two
\* ReplicaSets; a ReplicaSet of its own; a StatefulSet with two pods; and a pod
\* without a controller.
KindIn == [u \in Controller |->
  CASE u = d -> "Deployment" [] u = ss -> "StatefulSet" [] OTHER -> "ReplicaSet"]
ParentIn == [u \in Controller |-> IF u \in {rs1, rs2} THEN d ELSE None]
RefsIn == <<rs1, ss, alone, ss, rs2, None>>
=============================================================================
