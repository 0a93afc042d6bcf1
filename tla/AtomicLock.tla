----------------------------- MODULE AtomicLock -----------------------------
(***************************************************************************)
(* What internal/lock promises its callers: a lock that is taken cluster   *)
(* by cluster, each in one instant and by one request at a time, and that  *)
(* nobody but the request that holds it gives back.  A request is inside   *)
(* from the return of Lock until its disruption is visible or refused, and *)
(* holds all of its clusters then.                                         *)
(***************************************************************************)
CONSTANTS
  Request,  \* those who take the lock
  Needs     \* Needs[r]: the clusters that request r has to lock

VARIABLES
  phase,    \* phase[r]: "before", "inside" or "after"
  holds     \* holds[r]: the clusters in which request r has the lock

lockVars == <<phase, holds>>

Init ==
  /\ phase = [r \in Request |-> "before"]
  /\ holds = [r \in Request |-> {}]

\* The lock of request r changes and nobody else's.
Only(r) == \A q \in Request \ {r} : phase'[q] = phase[q] /\ holds'[q] = holds[q]

\* One cluster grants the lock; when a request has given up, a call that it left
\* behind may still be granted.
Acquire(r, c) ==
  /\ phase[r] # "inside" /\ phase'[r] = phase[r]
  /\ \A q \in Request : c \notin holds[q]
  /\ holds'[r] = holds[r] \cup {c}
  /\ Only(r)

\* Lock returns without an error.
Enter(r) ==
  /\ phase[r] = "before" /\ phase'[r] = "inside"
  /\ holds'[r] = holds[r]
  /\ Needs[r] \subseteq holds[r]
  /\ Only(r)

\* Lock fails, or the request is decided: what it holds it may keep for a while,
\* to release it in order.
Leave(r) ==
  /\ phase[r] # "after" /\ phase'[r] = "after"
  /\ holds'[r] \subseteq holds[r]
  /\ Only(r)

\* Unlock, or the end of the last call of a request that is over.
Release(r) ==
  /\ phase[r] = "after" /\ phase'[r] = "after"
  /\ holds'[r] \subseteq holds[r]
  /\ Only(r)

Next ==
  \E r \in Request :
    \/ \E c \in Needs[r] : Acquire(r, c)
    \/ Enter(r)
    \/ Leave(r)
    \/ Release(r)

Spec == Init /\ [][Next]_lockVars
=============================================================================
