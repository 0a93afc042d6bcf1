----------------------------- MODULE MCWebhook -----------------------------
(* Small instances of Webhook for TLC. *)
EXTENDS Webhook, TLC

CONSTANTS r1, r2, a1, a2

\* The activities are told apart by nothing.
Symmetric == Permutations(Activity)
=============================================================================
