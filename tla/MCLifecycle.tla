----------------------------- MODULE MCLifecycle -----------------------------
(* The life of the agent on a small instance.                              *)
EXTENDS Lifecycle

CONSTANTS m1, p1, p2
=============================================================================
