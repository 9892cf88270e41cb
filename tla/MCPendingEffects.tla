-------------------------- MODULE MCPendingEffects --------------------------
(* PendingEffects on a small instance.                                      *)
EXTENDS PendingEffects

CONSTANTS w1, w2

\* The scheduler's process w1 has every handler; the stand-alone worker w2
\* lacks the plugin's external one.
MCRegistered == [w \in Workers |-> IF w = w1 THEN Kinds ELSE LocalKinds]
=============================================================================
