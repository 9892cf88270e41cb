--------------------------- MODULE EffectContract ---------------------------
(***************************************************************************)
(* What a settlement effect promises its operation, without workers,       *)
(* claims, tokens, retries or crashes: it is executed once and finished in *)
(* the same instant, or set aside for a human who may put it back, or      *)
(* cancelled because its order was purged.  PendingEffects implements it.  *)
(***************************************************************************)
EXTENDS Naturals

CONSTANT Effects

VARIABLES
  state,   \* per effect
  count    \* per effect, how often it has been executed

States == {"absent", "waiting", "executed", "aside", "cancelled"}

Init ==
  /\ state = [e \in Effects |-> "absent"]
  /\ count = [e \in Effects |-> 0]

\* The lives an effect may lead in one step.
Steps(e) ==
  CASE state[e] = "absent"  -> {"absent", "waiting", "executed", "aside"}
    [] state[e] = "waiting" -> {"waiting", "executed", "aside", "cancelled"}
    [] state[e] = "aside"   -> {"aside", "waiting", "executed"}
    [] OTHER                -> {state[e]}

\* Executing is counted in the step that finishes the effect, and only there.
Next ==
  /\ state' \in [Effects -> States]
  /\ \A e \in Effects : state'[e] \in Steps(e)
  /\ count' = [e \in Effects |->
       IF state'[e] = "executed" /\ state[e] # "executed" THEN count[e] + 1 ELSE count[e]]

Spec == Init /\ [][Next]_<<state, count>>
=============================================================================
