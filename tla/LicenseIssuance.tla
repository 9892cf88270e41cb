-------------------------- MODULE LicenseIssuance --------------------------
(***************************************************************************)
(* The licence keys of one licensed order line of unit price 1: issued by   *)
(* the license_issue effect of the Paid transition (licensing/issue.ts) and *)
(* by the edit_reconcile effect of each edit and balance payment that       *)
(* leaves nothing due (licensing/edit-reconcile.ts), revoked by operators   *)
(* and full refunds.  Effects run inline or later, on a worker, more than   *)
(* once; each counts the rows of the line under the order's lock and then   *)
(* inserts the shortfall.                                                   *)
(***************************************************************************)
EXTENDS Naturals, FiniteSets

CONSTANTS MaxQty,      \* units of the line
          MaxEdits,    \* edits and balance payments in a run
          MaxRevokes,  \* operator revocations and restorations
          Retries,     \* attempts an effect has before it is terminal
          Deferred     \* license_issue is left to the worker

ConstantsAssumption ==
    /\ MaxQty \in Nat \ {0} /\ MaxEdits \in Nat /\ MaxRevokes \in Nat
    /\ Retries \in Nat \ {0} /\ Deferred \in BOOLEAN

\* Effect 0 is license_issue, the others are edit_reconcile effects.
Effects == 0 .. MaxEdits

VARIABLES
    state,      \* order.state
    qty,        \* billed quantity of the line
    paid,       \* net settled money
    live, dead, \* licence rows of the line, revoked ones apart
    eff,        \* each effect: "none", "pending", "held", "done", "terminal"
    actor,      \* principal of the edit behind it
    tries,      \* attempts left
    lock,       \* effect that holds the order row, or MaxEdits + 1
    seen,       \* rows the holder counted
    edits, revokes,
    peak,       \* most units ever billed (history)
    restored    \* an operator restored a key (history)

vars == <<state, qty, paid, live, dead, eff, actor, tries, lock, seen, edits, revokes, peak, restored>>
money == <<state, qty, paid, edits, peak>>
effects == <<eff, actor, tries>>

Free == MaxEdits + 1
NotLocked == lock = Free
due == IF qty > paid THEN qty - paid ELSE 0
Keep(a, b) == IF a > b THEN a - b ELSE 0

Init ==
    /\ state = "PendingPayment" /\ qty \in 1 .. MaxQty /\ paid = 0
    /\ live = 0 /\ dead = 0
    /\ eff = [e \in Effects |-> "none"] /\ actor = [e \in Effects |-> "human"]
    /\ tries = [e \in Effects |-> Retries]
    /\ lock = Free /\ seen = 0 /\ edits = 0 /\ revokes = 0
    /\ peak = qty /\ restored = FALSE

-----------------------------------------------------------------------------
(* Money and edits, each one transaction under the order's lock set *)

\* Attempts left of effect e after an answer of retry, and what the effect
\* becomes (markRetryOrTerminal).
OneLess(e) == [tries EXCEPT ![e] = @ - 1]
Retried(e) == [eff EXCEPT ![e] = IF tries[e] = 1 THEN "terminal" ELSE "pending"]

\* The Paid transition: license_issue stays for the worker, or runs inline and
\* issues, is left to the worker because a policy cannot answer, or is refused.
PayOrder ==
    /\ NotLocked /\ state = "PendingPayment"
    /\ state' = "Paid" /\ paid' = qty
    /\ \/ /\ Deferred
          /\ eff' = [eff EXCEPT ![0] = "pending"] /\ UNCHANGED <<live, tries>>
       \/ /\ ~ Deferred
          /\ eff' = [eff EXCEPT ![0] = "done"] /\ live' = qty /\ UNCHANGED tries
       \/ /\ ~ Deferred
          /\ eff' = Retried(0) /\ tries' = OneLess(0) /\ UNCHANGED live
       \/ /\ ~ Deferred
          /\ eff' = [eff EXCEPT ![0] = "terminal"] /\ UNCHANGED <<live, tries>>
    /\ UNCHANGED <<qty, dead, actor, lock, seen, edits, revokes, peak, restored>>

\* editBalanceEffects: an edit_reconcile for this edit or balance payment.
editBalanceEffects(a) ==
    /\ eff' = [eff EXCEPT ![edits + 1] = "pending"]
    /\ actor' = [actor EXCEPT ![edits + 1] = a]
    /\ UNCHANGED tries

licensedLineEditViolations_None(q) == FALSE
licensedLineEditViolations(q) == live > 0 /\ q < live

\* commitOrderEdit sets the line to q units; only an order that is fully
\* funded afterwards queues its reconcile.  The credit of a reduction stays on
\* the order or is refunded.
commitOrderEdit(q, a) ==
    /\ NotLocked /\ state \in {"PendingPayment", "Paid"} /\ edits < MaxEdits /\ q # qty
    /\ ~ licensedLineEditViolations(q)
    /\ qty' = q /\ edits' = edits + 1
    /\ peak' = IF q > peak THEN q ELSE peak
    /\ paid' \in {paid, IF q < paid THEN q ELSE paid}
    /\ IF state = "Paid" /\ q <= paid THEN editBalanceEffects(a) ELSE UNCHANGED effects
    /\ UNCHANGED <<state, live, dead, lock, seen, revokes, restored>>

\* The settle path of a balance payment that clears the order.
payBalance_NoReconcile ==
    /\ NotLocked /\ state = "Paid" /\ due > 0 /\ edits < MaxEdits
    /\ paid' = qty /\ edits' = edits + 1
    /\ UNCHANGED <<state, qty, live, dead, effects, lock, seen, revokes, peak, restored>>
payBalance ==
    /\ NotLocked /\ state = "Paid" /\ due > 0 /\ edits < MaxEdits
    /\ paid' = qty /\ edits' = edits + 1
    /\ editBalanceEffects("human")
    /\ UNCHANGED <<state, qty, live, dead, lock, seen, revokes, peak, restored>>

\* revokeRefundLicenses: a full refund revokes every licence of the order.
refundOrder ==
    /\ NotLocked /\ state = "Paid"
    /\ state' = "Refunded" /\ paid' = 0
    /\ live' = 0 /\ dead' = dead + live
    /\ restored' = FALSE
    /\ UNCHANGED <<qty, effects, lock, seen, edits, revokes, peak>>

-----------------------------------------------------------------------------
(* Operators: revokeLicenseInTx and restoreLicenseInTx lock the licence row, *)
(* which the set of a running effect holds.                                  *)
revokeLicense ==
    /\ NotLocked /\ live > 0 /\ revokes < MaxRevokes
    /\ live' = live - 1 /\ dead' = dead + 1 /\ revokes' = revokes + 1
    /\ UNCHANGED <<money, effects, lock, seen, restored>>
restoreLicense ==
    /\ NotLocked /\ dead > 0 /\ revokes < MaxRevokes
    /\ live' = live + 1 /\ dead' = dead - 1 /\ revokes' = revokes + 1
    /\ restored' = TRUE
    /\ UNCHANGED <<money, effects, lock, seen>>

-----------------------------------------------------------------------------
(* The effects.  Each locks the order row first (requirePaidLifecycle,       *)
(* withLockedSetInTx), counts, and inserts in a later statement.             *)

counted_Live == live
counted == live + dead

Begin(e) ==
    /\ NotLocked /\ eff[e] = "pending"
    /\ lock' = e /\ seen' = counted
    /\ UNCHANGED <<money, live, dead, effects, revokes, restored>>

Finish(e, outcome) ==
    /\ eff' = [eff EXCEPT ![e] = outcome]
    /\ lock' = Free
    /\ UNCHANGED <<money, actor, tries, seen, revokes, restored>>

retry(e) ==
    /\ tries' = OneLess(e) /\ eff' = Retried(e)
    /\ lock' = Free
    /\ UNCHANGED <<money, live, dead, actor, seen, revokes, restored>>

shortfall == Keep(qty, seen)

requirePaidLifecycle_Any == TRUE
requirePaidLifecycle == state = "Paid"

notPaid(e) ==
    /\ lock = e /\ ~ requirePaidLifecycle
    /\ Finish(e, "terminal") /\ UNCHANGED <<live, dead>>

licenseIssue ==
    /\ lock = 0 /\ requirePaidLifecycle
    /\ live' = live + shortfall
    /\ Finish(0, "done") /\ UNCHANGED dead

\* reconcileEditedOrderLicenses: keys stranded on a line without units are
\* revoked first; the gate runs only when rows would be inserted.
stranded == IF qty = 0 THEN live ELSE 0

gateRefusesAgent(e) ==
    /\ lock = e /\ e # 0 /\ requirePaidLifecycle
    /\ shortfall > 0 /\ actor[e] = "agent"
    /\ Finish(e, "held") /\ UNCHANGED <<live, dead>>

balanceDue_Never(e) == FALSE
balanceDue(e) == due > 0
gateBalanceDue(e) ==
    /\ lock = e /\ e # 0 /\ requirePaidLifecycle
    /\ shortfall > 0 /\ actor[e] = "human" /\ balanceDue(e)
    /\ retry(e)

\* The policies are asked last: issuanceGate of license_issue always, that of a
\* reconcile when it would insert rows for a human with nothing due.  One that
\* cannot answer makes the effect retry, one that refuses makes it terminal.
asksPolicies(e) == e = 0 \/ (shortfall > 0 /\ actor[e] = "human" /\ ~ balanceDue(e))
policyUnavailable(e) ==
    /\ lock = e /\ requirePaidLifecycle /\ asksPolicies(e)
    /\ retry(e)
policyRefuses(e) ==
    /\ lock = e /\ requirePaidLifecycle /\ asksPolicies(e)
    /\ Finish(e, "terminal") /\ UNCHANGED <<live, dead>>

editReconcile(e) ==
    /\ lock = e /\ e # 0 /\ requirePaidLifecycle
    /\ shortfall > 0 => asksPolicies(e)
    /\ live' = live - stranded + shortfall /\ dead' = dead + stranded
    /\ Finish(e, "done")

\* approveHeldEditIssuance: a human stands in for the principal, nothing else;
\* the effect runs in the same transaction.
approve(e) ==
    /\ NotLocked /\ eff[e] = "held"
    /\ eff' = [eff EXCEPT ![e] = "pending"] /\ actor' = [actor EXCEPT ![e] = "human"]
    /\ tries' = [tries EXCEPT ![e] = Retries]
    /\ lock' = e /\ seen' = counted
    /\ UNCHANGED <<money, live, dead, revokes, restored>>

Next ==
    \/ PayOrder \/ payBalance \/ refundOrder
    \/ \E q \in 0 .. MaxQty, a \in {"human", "agent"} : commitOrderEdit(q, a)
    \/ revokeLicense \/ restoreLicense
    \/ licenseIssue
    \/ \E e \in Effects :
          \/ Begin(e) \/ notPaid(e) \/ policyUnavailable(e) \/ policyRefuses(e)
          \/ gateRefusesAgent(e) \/ gateBalanceDue(e) \/ editReconcile(e) \/ approve(e)

Spec == Init /\ [][Next]_vars

-----------------------------------------------------------------------------
\* Effects run late, twice or beside each other, but a line never gets more
\* keys than it ever had units, and never more live keys than it is billed for
\* unless an operator restored one.
KeysWithinBilled ==
    /\ live + dead <= peak
    /\ ~ restored => live <= qty

\* An order that was refunded in full has no live key, whichever effect runs
\* after the refund.
RefundedHasNoKeys == state = "Refunded" /\ ~ restored => live = 0

\* The Paid transition and the reconciles of edits and balance payments issue no
\* key while the order has a balance due.  license_issue run by the worker is
\* the exception: it looks at no balance, and an edit may have come before it.
EntitlementsFollowMoney == live' + dead' > live + dead /\ lock # 0 => due' = 0

\* Once the order is settled and every effect ran to done (none is open, held
\* for a human or terminal), every billed unit has a live key, unless keys of the
\* line are revoked: a revoked key still counts as issued.
Quiet == /\ NotLocked /\ state = "Paid" /\ due = 0
         /\ \A e \in Effects : eff[e] \in {"none", "done"}
AddedUnitsAreLicensed == Quiet /\ dead = 0 => live >= qty
=============================================================================
