----------------------------- MODULE OrderEdits -----------------------------
(***************************************************************************)
(* Editing a placed order (orders/order-edit-service.ts): an operator      *)
(* previews new totals, commits the edit with a choice of how to settle    *)
(* the balance, and a refund_now is issued after the edit has committed.   *)
(* A failed refund is retried or left as credit.                           *)
(*                                                                         *)
(* Commit and retry hold the pay: and refund: advisory locks of the order  *)
(* from their first read to the last write, so they exclude each other,    *)
(* payments and other refunds; the provider's late answers do not take     *)
(* them.  A crash drops the locks with whatever was committed.             *)
(*                                                                         *)
(* Amounts are small numbers, an edit changes the total by a delta, and    *)
(* all refunds go to the order's first payment.  Edits of orders with      *)
(* account credit are in AccountCredit, Stripe intents in StripeIntents.   *)
(***************************************************************************)
EXTENDS Integers, FiniteSets, FiniteSetsExt

CONSTANTS
    Admins,       \* operators, each with one request at a time
    Keys,         \* Idempotency-Keys of edits, one edit each
    Deltas,       \* the changes of the total an edit may make, minus Shift
    Shift,        \* (a configuration file cannot hold a negative number)
    Total0,       \* the total of the order, paid in full at the start
    MaxRetries,   \* bound on refund retries of one edit
    Drops         \* can a refund request fail before it is recorded, or its process die?

EditAssumption ==
    /\ Deltas \subseteq Nat /\ Shift \in Nat /\ Total0 \in Nat \ {0} /\ MaxRetries \in Nat /\ Drops \in BOOLEAN
    /\ IsFiniteSet(Keys) /\ "none" \notin Admins

VARIABLES
    total,      \* order.grand_total
    settled,    \* the sum of the settled tenders
    refund,     \* refunds of edits, by edit and attempt; owed: credit when reserved (history)
    returned,   \* money refunded through the ordinary refund flow
    journal,    \* order_edit rows, by key; ref: the attempt the settlement links
    admin,      \* requests in progress
    lock,       \* holder of the order's advisory locks
    dropped     \* the refund of a commit was lost before it was recorded (history)

editVars == <<total, settled, refund, returned, journal, admin, lock, dropped>>

None == "none"
Attempts == 0 .. MaxRetries
NoLink == -1
Changes == {d - Shift : d \in Deltas} \ {0}
NoRefund == [state |-> None, amount |-> 0, owed |-> 0]
NoEdit == [done |-> FALSE, delta |-> 0, balance |-> 0, shown |-> 0, type |-> None, status |-> None, ref |-> NoLink]
NoAdmin == [pc |-> "idle", key |-> None, delta |-> 0, total |-> 0, balance |-> 0, attempt |-> 0, amount |-> 0]

EditInit ==
    /\ total = Total0 /\ settled = Total0 /\ returned = 0
    /\ refund = [k \in Keys |-> [n \in Attempts |-> NoRefund]]
    /\ journal = [k \in Keys |-> NoEdit]
    /\ admin = [a \in Admins |-> NoAdmin]
    /\ lock = None /\ dropped = FALSE

Live(st) == st \in {"Pending", "Settled"}
Refunds == Keys \X Attempts
Row(x) == refund[x[1]][x[2]]

SumOver(f, S) == MapThenSumSet(LAMBDA x : f[x], S)

(* editRefundedTotal: money given back by edits, but for failed refunds. *)
editRefundedTotal == SumOver([x \in Refunds |-> Row(x).amount], {x \in Refunds : Live(Row(x).state)})

(* amountDueForOrder *)
amountDue == total - settled + editRefundedTotal

(* What is left on the order's payment. *)
available == Total0 - returned - editRefundedTotal

(* hasUnresolvedPayment: a refund attempt the provider has not decided. *)
unresolved == \E x \in Refunds : Row(x).state = "Pending"

(* refundFeasibility: a refund of the whole payment is not an edit refund. *)
refundFeasible(amount) == amount < available

(* liveEditSettlement: the status of a linked refund wins over the stored one. *)
liveStatus(k) ==
    IF journal[k].type = "refund_now" /\ journal[k].ref # NoLink
    THEN CASE refund[k][journal[k].ref].state = "Settled" -> "settled"
           [] refund[k][journal[k].ref].state = "Failed" -> "failed"
           [] OTHER -> "pending"
    ELSE journal[k].status

(* allowedSettlements; sending a pay link leaves the balance due. *)
allowedSettlements(balance) ==
    CASE balance < 0 -> {"refund_now", "leave_credit"}
      [] balance > 0 -> {"leave_due", "record_payment"}
      [] OTHER -> {None}

(***************************************************************************)
(* Preview and commit.                                                     *)
(***************************************************************************)

(* previewOrderEdit, or the unlocked plan of the commit: what the operator accepts. *)
previewOrderEdit(a, k, d) ==
    /\ admin[a].pc = "idle" /\ ~journal[k].done /\ ~unresolved
    /\ total + d >= 0
    /\ admin' = [admin EXCEPT ![a] = [NoAdmin EXCEPT !.pc = "previewed", !.key = k, !.delta = d,
                                                     !.total = total + d, !.balance = amountDue + d]]
    /\ UNCHANGED <<total, settled, refund, returned, journal, lock, dropped>>

previewStale_TotalOnly(a) == total + admin[a].delta # admin[a].total

(* PREVIEW_STALE: the totals or the balance are not the accepted ones. *)
previewStale(a) ==
    total + admin[a].delta # admin[a].total \/ amountDue + admin[a].delta # admin[a].balance

(* The refusals of commitOrderEdit: nothing was written. *)
refuseCommit(a) ==
    /\ admin[a].pc = "previewed" /\ lock = None
    /\ \/ ~journal[admin[a].key].done /\ (previewStale(a) \/ unresolved)
       \/ journal[admin[a].key].done /\ journal[admin[a].key].delta # admin[a].delta
    /\ admin' = [admin EXCEPT ![a] = NoAdmin]
    /\ UNCHANGED <<total, settled, refund, returned, journal, lock, dropped>>

commitOrderEdit_NoReplay(a, type) ==
    LET k == admin[a].key
        balance == amountDue + admin[a].delta
    IN
    /\ admin[a].pc = "previewed" /\ lock = None
    /\ ~previewStale(a) /\ ~unresolved
    /\ type \in allowedSettlements(balance)
    /\ type = "refund_now" => refundFeasible(-balance)
    /\ total' = total + admin[a].delta
    /\ settled' = IF type = "record_payment" THEN settled + balance ELSE settled
    /\ journal' = [journal EXCEPT ![k] =
           [done |-> TRUE, delta |-> admin[a].delta, balance |-> balance, shown |-> admin[a].balance, type |-> type,
            status |-> IF type = "refund_now" THEN "pending" ELSE "final", ref |-> NoLink]]
    /\ IF type = "refund_now"
       THEN /\ admin' = [admin EXCEPT ![a] = [@ EXCEPT !.pc = "refund", !.attempt = 0, !.amount = -balance]]
            /\ lock' = a
       ELSE admin' = [admin EXCEPT ![a] = NoAdmin] /\ lock' = lock
    /\ UNCHANGED <<refund, returned, dropped>>

(* commitOrderEdit of a new edit; a refund is issued after this transaction. *)
commitOrderEdit(a, type) ==
    LET k == admin[a].key
        balance == amountDue + admin[a].delta
    IN
    /\ admin[a].pc = "previewed" /\ lock = None
    /\ ~journal[k].done /\ ~previewStale(a) /\ ~unresolved
    /\ type \in allowedSettlements(balance)
    /\ type = "refund_now" => refundFeasible(-balance)
    /\ total' = total + admin[a].delta
    /\ settled' = IF type = "record_payment" THEN settled + balance ELSE settled
    /\ journal' = [journal EXCEPT ![k] =
           [done |-> TRUE, delta |-> admin[a].delta, balance |-> balance, shown |-> admin[a].balance, type |-> type,
            status |-> IF type = "refund_now" THEN "pending" ELSE "final", ref |-> NoLink]]
    /\ IF type = "refund_now"
       THEN /\ admin' = [admin EXCEPT ![a] = [@ EXCEPT !.pc = "refund", !.attempt = 0, !.amount = -balance]]
            /\ lock' = a
       ELSE admin' = [admin EXCEPT ![a] = NoAdmin] /\ lock' = lock
    /\ UNCHANGED <<refund, returned, dropped>>

(* The replay re-drives a refund_now that is not settled, for the balance of the edit. *)
redrive(k) == journal[k].type = "refund_now" /\ liveStatus(k) # "settled" /\ journal[k].balance < 0

(* The commit sent again with its key: the stored edit answers. *)
replayCommit(a, k) ==
    /\ admin[a].pc = "idle" /\ lock = None /\ journal[k].done
    /\ redrive(k)
    /\ admin' = [admin EXCEPT ![a] = [NoAdmin EXCEPT !.pc = "refund", !.key = k, !.amount = -journal[k].balance]]
    /\ lock' = a
    /\ UNCHANGED <<total, settled, refund, returned, journal, dropped>>

(***************************************************************************)
(* Retrying a failed refund.                                               *)
(***************************************************************************)
(* Only an edit whose refund failed can be recovered, and only what is owed now. *)
retryable(k) == journal[k].type = "refund_now" /\ liveStatus(k) = "failed"

(* The next retry key: retries that were never recorded do not count. *)
NextAttempt(k) == 1 + Cardinality({n \in Attempts \ {0} : refund[k][n].state # None})

retryOrderEditRefund_StoredBalance(a, k) ==
    /\ admin[a].pc = "idle" /\ lock = None
    /\ retryable(k) /\ NextAttempt(k) <= MaxRetries
    /\ refundFeasible(-journal[k].balance)
    /\ admin' = [admin EXCEPT ![a] = [NoAdmin EXCEPT !.pc = "refund", !.key = k,
                                                     !.attempt = NextAttempt(k), !.amount = -journal[k].balance]]
    /\ lock' = a
    /\ UNCHANGED <<total, settled, refund, returned, journal, dropped>>

(* The retry refunds the credit as it is now, under a key of its own. *)
retryOrderEditRefund(a, k) ==
    /\ admin[a].pc = "idle" /\ lock = None
    /\ retryable(k) /\ amountDue < 0 /\ NextAttempt(k) <= MaxRetries
    /\ refundFeasible(-amountDue)
    /\ admin' = [admin EXCEPT ![a] = [NoAdmin EXCEPT !.pc = "refund", !.key = k,
                                                     !.attempt = NextAttempt(k), !.amount = -amountDue]]
    /\ lock' = a
    /\ UNCHANGED <<total, settled, refund, returned, journal, dropped>>

(* Or the credit stays on the order. *)
leaveCredit(a, k) ==
    /\ admin[a].pc = "idle" /\ lock = None
    /\ retryable(k) /\ amountDue < 0
    /\ journal' = [journal EXCEPT ![k] = [@ EXCEPT !.type = "leave_credit", !.status = "final", !.ref = NoLink]]
    /\ UNCHANGED <<total, settled, refund, returned, admin, lock, dropped>>

(***************************************************************************)
(* The refund of an edit.                                                  *)
(***************************************************************************)

requestRefund_NoReserve(a, outcome) ==
    LET k == admin[a].key
        n == admin[a].attempt
    IN
    /\ admin[a].pc = "refund"
    /\ IF refund[k][n].state # None
       THEN UNCHANGED refund
       ELSE refund' = [refund EXCEPT ![k][n] = [state |-> outcome, amount |-> admin[a].amount, owed |-> -amountDue]]
    /\ admin' = [admin EXCEPT ![a].pc = "record"]
    /\ UNCHANGED <<total, settled, returned, journal, lock, dropped>>

(* requestRefund: a recorded key answers its refund; a new one is reserved while the payment has *)
(* the money, and the provider settles it, fails it, or leaves it open. *)
requestRefund(a, outcome) ==
    LET k == admin[a].key
        n == admin[a].attempt
    IN
    /\ admin[a].pc = "refund"
    /\ IF refund[k][n].state # None \/ admin[a].amount > available
       THEN UNCHANGED refund
       ELSE refund' = [refund EXCEPT ![k][n] = [state |-> outcome, amount |-> admin[a].amount, owed |-> -amountDue]]
    /\ admin' = [admin EXCEPT ![a].pc = "record"]
    /\ UNCHANGED <<total, settled, returned, journal, lock, dropped>>

(* The request fails before the refund is recorded. *)
refundNotRecorded(a) ==
    /\ Drops /\ admin[a].pc = "refund" /\ refund[admin[a].key][admin[a].attempt].state = None
    /\ admin' = [admin EXCEPT ![a].pc = "record"]
    /\ dropped' = (dropped \/ admin[a].attempt = 0)
    /\ UNCHANGED <<total, settled, refund, returned, journal, lock>>

recordOutcome_KeepsLock(a) ==
    LET k == admin[a].key
        n == admin[a].attempt
    IN
    /\ admin[a].pc = "record"
    /\ journal' = [journal EXCEPT ![k] =
           IF refund[k][n].state # None THEN [@ EXCEPT !.ref = n, !.status = "pending"]
           ELSE [@ EXCEPT !.status = "failed"]]
    /\ admin' = [admin EXCEPT ![a] = NoAdmin]
    /\ lock' = lock
    /\ UNCHANGED <<total, settled, refund, returned, dropped>>

(* The outcome is written to the edit: linked to its refund, or failed when there is none. *)
recordOutcome(a) ==
    LET k == admin[a].key
        n == admin[a].attempt
    IN
    /\ admin[a].pc = "record"
    /\ journal' = [journal EXCEPT ![k] =
           IF refund[k][n].state # None THEN [@ EXCEPT !.ref = n, !.status = "pending"]
           ELSE [@ EXCEPT !.status = "failed"]]
    /\ admin' = [admin EXCEPT ![a] = NoAdmin]
    /\ lock' = None
    /\ UNCHANGED <<total, settled, refund, returned, dropped>>

(* The process dies: the advisory locks go with its connection. *)
Crash(a) ==
    /\ Drops /\ admin[a].pc \in {"refund", "record"}
    /\ admin' = [admin EXCEPT ![a] = NoAdmin]
    /\ lock' = None
    /\ dropped' = (dropped \/ (admin[a].attempt = 0 /\ refund[admin[a].key][0].state = None))
    /\ UNCHANGED <<total, settled, refund, returned, journal>>

(* The provider decides a refund it had left open. *)
finalizeRefund(x, outcome) ==
    /\ Row(x).state = "Pending"
    /\ refund' = [refund EXCEPT ![x[1]][x[2]].state = outcome]
    /\ UNCHANGED <<total, settled, returned, journal, admin, lock, dropped>>

(***************************************************************************)
(* Money that moves beside the edits.                                      *)
(***************************************************************************)

(* The customer pays the balance through the pay link. *)
payBalance ==
    /\ lock = None /\ amountDue > 0 /\ ~unresolved
    /\ settled' = settled + amountDue
    /\ UNCHANGED <<total, refund, returned, journal, admin, lock, dropped>>

(* An ordinary refund of one unit of money; it leaves the total alone. *)
ordinaryRefund ==
    /\ lock = None /\ available > 1
    /\ returned' = returned + 1
    /\ UNCHANGED <<total, settled, refund, journal, admin, lock, dropped>>

Outcomes == {"Pending", "Settled", "Failed"}

AdminStep ==
    \E a \in Admins :
        \/ \E k \in Keys, d \in Changes : previewOrderEdit(a, k, d)
        \/ refuseCommit(a)
        \/ \E type \in {"refund_now", "leave_credit", "leave_due", "record_payment", None} : commitOrderEdit(a, type)
        \/ \E k \in Keys : replayCommit(a, k) \/ retryOrderEditRefund(a, k) \/ leaveCredit(a, k)
        \/ \E outcome \in Outcomes : requestRefund(a, outcome)
        \/ refundNotRecorded(a)
        \/ recordOutcome(a)
        \/ Crash(a)

EditNext ==
    \/ AdminStep
    \/ \E x \in Refunds, outcome \in {"Settled", "Failed"} : finalizeRefund(x, outcome)
    \/ payBalance
    \/ ordinaryRefund

EditSpec == EditInit /\ [][EditNext]_editVars

(***************************************************************************)
(* Properties.                                                             *)
(***************************************************************************)

(* Totals and rows have their types, and the locks are held exactly while a refund is issued. *)
EditsWellTyped ==
    /\ total \in Nat /\ settled \in Nat /\ returned \in Nat
    /\ \A x \in Refunds : Row(x).state \in Outcomes \cup {None} /\ Row(x).amount \in Nat
    /\ \A k \in Keys : journal[k].ref \in Attempts \cup {NoLink}
    /\ \A a \in Admins : lock = a <=> admin[a].pc \in {"refund", "record"}

(* Every edit is in the total exactly once, however often its commit is sent. *)
TotalExplained ==
    total = Total0 + SumOver([k \in Keys |-> journal[k].delta], Keys)

(* An edit refund returns money the order owed when it was reserved: commits, replays and retries *)
(* together never refund one credit twice. *)
EditRefundsAreOwed ==
    \A x \in Refunds : Row(x).state # None => Row(x).amount <= Row(x).owed

(* Edit refunds and ordinary refunds together stay within the payment. *)
WithinPayment == available >= 0

(* The balance an edit settled is the balance its operator accepted. *)
SettledAsAccepted ==
    \A k \in Keys : journal[k].done => journal[k].balance = journal[k].shown

(* Every edit is in the total exactly once, the refunds stay within the payment, the balance an *)
(* edit settled is the one its operator accepted, and, until the refund of a commit is lost     *)
(* before it is recorded, commits, replays and retries never refund one credit twice.           *)
EditsSettleExactly ==
    /\ EditsWellTyped /\ TotalExplained /\ WithinPayment /\ SettledAsAccepted
    /\ ~dropped => EditRefundsAreOwed

(* order-edit-service.ts says the live outcome is derived from the linked refund so that history *)
(* shows the truth: an edit shown as failed has no refund that is open or settled. *)
HistoryShowsTheTruth ==
    \A k \in Keys : liveStatus(k) = "failed" /\ lock = None =>
        \A n \in Attempts : ~Live(refund[k][n].state)
=============================================================================
