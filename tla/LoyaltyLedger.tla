--------------------------- MODULE LoyaltyLedger ---------------------------
(***************************************************************************)
(* The loyalty points of one customer (loyalty/ledger.ts, loyalty/bonus.ts, *)
(* money/loyalty.ts).  The ledger is append-only; a balance is the sum of  *)
(* its rows.  Every posting runs under the customer's advisory lock, and   *)
(* after the rows of the orders it touches, so each operation is one       *)
(* action; customers do not share state.  System rows carry a source       *)
(* reference that is unique, so a repeated posting changes nothing.        *)
(*                                                                         *)
(* What interleaves are the operations of several orders, the clock that   *)
(* expires points, and the earning effect of a paid order, which may be    *)
(* left to the worker and then posts a row dated when the order was paid.  *)
(***************************************************************************)
EXTENDS Integers, FiniteSets, FiniteSetsExt, Sequences, SequencesExt

CONSTANTS
    Orders,      \* orders of the customer
    Price,       \* money of an order before points; one point is one cent of it
    Edits,       \* totals an order edit may set
    Welcome,     \* points of the sign-up bonus, 0 when the rule is off
    FirstOrder,  \* points of the first-order bonus, 0 when the rule is off
    Adjustments, \* points an operator may add or remove, one key each
    Days,        \* lifetime of points, in clock steps
    MaxTime      \* bound on the clock: one step per operation

LoyaltyAssumption ==
    /\ Price \in Nat \ {0} /\ Edits \subseteq Nat \ {0} /\ Adjustments \subseteq Nat \ {0}
    /\ Welcome \in Nat /\ FirstOrder \in Nat /\ Days \in Nat \ {0} /\ MaxTime \in Nat

VARIABLES
    rows,        \* loyalty_ledger, in posting order
    now,         \* the clock
    order        \* the orders, with the loyalty part of their metadata

vars == <<rows, now, order>>

NoOrder == [state |-> "none", total |-> 0, captured |-> 0, refunded |-> 0, redeem |-> 0,
            earn |-> 0, deferred |-> 0, effect |-> FALSE, paidAt |-> 0, edits |-> 0]

Init == rows = <<>> /\ now = 0 /\ order = [o \in Orders |-> NoOrder]

----------------------------------------------------------------------------
(* Reading the ledger.                                                     *)

Never == MaxTime + Days + 1
expiryFrom(at) == at + Days

(* F(x), with x evaluated once.                                            *)
Of(F(_), x) == CHOOSE y \in {F(v) : v \in {x}} : TRUE

(* Positions of the rows of L that satisfy P, and a sum over them.         *)
SumOver(L, F(_)) == FoldSet(LAMBDA i, n : F(L[i]) + n, 0, DOMAIN L)
Balance(L) == SumOver(L, LAMBDA r : r.points)

(* customerEntries: by date, credits before debits, then as posted.        *)
Before(L, i, j) ==
    \/ L[i].at < L[j].at
    \/ L[i].at = L[j].at /\ L[i].points > 0 /\ L[j].points < 0
    \/ L[i].at = L[j].at /\ (L[i].points < 0 <=> L[j].points < 0) /\ i < j
customerEntries(L) ==
    SortSeq([i \in DOMAIN L |-> i], LAMBDA i, j : Before(L, i, j))

(* The points of a lot that a debit may take, soonest expiry first, until  *)
(* `amount` is taken.                                                      *)
Take(lots, S, amount) ==
    LET earlier(i) == {j \in S : \/ lots[j].exp < lots[i].exp
                                 \/ lots[j].exp = lots[i].exp /\ j < i}
        ahead(i) == FoldSet(LAMBDA j, n : lots[j].left + n, 0, earlier(i))
        taken(i) == Min({lots[i].left, Max({0, amount - ahead(i)})})
    IN  [i \in DOMAIN lots |-> IF i \in S THEN [lots[i] EXCEPT !.left = @ - taken(i)] ELSE lots[i]]
Left(lots) == FoldSet(LAMBDA i, n : lots[i].left + n, 0, DOMAIN lots)

(* A debit takes live lots and, when they do not suffice, expired ones; a  *)
(* write-off takes only lots that had expired when it was posted.          *)
consume(lots, row) ==
    LET expired == {i \in DOMAIN lots : lots[i].exp <= row.at}
    IN  IF row.kind = "expire" THEN Take(lots, expired, -row.points)
        ELSE Of(LAMBDA rest : Take(rest, expired, Left(rest) - Left(lots) - row.points),
                Take(lots, DOMAIN lots \ expired, -row.points))

(* The lots left after the whole history, oldest entry first.              *)
After(row, lots) ==
    IF row.points > 0 THEN Append(lots, [left |-> row.points, exp |-> row.exp])
    ELSE IF row.points < 0 THEN consume(lots, row) ELSE lots
Lots(L) ==
    FoldLeft(LAMBDA lots, i : Of(LAMBDA l : After(L[i], l), lots), <<>>, customerEntries(L))

unpostedExpiredPoints_Gross(L, t) ==
    SumOver(L, LAMBDA r : IF (r.points > 0 /\ r.exp <= t) \/ r.kind = "expire" THEN r.points ELSE 0)

unpostedExpiredPoints(L, t) ==
    LET lots == Lots(L)
    IN  FoldSet(LAMBDA i, n : (IF lots[i].exp <= t THEN lots[i].left ELSE 0) + n, 0, DOMAIN lots)

(* loyaltyBalance replays the history only when some credit has expired.   *)
pendingExpiry(L, t) ==
    IF \A i \in DOMAIN L : L[i].points > 0 => L[i].exp > t THEN 0
    ELSE Min({Max({0, Balance(L)}), unpostedExpiredPoints(L, t)})
available(L, t) == Max({0, Balance(L) - pendingExpiry(L, t)})

----------------------------------------------------------------------------
(* Posting.                                                                *)

Row(ref, kind, o, points, short, at, exp) ==
    [ref |-> ref, kind |-> kind, order |-> o, points |-> points, short |-> short,
     at |-> at, exp |-> exp]
NoOne == "no order"

(* source_ref: unique per store.                                           *)
Ref(source, part, o, n) == [source |-> source, part |-> part, of |-> o, n |-> n]

Has(L, ref) == \E i \in DOMAIN L : L[i].ref = ref
post(L, row) == Of(LAMBDA r : IF Has(L, r.ref) THEN L ELSE Append(L, r), row)

postExpiry(L, t) ==
    Of(LAMBDA M : LET p == pendingExpiry(M, t) IN
           IF p <= 0 THEN M
           ELSE post(M, Row(Ref("expire", "", NoOne, Len(M)), "expire", NoOne, -p, 0, t, Never)),
       L)

(* What the rows of an order amount to: points it took, points it earned   *)
(* (edits included, as intended), and what was given back of either.       *)
OfKind(L, o, kind) == SumOver(L, LAMBDA r : IF r.order = o /\ r.kind = kind THEN r.points - r.short ELSE 0)
redeemed(L, o) == -OfKind(L, o, "redeem")
restored(L, o) == OfKind(L, o, "redeem_restore")
tracked(L, o) == OfKind(L, o, "earn") + OfKind(L, o, "order_edit_earn")
earned(L, o) == Max({0, tracked(L, o)})
earnReversed(L, o) == -OfKind(L, o, "earn_reversal")

(* Math.round of total * num / den, exact at and above the whole.          *)
proportionalTarget(total, num, den) ==
    IF total <= 0 \/ den <= 0 \/ num <= 0 THEN 0
    ELSE IF num >= den THEN total
    ELSE (2 * total * num + den) \div (2 * den)

(* A debit of at most what is spendable; the rest is its shortfall.        *)
Debit_Uncapped(L, ref, kind, o, points, t) == post(L, Row(ref, kind, o, -points, 0, t, Never))
Debit_WholeBalance(L, ref, kind, o, points, t) ==
    post(L, Row(ref, kind, o, -available(L, t), points - available(L, t), t, Never))

Debit(L, ref, kind, o, points, t) ==
    Of(LAMBDA M : LET posted == Min({points, available(M, t)})
                  IN  post(M, Row(ref, kind, o, -posted, points - posted, t, Never)),
       postExpiry(L, t))

restore(L, o, num, den, ref, t) ==
    LET delta == proportionalTarget(redeemed(L, o), num, den) - restored(L, o)
    IN  IF delta <= 0 THEN L
        ELSE post(L, Row([ref EXCEPT !.part = "restore"], "redeem_restore", o, delta, 0, t, expiryFrom(t)))

reconcileOrderLoyalty_PerRefund(L, o, num, den, ref, t) ==
    LET delta == proportionalTarget(earned(L, o), num, den)
        M == restore(L, o, num, den, ref, t)
    IN  IF delta <= 0 THEN M ELSE Debit(M, [ref EXCEPT !.part = "earn"], "earn_reversal", o, delta, t)

(* reconcileOrderLoyalty: restores first, then the earn reversal, each up  *)
(* to its cumulative share.                                                *)
reconcileOrderLoyalty(L, o, num, den, ref, t) ==
    LET delta == proportionalTarget(earned(L, o), num, den) - earnReversed(L, o)
        M == restore(L, o, num, den, ref, t)
    IN  IF delta <= 0 THEN M ELSE Debit(M, [ref EXCEPT !.part = "earn"], "earn_reversal", o, delta, t)

(* postEditEarnAdjustment: only for an order that has earned.              *)
postEditEarnAdjustment(L, o, target, ref, t) ==
    LET delta == target - tracked(L, o)
    IN  IF ~Has(L, Ref("earn", "", o, 0)) \/ delta = 0 THEN L
        ELSE IF delta > 0
        THEN post(L, Row(ref, "order_edit_earn", o, delta, 0, t, expiryFrom(t)))
        ELSE Debit(L, ref, "order_edit_earn", o, -delta, t)

(* settleDeferredEditEarns: what an edit held back, once it is paid for.   *)
amountDue(o) == order[o].total - order[o].captured
Settles(o) ==
    order[o].deferred > 0 /\ order[o].state \in {"Paid", "PartiallyRefunded"} /\ amountDue(o) <= 0
SettleDeferred(L, S, t) ==
    FoldSet(LAMBDA o, M : postEditEarnAdjustment(M, o, order[o].deferred, Ref("order_edit", "earn", o, order[o].edits), t), L, S)
lockedAvailable(L, t) == postExpiry(SettleDeferred(L, {o \in Orders : Settles(o)}, t), t)
DeferredCleared == [o \in Orders |-> IF Settles(o) THEN [order[o] EXCEPT !.deferred = 0] ELSE order[o]]

Tick == now < MaxTime /\ now' = now + 1

----------------------------------------------------------------------------
(* Operations.                                                             *)

(* Checkout spends p points of what the locked ledger holds, and freezes   *)
(* what the order will earn.                                               *)
checkout(o, p) ==
    /\ Tick /\ order[o].state = "none"
    /\ \E L \in {lockedAvailable(rows, now)} :
        /\ p <= available(L, now) /\ p < Price
        /\ rows' = IF p = 0 THEN L
                   ELSE post(L, Row(Ref("redeem", "", o, 0), "redeem", o, -p, 0, now, Never))
        /\ order' = [DeferredCleared EXCEPT ![o] = [NoOrder EXCEPT !.state = "PendingPayment",
                        !.total = Price - p, !.redeem = p, !.earn = Price - p]]

(* postPaidOrderRewards: the order's points, dated when it was paid, and   *)
(* the bonus of the first order, dated when it is granted.                 *)
PaidStates == {"Paid", "PartiallyRefunded", "Refunded"}
postEarnForPaidOrder(L, o, at) ==
    IF order[o].earn = 0 THEN L
    ELSE post(L, Row(Ref("earn", "", o, 0), "earn", o, order[o].earn, 0, at, expiryFrom(at)))
grantFirstOrderBonus(L, o) ==
    IF FirstOrder = 0 \/ (\E x \in Orders \ {o} : order[x].state \in PaidStates) THEN L
    ELSE post(L, Row(Ref("bonus", "first_order", NoOne, 0), "bonus", NoOne, FirstOrder, 0, now, expiryFrom(now)))
postPaidOrderRewards(L, o, at) == grantFirstOrderBonus(postEarnForPaidOrder(L, o, at), o)

(* The payment settles; its loyalty_earn effect runs inline, or fails and  *)
(* is left to the worker.                                                  *)
pay(o) ==
    /\ Tick /\ order[o].state = "PendingPayment"
    /\ \E inline \in BOOLEAN :
        /\ rows' = IF inline THEN postPaidOrderRewards(rows, o, now) ELSE rows
        /\ order' = [order EXCEPT ![o].state = "Paid", ![o].captured = order[o].total,
                        ![o].paidAt = now, ![o].effect = ~inline]

loyaltyEarn_AnyState(o) ==
    /\ Tick /\ order[o].effect
    /\ rows' = postPaidOrderRewards(rows, o, order[o].paidAt)
    /\ order' = [order EXCEPT ![o].effect = FALSE]

(* The worker's run of the effect: terminal unless the order is still in   *)
(* its paid lifecycle.                                                     *)
loyaltyEarn(o) ==
    /\ Tick /\ order[o].effect
    /\ rows' = IF order[o].state \in {"Paid", "PartiallyRefunded"}
               THEN postPaidOrderRewards(rows, o, order[o].paidAt) ELSE rows
    /\ order' = [order EXCEPT ![o].effect = FALSE]

(* cancelUnpaidOrder, and a chargeback of a paid order.                    *)
releaseOrderLoyalty(o) == reconcileOrderLoyalty(rows, o, 1, 1, Ref("cancel", "", o, 0), now)
cancel(o) ==
    /\ Tick /\ order[o].state \in {"PendingPayment", "Paid"}
    /\ rows' = releaseOrderLoyalty(o)
    /\ order' = [order EXCEPT ![o].state = "Cancelled"]

(* reconcileRefundLoyalty in finalizeRefund.                               *)
refund(o, n) ==
    /\ Tick /\ order[o].state \in {"Paid", "PartiallyRefunded", "Cancelled"}
    /\ n <= order[o].captured - order[o].refunded
    /\ LET num == order[o].refunded + n
       IN  /\ rows' = reconcileOrderLoyalty(rows, o, num, order[o].captured, Ref("refund", "", o, num), now)
           /\ order' = [order EXCEPT ![o].refunded = num, ![o].state =
                           IF @ = "Cancelled" THEN @
                           ELSE IF num >= order[o].captured THEN "Refunded" ELSE "PartiallyRefunded"]

(* syncEditEarn of a committed edit to total t.  An unpaid order earns on  *)
(* the edited total; a paid one gets the difference, held back while the   *)
(* edit is unpaid.  What it takes off the total is left as credit, or      *)
(* refunded, which moves the captured basis and nothing else.              *)
edit(o, t) ==
    LET n == order[o].edits + 1
        settled == t <= order[o].captured
        paid == Has(rows, Ref("earn", "", o, 0))
        holdBack == paid /\ ~settled /\ t > tracked(rows, o)
    IN  /\ Tick /\ n <= 2 /\ t # order[o].total
        /\ order[o].state \in {"PendingPayment", "Paid", "PartiallyRefunded"}
        /\ rows' = IF paid /\ ~holdBack
                   THEN postEditEarnAdjustment(rows, o, t, Ref("order_edit", "earn", o, n), now) ELSE rows
        /\ \E back \in {0, Max({0, order[o].captured - t})} :
            /\ back <= order[o].captured - order[o].refunded
            /\ order' = [order EXCEPT ![o].total = t, ![o].edits = n,
                 ![o].captured = @ - back,
                 ![o].earn = IF ~paid /\ order[o].state = "PendingPayment" THEN t ELSE @,
                 ![o].deferred = IF holdBack THEN t ELSE IF paid THEN 0 ELSE @]

(* The balance of an edit is paid; settleDeferredEditEarnForOrder.         *)
payBalance(o) ==
    /\ Tick /\ order[o].state \in {"Paid", "PartiallyRefunded"} /\ amountDue(o) > 0
    /\ rows' = IF order[o].deferred > 0
               THEN postEditEarnAdjustment(rows, o, order[o].deferred, Ref("order_edit", "earn", o, order[o].edits), now)
               ELSE rows
    /\ order' = [order EXCEPT ![o].captured = order[o].total, ![o].deferred = 0]

(* Operator adjustment, by key; a removal is refused beyond what is there. *)
adjustPoints(k, sign) ==
    /\ Tick
    /\ \E L \in {lockedAvailable(rows, now)} :
        /\ (sign = -1 => k <= available(L, now))
        /\ rows' = post(L, Row(Ref("adjust", "", NoOne, sign * k), "adjust", NoOne, sign * k, 0, now,
                               IF sign = 1 THEN expiryFrom(now) ELSE Never))
        /\ order' = DeferredCleared

(* The sign-up bonus stands for the rules that are not tied to an order.   *)
grantSignupBonus ==
    /\ Tick /\ Welcome > 0 /\ ~Has(rows, Ref("bonus", "signup", NoOne, 0))
    /\ rows' = post(rows, Row(Ref("bonus", "signup", NoOne, 0), "bonus", NoOne, Welcome, 0, now, expiryFrom(now)))
    /\ UNCHANGED order

reverseBonus(i) ==
    /\ Tick /\ rows[i].kind = "bonus" /\ ~Has(rows, [rows[i].ref EXCEPT !.source = "bonus_reverse"])
    /\ rows' = Debit(rows, [rows[i].ref EXCEPT !.source = "bonus_reverse"], "bonus_reversal", NoOne, rows[i].points, now)
    /\ UNCHANGED order

Wait == Tick /\ UNCHANGED <<rows, order>>

Next ==
    \/ \E o \in Orders :
        \/ \E p \in 0..Price : checkout(o, p)
        \/ pay(o) \/ loyaltyEarn(o) \/ cancel(o) \/ payBalance(o)
        \/ \E n \in 1..Price : refund(o, n)
        \/ \E t \in Edits : edit(o, t)
    \/ \E k \in Adjustments, sign \in {1, -1} : adjustPoints(k, sign)
    \/ grantSignupBonus
    \/ \E i \in DOMAIN rows : reverseBonus(i)
    \/ Wait

Spec == Init /\ [][Next]_vars

----------------------------------------------------------------------------
(* Every variable stays in its type.                                      *)
TypeOK ==
    /\ now \in 0..MaxTime
    /\ \A i \in DOMAIN rows : rows[i].points \in Int /\ rows[i].short \in Nat
    /\ \A o \in Orders : order[o].state \in PaidStates \cup {"none", "PendingPayment", "Cancelled"}

(* "Reversals never drive a balance negative": whatever orders spend,      *)
(* refunds and operators take back and the clock expires, the ledger of a  *)
(* customer sums to at least zero.                                         *)
NeverNegative == Balance(rows) >= 0

(* The replay of the history by lots accounts for every point: each debit  *)
(* and each write-off found as many points as it took, also after a late   *)
(* earning was inserted into the past (unpostedExpiredPoints).             *)
LotsMatchBalance == Left(Lots(rows)) = Balance(rows)

(* Nobody loses or wins by cancelling or refunding: an order gives back at *)
(* most the points it took, and loses at most the points it earned.        *)
NotOverReversed ==
    \A o \in Orders :
        /\ restored(rows, o) <= redeemed(rows, o)
        /\ order[o].refunded <= order[o].total => earnReversed(rows, o) <= earned(rows, o)

(* A fully refunded or cancelled order has returned all the points it took *)
(* and keeps none of the points it earned, however the earning effect,     *)
(* refunds and edits were interleaved.                                     *)
AllGivenBack ==
    \A o \in Orders : order[o].state \in {"Refunded", "Cancelled"} =>
        /\ restored(rows, o) = redeemed(rows, o)
        /\ earnReversed(rows, o) >= earned(rows, o)

(* refunds.ts:578: earned points are reversed "in proportion to the money  *)
(* refunded so far".                                                       *)
ReversedInProportion ==
    \A o \in Orders : order[o].state = "PartiallyRefunded" /\ order[o].edits = 0 =>
        earnReversed(rows, o) = proportionalTarget(earned(rows, o), order[o].refunded, order[o].captured)

(* bonus.ts: the first-order bonus is paid "on the first order that        *)
(* reaches Paid": with no effect waiting, a customer with a paid order has *)
(* it.                                                                     *)
FirstOrderRewarded ==
    (\E o \in Orders : order[o].state = "Paid") /\ (\A o \in Orders : ~order[o].effect)
        => Has(rows, Ref("bonus", "first_order", NoOne, 0))
============================================================================
