---------------------------- MODULE StockLedger ----------------------------
(***************************************************************************)
(* The stock rows of a store and the orders that hold units of them:       *)
(* stock.on_hand and stock.allocated, the quantities of the order lines    *)
(* (ordered, fulfilled, cancelled, edit-removed), the stock movements, and *)
(* the per-location counts.                                                *)
(*                                                                         *)
(* Every operation on an order runs in one transaction with the order row  *)
(* locked, and writes a stock row with relative, conditional updates, so   *)
(* each is one action.  Four things span several steps: a refund is        *)
(* requested, waits for its provider, and applies its stock effects when   *)
(* it settles; those effects can fail and be tried again by a replay; an   *)
(* edit of an order paid with account credit is staged and waits for its   *)
(* tender or refund; and a transfer between locations checks its source    *)
(* before it writes.                                                       *)
(*                                                                         *)
(* A line does not say whether its units were allocated: every release     *)
(* recomputes that from the line and the stock row.                        *)
(***************************************************************************)
EXTENDS Integers, FiniteSets, FiniteSetsExt

CONSTANTS
    Variants,      \* variants, physical ones
    PreOrders,     \* those on pre-order at the start
    Orders,        \* order ids
    Credited,      \* those that are paid in part with account credit
    Initial,       \* units on hand of every variant at the start
    MaxQty,        \* bound on the quantity of a line
    Shelves,       \* the values an operator may set a stock count to
    MaxWrites,     \* bound on operator writes to stock counts
    Locations,     \* stock locations; empty when the store has none
    Launches       \* may an operator turn the pre-order flag of a variant off?

StockAssumption ==
    /\ PreOrders \subseteq Variants /\ Credited \subseteq Orders /\ Initial \in Nat /\ MaxQty \in Nat \ {0} /\ Shelves \subseteq Nat
    /\ MaxWrites \in Nat /\ Launches \in BOOLEAN

VARIABLES
    stock,         \* stock: units on hand and units allocated, by variant
    preOrder,      \* product_variant.is_pre_order
    order,         \* the orders with their lines and their refund in flight
    moved,         \* sum of stock_movement.delta, by variant
    shelf,         \* stock_location.on_hand, by variant and location
    transfer,      \* a transfer that has checked its source, by source location
    stranded,      \* units reserved by staged edits that a purge deleted (history)
    lowered,       \* variants an operator set below their allocation (history)
    writes         \* operator writes so far (bound)

vars == <<stock, preOrder, order, moved, shelf, transfer, stranded, lowered, writes>>
stockFacts == <<moved, stranded>>
operator == <<preOrder, shelf, transfer, lowered, writes>>

NoLine == [qty |-> 0, fulfilled |-> 0, cancelled |-> 0, removed |-> 0, reserved |-> 0,
           fromStock |-> FALSE]   \* fromStock: history, the units were allocated
NoLines == [v \in Variants |-> NoLine]
NoRefund == [units |-> [v \in Variants |-> 0], restock |-> FALSE, full |-> FALSE, state |-> "none"]
NoOrder == [state |-> "none", paid |-> FALSE, shipped |-> "none", lines |-> NoLines, refund |-> NoRefund,
            stage |-> {}]   \* stage: the prepared order_edit that waits for its money

Init ==
    /\ stock = [v \in Variants |-> [onHand |-> Initial, allocated |-> 0]]
    /\ preOrder = [v \in Variants |-> v \in PreOrders]
    /\ order = [o \in Orders |-> NoOrder]
    /\ moved = [v \in Variants |-> 0]
    /\ shelf = [v \in Variants |-> [l \in Locations |-> 0]]
    /\ transfer = [v \in Variants |-> [l \in Locations |-> {}]]
    /\ stranded = [v \in Variants |-> 0]
    /\ lowered = {} /\ writes = 0

----------------------------------------------------------------------------
(* Line quantities (orders/line-quantity.ts, orders/order-edit.ts).        *)

openQty(l) == Max({0, l.qty - l.fulfilled - l.cancelled})
lockedQty_Shipped(l) == l.fulfilled
lockedQty(l) == l.fulfilled + l.cancelled - l.removed
billedQty(l) == l.qty - l.removed
Open(o) == [v \in Variants |-> openQty(order[o].lines[v])]
Cancelled(l) == [l EXCEPT !.cancelled = @ + openQty(l)]

(* The stored columns for a new billed quantity: removed units stay on the *)
(* line as cancelled, and come back before new units are added.            *)
reconcileLineQuantities(l, billed) ==
    LET removed  == Max({0, billedQty(l) - billed})
        grow     == Max({0, billed - billedQty(l)})
        restored == Min({grow, l.removed})
    IN  [l EXCEPT !.qty = @ + grow - restored,
                  !.cancelled = @ + removed - restored,
                  !.removed = @ + removed - restored]

----------------------------------------------------------------------------
(* Stock rows.                                                             *)

stockLimited(v) == ~preOrder[v]

canReserve_TotalOnHand(S, units) ==
    \A v \in Variants : stockLimited(v) /\ units[v] > 0 => S[v].onHand >= units[v]
(* reserveStockOrThrow: every row is updated or the transaction is rolled  *)
(* back; pre-order variants take no allocation.                            *)
canReserve(S, units) ==
    \A v \in Variants : stockLimited(v) /\ units[v] > 0 => S[v].onHand - S[v].allocated >= units[v]
reserve(S, units) ==
    [v \in Variants |-> [S[v] EXCEPT !.allocated = @ + (IF stockLimited(v) THEN units[v] ELSE 0)]]

release_Unclamped(S, units) == [v \in Variants |-> [S[v] EXCEPT !.allocated = @ - units[v]]]
(* The releases do not look at the variant's kind.                         *)
release(S, units) == [v \in Variants |-> [S[v] EXCEPT !.allocated = Max({0, @ - units[v]})]]

Ship(units) ==
    /\ stock' = [v \in Variants |-> [stock[v] EXCEPT !.onHand = Max({0, @ - units[v]}), !.allocated = Max({0, @ - units[v]})]]
    /\ moved' = [v \in Variants |-> moved[v] - units[v]]
    /\ UNCHANGED stranded

----------------------------------------------------------------------------
(* Placing, paying and changing an order.                                  *)

Items == [Variants -> 0..MaxQty] \ {[v \in Variants |-> 0]}
LinesOf(u) == [v \in Variants |-> [NoLine EXCEPT !.qty = u[v], !.fromStock = stockLimited(v)]]

(* Checkout, and the admin's manual order, which may be born paid.         *)
place(o, u, paid) ==
    /\ order[o].state = "none"
    /\ canReserve(stock, u)
    /\ stock' = reserve(stock, u)
    /\ order' = [order EXCEPT ![o] = [NoOrder EXCEPT !.state = IF paid THEN "Paid" ELSE "PendingPayment",
                                                     !.paid = paid, !.lines = LinesOf(u)]]
    /\ UNCHANGED <<stockFacts, operator>>

(* A payment of a cancelled order is booked and leaves it cancelled.       *)
pay(o) ==
    /\ order[o].state \in {"PendingPayment", "Cancelled"} /\ ~order[o].paid
    /\ order' = [order EXCEPT ![o].paid = TRUE, ![o].state = IF @ = "PendingPayment" THEN "Paid" ELSE @]
    /\ UNCHANGED <<stock, stockFacts, operator>>

(* The lines of an unpaid order are replaced: give back, then reserve.     *)
editLines(o, u) ==
    /\ order[o].state = "PendingPayment"
    /\ \E S \in {release(stock, Open(o))} :
        /\ canReserve(S, u)
        /\ stock' = reserve(S, u)
    /\ order' = [order EXCEPT ![o].lines = LinesOf(u)]
    /\ UNCHANGED <<stockFacts, operator>>

(* An order edit sets the billed quantity of a line; stock moves by the    *)
(* change of the open units of limited variants only.                      *)
by(v, n) == [w \in Variants |-> IF w = v THEN n ELSE 0]
stockDelta(v, l, m) == IF stockLimited(v) THEN openQty(m) - openQty(l) ELSE 0
Editable(o, v, billed) ==
    /\ order[o].state \in {"PendingPayment", "Paid", "PartiallyRefunded"} /\ order[o].stage = {}
    /\ billed >= lockedQty(order[o].lines[v]) /\ billed # billedQty(order[o].lines[v])
    /\ reconcileLineQuantities(order[o].lines[v], billed).qty <= MaxQty
commitEdit(o, v, billed) ==
    /\ Editable(o, v, billed)
    /\ \E l \in {reconcileLineQuantities(order[o].lines[v], billed)} :
        LET delta == stockDelta(v, order[o].lines[v], l)
        IN  \/ delta < 0 /\ stock' = release(stock, by(v, -delta))
            \/ delta >= 0 /\ canReserve(stock, by(v, delta)) /\ stock' = reserve(stock, by(v, delta))
    /\ order' = [order EXCEPT ![o].lines[v] = reconcileLineQuantities(@, billed)]
    /\ UNCHANGED <<stockFacts, operator>>

(* With redeemed account credit the edit is staged until its tender or     *)
(* refund settles; added units are reserved at once.                       *)
prepareCreditedOrderEdit(o, v, billed) ==
    /\ o \in Credited /\ order[o].state # "PendingPayment" /\ order[o].refund.state = "none"
    /\ Editable(o, v, billed)
    /\ \E l \in {reconcileLineQuantities(order[o].lines[v], billed)} :
        LET delta == stockDelta(v, order[o].lines[v], l)
            added == by(v, Max({0, delta}))
        IN  /\ canReserve(stock, added)
            /\ stock' = reserve(stock, added)
            /\ order' = [order EXCEPT ![o].stage = {[before |-> order[o].lines, variant |-> v, line |-> l, delta |-> delta]}]
    /\ UNCHANGED <<stockFacts, operator>>

(* Its money settled: the lines are written and removed units given back,  *)
(* unless a shipment or a chargeback changed the lines since; then the     *)
(* stage stays for reconciliation, with the units it reserved.             *)
activatePreparedOrderEdit(o) ==
    \E g \in order[o].stage :
        /\ order[o].lines = g.before
        /\ stock' = release(stock, by(g.variant, Max({0, -g.delta})))
        /\ order' = [order EXCEPT ![o].lines[g.variant] = g.line, ![o].stage = {},
                                  ![o].state = IF billedQty(g.line) < billedQty(g.before[g.variant])
                                               THEN "PartiallyRefunded" ELSE @]
        /\ UNCHANGED <<stockFacts, operator>>

giveBack_KeepsLines(o) ==
    /\ stock' = release(stock, Open(o))
    /\ order' = [order EXCEPT ![o].state = "Cancelled"]
    /\ UNCHANGED <<stockFacts, operator>>
giveBack(o) ==
    /\ stock' = release(stock, Open(o))
    /\ order' = [order EXCEPT ![o].state = "Cancelled", ![o].lines = [v \in Variants |-> Cancelled(@[v])]]
    /\ UNCHANGED <<stockFacts, operator>>

(* By the operator, the shopper reopening the cart, or the sweep.          *)
cancel(o) == order[o].state = "PendingPayment" /\ ~order[o].paid /\ giveBack(o)

(* A chargeback cancels a paid order that has shipped nothing.             *)
applyNmiChargebackToOrder(o) == order[o].state = "Paid" /\ order[o].shipped = "none" /\ giveBack(o)

(* A purge gives back the open units, and deletes a staged edit with its   *)
(* reservation still in the stock row.                                     *)
Staged(o, v) == Max({0} \cup {g.delta : g \in {h \in order[o].stage : h.variant = v}})
purge(o) ==
    /\ order[o].state \notin {"none", "purged"} /\ order[o].refund.state # "Pending"
    /\ stock' = release(stock, Open(o))
    /\ stranded' = [v \in Variants |-> stranded[v] + Staged(o, v)]
    /\ order' = [order EXCEPT ![o] = [NoOrder EXCEPT !.state = "purged"]]
    /\ UNCHANGED <<moved, operator>>

----------------------------------------------------------------------------
(* Shipping.                                                               *)

Shippable(o) == order[o].state \in {"Paid", "PartiallyRefunded"}
Shipped(o) == [v \in Variants |-> [order[o].lines[v] EXCEPT !.fulfilled = @ + openQty(order[o].lines[v])]]

(* The whole order, once: a repeated call, or one after a partial          *)
(* shipment, only changes the tracking data.                               *)
fulfill(o) ==
    /\ Shippable(o) /\ order[o].shipped = "none"
    /\ Ship(Open(o))
    /\ order' = [order EXCEPT ![o].lines = Shipped(o), ![o].shipped = "Shipped"]
    /\ UNCHANGED operator
deliver(o) ==
    /\ Shippable(o) /\ order[o].shipped = "Shipped"
    /\ order' = [order EXCEPT ![o].shipped = "Delivered"]
    /\ UNCHANGED <<stock, stockFacts, operator>>

(* A tracking import ships whatever is still open.                         *)
importTracking(o) ==
    /\ Shippable(o) /\ \E v \in Variants : Open(o)[v] > 0
    /\ Ship(Open(o))
    /\ order' = [order EXCEPT ![o].lines = Shipped(o), ![o].shipped = "Shipped"]
    /\ UNCHANGED operator

(* Some units of a line, not of a variant still on pre-order, from a       *)
(* location or from none.                                                  *)
fulfillPart(o, v, n, from) ==
    /\ Shippable(o) /\ n \in 1..Open(o)[v] /\ ~preOrder[v]
    /\ Ship([w \in Variants |-> IF w = v THEN n ELSE 0])
    /\ order' = [order EXCEPT ![o].lines[v].fulfilled = @ + n, ![o].shipped = "Shipped"]
    /\ shelf' = [shelf EXCEPT ![v] = [l \in Locations |-> IF l \in from THEN Max({0, @[l] - n}) ELSE @[l]]]
    /\ UNCHANGED <<preOrder, transfer, lowered, writes>>

----------------------------------------------------------------------------
(* Refunds (payments/refunds.ts).                                          *)

Refundable(l) == billedQty(l) - l.reserved

(* Requested with explicit units, or in full with every unit left; the     *)
(* units stay reserved unless the refund fails.                            *)
requestRefund(o, u, restock, full) ==
    /\ order[o].state \in {"Paid", "PartiallyRefunded", "Cancelled"} /\ order[o].paid
    /\ order[o].refund.state = "none" /\ order[o].stage = {}
    /\ \A v \in Variants : u[v] <= Max({0, Refundable(order[o].lines[v])})
    /\ order' = [order EXCEPT ![o].refund = [units |-> u, restock |-> restock, full |-> full, state |-> "Pending"],
                              ![o].lines = [v \in Variants |-> [@[v] EXCEPT !.reserved = @ + u[v]]]]
    /\ UNCHANGED <<stock, stockFacts, operator>>

failRefund(o) ==
    /\ order[o].refund.state = "Pending"
    /\ order' = [order EXCEPT ![o].refund = NoRefund,
                              ![o].lines = [v \in Variants |-> [@[v] EXCEPT !.reserved = @ - order[o].refund.units[v]]]]
    /\ UNCHANGED <<stock, stockFacts, operator>>

unfulfilled_AsOrdered(o) == [v \in Variants |-> Min({order[o].refund.units[v], order[o].lines[v].qty - order[o].lines[v].fulfilled})]
unfulfilled(o) == [v \in Variants |-> Min({order[o].refund.units[v], Open(o)[v]})]

applyRefundStockEffects(o) ==
    LET returned == [v \in Variants |-> IF order[o].refund.restock THEN order[o].refund.units[v] - unfulfilled(o)[v] ELSE 0]
    IN  /\ stock' = [v \in Variants |-> [release(stock, unfulfilled(o))[v] EXCEPT !.onHand = @ + returned[v]]]
        /\ moved' = [v \in Variants |-> moved[v] + returned[v]]
        /\ UNCHANGED stranded
AfterRefund(o) ==
    IF order[o].state = "Cancelled" THEN "Cancelled"
    ELSE IF order[o].refund.full THEN "Refunded" ELSE "PartiallyRefunded"

(* The provider confirmed: the order moves on, and the stock effects are   *)
(* applied, or fail and are left for the next replay of this refund.       *)
settleRefund(o, fails) ==
    /\ order[o].refund.state \in {"Pending", "Effects"}
    /\ IF fails
       THEN /\ order[o].refund.state = "Pending"
            /\ order' = [order EXCEPT ![o].state = AfterRefund(o), ![o].refund.state = "Effects"]
            /\ UNCHANGED <<stock, stockFacts>>
       ELSE /\ applyRefundStockEffects(o)
            /\ order' = [order EXCEPT ![o].state = IF order[o].refund.state = "Pending" THEN AfterRefund(o) ELSE @,
                                      ![o].lines = [v \in Variants |-> [@[v] EXCEPT !.cancelled = @ + unfulfilled(o)[v]]],
                                      ![o].refund = NoRefund]
    /\ UNCHANGED operator

----------------------------------------------------------------------------
(* Operator writes to the counts and to the catalog.                       *)

SetOnHand(v, n) ==
    /\ writes < MaxWrites /\ writes' = writes + 1
    /\ stock' = [stock EXCEPT ![v].onHand = n]
    /\ lowered' = IF n < stock[v].allocated THEN lowered \cup {v} ELSE lowered

(* The count set outright (one or many at once), or by a delta: both write *)
(* a movement for the difference.                                          *)
setStock(v, n) ==
    /\ SetOnHand(v, n)
    /\ moved' = [moved EXCEPT ![v] = @ + n - stock[v].onHand]
    /\ UNCHANGED <<preOrder, order, shelf, transfer, stranded>>

(* The count of one location; the total becomes the sum of the locations.  *)
setLocationStock(v, l, n) ==
    /\ \E row \in {[shelf[v] EXCEPT ![l] = n]} :
        /\ shelf' = [shelf EXCEPT ![v] = row]
        /\ SetOnHand(v, SumFunction(row))
    /\ UNCHANGED <<preOrder, order, moved, transfer, stranded>>

(* A transfer reads its source, then writes both rows with relative        *)
(* updates.                                                                *)
beginTransfer(v, l, m, n) ==
    /\ l # m /\ writes < MaxWrites /\ writes' = writes + 1
    /\ shelf[v][l] >= n
    /\ transfer' = [transfer EXCEPT ![v][l] = @ \cup {[to |-> m, units |-> n, id |-> writes]}]
    /\ UNCHANGED <<stock, stockFacts, order, preOrder, shelf, lowered>>
writeTransfer(v, l) ==
    \E t \in transfer[v][l] :
        /\ shelf' = [shelf EXCEPT ![v] = [@ EXCEPT ![l] = @ - t.units, ![t.to] = @ + t.units]]
        /\ transfer' = [transfer EXCEPT ![v][l] = @ \ {t}]
        /\ UNCHANGED <<stock, stockFacts, order, preOrder, lowered, writes>>

(* The pre-order ends: the variant is sold from stock from now on.         *)
endPreOrder(v) ==
    /\ Launches /\ preOrder[v]
    /\ preOrder' = [preOrder EXCEPT ![v] = FALSE]
    /\ UNCHANGED <<stock, stockFacts, order, shelf, transfer, lowered, writes>>

----------------------------------------------------------------------------
OrderStep(o) ==
    \/ \E u \in Items, paid \in BOOLEAN : place(o, u, paid)
    \/ pay(o) \/ cancel(o) \/ applyNmiChargebackToOrder(o) \/ purge(o)
    \/ \E u \in Items : editLines(o, u)
    \/ \E v \in Variants, n \in 0..MaxQty : commitEdit(o, v, n) \/ prepareCreditedOrderEdit(o, v, n)
    \/ activatePreparedOrderEdit(o)
    \/ fulfill(o) \/ deliver(o) \/ importTracking(o)
    \/ \E v \in Variants, n \in 1..MaxQty, from \in {{}} \cup {{l} : l \in Locations} : fulfillPart(o, v, n, from)
    \/ \E u \in Items, restock, full \in BOOLEAN : requestRefund(o, u, restock, full)
    \/ failRefund(o)
    \/ \E fails \in BOOLEAN : settleRefund(o, fails)
OperatorStep ==
    \E v \in Variants :
        \/ \E n \in Shelves : setStock(v, n)
        \/ \E l \in Locations, n \in Shelves : setLocationStock(v, l, n)
        \/ \E l, m \in Locations, n \in Shelves \ {0} : beginTransfer(v, l, m, n)
        \/ \E l \in Locations : writeTransfer(v, l)
        \/ endPreOrder(v)

Next == (\E o \in Orders : OrderStep(o)) \/ OperatorStep

Spec == Init /\ [][Next]_vars

----------------------------------------------------------------------------
(* Counts never go negative, on hand or allocated, also for a variant      *)
(* whose units were sold on pre-order and never allocated.                 *)
TypeOK ==
    /\ \A v \in Variants : stock[v].onHand \in Nat /\ stock[v].allocated \in Nat
    /\ \A o \in Orders : order[o].state \in {"none", "PendingPayment", "Paid", "PartiallyRefunded", "Refunded", "Cancelled", "purged"}

(* The units still to ship of a variant, over all orders.                  *)
Promised(v) == SumFunction([o \in Orders |-> Open(o)[v]])

(* The allocation of a variant sold from stock is exactly the units its    *)
(* orders still have to ship and those staged edits reserved for them,     *)
(* whatever was edited, refunded, shipped in parts, cancelled or purged:   *)
(* no path releases units twice or forgets them, and the clamp at zero     *)
(* never hides a difference.  Two exceptions, both in the code: the purge  *)
(* of an order with a staged edit leaves its reservation behind, and a     *)
(* variant that was ever on pre-order is left out (see below).             *)
Allocatable(v) == Promised(v) + SumFunction([o \in Orders |-> Staged(o, v)]) + stranded[v]
AllocationMatchesOrders == \A v \in Variants \ PreOrders : stock[v].allocated = Allocatable(v)

(* Units sold on pre-order were never allocated and are released all the   *)
(* same, so a variant that was on pre-order may have less allocated than   *)
(* its orders hold; it never has more, and no unit is stuck.               *)
AllocationNeverStuck == \A v \in Variants : stock[v].allocated <= Allocatable(v)

(* Checkout allocates stock atomically, so orders that took their units    *)
(* from stock are never promised more than is on hand, unless an operator  *)
(* set the count below what was allocated.                                 *)
NoOversell ==
    \A v \in Variants \ lowered :
        SumFunction([o \in Orders |-> IF order[o].lines[v].fromStock THEN Open(o)[v] ELSE 0]) <= stock[v].onHand

(* The quantities of a line stay consistent: what is shipped and cancelled *)
(* never exceeds what was ordered, and the units an edit removed are among *)
(* the cancelled ones.                                                     *)
LinesConsistent ==
    \A o \in Orders, v \in Variants :
        LET l == order[o].lines[v]
        IN  /\ l.fulfilled + l.cancelled <= l.qty /\ l.removed \in 0..l.cancelled
=============================================================================
