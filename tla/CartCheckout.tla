---------------------------- MODULE CartCheckout ----------------------------
(***************************************************************************)
(* The server cart and its conversion into an order.  A cart row carries   *)
(* a status, a revision and its lines; every writer locks the row, refuses *)
(* a converted or merged cart, and (but for blind appends) refuses a       *)
(* revision that is not the one the client saw.  A checkout converts the   *)
(* cart and creates its order in one transaction; a reopen cancels the     *)
(* unpaid order and gives the cart back.                                   *)
(*                                                                         *)
(* What spans several steps: a client acts on a cart it read earlier; a    *)
(* checkout looks its Idempotency-Key up before it locks the cart; a merge *)
(* picks its donors before it locks them; a reopen reads the cart and the  *)
(* order, calls the provider, and only then locks the order.               *)
(*                                                                         *)
(* The lines of a cart are abstracted to a number of units, one customer   *)
(* owns the carts that are claimed, and the rest of a checkout's body      *)
(* (addresses, coupons) is the same in every request.                      *)
(***************************************************************************)
EXTENDS Integers, FiniteSets, FiniteSetsExt

CONSTANTS
    Carts, Orders, Clients,   \* cart rows, order rows, browser tabs
    Keys,                     \* Idempotency-Keys
    MaxUnits,                 \* bound on the units of a cart
    MaxRev                    \* bound on cart.revision

None == "none"
CartAssumption ==
    /\ MaxUnits \in Nat \ {0} /\ MaxRev \in Nat \ {0} /\ IsFiniteSet(Carts)
    /\ None \notin Carts /\ None \notin Orders /\ None \notin Keys

VARIABLES
    cart,      \* cart rows with their lines
    order,     \* order rows; shown: the units the submitting client saw (history)
    client,    \* what each tab last saw, and its request in progress
    net        \* units put into carts less units taken out of them (history)

vars == <<cart, order, client, net>>

NoCart == [status |-> None, rev |-> 0, units |-> 0, order |-> None, owned |-> FALSE]
NoOrder == [state |-> None, cart |-> None, key |-> None, units |-> 0, shown |-> 0,
            inflight |-> FALSE, stale |-> FALSE, deleted |-> FALSE]
NoView == [pc |-> "idle", cart |-> None, rev |-> 0, units |-> 0, key |-> None,
           others |-> {}, order |-> None, answer |-> None]

Init ==
    /\ cart = [x \in Carts |-> NoCart]
    /\ order = [o \in Orders |-> NoOrder]
    /\ client = [c \in Clients |-> NoView]
    /\ net = 0

(***************************************************************************)
(* Cart writes.                                                            *)
(***************************************************************************)
Live == {"active", "abandoned"}

(* mutationBlocker before its revision test: no such cart, converted or merged. *)
mutationBlocker(x) == cart[x].status \notin Live

staleRevision_Ignored(x, rev) == FALSE

(* mutationBlocker's revision test, for a request that sent its base. *)
staleRevision(x, rev) == cart[x].rev # rev

(* applyLines: the lines are written, the cart is active again and has a new revision. *)
applyLines(row, units) == [row EXCEPT !.units = units, !.status = "active", !.rev = @ + 1]

Saw(c, x, row) == [client EXCEPT ![c] = [NoView EXCEPT !.cart = x, !.rev = row.rev, !.units = row.units]]

(* POST /cart, by a guest or by the signed-in customer. *)
createCart(x, units, owned) ==
    /\ cart[x] = NoCart
    /\ LET row == [NoCart EXCEPT !.status = "active", !.owned = owned]
       IN  cart' = [cart EXCEPT ![x] = IF units > 0 THEN applyLines(row, units) ELSE row]
    /\ net' = net + units
    /\ UNCHANGED <<order, client>>

(* GET /cart: a tab takes a snapshot. *)
readCart(c, x) ==
    /\ client[c].pc = "idle" /\ cart[x].status \notin {None, "gone"}
    /\ client' = Saw(c, x, cart[x])
    /\ UNCHANGED <<cart, order, net>>

appendLine_NoLimit(x) ==
    /\ ~mutationBlocker(x) /\ cart[x].rev < MaxRev
    /\ cart' = [cart EXCEPT ![x] = applyLines(@, @.units + 1)]
    /\ net' = net + 1
    /\ UNCHANGED <<order, client>>

appendLine_Set(x) ==
    /\ ~mutationBlocker(x) /\ cart[x].units < MaxUnits /\ cart[x].rev < MaxRev
    /\ cart' = [cart EXCEPT ![x] = applyLines(@, 1)]
    /\ net' = net + 1
    /\ UNCHANGED <<order, client>>

(* PATCH lines without a revision: a blind append adds to what is there. *)
appendLine(x) ==
    /\ ~mutationBlocker(x) /\ cart[x].units < MaxUnits /\ cart[x].rev < MaxRev
    /\ cart' = [cart EXCEPT ![x] = applyLines(@, @.units + 1)]
    /\ net' = net + 1
    /\ UNCHANGED <<order, client>>

(* PATCH lines with a revision: the quantity is set, zero removes the line. *)
setLines(c, units) ==
    LET x == client[c].cart IN
    /\ client[c].pc = "idle" /\ x # None
    /\ ~mutationBlocker(x) /\ ~staleRevision(x, client[c].rev) /\ cart[x].rev < MaxRev
    /\ cart' = [cart EXCEPT ![x] = applyLines(@, units)]
    /\ client' = Saw(c, x, cart'[x])
    /\ net' = net + units - cart[x].units
    /\ UNCHANGED order

(* PATCH identity: the email of an account claims an unclaimed cart for it. *)
captureIdentity(c, account) ==
    LET x == client[c].cart IN
    /\ client[c].pc = "idle" /\ x # None
    /\ ~mutationBlocker(x) /\ ~staleRevision(x, client[c].rev) /\ cart[x].rev < MaxRev
    /\ cart' = [cart EXCEPT ![x].owned = @ \/ account, ![x].rev = @ + 1]
    /\ client' = Saw(c, x, cart'[x])
    /\ UNCHANGED <<order, net>>

(***************************************************************************)
(* Merge on login.                                                         *)
(***************************************************************************)
Foldable(x) == cart[x].owned /\ cart[x].status = "active" /\ cart[x].order = None

(* The donors are chosen from an unlocked read. *)
mergeRead(c) ==
    LET x == client[c].cart IN
    /\ client[c].pc = "idle" /\ x # None /\ cart[x].status # "gone"
    /\ client' = [client EXCEPT ![c] = [@ EXCEPT !.pc = "merge", !.others = {y \in Carts \ {x} : Foldable(y)}]]
    /\ UNCHANGED <<cart, order, net>>

mergeDonors_Unchecked(c) == client[c].others

(* The eligibility of the donors, once more under their row locks. *)
mergeDonors(c) == {y \in client[c].others : Foldable(y)}

(* The units of some carts together. *)
UnitsIn(rows, some) == MapThenSumSet(LAMBDA y : rows[y].units, some)

mergeCarts_KeepsDonorLines(x, donors) ==
    [y \in Carts |->
        CASE y = x -> [cart[x] EXCEPT !.units = @ + UnitsIn(cart, donors),
                                      !.owned = TRUE, !.rev = @ + 1]
          [] y \in donors -> [cart[y] EXCEPT !.status = "merged", !.rev = @ + 1]
          [] OTHER -> cart[y]]

(* The donors' units move to the target; the donors are retired. *)
mergeCarts(x, donors) ==
    [y \in Carts |->
        CASE y = x -> [cart[x] EXCEPT !.units = @ + UnitsIn(cart, donors),
                                      !.owned = TRUE, !.rev = @ + 1]
          [] y \in donors -> [cart[y] EXCEPT !.units = 0, !.status = "merged", !.rev = @ + 1]
          [] OTHER -> cart[y]]

(* Over the bound on a cart's lines the whole merge is refused. *)
mergeCommit(c) ==
    LET x == client[c].cart
        donors == mergeDonors(c)
        accepted == /\ ~mutationBlocker(x) /\ ~staleRevision(x, client[c].rev)
                    /\ mergeCarts(x, donors)[x].units \in 0 .. MaxUnits
                    /\ \A y \in {x} \cup donors : cart[y].rev < MaxRev
    IN
    /\ client[c].pc = "merge"
    /\ cart' = IF accepted THEN mergeCarts(x, donors) ELSE cart
    /\ client' = IF accepted THEN Saw(c, x, cart'[x]) ELSE [client EXCEPT ![c] = NoView]
    /\ UNCHANGED <<order, net>>

(***************************************************************************)
(* Checkout.                                                               *)
(***************************************************************************)
Exists(o) == order[o].state \notin {None, "purged"}
WithKey(k) == {o \in Orders : Exists(o) /\ order[o].key = k}

fingerprintMatches_Always(c, o) == TRUE

(* The fingerprint of a cart checkout holds the cart token, not the lines or the revision. *)
fingerprintMatches(c, o) == order[o].cart = client[c].cart

Answer(c, o) == [client EXCEPT ![c] = [@ EXCEPT !.pc = "idle", !.answer = o, !.order = None]]
Refuse(c) == [client EXCEPT ![c] = NoView]
Replay(c, o) == IF fingerprintMatches(c, o) THEN Answer(c, o) ELSE Refuse(c)

(* The key is looked up before the cart is locked: an order that has it is replayed. *)
checkoutLookup(c, k) ==
    /\ client[c].pc = "idle" /\ client[c].cart # None
    /\ LET asked == [client[c] EXCEPT !.key = k, !.answer = None]
       IN  client' = IF WithKey(k) # {}
                     THEN LET o == CHOOSE o \in WithKey(k) : TRUE
                          IN  [client EXCEPT ![c] = IF fingerprintMatches(c, o)
                                                    THEN [asked EXCEPT !.answer = o] ELSE NoView]
                     ELSE [client EXCEPT ![c] = [asked EXCEPT !.pc = "checkout"]]
    /\ UNCHANGED <<cart, order, net>>

(* A converted cart answers its own order, unless that one was trashed or purged. *)
checkoutResume(c) ==
    LET x == client[c].cart
        o == cart[x].order
    IN
    /\ client[c].pc = "checkout" /\ cart[x].status = "converted"
    /\ client' = IF o # None /\ ~order[o].deleted THEN Answer(c, o) ELSE Refuse(c)
    /\ UNCHANGED <<cart, order, net>>

(* The cart is gone, merged, empty, or not as the client saw it. *)
checkoutRefuse(c) ==
    LET x == client[c].cart IN
    /\ client[c].pc = "checkout"
    /\ \/ cart[x].status \in {"gone", "merged"}
       \/ cart[x].status \in Live /\ (staleRevision(x, client[c].rev) \/ cart[x].units = 0)
    /\ client' = Refuse(c)
    /\ UNCHANGED <<cart, order, net>>

(* The order is inserted and the cart converted, or the unique key index rejects the order and *)
(* its winner is replayed.  A zero total or a gift card that covers it settles the order here. *)
checkoutConvert(c, o, paid) ==
    LET x == client[c].cart
        k == client[c].key
    IN
    /\ client[c].pc = "checkout"
    /\ cart[x].status \in Live /\ ~staleRevision(x, client[c].rev) /\ cart[x].units > 0 /\ cart[x].rev < MaxRev
    /\ IF WithKey(k) # {}
       THEN /\ client' = Replay(c, CHOOSE w \in WithKey(k) : TRUE)
            /\ UNCHANGED <<cart, order>>
       ELSE /\ order[o] = NoOrder
            /\ order' = [order EXCEPT ![o] = [NoOrder EXCEPT
                   !.state = IF paid THEN "Paid" ELSE "PendingPayment",
                   !.cart = x, !.key = k, !.units = cart[x].units, !.shown = client[c].units]]
            /\ cart' = [cart EXCEPT ![x].status = "converted", ![x].order = o, ![x].rev = @ + 1]
            /\ client' = Answer(c, o)
    /\ UNCHANGED net

(***************************************************************************)
(* Reopening a converted cart.                                             *)
(***************************************************************************)

(* The cart and its order are read, payments in flight refuse, Stripe intents are cancelled. *)
reopenRead(c, x) ==
    /\ client[c].pc = "idle" /\ cart[x].status = "converted" /\ cart[x].order # None
    /\ order[cart[x].order].state \in {"PendingPayment", "Cancelled"}
    /\ order[cart[x].order].inflight = FALSE
    /\ client' = [client EXCEPT ![c] = [NoView EXCEPT !.pc = "reopen", !.cart = x, !.order = cart[x].order]]
    /\ UNCHANGED <<cart, order, net>>

CancelUnpaid(o, byJob) == [order EXCEPT ![o] = [@ EXCEPT !.state = "Cancelled", !.stale = byJob]]

(* The guard of the cart UPDATE: still converted, to the order that was read. *)
reopenable(c) ==
    LET row == cart[client[c].cart] IN row.status = "converted" /\ row.order = client[c].order

(* unpaidCancellablePredicate: nothing was paid and no payment is in flight. *)
unpaidCancellable(o) == order[o].state = "PendingPayment" /\ ~order[o].inflight

reopenCommit_NoRecheck(c) ==
    LET x == client[c].cart
        o == client[c].order
    IN
    /\ client[c].pc = "reopen"
    /\ IF reopenable(c) /\ cart[x].rev < MaxRev
       THEN /\ order' = IF unpaidCancellable(o) THEN CancelUnpaid(o, FALSE) ELSE order
            /\ cart' = [cart EXCEPT ![x].status = "active", ![x].order = None, ![x].rev = @ + 1]
       ELSE UNCHANGED <<cart, order>>
    /\ client' = IF cart'[x].status \in {None, "gone"} THEN Refuse(c) ELSE Saw(c, x, cart'[x])
    /\ UNCHANGED net

(* Under the order's lock set: the order is cancelled unless it already is, and the cart reopens; *)
(* when the cart has moved on, everything rolls back. *)
reopenCommit(c) ==
    LET x == client[c].cart
        o == client[c].order
    IN
    /\ client[c].pc = "reopen"
    /\ IF (order[o].state = "Cancelled" \/ unpaidCancellable(o)) /\ reopenable(c) /\ cart[x].rev < MaxRev
       THEN /\ order' = IF order[o].state = "Cancelled" THEN order ELSE CancelUnpaid(o, FALSE)
            /\ cart' = [cart EXCEPT ![x].status = "active", ![x].order = None, ![x].rev = @ + 1]
       ELSE UNCHANGED <<cart, order>>
    /\ client' = IF cart'[x].status \in {None, "gone"} THEN Refuse(c) ELSE Saw(c, x, cart'[x])
    /\ UNCHANGED net

(***************************************************************************)
(* The payment of an order, seen from the cart, and the jobs.              *)
(***************************************************************************)
startPayment(o) ==
    /\ unpaidCancellable(o)
    /\ order' = [order EXCEPT ![o].inflight = TRUE]
    /\ UNCHANGED <<cart, client, net>>

endPayment(o, settled) ==
    /\ order[o].inflight
    /\ order' = [order EXCEPT ![o].inflight = FALSE, ![o].state = IF settled THEN "Paid" ELSE @]
    /\ UNCHANGED <<cart, client, net>>

(* release-stale-allocations: an order left unpaid is cancelled. *)
releaseStale(o) ==
    /\ unpaidCancellable(o)
    /\ order' = CancelUnpaid(o, TRUE)
    /\ UNCHANGED <<cart, client, net>>

(* An order the job above cancelled goes to the trash. *)
trashAbandonedOrders(o) ==
    /\ order[o].state = "Cancelled" /\ order[o].stale /\ ~order[o].deleted
    /\ order' = [order EXCEPT ![o].deleted = TRUE]
    /\ UNCHANGED <<cart, client, net>>

(* A cancelled order is deleted: its key is free again and its cart points nowhere. *)
purgeOrder(o) ==
    /\ order[o].state = "Cancelled"
    /\ order' = [order EXCEPT ![o] = [@ EXCEPT !.state = "purged", !.deleted = TRUE]]
    /\ cart' = [x \in Carts |-> IF cart[x].order = o THEN [cart[x] EXCEPT !.order = None] ELSE cart[x]]
    /\ UNCHANGED <<client, net>>

abandonStaleCarts(x) ==
    /\ cart[x].status = "active" /\ cart[x].order = None /\ cart[x].units > 0 /\ cart[x].rev < MaxRev
    /\ cart' = [cart EXCEPT ![x].status = "abandoned", ![x].rev = @ + 1]
    /\ UNCHANGED <<order, client, net>>

cleanupExpiredCarts_Converted(x) ==
    /\ cart[x].order = None
    /\ cart[x].status \in {"abandoned", "converted"}
    /\ cart' = [cart EXCEPT ![x] = [NoCart EXCEPT !.status = "gone"]]
    /\ net' = net - cart[x].units
    /\ UNCHANGED <<order, client>>

(* The TTL rule deletes empty carts, the retention rule abandoned ones with their lines. *)
cleanupExpiredCarts(x) ==
    /\ cart[x].order = None
    /\ \/ cart[x].status \in {"active", "merged"} /\ cart[x].units = 0
       \/ cart[x].status = "abandoned"
    /\ cart' = [cart EXCEPT ![x] = [NoCart EXCEPT !.status = "gone"]]
    /\ net' = net - cart[x].units
    /\ UNCHANGED <<order, client>>

CartStep ==
    \E x \in Carts :
        \/ \E units \in 0 .. 1, owned \in BOOLEAN : createCart(x, units, owned)
        \/ appendLine(x)
        \/ abandonStaleCarts(x)
        \/ cleanupExpiredCarts(x)

ClientStep ==
    \E c \in Clients :
        \/ \E x \in Carts : readCart(c, x) \/ reopenRead(c, x)
        \/ \E units \in 0 .. MaxUnits : setLines(c, units)
        \/ \E account \in BOOLEAN : captureIdentity(c, account)
        \/ mergeRead(c) \/ mergeCommit(c)
        \/ \E k \in Keys : checkoutLookup(c, k)
        \/ checkoutResume(c) \/ checkoutRefuse(c)
        \/ \E o \in Orders, paid \in BOOLEAN : checkoutConvert(c, o, paid)
        \/ reopenCommit(c)

OrderStep ==
    \E o \in Orders :
        \/ startPayment(o)
        \/ \E settled \in BOOLEAN : endPayment(o, settled)
        \/ releaseStale(o) \/ trashAbandonedOrders(o) \/ purgeOrder(o)

Next == CartStep \/ ClientStep \/ OrderStep

Spec == Init /\ [][Next]_vars

(***************************************************************************)
(* Properties.                                                             *)
(***************************************************************************)

(* The rows and the tabs have their types. *)
TypeOK ==
    /\ cart \in [Carts -> [status : Live \cup {None, "converted", "merged", "gone"}, rev : 0 .. MaxRev,
                           units : 0 .. MaxUnits, order : Orders \cup {None}, owned : BOOLEAN]]
    /\ order \in [Orders -> [state : {None, "PendingPayment", "Paid", "Cancelled", "purged"},
                             cart : Carts \cup {None}, key : Keys \cup {None}, units : 0 .. MaxUnits,
                             shown : 0 .. MaxUnits, inflight : BOOLEAN, stale : BOOLEAN, deleted : BOOLEAN]]
    /\ client \in [Clients -> [pc : {"idle", "merge", "checkout", "reopen"}, cart : Carts \cup {None},
                               rev : 0 .. MaxRev, units : 0 .. MaxUnits, key : Keys \cup {None},
                               others : SUBSET Carts, order : Orders \cup {None}, answer : Orders \cup {None}]]
    /\ net \in Int

(* However many tabs submit and reopen one cart, at most one order of it is unpaid or paid, and *)
(* while there is one the cart is converted to it (the FOR UPDATE and the status guard of the   *)
(* conversion, the order guard of the reopen). *)
OneLiveOrderPerCart ==
    \A o \in Orders : order[o].state \in {"PendingPayment", "Paid"} =>
        cart[order[o].cart].status = "converted" /\ cart[order[o].cart].order = o

(* An order holds exactly the units its client was looking at when it submitted: no append, merge, *)
(* or other tab can slip units into it (the revision a checkout must send). *)
OrderAsShown ==
    \A o \in Orders : order[o].state # None => order[o].units = order[o].shown

(* No unit is lost or doubled by concurrent appends, merges, conversions and reopens. *)
UnitsConserved == UnitsIn(cart, Carts) = net

(* A checkout is never answered with the order of another cart, whatever key it sends. *)
AnswersFromOwnCart ==
    \A c \in Clients : client[c].answer # None =>
        order[client[c].answer].cart = client[c].cart

(* What the carts promise: all of the above. *)
CartsAndOrdersAgree ==
    OneLiveOrderPerCart /\ OrderAsShown /\ UnitsConserved /\ AnswersFromOwnCart

(* A converted cart is only touched by the reopen that finds its order cancelled, or by the purge *)
(* of that order, and neither changes its lines. (The erasure of an account also clears the        *)
(* customer of its carts; whose cart it was is not part of this state.) *)
OnlyGivenBack ==
    \A x \in Carts : cart[x].status = "converted" /\ cart'[x] # cart[x] =>
          /\ cart'[x].units = cart[x].units
          /\ cart'[x].order = None
          /\ order'[cart[x].order].state \in {"Cancelled", "purged"}
ConvertedCartIsFrozen == [][OnlyGivenBack]_vars

(* checkout.ts says that the same key with a changed payload is a conflict, never a replay of an *)
(* order the client did not mean to resubmit: an answered order has the units that were submitted. *)
AnswersWhatWasSubmitted ==
    \A c \in Clients : client[c].answer # None =>
        order[client[c].answer].units = client[c].units

(* checkout.ts says one cart, one order, always: a cart is converted at most once. *)
OneOrderPerCart ==
    \A x \in Carts : Cardinality({o \in Orders : order[o].cart = x}) <= 1
=============================================================================
