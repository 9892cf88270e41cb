--------------------------- MODULE AccountCredit ---------------------------
(***************************************************************************)
(* The account-credit ledger (account-credit/service.ts, edit-funding.ts,  *)
(* payments/refund-credit.ts, orders/edit-stage.ts): a credit account is   *)
(* held by orders at checkout, redeemed when their payment settles, and    *)
(* given back unit by unit by refunds, manual returns and order edits.     *)
(*                                                                         *)
(* Every operation runs in one transaction that locks the order and then   *)
(* the account row, so each is one action.  What interleaves are the       *)
(* operations: a refund freezes its units when it is requested and posts   *)
(* them when the provider settles it, an edit is accepted now and          *)
(* activated when its money arrives, and a posting that fails behind its   *)
(* savepoint leaves the money operation standing.                          *)
(***************************************************************************)
EXTENDS Integers, FiniteSets, FiniteSetsExt, Functions

CONSTANTS
    Orders,      \* orders that apply this account's coupon
    NUnits,      \* merchandise units of an order (its REDEEM vector)
    Price,       \* merchandise cents of one unit: the most it can absorb
    Refunds,     \* refund rows
    Keys,        \* operation keys of adjustments and manual restorations
    Issued,      \* ISSUE amount
    Amounts,     \* cents an operator may add or deduct
    Failures     \* bound on postings that fail behind their savepoint

CreditAssumption ==
    /\ NUnits \in Nat \ {0} /\ Price \in Nat \ {0} /\ Issued \in Nat
    /\ Amounts \subseteq Nat \ {0} /\ Failures \in Nat
    /\ IsFiniteSet(Orders) /\ IsFiniteSet(Refunds)

Units == 1..NUnits

VARIABLES
    balance,     \* account_credit.balance
    disabled,    \* account_credit.disabled
    used,        \* operation keys already posted
    state,       \* order.state
    hold,        \* cents of the order's PENDING RESERVE row, 0 when there is none
    alloc,       \* selectedCredit.allocation of the order's pricing snapshot
    redeemed,    \* the order has a POSTED REDEEM row
    rows,        \* the order's RESTORE rows
    refund,      \* refund rows with their frozen unit identity
    edit,        \* the order's staged edit
    failures     \* postings that failed so far

creditVars == <<balance, disabled, used, state, hold, alloc, redeemed, rows, refund,
          edit, failures>>

NoAlloc == [u \in Units |-> 0]
NoEdit == [phase |-> "none", cap |-> NoAlloc, keep |-> Units, prefix |-> {}, stuck |-> FALSE,
           edited |-> FALSE]
NoRefund == [state |-> "none", order |-> CHOOSE o \in Orders : TRUE, frozen |-> FALSE,
             cents |-> <<>>, qty |-> 0, restoration |-> "none", late |-> FALSE]

CreditInit ==
    /\ balance = Issued /\ disabled = FALSE /\ used = {} /\ failures = 0
    /\ state = [o \in Orders |-> "AddingItems"]
    /\ hold = [o \in Orders |-> 0]
    /\ alloc = [o \in Orders |-> NoAlloc]
    /\ redeemed = [o \in Orders |-> FALSE]
    /\ rows = [o \in Orders |-> {}]
    /\ refund = [r \in Refunds |-> NoRefund]
    /\ edit = [o \in Orders |-> NoEdit]

----------------------------------------------------------------------------
(* Reading the ledger.                                                     *)

SumOver(f, S) == MapThenSumSet(LAMBDA u : f[u], S)

(* Pending holds of the account, and what is left to spend.                *)
Held == SumOver(hold, Orders)
available == balance - Held

(* A RESTORE row gives back cents of some units; a quantity return also    *)
(* consumes them, a unit correction only lowers what they carry.           *)
RestoreRow(key, cents, isReturn) == [key |-> key, cents |-> cents, isReturn |-> isReturn]
Amount(row) == SumOver(row.cents, DOMAIN row.cents)
CentsOn(row, u) == IF u \in DOMAIN row.cents THEN row.cents[u] ELSE 0
Restored(o, u) == SumOver([row \in rows[o] |-> CentsOn(row, u)], rows[o])
remaining(o, u) == alloc[o][u] - Restored(o, u)
returnedIndexes(o) == UNION {DOMAIN row.cents : row \in {w \in rows[o] : w.isReturn}}

(* The n lowest members of a set of unit positions.                        *)
First(S, n) == {u \in S : Cardinality({v \in S : v < u}) < n}

RefundsOf(o) == {r \in Refunds : refund[r].order = o /\ refund[r].state \notin {"none", "Failed"}}
Posted(o, r) == \E row \in rows[o] : row.key = <<"refund", r>>

(* Units that refunds which may still settle have frozen, and the units a  *)
(* refund without frozen identity keeps from the others.                   *)
FrozenUnits(o) == UNION {DOMAIN refund[r].cents : r \in {x \in RefundsOf(o) : refund[x].frozen}}
Unmapped(o) == {r \in RefundsOf(o) : ~refund[r].frozen /\ ~Posted(o, r)}
UnmappedQty(o) == SumOver([r \in Refunds |-> refund[r].qty], Unmapped(o))
creditRefundSelection(o) ==
    LET free == Units \ (returnedIndexes(o) \cup FrozenUnits(o))
    IN  free \ First(free, UnmappedQty(o))

PendingEdit(o) == edit[o].phase = "awaiting"

(* An activated edit replaced the order's pricing snapshot by version 2,   *)
(* under which only frozen unit identities are accepted.                   *)
Edited(o) == edit[o].edited

----------------------------------------------------------------------------
(* Checkout, settlement, cancellation.                                     *)

(* reserve: placement holds the amount the quote applied, which may be out *)
(* of date; one that exceeds what is left is refused.  The allocation over *)
(* the units is the accepted pricing snapshot.                             *)
reserve(o) ==
    /\ state[o] = "AddingItems" /\ ~disabled /\ available > 0
    /\ \E a \in [Units -> 0..Price] :
        /\ SumOver(a, Units) \in 1..Min({available, NUnits * Price})
        /\ alloc' = [alloc EXCEPT ![o] = a]
        /\ hold' = [hold EXCEPT ![o] = SumOver(a, Units)]
    /\ state' = [state EXCEPT ![o] = "PendingPayment"]
    /\ UNCHANGED <<balance, disabled, used, redeemed, rows, refund, edit, failures>>

(* A failed posting that gave the hold back as if the order were unpaid.   *)
redeemAfterSettlement_Releases(o) ==
    \/ /\ balance' = balance - hold[o]
       /\ hold' = [hold EXCEPT ![o] = 0]
       /\ redeemed' = [redeemed EXCEPT ![o] = TRUE]
       /\ UNCHANGED failures
    \/ /\ failures < Failures /\ failures' = failures + 1
       /\ hold' = [hold EXCEPT ![o] = 0]
       /\ UNCHANGED <<balance, redeemed>>

(* redeem, behind the savepoint of afterSettlement: it posts the amount of *)
(* the snapshot, which is the whole hold since only a redeemed order can   *)
(* be edited, or fails and leaves the hold PENDING with the order paid.    *)
redeemAfterSettlement(o) ==
    \/ /\ balance' = balance - hold[o]
       /\ hold' = [hold EXCEPT ![o] = 0]
       /\ redeemed' = [redeemed EXCEPT ![o] = TRUE]
       /\ UNCHANGED failures
    \/ /\ failures < Failures /\ failures' = failures + 1
       /\ UNCHANGED <<balance, hold, redeemed>>

(* A consuming settlement operation: the payment of a pending order, or a  *)
(* later settlement of a paid one whose hold is still there.               *)
settle(o) ==
    /\ state[o] \in {"PendingPayment", "Paid"} /\ hold[o] > 0
    /\ state' = [state EXCEPT ![o] = "Paid"]
    /\ redeemAfterSettlement(o)
    /\ UNCHANGED <<disabled, used, alloc, rows, refund, edit>>

(* Only an unpaid order is cancelled; its hold is released with it.        *)
release(o) ==
    /\ state[o] = "PendingPayment"
    /\ state' = [state EXCEPT ![o] = "Cancelled"]
    /\ hold' = [hold EXCEPT ![o] = 0]
    /\ UNCHANGED <<balance, disabled, used, alloc, redeemed, rows, refund, edit, failures>>

(* Operator adjustment: a repeated key replays, a new one must leave every *)
(* hold covered.                                                           *)
adjust_OverHolds(k, d) ==
    /\ k \notin used /\ balance + d >= 0
    /\ balance' = balance + d
    /\ used' = used \cup {k}
    /\ UNCHANGED <<disabled, state, hold, alloc, redeemed, rows, refund, edit, failures>>

adjust(k, d) ==
    /\ k \notin used /\ balance + d >= 0 /\ available + d >= 0
    /\ balance' = balance + d
    /\ used' = used \cup {k}
    /\ UNCHANGED <<disabled, state, hold, alloc, redeemed, rows, refund, edit, failures>>

disable(k) ==
    /\ k \notin used
    /\ disabled' = ~disabled /\ used' = used \cup {k}
    /\ UNCHANGED <<balance, state, hold, alloc, redeemed, rows, refund, edit, failures>>

----------------------------------------------------------------------------
(* Restorations.                                                           *)

postFundingRows(o, posted) ==
    /\ rows' = [rows EXCEPT ![o] = @ \cup posted]
    /\ balance' = balance + SumOver([row \in posted |-> Amount(row)], posted)

ReturnRow(o, key, units) == RestoreRow(key, [u \in units |-> remaining(o, u)], TRUE)

(* A refund request freezes the lowest units nobody has returned or        *)
(* reserved, with the cents they carry now.  Without a posted redemption   *)
(* there is no credit evidence, and only the quantity is checked.          *)
requestRefund(r, o, n) ==
    /\ refund[r].state = "none" /\ state[o] = "Paid" /\ ~PendingEdit(o)
    /\ LET units == First(creditRefundSelection(o), n)
           qty == SumOver([x \in Refunds |-> refund[x].qty], RefundsOf(o))
       IN  /\ IF redeemed[o] THEN Cardinality(units) = n ELSE qty + n <= NUnits
           /\ Edited(o) => Unmapped(o) = {}
           /\ refund' = [refund EXCEPT ![r] = [NoRefund EXCEPT
                  !.state = "Pending", !.order = o, !.qty = n, !.frozen = redeemed[o],
                  !.cents = IF redeemed[o] THEN [u \in units |-> remaining(o, u)] ELSE <<>>]]
    /\ UNCHANGED <<balance, disabled, used, state, hold, alloc, redeemed, rows, edit, failures>>

(* What restoreRefund posts for a settled refund: exactly the frozen units *)
(* at their frozen cents, or the lowest units still there when it froze    *)
(* none.  It refuses a unit that was returned meanwhile and an amount that *)
(* is no longer the one it froze.                                          *)
Restorable_AnyUnit(r, o) == TRUE

Restorable(r, o) ==
    IF refund[r].frozen
    THEN /\ DOMAIN refund[r].cents \cap returnedIndexes(o) = {}
         /\ \A u \in DOMAIN refund[r].cents : remaining(o, u) = refund[r].cents[u]
    ELSE ~Edited(o) /\ Cardinality(Units \ returnedIndexes(o)) >= refund[r].qty
RestoredUnits(r, o) ==
    IF refund[r].frozen THEN DOMAIN refund[r].cents
    ELSE First(Units \ returnedIndexes(o), refund[r].qty)

(* restoreRefundAfterSettlement, keyed by the refund: a posted one replays *)
(* its row; a refused or failed one is left for reconciliation.            *)
restoreSettledRefundCredit(r, o, late) ==
    \/ /\ ~redeemed[o] \/ Posted(o, r)
       /\ refund' = [refund EXCEPT ![r].state = "Settled", ![r].late = late,
                       ![r].restoration = IF redeemed[o] THEN "posted" ELSE "not_applicable"]
       /\ UNCHANGED <<balance, rows, failures>>
    \/ /\ redeemed[o] /\ ~Posted(o, r) /\ Restorable(r, o)
       /\ postFundingRows(o, {ReturnRow(o, <<"refund", r>>, RestoredUnits(r, o))})
       /\ refund' = [refund EXCEPT ![r].state = "Settled", ![r].late = late,
                       ![r].restoration = "posted"]
       /\ UNCHANGED failures
    \/ /\ redeemed[o] /\ ~Posted(o, r)
       /\ \/ ~Restorable(r, o) /\ UNCHANGED failures
          \/ failures < Failures /\ failures' = failures + 1
       /\ refund' = [refund EXCEPT ![r].state = "Settled", ![r].late = late,
                       ![r].restoration = "reconciliation_required"]
       /\ UNCHANGED <<balance, rows>>

(* The provider settles a refund, possibly one it had reported failed, or  *)
(* a settled one is replayed.                                              *)
finalizeRefund(r) ==
    /\ refund[r].state \in {"Pending", "Failed", "Settled"}
    /\ restoreSettledRefundCredit(r, refund[r].order, refund[r].late \/ refund[r].state = "Failed")
    /\ UNCHANGED <<disabled, used, state, hold, alloc, redeemed, edit>>

refundFailed(r) ==
    /\ refund[r].state = "Pending"
    /\ refund' = [refund EXCEPT ![r].state = "Failed"]
    /\ UNCHANGED <<balance, disabled, used, state, hold, alloc, redeemed, rows, edit, failures>>

(* Manual restoration: the lowest units neither returned nor frozen by a   *)
(* refund that may still settle; refused while a refund without frozen     *)
(* identity is unposted.                                                   *)
restoreManual_Unreserved(k, o, n) ==
    /\ k \notin used /\ redeemed[o] /\ ~PendingEdit(o)
    /\ LET units == First(Units \ returnedIndexes(o), n)
       IN  /\ Cardinality(units) = n
           /\ postFundingRows(o, {ReturnRow(o, <<"manual", k>>, units)})
    /\ used' = used \cup {k}
    /\ UNCHANGED <<disabled, state, hold, alloc, redeemed, refund, edit, failures>>

restoreManual(k, o, n) ==
    /\ k \notin used /\ redeemed[o] /\ ~PendingEdit(o) /\ Unmapped(o) = {}
    /\ LET units == First(Units \ (returnedIndexes(o) \cup FrozenUnits(o)), n)
       IN  /\ Cardinality(units) = n
           /\ postFundingRows(o, {ReturnRow(o, <<"manual", k>>, units)})
    /\ used' = used \cup {k}
    /\ UNCHANGED <<disabled, state, hold, alloc, redeemed, refund, edit, failures>>

----------------------------------------------------------------------------
(* Order edits of a credited order.                                        *)

(* planEditCreditFunding: units the edit drops are returned, units it      *)
(* keeps at a lower ordinary price give back what exceeds it.              *)
planEditCreditFunding(o, keep, cap) ==
    LET dropped == Units \ (keep \cup returnedIndexes(o))
        lower == {u \in keep \ returnedIndexes(o) : cap[u] < remaining(o, u)}
    IN  {row \in {ReturnRow(o, <<"edit return", Cardinality(rows[o])>>, dropped),
                  RestoreRow(<<"edit correct", Cardinality(rows[o])>>,
                      [u \in lower |-> remaining(o, u) - cap[u]], FALSE)} :
            DOMAIN row.cents # {}}

(* REFUND_UNRESOLVED: no edit while a refund may still post.               *)
Unresolved_Ignored(o) == FALSE

Unresolved(o) == \E r \in RefundsOf(o) :
    refund[r].state # "Settled" \/ refund[r].restoration = "reconciliation_required"

(* An edit keeps at least the units that were refunded.                     *)
refundedQty(o) == SumOver([r \in Refunds |-> refund[r].qty],
                          {r \in RefundsOf(o) : refund[r].state = "Settled"})

(* What the accepted proposal freezes of the order: its ledger and its     *)
(* refunds.                                                                *)
PrefixDigest(o) == <<rows[o], {r \in Refunds : refund[r].order = o /\ refund[r].state = "Settled"}>>

(* An edit that needs no money is accepted and activated at once.          *)
editNow(o, keep, cap) ==
    /\ redeemed[o] /\ ~PendingEdit(o) /\ ~Unresolved(o)
    /\ Cardinality(keep) >= refundedQty(o)
    /\ planEditCreditFunding(o, keep, cap) # {}
    /\ postFundingRows(o, planEditCreditFunding(o, keep, cap))
    /\ edit' = [edit EXCEPT ![o] = [NoEdit EXCEPT !.phase = "activated", !.edited = TRUE]]
    /\ UNCHANGED <<disabled, used, state, hold, alloc, redeemed, refund, failures>>

(* prepareCreditedOrderEdit: one that waits for a tender or a refund.      *)
prepareCreditedOrderEdit(o, keep, cap) ==
    /\ redeemed[o] /\ ~PendingEdit(o) /\ ~Unresolved(o)
    /\ Cardinality(keep) >= refundedQty(o)
    /\ edit' = [edit EXCEPT ![o] = [phase |-> "awaiting", keep |-> keep, cap |-> cap,
                                      prefix |-> PrefixDigest(o), stuck |-> FALSE,
                                      edited |-> Edited(o)]]
    /\ UNCHANGED <<balance, disabled, used, state, hold, alloc, redeemed, rows, refund, failures>>

(* activatePreparedOrderEdit once the linked money settled: the proposal   *)
(* applies only to the order it was accepted for.                          *)
activatePreparedOrderEdit(o) ==
    /\ PendingEdit(o)
    /\ \/ /\ edit[o].prefix = PrefixDigest(o)
          /\ postFundingRows(o, planEditCreditFunding(o, edit[o].keep, edit[o].cap))
          /\ edit' = [edit EXCEPT ![o].phase = "activated", ![o].stuck = FALSE,
                                  ![o].edited = TRUE]
       \/ /\ edit[o].prefix # PrefixDigest(o)
          /\ edit' = [edit EXCEPT ![o].stuck = TRUE]
          /\ UNCHANGED <<rows, balance>>
    /\ UNCHANGED <<disabled, used, state, hold, alloc, redeemed, refund, failures>>

(* The units an edit may keep: everything returned already, and the lowest *)
(* positions of the rest.                                                  *)
Keeps(o) == {returnedIndexes(o) \cup First(Units \ returnedIndexes(o), n) : n \in 0..NUnits}

CreditNext ==
    \/ \E o \in Orders : reserve(o) \/ settle(o) \/ release(o)
    \/ \E k \in Keys :
        \/ \E a \in Amounts : adjust(k, a) \/ adjust(k, -a)
        \/ disable(k)
        \/ \E o \in Orders, n \in Units : restoreManual(k, o, n)
    \/ \E r \in Refunds :
        \/ \E o \in Orders, n \in Units : requestRefund(r, o, n)
        \/ finalizeRefund(r) \/ refundFailed(r)
    \/ \E o \in Orders :
        \/ \E keep \in Keeps(o), c \in 0..Price :
            editNow(o, keep, [u \in Units |-> c]) \/ prepareCreditedOrderEdit(o, keep, [u \in Units |-> c])
        \/ activatePreparedOrderEdit(o)

CreditSpec == CreditInit /\ [][CreditNext]_creditVars

----------------------------------------------------------------------------
(* Every variable stays in its type.                                       *)
CreditTypeOK ==
    /\ balance \in Nat /\ disabled \in BOOLEAN /\ used \subseteq Keys /\ failures \in 0..Failures
    /\ state \in [Orders -> {"AddingItems", "PendingPayment", "Paid", "Cancelled"}]
    /\ hold \in [Orders -> Nat] /\ alloc \in [Orders -> [Units -> Nat]]
    /\ redeemed \in [Orders -> BOOLEAN]
    /\ \A o \in Orders : edit[o].phase \in {"none", "awaiting", "activated"}
    /\ \A r \in Refunds :
        /\ refund[r].state \in {"none", "Pending", "Settled", "Failed"}
        /\ refund[r].restoration \in {"none", "posted", "not_applicable", "reconciliation_required"}

(* Whatever orders hold, operators deduct and settlements redeem, the      *)
(* account covers every pending hold: availableCredit never meets its      *)
(* "Pending holds exceed balance" invariant error, which would refuse      *)
(* every later checkout and adjustment of the account.                     *)
HoldsCovered == balance >= Held

(* The credit discount a paid order was given is always backed: by its     *)
(* posted redemption, or by a hold of exactly that amount when the posting *)
(* failed at settlement (afterSettlement: "A rolled-back redemption leaves *)
(* its PENDING hold unavailable").                                         *)
DiscountBacked ==
    \A o \in Orders : state[o] = "Paid" => redeemed[o] \/ hold[o] = SumOver(alloc[o], Units)

(* The account covers every pending hold, and a paid discount is backed.   *)
CreditCovered == CreditTypeOK /\ HoldsCovered /\ DiscountBacked

(* Refunds, manual returns and edits together give a unit back once: at    *)
(* most one row returns it, that row leaves nothing on it, and no unit     *)
(* ever gives back more than was redeemed on it.  This is what readState   *)
(* demands of the history before any further restoration of the order.     *)
UnitsReturnedOnce ==
    \A o \in Orders, u \in Units :
        LET returns == {row \in rows[o] : row.isReturn /\ u \in DOMAIN row.cents}
        IN  /\ remaining(o, u) >= 0
            /\ Cardinality(returns) <= 1
            /\ returns # {} => remaining(o, u) = 0

(* A refund on its way keeps what it froze: until it settles, no manual    *)
(* return, other refund or edit takes its units or changes the cents on    *)
(* them, so its restoration is not refused.  The exception is an order     *)
(* with a refund that failed, which gave its units up, and then settled    *)
(* after all.                                                              *)
FrozenUnitsUntouched ==
    \A r \in Refunds : refund[r].frozen /\
        (refund[r].state = "Pending" \/ refund[r].restoration = "reconciliation_required") /\
        ~(\E x \in Refunds : refund[x].order = refund[r].order /\ refund[x].late)
            => Restorable(r, refund[r].order)

(* An accepted edit that waits for its money can be activated when the     *)
(* money arrives: nothing else moves the ledger or the refunds of the      *)
(* order meanwhile, except a refund that had failed and settles after all, *)
(* or one settled before the redemption itself was posted and replayed.    *)
AcceptedEditActivates ==
    \A o \in Orders : PendingEdit(o) /\ edit[o].prefix # PrefixDigest(o) =>
        \E r \in RefundsOf(o) : refund[r].late \/ ~refund[r].frozen

(* Units are given back once; what a refund froze is there when it         *)
(* settles, and an accepted edit can be activated.                         *)
UnitsGivenBackOnce == UnitsReturnedOnce /\ FrozenUnitsUntouched /\ AcceptedEditActivates
============================================================================
