------------------------------ MODULE Refunds ------------------------------
(***************************************************************************)
(* Refunds of one order (payments/refunds.ts, payments/webhook-reconcile.ts *)
(* reconcileStripeRefund, payments/sezzle-reconcile.ts                     *)
(* reconcileSezzleRefunds, payments/gateway-payment.ts                     *)
(* reconcileRefundAttempt).                                                *)
(*                                                                         *)
(* A request reserves its refund under the order's refund lock, calls the  *)
(* provider outside any transaction, and finalizes in a second one.  The   *)
(* answer can be lost, and the provider reports every refund, ours or made *)
(* on its dashboard, by events (Stripe, not under the refund lock) or by a *)
(* list that is pulled (Sezzle).  All of them converge on finalizeRefund.  *)
(***************************************************************************)
EXTENDS Integers, FiniteSets, FiniteSetsExt

CONSTANTS
  Requests,    \* refund requests, by idempotency key
  Edits,       \* the ones that hand back the difference of an order edit
  Dashboard,   \* refunds made at the provider, outside the application
  Duplicate,   \* requests and dashboard refunds of the duplicate capture
  Amount,      \* Amount[x]
  Units,       \* Units[r]: units the request names explicitly
  Captured,    \* Captured[p]: amount of each settled payment
  Quantity,    \* billed units of the order's line
  Method       \* "stripe", "sezzle" or "internal"

None == "none"
Payments == {"main", "duplicate"}
Refs == Requests \cup Dashboard  \* provider refunds: one per request, one per dashboard refund

KindsAssumption ==
  /\ Edits \subseteq Requests /\ Duplicate \subseteq Refs /\ Edits \cap Duplicate = {}
  /\ Requests \cap Dashboard = {} /\ None \notin Refs
  /\ Method \in {"stripe", "sezzle", "internal"} /\ (Method = "internal" => Dashboard = {})
AmountsAssumption ==
  /\ Amount \in [Refs -> Nat \ {0}] /\ Units \in [Requests -> Nat]
  /\ Captured \in [Payments -> Nat \ {0}] /\ Quantity \in Nat
  /\ \A r \in Edits \cup (Duplicate \cap Requests) : Units[r] = 0

VARIABLES
  order,     \* the order's state
  refund,    \* refund[r]: the row a request reserved, with its lines and their stock receipt
  recorded,  \* recorded[x]: state of the money-only row of provider refund x
  provider,  \* provider[x]: provider refund x
  events,    \* Stripe events not yet processed, in any order
  lock,      \* who holds the order's refund advisory lock
  flow,      \* flow[r]: where the request is, and the provider's answer
  pull,      \* Sezzle: the fetched list, before its transaction
  returned,  \* refunded_qty of the line
  reversed   \* order_refunded settlement operation recorded (entitlement reversal)

vars == <<order, refund, recorded, provider, events, lock, flow, pull, returned, reversed>>

States == {"Pending", "Settled", "Failed"}
NoRow == [state |-> None, ref |-> None, units |-> 0, stock |-> None]
Idle == [at |-> "idle", state |-> None, ref |-> None]
NoPull == [at |-> "idle", refs |-> {}]

TypeOK ==
  /\ order \in {"Paid", "PartiallyRefunded", "Refunded", "Cancelled"}
  /\ refund \in [Requests -> [state : States \cup {None}, ref : Refs \cup {None},
                              units : 0..Quantity, stock : {None, "pending", "applied"}]]
  /\ recorded \in [Refs -> States \cup {None}]
  /\ provider \in [Refs -> {None, "pending", "succeeded", "failed"}]
  /\ events \subseteq Refs \X {"pending", "succeeded", "failed"}
  /\ lock \in Requests \cup {None, "pull"}
  /\ flow \in [Requests -> [at : {"idle", "call", "finalize"},
                            state : States \cup {None}, ref : Refs \cup {None}]]
  /\ pull \in [at : {"idle", "fetched"}, refs : SUBSET Refs]
  /\ returned \in 0..Quantity /\ reversed \in BOOLEAN

Init ==
  /\ order \in {"Paid", "Cancelled"}
  /\ refund = [r \in Requests |-> NoRow]
  /\ recorded = [x \in Refs |-> None]
  /\ provider = [x \in Refs |-> None]
  /\ events = {}
  /\ lock = None
  /\ flow = [r \in Requests |-> Idle]
  /\ pull = NoPull
  /\ returned = 0 /\ reversed = FALSE

-----------------------------------------------------------------------------
(***************************************************************************)
(* The books.                                                              *)
(***************************************************************************)
PaymentOf(x) == IF x \in Duplicate THEN "duplicate" ELSE "main"
Total(S) == FoldSet(LAMBDA x, n : Amount[x] + n, 0, S)

Reserved_SettledOnly(p) ==
  Total({r \in Requests : PaymentOf(r) = p /\ refund[r].state = "Settled"}) +
  Total({x \in Refs : PaymentOf(x) = p /\ recorded[x] = "Settled"})

\* Everything not Failed is reserved against its payment.
Reserved(p) ==
  Total({r \in Requests : PaymentOf(r) = p /\ refund[r].state \in {"Pending", "Settled"}}) +
  Total({x \in Refs : PaymentOf(x) = p /\ recorded[x] \in {"Pending", "Settled"}})

ReservedUnits ==
  FoldSet(LAMBDA r, n : refund[r].units + n, 0,
          {r \in Requests : refund[r].state \in {"Pending", "Settled"}})

\* orderRefundBasis over given rows: the duplicate capture is left out, edit
\* differences are netted out of what was captured.
NetCaptured(rf) ==
  Captured["main"] - Total({r \in Edits : rf[r].state = "Settled"})
Refunded(rf, rec) ==
  Total({r \in Requests \ (Edits \cup Duplicate) : rf[r].state = "Settled"}) +
  Total({x \in Refs \ Duplicate : rec[x] = "Settled"})

Full(rf, rec) == Refunded(rf, rec) >= NetCaptured(rf)

-----------------------------------------------------------------------------
(***************************************************************************)
(* finalizeRefund.                                                         *)
(***************************************************************************)
Mismatch(r, res) ==
  refund[r].state # "Settled" /\ refund[r].ref # None /\ res.ref # None /\ refund[r].ref # res.ref

\* applyRefundStockEffects: under a savepoint; a failure leaves the receipt
\* pending, to be retried by a replay.
ApplyStock(r, row, ok) ==
  IF row.stock = "applied"
    THEN [row |-> row, units |-> 0]
    ELSE [row |-> [row EXCEPT !.stock = IF ok THEN "applied" ELSE "pending"],
          units |-> IF ok THEN row.units ELSE 0]

Replay_Again(r, res, ok) ==
  /\ refund[r].state = "Settled"
  /\ refund' = [refund EXCEPT ![r].stock = "applied"]
  /\ returned' = returned + refund[r].units
  /\ UNCHANGED <<order, reversed>>

\* Already settled: never downgraded; a missing reference is adopted, deferred
\* stock effects are retried.
Replay(r, res, ok) ==
  LET row == [refund[r] EXCEPT !.ref = IF @ = None THEN res.ref ELSE @]
      eff == IF row.stock = "pending" THEN ApplyStock(r, row, ok) ELSE [row |-> row, units |-> 0]
  IN
  /\ refund[r].state = "Settled"
  /\ refund' = [refund EXCEPT ![r] = eff.row]
  /\ returned' = returned + eff.units
  /\ UNCHANGED <<order, reversed>>

\* Still open, or failed without news: only the observation is stored.
Observe(r, res) ==
  /\ refund[r].state # "Settled" /\ res.state # "Settled" /\ ~Mismatch(r, res)
  /\ refund' = IF refund[r].state = "Failed" THEN refund
               ELSE [refund EXCEPT ![r].state = res.state,
                                   ![r].ref = IF res.ref # None THEN res.ref ELSE @]
  /\ UNCHANGED <<order, returned, reversed>>

OrderAfter_Reopens(rf, rec) == IF Full(rf, rec) THEN "Refunded" ELSE "PartiallyRefunded"
OrderAfter(rf, rec) ==
  IF order = "Cancelled" THEN "Cancelled"
  ELSE IF Full(rf, rec) THEN "Refunded" ELSE "PartiallyRefunded"

MoneyOnly_DuplicatesOnly(r) == r \in Duplicate
MoneyOnly(r) == r \in Edits \cup Duplicate

Settle(r, res, ok) ==
  LET row == [refund[r] EXCEPT !.state = "Settled", !.ref = IF res.ref # None THEN res.ref ELSE @]
      eff == IF r \in Edits THEN [row |-> row, units |-> 0] ELSE ApplyStock(r, row, ok)
      rf == [refund EXCEPT ![r] = eff.row]
  IN
  /\ refund[r].state # "Settled" /\ res.state = "Settled" /\ ~Mismatch(r, res)
  /\ refund' = rf
  /\ returned' = returned + eff.units
  /\ IF MoneyOnly(r)
       THEN UNCHANGED <<order, reversed>>
       ELSE /\ order' = OrderAfter(rf, recorded)
            /\ reversed' = (reversed \/ order' = "Refunded")

FinalizeRefund(r, res) ==
  \E ok \in BOOLEAN : Replay(r, res, ok) \/ Observe(r, res) \/ Settle(r, res, ok)

-----------------------------------------------------------------------------
(***************************************************************************)
(* requestRefund.                                                          *)
(***************************************************************************)
RefundableState(r) ==
  \/ order \in {"Paid", "PartiallyRefunded", "Cancelled"}
  \/ r \in Duplicate

Available(p) == Captured[p] - Reserved(p)

LinesOf_AllUnits(r) ==
  IF Units[r] > 0 \/ r \in Edits \cup Duplicate THEN Units[r]
  ELSE IF Amount[r] = Available("main") THEN Quantity ELSE 0
\* Without lines, a refund of all that is left also returns all units left.
LinesOf(r) ==
  IF Units[r] > 0 \/ r \in Edits \cup Duplicate THEN Units[r]
  ELSE IF Amount[r] = Available("main") THEN Quantity - ReservedUnits ELSE 0

Reserve(r) ==
  /\ lock = None /\ flow[r].at = "idle" /\ refund[r].state = None
  /\ RefundableState(r)
  /\ Amount[r] <= Available(PaymentOf(r))
  /\ Units[r] <= Quantity - ReservedUnits
  /\ lock' = r
  /\ refund' = [refund EXCEPT ![r] = [NoRow EXCEPT !.state = "Pending", !.units = LinesOf(r),
                  !.stock = IF LinesOf(r) > 0 THEN "pending" ELSE None]]
  /\ flow' = [flow EXCEPT ![r].at = "call"]
  /\ UNCHANGED <<order, recorded, provider, events, pull, returned, reversed>>

\* A repeat of the key never calls the provider again: it retries the effects
\* of a settled refund and shows the row.
Repeat(r) ==
  /\ lock = None /\ flow[r].at = "idle" /\ refund[r].state = "Settled"
  /\ refund[r].stock = "pending" \/ r \in Edits
  /\ FinalizeRefund(r, [state |-> "Settled", ref |-> refund[r].ref])
  /\ UNCHANGED <<recorded, provider, events, lock, flow, pull>>

ProviderTotal(p) == Total({x \in Refs : PaymentOf(x) = p /\ provider[x] \in {"pending", "succeeded"}})

\* Sezzle answers with the refund made; Stripe may take its time, or answer at
\* once that the refund it created failed.
FirstStatus == IF Method = "sezzle" THEN {"succeeded"} ELSE {"pending", "succeeded", "failed"}

\* The provider takes a refund only while its payment covers it.
CanTake(x) == provider[x] = None /\ ProviderTotal(PaymentOf(x)) + Amount[x] <= Captured[PaymentOf(x)]

ResultOf(x) ==
  CASE provider'[x] = "succeeded" -> "Settled"
    [] provider'[x] = "failed" -> "Failed"
    [] OTHER -> "Pending"

Announce(x) ==
  events' = IF Method = "stripe" THEN events \cup {<<x, provider'[x]>>} ELSE events

\* refundPayment: an answer, or none (refused, or the answer was lost).
CallProvider(r) ==
  /\ flow[r].at = "call"
  /\ \/ /\ Method = "internal"
        /\ flow' = [flow EXCEPT ![r] = [at |-> "finalize", state |-> "Settled", ref |-> None]]
        /\ UNCHANGED <<provider, events>>
     \/ /\ Method # "internal" /\ CanTake(r)
        /\ \E st \in FirstStatus : provider' = [provider EXCEPT ![r] = st]
        /\ Announce(r)
        /\ \E heard \in BOOLEAN :
             flow' = [flow EXCEPT ![r] = [at |-> "finalize",
               state |-> IF heard THEN ResultOf(r) ELSE "Pending", ref |-> IF heard THEN r ELSE None]]
     \/ /\ Method # "internal" /\ ~CanTake(r)
        /\ flow' = [flow EXCEPT ![r] = [at |-> "finalize", state |-> "Pending", ref |-> None]]
        /\ UNCHANGED <<provider, events>>
  /\ UNCHANGED <<order, refund, recorded, lock, pull, returned, reversed>>

EndFlow(r) == flow' = [flow EXCEPT ![r] = Idle] /\ lock' = None

\* The second transaction of requestRefund, and of reconcileRefundAttempt.
FinishRequest(r) ==
  /\ flow[r].at = "finalize"
  /\ \/ FinalizeRefund(r, [state |-> flow[r].state, ref |-> flow[r].ref])
     \/ /\ Mismatch(r, [state |-> flow[r].state, ref |-> flow[r].ref])
        /\ UNCHANGED <<order, refund, returned, reversed>>
  /\ EndFlow(r)
  /\ UNCHANGED <<recorded, provider, events, pull>>

\* The process dies; the session's advisory lock goes with it.
Crash(r) ==
  /\ flow[r].at # "idle"
  /\ EndFlow(r)
  /\ UNCHANGED <<order, refund, recorded, provider, events, pull, returned, reversed>>

-----------------------------------------------------------------------------
(***************************************************************************)
(* An operator verifies an open refund against the provider                *)
(* (reconcileRefundAttempt, discoverRefundOutcome).                        *)
(***************************************************************************)
Claimed(r) ==
  {x \in Refs : recorded[x] # None} \cup {refund[q].ref : q \in Requests \ {r}}

\* Provider refunds that may be this one: the bound one, the stamped one
\* (Stripe), or a single free one of the same amount.
Candidates(r) ==
  LET seen == {x \in Refs : provider[x] # None /\ PaymentOf(x) = PaymentOf(r)}
      free == {x \in seen \ Claimed(r) : Amount[x] = Amount[r] /\ (Method = "stripe" => x \in Dashboard)}
  IN
  IF refund[r].ref # None THEN seen \cap {refund[r].ref}
  ELSE IF Method = "stripe" /\ r \in seen THEN {r} \ Claimed(r)
  ELSE IF Cardinality(free) = 1 THEN free ELSE {}

Discover(r) ==
  /\ lock = None /\ flow[r].at = "idle" /\ refund[r].state \in {"Pending", "Failed"}
  /\ lock' = r
  /\ \/ /\ Method = "internal"
        /\ flow' = [flow EXCEPT ![r] = [at |-> "finalize", state |-> "Settled", ref |-> refund[r].ref]]
     \/ \E x \in Candidates(r) :
          flow' = [flow EXCEPT ![r] = [at |-> "finalize", ref |-> x, state |->
            IF Method = "sezzle" \/ provider[x] = "succeeded" THEN "Settled"
            ELSE IF provider[x] = "failed" THEN "Failed" ELSE "Pending"]]
     \/ /\ Method # "internal" /\ Candidates(r) = {}
        /\ flow' = [flow EXCEPT ![r] = [at |-> "finalize", state |-> "Pending", ref |-> refund[r].ref]]
  /\ UNCHANGED <<order, refund, recorded, provider, events, pull, returned, reversed>>

-----------------------------------------------------------------------------
(***************************************************************************)
(* The provider: its dashboard, and late outcomes.  Sezzle lists only      *)
(* refunds it has made.                                                    *)
(***************************************************************************)
DashboardRefund(x) ==
  /\ x \in Dashboard /\ CanTake(x)
  /\ \E st \in FirstStatus : provider' = [provider EXCEPT ![x] = st]
  /\ Announce(x)
  /\ UNCHANGED <<order, refund, recorded, lock, flow, pull, returned, reversed>>

ProviderDecides(x) ==
  /\ provider[x] = "pending"
  /\ \E st \in {"succeeded", "failed"} : provider' = [provider EXCEPT ![x] = st]
  /\ Announce(x)
  /\ UNCHANGED <<order, refund, recorded, lock, flow, pull, returned, reversed>>

-----------------------------------------------------------------------------
(***************************************************************************)
(* Money-only rows: recomputeOrderRefundState.                             *)
(***************************************************************************)
CanTransition(from, to) ==
  <<from, to>> \in {<<"Paid", "PartiallyRefunded">>, <<"Paid", "Refunded">>,
                    <<"PartiallyRefunded", "Refunded">>}

RecomputeOrder_NoFull(rec) ==
  order' = IF CanTransition(order, "PartiallyRefunded") THEN "PartiallyRefunded" ELSE order
RecomputeOrder(rec) ==
  LET target == IF Full(refund, rec) THEN "Refunded" ELSE "PartiallyRefunded" IN
  order' = IF Refunded(refund, rec) > 0 /\ CanTransition(order, target) THEN target ELSE order

RecordMoney(x, st) ==
  LET rec == [recorded EXCEPT ![x] = st] IN
  /\ recorded' = rec
  /\ IF st = "Settled" THEN RecomputeOrder(rec) ELSE UNCHANGED order
  /\ reversed' = (reversed \/ (order # "Refunded" /\ order' = "Refunded"))
  /\ UNCHANGED <<refund, returned>>

\* Reservations that wait for a reference, on the same payment and amount.
Unbound(x) ==
  {r \in Requests : /\ refund[r].state = "Pending" /\ refund[r].ref = None
                    /\ PaymentOf(r) = PaymentOf(x) /\ Amount[r] = Amount[x]}
BoundTo_Open(x) == {r \in Requests : refund[r].ref = x /\ refund[r].state # "Settled"}
BoundTo(x) == {r \in Requests : refund[r].ref = x}

FinalizeOrQuarantine(r, res) ==
  /\ \/ FinalizeRefund(r, res)
     \/ Mismatch(r, res) /\ UNCHANGED <<order, refund, returned, reversed>>
  /\ UNCHANGED recorded

\* Step 1 of the correlation: this reference is known.
Known(x, st) ==
  \/ \E r \in BoundTo(x) : FinalizeOrQuarantine(r, [state |-> st, ref |-> x])
  \/ /\ BoundTo(x) = {} /\ recorded[x] # None
     /\ IF recorded[x] # "Settled" /\ recorded[x] # st
          THEN RecordMoney(x, st)
          ELSE UNCHANGED <<order, refund, recorded, returned, reversed>>

IsKnown(x) == BoundTo(x) # {} \/ recorded[x] # None

\* Steps 2 to 4: the stamped attempt, a unique unbound reservation, or a
\* refund nobody here asked for.
Stamped(x) == x \in Requests /\ refund[x].state # None

Correlate(x, st) ==
  CASE IsKnown(x) -> Known(x, st)
    [] ~IsKnown(x) /\ Stamped(x) -> FinalizeOrQuarantine(x, [state |-> st, ref |-> x])
    [] ~IsKnown(x) /\ ~Stamped(x) /\ Cardinality(Unbound(x)) = 1 ->
         FinalizeOrQuarantine(CHOOSE r \in Unbound(x) : TRUE, [state |-> st, ref |-> x])
    [] ~IsKnown(x) /\ ~Stamped(x) /\ Cardinality(Unbound(x)) > 1 ->
         UNCHANGED <<order, refund, recorded, returned, reversed>>  \* quarantined
    [] OTHER -> RecordMoney(x, st)

\* One Stripe event, in the order's lock set but not under the refund lock.
ReconcileStripeRefund(x, status) ==
  /\ <<x, status>> \in events
  /\ Correlate(x, CASE status = "succeeded" -> "Settled" [] status = "failed" -> "Failed"
                    [] OTHER -> "Pending")
  /\ events' = events \ {<<x, status>>}
  /\ UNCHANGED <<provider, lock, flow, pull>>

\* Sezzle: the list is fetched, then applied under the refund lock.
FetchSezzle ==
  /\ Method = "sezzle" /\ pull.at = "idle"
  /\ pull' = [at |-> "fetched", refs |-> {x \in Refs : provider[x] = "succeeded"}]
  /\ UNCHANGED <<order, refund, recorded, provider, events, lock, flow, returned, reversed>>

CorrelateSezzle_OursOnly(x) ==
  IF Cardinality(Unbound(x)) = 1
    THEN FinalizeOrQuarantine(CHOOSE r \in Unbound(x) : TRUE, [state |-> "Settled", ref |-> x])
    ELSE UNCHANGED <<order, refund, recorded, returned, reversed>>
\* One list entry; the whole loop is one transaction, so the lock is kept.
CorrelateSezzle(x) ==
  IF BoundTo(x) # {} /\ (\A r \in BoundTo(x) : refund[r].state = "Settled")
    THEN UNCHANGED <<order, refund, recorded, returned, reversed>>
  ELSE IF IsKnown(x) THEN Known(x, "Settled")
  ELSE IF Cardinality(Unbound(x)) > 1 THEN UNCHANGED <<order, refund, recorded, returned, reversed>>
  ELSE IF Cardinality(Unbound(x)) = 1
    THEN FinalizeOrQuarantine(CHOOSE r \in Unbound(x) : TRUE, [state |-> "Settled", ref |-> x])
  ELSE RecordMoney(x, "Settled")

ReconcileSezzleRefund(x) ==
  /\ pull.at = "fetched" /\ lock \in {None, "pull"} /\ x \in pull.refs
  /\ CorrelateSezzle(x)
  /\ pull' = [pull EXCEPT !.refs = @ \ {x}]
  /\ lock' = "pull"
  /\ UNCHANGED <<provider, events, flow>>

EndPull ==
  /\ pull.at = "fetched" /\ pull.refs = {} /\ lock \in {None, "pull"}
  /\ pull' = NoPull
  /\ lock' = None
  /\ UNCHANGED <<order, refund, recorded, provider, events, flow, returned, reversed>>

-----------------------------------------------------------------------------
RequestStep(r) == CallProvider(r) \/ FinishRequest(r)

Next ==
  \/ \E r \in Requests : Reserve(r) \/ Repeat(r) \/ RequestStep(r) \/ Crash(r) \/ Discover(r)
  \/ \E x \in Refs : DashboardRefund(x) \/ ProviderDecides(x) \/ ReconcileSezzleRefund(x)
  \/ \E x \in Refs, status \in {"pending", "succeeded", "failed"} : ReconcileStripeRefund(x, status)
  \/ FetchSezzle \/ EndPull

Spec == Init /\ [][Next]_vars

-----------------------------------------------------------------------------
(***************************************************************************)
(* Properties.                                                             *)
(***************************************************************************)

\* What requests reserve never exceeds the payment, whatever is pending, lost
\* or failed (requestRefund), and neither do the units.
ReservedWithinCaptured ==
  /\ \A p \in Payments :
       Total({r \in Requests : PaymentOf(r) = p /\ refund[r].state \in {"Pending", "Settled"}}) <= Captured[p]
  /\ ReservedUnits <= Quantity

\* Every settled row stands for a provider refund of its own that succeeded, of
\* the same amount: a refund of ours that comes back as an event is not counted
\* a second time (reconcileStripeRefund, reconcileSezzleRefunds).
SettledOnce ==
  Method # "internal" =>
    /\ \A r \in Requests : refund[r].state = "Settled" =>
         /\ refund[r].ref # None /\ provider[refund[r].ref] = "succeeded"
         /\ Amount[refund[r].ref] = Amount[r]
         /\ recorded[refund[r].ref] = None
         /\ \A q \in Requests \ {r} : refund[q].ref # refund[r].ref
    /\ \A x \in Refs : recorded[x] = "Settled" => provider[x] = "succeeded"

\* The line's refunded units are those of the refunds whose stock receipt is
\* applied: whichever path settles, and however often the finalizer is replayed,
\* the goods come back once (finalizeRefund, applyRefundStockEffects).
GoodsReturnedOnce ==
  returned = FoldSet(LAMBDA r, n : refund[r].units + n, 0,
                     {r \in Requests : refund[r].stock = "applied"})

\* Refunded means the whole net capture was returned, and exactly then the
\* entitlements are reversed; the difference of an edit or a duplicate capture
\* never moves the state; without edits the state follows the books
\* (finalizeRefund, recomputeOrderRefundState).
StateFollowsBooks ==
  /\ order = "Refunded" => Full(refund, recorded)
  /\ order = "Refunded" <=> reversed
  /\ order # "Cancelled" => (order = "Paid" <=> Refunded(refund, recorded) = 0)
  /\ Edits = {} /\ order \in {"Paid", "PartiallyRefunded"} => ~Full(refund, recorded)

\* A settled refund keeps its state and its reference, and a cancelled or
\* refunded order its state, whatever arrives late.
SettledStays ==
  /\ \A r \in Requests : refund[r].state = "Settled" =>
       refund'[r].state = "Settled" /\ refund'[r].ref = refund[r].ref
  /\ \A x \in Refs : recorded[x] = "Settled" => recorded'[x] = "Settled"
  /\ order \in {"Cancelled", "Refunded"} => order' = order

IsRecorded(x) == recorded[x] = "Settled" \/ \E r \in BoundTo(x) : refund[r].state = "Settled"

\* webhook-reconcile.ts: dashboard refunds are reconciled "back into our ledger".
\* With every event processed and no request running, the ledger knows them all.
LedgerComplete ==
  events = {} /\ (\A r \in Requests : flow[r].at = "idle") =>
    \A x \in Refs : provider[x] = "succeeded" => IsRecorded(x) \/ Cardinality(Unbound(x)) > 0
=============================================================================
