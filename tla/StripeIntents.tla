---------------------------- MODULE StripeIntents ----------------------------
(***************************************************************************)
(* The Stripe PaymentIntents of one order (payments/stripe-reconcile.ts,   *)
(* routes/pay.ts, jobs/release-stale-allocations.ts, cart/reopen.ts).      *)
(*                                                                         *)
(* A mint writes its attempt row before the intent exists at Stripe and    *)
(* binds the two afterwards; the shopper confirms the intent at Stripe;    *)
(* /pay, unordered webhook events, a pull of the intent (retrieved before  *)
(* the lock it is applied under) and the sweeper, which cancels at Stripe  *)
(* whatever can still be confirmed, bring Stripe's truth back.  A stale    *)
(* order is cancelled only when none of its intents can take money.        *)
(*                                                                         *)
(* Every step is one transaction under the order's lock set, or one call   *)
(* to Stripe.  An intent is named by its mint key: Stripe replays a key.   *)
(***************************************************************************)
EXTENDS Integers, FiniteSets, FiniteSetsExt

CONSTANTS
  Amounts,       \* totals the order can have
  Rounds,        \* iterations of the mint loop (5 in the code)
  Legacy,        \* TRUE: an intent minted before attempts were tracked exists
  Async,         \* TRUE: payment methods that stay in processing
  OtherGateway,  \* TRUE: another gateway may capture the order
  Edits,         \* TRUE: an edit may change the total of the unpaid order
  LockDrops,     \* TRUE: the connection of the pay: lock may be lost
  Outages,       \* TRUE: calls of the sweeper to Stripe may fail
  SearchFails,   \* TRUE: the search for untracked intents may fail
  JobCrashes,    \* TRUE: the job may die between two steps
  Actors,        \* the processes of the instance
  MaxTries       \* STRIPE_SWEEP_MAX_TRIES

\* a mint, a /pay, a pull, the job's sweep, and the retirement of intents by a
\* cancel, a reopen or an edit
Processes == {"mint", "pay", "pull", "sweep", "retire"}

BoundsAssumption ==
  /\ Actors \subseteq Processes
  /\ Amounts \subseteq Nat \ {0} /\ Amounts # {}
  /\ IsFiniteSet(Amounts)
  /\ Rounds \in Nat \ {0} /\ MaxTries \in Nat \ {0}
  /\ {Legacy, Async, OtherGateway, Edits, LockDrops, Outages, SearchFails, JobCrashes} \subseteq BOOLEAN

None == "none"
Initial == Min(Amounts)
LegacyKey == <<Initial, Rounds>>  \* the untracked intent; it carries no mint key
Keys == (Amounts \X (0..Rounds - 1)) \cup (IF Legacy THEN {LegacyKey} ELSE {})
AmountOf(k) == k[1]

VARIABLES
  order,    \* [state, total, by: who cancelled it, old: past the TTL]
  other,    \* amount settled by another gateway
  disc,     \* metadata.stripeDiscovery: failed searches, and whether it holds or cleared the order
  pre,      \* pre[k]: the pre-mint row, "bound" once it is the tracked attempt
  att,      \* att[k]: status of the attempt that carries the provider ref
  tries,    \* tries[k]: sweep failures, manual at MaxTries
  ledger,   \* ledger[k]: payment row with the intent's ref
  alerts,   \* intents an operator was alerted of
  claims,   \* processed_event claims of /pay: 0 for the order, n + 1 for the balance after n tenders
  pi,       \* pi[k]: status at Stripe ("declined": requires_payment_method with an error)
  secret,   \* intents whose client secret the shopper has
  events,   \* Stripe events not yet processed, in any order
  flow,     \* flow[p]: where a request, a pull or a resolution is
  lock      \* holder of pay:{store}:{code}

vars == <<order, other, disc, pre, att, tries, ledger, alerts, claims, pi, secret, events, flow, lock>>
atStripe == <<pi, secret, events>>
books == <<order, att, ledger, alerts>>

Live == {"requires_payment_method", "declined", "requires_action"}  \* the shopper can confirm it
PIStates == Live \cup {"processing", "succeeded", "canceled"}
Sweepable == {"open", "failed", "action_required"}  \* SWEEPABLE_INTENT_STATUSES
Idle == [at |-> "idle", key |-> LegacyKey, seen |-> None, due |-> 0, claim |-> 0]
Recorded == {"Settled", "Duplicate"}
Claims == 0..Cardinality(Keys) + 2

TypeOK ==
  /\ order \in [state : {"PendingPayment", "Paid", "Cancelled"}, total : Amounts,
                by : {None, "unpaid", "admin"}, old : BOOLEAN]
  /\ other \in Amounts \cup {0} /\ disc \in [tries : 0..MaxTries, is : {None, "clean", "hold"}]
  /\ pre \in [Keys -> {None, "open", "cancelled", "bound"}]
  /\ att \in [Keys -> Sweepable \cup {None, "processing", "unknown", "settled", "cancelled"}]
  /\ tries \in [Keys -> 0..MaxTries]
  /\ ledger \in [Keys -> Recorded \cup {None, "Pending", "Declined", "OtherAmount"}]
  /\ alerts \subseteq Keys /\ secret \subseteq Keys /\ events \subseteq Keys \X PIStates
  /\ claims \subseteq Claims
  /\ pi \in [Keys -> PIStates \cup {None}]
  /\ flow \in [Processes -> [at : {"idle", "premint", "mint", "bind", "verify", "apply", "seen", "cancel"},
                             key : Keys \cup {LegacyKey}, seen : PIStates \cup {None, "mismatch"},
                             due : Amounts \cup {0}, claim : Claims]]
  /\ lock \in Processes \cup {None}

Init ==
  /\ order = [state |-> "PendingPayment", total |-> Initial, by |-> None, old |-> FALSE]
  /\ other = 0 /\ disc = [tries |-> 0, is |-> None] /\ alerts = {} /\ claims = {} /\ events = {} /\ lock = None
  /\ pre = [k \in Keys |-> None] /\ att = [k \in Keys |-> None] /\ tries = [k \in Keys |-> 0]
  /\ ledger = [k \in Keys |-> None]
  /\ pi = [k \in Keys |-> IF Legacy /\ k = LegacyKey THEN "requires_payment_method" ELSE None]
  /\ secret = IF Legacy THEN {LegacyKey} ELSE {}
  /\ flow = [p \in Processes |-> Idle]

(* Processes ******************************************************************)
Goto(p, f) == flow' = [flow EXCEPT ![p] = f]
Take(p) == lock = None /\ lock' = p
Release(p) == lock' = IF lock = p THEN None ELSE lock
End(p) == Goto(p, Idle) /\ Release(p)
At(p, l) == p \in Actors /\ flow[p].at = l

\* a request, or the process that runs it, dies; its session lock goes with it
Die(p) == p \in Actors /\ ~At(p, "idle") /\ (p = "sweep" => JobCrashes) /\ End(p)
          /\ UNCHANGED <<books, other, disc, pre, tries, claims, atStripe>>

\* the lock's connection is lost and its holder goes on
DropLock ==
  /\ LockDrops /\ lock # None /\ lock' = None
  /\ UNCHANGED <<books, other, disc, pre, tries, claims, atStripe, flow>>

(* The order's books **********************************************************)
Captured == {k \in Keys : ledger[k] = "Settled"}
Sum(ks) == MapThenSumSet(AmountOf, ks)
AmountDue == order.total - other - Sum(Captured)
SettledTenders == Cardinality({k \in Keys : ledger[k] \in Recorded}) + (IF other > 0 THEN 1 ELSE 0)

\* hasUnresolvedPayment: processing, pending or unknown work
HasUnresolvedPayment ==
  \E k \in Keys : att[k] \in {"processing", "unknown"} \/ ledger[k] = "Pending"
HasConfirmableIntent == \E k \in Keys : att[k] \in Sweepable \/ pre[k] = "open"
Tracked == \E k \in Keys : att[k] # None \/ pre[k] # None

\* setAttempt: a settled intent never moves again
SetAttempt_Free(k, s) == att' = [att EXCEPT ![k] = s]
SetAttempt_Spelling(k, s) ==
  att' = [att EXCEPT ![k] = IF @ = "settled" THEN @ ELSE IF s = "cancelled" THEN "canceled" ELSE s]
SetAttempt(k, s) == att' = [att EXCEPT ![k] = IF @ = "settled" THEN @ ELSE s]

\* applyPaymentResult of captured money
Capture_Quiet(k, amount) ==
  /\ ledger' = [ledger EXCEPT ![k] = "Settled"]
  /\ order' = IF order.state = "PendingPayment" /\ AmountDue <= amount
              THEN [order EXCEPT !.state = "Paid"] ELSE order
  /\ UNCHANGED alerts
Capture(k, amount) ==
  LET remaining == AmountDue - amount
      flagged == (order.state = "Cancelled") \/ (order.state = "Paid" /\ remaining < 0) IN
  /\ ledger' = [ledger EXCEPT ![k] = "Settled"]
  /\ order' = IF order.state = "PendingPayment" /\ remaining <= 0
              THEN [order EXCEPT !.state = "Paid"] ELSE order
  /\ alerts' = IF flagged THEN alerts \cup {k} ELSE alerts

(* applyStripeIntentLocked: one snapshot of an intent, whatever brought it.   *)
\* D4: the order is covered; record the capture as a duplicate
ApplyDuplicate(k) ==
  /\ SetAttempt(k, "settled")
  /\ IF ledger[k] = None
     THEN ledger' = [ledger EXCEPT ![k] = "Duplicate"] /\ alerts' = alerts \cup {k}
     ELSE UNCHANGED <<ledger, alerts>>
  /\ UNCHANGED order

\* D3: captured money that does not match the amount due
ApplyMismatch_Quiet(k) == SetAttempt(k, "unknown") /\ UNCHANGED <<order, ledger, alerts>>
ApplyMismatch(k) ==
  /\ SetAttempt(k, "unknown")
  /\ alerts' = IF att[k] = "unknown" THEN alerts ELSE alerts \cup {k}
  /\ UNCHANGED <<order, ledger>>

ApplySucceeded_PendingOnly(k) ==
  IF order.state = "PendingPayment" /\ AmountOf(k) = AmountDue
  THEN Capture(k, AmountDue) /\ SetAttempt(k, "settled")
  ELSE SetAttempt(k, "settled") /\ UNCHANGED <<order, ledger, alerts>>
ApplySucceeded(k) ==
  \/ ledger[k] \in Recorded /\ SetAttempt(k, "settled") /\ UNCHANGED <<order, ledger, alerts>>
  \/ /\ ledger[k] \notin Recorded /\ AmountDue > 0 /\ AmountOf(k) = AmountDue
     /\ ledger[k] # "OtherAmount"  \* applyPaymentResult throws: the row has another amount
     /\ Capture(k, AmountDue) /\ SetAttempt(k, "settled")
  \/ ledger[k] \notin Recorded /\ AmountDue > 0 /\ AmountOf(k) # AmountDue /\ ApplyMismatch(k)
  \/ ledger[k] \notin Recorded /\ AmountDue <= 0 /\ ApplyDuplicate(k)

\* a decline, or an intent back at its start while we hold a Pending row
Declines(k, s) == s = "declined" \/ (s = "requires_payment_method" /\ ledger[k] = "Pending")

ApplyOther(k, s) ==
  /\ UNCHANGED <<order, alerts>>
  /\ CASE s = "requires_action" -> SetAttempt(k, "action_required") /\ UNCHANGED ledger
       [] s = "processing" -> SetAttempt(k, "processing") /\ UNCHANGED ledger
       [] s = "canceled" ->
            /\ SetAttempt(k, "cancelled")
            /\ ledger' = IF ledger[k] = "Pending" THEN [ledger EXCEPT ![k] = "Declined"] ELSE ledger
       [] Declines(k, s) ->
            /\ SetAttempt(k, "failed")
            /\ ledger' = IF order.state = "PendingPayment" /\ ledger[k] \in {None, "Pending"}
                         THEN [ledger EXCEPT ![k] = "Declined"] ELSE ledger
       [] OTHER -> IF att[k] = "failed" THEN UNCHANGED <<att, ledger>>
                   ELSE SetAttempt(k, "open") /\ UNCHANGED ledger

Apply(k, s) == IF s = "succeeded" THEN ApplySucceeded(k) ELSE ApplyOther(k, s)

(* POST /payment-intent *******************************************************)
Payable == order.state = "PendingPayment" \/ (order.state = "Paid" /\ AmountDue > 0)

PrepareMint ==
  /\ At("mint", "idle") /\ Take("mint") /\ Payable /\ AmountDue \in Amounts
  /\ Goto("mint", [Idle EXCEPT !.at = "premint", !.key = <<AmountDue, 0>>])
  /\ UNCHANGED <<books, other, disc, pre, tries, claims, atStripe>>

\* openStripePreMint, with payability checked again
OpenPreMint_NoRecheck ==
  /\ At("mint", "premint")
  /\ LET k == flow["mint"].key IN
       pre' = IF pre[k] = None THEN [pre EXCEPT ![k] = "open"] ELSE pre
  /\ Goto("mint", [flow["mint"] EXCEPT !.at = "mint"])
  /\ UNCHANGED <<books, other, disc, tries, claims, atStripe, lock>>
OpenPreMint ==
  /\ At("mint", "premint")
  /\ IF order.state \in {"PendingPayment", "Paid"}
     THEN /\ LET k == flow["mint"].key IN
               pre' = IF pre[k] = None THEN [pre EXCEPT ![k] = "open"] ELSE pre
          /\ Goto("mint", [flow["mint"] EXCEPT !.at = "mint"]) /\ UNCHANGED lock
     ELSE End("mint") /\ UNCHANGED pre
  /\ UNCHANGED <<books, other, disc, tries, claims, atStripe>>

\* createPaymentIntent: idempotent on the mint key
CreatePaymentIntent ==
  /\ At("mint", "mint")
  /\ LET k == flow["mint"].key IN
       pi' = IF pi[k] = None THEN [pi EXCEPT ![k] = "requires_payment_method"] ELSE pi
  /\ Goto("mint", [flow["mint"] EXCEPT !.at = "bind"])
  /\ UNCHANGED <<books, other, disc, pre, tries, claims, secret, events, lock>>

\* bindStripePreMint: the row takes the ref, unless an attempt already has it
BindRow(k) ==
  IF att[k] # None
  THEN /\ pre' = [pre EXCEPT ![k] = IF @ = "bound" THEN @ ELSE "cancelled"]
       /\ UNCHANGED att
  ELSE /\ pre' = [pre EXCEPT ![k] = "bound"]
       /\ att' = [att EXCEPT ![k] = pre[k]]

\* the secret is returned unless the intent is cancelled (or, for a balance, settled)
BindPreMint ==
  /\ At("mint", "bind")
  /\ LET k == flow["mint"].key
         dead == att'[k] = "cancelled" \/ (order.state = "Paid" /\ att'[k] = "settled") IN
     /\ BindRow(k)
     /\ IF ~dead THEN secret' = secret \cup {k} /\ End("mint")
        ELSE /\ UNCHANGED secret
             /\ IF k[2] + 1 < Rounds
                THEN UNCHANGED lock /\ Goto("mint", [flow["mint"] EXCEPT !.at = "premint", !.key = <<k[1], k[2] + 1>>])
                ELSE End("mint")
  /\ UNCHANGED <<order, ledger, alerts, other, disc, tries, claims, pi, events>>

(* The shopper and Stripe (external) ******************************************)
Becomes(k, s) ==
  /\ pi' = [pi EXCEPT ![k] = s] /\ events' = events \cup {<<k, s>>}
  /\ UNCHANGED <<books, other, disc, pre, tries, claims, secret, flow, lock>>

\* the shopper, who has the secret, confirms the intent
Confirm(k) ==
  /\ k \in secret /\ pi[k] \in Live
  /\ \E s \in {"succeeded", "declined", "requires_action"} \cup (IF Async THEN {"processing"} ELSE {}) :
       Becomes(k, s)

\* an asynchronous method decides
Decide(k) == pi[k] = "processing" /\ \E s \in {"succeeded", "declined"} : Becomes(k, s)

(* POST /pay ******************************************************************)
ClaimKey == IF order.state = "PendingPayment" THEN 0 ELSE SettledTenders + 1

PreparePay(k) ==
  /\ At("pay", "idle") /\ k \in secret /\ Take("pay") /\ Payable /\ AmountDue \in Amounts
  /\ ClaimKey \notin claims
  /\ Goto("pay", [Idle EXCEPT !.at = "verify", !.key = k, !.due = AmountDue, !.claim = ClaimKey])
  /\ UNCHANGED <<books, other, disc, pre, tries, claims, atStripe>>

\* stripeProvider.createPayment, verifyIntent
VerifyIntent ==
  /\ At("pay", "verify")
  /\ LET k == flow["pay"].key IN
       Goto("pay", [flow["pay"] EXCEPT !.at = "apply",
                    !.seen = IF AmountOf(k) = flow["pay"].due THEN pi[k] ELSE "mismatch"])
  /\ UNCHANGED <<books, other, disc, pre, tries, claims, atStripe, lock>>

\* applyPaymentResult of what is not (yet) captured: a row of the same state stays
RowFor(k, s) ==
  CASE s = "mismatch" -> "OtherAmount" [] s = "processing" -> "Pending" [] OTHER -> "Declined"

\* under the set: the state again, the claim, the ledger
ApplyPay ==
  LET f == flow["pay"]  k == f.key
      payable == order.state # "Cancelled" \/ f.seen = "succeeded"
      clash == \/ ledger[k] = "OtherAmount" /\ f.due = AmountOf(k)
               \/ ledger[k] \notin {None, "OtherAmount"} /\ f.due # AmountOf(k) IN
  /\ At("pay", "apply") /\ End("pay")
  /\ IF ~payable \/ f.claim \in claims \/ clash THEN UNCHANGED <<order, ledger, alerts, claims>>
     ELSE /\ claims' = IF f.seen \in {"succeeded", "processing"} \/ ledger[k] \in Recorded
                        THEN claims \cup {f.claim} ELSE claims
          /\ CASE ledger[k] \in Recorded -> UNCHANGED <<order, ledger, alerts>>
               [] ledger[k] \notin Recorded /\ f.seen = "succeeded" -> Capture(k, f.due)
               [] OTHER -> ledger' = [ledger EXCEPT ![k] = RowFor(k, f.seen)] /\ UNCHANGED <<order, alerts>>
  /\ UNCHANGED <<att, other, disc, pre, tries, atStripe>>

(* Webhook events, under the pay lock and the order's set *********************)
ProcessEvent(e) ==
  /\ e \in events /\ lock = None
  /\ Apply(e[1], e[2]) /\ events' = events \ {e}
  /\ UNCHANGED <<other, disc, pre, tries, claims, pi, secret, flow, lock>>

(* reconcileStripeOrder: retrieve without a lock, apply under it **************)
Retrieve(k) ==
  /\ At("pull", "idle") /\ att[k] \notin {None, "settled", "cancelled"}
  /\ Goto("pull", [Idle EXCEPT !.at = "seen", !.key = k, !.seen = pi[k]])
  /\ UNCHANGED <<books, other, disc, pre, tries, claims, atStripe, lock>>

ApplyPull ==
  /\ At("pull", "seen") /\ lock = None
  /\ Apply(flow["pull"].key, flow["pull"].seen) /\ Goto("pull", Idle)
  /\ UNCHANGED <<other, disc, pre, tries, claims, atStripe, lock>>

(* resolveIntentForCancel, for the sweeps, and for a cancel, reopen or edit ***)
ToSweep(k) == att[k] \in Sweepable /\ tries[k] < MaxTries /\ order.old

RetrieveForCancel(p, k) ==
  /\ At(p, "idle") /\ att[k] \in Sweepable /\ (p = "sweep" => ToSweep(k))
  /\ Goto(p, [Idle EXCEPT !.at = "seen", !.key = k, !.seen = pi[k]])
  /\ UNCHANGED <<books, other, disc, pre, tries, claims, atStripe, lock>>

\* under the lock: what Stripe has settled or holds is applied as it was read
ApplySeen(p) ==
  /\ At(p, "seen") /\ flow[p].seen \notin Live /\ lock = None
  /\ Apply(flow[p].key, flow[p].seen) /\ Goto(p, Idle)
  /\ UNCHANGED <<other, disc, pre, tries, claims, atStripe, lock>>

\* cancelStripeIntent: Stripe refuses once it moves money; the answer is then the intent as it is
CancelAtStripe_Assumed(p) ==
  /\ At(p, "seen") /\ flow[p].seen \in Live /\ Take(p)
  /\ Goto(p, [flow[p] EXCEPT !.at = "cancel", !.seen = "canceled"])
  /\ UNCHANGED <<books, other, disc, pre, tries, claims, atStripe>>
CancelAtStripe(p) ==
  LET k == flow[p].key  s == IF pi[k] \in Live THEN "canceled" ELSE pi[k] IN
  /\ At(p, "seen") /\ flow[p].seen \in Live /\ Take(p)
  /\ pi' = [pi EXCEPT ![k] = s]
  /\ events' = IF pi[k] \in Live THEN events \cup {<<k, s>>} ELSE events
  /\ Goto(p, [flow[p] EXCEPT !.at = "cancel", !.seen = s])
  /\ UNCHANGED <<books, other, disc, pre, tries, claims, secret>>

ApplyCancelled(p) ==
  /\ At(p, "cancel") /\ Apply(flow[p].key, flow[p].seen) /\ End(p)
  /\ UNCHANGED <<other, disc, pre, tries, claims, atStripe>>

(* The stale-order job ********************************************************)
\* discoverUntrackedForOrder: search Stripe for an order without any attempt
Discover ==
  /\ order.old /\ order.state = "PendingPayment" /\ ~Tracked
  /\ disc.is # "clean" /\ disc.tries < MaxTries
  /\ \/ SearchFails /\ disc' = [tries |-> disc.tries + 1, is |-> "hold"] /\ UNCHANGED att
     \/ /\ disc' = [disc EXCEPT !.is = "clean"]
        /\ att' = [k \in Keys |-> IF pi[k] # None THEN "open" ELSE None]
  /\ UNCHANGED <<order, ledger, alerts, other, pre, tries, claims, atStripe, flow, lock>>

\* recordIntentSweepFailure: back off, and leave it to an operator after MaxTries
CountFailure_Quiet(k) ==
  /\ tries' = [tries EXCEPT ![k] = IF @ < MaxTries THEN @ + 1 ELSE @] /\ UNCHANGED alerts
CountFailure(k) ==
  IF (att[k] \in Sweepable \/ pre[k] = "open") /\ tries[k] < MaxTries
  THEN /\ tries' = [tries EXCEPT ![k] = @ + 1]
       /\ alerts' = IF tries'[k] = MaxTries THEN alerts \cup {k} ELSE alerts
  ELSE UNCHANGED <<tries, alerts>>

SweepFails ==
  /\ Outages /\ ~At("sweep", "idle") /\ "sweep" \in Actors /\ End("sweep") /\ CountFailure(flow["sweep"].key)
  /\ UNCHANGED <<order, att, ledger, other, disc, pre, claims, atStripe>>

\* sweepOrphanPreMints, not under the pay lock: bind what the search finds by its
\* mint key; cancel the row after a clean search, unless an intent without a mint
\* key and of the same amount could be the one
SweepOrphan(k) ==
  LET ambiguous == Legacy /\ AmountOf(k) = Initial IN
  /\ order.old /\ pre[k] = "open" /\ tries[k] < MaxTries
  /\ \/ pi[k] # None /\ BindRow(k) /\ UNCHANGED <<tries, alerts>>
     \/ /\ pi[k] = None /\ ~ambiguous
        /\ pre' = [pre EXCEPT ![k] = "cancelled"] /\ UNCHANGED <<att, tries, alerts>>
     \/ (SearchFails \/ (pi[k] = None /\ ambiguous)) /\ CountFailure(k) /\ UNCHANGED <<att, pre>>
  /\ UNCHANGED <<order, ledger, other, disc, claims, atStripe, flow, lock>>

\* unpaidCancellablePredicate
UnpaidCancellable_Processing == order.state = "PendingPayment" /\ ~HasUnresolvedPayment
UnpaidCancellable ==
  /\ order.state = "PendingPayment"
  /\ ~HasUnresolvedPayment /\ ~HasConfirmableIntent
  /\ disc.is # "hold" /\ (Tracked \/ disc.is = "clean")

CancelUnpaid ==  \* cancelUnpaidOrderInSet
  /\ UnpaidCancellable
  /\ order' = [order EXCEPT !.state = "Cancelled", !.by = "unpaid"]
  /\ UNCHANGED <<att, ledger, alerts, other, disc, pre, tries, claims, atStripe, flow, lock>>
ReleaseStale == order.old /\ CancelUnpaid
ReopenCart == ~order.old /\ CancelUnpaid  \* reopenConvertedCart: the same claim at any age

\* the operator's cancel, under the pay lock: only money in flight refuses it
AdminCancel ==
  /\ lock = None /\ order.state = "PendingPayment" /\ ~HasUnresolvedPayment
  /\ order' = [order EXCEPT !.state = "Cancelled", !.by = "admin"]
  /\ UNCHANGED <<att, ledger, alerts, other, disc, pre, tries, claims, atStripe, flow, lock>>

(* The rest of the application ************************************************)
\* a capture of NMI or Sezzle, which takes the pay lock
OtherCapture ==
  /\ OtherGateway /\ lock = None /\ order.state = "PendingPayment" /\ AmountDue > 0
  /\ other' = AmountDue /\ order' = [order EXCEPT !.state = "Paid"]
  /\ UNCHANGED <<att, ledger, alerts, disc, pre, tries, claims, atStripe, flow, lock>>

\* an edit of the unpaid order reprices it under the pay lock, its intents retired
EditTotal_Unguarded ==
  /\ Edits /\ lock = None /\ order.state = "PendingPayment" /\ ~HasUnresolvedPayment
  /\ \E t \in Amounts \ {order.total} : order' = [order EXCEPT !.total = t]
  /\ UNCHANGED <<att, ledger, alerts, other, disc, pre, tries, claims, atStripe, flow, lock>>
EditTotal ==
  /\ Edits /\ lock = None /\ order.state = "PendingPayment"
  /\ ~HasUnresolvedPayment /\ ~HasConfirmableIntent
  /\ \E t \in Amounts \ {order.total} : order' = [order EXCEPT !.total = t]
  /\ UNCHANGED <<att, ledger, alerts, other, disc, pre, tries, claims, atStripe, flow, lock>>

Age ==
  /\ ~order.old /\ order' = [order EXCEPT !.old = TRUE]
  /\ UNCHANGED <<att, ledger, alerts, other, disc, pre, tries, claims, atStripe, flow, lock>>

Resolvers == {"sweep", "retire"}
Requests == PrepareMint \/ OpenPreMint \/ CreatePaymentIntent \/ BindPreMint
            \/ (\E k \in Keys : PreparePay(k)) \/ VerifyIntent \/ ApplyPay
Sweeps == \/ \E k \in Keys : RetrieveForCancel("sweep", k)
          \/ ApplySeen("sweep") \/ CancelAtStripe("sweep") \/ ApplyCancelled("sweep")
Next ==
  \/ Requests
  \/ \E k \in Keys : Confirm(k) \/ Decide(k) \/ Retrieve(k) \/ SweepOrphan(k) \/ RetrieveForCancel("retire", k)
  \/ \E e \in events : ProcessEvent(e)
  \/ ApplyPull \/ Sweeps \/ SweepFails
  \/ ApplySeen("retire") \/ CancelAtStripe("retire") \/ ApplyCancelled("retire")
  \/ Discover \/ ReleaseStale \/ ReopenCart \/ AdminCancel \/ OtherCapture \/ EditTotal \/ Age
  \/ (\E p \in Processes : Die(p)) \/ DropLock

Spec == Init /\ [][Next]_vars

(* Properties *****************************************************************)
\* The sweeper and the cart reopen never cancel an order while an intent of it that
\* the shopper can still confirm, or that has already taken money, is left at Stripe.
NoMoneyAfterRelease ==
  order.by = "unpaid" => \A k \in secret : pi[k] = "canceled"

\* A captured intent whose attempt is closed is on the ledger, as a payment of the
\* order or as a duplicate to be refunded.
CaptureRecorded ==
  \A k \in Keys : att[k] = "settled" => (pi[k] = "succeeded" /\ ledger[k] \in Recorded)

\* A capture that does not match the amount due is put before an operator.
MismatchAlerted == \A k \in Keys : att[k] = "unknown" => (pi[k] = "succeeded" /\ k \in alerts)

\* Money beyond what the order costs, or on a cancelled order, is flagged.
ExcessFlagged ==
  (AmountDue < 0 \/ (order.state = "Cancelled" /\ Captured # {})) => alerts \cap Captured # {}

\* The amount an intent was minted for is still the amount due when it is applied:
\* an edit cannot reprice the order under an intent the shopper can confirm.
NothingStranded == \A k \in Keys : att[k] # "unknown"

\* Money the ledger has recorded is never unrecorded, and its attempt never reopens.
SettledStays ==
  \A k \in Keys : /\ (ledger[k] \in Recorded => ledger'[k] = ledger[k])
                  /\ (att[k] = "settled" => att'[k] = "settled")
====
