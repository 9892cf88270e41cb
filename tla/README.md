# SellRight: TLA+ models, checks and proofs

SellRight is a self-hosted commerce backend: a REST API over one Postgres
database (`packages/api`), an admin application, a storefront, a generated
client and an iOS application. This directory models the part where money,
goods, crashes and concurrent workers meet. Everything is translated from
`packages/api/src`; paths below are relative to it unless they begin with
`packages/` or `docs/`.

| module | what it models |
|---|---|
| `PendingEffects` | the settlement effects engine: rows, claims, workers, crashes |
| `EffectContract` | what an effect promises its operation, without any of that |
| `GatewayPayment` | one unpaid order, its NMI and Sezzle attempts, the jobs that recover them, its cancel and its reservation |
| `StripeIntents` | the Stripe intents of one order: mint, pay, events, pulls, sweeps, retiring |
| `Refunds` | refunds of one order: requests, provider, events, pulled lists, restock |
| `AccountCredit` | the credit account: holds, redemption, units given back, edits |
| `LoyaltyLedger` | points: spending, earning, bonuses, reversal, expiry by lots |
| `OrderEdits` | commits, replays and retries of edits and the refunds they drive |
| `StockLedger` | stock counters and order lines: checkout, edits, shipments, refunds, counts, transfers, pre-orders |
| `CartCheckout` | the server cart, its merge, its conversion into an order and its reopening |
| `LicenseDevices`, `LicenseIssuance` | seats and leases of a licence; the keys of an order line |
| `JobScheduler` | ticks, admission lanes, leader leases, the commit fence |
| `OutboxDelivery` | the email, webhook and push outboxes |
| `LockSets` | transactions that lock the row family of an order |
| `StockHook`, `CatalogGenerations` | the trigger, marker and drain of catalog publications; the generations on disk |
| `MC*` | the instances for TLC (section 4) |
| `*Proofs` | the theorems (section 5) |

`PROJECT.json` lists the components, the runs, a mutant for every checked
property, the source lines of every definition, the findings, the hazards and
the theorems.

## 1. Inventory

### Processes and what they share

API processes serve requests; one of them at a time also leads each scheduled
job (`jobs/scheduler.ts`, `jobs/leader-lock.ts`). A stand-alone effects worker
(`scripts/effects-worker.ts`) may run beside them. They share nothing but
Postgres: row locks, `FOR UPDATE SKIP LOCKED`, session advisory locks
(`db/client.ts`, for example `pay:<store>:<order>`), ordered lock sets
(`db/locks.ts`) and the lease rows of the jobs. Providers (NMI, Sezzle, Stripe,
SMTP, push) are called outside transactions and answer late, twice or never.

### Components

| component | state | operations | what makes it correct |
|---|---|---|---|
| Effects engine (`payments/settlement/effects.ts`) | `order_pending_effect`, `applied_operation_receipt` | enqueue, run inline, claim, process, fail, requeue | each effect executes once; done and executed agree; none is lost; rank order |
| Recording (`record.ts`, `ops.ts`) | `settlement_operation` | record a settlement fact, apply its mutations, purge | one operation per fact, whatever path observes it |
| Held issuance (`issuance-approval.ts`) | approval in the effect's payload | approve and run | an approval runs once and closes its own review |
| Gateway flow (`payments/gateway-payment.ts`, `nmi*.ts`, `sezzle*.ts`) | `payment_attempt` | start, session, sale, verify, finish | one active attempt per order; a settled attempt stays settled |
| Settlement (`payments/settle.ts`, `money/fsm.ts`) | `payment`, `order.state` | apply a payment result | captured money is never downgraded, never silent |
| Recovery (`jobs/gateway-recovery.ts`) | `context.recovery`, `context.capture_decision` | verify, capture, release, expire, annotate | bounded tries, then a person; a capture decision is final |
| Event job (`jobs/reconcile-gateway-events.ts`) | `gateway_event` | associate, verify, hand over | a stored event is processed or shown |
| Reservation (`payments/reservation.ts`) | `order_reservation` | reserve, consume, request and settle a release, override | never released while the provider can still move money |
| Unpaid cancel (`orders/cancel-unpaid.ts`) | order, stock, points, hold | cancel | never under a charge |
| Stripe (`payments/stripe*.ts`) | intents as attempts, discovery marks | pre-mint, track, reconcile, cancel | no capture after a cancel goes unseen |
| Refunds (`payments/refunds.ts`, `webhook-reconcile.ts`) | `refund` | request, finalize, retry, reconcile | refunded never exceeds captured; one row per provider refund |
| Order edits (`orders/order-edit-service.ts`) | `order_edit`, its settlement | commit, replay, retry | the difference is settled exactly once |
| Account credit, loyalty | ledgers | hold, redeem, restore; reserve, earn, reverse | no negative balance, one entry per fact |
| Stock (`orders/`, `routes/admin-*.ts`) | `stock`, line counters | allocate, ship, release, restock, count, move | allocations match the orders, nothing is sold twice |
| Cart (`routes/cart.ts`, `checkout.ts`) | `cart`, its revision | append, set, claim, merge, convert, reopen | one live order per cart, for what was shown |
| Licensing (`licensing/`) | `license`, `activation`, leases | issue, admit, renew, remove, revoke | seats within their cap, keys within what is paid |
| Outboxes (`email/`, `webhooks/`, `push/`) | outbox rows | enqueue with the fact, claim, send, finalize | no accepted message is lost |
| Scheduler (`jobs/`) | `scheduler_lease`, lanes | admit, claim, renew, release, fence a commit | commits of a job follow its leases |
| Lock sets (`db/locks.ts`) | row and advisory locks | plan, lock, verify, start over | the set is complete while the body runs; one global order |
| Manifest publishing (`manifest/`) | pending tokens, generations on disk | mark, regenerate, switch, clean | the last change is published; the pointer names a whole generation |

Authentication, pricing, tax, promotions, disputes, reviews, feeds, imports and
the user interfaces are not modelled (section 7).

### What is hard

Steps of two actors on one row (a slow worker and the one that took its claim
over, a cancel and a payment, a webhook and the recovery job, two tabs and one
cart); the gap between a provider's action and the database's record of it;
decisions taken on a stale read; retries that must neither repeat nor stop;
flags that one part waits for and another must write; a rename, a purge or a
process death between two steps of a publication. `hazards` in `PROJECT.json`
lists forty, line by line; two of them, what a release gives back of a pre-order
and notices that arrive out of order, no property can exclude, because the code
does it. Three more are known and covered by nothing: `requeueTerminalEffect` resets a terminal row
whatever its resolution (`effects.ts` 377); a purge cancels an external effect
whose call may already have reached the provider (`record.ts` 283); an effect
that goes terminal after the review of its operation was resolved raises no
second one (`effects.ts` 111).

## 2. Payments

### The effects engine (`PendingEffects`)

A settlement operation authorises effects. `RecordDeferred` leaves their rows
pending; `RecordInline` also runs the local ones in the recording transaction,
in which every handler must answer or the whole transaction rolls back.
Workers take rows with `ClaimDueEffects` (due or overdue, not behind an open
sibling of earlier rank, not row-locked) and work through the batch in rank
order.

| code | model |
|---|---|
| `claim_token`, a fresh uuid | `eff[e].claim`, a number that only grows; `batch[w][e]` is the worker's copy |
| `claimedRow` and the `WHERE claim_token` of each write | `HoldsClaim` |
| the row lock of a local effect | `Locked`, from `Start` to `RunLocal` or `ThrowLocal` |
| `processExternal` | `Start` (receipt look-up), `CallProvider` or `CallThrows`, `CompleteExternal` or `CompleteThrows` |
| `failClaimed` | `FailClaimed`, a transaction of its own |
| `applyOutcome`, `markRetryOrTerminal`, `markTerminal` | `OutcomeRow`, `ReviewAfter` |
| `requeueTerminalEffect`, `approveHeldEditIssuance`, `order_purge` | `RequeueTerminalEffect`, `ApproveHeldEditIssuance`, `PurgeOrder` |
| process death, a refused commit, a throwing `failClaimed` | `Crash` |
| `next_attempt_at`, `STALE_CLAIM_MS`, a handler's horizon | `due`, `aged`, `failed`, moved by `Clock` |

Payloads are gone; a handler is the set of outcomes it may give. The provider
is the set of idempotency keys it has acted on. `runs` is history: it counts
committed executions. `EffectContract` says what all this is for: an effect is
executed in the same instant as it is finished, or set aside for a person, or
cancelled with its order; `PendingEffects` implements it (`AbstractState`).

### One order at the gateway (`GatewayPayment`)

The state is the order, the goods it holds, its ledger (`prepaid`, `paid`,
`pay`), the attempts, the truth at the provider (`prov`), the captured event of
each attempt, the holder of the `pay:` lock (`flow`), the recovery job's local
state (`plan`) and the reservation (`hold`). An action is one transaction, one
provider call or one step of the provider.

| code | model |
|---|---|
| `withAdvisoryLock('pay:...')` | `flow.pc # "free"`, released by `Return`, `GiveUpTry` or a crash |
| `startGatewayPayment` | `StartGatewayPayment`, then `CreateSession`, `SessionRecorded` or `MarkUnknown`, or `CreatePayment` |
| `finishAttempt` with `applyPaymentResult` | `FinishAttempt`, one transaction |
| `verifyGatewayAttempt`, `verifySezzleAttempt` | `Verify`; `Ask` when a job does it |
| `recoverOne` | `RecoverSelect`, `DecideSezzleRecovery` (outside the lock), `RecoverLock`, `DecideSezzleCapture`, `CaptureOrder` or `ReleaseOrder`, `FinishAttempt`, `Annotate` |
| `reconcileGatewayEvents` | `BindProviderReference`, `ReconcileEvent`, `ReconcileEventFails` |
| `cancelUnpaidOrderInSet` | `CancelUnpaid` (no `pay:` lock), `AdminCancel` (with it) |
| `reserve`, `release`, sweep, `overrideRelease` | `Reserve`, `SettledHold`, `ReservationReleaseSweep`, `OverrideRelease` |

`SaleOutcomes` and `Answers` are what the adapters in `nmi.ts`, `nmi-query.ts`
and `sezzle.ts` make of a response, including the void after a
card-verification mismatch, an answer that never came and a read that is
unavailable. Time is abstract: attempts are due, sessions old enough to expire
and orders old enough to cancel whenever the code could find them so.
`NoStrayCharge` is as strong as the code allows: a session that the recovery
job declared expired can still be paid, and then the capture is alerted.

### Stripe intents and refunds

`StripeIntents` follows one order from the pre-minted intent to its capture,
cancel or release, with the mint loop, `/pay`, the event handlers, the pull, the
two sweeps and the retiring of intents by a reopened cart or an edit. Stripe's
own steps are external. Left out: the 24-hour life of Stripe's idempotency
keys, staged edit tenders, balance intents and the reconciliation of imported
orders; the age of orphan rows is over-approximated and Stripe's search is
assumed complete when it answers.

`Refunds` follows the refunds of a payment and of its duplicate: reservation
under the refund lock, provider call, finalize, unknown answers and retries, the
refunds made at the provider's dashboard, Stripe's events in any order and
number, Sezzle's pulled list, returned goods and the order state.

## 3. Ledgers, goods and background work

| module | correspondence and what it abstracts |
|---|---|
| `AccountCredit` | A hold of the quoted amount, if so much is still available, is placed at checkout, redeemed at settlement, released by a cancel; refunds freeze units and settle later; edits stage a new allocation. The release for a removed coupon has no caller and the replacement branch of `reserve` is unreachable, so neither is an action; imported origins and stored envelopes are left out. A refund that had failed and settles after all, or one that settled before the redemption was posted and is replayed, can leave an accepted edit that cannot be activated; a credited edit that is pending has no cancel path. |
| `LoyaltyLedger` | Rows of the ledger in order, points 1:1 with cents; an order's points are dated when it was paid, a bonus when it is granted; the first-order and sign-up bonus stand for the review and birthday ones; erasure and the (empty) import are left out. An edit that lowers the total below what was refunded lets the reversal exceed the earning; the property says so. |
| `OrderEdits` | Two operators commit, replay and retry edits of one order; the refund of the difference is a step of its own. Clients send `expectedBalance`; refunds go against the first payment. A process death between commit and refund leaves the edit `pending`, and only a replay re-drives it; `dropped` remembers that the refund of a commit was lost before it was recorded, which is when finding 4 begins. |
| `StockLedger` | `stock`, the line counters, locations and movements; swaps and added lines are quantity changes; a digital variant behaves like a pre-order; one refund in flight per order. An edit of an order whose account credit was redeemed is staged: `prepareCreditedOrderEdit` reserves the added units at once, `activatePreparedOrderEdit` writes the lines and releases the removed ones when the money of the edit has settled (its tender or refund is in `AccountCredit`). If the lines changed in between the stage stays, with its reservation, and a purge of the order deletes the stage but not the reservation: `stranded` counts those units. Fulfilling "everything" after a partial shipment ships nothing, and a money-only partial refund keeps the open units allocated until the purge: both are as in the code. |
| `CartCheckout` | Rows of `cart` with status, revision and units (the lines are a number), orders, and tabs that act on what they read. `mergeRead`/`mergeCommit`, `checkoutLookup`/`checkoutConvert` and `reopenRead`/`reopenCommit` are the requests that read before they lock. One customer; prices, coupons and the quote hash are left out. After a purge a converted cart has no order and stays as it is. The erasure of an account clears the customer of its carts, converted ones too (`routes/account.ts` 785); whose cart it is is not in the state. |
| `LicenseDevices` | Admissions by activation, by lease and by App Store notice; queued and remote removal; the generation. `deactivateDevice` deletes the row of any token, a leased device's too, so the generation of its next row starts at 0. A restore notice revives the revoked devices or, if the policy says so, keeps them revoked. StoreKit verification and linking, signing and releases are left out; notices have no order check, as in the code. |
| `LicenseIssuance` | One licensed line of unit price 1: inline and deferred issuance, edits, refunds, revocation by hand. A policy may refuse (the effect is terminal) or be unavailable (it is retried), also when the Paid transition runs `license_issue` inline; the worker that takes it over then checks no balance. An approval runs in the same transaction. |
| `JobScheduler` | Timers, lanes with slots and queues, the lease row with its token, renewal, expiry, the fence of a transaction, `stop()`, maintenance, lost statements and process death. Left out: work that escaped `detachFromPass` and commits under a released fence (`db/client.ts` 266), and the refusal of a claim while a runner of the image before migration 0112 holds the advisory lock of the job (`leader-lock.ts` 127). |
| `OutboxDelivery` | Rows, attempt numbers as claims, scheduled drains under a lease, the wake-triggered drain, the registered devices, the reaper (dry-run by default in the code; the liveness property assumes `--apply`). |
| `LockSets` | Plan, lock in order, verify, start over or give up; helpers that ask for another set inside (`InTx`); inserts of new children; lock timeouts and deadlock victims, which restart within `maxRestarts` even when they must commit; every round counts as an attempt. Purchase advisories and policy contributors are left out. |
| `StockHook` | The detached task after a commit, the marker row, the publication lease, the trailing run, the drain, the edge cache (which refills at once, the worst case). The start-up publication is a drain without a token. The marker of a task may fail to be written, or its store to be read. `overtaken` remembers that a live publisher lost its lease, `unpurged` that a stock publication acknowledged the marker of an owed purge, `orphaned` the changes whose marker was never written. |
| `CatalogGenerations` | The directory with its generations, `owner.json`, the `current` pointer in memory and on disk, clean-up, power loss. `owner.json` is never synced, so a power loss may empty it (`Torn`), and then every publication is refused. Metadata is assumed to be journalled in order; the hard-link identity checks are "the source is missing"; staging directories left by a crash are never cleaned. `leaseLost` remembers that a publisher lost its lease while it ran. |

## 4. Runs

TLC takes at most a few minutes for each. A union module (`MCPayments`,
`MCLedgers`, `MCGoods`, `MCBackground`, `MCProgress`) instantiates several
modules several times: `scenario` is chosen in the initial state and never
changes, the variables of the other modules are parked, so a run is the union
of independent instances. The comment above each instance says what it is for.
Each extends the modules whose properties it checks as they stand and theorems
state (`OutboxDelivery`; `LockSets` and `OrderEdits`; `CartCheckout`;
`JobScheduler`, `CatalogGenerations` and `AccountCredit`; `StripeIntents`). The scenarios of such
a module differ in their bounds and in `StaysIn...`, which leaves a part of its
rows or actors idle, and in the scenarios of the other modules it rests in an
initial state.

| run | instances | what it shows |
|---|---|---|
| `PendingEffectsSafety` | 1 operation, a local and an external kind, 2 workers (one without the external handler), 2 attempts, 2 faults | exactly-once, receipts, claims, reviews, rank order, and the refinement of `EffectContract` |
| `GatewayPaymentSafety` | 2 attempts of both methods: with a crash, without, and with a reservation | no cent unaccounted, no stray charge, goods and hold never given back under a payment |
| `Payments` | 4 instances of `Refunds` (Stripe, Sezzle, an edit beside a duplicate, internal), 7 of `StripeIntents` (`sweep`, `mints`, `discovery`, `pay`, `edited`, `repriced`, `gateways`), 2 of `OutboxDelivery` (the scheduled drain and the waker on the emails; webhooks and pushes) | `RefundsBalance`, `CapturesAccounted` (which includes `NoMoneyAfterRelease` in `sweep`, `mints`, `discovery` and `pay`), `ClaimsDecide` |
| `Ledgers` | 2 of `LoyaltyLedger`, 1 of `OrderEdits` (two operators, two edits, one retry of a refund or one ordinary refund; refund requests are lost and processes die, after which the operators take turns), 2 of `LockSets` (three transactions on one order; two that nest sets, with an order placed) | `PointsBalance`, `EditsSettleExactly`, `SetsHold`, `WaitsUpward` |
| `Goods` | 5 of `StockLedger` (two orders share one unit; a pre-order that ends; staged edits of a credited order; a staged edit and another order after the last unit; an operator counts and moves stock), 2 of `CartCheckout` (two tabs on a cart; two carts merged), 4 of `LicenseDevices`, 2 of `LicenseIssuance` | `UnitsAddUp` (stock), `CartsAndOrdersAgree` (with `UnitsConserved`), `ConvertedCartIsFrozen`, `SeatsFollowAdmissions`, `KeysFollowMoney` |
| `Background` | 2 of `JobScheduler` (two processes and one job; three jobs in two lanes), 4 of `StockHook` (content changes of two processes; a stock and a content change with a failure; a process that dies; a publisher paused past its lease), 2 of `CatalogGenerations` (publishers of one store, deaths and power loss; of two stores, lost leases or a power loss), 2 of `AccountCredit` (two orders of two units and an operator on an account of three cents; two refunds, a manual return or a disabling, and edits of one order, one posting fails) | `LeasesFence`, `AdmissionIsOrderly`, `ChangesAreKept`, `CurrentIsComplete`, `CreditCovered`, `UnitsGivenBackOnce` |
| `Progress` | one or two small instances of the eight modules with liveness properties | `NoMoneyAfterRelease`, `EventuallySettled`, `MoneySurfaces`, `StaleOrderResolved`, `WorkGetsDone`, `ChangesArePublished` |
| `PendingEffectsNotReadyBudget`, `PendingEffectsInlineRank`, `GatewayPaymentHoldStuck`, `OrderEditsRefundTwice`, `StripeIntentsTwoGateways` | small | violated: findings 1 to 5 |

Why the bounds are enough to be interesting. Two workers, passes, publishers,
tabs or transactions and a fault give a claim, a lease or a view that is
overtaken while its first owner still runs; a second fault lets an operator or
a third party interfere after that. Two attempts reach both a retry and giving
up, and a second payment beside an expired first one. Amounts are chosen so
that the requests together ask for more than there is. Three transactions on
one family make a chain of waits. Symmetry is used only where no liveness is
checked and only over ids that nothing orders. Deadlock is not checked: every
instance may come to rest when all work is done.

### Fairness

Timers fire, processes are restarted and started work goes on: the steps of a
worker, request, pass, publication or started transaction are weakly fair, and
so are time (`Clock`, `Age`, expiry of leases nobody renews) and the provider's
decisions and deliveries. Strongly fair (`Retried` in `MCProgress`) is what
comes round again and again but is not always enabled: the recovery and event
jobs and the sweeps, the pulled list, the end of a pass, redelivered events, row
locks (Postgres grants them in the order of the requests), the publication lease
for the drain, which ticks for ever. Faults are bounded, not fair: a system that
crashes for ever promises nothing. Nothing makes a shopper, an operator,
`stop()` or maintenance act.

### Findings

1. Not-ready retries are documented as not counted against `MAX_ATTEMPTS`, but
   each claim counts, and an ordinary failure afterwards finds the budget gone
   (`effects.ts` 63, 184).
2. The execution contract says a later rank is never claimed while an earlier
   one is open; inline execution does so when an earlier handler answers retry
   (`effects.ts` 27, 141).
3. A failed Sezzle attempt stops an order from ever being quiescent, because
   nothing writes `context.recovery.authorization_released`; a cancelled order
   keeps its reservation until an operator overrides it (`reservation.ts` 87).
4. An edit whose refund request was lost before it was recorded can be refunded
   twice: once by a later edit or a retry, once by a replay of its commit
   (`order-edit-service.ts` 1230, 1231).
5. A Stripe intent that was declined and then succeeds after another gateway
   paid the order is in no payment row and raises no alert: the duplicate insert
   meets the Declined row of the same reference (`stripe-reconcile.ts` 254, 261).

Met while modelling and reproduced with TLC on scratch instances, without a run
of their own here: the modules keep the code's behaviour, and where a property
needs it the scenario leaves the case out or the property is conditioned.

- A pass queued before maintenance was switched on starts and writes during it
  (`jobs/scheduler.ts` 120, 124).
- A claim older than ten minutes is taken over while its pass still works
  through the batch: two drains hand the same row over (`email/outbox.ts` 95,
  `email/wake.ts` 7).
- An unstamped dashboard refund of the same amount is bound to a request in
  flight; one of two provider refunds is then in no row
  (`payments/webhook-reconcile.ts` 262).
- A discovery hold is never cleared once an event has tracked the intent, and a
  `processing` event behind `payment_failed` takes the order out of the sweeps
  (`payments/stripe-reconcile.ts` 728, 290).
- A refund that settles before the deferred earning reverses nothing
  (`settlement/handlers.ts` 93); two orders paid before either bonus effect ran
  disqualify each other (`loyalty/bonus.ts` 116).
- Releasing a pre-ordered line after the launch gives back the allocation of
  other orders (`orders/cancel-unpaid.ts` 72); a restock counts units that were
  cancelled before they shipped (`payments/refunds.ts` 125); location writes
  leave no movement and a transfer can drive its source negative
  (`routes/admin-catalog.ts` 296, 321).
- A checkout repeated with its key after its cart was reopened and changed is
  answered with the cancelled order (`routes/checkout.ts` 122, 82); a reopened
  cart is converted again, against "one cart, one order, always" (436).
- The replay of an edit overwrites a retried refund with the failed one
  (`order-edit-service.ts` 1478).
- Old leases survive reactivation and renewal, generations restart at 0 after a
  deactivation, pre-pool rows escape the pool cap, a renewal revives removed
  devices over the cap (`licensing/activations.ts` 178, 275,
  `device-leases.ts` 162, `storekit-license.ts` 403, 404).
- A retried issuance issues keys for unpaid units of an edit
  (`settlement/handlers.ts` 210), in deferred mode or after a policy could not
  answer the Paid transition; a revoked key still counts against a unit paid
  later (`licensing/issue.ts` 60).
- A process that dies between commit and marker loses the trigger; a paused
  publisher replaces a newer generation; a stock publication clears the marker
  of a failed content purge (`manifest/stock-hook.ts` 145, 178,
  `manifest/publish.ts` 311).
- The purge of an order with a staged edit leaves the added units allocated
  (`orders/purge.ts` 88); a chargeback or shipment before the money of the edit
  settles leaves the stage and its reservation (`order-edit-service.ts` 1054).
- Clean-up by a publisher that lost its lease can delete the current generation
  (`manifest/publish.ts` 287), and generations are aged by their making, not by
  their being superseded (293).

## 5. Proofs

The theorems hold for every set of rows, workers, messages and processes and
every value of the bounds. Each module assumes only what its constants mean:
kinds or channels are disjoint, bounds are numbers, a placeholder is not an id
(`GatewayAssumption`, `JobsAssumption`, `RowsAssumption`, `CartAssumption`,
`CreditAssumption`, ...); TLC evaluates these assumptions on every instance of the runs. TLC checked
every inductive invariant below on small instances before it was proved.

**`PendingEffectsProofs`.** The fence compares a token with the row, and that
says something only if tokens are unique. `Inv` therefore adds that no worker
holds a token the row has not issued (`HeldBound`), that two workers never hold
the same one (`ClaimsDistinct`), that a worker past the fence is where its row
says it is (`Cursor`), that an operation that was not recorded has no rows
(`Unrecorded`), and that only local effects are held (`HeldIsLocal`). From it
follow `TypeCorrect`, `ExactlyOnce`, `ReceiptsAgree`, `HolderSafe`,
`NoSilentTerminal` and the action property `OwnerAlone`. `Refinement` maps initial states and steps to
those of `EffectContract`; the heart is `RowSteps`, what any step may do to a
row. `RankOrder` needs `RankInv`: once a deferred effect has been begun, no
earlier sibling is open unless a review was raised on the operation.

**`GatewayPaymentProofs`.** Every safety property of the gateway run:
`TypeCorrect`, `MoneyIsAccounted`, `LedgerAgrees`, `PaidKeepsGoods`,
`ChargesAreOwed`, `ReleasedHoldsAreSafe`, `SettlementIsFinal`,
`CaptureDecisionIsFinal`. None is inductive. `IInv` adds what the code relies on
without saying so: an attempt that was not started has left no trace and the
tries of one run out exactly when it becomes manual (`AttemptInv`); what is known
at each step of the holder of the `pay:` lock and of the recovery job (`FlowInv`,
`PlanInv`); that a result about to be recorded is true at the provider
(`ResultInv`); that goods and hold are given back only by a cancel
(`BooksInv`); and that of two attempts one is over for the provider, unless its
session was declared expired (`ProviderInv`), which is what "one active attempt
per order" means outside the database.

**`BackgroundProofs`.** `LeaseFencing`: a transaction that passed
`assertLeasesHeld` keeps its lease row until it commits and is alone there, so a
stale leader never commits behind a later one. The invariants say that no two
passes have the same token (`TokensApart`) and that a lease row that is there
carries one at least as late as the latest commit (`TokenInv`). `AdmissionOrder`
counts: a lane holds at most its slots, and a queue beside a free slot is empty;
it needs cardinality lemmas for the passes of a lane, and that nobody waits twice.
`PublishedIsWhole` is about the catalog directory. That it serves one store needs
no lease: `owner.json` is created exclusively, so everything the pointer named was
made by the store that owns the directory (`OwnerInv`), and a torn file admits
nobody. While no lease was lost
there is one publisher past its claim, what it read as the previous generation is
still current when it cleans up, and what it staged is whole and synced before the
pointer moves (`PublishInv`); a request never resolves a generation that is still
staged, so only the cleanup takes its files, and only of old ones (`ReadInv`).
After a lost lease the pointer can dangle (section 4, last item).

**`LedgersProofs`, lock sets.** `VerifiedSetsHold`: a plan is read before anything is
locked, so it says nothing by itself. Children of an order are inserted only by
the holder of the order row, so from the moment a transaction has the row the
family stands still and the plan read again under it is complete. `PhaseOf` says
what each phase holds and has verified, `RowsFor` and `BornOf` that nothing
invisible is held and uncommitted inserts belong to one holder. `WaitsGoUp`: the
rows a transaction has still to lock for its own set lie above those it holds
(`UpwardOf`), so one that is waited for asks for a higher row than the one it is
waited for. A helper that asks for a further set inside does not keep the order:
a circle goes through such a helper, and Postgres ends it.

**`OutboxDeliveryProofs`.** `ClaimsDecideOutcome`: a row is settled as sent only
under its latest attempt number, a dead email is announced once, without crashes
and slow claims nobody gets a message twice, and final states stay. `FlowInv`
ties what a pass is at to its claim and to what the provider accepted under it;
`QuietInv` says that without faults a claim is exclusive.

**`CartCheckoutProofs`.** `CheckoutAgrees` and `ConvertedIsFrozen`. A row changes
its units only with its revision (`RowMoves`), so a tab whose revision is still
the row's has seen its units (`ViewOK`): that is why an order is for what was
shown. An order is live only while its cart is converted to it (`OrderOK`), a
cart points only to an order of its own (`CartOK`), an answer is an order of the
tab's own cart (`ClientOK`). `UnitsConserved`, that no append, merge, conversion, reopen or
clean-up loses or doubles a unit, is part of `CheckoutAgrees`: a sum over the rows
moves by what the written rows change.

**`StripeIntentsProofs`.** `ReleasedOrdersAreSafe`: an order is cancelled or
resolved as unpaid only when no intent of it can take money any more, or has.
The decision rests on what the sweep saw earlier, outside any lock, so the
invariant says what of it cannot become false: which intents at Stripe the
database knows (`Known`), what a tracked attempt says about its intent (`Row`),
what a snapshot still means when it is used (`Snapshots`), that `/pay` records
what it confirmed (`PayOK`), and that a released order stays without a live
intent (`Released`). `MismatchesAreAlerted` and `SettlementStays` follow from the
same invariant. One hypothesis restricts the instances, `LegacyAssumption`: when
there is an intent from before tracking, nothing mints another one and an edit
does not meet a lost lock. It is needed: one tracked attempt satisfies
`unpaidCancellablePredicate`, and then the search for untracked intents is never
made.

**`LedgersProofs`, order edits.** `EditsSettle`. That no credit is refunded twice is not
inductive: a replay issues the refund of a stored balance, whatever is owed by
then. Until a refund is lost it is safe because the refund of a commit is recorded
before the locks are let go (`Recorded`), and what the holder of the locks is about
to reserve is owed and still there (`Covered`). After a loss it is false, finding
4; that edits are in the total once, at the balance that was accepted, and that
refunds stay within the payment is proved without the condition. A sum is shown
to be the number of its units, the positive ones less the negative ones
(`SumIsCount`); cardinality theorems then say what a write does to it
(`SumWrite`).

**`AccountCreditProofs`.** `CreditIsCovered`: an order that is not redeemed holds
exactly its allocation from checkout to settlement, also when the posting behind
the savepoint fails (`HoldInv`); a new hold is at most what is available and a
restoration only adds to the balance. `UnitsAreGivenBackOnce`: that a unit is
given back once is inductive only together with what the refunds still to settle
will take. Refunds with a frozen identity froze different units, and none of
these is among the lowest free units that the refunds without one will take when
they settle (`FrozenAt`); a posting that takes the lowest units brings the others
down by as many places as its own quantity leaves the reservation
(`FirstTakeLow`), one from above moves nothing (`FirstTakeHigh`). For an order
this ends when a refund that had failed settles after all: its units may be gone,
the ledger then refuses it, and what stays proved is that no unit is given back
twice and none below zero (`Sound`). While an accepted edit waits for its money
its order is quiet (`EditAt`).

### Only model-checked

- Liveness (`Progress`): the prover has no rules for fairness or ENABLED.
- `RefundsBalance`, `PointsBalance`, `UnitsAddUp` and the ledger sums of
  `CapturesAccounted`. Where a sum is over a finite set it can be reasoned about
  without induction, by the least counterexample of a well-founded relation
  (`WFMin`), as `CartCheckoutProofs`, `LedgersProofs` and `AccountCreditProofs` do. What a recursive definition computes (the replay of the
  points by lots) cannot: the induction
  theorems take an operator, which the installed provers do not instantiate.
- `LicenseDevices`, `LicenseIssuance`, `StockHook`, `Refunds`: no theorem. Their
  safety properties could be proved by the same means.

## 6. Plan

Next for the proofs: `SeatsWithinCap` and `LeaseOfThisAdmission` of
`LicenseDevices` and `NoTriggerLost` of `StockHook`, whose invariants follow the
same pattern (what each phase of an actor has seen and still holds); a refinement of `OutboxDelivery` to "sent at least
once, or dead and announced". Next for the
models: the settlement record as one operation per fact (`record.ts`, `ops.ts`),
authentication challenges, and the composition of `Refunds` with `OrderEdits`,
which today meet only in the abstract refund step of the latter.

## 7. Not modelled

Authentication and sessions, pricing, tax and promotions, disputes, reviews,
feeds, SEO, waitlist and imports, the admin application, the storefront, the
client and the iOS application. These are most of the 174,000 lines of the
repository: user interfaces and data transformation, single-transaction reads
and writes without a protocol between actors. The map covers the parts of
`packages/api/src` where there is one.

In the modelled parts the following is left out: the mutation union and the
per-kind effect policy of `record.ts` and `ops.ts`; operator resolutions of
terminal effects; balance payments of edited orders and imported orders; gateway
events other than a capture; a `pay:` lock lost by a holder that lives on (it is
in `StripeIntents`); and what the table of section 3 says. Audit rows and alert
mails are kept only where a property counts them.
