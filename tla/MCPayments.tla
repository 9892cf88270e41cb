---------------------------- MODULE MCPayments -----------------------------
(***************************************************************************)
(* Stripe intents, refunds and the outboxes for TLC: StripeIntents,        *)
(* Refunds and OutboxDelivery, each on the instances that make its hard    *)
(* cases happen.  A behaviour stays in the scenario it starts in: the      *)
(* variables of the other modules are parked, those of OutboxDelivery in   *)
(* its initial state.                                                      *)
(*                                                                         *)
(* Refunds a and b are requests, d is made at the provider's dashboard;    *)
(* together they ask for more than the payment.                            *)
(***************************************************************************)
EXTENDS OutboxDelivery, TLC

VARIABLES scenario,
    order, refund, recorded, provider, events, lock, flow, pull, returned, reversed, other,
    disc, pre, att, tries, ledger, alerts, claims, pi, secret

others == <<order, refund, recorded, provider, events, lock, flow, pull, returned, reversed,
            other, disc, pre, att, tries, ledger, alerts, claims, pi, secret>>
allVars == <<scenario, others, vars>>

\* Stripe refunds: events answer late, twice and out of order.
Stripe == INSTANCE Refunds WITH
    Requests <- {"a", "b"}, Edits <- {}, Dashboard <- {"d"}, Duplicate <- {},
    Amount <- ("a" :> 1) @@ ("b" :> 2) @@ ("d" :> 1), Units <- ("a" :> 1) @@ ("b" :> 0),
    Captured <- ("main" :> 3) @@ ("duplicate" :> 3), Quantity <- 2, Method <- "stripe"
\* Sezzle refunds: no events, the list of refunds is pulled.
Sezzle == INSTANCE Refunds WITH
    Requests <- {"a", "b"}, Edits <- {}, Dashboard <- {"d"}, Duplicate <- {},
    Amount <- ("a" :> 1) @@ ("b" :> 2) @@ ("d" :> 1), Units <- ("a" :> 1) @@ ("b" :> 0),
    Captured <- ("main" :> 3) @@ ("duplicate" :> 3), Quantity <- 2, Method <- "sezzle"
\* A duplicate capture is refunded beside the difference of an edit.
EditRefunds == INSTANCE Refunds WITH
    Requests <- {"a", "b"}, Edits <- {"b"}, Dashboard <- {"d"}, Duplicate <- {"a"},
    Amount <- ("a" :> 2) @@ ("b" :> 1) @@ ("d" :> 1), Units <- ("a" :> 0) @@ ("b" :> 0),
    Captured <- ("main" :> 3) @@ ("duplicate" :> 3), Quantity <- 2, Method <- "stripe"
\* Three requests on a payment without a provider.
Internal == INSTANCE Refunds WITH
    Requests <- {"a", "b", "d"}, Edits <- {}, Dashboard <- {}, Duplicate <- {},
    Amount <- ("a" :> 1) @@ ("b" :> 2) @@ ("d" :> 2),
    Units <- ("a" :> 1) @@ ("b" :> 0) @@ ("d" :> 0),
    Captured <- ("main" :> 3) @@ ("duplicate" :> 3), Quantity <- 2, Method <- "internal"

\* The sweeper meets outages, failed searches and crashes.
Sweep == INSTANCE StripeIntents WITH
    Amounts <- {1}, Rounds <- 1, Legacy <- FALSE, Async <- FALSE, OtherGateway <- FALSE,
    Edits <- FALSE, LockDrops <- FALSE, Outages <- TRUE, SearchFails <- TRUE,
    JobCrashes <- TRUE, MaxTries <- 1, Actors <- {"mint", "pull", "sweep"}
\* The mint loop replaces an intent while the sweeper runs.
Mints == INSTANCE StripeIntents WITH
    Amounts <- {1}, Rounds <- 2, Legacy <- FALSE, Async <- FALSE, OtherGateway <- FALSE,
    Edits <- FALSE, LockDrops <- FALSE, Outages <- FALSE, SearchFails <- FALSE,
    JobCrashes <- TRUE, MaxTries <- 1, Actors <- {"mint", "sweep"}
\* An intent from before attempts were tracked; the cart is reopened.
Discovery == INSTANCE StripeIntents WITH
    Amounts <- {1}, Rounds <- 1, Legacy <- TRUE, Async <- FALSE, OtherGateway <- FALSE,
    Edits <- FALSE, LockDrops <- FALSE, Outages <- FALSE, SearchFails <- TRUE,
    JobCrashes <- TRUE, MaxTries <- 1, Actors <- {"pull", "sweep", "retire"}
\* Mint, /pay, pull and sweep side by side, with asynchronous methods.
Pay == INSTANCE StripeIntents WITH
    Amounts <- {1}, Rounds <- 1, Legacy <- FALSE, Async <- TRUE, OtherGateway <- FALSE,
    Edits <- FALSE, LockDrops <- FALSE, Outages <- FALSE, SearchFails <- FALSE,
    JobCrashes <- FALSE, MaxTries <- 1, Actors <- {"mint", "pay", "pull", "sweep"}
\* An edit reprices the unpaid order.
Edited == INSTANCE StripeIntents WITH
    Amounts <- {1, 2}, Rounds <- 1, Legacy <- FALSE, Async <- FALSE, OtherGateway <- FALSE,
    Edits <- TRUE, LockDrops <- FALSE, Outages <- FALSE, SearchFails <- FALSE,
    JobCrashes <- FALSE, MaxTries <- 1, Actors <- {"mint", "retire"}
\* The same when the connection of the pay: lock drops.
Repriced == INSTANCE StripeIntents WITH
    Amounts <- {1, 2}, Rounds <- 1, Legacy <- FALSE, Async <- FALSE, OtherGateway <- FALSE,
    Edits <- TRUE, LockDrops <- TRUE, Outages <- FALSE, SearchFails <- FALSE,
    JobCrashes <- FALSE, MaxTries <- 1, Actors <- {"mint"}
\* Another gateway captures the order, and the lock may drop.
Gateways == INSTANCE StripeIntents WITH
    Amounts <- {1}, Rounds <- 1, Legacy <- FALSE, Async <- FALSE, OtherGateway <- TRUE,
    Edits <- FALSE, LockDrops <- TRUE, Outages <- FALSE, SearchFails <- FALSE,
    JobCrashes <- FALSE, MaxTries <- 1, Actors <- {"mint", "pay"}

\* Value of the variables the chosen scenario does not use.
Parked == 0

\* Batches of one message.
Single == INSTANCE OutboxDelivery WITH BatchLimit <- 1, MaxSlow <- 0
\* The channels a scenario does not use, and the passes it does not run.
Silent(chs, ps) ==
    /\ \A ch \in chs : leader[ch] = None /\ \A m \in Of(ch) : row[m] = NoRow
    /\ "push" \in chs => registered = Pushes
    /\ \A p \in ps : pass[p] = IdlePass

\* The scheduled drain and the waker share the email outbox; or two scheduled
\* passes deliver webhooks and pushes.
StaysIn == /\ scenario = "mail" => Silent({"webhook", "push"}, {"s2"})
           /\ scenario = "channels" => Silent({"email"}, Wakers)

AllInit ==
    \/ /\ order = Parked /\ refund = Parked /\ recorded = Parked /\ provider = Parked
       /\ events = Parked /\ lock = Parked /\ flow = Parked /\ pull = Parked
       /\ returned = Parked /\ reversed = Parked /\ other = Parked /\ disc = Parked
       /\ pre = Parked /\ att = Parked /\ tries = Parked /\ ledger = Parked /\ alerts = Parked
       /\ claims = Parked /\ pi = Parked /\ secret = Parked
       /\ scenario \in {"mail", "channels"}
       /\ Init /\ StaysIn
    \/ /\ other = Parked /\ disc = Parked /\ pre = Parked /\ att = Parked /\ tries = Parked
       /\ ledger = Parked /\ alerts = Parked /\ claims = Parked /\ pi = Parked
       /\ secret = Parked /\ Init
       /\ \/ scenario = "stripe" /\ Stripe!Init
          \/ scenario = "sezzle" /\ Sezzle!Init
          \/ scenario = "edit refunds" /\ EditRefunds!Init
          \/ scenario = "internal" /\ Internal!Init
    \/ /\ refund = Parked /\ recorded = Parked /\ provider = Parked /\ pull = Parked
       /\ returned = Parked /\ reversed = Parked /\ Init
       /\ \/ scenario = "sweep" /\ Sweep!Init
          \/ scenario = "mints" /\ Mints!Init
          \/ scenario = "discovery" /\ Discovery!Init
          \/ scenario = "pay" /\ Pay!Init
          \/ scenario = "edited" /\ Edited!Init
          \/ scenario = "repriced" /\ Repriced!Init
          \/ scenario = "gateways" /\ Gateways!Init

AllNext ==
    \/ /\ UNCHANGED <<scenario, others>>
       /\ \/ scenario = "mail" /\ Next
          \/ scenario = "channels" /\ Single!Next
       /\ StaysIn'
    \/ /\ UNCHANGED <<scenario,
           vars, other, disc, pre, att, tries, ledger, alerts, claims, pi, secret>>
       /\ \/ scenario = "stripe" /\ Stripe!Next
          \/ scenario = "sezzle" /\ Sezzle!Next
          \/ scenario = "edit refunds" /\ EditRefunds!Next
          \/ scenario = "internal" /\ Internal!Next
    \/ /\ UNCHANGED <<scenario, vars, refund, recorded, provider, pull, returned, reversed>>
       /\ \/ scenario = "sweep" /\ Sweep!Next
          \/ scenario = "mints" /\ Mints!Next
          \/ scenario = "discovery" /\ Discovery!Next
          \/ scenario = "pay" /\ Pay!Next
          \/ scenario = "edited" /\ Edited!Next
          \/ scenario = "repriced" /\ Repriced!Next
          \/ scenario = "gateways" /\ Gateways!Next

AllSpec == AllInit /\ [][AllNext]_allVars

-----------------------------------------------------------------------------
ASSUME /\ Stripe!KindsAssumption /\ Stripe!AmountsAssumption /\ Sezzle!KindsAssumption
       /\ EditRefunds!KindsAssumption /\ EditRefunds!AmountsAssumption
       /\ Internal!KindsAssumption /\ Internal!AmountsAssumption
       /\ Sweep!BoundsAssumption /\ Mints!BoundsAssumption /\ Discovery!BoundsAssumption
       /\ Pay!BoundsAssumption /\ Edited!BoundsAssumption /\ Repriced!BoundsAssumption
       /\ Gateways!BoundsAssumption /\ ChannelsDisjoint /\ BoundsAssumption
       /\ Single!BoundsAssumption

\* Bound: where the lock drops under an edit the order stays too young for the sweeps.
Young == scenario = "repriced" => ~order.old

\* Refunds: what requests reserve never exceeds the payment or the billed
\* units; a provider refund settles one row with its own amount, however its
\* answer, its events and the pulled list overlap; goods come back once; the
\* order's state follows the books; what is settled stays settled.
RefundsBalance ==
    /\ [](scenario = "stripe" => /\ Stripe!TypeOK /\ Stripe!SettledOnce
                                 /\ Stripe!GoodsReturnedOnce /\ Stripe!StateFollowsBooks)
    /\ [](scenario = "sezzle" => Sezzle!SettledOnce /\ Sezzle!StateFollowsBooks)
    /\ [](scenario = "edit refunds" => EditRefunds!SettledOnce /\ EditRefunds!StateFollowsBooks)
    /\ [](scenario = "internal" => Internal!ReservedWithinCaptured)
    /\ [][scenario = "stripe" => Stripe!SettledStays]_allVars

\* Stripe captures: no order is released for non-payment while an intent of it
\* can still take money; one whose attempt is closed is on the ledger; an edit never
\* strands an intent at a price that is no longer due; a capture that does not
\* match what is due is put before an operator; money beyond the price, or on a
\* cancelled order, is flagged; recorded money and a final order state stay.
CapturesAccounted ==
    /\ [](scenario \in {"sweep", "mints", "discovery", "pay"} => Sweep!NoMoneyAfterRelease)
    /\ [](scenario = "mints" => Mints!CaptureRecorded)
    /\ [](scenario = "pay" => Pay!TypeOK /\ Pay!CaptureRecorded)
    /\ [](scenario = "edited" => Edited!NothingStranded)
    /\ [](scenario = "repriced" => Repriced!MismatchAlerted)
    /\ [](scenario = "gateways" => Gateways!ExcessFlagged)
    /\ [][scenario = "pay" => Pay!SettledStays]_allVars
=============================================================================
