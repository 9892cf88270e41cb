---------------------------- MODULE MCProgress -----------------------------
(***************************************************************************)
(* What must happen in the end, for TLC: one small instance of each module *)
(* that works off something by itself, under the fairness its scheduling   *)
(* gives.  A behaviour stays in the scenario it starts in and parks the    *)
(* variables of the other modules, those of StripeIntents in its initial   *)
(* state.  In the scenario "stale" the shopper abandons an order while     *)
(* calls to Stripe fail.                                                   *)
(***************************************************************************)
EXTENDS StripeIntents, TLC

VARIABLES scenario,
    mode, eff, review, receipt, provider, runs, batch, pc, cur, faults, gwOrder, goods, prepaid,
    paid, flagged, gwAtt, pay, prov, ev, gwFlow, plan, hold, expired, refOrder, refund,
    recorded, refEvents, refLock, refFlow, pull, returned, reversed, pass, queue, stopped,
    maintenance, lease, issued, token, lost, committed, row, leader, registered, accepted,
    carriers, announced, crashes, slow, placed, parent, holder, subject, inner, innerPlan, todo,
    born, attempt, transient, ver, html, tasks, marker, clock, trailing, run, current, edge, up,
    changes, fails, orphaned, unpurged, best, overtaken

others == <<mode, eff, review, receipt, provider, runs, batch, pc, cur, faults, gwOrder, goods,
            prepaid, paid, flagged, gwAtt, pay, prov, ev, gwFlow, plan, hold, expired, refOrder,
            refund, recorded, refEvents, refLock, refFlow, pull, returned, reversed, pass,
            queue, stopped, maintenance, lease, issued, token, lost, committed, row, leader,
            registered, accepted, carriers, announced, crashes, slow, placed, parent, holder,
            subject, inner, innerPlan, todo, born, attempt, transient, ver, html, tasks, marker,
            clock, trailing, run, current, edge, up, changes, fails, orphaned, unpurged, best,
            overtaken>>
allVars == <<scenario, others, vars>>

\* One operation and two workers, of which w2 lacks the external handler.
Effects == INSTANCE PendingEffects WITH
    Ops <- {"o1"}, LocalKinds <- {"edit_reconcile"}, ExternalKinds <- {"notification"},
    Workers <- {"w1", "w2"},
    Registered <- ("w1" :> {"edit_reconcile", "notification"}) @@ ("w2" :> {"edit_reconcile"}),
    MaxAttempts <- 2, BatchLimit <- 2, MaxNotReady <- 0, MaxFaults <- 1
\* One worker and an effect that is not ready until its horizon.
Gated == INSTANCE PendingEffects WITH
    Ops <- {"o1"}, LocalKinds <- {"edit_reconcile"}, ExternalKinds <- {"notification"},
    Workers <- {"w1"}, Registered <- ("w1" :> {"edit_reconcile", "notification"}),
    MaxAttempts <- 1, BatchLimit <- 2, MaxNotReady <- 1, MaxFaults <- 1

\* One payment attempt; its process may die at any step.
Gateway == INSTANCE GatewayPayment WITH
    Attempts <- {"a1"}, Methods <- {"nmi", "sezzle"}, Reservable <- FALSE, Total <- 1,
    MaxTries <- 2, MaxEventTries <- 1, MaxFaults <- 1, order <- gwOrder, att <- gwAtt,
    flow <- gwFlow

\* Sezzle refunds: no events, the list of refunds is pulled.
Sezzle == INSTANCE Refunds WITH
    Requests <- {"a", "b"}, Edits <- {}, Dashboard <- {"d"}, Duplicate <- {},
    Amount <- ("a" :> 1) @@ ("b" :> 2) @@ ("d" :> 1), Units <- ("a" :> 1) @@ ("b" :> 0),
    Captured <- ("main" :> 3) @@ ("duplicate" :> 3), Quantity <- 2, Method <- "sezzle",
    order <- refOrder, events <- refEvents, lock <- refLock, flow <- refFlow

\* Two jobs in one lane of one slot.
Scheduler == INSTANCE JobScheduler WITH
    Procs <- {"p1"}, Jobs <- {"feeds", "reports"}, Critical <- {}, Slots <- 1, MaxTokens <- 2,
    MaxFaults <- 0
\* One job whose process may die, and whose statements may get lost.
Leases == INSTANCE JobScheduler WITH
    Procs <- {"p1"}, Jobs <- {"feeds"}, Critical <- {}, Slots <- 1, MaxTokens <- 2,
    MaxFaults <- 1

\* A message in each channel and a pass that may die.
Outbox == INSTANCE OutboxDelivery WITH
    Emails <- {"e1"}, Webhooks <- {"w1"}, Pushes <- {"p1"}, Scheduled <- {"s1"}, Wakers <- {},
    BatchLimit <- 1, MaxAttempts <- 1, MaxCrashes <- 1, MaxSlow <- 0

\* A transaction that records moved money beside another one.
Locks == INSTANCE LockSets WITH
    Licences <- {1}, Orders <- {2, 3}, Reservations <- {4}, Tx <- {"t1", "t2"},
    MustCommit <- {"t1"}, Bare <- {}, MaxRestarts <- 1, InTx <- FALSE, NoTx <- "none"

\* Stock changes while the process that publishes them may die.
Hook == INSTANCE StockHook WITH
    Procs <- {"q1"}, Products <- {"p1"}, Kinds <- {"stock"}, MaxChanges <- 2, MaxFails <- 0,
    MaxCrashes <- 1, LeaseLoss <- FALSE
\* Stock changes while a publication may fail.
Failing == INSTANCE StockHook WITH
    Procs <- {"q1"}, Products <- {"p1"}, Kinds <- {"stock"}, MaxChanges <- 2, MaxFails <- 1,
    MaxCrashes <- 0, LeaseLoss <- FALSE

\* Value of the variables the chosen scenario does not use.
Parked == 0

\* What a scenario leaves alone: the variables its module does not have.
besidePendingEffects == <<scenario,
    vars, gwOrder, goods, prepaid, paid, flagged, gwAtt, pay, prov, ev, gwFlow, plan, hold,
    expired, refOrder, refund, recorded, refEvents, refLock, refFlow, pull, returned, reversed,
    pass, queue, stopped, maintenance, lease, issued, token, lost, committed, row, leader,
    registered, accepted, carriers, announced, crashes, slow, placed, parent, holder, subject,
    inner, innerPlan, todo, born, attempt, transient, ver, html, tasks, marker, clock, trailing,
    run, current, edge, up, changes, fails, orphaned, unpurged, best, overtaken>>

besideGatewayPayment == <<scenario,
    vars, mode, eff, review, receipt, provider, runs, batch, pc, cur, refOrder, refund,
    recorded, refEvents, refLock, refFlow, pull, returned, reversed, pass, queue, stopped,
    maintenance, lease, issued, token, lost, committed, row, leader, registered, accepted,
    carriers, announced, crashes, slow, placed, parent, holder, subject, inner, innerPlan, todo,
    born, attempt, transient, ver, html, tasks, marker, clock, trailing, run, current, edge, up,
    changes, fails, orphaned, unpurged, best, overtaken>>

besideRefunds == <<scenario,
    vars, mode, eff, review, receipt, runs, batch, pc, cur, faults, gwOrder, goods, prepaid,
    paid, flagged, gwAtt, pay, prov, ev, gwFlow, plan, hold, expired, pass, queue, stopped,
    maintenance, lease, issued, token, lost, committed, row, leader, registered, accepted,
    carriers, announced, crashes, slow, placed, parent, holder, subject, inner, innerPlan, todo,
    born, attempt, transient, ver, html, tasks, marker, clock, trailing, run, current, edge, up,
    changes, fails, orphaned, unpurged, best, overtaken>>

besideJobScheduler == <<scenario,
    vars, mode, eff, review, receipt, provider, runs, batch, pc, cur, gwOrder, goods, prepaid,
    paid, flagged, gwAtt, pay, prov, ev, gwFlow, plan, hold, expired, refOrder, refund,
    recorded, refEvents, refLock, refFlow, pull, returned, reversed, row, leader, registered,
    accepted, carriers, announced, crashes, slow, placed, parent, holder, subject, inner,
    innerPlan, todo, born, attempt, transient, ver, html, tasks, marker, clock, trailing, run,
    current, edge, up, changes, fails, orphaned, unpurged, best, overtaken>>

besideOutboxDelivery == <<scenario,
    vars, mode, eff, review, receipt, provider, runs, pc, cur, faults, gwOrder, goods, prepaid,
    paid, flagged, gwAtt, pay, prov, ev, gwFlow, plan, hold, expired, refOrder, refund,
    recorded, refEvents, refLock, refFlow, pull, returned, reversed, queue, stopped,
    maintenance, lease, issued, token, lost, committed, placed, parent, holder, subject, inner,
    innerPlan, todo, born, attempt, transient, ver, html, tasks, marker, clock, trailing, run,
    current, edge, up, changes, fails, orphaned, unpurged, best, overtaken>>

besideLockSets == <<scenario,
    vars, mode, eff, review, receipt, provider, runs, batch, cur, faults, gwOrder, goods,
    prepaid, paid, flagged, gwAtt, pay, prov, ev, gwFlow, hold, expired, refOrder, refund,
    recorded, refEvents, refLock, refFlow, pull, returned, reversed, pass, queue, stopped,
    maintenance, lease, issued, token, lost, committed, row, leader, registered, accepted,
    carriers, announced, crashes, slow, ver, html, tasks, marker, clock, trailing, run, current,
    edge, up, changes, fails, orphaned, unpurged, best, overtaken>>

besideStockHook == <<scenario,
    vars, mode, eff, review, receipt, provider, runs, batch, pc, cur, faults, gwOrder, goods,
    prepaid, paid, flagged, gwAtt, pay, prov, ev, gwFlow, plan, hold, expired, refOrder, refund,
    recorded, refEvents, refLock, refFlow, pull, returned, reversed, pass, queue, stopped,
    maintenance, issued, token, lost, committed, row, leader, registered, accepted, carriers,
    announced, slow, placed, parent, holder, subject, inner, innerPlan, todo, born, attempt,
    transient>>

AllInit ==
    \/ /\ mode = Parked /\ eff = Parked /\ review = Parked /\ receipt = Parked
       /\ provider = Parked /\ runs = Parked /\ batch = Parked /\ pc = Parked /\ cur = Parked
       /\ faults = Parked /\ gwOrder = Parked /\ goods = Parked /\ prepaid = Parked
       /\ paid = Parked /\ flagged = Parked /\ gwAtt = Parked /\ pay = Parked /\ prov = Parked
       /\ ev = Parked /\ gwFlow = Parked /\ plan = Parked /\ hold = Parked /\ expired = Parked
       /\ refOrder = Parked /\ refund = Parked /\ recorded = Parked /\ refEvents = Parked
       /\ refLock = Parked /\ refFlow = Parked /\ pull = Parked /\ returned = Parked
       /\ reversed = Parked /\ pass = Parked /\ queue = Parked /\ stopped = Parked
       /\ maintenance = Parked /\ lease = Parked /\ issued = Parked /\ token = Parked
       /\ lost = Parked /\ committed = Parked /\ row = Parked /\ leader = Parked
       /\ registered = Parked /\ accepted = Parked /\ carriers = Parked /\ announced = Parked
       /\ crashes = Parked /\ slow = Parked /\ placed = Parked /\ parent = Parked
       /\ holder = Parked /\ subject = Parked /\ inner = Parked /\ innerPlan = Parked
       /\ todo = Parked /\ born = Parked /\ attempt = Parked /\ transient = Parked
       /\ ver = Parked /\ html = Parked /\ tasks = Parked /\ marker = Parked /\ clock = Parked
       /\ trailing = Parked /\ run = Parked /\ current = Parked /\ edge = Parked /\ up = Parked
       /\ changes = Parked /\ fails = Parked /\ orphaned = Parked /\ unpurged = Parked
       /\ best = Parked /\ overtaken = Parked
       /\ scenario = "stale"
       /\ Init
    \/ /\ gwOrder = Parked /\ goods = Parked /\ prepaid = Parked /\ paid = Parked
       /\ flagged = Parked /\ gwAtt = Parked /\ pay = Parked /\ prov = Parked /\ ev = Parked
       /\ gwFlow = Parked /\ plan = Parked /\ hold = Parked /\ expired = Parked
       /\ refOrder = Parked /\ refund = Parked /\ recorded = Parked /\ refEvents = Parked
       /\ refLock = Parked /\ refFlow = Parked /\ pull = Parked /\ returned = Parked
       /\ reversed = Parked /\ pass = Parked /\ queue = Parked /\ stopped = Parked
       /\ maintenance = Parked /\ lease = Parked /\ issued = Parked /\ token = Parked
       /\ lost = Parked /\ committed = Parked /\ row = Parked /\ leader = Parked
       /\ registered = Parked /\ accepted = Parked /\ carriers = Parked /\ announced = Parked
       /\ crashes = Parked /\ slow = Parked /\ placed = Parked /\ parent = Parked
       /\ holder = Parked /\ subject = Parked /\ inner = Parked /\ innerPlan = Parked
       /\ todo = Parked /\ born = Parked /\ attempt = Parked /\ transient = Parked
       /\ ver = Parked /\ html = Parked /\ tasks = Parked /\ marker = Parked /\ clock = Parked
       /\ trailing = Parked /\ run = Parked /\ current = Parked /\ edge = Parked /\ up = Parked
       /\ changes = Parked /\ fails = Parked /\ orphaned = Parked /\ unpurged = Parked
       /\ best = Parked /\ overtaken = Parked /\ Init
       /\ \/ scenario = "effects" /\ Effects!Init
          \/ scenario = "gated" /\ Gated!Init
    \/ /\ mode = Parked /\ eff = Parked /\ review = Parked /\ receipt = Parked
       /\ provider = Parked /\ runs = Parked /\ batch = Parked /\ pc = Parked /\ cur = Parked
       /\ refOrder = Parked /\ refund = Parked /\ recorded = Parked /\ refEvents = Parked
       /\ refLock = Parked /\ refFlow = Parked /\ pull = Parked /\ returned = Parked
       /\ reversed = Parked /\ pass = Parked /\ queue = Parked /\ stopped = Parked
       /\ maintenance = Parked /\ lease = Parked /\ issued = Parked /\ token = Parked
       /\ lost = Parked /\ committed = Parked /\ row = Parked /\ leader = Parked
       /\ registered = Parked /\ accepted = Parked /\ carriers = Parked /\ announced = Parked
       /\ crashes = Parked /\ slow = Parked /\ placed = Parked /\ parent = Parked
       /\ holder = Parked /\ subject = Parked /\ inner = Parked /\ innerPlan = Parked
       /\ todo = Parked /\ born = Parked /\ attempt = Parked /\ transient = Parked
       /\ ver = Parked /\ html = Parked /\ tasks = Parked /\ marker = Parked /\ clock = Parked
       /\ trailing = Parked /\ run = Parked /\ current = Parked /\ edge = Parked /\ up = Parked
       /\ changes = Parked /\ fails = Parked /\ orphaned = Parked /\ unpurged = Parked
       /\ best = Parked /\ overtaken = Parked /\ Init
       /\ scenario = "gateway" /\ Gateway!Init
    \/ /\ mode = Parked /\ eff = Parked /\ review = Parked /\ receipt = Parked /\ runs = Parked
       /\ batch = Parked /\ pc = Parked /\ cur = Parked /\ faults = Parked /\ gwOrder = Parked
       /\ goods = Parked /\ prepaid = Parked /\ paid = Parked /\ flagged = Parked
       /\ gwAtt = Parked /\ pay = Parked /\ prov = Parked /\ ev = Parked /\ gwFlow = Parked
       /\ plan = Parked /\ hold = Parked /\ expired = Parked /\ pass = Parked /\ queue = Parked
       /\ stopped = Parked /\ maintenance = Parked /\ lease = Parked /\ issued = Parked
       /\ token = Parked /\ lost = Parked /\ committed = Parked /\ row = Parked
       /\ leader = Parked /\ registered = Parked /\ accepted = Parked /\ carriers = Parked
       /\ announced = Parked /\ crashes = Parked /\ slow = Parked /\ placed = Parked
       /\ parent = Parked /\ holder = Parked /\ subject = Parked /\ inner = Parked
       /\ innerPlan = Parked /\ todo = Parked /\ born = Parked /\ attempt = Parked
       /\ transient = Parked /\ ver = Parked /\ html = Parked /\ tasks = Parked
       /\ marker = Parked /\ clock = Parked /\ trailing = Parked /\ run = Parked
       /\ current = Parked /\ edge = Parked /\ up = Parked /\ changes = Parked /\ fails = Parked
       /\ orphaned = Parked /\ unpurged = Parked /\ best = Parked /\ overtaken = Parked /\ Init
       /\ scenario = "sezzle" /\ Sezzle!Init
    \/ /\ mode = Parked /\ eff = Parked /\ review = Parked /\ receipt = Parked
       /\ provider = Parked /\ runs = Parked /\ batch = Parked /\ pc = Parked /\ cur = Parked
       /\ gwOrder = Parked /\ goods = Parked /\ prepaid = Parked /\ paid = Parked
       /\ flagged = Parked /\ gwAtt = Parked /\ pay = Parked /\ prov = Parked /\ ev = Parked
       /\ gwFlow = Parked /\ plan = Parked /\ hold = Parked /\ expired = Parked
       /\ refOrder = Parked /\ refund = Parked /\ recorded = Parked /\ refEvents = Parked
       /\ refLock = Parked /\ refFlow = Parked /\ pull = Parked /\ returned = Parked
       /\ reversed = Parked /\ row = Parked /\ leader = Parked /\ registered = Parked
       /\ accepted = Parked /\ carriers = Parked /\ announced = Parked /\ crashes = Parked
       /\ slow = Parked /\ placed = Parked /\ parent = Parked /\ holder = Parked
       /\ subject = Parked /\ inner = Parked /\ innerPlan = Parked /\ todo = Parked
       /\ born = Parked /\ attempt = Parked /\ transient = Parked /\ ver = Parked
       /\ html = Parked /\ tasks = Parked /\ marker = Parked /\ clock = Parked
       /\ trailing = Parked /\ run = Parked /\ current = Parked /\ edge = Parked /\ up = Parked
       /\ changes = Parked /\ fails = Parked /\ orphaned = Parked /\ unpurged = Parked
       /\ best = Parked /\ overtaken = Parked /\ Init
       /\ \/ scenario = "scheduler" /\ Scheduler!Init
          \/ scenario = "leases" /\ Leases!Init
    \/ /\ mode = Parked /\ eff = Parked /\ review = Parked /\ receipt = Parked
       /\ provider = Parked /\ runs = Parked /\ pc = Parked /\ cur = Parked /\ faults = Parked
       /\ gwOrder = Parked /\ goods = Parked /\ prepaid = Parked /\ paid = Parked
       /\ flagged = Parked /\ gwAtt = Parked /\ pay = Parked /\ prov = Parked /\ ev = Parked
       /\ gwFlow = Parked /\ plan = Parked /\ hold = Parked /\ expired = Parked
       /\ refOrder = Parked /\ refund = Parked /\ recorded = Parked /\ refEvents = Parked
       /\ refLock = Parked /\ refFlow = Parked /\ pull = Parked /\ returned = Parked
       /\ reversed = Parked /\ queue = Parked /\ stopped = Parked /\ maintenance = Parked
       /\ lease = Parked /\ issued = Parked /\ token = Parked /\ lost = Parked
       /\ committed = Parked /\ placed = Parked /\ parent = Parked /\ holder = Parked
       /\ subject = Parked /\ inner = Parked /\ innerPlan = Parked /\ todo = Parked
       /\ born = Parked /\ attempt = Parked /\ transient = Parked /\ ver = Parked
       /\ html = Parked /\ tasks = Parked /\ marker = Parked /\ clock = Parked
       /\ trailing = Parked /\ run = Parked /\ current = Parked /\ edge = Parked /\ up = Parked
       /\ changes = Parked /\ fails = Parked /\ orphaned = Parked /\ unpurged = Parked
       /\ best = Parked /\ overtaken = Parked /\ Init
       /\ scenario = "outbox" /\ Outbox!Init
    \/ /\ mode = Parked /\ eff = Parked /\ review = Parked /\ receipt = Parked
       /\ provider = Parked /\ runs = Parked /\ batch = Parked /\ cur = Parked
       /\ faults = Parked /\ gwOrder = Parked /\ goods = Parked /\ prepaid = Parked
       /\ paid = Parked /\ flagged = Parked /\ gwAtt = Parked /\ pay = Parked /\ prov = Parked
       /\ ev = Parked /\ gwFlow = Parked /\ hold = Parked /\ expired = Parked
       /\ refOrder = Parked /\ refund = Parked /\ recorded = Parked /\ refEvents = Parked
       /\ refLock = Parked /\ refFlow = Parked /\ pull = Parked /\ returned = Parked
       /\ reversed = Parked /\ pass = Parked /\ queue = Parked /\ stopped = Parked
       /\ maintenance = Parked /\ lease = Parked /\ issued = Parked /\ token = Parked
       /\ lost = Parked /\ committed = Parked /\ row = Parked /\ leader = Parked
       /\ registered = Parked /\ accepted = Parked /\ carriers = Parked /\ announced = Parked
       /\ crashes = Parked /\ slow = Parked /\ ver = Parked /\ html = Parked /\ tasks = Parked
       /\ marker = Parked /\ clock = Parked /\ trailing = Parked /\ run = Parked
       /\ current = Parked /\ edge = Parked /\ up = Parked /\ changes = Parked /\ fails = Parked
       /\ orphaned = Parked /\ unpurged = Parked /\ best = Parked /\ overtaken = Parked /\ Init
       /\ scenario = "locks" /\ Locks!Init
    \/ /\ mode = Parked /\ eff = Parked /\ review = Parked /\ receipt = Parked
       /\ provider = Parked /\ runs = Parked /\ batch = Parked /\ pc = Parked /\ cur = Parked
       /\ faults = Parked /\ gwOrder = Parked /\ goods = Parked /\ prepaid = Parked
       /\ paid = Parked /\ flagged = Parked /\ gwAtt = Parked /\ pay = Parked /\ prov = Parked
       /\ ev = Parked /\ gwFlow = Parked /\ plan = Parked /\ hold = Parked /\ expired = Parked
       /\ refOrder = Parked /\ refund = Parked /\ recorded = Parked /\ refEvents = Parked
       /\ refLock = Parked /\ refFlow = Parked /\ pull = Parked /\ returned = Parked
       /\ reversed = Parked /\ pass = Parked /\ queue = Parked /\ stopped = Parked
       /\ maintenance = Parked /\ issued = Parked /\ token = Parked /\ lost = Parked
       /\ committed = Parked /\ row = Parked /\ leader = Parked /\ registered = Parked
       /\ accepted = Parked /\ carriers = Parked /\ announced = Parked /\ slow = Parked
       /\ placed = Parked /\ parent = Parked /\ holder = Parked /\ subject = Parked
       /\ inner = Parked /\ innerPlan = Parked /\ todo = Parked /\ born = Parked
       /\ attempt = Parked /\ transient = Parked /\ Init
       /\ \/ scenario = "hook" /\ Hook!Init
          \/ scenario = "failing" /\ Failing!Init

AllNext ==
    \/ /\ UNCHANGED <<scenario, others>>
       /\ scenario = "stale" /\ Next
    \/ /\ UNCHANGED besidePendingEffects
       /\ \/ scenario = "effects" /\ Effects!Next
          \/ scenario = "gated" /\ Gated!Next
    \/ /\ UNCHANGED besideGatewayPayment
       /\ scenario = "gateway" /\ Gateway!Next
    \/ /\ UNCHANGED besideRefunds
       /\ scenario = "sezzle" /\ Sezzle!Next
    \/ /\ UNCHANGED besideJobScheduler
       /\ \/ scenario = "scheduler" /\ Scheduler!Next
          \/ scenario = "leases" /\ Leases!Next
    \/ /\ UNCHANGED besideOutboxDelivery
       /\ scenario = "outbox" /\ Outbox!Next
    \/ /\ UNCHANGED besideLockSets
       /\ scenario = "locks" /\ Locks!Next
    \/ /\ UNCHANGED besideStockHook
       /\ \/ scenario = "hook" /\ Hook!Next
          \/ scenario = "failing" /\ Failing!Next

effectsVars == Effects!vars
gatewayVars == Gateway!vars
sezzleVars == Sezzle!vars
schedulerVars == Scheduler!vars
outboxVars == Outbox!vars
locksVars == Locks!vars
hookVars == Hook!vars

\* The scheduler runs a pass every 15 s and the supervisor restarts a dead
\* process, so every worker keeps claiming and finishing; time passes.
EffectsFairness ==
    LET Fair(A) == scenario = "effects" /\ A
        Gate(A) == scenario = "gated" /\ A IN
    /\ \A w \in {"w1", "w2"} : /\ WF_effectsVars(Fair(Effects!Claim(w)))
                              /\ WF_effectsVars(Fair(Effects!Process(w)))
    /\ WF_effectsVars(Gate(Gated!Claim("w1"))) /\ WF_effectsVars(Gate(Gated!Process("w1")))
    /\ \A k \in {"edit_reconcile", "notification"} :
         /\ WF_effectsVars(Fair(Effects!Clock(<<"o1", k>>)))
         /\ WF_effectsVars(Gate(Gated!Clock(<<"o1", k>>)))

\* Requests that started end, the recovery jobs run again and again, the
\* gateway answers and delivers its event.
GatewayFairness ==
    LET Fair(A) == scenario = "gateway" /\ A IN
    /\ WF_gatewayVars(Fair(Gateway!FlowStep))
    /\ WF_gatewayVars(Fair(Gateway!ReservationReleaseSweep))
    /\ WF_gatewayVars(Fair(Gateway!EventArrives("a1")))

\* Requests run to their end, the provider decides, the list is pulled again
\* and the queue of the advisory lock is served.
SezzleFairness ==
    LET Fair(A) == scenario = "sezzle" /\ A IN
    /\ \A r \in {"a", "b"} : WF_sezzleVars(Fair(Sezzle!RequestStep(r)))
    /\ \A x \in {"a", "b", "d"} : WF_sezzleVars(Fair(Sezzle!ProviderDecides(x)))
    /\ WF_sezzleVars(Fair(Sezzle!FetchSezzle))

\* The sweeps run again and again, Stripe decides and delivers its events, and
\* a request that started ends; no shopper has to come back.
StaleFairness ==
    LET Fair(A) == scenario = "stale" /\ A IN
    /\ WF_vars(Fair(Age)) /\ WF_vars(Fair(Discover))
    /\ WF_vars(Fair(ReleaseStale)) /\ WF_vars(Fair(Die("mint")))
    /\ \A k \in Keys : /\ WF_vars(Fair(Decide(k)))
                             /\ WF_vars(Fair(SweepOrphan(k)))

\* Timers fire, passes work through finitely many rows, and a lease nobody
\* renews expires.  Faults, stop() and maintenance are not fair.
SchedulerFairness ==
    LET Both(A) == scenario = "scheduler" /\ A
        One(A) == scenario = "leases" /\ A IN
    /\ \A j \in {"feeds", "reports"} :
         /\ WF_schedulerVars(Both(Scheduler!Tick("p1", j)))
         /\ WF_schedulerVars(Both(Scheduler!PassStep("p1", j)))
         /\ WF_schedulerVars(Both(Scheduler!Orphaned(j) /\ Scheduler!LeaseExpires(j)))
    /\ WF_schedulerVars(One(Leases!Tick("p1", "feeds")))
    /\ WF_schedulerVars(One(Leases!PassStep("p1", "feeds")))
    /\ WF_schedulerVars(One(Leases!Orphaned("feeds") /\ Leases!LeaseExpires("feeds")))

\* A pass of every channel starts each minute and runs to its end, the reaper
\* runs with --apply, and time passes.
OutboxFairness ==
    LET Fair(A) == scenario = "outbox" /\ A IN
    /\ WF_outboxVars(Fair(Outbox!PassStep("s1")))
    /\ \A m \in {"e1", "w1", "p1"} :
         /\ WF_outboxVars(Fair(Outbox!ReapStuckWebhooks(m)))
         /\ WF_outboxVars(Fair(Outbox!BackoffElapses(m)))
         /\ WF_outboxVars(Fair(~Outbox!HasLiveOwner(m) /\ Outbox!ClaimAges(m)))

\* A started transaction keeps working and fn returns.
LocksFairness ==
    LET Fair(A) == scenario = "locks" /\ A IN
    \A t \in {"t1", "t2"} : WF_locksVars(Fair(Locks!TxStep(t)))

\* Every step of a live process is taken and a process manager restarts a dead
\* process.
HookFairness ==
    LET Fair(A) == scenario = "hook" /\ A
        Fails(A) == scenario = "failing" /\ A IN
    /\ WF_hookVars(Fair(Hook!TaskStep))
    /\ \A r \in Hook!Runners : WF_hookVars(Fair(Hook!RunStep(r)))
    /\ WF_hookVars(Fair(Hook!Drain)) /\ WF_hookVars(Fair(Hook!LeaseExpires))
    /\ WF_hookVars(Fair(Hook!Restart("q1")))
    /\ WF_hookVars(Fails(Failing!TaskStep)) /\ WF_hookVars(Fails(Failing!Drain))
    /\ \A r \in Failing!Runners : WF_hookVars(Fails(Failing!RunStep(r)))
    /\ WF_hookVars(Fails(Failing!LeaseExpires))

\* What is retried for ever although it is not always enabled: the recovery
\* jobs, the pulled list and the sweeps come round again, a pass ends, Stripe
\* redelivers its events, and a row lock is granted in the order of the
\* requests.  A behaviour never leaves its scenario, so strong fairness of each
\* disjunction below is strong fairness of the disjunct of that scenario.
Retried ==
    /\ SF_allVars(\/ scenario = "gateway" /\ Gateway!RecoveryStep /\ UNCHANGED besideGatewayPayment
                  \/ /\ scenario = "sezzle" /\ UNCHANGED besideRefunds
                     /\ \E x \in {"a", "b", "d"} : Sezzle!ReconcileSezzleRefund(x)
                  \/ /\ scenario = "stale" /\ UNCHANGED <<scenario, others>>
                     /\ \E e \in Keys \X PIStates : ProcessEvent(e)
                  \/ /\ \/ scenario = "scheduler" /\ Scheduler!FinishPass("p1", "feeds")
                        \/ scenario = "leases" /\ Leases!FinishPass("p1", "feeds")
                     /\ UNCHANGED besideJobScheduler
                  \/ /\ scenario = "outbox" /\ Outbox!StartPass("s1", "email")
                     /\ UNCHANGED besideOutboxDelivery
                  \/ scenario = "locks" /\ Locks!LockRow("t1") /\ UNCHANGED besideLockSets
                  \/ /\ \/ scenario = "hook" /\ Hook!Acquire("drain")
                        \/ scenario = "failing" /\ Failing!Acquire("drain")
                     /\ UNCHANGED besideStockHook)
    /\ SF_allVars(\/ /\ scenario = "gateway" /\ Gateway!RecoverSelect("a1")
                     /\ UNCHANGED besideGatewayPayment
                  \/ scenario = "sezzle" /\ Sezzle!EndPull /\ UNCHANGED besideRefunds
                  \/ /\ scenario = "stale" /\ UNCHANGED <<scenario, others>>
                     /\ Sweeps
                  \/ /\ scenario = "scheduler" /\ Scheduler!FinishPass("p1", "reports")
                     /\ UNCHANGED besideJobScheduler
                  \/ /\ scenario = "outbox" /\ Outbox!StartPass("s1", "webhook")
                     /\ UNCHANGED besideOutboxDelivery
                  \/ scenario = "locks" /\ Locks!LockRow("t2") /\ UNCHANGED besideLockSets)
    /\ SF_allVars(\/ scenario = "gateway" /\ Gateway!EventStep("a1") /\ UNCHANGED besideGatewayPayment
                  \/ /\ scenario = "outbox" /\ Outbox!StartPass("s1", "push")
                     /\ UNCHANGED besideOutboxDelivery)

AllSpec ==
    /\ AllInit /\ [][AllNext]_allVars
    /\ EffectsFairness /\ GatewayFairness /\ SezzleFairness /\ StaleFairness /\ SchedulerFairness
    /\ OutboxFairness /\ LocksFairness /\ HookFairness /\ Retried

-----------------------------------------------------------------------------
ASSUME /\ Gateway!GatewayAssumption /\ Sezzle!KindsAssumption /\ Sezzle!AmountsAssumption
       /\ BoundsAssumption /\ Scheduler!JobsAssumption /\ Scheduler!BoundsAssumption
       /\ Outbox!ChannelsDisjoint /\ Outbox!BoundsAssumption /\ Locks!RowsAssumption
       /\ Locks!TxAssumption /\ Hook!ConstantsAssumption

\* Every recorded effect ends done or terminal: no crash, overdue claim,
\* missing handler or gate leaves its row open for ever.
EventuallySettled ==
    \A k \in {"edit_reconcile", "notification"} :
        []<>(scenario \in {"effects", "gated"} => ~Effects!Open(<<"o1", k>>))

\* A payment attempt whose outcome is unknown never stays so: again and again it
\* is resolved or in the hands of a human.  Money the gateway captured surfaces,
\* on the ledger or before a human, and every refund the provider made reaches
\* the ledger by the pulled list unless two open requests could be its origin.
MoneySurfaces ==
    /\ []<>(scenario = "gateway" => ~Gateway!Unresolved("a1") \/ gwAtt["a1"].manual)
    /\ []<>(scenario = "gateway" /\ prov["a1"] = "captured" =>
              pay["a1"] = "Settled" \/ gwAtt["a1"].manual \/ ev["a1"].status = "manual")
    /\ <>[](scenario = "sezzle" => \A x \in {"a", "b", "d"} :
              provider[x] = "succeeded" => Sezzle!IsRecorded(x) \/ Cardinality(Sezzle!Unbound(x)) > 1)

\* An order left unpaid is resolved, paid or cancelled, or is before an operator.
StaleOrderResolved ==
    <>[](scenario = "stale" => \/ order.state # "PendingPayment" \/ alerts # {}
                               \/ disc.is = "hold" /\ disc.tries = 2)

\* A job is led again and again: neither a dead holder's lease nor a full lane
\* keeps it from running for ever (while this instance may still acquire it).
\* Every enqueued message ends: sent, given up, or deleted with its endpoint.  A
\* transaction that records moved money commits once it has started, however
\* often its plan grows and whoever holds its rows.
WorkGetsDone ==
    /\ \A j \in {"feeds", "reports"} :
        []<>(scenario \in {"scheduler", "leases"} /\ j \in DOMAIN issued =>
               \/ pass["p1"][j] \in Scheduler!Running
               \/ issued[j] = 2 \/ maintenance \/ stopped["p1"])
    /\ <>[](scenario = "outbox" =>
           \A m \in {"e1", "w1", "p1"} : row[m].status \in {"none", "sent", "dead", "deleted"})
    /\ <>[](scenario = "locks" => pc["t1"] \in {"idle", "committed"})

\* Every committed change reaches the catalog, through the drain when the
\* publication it triggered failed or was missed.
ChangesArePublished ==
    []<>(scenario \in {"hook", "failing"} =>
           ver["p1"] = current.has["p1"] \/ "p1" \in orphaned)
=============================================================================
