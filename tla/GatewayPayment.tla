--------------------------- MODULE GatewayPayment ---------------------------
(***************************************************************************)
(* The life of one unpaid order at the card gateway (NMI) and the redirect *)
(* provider (Sezzle): payments/gateway-payment.ts and settle.ts, the       *)
(* recovery and event jobs (jobs/gateway-recovery.ts,                      *)
(* jobs/reconcile-gateway-events.ts), the unpaid cancel                    *)
(* (orders/cancel-unpaid.ts) and the order's payment reservation           *)
(* (payments/reservation.ts).                                              *)
(*                                                                         *)
(* Each action is one database transaction, one provider call, or one step *)
(* of the provider or the shopper.  The `pay:` advisory lock makes at most *)
(* one payment flow at a time (flow); the cancel jobs, the event binding   *)
(* and the recovery job's own reads do not take it.  Time is abstract: an  *)
(* attempt is due for recovery, a session is old enough to expire and an   *)
(* order stale enough to cancel whenever the code could find it so.        *)
(* Order edits, refunds, Stripe and imported orders are not here.          *)
(***************************************************************************)
EXTENDS Integers

CONSTANTS
  Attempts,       \* payment_attempt ids the shopper may use for this order
  Methods,        \* the gateway methods the store has enabled
  Reservable,     \* whether the store's payment policy places a reservation
  Total,          \* order.grandTotal
  MaxTries,       \* maxAttempts of the recovery job
  MaxEventTries,  \* MANUAL_AFTER_ATTEMPTS of the event job
  MaxFaults       \* bound: process crashes

ASSUME GatewayAssumption ==
  /\ "none" \notin Attempts
  /\ Methods \subseteq {"nmi", "sezzle"}
  /\ Reservable \in BOOLEAN
  /\ Total \in Nat \ {0}
  /\ MaxTries \in Nat \ {0}
  /\ MaxEventTries \in Nat \ {0}
  /\ MaxFaults \in Nat

VARIABLES
  order,    \* order.state
  goods,    \* "held" while stock and loyalty points are allocated to the order
  prepaid,  \* tenders settled at checkout (gift card, account credit)
  paid,     \* sum of the order's Settled payment rows
  flagged,  \* sum of the amounts alerted as payment_after_cancel
  att,      \* the payment_attempt rows
  pay,      \* per attempt, the state of its payment row
  prov,     \* per attempt, what is true at the provider
  ev,       \* per attempt, its order.captured gateway_event
  flow,     \* the holder of the order's pay: lock
  plan,     \* the recovery job's local state
  hold,     \* the order_reservation row
  expired,  \* history: attempts whose open session recovery declared expired
  faults    \* crashes so far

money == <<order, goods, prepaid, paid, flagged, pay, hold>>
vars == <<order, goods, prepaid, paid, flagged, att, pay, prov, ev, flow, plan,
          hold, expired, faults>>

NoAttempt == [status |-> "none", method |-> "none", amount |-> 0, ref |-> FALSE,
              decision |-> "none", tries |-> 0, manual |-> FALSE]
NoEvent == [status |-> "none", tries |-> 0]
NoFlow == [pc |-> "free", a |-> "none", by |-> "none", res |-> "none", ref |-> FALSE]
NoPlan == [pc |-> "idle", a |-> "none", decision |-> "none"]
NoHold == [state |-> "none", requested |-> FALSE, overridden |-> FALSE]

\* A payment result: Recon is Pending with needsReconciliation set.
Results == {"Settled", "Authorized", "Pending", "Recon", "Declined", "Failed"}

UnresolvedStatuses == {"processing", "unknown", "pending"}
Unresolved(a) == att[a].status \in UnresolvedStatuses
InFlight(a) == Unresolved(a) \/ pay[a] \in {"Pending", "Authorized"}

\* amountDueForOrder.
Due == Total - paid

(***************************************************************************)
(* startGatewayPayment.  The order row is locked while the attempt is      *)
(* inserted; the pay: lock is kept across the provider call.               *)
(***************************************************************************)
StartGatewayPayment_NoActiveCheck(a, m) ==
  /\ flow.pc = "free"
  /\ att[a].status = "none"
  /\ order = "PendingPayment"
  /\ Due > 0
  /\ att' = [att EXCEPT ![a] = [NoAttempt EXCEPT !.status = "processing", !.method = m, !.amount = Due]]
  /\ flow' = [NoFlow EXCEPT !.pc = IF m = "sezzle" THEN "session" ELSE "sale", !.a = a, !.by = "request"]
  /\ UNCHANGED <<money, prov, ev, plan, expired, faults>>

StartGatewayPayment(a, m) ==
  /\ flow.pc = "free"
  /\ att[a].status = "none"
  /\ order = "PendingPayment"
  /\ \A b \in Attempts : ~Unresolved(b)
  /\ Due > 0
  /\ att' = [att EXCEPT ![a] = [NoAttempt EXCEPT !.status = "processing", !.method = m, !.amount = Due]]
  /\ flow' = [NoFlow EXCEPT !.pc = IF m = "sezzle" THEN "session" ELSE "sale", !.a = a, !.by = "request"]
  /\ UNCHANGED <<money, prov, ev, plan, expired, faults>>

\* The session request: answered, lost on the way, or its answer lost.
CreateSession(opened, answered) ==
  /\ flow.pc = "session"
  /\ answered => opened
  /\ prov' = IF opened THEN [prov EXCEPT ![flow.a] = "open"] ELSE prov
  /\ flow' = [flow EXCEPT !.pc = IF answered THEN "opened" ELSE "lost"]
  /\ UNCHANGED <<money, att, ev, plan, expired, faults>>

\* The session is stored on the attempt, by id alone.
SessionRecorded ==
  /\ flow.pc = "opened"
  /\ att' = [att EXCEPT ![flow.a].status = "pending", ![flow.a].ref = TRUE]
  /\ flow' = NoFlow
  /\ UNCHANGED <<money, prov, ev, plan, expired, faults>>

MarkUnknown ==
  /\ flow.pc = "lost"
  /\ att' = [att EXCEPT ![flow.a].status = "unknown"]
  /\ flow' = NoFlow
  /\ UNCHANGED <<money, prov, ev, plan, expired, faults>>

\* What an NMI sale can come to: what is true at the gateway afterwards, and
\* the result the engine is given with the transaction id, if it got one.
\* "reversed" is a sale voided after a card-verification mismatch, "rejected"
\* one whose void could not be confirmed.
SaleOutcomes ==
  {<<"captured", "Settled", TRUE>>, <<"captured", "Recon", FALSE>>,
   <<"none", "Recon", FALSE>>,
   <<"denied", "Declined", TRUE>>, <<"denied", "Declined", FALSE>>,
   <<"denied", "Failed", FALSE>>, <<"denied", "Recon", TRUE>>,
   <<"denied", "Recon", FALSE>>,
   <<"reversed", "Declined", TRUE>>, <<"reversed", "Recon", TRUE>>,
   <<"rejected", "Recon", TRUE>>, <<"rejected", "Recon", FALSE>>}

CreatePayment(out) ==
  /\ flow.pc = "sale"
  /\ prov' = [prov EXCEPT ![flow.a] = out[1]]
  /\ flow' = [flow EXCEPT !.pc = "finish", !.res = out[2], !.ref = out[3]]
  /\ UNCHANGED <<money, att, ev, plan, expired, faults>>

(***************************************************************************)
(* applyPaymentResult.                                                     *)
(***************************************************************************)
\* The payment row after result r: captured funds are never downgraded, an
\* authorization is not taken back by a delayed Pending.
PaymentAfter(p, r) ==
  LET s == IF r = "Recon" THEN "Pending" ELSE r IN
  IF p = "Settled" \/ (p = "Authorized" /\ s = "Pending") THEN p ELSE s

Transitions_AnyState(amount) == Due <= amount

\* The order becomes Paid with this capture.
Transitions(amount) == order = "PendingPayment" /\ Due <= amount

Alerts_OverpaymentIsBalance(amount) == order = "Cancelled"

\* recordPaymentAfterCancel: neither Paid now, nor a partial tender, nor a
\* balance payment that leaves nothing overpaid.
Alerts(amount) ==
  /\ order # "PendingPayment"
  /\ ~(order = "Paid" /\ Due >= amount)

ApplyPaymentResult(a, r) ==
  LET captured == r = "Settled" /\ pay[a] # "Settled"
      amount == att[a].amount IN
  /\ pay' = [pay EXCEPT ![a] = PaymentAfter(@, r)]
  /\ paid' = IF captured THEN paid + amount ELSE paid
  /\ flagged' = IF captured /\ Alerts(amount) THEN flagged + amount ELSE flagged
  /\ order' = IF captured /\ Transitions(amount) THEN "Paid" ELSE order
  /\ hold' = IF captured /\ order' = "Paid" /\ hold.state = "held"
               THEN [hold EXCEPT !.state = "consumed"] ELSE hold
  /\ UNCHANGED <<goods, prepaid>>

(***************************************************************************)
(* finishAttempt: the result held by the flow is recorded.  The caller     *)
(* then lets the pay: lock go and uses the status it was given.            *)
(***************************************************************************)
StatusAfter(r) ==
  CASE r = "Settled" -> "settled"
    [] r \in {"Failed", "Declined"} -> "failed"
    [] r = "Recon" -> "unknown"
    [] OTHER -> "pending"

\* reconcileGatewayEvents: a captured event is done when its attempt settled;
\* any other end of the pass counts a try.
EventAfter(e, status) ==
  [status |-> IF status = "settled" THEN "processed"
              ELSE IF e.tries + 1 >= MaxEventTries THEN "manual" ELSE "pending",
   tries |-> e.tries + 1]

\* recoverOne after a verify (no decision taken yet) or after its last write.
PlanAfter(p, status) ==
  IF status \in {"settled", "failed"} THEN NoPlan
  ELSE IF att[p.a].method = "nmi" \/ p.decision # "none" THEN [p EXCEPT !.pc = "annotate"]
  ELSE [p EXCEPT !.pc = "look"]

Return(status) ==
  /\ flow' = NoFlow
  /\ ev' = IF flow.by = "event" THEN [ev EXCEPT ![flow.a] = EventAfter(@, status)] ELSE ev
  /\ plan' = IF flow.by = "recovery" THEN PlanAfter(plan, status) ELSE plan

FinishAttempt_NoSettledGuard ==
  LET a == flow.a IN
  /\ flow.pc = "finish"
  /\ att' = [att EXCEPT ![a].status = StatusAfter(flow.res), ![a].ref = flow.ref]
  /\ IF flow.ref THEN ApplyPaymentResult(a, flow.res) ELSE UNCHANGED money
  /\ expired' = IF flow.by = "recovery" /\ plan.decision = "expire"
                  THEN expired \cup {a} ELSE expired
  /\ Return(StatusAfter(flow.res))
  /\ UNCHANGED <<prov, faults>>

FinishAttempt ==
  LET a == flow.a IN
  /\ flow.pc = "finish"
  /\ IF att[a].status = "settled"
       THEN /\ Return("settled")
            /\ UNCHANGED <<money, att, expired>>
       ELSE /\ att' = [att EXCEPT ![a].status = StatusAfter(flow.res), ![a].ref = flow.ref]
            /\ IF flow.ref THEN ApplyPaymentResult(a, flow.res) ELSE UNCHANGED money
            /\ expired' = IF flow.by = "recovery" /\ plan.decision = "expire"
                            THEN expired \cup {a} ELSE expired
            /\ Return(StatusAfter(flow.res))
  /\ UNCHANGED <<prov, faults>>

(***************************************************************************)
(* verifyGatewayAttempt, verifySezzleAttempt: an authoritative read under  *)
(* the pay: lock, from the shopper's return, an operator, the event job or *)
(* the recovery job.  The read may be unavailable; for NMI the reference   *)
(* it falls back to was read before the lock and may predate the sale's.   *)
(***************************************************************************)
Answer(a) ==
  IF att[a].method = "nmi"
    THEN CASE prov[a] = "captured" -> <<"Settled", TRUE>>
           [] prov[a] = "denied" -> <<"Failed", TRUE>>
           [] prov[a] \in {"reversed", "rejected"} -> <<"Recon", TRUE>>
           [] OTHER -> <<"Recon", att[a].ref>>
    ELSE CASE prov[a] = "captured" -> <<"Settled", TRUE>>
           [] prov[a] = "denied" -> <<"Declined", TRUE>>
           [] prov[a] \in {"approved", "released"} -> <<"Authorized", TRUE>>
           [] prov[a] = "lapsed" -> <<"Recon", TRUE>>
           [] OTHER -> <<"Pending", TRUE>>

Answers_ErrorIsFailure(a) ==
  {Answer(a), <<"Failed", TRUE>>}

Answers(a) ==
  {Answer(a), <<"Recon", att[a].ref>>}
    \cup (IF att[a].method = "nmi" THEN {<<"Recon", FALSE>>} ELSE {})

Verifiable(a) ==
  /\ att[a].status \notin {"none", "settled"}
  /\ att[a].method = "nmi" \/ att[a].ref

Ask(a, by) ==
  /\ flow.pc = "free"
  /\ \E r \in Answers(a) :
       flow' = [pc |-> "finish", a |-> a, by |-> by, res |-> r[1], ref |-> r[2]]

Verify(a) ==
  /\ Verifiable(a)
  /\ Ask(a, "verify")
  /\ UNCHANGED <<money, att, prov, ev, plan, expired, faults>>

(***************************************************************************)
(* reconcileGatewayEvents.                                                 *)
(***************************************************************************)
\* resolveSezzleSessionAttempt: an attempt that never got its session's
\* answer is bound to it by the reference the engine sent.
BindProviderReference(a) ==
  /\ ev[a].status = "pending"
  /\ ~att[a].ref
  /\ att' = [att EXCEPT ![a].ref = TRUE]
  /\ UNCHANGED <<money, prov, ev, flow, plan, expired, faults>>

\* An attempt already settled is finished again without asking the provider.
ReconcileEvent(a) ==
  /\ ev[a].status = "pending"
  /\ att[a].ref
  /\ flow.pc = "free"
  /\ IF att[a].status = "settled"
       THEN flow' = [pc |-> "finish", a |-> a, by |-> "event", res |-> "Settled", ref |-> TRUE]
       ELSE Ask(a, "event")
  /\ UNCHANGED <<money, att, prov, ev, plan, expired, faults>>

\* The provider cannot be read to associate or verify the event.
ReconcileEventFails(a) ==
  /\ ev[a].status = "pending"
  /\ ~(flow.by = "event" /\ flow.a = a)
  /\ ev' = [ev EXCEPT ![a] = EventAfter(@, "error")]
  /\ UNCHANGED <<money, att, prov, flow, plan, expired, faults>>

(***************************************************************************)
(* recoverGatewayAttempts: one leader handles one attempt at a time.       *)
(***************************************************************************)
Selectable_NoProcessing(a) == att[a].status \in {"unknown", "pending"} /\ ~att[a].manual

Selectable_IgnoreManual(a) == Unresolved(a)

Selectable(a) == Unresolved(a) /\ ~att[a].manual

\* An attempt is taken up: verified under the pay: lock, or only noted when it
\* has no reference to ask by or the verify throws.  (An attempt that another
\* caller resolves while the job waits for the lock is Verify's case.)
RecoverSelect(a) ==
  /\ plan.pc = "idle"
  /\ Selectable(a)
  /\ \/ /\ Verifiable(a)
        /\ Ask(a, "recovery")
        /\ plan' = [NoPlan EXCEPT !.a = a, !.pc = "busy"]
     \/ /\ plan' = [NoPlan EXCEPT !.a = a, !.pc = "annotate"]
        /\ UNCHANGED flow
  /\ UNCHANGED <<money, att, prov, ev, expired, faults>>

Payable(a) == order \in {"PendingPayment", "Paid"} /\ Due = att[a].amount

\* decideSezzleRecovery on the order read from the provider: "error" when the
\* read fails.
Decisions(state, payable) ==
  CASE state \in {"captured", "released"} -> {"wait", "error"}
    [] state = "approved" -> {IF payable THEN "capture" ELSE "release", "error"}
    [] state = "lapsed" -> {"release", "error"}
    [] OTHER -> {"wait", "expire", "error"}

\* orderContext and the provider read, outside the pay: lock.  One step: an
\* order only ever stops being payable, and the capture path reads it again.
DecideSezzleRecovery(d) ==
  /\ plan.pc = "look"
  /\ d \in Decisions(prov[plan.a], Payable(plan.a))
  /\ plan' = IF d \in {"wait", "error"} THEN [plan EXCEPT !.pc = "annotate"]
             ELSE [plan EXCEPT !.decision = d, !.pc = "act"]
  /\ UNCHANGED <<money, att, prov, ev, flow, expired, faults>>

\* The decision is carried out under the pay: lock.
RecoverLock ==
  /\ plan.pc = "act"
  /\ flow.pc = "free"
  /\ flow' = [pc |-> CASE plan.decision = "capture" -> "decide"
                       [] plan.decision = "release" -> "release"
                       [] OTHER -> "finish",
              a |-> plan.a, by |-> "recovery", res |-> "Declined", ref |-> TRUE]
  /\ plan' = [plan EXCEPT !.pc = "busy"]
  /\ UNCHANGED <<money, att, prov, ev, expired, faults>>

\* recoverOne leaves without a result: the lock goes, the try is annotated.
GiveUpTry ==
  /\ flow' = NoFlow
  /\ plan' = [plan EXCEPT !.pc = "annotate"]

\* decideSezzleCapture: a persisted decision is final; otherwise payability is
\* re-read and the policy asked ("unavailable" defers).
DecideSezzleCapture_AsksAgain(verdict) ==
  LET a == flow.a IN
  /\ flow.pc = "decide"
  /\ IF ~Payable(a)
       THEN /\ flow' = [flow EXCEPT !.pc = "release"]
            /\ UNCHANGED <<att, plan>>
     ELSE IF verdict = "unavailable"
       THEN GiveUpTry /\ UNCHANGED att
     ELSE /\ att' = [att EXCEPT ![a].decision = verdict]
          /\ flow' = [flow EXCEPT !.pc = IF verdict = "capture" THEN "capture" ELSE "release"]
          /\ UNCHANGED plan
  /\ UNCHANGED <<money, prov, ev, expired, faults>>

DecideSezzleCapture(verdict) ==
  LET a == flow.a IN
  /\ flow.pc = "decide"
  /\ IF att[a].decision # "none"
       THEN /\ flow' = [flow EXCEPT !.pc = IF att[a].decision = "capture" THEN "capture" ELSE "release"]
            /\ UNCHANGED <<att, plan>>
     ELSE IF ~Payable(a)
       THEN /\ flow' = [flow EXCEPT !.pc = "release"]
            /\ UNCHANGED <<att, plan>>
     ELSE IF verdict = "unavailable"
       THEN GiveUpTry /\ UNCHANGED att
     ELSE /\ att' = [att EXCEPT ![a].decision = verdict]
          /\ flow' = [flow EXCEPT !.pc = IF verdict = "capture" THEN "capture" ELSE "release"]
          /\ UNCHANGED plan
  /\ UNCHANGED <<money, prov, ev, expired, faults>>

\* The capture call; repeating it at the provider is idempotent.
CaptureOrder(answered) ==
  LET a == flow.a
      can == prov[a] \in {"approved", "captured"} IN
  /\ flow.pc = "capture"
  /\ IF answered
       THEN /\ can
            /\ prov' = [prov EXCEPT ![a] = "captured"]
            /\ flow' = [flow EXCEPT !.pc = "finish", !.res = "Settled"]
            /\ UNCHANGED plan
       ELSE /\ prov' \in {prov, IF can THEN [prov EXCEPT ![a] = "captured"] ELSE prov}
            /\ GiveUpTry
  /\ UNCHANGED <<money, att, ev, expired, faults>>

\* The release call; a captured order cannot be released.
ReleaseOrder(answered) ==
  LET a == flow.a
      can == prov[a] \in {"approved", "lapsed", "released"} IN
  /\ flow.pc = "release"
  /\ IF answered
       THEN /\ can
            /\ prov' = [prov EXCEPT ![a] = "released"]
            /\ flow' = [flow EXCEPT !.pc = "finish", !.res = "Declined"]
            /\ UNCHANGED plan
       ELSE /\ prov' \in {prov, IF can THEN [prov EXCEPT ![a] = "released"] ELSE prov}
            /\ GiveUpTry
  /\ UNCHANGED <<money, att, ev, expired, faults>>

\* The try is written down while the attempt is still unresolved.
Annotate ==
  LET a == plan.a IN
  /\ plan.pc = "annotate"
  /\ att' = IF Unresolved(a)
              THEN [att EXCEPT ![a].tries = @ + 1, ![a].manual = att[a].tries + 1 >= MaxTries]
              ELSE att
  /\ plan' = NoPlan
  /\ UNCHANGED <<money, prov, ev, flow, expired, faults>>

(***************************************************************************)
(* The reservation and the unpaid cancel.                                  *)
(***************************************************************************)
Reserve ==
  /\ Reservable
  /\ order # "Cancelled"
  /\ hold.state = "none"
  /\ hold' = [NoHold EXCEPT !.state = "held"]
  /\ UNCHANGED <<order, goods, prepaid, paid, flagged, pay, att, prov, ev, flow, plan, expired, faults>>

\* context.recovery.authorization_released of a failed Sezzle attempt: read by
\* providerQuiescent, written by no code.
AuthorizationReleased(a) == FALSE

Quiescent_FailedIsTerminal ==
  \A a \in Attempts : att[a].status \in {"none", "settled", "failed"} /\ pay[a] \notin {"Pending", "Authorized"}

Quiescent ==
  \A a \in Attempts :
    /\ \/ att[a].status \in {"none", "settled"}
       \/ att[a].status = "failed" /\ (att[a].method = "nmi" \/ AuthorizationReleased(a))
    /\ pay[a] \notin {"Pending", "Authorized"}

\* settleRelease of a requested hold, in a transaction that leaves the order
\* Cancelled.
SettledHold(h) ==
  IF h.state = "held" /\ h.requested /\ Quiescent THEN [h EXCEPT !.state = "released"] ELSE h

UnpaidCancellable_UnknownMayGo ==
  /\ order = "PendingPayment"
  /\ \A a \in Attempts :
       att[a].status \notin {"processing", "pending"} /\ pay[a] \notin {"Pending", "Authorized"}

UnpaidCancellable ==
  /\ order = "PendingPayment"
  /\ \A a \in Attempts : ~InFlight(a)

\* cancelUnpaidOrderInSet, from the stale-order job or a reopened cart: no
\* pay: lock, one transaction under the order's lock set.
CancelUnpaid ==
  /\ UnpaidCancellable
  /\ order' = "Cancelled"
  /\ goods' = "returned"
  /\ hold' = IF hold.state = "held" THEN SettledHold([hold EXCEPT !.requested = TRUE]) ELSE hold
  /\ UNCHANGED <<prepaid, paid, flagged, pay, att, prov, ev, flow, plan, expired, faults>>

\* The operator's cancel does the same while it holds the pay: lock.
AdminCancel ==
  /\ flow.pc = "free"
  /\ CancelUnpaid

ReservationReleaseSweep ==
  /\ order = "Cancelled"
  /\ hold.state = "held" /\ hold.requested
  /\ Quiescent
  /\ hold' = SettledHold(hold)
  /\ UNCHANGED <<order, goods, prepaid, paid, flagged, pay, att, prov, ev, flow, plan, expired, faults>>

OverrideRelease ==
  /\ order = "Cancelled"
  /\ hold.state = "held"
  /\ hold' = [hold EXCEPT !.state = "released", !.overridden = TRUE]
  /\ UNCHANGED <<order, goods, prepaid, paid, flagged, pay, att, prov, ev, flow, plan, expired, faults>>

(***************************************************************************)
(* The provider and the shopper (external), and crashes.                   *)
(***************************************************************************)
ProviderSteps ==
  {<<"open", "approved">>, <<"open", "denied">>, <<"approved", "captured">>,
   <<"approved", "lapsed">>}

ProviderMoves(a, step) ==
  /\ att[a].method = "sezzle"
  /\ prov[a] = step[1]
  /\ prov' = [prov EXCEPT ![a] = step[2]]
  /\ UNCHANGED <<money, att, ev, flow, plan, expired, faults>>

\* The order.captured webhook is stored; the provider repeats it until it is.
EventArrives(a) ==
  /\ att[a].method = "sezzle"
  /\ prov[a] = "captured"
  /\ ev[a].status = "none"
  /\ ev' = [ev EXCEPT ![a].status = "pending"]
  /\ UNCHANGED <<money, att, prov, flow, plan, expired, faults>>

\* The process holding the pay: lock dies and its session lock goes with it,
\* and with it the recovery job if it was that one.
FlowCrash ==
  /\ faults < MaxFaults
  /\ flow.pc # "free"
  /\ flow' = NoFlow
  /\ plan' = IF flow.by = "recovery" THEN NoPlan ELSE plan
  /\ faults' = faults + 1
  /\ UNCHANGED <<money, att, prov, ev, expired>>

\* The recovery job dies between two of its steps.
RecoveryCrash ==
  /\ faults < MaxFaults
  /\ plan.pc \notin {"idle", "busy"}
  /\ plan' = NoPlan
  /\ faults' = faults + 1
  /\ UNCHANGED <<money, att, prov, ev, flow, expired>>

-----------------------------------------------------------------------------
Init ==
  /\ order = "PendingPayment"
  /\ goods = "held"
  /\ prepaid \in 0..(Total - 1)
  /\ paid = prepaid
  /\ flagged = 0
  /\ att = [a \in Attempts |-> NoAttempt]
  /\ pay = [a \in Attempts |-> "none"]
  /\ prov = [a \in Attempts |-> "none"]
  /\ ev = [a \in Attempts |-> NoEvent]
  /\ flow = NoFlow
  /\ plan = NoPlan
  /\ hold = NoHold
  /\ expired = {}
  /\ faults = 0

\* The steps of whoever holds the pay: lock.
FlowStep ==
  \/ \E opened, answered \in BOOLEAN : CreateSession(opened, answered)
  \/ SessionRecorded
  \/ MarkUnknown
  \/ \E out \in SaleOutcomes : CreatePayment(out)
  \/ FinishAttempt
  \/ \E verdict \in {"capture", "cancel", "unavailable"} : DecideSezzleCapture(verdict)
  \/ \E answered \in BOOLEAN : CaptureOrder(answered)
  \/ \E answered \in BOOLEAN : ReleaseOrder(answered)

RecoveryStep ==
  \/ \E d \in {"wait", "error", "capture", "release", "expire"} : DecideSezzleRecovery(d)
  \/ RecoverLock
  \/ Annotate

EventStep(a) ==
  \/ BindProviderReference(a)
  \/ ReconcileEvent(a)
  \/ ReconcileEventFails(a)

Shopper(a) ==
  \/ \E m \in Methods : StartGatewayPayment(a, m)
  \/ Verify(a)

Provider(a) ==
  \/ \E step \in ProviderSteps : ProviderMoves(a, step)
  \/ EventArrives(a)

Lifecycle ==
  \/ Reserve
  \/ CancelUnpaid
  \/ AdminCancel
  \/ OverrideRelease

Next ==
  \/ \E a \in Attempts : Shopper(a) \/ Provider(a) \/ EventStep(a) \/ RecoverSelect(a)
  \/ FlowStep
  \/ RecoveryStep
  \/ Lifecycle
  \/ ReservationReleaseSweep
  \/ FlowCrash
  \/ RecoveryCrash

Spec == Init /\ [][Next]_vars

\* A request runs to its end unless it crashes.  The jobs run for ever on a
\* timer, each attempt comes to the front of the recovery job's due-first
\* order, and the advisory lock is granted in the order it is asked for, so
\* their steps are strongly fair.  The provider repeats its webhook.  Nothing
\* makes the shopper, the provider's checkout or an operator act.
FairSpec ==
  /\ Spec
  /\ WF_vars(FlowStep)
  /\ SF_vars(RecoveryStep)
  /\ WF_vars(ReservationReleaseSweep)
  /\ \A a \in Attempts : /\ SF_vars(RecoverSelect(a))
                         /\ SF_vars(EventStep(a))
                         /\ WF_vars(EventArrives(a))
-----------------------------------------------------------------------------
(***************************************************************************)
(* Properties.                                                             *)
(***************************************************************************)
\* Every variable keeps its type; tries never exceed the job's maximum and
\* events never exceed theirs (recoverGatewayAttempts, reconcileGatewayEvents).
TypeOK ==
  /\ order \in {"PendingPayment", "Paid", "Cancelled"}
  /\ goods \in {"held", "returned"}
  /\ prepaid \in 0..(Total - 1)
  /\ paid \in Nat
  /\ flagged \in Nat
  /\ att \in [Attempts -> [status : {"none", "settled", "failed"} \cup UnresolvedStatuses,
                           method : {"none", "nmi", "sezzle"}, amount : Nat, ref : BOOLEAN,
                           decision : {"none", "capture", "cancel"},
                           tries : 0..MaxTries, manual : BOOLEAN]]
  /\ pay \in [Attempts -> {"none", "Settled", "Authorized", "Pending", "Declined", "Failed"}]
  /\ prov \in [Attempts -> {"none", "open", "approved", "lapsed", "captured", "denied",
                            "released", "reversed", "rejected"}]
  /\ ev \in [Attempts -> [status : {"none", "pending", "processed", "manual"}, tries : 0..MaxEventTries]]
  /\ flow \in [pc : {"free", "session", "opened", "lost", "sale", "finish", "decide", "capture", "release"},
               a : Attempts \cup {"none"}, by : {"none", "request", "verify", "event", "recovery"},
               res : Results \cup {"none"}, ref : BOOLEAN]
  /\ plan \in [pc : {"idle", "busy", "look", "act", "annotate"}, a : Attempts \cup {"none"},
               decision : {"none", "capture", "release", "expire"}]
  /\ hold \in [state : {"none", "held", "consumed", "released"}, requested : BOOLEAN, overridden : BOOLEAN]
  /\ expired \subseteq Attempts
  /\ faults \in 0..MaxFaults

\* Every captured cent is accounted for: a Paid order was paid its total once,
\* an unpaid or cancelled one only its checkout tenders, and every amount
\* beyond that has been alerted to an operator (applyPaymentResultLocked,
\* MONEY-3 and MONEY-4), whatever order captures, cancels and replays come in.
MoneyAccounted ==
  paid - flagged = IF order = "Paid" THEN Total ELSE prepaid

\* A Paid order still has its stock, its points and its hold: no capture makes
\* an order Paid after a cancel gave them back (money/fsm.ts, settle.ts against
\* cancelUnpaidOrderInSet).
PaidHasGoods ==
  order = "Paid" => goods = "held" /\ hold.state # "released"

\* An attempt says settled exactly when its ledger row does, and no attempt that
\* counts as over leaves a ledger row in flight (finishAttempt and
\* applyPaymentResult commit together).
AttemptMatchesLedger ==
  \A a \in Attempts :
    /\ att[a].status = "settled" <=> pay[a] = "Settled"
    /\ pay[a] \in {"Pending", "Authorized"} => Unresolved(a)

\* An order is never cancelled under a charge: if the provider has captured
\* money for an attempt of a Cancelled order, it is on a session that the
\* recovery job had declared expired (unpaidCancellablePredicate against
\* startGatewayPayment, crashes and lost answers).
NoChargeOnCancelled ==
  \A a \in Attempts : order = "Cancelled" /\ prov[a] = "captured" => a \in expired

\* The shopper is charged twice for one order only through a session that the
\* recovery job had declared expired (the single-active-attempt rule of
\* startGatewayPayment).
ChargedTwiceOnlyAfterExpiry ==
  \A a, b \in Attempts :
    a # b /\ prov[a] = "captured" /\ prov[b] = "captured" => a \in expired \/ b \in expired

\* No stray charge: both of the above.
NoStrayCharge == NoChargeOnCancelled /\ ChargedTwiceOnlyAfterExpiry

\* When a hold was released without an operator's override, no provider work of
\* the order can still move money, and none has moved unrecorded
\* (providerQuiescent).
ReleaseIsSafe ==
  hold.state = "released" /\ ~hold.overridden =>
    \A a \in Attempts :
      /\ prov[a] \notin {"open", "approved"}
      /\ prov[a] = "captured" => pay[a] = "Settled"

\* A settled attempt stays settled: no late expiry, decline or unavailable read
\* that was decided before the capture takes it back (finishAttempt).
SettledSticks ==
  [][\A a \in Attempts : att[a].status = "settled" => att'[a].status = "settled"]_vars

\* A persisted capture decision is final: no later pass changes it, and the
\* engine captures only what it decided to capture (decideSezzleCapture: "A
\* persisted decision is final").
DecisionFinal ==
  [][\A a \in Attempts :
       /\ att[a].decision # "none" => att'[a].decision = att[a].decision
       /\ flow.pc = "capture" /\ flow.a = a /\ prov'[a] # prov[a] => att[a].decision = "capture"]_vars

\* A cancelled order gives back its payment reservation (cancel-unpaid.ts: cancel
\* and "give back what it held: ... and the payment reservation") once none of
\* its attempts is unresolved.
HoldGivenBack ==
  (order = "Cancelled" /\ \A a \in Attempts : ~Unresolved(a))
    ~> (hold.state # "held" \/ \E a \in Attempts : Unresolved(a))
=============================================================================
