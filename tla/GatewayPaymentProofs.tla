------------------------ MODULE GatewayPaymentProofs ------------------------
(***************************************************************************)
(* Machine-checked proofs about the gateway payment of one order, for any  *)
(* number of attempts, methods, tries and crashes and any total.           *)
(*                                                                         *)
(* None of the properties is inductive.  The invariant adds what the code  *)
(* relies on without saying so: an attempt that was not started has left   *)
(* no trace (AttemptInv), what is known at each step of the holder of the  *)
(* pay: lock (FlowInv, PlanInv), that the result it is about to record is  *)
(* true at the provider (ResultInv), and that at most one attempt of the   *)
(* order is not over for the provider (ProviderInv).                       *)
(***************************************************************************)
EXTENDS GatewayPayment, TLAPS

\* What the provider will never turn into money again.
Dead == {"denied", "released", "reversed"}

\* No money can come of the attempt any more, unless its session was declared
\* expired while it was open.
Over(a) == att[a].status = "none" \/ prov[a] \in Dead \/ a \in expired

\* An attempt that was not started has left no trace; the method and the amount
\* of a started one are fixed; the tries of an attempt and of an event run out
\* exactly when they become manual.
AttemptInv ==
  /\ \A a \in Attempts :
       att[a].status = "none" => att[a] = NoAttempt /\ pay[a] = "none" /\ prov[a] = "none"
  /\ \A a \in Attempts :
       att[a].status # "none" => att[a].method # "none" /\ att[a].amount = Total - prepaid
  /\ \A a \in Attempts : ~att[a].manual => att[a].tries < MaxTries
  /\ \A a \in Attempts : ev[a].status = "none" => ev[a].tries = 0
  /\ \A a \in Attempts : ev[a].status = "pending" => ev[a].tries < MaxEventTries
  /\ \A a \in Attempts : ev[a].status # "none" => att[a].method = "sezzle"
  /\ \A a \in expired : att[a].method = "sezzle"

\* Who holds the pay: lock, and what is known at each step of it.
FlowInv ==
  /\ flow.pc = "free" => flow = NoFlow
  /\ flow.pc # "free" => flow.a \in Attempts /\ att[flow.a].status # "none"
  /\ flow.pc \in {"session", "opened", "lost", "sale"} =>
       att[flow.a].status = "processing" /\ pay[flow.a] = "none" /\ flow.by = "request"
  /\ flow.pc \in {"session", "sale"} => prov[flow.a] = "none"
  /\ flow.pc \in {"decide", "capture", "release"} => flow.by = "recovery" /\ flow.ref
  /\ flow.pc = "capture" => att[flow.a].decision = "capture"
  /\ flow.by = "recovery" => plan.pc = "busy" /\ plan.a = flow.a
  /\ plan.pc = "busy" => flow.by = "recovery"
  /\ flow.by = "event" => ev[flow.a].status = "pending"

\* The result the flow is about to record says what is true at the provider.
ResultInv ==
  flow.pc = "finish" =>
    /\ flow.res \in Results
    /\ flow.res = "Settled" => flow.ref /\ prov[flow.a] = "captured"
    /\ flow.res \in {"Declined", "Failed"} =>
         prov[flow.a] \in Dead \/ (flow.by = "recovery" /\ plan.decision = "expire")
    /\ ~flow.ref => flow.res = "Recon" \/ pay[flow.a] = "none"

\* The recovery job works on a started attempt that is not manual.
PlanInv ==
  /\ plan.pc = "idle" => plan = NoPlan
  /\ plan.pc # "idle" => plan.a \in Attempts /\ att[plan.a].status # "none" /\ ~att[plan.a].manual
  /\ plan.pc \in {"look", "act"} \/ plan.decision # "none" => att[plan.a].method = "sezzle"
  /\ plan.pc = "act" => plan.decision # "none"

\* The order's own books.
BooksInv ==
  /\ MoneyAccounted
  /\ order = "PendingPayment" => flagged = 0
  /\ \A a \in Attempts : att[a].status = "settled" => order # "PendingPayment"
  /\ goods = "returned" => order = "Cancelled"
  /\ hold.state = "released" => order = "Cancelled"

\* What an attempt's status and the order's state say of the provider.
ProviderInv ==
  /\ \A a \in Attempts : att[a].status = "settled" => prov[a] = "captured"
  /\ \A a \in Attempts : att[a].status = "failed" => prov[a] \in Dead \/ a \in expired
  /\ order = "Cancelled" => \A a \in Attempts : Over(a)
  /\ \A a, b \in Attempts : a # b => Over(a) \/ Over(b)

ReleaseInv ==
  hold.state = "released" /\ ~hold.overridden =>
    \A a \in Attempts : att[a].status \in {"none", "settled"} \/ prov[a] \in Dead

IInv ==
  /\ TypeOK
  /\ AttemptInv
  /\ FlowInv
  /\ ResultInv
  /\ PlanInv
  /\ AttemptMatchesLedger
  /\ BooksInv
  /\ ProviderInv
  /\ ReleaseInv

AttemptRow ==
  [status : {"none", "settled", "failed"} \cup UnresolvedStatuses,
   method : {"none", "nmi", "sezzle"}, amount : Nat, ref : BOOLEAN,
   decision : {"none", "capture", "cancel"}, tries : 0..MaxTries, manual : BOOLEAN]
PaymentStates == {"none", "Settled", "Authorized", "Pending", "Declined", "Failed"}
ProviderStates ==
  {"none", "open", "approved", "lapsed", "captured", "denied", "released", "reversed", "rejected"}
EventRow == [status : {"none", "pending", "processed", "manual"}, tries : 0..MaxEventTries]
FlowState ==
  [pc : {"free", "session", "opened", "lost", "sale", "finish", "decide", "capture", "release"},
   a : Attempts \cup {"none"}, by : {"none", "request", "verify", "event", "recovery"},
   res : Results \cup {"none"}, ref : BOOLEAN]
PlanState ==
  [pc : {"idle", "busy", "look", "act", "annotate"}, a : Attempts \cup {"none"},
   decision : {"none", "capture", "release", "expire"}]
HoldState ==
  [state : {"none", "held", "consumed", "released"}, requested : BOOLEAN, overridden : BOOLEAN]

-----------------------------------------------------------------------------
(* Frames.                                                                  *)

\* The type invariant, by variable.
LEMMA Types ==
  TypeOK <=> /\ order \in {"PendingPayment", "Paid", "Cancelled"}
             /\ goods \in {"held", "returned"}
             /\ prepaid \in 0..(Total - 1)
             /\ paid \in Nat /\ flagged \in Nat
             /\ att \in [Attempts -> AttemptRow]
             /\ pay \in [Attempts -> PaymentStates]
             /\ prov \in [Attempts -> ProviderStates]
             /\ ev \in [Attempts -> EventRow]
             /\ flow \in FlowState
             /\ plan \in PlanState
             /\ hold \in HoldState
             /\ expired \subseteq Attempts
             /\ faults \in 0..MaxFaults
BY DEF TypeOK, AttemptRow, PaymentStates, ProviderStates, EventRow, FlowState, PlanState, HoldState

\* A step of the pay: lock or of the recovery job that writes no row and calls
\* no provider.
LEMMA ControlStep ==
  ASSUME IInv, UNCHANGED <<money, att, prov, ev, expired>>,
         flow' \in FlowState, plan' \in PlanState, faults' \in 0..MaxFaults,
         FlowInv', ResultInv', PlanInv'
  PROVE  IInv'
<1>1. TypeOK'
  BY Types DEF IInv, TypeOK, FlowState, PlanState, money
<1>2. AttemptInv' /\ AttemptMatchesLedger' /\ BooksInv' /\ ReleaseInv'
  BY DEF IInv, AttemptInv, AttemptMatchesLedger, Unresolved, BooksInv, MoneyAccounted,
         ReleaseInv, money
<1>3. ProviderInv'
  BY DEF IInv, ProviderInv, Over, money
<1> QED BY <1>1, <1>2, <1>3 DEF IInv

-----------------------------------------------------------------------------
(* Steps of the flow and of the recovery job.                               *)

\* What a read of the provider can say (Answer, Answers).
LEMMA AnswerFacts ==
  ASSUME IInv, NEW a \in Attempts, Verifiable(a), NEW r \in Answers(a)
  PROVE  /\ r[1] \in Results /\ r[2] \in BOOLEAN
         /\ r[1] = "Settled" => r[2] /\ prov[a] = "captured"
         /\ r[1] \in {"Declined", "Failed"} => prov[a] \in Dead
         /\ ~r[2] => r[1] = "Recon"
<1>1. att[a].method \in {"none", "nmi", "sezzle"} /\ att[a].ref \in BOOLEAN
  BY DEF IInv, TypeOK
<1>2. Answer(a) \in Results \X BOOLEAN
  BY <1>1 DEF Answer, Results
<1>3. /\ Answer(a)[1] = "Settled" => Answer(a)[2] /\ prov[a] = "captured"
      /\ Answer(a)[1] \in {"Declined", "Failed"} => prov[a] \in Dead
      /\ ~Answer(a)[2] => Answer(a)[1] = "Recon"
  BY <1>1 DEF Answer, Dead
<1>4. CASE r = Answer(a)
  BY <1>2, <1>3, <1>4
<1>5. CASE r = <<"Recon", att[a].ref>>
  BY <1>1, <1>5 DEF Results
<1>6. CASE r = <<"Recon", FALSE>>
  BY <1>6 DEF Results
<1> QED BY <1>4, <1>5, <1>6 DEF Answers

\* A verify starts (verifyGatewayAttempt, verifySezzleAttempt).
LEMMA AskInv ==
  ASSUME IInv, NEW a \in Attempts, NEW by \in {"verify", "event", "recovery"},
         Verifiable(a), Ask(a, by),
         by = "event" => ev[a].status = "pending",
         plan' = IF by = "recovery" THEN [NoPlan EXCEPT !.a = a, !.pc = "busy"] ELSE plan,
         by = "recovery" => plan.pc = "idle" /\ ~att[a].manual,
         UNCHANGED <<money, att, prov, ev, expired, faults>>
  PROVE  IInv'
<1>1. PICK r \in Answers(a) :
        flow' = [pc |-> "finish", a |-> a, by |-> by, res |-> r[1], ref |-> r[2]]
  BY DEF Ask
<1>2. /\ r[1] \in Results /\ r[2] \in BOOLEAN
      /\ r[1] = "Settled" => r[2] /\ prov[a] = "captured"
      /\ r[1] \in {"Declined", "Failed"} => prov[a] \in Dead
      /\ ~r[2] => r[1] = "Recon"
  BY AnswerFacts
<1>3. flow' \in FlowState /\ plan' \in PlanState /\ faults' \in 0..MaxFaults
  BY <1>1, <1>2, Types DEF IInv, FlowState, PlanState, NoPlan
<1>4. flow.pc = "free" /\ flow = NoFlow /\ plan.pc # "busy"
  BY DEF Ask, IInv, FlowInv, NoFlow
<1>5. FlowInv'
  BY <1>1, <1>4 DEF IInv, FlowInv, NoPlan, NoFlow, Verifiable
<1>6. ResultInv'
  BY <1>1, <1>2 DEF ResultInv
<1>7. PlanInv'
  BY <1>4 DEF IInv, PlanInv, NoPlan, Verifiable
<1> QED BY <1>3, <1>5, <1>6, <1>7, ControlStep

\* The shopper's return or an operator's verify.
LEMMA VerifyInv ==
  ASSUME IInv, NEW a \in Attempts, Verify(a)
  PROVE  IInv'
<1>1. Verifiable(a) /\ Ask(a, "verify") /\ UNCHANGED <<money, att, prov, ev, plan, expired, faults>>
  BY DEF Verify
<1> QED BY <1>1, AskInv

\* The event job verifies the attempt of a captured event.
LEMMA ReconcileEventInv ==
  ASSUME IInv, NEW a \in Attempts, ReconcileEvent(a)
  PROVE  IInv'
<1>1. /\ ev[a].status = "pending" /\ att[a].ref /\ flow.pc = "free"
      /\ UNCHANGED <<money, att, prov, ev, plan, expired, faults>>
  BY DEF ReconcileEvent
<1>2. att[a].status # "none"
  BY <1>1 DEF IInv, AttemptInv, NoAttempt
<1>3. CASE att[a].status = "settled"
  <2>1. flow' = [pc |-> "finish", a |-> a, by |-> "event", res |-> "Settled", ref |-> TRUE]
    BY <1>3 DEF ReconcileEvent
  <2>2. flow' \in FlowState /\ plan' \in PlanState /\ faults' \in 0..MaxFaults
    BY <1>1, <2>1, Types DEF IInv, FlowState, Results
  <2>3. flow = NoFlow /\ plan.pc # "busy"
    BY <1>1 DEF IInv, FlowInv, NoFlow
  <2>4. FlowInv' /\ PlanInv'
    BY <1>1, <1>2, <2>1, <2>3 DEF IInv, FlowInv, PlanInv, NoFlow
  <2>5. ResultInv'
    BY <1>1, <1>3, <2>1 DEF IInv, ProviderInv, ResultInv, Results
  <2> QED BY <1>1, <2>2, <2>4, <2>5, ControlStep
<1>4. CASE att[a].status # "settled"
  <2>1. Ask(a, "event") /\ Verifiable(a)
    BY <1>1, <1>2, <1>4 DEF ReconcileEvent, Verifiable
  <2> QED BY <1>1, <2>1, AskInv
<1> QED BY <1>3, <1>4

\* The recovery job takes up an attempt.
LEMMA RecoverSelectInv ==
  ASSUME IInv, NEW a \in Attempts, RecoverSelect(a)
  PROVE  IInv'
<1>1. /\ plan.pc = "idle" /\ Unresolved(a) /\ ~att[a].manual
      /\ UNCHANGED <<money, att, prov, ev, expired, faults>>
  BY DEF RecoverSelect, Selectable
<1>2. CASE Verifiable(a) /\ Ask(a, "recovery") /\ plan' = [NoPlan EXCEPT !.a = a, !.pc = "busy"]
  BY <1>1, <1>2, AskInv
<1>3. CASE plan' = [NoPlan EXCEPT !.a = a, !.pc = "annotate"] /\ UNCHANGED flow
  <2>1. flow' \in FlowState /\ plan' \in PlanState /\ faults' \in 0..MaxFaults
    BY <1>1, <1>3, Types DEF IInv, PlanState, NoPlan
  <2>2. flow.by # "recovery"
    BY <1>1 DEF IInv, FlowInv
  <2>3. FlowInv'
    BY <1>1, <1>3, <2>2 DEF IInv, FlowInv, NoPlan, money
  <2>4. ResultInv'
    BY <1>1, <1>3, <2>2 DEF IInv, ResultInv, money
  <2>5. PlanInv'
    BY <1>1, <1>3 DEF PlanInv, NoPlan, Unresolved, UnresolvedStatuses
  <2> QED BY <1>1, <2>1, <2>3, <2>4, <2>5, ControlStep
<1> QED BY <1>2, <1>3 DEF RecoverSelect

\* The recovery job reads the provider and decides.
LEMMA DecideSezzleRecoveryInv ==
  ASSUME IInv, NEW d \in {"wait", "error", "capture", "release", "expire"}, DecideSezzleRecovery(d)
  PROVE  IInv'
<1>1. /\ plan.pc = "look"
      /\ plan' = IF d \in {"wait", "error"} THEN [plan EXCEPT !.pc = "annotate"]
                 ELSE [plan EXCEPT !.decision = d, !.pc = "act"]
      /\ UNCHANGED <<money, att, prov, ev, flow, expired, faults>>
  BY DEF DecideSezzleRecovery
<1>2. flow' \in FlowState /\ plan' \in PlanState /\ faults' \in 0..MaxFaults
  BY <1>1, Types DEF IInv, PlanState
<1>3. flow.by # "recovery" /\ plan \in PlanState
  BY <1>1, Types DEF IInv, FlowInv
<1>4. FlowInv' /\ ResultInv'
  BY <1>1, <1>3 DEF IInv, FlowInv, ResultInv, PlanState, money
<1>5. PlanInv'
  BY <1>1, <1>3 DEF IInv, PlanInv, PlanState
<1> QED BY <1>1, <1>2, <1>4, <1>5, ControlStep

\* The decision is taken to the pay: lock.
LEMMA RecoverLockInv ==
  ASSUME IInv, RecoverLock
  PROVE  IInv'
<1> DEFINE step == CASE plan.decision = "capture" -> "decide"
                     [] plan.decision = "release" -> "release"
                     [] OTHER -> "finish"
<1>1. /\ plan.pc = "act" /\ flow.pc = "free"
      /\ flow' = [pc |-> step, a |-> plan.a, by |-> "recovery", res |-> "Declined", ref |-> TRUE]
      /\ plan' = [plan EXCEPT !.pc = "busy"]
      /\ UNCHANGED <<money, att, prov, ev, expired, faults>>
  BY DEF RecoverLock
<1>2. /\ step \in {"decide", "release", "finish"}
      /\ step = "finish" => plan.decision = "expire"
  BY <1>1, Types DEF IInv, PlanInv, PlanState
<1> HIDE DEF step
<1>3. plan \in PlanState /\ plan.a \in Attempts /\ att[plan.a].status # "none"
  BY <1>1, Types DEF IInv, PlanInv
<1>4. flow' \in FlowState /\ plan' \in PlanState /\ faults' \in 0..MaxFaults
  BY <1>1, <1>2, <1>3, Types DEF IInv, FlowState, PlanState, Results
<1>5. FlowInv'
  BY <1>1, <1>2, <1>3 DEF FlowInv, PlanState
<1>6. ResultInv'
  BY <1>1, <1>2, <1>3 DEF ResultInv, Results, PlanState
<1>7. PlanInv'
  BY <1>1, <1>3 DEF IInv, PlanInv, PlanState
<1> QED BY <1>1, <1>4, <1>5, <1>6, <1>7, ControlStep

\* The holder of the pay: lock dies.
LEMMA FlowCrashInv ==
  ASSUME IInv, FlowCrash
  PROVE  IInv'
<1>1. /\ flow' = NoFlow
      /\ plan' = IF flow.by = "recovery" THEN NoPlan ELSE plan
      /\ faults < MaxFaults /\ faults' = faults + 1
      /\ UNCHANGED <<money, att, prov, ev, expired>>
  BY DEF FlowCrash
<1>2. flow' \in FlowState /\ plan' \in PlanState /\ faults' \in 0..MaxFaults
  BY <1>1, Types, GatewayAssumption DEF IInv, FlowState, PlanState, NoFlow, NoPlan
<1>3. FlowInv' /\ ResultInv'
  BY <1>1 DEF IInv, FlowInv, ResultInv, NoFlow, NoPlan
<1>4. PlanInv'
  BY <1>1 DEF IInv, PlanInv, NoPlan
<1> QED BY <1>1, <1>2, <1>3, <1>4, ControlStep

\* The recovery job dies between two steps.
LEMMA RecoveryCrashInv ==
  ASSUME IInv, RecoveryCrash
  PROVE  IInv'
<1>1. /\ plan' = NoPlan /\ plan.pc \notin {"idle", "busy"}
      /\ faults < MaxFaults /\ faults' = faults + 1
      /\ UNCHANGED <<money, att, prov, ev, flow, expired>>
  BY DEF RecoveryCrash
<1>2. flow' \in FlowState /\ plan' \in PlanState /\ faults' \in 0..MaxFaults
  BY <1>1, Types, GatewayAssumption DEF IInv, PlanState, NoPlan
<1>3. flow.by # "recovery"
  BY <1>1 DEF IInv, FlowInv
<1>4. FlowInv' /\ ResultInv'
  BY <1>1, <1>3 DEF IInv, FlowInv, ResultInv, NoPlan, money
<1>5. PlanInv'
  BY <1>1 DEF PlanInv, NoPlan
<1> QED BY <1>1, <1>2, <1>4, <1>5, ControlStep

-----------------------------------------------------------------------------
(* Steps that write an attempt without a result.                            *)

\* A row of a started attempt is rewritten: it keeps its method and amount and
\* whether it is settled, failed or unresolved.
LEMMA RowStep ==
  ASSUME IInv, NEW a \in Attempts, NEW row \in AttemptRow,
         att' = [att EXCEPT ![a] = row],
         att[a].status # "none", row.status # "none",
         row.method = att[a].method, row.amount = att[a].amount,
         row.status = "settled" <=> att[a].status = "settled",
         row.status = "failed" <=> att[a].status = "failed",
         ~row.manual => row.tries < MaxTries,
         UNCHANGED <<money, prov, ev, expired, faults>>,
         flow' \in FlowState, plan' \in PlanState,
         FlowInv', ResultInv', PlanInv'
  PROVE  IInv'
<1>1. TypeOK'
  BY Types DEF IInv, TypeOK, AttemptRow, FlowState, PlanState, money
<1>2. /\ \A b \in Attempts : b # a => att'[b] = att[b]
      /\ att'[a] = row
  BY Types DEF IInv
<1>3. AttemptInv'
  BY <1>2 DEF IInv, AttemptInv, money
<1>4. AttemptMatchesLedger'
  BY <1>2 DEF IInv, AttemptMatchesLedger, Unresolved, UnresolvedStatuses, AttemptRow, money
<1>5. BooksInv'
  BY <1>2 DEF IInv, BooksInv, MoneyAccounted, money
<1>6. ProviderInv'
  BY <1>2 DEF IInv, ProviderInv, Over, money
<1>7. ReleaseInv'
  BY <1>2 DEF IInv, ReleaseInv, money
<1> QED BY <1>1, <1>3, <1>4, <1>5, <1>6, <1>7 DEF IInv

\* The flow's own attempt while its request is at the provider.
LEMMA RequestFacts ==
  ASSUME IInv, flow.pc \in {"session", "opened", "lost", "sale"}
  PROVE  /\ flow.a \in Attempts /\ att[flow.a] \in AttemptRow
         /\ att[flow.a].status = "processing" /\ pay[flow.a] = "none"
         /\ flow.by = "request" /\ plan.pc # "busy" /\ flow \in FlowState
BY Types DEF IInv, FlowInv

\* The session is stored on its attempt.
LEMMA SessionRecordedInv ==
  ASSUME IInv, SessionRecorded
  PROVE  IInv'
<1> DEFINE a == flow.a
           row == [att[a] EXCEPT !.status = "pending", !.ref = TRUE]
<1>1. /\ flow.pc = "opened" /\ flow' = NoFlow
      /\ att' = [att EXCEPT ![a].status = "pending", ![a].ref = TRUE]
      /\ UNCHANGED <<money, prov, ev, plan, expired, faults>>
  BY DEF SessionRecorded
<1>2. /\ a \in Attempts /\ att[a] \in AttemptRow
      /\ att[a].status = "processing" /\ plan.pc # "busy"
  BY <1>1, RequestFacts
<1>3. att' = [att EXCEPT ![a] = row] /\ att \in [Attempts -> AttemptRow]
  BY <1>1, <1>2, Types DEF IInv
<1>4. /\ row \in AttemptRow /\ row.status = "pending" /\ row.method = att[a].method
      /\ row.amount = att[a].amount /\ row.manual = att[a].manual /\ row.tries = att[a].tries
  BY <1>2 DEF AttemptRow, UnresolvedStatuses
<1>5. flow' \in FlowState /\ plan' \in PlanState
  BY <1>1, Types DEF IInv, FlowState, NoFlow
<1> HIDE DEF a, row
<1>6. FlowInv' /\ ResultInv'
  BY <1>1, <1>2 DEF FlowInv, ResultInv, NoFlow
<1>7. PlanInv'
  <2>1. \A b \in Attempts : /\ att'[b].method = att[b].method /\ att'[b].manual = att[b].manual
                            /\ att[b].status # "none" => att'[b].status # "none"
    BY <1>2, <1>3, <1>4
  <2>2. plan.pc # "idle" => plan.a \in Attempts
    BY DEF IInv, PlanInv
  <2>3. plan.pc = "idle" => plan.decision = "none"
    BY DEF IInv, PlanInv, NoPlan
  <2> QED BY <1>1, <2>1, <2>2, <2>3 DEF IInv, PlanInv
<1>8. ~row.manual => row.tries < MaxTries
  BY <1>2, <1>4 DEF IInv, AttemptInv
<1> QED BY <1>1, <1>2, <1>3, <1>4, <1>5, <1>6, <1>7, <1>8, RowStep

\* The session request got no answer.
LEMMA MarkUnknownInv ==
  ASSUME IInv, MarkUnknown
  PROVE  IInv'
<1> DEFINE a == flow.a
           row == [att[a] EXCEPT !.status = "unknown"]
<1>1. /\ flow.pc = "lost" /\ flow' = NoFlow
      /\ att' = [att EXCEPT ![a].status = "unknown"]
      /\ UNCHANGED <<money, prov, ev, plan, expired, faults>>
  BY DEF MarkUnknown
<1>2. /\ a \in Attempts /\ att[a] \in AttemptRow
      /\ att[a].status = "processing" /\ plan.pc # "busy"
  BY <1>1, RequestFacts
<1>3. att' = [att EXCEPT ![a] = row] /\ att \in [Attempts -> AttemptRow]
  BY <1>1, <1>2, Types DEF IInv
<1>4. /\ row \in AttemptRow /\ row.status = "unknown" /\ row.method = att[a].method
      /\ row.amount = att[a].amount /\ row.manual = att[a].manual /\ row.tries = att[a].tries
  BY <1>2 DEF AttemptRow, UnresolvedStatuses
<1>5. flow' \in FlowState /\ plan' \in PlanState
  BY <1>1, Types DEF IInv, FlowState, NoFlow
<1> HIDE DEF a, row
<1>6. FlowInv' /\ ResultInv'
  BY <1>1, <1>2 DEF FlowInv, ResultInv, NoFlow
<1>7. PlanInv'
  <2>1. \A b \in Attempts : /\ att'[b].method = att[b].method /\ att'[b].manual = att[b].manual
                            /\ att[b].status # "none" => att'[b].status # "none"
    BY <1>2, <1>3, <1>4
  <2>2. plan.pc # "idle" => plan.a \in Attempts
    BY DEF IInv, PlanInv
  <2>3. plan.pc = "idle" => plan.decision = "none"
    BY DEF IInv, PlanInv, NoPlan
  <2> QED BY <1>1, <2>1, <2>2, <2>3 DEF IInv, PlanInv
<1>8. ~row.manual => row.tries < MaxTries
  BY <1>2, <1>4 DEF IInv, AttemptInv
<1> QED BY <1>1, <1>2, <1>3, <1>4, <1>5, <1>6, <1>7, <1>8, RowStep

\* The event job binds an attempt to its session.
LEMMA BindProviderReferenceInv ==
  ASSUME IInv, NEW a \in Attempts, BindProviderReference(a)
  PROVE  IInv'
<1> DEFINE row == [att[a] EXCEPT !.ref = TRUE]
<1>1. /\ ev[a].status = "pending"
      /\ att' = [att EXCEPT ![a].ref = TRUE]
      /\ UNCHANGED <<money, prov, ev, flow, plan, expired, faults>>
  BY DEF BindProviderReference
<1>2. att \in [Attempts -> AttemptRow] /\ att[a] \in AttemptRow /\ att[a].status # "none"
  BY <1>1, Types DEF IInv, AttemptInv, NoAttempt
<1>3. att' = [att EXCEPT ![a] = row]
  BY <1>1, <1>2
<1>4. /\ row \in AttemptRow /\ row.status = att[a].status /\ row.method = att[a].method
      /\ row.amount = att[a].amount /\ row.manual = att[a].manual /\ row.tries = att[a].tries
      /\ row.decision = att[a].decision
  BY <1>2 DEF AttemptRow
<1> HIDE DEF row
<1>5. flow' \in FlowState /\ plan' \in PlanState
  BY <1>1, Types DEF IInv
<1>6. FlowInv'
  BY <1>1, <1>2, <1>3, <1>4 DEF IInv, FlowInv, money
<1>7. ResultInv' /\ PlanInv'
  BY <1>1, <1>2, <1>3, <1>4 DEF IInv, ResultInv, PlanInv, money
<1>8. ~row.manual => row.tries < MaxTries
  BY <1>4 DEF IInv, AttemptInv
<1>9. /\ row.status # "none"
      /\ row.status = "settled" <=> att[a].status = "settled"
      /\ row.status = "failed" <=> att[a].status = "failed"
  BY <1>2, <1>4
<1>10. UNCHANGED <<money, prov, ev, expired, faults>>
  BY <1>1
<1> QED BY <1>2, <1>3, <1>4, <1>5, <1>6, <1>7, <1>8, <1>9, <1>10, RowStep

\* A try is written down.
LEMMA AnnotateInv ==
  ASSUME IInv, Annotate
  PROVE  IInv'
<1> DEFINE a == plan.a
           last == att[a].tries + 1 >= MaxTries
           row == [att[a] EXCEPT !.tries = att[a].tries + 1, !.manual = last]
<1>1. /\ plan.pc = "annotate" /\ plan' = NoPlan
      /\ UNCHANGED <<money, prov, ev, flow, expired, faults>>
  BY DEF Annotate
<1>2. a \in Attempts /\ att[a].status # "none" /\ ~att[a].manual /\ flow.by # "recovery"
  BY <1>1 DEF IInv, PlanInv, FlowInv
<1>3. att \in [Attempts -> AttemptRow] /\ att[a] \in AttemptRow
  BY <1>2, Types DEF IInv
<1>4. flow' \in FlowState /\ plan' \in PlanState /\ PlanInv'
  BY <1>1, Types DEF IInv, PlanInv, PlanState, NoPlan
<1>5. CASE Unresolved(a)
  <2>1. att' = [att EXCEPT ![a] = row]
    BY <1>3, <1>5 DEF Annotate
  <2>2. att[a].tries < MaxTries /\ att[a].tries \in 0..MaxTries
    BY <1>2, <1>3 DEF IInv, AttemptInv, AttemptRow
  <2>3. row \in AttemptRow /\ (~row.manual => row.tries < MaxTries)
    <3>1. last \in BOOLEAN /\ (~last => att[a].tries + 1 < MaxTries)
      BY <2>2, GatewayAssumption
    <3> HIDE DEF last
    <3>2. att[a].tries + 1 \in 0..MaxTries
      BY <2>2, GatewayAssumption
    <3>3. row \in AttemptRow /\ row.manual = last /\ row.tries = att[a].tries + 1
      BY <1>3, <3>1, <3>2 DEF AttemptRow
    <3> QED BY <3>1, <3>3
  <2>4. /\ row.status = att[a].status /\ row.method = att[a].method
        /\ row.amount = att[a].amount /\ row.decision = att[a].decision
    BY <1>3 DEF AttemptRow
  <2> HIDE DEF a, row
  <2>5. FlowInv'
    BY <1>1, <1>2, <1>3, <2>1, <2>4 DEF IInv, FlowInv, NoPlan, money
  <2>6. ResultInv'
    BY <1>1, <1>2 DEF IInv, ResultInv, money
  <2> QED BY <1>1, <1>2, <1>4, <2>1, <2>3, <2>4, <2>5, <2>6, RowStep
<1>6. CASE ~Unresolved(a)
  <2>1. att' = att
    BY <1>6 DEF Annotate
  <2>2. FlowInv' /\ ResultInv'
    BY <1>1, <1>2, <2>1 DEF IInv, FlowInv, ResultInv, NoPlan, money
  <2>3. faults' \in 0..MaxFaults
    BY <1>1, Types DEF IInv
  <2> QED BY <1>1, <1>4, <2>1, <2>2, <2>3, ControlStep
<1> QED BY <1>5, <1>6

\* The capture decision is taken, or found taken (decideSezzleCapture).
LEMMA DecideSezzleCaptureInv ==
  ASSUME IInv, NEW verdict \in {"capture", "cancel", "unavailable"}, DecideSezzleCapture(verdict)
  PROVE  IInv'
<1> DEFINE a == flow.a
<1>1. flow.pc = "decide" /\ UNCHANGED <<money, prov, ev, expired, faults>>
  BY DEF DecideSezzleCapture
<1>2. /\ a \in Attempts /\ att[a].status # "none" /\ flow.by = "recovery" /\ flow.ref
      /\ plan.pc = "busy" /\ plan.a = a
  BY <1>1 DEF IInv, FlowInv
<1>3. /\ att \in [Attempts -> AttemptRow] /\ att[a] \in AttemptRow
      /\ flow \in FlowState /\ plan \in PlanState /\ faults' \in 0..MaxFaults
  BY <1>1, <1>2, Types DEF IInv
<1>4. ASSUME NEW to \in {"capture", "release"}, flow' = [flow EXCEPT !.pc = to],
             to = "capture" => att[a].decision = "capture", UNCHANGED <<att, plan>>
      PROVE  IInv'
  <2>1. flow' \in FlowState /\ plan' \in PlanState
    BY <1>3, <1>4 DEF FlowState
  <2>2. FlowInv' /\ ResultInv'
    BY <1>1, <1>2, <1>3, <1>4 DEF IInv, FlowInv, ResultInv, FlowState, money
  <2>3. PlanInv'
    BY <1>4 DEF IInv, PlanInv
  <2> QED BY <1>1, <1>3, <1>4, <2>1, <2>2, <2>3, ControlStep
<1>5. ASSUME GiveUpTry, UNCHANGED att
      PROVE  IInv'
  <2>1. flow' = NoFlow /\ plan' = [plan EXCEPT !.pc = "annotate"]
    BY <1>5 DEF GiveUpTry
  <2>2. flow' \in FlowState /\ plan' \in PlanState
    BY <1>3, <2>1 DEF FlowState, PlanState, NoFlow
  <2>3. FlowInv' /\ ResultInv'
    BY <1>3, <2>1 DEF FlowInv, ResultInv, NoFlow, PlanState
  <2>4. PlanInv'
    BY <1>2, <1>3, <1>5, <2>1 DEF IInv, PlanInv, PlanState
  <2> QED BY <1>1, <1>3, <1>5, <2>2, <2>3, <2>4, ControlStep
<1>6. ASSUME verdict # "unavailable",
             att' = [att EXCEPT ![a].decision = verdict],
             flow' = [flow EXCEPT !.pc = IF verdict = "capture" THEN "capture" ELSE "release"],
             UNCHANGED plan
      PROVE  IInv'
  <2> DEFINE row == [att[a] EXCEPT !.decision = verdict]
  <2>1. att' = [att EXCEPT ![a] = row]
    BY <1>2, <1>3, <1>6
  <2>2. /\ row \in AttemptRow /\ row.status = att[a].status /\ row.method = att[a].method
        /\ row.amount = att[a].amount /\ row.manual = att[a].manual /\ row.tries = att[a].tries
        /\ row.decision = verdict
    BY <1>3, <1>6 DEF AttemptRow
  <2>3. flow' \in FlowState /\ plan' \in PlanState
    BY <1>3, <1>6 DEF FlowState
  <2> HIDE DEF row
  <2>4. FlowInv' /\ ResultInv'
    BY <1>1, <1>2, <1>3, <1>6, <2>1, <2>2 DEF IInv, FlowInv, ResultInv, FlowState, money
  <2>5. PlanInv'
    BY <1>2, <1>3, <1>6, <2>1, <2>2 DEF IInv, PlanInv
  <2>6. ~row.manual => row.tries < MaxTries
    BY <1>2, <2>2 DEF IInv, AttemptInv
  <2> QED BY <1>1, <1>2, <2>1, <2>2, <2>3, <2>4, <2>5, <2>6, RowStep
<1>7. CASE att[a].decision # "none"
  BY <1>3, <1>4, <1>7 DEF DecideSezzleCapture, AttemptRow
<1>8. CASE att[a].decision = "none" /\ ~Payable(a)
  BY <1>4, <1>8 DEF DecideSezzleCapture
<1>9. CASE att[a].decision = "none" /\ Payable(a) /\ verdict = "unavailable"
  BY <1>5, <1>9 DEF DecideSezzleCapture
<1>10. CASE att[a].decision = "none" /\ Payable(a) /\ verdict # "unavailable"
  BY <1>6, <1>10 DEF DecideSezzleCapture
<1> QED BY <1>7, <1>8, <1>9, <1>10

\* A payment starts: every other attempt is over (startGatewayPayment).
LEMMA StartGatewayPaymentInv ==
  ASSUME IInv, NEW a \in Attempts, NEW m \in Methods, StartGatewayPayment(a, m)
  PROVE  IInv'
<1> DEFINE row == [NoAttempt EXCEPT !.status = "processing", !.method = m, !.amount = Due]
           step == IF m = "sezzle" THEN "session" ELSE "sale"
<1>1. /\ flow.pc = "free" /\ att[a].status = "none" /\ order = "PendingPayment"
      /\ \A b \in Attempts : ~Unresolved(b)
      /\ att' = [att EXCEPT ![a] = row]
      /\ flow' = [NoFlow EXCEPT !.pc = step, !.a = a, !.by = "request"]
      /\ UNCHANGED <<money, prov, ev, plan, expired, faults>>
  BY DEF StartGatewayPayment
<1>2. Due = Total - prepaid /\ Due \in Nat
  BY <1>1, Types, GatewayAssumption DEF IInv, BooksInv, MoneyAccounted, Due
<1>3. m \in {"nmi", "sezzle"} /\ 0 < MaxTries /\ 0 \in 0..MaxTries
  BY GatewayAssumption
<1>4. /\ row \in AttemptRow /\ row.status = "processing" /\ row.method = m
      /\ row.amount = Total - prepaid /\ ~row.manual /\ row.tries = 0
  BY <1>2, <1>3 DEF AttemptRow, NoAttempt, UnresolvedStatuses
<1>5. /\ step \in {"session", "sale"}
      /\ flow'.pc = step /\ flow'.a = a /\ flow'.by = "request" /\ flow' \in FlowState
  BY <1>1 DEF NoFlow, FlowState
<1>6. att \in [Attempts -> AttemptRow] /\ ev \in [Attempts -> EventRow]
  BY Types DEF IInv
<1>7. pay[a] = "none" /\ prov[a] = "none" /\ ev[a].status = "none" /\ a \notin expired
  BY <1>1 DEF IInv, AttemptInv, NoAttempt
<1>8. plan.pc # "idle" => plan.a \in Attempts /\ plan.a # a
  BY <1>1 DEF IInv, PlanInv
<1> HIDE DEF row, step
<1>9. att'[a] = row /\ \A b \in Attempts : b # a => att'[b] = att[b]
  BY <1>1, <1>6
<1>10. plan.pc # "busy" /\ flow.by = "none"
  BY <1>1 DEF IInv, FlowInv, NoFlow
<1>11. TypeOK'
  BY <1>1, <1>4, <1>5, <1>6, Types DEF IInv, TypeOK, AttemptRow, FlowState, money
<1>12. AttemptInv'
  <2>1. expired \subseteq Attempts
    BY Types DEF IInv
  <2>2. /\ \A b \in Attempts : att'[b].status = "none" =>
             att'[b] = NoAttempt /\ pay'[b] = "none" /\ prov'[b] = "none"
        /\ \A b \in Attempts :
             att'[b].status # "none" => att'[b].method # "none" /\ att'[b].amount = Total - prepaid'
    BY <1>1, <1>3, <1>4, <1>9 DEF IInv, AttemptInv, money
  <2>3. /\ \A b \in Attempts : ~att'[b].manual => att'[b].tries < MaxTries
        /\ \A b \in Attempts : ev'[b].status # "none" => att'[b].method = "sezzle"
    BY <1>1, <1>3, <1>4, <1>7, <1>9 DEF IInv, AttemptInv
  <2>4. \A b \in expired' : att'[b].method = "sezzle"
    BY <1>1, <1>7, <1>9, <2>1 DEF IInv, AttemptInv
  <2> QED BY <1>1, <2>2, <2>3, <2>4 DEF IInv, AttemptInv
<1>13. FlowInv'
  BY <1>1, <1>4, <1>5, <1>7, <1>9, <1>10 DEF FlowInv, money
<1>14. ResultInv'
  BY <1>5 DEF ResultInv
<1>15. PlanInv'
  <2>1. plan.pc = "idle" => plan.decision = "none"
    BY DEF IInv, PlanInv, NoPlan
  <2> QED BY <1>1, <1>8, <1>9, <2>1 DEF IInv, PlanInv
<1>16. AttemptMatchesLedger'
  BY <1>1, <1>4, <1>7, <1>9 DEF IInv, AttemptMatchesLedger, Unresolved, money
<1>17. BooksInv'
  BY <1>1, <1>4, <1>9 DEF IInv, BooksInv, MoneyAccounted, money
<1>18. ProviderInv'
  <2>1. ASSUME NEW b \in Attempts, b # a
        PROVE  Over(b)' /\ Over(b)
    <3>1. att[b].status # "settled" /\ att[b] \in AttemptRow
      BY <1>1, <1>6 DEF IInv, BooksInv
    <3>2. att[b].status \in {"none", "failed"}
      BY <1>1, <3>1 DEF Unresolved, UnresolvedStatuses, AttemptRow
    <3> QED BY <1>1, <1>9, <2>1, <3>2 DEF IInv, ProviderInv, Over
  <2>2. order' # "Cancelled"
    BY <1>1 DEF money
  <2> QED BY <1>1, <1>4, <1>9, <2>1, <2>2 DEF IInv, ProviderInv
<1>19. ReleaseInv'
  BY <1>1 DEF IInv, BooksInv, ReleaseInv, money
<1> QED BY <1>11, <1>12, <1>13, <1>14, <1>15, <1>16, <1>17, <1>18, <1>19 DEF IInv

-----------------------------------------------------------------------------
(* The provider.                                                            *)

\* What is true at the provider changes for a started attempt, never out of a
\* dead state or a capture.
LEMMA ProviderStep ==
  ASSUME IInv, NEW a \in Attempts, NEW p \in ProviderStates,
         att[a].status # "none",
         prov' = [prov EXCEPT ![a] = p],
         prov[a] \in Dead => p \in Dead,
         prov[a] = "captured" => p = "captured",
         UNCHANGED <<money, att, ev, expired, faults>>,
         flow' \in FlowState, plan' \in PlanState,
         FlowInv', ResultInv', PlanInv'
  PROVE  IInv'
<1>1. TypeOK'
  BY Types DEF IInv, TypeOK, ProviderStates, FlowState, PlanState, money
<1>2. /\ \A b \in Attempts : b # a => prov'[b] = prov[b]
      /\ prov'[a] = p
  BY Types DEF IInv
<1>3. AttemptInv'
  BY <1>2 DEF IInv, AttemptInv, money
<1>4. AttemptMatchesLedger' /\ BooksInv'
  BY DEF IInv, AttemptMatchesLedger, Unresolved, BooksInv, MoneyAccounted, money
<1>5. ProviderInv'
  <2>1. \A b \in Attempts : Over(b) => Over(b)'
    BY <1>2 DEF Over
  <2> QED BY <1>2, <2>1 DEF IInv, ProviderInv, money
<1>6. ReleaseInv'
  BY <1>2 DEF IInv, ReleaseInv, money
<1> QED BY <1>1, <1>3, <1>4, <1>5, <1>6 DEF IInv

\* The session request (createSession).
LEMMA CreateSessionInv ==
  ASSUME IInv, NEW opened \in BOOLEAN, NEW answered \in BOOLEAN, CreateSession(opened, answered)
  PROVE  IInv'
<1> DEFINE a == flow.a
           p == IF opened THEN "open" ELSE prov[a]
           step == IF answered THEN "opened" ELSE "lost"
<1>1. /\ flow.pc = "session"
      /\ prov' = IF opened THEN [prov EXCEPT ![a] = "open"] ELSE prov
      /\ flow' = [flow EXCEPT !.pc = step]
      /\ UNCHANGED <<money, att, ev, plan, expired, faults>>
  BY DEF CreateSession
<1>2. /\ a \in Attempts /\ att[a].status = "processing" /\ pay[a] = "none"
      /\ flow.by = "request" /\ plan.pc # "busy" /\ flow \in FlowState /\ prov[a] = "none"
  BY <1>1, RequestFacts DEF IInv, FlowInv
<1>3. prov' = [prov EXCEPT ![a] = p] /\ p \in ProviderStates
  BY <1>1, <1>2, Types DEF IInv, ProviderStates
<1>4. flow' \in FlowState /\ plan' \in PlanState /\ step \in {"opened", "lost"}
  BY <1>1, <1>2, Types DEF IInv, FlowState
<1>5. prov[a] \notin Dead
  BY <1>2 DEF Dead
<1> HIDE DEF a, p, step
<1>6. FlowInv' /\ ResultInv'
  BY <1>1, <1>2, <1>4 DEF IInv, FlowInv, ResultInv, FlowState, money, a
<1>7. PlanInv'
  BY <1>1 DEF IInv, PlanInv
<1> QED BY <1>1, <1>2, <1>3, <1>4, <1>5, <1>6, <1>7, ProviderStep

\* What a sale can come to (SaleOutcomes).
LEMMA SaleFacts ==
  ASSUME NEW out \in SaleOutcomes
  PROVE  /\ out[1] \in ProviderStates /\ out[2] \in Results /\ out[3] \in BOOLEAN
         /\ out[2] = "Settled" => out[3] /\ out[1] = "captured"
         /\ out[2] \in {"Declined", "Failed"} => out[1] \in Dead
<1> USE DEF ProviderStates, Results, Dead
<1>1. CASE out = <<"captured", "Settled", TRUE>>
  BY <1>1
<1>2. CASE out = <<"captured", "Recon", FALSE>>
  BY <1>2
<1>3. CASE out = <<"none", "Recon", FALSE>>
  BY <1>3
<1>4. CASE out = <<"denied", "Declined", TRUE>>
  BY <1>4
<1>5. CASE out = <<"denied", "Declined", FALSE>>
  BY <1>5
<1>6. CASE out = <<"denied", "Failed", FALSE>>
  BY <1>6
<1>7. CASE out = <<"denied", "Recon", TRUE>>
  BY <1>7
<1>8. CASE out = <<"denied", "Recon", FALSE>>
  BY <1>8
<1>9. CASE out = <<"reversed", "Declined", TRUE>>
  BY <1>9
<1>10. CASE out = <<"reversed", "Recon", TRUE>>
  BY <1>10
<1>11. CASE out = <<"rejected", "Recon", TRUE>>
  BY <1>11
<1>12. CASE out = <<"rejected", "Recon", FALSE>>
  BY <1>12
<1> QED BY <1>1, <1>2, <1>3, <1>4, <1>5, <1>6, <1>7, <1>8, <1>9, <1>10, <1>11, <1>12 DEF SaleOutcomes

\* The NMI sale (createPayment).
LEMMA CreatePaymentInv ==
  ASSUME IInv, NEW out \in SaleOutcomes, CreatePayment(out)
  PROVE  IInv'
<1> DEFINE a == flow.a
<1>1. /\ flow.pc = "sale"
      /\ prov' = [prov EXCEPT ![a] = out[1]]
      /\ flow' = [flow EXCEPT !.pc = "finish", !.res = out[2], !.ref = out[3]]
      /\ UNCHANGED <<money, att, ev, plan, expired, faults>>
  BY DEF CreatePayment
<1>2. /\ a \in Attempts /\ att[a].status = "processing" /\ pay[a] = "none"
      /\ flow.by = "request" /\ plan.pc # "busy" /\ flow \in FlowState /\ prov[a] = "none"
  BY <1>1, RequestFacts DEF IInv, FlowInv
<1>3. /\ out[1] \in ProviderStates /\ out[2] \in Results /\ out[3] \in BOOLEAN
      /\ out[2] = "Settled" => out[3] /\ out[1] = "captured"
      /\ out[2] \in {"Declined", "Failed"} => out[1] \in Dead
  BY SaleFacts
<1>4. flow' \in FlowState /\ plan' \in PlanState
  BY <1>1, <1>2, <1>3, Types DEF IInv, FlowState
<1>5. prov[a] \notin Dead
  BY <1>2 DEF Dead
<1>6. prov'[a] = out[1]
  BY <1>1, <1>2, Types DEF IInv
<1>7. FlowInv'
  BY <1>1, <1>2 DEF IInv, FlowInv, FlowState, money
<1>8. ResultInv'
  BY <1>1, <1>2, <1>3, <1>6 DEF ResultInv, FlowState, money
<1>9. PlanInv'
  BY <1>1 DEF IInv, PlanInv
<1> QED BY <1>1, <1>2, <1>3, <1>4, <1>5, <1>7, <1>8, <1>9, ProviderStep

\* The recovery job gives a try up after a call to the provider.
LEMMA GiveUpInv ==
  ASSUME IInv, NEW a \in Attempts, NEW p \in ProviderStates,
         flow.pc \in {"capture", "release"}, flow.a = a, GiveUpTry,
         prov' = [prov EXCEPT ![a] = p],
         prov[a] \in Dead => p \in Dead,
         prov[a] = "captured" => p = "captured",
         UNCHANGED <<money, att, ev, expired, faults>>
  PROVE  IInv'
<1>1. flow' = NoFlow /\ plan' = [plan EXCEPT !.pc = "annotate"]
  BY DEF GiveUpTry
<1>2. /\ att[a].status # "none" /\ plan.pc = "busy" /\ plan.a = a
      /\ flow \in FlowState /\ plan \in PlanState
  BY Types DEF IInv, FlowInv
<1>3. flow' \in FlowState /\ plan' \in PlanState
  BY <1>1, <1>2 DEF FlowState, PlanState, NoFlow
<1>4. FlowInv' /\ ResultInv'
  BY <1>1, <1>2 DEF FlowInv, ResultInv, NoFlow, PlanState
<1>5. PlanInv'
  BY <1>1, <1>2 DEF IInv, PlanInv, PlanState
<1> QED BY <1>2, <1>3, <1>4, <1>5, ProviderStep

\* The recovery job has the provider's answer.
LEMMA AnsweredInv ==
  ASSUME IInv, NEW a \in Attempts, NEW p \in ProviderStates,
         NEW r \in {"Settled", "Declined"},
         flow.pc \in {"capture", "release"}, flow.a = a,
         flow' = [flow EXCEPT !.pc = "finish", !.res = r], UNCHANGED plan,
         r = "Settled" => p = "captured", r = "Declined" => p \in Dead,
         prov' = [prov EXCEPT ![a] = p],
         prov[a] \in Dead => p \in Dead,
         prov[a] = "captured" => p = "captured",
         UNCHANGED <<money, att, ev, expired, faults>>
  PROVE  IInv'
<1>1. /\ att[a].status # "none" /\ plan.pc = "busy" /\ plan.a = a
      /\ flow.by = "recovery" /\ flow.ref /\ flow \in FlowState /\ plan \in PlanState
  BY Types DEF IInv, FlowInv
<1>2. flow' \in FlowState /\ plan' \in PlanState
  BY <1>1 DEF FlowState, Results
<1>3. prov'[a] = p
  BY Types DEF IInv
<1>4. FlowInv'
  BY <1>1 DEF IInv, FlowInv, FlowState, money
<1>5. ResultInv'
  BY <1>1, <1>3 DEF ResultInv, FlowState, Results
<1>6. PlanInv'
  BY DEF IInv, PlanInv
<1> QED BY <1>1, <1>2, <1>4, <1>5, <1>6, ProviderStep

\* The capture call (captureOrder).
LEMMA CaptureOrderInv ==
  ASSUME IInv, NEW answered \in BOOLEAN, CaptureOrder(answered)
  PROVE  IInv'
<1> DEFINE a == flow.a
<1>1. /\ flow.pc = "capture" /\ a \in Attempts /\ prov \in [Attempts -> ProviderStates]
      /\ UNCHANGED <<money, att, ev, expired, faults>>
  BY Types DEF CaptureOrder, IInv, FlowInv
<1>2. prov[a] \in {"approved", "captured"} => prov[a] \notin Dead
  BY DEF Dead
<1>3. CASE answered
  <2>1. /\ prov[a] \in {"approved", "captured"}
        /\ prov' = [prov EXCEPT ![a] = "captured"]
        /\ flow' = [flow EXCEPT !.pc = "finish", !.res = "Settled"]
        /\ UNCHANGED plan
    BY <1>3 DEF CaptureOrder
  <2>2. "captured" \in ProviderStates
    BY DEF ProviderStates
  <2> HIDE DEF a
  <2> QED BY <1>1, <1>2, <2>1, <2>2, AnsweredInv DEF a
<1>4. CASE ~answered
  <2>1. /\ GiveUpTry
        /\ \/ prov' = prov
           \/ prov[a] \in {"approved", "captured"} /\ prov' = [prov EXCEPT ![a] = "captured"]
    BY <1>4 DEF CaptureOrder
  <2>2. \/ prov' = [prov EXCEPT ![a] = prov[a]]
        \/ prov[a] \in {"approved", "captured"} /\ prov' = [prov EXCEPT ![a] = "captured"]
    BY <1>1, <2>1
  <2>3. "captured" \in ProviderStates /\ prov[a] \in ProviderStates
    BY <1>1 DEF ProviderStates
  <2>4. CASE prov' = [prov EXCEPT ![a] = prov[a]]
    BY <1>1, <2>1, <2>3, <2>4, GiveUpInv
  <2>5. CASE prov[a] \in {"approved", "captured"} /\ prov' = [prov EXCEPT ![a] = "captured"]
    BY <1>1, <1>2, <2>1, <2>3, <2>5, GiveUpInv
  <2> QED BY <2>2, <2>4, <2>5
<1> QED BY <1>3, <1>4

\* The release call (releaseOrder).
LEMMA ReleaseOrderInv ==
  ASSUME IInv, NEW answered \in BOOLEAN, ReleaseOrder(answered)
  PROVE  IInv'
<1> DEFINE a == flow.a
<1>1. /\ flow.pc = "release" /\ a \in Attempts /\ prov \in [Attempts -> ProviderStates]
      /\ UNCHANGED <<money, att, ev, expired, faults>>
  BY Types DEF ReleaseOrder, IInv, FlowInv
<1>2. "released" \in Dead /\ "released" \in ProviderStates
  BY DEF Dead, ProviderStates
<1>3. CASE answered
  <2>1. /\ prov[a] \in {"approved", "lapsed", "released"}
        /\ prov' = [prov EXCEPT ![a] = "released"]
        /\ flow' = [flow EXCEPT !.pc = "finish", !.res = "Declined"]
        /\ UNCHANGED plan
    BY <1>3 DEF ReleaseOrder
  <2> QED BY <1>1, <1>2, <2>1, AnsweredInv
<1>4. CASE ~answered
  <2>1. /\ GiveUpTry
        /\ \/ prov' = prov
           \/ /\ prov[a] \in {"approved", "lapsed", "released"}
              /\ prov' = [prov EXCEPT ![a] = "released"]
    BY <1>4 DEF ReleaseOrder
  <2>2. \/ prov' = [prov EXCEPT ![a] = prov[a]]
        \/ /\ prov[a] \in {"approved", "lapsed", "released"}
           /\ prov' = [prov EXCEPT ![a] = "released"]
    BY <1>1, <2>1
  <2>3. prov[a] \in ProviderStates
    BY <1>1
  <2>4. CASE prov' = [prov EXCEPT ![a] = prov[a]]
    BY <1>1, <2>1, <2>3, <2>4, GiveUpInv
  <2>5. CASE /\ prov[a] \in {"approved", "lapsed", "released"}
             /\ prov' = [prov EXCEPT ![a] = "released"]
    BY <1>1, <1>2, <2>1, <2>5, GiveUpInv
  <2> QED BY <2>2, <2>4, <2>5
<1> QED BY <1>3, <1>4

\* The shopper or the provider moves a session on.
LEMMA ProviderMovesInv ==
  ASSUME IInv, NEW a \in Attempts, NEW step \in ProviderSteps, ProviderMoves(a, step)
  PROVE  IInv'
<1>1. /\ att[a].method = "sezzle" /\ prov[a] = step[1]
      /\ prov' = [prov EXCEPT ![a] = step[2]]
      /\ UNCHANGED <<money, att, ev, flow, plan, expired, faults>>
  BY DEF ProviderMoves
<1>2. step[1] \in {"open", "approved"} /\ step[2] \in ProviderStates
  BY DEF ProviderSteps, ProviderStates
<1>3. att[a].status # "none"
  BY <1>1 DEF IInv, AttemptInv, NoAttempt
<1>4. prov[a] \notin Dead /\ prov[a] \notin {"captured", "none"}
  BY <1>1, <1>2 DEF Dead
<1>5. \A b \in Attempts : b # a => prov'[b] = prov[b]
  BY <1>1, Types DEF IInv
<1>6. FlowInv'
  BY <1>1, <1>4, <1>5 DEF IInv, FlowInv, money
<1>7. ResultInv'
  BY <1>1, <1>4, <1>5 DEF IInv, FlowInv, ResultInv, money
<1>8. PlanInv' /\ flow' \in FlowState /\ plan' \in PlanState
  BY <1>1, Types DEF IInv, PlanInv
<1> QED BY <1>1, <1>2, <1>3, <1>4, <1>6, <1>7, <1>8, ProviderStep

-----------------------------------------------------------------------------
(* Events.                                                                  *)

\* The event of one attempt changes.
LEMMA EventWrite ==
  ASSUME IInv, NEW a \in Attempts, NEW e \in EventRow,
         ev' = [ev EXCEPT ![a] = e],
         att[a].method = "sezzle", e.status # "none",
         e.status = "pending" => e.tries < MaxEventTries
  PROVE  /\ ev' \in [Attempts -> EventRow]
         /\ \A b \in Attempts : ev'[b].status = "none" => ev'[b].tries = 0
         /\ \A b \in Attempts : ev'[b].status = "pending" => ev'[b].tries < MaxEventTries
         /\ \A b \in Attempts : ev'[b].status # "none" => att[b].method = "sezzle"
<1>1. ev \in [Attempts -> EventRow]
  BY Types DEF IInv
<1>2. ev'[a] = e /\ \A b \in Attempts : b # a => ev'[b] = ev[b]
  BY <1>1
<1> QED BY <1>1, <1>2 DEF IInv, AttemptInv

\* A step that writes one event and nothing else.
LEMMA EventStepInv ==
  ASSUME IInv, NEW a \in Attempts, NEW e \in EventRow,
         ev' = [ev EXCEPT ![a] = e],
         att[a].method = "sezzle", e.status # "none",
         e.status = "pending" => e.tries < MaxEventTries,
         ~(flow.by = "event" /\ flow.a = a),
         UNCHANGED <<money, att, prov, flow, plan, expired, faults>>
  PROVE  IInv'
<1>1. /\ ev' \in [Attempts -> EventRow]
      /\ \A b \in Attempts : ev'[b].status = "none" => ev'[b].tries = 0
      /\ \A b \in Attempts : ev'[b].status = "pending" => ev'[b].tries < MaxEventTries
      /\ \A b \in Attempts : ev'[b].status # "none" => att[b].method = "sezzle"
  BY EventWrite
<1>2. TypeOK'
  BY <1>1, Types DEF IInv, TypeOK, EventRow, money
<1>3. AttemptInv'
  BY <1>1 DEF IInv, AttemptInv, money
<1>4. FlowInv'
  <2>1. flow.by = "event" => flow.a \in Attempts
    BY DEF IInv, FlowInv, NoFlow
  <2>2. \A b \in Attempts : b # a => ev'[b] = ev[b]
    BY Types DEF IInv
  <2> QED BY <2>1, <2>2 DEF IInv, FlowInv, money
<1>5. ResultInv' /\ PlanInv' /\ AttemptMatchesLedger' /\ BooksInv' /\ ReleaseInv'
  BY DEF IInv, ResultInv, PlanInv, AttemptMatchesLedger, Unresolved, BooksInv, MoneyAccounted,
         ReleaseInv, money
<1>6. ProviderInv'
  BY DEF IInv, ProviderInv, Over, money
<1> QED BY <1>2, <1>3, <1>4, <1>5, <1>6 DEF IInv

\* The captured event is stored.
LEMMA EventArrivesInv ==
  ASSUME IInv, NEW a \in Attempts, EventArrives(a)
  PROVE  IInv'
<1> DEFINE e == [ev[a] EXCEPT !.status = "pending"]
<1>1. /\ att[a].method = "sezzle" /\ ev[a].status = "none"
      /\ ev' = [ev EXCEPT ![a].status = "pending"]
      /\ UNCHANGED <<money, att, prov, flow, plan, expired, faults>>
  BY DEF EventArrives
<1>2. ev \in [Attempts -> EventRow] /\ ev[a] \in EventRow /\ ev[a].tries = 0
  BY <1>1, Types DEF IInv, AttemptInv
<1>3. ev' = [ev EXCEPT ![a] = e] /\ e \in EventRow /\ e.status = "pending" /\ e.tries = 0
  BY <1>1, <1>2 DEF EventRow
<1>4. e.tries < MaxEventTries
  BY <1>3, GatewayAssumption
<1>5. ~(flow.by = "event" /\ flow.a = a)
  BY <1>1 DEF IInv, FlowInv
<1> HIDE DEF e
<1> QED BY <1>1, <1>3, <1>4, <1>5, EventStepInv

\* What a pass over an event leaves (reconcileGatewayEvents).
LEMMA EventAfterFacts ==
  ASSUME NEW e \in EventRow, e.tries < MaxEventTries, NEW st
  PROVE  /\ EventAfter(e, st) \in EventRow
         /\ EventAfter(e, st).status # "none"
         /\ EventAfter(e, st).status = "pending" => EventAfter(e, st).tries < MaxEventTries
BY GatewayAssumption DEF EventAfter, EventRow

\* A pass that could not read the provider.
LEMMA ReconcileEventFailsInv ==
  ASSUME IInv, NEW a \in Attempts, ReconcileEventFails(a)
  PROVE  IInv'
<1>1. /\ ev[a].status = "pending" /\ ~(flow.by = "event" /\ flow.a = a)
      /\ ev' = [ev EXCEPT ![a] = EventAfter(ev[a], "error")]
      /\ UNCHANGED <<money, att, prov, flow, plan, expired, faults>>
  BY DEF ReconcileEventFails
<1>2. ev[a] \in EventRow /\ ev[a].tries < MaxEventTries /\ att[a].method = "sezzle"
  BY <1>1, Types DEF IInv, AttemptInv
<1> QED BY <1>1, <1>2, EventAfterFacts, EventStepInv

-----------------------------------------------------------------------------
(* The reservation and the unpaid cancel.                                   *)

\* A step that writes only the reservation, and releases it only when the
\* provider is quiescent or an operator overrides.
LEMMA HoldStep ==
  ASSUME IInv, hold' \in HoldState,
         hold'.state = "released" => order = "Cancelled",
         hold'.state = "released" /\ ~hold'.overridden =>
           (hold.state = "released" /\ ~hold.overridden) \/ Quiescent,
         UNCHANGED <<order, goods, prepaid, paid, flagged, pay, att, prov, ev, flow, plan,
                     expired, faults>>
  PROVE  IInv'
<1>1. TypeOK'
  BY Types DEF IInv, TypeOK, HoldState
<1>2. AttemptInv' /\ FlowInv' /\ ResultInv' /\ PlanInv' /\ AttemptMatchesLedger' /\ BooksInv'
  BY DEF IInv, AttemptInv, FlowInv, ResultInv, PlanInv, AttemptMatchesLedger, Unresolved,
         BooksInv, MoneyAccounted
<1>3. ProviderInv'
  BY DEF IInv, ProviderInv, Over
<1>4. Quiescent => \A a \in Attempts : att[a].status \in {"none", "settled"} \/ prov[a] \in Dead
  BY DEF IInv, AttemptInv, ProviderInv, Quiescent, AuthorizationReleased
<1>5. ReleaseInv'
  BY <1>4 DEF IInv, ReleaseInv
<1> QED BY <1>1, <1>2, <1>3, <1>5 DEF IInv

LEMMA ReserveInv ==
  ASSUME IInv, Reserve
  PROVE  IInv'
<1>1. /\ hold' = [NoHold EXCEPT !.state = "held"]
      /\ UNCHANGED <<order, goods, prepaid, paid, flagged, pay, att, prov, ev, flow, plan,
                     expired, faults>>
  BY DEF Reserve
<1>2. hold' \in HoldState /\ hold'.state = "held"
  BY <1>1 DEF HoldState, NoHold
<1> QED BY <1>1, <1>2, HoldStep

LEMMA OverrideReleaseInv ==
  ASSUME IInv, OverrideRelease
  PROVE  IInv'
<1>1. /\ order = "Cancelled" /\ hold' = [hold EXCEPT !.state = "released", !.overridden = TRUE]
      /\ UNCHANGED <<order, goods, prepaid, paid, flagged, pay, att, prov, ev, flow, plan,
                     expired, faults>>
  BY DEF OverrideRelease
<1>2. hold' \in HoldState /\ hold'.overridden
  BY <1>1, Types DEF IInv, HoldState
<1> QED BY <1>1, <1>2, HoldStep

\* settleRelease keeps the row well formed and releases only when quiescent.
LEMMA SettledHoldFacts ==
  ASSUME NEW h \in HoldState
  PROVE  /\ SettledHold(h) \in HoldState
         /\ SettledHold(h).state = "released" => h.state = "released" \/ Quiescent
         /\ SettledHold(h).overridden = h.overridden
BY DEF SettledHold, HoldState

LEMMA ReservationReleaseSweepInv ==
  ASSUME IInv, ReservationReleaseSweep
  PROVE  IInv'
<1>1. /\ order = "Cancelled" /\ hold.state = "held" /\ hold' = SettledHold(hold)
      /\ UNCHANGED <<order, goods, prepaid, paid, flagged, pay, att, prov, ev, flow, plan,
                     expired, faults>>
  BY DEF ReservationReleaseSweep
<1>2. hold \in HoldState
  BY Types DEF IInv
<1> QED BY <1>1, <1>2, SettledHoldFacts, HoldStep

\* The order is cancelled: every attempt of it is over (cancelUnpaidOrderInSet).
LEMMA CancelUnpaidInv ==
  ASSUME IInv, CancelUnpaid
  PROVE  IInv'
<1>1. /\ order = "PendingPayment" /\ \A a \in Attempts : ~InFlight(a)
      /\ order' = "Cancelled" /\ goods' = "returned"
      /\ hold' = IF hold.state = "held" THEN SettledHold([hold EXCEPT !.requested = TRUE]) ELSE hold
      /\ UNCHANGED <<prepaid, paid, flagged, pay, att, prov, ev, flow, plan, expired, faults>>
  BY DEF CancelUnpaid, UnpaidCancellable
<1>2. hold \in HoldState /\ hold.state # "released"
  BY <1>1, Types DEF IInv, BooksInv
<1>3. /\ hold' \in HoldState
      /\ hold'.state = "released" => Quiescent
  <2>1. /\ [hold EXCEPT !.requested = TRUE] \in HoldState
        /\ [hold EXCEPT !.requested = TRUE].state = hold.state
    BY <1>2 DEF HoldState
  <2> QED BY <1>1, <1>2, <2>1, SettledHoldFacts
<1>4. TypeOK'
  BY <1>1, <1>3, Types DEF IInv, TypeOK, HoldState
<1>5. AttemptInv' /\ FlowInv' /\ ResultInv' /\ PlanInv' /\ AttemptMatchesLedger'
  BY <1>1 DEF IInv, AttemptInv, FlowInv, ResultInv, PlanInv, AttemptMatchesLedger, Unresolved
<1>6. BooksInv'
  BY <1>1 DEF IInv, BooksInv, MoneyAccounted
<1>7. ProviderInv'
  <2>1. ASSUME NEW a \in Attempts PROVE Over(a)
    <3>1. att[a].status # "settled" /\ att[a] \in AttemptRow
      BY <1>1, Types DEF IInv, BooksInv
    <3>2. att[a].status \in {"none", "failed"}
      BY <1>1, <3>1 DEF InFlight, Unresolved, UnresolvedStatuses, AttemptRow
    <3> QED BY <3>2 DEF IInv, ProviderInv, Over
  <2> QED BY <1>1, <2>1 DEF IInv, ProviderInv, Over
<1>8. ReleaseInv'
  <2>1. Quiescent => \A a \in Attempts : att[a].status \in {"none", "settled"} \/ prov[a] \in Dead
    BY DEF IInv, AttemptInv, ProviderInv, Quiescent, AuthorizationReleased
  <2> QED BY <1>1, <1>3, <2>1 DEF ReleaseInv
<1> QED BY <1>4, <1>5, <1>6, <1>7, <1>8 DEF IInv

-----------------------------------------------------------------------------
(* A result is recorded.                                                    *)

\* The lock goes, the event is counted and the recovery job moves on.
LEMMA ReturnFacts ==
  ASSUME IInv, flow.pc = "finish", NEW st, Return(st)
  PROVE  /\ flow' = NoFlow
         /\ ev' \in [Attempts -> EventRow]
         /\ \A b \in Attempts : ev'[b].status = "none" => ev'[b].tries = 0
         /\ \A b \in Attempts : ev'[b].status = "pending" => ev'[b].tries < MaxEventTries
         /\ \A b \in Attempts : ev'[b].status # "none" => att[b].method = "sezzle"
         /\ plan' \in PlanState /\ plan'.pc # "busy"
         /\ plan'.pc = "idle" => plan' = NoPlan
         /\ plan'.pc # "idle" =>
              /\ plan'.a \in Attempts /\ att[plan'.a].status # "none" /\ ~att[plan'.a].manual
              /\ plan'.pc \in {"look", "act"} \/ plan'.decision # "none" =>
                   att[plan'.a].method = "sezzle"
              /\ plan'.pc = "act" => plan'.decision # "none"
<1> DEFINE a == flow.a
<1>1. /\ flow' = NoFlow
      /\ ev' = IF flow.by = "event" THEN [ev EXCEPT ![a] = EventAfter(ev[a], st)] ELSE ev
      /\ plan' = IF flow.by = "recovery" THEN PlanAfter(plan, st) ELSE plan
  BY DEF Return
<1>2. a \in Attempts /\ att[a].status # "none" /\ ev \in [Attempts -> EventRow]
  BY Types DEF IInv, FlowInv
<1>3. /\ ev' \in [Attempts -> EventRow]
      /\ \A b \in Attempts : ev'[b].status = "none" => ev'[b].tries = 0
      /\ \A b \in Attempts : ev'[b].status = "pending" => ev'[b].tries < MaxEventTries
      /\ \A b \in Attempts : ev'[b].status # "none" => att[b].method = "sezzle"
  <2>1. CASE flow.by = "event"
    <3>1. ev[a].status = "pending" /\ ev[a] \in EventRow
      BY <1>2, <2>1 DEF IInv, FlowInv
    <3>2. ev[a].tries < MaxEventTries /\ att[a].method = "sezzle"
      BY <1>2, <3>1 DEF IInv, AttemptInv
    <3> HIDE DEF a
    <3> QED BY <1>1, <1>2, <2>1, <3>1, <3>2, EventAfterFacts, EventWrite
  <2>2. CASE flow.by # "event"
    BY <1>1, <1>2, <2>2 DEF IInv, AttemptInv
  <2> QED BY <2>1, <2>2
<1>4. /\ plan' \in PlanState /\ plan'.pc # "busy"
      /\ plan'.pc = "idle" => plan' = NoPlan
      /\ plan'.pc # "idle" =>
           /\ plan'.a \in Attempts /\ att[plan'.a].status # "none" /\ ~att[plan'.a].manual
           /\ plan'.pc \in {"look", "act"} \/ plan'.decision # "none" =>
                att[plan'.a].method = "sezzle"
           /\ plan'.pc = "act" => plan'.decision # "none"
  <2>1. plan \in PlanState /\ att[a].method \in {"nmi", "sezzle"}
    BY <1>2, Types DEF IInv, AttemptInv, AttemptRow
  <2>2. CASE flow.by = "recovery"
    <3>1. plan.pc = "busy" /\ plan.a = a /\ ~att[a].manual
      BY <2>2 DEF IInv, FlowInv, PlanInv
    <3>2. \/ plan' = NoPlan
          \/ plan' = [plan EXCEPT !.pc = "annotate"]
          \/ plan' = [plan EXCEPT !.pc = "look"] /\ att[a].method # "nmi"
      BY <1>1, <2>2, <3>1 DEF PlanAfter
    <3>3. CASE plan' = NoPlan
      BY <3>3 DEF NoPlan, PlanState
    <3>4. CASE plan' = [plan EXCEPT !.pc = "annotate"]
      BY <1>2, <2>1, <3>1, <3>4 DEF IInv, PlanInv, PlanState
    <3>5. CASE plan' = [plan EXCEPT !.pc = "look"] /\ att[a].method # "nmi"
      BY <1>2, <2>1, <3>1, <3>5 DEF IInv, PlanInv, PlanState
    <3> QED BY <3>2, <3>3, <3>4, <3>5
  <2>3. CASE flow.by # "recovery"
    <3>1. plan' = plan /\ plan.pc # "busy"
      BY <1>1, <2>3 DEF IInv, FlowInv
    <3> QED BY <2>1, <3>1 DEF IInv, PlanInv
  <2> QED BY <2>2, <2>3
<1> QED BY <1>1, <1>3, <1>4

\* A result comes for an attempt that is settled already: nothing is written.
LEMMA FinishSettledInv ==
  ASSUME IInv, FinishAttempt, att[flow.a].status = "settled"
  PROVE  IInv'
<1>1. flow.pc = "finish" /\ Return("settled") /\ UNCHANGED <<money, att, prov, expired, faults>>
  BY DEF FinishAttempt
<1>2. /\ flow' = NoFlow
      /\ ev' \in [Attempts -> EventRow]
      /\ \A b \in Attempts : ev'[b].status = "none" => ev'[b].tries = 0
      /\ \A b \in Attempts : ev'[b].status = "pending" => ev'[b].tries < MaxEventTries
      /\ \A b \in Attempts : ev'[b].status # "none" => att[b].method = "sezzle"
      /\ plan' \in PlanState /\ plan'.pc # "busy"
      /\ plan'.pc = "idle" => plan' = NoPlan
      /\ plan'.pc # "idle" =>
           /\ plan'.a \in Attempts /\ att[plan'.a].status # "none" /\ ~att[plan'.a].manual
           /\ plan'.pc \in {"look", "act"} \/ plan'.decision # "none" =>
                att[plan'.a].method = "sezzle"
           /\ plan'.pc = "act" => plan'.decision # "none"
  BY <1>1, ReturnFacts
<1>3. flow' \in FlowState
  BY <1>2 DEF FlowState, NoFlow
<1>4. TypeOK'
  BY <1>1, <1>2, <1>3, Types DEF IInv, TypeOK, EventRow, FlowState, PlanState, money
<1>5. AttemptInv'
  BY <1>1, <1>2 DEF IInv, AttemptInv, money
<1>6. FlowInv' /\ ResultInv'
  BY <1>2 DEF FlowInv, ResultInv, NoFlow
<1>7. PlanInv'
  BY <1>1, <1>2 DEF PlanInv, NoPlan
<1>8. AttemptMatchesLedger' /\ BooksInv' /\ ReleaseInv'
  BY <1>1 DEF IInv, AttemptMatchesLedger, Unresolved, BooksInv, MoneyAccounted, ReleaseInv, money
<1>9. ProviderInv'
  BY <1>1 DEF IInv, ProviderInv, Over, money
<1> QED BY <1>4, <1>5, <1>6, <1>7, <1>8, <1>9 DEF IInv

\* What the ledger and the order become with a result (applyPaymentResult): a
\* capture makes an unpaid order Paid, for every attempt is of the whole amount
\* due, and is alerted on any other.
LEMMA LedgerFacts ==
  ASSUME IInv, NEW a \in Attempts, NEW r \in Results, NEW ref \in BOOLEAN,
         att[a].status \notin {"none", "settled"},
         r = "Settled" => ref,
         ~ref => r = "Recon" \/ pay[a] = "none",
         IF ref THEN ApplyPaymentResult(a, r) ELSE UNCHANGED money
  PROVE  /\ \E p \in PaymentStates :
              /\ pay' = [pay EXCEPT ![a] = p]
              /\ p = "Settled" <=> r = "Settled"
              /\ p \in {"Pending", "Authorized"} => r \in {"Pending", "Authorized", "Recon"}
         /\ order' = IF r = "Settled" /\ order = "PendingPayment" THEN "Paid" ELSE order
         /\ paid' \in Nat /\ flagged' \in Nat
         /\ paid' - flagged' = IF order' = "Paid" THEN Total ELSE prepaid
         /\ order' = "PendingPayment" => flagged' = 0
         /\ hold' \in HoldState
         /\ hold'.state = "released" => hold.state = "released" /\ hold' = hold
         /\ UNCHANGED <<goods, prepaid>>
<1> DEFINE amount == Total - prepaid
<1>1. /\ order \in {"PendingPayment", "Paid", "Cancelled"} /\ pay \in [Attempts -> PaymentStates]
      /\ paid \in Nat /\ flagged \in Nat /\ hold \in HoldState
      /\ prepaid \in Nat /\ prepaid < Total /\ Total \in Nat
  BY Types, GatewayAssumption DEF IInv
<1>2. pay[a] # "Settled" /\ att[a].amount = amount /\ amount \in Nat /\ amount > 0
  BY <1>1 DEF IInv, AttemptMatchesLedger, AttemptInv
<1>3. /\ paid - flagged = IF order = "Paid" THEN Total ELSE prepaid
      /\ order = "PendingPayment" => flagged = 0
      /\ pay[a] \in {"Pending", "Authorized"} => Unresolved(a)
  BY DEF IInv, BooksInv, MoneyAccounted, AttemptMatchesLedger
<1>4. CASE ~ref
  <2>1. r # "Settled" /\ UNCHANGED <<order, goods, prepaid, paid, flagged, pay, hold>>
    BY <1>4 DEF money
  <2>2. pay' = [pay EXCEPT ![a] = pay[a]] /\ pay[a] \in PaymentStates
    BY <1>1, <2>1
  <2>3. pay[a] \in {"Pending", "Authorized"} => r \in {"Pending", "Authorized", "Recon"}
    BY <1>4
  <2> QED BY <1>1, <1>2, <1>3, <2>1, <2>2, <2>3
<1>5. CASE ref
  <2> DEFINE p == PaymentAfter(pay[a], r)
             captured == r = "Settled" /\ pay[a] # "Settled"
  <2>1. ApplyPaymentResult(a, r)
    BY <1>5
  <2>2. /\ p \in PaymentStates /\ (p = "Settled" <=> r = "Settled")
        /\ p \in {"Pending", "Authorized"} => r \in {"Pending", "Authorized", "Recon"}
    BY <1>1, <1>2 DEF PaymentAfter, PaymentStates, Results
  <2>3. pay' = [pay EXCEPT ![a] = p] /\ UNCHANGED <<goods, prepaid>>
    BY <2>1 DEF ApplyPaymentResult
  <2> HIDE DEF p
  <2>4. CASE r # "Settled"
    <3>1. UNCHANGED <<paid, flagged, order, hold>>
      BY <2>1, <2>4 DEF ApplyPaymentResult
    <3> QED BY <1>1, <1>3, <2>2, <2>3, <2>4, <3>1
  <2>5. CASE r = "Settled"
    <3>1. /\ paid' = paid + amount
          /\ flagged' = IF Alerts(amount) THEN flagged + amount ELSE flagged
          /\ order' = IF Transitions(amount) THEN "Paid" ELSE order
          /\ hold' = IF order' = "Paid" /\ hold.state = "held"
                       THEN [hold EXCEPT !.state = "consumed"] ELSE hold
      BY <1>2, <2>1, <2>5 DEF ApplyPaymentResult
    <3>2. order = "PendingPayment" => Transitions(amount) /\ ~Alerts(amount)
      BY <1>1, <1>3 DEF Transitions, Alerts, Due
    <3>3. order # "PendingPayment" => ~Transitions(amount) /\ Alerts(amount)
      BY <1>1, <1>2, <1>3 DEF Transitions, Alerts, Due
    <3>4. hold' \in HoldState /\ (hold'.state = "released" => hold' = hold)
      BY <1>1, <3>1 DEF HoldState
    <3>5. paid' \in Nat /\ flagged' \in Nat
      BY <1>1, <1>2, <3>1
    <3>6. CASE order = "PendingPayment"
      <4>1. paid' = paid + amount /\ flagged' = 0 /\ order' = "Paid" /\ paid = prepaid
        BY <1>1, <1>3, <3>1, <3>2, <3>6
      <4>2. paid' - flagged' = Total
        BY <1>1, <4>1
      <4> QED BY <2>2, <2>3, <2>5, <3>4, <3>5, <3>6, <4>1, <4>2
    <3>7. CASE order # "PendingPayment"
      <4>1. paid' = paid + amount /\ flagged' = flagged + amount /\ order' = order
        BY <3>1, <3>3, <3>7
      <4>2. paid' - flagged' = paid - flagged
        BY <1>1, <1>2, <4>1
      <4> QED BY <1>3, <2>2, <2>3, <2>5, <3>4, <3>5, <3>7, <4>1, <4>2
    <3> QED BY <3>6, <3>7
  <2> QED BY <2>4, <2>5
<1> QED BY <1>4, <1>5

\* A result is recorded on an attempt that is not settled.
LEMMA FinishOpenInv ==
  ASSUME IInv, FinishAttempt, att[flow.a].status # "settled"
  PROVE  IInv'
<1> DEFINE a == flow.a
           r == flow.res
           st == StatusAfter(r)
           row == [att[a] EXCEPT !.status = st, !.ref = flow.ref]
<1>1. /\ flow.pc = "finish"
      /\ att' = [att EXCEPT ![a].status = st, ![a].ref = flow.ref]
      /\ IF flow.ref THEN ApplyPaymentResult(a, r) ELSE UNCHANGED money
      /\ expired' = IF flow.by = "recovery" /\ plan.decision = "expire"
                      THEN expired \cup {a} ELSE expired
      /\ Return(st)
      /\ UNCHANGED <<prov, faults>>
  BY DEF FinishAttempt
<1>2. /\ a \in Attempts /\ att[a].status \notin {"none", "settled"}
      /\ att \in [Attempts -> AttemptRow] /\ att[a] \in AttemptRow
      /\ flow.ref \in BOOLEAN
  BY <1>1, Types DEF IInv, FlowInv, FlowState
<1>3. /\ r \in Results
      /\ r = "Settled" => flow.ref /\ prov[a] = "captured"
      /\ r \in {"Declined", "Failed"} =>
           prov[a] \in Dead \/ (flow.by = "recovery" /\ plan.decision = "expire")
      /\ ~flow.ref => r = "Recon" \/ pay[a] = "none"
  BY <1>1 DEF IInv, ResultInv
<1>4. /\ st \in {"settled", "failed", "unknown", "pending"}
      /\ st = "settled" <=> r = "Settled"
      /\ st = "failed" <=> r \in {"Declined", "Failed"}
  BY <1>3 DEF StatusAfter, Results
<1>5. att' = [att EXCEPT ![a] = row]
  BY <1>1, <1>2
<1>6. /\ row \in AttemptRow /\ row.status = st /\ row.method = att[a].method
      /\ row.amount = att[a].amount /\ row.manual = att[a].manual /\ row.tries = att[a].tries
  BY <1>2, <1>4 DEF AttemptRow, UnresolvedStatuses
<1>7. PICK p \in PaymentStates :
        /\ pay' = [pay EXCEPT ![a] = p]
        /\ p = "Settled" <=> r = "Settled"
        /\ p \in {"Pending", "Authorized"} => r \in {"Pending", "Authorized", "Recon"}
  BY <1>1, <1>2, <1>3, LedgerFacts
<1>8. /\ order' = IF r = "Settled" /\ order = "PendingPayment" THEN "Paid" ELSE order
      /\ paid' \in Nat /\ flagged' \in Nat
      /\ paid' - flagged' = IF order' = "Paid" THEN Total ELSE prepaid
      /\ order' = "PendingPayment" => flagged' = 0
      /\ hold' \in HoldState
      /\ hold'.state = "released" => hold.state = "released" /\ hold' = hold
      /\ UNCHANGED <<goods, prepaid>>
  BY <1>1, <1>2, <1>3, LedgerFacts
<1>9. /\ flow' = NoFlow
      /\ ev' \in [Attempts -> EventRow]
      /\ \A b \in Attempts : ev'[b].status = "none" => ev'[b].tries = 0
      /\ \A b \in Attempts : ev'[b].status = "pending" => ev'[b].tries < MaxEventTries
      /\ \A b \in Attempts : ev'[b].status # "none" => att[b].method = "sezzle"
      /\ plan' \in PlanState /\ plan'.pc # "busy"
      /\ plan'.pc = "idle" => plan' = NoPlan
      /\ plan'.pc # "idle" =>
           /\ plan'.a \in Attempts /\ att[plan'.a].status # "none" /\ ~att[plan'.a].manual
           /\ plan'.pc \in {"look", "act"} \/ plan'.decision # "none" =>
                att[plan'.a].method = "sezzle"
           /\ plan'.pc = "act" => plan'.decision # "none"
  BY <1>1, ReturnFacts
<1>10. /\ expired \subseteq expired' /\ expired' \subseteq expired \cup {a}
       /\ expired \subseteq Attempts
       /\ flow.by = "recovery" /\ plan.decision = "expire" => a \in expired'
       /\ a \in expired' => a \in expired \/ att[a].method = "sezzle"
  <2>1. flow.by = "recovery" /\ plan.decision = "expire" => att[a].method = "sezzle"
    BY DEF IInv, FlowInv, PlanInv
  <2> QED BY <1>1, <2>1, Types DEF IInv
<1> HIDE DEF a, r, st, row
<1>11. /\ att'[a] = row /\ \A b \in Attempts : b # a => att'[b] = att[b]
       /\ pay'[a] = p /\ \A b \in Attempts : b # a => pay'[b] = pay[b]
       /\ pay' \in [Attempts -> PaymentStates] /\ att' \in [Attempts -> AttemptRow]
  BY <1>2, <1>5, <1>6, <1>7, Types DEF IInv
<1>12. TypeOK'
  <2>1. order' \in {"PendingPayment", "Paid", "Cancelled"} /\ flow' \in FlowState
    BY <1>8, <1>9, Types DEF IInv, FlowState, NoFlow
  <2>2. expired' \subseteq Attempts
    BY <1>2, <1>10
  <2> QED BY <1>1, <1>8, <1>9, <1>11, <2>1, <2>2, Types
          DEF IInv, TypeOK, AttemptRow, PaymentStates, EventRow, FlowState, PlanState, HoldState
<1>13. AttemptInv'
  <2>1. /\ \A b \in Attempts : att'[b].status = "none" =>
             att'[b] = NoAttempt /\ pay'[b] = "none" /\ prov'[b] = "none"
        /\ \A b \in Attempts :
             att'[b].status # "none" => att'[b].method # "none" /\ att'[b].amount = Total - prepaid'
    BY <1>1, <1>2, <1>4, <1>6, <1>8, <1>11 DEF IInv, AttemptInv
  <2>2. \A b \in Attempts : ~att'[b].manual => att'[b].tries < MaxTries
    BY <1>2, <1>6, <1>11 DEF IInv, AttemptInv
  <2>3. \A b \in Attempts : att'[b].method = att[b].method
    BY <1>6, <1>11
  <2>4. \A b \in expired' : att'[b].method = "sezzle"
    BY <1>2, <1>10, <2>3 DEF IInv, AttemptInv
  <2> QED BY <1>9, <2>1, <2>2, <2>3, <2>4 DEF AttemptInv
<1>14. FlowInv' /\ ResultInv'
  BY <1>9 DEF FlowInv, ResultInv, NoFlow
<1>15. PlanInv'
  <2>1. \A b \in Attempts : /\ att'[b].method = att[b].method /\ att'[b].manual = att[b].manual
                            /\ att[b].status # "none" => att'[b].status # "none"
    BY <1>4, <1>6, <1>11
  <2>2. plan'.pc = "idle" => plan'.decision = "none"
    BY <1>9 DEF NoPlan
  <2> QED BY <1>9, <2>1, <2>2 DEF PlanInv
<1>16. AttemptMatchesLedger'
  <2>1. p \in {"Pending", "Authorized"} => st \in UnresolvedStatuses
    BY <1>3, <1>4, <1>7 DEF UnresolvedStatuses
  <2> QED BY <1>2, <1>4, <1>6, <1>7, <1>11, <2>1 DEF IInv, AttemptMatchesLedger, Unresolved
<1>17. BooksInv'
  <2>1. MoneyAccounted'
    BY <1>8 DEF MoneyAccounted
  <2>2. \A b \in Attempts : att'[b].status = "settled" => order' # "PendingPayment"
    BY <1>2, <1>4, <1>6, <1>8, <1>11 DEF IInv, BooksInv
  <2> QED BY <1>8, <2>1, <2>2 DEF IInv, BooksInv
<1>18. ProviderInv'
  <2>1. \A b \in Attempts : Over(b) => Over(b)'
    BY <1>1, <1>2, <1>4, <1>6, <1>10, <1>11 DEF Over
  <2>2. order' = "Cancelled" => order = "Cancelled"
    BY <1>8
  <2>3. \A b \in Attempts : att'[b].status = "settled" => prov'[b] = "captured"
    BY <1>1, <1>2, <1>3, <1>4, <1>6, <1>11 DEF IInv, ProviderInv
  <2>4. \A b \in Attempts : att'[b].status = "failed" => prov'[b] \in Dead \/ b \in expired'
    BY <1>1, <1>2, <1>3, <1>4, <1>6, <1>10, <1>11 DEF IInv, ProviderInv
  <2> QED BY <2>1, <2>2, <2>3, <2>4 DEF IInv, ProviderInv
<1>19. ReleaseInv'
  <2>1. hold'.state = "released" /\ ~hold'.overridden =>
          \A b \in Attempts : att[b].status \in {"none", "settled"} \/ prov[b] \in Dead
    BY <1>8 DEF IInv, ReleaseInv
  <2> QED BY <1>1, <1>2, <1>11, <2>1 DEF ReleaseInv
<1> QED BY <1>12, <1>13, <1>14, <1>15, <1>16, <1>17, <1>18, <1>19 DEF IInv

-----------------------------------------------------------------------------
(* The specification.                                                       *)

LEMMA InitIInv == Init => IInv
<1> SUFFICES ASSUME Init PROVE IInv
  OBVIOUS
<1>1. TypeOK
  BY GatewayAssumption DEF Init, TypeOK, NoAttempt, NoEvent, NoFlow, NoPlan, NoHold, Results
<1>2. AttemptInv
  BY GatewayAssumption DEF Init, AttemptInv, NoAttempt, NoEvent
<1>3. FlowInv /\ ResultInv /\ PlanInv
  BY DEF Init, FlowInv, ResultInv, PlanInv, NoFlow, NoPlan
<1>4. AttemptMatchesLedger
  BY DEF Init, AttemptMatchesLedger, NoAttempt
<1>5. BooksInv
  BY <1>1 DEF Init, TypeOK, BooksInv, MoneyAccounted, NoAttempt, NoHold
<1>6. ProviderInv /\ ReleaseInv
  BY DEF Init, ProviderInv, ReleaseInv, Over, NoAttempt, NoHold
<1> QED BY <1>1, <1>2, <1>3, <1>4, <1>5, <1>6 DEF IInv

LEMMA NextIInv == IInv /\ [Next]_vars => IInv'
<1> SUFFICES ASSUME IInv, [Next]_vars PROVE IInv'
  OBVIOUS
<1>1. ASSUME NEW a \in Attempts, Shopper(a) PROVE IInv'
  BY <1>1, StartGatewayPaymentInv, VerifyInv DEF Shopper
<1>2. ASSUME NEW a \in Attempts, Provider(a) PROVE IInv'
  BY <1>2, ProviderMovesInv, EventArrivesInv DEF Provider
<1>3. ASSUME NEW a \in Attempts, EventStep(a) PROVE IInv'
  BY <1>3, BindProviderReferenceInv, ReconcileEventInv, ReconcileEventFailsInv DEF EventStep
<1>4. ASSUME FlowStep PROVE IInv'
  BY <1>4, CreateSessionInv, SessionRecordedInv, MarkUnknownInv, CreatePaymentInv,
     FinishSettledInv, FinishOpenInv, DecideSezzleCaptureInv, CaptureOrderInv, ReleaseOrderInv
     DEF FlowStep
<1>5. ASSUME RecoveryStep PROVE IInv'
  BY <1>5, DecideSezzleRecoveryInv, RecoverLockInv, AnnotateInv DEF RecoveryStep
<1>6. ASSUME Lifecycle PROVE IInv'
  BY <1>6, ReserveInv, CancelUnpaidInv, OverrideReleaseInv DEF Lifecycle, AdminCancel
<1>7. ASSUME UNCHANGED vars PROVE IInv'
  <2>1. UNCHANGED <<money, att, prov, ev, flow, plan, expired, faults>>
    BY <1>7 DEF vars, money
  <2>2. flow' \in FlowState /\ plan' \in PlanState /\ faults' \in 0..MaxFaults
    BY <2>1, Types DEF IInv
  <2>3. FlowInv' /\ ResultInv' /\ PlanInv'
    BY <2>1 DEF IInv, FlowInv, ResultInv, PlanInv, money
  <2> QED BY <2>1, <2>2, <2>3, ControlStep
<1> QED BY <1>1, <1>2, <1>3, <1>4, <1>5, <1>6, <1>7, RecoverSelectInv,
           ReservationReleaseSweepInv, FlowCrashInv, RecoveryCrashInv DEF Next

\* Every behaviour keeps the inductive invariant.
THEOREM Invariance == Spec => []IInv
BY InitIInv, NextIInv, PTL DEF Spec

\* Every variable keeps its type, and no attempt or event is tried more often
\* than its job allows (recoverGatewayAttempts, reconcileGatewayEvents).
THEOREM TypeCorrect == Spec => []TypeOK
<1>1. IInv => TypeOK
  BY DEF IInv
<1> QED BY <1>1, Invariance, PTL

\* Every captured cent is accounted for, whatever order captures, cancels and
\* replays come in (applyPaymentResultLocked).
THEOREM MoneyIsAccounted == Spec => []MoneyAccounted
<1>1. IInv => MoneyAccounted
  BY DEF IInv, BooksInv
<1> QED BY <1>1, Invariance, PTL

\* The attempt and its ledger row agree (finishAttempt, applyPaymentResult).
THEOREM LedgerAgrees == Spec => []AttemptMatchesLedger
<1>1. IInv => AttemptMatchesLedger
  BY DEF IInv
<1> QED BY <1>1, Invariance, PTL

\* A Paid order still has its stock, points and hold (cancelUnpaidOrderInSet).
THEOREM PaidKeepsGoods == Spec => []PaidHasGoods
<1>1. IInv => PaidHasGoods
  BY DEF IInv, TypeOK, BooksInv, PaidHasGoods
<1> QED BY <1>1, Invariance, PTL

\* No order is charged after its cancel or twice, except through a session that
\* recovery had declared expired (startGatewayPayment, unpaidCancellable).
THEOREM ChargesAreOwed == Spec => []NoStrayCharge
<1>1. ASSUME IInv PROVE NoStrayCharge
  <2>1. \A a \in Attempts : prov[a] = "captured" /\ Over(a) => a \in expired
    BY <1>1 DEF IInv, AttemptInv, Over, Dead
  <2>2. NoChargeOnCancelled
    BY <1>1, <2>1 DEF IInv, ProviderInv, NoChargeOnCancelled
  <2>3. ChargedTwiceOnlyAfterExpiry
    BY <1>1, <2>1 DEF IInv, ProviderInv, ChargedTwiceOnlyAfterExpiry
  <2> QED BY <2>2, <2>3 DEF NoStrayCharge
<1> QED BY <1>1, Invariance, PTL

\* A hold is given back only when no provider work of the order can move money
\* (providerQuiescent, settleRelease).
THEOREM ReleasedHoldsAreSafe == Spec => []ReleaseIsSafe
<1>1. ASSUME IInv PROVE ReleaseIsSafe
  <2>1. \A a \in Attempts : att[a].status = "none" => prov[a] = "none"
    BY <1>1 DEF IInv, AttemptInv
  <2>2. \A a \in Attempts : att[a].status = "settled" => prov[a] = "captured" /\ pay[a] = "Settled"
    BY <1>1 DEF IInv, ProviderInv, AttemptMatchesLedger
  <2> QED BY <1>1, <2>1, <2>2 DEF IInv, ReleaseInv, ReleaseIsSafe, Dead
<1> QED BY <1>1, Invariance, PTL

-----------------------------------------------------------------------------
(* What no step may do.                                                     *)

\* The rows a step writes: a started attempt loses neither its start, nor a
\* settlement, nor a decision once taken.
LEMMA AttemptSteps ==
  ASSUME IInv, [Next]_vars, NEW a \in Attempts
  PROVE  /\ att[a].status = "settled" => att'[a].status = "settled"
         /\ att[a].decision # "none" => att'[a].decision = att[a].decision
<1>1. att \in [Attempts -> AttemptRow]
  BY Types DEF IInv
<1>2. att[a].status = "none" => att[a].decision = "none"
  BY DEF IInv, AttemptInv, NoAttempt
<1>3. CASE att' = att
  BY <1>3
<1>4. ASSUME NEW b \in Attempts, NEW m \in Methods, StartGatewayPayment(b, m)
      PROVE  /\ att[a].status = "settled" => att'[a].status = "settled"
             /\ att[a].decision # "none" => att'[a].decision = att[a].decision
  <2>1. att[b].status = "none" /\ (a # b => att'[a] = att[a])
    BY <1>1, <1>4 DEF StartGatewayPayment
  <2> QED BY <1>2, <2>1
<1>5. CASE SessionRecorded \/ MarkUnknown
  <2>1. flow.a \in Attempts /\ att[flow.a].status = "processing"
    BY <1>5, RequestFacts DEF SessionRecorded, MarkUnknown
  <2>2. (a # flow.a => att'[a] = att[a]) /\ att'[a].decision = att[a].decision
    BY <1>1, <1>5, <2>1 DEF SessionRecorded, MarkUnknown, AttemptRow
  <2> QED BY <2>1, <2>2
<1>6. ASSUME NEW b \in Attempts, BindProviderReference(b)
      PROVE  att'[a].status = att[a].status /\ att'[a].decision = att[a].decision
  BY <1>1, <1>6 DEF BindProviderReference, AttemptRow
<1>7. CASE Annotate
  <2>1. plan.a \in Attempts
    BY <1>7 DEF Annotate, IInv, PlanInv
  <2> QED BY <1>1, <1>7, <2>1 DEF Annotate, AttemptRow
<1>8. CASE FinishAttempt
  <2>1. flow.a \in Attempts
    BY <1>8 DEF FinishAttempt, IInv, FlowInv
  <2>2. att[flow.a].status = "settled" => att' = att
    BY <1>8 DEF FinishAttempt
  <2>3. \/ att' = att
        \/ att' = [att EXCEPT ![flow.a].status = StatusAfter(flow.res), ![flow.a].ref = flow.ref]
    BY <1>8 DEF FinishAttempt
  <2>4. (a # flow.a => att'[a] = att[a]) /\ att'[a].decision = att[a].decision
    BY <1>1, <2>1, <2>3 DEF AttemptRow
  <2> QED BY <2>2, <2>4
<1>9. ASSUME NEW v \in {"capture", "cancel", "unavailable"}, DecideSezzleCapture(v)
      PROVE  /\ att[a].status = "settled" => att'[a].status = "settled"
             /\ att[a].decision # "none" => att'[a].decision = att[a].decision
  <2>1. flow.a \in Attempts
    BY <1>9 DEF DecideSezzleCapture, IInv, FlowInv
  <2>2. \/ att' = att
        \/ /\ att[flow.a].decision = "none"
           /\ att' = [att EXCEPT ![flow.a].decision = v]
    BY <1>9 DEF DecideSezzleCapture
  <2> QED BY <1>1, <2>1, <2>2 DEF AttemptRow
<1>10. \/ att' = att
       \/ \E b \in Attempts, m \in Methods : StartGatewayPayment(b, m)
       \/ SessionRecorded \/ MarkUnknown
       \/ \E b \in Attempts : BindProviderReference(b)
       \/ Annotate
       \/ FinishAttempt
       \/ \E v \in {"capture", "cancel", "unavailable"} : DecideSezzleCapture(v)
  <2>1. CASE UNCHANGED vars
    BY <2>1 DEF vars
  <2>2. ASSUME NEW b \in Attempts, Shopper(b) \/ Provider(b) \/ EventStep(b) \/ RecoverSelect(b)
        PROVE  \/ att' = att
               \/ \E m \in Methods : StartGatewayPayment(b, m)
               \/ BindProviderReference(b)
    BY <2>2 DEF Shopper, Provider, EventStep, RecoverSelect, Verify, ProviderMoves, EventArrives,
                ReconcileEvent, ReconcileEventFails
  <2>3. ASSUME FlowStep
        PROVE  \/ att' = att
               \/ SessionRecorded \/ MarkUnknown \/ FinishAttempt
               \/ \E v \in {"capture", "cancel", "unavailable"} : DecideSezzleCapture(v)
    BY <2>3 DEF FlowStep, CreateSession, CreatePayment, CaptureOrder, ReleaseOrder
  <2>4. ASSUME RecoveryStep \/ Lifecycle \/ ReservationReleaseSweep \/ FlowCrash \/ RecoveryCrash
        PROVE  att' = att \/ Annotate
    BY <2>4 DEF RecoveryStep, DecideSezzleRecovery, RecoverLock, Lifecycle, Reserve, CancelUnpaid,
                AdminCancel, OverrideRelease, ReservationReleaseSweep, FlowCrash, RecoveryCrash
  <2> QED BY <2>1, <2>2, <2>3, <2>4 DEF Next
<1> QED BY <1>3, <1>4, <1>5, <1>6, <1>7, <1>8, <1>9, <1>10

\* No late expiry, decline or unavailable read takes a settlement back
\* (finishAttempt).
THEOREM SettlementIsFinal == Spec => SettledSticks
<1>1. IInv /\ [Next]_vars =>
        [\A a \in Attempts : att[a].status = "settled" => att'[a].status = "settled"]_vars
  BY AttemptSteps
<1> QED BY <1>1, Invariance, PTL DEF Spec, SettledSticks

\* No later pass changes a persisted capture decision, and the engine captures
\* only what it decided to capture (decideSezzleCapture).
THEOREM CaptureDecisionIsFinal == Spec => DecisionFinal
<1>1. IInv => (flow.pc = "capture" => att[flow.a].decision = "capture")
  BY DEF IInv, FlowInv
<1>2. IInv /\ [Next]_vars =>
        [\A a \in Attempts :
           /\ att[a].decision # "none" => att'[a].decision = att[a].decision
           /\ flow.pc = "capture" /\ flow.a = a /\ prov'[a] # prov[a] =>
                att[a].decision = "capture"]_vars
  BY <1>1, AttemptSteps
<1> QED BY <1>2, Invariance, PTL DEF Spec, DecisionFinal
=============================================================================
