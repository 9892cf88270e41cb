--------------------------- MODULE PendingEffects ---------------------------
(***************************************************************************)
(* The pending-effects engine of the settlement layer                      *)
(* (packages/api/src/payments/settlement/effects.ts, with the identity and *)
(* purge rules of record.ts and the approval of issuance-approval.ts).     *)
(*                                                                         *)
(* A settlement operation authorizes a set of effects, one database row    *)
(* each.  Any number of workers claim due rows in batches, run them, and   *)
(* record the outcome; a claim carries a fresh token and every later write *)
(* to the row checks it.  Each action below is one database transaction or *)
(* one provider call: a worker may crash, or be overtaken by a reclaim,    *)
(* between any two of them.                                                *)
(***************************************************************************)
EXTENDS Naturals, Sequences, FiniteSets

CONSTANTS
  Ops,            \* settlement operations (store, operation_kind, operation_id)
  LocalKinds,     \* effect kinds whose handler only writes the database
  ExternalKinds,  \* effect kinds whose handler calls a provider
  Workers,        \* processes that run runEffectsPass
  Registered,     \* per worker, the kinds it has a handler for
  MaxAttempts,    \* MAX_ATTEMPTS
  BatchLimit,     \* the claim's LIMIT
  MaxNotReady,    \* bound: "not ready" answers an effect gives before its horizon
  MaxFaults       \* bound: crashes, overdue live claims and operator retries

Kinds == LocalKinds \cup ExternalKinds

ASSUME KindsAssumption ==
  /\ LocalKinds \cap ExternalKinds = {}
  /\ "admin_review" \notin Kinds

ASSUME RegisteredAssumption == Registered \in [Workers -> SUBSET Kinds]

ASSUME BoundsAssumption ==
  /\ MaxAttempts \in Nat \ {0}
  /\ BatchLimit \in Nat \ {0}
  /\ MaxNotReady \in Nat
  /\ MaxFaults \in Nat

Effects == Ops \X Kinds
OpOf(e) == e[1]
KindOf(e) == e[2]
NoEffect == <<>>

EffectKinds == <<"license_issue", "license_extend", "edit_reconcile",
                 "loyalty_earn", "notification", "entitlement_reversal",
                 "admin_review">>

EffectRank(k) ==
  IF \E i \in 1..Len(EffectKinds) : EffectKinds[i] = k
    THEN (CHOOSE i \in 1..Len(EffectKinds) : EffectKinds[i] = k) - 1
    ELSE Len(EffectKinds)

VARIABLES
  mode,     \* per operation: "none" (no settlement_operation row), how it was recorded, or "purged"
  eff,      \* the order_pending_effect rows
  review,   \* per operation, its admin_review row
  receipt,  \* external effects with an applied_operation_receipt
  provider, \* idempotency keys (effect ids) the provider has acted on
  runs,     \* history: committed executions of each effect
  batch,    \* per worker and effect, the claim it was handed (0: none)
  pc,       \* per worker, where it is in processClaimedEffect
  cur,      \* per worker, the effect it is processing
  faults    \* faults injected so far

vars == <<mode, eff, review, receipt, provider, runs, batch, pc, cur, faults>>

(***************************************************************************)
(* A row.  claim numbers the tokens issued for it: gen_random_uuid() never *)
(* repeats, and a row's claim_token is its latest one while the row is     *)
(* processing.  The clock is abstracted to what the code compares it with: *)
(* due (next_attempt_at has come), aged (claimed_at is older than          *)
(* STALE_CLAIM_MS) and failed (first_failed_at: null, within the retry     *)
(* horizon, or past it).  notReady is history: how many attempts ended in  *)
(* a "not ready" retry since the row was created or requeued.              *)
(***************************************************************************)
Statuses == {"none", "pending", "processing", "done", "terminal"}
Reasons == {"null", "failed", "notready", "refused", "held", "purged"}

Row == [status : Statuses, claim : Nat, attempts : Nat, due : BOOLEAN,
        aged : BOOLEAN, failed : {"null", "recent", "late"}, reason : Reasons,
        approved : BOOLEAN, notReady : Nat]

NoRow == [status |-> "none", claim |-> 0, attempts |-> 0, due |-> FALSE,
          aged |-> FALSE, failed |-> "null", reason |-> "null",
          approved |-> FALSE, notReady |-> 0]

NewRow == [NoRow EXCEPT !.status = "pending", !.due = TRUE]

\* A review row names the effect whose failure it announces, or none.
NoReview == [state |-> "none", failedEffect |-> "none"]
Reviews == [state : {"none", "open", "resolved"}, failedEffect : Kinds \cup {"none"}]

Open(e) == eff[e].status \in {"pending", "processing"}

(***************************************************************************)
(* Row transitions.                                                        *)
(***************************************************************************)
ClaimedRow(r) ==
  [r EXCEPT !.status = "processing", !.claim = @ + 1, !.attempts = @ + 1,
            !.aged = FALSE]

DoneRow(r) == [r EXCEPT !.status = "done", !.reason = "null"]

FirstFailed(r) == IF r.failed = "null" THEN "recent" ELSE r.failed

TerminalRow(r, reason) ==
  [r EXCEPT !.status = "terminal", !.aged = FALSE, !.reason = reason,
            !.failed = FirstFailed(r)]

RetryRow(r, reason) ==
  [r EXCEPT !.status = "pending", !.due = FALSE, !.aged = FALSE,
            !.reason = reason, !.failed = FirstFailed(r),
            !.notReady = IF reason = "notready" THEN @ + 1 ELSE @]

\* markRetryOrTerminal gives up on this row: a "not ready" answer by its
\* horizon, every other failure by the number of claims.
GivesUp(r, reason) ==
  IF reason = "notready" THEN r.failed = "late" ELSE r.attempts >= MaxAttempts

RequeuedRow(r) ==
  [r EXCEPT !.status = "pending", !.attempts = 0, !.aged = FALSE, !.due = TRUE,
            !.reason = "null", !.failed = "null", !.notReady = 0]

\* The row an outcome of a handler leaves (applyOutcome, failClaimed).
Outcomes == {"done", "failed", "notready", "refused", "held"}

OutcomeRow(r, out) ==
  CASE out = "done" -> DoneRow(r)
    [] out \in {"failed", "notready"} ->
         IF GivesUp(r, out) THEN TerminalRow(r, out) ELSE RetryRow(r, out)
    [] OTHER -> TerminalRow(r, out)

\* Outcomes a handler of kind k can give on row r: only edit_reconcile holds
\* issuance for a human, and an approval stands in for that check.
CanAnswer(k, r, out) ==
  /\ out = "held" => k = "edit_reconcile" /\ ~r.approved
  /\ out = "notready" => r.notReady < MaxNotReady \/ r.failed = "late"

(***************************************************************************)
(* Review rows: markTerminal adds one for the operation unless it has one; *)
(* an approved effect that finishes resolves the one that names it.        *)
(***************************************************************************)
NoteTerminal_Never(rv, k) == rv

NoteTerminal_Itself(rv, k) ==
  IF rv.state = "none" THEN [state |-> "open", failedEffect |-> "admin_review"] ELSE rv

NoteTerminal(rv, k) ==
  IF rv.state = "none" THEN [state |-> "open", failedEffect |-> k] ELSE rv

ResolveReview(rv, k) ==
  IF rv.failedEffect = k /\ rv.state = "open" THEN [rv EXCEPT !.state = "resolved"] ELSE rv

ReviewAfter(rv, k, old, new) ==
  IF new.status = "terminal" THEN NoteTerminal(rv, k)
  ELSE IF new.status = "done" /\ old.approved THEN ResolveReview(rv, k)
  ELSE rv

\* One outcome recorded on effect e, with its execution when it is done.
Record(e, out) ==
  LET new == OutcomeRow(eff[e], out) IN
  /\ eff' = [eff EXCEPT ![e] = new]
  /\ review' = [review EXCEPT ![OpOf(e)] = ReviewAfter(@, KindOf(e), eff[e], new)]
  /\ runs' = IF out = "done" THEN [runs EXCEPT ![e] = @ + 1] ELSE runs

(***************************************************************************)
(* recordSettlementOperation: the operation row is the identity.  A second *)
(* observation of the same fact finds it and creates nothing.              *)
(***************************************************************************)
RecordDeferred_NoIdentity(o, K) ==
  /\ mode[o] # "purged"
  /\ mode' = [mode EXCEPT ![o] = "deferred"]
  /\ eff' = [e \in Effects |-> IF OpOf(e) = o /\ KindOf(e) \in K THEN NewRow ELSE eff[e]]
  /\ review' = [review EXCEPT ![o] =
       IF "admin_review" \in K THEN [state |-> "open", failedEffect |-> "none"] ELSE @]
  /\ UNCHANGED <<receipt, provider, runs, batch, pc, cur, faults>>

RecordDeferred(o, K) ==
  /\ mode[o] = "none"
  /\ mode' = [mode EXCEPT ![o] = "deferred"]
  /\ eff' = [e \in Effects |-> IF OpOf(e) = o /\ KindOf(e) \in K THEN NewRow ELSE eff[e]]
  /\ review' = [review EXCEPT ![o] =
       IF "admin_review" \in K THEN [state |-> "open", failedEffect |-> "none"] ELSE @]
  /\ UNCHANGED <<receipt, provider, runs, batch, pc, cur, faults>>

\* Inline: executeEffectsNow claims and runs the local rows in rank order in
\* the same transaction; a throwing handler aborts everything, so only
\* executions in which every handler answers appear.  External rows are
\* skipped and stay pending for a worker.
RanInline(K) == K \cap LocalKinds

InlineRow(k, answer) ==
  IF k \in LocalKinds THEN OutcomeRow(ClaimedRow(NewRow), answer[k]) ELSE NewRow

\* The review row that results: the first effect, in rank order, whose answer
\* was terminal names it.
InlineReviews(K, answer) ==
  LET T == {k \in RanInline(K) : InlineRow(k, answer).status = "terminal"}
      first == {k \in T : \A j \in T : EffectRank(k) <= EffectRank(j)} IN
  IF "admin_review" \in K THEN {[state |-> "open", failedEffect |-> "none"]}
  ELSE IF T = {} THEN {NoReview}
  ELSE {NoteTerminal(NoReview, k) : k \in first}

RecordInline(o, K, answer) ==
  /\ mode[o] = "none"
  /\ \A k \in RanInline(K) : CanAnswer(k, NewRow, answer[k])
  /\ mode' = [mode EXCEPT ![o] = "inline"]
  /\ eff' = [e \in Effects |->
       IF OpOf(e) = o /\ KindOf(e) \in K THEN InlineRow(KindOf(e), answer) ELSE eff[e]]
  /\ runs' = [e \in Effects |->
       IF OpOf(e) = o /\ KindOf(e) \in RanInline(K) /\ answer[KindOf(e)] = "done"
         THEN runs[e] + 1 ELSE runs[e]]
  /\ \E rv \in InlineReviews(K, answer) : review' = [review EXCEPT ![o] = rv]
  /\ UNCHANGED <<receipt, provider, batch, pc, cur, faults>>

\* order_purge: pending rows of the order's operation can never run and are
\* cancelled; claimed rows are left to their fenced owner.
PurgeOrder(o) ==
  /\ mode[o] \in {"deferred", "inline"}
  /\ mode' = [mode EXCEPT ![o] = "purged"]
  /\ eff' = [e \in Effects |->
       IF OpOf(e) = o /\ eff[e].status = "pending"
         THEN [eff[e] EXCEPT !.status = "done", !.reason = "purged"] ELSE eff[e]]
  /\ UNCHANGED <<review, receipt, provider, runs, batch, pc, cur, faults>>

(***************************************************************************)
(* claimDueEffects.                                                        *)
(***************************************************************************)
\* A local effect's transaction holds its row lock from the claim check to
\* the commit.
Locked(e) == \E w \in Workers : pc[w] = "locked" /\ cur[w] = e

Gated_Never(e) == FALSE

\* An earlier-rank sibling is still open.
Gated(e) ==
  \E f \in Effects : /\ OpOf(f) = OpOf(e)
                     /\ Open(f)
                     /\ EffectRank(KindOf(f)) < EffectRank(KindOf(e))

Claimable_IgnoreLock(e) ==
  /\ \/ eff[e].status = "pending" /\ eff[e].due
     \/ eff[e].status = "processing" /\ eff[e].aged
  /\ ~Gated(e)

Claimable_NoReclaim(e) ==
  /\ eff[e].status = "pending" /\ eff[e].due
  /\ ~Gated(e)
  /\ ~Locked(e)

Claimable(e) ==
  /\ \/ eff[e].status = "pending" /\ eff[e].due
     \/ eff[e].status = "processing" /\ eff[e].aged
  /\ ~Gated(e)
  /\ ~Locked(e)

Idle(w) == pc[w] = "idle" /\ \A e \in Effects : batch[w][e] = 0

ClaimDueEffects(w, B) ==
  LET due == {e \in Effects : Claimable(e)} IN
  /\ Idle(w)
  /\ B # {}
  /\ B \subseteq due
  /\ \/ Cardinality(B) = BatchLimit
     \/ Cardinality(B) < BatchLimit /\ B = due
  /\ eff' = [e \in Effects |-> IF e \in B THEN ClaimedRow(eff[e]) ELSE eff[e]]
  /\ batch' = [batch EXCEPT ![w] =
       [e \in Effects |-> IF e \in B THEN ClaimedRow(eff[e]).claim ELSE 0]]
  /\ UNCHANGED <<mode, review, receipt, provider, runs, pc, cur, faults>>

(***************************************************************************)
(* processClaimedEffect.                                                   *)
(***************************************************************************)
\* The fence of claimedRow, applyOutcome, markRetryOrTerminal, markTerminal.
HoldsClaim(w, e) == eff[e].status = "processing" /\ eff[e].claim = batch[w][e]

\* The worker is finished with effect e and turns to the next of its batch.
Drop(w, e) ==
  /\ batch' = [batch EXCEPT ![w][e] = 0]
  /\ pc' = [pc EXCEPT ![w] = "idle"]
  /\ cur' = [cur EXCEPT ![w] = NoEffect]

\* The batch is processed in rank order.
NextOf(w, e) ==
  /\ pc[w] = "idle"
  /\ batch[w][e] # 0
  /\ \A f \in Effects : batch[w][f] # 0 => EffectRank(KindOf(e)) <= EffectRank(KindOf(f))

\* Begin: no handler in this process; a local effect opens its transaction and
\* locks the row; an external one looks its receipt up.  The row lock of
\* another worker's transaction is waited for.
StartAt(w, e) ==
  IF KindOf(e) \notin Registered[w] THEN "failing"
  ELSE IF KindOf(e) \in LocalKinds THEN "locked"
  ELSE IF e \in receipt THEN "called" ELSE "looked"

Start(w, e) ==
  /\ NextOf(w, e)
  /\ StartAt(w, e) # "failing" => ~Locked(e)
  /\ IF StartAt(w, e) = "failing" \/ HoldsClaim(w, e)
       THEN /\ pc' = [pc EXCEPT ![w] = StartAt(w, e)]
            /\ cur' = [cur EXCEPT ![w] = e]
            /\ UNCHANGED batch
       ELSE Drop(w, e)
  /\ UNCHANGED <<mode, eff, review, receipt, provider, runs, faults>>

\* A local handler answers; its writes, the outcome and the review row commit
\* together.
RunLocal(w, out) ==
  /\ pc[w] = "locked"
  /\ CanAnswer(KindOf(cur[w]), eff[cur[w]], out)
  /\ HoldsClaim(w, cur[w])
  /\ Record(cur[w], out)
  /\ Drop(w, cur[w])
  /\ UNCHANGED <<mode, receipt, provider, faults>>

\* The handler throws: its transaction rolls back and lets the lock go.
ThrowLocal(w) ==
  /\ pc[w] = "locked"
  /\ pc' = [pc EXCEPT ![w] = "failing"]
  /\ UNCHANGED <<mode, eff, review, receipt, provider, runs, batch, cur, faults>>

\* The provider acts on a key it has not seen, or repeats its answer.
CallProvider(w) ==
  /\ pc[w] = "looked"
  /\ provider' = provider \cup {cur[w]}
  /\ pc' = [pc EXCEPT ![w] = "called"]
  /\ UNCHANGED <<mode, eff, review, receipt, runs, batch, cur, faults>>

\* The call throws, before or after the provider acted.
CallThrows(w) ==
  /\ pc[w] = "looked"
  /\ provider' \in {provider, provider \cup {cur[w]}}
  /\ pc' = [pc EXCEPT ![w] = "failing"]
  /\ UNCHANGED <<mode, eff, review, receipt, runs, batch, cur, faults>>

\* Receipt, local follow-up and done in one transaction, fenced.
CompleteExternal_Unfenced(w) ==
  /\ pc[w] = "called"
  /\ receipt' = receipt \cup {cur[w]}
  /\ Record(cur[w], "done")
  /\ Drop(w, cur[w])
  /\ UNCHANGED <<mode, provider, faults>>

CompleteExternal_NoReceipt(w) ==
  /\ pc[w] = "called"
  /\ IF HoldsClaim(w, cur[w])
       THEN Record(cur[w], "done")
       ELSE UNCHANGED <<eff, review, runs>>
  /\ Drop(w, cur[w])
  /\ UNCHANGED <<mode, receipt, provider, faults>>

CompleteExternal(w) ==
  /\ pc[w] = "called"
  /\ IF HoldsClaim(w, cur[w])
       THEN Record(cur[w], "done") /\ receipt' = receipt \cup {cur[w]}
       ELSE UNCHANGED <<eff, review, runs, receipt>>
  /\ Drop(w, cur[w])
  /\ UNCHANGED <<mode, provider, faults>>

\* The follow-up throws: receipt and outcome roll back.
CompleteThrows(w) ==
  /\ pc[w] = "called"
  /\ HoldsClaim(w, cur[w])
  /\ pc' = [pc EXCEPT ![w] = "failing"]
  /\ UNCHANGED <<mode, eff, review, receipt, provider, runs, batch, cur, faults>>

\* failClaimed: the failed attempt is recorded in a transaction of its own.
FailClaimed_Unfenced(w) ==
  /\ pc[w] = "failing"
  /\ Record(cur[w], "failed")
  /\ Drop(w, cur[w])
  /\ UNCHANGED <<mode, receipt, provider, faults>>

FailClaimed(w) ==
  /\ pc[w] = "failing"
  /\ ~Locked(cur[w])
  /\ IF HoldsClaim(w, cur[w]) THEN Record(cur[w], "failed") ELSE UNCHANGED <<eff, review, runs>>
  /\ Drop(w, cur[w])
  /\ UNCHANGED <<mode, receipt, provider, faults>>

\* The process dies (or failClaimed itself throws): an open transaction rolls
\* back, the rest of the batch stays claimed.
Crash(w) ==
  /\ faults < MaxFaults
  /\ ~Idle(w)
  /\ pc' = [pc EXCEPT ![w] = "idle"]
  /\ cur' = [cur EXCEPT ![w] = NoEffect]
  /\ batch' = [batch EXCEPT ![w] = [e \in Effects |-> 0]]
  /\ faults' = faults + 1
  /\ UNCHANGED <<mode, eff, review, receipt, provider, runs>>

(***************************************************************************)
(* Operators and the clock.                                                *)
(***************************************************************************)
RequeueTerminalEffect(e) ==
  /\ faults < MaxFaults
  /\ eff[e].status = "terminal"
  /\ eff' = [eff EXCEPT ![e] = RequeuedRow(@)]
  /\ faults' = faults + 1
  /\ UNCHANGED <<mode, review, receipt, provider, runs, batch, pc, cur>>

\* A human approves a held issuance: the approval, the requeue and the inline
\* run commit together, or nothing does.
ApproveHeldEditIssuance(e, out) ==
  LET approved == [eff[e] EXCEPT !.approved = TRUE]
      claimed == ClaimedRow(RequeuedRow(approved))
      new == OutcomeRow(claimed, out) IN
  /\ faults < MaxFaults
  /\ KindOf(e) = "edit_reconcile"
  /\ eff[e].status = "terminal"
  /\ eff[e].reason = "held"
  /\ CanAnswer(KindOf(e), claimed, out)
  /\ eff' = [eff EXCEPT ![e] = new]
  /\ review' = [review EXCEPT ![OpOf(e)] = ReviewAfter(@, KindOf(e), approved, new)]
  /\ runs' = IF out = "done" THEN [runs EXCEPT ![e] = @ + 1] ELSE runs
  /\ faults' = faults + 1
  /\ UNCHANGED <<mode, receipt, provider, batch, pc, cur>>

\* next_attempt_at arrives.
BackoffElapses(e) ==
  /\ eff[e].status = "pending"
  /\ ~eff[e].due
  /\ eff' = [eff EXCEPT ![e].due = TRUE]
  /\ UNCHANGED <<mode, review, receipt, provider, runs, batch, pc, cur, faults>>

HasLiveOwner(e) == \E w \in Workers : batch[w][e] # 0 /\ HoldsClaim(w, e)

\* STALE_CLAIM_MS passes since claimed_at.  A claim whose worker is alive
\* overruns only when the worker is slow, which the model bounds.
ClaimAges(e) ==
  /\ eff[e].status = "processing"
  /\ ~eff[e].aged
  /\ HasLiveOwner(e) => faults < MaxFaults
  /\ eff' = [eff EXCEPT ![e].aged = TRUE]
  /\ faults' = IF HasLiveOwner(e) THEN faults + 1 ELSE faults
  /\ UNCHANGED <<mode, review, receipt, provider, runs, batch, pc, cur>>

\* The retry horizon passes since first_failed_at.
HorizonPasses(e) ==
  /\ Open(e)
  /\ eff[e].failed = "recent"
  /\ eff' = [eff EXCEPT ![e].failed = "late"]
  /\ UNCHANGED <<mode, review, receipt, provider, runs, batch, pc, cur, faults>>

-----------------------------------------------------------------------------
Init ==
  /\ mode = [o \in Ops |-> "none"]
  /\ eff = [e \in Effects |-> NoRow]
  /\ review = [o \in Ops |-> NoReview]
  /\ receipt = {}
  /\ provider = {}
  /\ runs = [e \in Effects |-> 0]
  /\ batch = [w \in Workers |-> [e \in Effects |-> 0]]
  /\ pc = [w \in Workers |-> "idle"]
  /\ cur = [w \in Workers |-> NoEffect]
  /\ faults = 0

\* A worker's steps on the effect in hand.
Process(w) ==
  \/ \E out \in Outcomes : RunLocal(w, out)
  \/ ThrowLocal(w)
  \/ CallProvider(w)
  \/ CallThrows(w)
  \/ CompleteExternal(w)
  \/ CompleteThrows(w)
  \/ FailClaimed(w)
  \/ \E e \in Effects : Start(w, e)

Claim(w) == \E B \in SUBSET Effects : ClaimDueEffects(w, B)

Settle ==
  \E o \in Ops : \E K \in SUBSET (Kinds \cup {"admin_review"}) :
    \/ RecordDeferred(o, K)
    \/ \E answer \in [LocalKinds -> Outcomes] : RecordInline(o, K, answer)

Operator ==
  \/ \E o \in Ops : PurgeOrder(o)
  \/ \E e \in Effects : RequeueTerminalEffect(e)
  \/ \E e \in Effects, out \in Outcomes : ApproveHeldEditIssuance(e, out)

Clock(e) == BackoffElapses(e) \/ ClaimAges(e) \/ HorizonPasses(e)

Next ==
  \/ Settle
  \/ Operator
  \/ \E w \in Workers : Claim(w) \/ Process(w) \/ Crash(w)
  \/ \E e \in Effects : Clock(e)

Spec == Init /\ [][Next]_vars

-----------------------------------------------------------------------------
(***************************************************************************)
(* Properties.                                                             *)
(***************************************************************************)
\* Every variable keeps its type; a review row names an executable effect of its
\* operation, never itself (markTerminal's guard against reviewing a review).
TypeOK ==
  /\ mode \in [Ops -> {"none", "deferred", "inline", "purged"}]
  /\ eff \in [Effects -> Row]
  /\ review \in [Ops -> Reviews]
  /\ receipt \subseteq Effects
  /\ provider \subseteq Effects
  /\ runs \in [Effects -> Nat]
  /\ batch \in [Workers -> [Effects -> Nat]]
  /\ pc \in [Workers -> {"idle", "locked", "looked", "called", "failing"}]
  /\ cur \in [Workers -> Effects \cup {NoEffect}]
  /\ faults \in Nat

\* An effect is executed at most once, however many workers, crashes, stale
\* reclaims, replays and operator retries there are; and a row says done
\* exactly when its execution committed, unless a purge cancelled it
\* (effects.ts: "a crash can never leave mutated but not done or done but not
\* mutated"; applyOutcome's fence).
ExecutedOnce ==
  \A e \in Effects :
    /\ runs[e] <= 1
    /\ runs[e] = 1 <=> eff[e].status = "done" /\ eff[e].reason # "purged"

\* A receipt exists exactly for the external effects that are done, and only
\* for keys the provider acted on: a finished effect never claims a call that
\* was not made, and an unfinished one never skips its call
\* (processExternal, receipt and done in one transaction).
ReceiptMatchesDone ==
  /\ receipt \subseteq provider
  /\ \A e \in Effects :
       e \in receipt <=> /\ KindOf(e) \in ExternalKinds
                         /\ eff[e].status = "done"
                         /\ eff[e].reason # "purged"

\* A worker inside its local-effect transaction still owns the claim: SKIP
\* LOCKED never lets an overdue claim be taken from a holder about to commit
\* (claimDueEffects against processClaimedEffect).
LiveHolderKeepsClaim ==
  \A w \in Workers : pc[w] = "locked" => HoldsClaim(w, cur[w])

\* A terminal effect always has an admin_review row on its operation, even when
\* several effects of one operation fail (markTerminal, enqueueEffects).
TerminalReviewed ==
  \A e \in Effects : eff[e].status = "terminal" => review[OpOf(e)].state # "none"

\* Deferred effects of one operation execute in rank order: one overtakes an
\* earlier-rank sibling only after a review row has been raised on the
\* operation (claimDueEffects' NOT EXISTS, across workers and reclaims).
RankedExecution ==
  \A e, f \in Effects :
    (/\ OpOf(e) = OpOf(f)
     /\ EffectRank(KindOf(e)) < EffectRank(KindOf(f))
     /\ mode[OpOf(e)] = "deferred"
     /\ eff[e].status # "none"
     /\ runs[f] = 1)
    => runs[e] = 1 \/ review[OpOf(e)].state # "none"

\* The contract of effects.ts read literally, for every recording mode: "Within
\* one operation a later-rank effect is not claimed while an earlier one is
\* pending/processing".  So no effect has been executed while an earlier-rank
\* sibling is open, unless a failure was put under review.
RankedInEveryMode ==
  \A e, f \in Effects :
    (/\ OpOf(e) = OpOf(f)
     /\ EffectRank(KindOf(e)) < EffectRank(KindOf(f))
     /\ Open(e)
     /\ runs[f] = 1)
    => review[OpOf(e)].state # "none"

\* "Not ready" retries are not counted against MAX_ATTEMPTS (EffectOutcome in
\* effects.ts): an effect that is given up for failing has failed, crashed or
\* thrown MAX_ATTEMPTS times, whatever number of times it was merely not ready.
NotReadyKeepsBudget ==
  \A e \in Effects :
    eff[e].status = "terminal" /\ eff[e].reason = "failed"
      => eff[e].attempts >= MaxAttempts + eff[e].notReady

\* A claim within its stale window is its owner's alone: no reclaim, no
\* ex-claimant, no purge and no operator changes the row under it, until the
\* owner records an outcome or dies (the fence on every write).
OwnerUndisturbed ==
  [][\A w \in Workers, e \in Effects :
       (/\ batch[w][e] # 0
        /\ HoldsClaim(w, e)
        /\ batch'[w][e] = batch[w][e]
        /\ ~eff[e].aged)
       => eff'[e].status = "processing" /\ eff'[e].claim = eff[e].claim]_vars
-----------------------------------------------------------------------------
\* Refinement mapping: what the contract of an effect sees of its row.
AbstractState ==
  [e \in Effects |->
     CASE eff[e].status = "none" -> "absent"
       [] eff[e].status \in {"pending", "processing"} -> "waiting"
       [] eff[e].status = "terminal" -> "aside"
       [] OTHER -> IF eff[e].reason = "purged" THEN "cancelled" ELSE "executed"]

Contract == INSTANCE EffectContract WITH state <- AbstractState, count <- runs

\* The engine implements the contract: every transaction of a worker, operator
\* or settlement is one of its steps or none (effects.ts, execution contract).
ImplementsContract == Contract!Spec
=============================================================================
