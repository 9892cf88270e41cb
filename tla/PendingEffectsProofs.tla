------------------------ MODULE PendingEffectsProofs ------------------------
(***************************************************************************)
(* Machine-checked proofs about the pending-effects engine, for any number *)
(* of operations, effect kinds, workers, attempts and faults.              *)
(*                                                                         *)
(* The fence alone (HoldsClaim) is not inductive.  The invariant adds what *)
(* makes a token mean ownership: no worker holds a claim the row has not   *)
(* issued (HeldBound), no two workers hold the same one (ClaimsDistinct),  *)
(* a worker that got past the fence is where its row says it is (Cursor),  *)
(* and an operation that was not recorded has no rows (Unrecorded).        *)
(***************************************************************************)
EXTENDS PendingEffects, TLAPS

HeldBound == \A w \in Workers, e \in Effects : batch[w][e] <= eff[e].claim

ClaimsDistinct ==
  \A v, w \in Workers, e \in Effects :
    v # w /\ batch[v][e] # 0 => batch[v][e] # batch[w][e]

Cursor ==
  \A w \in Workers :
    /\ pc[w] # "idle" => cur[w] \in Effects /\ batch[w][cur[w]] # 0
    /\ pc[w] = "locked" => KindOf(cur[w]) \in LocalKinds
    /\ pc[w] \in {"looked", "called"} => KindOf(cur[w]) \in ExternalKinds
    /\ pc[w] = "called" => cur[w] \in provider

Unrecorded ==
  \A e \in Effects : mode[OpOf(e)] = "none" => eff[e] = NoRow

HeldIsLocal ==
  \A e \in Effects : eff[e].reason = "held" => KindOf(e) \in LocalKinds

Inv ==
  /\ TypeOK
  /\ HeldBound
  /\ ClaimsDistinct
  /\ Cursor
  /\ Unrecorded
  /\ HeldIsLocal
  /\ LiveHolderKeepsClaim
  /\ ExecutedOnce
  /\ ReceiptMatchesDone
  /\ TerminalReviewed

-----------------------------------------------------------------------------
(* Row and review operators.                                                *)

\* An effect is a pair of its operation and its kind.
LEMMA EffectParts ==
  \A e \in Effects : OpOf(e) \in Ops /\ KindOf(e) \in Kinds /\ e # NoEffect
BY DEF Effects, OpOf, KindOf, NoEffect

\* A claim keeps the row well formed and issues the next token (claimDueEffects).
LEMMA ClaimedRowFacts ==
  ASSUME NEW r \in Row
  PROVE  /\ ClaimedRow(r) \in Row
         /\ ClaimedRow(r).status = "processing"
         /\ ClaimedRow(r).claim = r.claim + 1
         /\ ClaimedRow(r).attempts = r.attempts + 1
         /\ ClaimedRow(r).reason = r.reason
         /\ ClaimedRow(r).approved = r.approved
<1>1. r.claim \in Nat /\ r.attempts \in Nat
  BY DEF Row
<1>2. r.claim + 1 \in Nat /\ r.attempts + 1 \in Nat
  BY <1>1
<1> QED BY <1>2 DEF ClaimedRow, Row, Statuses

\* The fresh row of enqueueEffects.
LEMMA NewRowFacts ==
  /\ NoRow \in Row /\ NewRow \in Row
  /\ NoRow.status = "none" /\ NoRow.claim = 0 /\ NoRow.reason = "null"
  /\ NewRow.status = "pending" /\ NewRow.claim = 0 /\ NewRow.reason = "null"
BY DEF NoRow, NewRow, Row, Statuses, Reasons

\* What an outcome leaves: the token stands, only done is done, and only a hold
\* says held (applyOutcome, markRetryOrTerminal, markTerminal).
LEMMA OutcomeRowFacts ==
  ASSUME NEW r \in Row, NEW out \in Outcomes
  PROVE  /\ OutcomeRow(r, out) \in Row
         /\ OutcomeRow(r, out).claim = r.claim
         /\ OutcomeRow(r, out).approved = r.approved
         /\ out = "done" => /\ OutcomeRow(r, out).status = "done"
                            /\ OutcomeRow(r, out).reason = "null"
         /\ out # "done" => /\ OutcomeRow(r, out).status \in {"pending", "terminal"}
                            /\ OutcomeRow(r, out).reason = out
<1>1. DoneRow(r) \in Row /\ DoneRow(r).claim = r.claim /\ DoneRow(r).approved = r.approved
      /\ DoneRow(r).status = "done" /\ DoneRow(r).reason = "null"
  BY DEF DoneRow, Row, Statuses, Reasons
<1>2. FirstFailed(r) \in {"null", "recent", "late"}
  BY DEF FirstFailed, Row
<1>3. ASSUME NEW why \in Reasons
      PROVE  /\ TerminalRow(r, why) \in Row
             /\ TerminalRow(r, why).claim = r.claim
             /\ TerminalRow(r, why).approved = r.approved
             /\ TerminalRow(r, why).status = "terminal"
             /\ TerminalRow(r, why).reason = why
  BY <1>2 DEF TerminalRow, Row, Statuses, Reasons
<1>4. ASSUME NEW why \in Reasons
      PROVE  /\ RetryRow(r, why) \in Row
             /\ RetryRow(r, why).claim = r.claim
             /\ RetryRow(r, why).approved = r.approved
             /\ RetryRow(r, why).status = "pending"
             /\ RetryRow(r, why).reason = why
  <2>1. r.notReady \in Nat /\ r.notReady + 1 \in Nat
    BY DEF Row
  <2>2. (IF why = "notready" THEN r.notReady + 1 ELSE r.notReady) \in Nat
    BY <2>1
  <2> QED BY <1>2, <2>2 DEF RetryRow, Row, Statuses, Reasons
<1>5. out \in Reasons \/ out = "done"
  BY DEF Outcomes, Reasons
<1>6. CASE out = "done"
  BY <1>1, <1>6 DEF OutcomeRow
<1>7. CASE out \in {"failed", "notready"}
  BY <1>3, <1>4, <1>5, <1>7 DEF OutcomeRow
<1>8. CASE out \in {"refused", "held"}
  BY <1>3, <1>5, <1>8 DEF OutcomeRow
<1> QED BY <1>6, <1>7, <1>8 DEF Outcomes

\* The row of an operator's retry (requeueTerminalEffect).
LEMMA RequeuedRowFacts ==
  ASSUME NEW r \in Row
  PROVE  /\ RequeuedRow(r) \in Row
         /\ RequeuedRow(r).status = "pending"
         /\ RequeuedRow(r).claim = r.claim
         /\ RequeuedRow(r).reason = "null"
BY DEF RequeuedRow, Row, Statuses, Reasons

\* A review row is added for a terminal outcome and never removed.
LEMMA ReviewFacts ==
  ASSUME NEW rv \in Reviews, NEW k \in Kinds, NEW old, NEW new
  PROVE  /\ ReviewAfter(rv, k, old, new) \in Reviews
         /\ rv.state # "none" => ReviewAfter(rv, k, old, new).state # "none"
         /\ new.status = "terminal" => ReviewAfter(rv, k, old, new).state # "none"
BY DEF ReviewAfter, NoteTerminal, ResolveReview, Reviews
-----------------------------------------------------------------------------
(* Steps that move a worker and leave every row as it is.                   *)

\* Rows, reviews and receipts untouched, batches only emptied, the provider's
\* keys only added to: what remains to show is where the worker stands.
LEMMA WorkerFrame ==
  ASSUME Inv, UNCHANGED <<mode, eff, review, runs, receipt, faults>>,
         provider \subseteq provider', provider' \subseteq Effects,
         batch' \in [Workers -> [Effects -> Nat]],
         \A v \in Workers, f \in Effects : batch'[v][f] \in {0, batch[v][f]},
         pc' \in [Workers -> {"idle", "locked", "looked", "called", "failing"}],
         cur' \in [Workers -> Effects \cup {NoEffect}],
         Cursor', LiveHolderKeepsClaim'
  PROVE  Inv'
<1>1. TypeOK'
  BY DEF Inv, TypeOK
<1>2. HeldBound'
  <2>1. ASSUME NEW v \in Workers, NEW f \in Effects PROVE batch'[v][f] <= eff[f].claim
    <3>1. eff[f].claim \in Nat /\ batch[v][f] <= eff[f].claim
      BY DEF Inv, TypeOK, HeldBound, Row
    <3> QED BY <3>1
  <2> QED BY <2>1 DEF HeldBound
<1>3. ClaimsDistinct'
  BY DEF Inv, TypeOK, ClaimsDistinct
<1>4. Unrecorded' /\ HeldIsLocal' /\ ExecutedOnce' /\ TerminalReviewed'
  BY DEF Inv, Unrecorded, HeldIsLocal, ExecutedOnce, TerminalReviewed
<1>5. ReceiptMatchesDone'
  BY DEF Inv, ReceiptMatchesDone
<1> QED BY <1>1, <1>2, <1>3, <1>4, <1>5 DEF Inv

\* Taking up the next effect of the batch (processClaimedEffect's first look).
LEMMA StartInv ==
  ASSUME Inv, NEW w \in Workers, NEW e \in Effects, Start(w, e)
  PROVE  Inv'
<1> USE DEF Start, NextOf
<1>1. StartAt(w, e) \in {"locked", "looked", "called", "failing"}
  BY DEF StartAt
<1>2. CASE StartAt(w, e) = "failing" \/ HoldsClaim(w, e)
  <2>1. /\ pc' = [pc EXCEPT ![w] = StartAt(w, e)]
        /\ cur' = [cur EXCEPT ![w] = e]
        /\ batch' = batch
    BY <1>2
  <2>2. Cursor'
    <3>1. KindOf(e) \in LocalKinds \cup ExternalKinds
      BY EffectParts DEF Kinds
    <3>2. /\ StartAt(w, e) = "locked" => KindOf(e) \in LocalKinds
          /\ StartAt(w, e) \in {"looked", "called"} => KindOf(e) \in ExternalKinds
          /\ StartAt(w, e) = "called" => e \in receipt
      BY <3>1 DEF StartAt
    <3>3. receipt \subseteq provider
      BY DEF Inv, ReceiptMatchesDone
    <3> QED BY <2>1, <3>2, <3>3 DEF Inv, TypeOK, Cursor
  <2>3. LiveHolderKeepsClaim'
    BY <1>2, <2>1 DEF Inv, TypeOK, LiveHolderKeepsClaim, HoldsClaim
  <2> QED BY <1>1, <2>1, <2>2, <2>3, WorkerFrame DEF Inv, TypeOK
<1>3. CASE ~(StartAt(w, e) = "failing" \/ HoldsClaim(w, e))
  <2>1. /\ pc' = [pc EXCEPT ![w] = "idle"]
        /\ cur' = [cur EXCEPT ![w] = NoEffect]
        /\ batch' = [batch EXCEPT ![w][e] = 0]
    BY <1>3 DEF Drop
  <2>2. Cursor'
    BY <2>1 DEF Inv, TypeOK, Cursor
  <2>3. LiveHolderKeepsClaim'
    BY <2>1 DEF Inv, TypeOK, LiveHolderKeepsClaim, HoldsClaim
  <2>4. /\ batch' \in [Workers -> [Effects -> Nat]]
        /\ \A v \in Workers, f \in Effects : batch'[v][f] \in {0, batch[v][f]}
    BY <2>1 DEF Inv, TypeOK
  <2> QED BY <2>1, <2>2, <2>3, <2>4, WorkerFrame DEF Inv, TypeOK
<1> QED BY <1>2, <1>3

\* A throw, a provider call and a crash.
LEMMA MoveInv ==
  ASSUME Inv, NEW w \in Workers,
         \/ ThrowLocal(w) \/ CallProvider(w) \/ CallThrows(w) \/ CompleteThrows(w)
  PROVE  Inv'
<1>1. /\ UNCHANGED <<mode, eff, review, receipt, runs, batch, cur, faults>>
      /\ pc[w] # "idle"
      /\ \/ pc' = [pc EXCEPT ![w] = "failing"]
         \/ /\ pc[w] = "looked"
            /\ pc' = [pc EXCEPT ![w] = "called"]
            /\ cur[w] \in provider'
      /\ provider \subseteq provider'
  BY DEF ThrowLocal, CallProvider, CallThrows, CompleteThrows
<1>2. provider' \subseteq Effects
  <2>1. cur[w] \in Effects
    BY <1>1 DEF Inv, Cursor
  <2> QED BY <2>1 DEF Inv, TypeOK, ThrowLocal, CallProvider, CallThrows, CompleteThrows
<1>3. Cursor'
  BY <1>1 DEF Inv, TypeOK, Cursor
<1>4. LiveHolderKeepsClaim'
  BY <1>1 DEF Inv, TypeOK, LiveHolderKeepsClaim, HoldsClaim
<1> QED BY <1>1, <1>2, <1>3, <1>4, WorkerFrame DEF Inv, TypeOK

\* A crash loses the batch and counts a fault.
LEMMA CrashInv ==
  ASSUME Inv, NEW w \in Workers, Crash(w)
  PROVE  Inv'
<1> USE DEF Crash
<1>1. TypeOK'
  BY BoundsAssumption DEF Inv, TypeOK
<1>2. Cursor' /\ LiveHolderKeepsClaim'
  BY DEF Inv, TypeOK, Cursor, LiveHolderKeepsClaim, HoldsClaim
<1>3. \A v \in Workers, f \in Effects : batch'[v][f] \in {0, batch[v][f]}
  BY DEF Inv, TypeOK
<1>4. HeldBound' /\ ClaimsDistinct'
  BY <1>3 DEF Inv, TypeOK, HeldBound, ClaimsDistinct, Row
<1>5. Unrecorded' /\ HeldIsLocal' /\ ExecutedOnce' /\ TerminalReviewed' /\ ReceiptMatchesDone'
  BY DEF Inv, Unrecorded, HeldIsLocal, ExecutedOnce, TerminalReviewed, ReceiptMatchesDone
<1> QED BY <1>1, <1>2, <1>4, <1>5 DEF Inv
-----------------------------------------------------------------------------
(* Steps that write rows.                                                   *)

\* An outcome recorded by the owner of the claim keeps the invariant: the
\* common part of RunLocal, CompleteExternal and FailClaimed.
LEMMA CommitInv ==
  ASSUME Inv, NEW w \in Workers, NEW e \in Effects, NEW out \in Outcomes,
         HoldsClaim(w, e), Record(e, out), Drop(w, e),
         UNCHANGED <<mode, provider, faults>>,
         out = "held" => KindOf(e) \in LocalKinds,
         receipt' = IF out = "done" /\ KindOf(e) \in ExternalKinds
                      THEN receipt \cup {e} ELSE receipt,
         out = "done" /\ KindOf(e) \in ExternalKinds => e \in provider,
         \A v \in Workers : v # w => ~(pc[v] = "locked" /\ cur[v] = e)
  PROVE  Inv'
<1> DEFINE new == OutcomeRow(eff[e], out)
<1>1. eff[e] \in Row /\ OpOf(e) \in Ops /\ KindOf(e) \in Kinds
  BY EffectParts DEF Inv, TypeOK
<1>2. /\ new \in Row /\ new.claim = eff[e].claim
      /\ out = "done" => new.status = "done" /\ new.reason = "null"
      /\ out # "done" => new.status \in {"pending", "terminal"} /\ new.reason = out
  BY <1>1, OutcomeRowFacts
<1>3. /\ eff' = [eff EXCEPT ![e] = new]
      /\ review' = [review EXCEPT ![OpOf(e)] =
                      ReviewAfter(review[OpOf(e)], KindOf(e), eff[e], new)]
      /\ runs' = IF out = "done" THEN [runs EXCEPT ![e] = @ + 1] ELSE runs
      /\ batch' = [batch EXCEPT ![w][e] = 0]
      /\ pc' = [pc EXCEPT ![w] = "idle"]
      /\ cur' = [cur EXCEPT ![w] = NoEffect]
  BY DEF Record, Drop
<1> HIDE DEF new
<1>4. eff[e].status = "processing" /\ runs[e] = 0 /\ e \notin receipt
  <2>1. eff[e].status = "processing"
    BY DEF HoldsClaim
  <2>2. runs[e] \in Nat /\ runs[e] <= 1 /\ runs[e] # 1
    BY <2>1 DEF Inv, TypeOK, ExecutedOnce
  <2>3. e \notin receipt
    BY <2>1 DEF Inv, ReceiptMatchesDone
  <2> QED BY <2>1, <2>2, <2>3
<1>5. /\ ReviewAfter(review[OpOf(e)], KindOf(e), eff[e], new) \in Reviews
      /\ review[OpOf(e)].state # "none" =>
           ReviewAfter(review[OpOf(e)], KindOf(e), eff[e], new).state # "none"
      /\ new.status = "terminal" =>
           ReviewAfter(review[OpOf(e)], KindOf(e), eff[e], new).state # "none"
  <2>1. review[OpOf(e)] \in Reviews
    BY <1>1 DEF Inv, TypeOK
  <2> QED BY <1>1, <2>1, ReviewFacts
<1>6. TypeOK'
  <2>1. eff' \in [Effects -> Row] /\ review' \in [Ops -> Reviews]
    BY <1>2, <1>3, <1>5 DEF Inv, TypeOK
  <2>2. runs' \in [Effects -> Nat]
    BY <1>3, <1>4 DEF Inv, TypeOK
  <2>3. batch' \in [Workers -> [Effects -> Nat]]
    BY <1>3 DEF Inv, TypeOK
  <2>4. receipt' \subseteq Effects /\ provider' \subseteq Effects
    BY DEF Inv, TypeOK
  <2> QED BY <1>3, <2>1, <2>2, <2>3, <2>4 DEF Inv, TypeOK
<1>7. \A f \in Effects : eff'[f].claim = eff[f].claim /\ eff[f].claim \in Nat
  BY <1>2, <1>3 DEF Inv, TypeOK, Row
<1>8. \A v \in Workers, f \in Effects : batch'[v][f] \in {0, batch[v][f]}
  BY <1>3 DEF Inv, TypeOK
<1>9. HeldBound'
  <2>1. ASSUME NEW v \in Workers, NEW f \in Effects PROVE batch'[v][f] <= eff'[f].claim
    <3>1. batch[v][f] <= eff[f].claim
      BY DEF Inv, HeldBound
    <3> QED BY <3>1, <1>7, <1>8
  <2> QED BY <2>1 DEF HeldBound
<1>10. ClaimsDistinct'
  BY <1>8 DEF Inv, TypeOK, ClaimsDistinct
<1>11. Cursor'
  BY <1>3 DEF Inv, TypeOK, Cursor
<1>12. LiveHolderKeepsClaim'
  BY <1>3 DEF Inv, TypeOK, Cursor, LiveHolderKeepsClaim, HoldsClaim
<1>13. Unrecorded'
  BY <1>3, <1>4, NewRowFacts DEF Inv, TypeOK, Unrecorded
<1>14. HeldIsLocal'
  BY <1>2, <1>3 DEF Inv, TypeOK, HeldIsLocal
<1>15. ExecutedOnce'
  BY <1>2, <1>3, <1>4 DEF Inv, TypeOK, ExecutedOnce
<1>16. ReceiptMatchesDone'
  BY <1>2, <1>3, <1>4 DEF Inv, TypeOK, ReceiptMatchesDone
<1>17. TerminalReviewed'
  BY <1>1, <1>3, <1>5, EffectParts DEF Inv, TypeOK, TerminalReviewed
<1> QED BY <1>6, <1>9, <1>10, <1>11, <1>12, <1>13, <1>14, <1>15, <1>16, <1>17 DEF Inv

\* A worker whose claim was lost drops the effect and writes nothing.
LEMMA StaleInv ==
  ASSUME Inv, NEW w \in Workers, pc[w] # "idle", Drop(w, cur[w]),
         UNCHANGED <<mode, eff, review, runs, receipt, provider, faults>>
  PROVE  Inv'
<1>1. /\ batch' = [batch EXCEPT ![w][cur[w]] = 0]
      /\ pc' = [pc EXCEPT ![w] = "idle"]
      /\ cur' = [cur EXCEPT ![w] = NoEffect]
      /\ cur[w] \in Effects
  BY DEF Drop, Inv, Cursor
<1>2. /\ batch' \in [Workers -> [Effects -> Nat]]
      /\ \A v \in Workers, f \in Effects : batch'[v][f] \in {0, batch[v][f]}
  BY <1>1 DEF Inv, TypeOK
<1>3. Cursor' /\ LiveHolderKeepsClaim'
  BY <1>1 DEF Inv, TypeOK, Cursor, LiveHolderKeepsClaim, HoldsClaim
<1> QED BY <1>1, <1>2, <1>3, WorkerFrame DEF Inv, TypeOK

\* A local handler's answer.
LEMMA RunLocalInv ==
  ASSUME Inv, NEW w \in Workers, NEW out \in Outcomes, RunLocal(w, out)
  PROVE  Inv'
<1> USE DEF RunLocal
<1>1. cur[w] \in Effects /\ KindOf(cur[w]) \in LocalKinds /\ KindOf(cur[w]) \notin ExternalKinds
      /\ batch[w][cur[w]] # 0
  BY KindsAssumption DEF Inv, Cursor
<1>2. ASSUME NEW v \in Workers, v # w PROVE ~(pc[v] = "locked" /\ cur[v] = cur[w])
  <2>1. SUFFICES ASSUME pc[v] = "locked", cur[v] = cur[w] PROVE FALSE
    OBVIOUS
  <2>2. HoldsClaim(v, cur[w])
    BY <2>1 DEF Inv, LiveHolderKeepsClaim
  <2> QED BY <1>1, <1>2, <2>2 DEF Inv, ClaimsDistinct, HoldsClaim
<1> QED BY <1>1, <1>2, CommitInv

\* The receipt transaction of an external effect.
LEMMA CompleteExternalInv ==
  ASSUME Inv, NEW w \in Workers, CompleteExternal(w)
  PROVE  Inv'
<1> USE DEF CompleteExternal
<1>1. /\ cur[w] \in Effects /\ KindOf(cur[w]) \in ExternalKinds
      /\ KindOf(cur[w]) \notin LocalKinds /\ cur[w] \in provider
  BY KindsAssumption DEF Inv, Cursor
<1>2. \A v \in Workers : v # w => ~(pc[v] = "locked" /\ cur[v] = cur[w])
  BY <1>1 DEF Inv, Cursor
<1>3. CASE HoldsClaim(w, cur[w])
  <2>1. "done" \in Outcomes
    BY DEF Outcomes
  <2> QED BY <1>1, <1>2, <1>3, <2>1, CommitInv
<1>4. CASE ~HoldsClaim(w, cur[w])
  BY <1>4, StaleInv
<1> QED BY <1>3, <1>4

\* The record of a failed attempt.
LEMMA FailClaimedInv ==
  ASSUME Inv, NEW w \in Workers, FailClaimed(w)
  PROVE  Inv'
<1> USE DEF FailClaimed
<1>1. cur[w] \in Effects
  BY DEF Inv, Cursor
<1>2. \A v \in Workers : v # w => ~(pc[v] = "locked" /\ cur[v] = cur[w])
  BY DEF Locked
<1>3. CASE HoldsClaim(w, cur[w])
  <2>1. "failed" \in Outcomes
    BY DEF Outcomes
  <2> QED BY <1>1, <1>2, <1>3, <2>1, CommitInv
<1>4. CASE ~HoldsClaim(w, cur[w])
  BY <1>4, StaleInv
<1> QED BY <1>3, <1>4
\* A batch of claims: fresh tokens, rows locked by a live holder left alone.
LEMMA ClaimInv ==
  ASSUME Inv, NEW w \in Workers, NEW B \in SUBSET Effects, ClaimDueEffects(w, B)
  PROVE  Inv'
<1> USE DEF ClaimDueEffects
<1>1. \A e \in Effects : eff[e] \in Row /\ eff[e].claim \in Nat
  BY DEF Inv, TypeOK, Row
<1>2. \A e \in Effects : /\ ClaimedRow(eff[e]) \in Row
                         /\ ClaimedRow(eff[e]).status = "processing"
                         /\ ClaimedRow(eff[e]).claim = eff[e].claim + 1
                         /\ ClaimedRow(eff[e]).reason = eff[e].reason
  BY <1>1, ClaimedRowFacts
<1>3. \A e \in B : /\ e \in Effects /\ ~Locked(e)
                   /\ eff[e].status \in {"pending", "processing"}
  BY DEF Claimable
<1>4. /\ eff' = [e \in Effects |-> IF e \in B THEN ClaimedRow(eff[e]) ELSE eff[e]]
      /\ batch' = [batch EXCEPT ![w] =
                     [e \in Effects |-> IF e \in B THEN ClaimedRow(eff[e]).claim ELSE 0]]
      /\ UNCHANGED <<mode, review, receipt, provider, runs, pc, cur, faults>>
      /\ pc[w] = "idle"
  BY DEF Idle
<1>5. TypeOK'
  <2>1. eff' \in [Effects -> Row]
    BY <1>1, <1>2, <1>4
  <2>2. [e \in Effects |-> IF e \in B THEN ClaimedRow(eff[e]).claim ELSE 0] \in [Effects -> Nat]
    BY <1>1, <1>2
  <2>3. batch' \in [Workers -> [Effects -> Nat]]
    BY <1>4, <2>2 DEF Inv, TypeOK
  <2> QED BY <1>4, <2>1, <2>3 DEF Inv, TypeOK
<1>6. \A v \in Workers, e \in Effects :
        batch'[v][e] = IF v = w THEN (IF e \in B THEN eff[e].claim + 1 ELSE 0) ELSE batch[v][e]
  BY <1>2, <1>4 DEF Inv, TypeOK
<1>7. \A e \in Effects : eff'[e].claim = IF e \in B THEN eff[e].claim + 1 ELSE eff[e].claim
  BY <1>2, <1>4
<1>8. \A v \in Workers, e \in Effects : batch[v][e] <= eff[e].claim /\ batch[v][e] \in Nat
  BY DEF Inv, TypeOK, HeldBound
<1>9. HeldBound'
  <2>1. ASSUME NEW v \in Workers, NEW e \in Effects PROVE batch'[v][e] <= eff'[e].claim
    <3>1. /\ eff[e].claim \in Nat /\ batch[v][e] <= eff[e].claim /\ batch[v][e] \in Nat
          /\ batch'[v][e] = IF v = w THEN (IF e \in B THEN eff[e].claim + 1 ELSE 0) ELSE batch[v][e]
          /\ eff'[e].claim = IF e \in B THEN eff[e].claim + 1 ELSE eff[e].claim
      BY <1>1, <1>6, <1>7, <1>8
    <3> QED BY <3>1
  <2> QED BY <2>1 DEF HeldBound
<1>10. ClaimsDistinct'
  <2>1. ASSUME NEW u \in Workers, NEW v \in Workers, NEW e \in Effects, u # v, batch'[u][e] # 0
        PROVE  batch'[u][e] # batch'[v][e]
    <3>1. /\ eff[e].claim \in Nat
          /\ batch[u][e] <= eff[e].claim /\ batch[v][e] <= eff[e].claim
          /\ batch[u][e] \in Nat /\ batch[v][e] \in Nat
      BY <1>1, <1>8
    <3>2. batch[u][e] # 0 => batch[u][e] # batch[v][e]
      BY <2>1 DEF Inv, ClaimsDistinct
    <3>3. /\ batch'[u][e] = IF u = w THEN (IF e \in B THEN eff[e].claim + 1 ELSE 0) ELSE batch[u][e]
          /\ batch'[v][e] = IF v = w THEN (IF e \in B THEN eff[e].claim + 1 ELSE 0) ELSE batch[v][e]
      BY <1>6
    <3> QED BY <2>1, <3>1, <3>2, <3>3
  <2> QED BY <2>1 DEF ClaimsDistinct
<1>11. Cursor'
  BY <1>4, <1>6 DEF Inv, TypeOK, Cursor
<1>12. LiveHolderKeepsClaim'
  <2>1. ASSUME NEW v \in Workers, pc[v] = "locked" PROVE HoldsClaim(v, cur[v])'
    <3>1. cur[v] \in Effects /\ HoldsClaim(v, cur[v]) /\ v # w
      BY <1>4, <2>1 DEF Inv, Cursor, LiveHolderKeepsClaim
    <3>2. cur[v] \notin B
      BY <1>3, <2>1 DEF Locked
    <3> QED BY <1>4, <1>6, <3>1, <3>2 DEF HoldsClaim
  <2> QED BY <1>4, <2>1 DEF LiveHolderKeepsClaim
<1>13. Unrecorded'
  BY <1>3, <1>4, NewRowFacts DEF Inv, Unrecorded
<1>14. HeldIsLocal'
  BY <1>2, <1>4 DEF Inv, HeldIsLocal
<1>15. ExecutedOnce'
  BY <1>2, <1>3, <1>4 DEF Inv, TypeOK, ExecutedOnce
<1>16. ReceiptMatchesDone'
  BY <1>2, <1>3, <1>4 DEF Inv, ReceiptMatchesDone
<1>17. TerminalReviewed'
  BY <1>2, <1>4 DEF Inv, TerminalReviewed
<1> QED BY <1>5, <1>9, <1>10, <1>11, <1>12, <1>13, <1>14, <1>15, <1>16, <1>17 DEF Inv

\* Rows written without touching a worker's claim: the common part of the
\* settlement, operator and clock steps.
LEMMA RowsFrame ==
  ASSUME Inv, TypeOK', UNCHANGED <<receipt, provider, batch, pc, cur>>,
         \A e \in Effects :
           /\ eff[e].claim <= eff'[e].claim
           /\ eff[e].status = "processing" =>
                eff'[e].status = "processing" /\ eff'[e].claim = eff[e].claim
           /\ eff'[e].reason = "held" => eff[e].reason = "held" \/ KindOf(e) \in LocalKinds
           /\ runs'[e] <= 1
           /\ runs'[e] = 1 <=> eff'[e].status = "done" /\ eff'[e].reason # "purged"
           /\ KindOf(e) \in ExternalKinds => runs'[e] = runs[e]
           /\ eff'[e].status = "terminal" => review'[OpOf(e)].state # "none"
           /\ mode'[OpOf(e)] = "none" => mode[OpOf(e)] = "none" /\ eff'[e] = eff[e]
  PROVE  Inv'
<1>1. HeldBound'
  <2>1. ASSUME NEW v \in Workers, NEW f \in Effects PROVE batch'[v][f] <= eff'[f].claim
    <3>1. eff[f] \in Row /\ eff'[f] \in Row /\ batch[v][f] \in Nat
      BY DEF Inv, TypeOK
    <3>2. eff[f].claim \in Nat /\ eff'[f].claim \in Nat
      BY <3>1 DEF Row
    <3>3. batch[v][f] <= eff[f].claim /\ batch'[v][f] = batch[v][f] /\ eff[f].claim <= eff'[f].claim
      BY DEF Inv, HeldBound
    <3> QED BY <3>1, <3>2, <3>3
  <2> QED BY <2>1 DEF HeldBound
<1>2. ClaimsDistinct' /\ Cursor'
  BY DEF Inv, ClaimsDistinct, Cursor
<1>3. LiveHolderKeepsClaim'
  BY DEF Inv, Cursor, LiveHolderKeepsClaim, HoldsClaim
<1>4. Unrecorded'
  BY DEF Inv, Unrecorded
<1>5. HeldIsLocal'
  BY DEF Inv, HeldIsLocal
<1>6. ExecutedOnce' /\ TerminalReviewed'
  BY DEF ExecutedOnce, TerminalReviewed
<1>7. ReceiptMatchesDone'
  <2>1. \A e \in Effects : KindOf(e) \in ExternalKinds => (e \in receipt <=> runs[e] = 1)
    BY DEF Inv, ReceiptMatchesDone, ExecutedOnce
  <2>2. \A e \in receipt : e \in Effects /\ KindOf(e) \in ExternalKinds
    BY DEF Inv, TypeOK, ReceiptMatchesDone
  <2> QED BY <2>1, <2>2 DEF Inv, ReceiptMatchesDone
<1> QED BY <1>1, <1>2, <1>3, <1>4, <1>5, <1>6, <1>7 DEF Inv
\* Before it is recorded an operation has no executed rows.
LEMMA FreshRows ==
  ASSUME Inv, NEW e \in Effects, mode[OpOf(e)] = "none"
  PROVE  eff[e] = NoRow /\ eff[e].status = "none" /\ eff[e].claim = 0 /\ runs[e] = 0
<1>1. eff[e] = NoRow
  BY DEF Inv, Unrecorded
<1>2. runs[e] \in Nat /\ runs[e] <= 1 /\ runs[e] # 1
  BY <1>1, NewRowFacts DEF Inv, TypeOK, ExecutedOnce
<1> QED BY <1>1, <1>2, NewRowFacts

\* What every row satisfies in a state of the invariant.
LEMMA RowFacts ==
  ASSUME Inv, NEW e \in Effects
  PROVE  /\ eff[e] \in Row /\ eff[e].claim \in Nat /\ eff[e].claim <= eff[e].claim
         /\ runs[e] \in Nat /\ runs[e] <= 1
         /\ runs[e] = 1 <=> eff[e].status = "done" /\ eff[e].reason # "purged"
         /\ eff[e].status = "terminal" => review[OpOf(e)].state # "none"
BY DEF Inv, TypeOK, Row, ExecutedOnce, TerminalReviewed

\* Recording an operation for the worker.
LEMMA RecordDeferredInv ==
  ASSUME Inv, NEW o \in Ops, NEW K \in SUBSET (Kinds \cup {"admin_review"}),
         RecordDeferred(o, K)
  PROVE  Inv'
<1> USE DEF RecordDeferred
<1>1. TypeOK'
  <2>1. eff' \in [Effects -> Row]
    BY NewRowFacts DEF Inv, TypeOK
  <2>2. [state |-> "open", failedEffect |-> "none"] \in Reviews
    BY DEF Reviews
  <2> QED BY <2>1, <2>2 DEF Inv, TypeOK
<1>2. ASSUME NEW e \in Effects
      PROVE  /\ eff[e].claim <= eff'[e].claim
             /\ eff[e].status = "processing" =>
                  eff'[e].status = "processing" /\ eff'[e].claim = eff[e].claim
             /\ eff'[e].reason = "held" => eff[e].reason = "held" \/ KindOf(e) \in LocalKinds
             /\ runs'[e] <= 1
             /\ runs'[e] = 1 <=> eff'[e].status = "done" /\ eff'[e].reason # "purged"
             /\ KindOf(e) \in ExternalKinds => runs'[e] = runs[e]
             /\ eff'[e].status = "terminal" => review'[OpOf(e)].state # "none"
             /\ mode'[OpOf(e)] = "none" => mode[OpOf(e)] = "none" /\ eff'[e] = eff[e]
  <2>1. CASE OpOf(e) = o /\ KindOf(e) \in K
    <3>1. eff'[e] = NewRow /\ runs'[e] = runs[e] /\ mode'[o] = "deferred"
      BY <2>1 DEF Inv, TypeOK
    <3> QED BY <2>1, <3>1, FreshRows, NewRowFacts
  <2>2. CASE ~(OpOf(e) = o /\ KindOf(e) \in K)
    <3>1. eff'[e] = eff[e] /\ runs'[e] = runs[e]
      BY <2>2
    <3>2. OpOf(e) # o => review'[OpOf(e)] = review[OpOf(e)] /\ mode'[OpOf(e)] = mode[OpOf(e)]
      BY EffectParts DEF Inv, TypeOK
    <3>3. mode'[o] = "deferred"
      BY DEF Inv, TypeOK
    <3>4. OpOf(e) = o => eff[e].status = "none"
      BY FreshRows
    <3> QED BY <2>2, <3>1, <3>2, <3>3, <3>4, RowFacts
  <2> QED BY <2>1, <2>2
<1> QED BY <1>1, <1>2, RowsFrame

\* The rows an inline run leaves (executeEffectsNow).
LEMMA InlineRowFacts ==
  ASSUME NEW answer \in [LocalKinds -> Outcomes], NEW k \in Kinds
  PROVE  /\ InlineRow(k, answer) \in Row
         /\ k \notin LocalKinds => InlineRow(k, answer) = NewRow
         /\ k \in LocalKinds /\ answer[k] = "done" =>
              InlineRow(k, answer).status = "done" /\ InlineRow(k, answer).reason = "null"
         /\ k \in LocalKinds /\ answer[k] # "done" =>
              InlineRow(k, answer).status \in {"pending", "terminal"}
<1>1. ClaimedRow(NewRow) \in Row
  BY NewRowFacts, ClaimedRowFacts
<1>2. CASE k \in LocalKinds
  <2>1. answer[k] \in Outcomes /\ InlineRow(k, answer) = OutcomeRow(ClaimedRow(NewRow), answer[k])
    BY <1>2 DEF InlineRow
  <2> QED BY <1>1, <1>2, <2>1, OutcomeRowFacts
<1>3. CASE k \notin LocalKinds
  BY <1>3, NewRowFacts DEF InlineRow
<1> QED BY <1>2, <1>3

\* The review row an inline run leaves: there is one when an effect is terminal.
LEMMA InlineReviewFacts ==
  ASSUME NEW K \in SUBSET (Kinds \cup {"admin_review"}), NEW answer \in [LocalKinds -> Outcomes],
         NEW rv \in InlineReviews(K, answer)
  PROVE  /\ rv \in Reviews
         /\ \A k \in RanInline(K) : InlineRow(k, answer).status = "terminal" => rv.state # "none"
<1>1. NoReview \in Reviews /\ [state |-> "open", failedEffect |-> "none"] \in Reviews
  BY DEF NoReview, Reviews
<1>2. ASSUME NEW k \in Kinds
      PROVE  NoteTerminal(NoReview, k) = [state |-> "open", failedEffect |-> k]
  BY DEF NoteTerminal, NoReview
<1>3. RanInline(K) \subseteq Kinds
  BY KindsAssumption DEF RanInline, Kinds
<1> QED BY <1>1, <1>2, <1>3 DEF InlineReviews, Reviews

\* Recording an operation and running its local effects in the transaction.
LEMMA RecordInlineInv ==
  ASSUME Inv, NEW o \in Ops, NEW K \in SUBSET (Kinds \cup {"admin_review"}),
         NEW answer \in [LocalKinds -> Outcomes], RecordInline(o, K, answer)
  PROVE  Inv'
<1> USE DEF RecordInline
<1>0. PICK rv \in InlineReviews(K, answer) : review' = [review EXCEPT ![o] = rv]
  OBVIOUS
<1>1. /\ rv \in Reviews
      /\ \A k \in RanInline(K) : InlineRow(k, answer).status = "terminal" => rv.state # "none"
  BY InlineReviewFacts
<1>2. \A e \in Effects : InlineRow(KindOf(e), answer) \in Row
  BY EffectParts, InlineRowFacts
<1>3. TypeOK'
  <2>1. eff' \in [Effects -> Row]
    BY <1>2 DEF Inv, TypeOK
  <2>2. review' \in [Ops -> Reviews]
    BY <1>0, <1>1 DEF Inv, TypeOK
  <2>3. runs' \in [Effects -> Nat]
    BY DEF Inv, TypeOK
  <2> QED BY <2>1, <2>2, <2>3 DEF Inv, TypeOK
<1>4. ASSUME NEW e \in Effects
      PROVE  /\ eff[e].claim <= eff'[e].claim
             /\ eff[e].status = "processing" =>
                  eff'[e].status = "processing" /\ eff'[e].claim = eff[e].claim
             /\ eff'[e].reason = "held" => eff[e].reason = "held" \/ KindOf(e) \in LocalKinds
             /\ runs'[e] <= 1
             /\ runs'[e] = 1 <=> eff'[e].status = "done" /\ eff'[e].reason # "purged"
             /\ KindOf(e) \in ExternalKinds => runs'[e] = runs[e]
             /\ eff'[e].status = "terminal" => review'[OpOf(e)].state # "none"
             /\ mode'[OpOf(e)] = "none" => mode[OpOf(e)] = "none" /\ eff'[e] = eff[e]
  <2>0. mode'[o] = "inline" /\ review'[o] = rv /\ KindOf(e) \in Kinds
        /\ (OpOf(e) # o => review'[OpOf(e)] = review[OpOf(e)] /\ mode'[OpOf(e)] = mode[OpOf(e)])
    BY <1>0, EffectParts DEF Inv, TypeOK
  <2>1. CASE OpOf(e) = o /\ KindOf(e) \in K
    <3>1. /\ eff'[e] = InlineRow(KindOf(e), answer)
          /\ runs'[e] = IF KindOf(e) \in LocalKinds /\ answer[KindOf(e)] = "done"
                          THEN runs[e] + 1 ELSE runs[e]
      BY <2>1 DEF RanInline
    <3>2. eff[e].status = "none" /\ eff[e].claim = 0 /\ runs[e] = 0
      BY <2>1, FreshRows
    <3>3. eff'[e].claim \in Nat /\ eff'[e].claim >= 0
      BY <1>3 DEF TypeOK, Row
    <3>4. CASE KindOf(e) \in LocalKinds
      <4>1. KindOf(e) \in RanInline(K) /\ KindOf(e) \notin ExternalKinds
        BY <2>1, <3>4, KindsAssumption DEF RanInline
      <4> QED BY <1>1, <2>0, <2>1, <3>1, <3>2, <3>3, <3>4, <4>1, InlineRowFacts
    <3>5. CASE KindOf(e) \notin LocalKinds
      BY <2>0, <2>1, <3>1, <3>2, <3>5, InlineRowFacts, NewRowFacts
    <3> QED BY <3>4, <3>5
  <2>2. CASE ~(OpOf(e) = o /\ KindOf(e) \in K)
    <3>1. eff'[e] = eff[e] /\ runs'[e] = runs[e]
      BY <2>2 DEF RanInline
    <3>2. OpOf(e) = o => eff[e].status = "none"
      BY FreshRows
    <3> QED BY <2>0, <2>2, <3>1, <3>2, RowFacts
  <2> QED BY <2>1, <2>2
<1> QED BY <1>3, <1>4, RowsFrame

\* A purge cancels pending rows and no claimed one.
LEMMA PurgeInv ==
  ASSUME Inv, NEW o \in Ops, PurgeOrder(o)
  PROVE  Inv'
<1> USE DEF PurgeOrder
<1>1. \A e \in Effects : LET p == [eff[e] EXCEPT !.status = "done", !.reason = "purged"] IN
        /\ p \in Row /\ p.claim = eff[e].claim /\ p.status = "done" /\ p.reason = "purged"
  BY RowFacts DEF Row, Statuses, Reasons
<1>2. TypeOK'
  <2>1. eff' \in [Effects -> Row]
    BY <1>1 DEF Inv, TypeOK
  <2> QED BY <2>1 DEF Inv, TypeOK
<1>3. \A p \in Ops : mode'[p] = "none" => mode[p] = "none" /\ p # o
  BY DEF Inv, TypeOK
<1>4. ASSUME NEW e \in Effects
      PROVE  /\ eff[e].claim <= eff'[e].claim
             /\ eff[e].status = "processing" =>
                  eff'[e].status = "processing" /\ eff'[e].claim = eff[e].claim
             /\ eff'[e].reason = "held" => eff[e].reason = "held" \/ KindOf(e) \in LocalKinds
             /\ runs'[e] <= 1
             /\ runs'[e] = 1 <=> eff'[e].status = "done" /\ eff'[e].reason # "purged"
             /\ KindOf(e) \in ExternalKinds => runs'[e] = runs[e]
             /\ eff'[e].status = "terminal" => review'[OpOf(e)].state # "none"
             /\ mode'[OpOf(e)] = "none" => mode[OpOf(e)] = "none" /\ eff'[e] = eff[e]
  BY <1>1, <1>3, RowFacts, EffectParts
<1> QED BY <1>2, <1>4, RowsFrame
\* One row rewritten in place: the common part of the operator's and the
\* clock's steps on a single effect.
LEMMA OneRow ==
  ASSUME Inv, NEW e \in Effects, NEW new \in Row,
         eff' = [eff EXCEPT ![e] = new],
         UNCHANGED <<mode, receipt, provider, batch, pc, cur>>,
         faults' \in Nat, review' \in [Ops -> Reviews], runs' \in [Effects -> Nat],
         \A f \in Effects : f # e => runs'[f] = runs[f],
         \A o \in Ops : review[o].state # "none" => review'[o].state # "none",
         eff[e].claim <= new.claim,
         eff[e].status = "processing" => new.status = "processing" /\ new.claim = eff[e].claim,
         new.reason = "held" => eff[e].reason = "held" \/ KindOf(e) \in LocalKinds,
         runs'[e] <= 1,
         runs'[e] = 1 <=> new.status = "done" /\ new.reason # "purged",
         KindOf(e) \in ExternalKinds => runs'[e] = runs[e],
         new.status = "terminal" => review'[OpOf(e)].state # "none",
         mode[OpOf(e)] # "none"
  PROVE  Inv'
<1>1. TypeOK'
  BY DEF Inv, TypeOK
<1>2. ASSUME NEW f \in Effects
      PROVE  /\ eff[f].claim <= eff'[f].claim
             /\ eff[f].status = "processing" =>
                  eff'[f].status = "processing" /\ eff'[f].claim = eff[f].claim
             /\ eff'[f].reason = "held" => eff[f].reason = "held" \/ KindOf(f) \in LocalKinds
             /\ runs'[f] <= 1
             /\ runs'[f] = 1 <=> eff'[f].status = "done" /\ eff'[f].reason # "purged"
             /\ KindOf(f) \in ExternalKinds => runs'[f] = runs[f]
             /\ eff'[f].status = "terminal" => review'[OpOf(f)].state # "none"
             /\ mode'[OpOf(f)] = "none" => mode[OpOf(f)] = "none" /\ eff'[f] = eff[f]
  <2>1. CASE f = e
    <3>1. eff'[e] = new
      BY DEF Inv, TypeOK
    <3> QED BY <2>1, <3>1
  <2>2. CASE f # e
    <3>1. eff'[f] = eff[f] /\ runs'[f] = runs[f] /\ mode' = mode
      BY <2>2
    <3> QED BY <3>1, RowFacts, EffectParts
  <2> QED BY <2>1, <2>2
<1> QED BY <1>1, <1>2, RowsFrame

\* A row that exists belongs to a recorded operation.
LEMMA RecordedRow ==
  ASSUME Inv, NEW e \in Effects, eff[e].status # "none"
  PROVE  mode[OpOf(e)] # "none"
BY FreshRows

\* An operator's retry.
LEMMA RequeueInv ==
  ASSUME Inv, NEW e \in Effects, RequeueTerminalEffect(e)
  PROVE  Inv'
<1> USE DEF RequeueTerminalEffect
<1>1. /\ RequeuedRow(eff[e]) \in Row /\ RequeuedRow(eff[e]).status = "pending"
      /\ RequeuedRow(eff[e]).claim = eff[e].claim /\ RequeuedRow(eff[e]).reason = "null"
  BY RowFacts, RequeuedRowFacts
<1>2. runs[e] # 1 /\ runs[e] <= 1 /\ eff[e].claim <= eff[e].claim /\ mode[OpOf(e)] # "none"
  BY RowFacts, RecordedRow
<1>3. faults' \in Nat /\ review' \in [Ops -> Reviews] /\ runs' \in [Effects -> Nat]
  BY DEF Inv, TypeOK
<1> QED BY <1>1, <1>2, <1>3, OneRow

\* A human's approval, requeue and inline run of a held effect.
LEMMA ApproveInv ==
  ASSUME Inv, NEW e \in Effects, NEW out \in Outcomes, ApproveHeldEditIssuance(e, out)
  PROVE  Inv'
<1> DEFINE approved == [eff[e] EXCEPT !.approved = TRUE]
           claimed == ClaimedRow(RequeuedRow(approved))
           new == OutcomeRow(claimed, out)
<1>1. /\ eff[e].status = "terminal" /\ eff[e].reason = "held"
      /\ eff' = [eff EXCEPT ![e] = new]
      /\ review' = [review EXCEPT ![OpOf(e)] =
                      ReviewAfter(review[OpOf(e)], KindOf(e), approved, new)]
      /\ runs' = IF out = "done" THEN [runs EXCEPT ![e] = @ + 1] ELSE runs
      /\ faults' = faults + 1
      /\ UNCHANGED <<mode, receipt, provider, batch, pc, cur>>
  BY DEF ApproveHeldEditIssuance
<1>2. approved \in Row /\ approved.claim = eff[e].claim
  BY RowFacts DEF Row
<1>3. claimed \in Row /\ claimed.claim = eff[e].claim + 1
  <2>1. RequeuedRow(approved) \in Row /\ RequeuedRow(approved).claim = approved.claim
    BY <1>2, RequeuedRowFacts
  <2> HIDE DEF approved
  <2> QED BY <1>2, <2>1, ClaimedRowFacts
<1>4. /\ new \in Row /\ new.claim = eff[e].claim + 1
      /\ out = "done" => new.status = "done" /\ new.reason = "null"
      /\ out # "done" => new.status \in {"pending", "terminal"} /\ new.reason = out
  BY <1>3, OutcomeRowFacts
<1>5. OpOf(e) \in Ops /\ KindOf(e) \in LocalKinds /\ KindOf(e) \in Kinds
      /\ KindOf(e) \notin ExternalKinds
  BY <1>1, EffectParts, KindsAssumption DEF Inv, HeldIsLocal
<1>6. LET rv == ReviewAfter(review[OpOf(e)], KindOf(e), approved, new) IN
        /\ rv \in Reviews
        /\ review[OpOf(e)].state # "none" => rv.state # "none"
        /\ new.status = "terminal" => rv.state # "none"
  <2>1. review[OpOf(e)] \in Reviews
    BY <1>5 DEF Inv, TypeOK
  <2> QED BY <1>5, <2>1, ReviewFacts
<1> HIDE DEF new, claimed, approved
<1>7. eff[e].claim \in Nat /\ eff[e].claim <= new.claim
  BY <1>4, RowFacts
<1>8. runs[e] = 0 /\ mode[OpOf(e)] # "none"
  BY <1>1, RowFacts, RecordedRow
<1>9. /\ runs' \in [Effects -> Nat] /\ runs'[e] <= 1
      /\ runs'[e] = 1 <=> new.status = "done" /\ new.reason # "purged"
      /\ \A f \in Effects : f # e => runs'[f] = runs[f]
  BY <1>1, <1>4, <1>8 DEF Inv, TypeOK
<1>10. /\ review' \in [Ops -> Reviews]
       /\ \A o \in Ops : review[o].state # "none" => review'[o].state # "none"
       /\ new.status = "terminal" => review'[OpOf(e)].state # "none"
  BY <1>1, <1>5, <1>6 DEF Inv, TypeOK
<1>11. faults' \in Nat
  BY <1>1 DEF Inv, TypeOK
<1> QED BY <1>1, <1>4, <1>5, <1>7, <1>8, <1>9, <1>10, <1>11, OneRow

\* The passing of time.
LEMMA ClockInv ==
  ASSUME Inv, NEW e \in Effects, Clock(e)
  PROVE  Inv'
<1>1. PICK new \in Row :
        /\ eff' = [eff EXCEPT ![e] = new]
        /\ new.status = eff[e].status /\ new.claim = eff[e].claim /\ new.reason = eff[e].reason
  <2>0. eff[e] \in Row
    BY RowFacts
  <2>1. CASE BackoffElapses(e)
    <3>1. [eff[e] EXCEPT !.due = TRUE] \in Row
      BY <2>0 DEF Row
    <3> QED BY <2>0, <2>1, <3>1 DEF BackoffElapses, Row
  <2>2. CASE ClaimAges(e)
    <3>1. [eff[e] EXCEPT !.aged = TRUE] \in Row
      BY <2>0 DEF Row
    <3> QED BY <2>0, <2>2, <3>1 DEF ClaimAges, Row
  <2>3. CASE HorizonPasses(e)
    <3>1. [eff[e] EXCEPT !.failed = "late"] \in Row
      BY <2>0 DEF Row
    <3> QED BY <2>0, <2>3, <3>1 DEF HorizonPasses, Row
  <2> QED BY <2>1, <2>2, <2>3 DEF Clock
<1>2. /\ UNCHANGED <<mode, review, receipt, provider, runs, batch, pc, cur>>
      /\ eff[e].status # "none"
      /\ faults' \in Nat
  BY DEF Clock, BackoffElapses, ClaimAges, HorizonPasses, Open, Inv, TypeOK
<1>3. review' \in [Ops -> Reviews] /\ runs' \in [Effects -> Nat]
  BY <1>2 DEF Inv, TypeOK
<1>4. mode[OpOf(e)] # "none"
  BY <1>2, RecordedRow
<1> QED BY <1>1, <1>2, <1>3, <1>4, RowFacts, OneRow

-----------------------------------------------------------------------------
(* The theorems.                                                            *)

\* The initial state has no rows, no claims and idle workers.
LEMMA InitInv == Init => Inv
<1> SUFFICES ASSUME Init PROVE Inv
  OBVIOUS
<1> USE DEF Init
<1>1. TypeOK
  BY NewRowFacts DEF TypeOK, NoReview, Reviews
<1>2. HeldBound /\ ClaimsDistinct /\ Cursor /\ LiveHolderKeepsClaim
  BY NewRowFacts DEF HeldBound, ClaimsDistinct, Cursor, LiveHolderKeepsClaim
<1>3. Unrecorded /\ HeldIsLocal /\ TerminalReviewed
  BY NewRowFacts DEF Unrecorded, HeldIsLocal, TerminalReviewed
<1>4. ExecutedOnce /\ ReceiptMatchesDone
  BY NewRowFacts DEF ExecutedOnce, ReceiptMatchesDone
<1> QED BY <1>1, <1>2, <1>3, <1>4 DEF Inv

\* Every step of a settlement, an operator, a worker or the clock preserves it.
LEMMA NextInv == Inv /\ [Next]_vars => Inv'
<1> SUFFICES ASSUME Inv, [Next]_vars PROVE Inv'
  OBVIOUS
<1>1. CASE Settle
  BY <1>1, RecordDeferredInv, RecordInlineInv DEF Settle
<1>2. CASE Operator
  BY <1>2, PurgeInv, RequeueInv, ApproveInv DEF Operator
<1>3. ASSUME NEW w \in Workers, Claim(w) PROVE Inv'
  BY <1>3, ClaimInv DEF Claim
<1>4. ASSUME NEW w \in Workers, Process(w) PROVE Inv'
  BY <1>4, RunLocalInv, MoveInv, CompleteExternalInv, FailClaimedInv, StartInv DEF Process
<1>5. ASSUME NEW w \in Workers, Crash(w) PROVE Inv'
  BY <1>5, CrashInv
<1>6. ASSUME NEW e \in Effects, Clock(e) PROVE Inv'
  BY <1>6, ClockInv
<1>7. CASE UNCHANGED vars
  BY <1>7 DEF vars, Inv, TypeOK, HeldBound, ClaimsDistinct, Cursor, Unrecorded, HeldIsLocal,
     LiveHolderKeepsClaim, HoldsClaim, ExecutedOnce, ReceiptMatchesDone, TerminalReviewed
<1> QED BY <1>1, <1>2, <1>3, <1>4, <1>5, <1>6, <1>7 DEF Next

\* The inductive invariant holds of every behaviour of the engine.
THEOREM Invariance == Spec => []Inv
<1> QED BY InitInv, NextInv, PTL DEF Spec

\* Every variable keeps its type, for any number of workers and effects.
THEOREM TypeCorrect == Spec => []TypeOK
<1>1. Inv => TypeOK
  BY DEF Inv
<1> QED BY <1>1, Invariance, PTL

\* No effect is executed twice, and a row is done exactly when its execution
\* committed or a purge cancelled it (effects.ts, execution contract).
THEOREM ExactlyOnce == Spec => []ExecutedOnce
<1>1. Inv => ExecutedOnce
  BY DEF Inv
<1> QED BY <1>1, Invariance, PTL

\* Receipts, provider calls and done external effects agree (processExternal).
THEOREM ReceiptsAgree == Spec => []ReceiptMatchesDone
<1>1. Inv => ReceiptMatchesDone
  BY DEF Inv
<1> QED BY <1>1, Invariance, PTL

\* A worker inside its effect's transaction never loses its claim.
THEOREM HolderSafe == Spec => []LiveHolderKeepsClaim
<1>1. Inv => LiveHolderKeepsClaim
  BY DEF Inv
<1> QED BY <1>1, Invariance, PTL

\* A terminal effect always has a review row (markTerminal).
THEOREM NoSilentTerminal == Spec => []TerminalReviewed
<1>1. Inv => TerminalReviewed
  BY DEF Inv
<1> QED BY <1>1, Invariance, PTL
-----------------------------------------------------------------------------
(* A fresh claim is its owner's alone.                                      *)

Undisturbed(w, e) ==
  (/\ batch[w][e] # 0
   /\ HoldsClaim(w, e)
   /\ batch'[w][e] = batch[w][e]
   /\ ~eff[e].aged)
  => eff'[e].status = "processing" /\ eff'[e].claim = eff[e].claim

\* Two workers never hold the current claim of one row, and the one that
\* records an outcome gives its claim up in the same step.
LEMMA CommitUndisturbed ==
  ASSUME Inv, NEW v \in Workers, NEW w \in Workers, NEW e \in Effects,
         cur[v] \in Effects, batch[v][cur[v]] # 0,
         HoldsClaim(v, cur[v]) \/ eff' = eff,
         \E out \in Outcomes : HoldsClaim(v, cur[v]) => Record(cur[v], out),
         Drop(v, cur[v])
  PROVE  Undisturbed(w, e)
<1>1. SUFFICES ASSUME batch[w][e] # 0, HoldsClaim(w, e), batch'[w][e] = batch[w][e]
               PROVE  eff'[e] = eff[e]
  BY DEF Undisturbed, HoldsClaim
<1>2. CASE eff' = eff
  BY <1>2
<1>3. CASE HoldsClaim(v, cur[v]) /\ cur[v] # e
  <2>1. PICK out \in Outcomes : Record(cur[v], out)
    BY <1>3
  <2>2. eff' = [eff EXCEPT ![cur[v]] = OutcomeRow(eff[cur[v]], out)]
    BY <2>1 DEF Record
  <2> QED BY <1>3, <2>2 DEF Inv, TypeOK
<1>4. CASE HoldsClaim(v, cur[v]) /\ cur[v] = e
  <2>1. v = w
    BY <1>1, <1>4 DEF Inv, ClaimsDistinct, HoldsClaim
  <2>2. batch'[w][e] = 0
    BY <1>4, <2>1 DEF Drop, Inv, TypeOK
  <2> QED BY <1>1, <2>2
<1> QED BY <1>2, <1>3, <1>4

\* No step of anyone else touches a row whose claim is within its stale window:
\* reclaims, ex-claimants, purges, operator retries and approvals included.
THEOREM OwnerAlone == Spec => OwnerUndisturbed
<1>1. ASSUME Inv, [Next]_vars, NEW w \in Workers, NEW e \in Effects
      PROVE  Undisturbed(w, e)
  <2>1. CASE Settle
    <3>1. ASSUME NEW o \in Ops, NEW K \in SUBSET (Kinds \cup {"admin_review"}), RecordDeferred(o, K)
          PROVE  Undisturbed(w, e)
      BY <1>1, <3>1, FreshRows DEF RecordDeferred, Undisturbed, HoldsClaim
    <3>2. ASSUME NEW o \in Ops, NEW K \in SUBSET (Kinds \cup {"admin_review"}),
                 NEW answer \in [LocalKinds -> Outcomes], RecordInline(o, K, answer)
          PROVE  Undisturbed(w, e)
      BY <1>1, <3>2, FreshRows DEF RecordInline, Undisturbed, HoldsClaim
    <3> QED BY <2>1, <3>1, <3>2 DEF Settle
  <2>2. CASE Operator
    <3>1. ASSUME NEW o \in Ops, PurgeOrder(o) PROVE Undisturbed(w, e)
      BY <3>1 DEF PurgeOrder, Undisturbed, HoldsClaim
    <3>2. ASSUME NEW f \in Effects, RequeueTerminalEffect(f) PROVE Undisturbed(w, e)
      BY <1>1, <3>2 DEF RequeueTerminalEffect, Undisturbed, HoldsClaim, Inv, TypeOK
    <3>3. ASSUME NEW f \in Effects, NEW out \in Outcomes, ApproveHeldEditIssuance(f, out)
          PROVE  Undisturbed(w, e)
      BY <1>1, <3>3 DEF ApproveHeldEditIssuance, Undisturbed, HoldsClaim, Inv, TypeOK
    <3> QED BY <2>2, <3>1, <3>2, <3>3 DEF Operator
  <2>3. ASSUME NEW v \in Workers, Claim(v) PROVE Undisturbed(w, e)
    <3>1. PICK B \in SUBSET Effects : ClaimDueEffects(v, B)
      BY <2>3 DEF Claim
    <3>2. e \in B => Claimable(e)
      BY <3>1 DEF ClaimDueEffects
    <3>3. eff'[e] = IF e \in B THEN ClaimedRow(eff[e]) ELSE eff[e]
      BY <3>1 DEF ClaimDueEffects
    <3> QED BY <3>2, <3>3 DEF Claimable, Undisturbed, HoldsClaim
  <2>4. ASSUME NEW v \in Workers, Process(v) PROVE Undisturbed(w, e)
    <3>1. ASSUME NEW f \in Effects, Start(v, f) PROVE Undisturbed(w, e)
      BY <3>1 DEF Start, Undisturbed, HoldsClaim
    <3>2. CASE ThrowLocal(v) \/ CallProvider(v) \/ CallThrows(v) \/ CompleteThrows(v)
      BY <3>2 DEF ThrowLocal, CallProvider, CallThrows, CompleteThrows, Undisturbed, HoldsClaim
    <3>3. ASSUME NEW out \in Outcomes, RunLocal(v, out) PROVE Undisturbed(w, e)
      <4>1. cur[v] \in Effects /\ batch[v][cur[v]] # 0
        BY <1>1, <3>3 DEF RunLocal, Inv, Cursor
      <4> QED BY <1>1, <3>3, <4>1, CommitUndisturbed DEF RunLocal
    <3>4. CASE CompleteExternal(v)
      <4>1. cur[v] \in Effects /\ batch[v][cur[v]] # 0 /\ "done" \in Outcomes
        BY <1>1, <3>4 DEF CompleteExternal, Inv, Cursor, Outcomes
      <4> QED BY <1>1, <3>4, <4>1, CommitUndisturbed DEF CompleteExternal
    <3>5. CASE FailClaimed(v)
      <4>1. cur[v] \in Effects /\ batch[v][cur[v]] # 0 /\ "failed" \in Outcomes
        BY <1>1, <3>5 DEF FailClaimed, Inv, Cursor, Outcomes
      <4> QED BY <1>1, <3>5, <4>1, CommitUndisturbed DEF FailClaimed
    <3> QED BY <2>4, <3>1, <3>2, <3>3, <3>4, <3>5 DEF Process
  <2>5. ASSUME NEW v \in Workers, Crash(v) PROVE Undisturbed(w, e)
    BY <2>5 DEF Crash, Undisturbed, HoldsClaim
  <2>6. ASSUME NEW f \in Effects, Clock(f) PROVE Undisturbed(w, e)
    <3>1. eff'[e].status = eff[e].status /\ eff'[e].claim = eff[e].claim
      <4>0. eff \in [Effects -> Row] /\ eff[f] \in Row
        BY <1>1 DEF Inv, TypeOK
      <4>1. CASE BackoffElapses(f)
        BY <4>0, <4>1 DEF BackoffElapses, Row
      <4>2. CASE ClaimAges(f)
        BY <4>0, <4>2 DEF ClaimAges, Row
      <4>3. CASE HorizonPasses(f)
        BY <4>0, <4>3 DEF HorizonPasses, Row
      <4> QED BY <2>6, <4>1, <4>2, <4>3 DEF Clock
    <3> QED BY <3>1 DEF Undisturbed, HoldsClaim
  <2>7. CASE UNCHANGED vars
    BY <2>7 DEF vars, Undisturbed, HoldsClaim
  <2> QED BY <1>1, <2>1, <2>2, <2>3, <2>4, <2>5, <2>6, <2>7 DEF Next
<1>2. Inv /\ [Next]_vars =>
        [\A w \in Workers, e \in Effects :
           (/\ batch[w][e] # 0
            /\ HoldsClaim(w, e)
            /\ batch'[w][e] = batch[w][e]
            /\ ~eff[e].aged)
           => eff'[e].status = "processing" /\ eff'[e].claim = eff[e].claim]_vars
  BY <1>1 DEF Undisturbed
<1> QED BY <1>2, Invariance, PTL DEF Spec, OwnerUndisturbed

-----------------------------------------------------------------------------
(***************************************************************************)
(* Two results that rest on the invariant: the engine implements           *)
(* EffectContract, and it executes the deferred effects of an operation in *)
(* rank order.                                                             *)
(***************************************************************************)
(* What one step may do to a row's status.                                  *)

RowStep(e) ==
  /\ eff[e].status = "done" => eff'[e] = eff[e]
  /\ eff[e].status # "none" => eff'[e].status # "none"
  /\ eff[e].status \notin {"pending", "done"} /\ eff'[e].status = "done"
       => eff'[e].reason # "purged"

\* An outcome recorded under the fence is such a step.
LEMMA CommitStep ==
  ASSUME Inv, NEW w \in Workers, NEW f \in Effects, NEW out \in Outcomes, NEW e \in Effects,
         HoldsClaim(w, f), Record(f, out)
  PROVE  RowStep(e)
<1>1. eff' = [eff EXCEPT ![f] = OutcomeRow(eff[f], out)]
  BY DEF Record
<1>2. /\ OutcomeRow(eff[f], out).status # "none"
      /\ OutcomeRow(eff[f], out).status = "done" => OutcomeRow(eff[f], out).reason # "purged"
  BY RowFacts, OutcomeRowFacts
<1>3. eff[f].status = "processing"
  BY DEF HoldsClaim
<1> QED BY <1>1, <1>2, <1>3 DEF RowStep, Inv, TypeOK

\* Every step leaves done rows alone, removes no row, and cancels only pending
\* ones (applyOutcome's fence, requeueTerminalEffect, order_purge).
LEMMA RowSteps ==
  ASSUME Inv, [Next]_vars, NEW e \in Effects
  PROVE  RowStep(e)
<1>1. ASSUME NEW o \in Ops, NEW K \in SUBSET (Kinds \cup {"admin_review"}), RecordDeferred(o, K)
      PROVE  RowStep(e)
  BY <1>1, FreshRows, NewRowFacts DEF RecordDeferred, RowStep
<1>2. ASSUME NEW o \in Ops, NEW K \in SUBSET (Kinds \cup {"admin_review"}),
             NEW answer \in [LocalKinds -> Outcomes], RecordInline(o, K, answer)
      PROVE  RowStep(e)
  <2>1. KindOf(e) \in Kinds
    BY EffectParts
  <2>2. /\ InlineRow(KindOf(e), answer).status # "none"
        /\ InlineRow(KindOf(e), answer).status = "done" =>
             InlineRow(KindOf(e), answer).reason # "purged"
    BY <2>1, InlineRowFacts, NewRowFacts
  <2>3. OpOf(e) = o => eff[e].status = "none"
    BY <1>2, FreshRows DEF RecordInline
  <2> QED BY <1>2, <2>2, <2>3 DEF RecordInline, RowStep
<1>3. ASSUME NEW o \in Ops, PurgeOrder(o) PROVE RowStep(e)
  <2>1. [eff[e] EXCEPT !.status = "done", !.reason = "purged"].status = "done"
    BY RowFacts DEF Row
  <2> QED BY <1>3, <2>1 DEF PurgeOrder, RowStep
<1>4. ASSUME NEW f \in Effects, RequeueTerminalEffect(f) PROVE RowStep(e)
  <2>1. RequeuedRow(eff[f]).status = "pending"
    BY RowFacts, RequeuedRowFacts
  <2> QED BY <1>4, <2>1 DEF RequeueTerminalEffect, RowStep, Inv, TypeOK
<1>5. ASSUME NEW f \in Effects, NEW out \in Outcomes, ApproveHeldEditIssuance(f, out)
      PROVE  RowStep(e)
  <2> DEFINE approved == [eff[f] EXCEPT !.approved = TRUE]
             claimed == ClaimedRow(RequeuedRow(approved))
             new == OutcomeRow(claimed, out)
  <2>1. approved \in Row
    BY RowFacts DEF Row
  <2>2. RequeuedRow(approved) \in Row
    BY <2>1, RequeuedRowFacts
  <2>3. claimed \in Row
    BY <2>2, ClaimedRowFacts
  <2>4. new.status # "none" /\ (new.status = "done" => new.reason # "purged")
    BY <2>3, OutcomeRowFacts
  <2>5. eff' = [eff EXCEPT ![f] = new] /\ eff[f].status = "terminal"
    BY <1>5 DEF ApproveHeldEditIssuance
  <2> HIDE DEF new
  <2> QED BY <2>4, <2>5 DEF RowStep, Inv, TypeOK
<1>6. ASSUME NEW v \in Workers, Claim(v) PROVE RowStep(e)
  <2>1. PICK B \in SUBSET Effects : ClaimDueEffects(v, B)
    BY <1>6 DEF Claim
  <2>2. e \in B => eff[e].status \in {"pending", "processing"}
    BY <2>1 DEF ClaimDueEffects, Claimable
  <2>3. eff'[e] = IF e \in B THEN ClaimedRow(eff[e]) ELSE eff[e]
    BY <2>1 DEF ClaimDueEffects
  <2>4. ClaimedRow(eff[e]).status = "processing"
    BY RowFacts, ClaimedRowFacts
  <2> QED BY <2>2, <2>3, <2>4 DEF RowStep
<1>7. ASSUME NEW v \in Workers, Process(v) PROVE RowStep(e)
  <2>1. CASE \/ \E f \in Effects : Start(v, f)
             \/ ThrowLocal(v) \/ CallProvider(v) \/ CallThrows(v) \/ CompleteThrows(v)
    BY <2>1 DEF Start, ThrowLocal, CallProvider, CallThrows, CompleteThrows, RowStep
  <2>2. ASSUME NEW out \in Outcomes, RunLocal(v, out) PROVE RowStep(e)
    <3>1. cur[v] \in Effects
      BY <2>2 DEF RunLocal, Inv, Cursor
    <3> QED BY <2>2, <3>1, CommitStep DEF RunLocal
  <2>3. CASE CompleteExternal(v)
    <3>1. cur[v] \in Effects /\ "done" \in Outcomes
      BY <2>3 DEF CompleteExternal, Inv, Cursor, Outcomes
    <3>2. CASE HoldsClaim(v, cur[v])
      BY <2>3, <3>1, <3>2, CommitStep DEF CompleteExternal
    <3>3. CASE ~HoldsClaim(v, cur[v])
      BY <2>3, <3>3 DEF CompleteExternal, RowStep
    <3> QED BY <3>2, <3>3
  <2>4. CASE FailClaimed(v)
    <3>1. cur[v] \in Effects /\ "failed" \in Outcomes
      BY <2>4 DEF FailClaimed, Inv, Cursor, Outcomes
    <3>2. CASE HoldsClaim(v, cur[v])
      BY <2>4, <3>1, <3>2, CommitStep DEF FailClaimed
    <3>3. CASE ~HoldsClaim(v, cur[v])
      BY <2>4, <3>3 DEF FailClaimed, RowStep
    <3> QED BY <3>2, <3>3
  <2> QED BY <1>7, <2>1, <2>2, <2>3, <2>4 DEF Process
<1>8. ASSUME NEW v \in Workers, Crash(v) PROVE RowStep(e)
  BY <1>8 DEF Crash, RowStep
<1>9. ASSUME NEW f \in Effects, Clock(f) PROVE RowStep(e)
  <2>0. eff \in [Effects -> Row] /\ eff[f] \in Row
    BY DEF Inv, TypeOK
  <2>1. CASE BackoffElapses(f)
    BY <2>0, <2>1 DEF BackoffElapses, Row, RowStep
  <2>2. CASE ClaimAges(f)
    BY <2>0, <2>2 DEF ClaimAges, Row, RowStep
  <2>3. CASE HorizonPasses(f)
    BY <2>0, <2>3 DEF HorizonPasses, Open, Row, RowStep
  <2> QED BY <1>9, <2>1, <2>2, <2>3 DEF Clock
<1>10. CASE UNCHANGED vars
  BY <1>10 DEF vars, RowStep
<1> QED BY <1>1, <1>2, <1>3, <1>4, <1>5, <1>6, <1>7, <1>8, <1>9, <1>10
        DEF Next, Settle, Operator

-----------------------------------------------------------------------------
(* The engine implements the contract.                                      *)

\* The initial states agree.
LEMMA InitRefines == Init => Contract!Init
BY NewRowFacts DEF Init, Contract!Init, AbstractState

\* A step of the engine is a step of the contract.
LEMMA StepRefines ==
  Inv /\ Inv' /\ [Next]_vars => [Contract!Next]_<<AbstractState, runs>>
<1> SUFFICES ASSUME Inv, Inv', [Next]_vars PROVE Contract!Next
  OBVIOUS
<1>1. \A e \in Effects : RowStep(e)
  BY RowSteps
<1>2. \A e \in Effects : eff[e] \in Row /\ eff'[e] \in Row
  BY DEF Inv, TypeOK
<1>3. \A e \in Effects : eff[e].status \in Statuses /\ eff'[e].status \in Statuses
  BY <1>2 DEF Row
<1>4. \A e \in Effects :
        /\ AbstractState[e] \in Contract!States
        /\ AbstractState'[e] \in Contract!States
        /\ AbstractState[e] = "executed" <=> eff[e].status = "done" /\ eff[e].reason # "purged"
        /\ AbstractState'[e] = "executed" <=> eff'[e].status = "done" /\ eff'[e].reason # "purged"
  BY <1>3 DEF AbstractState, Contract!States, Statuses
<1>5. AbstractState' \in [Effects -> Contract!States]
  BY <1>4 DEF AbstractState
<1>6. \A e \in Effects : AbstractState'[e] \in Contract!Steps(e)
  BY <1>1, <1>3 DEF RowStep, AbstractState, Contract!Steps, Statuses
<1>7. runs' = [e \in Effects |->
        IF AbstractState'[e] = "executed" /\ AbstractState[e] # "executed"
          THEN runs[e] + 1 ELSE runs[e]]
  <2>1. ASSUME NEW e \in Effects
        PROVE  runs'[e] = IF AbstractState'[e] = "executed" /\ AbstractState[e] # "executed"
                            THEN runs[e] + 1 ELSE runs[e]
    <3>1. /\ runs[e] \in {0, 1} /\ runs'[e] \in {0, 1}
          /\ runs[e] = 1 <=> AbstractState[e] = "executed"
          /\ runs'[e] = 1 <=> AbstractState'[e] = "executed"
      <4>1. /\ runs[e] \in Nat /\ runs[e] <= 1
            /\ runs[e] = 1 <=> eff[e].status = "done" /\ eff[e].reason # "purged"
        BY DEF Inv, TypeOK, ExecutedOnce
      <4>2. /\ runs'[e] \in Nat /\ runs'[e] <= 1
            /\ runs'[e] = 1 <=> eff'[e].status = "done" /\ eff'[e].reason # "purged"
        BY DEF Inv, TypeOK, ExecutedOnce
      <4> QED BY <1>4, <4>1, <4>2
    <3>2. AbstractState[e] = "executed" => AbstractState'[e] = "executed"
      BY <1>1, <1>4 DEF RowStep
    <3> QED BY <3>1, <3>2
  <2>2. runs' \in [Effects -> Nat]
    BY DEF Inv, TypeOK
  <2> QED BY <2>1, <2>2
<1> QED BY <1>5, <1>6, <1>7 DEF Contract!Next

\* Workers, claims, retries, crashes and operators implement an effect that is
\* executed once, set aside or cancelled.
THEOREM Refinement == Spec => ImplementsContract
<1>1. Inv /\ [Next]_vars => Inv'
  BY NextInv
<1> QED BY <1>1, InitRefines, StepRefines, Invariance, PTL
        DEF Spec, ImplementsContract, Contract!Spec
-----------------------------------------------------------------------------
(* Rank order.                                                              *)

\* Work on an effect has begun or is over while no earlier-rank sibling is
\* open, unless a review was raised; and only a purge leaves purged rows.
Begun(f) == runs[f] = 1 \/ eff[f].status = "processing"

Reviewed(e) == review[OpOf(e)].state # "none"

RankInv ==
  /\ \A e, f \in Effects :
       (/\ OpOf(e) = OpOf(f)
        /\ EffectRank(KindOf(e)) < EffectRank(KindOf(f))
        /\ mode[OpOf(e)] = "deferred"
        /\ Begun(f))
       => ~Open(e) \/ Reviewed(e)
  /\ \A e \in Effects : eff[e].reason = "purged" => mode[OpOf(e)] = "purged"

\* A step that begins no effect, reopens none without a review, keeps reviews
\* and recording modes, and cancels none, preserves the order.
LEMMA RankFrame ==
  ASSUME RankInv,
         \A e \in Effects :
           /\ mode'[OpOf(e)] = "deferred" => mode[OpOf(e)] = "deferred"
           /\ mode'[OpOf(e)] = "deferred" /\ Reviewed(e) => Reviewed(e)'
           /\ mode'[OpOf(e)] = "deferred" /\ Open(e)' => Open(e) \/ Reviewed(e)'
           /\ mode'[OpOf(e)] = "deferred" /\ Begun(e)' => Begun(e) \/ Reviewed(e)'
           /\ eff'[e].reason = "purged" =>
                mode'[OpOf(e)] = "purged"
  PROVE  RankInv'
<1>1. ASSUME NEW e \in Effects, NEW f \in Effects,
             OpOf(e) = OpOf(f), EffectRank(KindOf(e)) < EffectRank(KindOf(f)),
             mode'[OpOf(e)] = "deferred", Begun(f)'
      PROVE  ~Open(e)' \/ Reviewed(e)'
  <2>1. Reviewed(f)' => Reviewed(e)'
    BY <1>1 DEF Reviewed
  <2>2. CASE ~Begun(f)
    BY <1>1, <2>1, <2>2
  <2>3. CASE Begun(f)
    <3>1. ~Open(e) \/ Reviewed(e)
      BY <1>1, <2>3 DEF RankInv
    <3> QED BY <1>1, <3>1
  <2> QED BY <2>2, <2>3
<1> QED BY <1>1 DEF RankInv

\* What an outcome recorded under the fence does to the order.
LEMMA CommitRank ==
  ASSUME Inv, RankInv, NEW w \in Workers, NEW f \in Effects, NEW out \in Outcomes,
         HoldsClaim(w, f), Record(f, out), mode' = mode
  PROVE  RankInv'
<1> DEFINE new == OutcomeRow(eff[f], out)
<1>1. /\ eff' = [eff EXCEPT ![f] = new]
      /\ review' = [review EXCEPT ![OpOf(f)] = ReviewAfter(review[OpOf(f)], KindOf(f), eff[f], new)]
      /\ runs' = IF out = "done" THEN [runs EXCEPT ![f] = @ + 1] ELSE runs
  BY DEF Record
<1>2. eff[f].status = "processing" /\ OpOf(f) \in Ops /\ KindOf(f) \in Kinds
  BY EffectParts DEF HoldsClaim
<1>3. new.reason # "purged"
  BY RowFacts, OutcomeRowFacts DEF Outcomes
<1>4. review[OpOf(f)].state # "none" =>
        ReviewAfter(review[OpOf(f)], KindOf(f), eff[f], new).state # "none"
  <2>1. review[OpOf(f)] \in Reviews
    BY <1>2 DEF Inv, TypeOK
  <2> QED BY <1>2, <2>1, ReviewFacts
<1> HIDE DEF new
<1>5. ASSUME NEW e \in Effects
      PROVE  /\ Reviewed(e) => Reviewed(e)'
             /\ Open(e)' => Open(e)
             /\ Begun(e)' => Begun(e)
             /\ eff'[e].reason = "purged" => eff[e].reason = "purged"
  <2>1. Reviewed(e) => Reviewed(e)'
    BY <1>1, <1>4, EffectParts DEF Reviewed, Inv, TypeOK
  <2>2. CASE e = f
    <3>1. Open(e) /\ Begun(e)
      BY <1>2, <2>2 DEF Open, Begun
    <3>2. eff'[e] = new
      BY <1>1, <2>2 DEF Inv, TypeOK
    <3> QED BY <1>3, <2>1, <3>1, <3>2
  <2>3. CASE e # f
    <3>1. eff'[e] = eff[e] /\ runs'[e] = runs[e]
      BY <1>1, <2>3 DEF Inv, TypeOK
    <3> QED BY <2>1, <3>1 DEF Open, Begun
  <2> QED BY <2>2, <2>3
<1>6. \A e \in Effects : eff[e].reason = "purged" => mode[OpOf(e)] = "purged"
  BY DEF RankInv
<1> QED BY <1>5, <1>6, RankFrame
\* A batch claim begins only effects that no open sibling gates.
LEMMA ClaimRank ==
  ASSUME Inv, RankInv, NEW v \in Workers, Claim(v)
  PROVE  RankInv'
<1>1. PICK B \in SUBSET Effects : ClaimDueEffects(v, B)
  BY DEF Claim
<1>2. /\ \A e \in B : ~Gated(e) /\ Open(e)
      /\ eff' = [e \in Effects |-> IF e \in B THEN ClaimedRow(eff[e]) ELSE eff[e]]
      /\ UNCHANGED <<mode, review, runs>>
  BY <1>1 DEF ClaimDueEffects, Claimable, Open
<1>3. \A e \in Effects : /\ ClaimedRow(eff[e]).status = "processing"
                         /\ ClaimedRow(eff[e]).reason = eff[e].reason
  BY RowFacts, ClaimedRowFacts
<1>4. \A e \in Effects : Open(e)' <=> Open(e)
  BY <1>2, <1>3 DEF Open
<1>5. ASSUME NEW e \in Effects, NEW f \in Effects,
             OpOf(e) = OpOf(f), EffectRank(KindOf(e)) < EffectRank(KindOf(f)),
             mode'[OpOf(e)] = "deferred", Begun(f)'
      PROVE  ~Open(e)' \/ Reviewed(e)'
  <2>1. CASE f \in B
    BY <1>2, <1>4, <1>5, <2>1 DEF Gated
  <2>2. CASE f \notin B
    <3>1. Begun(f)
      BY <1>2, <1>5, <2>2 DEF Begun
    <3> QED BY <1>2, <1>4, <1>5, <3>1 DEF RankInv, Reviewed
  <2> QED BY <2>1, <2>2
<1>6. \A e \in Effects : eff'[e].reason = "purged" => mode'[OpOf(e)] = "purged"
  BY <1>2, <1>3 DEF RankInv
<1> QED BY <1>5, <1>6 DEF RankInv

\* New rows begin nothing; rows of other operations are untouched.
LEMMA RecordDeferredRank ==
  ASSUME Inv, RankInv, NEW o \in Ops, NEW K \in SUBSET (Kinds \cup {"admin_review"}),
         RecordDeferred(o, K)
  PROVE  RankInv'
<1> USE DEF RecordDeferred
<1>1. \A e \in Effects : OpOf(e) = o => ~Begun(e)' /\ eff'[e].reason # "purged"
  BY FreshRows, NewRowFacts DEF Begun
<1>2. \A e \in Effects : OpOf(e) # o =>
        /\ eff'[e] = eff[e] /\ mode'[OpOf(e)] = mode[OpOf(e)]
        /\ (Open(e)' <=> Open(e)) /\ (Begun(e)' <=> Begun(e)) /\ (Reviewed(e)' <=> Reviewed(e))
  BY EffectParts DEF Open, Begun, Reviewed, Inv, TypeOK
<1> QED BY <1>1, <1>2 DEF RankInv

\* Every step preserves the order.
LEMMA RankNext == Inv /\ RankInv /\ [Next]_vars => RankInv'
<1> SUFFICES ASSUME Inv, RankInv, [Next]_vars PROVE RankInv'
  OBVIOUS
<1>0. \A e \in Effects : eff[e].reason = "purged" => mode[OpOf(e)] = "purged"
  BY DEF RankInv
<1>1. ASSUME NEW o \in Ops, NEW K \in SUBSET (Kinds \cup {"admin_review"}), RecordDeferred(o, K)
      PROVE  RankInv'
  BY <1>1, RecordDeferredRank
<1>2. ASSUME NEW o \in Ops, NEW K \in SUBSET (Kinds \cup {"admin_review"}),
             NEW answer \in [LocalKinds -> Outcomes], RecordInline(o, K, answer)
      PROVE  RankInv'
  <2>1. ASSUME NEW e \in Effects, OpOf(e) = o
        PROVE  mode'[OpOf(e)] = "inline" /\ eff'[e].reason # "purged"
    <3>1. KindOf(e) \in Kinds /\ mode'[o] = "inline"
      BY <1>2, EffectParts DEF RecordInline, Inv, TypeOK
    <3>2. InlineRow(KindOf(e), answer).reason # "purged"
      <4>1. CASE KindOf(e) \in LocalKinds
        <5>1. ClaimedRow(NewRow) \in Row
          BY NewRowFacts, ClaimedRowFacts
        <5>2. answer[KindOf(e)] \in Outcomes
          BY <4>1
        <5> QED BY <4>1, <5>1, <5>2, OutcomeRowFacts DEF InlineRow, Outcomes
      <4>2. CASE KindOf(e) \notin LocalKinds
        BY <4>2, NewRowFacts DEF InlineRow
      <4> QED BY <4>1, <4>2
    <3>3. eff[e].reason = "null"
      BY <1>2, <2>1, FreshRows, NewRowFacts DEF RecordInline
    <3> QED BY <1>2, <2>1, <3>1, <3>2, <3>3 DEF RecordInline
  <2>2. ASSUME NEW e \in Effects, OpOf(e) # o
        PROVE  /\ eff'[e] = eff[e] /\ runs'[e] = runs[e] /\ mode'[OpOf(e)] = mode[OpOf(e)]
               /\ review'[OpOf(e)] = review[OpOf(e)]
    BY <1>2, <2>2, EffectParts DEF RecordInline, Inv, TypeOK
  <2> QED BY <1>0, <2>1, <2>2, RankFrame DEF Open, Begun, Reviewed
<1>3. ASSUME NEW o \in Ops, PurgeOrder(o) PROVE RankInv'
  <2>1. \A e \in Effects : OpOf(e) = o => mode'[OpOf(e)] = "purged"
    BY <1>3 DEF PurgeOrder, Inv, TypeOK
  <2>2. \A e \in Effects : OpOf(e) # o =>
          /\ eff'[e] = eff[e] /\ mode'[OpOf(e)] = mode[OpOf(e)]
          /\ runs'[e] = runs[e] /\ review'[OpOf(e)] = review[OpOf(e)]
    BY <1>3, EffectParts DEF PurgeOrder, Inv, TypeOK
  <2> QED BY <1>0, <2>1, <2>2, RankFrame DEF Open, Begun, Reviewed
<1>4. ASSUME NEW f \in Effects, RequeueTerminalEffect(f) PROVE RankInv'
  <2>1. /\ RequeuedRow(eff[f]).reason = "null" /\ RequeuedRow(eff[f]).status = "pending"
        /\ Reviewed(f)
    BY <1>4, RowFacts, RequeuedRowFacts DEF RequeueTerminalEffect, Reviewed
  <2>2. ASSUME NEW e \in Effects
        PROVE  /\ mode' = mode /\ (Reviewed(e)' <=> Reviewed(e))
               /\ Open(e)' => Open(e) \/ Reviewed(e)'
               /\ Begun(e)' => Begun(e) \/ Reviewed(e)'
               /\ eff'[e].reason = "purged" => eff[e].reason = "purged"
    BY <1>4, <2>1 DEF RequeueTerminalEffect, Open, Begun, Reviewed, Inv, TypeOK
  <2> QED BY <1>0, <2>2, RankFrame
<1>5. ASSUME NEW f \in Effects, NEW out \in Outcomes, ApproveHeldEditIssuance(f, out)
      PROVE  RankInv'
  <2> DEFINE approved == [eff[f] EXCEPT !.approved = TRUE]
             claimed == ClaimedRow(RequeuedRow(approved))
             new == OutcomeRow(claimed, out)
  <2>1. approved \in Row
    BY RowFacts DEF Row
  <2>2. RequeuedRow(approved) \in Row
    BY <2>1, RequeuedRowFacts
  <2>3. claimed \in Row
    BY <2>2, ClaimedRowFacts
  <2>4. new.reason # "purged"
    BY <2>3, OutcomeRowFacts DEF Outcomes
  <2>5. /\ eff' = [eff EXCEPT ![f] = new] /\ eff[f].status = "terminal" /\ mode' = mode
        /\ review' = [review EXCEPT ![OpOf(f)] =
                        ReviewAfter(review[OpOf(f)], KindOf(f), approved, new)]
        /\ runs' = IF out = "done" THEN [runs EXCEPT ![f] = @ + 1] ELSE runs
    BY <1>5 DEF ApproveHeldEditIssuance
  <2>6. OpOf(f) \in Ops /\ KindOf(f) \in Kinds /\ review[OpOf(f)].state # "none"
        /\ review[OpOf(f)] \in Reviews
    BY <2>5, EffectParts, RowFacts DEF Inv, TypeOK
  <2>7. ReviewAfter(review[OpOf(f)], KindOf(f), approved, new).state # "none"
    BY <2>6, ReviewFacts
  <2> HIDE DEF new, claimed, approved
  <2>8. ASSUME NEW e \in Effects
        PROVE  /\ Reviewed(e) => Reviewed(e)'
               /\ Open(e)' => Open(e) \/ Reviewed(e)'
               /\ Begun(e)' => Begun(e) \/ Reviewed(e)'
               /\ eff'[e].reason = "purged" => eff[e].reason = "purged"
    BY <2>4, <2>5, <2>6, <2>7, EffectParts DEF Open, Begun, Reviewed, Inv, TypeOK
  <2> QED BY <1>0, <2>5, <2>8, RankFrame
<1>6. ASSUME NEW v \in Workers, Claim(v) PROVE RankInv'
  BY <1>6, ClaimRank
<1>7. ASSUME UNCHANGED <<mode, eff, review, runs>> PROVE RankInv'
  BY <1>7 DEF RankInv, Begun, Open, Reviewed
<1>8. ASSUME NEW v \in Workers, Process(v) PROVE RankInv'
  <2>1. CASE \/ \E f \in Effects : Start(v, f)
             \/ ThrowLocal(v) \/ CallProvider(v) \/ CallThrows(v) \/ CompleteThrows(v)
    BY <1>7, <2>1 DEF Start, ThrowLocal, CallProvider, CallThrows, CompleteThrows
  <2>2. ASSUME NEW out \in Outcomes, RunLocal(v, out) PROVE RankInv'
    <3>1. cur[v] \in Effects
      BY <2>2 DEF RunLocal, Inv, Cursor
    <3> QED BY <2>2, <3>1, CommitRank DEF RunLocal
  <2>3. CASE CompleteExternal(v)
    <3>1. cur[v] \in Effects /\ "done" \in Outcomes
      BY <2>3 DEF CompleteExternal, Inv, Cursor, Outcomes
    <3>2. CASE HoldsClaim(v, cur[v])
      BY <2>3, <3>1, <3>2, CommitRank DEF CompleteExternal
    <3>3. CASE ~HoldsClaim(v, cur[v])
      BY <1>7, <2>3, <3>3 DEF CompleteExternal
    <3> QED BY <3>2, <3>3
  <2>4. CASE FailClaimed(v)
    <3>1. cur[v] \in Effects /\ "failed" \in Outcomes
      BY <2>4 DEF FailClaimed, Inv, Cursor, Outcomes
    <3>2. CASE HoldsClaim(v, cur[v])
      BY <2>4, <3>1, <3>2, CommitRank DEF FailClaimed
    <3>3. CASE ~HoldsClaim(v, cur[v])
      BY <1>7, <2>4, <3>3 DEF FailClaimed
    <3> QED BY <3>2, <3>3
  <2> QED BY <1>8, <2>1, <2>2, <2>3, <2>4 DEF Process
<1>9. ASSUME NEW v \in Workers, Crash(v) PROVE RankInv'
  BY <1>7, <1>9 DEF Crash
<1>10. ASSUME NEW f \in Effects, Clock(f) PROVE RankInv'
  <2>0. eff \in [Effects -> Row] /\ eff[f] \in Row
    BY DEF Inv, TypeOK
  <2>1. UNCHANGED <<mode, review, runs>>
    BY <1>10 DEF Clock, BackoffElapses, ClaimAges, HorizonPasses
  <2>2. ASSUME NEW e \in Effects
        PROVE  eff'[e].status = eff[e].status /\ eff'[e].reason = eff[e].reason
    <3>1. CASE BackoffElapses(f)
      BY <2>0, <3>1 DEF BackoffElapses, Row
    <3>2. CASE ClaimAges(f)
      BY <2>0, <3>2 DEF ClaimAges, Row
    <3>3. CASE HorizonPasses(f)
      BY <2>0, <3>3 DEF HorizonPasses, Row
    <3> QED BY <1>10, <3>1, <3>2, <3>3 DEF Clock
  <2> QED BY <2>1, <2>2 DEF RankInv, Begun, Open, Reviewed
<1>11. CASE UNCHANGED vars
  BY <1>7, <1>11 DEF vars
<1> QED BY <1>1, <1>2, <1>3, <1>4, <1>5, <1>6, <1>8, <1>9, <1>10, <1>11
        DEF Next, Settle, Operator

\* The deferred effects of an operation execute in rank order, whatever the
\* number of workers and reclaims, unless a review was raised
\* (claimDueEffects' NOT EXISTS over earlier-rank siblings).
THEOREM RankOrder == Spec => []RankedExecution
<1>1. Init => RankInv
  BY NewRowFacts DEF Init, RankInv, Begun, Open
<1>2. Inv /\ RankInv => RankedExecution
  <2> SUFFICES ASSUME Inv, RankInv, NEW e \in Effects, NEW f \in Effects,
                      OpOf(e) = OpOf(f), EffectRank(KindOf(e)) < EffectRank(KindOf(f)),
                      mode[OpOf(e)] = "deferred", eff[e].status # "none", runs[f] = 1
               PROVE  runs[e] = 1 \/ review[OpOf(e)].state # "none"
    BY DEF RankedExecution
  <2>1. ~Open(e) \/ Reviewed(e)
    BY DEF RankInv, Begun
  <2>2. eff[e].status \in Statuses /\ eff[e].reason # "purged"
    BY DEF Inv, TypeOK, Row, RankInv
  <2> QED BY <2>1, <2>2, RowFacts DEF Open, Reviewed, Statuses
<1> QED BY <1>1, <1>2, RankNext, Invariance, PTL DEF Spec

=============================================================================
