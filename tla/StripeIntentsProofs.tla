------------------------ MODULE StripeIntentsProofs ------------------------
(***************************************************************************)
(* Machine-checked proofs about the Stripe intents of an order, for any    *)
(* number of mint rounds and sweep tries, any totals, and every mix of     *)
(* outages, crashes, lost locks, edits and other gateways.                 *)
(*                                                                         *)
(* NoMoneyAfterRelease is not inductive: the release reads attempt rows    *)
(* and never Stripe, so the invariant says what those rows tell of Stripe. *)
(*   - An intent is Known once anybody but the mint can name it (the       *)
(*     shopper, an event, a request): until then nothing can move it.      *)
(*   - A Known intent has an attempt, and a cancelled attempt means that   *)
(*     the intent is canceled at Stripe or unknown to everybody (Row).     *)
(*   - A snapshot of a final state, in an event or in a process that waits *)
(*     for the lock, is still true when it is applied (Snapshots).         *)
(*   - A /pay carries the order's price unless its intent is dead, even    *)
(*     when it lost its lock (PayOK): this closes the way by which a late  *)
(*     /pay could disturb an order whose intents were retired.             *)
(* So no attempt left to sweep means no intent left to confirm, and that   *)
(* stays so after the release (Released).                                  *)
(*                                                                         *)
(* CaptureRecorded is not a theorem: with another gateway it is false (run *)
(* StripeIntentsTwoGateways).                                              *)
(***************************************************************************)
EXTENDS StripeIntents, TLAPS, FiniteSetTheorems, WellFoundedInduction

\* An intent from before attempts were tracked is the only one of its order, and
\* the order is not repriced under a /pay that lost its lock.  Both are needed: one
\* tracked attempt satisfies unpaidCancellablePredicate (cancel-unpaid.ts), and the
\* search for untracked intents is then never made.
LegacyAssumption == Legacy => "mint" \notin Actors /\ ~(Edits /\ LockDrops)

Hypotheses == BoundsAssumption /\ LegacyAssumption

Minted == Amounts \X (0..Rounds - 1)
Readers == Processes \ {"mint"}
Final == {"succeeded", "canceled"}

OrderRec == [state : {"PendingPayment", "Paid", "Cancelled"}, total : Amounts,
             by : {None, "unpaid", "admin"}, old : BOOLEAN]
FlowRec == [at : {"idle", "premint", "mint", "bind", "verify", "apply", "seen", "cancel"},
            key : Keys \cup {LegacyKey}, seen : PIStates \cup {None, "mismatch"},
            due : Amounts \cup {0}, claim : Claims]
DiscRec == [tries : 0..MaxTries, is : {None, "clean", "hold"}]
AttStates == Sweepable \cup {None, "processing", "unknown", "settled", "cancelled"}
LedgerStates == Recorded \cup {None, "Pending", "Declined", "OtherAmount"}

\* Somebody other than the mint knows the intent: the shopper, an event, a
\* request or a resolution under way.
Known(k) ==
  \/ k \in secret
  \/ \E e \in events : e[1] = k
  \/ \E p \in Readers : flow[p].at # "idle" /\ flow[p].key = k

\* What was read of an intent as final is still so.
Snapshots ==
  /\ \A e \in events : e[2] \in Final => pi[e[1]] = e[2]
  /\ \A p \in Readers : flow[p].at # "idle" =>
       flow[p].key \in Keys /\ (flow[p].seen \in Final => pi[flow[p].key] = flow[p].seen)

\* A mint works on a mint key, and its row is written before the intent.
MintOK ==
  LET f == flow["mint"] IN
  /\ f.at # "idle" => "mint" \in Actors /\ f.key \in Minted
  /\ f.at \in {"mint", "bind"} => pre[f.key] # None

\* The attempt of an intent and the intent at Stripe.
Row(k) ==
  /\ pre[k] = "bound" => att[k] # None
  /\ att[k] = "cancelled" => pi[k] = "canceled" \/ ~Known(k)
  /\ att[k] = None => ~Known(k) \/ (k = LegacyKey /\ disc.is # "clean")
  /\ att[k] = "settled" => pi[k] = "succeeded" /\ order.state # "PendingPayment"
  /\ att[k] = "unknown" => pi[k] = "succeeded" /\ k \in alerts
  /\ pi[k] = "processing" => k \in secret

\* The untracked intent has no row and stands alone.
LegacyOK(k) ==
  /\ k = LegacyKey => pre[k] = None /\ pi[k] # None
  /\ Legacy /\ k # LegacyKey => pre[k] = None /\ pi[k] = None /\ att[k] = None /\ ~Known(k)

\* An order that waits for payment has none, and was not cancelled.
Unpaid ==
  /\ order.state = "PendingPayment" => other = 0 /\ \A k \in Keys : ledger[k] \notin Recorded
  /\ order.by = "unpaid" => order.state = "Cancelled"

\* A /pay is for the order's price, unless its intent is dead.
PayOK ==
  LET f == flow["pay"] IN
  f.at # "idle" =>
    /\ f.key \in secret
    /\ order.state = "PendingPayment" => f.due = order.total \/ pi[f.key] = "canceled"
    /\ LockDrops \/ lock = "pay"

\* Once the order is released an intent that could take money is out of reach.
Released(k) ==
  order.by = "unpaid" =>
    /\ pre[k] # "open"
    /\ pi[k] = "canceled" \/ (~Known(k) /\ att[k] \in {None, "cancelled"})

KeyOK(k) == Row(k) /\ LegacyOK(k) /\ Released(k)

IInv ==
  /\ TypeOK /\ Snapshots /\ MintOK /\ Unpaid /\ PayOK
  /\ \A k \in Keys : KeyOK(k)

-----------------------------------------------------------------------------
(* The constants, and sums. *)

\* Nothing captured adds up to nothing.
LEMMA SumEmpty == Sum({}) = 0
<1> DEFINE iter[s \in SUBSET {}] == IF s = {} THEN 0
              ELSE LET x == CHOOSE x \in s : TRUE IN AmountOf(x) + iter[s \ {x}]
           D(g) == g = [s \in SUBSET {} |-> IF s = {} THEN 0
              ELSE LET x == CHOOSE x \in s : TRUE IN AmountOf(x) + g[s \ {x}]]
<1>1. D([s \in SUBSET {} |-> 0])
  OBVIOUS
<1>2. iter = CHOOSE g : D(g)
  OBVIOUS
<1>3. D(iter)
  <2> HIDE DEF D, iter
  <2> QED BY <1>1, <1>2
<1>4. iter[{}] = 0
  BY <1>3
<1>5. Sum({}) = iter[{}]
  BY DEF Sum, MapThenSumSet, MapThenFoldSet
<1> QED BY <1>4, <1>5

\* A set of naturals has a least element (Initial, the total the order starts with).
LEMMA MinOfNaturals ==
  ASSUME NEW S, S \subseteq Nat, S # {} PROVE Min(S) \in S
<1>1. \E x \in S : \A y \in S : ~(<<y, x>> \in OpToRel(<, Nat))
  BY WFMin, NatLessThanWellFounded
<1>2. PICK x \in S : \A y \in S : ~(<<y, x>> \in OpToRel(<, Nat))
  BY <1>1
<1>3. ASSUME NEW y \in S PROVE x <= y
  <2>1. ~(<<y, x>> \in {ss \in Nat \X Nat : ss[1] < ss[2]})
    BY <1>2 DEF OpToRel
  <2>2. x \in Nat /\ y \in Nat
    OBVIOUS
  <2> QED BY <2>1, <2>2
<1> QED BY <1>3 DEF Min

LEMMA Constants ==
  ASSUME BoundsAssumption
  PROVE  /\ Initial \in Amounts /\ Amounts \subseteq Nat \ {0}
         /\ Rounds \in Nat \ {0} /\ MaxTries \in Nat \ {0}
         /\ Minted \subseteq Keys /\ LegacyKey \notin Minted
         /\ Keys \subseteq Minted \cup {LegacyKey} /\ (LegacyKey \in Keys <=> Legacy)
         /\ \A k \in Keys \cup {LegacyKey} : AmountOf(k) \in Amounts
<1>1. Initial \in Amounts /\ Amounts \subseteq Nat \ {0} /\ Rounds \in Nat \ {0} /\ MaxTries \in Nat \ {0}
  BY MinOfNaturals DEF BoundsAssumption, Initial
<1>2. Legacy \in BOOLEAN
  BY DEF BoundsAssumption
<1>3. LegacyKey \notin Minted
  BY <1>1 DEF LegacyKey, Minted
<1>4. AmountOf(LegacyKey) = Initial
  BY DEF AmountOf, LegacyKey
<1>5. \A k \in Minted : AmountOf(k) \in Amounts
  BY DEF AmountOf, Minted
<1>6. Keys = Minted \cup (IF Legacy THEN {LegacyKey} ELSE {})
  BY DEF Keys, Minted
<1> HIDE DEF LegacyKey, Keys, Minted, AmountOf, Initial
<1> QED BY <1>1, <1>2, <1>3, <1>4, <1>5, <1>6

LEMMA FiniteKeys ==
  ASSUME BoundsAssumption
  PROVE  IsFiniteSet(Keys) /\ Cardinality(Keys) \in Nat
<1>1. IsFiniteSet(Amounts) /\ IsFiniteSet(0..Rounds - 1)
  BY FS_Interval DEF BoundsAssumption
<1>2. IsFiniteSet(Amounts \X (0..Rounds - 1))
  BY <1>1, FS_Product
<1>3. IsFiniteSet({LegacyKey}) /\ IsFiniteSet({})
  BY FS_Singleton, FS_EmptySet
<1>4. IsFiniteSet(Keys)
  BY <1>2, <1>3, FS_Union DEF Keys
<1> QED BY <1>4, FS_CardinalityType

LEMMA TypeParts ==
  /\ TypeOK <=> /\ order \in OrderRec /\ other \in Amounts \cup {0} /\ disc \in DiscRec
                /\ pre \in [Keys -> {None, "open", "cancelled", "bound"}]
                /\ att \in [Keys -> AttStates] /\ tries \in [Keys -> 0..MaxTries]
                /\ ledger \in [Keys -> LedgerStates]
                /\ alerts \subseteq Keys /\ secret \subseteq Keys /\ events \subseteq Keys \X PIStates
                /\ claims \subseteq Claims /\ pi \in [Keys -> PIStates \cup {None}]
                /\ flow \in [Processes -> FlowRec] /\ lock \in Processes \cup {None}
  /\ TypeOK' <=> /\ order' \in OrderRec /\ other' \in Amounts \cup {0} /\ disc' \in DiscRec
                /\ pre' \in [Keys -> {None, "open", "cancelled", "bound"}]
                /\ att' \in [Keys -> AttStates] /\ tries' \in [Keys -> 0..MaxTries]
                /\ ledger' \in [Keys -> LedgerStates]
                /\ alerts' \subseteq Keys /\ secret' \subseteq Keys /\ events' \subseteq Keys \X PIStates
                /\ claims' \subseteq Claims /\ pi' \in [Keys -> PIStates \cup {None}]
                /\ flow' \in [Processes -> FlowRec] /\ lock' \in Processes \cup {None}
BY DEF TypeOK, OrderRec, DiscRec, AttStates, LedgerStates, FlowRec

\* What an unpaid order owes is its total (amountDueForOrder).
LEMMA DueWhenUnpaid ==
  ASSUME BoundsAssumption, TypeOK, Unpaid, order.state = "PendingPayment"
  PROVE  AmountDue = order.total /\ order.total \in Amounts
<1>1. Captured = {}
  BY DEF Captured, Unpaid, Recorded
<1>2. order.total \in Nat /\ other = 0 /\ order.total \in Amounts
  BY Constants, TypeParts DEF OrderRec, Unpaid
<1> QED BY <1>1, <1>2, SumEmpty DEF AmountDue

-----------------------------------------------------------------------------
(* What a step that leaves a part alone keeps. *)

LEMMA KeyKept ==
  ASSUME NEW k \in Keys, KeyOK(k),
         pre'[k] = pre[k], att'[k] = att[k], pi'[k] = pi[k], disc' = disc, alerts \subseteq alerts',
         secret \subseteq secret', Known(k)' => Known(k) \/ att[k] \notin {None, "cancelled"},
         order'.state = "PendingPayment" => order.state = "PendingPayment",
         order'.by = order.by
  PROVE  KeyOK(k)'
BY DEF KeyOK, Row, LegacyOK, Released

LEMMA Moves ==
  ASSUME NEW p \in Processes, secret' = secret, events' \subseteq events,
         \A q \in Processes \ {p} : flow'[q] = flow[q], NEW k
  PROVE  Known(k)' => Known(k) \/ (p \in Readers /\ flow'[p].at # "idle" /\ flow'[p].key = k)
BY DEF Known, Readers

LEMMA SnapshotsKept ==
  ASSUME NEW p \in Processes, TypeOK, Snapshots, events' \subseteq events,
         \A k \in Keys : pi[k] \in Final => pi'[k] = pi[k],
         \A q \in Processes \ {p} : flow'[q] = flow[q],
         p \in Readers /\ flow'[p].at # "idle" =>
           flow'[p].key \in Keys /\ (flow'[p].seen \in Final => pi'[flow'[p].key] = flow'[p].seen)
  PROVE  Snapshots'
<1>1. \A e \in events' : e \in events /\ e[1] \in Keys
  BY TypeParts
<1>2. \A e \in events' : e[2] \in Final => pi'[e[1]] = e[2]
  BY <1>1 DEF Snapshots
<1>3. ASSUME NEW q \in Readers, q # p, flow'[q].at # "idle"
      PROVE  flow'[q].key \in Keys /\ (flow'[q].seen \in Final => pi'[flow'[q].key] = flow'[q].seen)
  BY <1>3 DEF Snapshots, Readers
<1> QED BY <1>2, <1>3 DEF Snapshots

LEMMA MintKept ==
  ASSUME MintOK, flow'["mint"] = flow["mint"], BoundsAssumption,
         \A k \in Keys : pre[k] # None => pre'[k] # None
  PROVE  MintOK'
BY Constants DEF MintOK

LEMMA PayKept ==
  ASSUME PayOK, flow'["pay"] = flow["pay"], secret \subseteq secret', TypeOK,
         order'.state = "PendingPayment" =>
           order.state = "PendingPayment" /\ order'.total = order.total,
         \A k \in Keys : pi[k] = "canceled" => pi'[k] = pi[k],
         LockDrops \/ (lock = "pay" => lock' = "pay")
  PROVE  PayOK'
BY TypeParts DEF PayOK

LEMMA Idles ==
  ASSUME BoundsAssumption
  PROVE  /\ Idle \in FlowRec /\ Idle.at = "idle" /\ Idle.seen = None /\ Idle.key = LegacyKey
         /\ 0 \in Claims
BY FiniteKeys DEF Idle, FlowRec, Claims

LEMMA Distinct ==
  /\ None \notin PIStates /\ None \notin Final /\ None # "clean" /\ None # "open" /\ None # "bound"
  /\ None # "cancelled" /\ None \notin Sweepable /\ None # "settled" /\ None # "unknown"
  /\ None # "processing" /\ None \notin Processes /\ None \notin Recorded /\ None # "unpaid"
  /\ None # "failed" /\ None # "action_required"
BY DEF None, PIStates, Live, Final, Sweepable, Processes, Recorded

LEMMA CalmStep ==
  ASSUME BoundsAssumption, IInv, TypeOK',
         UNCHANGED <<order, other, disc, pre, att, ledger, pi, secret>>,
         events' \subseteq events, alerts \subseteq alerts',
         NEW p \in Processes, \A q \in Processes \ {p} : flow'[q] = flow[q],
         p \in Readers /\ flow'[p].at # "idle" =>
           /\ flow'[p].key \in Keys
           /\ flow'[p].seen \in Final => pi[flow'[p].key] = flow'[p].seen
           /\ Known(flow'[p].key) \/ att[flow'[p].key] \notin {None, "cancelled"},
         MintOK', PayOK'
  PROVE  IInv'
<1>1. Snapshots'
  BY SnapshotsKept DEF IInv
<1>2. Unpaid'
  BY DEF IInv, Unpaid
<1>3. ASSUME NEW k \in Keys PROVE KeyOK(k)'
  <2>1. Known(k)' => Known(k) \/ att[k] \notin {None, "cancelled"}
    BY Moves
  <2>2. KeyOK(k)
    BY DEF IInv
  <2> QED BY <2>1, <2>2, KeyKept
<1> QED BY <1>1, <1>2, <1>3 DEF IInv

-----------------------------------------------------------------------------
(* The initial state. *)

LEMMA InitInv ==
  ASSUME Hypotheses, Init PROVE IInv
<1> USE DEF Hypotheses
<1>1. TypeOK
  <2>1. order \in OrderRec
    BY Constants DEF Init, OrderRec
  <2>2. disc \in DiscRec
    BY Constants DEF Init, DiscRec
  <2>3. flow \in [Processes -> FlowRec]
    BY Idles DEF Init
  <2>4. pi \in [Keys -> PIStates \cup {None}] /\ secret \subseteq Keys
    BY Constants DEF Init, PIStates, Live
  <2>5. tries \in [Keys -> 0..MaxTries]
    BY Constants DEF Init
  <2>6. /\ pre \in [Keys -> {None, "open", "cancelled", "bound"}]
        /\ att \in [Keys -> AttStates] /\ ledger \in [Keys -> LedgerStates]
        /\ alerts \subseteq Keys /\ events \subseteq Keys \X PIStates
        /\ claims \subseteq Claims /\ lock \in Processes \cup {None} /\ other \in Amounts \cup {0}
    BY DEF Init, AttStates, LedgerStates
  <2> QED BY <2>1, <2>2, <2>3, <2>4, <2>5, <2>6, TypeParts
<1>2. \A p \in Processes : flow[p].at = "idle"
  BY Idles DEF Init
<1>3. Snapshots /\ MintOK /\ PayOK
  BY <1>2 DEF Init, Snapshots, MintOK, PayOK, Readers, Processes
<1>4. Unpaid
  BY Distinct DEF Init, Unpaid
<1>5. ASSUME NEW k \in Keys PROVE KeyOK(k)
  <2>1. Known(k) => k = LegacyKey /\ Legacy
    BY <1>2 DEF Known, Init, Readers
  <2>2. pre[k] = None /\ att[k] = None /\ disc.is = None /\ order.by = None
    BY DEF Init
  <2>3. /\ (k = LegacyKey => pi[k] # None) /\ (Legacy /\ k # LegacyKey => pi[k] = None)
        /\ pi[k] # "processing"
    BY Constants DEF Init, None
  <2> QED BY <2>1, <2>2, <2>3, Distinct DEF KeyOK, Row, LegacyOK, Released
<1> QED BY <1>1, <1>3, <1>4, <1>5 DEF IInv

-----------------------------------------------------------------------------
(* Steps that move a process and leave the books alone. *)

LEMMA Goes ==
  ASSUME TypeOK, NEW p \in Processes, NEW f \in FlowRec, flow' = [flow EXCEPT ![p] = f]
  PROVE  /\ flow' \in [Processes -> FlowRec] /\ flow'[p] = f
         /\ \A q \in Processes \ {p} : flow'[q] = flow[q]
BY TypeParts

LEMMA ClaimKeyType ==
  ASSUME BoundsAssumption, TypeOK PROVE ClaimKey \in Claims
<1> DEFINE S == {k \in Keys : ledger[k] \in Recorded}
<1>1. IsFiniteSet(S) /\ Cardinality(S) <= Cardinality(Keys)
  BY FiniteKeys, FS_Subset
<1>2. Cardinality(S) \in Nat
  BY <1>1, FS_CardinalityType
<1>3. other \in Nat
  BY TypeParts, Constants
<1>4. SettledTenders = Cardinality(S) + (IF other > 0 THEN 1 ELSE 0)
  BY DEF SettledTenders
<1> HIDE DEF S
<1>5. SettledTenders + 1 \in 0..Cardinality(Keys) + 2
  BY <1>1, <1>2, <1>3, <1>4, FiniteKeys
<1> QED BY <1>5, FiniteKeys DEF ClaimKey, Claims

LEMMA ProcessNames ==
  /\ "mint" \in Processes /\ "pay" \in Processes /\ "pull" \in Processes
  /\ "sweep" \in Processes /\ "retire" \in Processes /\ "mint" \notin Readers
  /\ Readers \subseteq Processes
  /\ "pay" \in Readers /\ "pull" \in Readers /\ "sweep" \in Readers /\ "retire" \in Readers
BY DEF Processes, Readers

LEMMA PrepareMintInv ==
  ASSUME Hypotheses, IInv, PrepareMint PROVE IInv'
<1> USE DEF Hypotheses
<1>1. PICK f : f = [Idle EXCEPT !.at = "premint", !.key = <<AmountDue, 0>>]
  OBVIOUS
<1>2. AmountDue \in Amounts /\ <<AmountDue, 0>> \in Minted /\ <<AmountDue, 0>> \in Keys
  BY Constants DEF PrepareMint, Minted
<1>3. f \in FlowRec /\ f.at = "premint" /\ f.key \in Minted
  BY <1>1, <1>2, Idles DEF FlowRec, Idle
<1>4. flow' = [flow EXCEPT !["mint"] = f]
  BY <1>1 DEF PrepareMint, Goto
<1>5. UNCHANGED <<order, other, disc, pre, tries, claims, att, ledger, alerts, pi, secret, events>>
  BY DEF PrepareMint, books, atStripe
<1>6. /\ flow' \in [Processes -> FlowRec] /\ flow'["mint"] = f
      /\ \A q \in Processes \ {"mint"} : flow'[q] = flow[q]
  BY <1>3, <1>4, Goes, ProcessNames DEF IInv
<1>7. lock = None /\ lock' = "mint" /\ "mint" \in Actors
  BY DEF PrepareMint, Take, At
<1>8. TypeOK'
  BY <1>5, <1>6, <1>7, TypeParts, ProcessNames DEF IInv
<1>9. MintOK'
  BY <1>3, <1>6, <1>7 DEF MintOK
<1>10. PayOK'
  BY <1>5, <1>6, <1>7, PayKept, ProcessNames, Distinct DEF IInv
<1> QED BY <1>5, <1>6, <1>8, <1>9, <1>10, CalmStep, ProcessNames

LEMMA PreparePayInv ==
  ASSUME Hypotheses, IInv, NEW k \in Keys, PreparePay(k) PROVE IInv'
<1> USE DEF Hypotheses
<1>1. PICK f : f = [Idle EXCEPT !.at = "verify", !.key = k, !.due = AmountDue, !.claim = ClaimKey]
  OBVIOUS
<1>2. AmountDue \in Amounts /\ k \in secret /\ lock = None /\ lock' = "pay" /\ ClaimKey \in Claims
  BY ClaimKeyType DEF PreparePay, Take, IInv
<1>3. f \in FlowRec /\ f.at = "verify" /\ f.key = k /\ f.seen = None /\ f.due = AmountDue
  BY <1>1, <1>2 DEF FlowRec, Idle
<1>4. flow' = [flow EXCEPT !["pay"] = f]
  BY <1>1 DEF PreparePay, Goto
<1>5. UNCHANGED <<order, other, disc, pre, tries, claims, att, ledger, alerts, pi, secret, events>>
  BY DEF PreparePay, books, atStripe
<1>6. /\ flow' \in [Processes -> FlowRec] /\ flow'["pay"] = f
      /\ \A q \in Processes \ {"pay"} : flow'[q] = flow[q]
  BY <1>3, <1>4, Goes, ProcessNames DEF IInv
<1>8. TypeOK'
  BY <1>2, <1>5, <1>6, TypeParts, ProcessNames DEF IInv
<1>9. MintOK'
  BY <1>5, <1>6, MintKept, ProcessNames DEF IInv
<1>10. PayOK'
  BY <1>2, <1>3, <1>5, <1>6, DueWhenUnpaid DEF IInv, PayOK
<1>11. Known(k)
  BY <1>2 DEF Known
<1> QED BY <1>3, <1>5, <1>6, <1>8, <1>9, <1>10, <1>11, CalmStep, ProcessNames, Distinct

LEMMA VerifyIntentInv ==
  ASSUME Hypotheses, IInv, VerifyIntent PROVE IInv'
<1> USE DEF Hypotheses
<1> DEFINE g == flow["pay"]
<1>1. PICK f : f = [g EXCEPT !.at = "apply",
                    !.seen = IF AmountOf(g.key) = g.due THEN pi[g.key] ELSE "mismatch"]
  OBVIOUS
<1>2. g \in FlowRec /\ g.at = "verify"
  BY TypeParts, ProcessNames DEF VerifyIntent, At, IInv
<1>3. g.key \in Keys /\ g.key \in secret
  BY <1>2, ProcessNames, TypeParts DEF IInv, PayOK
<1>4. pi[g.key] \in PIStates \cup {None}
  BY <1>3, TypeParts DEF IInv
<1>5. /\ f \in FlowRec /\ f.at = "apply" /\ f.key = g.key /\ f.due = g.due
      /\ f.seen \in {pi[g.key], "mismatch"}
  BY <1>1, <1>2, <1>4 DEF FlowRec
<1>6. flow' = [flow EXCEPT !["pay"] = f]
  BY <1>1 DEF VerifyIntent, Goto
<1>7. UNCHANGED <<order, other, disc, pre, tries, claims, att, ledger, alerts, pi, secret, events, lock>>
  BY DEF VerifyIntent, books, atStripe
<1>8. /\ flow' \in [Processes -> FlowRec] /\ flow'["pay"] = f
      /\ \A q \in Processes \ {"pay"} : flow'[q] = flow[q]
  BY <1>5, <1>6, Goes, ProcessNames DEF IInv
<1>9. TypeOK'
  BY <1>7, <1>8, TypeParts DEF IInv
<1>10. MintOK'
  BY <1>7, <1>8, MintKept, ProcessNames DEF IInv
<1>11. PayOK'
  BY <1>2, <1>5, <1>7, <1>8 DEF IInv, PayOK
<1>12. Known(g.key)
  BY <1>3 DEF Known
<1>13. f.seen \in Final => pi[f.key] = f.seen
  BY <1>5 DEF Final
<1> QED BY <1>3, <1>5, <1>7, <1>8, <1>9, <1>10, <1>11, <1>12, <1>13, CalmStep, ProcessNames

LEMMA ReadsInv ==
  ASSUME Hypotheses, IInv, NEW p \in {"pull", "sweep", "retire"}, NEW k \in Keys,
         att[k] \notin {None, "cancelled"},
         Goto(p, [Idle EXCEPT !.at = "seen", !.key = k, !.seen = pi[k]]),
         UNCHANGED <<books, other, disc, pre, tries, claims, atStripe, lock>>
  PROVE  IInv'
<1> USE DEF Hypotheses
<1>1. PICK f : f = [Idle EXCEPT !.at = "seen", !.key = k, !.seen = pi[k]]
  OBVIOUS
<1>2. pi[k] \in PIStates \cup {None} /\ p \in Processes /\ p # "mint" /\ p # "pay"
  BY TypeParts, ProcessNames DEF IInv
<1>3. f \in FlowRec /\ f.at = "seen" /\ f.key = k /\ f.seen = pi[k]
  BY <1>1, <1>2, Idles DEF FlowRec, Idle
<1>4. flow' = [flow EXCEPT ![p] = f]
  BY <1>1 DEF Goto
<1>5. UNCHANGED <<order, other, disc, pre, tries, claims, att, ledger, alerts, pi, secret, events, lock>>
  BY DEF books, atStripe
<1>6. /\ flow' \in [Processes -> FlowRec] /\ flow'[p] = f
      /\ \A q \in Processes \ {p} : flow'[q] = flow[q]
  BY <1>2, <1>3, <1>4, Goes DEF IInv
<1>7. TypeOK'
  BY <1>5, <1>6, TypeParts DEF IInv
<1>8. MintOK'
  BY <1>2, <1>5, <1>6, MintKept, ProcessNames DEF IInv
<1>9. PayOK'
  BY <1>2, <1>5, <1>6, PayKept, ProcessNames DEF IInv
<1> QED BY <1>2, <1>3, <1>5, <1>6, <1>7, <1>8, <1>9, CalmStep

LEMMA RetrieveInv ==
  ASSUME Hypotheses, IInv, NEW k \in Keys, Retrieve(k) PROVE IInv'
BY ReadsInv DEF Retrieve

LEMMA RetrieveForCancelInv ==
  ASSUME Hypotheses, IInv, NEW p \in {"sweep", "retire"}, NEW k \in Keys, RetrieveForCancel(p, k)
  PROVE  IInv'
BY ReadsInv, Distinct DEF RetrieveForCancel, Sweepable

\* What End leaves.
LEMMA Ends ==
  ASSUME BoundsAssumption, TypeOK, NEW p \in Processes, End(p)
  PROVE  /\ flow' \in [Processes -> FlowRec] /\ flow'[p].at = "idle"
         /\ \A q \in Processes \ {p} : flow'[q] = flow[q]
         /\ lock' \in Processes \cup {None}
         /\ p # "pay" /\ lock = "pay" => lock' = "pay"
BY Goes, Idles, TypeParts DEF End, Goto, Release

LEMMA EndMintPay ==
  ASSUME Hypotheses, TypeOK, MintOK, PayOK, NEW p \in Processes, End(p),
         secret \subseteq secret', \A k \in Keys : pre[k] # None => pre'[k] # None,
         order'.state = "PendingPayment" =>
           order.state = "PendingPayment" /\ order'.total = order.total,
         \A k \in Keys : pi[k] = "canceled" => pi'[k] = pi[k]
  PROVE  MintOK' /\ PayOK'
<1> USE DEF Hypotheses
<1>1. /\ flow'[p].at = "idle" /\ \A q \in Processes \ {p} : flow'[q] = flow[q]
      /\ p # "pay" /\ lock = "pay" => lock' = "pay"
  BY Ends
<1>2. MintOK'
  <2>1. CASE p = "mint"
    BY <1>1, <2>1 DEF MintOK
  <2>2. CASE p # "mint"
    BY <1>1, <2>2, MintKept, ProcessNames
  <2> QED BY <2>1, <2>2
<1>3. PayOK'
  <2>1. CASE p = "pay"
    BY <1>1, <2>1 DEF PayOK
  <2>2. CASE p # "pay"
    BY <1>1, <2>2, PayKept, ProcessNames
  <2> QED BY <2>1, <2>2
<1> QED BY <1>2, <1>3

LEMMA EndInv ==
  ASSUME Hypotheses, IInv, NEW p \in Processes, End(p),
         UNCHANGED <<order, other, disc, pre, att, ledger, claims, pi, secret, events>>,
         tries' \in [Keys -> 0..MaxTries], alerts' \subseteq Keys, alerts \subseteq alerts'
  PROVE  IInv'
<1> USE DEF Hypotheses
<1>1. TypeOK /\ MintOK /\ PayOK
  BY DEF IInv
<1>2. MintOK' /\ PayOK'
  BY <1>1, EndMintPay
<1>3. /\ flow' \in [Processes -> FlowRec] /\ flow'[p].at = "idle"
      /\ \A q \in Processes \ {p} : flow'[q] = flow[q] /\ lock' \in Processes \cup {None}
  BY <1>1, Ends
<1>4. TypeOK'
  BY <1>1, <1>3, TypeParts, Ends
<1> QED BY <1>2, <1>3, <1>4, CalmStep

LEMMA DieInv ==
  ASSUME Hypotheses, IInv, NEW p \in Processes, Die(p) PROVE IInv'
<1>1. End(p) /\ UNCHANGED <<order, other, disc, pre, att, ledger, claims, pi, secret, events, tries, alerts>>
  BY DEF Die, books, atStripe
<1> QED BY <1>1, EndInv, TypeParts DEF IInv

LEMMA FailureCounted ==
  ASSUME Hypotheses, TypeOK, NEW k \in Keys, CountFailure(k)
  PROVE  tries' \in [Keys -> 0..MaxTries] /\ alerts' \subseteq Keys /\ alerts \subseteq alerts'
<1>1. tries \in [Keys -> 0..MaxTries] /\ alerts \subseteq Keys /\ MaxTries \in Nat
  BY TypeParts, Constants DEF Hypotheses
<1> QED BY <1>1 DEF CountFailure

LEMMA SweepFailsInv ==
  ASSUME Hypotheses, IInv, SweepFails PROVE IInv'
<1>1. flow["sweep"].key \in Keys
  BY ProcessNames DEF SweepFails, At, IInv, Snapshots
<1>2. /\ End("sweep") /\ CountFailure(flow["sweep"].key)
      /\ UNCHANGED <<order, other, disc, pre, att, ledger, claims, pi, secret, events>>
  BY DEF SweepFails, atStripe
<1>3. tries' \in [Keys -> 0..MaxTries] /\ alerts' \subseteq Keys /\ alerts \subseteq alerts'
  BY <1>1, <1>2, FailureCounted DEF IInv
<1> QED BY <1>2, <1>3, EndInv, ProcessNames

LEMMA DropLockInv ==
  ASSUME Hypotheses, IInv, DropLock PROVE IInv'
<1>1. UNCHANGED <<order, other, disc, pre, att, ledger, alerts, tries, claims, pi, secret, events, flow>>
  BY DEF DropLock, books, atStripe
<1>2. LockDrops /\ lock' = None
  BY DEF DropLock
<1>3. TypeOK'
  BY <1>1, <1>2, TypeParts DEF IInv
<1>4. MintOK'
  BY <1>1, MintKept DEF IInv, Hypotheses
<1>5. PayOK'
  BY <1>1, <1>2, PayKept DEF IInv
<1>6. flow'["mint"] = flow["mint"] /\ \A q \in Processes \ {"mint"} : flow'[q] = flow[q]
  BY <1>1
<1> QED BY <1>1, <1>3, <1>4, <1>5, <1>6, CalmStep, ProcessNames DEF Hypotheses

-----------------------------------------------------------------------------
(* Applying a snapshot of an intent. *)

\* What an application does, to the order, to the intent's row and to no other row.
AppliedTo(k) ==
  /\ order' \in OrderRec /\ order'.by = order.by /\ order'.total = order.total
  /\ order.state # "PendingPayment" => order'.state = order.state
  /\ att' \in [Keys -> AttStates] /\ ledger' \in [Keys -> LedgerStates]
  /\ alerts' \subseteq Keys /\ alerts \subseteq alerts'
  /\ \A j \in Keys \ {k} : att'[j] = att[j]
  /\ att'[k] # None
  /\ att'[k] = "cancelled" => pi[k] = "canceled"
  /\ att'[k] = "settled" => pi[k] = "succeeded" /\ order'.state # "PendingPayment"
  /\ att'[k] = "unknown" => pi[k] = "succeeded" /\ k \in alerts'
  /\ order'.state = "PendingPayment" => \A j \in Keys : ledger'[j] \notin Recorded

\* SetAttempt on its own.
LEMMA SetAttempts ==
  ASSUME TypeOK, NEW k \in Keys, NEW s \in AttStates, SetAttempt(k, s)
  PROVE  /\ att' \in [Keys -> AttStates] /\ \A j \in Keys \ {k} : att'[j] = att[j]
         /\ att'[k] = IF att[k] = "settled" THEN "settled" ELSE s
BY TypeParts DEF SetAttempt

\* Capturing the whole amount due leaves no order waiting for payment.
LEMMA Captures ==
  ASSUME Hypotheses, TypeOK, Unpaid, NEW k \in Keys, NEW amount, Capture(k, amount),
         order.state = "PendingPayment" => amount = order.total
  PROVE  /\ order' \in OrderRec /\ order'.by = order.by /\ order'.total = order.total
         /\ order'.state # "PendingPayment"
         /\ order.state # "PendingPayment" => order'.state = order.state
         /\ ledger' \in [Keys -> LedgerStates] /\ alerts' \subseteq Keys /\ alerts \subseteq alerts'
<1>1. order \in OrderRec /\ ledger \in [Keys -> LedgerStates] /\ alerts \subseteq Keys
  BY TypeParts
<1>2. ledger' \in [Keys -> LedgerStates] /\ alerts' \subseteq Keys /\ alerts \subseteq alerts'
  BY <1>1 DEF Capture, LedgerStates, Recorded
<1>3. order' = IF order.state = "PendingPayment" /\ AmountDue - amount <= 0
               THEN [order EXCEPT !.state = "Paid"] ELSE order
  BY DEF Capture
<1>4. order.state = "PendingPayment" => AmountDue - amount <= 0
  <2> SUFFICES ASSUME order.state = "PendingPayment" PROVE AmountDue - amount <= 0
    OBVIOUS
  <2>1. AmountDue = order.total /\ order.total \in Amounts /\ amount = order.total
    BY DueWhenUnpaid DEF Hypotheses
  <2>2. order.total \in Nat
    BY <2>1, Constants DEF Hypotheses
  <2> QED BY <2>1, <2>2
<1> QED BY <1>1, <1>2, <1>3, <1>4 DEF OrderRec

LEMMA AppliesSucceeded ==
  ASSUME Hypotheses, IInv, NEW k \in Keys, pi[k] = "succeeded", ApplySucceeded(k)
  PROVE  AppliedTo(k)
<1>1. TypeOK /\ Unpaid /\ KeyOK(k)
  BY DEF IInv
<1>2. "settled" \in AttStates /\ "unknown" \in AttStates
  BY DEF AttStates
<1>3. CASE ledger[k] \in Recorded /\ SetAttempt(k, "settled") /\ UNCHANGED <<order, ledger, alerts>>
  <2>1. order.state # "PendingPayment"
    BY <1>1, <1>3 DEF Unpaid
  <2> QED BY <1>1, <1>2, <1>3, <2>1, SetAttempts, TypeParts, Distinct DEF AppliedTo
<1>4. CASE /\ ledger[k] \notin Recorded /\ AmountDue > 0 /\ AmountOf(k) = AmountDue
           /\ Capture(k, AmountDue) /\ SetAttempt(k, "settled")
  <2>1. order.state = "PendingPayment" => AmountDue = order.total
    BY <1>1, DueWhenUnpaid DEF Hypotheses
  <2>2. /\ order' \in OrderRec /\ order'.by = order.by /\ order'.total = order.total
        /\ order'.state # "PendingPayment"
        /\ order.state # "PendingPayment" => order'.state = order.state
        /\ ledger' \in [Keys -> LedgerStates] /\ alerts' \subseteq Keys /\ alerts \subseteq alerts'
    BY <1>1, <1>4, <2>1, Captures
  <2> QED BY <1>1, <1>2, <1>4, <2>2, SetAttempts, Distinct DEF AppliedTo
<1>5. CASE ledger[k] \notin Recorded /\ AmountDue > 0 /\ AmountOf(k) # AmountDue /\ ApplyMismatch(k)
  <2>1. SetAttempt(k, "unknown") /\ UNCHANGED <<order, ledger>>
    BY <1>5 DEF ApplyMismatch
  <2>2. alerts' = IF att[k] = "unknown" THEN alerts ELSE alerts \cup {k}
    BY <1>5 DEF ApplyMismatch
  <2>3. k \in alerts' /\ alerts' \subseteq Keys /\ alerts \subseteq alerts'
    BY <1>1, <2>2, TypeParts DEF KeyOK, Row
  <2>4. att[k] = "settled" => order.state # "PendingPayment"
    BY <1>1 DEF KeyOK, Row
  <2>5. order.state = "PendingPayment" => \A j \in Keys : ledger[j] \notin Recorded
    BY <1>1 DEF Unpaid
  <2> QED BY <1>1, <1>2, <2>1, <2>3, <2>4, <2>5, SetAttempts, TypeParts, Distinct DEF AppliedTo
<1>6. CASE ledger[k] \notin Recorded /\ AmountDue <= 0 /\ ApplyDuplicate(k)
  <2>1. order.state # "PendingPayment"
    <3> SUFFICES ASSUME order.state = "PendingPayment" PROVE FALSE
      OBVIOUS
    <3>1. AmountDue = order.total /\ order.total \in Nat \ {0}
      BY <1>1, DueWhenUnpaid, Constants DEF Hypotheses
    <3> QED BY <1>6, <3>1
  <2>2. SetAttempt(k, "settled") /\ UNCHANGED order
    BY <1>6 DEF ApplyDuplicate
  <2>3. ledger \in [Keys -> LedgerStates] /\ alerts \subseteq Keys
    BY <1>1, TypeParts
  <2>4. ledger' \in [Keys -> LedgerStates] /\ alerts' \subseteq Keys /\ alerts \subseteq alerts'
    BY <1>6, <2>3 DEF ApplyDuplicate, LedgerStates, Recorded
  <2> QED BY <1>1, <1>2, <2>1, <2>2, <2>4, SetAttempts, TypeParts, Distinct DEF AppliedTo
<1> QED BY <1>3, <1>4, <1>5, <1>6 DEF ApplySucceeded

LEMMA AppliesOther ==
  ASSUME Hypotheses, IInv, NEW k \in Keys, NEW s, s # "succeeded",
         s = "canceled" => pi[k] = "canceled", ApplyOther(k, s)
  PROVE  AppliedTo(k)
<1>1. TypeOK /\ Unpaid /\ KeyOK(k)
  BY DEF IInv
<1>2. order \in OrderRec /\ ledger \in [Keys -> LedgerStates] /\ att \in [Keys -> AttStates] /\ alerts \subseteq Keys
  BY <1>1, TypeParts
<1>3. UNCHANGED <<order, alerts>>
  BY DEF ApplyOther
<1>4. ledger' = ledger \/ ledger' = [ledger EXCEPT ![k] = "Declined"]
  BY DEF ApplyOther
<1>5. ledger' \in [Keys -> LedgerStates] /\ \A j \in Keys : ledger'[j] \in Recorded => ledger[j] \in Recorded
  BY <1>2, <1>4 DEF LedgerStates, Recorded
<1>6. \/ \E a \in {"action_required", "processing", "failed", "open"} : SetAttempt(k, a)
      \/ s = "canceled" /\ SetAttempt(k, "cancelled")
      \/ att[k] = "failed" /\ att' = att
  BY DEF ApplyOther
<1>7. {"action_required", "processing", "failed", "open", "cancelled"} \subseteq AttStates
  BY DEF AttStates, Sweepable
<1>8. att[k] = "settled" => pi[k] = "succeeded" /\ order.state # "PendingPayment"
  BY <1>1 DEF KeyOK, Row
<1>9. order.state = "PendingPayment" => \A j \in Keys : ledger'[j] \notin Recorded
  BY <1>1, <1>5 DEF Unpaid
<1>10. CASE \E a \in {"action_required", "processing", "failed", "open"} : SetAttempt(k, a)
  BY <1>1, <1>2, <1>3, <1>5, <1>7, <1>8, <1>9, <1>10, SetAttempts, Distinct DEF AppliedTo
<1>11. CASE s = "canceled" /\ SetAttempt(k, "cancelled")
  BY <1>1, <1>2, <1>3, <1>5, <1>7, <1>8, <1>9, <1>11, SetAttempts, Distinct DEF AppliedTo
<1>12. CASE att[k] = "failed" /\ att' = att
  BY <1>1, <1>2, <1>3, <1>5, <1>9, <1>12, Distinct DEF AppliedTo
<1> QED BY <1>6, <1>10, <1>11, <1>12

LEMMA Applies ==
  ASSUME Hypotheses, IInv, NEW k \in Keys, NEW s, s \in Final => pi[k] = s, Apply(k, s)
  PROVE  AppliedTo(k)
BY AppliesSucceeded, AppliesOther DEF Apply, Final

LEMMA ApplyStep ==
  ASSUME Hypotheses, IInv, NEW k \in Keys, Known(k), AppliedTo(k),
         UNCHANGED <<other, disc, pre, tries, claims, pi, secret>>, events' \subseteq events,
         NEW p \in Processes, \A q \in Processes \ {p} : flow'[q] = flow[q],
         flow'[p] = flow[p] \/ flow'[p].at = "idle",
         flow' \in [Processes -> FlowRec], lock' \in Processes \cup {None},
         MintOK', PayOK'
  PROVE  IInv'
<1> USE DEF Hypotheses
<1>1. TypeOK /\ Unpaid /\ Snapshots
  BY DEF IInv
<1>2. TypeOK'
  BY <1>1, TypeParts DEF AppliedTo
<1>3. p \in Readers /\ flow'[p].at # "idle" =>
        flow'[p].key \in Keys /\ (flow'[p].seen \in Final => pi'[flow'[p].key] = flow'[p].seen)
  BY <1>1 DEF Snapshots
<1>4. Snapshots'
  BY <1>1, <1>3, SnapshotsKept
<1>5. Unpaid'
  BY <1>1 DEF Unpaid, AppliedTo
<1>6. ASSUME NEW j PROVE Known(j)' => Known(j)
  <2>1. Known(j)' => Known(j) \/ (p \in Readers /\ flow'[p].at # "idle" /\ flow'[p].key = j)
    BY Moves
  <2> QED BY <2>1 DEF Known
<1>7. order'.state = "PendingPayment" => order.state = "PendingPayment"
  BY DEF AppliedTo
<1>8. ASSUME NEW j \in Keys, j # k PROVE KeyOK(j)'
  <2>1. KeyOK(j) /\ att'[j] = att[j] /\ alerts \subseteq alerts' /\ order'.by = order.by
    BY <1>8 DEF IInv, AppliedTo
  <2> QED BY <1>6, <1>7, <2>1, KeyKept
<1>9. KeyOK(k)'
  <2>1. KeyOK(k)
    BY DEF IInv
  <2>2. Row(k)'
    BY <2>1 DEF KeyOK, Row, AppliedTo
  <2>3. LegacyOK(k)'
    BY <2>1 DEF KeyOK, LegacyOK
  <2>4. Released(k)'
    BY <2>1 DEF KeyOK, Released, AppliedTo
  <2> QED BY <2>2, <2>3, <2>4 DEF KeyOK
<1> QED BY <1>2, <1>4, <1>5, <1>8, <1>9 DEF IInv

LEMMA ProcessEventInv ==
  ASSUME Hypotheses, IInv, NEW e \in events, ProcessEvent(e) PROVE IInv'
<1> USE DEF Hypotheses
<1>1. e[1] \in Keys /\ (e[2] \in Final => pi[e[1]] = e[2]) /\ Known(e[1])
  BY TypeParts DEF IInv, Snapshots, Known
<1>2. Apply(e[1], e[2])
  BY DEF ProcessEvent
<1>3. AppliedTo(e[1])
  BY <1>1, <1>2, Applies
<1>4. UNCHANGED <<other, disc, pre, tries, claims, pi, secret, flow, lock>> /\ events' \subseteq events
  BY DEF ProcessEvent
<1>5. MintOK' /\ PayOK'
  BY <1>3, <1>4, MintKept, PayKept DEF IInv, AppliedTo
<1>6. flow' \in [Processes -> FlowRec] /\ lock' \in Processes \cup {None}
  BY <1>4, TypeParts DEF IInv
<1> QED BY <1>1, <1>3, <1>4, <1>5, <1>6, ApplyStep, ProcessNames

\* A resolution or a pull applies what it read and goes idle.
LEMMA ReaderApplies ==
  ASSUME Hypotheses, IInv, NEW p \in {"pull", "sweep", "retire"}, flow[p].at # "idle",
         Apply(flow[p].key, flow[p].seen),
         Goto(p, Idle), lock' = lock \/ Release(p),
         UNCHANGED <<other, disc, pre, tries, claims, atStripe>>
  PROVE  IInv'
<1> USE DEF Hypotheses
<1>1. TypeOK /\ MintOK /\ PayOK /\ p \in Processes /\ p \in Readers /\ p # "pay" /\ p # "mint"
  BY ProcessNames DEF IInv
<1>2. PICK k \in Keys : k = flow[p].key
  BY <1>1 DEF IInv, Snapshots
<1>3. (flow[p].seen \in Final => pi[k] = flow[p].seen) /\ Known(k)
  BY <1>1, <1>2 DEF IInv, Snapshots, Known
<1>4. AppliedTo(k)
  BY <1>2, <1>3, Applies
<1>5. UNCHANGED <<other, disc, pre, tries, claims, pi, secret, events>>
  BY DEF atStripe
<1>6. /\ flow' \in [Processes -> FlowRec] /\ flow'[p].at = "idle"
      /\ \A q \in Processes \ {p} : flow'[q] = flow[q]
  BY <1>1, Goes, Idles DEF Goto
<1>7. lock' \in Processes \cup {None} /\ (lock = "pay" => lock' = "pay")
  BY <1>1, TypeParts DEF Release
<1>8. MintOK'
  BY <1>1, <1>5, <1>6, MintKept, ProcessNames
<1>9. PayOK'
  BY <1>1, <1>4, <1>5, <1>6, <1>7, PayKept, ProcessNames DEF AppliedTo
<1> QED BY <1>1, <1>3, <1>4, <1>5, <1>6, <1>7, <1>8, <1>9, ApplyStep

LEMMA ApplyPullInv ==
  ASSUME Hypotheses, IInv, ApplyPull PROVE IInv'
BY ReaderApplies DEF ApplyPull, At

LEMMA ApplySeenInv ==
  ASSUME Hypotheses, IInv, NEW p \in {"sweep", "retire"}, ApplySeen(p) PROVE IInv'
BY ReaderApplies DEF ApplySeen, At

LEMMA ApplyCancelledInv ==
  ASSUME Hypotheses, IInv, NEW p \in {"sweep", "retire"}, ApplyCancelled(p) PROVE IInv'
BY ReaderApplies DEF ApplyCancelled, At, End

LEMMA ApplyPayInv ==
  ASSUME Hypotheses, IInv, ApplyPay PROVE IInv'
<1> USE DEF Hypotheses
<1> DEFINE f == flow["pay"]
<1>1. TypeOK /\ MintOK /\ PayOK /\ Unpaid /\ f \in FlowRec
  BY TypeParts, ProcessNames DEF IInv
<1>2. f.at = "apply" /\ End("pay") /\ UNCHANGED <<att, other, disc, pre, tries, pi, secret, events>>
  BY DEF ApplyPay, At, atStripe
<1>3. PICK k \in Keys : k = f.key
  BY <1>1, <1>2, ProcessNames DEF IInv, Snapshots
<1>4. claims' \subseteq Claims
  BY <1>1, <1>3, TypeParts DEF ApplyPay, FlowRec
<1>5. /\ order' \in OrderRec /\ order'.by = order.by /\ order'.total = order.total
      /\ order.state # "PendingPayment" => order'.state = order.state
      /\ ledger' \in [Keys -> LedgerStates] /\ alerts' \subseteq Keys /\ alerts \subseteq alerts'
      /\ order'.state = "PendingPayment" => \A j \in Keys : ledger'[j] \notin Recorded
  <2>1. order \in OrderRec /\ ledger \in [Keys -> LedgerStates] /\ alerts \subseteq Keys
    BY <1>1, TypeParts
  <2>2. CASE UNCHANGED <<order, ledger, alerts>>
    BY <1>1, <2>1, <2>2 DEF Unpaid
  <2>3. CASE f.seen = "succeeded" /\ Capture(k, f.due)
    <3>1. pi[k] = "succeeded"
      BY <1>2, <1>3, <2>3, ProcessNames DEF IInv, Snapshots, Final
    <3>2. order.state = "PendingPayment" => f.due = order.total
      BY <1>1, <1>2, <1>3, <3>1 DEF PayOK
    <3> QED BY <1>1, <2>3, <3>2, Captures
  <2>4. CASE ledger' = [ledger EXCEPT ![k] = RowFor(k, f.seen)] /\ UNCHANGED <<order, alerts>>
    <3>1. RowFor(k, f.seen) \in {"OtherAmount", "Pending", "Declined"}
      BY DEF RowFor
    <3>2. \A j \in Keys : ledger'[j] \in Recorded => ledger[j] \in Recorded
      BY <2>1, <2>4, <3>1 DEF Recorded
    <3>3. ledger' \in [Keys -> LedgerStates]
      BY <2>1, <2>4, <3>1 DEF LedgerStates
    <3> QED BY <1>1, <2>1, <2>4, <3>2, <3>3 DEF Unpaid
  <2> QED BY <1>3, <2>2, <2>3, <2>4 DEF ApplyPay
<1>6. MintOK' /\ PayOK'
  BY <1>1, <1>2, <1>5, EndMintPay, ProcessNames
<1>7. /\ flow' \in [Processes -> FlowRec] /\ flow'["pay"].at = "idle"
      /\ lock' \in Processes \cup {None}
      /\ \A q \in Processes \ {"pay"} : flow'[q] = flow[q]
  BY <1>1, <1>2, Ends, ProcessNames
<1>8. TypeOK'
  BY <1>1, <1>2, <1>4, <1>5, <1>7, TypeParts
<1>9. Unpaid'
  BY <1>1, <1>2, <1>5 DEF Unpaid
<1>10. Snapshots'
  BY <1>1, <1>2, <1>7, SnapshotsKept, ProcessNames DEF IInv
<1>11. ASSUME NEW j \in Keys PROVE KeyOK(j)'
  <2>1. Known(j)' => Known(j)
    BY <1>2, <1>7, Moves, ProcessNames
  <2>2. KeyOK(j)
    BY DEF IInv
  <2> QED BY <1>2, <1>5, <2>1, <2>2, KeyKept
<1> QED BY <1>6, <1>8, <1>9, <1>10, <1>11 DEF IInv

-----------------------------------------------------------------------------
(* Stripe moves an intent. *)

LEMMA IntentMoves ==
  ASSUME Hypotheses, IInv, NEW k \in Keys, Known(k), NEW s \in PIStates \cup {None},
         pi' = [pi EXCEPT ![k] = s], pi[k] \in Final \cup {None} => s = pi[k],
         pi[k] # None => s # None,
         s = "processing" => k \in secret,
         UNCHANGED <<order, other, disc, pre, att, ledger, alerts, tries, claims, secret>>,
         events' = events \/ (s \in PIStates /\ events' = events \cup {<<k, s>>}),
         NEW p \in Processes, \A q \in Processes \ {p} : flow'[q] = flow[q],
         flow'[p] = flow[p] \/ (p \in Readers /\ flow'[p].key = k /\ flow'[p].seen = s),
         flow' \in [Processes -> FlowRec], lock' \in Processes \cup {None},
         MintOK', PayOK'
  PROVE  IInv'
<1> USE DEF Hypotheses
<1>1. TypeOK /\ Unpaid /\ Snapshots /\ KeyOK(k) /\ pi \in [Keys -> PIStates \cup {None}]
      /\ events \subseteq Keys \X PIStates
  BY TypeParts DEF IInv
<1>2. pi' \in [Keys -> PIStates \cup {None}] /\ pi'[k] = s /\ \A j \in Keys \ {k} : pi'[j] = pi[j]
  BY <1>1
<1>3. events' \subseteq Keys \X PIStates
  BY <1>1
<1>4. TypeOK'
  BY <1>1, <1>2, <1>3, TypeParts
<1>5. Unpaid'
  BY <1>1 DEF Unpaid
<1>6. \A j \in Keys : pi[j] \in Final => pi'[j] = pi[j]
  BY <1>2
<1>7. Snapshots'
  <2>1. ASSUME NEW e \in events', e[2] \in Final PROVE pi'[e[1]] = e[2]
    <3>1. CASE e \in events
      BY <1>1, <1>6, <2>1, <3>1 DEF Snapshots
    <3>2. CASE e = <<k, s>>
      BY <1>2, <3>2
    <3> QED BY <3>1, <3>2
  <2>2. ASSUME NEW q \in Readers, flow'[q].at # "idle"
        PROVE  flow'[q].key \in Keys /\ (flow'[q].seen \in Final => pi'[flow'[q].key] = flow'[q].seen)
    <3>1. CASE flow'[q] = flow[q]
      BY <1>1, <1>6, <2>2, <3>1 DEF Snapshots
    <3>2. CASE flow'[q].key = k /\ flow'[q].seen = s
      BY <1>2, <3>2
    <3> QED BY <3>1, <3>2 DEF Readers
  <2> QED BY <2>1, <2>2 DEF Snapshots
<1>8. ASSUME NEW j \in Keys, j # k PROVE KeyOK(j)'
  <2>1. Known(j)' => Known(j)
    BY <1>8 DEF Known, Readers
  <2>2. KeyOK(j)
    BY DEF IInv
  <2> QED BY <1>2, <1>8, <2>1, <2>2, KeyKept
<1>9. KeyOK(k)'
  <2>1. Row(k)'
    BY <1>1, <1>2 DEF KeyOK, Row, Final
  <2>2. LegacyOK(k)'
    BY <1>1, <1>2 DEF KeyOK, LegacyOK
  <2>3. Released(k)'
    BY <1>1, <1>2 DEF KeyOK, Released, Final
  <2> QED BY <2>1, <2>2, <2>3 DEF KeyOK
<1> QED BY <1>4, <1>5, <1>7, <1>8, <1>9 DEF IInv

LEMMA BecomesInv ==
  ASSUME Hypotheses, IInv, NEW k \in Keys, k \in secret, NEW s \in PIStates,
         pi[k] \in PIStates \ Final, Becomes(k, s)
  PROVE  IInv'
<1> USE DEF Hypotheses
<1>1. /\ pi' = [pi EXCEPT ![k] = s] /\ events' = events \cup {<<k, s>>}
      /\ UNCHANGED <<order, other, disc, pre, att, ledger, alerts, tries, claims, secret, flow, lock>>
  BY DEF Becomes, books
<1>2. Known(k)
  BY DEF Known
<1>3. \A j \in Keys : pi[j] = "canceled" => pi'[j] = pi[j]
  BY <1>1, TypeParts DEF Final, IInv
<1>4. MintOK' /\ PayOK'
  BY <1>1, <1>3, MintKept, PayKept DEF IInv
<1>5. flow' \in [Processes -> FlowRec] /\ lock' \in Processes \cup {None}
  BY <1>1, TypeParts DEF IInv
<1>6. \A q \in Processes : flow'[q] = flow[q]
  BY <1>1
<1>7. s # None /\ pi[k] \notin Final \cup {None}
  BY Distinct
<1> QED BY <1>1, <1>2, <1>4, <1>5, <1>6, <1>7, IntentMoves, ProcessNames

LEMMA ConfirmInv ==
  ASSUME Hypotheses, IInv, NEW k \in Keys, Confirm(k) PROVE IInv'
<1>1. k \in secret /\ pi[k] \in PIStates \ Final
  BY DEF Confirm, Live, PIStates, Final
<1>2. PICK s \in PIStates : Becomes(k, s)
  BY DEF Confirm, Live, PIStates
<1> QED BY <1>1, <1>2, BecomesInv

LEMMA DecideInv ==
  ASSUME Hypotheses, IInv, NEW k \in Keys, Decide(k) PROVE IInv'
<1>1. k \in secret /\ pi[k] \in PIStates \ Final
  BY DEF Decide, PIStates, Final, IInv, KeyOK, Row
<1>2. PICK s \in PIStates : Becomes(k, s)
  BY DEF Decide, Live, PIStates
<1> QED BY <1>1, <1>2, BecomesInv

LEMMA CancelAtStripeInv ==
  ASSUME Hypotheses, IInv, NEW p \in {"sweep", "retire"}, CancelAtStripe(p) PROVE IInv'
<1> USE DEF Hypotheses
<1>1. p \in Processes /\ p \in Readers /\ p # "mint" /\ p # "pay" /\ TypeOK /\ flow[p] \in FlowRec
  BY ProcessNames, TypeParts DEF IInv
<1>2. PICK k \in Keys : k = flow[p].key
  BY <1>1 DEF IInv, Snapshots, CancelAtStripe, At
<1>3. PICK s : s = IF pi[k] \in Live THEN "canceled" ELSE pi[k]
  OBVIOUS
<1>4. PICK f : f = [flow[p] EXCEPT !.at = "cancel", !.seen = s]
  OBVIOUS
<1>5. /\ flow[p].at # "idle" /\ lock = None /\ lock' = p
      /\ pi' = [pi EXCEPT ![k] = s]
      /\ events' = events \/ (pi[k] \in Live /\ events' = events \cup {<<k, s>>})
      /\ flow' = [flow EXCEPT ![p] = f]
      /\ UNCHANGED <<order, other, disc, pre, att, ledger, alerts, tries, claims, secret>>
  BY <1>2, <1>3, <1>4 DEF CancelAtStripe, At, Take, Goto, books
<1>6. pi \in [Keys -> PIStates \cup {None}]
  BY <1>1, TypeParts
<1>7. /\ s \in PIStates \cup {None} /\ (pi[k] \in Final \cup {None} => s = pi[k])
      /\ (pi[k] # None => s # None) /\ (pi[k] \in Live => s \in PIStates)
      /\ (s = "processing" => s = pi[k])
  BY <1>3, <1>6, Distinct DEF PIStates, Live, Final, None
<1>8. s = "processing" => k \in secret
  BY <1>7 DEF IInv, KeyOK, Row
<1>9. f \in FlowRec /\ f.key = k /\ f.seen = s
  BY <1>1, <1>2, <1>4, <1>7 DEF FlowRec
<1>10. /\ flow' \in [Processes -> FlowRec] /\ flow'[p] = f
       /\ \A q \in Processes \ {p} : flow'[q] = flow[q]
  BY <1>1, <1>5, <1>9, Goes
<1>11. Known(k)
  BY <1>1, <1>2, <1>5 DEF Known
<1>12. \A j \in Keys : pi[j] = "canceled" => pi'[j] = pi[j]
  BY <1>5, <1>6, <1>7 DEF Final
<1>13. MintOK' /\ PayOK'
  BY <1>1, <1>5, <1>10, <1>12, MintKept, PayKept, ProcessNames, Distinct DEF IInv
<1>14. lock' \in Processes \cup {None}
  BY <1>1, <1>5
<1> QED BY <1>1, <1>5, <1>7, <1>8, <1>9, <1>10, <1>11, <1>13, <1>14, IntentMoves

-----------------------------------------------------------------------------
(* The mint. *)

LEMMA MintAlone ==
  ASSUME Hypotheses, IInv, flow["mint"].at # "idle"
  PROVE  ~Legacy /\ LegacyKey \notin Keys /\ flow["mint"].key \in Minted /\ flow["mint"].key \in Keys
BY Constants DEF Hypotheses, LegacyAssumption, IInv, MintOK

LEMMA OpenPreMintInv ==
  ASSUME Hypotheses, IInv, OpenPreMint PROVE IInv'
<1> USE DEF Hypotheses
<1>1. flow["mint"].at = "premint" /\ "mint" \in Actors
  BY DEF OpenPreMint, At
<1>2. CASE order.state \notin {"PendingPayment", "Paid"}
  <2>1. End("mint") /\ UNCHANGED <<order, other, disc, pre, att, ledger, claims, pi, secret, events, tries, alerts>>
    BY <1>2 DEF OpenPreMint, books, atStripe
  <2> QED BY <2>1, EndInv, TypeParts, ProcessNames DEF IInv
<1>3. CASE order.state \in {"PendingPayment", "Paid"}
  <2>1. PICK k \in Keys : k = flow["mint"].key
    BY <1>1, MintAlone
  <2>2. PICK f : f = [flow["mint"] EXCEPT !.at = "mint"]
    OBVIOUS
  <2>3. /\ pre' = IF pre[k] = None THEN [pre EXCEPT ![k] = "open"] ELSE pre
        /\ flow' = [flow EXCEPT !["mint"] = f]
        /\ UNCHANGED <<order, other, disc, att, ledger, alerts, tries, claims, pi, secret, events, lock>>
    BY <1>3, <2>1, <2>2 DEF OpenPreMint, Goto, books, atStripe
  <2>4. TypeOK /\ flow["mint"] \in FlowRec /\ ~Legacy /\ LegacyKey \notin Keys /\ k \in Minted
    BY <1>1, <2>1, MintAlone, TypeParts, ProcessNames DEF IInv
  <2>5. f \in FlowRec /\ f.key = k /\ f.at = "mint"
    BY <2>1, <2>2, <2>4 DEF FlowRec
  <2>6. /\ flow' \in [Processes -> FlowRec] /\ flow'["mint"] = f
        /\ \A q \in Processes \ {"mint"} : flow'[q] = flow[q]
    BY <2>3, <2>4, <2>5, Goes, ProcessNames
  <2>7. /\ pre' \in [Keys -> {None, "open", "cancelled", "bound"}] /\ pre'[k] # None
        /\ pre'[k] \in {pre[k], "open"}
        /\ \A j \in Keys \ {k} : pre'[j] = pre[j]
    BY <2>3, <2>4, TypeParts, Distinct
  <2>8. TypeOK'
    BY <2>3, <2>4, <2>6, <2>7, TypeParts
  <2>9. MintOK'
    BY <1>1, <2>4, <2>5, <2>6, <2>7 DEF MintOK
  <2>10. PayOK'
    BY <2>3, <2>4, <2>6, PayKept, ProcessNames DEF IInv
  <2>11. Snapshots'
    BY <2>3, <2>4, <2>6, SnapshotsKept, ProcessNames DEF IInv
  <2>12. Unpaid'
    BY <2>3 DEF IInv, Unpaid
  <2>13. ASSUME NEW j \in Keys PROVE KeyOK(j)'
    <3>1. Known(j)' => Known(j)
      BY <2>3, <2>6, Moves, ProcessNames
    <3>2. KeyOK(j) /\ order.by # "unpaid" /\ j # LegacyKey
      BY <1>3, <2>4 DEF IInv, Unpaid
    <3>3. pre'[j] \in {pre[j], "open"}
      BY <2>7
    <3> QED BY <2>3, <2>4, <3>1, <3>2, <3>3 DEF KeyOK, Row, LegacyOK, Released
  <2> QED BY <2>8, <2>9, <2>10, <2>11, <2>12, <2>13 DEF IInv
<1> QED BY <1>2, <1>3

LEMMA CreatePaymentIntentInv ==
  ASSUME Hypotheses, IInv, CreatePaymentIntent PROVE IInv'
<1> USE DEF Hypotheses
<1>1. flow["mint"].at = "mint" /\ "mint" \in Actors
  BY DEF CreatePaymentIntent, At
<1>2. PICK k \in Keys : k = flow["mint"].key
  BY <1>1, MintAlone
<1>3. PICK f : f = [flow["mint"] EXCEPT !.at = "bind"]
  OBVIOUS
<1>4. /\ pi' = IF pi[k] = None THEN [pi EXCEPT ![k] = "requires_payment_method"] ELSE pi
      /\ flow' = [flow EXCEPT !["mint"] = f]
      /\ UNCHANGED <<order, other, disc, pre, att, ledger, alerts, tries, claims, secret, events, lock>>
  BY <1>2, <1>3 DEF CreatePaymentIntent, Goto, books
<1>5. /\ TypeOK /\ flow["mint"] \in FlowRec /\ ~Legacy /\ LegacyKey \notin Keys /\ k \in Minted
      /\ pre[k] # None
  BY <1>1, <1>2, MintAlone, TypeParts, ProcessNames DEF IInv, MintOK
<1>6. f \in FlowRec /\ f.key = k /\ f.at = "bind"
  BY <1>2, <1>3, <1>5 DEF FlowRec
<1>7. /\ flow' \in [Processes -> FlowRec] /\ flow'["mint"] = f
      /\ \A q \in Processes \ {"mint"} : flow'[q] = flow[q]
  BY <1>4, <1>5, <1>6, Goes, ProcessNames
<1>8. /\ pi' \in [Keys -> PIStates \cup {None}]
      /\ \A j \in Keys : pi'[j] = pi[j] \/ (pi[j] = None /\ pi'[j] = "requires_payment_method")
  BY <1>4, <1>5, TypeParts DEF PIStates, Live
<1>9. TypeOK'
  BY <1>4, <1>5, <1>7, <1>8, TypeParts
<1>10. MintOK'
  BY <1>1, <1>4, <1>5, <1>6, <1>7 DEF MintOK
<1>11. \A j \in Keys : pi[j] \in Final => pi'[j] = pi[j]
  BY <1>8, Distinct
<1>12. PayOK'
  BY <1>4, <1>5, <1>7, <1>11, PayKept, ProcessNames DEF IInv, Final
<1>13. Snapshots'
  BY <1>4, <1>5, <1>7, <1>11, SnapshotsKept, ProcessNames DEF IInv
<1>14. Unpaid'
  BY <1>4 DEF IInv, Unpaid
<1>15. ASSUME NEW j \in Keys PROVE KeyOK(j)'
  <2>1. Known(j)' => Known(j)
    BY <1>4, <1>7, Moves, ProcessNames
  <2>2. KeyOK(j) /\ j # LegacyKey
    BY <1>5 DEF IInv
  <2>3. pi'[j] = pi[j] \/ (pi[j] = None /\ pi'[j] = "requires_payment_method")
    BY <1>8
  <2> QED BY <1>4, <1>5, <2>1, <2>2, <2>3, Distinct DEF KeyOK, Row, LegacyOK, Released, None
<1> QED BY <1>9, <1>10, <1>12, <1>13, <1>14, <1>15 DEF IInv

\* BindRow on a row that was written: the attempt is open, or dead and unknown.
LEMMA Binds ==
  ASSUME TypeOK, NEW k \in Keys, Row(k), pre[k] # None, BindRow(k)
  PROVE  /\ pre' \in [Keys -> {None, "open", "cancelled", "bound"}] /\ att' \in [Keys -> AttStates]
         /\ \A j \in Keys \ {k} : pre'[j] = pre[j] /\ att'[j] = att[j]
         /\ att'[k] # None /\ pre'[k] \in {"bound", "cancelled"}
         /\ att'[k] = att[k] \/ (att[k] = None /\ att'[k] = pre[k] /\ pre[k] \in {"open", "cancelled"})
<1>1. pre \in [Keys -> {None, "open", "cancelled", "bound"}] /\ att \in [Keys -> AttStates]
  BY TypeParts
<1>2. "open" \in AttStates /\ "cancelled" \in AttStates
  BY DEF AttStates, Sweepable
<1>3. CASE att[k] # None
  BY <1>1, <1>3 DEF BindRow
<1>4. CASE att[k] = None
  <2>1. pre[k] \in {"open", "cancelled"}
    BY <1>1, <1>4 DEF Row
  <2> QED BY <1>1, <1>2, <1>4, <2>1, Distinct DEF BindRow
<1> QED BY <1>3, <1>4

LEMMA BindPreMintInv ==
  ASSUME Hypotheses, IInv, BindPreMint PROVE IInv'
<1> USE DEF Hypotheses
<1>1. flow["mint"].at = "bind" /\ "mint" \in Actors
  BY DEF BindPreMint, At
<1>2. PICK k \in Keys : k = flow["mint"].key
  BY <1>1, MintAlone
<1>3. /\ TypeOK /\ flow["mint"] \in FlowRec /\ ~Legacy /\ LegacyKey \notin Keys /\ k \in Minted
      /\ pre[k] # None /\ KeyOK(k)
  BY <1>1, <1>2, MintAlone, TypeParts, ProcessNames DEF IInv, MintOK
<1>4. /\ BindRow(k)
      /\ UNCHANGED <<order, ledger, alerts, other, disc, tries, claims, pi, events>>
  BY <1>2 DEF BindPreMint
<1>5. /\ pre' \in [Keys -> {None, "open", "cancelled", "bound"}] /\ att' \in [Keys -> AttStates]
      /\ \A j \in Keys \ {k} : pre'[j] = pre[j] /\ att'[j] = att[j]
      /\ att'[k] # None /\ pre'[k] \in {"bound", "cancelled"}
      /\ att'[k] = att[k] \/ (att[k] = None /\ att'[k] = pre[k] /\ pre[k] \in {"open", "cancelled"})
  BY <1>3, <1>4, Binds DEF KeyOK
<1>6. \/ att'[k] # "cancelled" /\ secret' = secret \cup {k} /\ End("mint")
      \/ secret' = secret /\ End("mint")
      \/ /\ secret' = secret /\ k[2] + 1 < Rounds /\ UNCHANGED lock
         /\ Goto("mint", [flow["mint"] EXCEPT !.at = "premint", !.key = <<k[1], k[2] + 1>>])
  BY <1>2 DEF BindPreMint
<1>7. /\ flow' \in [Processes -> FlowRec] /\ \A q \in Processes \ {"mint"} : flow'[q] = flow[q]
      /\ flow'["mint"].at # "idle" => flow'["mint"].at = "premint" /\ flow'["mint"].key \in Minted
      /\ lock' \in Processes \cup {None} /\ (lock = "pay" => lock' = "pay")
  <2>1. CASE End("mint")
    BY <1>3, <2>1, Ends, ProcessNames
  <2>2. CASE /\ k[2] + 1 < Rounds /\ UNCHANGED lock
             /\ Goto("mint", [flow["mint"] EXCEPT !.at = "premint", !.key = <<k[1], k[2] + 1>>])
    <3>1. PICK f : f = [flow["mint"] EXCEPT !.at = "premint", !.key = <<k[1], k[2] + 1>>]
      OBVIOUS
    <3>2. <<k[1], k[2] + 1>> \in Minted
      BY <1>3, <2>2, Constants DEF Minted
    <3>3. <<k[1], k[2] + 1>> \in Keys
      BY <3>2, Constants
    <3>4. f \in FlowRec /\ f.at = "premint" /\ f.key \in Minted
      BY <1>3, <3>1, <3>2, <3>3 DEF FlowRec
    <3>5. flow' = [flow EXCEPT !["mint"] = f]
      BY <2>2, <3>1 DEF Goto
    <3> QED BY <1>3, <2>2, <3>4, <3>5, Goes, ProcessNames, TypeParts
  <2> QED BY <1>6, <2>1, <2>2
<1>8. secret \subseteq secret' /\ secret' \subseteq secret \cup {k} /\ secret' \subseteq Keys
      /\ (k \in secret' => k \in secret \/ att'[k] # "cancelled")
  BY <1>3, <1>6, TypeParts
<1>9. TypeOK'
  BY <1>3, <1>4, <1>5, <1>7, <1>8, TypeParts
<1>10. MintOK'
  BY <1>1, <1>7 DEF MintOK
<1>11. PayOK'
  BY <1>3, <1>4, <1>7, <1>8, PayKept, ProcessNames DEF IInv
<1>12. Snapshots'
  BY <1>3, <1>4, <1>7, SnapshotsKept, ProcessNames DEF IInv
<1>13. Unpaid'
  BY <1>4 DEF IInv, Unpaid
<1>14. ASSUME NEW j \in Keys PROVE Known(j)' => Known(j) \/ (j = k /\ att'[k] # "cancelled")
  BY <1>4, <1>7, <1>8 DEF Known, Readers
<1>15. ASSUME NEW j \in Keys, j # k PROVE KeyOK(j)'
  <2>1. KeyOK(j)
    BY DEF IInv
  <2> QED BY <1>4, <1>5, <1>8, <1>14, <1>15, <2>1, KeyKept
<1>16. KeyOK(k)'
  <2>1. Row(k)'
    BY <1>3, <1>4, <1>5, <1>8, <1>14 DEF KeyOK, Row
  <2>2. LegacyOK(k)'
    BY <1>3 DEF LegacyOK
  <2>3. Released(k)'
    BY <1>3, <1>4, <1>5, <1>14 DEF KeyOK, Released
  <2> QED BY <2>1, <2>2, <2>3 DEF KeyOK
<1> QED BY <1>9, <1>10, <1>11, <1>12, <1>13, <1>15, <1>16 DEF IInv

-----------------------------------------------------------------------------
(* The stale-order job, the cancels and the rest of the application. *)

LEMMA SweepOrphanInv ==
  ASSUME Hypotheses, IInv, NEW k \in Keys, SweepOrphan(k) PROVE IInv'
<1> USE DEF Hypotheses
<1>1. /\ TypeOK /\ KeyOK(k) /\ pre[k] = "open" /\ k # LegacyKey
      /\ UNCHANGED <<order, ledger, other, disc, claims, pi, secret, events, flow, lock>>
  BY Distinct DEF IInv, SweepOrphan, KeyOK, LegacyOK, atStripe
<1>2. order.by # "unpaid" /\ ~Legacy
  BY <1>1, Distinct DEF KeyOK, Released, LegacyOK
<1>3. /\ pre' \in [Keys -> {None, "open", "cancelled", "bound"}] /\ att' \in [Keys -> AttStates]
      /\ \A j \in Keys \ {k} : pre'[j] = pre[j] /\ att'[j] = att[j]
      /\ pre'[k] # None /\ (pre'[k] = "bound" => att'[k] # None)
      /\ att'[k] = att[k] \/ att'[k] = "open"
      /\ tries' \in [Keys -> 0..MaxTries] /\ alerts' \subseteq Keys /\ alerts \subseteq alerts'
  <2>1. CASE pi[k] # None /\ BindRow(k) /\ UNCHANGED <<tries, alerts>>
    BY <1>1, <2>1, Binds, TypeParts, Distinct DEF KeyOK
  <2>2. CASE pre' = [pre EXCEPT ![k] = "cancelled"] /\ UNCHANGED <<att, tries, alerts>>
    BY <1>1, <2>2, TypeParts, Distinct
  <2>3. CASE CountFailure(k) /\ UNCHANGED <<att, pre>>
    BY <1>1, <2>3, FailureCounted, TypeParts, Distinct
  <2> QED BY <2>1, <2>2, <2>3 DEF SweepOrphan
<1>4. TypeOK'
  BY <1>1, <1>3, TypeParts
<1>5. MintOK' /\ PayOK'
  BY <1>1, <1>3, MintKept, PayKept DEF IInv
<1>6. Snapshots' /\ Unpaid'
  BY <1>1 DEF IInv, Snapshots, Unpaid
<1>7. \A j : Known(j)' => Known(j)
  BY <1>1 DEF Known
<1>8. ASSUME NEW j \in Keys, j # k PROVE KeyOK(j)'
  <2>1. KeyOK(j)
    BY DEF IInv
  <2> QED BY <1>1, <1>3, <1>7, <1>8, <2>1, KeyKept
<1>9. KeyOK(k)'
  BY <1>1, <1>2, <1>3, <1>7, Distinct DEF KeyOK, Row, LegacyOK, Released
<1> QED BY <1>4, <1>5, <1>6, <1>8, <1>9 DEF IInv

LEMMA DiscoverInv ==
  ASSUME Hypotheses, IInv, Discover PROVE IInv'
<1> USE DEF Hypotheses
<1>1. /\ TypeOK /\ order.state = "PendingPayment" /\ disc.is # "clean" /\ disc.tries < MaxTries
      /\ UNCHANGED <<order, ledger, alerts, other, pre, tries, claims, pi, secret, events, flow, lock>>
  BY DEF IInv, Discover, atStripe
<1>2. \A k \in Keys : att[k] = None /\ pre[k] = None
  BY DEF Discover, Tracked
<1>3. order.by # "unpaid"
  BY <1>1 DEF IInv, Unpaid
<1>4. \/ disc' = [tries |-> disc.tries + 1, is |-> "hold"] /\ UNCHANGED att
      \/ /\ disc' = [disc EXCEPT !.is = "clean"]
         /\ att' = [k \in Keys |-> IF pi[k] # None THEN "open" ELSE None]
  BY DEF Discover
<1>5. disc \in DiscRec /\ MaxTries \in Nat
  BY <1>1, TypeParts, Constants
<1>6. disc' \in DiscRec
  BY <1>1, <1>4, <1>5 DEF DiscRec
<1>7. att' \in [Keys -> AttStates]
  BY <1>1, <1>4, TypeParts DEF AttStates, Sweepable
<1>8. TypeOK'
  BY <1>1, <1>6, <1>7, TypeParts
<1>9. MintOK' /\ PayOK'
  BY <1>1, MintKept, PayKept DEF IInv
<1>10. Snapshots' /\ Unpaid'
  BY <1>1 DEF IInv, Snapshots, Unpaid
<1>11. ASSUME NEW k \in Keys PROVE KeyOK(k)'
  <2>1. KeyOK(k) /\ att[k] = None /\ pre[k] = None /\ (Known(k)' => Known(k))
    BY <1>1, <1>2 DEF IInv, Known
  <2>2. CASE disc' = [tries |-> disc.tries + 1, is |-> "hold"] /\ UNCHANGED att
    <3>1. disc'.is # "clean" /\ att'[k] = None
      BY <2>1, <2>2
    <3> QED BY <1>1, <1>3, <2>1, <3>1, Distinct DEF KeyOK, Row, LegacyOK, Released
  <2>3. CASE att' = [j \in Keys |-> IF pi[j] # None THEN "open" ELSE None]
    <3>1. att'[k] = IF pi[k] # None THEN "open" ELSE None
      BY <2>3
    <3> QED BY <1>1, <1>3, <2>1, <3>1, Distinct DEF KeyOK, Row, LegacyOK, Released
  <2> QED BY <1>4, <2>2, <2>3
<1> QED BY <1>8, <1>9, <1>10, <1>11 DEF IInv

\* While the order waits for payment and nothing is confirmable or in flight, every
\* intent somebody knows is dead at Stripe, but for one nobody ever tracked.
LEMMA AllDead ==
  ASSUME Hypotheses, IInv, order.state = "PendingPayment", ~HasUnresolvedPayment, ~HasConfirmableIntent,
         NEW k \in Keys
  PROVE  /\ pre[k] # "open" /\ att[k] \in {None, "cancelled"}
         /\ pi[k] = "canceled" \/ ~Known(k) \/ (att[k] = None /\ k = LegacyKey /\ disc.is # "clean")
<1>1. att[k] \in AttStates /\ Row(k)
  BY TypeParts DEF IInv, KeyOK
<1>2. att[k] \notin Sweepable /\ att[k] \notin {"processing", "unknown"} /\ pre[k] # "open"
  BY DEF HasUnresolvedPayment, HasConfirmableIntent
<1>3. att[k] # "settled"
  BY <1>1 DEF Row
<1> QED BY <1>1, <1>2, <1>3 DEF AttStates, Row

\* A change of the order alone.
LEMMA OrderStep ==
  ASSUME Hypotheses, IInv, order' \in OrderRec, other' \in Amounts \cup {0},
         UNCHANGED <<disc, pre, att, tries, ledger, alerts, claims, pi, secret, events, flow, lock>>,
         order'.state = "PendingPayment" => order.state = "PendingPayment" /\ other' = other,
         order'.by = "unpaid" => order'.state = "Cancelled", PayOK',
         \A k \in Keys : Released(k)'
  PROVE  IInv'
<1>1. TypeOK'
  BY TypeParts DEF IInv
<1>2. Unpaid'
  BY DEF IInv, Unpaid
<1>3. MintOK' /\ Snapshots'
  BY MintKept DEF IInv, Snapshots, Hypotheses
<1>4. ASSUME NEW k \in Keys PROVE KeyOK(k)'
  <2>1. (Known(k)' <=> Known(k)) /\ KeyOK(k)
    BY DEF Known, IInv
  <2> QED BY <2>1 DEF KeyOK, Row, LegacyOK
<1> QED BY <1>1, <1>2, <1>3, <1>4 DEF IInv

LEMMA SameRelease ==
  ASSUME IInv, order'.by = "unpaid" => order.by = "unpaid",
         UNCHANGED <<pre, att, pi, secret, events, flow>>
  PROVE  \A k \in Keys : Released(k)'
<1> SUFFICES ASSUME NEW k \in Keys PROVE Released(k)'
  OBVIOUS
<1>1. (Known(k)' <=> Known(k)) /\ Released(k)
  BY DEF Known, IInv, KeyOK
<1> QED BY <1>1 DEF Released

LEMMA CancelUnpaidInv ==
  ASSUME Hypotheses, IInv, CancelUnpaid PROVE IInv'
<1> USE DEF Hypotheses
<1>1. /\ order.state = "PendingPayment" /\ ~HasUnresolvedPayment /\ ~HasConfirmableIntent
      /\ Tracked \/ disc.is = "clean"
  BY DEF CancelUnpaid, UnpaidCancellable
<1>2. /\ order' = [order EXCEPT !.state = "Cancelled", !.by = "unpaid"]
      /\ UNCHANGED <<att, ledger, alerts, other, disc, pre, tries, claims, pi, secret, events, flow, lock>>
  BY DEF CancelUnpaid, atStripe
<1>3. order' \in OrderRec /\ order'.state = "Cancelled" /\ other' \in Amounts \cup {0}
  BY <1>2, TypeParts DEF IInv, OrderRec
<1>4. PayOK'
  BY <1>2, <1>3 DEF IInv, PayOK
<1>5. ASSUME NEW k \in Keys PROVE Released(k)'
  <2>1. /\ pre[k] # "open" /\ att[k] \in {None, "cancelled"}
        /\ pi[k] = "canceled" \/ ~Known(k) \/ (att[k] = None /\ k = LegacyKey /\ disc.is # "clean")
    BY <1>1, AllDead
  <2>2. ~(att[k] = None /\ k = LegacyKey /\ disc.is # "clean")
    <3> SUFFICES ASSUME att[k] = None, k = LegacyKey, disc.is # "clean" PROVE FALSE
      OBVIOUS
    <3>1. Legacy
      BY Constants
    <3>2. PICK j \in Keys : att[j] # None \/ pre[j] # None
      BY <1>1 DEF Tracked
    <3>3. LegacyOK(j) /\ LegacyOK(k)
      BY DEF IInv, KeyOK
    <3> QED BY <3>1, <3>2, <3>3 DEF LegacyOK
  <2>3. Known(k)' <=> Known(k)
    BY <1>2 DEF Known
  <2> QED BY <1>2, <2>1, <2>2, <2>3 DEF Released
<1> QED BY <1>2, <1>3, <1>4, <1>5, OrderStep

LEMMA AdminCancelInv ==
  ASSUME Hypotheses, IInv, AdminCancel PROVE IInv'
<1>1. /\ order' = [order EXCEPT !.state = "Cancelled", !.by = "admin"]
      /\ UNCHANGED <<att, ledger, alerts, other, disc, pre, tries, claims, pi, secret, events, flow, lock>>
  BY DEF AdminCancel, atStripe
<1>2. order' \in OrderRec /\ order'.state = "Cancelled" /\ order'.by = "admin" /\ other' \in Amounts \cup {0}
  BY <1>1, TypeParts DEF IInv, OrderRec
<1>3. PayOK'
  BY <1>1, <1>2 DEF IInv, PayOK
<1>4. \A k \in Keys : Released(k)'
  BY <1>1, <1>2, SameRelease
<1> QED BY <1>1, <1>2, <1>3, <1>4, OrderStep

LEMMA OtherCaptureInv ==
  ASSUME Hypotheses, IInv, OtherCapture PROVE IInv'
<1>1. /\ order.state = "PendingPayment" /\ other' = AmountDue
      /\ order' = [order EXCEPT !.state = "Paid"]
      /\ UNCHANGED <<att, ledger, alerts, disc, pre, tries, claims, pi, secret, events, flow, lock>>
  BY DEF OtherCapture, atStripe
<1>2. other' \in Amounts
  BY <1>1, DueWhenUnpaid DEF IInv, Hypotheses
<1>3. order' \in OrderRec /\ order'.state = "Paid" /\ order'.by = order.by
  BY <1>1, TypeParts DEF IInv, OrderRec
<1>4. order.by # "unpaid"
  BY <1>1 DEF IInv, Unpaid
<1>5. PayOK'
  BY <1>1, <1>3 DEF IInv, PayOK
<1>6. \A k \in Keys : Released(k)'
  BY <1>1, <1>3, SameRelease
<1> QED BY <1>1, <1>2, <1>3, <1>4, <1>5, <1>6, OrderStep

LEMMA AgeInv ==
  ASSUME Hypotheses, IInv, Age PROVE IInv'
<1>1. /\ order' = [order EXCEPT !.old = TRUE]
      /\ UNCHANGED <<att, ledger, alerts, other, disc, pre, tries, claims, pi, secret, events, flow, lock>>
  BY DEF Age, atStripe
<1>2. /\ order' \in OrderRec /\ order'.state = order.state /\ order'.by = order.by
      /\ order'.total = order.total /\ other' \in Amounts \cup {0}
  BY <1>1, TypeParts DEF IInv, OrderRec
<1>3. PayOK'
  BY <1>1, <1>2 DEF IInv, PayOK
<1>4. \A k \in Keys : Released(k)'
  BY <1>1, <1>2, SameRelease
<1>5. order'.by = "unpaid" => order'.state = "Cancelled"
  BY <1>2 DEF IInv, Unpaid
<1> QED BY <1>1, <1>2, <1>3, <1>4, <1>5, OrderStep

LEMMA EditTotalInv ==
  ASSUME Hypotheses, IInv, EditTotal PROVE IInv'
<1> USE DEF Hypotheses
<1>1. /\ Edits /\ lock = None /\ order.state = "PendingPayment"
      /\ ~HasUnresolvedPayment /\ ~HasConfirmableIntent
      /\ UNCHANGED <<att, ledger, alerts, other, disc, pre, tries, claims, pi, secret, events, flow, lock>>
  BY DEF EditTotal, atStripe
<1>2. PICK t \in Amounts : order' = [order EXCEPT !.total = t]
  BY DEF EditTotal
<1>3. /\ order' \in OrderRec /\ order'.state = order.state /\ order'.by = order.by
      /\ other' \in Amounts \cup {0}
  BY <1>1, <1>2, TypeParts DEF IInv, OrderRec
<1>4. \A k \in Keys : Released(k)'
  BY <1>1, <1>3, SameRelease
<1>5. order'.by = "unpaid" => order'.state = "Cancelled"
  BY <1>3 DEF IInv, Unpaid
<1>6. PayOK'
  <2> SUFFICES ASSUME flow["pay"].at # "idle"
               PROVE  pi[flow["pay"].key] = "canceled"
    BY <1>1, <1>3 DEF IInv, PayOK
  <2>1. PICK k \in Keys : k = flow["pay"].key /\ k \in secret
    BY TypeParts DEF IInv, PayOK
  <2>2. Known(k)
    BY <2>1 DEF Known
  <2>3. pi[k] = "canceled" \/ k = LegacyKey
    BY <1>1, <2>2, AllDead
  <2>4. k # LegacyKey
    <3> SUFFICES ASSUME k = LegacyKey PROVE FALSE
      OBVIOUS
    <3>1. Legacy
      BY Constants
    <3>2. ~LockDrops
      BY <1>1, <3>1 DEF LegacyAssumption
    <3> QED BY <1>1, <3>2, Distinct, ProcessNames DEF IInv, PayOK
  <2> QED BY <2>1, <2>3, <2>4
<1> QED BY <1>1, <1>3, <1>4, <1>5, <1>6, OrderStep

-----------------------------------------------------------------------------
(* The theorems. *)

LEMMA Inductive ==
  ASSUME Hypotheses, IInv, [Next]_vars PROVE IInv'
<1>1. CASE Requests
  BY <1>1, PrepareMintInv, OpenPreMintInv, CreatePaymentIntentInv, BindPreMintInv, PreparePayInv,
     VerifyIntentInv, ApplyPayInv DEF Requests
<1>2. CASE \E k \in Keys : \/ Confirm(k) \/ Decide(k) \/ Retrieve(k) \/ SweepOrphan(k)
                           \/ RetrieveForCancel("retire", k)
  BY <1>2, ConfirmInv, DecideInv, RetrieveInv, SweepOrphanInv, RetrieveForCancelInv
<1>3. CASE \E e \in events : ProcessEvent(e)
  BY <1>3, ProcessEventInv
<1>4. CASE ApplyPull \/ Sweeps \/ SweepFails
  BY <1>4, ApplyPullInv, SweepFailsInv, RetrieveForCancelInv, ApplySeenInv, CancelAtStripeInv,
     ApplyCancelledInv DEF Sweeps
<1>5. CASE ApplySeen("retire") \/ CancelAtStripe("retire") \/ ApplyCancelled("retire")
  BY <1>5, ApplySeenInv, CancelAtStripeInv, ApplyCancelledInv
<1>6. CASE Discover \/ ReleaseStale \/ ReopenCart \/ AdminCancel \/ OtherCapture \/ EditTotal \/ Age
  BY <1>6, DiscoverInv, CancelUnpaidInv, AdminCancelInv, OtherCaptureInv, EditTotalInv, AgeInv
  DEF ReleaseStale, ReopenCart
<1>7. CASE (\E p \in Processes : Die(p)) \/ DropLock
  BY <1>7, DieInv, DropLockInv
<1>8. CASE UNCHANGED vars
  <2>1. UNCHANGED <<order, other, disc, pre, att, tries, ledger, alerts, claims, pi, secret, events, flow, lock>>
    BY <1>8 DEF vars
  <2>2. TypeOK' /\ MintOK' /\ PayOK'
    BY <2>1, TypeParts DEF IInv, MintOK, PayOK
  <2>3. \A q \in Processes : flow'[q] = flow[q]
    BY <2>1
  <2> QED BY <2>1, <2>2, <2>3, CalmStep, ProcessNames DEF Hypotheses
<1> QED BY <1>1, <1>2, <1>3, <1>4, <1>5, <1>6, <1>7, <1>8 DEF Next

\* Every step of a mint, /pay, event, pull, sweep, discovery, retirement, release,
\* cancel or edit, and every crash and lost lock, keeps what the rows tell of Stripe.
THEOREM Invariance == ASSUME Hypotheses PROVE Spec => []IInv
<1>1. Init => IInv
  BY InitInv
<1>2. IInv /\ [Next]_vars => IInv'
  BY Inductive
<1> QED BY <1>1, <1>2, PTL DEF Spec

\* The sweeper and the cart reopen never cancel an order while an intent of it that
\* the shopper can still confirm, or that took money, is left at Stripe
\* (cancel-unpaid.ts, release-stale-allocations.ts, cart/reopen.ts).
THEOREM ReleasedOrdersAreSafe ==
  ASSUME BoundsAssumption, LegacyAssumption PROVE Spec => []NoMoneyAfterRelease
<1>1. IInv => NoMoneyAfterRelease
  <2> SUFFICES ASSUME IInv, order.by = "unpaid", NEW k \in secret PROVE pi[k] = "canceled"
    BY DEF NoMoneyAfterRelease
  <2>1. k \in Keys /\ Known(k)
    BY TypeParts DEF IInv, Known
  <2> QED BY <2>1 DEF IInv, KeyOK, Released
<1>2. Spec => []IInv
  BY Invariance DEF Hypotheses
<1> QED BY <1>1, <1>2, PTL

\* A capture that does not match the amount due is put before an operator
\* (applyStripeIntentLocked, D3).
THEOREM MismatchesAreAlerted ==
  ASSUME BoundsAssumption, LegacyAssumption PROVE Spec => [](TypeOK /\ MismatchAlerted)
<1>1. IInv => TypeOK /\ MismatchAlerted
  BY DEF IInv, KeyOK, Row, MismatchAlerted
<1>2. Spec => []IInv
  BY Invariance DEF Hypotheses
<1> QED BY <1>1, <1>2, PTL

LEMMA ApplyKeeps ==
  ASSUME TypeOK, NEW k \in Keys, NEW s, Apply(k, s) PROVE SettledStays
<1>1. att \in [Keys -> AttStates] /\ ledger \in [Keys -> LedgerStates]
  BY TypeParts
<1>2. ASSUME NEW j \in Keys, att[j] = "settled" PROVE att'[j] = "settled"
  <2>1. att' = att \/ \E a : SetAttempt(k, a)
    <3>1. CASE s = "succeeded"
      BY <3>1 DEF Apply, ApplySucceeded, ApplyMismatch, ApplyDuplicate
    <3>2. CASE s # "succeeded"
      BY <3>2 DEF Apply, ApplyOther
    <3> QED BY <3>1, <3>2
  <2> QED BY <1>1, <1>2, <2>1 DEF SetAttempt
<1>3. ASSUME NEW j \in Keys, ledger[j] \in Recorded PROVE ledger'[j] = ledger[j]
  <2>1. \/ ledger' = ledger
        \/ ledger[k] \notin Recorded /\ \E x : ledger' = [ledger EXCEPT ![k] = x]
    <3>1. CASE s = "succeeded"
      BY <3>1, Distinct DEF Apply, ApplySucceeded, ApplyMismatch, ApplyDuplicate, Capture
    <3>2. CASE s # "succeeded"
      BY <3>2, Distinct DEF Apply, ApplyOther, Recorded
    <3> QED BY <3>1, <3>2
  <2> QED BY <1>1, <1>3, <2>1
<1> QED BY <1>2, <1>3 DEF SettledStays

LEMMA StepKeeps ==
  ASSUME Hypotheses, IInv, [Next]_vars PROVE SettledStays
<1>1. TypeOK /\ att \in [Keys -> AttStates] /\ ledger \in [Keys -> LedgerStates]
  BY TypeParts DEF IInv
<1>2. CASE UNCHANGED <<att, ledger>>
  BY <1>2 DEF SettledStays
<1>3. ASSUME NEW k \in Keys, BindRow(k), UNCHANGED ledger PROVE SettledStays
  <2>1. att' = att \/ (att[k] = None /\ att' = [att EXCEPT ![k] = pre[k]])
    BY <1>3 DEF BindRow
  <2> QED BY <1>1, <1>3, <2>1, Distinct DEF SettledStays
<1>4. CASE BindPreMint
  <2>1. flow["mint"].key \in Keys
    BY <1>4, MintAlone DEF BindPreMint, At
  <2> QED BY <1>3, <1>4, <2>1 DEF BindPreMint
<1>5. ASSUME NEW k \in Keys, SweepOrphan(k) PROVE SettledStays
  BY <1>2, <1>3, <1>5 DEF SweepOrphan
<1>6. CASE ApplyPay
  <2>1. PICK k \in Keys : k = flow["pay"].key
    BY <1>6, ProcessNames DEF ApplyPay, At, IInv, Snapshots
  <2>2. UNCHANGED att
    BY <1>6 DEF ApplyPay
  <2>3. \/ ledger' = ledger
        \/ ledger[k] \notin Recorded /\ \E x : ledger' = [ledger EXCEPT ![k] = x]
    BY <1>6, <2>1 DEF ApplyPay, Capture
  <2> QED BY <1>1, <2>2, <2>3 DEF SettledStays
<1>7. ASSUME NEW e \in events, ProcessEvent(e) PROVE SettledStays
  <2>1. e[1] \in Keys
    BY TypeParts DEF IInv
  <2>2. Apply(e[1], e[2])
    BY <1>7 DEF ProcessEvent
  <2> QED BY <1>1, <2>1, <2>2, ApplyKeeps
<1>8. ASSUME NEW p \in Readers, flow[p].at # "idle", Apply(flow[p].key, flow[p].seen) PROVE SettledStays
  <2>1. flow[p].key \in Keys
    BY <1>8 DEF IInv, Snapshots
  <2> QED BY <1>1, <1>8, <2>1, ApplyKeeps
<1>9. CASE ApplyPull
  BY <1>8, <1>9, ProcessNames DEF ApplyPull, At
<1>10. ASSUME NEW p \in {"sweep", "retire"}, ApplySeen(p) \/ ApplyCancelled(p) PROVE SettledStays
  BY <1>8, <1>10, ProcessNames DEF ApplySeen, ApplyCancelled, At
<1>11. CASE Discover
  <2>1. \A k \in Keys : att[k] = None
    BY <1>11 DEF Discover, Tracked
  <2> QED BY <1>11, <2>1, Distinct DEF Discover, SettledStays
<1>12. CASE PrepareMint \/ OpenPreMint \/ CreatePaymentIntent \/ (\E k \in Keys : PreparePay(k)) \/ VerifyIntent
  BY <1>2, <1>12 DEF PrepareMint, OpenPreMint, CreatePaymentIntent, PreparePay, VerifyIntent, books
<1>13. CASE \E k \in Keys : Confirm(k) \/ Decide(k) \/ Retrieve(k)
  BY <1>2, <1>13 DEF Confirm, Decide, Becomes, Retrieve, books
<1>14. CASE \E p \in {"sweep", "retire"} : CancelAtStripe(p) \/ \E k \in Keys : RetrieveForCancel(p, k)
  BY <1>2, <1>14 DEF CancelAtStripe, RetrieveForCancel, books
<1>15. CASE SweepFails \/ ReleaseStale \/ ReopenCart \/ AdminCancel \/ OtherCapture \/ EditTotal \/ Age
  BY <1>2, <1>15 DEF SweepFails, ReleaseStale, ReopenCart, CancelUnpaid, AdminCancel, OtherCapture, EditTotal, Age
<1>16. CASE (\E p \in Processes : Die(p)) \/ DropLock
  BY <1>2, <1>16 DEF Die, DropLock, books
<1>17. CASE UNCHANGED vars
  BY <1>2, <1>17 DEF vars
<1> QED BY <1>4, <1>5, <1>6, <1>7, <1>9, <1>10, <1>11, <1>12, <1>13, <1>14, <1>15, <1>16, <1>17
        DEF Next, Requests, Sweeps

\* Money the ledger has recorded is never unrecorded, and its attempt never
\* reopens, whatever events, pulls and resolutions arrive late (setAttempt).
THEOREM SettlementStays ==
  ASSUME BoundsAssumption, LegacyAssumption PROVE Spec => [][SettledStays]_vars
<1>1. IInv /\ [Next]_vars => [SettledStays]_vars
  BY StepKeeps DEF Hypotheses
<1>2. Spec => []IInv
  BY Invariance DEF Hypotheses
<1> QED BY <1>1, <1>2, PTL DEF Spec
====
