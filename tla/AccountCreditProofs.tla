------------------------ MODULE AccountCreditProofs ------------------------
(***************************************************************************)
(* Machine-checked proofs about the account-credit ledger, for any finite  *)
(* sets of orders and refunds, any number of units, cents, operation keys  *)
(* and failed postings.                                                    *)
(*                                                                         *)
(* Holds.  An order that is not redeemed holds exactly its allocation from *)
(* checkout to settlement (HoldInv), restorations only add to the balance  *)
(* (PostStep), and a hold is at most what was available (ReserveStep).     *)
(*                                                                         *)
(* Units.  That a unit is given back once is inductive only with what the  *)
(* refunds still to settle will take: those with a frozen identity froze   *)
(* different units, and none of these is among the lowest free units that  *)
(* the refunds without one will take when they settle (FrozenAt).  A       *)
(* posting from below brings the others down by as many places as its      *)
(* quantity leaves the reservation (FirstTakeLow); a posting from above    *)
(* moves nothing (FirstTakeHigh).  All of this ends for an order when a    *)
(* refund that had failed settles after all (Late): its units may be gone  *)
(* by then, and the ledger refuses it (Restorable).  While an accepted     *)
(* edit waits, its order is quiet (EditAt).                                *)
(*                                                                         *)
(* A sum is computed as the number of its cents (SumIsCount, by a least    *)
(* counterexample), so that a write moves it by what the row changes.      *)
(***************************************************************************)
EXTENDS AccountCredit, FiniteSetTheorems, WellFoundedInduction, TLAPS

CentsOf == UNION {[D -> Nat] : D \in SUBSET Units}
RowKeys == ({"refund"} \X Refunds) \cup ({"manual"} \X Keys) \cup ({"edit return", "edit correct"} \X Nat)
RowRec == [key : RowKeys, cents : CentsOf, isReturn : BOOLEAN]
RefundRec == [state : {"none", "Pending", "Settled", "Failed"}, order : Orders \cup {NoRefund.order},
              frozen : BOOLEAN, cents : CentsOf, qty : Nat,
              restoration : {"none", "posted", "not_applicable", "reconciliation_required"},
              late : BOOLEAN]
EditRec == [phase : {"none", "awaiting", "activated"}, cap : [Units -> Nat], keep : SUBSET Units,
            prefix : ((SUBSET RowRec) \X (SUBSET Refunds)) \cup {{}}, stuck : BOOLEAN,
            edited : BOOLEAN]

Types ==
  /\ balance \in Nat /\ disabled \in BOOLEAN /\ used \subseteq Keys /\ failures \in 0 .. Failures
  /\ state \in [Orders -> {"AddingItems", "PendingPayment", "Paid", "Cancelled"}]
  /\ hold \in [Orders -> Nat] /\ alloc \in [Orders -> [Units -> Nat]]
  /\ redeemed \in [Orders -> BOOLEAN]
  /\ rows \in [Orders -> SUBSET RowRec] /\ \A o \in Orders : IsFiniteSet(rows[o])
  /\ refund \in [Refunds -> RefundRec]
  /\ edit \in [Orders -> EditRec]

\* The hold of an order, by its state; only a redeemed one has restorations.
HoldInv ==
  \A o \in Orders :
    /\ state[o] \in {"AddingItems", "Cancelled"} => hold[o] = 0 /\ ~redeemed[o]
    /\ state[o] = "PendingPayment" => ~redeemed[o]
    /\ state[o] \in {"PendingPayment", "Paid"} /\ ~redeemed[o] => hold[o] = SumOver(alloc[o], Units)
    /\ redeemed[o] => hold[o] = 0
    /\ ~redeemed[o] => rows[o] = {}

\* The restorations of one order, as a set of rows beside its allocation.
RestoredIn(R, u) == SumOver([row \in R |-> CentsOn(row, u)], R)
Left(R, a, u) == a[u] - RestoredIn(R, u)
ReturnsOf(R, u) == {w \in R : w.isReturn /\ u \in DOMAIN w.cents}
Returned(R) == UNION {DOMAIN row.cents : row \in {w \in R : w.isReturn}}

\* What is left on a unit is never negative, and nothing once it was returned;
\* one row returns it.
Sound(R, a) ==
  /\ R \in SUBSET RowRec /\ IsFiniteSet(R)
  /\ \A u \in Units :
       /\ Left(R, a, u) \in Nat
       /\ u \in Returned(R) => Left(R, a, u) = 0
       /\ \A v, w \in ReturnsOf(R, u) : v = w
UnitInv == \A o \in Orders : Sound(rows[o], alloc[o])

\* A refund row belongs to a paid order; its restoration follows its state.
RefundAt(r) ==
  /\ refund[r].state = "none" => ~refund[r].frozen
  /\ refund[r].state # "none" => refund[r].order \in Orders /\ state[refund[r].order] = "Paid"
  /\ refund[r].frozen => redeemed[refund[r].order]
  /\ refund[r].state # "Settled" <=> refund[r].restoration = "none"
  /\ refund[r].late => refund[r].state = "Settled"
  /\ refund[r].restoration = "not_applicable" => ~refund[r].frozen
  /\ \A o \in Orders : Posted(o, r) <=> refund[r].order = o /\ refund[r].restoration = "posted"
  /\ refund[r].frozen /\ refund[r].restoration = "posted" =>
       DOMAIN refund[r].cents \subseteq returnedIndexes(refund[r].order)
RefundInv == \A r \in Refunds : RefundAt(r)

\* A refund that had failed settled on this order.
Late(o) == \E x \in RefundsOf(o) : refund[x].late

\* A refund that froze its units and has not posted them.
Waiting(r) == refund[r].frozen /\ (refund[r].state = "Pending" \/ refund[r].restoration = "reconciliation_required")

\* Refunds that may settle froze different units, none of which a refund
\* without frozen identity will take.
FrozenAt(o) ==
  /\ \A r, x \in RefundsOf(o) : r # x /\ refund[r].frozen /\ refund[x].frozen =>
       DOMAIN refund[r].cents \cap DOMAIN refund[x].cents = {}
  /\ FrozenUnits(o) \cap First(Units \ returnedIndexes(o), UnmappedQty(o)) = {}
  /\ \A r \in RefundsOf(o) : Waiting(r) => Restorable(r, o)
FrozenInv == \A o \in Orders : ~Late(o) => FrozenAt(o)

\* While an accepted edit waits, the refunds it was accepted with are settled,
\* and its prefix is the ledger's unless one of them can still post.
Quiet(o) == \A r \in RefundsOf(o) : refund[r].state = "Settled" /\ (refund[r].frozen => refund[r].restoration = "posted")
Fixed(o) == \A r \in RefundsOf(o) : ~refund[r].late /\ refund[r].frozen
EditAt(o) == (~Late(o) => Quiet(o)) /\ (Fixed(o) => edit[o].prefix = PrefixDigest(o))
EditInv == \A o \in Orders : PendingEdit(o) => EditAt(o)

\* Only a redeemed order is edited.
EditsPaid == \A o \in Orders : PendingEdit(o) => redeemed[o]

CInv == Types /\ HoldsCovered /\ HoldInv /\ UnitInv /\ RefundInv /\ FrozenInv /\ EditInv

-----------------------------------------------------------------------------
(* Sums. *)

\* The units of the rows in S, numbered.
Cells(f, S) == {c \in S \X Nat : 1 <= c[2] /\ c[2] <= f[c[1]]}
Count(f, S) == Cardinality(Cells(f, S))

LEMMA CellsOne ==
  ASSUME NEW D, NEW f \in [D -> Nat], NEW x \in D
  PROVE  IsFiniteSet(Cells(f, {x})) /\ Count(f, {x}) = f[x]
<1> DEFINE n == f[x]
           g == [i \in 1 .. n |-> <<x, i>>]
<1>1. n \in Nat
  OBVIOUS
<1> HIDE DEF n
<1>2. \A i \in 1 .. n : g[i] \in Cells(f, {x})
  BY <1>1 DEF Cells, n
<1>3. \A c \in Cells(f, {x}) : \E i \in 1 .. n : g[i] = c
  <2> SUFFICES ASSUME NEW c \in Cells(f, {x}) PROVE \E i \in 1 .. n : g[i] = c
    OBVIOUS
  <2>1. c \in {x} \X Nat /\ 1 <= c[2] /\ c[2] <= n
    BY DEF Cells, n
  <2>2. c = <<x, c[2]>> /\ c[2] \in 1 .. n
    BY <1>1, <2>1
  <2> QED BY <2>2
<1>4. \A i, j \in 1 .. n : g[i] = g[j] => i = j
  OBVIOUS
<1>5. g \in Bijection(1 .. n, Cells(f, {x}))
  BY <1>2, <1>3, <1>4 DEF Bijection, Injection, Surjection, IsInjective
<1>6. ExistsBijection(1 .. n, Cells(f, {x}))
  BY <1>5 DEF ExistsBijection
<1>7. g \in Surjection(1 .. n, Cells(f, {x})) /\ IsFiniteSet(1 .. n)
  BY <1>1, <1>5, FS_Interval DEF Bijection
<1>8. IsFiniteSet(Cells(f, {x}))
  BY <1>7, FS_Surjection
<1>9. Cardinality(Cells(f, {x})) = n
  BY <1>1, <1>6, FS_CountingElements
<1> QED BY <1>8, <1>9 DEF Count, n

LEMMA CellsFinite ==
  ASSUME NEW D, NEW f \in [D -> Nat], NEW S \in SUBSET D, IsFiniteSet(S)
  PROVE  IsFiniteSet(Cells(f, S)) /\ Count(f, S) \in Nat
<1> DEFINE part == [x \in S |-> Cells(f, {x})]
           parts == {part[x] : x \in S}
<1>1. part \in Surjection(S, parts)
  BY DEF Surjection
<1>2. IsFiniteSet(parts)
  BY <1>1, FS_Surjection
<1>3. \A p \in parts : IsFiniteSet(p)
  <2>1. \A x \in S : IsFiniteSet(Cells(f, {x}))
    BY CellsOne
  <2> QED BY <2>1
<1>4. IsFiniteSet(UNION parts)
  <2> HIDE DEF parts
  <2> QED BY <1>2, <1>3, FS_UNION
<1>5. Cells(f, S) \subseteq UNION parts
  <2> SUFFICES ASSUME NEW c \in Cells(f, S) PROVE c \in UNION parts
    OBVIOUS
  <2>1. c[1] \in S /\ c \in Cells(f, {c[1]})
    BY DEF Cells
  <2> QED BY <2>1
<1>6. IsFiniteSet(Cells(f, S))
  BY <1>4, <1>5, FS_Subset
<1> QED BY <1>6, FS_CardinalityType DEF Count

LEMMA CountAdd ==
  ASSUME NEW D, NEW f \in [D -> Nat], NEW S \in SUBSET D, IsFiniteSet(S), NEW x \in S
  PROVE  Count(f, S) = f[x] + Count(f, S \ {x})
<1>1. PICK R : R = S \ {x}
  OBVIOUS
<1>2. R \in SUBSET D /\ IsFiniteSet(R) /\ IsFiniteSet({x}) /\ {x} \in SUBSET D
  BY <1>1, FS_Subset
<1>3. Cells(f, S) = Cells(f, {x}) \cup Cells(f, R) /\ Cells(f, {x}) \cap Cells(f, R) = {}
  BY <1>1 DEF Cells
<1>4. /\ IsFiniteSet(Cells(f, {x})) /\ IsFiniteSet(Cells(f, R))
      /\ Count(f, {x}) = f[x] /\ Count(f, R) \in Nat
  BY <1>2, CellsFinite, CellsOne
<1>5. Cardinality(Cells(f, {x}) \cup Cells(f, R)) =
        Cardinality(Cells(f, {x})) + Cardinality(Cells(f, R)) - Cardinality({})
  BY <1>3, <1>4, FS_Union
<1>6. Cardinality({}) = 0 /\ f[x] \in Nat
  BY FS_EmptySet
<1>7. Count(f, S) = f[x] + Count(f, R) - 0
  BY <1>3, <1>4, <1>5, <1>6 DEF Count
<1> QED BY <1>1, <1>4, <1>6, <1>7

\* SumOver, a fold over a set in some order, is the count of its units.
LEMMA SumIsCount ==
  ASSUME NEW D, NEW f \in [D -> Nat], NEW S \in SUBSET D, IsFiniteSet(S)
  PROVE  SumOver(f, S) = Count(f, S)
<1> DEFINE Pick(s) == CHOOSE x \in s : TRUE
           iter[s \in SUBSET S] == IF s = {} THEN 0
              ELSE LET x == CHOOSE x \in s : TRUE IN f[x] + iter[s \ {x}]
           Def(g) == g = [s \in SUBSET S |-> IF s = {} THEN 0
              ELSE LET x == CHOOSE x \in s : TRUE IN f[x] + g[s \ {x}]]
           count == [s \in SUBSET S |-> Count(f, s)]
<1>1. Count(f, {}) = 0
  <2>1. Cells(f, {}) = {}
    BY DEF Cells
  <2> QED BY <2>1, FS_EmptySet DEF Count
<1>2. ASSUME NEW s \in SUBSET S, s # {}
      PROVE  Pick(s) \in s /\ Count(f, s) = f[Pick(s)] + Count(f, s \ {Pick(s)})
  <2>1. PICK x : x = Pick(s)
    OBVIOUS
  <2>2. x \in s
    BY <2>1, <1>2
  <2>3. IsFiniteSet(s) /\ s \in SUBSET D
    BY FS_Subset
  <2>4. Count(f, s) = f[x] + Count(f, s \ {x})
    BY <2>2, <2>3, CountAdd
  <2> QED BY <2>1, <2>2, <2>4
<1>3. Def(count)
  <2>1. ASSUME NEW s \in SUBSET S, s # {}
        PROVE  count[s] = f[Pick(s)] + count[s \ {Pick(s)}]
    BY <1>2, <2>1
  <2>2. count[{}] = 0
    BY <1>1
  <2>3. count = [s \in SUBSET S |-> count[s]]
    OBVIOUS
  <2> HIDE DEF count
  <2> QED BY <2>1, <2>2, <2>3
<1>4. iter = CHOOSE g : Def(g)
  OBVIOUS
<1>5. Def(iter)
  <2> HIDE DEF Def, iter
  <2> QED BY <1>3, <1>4
<1>6. SumOver(f, S) = iter[S]
  BY DEF SumOver, MapThenSumSet, MapThenFoldSet
<1> HIDE DEF iter
<1>7. /\ iter[{}] = 0
      /\ \A s \in SUBSET S : s # {} => iter[s] = f[Pick(s)] + iter[s \ {Pick(s)}]
  BY <1>5
<1> DEFINE Bad == {s \in SUBSET S : iter[s] # Count(f, s)}
<1>8. Bad = {}
  <2> SUFFICES ASSUME Bad # {} PROVE FALSE
    OBVIOUS
  <2>1. IsWellFoundedOn(StrictSubsetOrdering(S), SUBSET S)
    <3>1. FiniteSubsetsOf(S) = SUBSET S
      BY FS_FiniteSubsetsOfFinite
    <3> QED BY <3>1, FS_StrictSubsetOrderingWellFounded
  <2>2. \E s \in Bad : \A t \in Bad : ~(<<t, s>> \in StrictSubsetOrdering(S))
    BY <2>1, WFMin
  <2>3. PICK s \in Bad : \A t \in Bad : ~(<<t, s>> \in StrictSubsetOrdering(S))
    BY <2>2
  <2>4. s # {}
    BY <1>1, <1>7
  <2>5. s \ {Pick(s)} \notin Bad
    <3>1. Pick(s) \in s
      BY <1>2, <2>4
    <3>2. <<s \ {Pick(s)}, s>> \in StrictSubsetOrdering(S)
      BY <3>1 DEF StrictSubsetOrdering
    <3> QED BY <2>3, <3>2
  <2>6. iter[s \ {Pick(s)}] = Count(f, s \ {Pick(s)})
    BY <2>5
  <2>7. s \in SUBSET S /\ iter[s] # Count(f, s)
    OBVIOUS
  <2>8. Count(f, s) = f[Pick(s)] + Count(f, s \ {Pick(s)})
    BY <1>2, <2>4, <2>7
  <2>9. iter[s] = f[Pick(s)] + iter[s \ {Pick(s)}]
    BY <1>7, <2>4, <2>7
  <2> QED BY <2>6, <2>7, <2>8, <2>9
<1> QED BY <1>6, <1>8

LEMMA SumType ==
  ASSUME NEW D, NEW f \in [D -> Nat], NEW S \in SUBSET D, IsFiniteSet(S)
  PROVE  SumOver(f, S) \in Nat
BY SumIsCount, CellsFinite

LEMMA SumEmpty ==
  ASSUME NEW D, NEW f \in [D -> Nat] PROVE SumOver(f, {}) = 0
<1>1. Cells(f, {}) = {}
  BY DEF Cells
<1>2. SumOver(f, {}) = Count(f, {})
  BY FS_EmptySet, SumIsCount
<1> QED BY <1>1, <1>2, FS_EmptySet DEF Count

\* Only the rows that are summed matter.
LEMMA SumSame ==
  ASSUME NEW D, NEW f \in [D -> Nat], NEW E, NEW g \in [E -> Nat], NEW S \in SUBSET D, S \in SUBSET E,
         IsFiniteSet(S), \A x \in S : f[x] = g[x]
  PROVE  SumOver(f, S) = SumOver(g, S)
<1>1. Cells(f, S) = Cells(g, S)
  BY DEF Cells
<1> QED BY <1>1, SumIsCount DEF Count

\* A row joins the sum, or leaves it.
LEMMA SumAdd ==
  ASSUME NEW D, NEW f \in [D -> Nat], NEW S \in SUBSET D, IsFiniteSet(S), NEW x \in S
  PROVE  /\ SumOver(f, S) = f[x] + SumOver(f, S \ {x})
         /\ SumOver(f, S \ {x}) \in Nat
<1>1. PICK R : R = S \ {x}
  OBVIOUS
<1>2. R \in SUBSET D /\ IsFiniteSet(R)
  BY <1>1, FS_Subset
<1> QED BY <1>1, <1>2, SumIsCount, CountAdd, SumType

\* A larger set has a larger sum.
LEMMA SumMono ==
  ASSUME NEW D, NEW f \in [D -> Nat], NEW S \in SUBSET D, NEW T \in SUBSET S, IsFiniteSet(S)
  PROVE  SumOver(f, T) <= SumOver(f, S)
<1>1. T \in SUBSET D /\ IsFiniteSet(T)
  BY FS_Subset
<1>2. Cells(f, T) \subseteq Cells(f, S)
  BY DEF Cells
<1>3. IsFiniteSet(Cells(f, S))
  BY CellsFinite
<1>4. Cardinality(Cells(f, T)) <= Cardinality(Cells(f, S))
  BY <1>2, <1>3, FS_Subset
<1> QED BY <1>1, <1>4, SumIsCount DEF Count

\* A write of one row moves the sum by what that row was and is.
LEMMA SumWrite ==
  ASSUME NEW D, IsFiniteSet(D), NEW f \in [D -> Nat], NEW g \in [D -> Nat], NEW x \in D,
         \A y \in D : y # x => f[y] = g[y]
  PROVE  SumOver(g, D) = SumOver(f, D) - f[x] + g[x]
<1>1. PICK R : R = D \ {x}
  OBVIOUS
<1>2. R \in SUBSET D /\ IsFiniteSet(R) /\ D \in SUBSET D
  BY <1>1, FS_Subset
<1>3. SumOver(f, R) = SumOver(g, R)
  <2>1. \A y \in R : f[y] = g[y]
    BY <1>1
  <2> QED BY <1>2, <2>1, SumSame
<1>4. SumOver(f, D) = f[x] + SumOver(f, R) /\ SumOver(f, R) \in Nat
  BY <1>1, <1>2, SumAdd
<1>5. SumOver(g, D) = g[x] + SumOver(g, R)
  BY <1>1, <1>2, SumAdd
<1>6. f[x] \in Nat /\ g[x] \in Nat
  OBVIOUS
<1> QED BY <1>3, <1>4, <1>5, <1>6

-----------------------------------------------------------------------------
(* The lowest units of a set. *)

Below(S, u) == {v \in S : v < u}

LEMMA NatMin ==
  ASSUME NEW T \in SUBSET Nat, T # {}
  PROVE  \E m \in T : \A y \in T : m <= y
<1>1. \E m \in T : \A y \in T : ~(<<y, m>> \in OpToRel(<, Nat))
  BY NatLessThanWellFounded, WFMin
<1>2. PICK m \in T : \A y \in T : ~(<<y, m>> \in OpToRel(<, Nat))
  BY <1>1
<1>3. \A y \in T : ~(y < m)
  BY <1>2 DEF OpToRel
<1> QED BY <1>3

LEMMA BelowFinite ==
  ASSUME NEW S \in SUBSET Nat, IsFiniteSet(S), NEW u
  PROVE  IsFiniteSet(Below(S, u)) /\ Cardinality(Below(S, u)) \in Nat
<1>1. Below(S, u) \in SUBSET S
  BY DEF Below
<1> QED BY <1>1, FS_Subset, FS_CardinalityType

LEMMA BelowMono ==
  ASSUME NEW S \in SUBSET Nat, IsFiniteSet(S), NEW R \in SUBSET S, NEW u \in Nat, NEW w \in Nat, u <= w
  PROVE  Cardinality(Below(R, u)) <= Cardinality(Below(S, w))
<1>1. Below(R, u) \in SUBSET Below(S, w)
  <2>1. ASSUME NEW v \in Below(R, u) PROVE v \in Below(S, w)
    <3>1. v \in S /\ v \in Nat /\ v < u
      BY DEF Below
    <3> QED BY <3>1 DEF Below
  <2> QED BY <2>1
<1> QED BY <1>1, BelowFinite, FS_Subset

LEMMA InFirst ==
  ASSUME NEW S \in SUBSET Nat, IsFiniteSet(S), NEW n \in Nat
  PROVE  /\ First(S, n) \in SUBSET S
         /\ \A u \in S : u \in First(S, n) <=> Cardinality(Below(S, u)) < n
         /\ IsFiniteSet(First(S, n)) /\ Cardinality(First(S, n)) \in Nat
<1>1. First(S, n) \in SUBSET S
  BY DEF First
<1> QED BY <1>1, FS_Subset, FS_CardinalityType DEF First, Below

\* What is not among the n lowest is above them, and they are n.
LEMMA FirstTop ==
  ASSUME NEW S \in SUBSET Nat, IsFiniteSet(S), NEW n \in Nat, NEW f \in S, f \notin First(S, n)
  PROVE  First(S, n) \subseteq Below(S, f) /\ n <= Cardinality(First(S, n))
<1>1. n <= Cardinality(Below(S, f)) /\ Cardinality(Below(S, f)) \in Nat
  BY InFirst, BelowFinite
<1>2. ASSUME NEW w \in First(S, n) PROVE w \in Below(S, f)
  <2>1. w \in S /\ Cardinality(Below(S, w)) < n /\ Cardinality(Below(S, w)) \in Nat
    BY InFirst, BelowFinite
  <2>2. ASSUME f <= w PROVE FALSE
    <3>1. Cardinality(Below(S, f)) <= Cardinality(Below(S, w))
      BY <2>1, <2>2, BelowMono
    <3> QED BY <1>1, <2>1, <3>1
  <2> QED BY <2>1, <2>2 DEF Below
<1>3. PICK T : T = S \ First(S, n)
  OBVIOUS
<1>4. T \in SUBSET Nat /\ T # {}
  BY <1>3
<1>5. PICK m \in T : \A y \in T : m <= y
  BY <1>4, NatMin
<1>6. Below(S, m) \in SUBSET First(S, n)
  BY <1>3, <1>4, <1>5 DEF Below
<1>7. n <= Cardinality(Below(S, m)) /\ Cardinality(Below(S, m)) \in Nat
  BY <1>3, <1>5, InFirst, BelowFinite
<1>8. Cardinality(Below(S, m)) <= Cardinality(First(S, n)) /\ Cardinality(First(S, n)) \in Nat
  BY <1>6, InFirst, FS_Subset
<1> QED BY <1>2, <1>7, <1>8

\* The n lowest are at most n.
LEMMA FirstSize ==
  ASSUME NEW S \in SUBSET Nat, IsFiniteSet(S), NEW n \in Nat, NEW top \in Nat, \A v \in S : v <= top
  PROVE  Cardinality(First(S, n)) <= n
<1>1. CASE First(S, n) = {}
  BY <1>1, FS_EmptySet
<1>2. CASE First(S, n) # {}
  <2>1. PICK B : B = {k \in Nat : \A v \in First(S, n) : v <= k}
    OBVIOUS
  <2>2. top \in B /\ B \in SUBSET Nat
    BY <2>1, InFirst
  <2>3. PICK k \in B : \A y \in B : k <= y
    BY <2>2, NatMin
  <2>4. k \in Nat /\ \A v \in First(S, n) : v <= k /\ v \in Nat
    BY <2>1, <2>3, InFirst
  <2>5. k \in First(S, n)
    <3> SUFFICES ASSUME k \notin First(S, n) PROVE FALSE
      OBVIOUS
    <3>1. k # 0
      BY <1>2, <2>4
    <3>2. k - 1 \in Nat /\ \A v \in First(S, n) : v <= k - 1
      BY <2>4, <3>1
    <3>3. k - 1 \in B
      BY <2>1, <3>2
    <3> QED BY <2>3, <2>4, <3>3
  <2>6. First(S, n) \in SUBSET (Below(S, k) \cup {k})
    <3>1. ASSUME NEW v \in First(S, n) PROVE v \in Below(S, k) \cup {k}
      <4>1. v \in S
        BY InFirst
      <4> QED BY <2>4, <4>1 DEF Below
    <3> QED BY <3>1
  <2>7. k \in S /\ IsFiniteSet(Below(S, k)) /\ Cardinality(Below(S, k)) \in Nat /\ Cardinality(Below(S, k)) < n
    BY <2>5, InFirst, BelowFinite
  <2>8. k \notin Below(S, k)
    BY <2>4 DEF Below
  <2>9. /\ IsFiniteSet(Below(S, k) \cup {k})
        /\ Cardinality(Below(S, k) \cup {k}) = Cardinality(Below(S, k)) + 1
    BY <2>7, <2>8, FS_AddElement
  <2>10. Cardinality(First(S, n)) <= Cardinality(Below(S, k)) + 1
    BY <2>6, <2>9, FS_Subset
  <2> QED BY <2>7, <2>10, InFirst
<1> QED BY <1>1, <1>2

\* The lowest of more are among them, and what is not low in a part is not low in the whole.
LEMMA FirstMono ==
  ASSUME NEW S \in SUBSET Nat, IsFiniteSet(S), NEW m \in Nat, NEW n \in Nat, m <= n
  PROVE  First(S, m) \subseteq First(S, n)
<1>1. \A u \in S : Cardinality(Below(S, u)) \in Nat
  BY BelowFinite
<1>2. ASSUME NEW u \in First(S, m) PROVE u \in First(S, n)
  <2>1. u \in S /\ Cardinality(Below(S, u)) < m
    BY InFirst
  <2>2. Cardinality(Below(S, u)) < n
    BY <1>1, <2>1
  <2> QED BY <2>1, <2>2, InFirst
<1> QED BY <1>2

LEMMA FirstPart ==
  ASSUME NEW S \in SUBSET Nat, IsFiniteSet(S), NEW R \in SUBSET S, NEW n \in Nat, NEW u \in R,
         u \notin First(R, n)
  PROVE  u \notin First(S, n)
<1>1. R \in SUBSET Nat /\ IsFiniteSet(R) /\ u \in Nat
  BY FS_Subset
<1>2. n <= Cardinality(Below(R, u)) /\ Cardinality(Below(R, u)) \in Nat
  BY <1>1, InFirst, BelowFinite
<1>3. Cardinality(Below(R, u)) <= Cardinality(Below(S, u)) /\ Cardinality(Below(S, u)) \in Nat
  BY <1>1, BelowMono, BelowFinite
<1> QED BY <1>2, <1>3, InFirst

\* Taking units that are not low leaves the others as high as they were.
LEMMA FirstTakeHigh ==
  ASSUME NEW S \in SUBSET Nat, IsFiniteSet(S), NEW n \in Nat, NEW X \in SUBSET S,
         X \cap First(S, n) = {}, NEW f \in S \ X, f \notin First(S, n)
  PROVE  f \notin First(S \ X, n)
<1>1. PICK R : R = S \ X
  OBVIOUS
<1>2. R \in SUBSET Nat /\ IsFiniteSet(R) /\ f \in R
  BY <1>1, FS_Subset
<1>3. First(S, n) \subseteq Below(S, f) /\ n <= Cardinality(First(S, n))
  BY FirstTop
<1>4. First(S, n) \in SUBSET Below(R, f)
  BY <1>1, <1>3, InFirst DEF Below
<1>5. /\ Cardinality(First(S, n)) <= Cardinality(Below(R, f))
      /\ Cardinality(First(S, n)) \in Nat /\ Cardinality(Below(R, f)) \in Nat
  BY <1>2, <1>4, BelowFinite, InFirst, FS_Subset
<1> QED BY <1>1, <1>2, <1>3, <1>5, InFirst

\* Taking the q lowest brings the others down by at most q.
LEMMA FirstTakeLow ==
  ASSUME NEW S \in SUBSET Nat, IsFiniteSet(S), NEW n \in Nat, NEW q \in Nat, q <= n,
         NEW top \in Nat, \A v \in S : v <= top,
         NEW f \in S, f \notin First(S, q), f \notin First(S, n)
  PROVE  f \notin First(S \ First(S, q), n - q)
<1>1. PICK X : X = First(S, q)
  OBVIOUS
<1>2. PICK R : R = S \ X
  OBVIOUS
<1>3. /\ R \in SUBSET Nat /\ IsFiniteSet(R) /\ f \in R /\ X \in SUBSET S /\ IsFiniteSet(X)
      /\ Cardinality(X) \in Nat /\ Cardinality(X) <= q /\ n - q \in Nat
  <2>1. X \in SUBSET S /\ IsFiniteSet(X) /\ Cardinality(X) \in Nat
    BY <1>1, InFirst
  <2>2. Cardinality(X) <= q
    BY <1>1, FirstSize
  <2>3. R \in SUBSET S /\ f \in R
    BY <1>1, <1>2
  <2>4. IsFiniteSet(R)
    BY <2>3, FS_Subset
  <2> QED BY <2>1, <2>2, <2>3, <2>4
<1>4. n <= Cardinality(Below(S, f)) /\ Cardinality(Below(S, f)) \in Nat
  BY InFirst, BelowFinite
<1>5. Below(R, f) = Below(S, f) \ X
  BY <1>2 DEF Below
<1>6. Cardinality(Below(R, f)) = Cardinality(Below(S, f)) - Cardinality(Below(S, f) \cap X)
  BY <1>5, BelowFinite, FS_Difference
<1>7. /\ Cardinality(Below(S, f) \cap X) <= Cardinality(X)
      /\ Cardinality(Below(S, f) \cap X) \in Nat
  <2>1. Below(S, f) \cap X \in SUBSET X
    OBVIOUS
  <2> QED BY <1>3, <2>1, FS_Subset, FS_CardinalityType
<1>8. n - q <= Cardinality(Below(R, f)) /\ Cardinality(Below(R, f)) \in Nat
  BY <1>3, <1>4, <1>6, <1>7, BelowFinite
<1> QED BY <1>1, <1>2, <1>3, <1>8, InFirst

-----------------------------------------------------------------------------
(* Rows of restorations. *)

LEMMA UnitFacts ==
  ASSUME CreditAssumption
  PROVE  /\ NUnits \in Nat /\ IsFiniteSet(Units) /\ Units \in SUBSET Nat
         /\ \A u \in Units : u <= NUnits
BY FS_Interval DEF CreditAssumption, Units

LEMMA CentsFacts ==
  ASSUME CreditAssumption, NEW w \in RowRec
  PROVE  /\ DOMAIN w.cents \in SUBSET Units /\ w.cents \in [DOMAIN w.cents -> Nat]
         /\ \A u : CentsOn(w, u) \in Nat
         /\ Amount(w) \in Nat
<1>1. PICK D \in SUBSET Units : w.cents \in [D -> Nat]
  BY DEF RowRec, CentsOf
<1>2. DOMAIN w.cents = D /\ IsFiniteSet(D)
  BY <1>1, UnitFacts, FS_Subset
<1>3. \A u : CentsOn(w, u) \in Nat
  BY <1>1, <1>2 DEF CentsOn
<1>4. Amount(w) \in Nat
  BY <1>1, <1>2, SumType DEF Amount
<1> QED BY <1>1, <1>2, <1>3, <1>4

LEMMA RestoredAdd ==
  ASSUME CreditAssumption, NEW R \in SUBSET RowRec, IsFiniteSet(R), NEW w \in RowRec, w \notin R, NEW u
  PROVE  RestoredIn(R \cup {w}, u) = RestoredIn(R, u) + CentsOn(w, u)
<1>1. PICK T : T = R \cup {w}
  OBVIOUS
<1>2. PICK f : f = [row \in T |-> CentsOn(row, u)]
  OBVIOUS
<1>3. PICK g : g = [row \in R |-> CentsOn(row, u)]
  OBVIOUS
<1>4. T \in SUBSET RowRec /\ IsFiniteSet(T) /\ w \in T /\ T \ {w} = R /\ R \in SUBSET T
  BY <1>1, FS_AddElement
<1>5. f \in [T -> Nat] /\ g \in [R -> Nat] /\ f[w] = CentsOn(w, u)
  BY <1>2, <1>3, <1>4, CentsFacts
<1>6. SumOver(f, T) = f[w] + SumOver(f, R)
  BY <1>4, <1>5, SumAdd
<1>7. SumOver(f, R) = SumOver(g, R)
  <2>1. \A x \in R : f[x] = g[x]
    BY <1>2, <1>3, <1>4
  <2> QED BY <1>4, <1>5, <2>1, SumSame
<1>8. SumOver(g, R) \in Nat /\ f[w] \in Nat
  BY <1>4, <1>5, SumType
<1> QED BY <1>1, <1>2, <1>3, <1>5, <1>6, <1>7, <1>8 DEF RestoredIn

LEMMA LeftAdd ==
  ASSUME CreditAssumption, NEW R, NEW a \in [Units -> Nat], Sound(R, a), NEW w \in RowRec, w \notin R,
         NEW u \in Units
  PROVE  /\ Left(R \cup {w}, a, u) = Left(R, a, u) - CentsOn(w, u)
         /\ Left(R, a, u) \in Nat /\ CentsOn(w, u) \in Nat
<1>1. PICK T : T = R \cup {w}
  OBVIOUS
<1>2. RestoredIn(T, u) = RestoredIn(R, u) + CentsOn(w, u)
  BY <1>1, RestoredAdd DEF Sound
<1>3. RestoredIn(R, u) \in Nat
  <2>1. [row \in R |-> CentsOn(row, u)] \in [R -> Nat]
    BY CentsFacts DEF Sound
  <2> QED BY <2>1, SumType DEF RestoredIn, Sound
<1>4. a[u] \in Nat /\ CentsOn(w, u) \in Nat /\ Left(R, a, u) \in Nat
  BY CentsFacts DEF Sound
<1>5. Left(R, a, u) = a[u] - RestoredIn(R, u) /\ Left(T, a, u) = a[u] - RestoredIn(T, u)
  BY DEF Left
<1>6. Left(T, a, u) = Left(R, a, u) - CentsOn(w, u)
  <2> HIDE DEF Left
  <2>1. \A p, q, c \in Nat : p - (q + c) = (p - q) - c
    OBVIOUS
  <2> QED BY <1>2, <1>3, <1>4, <1>5, <2>1
<1> QED BY <1>1, <1>4, <1>6

LEMMA InReturned ==
  ASSUME NEW R, NEW u
  PROVE  u \in Returned(R) <=> \E w \in R : w.isReturn /\ u \in DOMAIN w.cents
BY DEF Returned

\* A row that returns units nobody returned with all that is left on them,
\* and one that takes at most what is left on such units.
GivesBack(R, a, w) ==
  /\ w \in RowRec /\ w.isReturn /\ DOMAIN w.cents \cap Returned(R) = {}
  /\ \A u \in DOMAIN w.cents : w.cents[u] = Left(R, a, u)
Corrects(R, a, w) ==
  /\ w \in RowRec /\ ~w.isReturn /\ DOMAIN w.cents \cap Returned(R) = {}
  /\ \A u \in DOMAIN w.cents : w.cents[u] <= Left(R, a, u)

\* A row that returns units nobody returned leaves nothing on them.
LEMMA AddReturn ==
  ASSUME CreditAssumption, NEW R, NEW a \in [Units -> Nat], Sound(R, a),
         NEW w, GivesBack(R, a, w)
  PROVE  /\ Sound(R \cup {w}, a)
         /\ Returned(R \cup {w}) = Returned(R) \cup DOMAIN w.cents
         /\ \A u \in DOMAIN w.cents : Left(R \cup {w}, a, u) = 0
         /\ \A u \in Units \ DOMAIN w.cents : Left(R \cup {w}, a, u) = Left(R, a, u)
<1>8. PICK X : X = DOMAIN w.cents
  OBVIOUS
<1>0. /\ w \in RowRec /\ w.isReturn /\ DOMAIN w.cents = X /\ X \cap Returned(R) = {} /\ X \in SUBSET Units
      /\ \A u \in X : w.cents[u] = Left(R, a, u)
  BY <1>8, CentsFacts DEF GivesBack
<1>1. PICK T : T = R \cup {w}
  OBVIOUS
<1>2. Returned(T) = Returned(R) \cup X
  <2>1. ASSUME NEW u PROVE u \in Returned(T) <=> u \in Returned(R) \cup X
    BY <1>0, <1>1, InReturned
  <2> QED BY <2>1
<1>3. ASSUME NEW u \in Units
      PROVE  Left(T, a, u) = IF u \in X THEN 0 ELSE Left(R, a, u)
  <2>1. CASE w \in R
    <3>1. T = R
      BY <1>1, <2>1
    <3>2. \A x \in X : x \in Returned(R)
      BY <1>0, <2>1, InReturned
    <3>3. X = {}
      BY <1>0, <3>2
    <3> QED BY <3>1, <3>3
  <2>2. CASE w \notin R
    <3>1. /\ Left(T, a, u) = Left(R, a, u) - CentsOn(w, u)
          /\ Left(R, a, u) \in Nat /\ CentsOn(w, u) \in Nat
      <4>1. w \in RowRec /\ w \notin R
        BY <1>0, <2>2
      <4> QED BY <1>1, <4>1, LeftAdd
    <3>2. CASE u \in X
      <4>1. CentsOn(w, u) = Left(R, a, u)
        BY <1>0, <3>2 DEF CentsOn
      <4> QED BY <3>1, <3>2, <4>1
    <3>3. CASE u \notin X
      <4>1. CentsOn(w, u) = 0
        BY <1>0, <3>3 DEF CentsOn
      <4> QED BY <3>1, <3>3, <4>1
    <3> QED BY <3>2, <3>3
  <2> QED BY <2>1, <2>2
<1>4. T \in SUBSET RowRec /\ IsFiniteSet(T)
  BY <1>0, <1>1, FS_AddElement DEF Sound
<1>5. ASSUME NEW u \in Units, NEW v \in ReturnsOf(T, u), NEW y \in ReturnsOf(T, u)
      PROVE  v = y
  <2>1. CASE u \in X
    <3>1. ReturnsOf(R, u) = {}
      BY <1>0, <2>1, InReturned DEF ReturnsOf
    <3> QED BY <1>0, <1>1, <1>5, <3>1 DEF ReturnsOf
  <2>2. CASE u \notin X
    <3>1. v \in ReturnsOf(R, u) /\ y \in ReturnsOf(R, u)
      BY <1>0, <1>1, <1>5, <2>2 DEF ReturnsOf
    <3> QED BY <3>1 DEF Sound
  <2> QED BY <2>1, <2>2
<1>6. Sound(T, a)
  BY <1>0, <1>2, <1>3, <1>4, <1>5 DEF Sound
<1> QED BY <1>0, <1>1, <1>2, <1>3, <1>6

\* A correction of units nobody returned takes at most what is left on them.
LEMMA AddCorrection ==
  ASSUME CreditAssumption, NEW R, NEW a \in [Units -> Nat], Sound(R, a),
         NEW w, Corrects(R, a, w)
  PROVE  /\ Sound(R \cup {w}, a) /\ Returned(R \cup {w}) = Returned(R)
<1>8. PICK X : X = DOMAIN w.cents
  OBVIOUS
<1>0. /\ w \in RowRec /\ ~w.isReturn /\ DOMAIN w.cents = X /\ X \cap Returned(R) = {} /\ X \in SUBSET Units
      /\ \A u \in X : w.cents[u] <= Left(R, a, u)
  BY <1>8, CentsFacts DEF Corrects
<1>1. PICK T : T = R \cup {w}
  OBVIOUS
<1>2. Returned(T) = Returned(R) /\ \A u : ReturnsOf(T, u) = ReturnsOf(R, u)
  <2>1. ASSUME NEW u PROVE u \in Returned(T) <=> u \in Returned(R)
    BY <1>0, <1>1, InReturned
  <2>2. \A u : ReturnsOf(T, u) = ReturnsOf(R, u)
    BY <1>0, <1>1 DEF ReturnsOf
  <2> QED BY <2>1, <2>2
<1>3. ASSUME NEW u \in Units
      PROVE  Left(T, a, u) \in Nat /\ (u \notin X => Left(T, a, u) = Left(R, a, u))
  <2>1. CASE w \in R
    <3>1. T = R
      BY <1>1, <2>1
    <3> QED BY <3>1 DEF Sound
  <2>2. CASE w \notin R
    <3>1. /\ Left(T, a, u) = Left(R, a, u) - CentsOn(w, u)
          /\ Left(R, a, u) \in Nat /\ CentsOn(w, u) \in Nat
      <4>1. w \in RowRec /\ w \notin R
        BY <1>0, <2>2
      <4> QED BY <1>1, <4>1, LeftAdd
    <3>2. CASE u \in X
      <4>1. CentsOn(w, u) = w.cents[u] /\ w.cents[u] <= Left(R, a, u)
        BY <1>0, <3>2 DEF CentsOn
      <4> QED BY <3>1, <3>2, <4>1
    <3>3. CASE u \notin X
      <4>1. CentsOn(w, u) = 0
        BY <1>0, <3>3 DEF CentsOn
      <4> QED BY <3>1, <3>3, <4>1
    <3> QED BY <3>2, <3>3
  <2> QED BY <2>1, <2>2
<1>4. T \in SUBSET RowRec /\ IsFiniteSet(T)
  BY <1>0, <1>1, FS_AddElement DEF Sound
<1>5. Sound(T, a)
  BY <1>0, <1>2, <1>3, <1>4 DEF Sound
<1> QED BY <1>0, <1>1, <1>2, <1>5

-----------------------------------------------------------------------------
(* What a step leaves alone. *)

LEMMA Views ==
  ASSUME NEW o
  PROVE  /\ returnedIndexes(o) = Returned(rows[o])
         /\ \A u : remaining(o, u) = Left(rows[o], alloc[o], u)
BY DEF returnedIndexes, Returned, remaining, Restored, Left, RestoredIn

LEMMA ViewsAfter ==
  ASSUME NEW o
  PROVE  /\ returnedIndexes(o)' = Returned(rows'[o])
         /\ \A u : remaining(o, u)' = Left(rows'[o], alloc'[o], u)
BY DEF returnedIndexes, Returned, remaining, Restored, Left, RestoredIn

LEMMA EmptyCents == <<>> \in CentsOf
<1>1. <<>> \in [{} -> Nat]
  OBVIOUS
<1>2. {} \in SUBSET Units
  OBVIOUS
<1> QED BY <1>1, <1>2 DEF CentsOf

LEMMA QtyFacts ==
  ASSUME CreditAssumption, Types, NEW o
  PROVE  /\ [r \in Refunds |-> refund[r].qty] \in [Refunds -> Nat]
         /\ Unmapped(o) \in SUBSET Refunds /\ IsFiniteSet(Unmapped(o))
         /\ RefundsOf(o) \in SUBSET Refunds
         /\ UnmappedQty(o) \in Nat
<1>1. [r \in Refunds |-> refund[r].qty] \in [Refunds -> Nat]
  BY DEF Types, RefundRec
<1>2. Unmapped(o) \in SUBSET Refunds /\ RefundsOf(o) \in SUBSET Refunds
  BY DEF Unmapped, RefundsOf
<1>3. IsFiniteSet(Unmapped(o))
  BY <1>2, FS_Subset DEF CreditAssumption
<1> QED BY <1>1, <1>2, <1>3, SumType DEF UnmappedQty

\* The refunds of an order that a step does not touch.
SameRefunds(p) ==
  /\ RefundsOf(p)' = RefundsOf(p)
  /\ \A x \in RefundsOf(p) : refund'[x] = refund[x]
  /\ \A x \in Refunds : Posted(p, x)' <=> Posted(p, x)

LEMMA SameViews ==
  ASSUME CreditAssumption, Types, Types', NEW p, SameRefunds(p)
  PROVE  /\ FrozenUnits(p)' = FrozenUnits(p) /\ Unmapped(p)' = Unmapped(p)
         /\ UnmappedQty(p)' = UnmappedQty(p)
         /\ Late(p)' <=> Late(p)
         /\ Quiet(p)' <=> Quiet(p)
         /\ Fixed(p)' <=> Fixed(p)
<1>1. RefundsOf(p) \in SUBSET Refunds
  BY QtyFacts
<1>2. FrozenUnits(p)' = FrozenUnits(p)
  <2>1. {x \in RefundsOf(p)' : refund'[x].frozen} = {x \in RefundsOf(p) : refund[x].frozen}
    BY DEF SameRefunds
  <2>2. ASSUME NEW u PROVE u \in FrozenUnits(p)' <=> u \in FrozenUnits(p)
    BY <2>1 DEF FrozenUnits, SameRefunds
  <2> QED BY <2>2
<1>3. Unmapped(p)' = Unmapped(p)
  BY <1>1 DEF Unmapped, SameRefunds
<1>4. UnmappedQty(p)' = UnmappedQty(p)
  <2> DEFINE f == [r \in Refunds |-> refund[r].qty]
             g == [r \in Refunds |-> refund'[r].qty]
  <2>1. f \in [Refunds -> Nat] /\ Unmapped(p) \in SUBSET Refunds /\ IsFiniteSet(Unmapped(p))
    BY QtyFacts
  <2>2. g \in [Refunds -> Nat]
    BY DEF Types, RefundRec
  <2>3. \A x \in Unmapped(p) : f[x] = g[x]
    BY <2>1 DEF Unmapped, SameRefunds
  <2>4. UnmappedQty(p) = SumOver(f, Unmapped(p)) /\ UnmappedQty(p)' = SumOver(g, Unmapped(p)')
    BY DEF UnmappedQty
  <2> HIDE DEF f, g
  <2> QED BY <1>3, <2>1, <2>2, <2>3, <2>4, SumSame
<1>5. Late(p)' <=> Late(p)
  BY DEF Late, SameRefunds
<1>6. Quiet(p)' <=> Quiet(p)
  BY DEF Quiet, SameRefunds
<1>7. Fixed(p)' <=> Fixed(p)
  BY DEF Fixed, SameRefunds
<1> QED BY <1>2, <1>3, <1>4, <1>5, <1>6, <1>7

\* An order whose rows, refunds and edit stay keeps what holds of it.
LEMMA OtherOrder ==
  ASSUME CreditAssumption, Types, Types', FrozenInv, EditInv, NEW p \in Orders, SameRefunds(p),
         rows'[p] = rows[p], edit'[p].phase = edit[p].phase, edit'[p].prefix = edit[p].prefix,
         alloc'[p] = alloc[p] \/ RefundsOf(p) = {}
  PROVE  /\ ~Late(p)' => FrozenAt(p)'
         /\ PendingEdit(p)' => EditAt(p)'
<1>1. /\ FrozenUnits(p)' = FrozenUnits(p) /\ Unmapped(p)' = Unmapped(p)
      /\ UnmappedQty(p)' = UnmappedQty(p)
      /\ Late(p)' <=> Late(p)
      /\ Quiet(p)' <=> Quiet(p)
      /\ Fixed(p)' <=> Fixed(p)
  BY SameViews
<1>2. returnedIndexes(p)' = returnedIndexes(p)
  BY Views, ViewsAfter
<1>3. ASSUME ~Late(p)' PROVE FrozenAt(p)'
  <2>1. FrozenAt(p)
    BY <1>1, <1>3 DEF FrozenInv
  <2>2. /\ \A r, x \in RefundsOf(p)' : r # x /\ refund'[r].frozen /\ refund'[x].frozen =>
            DOMAIN refund'[r].cents \cap DOMAIN refund'[x].cents = {}
    BY <2>1 DEF FrozenAt, SameRefunds
  <2>3. (FrozenUnits(p) \cap First(Units \ returnedIndexes(p), UnmappedQty(p)) = {})'
    <3>1. FrozenUnits(p) \cap First(Units \ returnedIndexes(p), UnmappedQty(p)) = {}
      BY <2>1 DEF FrozenAt
    <3> QED BY <1>1, <1>2, <3>1 DEF First
  <2>4. ASSUME NEW r \in RefundsOf(p)', Waiting(r)' PROVE Restorable(r, p)'
    <3>1. r \in RefundsOf(p) /\ refund'[r] = refund[r] /\ Waiting(r) /\ refund[r].frozen
      BY <2>4 DEF SameRefunds, Waiting
    <3>2. Restorable(r, p)
      BY <2>1, <3>1 DEF FrozenAt
    <3>3. alloc'[p] = alloc[p]
      BY <3>1
    <3>4. \A u : remaining(p, u)' = remaining(p, u)
      BY <3>3, Views, ViewsAfter
    <3> QED BY <1>2, <3>1, <3>2, <3>4 DEF Restorable
  <2> QED BY <2>2, <2>3, <2>4 DEF FrozenAt
<1>4. ASSUME PendingEdit(p)' PROVE EditAt(p)'
  <2>1. PendingEdit(p)
    BY <1>4 DEF PendingEdit
  <2>2. EditAt(p)
    BY <2>1 DEF EditInv
  <2>3. {x \in Refunds : refund[x].order = p /\ refund[x].state = "Settled"} =
          {x \in RefundsOf(p) : refund[x].state = "Settled"}
    BY DEF RefundsOf
  <2>4. {x \in Refunds : refund'[x].order = p /\ refund'[x].state = "Settled"} =
          {x \in RefundsOf(p)' : refund'[x].state = "Settled"}
    BY DEF RefundsOf
  <2>5. {x \in RefundsOf(p)' : refund'[x].state = "Settled"} =
          {x \in RefundsOf(p) : refund[x].state = "Settled"}
    BY DEF SameRefunds
  <2>6. PrefixDigest(p)' = PrefixDigest(p)
    BY <2>3, <2>4, <2>5 DEF PrefixDigest
  <2> QED BY <1>1, <2>2, <2>6 DEF EditAt
<1> QED BY <1>3, <1>4

-----------------------------------------------------------------------------
(* Holds and postings. *)

LEMMA HeldFacts ==
  ASSUME CreditAssumption, Types
  PROVE  /\ Held \in Nat
         /\ \A o \in Orders : hold[o] <= Held
<1>1. hold \in [Orders -> Nat] /\ IsFiniteSet(Orders) /\ Orders \in SUBSET Orders
  BY DEF Types, CreditAssumption
<1>2. Held \in Nat
  BY <1>1, SumType DEF Held
<1>3. ASSUME NEW o \in Orders PROVE hold[o] <= Held
  <2>1. SumOver(hold, Orders) = hold[o] + SumOver(hold, Orders \ {o}) /\ SumOver(hold, Orders \ {o}) \in Nat
    BY <1>1, SumAdd
  <2>2. hold[o] \in Nat
    BY <1>1
  <2> QED BY <2>1, <2>2 DEF Held
<1> QED BY <1>2, <1>3

LEMMA HeldWrite ==
  ASSUME CreditAssumption, Types, NEW o \in Orders, NEW n \in Nat, hold' = [hold EXCEPT ![o] = n]
  PROVE  hold' \in [Orders -> Nat] /\ Held' = Held - hold[o] + n
<1>1. hold \in [Orders -> Nat] /\ IsFiniteSet(Orders)
  BY DEF Types, CreditAssumption
<1>2. hold' \in [Orders -> Nat] /\ hold'[o] = n /\ \A y \in Orders : y # o => hold[y] = hold'[y]
  BY <1>1
<1>3. PICK g : g = hold'
  OBVIOUS
<1>4. PICK f : f = hold
  OBVIOUS
<1>5. /\ f \in [Orders -> Nat] /\ g \in [Orders -> Nat]
      /\ \A y \in Orders : y # o => f[y] = g[y]
  BY <1>1, <1>2, <1>3, <1>4
<1>6. SumOver(g, Orders) = SumOver(f, Orders) - f[o] + g[o]
  BY <1>1, <1>5, SumWrite
<1> QED BY <1>2, <1>3, <1>4, <1>6 DEF Held

LEMMA AllocSum ==
  ASSUME CreditAssumption, NEW a \in [Units -> Nat]
  PROVE  SumOver(a, Units) \in Nat
BY UnitFacts, SumType

LEMMA PostedAmount ==
  ASSUME CreditAssumption, NEW P \in SUBSET RowRec, IsFiniteSet(P)
  PROVE  SumOver([row \in P |-> Amount(row)], P) \in Nat
<1>1. PICK f : f = [row \in P |-> Amount(row)]
  OBVIOUS
<1>2. f \in [P -> Nat]
  BY <1>1, CentsFacts
<1> QED BY <1>1, <1>2, SumType

\* Restorations only add to the balance.
LEMMA PostStep ==
  ASSUME CreditAssumption, Types, HoldsCovered, HoldInv, UnitInv, NEW o \in Orders,
         NEW P \in SUBSET RowRec, IsFiniteSet(P), Sound(rows[o] \cup P, alloc[o]),
         postFundingRows(o, P), redeemed[o], UNCHANGED <<state, hold, alloc, redeemed>>
  PROVE  /\ balance' \in Nat /\ HoldsCovered' /\ HoldInv' /\ UnitInv'
         /\ rows' \in [Orders -> SUBSET RowRec] /\ \A p \in Orders : IsFiniteSet(rows'[p])
         /\ rows'[o] = rows[o] \cup P /\ \A p \in Orders : p # o => rows'[p] = rows[p]
<1>1. SumOver([row \in P |-> Amount(row)], P) \in Nat /\ balance \in Nat
  BY PostedAmount DEF Types
<1>2. balance' \in Nat /\ balance' >= balance
  BY <1>1 DEF postFundingRows
<1>3. Held' = Held /\ Held \in Nat
  BY HeldFacts DEF Held
<1>4. HoldsCovered'
  BY <1>1, <1>2, <1>3 DEF HoldsCovered
<1>5. rows'[o] = rows[o] \cup P /\ \A p \in Orders : p # o => rows'[p] = rows[p]
  BY DEF postFundingRows, Types
<1>6. rows' \in [Orders -> SUBSET RowRec]
  BY DEF postFundingRows, Types
<1>7. \A p \in Orders : IsFiniteSet(rows'[p])
  BY <1>5 DEF Types, Sound
<1>8. HoldInv'
  BY <1>5 DEF HoldInv
<1>9. UnitInv'
  <2>1. ASSUME NEW p \in Orders PROVE Sound(rows'[p], alloc'[p])
    BY <1>5 DEF UnitInv
  <2> QED BY <2>1 DEF UnitInv
<1> QED BY <1>2, <1>4, <1>5, <1>6, <1>7, <1>8, <1>9

-----------------------------------------------------------------------------
(* Checkout, settlement, cancellation, adjustments. *)

LEMMA HoldFrame ==
  ASSUME CreditAssumption, CInv, Types', UNCHANGED <<rows, refund, edit>>,
         \A p \in Orders : alloc'[p] = alloc[p] \/ state[p] = "AddingItems",
         \A p \in Orders : state[p] = "Paid" => state'[p] = "Paid",
         \A p \in Orders : redeemed[p] => redeemed'[p]
  PROVE  RefundInv' /\ FrozenInv' /\ EditInv'
<1>1. RefundInv'
  <2>1. ASSUME NEW r \in Refunds PROVE RefundAt(r)'
    <3>1. RefundAt(r)
      BY DEF CInv, RefundInv
    <3>2. \A o : (Posted(o, r)' <=> Posted(o, r)) /\ returnedIndexes(o)' = returnedIndexes(o)
      BY DEF Posted, returnedIndexes
    <3>3. refund[r].frozen => refund[r].state # "none"
      BY <3>1 DEF RefundAt
    <3> QED BY <3>1, <3>2, <3>3 DEF RefundAt
  <2> QED BY <2>1 DEF RefundInv
<1>2. ASSUME NEW p \in Orders
      PROVE  /\ ~Late(p)' => FrozenAt(p)'
             /\ PendingEdit(p)' => EditAt(p)'
  <2>1. SameRefunds(p)
    BY DEF SameRefunds, RefundsOf, Posted
  <2>2. alloc'[p] = alloc[p] \/ RefundsOf(p) = {}
    BY DEF RefundsOf, CInv, RefundInv, RefundAt
  <2> QED BY <2>1, <2>2, OtherOrder DEF CInv
<1> QED BY <1>1, <1>2 DEF FrozenInv, EditInv

LEMMA MinLower ==
  ASSUME NEW m \in Int, NEW n \in Int
  PROVE  Min({m, n}) <= m /\ Min({m, n}) \in {m, n}
<1>1. \E x \in {m, n} : \A y \in {m, n} : x <= y
  OBVIOUS
<1> QED BY <1>1 DEF Min

LEMMA NoRows ==
  ASSUME CreditAssumption, NEW a \in [Units -> Nat]
  PROVE  Sound({}, a)
<1>1. \A u : RestoredIn({}, u) = 0
  <2>1. ASSUME NEW u PROVE RestoredIn({}, u) = 0
    <3>1. PICK f : f = [row \in {} |-> CentsOn(row, u)]
      OBVIOUS
    <3>2. f \in [{} -> Nat]
      BY <3>1
    <3> QED BY <3>1, <3>2, SumEmpty DEF RestoredIn
  <2> QED BY <2>1
<1>2. \A u \in Units : a[u] \in Nat /\ Left({}, a, u) = a[u]
  BY <1>1 DEF Left
<1>3. Returned({}) = {} /\ \A u : ReturnsOf({}, u) = {}
  BY DEF Returned, ReturnsOf
<1> QED BY <1>2, <1>3, FS_EmptySet DEF Sound

LEMMA ReserveStep ==
  ASSUME CreditAssumption, CInv, NEW o \in Orders, reserve(o)
  PROVE  CInv'
<1>1. PICK a \in [Units -> 0 .. Price] :
        /\ SumOver(a, Units) \in 1 .. Min({available, NUnits * Price})
        /\ alloc' = [alloc EXCEPT ![o] = a]
        /\ hold' = [hold EXCEPT ![o] = SumOver(a, Units)]
  BY DEF reserve
<1>2. /\ state[o] = "AddingItems" /\ state' = [state EXCEPT ![o] = "PendingPayment"]
      /\ UNCHANGED <<balance, disabled, used, redeemed, rows, refund, edit, failures>>
  BY DEF reserve
<1>3. a \in [Units -> Nat]
  BY DEF CreditAssumption
<1>4. SumOver(a, Units) \in Nat
  BY <1>3, AllocSum
<1>5. hold' \in [Orders -> Nat] /\ Held' = Held - hold[o] + SumOver(a, Units)
  BY <1>1, <1>4, HeldWrite DEF CInv
<1>6. hold[o] = 0 /\ ~redeemed[o] /\ rows[o] = {} /\ balance \in Nat /\ Held \in Nat
  BY <1>2, HeldFacts DEF CInv, HoldInv, Types
<1>7. HoldsCovered'
  <2>1. available = balance - Held /\ available \in Int /\ NUnits * Price \in Int
    BY <1>6 DEF available, CreditAssumption
  <2>2. SumOver(a, Units) <= available
    <3>1. Min({available, NUnits * Price}) \in Int /\ Min({available, NUnits * Price}) <= available
      BY <2>1, MinLower
    <3> QED BY <1>1, <2>1, <3>1
  <2> QED BY <1>2, <1>4, <1>5, <1>6, <2>1, <2>2 DEF HoldsCovered
<1>8. Types'
  BY <1>1, <1>2, <1>3, <1>5 DEF CInv, Types
<1>9. HoldInv'
  BY <1>1, <1>2, <1>6 DEF CInv, HoldInv, Types
<1>10. UnitInv'
  <2>1. ASSUME NEW p \in Orders PROVE Sound(rows'[p], alloc'[p])
    <3>1. CASE p = o
      <4>1. alloc'[o] = a /\ rows'[o] = {}
        BY <1>1, <1>2, <1>6 DEF CInv, Types
      <4> QED BY <1>3, <3>1, <4>1, NoRows
    <3>2. CASE p # o
      BY <1>1, <1>2, <3>2 DEF CInv, Types, UnitInv
    <3> QED BY <3>1, <3>2
  <2> QED BY <2>1 DEF UnitInv
<1>11. RefundInv' /\ FrozenInv' /\ EditInv'
  <2>1. \A p \in Orders : alloc'[p] = alloc[p] \/ state[p] = "AddingItems"
    BY <1>1, <1>2 DEF CInv, Types
  <2>2. \A p \in Orders : state[p] = "Paid" => state'[p] = "Paid"
    BY <1>2 DEF CInv, Types
  <2> QED BY <1>2, <1>8, <2>1, <2>2, HoldFrame
<1> QED BY <1>7, <1>8, <1>9, <1>10, <1>11 DEF CInv

LEMMA SettleStep ==
  ASSUME CreditAssumption, CInv, NEW o \in Orders, settle(o)
  PROVE  CInv'
<1>1. /\ state[o] \in {"PendingPayment", "Paid"} /\ hold[o] > 0
      /\ state' = [state EXCEPT ![o] = "Paid"]
      /\ UNCHANGED <<disabled, used, alloc, rows, refund, edit>>
  BY DEF settle
<1>2. /\ Held \in Nat /\ hold[o] \in Nat /\ hold[o] <= Held /\ balance \in Nat /\ Held <= balance
  BY HeldFacts DEF CInv, Types, HoldsCovered
<1>3. /\ balance' \in Nat /\ hold' \in [Orders -> Nat] /\ redeemed' \in [Orders -> BOOLEAN]
      /\ failures' \in 0 .. Failures /\ HoldsCovered'
      /\ redeemed'[o] => hold'[o] = 0
      /\ ~redeemed'[o] => hold'[o] = hold[o] /\ ~redeemed[o]
      /\ \A p \in Orders : p # o => hold'[p] = hold[p] /\ redeemed'[p] = redeemed[p]
      /\ redeemed[o] => redeemed'[o]
  <2>1. CASE /\ balance' = balance - hold[o]
             /\ hold' = [hold EXCEPT ![o] = 0]
             /\ redeemed' = [redeemed EXCEPT ![o] = TRUE]
             /\ UNCHANGED failures
    <3>1. hold' \in [Orders -> Nat] /\ Held' = Held - hold[o] + 0
      BY <2>1, HeldWrite DEF CInv
    <3>2. HoldsCovered'
      BY <1>2, <2>1, <3>1 DEF HoldsCovered
    <3>3. redeemed' \in [Orders -> BOOLEAN] /\ redeemed'[o]
      BY <2>1 DEF CInv, Types
    <3> QED BY <1>2, <2>1, <3>1, <3>2, <3>3 DEF CInv, Types
  <2>2. CASE /\ failures < Failures /\ failures' = failures + 1
             /\ UNCHANGED <<balance, hold, redeemed>>
    <3>1. Held' = Held
      BY <2>2 DEF Held
    <3>2. HoldsCovered'
      BY <2>2, <3>1 DEF HoldsCovered, CInv
    <3>3. ~redeemed[o]
      BY <1>1 DEF CInv, HoldInv, Types
    <3>4. failures' \in 0 .. Failures
      BY <2>2 DEF CInv, Types, CreditAssumption
    <3> QED BY <2>2, <3>2, <3>3, <3>4 DEF CInv, Types
  <2> QED BY <2>1, <2>2 DEF settle, redeemAfterSettlement
<1>4. Types'
  BY <1>1, <1>3 DEF CInv, Types
<1>5. HoldInv'
  <2>1. ASSUME NEW p \in Orders
        PROVE  /\ state'[p] \in {"AddingItems", "Cancelled"} => hold'[p] = 0 /\ ~redeemed'[p]
               /\ state'[p] = "PendingPayment" => ~redeemed'[p]
               /\ state'[p] \in {"PendingPayment", "Paid"} /\ ~redeemed'[p] =>
                    hold'[p] = SumOver(alloc'[p], Units)
               /\ redeemed'[p] => hold'[p] = 0
               /\ ~redeemed'[p] => rows'[p] = {}
    <3>1. CASE p = o
      <4>1. state'[o] = "Paid"
        BY <1>1 DEF CInv, Types
      <4> QED BY <1>1, <1>3, <3>1, <4>1 DEF CInv, HoldInv
    <3>2. CASE p # o
      <4>1. state'[p] = state[p]
        BY <1>1, <3>2 DEF CInv, Types
      <4> QED BY <1>1, <1>3, <3>2, <4>1 DEF CInv, HoldInv
    <3> QED BY <3>1, <3>2
  <2> QED BY <2>1 DEF HoldInv
<1>6. UnitInv'
  BY <1>1 DEF CInv, UnitInv
<1>7. RefundInv' /\ FrozenInv' /\ EditInv'
  <2>1. \A p \in Orders : alloc'[p] = alloc[p] \/ state[p] = "AddingItems"
    BY <1>1
  <2>2. \A p \in Orders : state[p] = "Paid" => state'[p] = "Paid"
    BY <1>1 DEF CInv, Types
  <2>3. \A p \in Orders : redeemed[p] => redeemed'[p]
    BY <1>3
  <2> QED BY <1>1, <1>4, <2>1, <2>2, <2>3, HoldFrame
<1> QED BY <1>3, <1>4, <1>5, <1>6, <1>7 DEF CInv

LEMMA ReleaseStep ==
  ASSUME CreditAssumption, CInv, NEW o \in Orders, release(o)
  PROVE  CInv'
<1>1. /\ state[o] = "PendingPayment" /\ state' = [state EXCEPT ![o] = "Cancelled"]
      /\ hold' = [hold EXCEPT ![o] = 0]
      /\ UNCHANGED <<balance, disabled, used, alloc, redeemed, rows, refund, edit, failures>>
  BY DEF release
<1>2. hold' \in [Orders -> Nat] /\ Held' = Held - hold[o] + 0
  BY <1>1, HeldWrite DEF CInv
<1>3. HoldsCovered'
  <2>1. Held \in Nat /\ hold[o] \in Nat /\ balance \in Nat /\ Held <= balance
    BY HeldFacts DEF CInv, Types, HoldsCovered
  <2> QED BY <1>1, <1>2, <2>1 DEF HoldsCovered
<1>4. Types'
  BY <1>1, <1>2 DEF CInv, Types
<1>5. HoldInv'
  BY <1>1 DEF CInv, HoldInv, Types
<1>6. UnitInv'
  BY <1>1 DEF CInv, UnitInv
<1>7. RefundInv' /\ FrozenInv' /\ EditInv'
  <2>1. \A p \in Orders : state[p] = "Paid" => state'[p] = "Paid"
    BY <1>1 DEF CInv, Types
  <2> QED BY <1>1, <1>4, <2>1, HoldFrame
<1> QED BY <1>3, <1>4, <1>5, <1>6, <1>7 DEF CInv

LEMMA AccountStep ==
  ASSUME CreditAssumption, CInv, NEW k \in Keys, NEW d \in Int, adjust(k, d) \/ disable(k)
  PROVE  CInv'
<1>1. UNCHANGED <<state, hold, alloc, redeemed, rows, refund, edit, failures>>
  BY DEF adjust, disable
<1>2. used' \subseteq Keys /\ disabled' \in BOOLEAN
  BY DEF adjust, disable, CInv, Types
<1>3. balance' \in Nat /\ Held \in Nat /\ Held <= balance'
  BY HeldFacts DEF adjust, disable, available, CInv, Types, HoldsCovered
<1>4. Held' = Held
  BY <1>1 DEF Held
<1>5. HoldsCovered'
  BY <1>3, <1>4 DEF HoldsCovered
<1>6. Types'
  BY <1>1, <1>2, <1>3 DEF CInv, Types
<1>7. HoldInv' /\ UnitInv'
  BY <1>1 DEF CInv, HoldInv, UnitInv
<1>8. RefundInv' /\ FrozenInv' /\ EditInv'
  BY <1>1, <1>6, HoldFrame
<1> QED BY <1>5, <1>6, <1>7, <1>8 DEF CInv

-----------------------------------------------------------------------------
(* Refunds. *)

\* A refund row other than r, when only r is written and rows only grow.
LEMMA OtherRefund ==
  ASSUME NEW x \in Refunds, RefundAt(x), refund'[x] = refund[x], UNCHANGED <<state, redeemed>>,
         \A p \in Orders : Posted(p, x)' <=> Posted(p, x),
         \A p \in Orders : returnedIndexes(p) \subseteq returnedIndexes(p)'
  PROVE  RefundAt(x)'
<1>1. refund[x].frozen => refund[x].order \in Orders
  BY DEF RefundAt
<1> QED BY <1>1 DEF RefundAt

LEMMA RefundsOfFacts ==
  ASSUME Types, RefundInv, NEW o \in Orders, NEW x \in RefundsOf(o)
  PROVE  /\ x \in Refunds /\ refund[x] \in RefundRec /\ RefundAt(x) /\ refund[x].order = o
         /\ refund[x].state \notin {"none", "Failed"}
         /\ DOMAIN refund[x].cents \in SUBSET Units
         /\ refund[x].frozen => DOMAIN refund[x].cents \subseteq FrozenUnits(o)
<1>1. /\ x \in Refunds /\ refund[x] \in RefundRec /\ RefundAt(x) /\ refund[x].order = o
      /\ refund[x].state \notin {"none", "Failed"}
  BY DEF RefundsOf, Types, RefundInv
<1>2. DOMAIN refund[x].cents \in SUBSET Units
  <2>1. PICK D \in SUBSET Units : refund[x].cents \in [D -> Nat]
    BY <1>1 DEF RefundRec, CentsOf
  <2> QED BY <2>1
<1>3. ASSUME refund[x].frozen PROVE DOMAIN refund[x].cents \subseteq FrozenUnits(o)
  BY <1>3 DEF FrozenUnits
<1> QED BY <1>1, <1>2, <1>3

\* A write of one refund row decides for that row only.
LEMMA RefundWritten ==
  ASSUME NEW r \in Refunds, \A x \in Refunds : x # r => refund'[x] = refund[x], NEW p
  PROVE  /\ \A x : x # r => (x \in RefundsOf(p)' <=> x \in RefundsOf(p))
         /\ r \in RefundsOf(p) <=> refund[r].order = p /\ refund[r].state \notin {"none", "Failed"}
         /\ r \in RefundsOf(p)' <=> refund'[r].order = p /\ refund'[r].state \notin {"none", "Failed"}
         /\ RefundsOf(p) \in SUBSET Refunds /\ RefundsOf(p)' \in SUBSET Refunds
<1>1. ASSUME NEW x, x # r PROVE x \in RefundsOf(p)' <=> x \in RefundsOf(p)
  <2>1. x \in RefundsOf(p) <=> x \in Refunds /\ refund[x].order = p /\ refund[x].state \notin {"none", "Failed"}
    BY DEF RefundsOf
  <2>2. x \in RefundsOf(p)' <=> x \in Refunds /\ refund'[x].order = p /\ refund'[x].state \notin {"none", "Failed"}
    BY DEF RefundsOf
  <2> QED BY <1>1, <2>1, <2>2
<1> QED BY <1>1 DEF RefundsOf

LEMMA InFrozen ==
  ASSUME NEW o, NEW u
  PROVE  u \in FrozenUnits(o) <=> \E x \in RefundsOf(o) : refund[x].frozen /\ u \in DOMAIN refund[x].cents
BY DEF FrozenUnits

LEMMA InFrozenAfter ==
  ASSUME NEW o, NEW u
  PROVE  u \in FrozenUnits(o)' <=>
           \E x \in RefundsOf(o)' : refund'[x].frozen /\ u \in DOMAIN refund'[x].cents
BY DEF FrozenUnits

LEMMA FreeFacts ==
  ASSUME CreditAssumption, NEW S \in SUBSET Units
  PROVE  S \in SUBSET Nat /\ IsFiniteSet(S) /\ \A u \in S : u <= NUnits
BY UnitFacts, FS_Subset

LEMMA RequestStep ==
  ASSUME CreditAssumption, CInv, NEW r \in Refunds, NEW o \in Orders, NEW n \in Units,
         requestRefund(r, o, n)
  PROVE  CInv'
<1> DEFINE units == First(creditRefundSelection(o), n)
           free == Units \ (returnedIndexes(o) \cup FrozenUnits(o))
<1>1. /\ refund[r].state = "none" /\ state[o] = "Paid" /\ ~PendingEdit(o)
      /\ UNCHANGED <<balance, disabled, used, state, hold, alloc, redeemed, rows, edit, failures>>
      /\ refund' = [refund EXCEPT ![r] = [NoRefund EXCEPT
           !.state = "Pending", !.order = o, !.qty = n, !.frozen = redeemed[o],
           !.cents = IF redeemed[o] THEN [u \in units |-> remaining(o, u)] ELSE <<>>]]
  BY DEF requestRefund
<1>2. Types /\ HoldsCovered /\ HoldInv /\ UnitInv /\ RefundInv /\ FrozenInv /\ EditInv
  BY DEF CInv
<1>3. n \in Nat /\ refund \in [Refunds -> RefundRec] /\ redeemed[o] \in BOOLEAN /\ UnmappedQty(o) \in Nat
  BY <1>2, UnitFacts, QtyFacts DEF Types
<1>4. /\ units \in SUBSET free /\ free \in SUBSET Units
      /\ \A u \in units : u \notin First(free, UnmappedQty(o))
  BY DEF First, creditRefundSelection
<1> HIDE DEF units
<1>5. ASSUME NEW u \in units PROVE remaining(o, u) \in Nat
  BY <1>2, <1>4, Views DEF UnitInv, Sound
<1>6. /\ refund'[r].state = "Pending" /\ refund'[r].order = o /\ refund'[r].frozen = redeemed[o]
      /\ refund'[r].restoration = "none" /\ refund'[r].late = FALSE /\ refund'[r].qty = n
      /\ redeemed[o] => refund'[r].cents = [u \in units |-> remaining(o, u)]
      /\ ~redeemed[o] => refund'[r].cents = <<>>
      /\ refund'[r] = [state |-> refund'[r].state, order |-> refund'[r].order,
                       frozen |-> refund'[r].frozen, cents |-> refund'[r].cents,
                       qty |-> refund'[r].qty, restoration |-> refund'[r].restoration,
                       late |-> refund'[r].late]
      /\ DOMAIN refund' = Refunds /\ refund' = [x \in Refunds |-> refund'[x]]
      /\ \A x \in Refunds : x # r => refund'[x] = refund[x]
  BY <1>1, <1>3 DEF NoRefund
<1>7. refund'[r].cents \in CentsOf
  <2>1. CASE redeemed[o]
    <3>1. refund'[r].cents \in [units -> Nat] /\ units \in SUBSET Units
      BY <1>4, <1>5, <1>6, <2>1
    <3> QED BY <3>1 DEF CentsOf
  <2>2. CASE ~redeemed[o]
    BY <1>6, <2>2, EmptyCents
  <2> QED BY <2>1, <2>2
<1>8. refund' \in [Refunds -> RefundRec]
  <2>1. refund'[r] \in RefundRec
    BY <1>3, <1>6, <1>7 DEF RefundRec
  <2> QED BY <1>3, <1>6, <2>1
<1>9. Types'
  BY <1>1, <1>2, <1>8 DEF Types
<1>10. HoldsCovered' /\ HoldInv' /\ UnitInv'
  BY <1>1, <1>2 DEF HoldsCovered, Held, HoldInv, UnitInv
<1>11. \A p : \A x \in Refunds : Posted(p, x)' <=> Posted(p, x)
  BY <1>1 DEF Posted
<1>12. \A p : returnedIndexes(p)' = returnedIndexes(p) /\ \A u : remaining(p, u)' = remaining(p, u)
  BY <1>1, Views, ViewsAfter
<1>13. RefundInv'
  <2>1. ASSUME NEW x \in Refunds, x # r PROVE RefundAt(x)'
    BY <1>1, <1>2, <1>6, <1>11, <1>12, <2>1, OtherRefund DEF RefundInv
  <2>2. RefundAt(r)'
    <3>1. RefundAt(r) /\ refund[r].restoration = "none"
      BY <1>1, <1>2, <1>3 DEF RefundInv, RefundAt
    <3>2. \A p \in Orders : ~Posted(p, r)'
      BY <1>11, <3>1 DEF RefundAt
    <3> QED BY <1>1, <1>6, <3>2 DEF RefundAt
  <2> QED BY <2>1, <2>2 DEF RefundInv
<1>14. r \notin RefundsOf(o) /\ RefundsOf(o)' = RefundsOf(o) \cup {r} /\ RefundsOf(o) \in SUBSET Refunds
  <2>1. /\ \A x : x # r => (x \in RefundsOf(o)' <=> x \in RefundsOf(o))
        /\ r \notin RefundsOf(o) /\ r \in RefundsOf(o)' /\ RefundsOf(o) \in SUBSET Refunds
    BY <1>1, <1>6, RefundWritten
  <2> QED BY <2>1
<1>15. ASSUME NEW p \in Orders, p # o
       PROVE  (~Late(p)' => FrozenAt(p)') /\ (PendingEdit(p)' => EditAt(p)')
  <2>1. RefundsOf(p)' = RefundsOf(p) /\ r \notin RefundsOf(p)
    <3>1. /\ \A x : x # r => (x \in RefundsOf(p)' <=> x \in RefundsOf(p))
          /\ r \notin RefundsOf(p) /\ r \notin RefundsOf(p)'
      BY <1>1, <1>6, <1>15, RefundWritten
    <3> QED BY <3>1
  <2>2. SameRefunds(p)
    BY <1>6, <1>11, <2>1, QtyFacts, <1>2 DEF SameRefunds
  <2> QED BY <1>1, <1>2, <1>9, <2>2, OtherOrder
<1>16. ASSUME ~Late(o)' PROVE FrozenAt(o)'
  <2>1. ~Late(o)
    BY <1>6, <1>14, <1>16 DEF Late
  <2>2. FrozenAt(o)
    BY <1>2, <2>1 DEF FrozenInv
  <2>3. CASE ~redeemed[o]
    <3>1. \A x \in RefundsOf(o)' : ~refund'[x].frozen
      BY <1>2, <1>6, <1>14, <2>3, RefundsOfFacts DEF RefundAt
    <3>2. FrozenUnits(o)' = {}
      BY <3>1, InFrozenAfter
    <3> QED BY <3>1, <3>2 DEF FrozenAt, Waiting
  <2>4. CASE redeemed[o]
    <3>1. DOMAIN refund'[r].cents = units /\ refund'[r].frozen
      BY <1>6, <2>4
    <3>2. \A u : u \in FrozenUnits(o)' <=> u \in FrozenUnits(o) \cup units
      BY <1>6, <1>14, <3>1, InFrozen, InFrozenAfter
    <3>3. ASSUME NEW x \in RefundsOf(o), refund[x].frozen
          PROVE  DOMAIN refund'[x].cents \cap units = {}
      <4>1. DOMAIN refund[x].cents \subseteq FrozenUnits(o) /\ refund'[x] = refund[x]
        BY <1>2, <1>6, <1>14, <3>3, RefundsOfFacts
      <4> QED BY <1>4, <4>1
    <3>4. ASSUME NEW x \in RefundsOf(o)', NEW y \in RefundsOf(o)', x # y, refund'[x].frozen, refund'[y].frozen
          PROVE  DOMAIN refund'[x].cents \cap DOMAIN refund'[y].cents = {}
      <4>1. CASE x = r \/ y = r
        BY <1>6, <1>14, <3>1, <3>3, <3>4, <4>1
      <4>2. CASE x # r /\ y # r
        BY <1>6, <1>14, <2>2, <3>4, <4>2 DEF FrozenAt
      <4> QED BY <4>1, <4>2
    <3>5. Unmapped(o)' = Unmapped(o)
      BY <1>6, <1>11, <1>14, <3>1 DEF Unmapped
    <3>6. UnmappedQty(o)' = UnmappedQty(o)
      <4> DEFINE f == [x \in Refunds |-> refund[x].qty]
                 g == [x \in Refunds |-> refund'[x].qty]
      <4>1. f \in [Refunds -> Nat] /\ Unmapped(o) \in SUBSET Refunds /\ IsFiniteSet(Unmapped(o))
        BY <1>2, QtyFacts
      <4>2. g \in [Refunds -> Nat]
        BY <1>8 DEF RefundRec
      <4>3. r \notin Unmapped(o)
        BY <1>14 DEF Unmapped
      <4>4. \A x \in Unmapped(o) : f[x] = g[x]
        BY <1>6, <4>1, <4>3
      <4>5. UnmappedQty(o) = SumOver(f, Unmapped(o)) /\ UnmappedQty(o)' = SumOver(g, Unmapped(o)')
        BY DEF UnmappedQty
      <4> HIDE DEF f, g
      <4> QED BY <3>5, <4>1, <4>2, <4>4, <4>5, SumSame
    <3>7. ASSUME NEW u \in FrozenUnits(o)' PROVE u \notin First(Units \ returnedIndexes(o), UnmappedQty(o))
      <4>1. PICK S : S = Units \ returnedIndexes(o)
        OBVIOUS
      <4>2. S \in SUBSET Nat /\ IsFiniteSet(S) /\ free \in SUBSET S
        BY <4>1, FreeFacts
      <4>3. CASE u \in FrozenUnits(o)
        BY <2>2, <4>3 DEF FrozenAt
      <4>4. CASE u \in units
        <5>1. u \in free /\ u \notin First(free, UnmappedQty(o))
          BY <1>4, <4>4
        <5> HIDE DEF free
        <5>2. u \notin First(S, UnmappedQty(o))
          BY <1>3, <4>2, <5>1, FirstPart
        <5> QED BY <4>1, <5>2
      <4> QED BY <3>2, <4>3, <4>4
    <3>8. (FrozenUnits(o) \cap First(Units \ returnedIndexes(o), UnmappedQty(o)) = {})'
      BY <1>12, <3>6, <3>7 DEF First
    <3>9. ASSUME NEW x \in RefundsOf(o)', Waiting(x)' PROVE Restorable(x, o)'
      <4>1. CASE x = r
        <5>1. /\ DOMAIN refund'[r].cents \cap returnedIndexes(o)' = {}
              /\ \A u \in DOMAIN refund'[r].cents : remaining(o, u)' = refund'[r].cents[u]
          BY <1>4, <1>6, <1>12, <2>4, <3>1
        <5> QED BY <3>1, <4>1, <5>1 DEF Restorable
      <4>2. CASE x # r
        <5>1. x \in RefundsOf(o) /\ refund'[x] = refund[x] /\ Waiting(x)
          BY <1>6, <1>14, <3>9, <4>2 DEF Waiting
        <5>2. Restorable(x, o)
          BY <2>2, <5>1 DEF FrozenAt
        <5> QED BY <1>12, <5>1, <5>2 DEF Restorable, Waiting
      <4> QED BY <4>1, <4>2
    <3> QED BY <3>4, <3>8, <3>9 DEF FrozenAt
  <2> QED BY <2>3, <2>4
<1>17. ~PendingEdit(o)'
  BY <1>1 DEF PendingEdit
<1>18. FrozenInv' /\ EditInv'
  <2>1. FrozenInv'
    BY <1>15, <1>16 DEF FrozenInv
  <2>2. EditInv'
    BY <1>15, <1>17 DEF EditInv
  <2> QED BY <2>1, <2>2
<1> QED BY <1>9, <1>10, <1>13, <1>18 DEF CInv

\* The quantities of the refunds that stay, and of the ones that leave.
LEMMA QtyAfter ==
  ASSUME CreditAssumption, Types, Types', NEW o, Unmapped(o)' \in SUBSET Unmapped(o),
         \A x \in Refunds : refund'[x].qty = refund[x].qty
  PROVE  /\ UnmappedQty(o)' \in Nat /\ UnmappedQty(o) \in Nat /\ UnmappedQty(o)' <= UnmappedQty(o)
         /\ Unmapped(o)' = Unmapped(o) => UnmappedQty(o)' = UnmappedQty(o)
         /\ \A r \in Unmapped(o) : Unmapped(o)' = Unmapped(o) \ {r} =>
              /\ refund[r].qty \in Nat /\ refund[r].qty <= UnmappedQty(o)
              /\ UnmappedQty(o)' = UnmappedQty(o) - refund[r].qty
<1>1. PICK f : f = [x \in Refunds |-> refund[x].qty]
  OBVIOUS
<1>2. PICK T : T = Unmapped(o)'
  OBVIOUS
<1>3. PICK S : S = Unmapped(o)
  OBVIOUS
<1>4. f \in [Refunds -> Nat] /\ S \in SUBSET Refunds /\ IsFiniteSet(S) /\ T \in SUBSET S /\ T \in SUBSET Refunds
  BY <1>1, <1>2, <1>3, QtyFacts
<1>5. IsFiniteSet(T)
  BY <1>4, FS_Subset
<1>6. [x \in Refunds |-> refund'[x].qty] = f
  BY <1>1
<1>7. UnmappedQty(o)' = SumOver(f, T)
  BY <1>2, <1>6 DEF UnmappedQty
<1>8. UnmappedQty(o) = SumOver(f, S)
  BY <1>1, <1>3 DEF UnmappedQty
<1>9. SumOver(f, T) \in Nat /\ SumOver(f, S) \in Nat /\ SumOver(f, T) <= SumOver(f, S)
  BY <1>4, <1>5, SumType, SumMono
<1>10. ASSUME NEW r \in S, T = S \ {r}
       PROVE  f[r] \in Nat /\ f[r] <= SumOver(f, S) /\ SumOver(f, T) = SumOver(f, S) - f[r]
  <2>1. SumOver(f, S) = f[r] + SumOver(f, S \ {r}) /\ SumOver(f, S \ {r}) \in Nat
    BY <1>4, SumAdd
  <2>2. f[r] \in Nat
    BY <1>4
  <2> QED BY <1>9, <1>10, <2>1, <2>2
<1>11. \A r \in S : f[r] = refund[r].qty
  BY <1>1, <1>4
<1> QED BY <1>2, <1>3, <1>7, <1>8, <1>9, <1>10, <1>11

\* A refund row of one order is no concern of another order.
LEMMA OtherOrders ==
  ASSUME CreditAssumption, Types, Types', FrozenInv, EditInv, NEW r \in Refunds, NEW o, NEW p \in Orders, p # o,
         refund[r].order = o, refund'[r].order = o, \A x \in Refunds : x # r => refund'[x] = refund[x],
         rows'[p] = rows[p], UNCHANGED <<alloc, edit>>
  PROVE  /\ ~Late(p)' => FrozenAt(p)'
         /\ PendingEdit(p)' => EditAt(p)'
<1>1. /\ \A x : x # r => (x \in RefundsOf(p)' <=> x \in RefundsOf(p))
      /\ r \notin RefundsOf(p) /\ r \notin RefundsOf(p)' /\ RefundsOf(p) \in SUBSET Refunds
  BY RefundWritten
<1>2. RefundsOf(p)' = RefundsOf(p)
  BY <1>1
<1>3. \A x \in RefundsOf(p) : refund'[x] = refund[x]
  BY <1>1
<1>4. \A x \in Refunds : Posted(p, x)' <=> Posted(p, x)
  BY DEF Posted
<1>5. SameRefunds(p)
  BY <1>2, <1>3, <1>4 DEF SameRefunds
<1> QED BY <1>5, OtherOrder

LEMMA RefundFailedStep ==
  ASSUME CreditAssumption, CInv, NEW r \in Refunds, refundFailed(r)
  PROVE  CInv'
<1>1. /\ refund[r].state = "Pending" /\ refund' = [refund EXCEPT ![r].state = "Failed"]
      /\ UNCHANGED <<balance, disabled, used, state, hold, alloc, redeemed, rows, edit, failures>>
  BY DEF refundFailed
<1>2. Types /\ HoldsCovered /\ HoldInv /\ UnitInv /\ RefundInv /\ FrozenInv /\ EditInv
  BY DEF CInv
<1>3. refund \in [Refunds -> RefundRec] /\ refund[r] \in RefundRec
  BY <1>2 DEF Types
<1>4. refund' \in [Refunds -> RefundRec]
  BY <1>1, <1>3 DEF RefundRec
<1>5. /\ refund'[r].state = "Failed" /\ refund'[r].order = refund[r].order
      /\ refund'[r].frozen = refund[r].frozen /\ refund'[r].cents = refund[r].cents
      /\ refund'[r].qty = refund[r].qty /\ refund'[r].restoration = refund[r].restoration
      /\ refund'[r].late = refund[r].late
      /\ \A x \in Refunds : x # r => refund'[x] = refund[x]
  BY <1>1, <1>3 DEF RefundRec
<1>6. Types'
  BY <1>1, <1>2, <1>4 DEF Types
<1>7. HoldsCovered' /\ HoldInv' /\ UnitInv'
  BY <1>1, <1>2 DEF HoldsCovered, Held, HoldInv, UnitInv
<1>8. PICK o : o = refund[r].order
  OBVIOUS
<1>9. RefundAt(r) /\ o \in Orders
  BY <1>1, <1>2, <1>8 DEF RefundInv, RefundAt
<1>10. \A p : \A x \in Refunds : Posted(p, x)' <=> Posted(p, x)
  BY <1>1 DEF Posted
<1>11. \A p : returnedIndexes(p)' = returnedIndexes(p) /\ \A u : remaining(p, u)' = remaining(p, u)
  BY <1>1, Views, ViewsAfter
<1>12. RefundInv'
  <2>1. ASSUME NEW x \in Refunds, x # r PROVE RefundAt(x)'
    BY <1>1, <1>2, <1>5, <1>10, <1>11, <2>1, OtherRefund DEF RefundInv
  <2>2. RefundAt(r)'
    BY <1>1, <1>5, <1>9, <1>10, <1>11 DEF RefundAt
  <2> QED BY <2>1, <2>2 DEF RefundInv
<1>13. ASSUME NEW p \in Orders, p # o
       PROVE  (~Late(p)' => FrozenAt(p)') /\ (PendingEdit(p)' => EditAt(p)')
  BY <1>1, <1>2, <1>5, <1>6, <1>8, <1>13, OtherOrders
<1>14. RefundsOf(o)' = RefundsOf(o) \ {r} /\ r \in RefundsOf(o) /\ RefundsOf(o) \in SUBSET Refunds
  <2>1. /\ \A x : x # r => (x \in RefundsOf(o)' <=> x \in RefundsOf(o))
        /\ r \in RefundsOf(o) /\ r \notin RefundsOf(o)' /\ RefundsOf(o) \in SUBSET Refunds
    BY <1>1, <1>5, <1>8, RefundWritten
  <2> QED BY <2>1
<1>15. Late(o)' <=> Late(o)
  <2>1. ~refund[r].late
    BY <1>1, <1>9 DEF RefundAt
  <2> QED BY <1>5, <1>14, <2>1 DEF Late
<1>16. ASSUME ~Late(o)' PROVE FrozenAt(o)'
  <2>1. FrozenAt(o)
    BY <1>2, <1>9, <1>15, <1>16 DEF FrozenInv
  <2>2. \A x, y \in RefundsOf(o)' : x # y /\ refund'[x].frozen /\ refund'[y].frozen =>
            DOMAIN refund'[x].cents \cap DOMAIN refund'[y].cents = {}
    BY <1>5, <1>14, <2>1 DEF FrozenAt
  <2>3. ASSUME NEW x \in RefundsOf(o)', Waiting(x)' PROVE Restorable(x, o)'
    <3>1. x \in RefundsOf(o) /\ refund'[x] = refund[x] /\ Waiting(x)
      BY <1>5, <1>14, <2>3 DEF Waiting
    <3>2. Restorable(x, o)
      BY <2>1, <3>1 DEF FrozenAt
    <3> QED BY <1>11, <3>1, <3>2 DEF Restorable, Waiting
  <2>4. Unmapped(o)' \in SUBSET Unmapped(o)
    BY <1>5, <1>10, <1>14 DEF Unmapped
  <2>5. UnmappedQty(o)' \in Nat /\ UnmappedQty(o) \in Nat /\ UnmappedQty(o)' <= UnmappedQty(o)
    BY <1>2, <1>5, <1>6, <2>4, QtyAfter
  <2>6. ASSUME NEW u \in FrozenUnits(o)'
        PROVE  u \notin First(Units \ returnedIndexes(o), UnmappedQty(o)')
    <3>1. u \in FrozenUnits(o)
      BY <1>5, <1>14, InFrozen, InFrozenAfter
    <3>2. PICK S : S = Units \ returnedIndexes(o)
      OBVIOUS
    <3>3. S \in SUBSET Nat /\ IsFiniteSet(S)
      BY <3>2, FreeFacts
    <3>4. PICK m : m = UnmappedQty(o)'
      OBVIOUS
    <3>5. First(S, m) \subseteq First(S, UnmappedQty(o))
      BY <2>5, <3>3, <3>4, FirstMono
    <3>6. u \notin First(S, UnmappedQty(o))
      BY <2>1, <3>1, <3>2 DEF FrozenAt
    <3> QED BY <3>2, <3>4, <3>5, <3>6
  <2>7. (FrozenUnits(o) \cap First(Units \ returnedIndexes(o), UnmappedQty(o)) = {})'
    BY <1>11, <2>6 DEF First
  <2> QED BY <2>2, <2>3, <2>7 DEF FrozenAt
<1>17. ASSUME PendingEdit(o)' PROVE EditAt(o)'
  <2>1. PendingEdit(o)
    BY <1>1, <1>17 DEF PendingEdit
  <2>2. Late(o)
    BY <1>1, <1>2, <1>9, <1>14, <2>1 DEF EditInv, EditAt, Quiet
  <2>3. ~Fixed(o)'
    BY <1>15, <2>2 DEF Late, Fixed
  <2> QED BY <1>15, <2>2, <2>3 DEF EditAt
<1>18. FrozenInv' /\ EditInv'
  <2>1. FrozenInv'
    BY <1>13, <1>16 DEF FrozenInv
  <2>2. EditInv'
    BY <1>13, <1>17 DEF EditInv
  <2> QED BY <2>1, <2>2
<1> QED BY <1>6, <1>7, <1>12, <1>18 DEF CInv

\* The row that gives back all that is left on units nobody returned.
LEMMA ReturnRowFacts ==
  ASSUME CreditAssumption, Types, UnitInv, NEW o \in Orders, NEW key \in RowKeys,
         NEW X \in SUBSET (Units \ returnedIndexes(o)), NEW w, w = ReturnRow(o, key, X)
  PROVE  GivesBack(rows[o], alloc[o], w) /\ w.key = key /\ DOMAIN w.cents = X
<1>1. /\ w.key = key /\ w.isReturn /\ w.cents = [u \in X |-> remaining(o, u)] /\ DOMAIN w.cents = X
      /\ w = [key |-> w.key, cents |-> w.cents, isReturn |-> w.isReturn]
  BY DEF ReturnRow, RestoreRow
<1>2. /\ returnedIndexes(o) = Returned(rows[o]) /\ \A u : remaining(o, u) = Left(rows[o], alloc[o], u)
      /\ Sound(rows[o], alloc[o])
  BY Views DEF UnitInv
<1>3. \A u \in X : remaining(o, u) \in Nat
  BY <1>2 DEF Sound
<1>4. w.cents \in [X -> Nat] /\ X \in SUBSET Units
  BY <1>1, <1>3
<1>5. w.cents \in CentsOf
  BY <1>4 DEF CentsOf
<1>6. w \in RowRec
  <2>1. w.isReturn \in BOOLEAN
    BY DEF ReturnRow, RestoreRow
  <2> QED BY <1>1, <1>5, <2>1 DEF RowRec
<1>7. DOMAIN w.cents \cap Returned(rows[o]) = {} /\ \A u \in X : w.cents[u] = Left(rows[o], alloc[o], u)
  BY <1>1, <1>2
<1> QED BY <1>1, <1>6, <1>7 DEF GivesBack

\* A step that posts such a row.
LEMMA ReturnPosted ==
  ASSUME CreditAssumption, Types, UnitInv, NEW o \in Orders, NEW w, GivesBack(rows[o], alloc[o], w),
         rows'[o] = rows[o] \cup {w}, alloc'[o] = alloc[o]
  PROVE  /\ w \in RowRec /\ DOMAIN w.cents \in SUBSET Units /\ DOMAIN w.cents \cap returnedIndexes(o) = {}
         /\ Sound(rows[o] \cup {w}, alloc[o])
         /\ returnedIndexes(o)' = returnedIndexes(o) \cup DOMAIN w.cents
         /\ \A u \in Units \ DOMAIN w.cents : remaining(o, u)' = remaining(o, u)
<1>1. PICK R : R = rows[o]
  OBVIOUS
<1>2. PICK a \in [Units -> Nat] : a = alloc[o]
  BY DEF Types
<1>3. Sound(R, a) /\ GivesBack(R, a, w)
  BY <1>1, <1>2 DEF UnitInv
<1>4. Sound(R \cup {w}, a)
  BY <1>3, AddReturn
<1>5. Returned(R \cup {w}) = Returned(R) \cup DOMAIN w.cents
  BY <1>3, AddReturn
<1>6. \A u \in Units \ DOMAIN w.cents : Left(R \cup {w}, a, u) = Left(R, a, u)
  BY <1>3, AddReturn
<1>7. w \in RowRec /\ DOMAIN w.cents \in SUBSET Units /\ DOMAIN w.cents \cap returnedIndexes(o) = {}
  BY CentsFacts, Views DEF GivesBack
<1>8. Sound(rows[o] \cup {w}, alloc[o])
  BY <1>1, <1>2, <1>4
<1>9. returnedIndexes(o)' = returnedIndexes(o) \cup DOMAIN w.cents
  <2>1. returnedIndexes(o) = Returned(R)
    BY <1>1, Views
  <2>2. returnedIndexes(o)' = Returned(R \cup {w})
    BY <1>1, ViewsAfter
  <2> QED BY <1>5, <2>1, <2>2
<1>10. ASSUME NEW u \in Units \ DOMAIN w.cents PROVE remaining(o, u)' = remaining(o, u)
  <2>1. remaining(o, u) = Left(R, a, u)
    BY <1>1, <1>2, Views
  <2>2. remaining(o, u)' = Left(R \cup {w}, a, u)
    BY <1>1, <1>2, ViewsAfter
  <2> QED BY <1>6, <2>1, <2>2
<1> QED BY <1>7, <1>8, <1>9, <1>10

\* Its outcomes for the ledger: nothing is posted, or the row of the refund.
NotGiven(r) ==
  /\ UNCHANGED <<balance, rows>> /\ failures' \in 0 .. Failures
  /\ \/ ~redeemed[refund[r].order] /\ refund'[r].restoration = "not_applicable"
     \/ /\ redeemed[refund[r].order] /\ Posted(refund[r].order, r)
        /\ refund'[r].restoration = "posted"
     \/ /\ redeemed[refund[r].order] /\ ~Posted(refund[r].order, r)
        /\ refund'[r].restoration = "reconciliation_required"
Given(r) ==
  /\ redeemed[refund[r].order] /\ ~Posted(refund[r].order, r) /\ Restorable(r, refund[r].order)
  /\ postFundingRows(refund[r].order, {ReturnRow(refund[r].order, <<"refund", r>>, RestoredUnits(r, refund[r].order))})
  /\ refund'[r].restoration = "posted" /\ UNCHANGED failures

\* What finalizeRefund writes to the refund row.
LEMMA Finalized ==
  ASSUME CreditAssumption, Types, NEW r \in Refunds, finalizeRefund(r)
  PROVE  /\ refund' \in [Refunds -> RefundRec] /\ refund'[r].state = "Settled"
         /\ refund'[r].order = refund[r].order /\ refund'[r].frozen = refund[r].frozen
         /\ refund'[r].cents = refund[r].cents /\ refund'[r].qty = refund[r].qty
         /\ refund'[r].late <=> refund[r].late \/ refund[r].state = "Failed"
         /\ \A x \in Refunds : x # r => refund'[x] = refund[x]
         /\ NotGiven(r) \/ Given(r)
<1>1. refund \in [Refunds -> RefundRec] /\ refund[r] \in RefundRec
  BY DEF Types
<1>2. PICK late \in BOOLEAN : late <=> (refund[r].late \/ refund[r].state = "Failed")
  OBVIOUS
<1>3. late = (refund[r].late \/ refund[r].state = "Failed")
  BY <1>1, <1>2 DEF RefundRec
<1>4. restoreSettledRefundCredit(r, refund[r].order, late)
  BY <1>3 DEF finalizeRefund
<1>5. \E z \in {"posted", "not_applicable", "reconciliation_required"} :
        refund' = [refund EXCEPT ![r].state = "Settled", ![r].late = late, ![r].restoration = z]
  BY <1>4 DEF restoreSettledRefundCredit
<1>6. PICK z \in {"posted", "not_applicable", "reconciliation_required"} :
        refund' = [refund EXCEPT ![r].state = "Settled", ![r].late = late, ![r].restoration = z]
  BY <1>5
<1>7. refund' \in [Refunds -> RefundRec]
  BY <1>1, <1>6 DEF RefundRec
<1>8. /\ refund'[r].state = "Settled"
      /\ refund'[r].order = refund[r].order /\ refund'[r].frozen = refund[r].frozen
      /\ refund'[r].cents = refund[r].cents /\ refund'[r].qty = refund[r].qty
      /\ refund'[r].late = late
      /\ \A x \in Refunds : x # r => refund'[x] = refund[x]
  BY <1>1, <1>6 DEF RefundRec
<1>9. PICK o : o = refund[r].order
  OBVIOUS
<1>10. \A y : refund' = [refund EXCEPT ![r].state = "Settled", ![r].late = late, ![r].restoration = y] =>
         refund'[r].restoration = y
  BY <1>1 DEF RefundRec
<1>11. failures \in 0 .. Failures /\ Failures \in Nat
  BY DEF Types, CreditAssumption
<1>12. CASE /\ ~redeemed[o] \/ Posted(o, r)
            /\ refund' = [refund EXCEPT ![r].state = "Settled", ![r].late = late,
                            ![r].restoration = IF redeemed[o] THEN "posted" ELSE "not_applicable"]
            /\ UNCHANGED <<balance, rows, failures>>
  <2>1. refund'[r].restoration = IF redeemed[o] THEN "posted" ELSE "not_applicable"
    BY <1>10, <1>12
  <2> QED BY <1>2, <1>7, <1>8, <1>9, <1>11, <1>12, <2>1 DEF NotGiven
<1>13. CASE /\ redeemed[o] /\ ~Posted(o, r) /\ Restorable(r, o)
            /\ postFundingRows(o, {ReturnRow(o, <<"refund", r>>, RestoredUnits(r, o))})
            /\ refund' = [refund EXCEPT ![r].state = "Settled", ![r].late = late,
                            ![r].restoration = "posted"]
            /\ UNCHANGED failures
  <2>1. refund'[r].restoration = "posted"
    BY <1>10, <1>13
  <2>2. Given(r)
    BY <1>9, <1>13, <2>1 DEF Given
  <2> QED BY <1>2, <1>7, <1>8, <2>2
<1>14. CASE /\ redeemed[o] /\ ~Posted(o, r)
            /\ \/ ~Restorable(r, o) /\ UNCHANGED failures
               \/ failures < Failures /\ failures' = failures + 1
            /\ refund' = [refund EXCEPT ![r].state = "Settled", ![r].late = late,
                            ![r].restoration = "reconciliation_required"]
            /\ UNCHANGED <<balance, rows>>
  <2>1. refund'[r].restoration = "reconciliation_required"
    BY <1>10, <1>14
  <2>2. failures' \in 0 .. Failures
    BY <1>11, <1>14
  <2>3. NotGiven(r)
    BY <1>9, <1>14, <2>1, <2>2 DEF NotGiven
  <2> QED BY <1>2, <1>7, <1>8, <2>3
<1> QED BY <1>4, <1>9, <1>12, <1>13, <1>14 DEF restoreSettledRefundCredit

\* The refunds of its order once finalizeRefund is done.
LEMMA FinalizedOrder ==
  ASSUME CreditAssumption, CInv, NEW r \in Refunds, finalizeRefund(r), NEW o, o = refund[r].order
  PROVE  /\ o \in Orders /\ state[o] = "Paid" /\ RefundAt(r)
         /\ r \in RefundsOf(o)' /\ RefundsOf(o) \in SUBSET Refunds
         /\ ~Late(o)' => /\ RefundsOf(o)' = RefundsOf(o) /\ r \in RefundsOf(o) /\ ~Late(o)
                         /\ FrozenUnits(o)' = FrozenUnits(o)
         /\ Late(o)' => EditAt(o)'
<1>1. Types /\ RefundInv
  BY DEF CInv
<1>2. /\ refund'[r].state = "Settled"
      /\ refund'[r].order = refund[r].order /\ refund'[r].frozen = refund[r].frozen
      /\ refund'[r].cents = refund[r].cents
      /\ refund'[r].late <=> refund[r].late \/ refund[r].state = "Failed"
      /\ \A x \in Refunds : x # r => refund'[x] = refund[x]
  BY <1>1, Finalized
<1>3. refund[r].state \in {"Pending", "Failed", "Settled"}
  BY DEF finalizeRefund
<1>4. o \in Orders /\ state[o] = "Paid" /\ RefundAt(r)
  BY <1>1, <1>3 DEF RefundInv, RefundAt
<1>5. /\ \A x : x # r => (x \in RefundsOf(o)' <=> x \in RefundsOf(o))
      /\ r \in RefundsOf(o)' /\ RefundsOf(o) \in SUBSET Refunds
      /\ r \in RefundsOf(o) <=> refund[r].state \notin {"none", "Failed"}
  BY <1>2, RefundWritten
<1>6. ASSUME ~Late(o)'
      PROVE  /\ RefundsOf(o)' = RefundsOf(o) /\ r \in RefundsOf(o) /\ ~Late(o)
             /\ FrozenUnits(o)' = FrozenUnits(o)
  <2>1. ~refund'[r].late
    BY <1>5, <1>6 DEF Late
  <2>2. r \in RefundsOf(o)
    BY <1>2, <1>3, <1>5, <2>1
  <2>3. RefundsOf(o)' = RefundsOf(o)
    BY <1>5, <2>2
  <2>4. ~Late(o)
    BY <1>2, <1>5, <1>6, <2>1, <2>3 DEF Late
  <2>5. ASSUME NEW u PROVE u \in FrozenUnits(o)' <=> u \in FrozenUnits(o)
    <3>1. \A x \in RefundsOf(o) : refund'[x].frozen = refund[x].frozen /\ refund'[x].cents = refund[x].cents
      BY <1>2, <1>5
    <3> QED BY <2>3, <3>1, InFrozen, InFrozenAfter
  <2> QED BY <2>2, <2>3, <2>4, <2>5
<1>7. ASSUME Late(o)' PROVE ~Fixed(o)' /\ EditAt(o)'
  <2>1. ~Fixed(o)'
    BY <1>7 DEF Late, Fixed
  <2> QED BY <1>7, <2>1 DEF EditAt
<1> QED BY <1>4, <1>5, <1>6, <1>7

LEMMA FinalizeNotGiven ==
  ASSUME CreditAssumption, CInv, NEW r \in Refunds, finalizeRefund(r), NotGiven(r)
  PROVE  CInv'
<1>1. /\ UNCHANGED <<balance, disabled, used, state, hold, alloc, redeemed, rows, edit>>
      /\ failures' \in 0 .. Failures /\ refund[r].state \in {"Pending", "Failed", "Settled"}
  BY DEF finalizeRefund, NotGiven
<1>2. Types /\ HoldsCovered /\ HoldInv /\ UnitInv /\ RefundInv /\ FrozenInv /\ EditInv
  BY DEF CInv
<1>3. /\ refund' \in [Refunds -> RefundRec] /\ refund'[r].state = "Settled"
      /\ refund'[r].order = refund[r].order /\ refund'[r].frozen = refund[r].frozen
      /\ refund'[r].cents = refund[r].cents /\ refund'[r].qty = refund[r].qty
      /\ refund'[r].late <=> refund[r].late \/ refund[r].state = "Failed"
      /\ \A x \in Refunds : x # r => refund'[x] = refund[x]
  BY <1>2, Finalized
<1>4. Types'
  BY <1>1, <1>2, <1>3 DEF Types
<1>5. HoldsCovered' /\ HoldInv' /\ UnitInv'
  BY <1>1, <1>2 DEF HoldsCovered, Held, HoldInv, UnitInv
<1>6. PICK o : o = refund[r].order
  OBVIOUS
<1>7. /\ o \in Orders /\ state[o] = "Paid" /\ RefundAt(r)
      /\ r \in RefundsOf(o)' /\ RefundsOf(o) \in SUBSET Refunds
      /\ ~Late(o)' => /\ RefundsOf(o)' = RefundsOf(o) /\ r \in RefundsOf(o) /\ ~Late(o)
                      /\ FrozenUnits(o)' = FrozenUnits(o)
      /\ Late(o)' => EditAt(o)'
  BY <1>6, FinalizedOrder
<1>8. \A p : \A x \in Refunds : Posted(p, x)' <=> Posted(p, x)
  BY <1>1 DEF Posted
<1>9. \A p : returnedIndexes(p)' = returnedIndexes(p) /\ \A u : remaining(p, u)' = remaining(p, u)
  BY <1>1, Views, ViewsAfter
<1>10. ~redeemed[o] => ~Posted(o, r)
  BY <1>2, <1>7 DEF HoldInv, Posted
<1>11. /\ refund'[r].restoration = "posted" <=> Posted(o, r)
       /\ refund'[r].restoration = "not_applicable" => ~redeemed[o]
       /\ refund'[r].restoration # "none"
       /\ refund'[r].restoration = "reconciliation_required" => redeemed[o] /\ ~Posted(o, r)
  BY <1>6, <1>10 DEF NotGiven
<1>12. RefundInv'
  <2>1. ASSUME NEW x \in Refunds, x # r PROVE RefundAt(x)'
    BY <1>1, <1>2, <1>3, <1>8, <1>9, <2>1, OtherRefund DEF RefundInv
  <2>2. RefundAt(r)'
    <3>1. \A p \in Orders : Posted(p, r)' <=> refund'[r].order = p /\ refund'[r].restoration = "posted"
      BY <1>3, <1>6, <1>7, <1>8, <1>11 DEF RefundAt
    <3>2. refund'[r].frozen /\ refund'[r].restoration = "posted" =>
            DOMAIN refund'[r].cents \subseteq returnedIndexes(o)'
      BY <1>3, <1>6, <1>7, <1>9, <1>11 DEF RefundAt
    <3>3. refund'[r].frozen => redeemed'[o]
      BY <1>1, <1>3, <1>6, <1>7 DEF RefundAt
    <3>4. refund'[r].order = o /\ state'[o] = "Paid" /\ o \in Orders /\ (refund'[r].frozen => redeemed[o])
      BY <1>1, <1>3, <1>6, <1>7, <3>3
    <3> QED BY <1>3, <1>11, <3>1, <3>2, <3>3, <3>4 DEF RefundAt
  <2> QED BY <2>1, <2>2 DEF RefundInv
<1>13. ASSUME NEW p \in Orders, p # o
       PROVE  (~Late(p)' => FrozenAt(p)') /\ (PendingEdit(p)' => EditAt(p)')
  BY <1>1, <1>2, <1>3, <1>4, <1>6, <1>13, OtherOrders
<1>14. ASSUME ~Late(o)' PROVE FrozenAt(o)'
  <2>1. FrozenAt(o)
    BY <1>2, <1>7, <1>14 DEF FrozenInv
  <2>2. /\ RefundsOf(o)' = RefundsOf(o) /\ r \in RefundsOf(o)
        /\ \A x \in RefundsOf(o) : refund'[x].frozen = refund[x].frozen /\ refund'[x].cents = refund[x].cents
    BY <1>3, <1>7, <1>14
  <2>3. \A x, y \in RefundsOf(o)' : x # y /\ refund'[x].frozen /\ refund'[y].frozen =>
            DOMAIN refund'[x].cents \cap DOMAIN refund'[y].cents = {}
    BY <2>1, <2>2 DEF FrozenAt
  <2>4. ASSUME NEW x \in RefundsOf(o)', Waiting(x)' PROVE Restorable(x, o)'
    <3>1. x \in RefundsOf(o) /\ refund'[x].frozen = refund[x].frozen /\ refund'[x].cents = refund[x].cents
      BY <2>2
    <3>2. Waiting(x) /\ refund[x].frozen
      <4>1. CASE x = r
        <5>1. refund'[r].restoration = "reconciliation_required" /\ refund[r].frozen
          BY <1>3, <2>4, <4>1 DEF Waiting
        <5>2. ~Posted(o, r)
          BY <1>11, <5>1
        <5>3. refund[r].restoration \in {"none", "reconciliation_required"}
          BY <1>2, <1>6, <1>7, <5>1, <5>2 DEF RefundAt, Types, RefundRec
        <5>4. refund[r].state \notin {"none", "Failed"}
          BY <2>2 DEF RefundsOf
        <5>5. refund[r].state = "Pending" \/ refund[r].restoration = "reconciliation_required"
          BY <1>1, <1>7, <5>3, <5>4 DEF RefundAt
        <5> QED BY <4>1, <5>1, <5>5 DEF Waiting
      <4>2. CASE x # r
        BY <1>3, <1>7, <2>4, <3>1, <4>2 DEF Waiting
      <4> QED BY <4>1, <4>2
    <3>3. Restorable(x, o)
      BY <2>1, <3>1, <3>2 DEF FrozenAt
    <3> QED BY <1>9, <3>1, <3>2, <3>3 DEF Restorable
  <2>5. Unmapped(o)' = Unmapped(o)
    BY <1>7, <1>8, <2>2 DEF Unmapped
  <2>6. UnmappedQty(o)' = UnmappedQty(o)
    BY <1>2, <1>3, <1>4, <2>5, QtyAfter
  <2>7. (FrozenUnits(o) \cap First(Units \ returnedIndexes(o), UnmappedQty(o)) = {})'
    <3>1. FrozenUnits(o) \cap First(Units \ returnedIndexes(o), UnmappedQty(o)) = {}
      BY <2>1 DEF FrozenAt
    <3> QED BY <1>7, <1>9, <1>14, <2>6, <3>1 DEF First
  <2> QED BY <2>3, <2>4, <2>7 DEF FrozenAt
<1>15. ASSUME PendingEdit(o)' PROVE EditAt(o)'
  <2>1. CASE Late(o)'
    BY <1>7, <2>1
  <2>2. CASE ~Late(o)'
    <3>1. PendingEdit(o) /\ ~Late(o)
      BY <1>1, <1>7, <1>15, <2>2 DEF PendingEdit
    <3>2. Quiet(o) /\ (Fixed(o) => edit[o].prefix = PrefixDigest(o))
      BY <1>2, <1>7, <3>1 DEF EditInv, EditAt
    <3>3. RefundsOf(o)' = RefundsOf(o) /\ r \in RefundsOf(o) /\ refund[r].state = "Settled"
      BY <1>7, <2>2, <3>2 DEF Quiet
    <3>4. refund[r].frozen => Posted(o, r)
      BY <1>6, <1>7, <3>2, <3>3 DEF Quiet, RefundAt
    <3>5. Quiet(o)'
      <4>1. refund'[r].frozen => refund'[r].restoration = "posted"
        BY <1>3, <1>11, <3>4
      <4> QED BY <1>3, <1>7, <3>2, <3>3, <4>1 DEF Quiet
    <3>6. ASSUME Fixed(o)' PROVE Fixed(o)
      BY <1>3, <1>7, <3>3, <3>6 DEF Fixed
    <3>7. \A x \in Refunds : refund'[x].order = refund[x].order /\ refund'[x].state = refund[x].state
      BY <1>3, <3>3
    <3>8. PrefixDigest(o)' = PrefixDigest(o)
      BY <1>1, <3>7 DEF PrefixDigest
    <3> QED BY <1>1, <3>2, <3>5, <3>6, <3>8 DEF EditAt
  <2> QED BY <2>1, <2>2
<1>16. FrozenInv' /\ EditInv'
  <2>1. FrozenInv'
    BY <1>13, <1>14 DEF FrozenInv
  <2>2. EditInv'
    BY <1>13, <1>15 DEF EditInv
  <2> QED BY <2>1, <2>2
<1> QED BY <1>4, <1>5, <1>12, <1>16 DEF CInv

\* A posted row is the refund's own, and nobody else's.
LEMMA KeyPosted ==
  ASSUME NEW o, NEW w, rows'[o] = rows[o] \cup {w}, NEW x
  PROVE  Posted(o, x)' <=> Posted(o, x) \/ w.key = <<"refund", x>>
BY DEF Posted

LEMMA FinalizeGiven ==
  ASSUME CreditAssumption, CInv, NEW r \in Refunds, finalizeRefund(r), Given(r)
  PROVE  CInv'
<1>1. /\ UNCHANGED <<disabled, used, state, hold, alloc, redeemed, edit, failures>>
      /\ refund[r].state \in {"Pending", "Failed", "Settled"}
  BY DEF finalizeRefund, Given
<1>2. Types /\ HoldsCovered /\ HoldInv /\ UnitInv /\ RefundInv /\ FrozenInv /\ EditInv
  BY DEF CInv
<1>3. /\ refund' \in [Refunds -> RefundRec] /\ refund'[r].state = "Settled"
      /\ refund'[r].order = refund[r].order /\ refund'[r].frozen = refund[r].frozen
      /\ refund'[r].cents = refund[r].cents /\ refund'[r].qty = refund[r].qty
      /\ refund'[r].late <=> refund[r].late \/ refund[r].state = "Failed"
      /\ \A x \in Refunds : x # r => refund'[x] = refund[x]
  BY <1>2, Finalized
<1>4. PICK o : o = refund[r].order
  OBVIOUS
<1>5. /\ o \in Orders /\ state[o] = "Paid" /\ RefundAt(r)
      /\ r \in RefundsOf(o)' /\ RefundsOf(o) \in SUBSET Refunds
      /\ ~Late(o)' => /\ RefundsOf(o)' = RefundsOf(o) /\ r \in RefundsOf(o) /\ ~Late(o)
                      /\ FrozenUnits(o)' = FrozenUnits(o)
      /\ Late(o)' => EditAt(o)'
  BY <1>4, FinalizedOrder
<1>6. PICK X : X = RestoredUnits(r, o)
  OBVIOUS
<1>7. PICK w : w = ReturnRow(o, <<"refund", r>>, X)
  OBVIOUS
<1>8. /\ redeemed[o] /\ ~Posted(o, r) /\ Restorable(r, o) /\ refund'[r].restoration = "posted"
      /\ postFundingRows(o, {w})
  BY <1>4, <1>6, <1>7 DEF Given
<1>9. PICK S : S = Units \ returnedIndexes(o)
  OBVIOUS
<1>10. S \in SUBSET Nat /\ IsFiniteSet(S) /\ S \in SUBSET Units /\ \A u \in S : u <= NUnits
  BY <1>9, FreeFacts
<1>11. refund[r].qty \in Nat /\ NUnits \in Nat
  BY <1>2, UnitFacts DEF Types, RefundRec
<1>12. X \in SUBSET S
  <2>1. CASE refund[r].frozen
    <3>1. DOMAIN refund[r].cents \in SUBSET Units
      <4>1. refund[r].cents \in CentsOf
        BY <1>2 DEF Types, RefundRec
      <4> QED BY <4>1 DEF CentsOf
    <3> QED BY <1>6, <1>8, <1>9, <2>1, <3>1 DEF RestoredUnits, Restorable
  <2>2. CASE ~refund[r].frozen
    <3>1. X = First(S, refund[r].qty)
      BY <1>6, <1>9, <2>2 DEF RestoredUnits
    <3> QED BY <3>1 DEF First
  <2> QED BY <2>1, <2>2
<1>13. GivesBack(rows[o], alloc[o], w) /\ w.key = <<"refund", r>> /\ DOMAIN w.cents = X
  <2>1. <<"refund", r>> \in RowKeys
    BY DEF RowKeys
  <2> QED BY <1>2, <1>5, <1>7, <1>9, <1>12, <2>1, ReturnRowFacts
<1>14. rows'[o] = rows[o] \cup {w} /\ alloc'[o] = alloc[o]
  BY <1>1, <1>2, <1>5, <1>8 DEF postFundingRows, Types
<1>15. /\ w \in RowRec
       /\ Sound(rows[o] \cup {w}, alloc[o])
       /\ returnedIndexes(o)' = returnedIndexes(o) \cup X
       /\ \A u \in Units \ X : remaining(o, u)' = remaining(o, u)
  BY <1>2, <1>5, <1>13, <1>14, ReturnPosted
<1>16. /\ balance' \in Nat /\ HoldsCovered' /\ HoldInv' /\ UnitInv'
       /\ rows' \in [Orders -> SUBSET RowRec] /\ \A p \in Orders : IsFiniteSet(rows'[p])
       /\ \A p \in Orders : p # o => rows'[p] = rows[p]
  <2>1. PICK P : P = {w}
    OBVIOUS
  <2>2. P \in SUBSET RowRec /\ IsFiniteSet(P) /\ Sound(rows[o] \cup P, alloc[o]) /\ postFundingRows(o, P)
    BY <1>8, <1>15, <2>1, FS_Singleton
  <2> QED BY <1>1, <1>2, <1>5, <1>8, <2>2, PostStep
<1>17. Types'
  BY <1>1, <1>2, <1>3, <1>16 DEF Types
<1>18. \A p \in Orders : \A x \in Refunds : x # r \/ p # o => (Posted(p, x)' <=> Posted(p, x))
  <2>1. ASSUME NEW p \in Orders, NEW x \in Refunds, x # r \/ p # o PROVE Posted(p, x)' <=> Posted(p, x)
    <3>1. CASE p = o
      BY <1>13, <1>14, <2>1, <3>1, KeyPosted
    <3>2. CASE p # o
      BY <1>16, <3>2 DEF Posted
    <3> QED BY <3>1, <3>2
  <2> QED BY <2>1
<1>19. Posted(o, r)'
  BY <1>13, <1>14, KeyPosted
<1>20. \A p \in Orders : returnedIndexes(p) \subseteq returnedIndexes(p)'
  <2>1. ASSUME NEW p \in Orders, p # o PROVE returnedIndexes(p)' = returnedIndexes(p)
    BY <1>16, <2>1, Views, ViewsAfter
  <2> QED BY <1>15, <2>1
<1>21. RefundInv'
  <2>1. ASSUME NEW x \in Refunds, x # r PROVE RefundAt(x)'
    BY <1>1, <1>2, <1>3, <1>18, <1>20, <2>1, OtherRefund DEF RefundInv
  <2>2. RefundAt(r)'
    <3>1. \A p \in Orders : Posted(p, r)' <=> refund'[r].order = p /\ refund'[r].restoration = "posted"
      BY <1>3, <1>4, <1>5, <1>8, <1>18, <1>19 DEF RefundAt
    <3>2. refund'[r].frozen => DOMAIN refund'[r].cents \subseteq returnedIndexes(o)'
      BY <1>3, <1>6, <1>15 DEF RestoredUnits
    <3>3. refund'[r].order = o /\ state'[o] = "Paid" /\ o \in Orders /\ redeemed'[o]
      BY <1>1, <1>3, <1>4, <1>5, <1>8
    <3> QED BY <1>3, <1>8, <3>1, <3>2, <3>3 DEF RefundAt
  <2> QED BY <2>1, <2>2 DEF RefundInv
<1>22. ASSUME NEW p \in Orders, p # o
       PROVE  (~Late(p)' => FrozenAt(p)') /\ (PendingEdit(p)' => EditAt(p)')
  BY <1>1, <1>2, <1>3, <1>4, <1>16, <1>17, <1>22, OtherOrders
<1>23. ASSUME ~Late(o)' PROVE FrozenAt(o)'
  <2>1. FrozenAt(o)
    BY <1>2, <1>5, <1>23 DEF FrozenInv
  <2>2. /\ RefundsOf(o)' = RefundsOf(o) /\ r \in RefundsOf(o) /\ FrozenUnits(o)' = FrozenUnits(o)
        /\ \A x \in RefundsOf(o) : refund'[x].frozen = refund[x].frozen /\ refund'[x].cents = refund[x].cents
    BY <1>3, <1>5, <1>23
  <2>3. \A x, y \in RefundsOf(o)' : x # y /\ refund'[x].frozen /\ refund'[y].frozen =>
            DOMAIN refund'[x].cents \cap DOMAIN refund'[y].cents = {}
    BY <2>1, <2>2 DEF FrozenAt
  <2>4. PICK F : F = FrozenUnits(o)
    OBVIOUS
  <2>5. PICK q : q = UnmappedQty(o)
    OBVIOUS
  <2>6. PICK m : m = UnmappedQty(o)'
    OBVIOUS
  <2>7. q \in Nat /\ F \cap First(S, q) = {}
    BY <1>2, <1>9, <2>1, <2>4, <2>5, QtyFacts DEF FrozenAt
  <2>8. \A x \in RefundsOf(o) : x # r /\ refund[x].frozen => DOMAIN refund[x].cents \cap X = {}
    <3>1. CASE refund[r].frozen
      BY <1>6, <2>1, <2>2, <3>1 DEF FrozenAt, RestoredUnits
    <3>2. CASE ~refund[r].frozen
      <4>1. r \in Unmapped(o)
        BY <1>8, <2>2, <3>2 DEF Unmapped
      <4>2. Unmapped(o)' = Unmapped(o) \ {r}
        BY <1>5, <1>18, <1>19, <2>2, <4>1 DEF Unmapped
      <4>3. refund[r].qty <= q
        BY <1>2, <1>3, <1>17, <2>5, <4>1, <4>2, QtyAfter
      <4>4. X = First(S, refund[r].qty)
        BY <1>6, <1>9, <3>2 DEF RestoredUnits
      <4>5. X \subseteq First(S, q)
        BY <1>10, <1>11, <2>7, <4>3, <4>4, FirstMono
      <4>6. \A x \in RefundsOf(o) : refund[x].frozen => DOMAIN refund[x].cents \subseteq F
        BY <1>2, <1>5, <2>4, RefundsOfFacts
      <4> QED BY <2>7, <4>5, <4>6
    <3> QED BY <3>1, <3>2
  <2>9. ASSUME NEW f \in F PROVE f \notin First(S \ X, m)
    <3>1. CASE f \notin S \ X
      BY <3>1 DEF First
    <3>2. CASE f \in S \ X /\ refund[r].frozen
      <4>1. Unmapped(o)' = Unmapped(o)
        BY <1>5, <1>18, <2>2, <3>2 DEF Unmapped
      <4>2. m = q
        BY <1>2, <1>3, <1>17, <2>5, <2>6, <4>1, QtyAfter
      <4>3. X \subseteq F
        BY <1>2, <1>5, <1>6, <2>2, <2>4, <3>2, RefundsOfFacts DEF RestoredUnits
      <4>4. X \cap First(S, q) = {} /\ f \notin First(S, q)
        BY <2>7, <2>9, <4>3
      <4> QED BY <1>10, <1>12, <2>7, <3>2, <4>2, <4>4, FirstTakeHigh
    <3>3. CASE f \in S \ X /\ ~refund[r].frozen
      <4>1. r \in Unmapped(o)
        BY <1>8, <2>2, <3>3 DEF Unmapped
      <4>2. Unmapped(o)' = Unmapped(o) \ {r}
        BY <1>5, <1>18, <1>19, <2>2, <4>1 DEF Unmapped
      <4>3. refund[r].qty <= q /\ m = q - refund[r].qty
        BY <1>2, <1>3, <1>17, <2>5, <2>6, <4>1, <4>2, QtyAfter
      <4>4. X = First(S, refund[r].qty)
        BY <1>6, <1>9, <3>3 DEF RestoredUnits
      <4>5. f \in S /\ f \notin First(S, refund[r].qty) /\ f \notin First(S, q)
        BY <2>7, <2>9, <3>3, <4>4
      <4>6. f \notin First(S \ First(S, refund[r].qty), q - refund[r].qty)
        <5>1. PICK t : t = refund[r].qty
          OBVIOUS
        <5> QED BY <1>10, <1>11, <2>7, <4>3, <4>5, <5>1, FirstTakeLow
      <4> QED BY <4>3, <4>4, <4>6
    <3> QED BY <3>1, <3>2, <3>3
  <2>10. (FrozenUnits(o) \cap First(Units \ returnedIndexes(o), UnmappedQty(o)) = {})'
    <3>1. Units \ returnedIndexes(o)' = S \ X
      BY <1>9, <1>15
    <3> QED BY <2>2, <2>4, <2>6, <2>9, <3>1 DEF First
  <2>11. ASSUME NEW x \in RefundsOf(o)', Waiting(x)' PROVE Restorable(x, o)'
    <3>1. x # r
      BY <1>3, <1>8, <2>11 DEF Waiting
    <3>2. x \in RefundsOf(o) /\ refund'[x] = refund[x] /\ Waiting(x) /\ refund[x].frozen
      BY <1>3, <1>5, <2>2, <2>11, <3>1 DEF Waiting
    <3>3. Restorable(x, o) /\ DOMAIN refund[x].cents \cap X = {}
      BY <2>1, <2>8, <3>1, <3>2 DEF FrozenAt
    <3>4. DOMAIN refund[x].cents \in SUBSET Units
      BY <1>2, <1>5, <3>2, RefundsOfFacts
    <3>5. DOMAIN refund[x].cents \cap returnedIndexes(o)' = {}
      BY <1>15, <3>2, <3>3 DEF Restorable
    <3>6. \A u \in DOMAIN refund[x].cents : remaining(o, u)' = refund[x].cents[u]
      BY <1>15, <3>2, <3>3, <3>4 DEF Restorable
    <3> QED BY <3>2, <3>5, <3>6 DEF Restorable
  <2> QED BY <2>3, <2>10, <2>11 DEF FrozenAt
<1>24. ASSUME PendingEdit(o)' PROVE EditAt(o)'
  <2>1. CASE Late(o)'
    BY <1>5, <2>1
  <2>2. CASE ~Late(o)'
    <3>1. PendingEdit(o) /\ ~Late(o)
      BY <1>1, <1>5, <1>24, <2>2 DEF PendingEdit
    <3>2. Quiet(o)
      BY <1>2, <1>5, <3>1 DEF EditInv, EditAt
    <3>3. RefundsOf(o)' = RefundsOf(o) /\ r \in RefundsOf(o)
      BY <1>5, <2>2
    <3>4. ~refund[r].frozen
      BY <1>4, <1>5, <1>8, <3>2, <3>3 DEF Quiet, RefundAt
    <3>5. Quiet(o)'
      BY <1>3, <1>5, <1>8, <3>2, <3>3 DEF Quiet
    <3>6. ~Fixed(o)'
      BY <1>3, <3>3, <3>4 DEF Fixed
    <3> QED BY <3>5, <3>6 DEF EditAt
  <2> QED BY <2>1, <2>2
<1>25. FrozenInv' /\ EditInv'
  <2>1. FrozenInv'
    BY <1>22, <1>23 DEF FrozenInv
  <2>2. EditInv'
    BY <1>22, <1>24 DEF EditInv
  <2> QED BY <2>1, <2>2
<1> QED BY <1>16, <1>17, <1>21, <1>25 DEF CInv

LEMMA FinalizeStep ==
  ASSUME CreditAssumption, CInv, NEW r \in Refunds, finalizeRefund(r)
  PROVE  CInv'
<1>1. Types
  BY DEF CInv
<1>2. NotGiven(r) \/ Given(r)
  BY <1>1, Finalized
<1> QED BY <1>2, FinalizeNotGiven, FinalizeGiven

-----------------------------------------------------------------------------
(* Manual returns and order edits. *)

\* Rows posted on one order that are no refund's.
PlainRows(P) == \A w \in P : \A x : w.key # <<"refund", x>>

LEMMA PlainPosted ==
  ASSUME CreditAssumption, CInv, Types', NEW o \in Orders, NEW P, PlainRows(P),
         rows'[o] = rows[o] \cup P, \A p \in Orders : p # o => rows'[p] = rows[p],
         UNCHANGED <<state, alloc, redeemed, refund>>, returnedIndexes(o) \subseteq returnedIndexes(o)',
         \A p \in Orders : p # o => edit'[p] = edit[p]
  PROVE  /\ RefundInv' /\ SameRefunds(o)
         /\ \A p \in Orders : p # o => (~Late(p)' => FrozenAt(p)') /\ (PendingEdit(p)' => EditAt(p)')
<1>1. Types /\ RefundInv /\ FrozenInv /\ EditInv
  BY DEF CInv
<1>2. ASSUME NEW p \in Orders, NEW x PROVE Posted(p, x)' <=> Posted(p, x)
  <2>1. CASE p = o
    BY <2>1 DEF Posted, PlainRows
  <2>2. CASE p # o
    BY <2>2 DEF Posted
  <2> QED BY <2>1, <2>2
<1>3. ASSUME NEW p \in Orders PROVE SameRefunds(p)
  <2>1. RefundsOf(p)' = RefundsOf(p)
    BY DEF RefundsOf
  <2> QED BY <1>2, <2>1 DEF SameRefunds
<1>4. ASSUME NEW p \in Orders, p # o PROVE (~Late(p)' => FrozenAt(p)') /\ (PendingEdit(p)' => EditAt(p)')
  <2>1. SameRefunds(p) /\ rows'[p] = rows[p] /\ edit'[p] = edit[p]
    BY <1>3, <1>4
  <2> QED BY <1>1, <2>1, OtherOrder
<1>5. \A p \in Orders : returnedIndexes(p) \subseteq returnedIndexes(p)'
  <2>1. ASSUME NEW p \in Orders, p # o PROVE returnedIndexes(p)' = returnedIndexes(p)
    BY <2>1, Views, ViewsAfter
  <2> QED BY <2>1
<1>6. RefundInv'
  <2>1. ASSUME NEW x \in Refunds PROVE RefundAt(x)'
    BY <1>1, <1>2, <1>5, OtherRefund DEF RefundInv
  <2> QED BY <2>1 DEF RefundInv
<1> QED BY <1>3, <1>4, <1>6

LEMMA NoneFirst ==
  ASSUME NEW S \in SUBSET Nat, IsFiniteSet(S) PROVE First(S, 0) = {}
<1>1. ASSUME NEW u \in First(S, 0) PROVE FALSE
  <2>1. u \in S /\ Cardinality(Below(S, u)) < 0
    BY InFirst
  <2> QED BY <2>1, BelowFinite
<1> QED BY <1>1

LEMMA ManualStep ==
  ASSUME CreditAssumption, CInv, NEW k \in Keys, NEW o \in Orders, NEW n \in Units,
         restoreManual(k, o, n)
  PROVE  CInv'
<1>1. PICK X : X = First(Units \ (returnedIndexes(o) \cup FrozenUnits(o)), n)
  OBVIOUS
<1>2. PICK w : w = ReturnRow(o, <<"manual", k>>, X)
  OBVIOUS
<1>3. /\ redeemed[o] /\ ~PendingEdit(o) /\ Unmapped(o) = {} /\ used' = used \cup {k}
      /\ postFundingRows(o, {w})
      /\ UNCHANGED <<disabled, state, hold, alloc, redeemed, refund, edit, failures>>
  BY <1>1, <1>2 DEF restoreManual
<1>4. Types /\ HoldsCovered /\ HoldInv /\ UnitInv /\ RefundInv /\ FrozenInv /\ EditInv
  BY DEF CInv
<1>5. X \in SUBSET (Units \ returnedIndexes(o)) /\ X \cap FrozenUnits(o) = {}
  BY <1>1 DEF First
<1>6. GivesBack(rows[o], alloc[o], w) /\ w.key = <<"manual", k>> /\ DOMAIN w.cents = X
  <2>1. <<"manual", k>> \in RowKeys
    BY DEF RowKeys
  <2> QED BY <1>2, <1>4, <1>5, <2>1, ReturnRowFacts
<1>7. rows'[o] = rows[o] \cup {w} /\ alloc'[o] = alloc[o]
  BY <1>3, <1>4 DEF postFundingRows, Types
<1>8. /\ w \in RowRec
      /\ Sound(rows[o] \cup {w}, alloc[o])
      /\ returnedIndexes(o)' = returnedIndexes(o) \cup X
      /\ \A u \in Units \ X : remaining(o, u)' = remaining(o, u)
  BY <1>4, <1>6, <1>7, ReturnPosted
<1>9. PICK P : P = {w}
  OBVIOUS
<1>10. /\ balance' \in Nat /\ HoldsCovered' /\ HoldInv' /\ UnitInv'
       /\ rows' \in [Orders -> SUBSET RowRec] /\ \A p \in Orders : IsFiniteSet(rows'[p])
       /\ rows'[o] = rows[o] \cup P /\ \A p \in Orders : p # o => rows'[p] = rows[p]
  <2>1. P \in SUBSET RowRec /\ IsFiniteSet(P) /\ Sound(rows[o] \cup P, alloc[o]) /\ postFundingRows(o, P)
    BY <1>3, <1>8, <1>9, FS_Singleton
  <2> QED BY <1>3, <1>4, <2>1, PostStep
<1>11. Types'
  BY <1>3, <1>4, <1>10 DEF Types
<1>12. PlainRows(P)
  BY <1>6, <1>9 DEF PlainRows
<1>13. /\ RefundInv' /\ SameRefunds(o)
       /\ \A p \in Orders : p # o => (~Late(p)' => FrozenAt(p)') /\ (PendingEdit(p)' => EditAt(p)')
  BY <1>3, <1>8, <1>10, <1>11, <1>12, PlainPosted
<1>14. /\ FrozenUnits(o)' = FrozenUnits(o) /\ UnmappedQty(o)' = UnmappedQty(o)
       /\ Late(o)' <=> Late(o)
  BY <1>4, <1>11, <1>13, SameViews
<1>15. UnmappedQty(o)' = 0
  <2>1. UnmappedQty(o) = 0
    <3>1. [x \in Refunds |-> refund[x].qty] \in [Refunds -> Nat]
      BY <1>4, QtyFacts
    <3> QED BY <1>3, <3>1, SumEmpty DEF UnmappedQty
  <2> QED BY <1>14, <2>1
<1>16. ASSUME ~Late(o)' PROVE FrozenAt(o)'
  <2>1. FrozenAt(o)
    BY <1>4, <1>14, <1>16 DEF FrozenInv
  <2>2. RefundsOf(o)' = RefundsOf(o) /\ \A x \in RefundsOf(o) : refund'[x] = refund[x]
    BY <1>13 DEF SameRefunds
  <2>3. \A x, y \in RefundsOf(o)' : x # y /\ refund'[x].frozen /\ refund'[y].frozen =>
            DOMAIN refund'[x].cents \cap DOMAIN refund'[y].cents = {}
    BY <2>1, <2>2 DEF FrozenAt
  <2>4. PICK S : S = Units \ returnedIndexes(o)'
    OBVIOUS
  <2>5. First(S, 0) = {}
    BY <2>4, FreeFacts, NoneFirst
  <2>6. (FrozenUnits(o) \cap First(Units \ returnedIndexes(o), UnmappedQty(o)) = {})'
    BY <1>15, <2>4, <2>5 DEF First
  <2>7. ASSUME NEW x \in RefundsOf(o)', Waiting(x)' PROVE Restorable(x, o)'
    <3>1. x \in RefundsOf(o) /\ refund'[x] = refund[x] /\ Waiting(x) /\ refund[x].frozen
      BY <2>2, <2>7 DEF Waiting
    <3>2. Restorable(x, o)
      BY <2>1, <3>1 DEF FrozenAt
    <3>3. DOMAIN refund[x].cents \in SUBSET Units /\ DOMAIN refund[x].cents \subseteq FrozenUnits(o)
      BY <1>4, <3>1, RefundsOfFacts
    <3>4. DOMAIN refund[x].cents \cap returnedIndexes(o)' = {}
      BY <1>5, <1>8, <3>1, <3>2, <3>3 DEF Restorable
    <3>5. \A u \in DOMAIN refund[x].cents : remaining(o, u)' = refund[x].cents[u]
      BY <1>5, <1>8, <3>1, <3>2, <3>3 DEF Restorable
    <3> QED BY <3>1, <3>4, <3>5 DEF Restorable
  <2> QED BY <2>3, <2>6, <2>7 DEF FrozenAt
<1>17. ~PendingEdit(o)'
  BY <1>3 DEF PendingEdit
<1>18. FrozenInv' /\ EditInv'
  <2>1. FrozenInv'
    BY <1>13, <1>16 DEF FrozenInv
  <2>2. EditInv'
    BY <1>13, <1>17 DEF EditInv
  <2> QED BY <2>1, <2>2
<1> QED BY <1>10, <1>11, <1>13, <1>18 DEF CInv

\* What an edit gives back: at most one row of each kind, on units nobody returned.
LEMMA PlanRows ==
  ASSUME CreditAssumption, Types, UnitInv, NEW o \in Orders, NEW keep \in SUBSET Units,
         NEW cap \in [Units -> Nat], NEW P, P = planEditCreditFunding(o, keep, cap)
  PROVE  /\ P \in SUBSET RowRec /\ IsFiniteSet(P) /\ PlainRows(P)
         /\ Sound(rows[o] \cup P, alloc[o])
         /\ returnedIndexes(o) \subseteq Returned(rows[o] \cup P)
<1>1. PICK D : D = Units \ (keep \cup returnedIndexes(o))
  OBVIOUS
<1>2. PICK L : L = {u \in keep \ returnedIndexes(o) : cap[u] < remaining(o, u)}
  OBVIOUS
<1>3. PICK n : n = Cardinality(rows[o])
  OBVIOUS
<1>4. PICK v : v = ReturnRow(o, <<"edit return", n>>, D)
  OBVIOUS
<1>5. PICK w : w = [key |-> <<"edit correct", n>>, cents |-> [u \in L |-> remaining(o, u) - cap[u]],
                    isReturn |-> FALSE]
  OBVIOUS
<1>6. w = RestoreRow(<<"edit correct", n>>, [u \in L |-> remaining(o, u) - cap[u]], FALSE)
  BY <1>5 DEF RestoreRow
<1>7. P = {row \in {v, w} : DOMAIN row.cents # {}}
  BY <1>1, <1>2, <1>3, <1>4, <1>6 DEF planEditCreditFunding
<1>8. PICK R : R = rows[o]
  OBVIOUS
<1>9. PICK a \in [Units -> Nat] : a = alloc[o]
  BY DEF Types
<1>10. /\ Sound(R, a) /\ returnedIndexes(o) = Returned(R) /\ \A u : remaining(o, u) = Left(R, a, u)
       /\ n \in Nat
  BY <1>3, <1>8, <1>9, Views, FS_CardinalityType DEF UnitInv, Types
<1>11. GivesBack(R, a, v) /\ v.key = <<"edit return", n>> /\ DOMAIN v.cents = D
  <2>1. <<"edit return", n>> \in RowKeys /\ D \in SUBSET (Units \ returnedIndexes(o))
    BY <1>1, <1>10 DEF RowKeys
  <2>2. GivesBack(rows[o], alloc[o], v) /\ v.key = <<"edit return", n>> /\ DOMAIN v.cents = D
    <3>1. PICK key : key = <<"edit return", n>>
      OBVIOUS
    <3>2. key \in RowKeys /\ v = ReturnRow(o, key, D)
      BY <1>4, <2>1, <3>1
    <3>3. D \in SUBSET (Units \ returnedIndexes(o))
      BY <2>1
    <3>4. GivesBack(rows[o], alloc[o], v)
      BY <3>2, <3>3, ReturnRowFacts
    <3>5. v.key = key
      BY <3>2, <3>3, ReturnRowFacts
    <3>6. DOMAIN v.cents = D
      BY <3>2, <3>3, ReturnRowFacts
    <3> QED BY <3>1, <3>4, <3>5, <3>6
  <2> QED BY <1>8, <1>9, <2>2
<1>12. /\ w \in RowRec /\ ~w.isReturn /\ DOMAIN w.cents = L /\ w.key = <<"edit correct", n>>
       /\ \A u \in L : w.cents[u] <= Left(R, a, u)
  <2>1. ASSUME NEW u \in L
        PROVE  u \in Units /\ cap[u] \in Nat /\ Left(R, a, u) \in Nat /\ remaining(o, u) = Left(R, a, u)
               /\ remaining(o, u) - cap[u] \in Nat /\ remaining(o, u) - cap[u] <= Left(R, a, u)
    <3>1. u \in Units /\ cap[u] < remaining(o, u)
      BY <1>2
    <3>2. cap[u] \in Nat /\ Left(R, a, u) \in Nat /\ remaining(o, u) = Left(R, a, u)
      BY <1>10, <3>1 DEF Sound
    <3> QED BY <3>1, <3>2
  <2>2. PICK c : c = [u \in L |-> remaining(o, u) - cap[u]]
    OBVIOUS
  <2>3. c \in [L -> Nat] /\ L \in SUBSET Units
    BY <2>1, <2>2
  <2>4. c \in CentsOf
    BY <2>3 DEF CentsOf
  <2>5. <<"edit correct", n>> \in RowKeys
    BY <1>10 DEF RowKeys
  <2>6. w = [key |-> <<"edit correct", n>>, cents |-> c, isReturn |-> FALSE]
    BY <1>5, <2>2
  <2>7. w \in RowRec
    BY <2>4, <2>5, <2>6 DEF RowRec
  <2>8. ~w.isReturn /\ w.cents = c /\ w.key = <<"edit correct", n>>
    BY <2>6
  <2> QED BY <2>1, <2>2, <2>3, <2>7, <2>8
<1>13. L \cap returnedIndexes(o) = {} /\ L \cap D = {} /\ L \in SUBSET Units
  BY <1>1, <1>2
<1>14. Corrects(R, a, w)
  BY <1>10, <1>12, <1>13 DEF Corrects
<1>15. /\ Sound(R \cup {v}, a) /\ Returned(R \cup {v}) = Returned(R) \cup D
  <2>1. Sound(R \cup {v}, a)
    BY <1>10, <1>11, AddReturn
  <2>2. Returned(R \cup {v}) = Returned(R) \cup DOMAIN v.cents
    BY <1>10, <1>11, AddReturn
  <2> QED BY <1>11, <2>1, <2>2
<1>16. PICK Q : Q = R \cup {v}
  OBVIOUS
<1>17. Corrects(Q, a, w)
  <2>1. \A u \in Units \ DOMAIN v.cents : Left(R \cup {v}, a, u) = Left(R, a, u)
    BY <1>10, <1>11, AddReturn
  <2>2. \A u \in L : w.cents[u] <= Left(Q, a, u)
    BY <1>11, <1>12, <1>13, <1>16, <2>1
  <2>3. L \cap Returned(Q) = {}
    BY <1>10, <1>13, <1>15, <1>16
  <2> QED BY <1>12, <2>2, <2>3 DEF Corrects
<1>18. Sound(Q \cup {w}, a) /\ Returned(Q \cup {w}) = Returned(Q)
  <2>1. Sound(Q, a)
    BY <1>15, <1>16
  <2> QED BY <1>17, <2>1, AddCorrection
<1>19. Sound(R \cup {w}, a) /\ Returned(R \cup {w}) = Returned(R)
  BY <1>10, <1>14, AddCorrection
<1>20. P \in {{}, {v}, {w}, {v, w}}
  BY <1>7
<1>21. v \in RowRec /\ w \in RowRec
  BY <1>11, <1>12 DEF GivesBack
<1>22. P \in SUBSET RowRec /\ PlainRows(P)
  <2>1. \A y \in P : y = v \/ y = w
    BY <1>7
  <2>2. \A x : <<"edit return", n>> # <<"refund", x>> /\ <<"edit correct", n>> # <<"refund", x>>
    OBVIOUS
  <2>3. PlainRows(P)
    BY <1>11, <1>12, <2>1, <2>2 DEF PlainRows
  <2> QED BY <1>21, <2>1, <2>3
<1>23. Sound(R \cup P, a) /\ Returned(R) \subseteq Returned(R \cup P)
  <2>1. CASE P = {}
    <3>1. R \cup P = R
      BY <2>1
    <3> QED BY <1>10, <3>1
  <2>2. CASE P = {v}
    BY <1>15, <2>2
  <2>3. CASE P = {w}
    BY <1>19, <2>3
  <2>4. CASE P = {v, w}
    <3>1. R \cup P = Q \cup {w}
      BY <1>16, <2>4
    <3> QED BY <1>15, <1>16, <1>18, <3>1
  <2> QED BY <1>20, <2>1, <2>2, <2>3, <2>4
<1>24. IsFiniteSet(P)
  <2>1. IsFiniteSet({v} \cup {w})
    BY FS_Singleton, FS_AddElement
  <2> QED BY <1>7, <2>1, FS_Subset
<1> QED BY <1>8, <1>9, <1>10, <1>22, <1>23, <1>24

LEMMA ReturnedUnits ==
  ASSUME CreditAssumption, Types, NEW o \in Orders
  PROVE  returnedIndexes(o) \in SUBSET Units
<1>1. ASSUME NEW u \in returnedIndexes(o) PROVE u \in Units
  <2>1. PICK w \in rows[o] : w.isReturn /\ u \in DOMAIN w.cents
    BY Views, InReturned
  <2> QED BY <2>1, CentsFacts DEF Types
<1> QED BY <1>1

\* With every refund of the order resolved, its frozen units were all returned.
LEMMA QuietFrozen ==
  ASSUME CreditAssumption, Types, Types', RefundInv, NEW o \in Orders, Quiet(o), FrozenAt(o), SameRefunds(o),
         returnedIndexes(o) \subseteq returnedIndexes(o)'
  PROVE  FrozenAt(o)'
<1>1. RefundsOf(o)' = RefundsOf(o) /\ \A x \in RefundsOf(o) : refund'[x] = refund[x]
  BY DEF SameRefunds
<1>2. \A x, y \in RefundsOf(o)' : x # y /\ refund'[x].frozen /\ refund'[y].frozen =>
          DOMAIN refund'[x].cents \cap DOMAIN refund'[y].cents = {}
  BY <1>1 DEF FrozenAt
<1>3. \A x \in RefundsOf(o) : ~Waiting(x)
  BY DEF Quiet, Waiting
<1>4. \A x \in RefundsOf(o)' : ~Waiting(x)'
  BY <1>1, <1>3 DEF Waiting
<1>5. ASSUME NEW u \in FrozenUnits(o) PROVE u \in returnedIndexes(o)
  <2>1. PICK x \in RefundsOf(o) : refund[x].frozen /\ u \in DOMAIN refund[x].cents
    BY InFrozen
  <2>2. refund[x].restoration = "posted" /\ refund[x].order = o /\ RefundAt(x)
    BY <2>1, RefundsOfFacts DEF Quiet
  <2> QED BY <2>1, <2>2 DEF RefundAt
<1>6. FrozenUnits(o)' = FrozenUnits(o)
  BY SameViews
<1>7. (FrozenUnits(o) \cap First(Units \ returnedIndexes(o), UnmappedQty(o)) = {})'
  BY <1>5, <1>6 DEF First
<1> QED BY <1>2, <1>4, <1>7 DEF FrozenAt

LEMMA ResolvedQuiet ==
  ASSUME Types, RefundInv, NEW o \in Orders, ~Unresolved(o)
  PROVE  Quiet(o)
<1>1. ASSUME NEW x \in RefundsOf(o)
      PROVE  refund[x].state = "Settled" /\ (refund[x].frozen => refund[x].restoration = "posted")
  <2>1. RefundAt(x) /\ refund[x] \in RefundRec
    BY RefundsOfFacts
  <2>2. refund[x].state = "Settled" /\ refund[x].restoration # "reconciliation_required"
    BY DEF Unresolved
  <2> QED BY <2>1, <2>2 DEF RefundAt, RefundRec
<1> QED BY <1>1 DEF Quiet

\* An edit that takes effect on a quiet order.
LEMMA EditPosted ==
  ASSUME CreditAssumption, CInv, NEW o \in Orders, NEW keep \in SUBSET Units, NEW cap \in [Units -> Nat],
         postFundingRows(o, planEditCreditFunding(o, keep, cap)), redeemed[o],
         ~Late(o) => Quiet(o), edit' \in [Orders -> EditRec],
         edit'[o].phase = "activated", \A p \in Orders : p # o => edit'[p] = edit[p],
         UNCHANGED <<disabled, used, state, hold, alloc, redeemed, refund, failures>>
  PROVE  CInv'
<1>1. Types /\ HoldsCovered /\ HoldInv /\ UnitInv /\ RefundInv /\ FrozenInv /\ EditInv
  BY DEF CInv
<1>2. PICK P : P = planEditCreditFunding(o, keep, cap)
  OBVIOUS
<1>3. /\ P \in SUBSET RowRec /\ IsFiniteSet(P) /\ PlainRows(P)
      /\ Sound(rows[o] \cup P, alloc[o])
      /\ returnedIndexes(o) \subseteq Returned(rows[o] \cup P)
  BY <1>1, <1>2, PlanRows
<1>4. /\ balance' \in Nat /\ HoldsCovered' /\ HoldInv' /\ UnitInv'
      /\ rows' \in [Orders -> SUBSET RowRec] /\ \A p \in Orders : IsFiniteSet(rows'[p])
      /\ rows'[o] = rows[o] \cup P /\ \A p \in Orders : p # o => rows'[p] = rows[p]
  <2>1. postFundingRows(o, P)
    BY <1>2
  <2> QED BY <1>1, <1>3, <2>1, PostStep
<1>5. Types'
  BY <1>1, <1>4 DEF Types
<1>6. returnedIndexes(o) \subseteq returnedIndexes(o)'
  BY <1>3, <1>4, ViewsAfter
<1>7. /\ RefundInv' /\ SameRefunds(o)
      /\ \A p \in Orders : p # o => (~Late(p)' => FrozenAt(p)') /\ (PendingEdit(p)' => EditAt(p)')
  BY <1>3, <1>4, <1>5, <1>6, PlainPosted
<1>8. ASSUME ~Late(o)' PROVE FrozenAt(o)'
  <2>1. ~Late(o)
    BY <1>1, <1>5, <1>7, <1>8, SameViews
  <2>2. Quiet(o) /\ FrozenAt(o)
    BY <1>1, <2>1 DEF FrozenInv
  <2> QED BY <1>1, <1>5, <1>6, <1>7, <2>2, QuietFrozen
<1>9. ~PendingEdit(o)'
  BY DEF PendingEdit
<1>10. FrozenInv' /\ EditInv'
  <2>1. FrozenInv'
    BY <1>7, <1>8 DEF FrozenInv
  <2>2. EditInv'
    BY <1>7, <1>9 DEF EditInv
  <2> QED BY <2>1, <2>2
<1> QED BY <1>4, <1>5, <1>7, <1>10 DEF CInv

\* An edit that is written down without touching the ledger.
LEMMA EditWritten ==
  ASSUME CreditAssumption, CInv, NEW o \in Orders, edit' \in [Orders -> EditRec],
         \A p \in Orders : p # o => edit'[p] = edit[p],
         UNCHANGED <<balance, disabled, used, state, hold, alloc, redeemed, rows, refund, failures>>
  PROVE  /\ Types' /\ (PendingEdit(o)' => EditAt(o)') => CInv'
         /\ Types' /\ SameRefunds(o) /\ PrefixDigest(o)' = PrefixDigest(o)
<1>1. Types /\ HoldsCovered /\ HoldInv /\ UnitInv /\ RefundInv /\ FrozenInv /\ EditInv
  BY DEF CInv
<1>2. Types'
  BY <1>1 DEF Types
<1>3. HoldsCovered' /\ HoldInv' /\ UnitInv'
  BY <1>1 DEF HoldsCovered, Held, HoldInv, UnitInv
<1>4. PlainRows({}) /\ rows'[o] = rows[o] \cup {} /\ returnedIndexes(o) \subseteq returnedIndexes(o)'
  BY Views, ViewsAfter DEF PlainRows
<1>5. /\ RefundInv' /\ SameRefunds(o)
      /\ \A p \in Orders : p # o => (~Late(p)' => FrozenAt(p)') /\ (PendingEdit(p)' => EditAt(p)')
  BY <1>2, <1>4, PlainPosted
<1>6. ASSUME ~Late(o)' PROVE FrozenAt(o)'
  <2>1. FrozenAt(o)
    BY <1>1, <1>2, <1>5, <1>6, SameViews DEF FrozenInv
  <2>2. RefundsOf(o)' = RefundsOf(o) /\ FrozenUnits(o)' = FrozenUnits(o) /\ UnmappedQty(o)' = UnmappedQty(o)
    BY <1>1, <1>2, <1>5, SameViews DEF SameRefunds
  <2>3. returnedIndexes(o)' = returnedIndexes(o) /\ \A u : remaining(o, u)' = remaining(o, u)
    BY Views, ViewsAfter
  <2>4. \A x, y \in RefundsOf(o)' : x # y /\ refund'[x].frozen /\ refund'[y].frozen =>
            DOMAIN refund'[x].cents \cap DOMAIN refund'[y].cents = {}
    BY <2>1, <2>2 DEF FrozenAt
  <2>5. (FrozenUnits(o) \cap First(Units \ returnedIndexes(o), UnmappedQty(o)) = {})'
    <3>1. FrozenUnits(o) \cap First(Units \ returnedIndexes(o), UnmappedQty(o)) = {}
      BY <2>1 DEF FrozenAt
    <3> QED BY <2>2, <2>3, <3>1 DEF First
  <2>6. ASSUME NEW x \in RefundsOf(o)', Waiting(x)' PROVE Restorable(x, o)'
    <3>1. x \in RefundsOf(o) /\ Waiting(x) /\ refund[x].frozen
      BY <2>2, <2>6 DEF Waiting
    <3>2. Restorable(x, o)
      BY <2>1, <3>1 DEF FrozenAt
    <3> QED BY <2>3, <3>1, <3>2 DEF Restorable
  <2> QED BY <2>4, <2>5, <2>6 DEF FrozenAt
<1>7. PrefixDigest(o)' = PrefixDigest(o)
  BY DEF PrefixDigest
<1>8. FrozenInv'
  BY <1>5, <1>6 DEF FrozenInv
<1>9. (PendingEdit(o)' => EditAt(o)') => EditInv'
  BY <1>5 DEF EditInv
<1> QED BY <1>2, <1>3, <1>5, <1>7, <1>8, <1>9 DEF CInv

LEMMA KeepFacts ==
  ASSUME CreditAssumption, Types, NEW o \in Orders, NEW keep \in Keeps(o), NEW c \in 0 .. Price,
         NEW cap, cap = [u \in Units |-> c]
  PROVE  keep \in SUBSET Units /\ cap \in [Units -> Nat]
<1>1. returnedIndexes(o) \in SUBSET Units
  BY ReturnedUnits
<1>2. \A n : First(Units \ returnedIndexes(o), n) \in SUBSET Units
  BY DEF First
<1>3. keep \in SUBSET Units
  BY <1>1, <1>2 DEF Keeps
<1>4. c \in Nat
  BY DEF CreditAssumption
<1> QED BY <1>3, <1>4

LEMMA EditNowStep ==
  ASSUME CreditAssumption, CInv, NEW o \in Orders, NEW keep \in SUBSET Units, NEW cap \in [Units -> Nat],
         editNow(o, keep, cap)
  PROVE  CInv'
<1>1. /\ redeemed[o] /\ ~Unresolved(o)
      /\ postFundingRows(o, planEditCreditFunding(o, keep, cap))
      /\ edit' = [edit EXCEPT ![o] = [NoEdit EXCEPT !.phase = "activated", !.edited = TRUE]]
      /\ UNCHANGED <<disabled, used, state, hold, alloc, redeemed, refund, failures>>
  BY DEF editNow
<1>2. Types /\ RefundInv /\ edit \in [Orders -> EditRec]
  BY DEF CInv, Types
<1>3. Quiet(o)
  BY <1>1, <1>2, ResolvedQuiet
<1>4. NoAlloc \in [Units -> Nat]
  BY DEF NoAlloc
<1>5. PICK e : e = [NoEdit EXCEPT !.phase = "activated", !.edited = TRUE]
  OBVIOUS
<1>6. e \in EditRec /\ e.phase = "activated"
  BY <1>4, <1>5 DEF NoEdit, EditRec
<1>7. edit' = [edit EXCEPT ![o] = e]
  BY <1>1, <1>5
<1>8. /\ edit' \in [Orders -> EditRec] /\ edit'[o].phase = "activated"
      /\ \A p \in Orders : p # o => edit'[p] = edit[p]
  BY <1>2, <1>6, <1>7
<1> QED BY <1>1, <1>3, <1>8, EditPosted

LEMMA PrepareStep ==
  ASSUME CreditAssumption, CInv, NEW o \in Orders, NEW keep \in SUBSET Units, NEW cap \in [Units -> Nat],
         prepareCreditedOrderEdit(o, keep, cap)
  PROVE  CInv'
<1>1. PICK e : e = [phase |-> "awaiting", keep |-> keep, cap |-> cap, prefix |-> PrefixDigest(o),
                    stuck |-> FALSE, edited |-> Edited(o)]
  OBVIOUS
<1>2. /\ ~Unresolved(o) /\ edit' = [edit EXCEPT ![o] = e]
      /\ UNCHANGED <<balance, disabled, used, state, hold, alloc, redeemed, rows, refund, failures>>
  BY <1>1 DEF prepareCreditedOrderEdit
<1>3. Types /\ RefundInv /\ edit \in [Orders -> EditRec]
  BY DEF CInv, Types
<1>4. PrefixDigest(o) \in (SUBSET RowRec) \X (SUBSET Refunds)
  BY <1>3 DEF PrefixDigest, Types
<1>5. e \in EditRec /\ e.prefix = PrefixDigest(o)
  <2>1. edit[o].edited \in BOOLEAN
    BY <1>3 DEF EditRec
  <2> QED BY <1>1, <1>4, <2>1 DEF EditRec, Edited
<1>6. /\ edit' \in [Orders -> EditRec] /\ edit'[o].prefix = PrefixDigest(o)
      /\ \A p \in Orders : p # o => edit'[p] = edit[p]
  BY <1>2, <1>3, <1>5
<1>7. Types' /\ SameRefunds(o) /\ PrefixDigest(o)' = PrefixDigest(o)
  BY <1>2, <1>6, EditWritten
<1>8. Quiet(o)'
  BY <1>2, <1>3, <1>7, ResolvedQuiet, SameViews
<1>9. EditAt(o)'
  BY <1>6, <1>7, <1>8 DEF EditAt
<1> QED BY <1>2, <1>6, <1>7, <1>9, EditWritten

LEMMA ActivateStep ==
  ASSUME CreditAssumption, CInv, EditsPaid, NEW o \in Orders, activatePreparedOrderEdit(o)
  PROVE  CInv'
<1>1. PendingEdit(o) /\ UNCHANGED <<disabled, used, state, hold, alloc, redeemed, refund, failures>>
  BY DEF activatePreparedOrderEdit
<1>2. Types /\ HoldInv /\ RefundInv /\ EditInv /\ edit \in [Orders -> EditRec] /\ edit[o] \in EditRec
  BY DEF CInv, Types
<1>3. EditAt(o)
  BY <1>1, <1>2 DEF EditInv
<1>4. CASE /\ postFundingRows(o, planEditCreditFunding(o, edit[o].keep, edit[o].cap))
           /\ edit' = [edit EXCEPT ![o].phase = "activated", ![o].stuck = FALSE, ![o].edited = TRUE]
  <2>1. /\ edit' \in [Orders -> EditRec] /\ edit'[o].phase = "activated"
        /\ \A p \in Orders : p # o => edit'[p] = edit[p]
    BY <1>2, <1>4 DEF EditRec
  <2>2. edit[o].keep \in SUBSET Units /\ edit[o].cap \in [Units -> Nat]
    BY <1>2 DEF EditRec
  <2>3. ~Late(o) => Quiet(o)
    BY <1>3 DEF EditAt
  <2>4. redeemed[o]
    BY <1>1 DEF EditsPaid
  <2> QED BY <1>1, <1>4, <2>1, <2>2, <2>3, <2>4, EditPosted
<1>5. CASE edit' = [edit EXCEPT ![o].stuck = TRUE] /\ UNCHANGED <<rows, balance>>
  <2>1. /\ edit' \in [Orders -> EditRec] /\ edit'[o].phase = edit[o].phase /\ edit'[o].prefix = edit[o].prefix
        /\ \A p \in Orders : p # o => edit'[p] = edit[p]
    BY <1>2, <1>5 DEF EditRec
  <2>2. Types' /\ SameRefunds(o) /\ PrefixDigest(o)' = PrefixDigest(o)
    BY <1>1, <1>5, <2>1, EditWritten
  <2>3. EditAt(o)'
    BY <1>2, <1>3, <2>1, <2>2, SameViews DEF EditAt
  <2> QED BY <1>1, <1>5, <2>1, <2>2, <2>3, EditWritten
<1> QED BY <1>4, <1>5 DEF activatePreparedOrderEdit

LEMMA EditsPaidStep ==
  ASSUME CreditAssumption, Types, EditsPaid, [CreditNext]_creditVars
  PROVE  EditsPaid'
<1>1. edit \in [Orders -> EditRec] /\ redeemed \in [Orders -> BOOLEAN]
  BY DEF Types
<1>2. ASSUME UNCHANGED edit, \A p \in Orders : redeemed[p] => redeemed'[p] PROVE EditsPaid'
  BY <1>2 DEF EditsPaid, PendingEdit
<1>3. ASSUME NEW o \in Orders, redeemed[o], UNCHANGED redeemed, \A p \in Orders : p # o => edit'[p] = edit[p]
      PROVE  EditsPaid'
  BY <1>3 DEF EditsPaid, PendingEdit
<1>4. CASE UNCHANGED creditVars
  BY <1>2, <1>4 DEF creditVars
<1>5. ASSUME NEW o \in Orders, reserve(o) \/ release(o) PROVE EditsPaid'
  BY <1>2, <1>5 DEF reserve, release
<1>6. ASSUME NEW o \in Orders, settle(o) PROVE EditsPaid'
  <2>1. UNCHANGED edit
    BY <1>6 DEF settle
  <2>2. \A p \in Orders : redeemed[p] => redeemed'[p]
    BY <1>1, <1>6 DEF settle, redeemAfterSettlement
  <2> QED BY <1>2, <2>1, <2>2
<1>7. ASSUME NEW k \in Keys, NEW d, adjust(k, d) PROVE EditsPaid'
  BY <1>2, <1>7 DEF adjust
<1>8. ASSUME NEW k \in Keys, disable(k) PROVE EditsPaid'
  BY <1>2, <1>8 DEF disable
<1>9. ASSUME NEW k \in Keys, NEW o \in Orders, NEW n \in Units, restoreManual(k, o, n) PROVE EditsPaid'
  BY <1>2, <1>9 DEF restoreManual
<1>10. ASSUME NEW r \in Refunds, NEW o \in Orders, NEW n \in Units, requestRefund(r, o, n) PROVE EditsPaid'
  BY <1>2, <1>10 DEF requestRefund
<1>11. ASSUME NEW r \in Refunds, finalizeRefund(r) \/ refundFailed(r) PROVE EditsPaid'
  BY <1>2, <1>11 DEF finalizeRefund, refundFailed
<1>12. ASSUME NEW o \in Orders, NEW keep, NEW cap, editNow(o, keep, cap) PROVE EditsPaid'
  <2>1. redeemed[o] /\ UNCHANGED redeemed /\ \A p \in Orders : p # o => edit'[p] = edit[p]
    BY <1>1, <1>12 DEF editNow
  <2> QED BY <1>3, <2>1
<1>13. ASSUME NEW o \in Orders, NEW keep, NEW cap, prepareCreditedOrderEdit(o, keep, cap) PROVE EditsPaid'
  <2>1. redeemed[o] /\ UNCHANGED redeemed /\ \A p \in Orders : p # o => edit'[p] = edit[p]
    BY <1>1, <1>13 DEF prepareCreditedOrderEdit
  <2> QED BY <1>3, <2>1
<1>14. ASSUME NEW o \in Orders, activatePreparedOrderEdit(o) PROVE EditsPaid'
  <2>1. redeemed[o] /\ UNCHANGED redeemed /\ \A p \in Orders : p # o => edit'[p] = edit[p]
    BY <1>1, <1>14 DEF activatePreparedOrderEdit, EditsPaid
  <2> QED BY <1>3, <2>1
<1> QED BY <1>4, <1>5, <1>6, <1>7, <1>8, <1>9, <1>10, <1>11, <1>12, <1>13, <1>14 DEF CreditNext

-----------------------------------------------------------------------------
(* The theorems. *)

CreditInv == CInv /\ EditsPaid

LEMMA CreditInvInit == CreditAssumption /\ CreditInit => CreditInv
<1> SUFFICES ASSUME CreditAssumption, CreditInit PROVE CreditInv
  OBVIOUS
<1>1. /\ balance = Issued /\ disabled = FALSE /\ used = {} /\ failures = 0
      /\ state = [o \in Orders |-> "AddingItems"] /\ hold = [o \in Orders |-> 0]
      /\ alloc = [o \in Orders |-> NoAlloc] /\ redeemed = [o \in Orders |-> FALSE]
      /\ rows = [o \in Orders |-> {}] /\ refund = [r \in Refunds |-> NoRefund]
      /\ edit = [o \in Orders |-> NoEdit]
  BY DEF CreditInit
<1>2. NoAlloc \in [Units -> Nat]
  BY DEF NoAlloc
<1>3. NoEdit \in EditRec /\ NoEdit.phase = "none"
  BY <1>2 DEF NoEdit, EditRec
<1>4. NoRefund \in RefundRec /\ NoRefund.state = "none" /\ NoRefund.frozen = FALSE
      /\ NoRefund.restoration = "none" /\ NoRefund.late = FALSE
  BY EmptyCents DEF NoRefund, RefundRec
<1>5. Types
  <2>1. balance \in Nat /\ disabled \in BOOLEAN /\ used \subseteq Keys /\ failures \in 0 .. Failures
    <3>1. balance \in Nat /\ failures \in 0 .. Failures
      BY <1>1 DEF CreditAssumption
    <3>2. disabled \in BOOLEAN /\ used \subseteq Keys
      BY <1>1
    <3> QED BY <3>1, <3>2
  <2>2. /\ state \in [Orders -> {"AddingItems", "PendingPayment", "Paid", "Cancelled"}]
        /\ hold \in [Orders -> Nat] /\ redeemed \in [Orders -> BOOLEAN]
    BY <1>1
  <2>3. alloc \in [Orders -> [Units -> Nat]]
    BY <1>1, <1>2
  <2>4. rows \in [Orders -> SUBSET RowRec] /\ \A o \in Orders : IsFiniteSet(rows[o])
    BY <1>1, FS_EmptySet
  <2>5. refund \in [Refunds -> RefundRec]
    BY <1>1, <1>4
  <2>6. edit \in [Orders -> EditRec]
    BY <1>1, <1>3
  <2> QED BY <2>1, <2>2, <2>3, <2>4, <2>5, <2>6 DEF Types
<1>6. HoldsCovered
  <2>1. SumOver(hold, Orders) = 0
    <3>1. PICK f : f = hold
      OBVIOUS
    <3>2. f \in [Orders -> Nat] /\ \A o \in Orders : f[o] = 0
      BY <1>1, <3>1
    <3>3. Cells(f, Orders) = {}
      BY <3>2 DEF Cells
    <3>4. SumOver(f, Orders) = Count(f, Orders)
      BY <3>2, SumIsCount DEF CreditAssumption
    <3> QED BY <3>1, <3>3, <3>4, FS_EmptySet DEF Count
  <2> QED BY <1>1, <2>1 DEF HoldsCovered, Held, CreditAssumption
<1>7. HoldInv
  BY <1>1 DEF HoldInv
<1>8. UnitInv
  BY <1>1, <1>2, NoRows DEF UnitInv
<1>9. RefundInv
  BY <1>1, <1>4 DEF RefundInv, RefundAt, Posted
<1>10. \A o : RefundsOf(o) = {}
  BY <1>1, <1>4 DEF RefundsOf
<1>11. FrozenInv
  <2>1. \A o : FrozenUnits(o) = {}
    BY <1>10, InFrozen
  <2> QED BY <1>10, <2>1 DEF FrozenInv, FrozenAt
<1>12. EditInv /\ EditsPaid
  BY <1>1, <1>3 DEF EditInv, EditsPaid, PendingEdit
<1> QED BY <1>5, <1>6, <1>7, <1>8, <1>9, <1>11, <1>12 DEF CreditInv, CInv

LEMMA CreditInvStutter ==
  ASSUME CreditAssumption, CInv, UNCHANGED creditVars PROVE CInv'
<1>1. UNCHANGED <<balance, disabled, used, state, hold, alloc, redeemed, rows, refund, edit, failures>>
  BY DEF creditVars
<1>2. Types' /\ HoldsCovered' /\ HoldInv' /\ UnitInv'
  BY <1>1 DEF CInv, Types, HoldsCovered, Held, HoldInv, UnitInv
<1>3. RefundInv' /\ FrozenInv' /\ EditInv'
  BY <1>1, <1>2, HoldFrame
<1> QED BY <1>2, <1>3 DEF CInv

LEMMA CreditInvStep ==
  ASSUME CreditAssumption, CreditInv, [CreditNext]_creditVars
  PROVE  CreditInv'
<1>1. CInv /\ EditsPaid /\ Types
  BY DEF CreditInv, CInv
<1>2. EditsPaid'
  BY <1>1, EditsPaidStep
<1>3. ASSUME UNCHANGED creditVars PROVE CInv'
  BY <1>1, <1>3, CreditInvStutter
<1>4. ASSUME NEW o \in Orders, reserve(o) \/ settle(o) \/ release(o) PROVE CInv'
  BY <1>1, <1>4, ReserveStep, SettleStep, ReleaseStep
<1>5. ASSUME NEW k \in Keys, NEW a \in Amounts, adjust(k, a) \/ adjust(k, -a) PROVE CInv'
  <2>1. a \in Int /\ -a \in Int
    BY DEF CreditAssumption
  <2> QED BY <1>1, <1>5, <2>1, AccountStep
<1>6. ASSUME NEW k \in Keys, disable(k) PROVE CInv'
  <2>1. 0 \in Int
    OBVIOUS
  <2> QED BY <1>1, <1>6, <2>1, AccountStep
<1>7. ASSUME NEW k \in Keys, NEW o \in Orders, NEW n \in Units, restoreManual(k, o, n) PROVE CInv'
  BY <1>1, <1>7, ManualStep
<1>8. ASSUME NEW r \in Refunds, NEW o \in Orders, NEW n \in Units, requestRefund(r, o, n) PROVE CInv'
  BY <1>1, <1>8, RequestStep
<1>9. ASSUME NEW r \in Refunds, finalizeRefund(r) \/ refundFailed(r) PROVE CInv'
  BY <1>1, <1>9, FinalizeStep, RefundFailedStep
<1>10. ASSUME NEW o \in Orders, NEW keep \in Keeps(o), NEW c \in 0 .. Price,
              editNow(o, keep, [u \in Units |-> c]) \/ prepareCreditedOrderEdit(o, keep, [u \in Units |-> c])
       PROVE  CInv'
  <2>1. PICK cap : cap = [u \in Units |-> c]
    OBVIOUS
  <2>2. keep \in SUBSET Units /\ cap \in [Units -> Nat]
    BY <1>1, <2>1, KeepFacts
  <2>3. editNow(o, keep, cap) \/ prepareCreditedOrderEdit(o, keep, cap)
    BY <1>10, <2>1
  <2> QED BY <1>1, <2>2, <2>3, EditNowStep, PrepareStep
<1>11. ASSUME NEW o \in Orders, activatePreparedOrderEdit(o) PROVE CInv'
  BY <1>1, <1>11, ActivateStep
<1>12. CInv'
  BY <1>3, <1>4, <1>5, <1>6, <1>7, <1>8, <1>9, <1>10, <1>11 DEF CreditNext
<1> QED BY <1>2, <1>12 DEF CreditInv

LEMMA CreditInductive == ASSUME CreditAssumption PROVE CreditSpec => []CreditInv
<1>1. CreditInit => CreditInv
  BY CreditInvInit
<1>2. CreditInv /\ [CreditNext]_creditVars => CreditInv'
  BY CreditInvStep
<1> QED BY <1>1, <1>2, PTL DEF CreditSpec

(* Whatever orders hold, operators deduct, settlements redeem or fail to   *)
(* redeem and refunds give back, the account covers every pending hold and *)
(* a paid order's discount is backed by its redemption or by its hold, for *)
(* every number of orders, units, refunds and cents.                       *)
THEOREM CreditIsCovered == ASSUME CreditAssumption PROVE CreditSpec => []CreditCovered
<1>1. CreditInv => CreditCovered
  <2> SUFFICES ASSUME CreditInv PROVE CreditCovered
    OBVIOUS
  <2>1. Types /\ HoldsCovered /\ HoldInv
    BY DEF CreditInv, CInv
  <2>2. \A o \in Orders : edit[o].phase \in {"none", "awaiting", "activated"}
    BY <2>1 DEF Types, EditRec
  <2>3. \A r \in Refunds :
          /\ refund[r].state \in {"none", "Pending", "Settled", "Failed"}
          /\ refund[r].restoration \in {"none", "posted", "not_applicable", "reconciliation_required"}
    BY <2>1 DEF Types, RefundRec
  <2>4. CreditTypeOK
    BY <2>1, <2>2, <2>3 DEF Types, CreditTypeOK
  <2>5. DiscountBacked
    BY <2>1 DEF HoldInv, DiscountBacked
  <2> QED BY <2>1, <2>4, <2>5 DEF CreditCovered
<1> QED BY <1>1, CreditInductive, PTL

LEMMA OneAtMost ==
  ASSUME NEW S, \A v, w \in S : v = w PROVE Cardinality(S) <= 1
<1>1. CASE S = {}
  BY <1>1, FS_EmptySet
<1>2. CASE S # {}
  <2>1. PICK v \in S : TRUE
    BY <1>2
  <2>2. S = {v}
    BY <2>1
  <2> QED BY <2>2, FS_Singleton
<1> QED BY <1>1, <1>2

(* Refunds, manual returns and edits together give a unit back once and    *)
(* never more than was redeemed on it; what a refund froze is there when   *)
(* it settles, and an accepted edit can be activated, whatever the order   *)
(* in which they are requested, settled, failed and replayed.              *)
THEOREM UnitsAreGivenBackOnce == ASSUME CreditAssumption PROVE CreditSpec => []UnitsGivenBackOnce
<1>1. CreditInv => UnitsGivenBackOnce
  <2> SUFFICES ASSUME CreditInv PROVE UnitsGivenBackOnce
    OBVIOUS
  <2>1. Types /\ UnitInv /\ RefundInv /\ FrozenInv /\ EditInv
    BY DEF CreditInv, CInv
  <2>2. UnitsReturnedOnce
    <3>1. ASSUME NEW o \in Orders, NEW u \in Units, NEW S,
                 S = {row \in rows[o] : row.isReturn /\ u \in DOMAIN row.cents}
          PROVE  remaining(o, u) >= 0 /\ Cardinality(S) <= 1 /\ (S # {} => remaining(o, u) = 0)
      <4>1. Sound(rows[o], alloc[o]) /\ remaining(o, u) = Left(rows[o], alloc[o], u)
        BY <2>1, Views DEF UnitInv
      <4>2. remaining(o, u) \in Nat /\ (u \in Returned(rows[o]) => remaining(o, u) = 0)
        BY <4>1 DEF Sound
      <4>3. \A v, w \in S : v = w
        BY <3>1, <4>1 DEF Sound, ReturnsOf
      <4>4. S # {} => u \in Returned(rows[o])
        BY <3>1, InReturned
      <4> QED BY <4>2, <4>3, <4>4, OneAtMost
    <3> QED BY <3>1 DEF UnitsReturnedOnce
  <2>3. FrozenUnitsUntouched
    <3> SUFFICES ASSUME NEW r \in Refunds, refund[r].frozen,
                        refund[r].state = "Pending" \/ refund[r].restoration = "reconciliation_required",
                        ~(\E x \in Refunds : refund[x].order = refund[r].order /\ refund[x].late)
                 PROVE  Restorable(r, refund[r].order)
      BY DEF FrozenUnitsUntouched
    <3>1. PICK o : o = refund[r].order
      OBVIOUS
    <3>2. RefundAt(r) /\ o \in Orders
      BY <2>1, <3>1 DEF RefundInv, RefundAt
    <3>3. refund[r].state \in {"Pending", "Settled"}
      BY <3>2 DEF RefundAt
    <3>4. r \in RefundsOf(o) /\ Waiting(r)
      BY <3>1, <3>3 DEF RefundsOf, Waiting
    <3>5. ~Late(o)
      BY <3>1 DEF Late, RefundsOf
    <3> QED BY <2>1, <3>1, <3>2, <3>4, <3>5 DEF FrozenInv, FrozenAt
  <2>4. AcceptedEditActivates
    BY <2>1 DEF EditInv, EditAt, Fixed, AcceptedEditActivates
  <2> QED BY <2>2, <2>3, <2>4 DEF UnitsGivenBackOnce
<1> QED BY <1>1, CreditInductive, PTL
=============================================================================
