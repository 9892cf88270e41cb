--------------------------- MODULE LedgersProofs ----------------------------
(***************************************************************************)
(* Machine-checked proofs about order edits and the lock sets under which  *)
(* their transactions run.                                                 *)
(*                                                                         *)
(* Lock sets, for any rows, transactions and restart budgets.  A plan is   *)
(* read before anything is locked, so a plan alone says nothing.  What     *)
(* carries the argument is the order row: children of an order are         *)
(* inserted only by the holder of its row, so that from the moment a       *)
(* transaction holds the row the order's family stands still, and the plan *)
(* read once more under it is complete.  The invariant says of each        *)
(* transaction what its phase holds and has verified (PhaseOf), that       *)
(* nothing invisible is held or planned (RowsFor), that it owns its        *)
(* uncommitted inserts (BornOf), and that the rows it has yet to lock lie  *)
(* above those it holds (UpwardOf).                                        *)
(*                                                                         *)
(* Order edits, for any operators, edits, totals and number of retries.    *)
(* That no credit is refunded twice is not inductive: a replay issues the  *)
(* refund of a stored balance, whatever is owed by then.  It is safe since *)
(* the refund of a commit is recorded before the locks are let go          *)
(* (Recorded): its amount was feasible, and under the locks the payment    *)
(* cannot shrink (Covered).  What the holder of the locks is about to      *)
(* reserve is therefore owed, or has been reserved already.                *)
(*                                                                         *)
(* A sum is computed as the number of its units, the positive ones less    *)
(* the negative ones (SumIsCount, by a least counterexample): then a write *)
(* of one row moves it by what the row changes (SumWrite).                 *)
(***************************************************************************)
EXTENDS LockSets, OrderEdits, TLAPS, FiniteSetTheorems, WellFoundedInduction

-----------------------------------------------------------------------------
(* THE LOCK SETS                                                            *)


Committed(r) == r \in placed \/ (r \in Children /\ parent[r] # 0)

\* The transaction is past its own locks.
Inside == {"run", "lockIn", "lockInRes", "lockOrder"}
Ended == {"idle", "committed", "failed"}

\* An insert that is not committed belongs to one transaction, which holds the
\* row and its order.
BornOf(t) ==
    /\ born[t] # {} => pc[t] \in Inside
    /\ \A x \in born[t] :
          /\ x[2] \in placed /\ holder[x[2]] = t
          /\ holder[x[1]] = t /\ parent[x[1]] = 0
    /\ \A x, y \in born[t] : x[1] = y[1] => x = y

\* Only rows that are there are held, and only such rows are planned.
RowsFor(t) ==
    /\ \A r \in Rows : holder[r] = t =>
          pc[t] \notin Ended /\ (Committed(r) \/ r \in Newborn(t))
    /\ \A r \in plan[t] : Committed(r) \/ r \in Newborn(t)
    /\ \A r \in innerPlan[t] : Committed(r) \/ r \in Newborn(t)

\* The rows of P that are not left to lock are held.
Locked(t, P) == \A r \in P : r \in todo[t] \/ holder[r] = t

\* The order o is held and no child of it is missing from P.
Verified(t, o, P) == holder[o] = t /\ \A c \in Children : parent[c] = o => c \in P

PhaseOf(t) ==
    /\ pc[t] \notin Ended /\ subject[t] # 0 => subject[t] \in plan[t]
    /\ pc[t] \notin {"run", "lockIn", "lockInRes"} => inner[t] = 0
    /\ pc[t] = "lock" =>
          /\ todo[t] \cap Reservations = {}
          /\ Locked(t, plan[t] \ Reservations)
    /\ pc[t] = "lockRes" =>
          /\ todo[t] \subseteq Reservations
          /\ Locked(t, plan[t])
          /\ subject[t] # 0 => Verified(t, subject[t], plan[t])
    /\ pc[t] \in Inside /\ subject[t] # 0 => HoldsSetOf(t, subject[t])
    /\ pc[t] = "lockIn" =>
          /\ inner[t] \in innerPlan[t] \cap Orders
          /\ Locked(t, innerPlan[t] \ Reservations)
          /\ todo[t] \cap Reservations = {}
          /\ (\E x \in born[t] : x[2] = inner[t]) => PlanFor(t, inner[t]) \subseteq innerPlan[t]
    /\ pc[t] = "lockInRes" =>
          /\ inner[t] \in Orders
          /\ Locked(t, innerPlan[t])
          /\ Verified(t, inner[t], innerPlan[t])
    /\ pc[t] = "run" /\ inner[t] # 0 => HoldsSetOf(t, inner[t])

\* While a transaction takes its own set, what it has yet to lock lies above what
\* it holds, and it holds no reservation before the licences and orders are done.
UpwardOf(t) ==
    /\ pc[t] \in {"lock", "lockRes"} =>
          \A r \in Rows, x \in todo[t] : holder[r] = t => r < x
    /\ pc[t] = "lock" => \A r \in Reservations : holder[r] # t

TxInv(t) == BornOf(t) /\ RowsFor(t) /\ PhaseOf(t) /\ UpwardOf(t)

ParentsPlaced == \A c \in Children : parent[c] \in placed \cup {0}

IInv == TypeOK /\ ParentsPlaced /\ \A t \in Tx : TxInv(t)

-----------------------------------------------------------------------------
(* The rows.                                                                *)

LEMMA RowFacts ==
  ASSUME RowsAssumption
  PROVE  /\ Rows \subseteq Nat \ {0} /\ Rows \subseteq Int
         /\ Orders \subseteq Rows /\ Children \subseteq Rows /\ Reservations \subseteq Children
         /\ Children \cap Orders = {} /\ 0 \notin Orders /\ Orders \cap Reservations = {}
         /\ \A r \in Rows \ Reservations, x \in Reservations : r < x
BY DEF RowsAssumption, Rows, Children

LEMMA NewbornFacts ==
  ASSUME TypeOK, NEW t \in Tx
  PROVE  /\ Newborn(t) \subseteq Children
         /\ \A r : r \in Newborn(t) <=> \E x \in born[t] : x[1] = r
         /\ \A x \in born[t] : x[1] \in Newborn(t) /\ x[1] \in Children /\ x[2] \in Orders
BY DEF TypeOK, Newborn

LEMMA PlanForFacts ==
  ASSUME RowsAssumption, TypeOK, NEW t \in Tx, NEW s \in Orders \cup {0}
  PROVE  /\ PlanFor(t, s) \in SUBSET Rows
         /\ s # 0 => /\ s \in PlanFor(t, s)
                     /\ \A c \in Children : parent[c] = s => c \in PlanFor(t, s)
                     /\ \A r \in PlanFor(t, s) :
                          \/ r = s \/ (r \in Children /\ parent[r] = s)
                          \/ \E x \in born[t] : x[2] = s /\ x[1] = r
         /\ \A r \in PlanFor(t, s) :
               \/ r = s \/ r \in placed
               \/ r \in Children /\ parent[r] \in placed \cup {s} /\ parent[r] # 0
               \/ \E x \in born[t] : x[1] = r
<1>1. placed \subseteq Rows /\ s \in Rows \cup {0} /\ Children \subseteq Rows /\ 0 \notin Orders
      /\ placed \subseteq Orders
  BY RowFacts DEF TypeOK
<1>2. \A x \in born[t] : x[1] \in Children
  BY NewbornFacts
<1>3. CASE s = 0
  BY <1>1, <1>2, <1>3 DEF PlanFor, RowsOf
<1>4. CASE s # 0
  BY <1>1, <1>2, <1>4 DEF PlanFor, RowsOf
<1> QED BY <1>3, <1>4
-----------------------------------------------------------------------------
(* Steps of one transaction, seen from another.                             *)

\* Nothing of the transaction's own changes.
Same(t) ==
    /\ pc'[t] = pc[t] /\ subject'[t] = subject[t] /\ plan'[t] = plan[t]
    /\ inner'[t] = inner[t] /\ innerPlan'[t] = innerPlan[t] /\ todo'[t] = todo[t]
    /\ born'[t] = born[t]

\* A transaction t keeps its invariant when nothing of its own changes, no lock
\* of it is taken or given, and no order it holds gets a child.
LEMMA OtherKeeps ==
  ASSUME RowsAssumption, TypeOK, NEW t \in Tx, TxInv(t),
         pc'[t] = pc[t], subject'[t] = subject[t], plan'[t] = plan[t], inner'[t] = inner[t],
         innerPlan'[t] = innerPlan[t], todo'[t] = todo[t], born'[t] = born[t],
         placed \subseteq placed',
         \A r \in Rows : holder'[r] = t <=> holder[r] = t,
         \A c \in Children : parent'[c] # parent[c] =>
             /\ parent[c] = 0 /\ parent'[c] \in Orders
             /\ holder[parent'[c]] # t /\ c \notin Newborn(t)
  PROVE  TxInv(t)'
<1>1. /\ Newborn(t)' = Newborn(t) /\ Newborn(t) \subseteq Children
      /\ \A x \in born[t] : x[1] \in Children /\ x[1] \in Newborn(t) /\ x[2] \in Orders
  BY NewbornFacts DEF Newborn
<1>2. \A r : Committed(r) => Committed(r)'
  BY RowFacts DEF Committed
<1>3. plan[t] \subseteq Rows /\ innerPlan[t] \subseteq Rows /\ subject[t] \in Orders \cup {0}
      /\ inner[t] \in Orders \cup {0}
  BY DEF TypeOK
<1>4. Orders \subseteq Rows /\ Children \subseteq Rows /\ 0 \notin Orders
      /\ Reservations \subseteq Children
  BY RowFacts
<1>5. BornOf(t)'
  <2>1. \A x \in born[t] : parent'[x[1]] = parent[x[1]]
    BY <1>1
  <2> QED BY <1>1, <1>4, <2>1 DEF TxInv, BornOf
<1>6. RowsFor(t)'
  BY <1>1, <1>2, <1>3 DEF TxInv, RowsFor
<1>7. \A o \in Orders, c \in Children : holder[o] = t => (parent'[c] = o <=> parent[c] = o)
  BY <1>4
<1>8. PhaseOf(t)'
  <2>1. \A P \in SUBSET Rows : Locked(t, P) => Locked(t, P)'
    BY DEF Locked
  <2>2. \A o \in Orders : HoldsSetOf(t, o) => HoldsSetOf(t, o)'
    BY <1>4, <1>7 DEF HoldsSetOf
  <2>3. \A o \in Orders, P \in SUBSET Rows : Verified(t, o, P) => Verified(t, o, P)'
    BY <1>4, <1>7 DEF Verified
  <2>4. pc[t] = "lockIn" /\ (\E x \in born[t] : x[2] = inner[t]) =>
          PlanFor(t, inner[t])' \subseteq innerPlan[t]
    <3> SUFFICES ASSUME pc[t] = "lockIn", NEW x \in born[t], x[2] = inner[t]
                 PROVE  PlanFor(t, inner[t])' \subseteq innerPlan[t]
      OBVIOUS
    <3>1. /\ inner[t] \in Orders /\ holder[inner[t]] = t
          /\ PlanFor(t, inner[t]) \subseteq innerPlan[t]
      BY <1>1 DEF TxInv, BornOf, PhaseOf
    <3>2. PlanFor(t, inner[t])' = PlanFor(t, inner[t])
      BY <1>4, <1>7, <3>1 DEF PlanFor, RowsOf
    <3> QED BY <3>1, <3>2
  <2>5. /\ plan[t] \in SUBSET Rows /\ innerPlan[t] \in SUBSET Rows
        /\ plan[t] \ Reservations \in SUBSET Rows /\ innerPlan[t] \ Reservations \in SUBSET Rows
    BY <1>3
  <2>6. PhaseOf(t)
    BY DEF TxInv
  <2> QED BY <1>3, <2>1, <2>2, <2>3, <2>4, <2>5, <2>6 DEF PhaseOf
<1>9. UpwardOf(t)'
  BY <1>4 DEF TxInv, UpwardOf, Rows
<1> QED BY <1>5, <1>6, <1>8, <1>9 DEF TxInv

\* What a step of u that touches neither locks nor rows leaves to the others.
LEMMA LocalStep ==
  ASSUME RowsAssumption, IInv, NEW u \in Tx, UNCHANGED <<placed, parent, holder>>,
         \A t \in Tx : t # u => Same(t),
         TypeOK', TxInv(u)'
  PROVE  IInv'
<1>1. ASSUME NEW t \in Tx, t # u PROVE TxInv(t)'
  BY <1>1, OtherKeeps DEF IInv, Same
<1>2. ParentsPlaced'
  BY DEF IInv, ParentsPlaced
<1> QED BY <1>1, <1>2 DEF IInv

LEMMA ReleasedFacts ==
  ASSUME TypeOK, TxAssumption, NEW u \in Tx, holder' = Released(u)
  PROVE  /\ holder' \in [Rows -> Tx \cup {NoTx}]
         /\ \A r \in Rows : holder'[r] # u
         /\ \A t \in Tx : t # u => \A r \in Rows : holder'[r] = t <=> holder[r] = t
BY DEF TypeOK, Released, TxAssumption

\* A rollback releases everything and undoes the inserts; a transaction that
\* starts over works with rows that are there.
LEMMA RestartKeeps ==
  ASSUME RowsAssumption, TxAssumption, IInv, NEW u \in Tx, NEW P \in SUBSET Rows,
         \A r \in P : Committed(r),
         subject[u] # 0 => subject[u] \in P,
         Restart(u, P)
  PROVE  /\ ParentsPlaced' /\ (\A t \in Tx : TxInv(t)')
         /\ holder' \in [Rows -> Tx \cup {NoTx}]
<1>1. TypeOK
  BY DEF IInv
<1>2. /\ \A r \in Rows : holder'[r] # u
      /\ \A t \in Tx : t # u => \A r \in Rows : holder'[r] = t <=> holder[r] = t
      /\ holder' \in [Rows -> Tx \cup {NoTx}]
  BY <1>1, ReleasedFacts DEF Restart, Rollback
<1>3. UNCHANGED <<placed, parent, subject>>
  BY DEF Restart, Rollback
<1>4. ASSUME NEW t \in Tx, t # u PROVE TxInv(t)'
  <2>1. /\ pc'[t] = pc[t] /\ subject'[t] = subject[t] /\ plan'[t] = plan[t]
        /\ inner'[t] = inner[t] /\ innerPlan'[t] = innerPlan[t] /\ todo'[t] = todo[t]
        /\ born'[t] = born[t]
    BY <1>1, <1>4 DEF Restart, Rollback, TypeOK
  <2> QED BY <1>1, <1>2, <1>3, <1>4, <2>1, OtherKeeps DEF IInv
<1>5. TxInv(u)'
  <2>1. /\ pc'[u] = "lock" /\ plan'[u] = P /\ todo'[u] = P \ Reservations
        /\ inner'[u] = 0 /\ innerPlan'[u] = {} /\ born'[u] = {} /\ subject'[u] = subject[u]
    BY <1>1, <1>3 DEF Restart, Rollback, TypeOK
  <2>2. BornOf(u)'
    BY <2>1 DEF BornOf
  <2>3. RowsFor(u)'
    BY <1>2, <1>3, <2>1 DEF RowsFor, Committed
  <2>4. PhaseOf(u)'
    BY <2>1 DEF PhaseOf, Locked, Inside
  <2>5. UpwardOf(u)'
    BY <1>2, <2>1, RowFacts DEF UpwardOf, Rows
  <2> QED BY <2>2, <2>3, <2>4, <2>5 DEF TxInv
<1>6. ParentsPlaced'
  BY <1>3 DEF IInv, ParentsPlaced
<1> QED BY <1>2, <1>4, <1>5, <1>6

LEMMA GiveUpKeeps ==
  ASSUME RowsAssumption, TxAssumption, IInv, NEW u \in Tx, GiveUp(u)
  PROVE  IInv'
<1>1. TypeOK
  BY DEF IInv
<1>2. /\ \A r \in Rows : holder'[r] # u
      /\ \A t \in Tx : t # u => \A r \in Rows : holder'[r] = t <=> holder[r] = t
      /\ holder' \in [Rows -> Tx \cup {NoTx}]
  BY <1>1, ReleasedFacts DEF GiveUp, Rollback
<1>3. UNCHANGED <<placed, parent, subject>>
  BY DEF GiveUp, Rollback
<1>4. ASSUME NEW t \in Tx, t # u PROVE TxInv(t)'
  <2>1. /\ pc'[t] = pc[t] /\ subject'[t] = subject[t] /\ plan'[t] = plan[t]
        /\ inner'[t] = inner[t] /\ innerPlan'[t] = innerPlan[t] /\ todo'[t] = todo[t]
        /\ born'[t] = born[t]
    BY <1>1, <1>4 DEF GiveUp, Rollback, TypeOK
  <2> QED BY <1>1, <1>2, <1>3, <1>4, <2>1, OtherKeeps DEF IInv
<1>5. TxInv(u)'
  <2>1. /\ pc'[u] = "failed" /\ plan'[u] = {} /\ innerPlan'[u] = {} /\ born'[u] = {}
        /\ inner'[u] = 0
    BY <1>1 DEF GiveUp, Rollback, TypeOK
  <2> QED BY <1>2, <2>1 DEF TxInv, BornOf, RowsFor, PhaseOf, UpwardOf, Inside, Ended
<1>6. TypeOK'
  BY <1>1, <1>2, RowFacts DEF GiveUp, Rollback, TypeOK, Phases
<1>7. ParentsPlaced'
  BY <1>3 DEF IInv, ParentsPlaced
<1> QED BY <1>4, <1>5, <1>6, <1>7 DEF IInv
-----------------------------------------------------------------------------
(* One lemma per kind of step.                                              *)

\* The plan of the call, with or without a further verified plan, is made of rows
\* that are there once the inserts are undone.
LEMMA CallPlanFacts ==
  ASSUME RowsAssumption, IInv, NEW u \in Tx, Locking(u)
  PROVE  /\ CallPlan(u) \in SUBSET Rows /\ (\A r \in CallPlan(u) : Committed(r))
         /\ subject[u] # 0 => subject[u] \in CallPlan(u)
<1>1. TypeOK /\ RowsFor(u) /\ PhaseOf(u)
  BY DEF IInv, TxInv
<1>2. plan[u] \in SUBSET Rows /\ subject[u] \in Orders \cup {0} /\ Newborn(u) \subseteq Children
      /\ Children \cap Orders = {}
  BY <1>1, NewbornFacts, RowFacts DEF TypeOK
<1>3. pc[u] \notin Ended
  BY DEF Locking, Ended
<1> QED BY <1>1, <1>2, <1>3 DEF CallPlan, RowsFor, PhaseOf

LEMMA RestartStep ==
  ASSUME RowsAssumption, TxAssumption, IInv, NEW u \in Tx, Locking(u), NEW Q \in SUBSET Rows,
         CallPlan(u) \subseteq Q, \A r \in Q : Committed(r), Restart(u, Q),
         attempt' \in [Tx -> 0 .. MaxRestarts], transient' \in [Tx -> 0 .. MaxRestarts]
  PROVE  IInv'
<1>1. subject[u] # 0 => subject[u] \in Q
  BY CallPlanFacts
<1>2. /\ ParentsPlaced' /\ (\A t \in Tx : TxInv(t)')
      /\ holder' \in [Rows -> Tx \cup {NoTx}]
  BY <1>1, RestartKeeps
<1>3. TypeOK'
  <2>1. TypeOK
    BY DEF IInv
  <2>2. /\ plan' \in [Tx -> SUBSET Rows] /\ todo' \in [Tx -> SUBSET Rows]
        /\ pc' \in [Tx -> Phases]
    BY <2>1 DEF Restart, TypeOK, Phases
  <2>3. /\ inner' \in [Tx -> Orders \cup {0}] /\ innerPlan' \in [Tx -> SUBSET Rows]
        /\ born' \in [Tx -> SUBSET (Children \X Orders)]
        /\ UNCHANGED <<placed, parent, subject>>
    BY <2>1 DEF Restart, Rollback, TypeOK
  <2> QED BY <1>2, <2>1, <2>2, <2>3 DEF TypeOK
<1> QED BY <1>2, <1>3 DEF IInv

LEMMA BudgetFacts ==
  ASSUME TypeOK, TxAssumption, NEW u \in Tx
  PROVE  /\ attempt \in [Tx -> 0 .. MaxRestarts] /\ transient \in [Tx -> 0 .. MaxRestarts]
         /\ attempt[u] < MaxRestarts =>
               [attempt EXCEPT ![u] = @ + 1] \in [Tx -> 0 .. MaxRestarts]
         /\ [attempt EXCEPT ![u] = IF u \in MustCommit \/ @ >= MaxRestarts THEN @ ELSE @ + 1]
               \in [Tx -> 0 .. MaxRestarts]
         /\ transient[u] < MaxRestarts =>
               [transient EXCEPT ![u] = @ + 1] \in [Tx -> 0 .. MaxRestarts]
BY DEF TypeOK, TxAssumption

LEMMA GrewKeeps ==
  ASSUME RowsAssumption, TxAssumption, IInv, NEW u \in Tx, Locking(u), NEW P \in SUBSET Rows,
         \A r \in P : Committed(r), Grew(u, P)
  PROVE  IInv'
<1>1. TypeOK
  BY DEF IInv
<1>2. CASE GiveUp(u)
  BY <1>2, GiveUpKeeps
<1>3. CASE Restart(u, CallPlan(u) \cup P) /\ UNCHANGED transient
           /\ (UNCHANGED attempt \/ (attempt[u] < MaxRestarts
                                       /\ attempt' = [attempt EXCEPT ![u] = @ + 1]))
  <2>1. attempt' \in [Tx -> 0 .. MaxRestarts] /\ transient' \in [Tx -> 0 .. MaxRestarts]
    BY <1>1, <1>3, BudgetFacts
  <2> DEFINE Q == CallPlan(u) \cup P
  <2>2. Q \in SUBSET Rows /\ CallPlan(u) \subseteq Q /\ \A r \in Q : Committed(r)
    BY CallPlanFacts
  <2>3. Restart(u, Q)
    BY <1>3
  <2> HIDE DEF Q
  <2> QED BY <2>1, <2>2, <2>3, RestartStep
<1> QED BY <1>2, <1>3 DEF Grew

\* A lock that is not granted in time, and the victim of a cycle.
LEMMA ContentionKeeps ==
  ASSUME RowsAssumption, TxAssumption, IInv, NEW u \in Tx, LockTimeout(u) \/ DeadlockVictim(u)
  PROVE  IInv'
<1>1. TypeOK
  BY DEF IInv
<1>2. Locking(u)
  <2>1. CASE LockTimeout(u)
    BY <2>1 DEF LockTimeout, Blocked
  <2>2. CASE DeadlockVictim(u)
    BY <2>2 DEF DeadlockVictim, WaitCycle, WaitsFor, Blocked
  <2> QED BY <2>1, <2>2
<1>3. CASE GiveUp(u)
  BY <1>3, GiveUpKeeps
<1>4. CASE /\ Restart(u, CallPlan(u))
           /\ \/ /\ attempt[u] < MaxRestarts /\ attempt' = [attempt EXCEPT ![u] = @ + 1]
                 /\ UNCHANGED transient
              \/ /\ transient[u] < MaxRestarts /\ transient' = [transient EXCEPT ![u] = @ + 1]
                 /\ attempt' = [attempt EXCEPT ![u] =
                                   IF u \in MustCommit \/ @ >= MaxRestarts THEN @ ELSE @ + 1]
  <2>1. attempt' \in [Tx -> 0 .. MaxRestarts] /\ transient' \in [Tx -> 0 .. MaxRestarts]
    BY <1>1, <1>4, BudgetFacts
  <2> QED BY <1>2, <1>4, <2>1, CallPlanFacts, RestartStep
<1> QED BY <1>3, <1>4 DEF LockTimeout, DeadlockVictim

\* A row lock is taken from nobody.
LEMMA LockRowKeeps ==
  ASSUME RowsAssumption, TxAssumption, IInv, NEW u \in Tx, LockRow(u)
  PROVE  IInv'
<1>1. TypeOK /\ TxInv(u)
  BY DEF IInv
<1>2. PICK r \in Rows :
        /\ Next1(u, r) /\ ~ Blocked(u, r)
        /\ holder' = IF Visible(u, r) THEN [holder EXCEPT ![r] = u] ELSE holder
        /\ todo' = [todo EXCEPT ![u] = @ \ {r}]
  BY DEF LockRow
<1>3. /\ UNCHANGED <<placed, parent, pc, subject, plan, inner, innerPlan, born, attempt, transient>>
      /\ Locking(u)
  BY DEF LockRow
<1>4. Visible(u, r) => holder[r] \in {u, NoTx}
  BY <1>2, <1>3 DEF Blocked
<1>5. Visible(u, r) <=> Committed(r) \/ r \in Newborn(u)
  BY DEF Visible, Committed
<1>6. /\ \A x \in Rows : holder'[x] = u <=> holder[x] = u \/ (x = r /\ Visible(u, r))
      /\ \A t \in Tx : t # u => \A x \in Rows : holder'[x] = t <=> holder[x] = t
      /\ holder' \in [Rows -> Tx \cup {NoTx}]
  BY <1>1, <1>2, <1>4 DEF TypeOK, TxAssumption
<1>7. /\ todo'[u] = todo[u] \ {r} /\ \A t \in Tx : t # u => todo'[t] = todo[t]
      /\ todo' \in [Tx -> SUBSET Rows] /\ todo[u] \subseteq Rows
      /\ r \in todo[u] /\ \A x \in todo[u] : r <= x
  BY <1>1, <1>2 DEF TypeOK, Next1
<1>8. ASSUME NEW t \in Tx, t # u PROVE TxInv(t)'
  BY <1>1, <1>3, <1>6, <1>7, <1>8, OtherKeeps DEF IInv
<1>9. TxInv(u)'
  <2>1. Newborn(u)' = Newborn(u) /\ \A x : Committed(x)' <=> Committed(x)
    BY <1>3 DEF Newborn, Committed
  <2>2. Orders \subseteq Rows /\ Children \subseteq Rows /\ Reservations \subseteq Rows
        /\ Rows \subseteq Int
    BY RowFacts
  <2>3. BornOf(u)'
    BY <1>1, <1>3, <1>6, <2>2, NewbornFacts DEF TxInv, BornOf
  <2>4. RowsFor(u)'
    <3>1. pc[u] \notin Ended
      BY <1>3 DEF Locking, Ended
    <3> QED BY <1>1, <1>3, <1>5, <1>6, <2>1, <3>1 DEF TxInv, RowsFor
  <2>5. PhaseOf(u)'
    <3>1. \A P \in SUBSET Rows :
            Locked(u, P) /\ (\A x \in P : Committed(x) \/ x \in Newborn(u)) => Locked(u, P)'
      BY <1>5, <1>6, <1>7 DEF Locked
    <3>2. \A o \in Orders : HoldsSetOf(u, o) => HoldsSetOf(u, o)'
      BY <1>3, <1>6, <2>2 DEF HoldsSetOf
    <3>3. \A o \in Orders, P \in SUBSET Rows : Verified(u, o, P) => Verified(u, o, P)'
      BY <1>3, <1>6, <2>2 DEF Verified
    <3>4. PlanFor(u, inner[u])' = PlanFor(u, inner[u])
      BY <1>3 DEF PlanFor, RowsOf
    <3>5. /\ plan[u] \in SUBSET Rows /\ innerPlan[u] \in SUBSET Rows
          /\ plan[u] \ Reservations \in SUBSET Rows
          /\ innerPlan[u] \ Reservations \in SUBSET Rows
          /\ subject[u] \in Orders \cup {0} /\ inner[u] \in Orders \cup {0}
      BY <1>1 DEF TypeOK
    <3>6. /\ Locked(u, plan[u]) => Locked(u, plan[u])'
          /\ Locked(u, plan[u] \ Reservations) => Locked(u, plan[u] \ Reservations)'
          /\ Locked(u, innerPlan[u]) => Locked(u, innerPlan[u])'
          /\ Locked(u, innerPlan[u] \ Reservations) => Locked(u, innerPlan[u] \ Reservations)'
      BY <1>1, <1>3, <3>1, <3>5 DEF TxInv, RowsFor
    <3>7. PhaseOf(u)
      BY <1>1 DEF TxInv
    <3> QED BY <1>3, <1>7, <3>2, <3>3, <3>4, <3>5, <3>6, <3>7 DEF PhaseOf
  <2>6. UpwardOf(u)'
    <3>1. UpwardOf(u) /\ (pc[u] = "lock" => todo[u] \cap Reservations = {})
      BY <1>1 DEF TxInv, PhaseOf
    <3> QED BY <1>3, <1>6, <1>7, <2>2, <3>1 DEF UpwardOf
  <2> QED BY <2>3, <2>4, <2>5, <2>6 DEF TxInv
<1>10. TypeOK'
  BY <1>1, <1>3, <1>6, <1>7 DEF TypeOK
<1>11. ParentsPlaced'
  BY <1>3 DEF IInv, ParentsPlaced
<1> QED BY <1>8, <1>9, <1>10, <1>11 DEF IInv
\* Nothing of u changes but its phase, its todo and its plans: what is held and
\* there stays so.
LEMMA OwnFrame ==
  ASSUME TypeOK, NEW u \in Tx, TxInv(u), UNCHANGED <<placed, parent, holder, born>>,
         pc[u] \in Inside => pc'[u] \in Inside,
         pc[u] \in Ended <=> pc'[u] \in Ended,
         \A r \in plan'[u] : Committed(r) \/ r \in Newborn(u),
         \A r \in innerPlan'[u] : Committed(r) \/ r \in Newborn(u)
  PROVE  /\ BornOf(u)' /\ RowsFor(u)' /\ \A r : Committed(r)' <=> Committed(r)
         /\ \A o : HoldsSetOf(u, o)' <=> HoldsSetOf(u, o)
         /\ \A o, P : Verified(u, o, P)' <=> Verified(u, o, P)
         /\ \A o : PlanFor(u, o)' = PlanFor(u, o)
<1>1. Newborn(u)' = Newborn(u) /\ \A r : Committed(r)' <=> Committed(r)
  BY DEF Newborn, Committed
<1>2. BornOf(u)'
  BY DEF TxInv, BornOf
<1>3. RowsFor(u)'
  BY <1>1 DEF TxInv, RowsFor
<1>4. /\ \A o : HoldsSetOf(u, o)' <=> HoldsSetOf(u, o)
      /\ \A o, P : Verified(u, o, P)' <=> Verified(u, o, P)
      /\ \A o : PlanFor(u, o)' = PlanFor(u, o)
  BY DEF HoldsSetOf, Verified, PlanFor, RowsOf
<1> QED BY <1>1, <1>2, <1>3, <1>4

LEMMA BeginKeeps ==
  ASSUME RowsAssumption, IInv, NEW u \in Tx, NEW s \in Orders \cup {0}, Begin(u, s)
  PROVE  IInv'
<1> DEFINE P == PlanFor(u, s)
<1>1. TypeOK /\ TxInv(u) /\ ParentsPlaced
  BY DEF IInv
<1>2. /\ pc[u] = "idle" /\ pc'[u] = "lock" /\ subject'[u] = s /\ plan'[u] = P
      /\ todo'[u] = P \ Reservations
      /\ UNCHANGED <<placed, parent, holder, inner, innerPlan, born, attempt, transient>>
      /\ s = 0 \/ s \in placed
  BY <1>1 DEF Begin, TypeOK
<1>3. born[u] = {} /\ \A r \in Rows : holder[r] # u
  BY <1>1, <1>2 DEF TxInv, BornOf, RowsFor, Inside, Ended
<1>4. /\ P \in SUBSET Rows /\ (s # 0 => s \in P)
      /\ \A r \in P : r = s \/ r \in placed \/ (r \in Children /\ parent[r] # 0)
  BY <1>1, <1>3, PlanForFacts
<1> HIDE DEF P
<1>5. (\A r \in P : Committed(r)) /\ Rows \subseteq Nat \ {0} /\ placed \subseteq Orders
      /\ 0 \notin Orders
  BY <1>1, <1>2, <1>4, RowFacts DEF Committed, TypeOK
<1>6. inner[u] = 0
  BY <1>1, <1>2 DEF TxInv, PhaseOf
<1>7. TypeOK'
  BY <1>1, <1>2, <1>4 DEF Begin, TypeOK, Phases
<1>8. TxInv(u)'
  <2>1. BornOf(u)'
    BY <1>2, <1>3 DEF BornOf
  <2>2. RowsFor(u)'
    BY <1>1, <1>2, <1>3, <1>5 DEF TxInv, RowsFor, Committed, Newborn
  <2>3. PhaseOf(u)'
    BY <1>2, <1>4, <1>6 DEF PhaseOf, Locked, Inside
  <2>4. UpwardOf(u)'
    BY <1>2, <1>3, RowFacts DEF UpwardOf
  <2> QED BY <2>1, <2>2, <2>3, <2>4 DEF TxInv
<1>9. \A t \in Tx : t # u => Same(t)
  BY <1>1 DEF Begin, Same, TypeOK
<1> QED BY <1>2, <1>7, <1>8, <1>9, LocalStep
\* The plan is read again under the licences and orders: it is complete, and the
\* family of the order stands still from here on, or the call starts over.
LEMMA ReplanKeeps ==
  ASSUME RowsAssumption, TxAssumption, IInv, NEW u \in Tx, Replan(u)
  PROVE  IInv'
<1>1. TypeOK /\ TxInv(u) /\ pc[u] = "lock" /\ todo[u] = {} /\ subject[u] \in Orders \cup {0}
      /\ plan[u] \in SUBSET Rows /\ innerPlan[u] \in SUBSET Rows
  BY DEF IInv, Replan, TypeOK
<1> DEFINE P == PlanFor(u, subject[u])
<1>2. born[u] = {}
  BY <1>1 DEF TxInv, BornOf, Inside
<1>3. CASE ~ (P \subseteq plan[u])
  <2>1. Grew(u, P)
    BY <1>3 DEF Replan
  <2>2. /\ P \in SUBSET Rows
        /\ \A r \in P : r = subject[u] \/ r \in placed \/ (r \in Children /\ parent[r] # 0)
    BY <1>1, <1>2, PlanForFacts
  <2>3. subject[u] # 0 => Committed(subject[u])
    <3>1. subject[u] # 0 => subject[u] \in plan[u]
      BY <1>1 DEF TxInv, PhaseOf, Ended
    <3> QED BY <1>1, <1>2, <3>1 DEF TxInv, RowsFor, Newborn
  <2>4. 0 \notin Rows
    BY RowFacts
  <2> HIDE DEF P
  <2>5. \A r \in P : Committed(r)
    BY <2>2, <2>3, <2>4 DEF Committed
  <2>6. Locking(u)
    BY <1>1 DEF Locking
  <2> QED BY <2>1, <2>2, <2>5, <2>6, GrewKeeps
<1>4. CASE P \subseteq plan[u]
  <2>1. /\ pc'[u] = "lockRes" /\ todo'[u] = plan[u] \cap Reservations
        /\ UNCHANGED <<placed, parent, holder, subject, plan, inner, innerPlan, born, attempt,
                       transient>>
    BY <1>1, <1>4 DEF Replan, TypeOK
  <2>2. TypeOK'
    BY <1>1, <1>4 DEF Replan, TypeOK, Phases
  <2>3. \A t \in Tx : t # u => Same(t)
    BY <1>1, <1>4 DEF Replan, Same, TypeOK
  <2>4. /\ \A r \in plan[u] : Committed(r) \/ r \in Newborn(u)
        /\ \A r \in innerPlan[u] : Committed(r) \/ r \in Newborn(u)
        /\ inner[u] = 0 /\ Locked(u, plan[u] \ Reservations)
        /\ subject[u] # 0 => subject[u] \in plan[u]
    BY <1>1 DEF TxInv, RowsFor, PhaseOf, Ended
  <2>5. BornOf(u)' /\ RowsFor(u)' /\ \A o, Q : Verified(u, o, Q)' <=> Verified(u, o, Q)
    BY <1>1, <2>1, <2>4, OwnFrame DEF Inside, Ended
  <2>6. subject[u] # 0 => Verified(u, subject[u], plan[u])
    <3> SUFFICES ASSUME subject[u] # 0 PROVE Verified(u, subject[u], plan[u])
      OBVIOUS
    <3>1. \A c \in Children : parent[c] = subject[u] => c \in plan[u]
      BY <1>1, <1>4, PlanForFacts
    <3>2. subject[u] \in plan[u] \ Reservations
      BY <1>1, <2>4, RowFacts
    <3>3. holder[subject[u]] = u
      BY <1>1, <2>4, <3>2 DEF Locked
    <3> QED BY <3>1, <3>3 DEF Verified
  <2>7. Locked(u, plan[u])'
    BY <1>1, <2>1, <2>4 DEF Locked
  <2>8. PhaseOf(u)'
    BY <2>1, <2>4, <2>5, <2>6, <2>7 DEF PhaseOf, Inside
  <2>9. UpwardOf(u)'
    <3>1. \A r \in Rows : holder[r] = u => r \in Rows \ Reservations
      BY <1>1 DEF TxInv, UpwardOf
    <3> QED BY <2>1, <3>1, RowFacts DEF UpwardOf
  <2> QED BY <2>1, <2>2, <2>3, <2>5, <2>8, <2>9, LocalStep DEF TxInv
<1> QED BY <1>3, <1>4

\* The last lock of a set is held.
LEMMA EnterKeeps ==
  ASSUME RowsAssumption, IInv, NEW u \in Tx,
         Enter(u) \/ EnterInTx(u) \/ OrderRowHeld(u)
  PROVE  IInv'
<1>1. TypeOK /\ TxInv(u) /\ todo[u] = {} /\ pc[u] \in {"lockRes", "lockInRes", "lockOrder"}
      /\ subject[u] \in Orders \cup {0}
  BY DEF IInv, Enter, EnterInTx, OrderRowHeld, TypeOK
<1>2. /\ pc' = [pc EXCEPT ![u] = "run"] /\ pc'[u] = "run"
      /\ UNCHANGED <<placed, parent, holder, attempt, transient>>
      /\ UNCHANGED <<subject, plan, inner, innerPlan, todo, born>>
  BY <1>1 DEF Enter, EnterInTx, OrderRowHeld, work, TypeOK
<1>3. TypeOK'
  BY <1>1, <1>2 DEF TypeOK, Phases
<1>4. \A t \in Tx : t # u => Same(t)
  BY <1>1, <1>2 DEF Same, TypeOK
<1>5. /\ BornOf(u)' /\ RowsFor(u)' /\ \A o : HoldsSetOf(u, o)' <=> HoldsSetOf(u, o)
  <2>1. /\ \A r \in plan[u] : Committed(r) \/ r \in Newborn(u)
        /\ \A r \in innerPlan[u] : Committed(r) \/ r \in Newborn(u)
    BY <1>1 DEF TxInv, RowsFor
  <2> QED BY <1>1, <1>2, <2>1, OwnFrame DEF Inside, Ended
<1>6. \A o, P : Verified(u, o, P) /\ Locked(u, P) => HoldsSetOf(u, o)
  BY <1>1 DEF Verified, Locked, HoldsSetOf
<1>7. PhaseOf(u)'
  <2>1. PhaseOf(u)
    BY <1>1 DEF TxInv
  <2>2. subject[u] # 0 => HoldsSetOf(u, subject[u]) /\ subject[u] \in plan[u]
    BY <1>1, <1>6, <2>1 DEF PhaseOf, Inside, Ended
  <2>3. inner[u] # 0 => HoldsSetOf(u, inner[u])
    BY <1>1, <1>6, <2>1 DEF PhaseOf
  <2> QED BY <1>2, <1>5, <2>2, <2>3 DEF PhaseOf
<1>8. UpwardOf(u)'
  BY <1>2 DEF UpwardOf
<1> QED BY <1>2, <1>3, <1>4, <1>5, <1>7, <1>8, LocalStep DEF TxInv

\* A helper asks for the set of an order, or for its row.
LEMMA AskKeeps ==
  ASSUME RowsAssumption, IInv, NEW u \in Tx, NEW o \in Orders,
         AskForSet(u, o) \/ AskForOrderRow(u, o)
  PROVE  IInv'
<1> DEFINE P == PlanFor(u, o)
<1>1. TypeOK /\ TxInv(u) /\ pc[u] = "run" /\ inner[u] = 0 /\ o \in placed
      /\ subject[u] \in Orders \cup {0}
  BY DEF IInv, AskForSet, AskForOrderRow, TypeOK
<1>2. /\ UNCHANGED <<placed, parent, holder, subject, plan, born, attempt, transient>>
      /\ \/ /\ pc'[u] = "lockIn" /\ inner'[u] = o /\ innerPlan'[u] = P
            /\ todo'[u] = P \ Reservations
         \/ pc'[u] = "lockOrder" /\ inner'[u] = 0 /\ innerPlan'[u] = innerPlan[u]
  BY <1>1 DEF AskForSet, AskForOrderRow, TypeOK
<1>3. /\ P \in SUBSET Rows /\ o \in P /\ o \in Rows
      /\ \A r \in P : \/ r = o \/ r \in placed \/ (r \in Children /\ parent[r] # 0)
                     \/ \E x \in born[u] : x[1] = r
  BY <1>1, PlanForFacts, RowFacts
<1>4. TypeOK'
  <2>1. CASE AskForSet(u, o)
    BY <1>1, <1>3, <2>1 DEF AskForSet, TypeOK, Phases
  <2>2. CASE AskForOrderRow(u, o)
    BY <1>1, <1>3, <2>2 DEF AskForOrderRow, TypeOK, Phases
  <2> QED BY <2>1, <2>2
<1>5. \A t \in Tx : t # u => Same(t)
  BY <1>1 DEF AskForSet, AskForOrderRow, Same, TypeOK
<1>6. /\ BornOf(u)' /\ RowsFor(u)'
      /\ HoldsSetOf(u, subject[u])' <=> HoldsSetOf(u, subject[u])
      /\ PlanFor(u, o)' = P
  <2>1. \A r \in P : Committed(r) \/ r \in Newborn(u)
    <3>1. \A r : r \in Newborn(u) <=> \E x \in born[u] : x[1] = r
      BY <1>1, NewbornFacts
    <3> HIDE DEF P
    <3> QED BY <1>1, <1>3, <3>1 DEF Committed
  <2>2. /\ \A r \in plan[u] : Committed(r) \/ r \in Newborn(u)
        /\ \A r \in innerPlan[u] : Committed(r) \/ r \in Newborn(u)
    BY <1>1 DEF TxInv, RowsFor
  <2>3. /\ pc[u] \in Inside => pc'[u] \in Inside
        /\ pc[u] \in Ended <=> pc'[u] \in Ended
        /\ \A r \in plan'[u] : Committed(r) \/ r \in Newborn(u)
        /\ \A r \in innerPlan'[u] : Committed(r) \/ r \in Newborn(u)
    BY <1>1, <1>2, <2>1, <2>2 DEF Inside, Ended
  <2> QED BY <1>1, <1>2, <2>3, OwnFrame
<1>7. PhaseOf(u)'
  <2>1. subject[u] # 0 => HoldsSetOf(u, subject[u]) /\ subject[u] \in plan[u]
    BY <1>1 DEF TxInv, PhaseOf, Inside, Ended
  <2> HIDE DEF P
  <2>2. CASE pc'[u] = "lockIn" /\ inner'[u] = o /\ innerPlan'[u] = P
             /\ todo'[u] = P \ Reservations
    BY <1>2, <1>3, <1>6, <2>1, <2>2 DEF PhaseOf, Locked, Inside
  <2>3. CASE pc'[u] = "lockOrder" /\ inner'[u] = 0
    BY <1>2, <1>6, <2>1, <2>3 DEF PhaseOf, Inside
  <2> QED BY <1>2, <2>2, <2>3
<1>8. UpwardOf(u)'
  BY <1>2 DEF UpwardOf
<1>9. TxInv(u)'
  BY <1>6, <1>7, <1>8 DEF TxInv
<1>10. UNCHANGED <<placed, parent, holder>>
  BY <1>2
<1> QED BY <1>4, <1>5, <1>9, <1>10, LocalStep

\* A helper's plan that grew has no insert of its own in it: with one, the order
\* was held when the plan was read and cannot have grown.
LEMMA ReplanInTxKeeps ==
  ASSUME RowsAssumption, TxAssumption, IInv, NEW u \in Tx, ReplanInTx(u)
  PROVE  IInv'
<1>1. TypeOK /\ TxInv(u) /\ pc[u] = "lockIn" /\ todo[u] = {} /\ subject[u] \in Orders \cup {0}
      /\ innerPlan[u] \in SUBSET Rows
  BY DEF IInv, ReplanInTx, TypeOK
<1>2. /\ inner[u] \in innerPlan[u] \cap Orders /\ inner[u] # 0
      /\ Locked(u, innerPlan[u] \ Reservations)
      /\ subject[u] # 0 => HoldsSetOf(u, subject[u]) /\ subject[u] \in plan[u]
      /\ (\E x \in born[u] : x[2] = inner[u]) => PlanFor(u, inner[u]) \subseteq innerPlan[u]
      /\ \A r \in plan[u] : Committed(r) \/ r \in Newborn(u)
      /\ \A r \in innerPlan[u] : Committed(r) \/ r \in Newborn(u)
  BY <1>1, RowFacts DEF TxInv, PhaseOf, RowsFor, Ended, Inside
<1> DEFINE P == PlanFor(u, inner[u])
<1>3. CASE ~ (P \subseteq innerPlan[u])
  <2>1. Grew(u, P)
    BY <1>3 DEF ReplanInTx
  <2>2. /\ P \in SUBSET Rows
        /\ \A r \in P : r = inner[u] \/ (r \in Children /\ parent[r] = inner[u])
    BY <1>1, <1>2, <1>3, PlanForFacts
  <2>3. Committed(inner[u])
    BY <1>1, <1>2, NewbornFacts, RowFacts
  <2> HIDE DEF P
  <2>4. \A r \in P : Committed(r)
    BY <1>2, <2>2, <2>3 DEF Committed
  <2>5. Locking(u)
    BY <1>1 DEF Locking
  <2> QED BY <2>1, <2>2, <2>4, <2>5, GrewKeeps
<1>4. CASE P \subseteq innerPlan[u]
  <2>1. /\ pc'[u] = "lockInRes" /\ todo'[u] = innerPlan[u] \cap Reservations
        /\ UNCHANGED <<placed, parent, holder, subject, plan, inner, innerPlan, born, attempt,
                       transient>>
    BY <1>1, <1>4 DEF ReplanInTx, TypeOK
  <2>2. TypeOK'
    BY <1>1, <1>4 DEF ReplanInTx, TypeOK, Phases
  <2>3. \A t \in Tx : t # u => Same(t)
    BY <1>1, <1>4 DEF ReplanInTx, Same, TypeOK
  <2>4. /\ BornOf(u)' /\ RowsFor(u)' /\ \A o, Q : Verified(u, o, Q)' <=> Verified(u, o, Q)
        /\ \A o : HoldsSetOf(u, o)' <=> HoldsSetOf(u, o)
    BY <1>1, <1>2, <2>1, OwnFrame DEF Inside, Ended
  <2>5. Verified(u, inner[u], innerPlan[u])
    <3>1. \A c \in Children : parent[c] = inner[u] => c \in innerPlan[u]
      BY <1>1, <1>2, <1>4, PlanForFacts
    <3>2. inner[u] \in innerPlan[u] \ Reservations
      BY <1>2, RowFacts
    <3>3. holder[inner[u]] = u
      BY <1>1, <1>2, <3>2 DEF Locked
    <3> QED BY <3>1, <3>3 DEF Verified
  <2>6. Locked(u, innerPlan[u])'
    BY <1>1, <1>2, <2>1 DEF Locked
  <2>7. PhaseOf(u)'
    BY <1>2, <2>1, <2>4, <2>5, <2>6 DEF PhaseOf, Inside
  <2>8. UpwardOf(u)'
    BY <2>1 DEF UpwardOf
  <2> QED BY <2>1, <2>2, <2>3, <2>4, <2>7, <2>8, LocalStep DEF TxInv
<1> QED BY <1>3, <1>4

LEMMA ReturnKeeps ==
  ASSUME RowsAssumption, IInv, NEW u \in Tx, ReturnInTx(u)
  PROVE  IInv'
<1>1. TypeOK /\ TxInv(u) /\ pc[u] = "run"
  BY DEF IInv, ReturnInTx
<1>2. /\ inner'[u] = 0 /\ innerPlan'[u] = {}
      /\ UNCHANGED <<placed, parent, holder, pc, subject, plan, todo, born, attempt, transient>>
  BY <1>1 DEF ReturnInTx, TypeOK
<1>3. TypeOK' /\ \A t \in Tx : t # u => Same(t)
  BY <1>1 DEF ReturnInTx, TypeOK, Same
<1>4. /\ BornOf(u)' /\ RowsFor(u)' /\ \A o : HoldsSetOf(u, o)' <=> HoldsSetOf(u, o)
  <2>1. \A r \in plan[u] : Committed(r) \/ r \in Newborn(u)
    BY <1>1 DEF TxInv, RowsFor
  <2> QED BY <1>1, <1>2, <2>1, OwnFrame
<1>5. PhaseOf(u)'
  BY <1>1, <1>2, <1>4 DEF TxInv, PhaseOf
<1>6. UpwardOf(u)'
  BY <1>1, <1>2 DEF UpwardOf
<1> QED BY <1>2, <1>3, <1>4, <1>5, <1>6, LocalStep DEF TxInv

LEMMA AgainKeeps ==
  ASSUME RowsAssumption, TxAssumption, IInv, NEW u \in Tx, Again(u)
  PROVE  IInv'
<1>1. TypeOK /\ TxInv(u) /\ pc[u] \in Ended
  BY DEF IInv, Again, Ended
<1>2. /\ pc'[u] = "idle"
      /\ UNCHANGED <<placed, parent, holder>> /\ UNCHANGED <<subject, plan, inner, innerPlan, todo, born>>
  BY <1>1 DEF Again, TypeOK, work
<1>3. TypeOK' /\ \A t \in Tx : t # u => Same(t)
  BY <1>1, <1>2 DEF Again, TypeOK, Same, Phases, TxAssumption
<1>4. BornOf(u)' /\ RowsFor(u)'
  <2>1. /\ \A r \in plan[u] : Committed(r) \/ r \in Newborn(u)
        /\ \A r \in innerPlan[u] : Committed(r) \/ r \in Newborn(u)
    BY <1>1 DEF TxInv, RowsFor
  <2> QED BY <1>1, <1>2, <2>1, OwnFrame DEF Inside, Ended
<1>5. PhaseOf(u)' /\ UpwardOf(u)'
  BY <1>1, <1>2 DEF TxInv, PhaseOf, UpwardOf, Inside, Ended
<1> QED BY <1>2, <1>3, <1>4, <1>5, LocalStep DEF TxInv
\* A row is inserted under the order its transaction holds; nobody holds a row
\* that is not there.
LEMMA InsertKeeps ==
  ASSUME RowsAssumption, TxAssumption, IInv, NEW u \in Tx, NEW c \in Children, NEW o \in Orders,
         Insert(u, c, o)
  PROVE  IInv'
<1>1. TypeOK /\ TxInv(u) /\ pc[u] = "run" /\ holder[o] = u /\ o \in placed
      /\ parent[c] = 0 /\ \A t \in Tx : c \notin Newborn(t)
  BY DEF IInv, Insert
<1>2. c \in Rows /\ Children \subseteq Rows /\ Orders \subseteq Rows /\ c \notin placed
  BY <1>1, RowFacts DEF TypeOK
<1>3. holder[c] = NoTx
  <2>1. \A t \in Tx : holder[c] # t
    BY <1>1, <1>2 DEF IInv, TxInv, RowsFor, Committed
  <2> QED BY <1>1, <1>2, <2>1 DEF TypeOK
<1>4. /\ \A r \in Rows : holder'[r] = u <=> holder[r] = u \/ r = c
      /\ \A t \in Tx : t # u => \A r \in Rows : holder'[r] = t <=> holder[r] = t
      /\ holder' \in [Rows -> Tx \cup {NoTx}]
  BY <1>1, <1>2, <1>3 DEF Insert, TypeOK, TxAssumption
<1>5. /\ UNCHANGED <<placed, parent, pc, subject, inner, todo, attempt, transient>>
      /\ born'[u] = born[u] \cup {<<c, o>>} /\ \A t \in Tx : t # u => born'[t] = born[t]
      /\ born' \in [Tx -> SUBSET (Children \X Orders)]
  BY <1>1 DEF Insert, TypeOK
<1>6. /\ plan'[u] \subseteq plan[u] \cup {c} /\ innerPlan'[u] \subseteq innerPlan[u] \cup {c}
      /\ plan[u] \subseteq plan'[u]
      /\ \A t \in Tx : t # u => plan'[t] = plan[t] /\ innerPlan'[t] = innerPlan[t]
      /\ plan' \in [Tx -> SUBSET Rows] /\ innerPlan' \in [Tx -> SUBSET Rows]
  <2>1. CASE inner[u] = 0
    BY <1>1, <1>2, <2>1 DEF Insert, TypeOK
  <2>2. CASE inner[u] # 0
    BY <1>1, <1>2, <2>2 DEF Insert, TypeOK
  <2> QED BY <2>1, <2>2
<1>7. TypeOK'
  BY <1>1, <1>4, <1>5, <1>6 DEF TypeOK
<1>8. ASSUME NEW t \in Tx, t # u PROVE TxInv(t)'
  BY <1>1, <1>4, <1>5, <1>6, <1>8, OtherKeeps DEF IInv
<1>9. TxInv(u)'
  <2>1. Newborn(u)' = Newborn(u) \cup {c} /\ \A r : Committed(r)' <=> Committed(r)
    <3>1. <<c, o>>[1] = c
      OBVIOUS
    <3>2. Newborn(u)' = {x[1] : x \in born[u] \cup {<<c, o>>}}
      BY <1>5 DEF Newborn
    <3>3. Newborn(u)' = Newborn(u) \cup {c}
      BY <3>1, <3>2 DEF Newborn
    <3> QED BY <1>5, <3>3 DEF Committed
  <2>2. \A x \in born[u] : x[1] # c /\ x[1] \in Rows /\ x[2] \in Rows
    BY <1>1, <1>2, NewbornFacts
  <2>3. BornOf(u)'
    <3>1. BornOf(u)
      BY <1>1 DEF TxInv
    <3>2. \A x \in born'[u] : x \in born[u] \/ x = <<c, o>>
      BY <1>5
    <3> QED BY <1>1, <1>2, <1>4, <1>5, <2>2, <3>1, <3>2 DEF BornOf, Inside
  <2>4. RowsFor(u)'
    BY <1>1, <1>4, <1>5, <1>6, <2>1 DEF TxInv, RowsFor, Ended
  <2>5. PhaseOf(u)'
    <3>1. \A q \in Orders : HoldsSetOf(u, q) => HoldsSetOf(u, q)'
      BY <1>2, <1>4, <1>5 DEF HoldsSetOf
    <3>2. subject[u] \in Orders \cup {0} /\ inner[u] \in Orders \cup {0}
      BY <1>1 DEF TypeOK
    <3> QED BY <1>1, <1>5, <1>6, <3>1, <3>2 DEF TxInv, PhaseOf, Inside, Ended
  <2>6. UpwardOf(u)'
    BY <1>1, <1>5 DEF UpwardOf
  <2> QED BY <2>3, <2>4, <2>5, <2>6 DEF TxInv
<1>10. ParentsPlaced'
  BY <1>5 DEF IInv, ParentsPlaced
<1> QED BY <1>7, <1>8, <1>9, <1>10 DEF IInv

\* What a commit writes: its inserts get their orders, the rest stays.
LEMMA CommitFacts ==
  ASSUME TypeOK, NEW u \in Tx, BornOf(u), Commit(u)
  PROVE  /\ parent' \in [Children -> Orders \cup {0}]
         /\ \A x \in born[u] : x[1] \in Children /\ parent'[x[1]] = x[2]
         /\ \A c \in Children : parent'[c] = parent[c] \/ <<c, parent'[c]>> \in born[u]
<1>1. \A x \in born[u] : x = <<x[1], x[2]>> /\ x[1] \in Children /\ x[2] \in Orders
  BY DEF TypeOK
<1>2. \A c \in Children : parent'[c] = IF \E x \in born[u] : x[1] = c
                    THEN (CHOOSE x \in born[u] : x[1] = c)[2] ELSE parent[c]
  BY DEF Commit
<1>3. \A x \in born[u] : (CHOOSE y \in born[u] : y[1] = x[1]) = x
  <2> SUFFICES ASSUME NEW x \in born[u] PROVE (CHOOSE y \in born[u] : y[1] = x[1]) = x
    OBVIOUS
  <2> DEFINE y == CHOOSE y \in born[u] : y[1] = x[1]
  <2>1. y \in born[u] /\ y[1] = x[1]
    OBVIOUS
  <2> HIDE DEF y
  <2>2. y = x
    BY <2>1 DEF BornOf
  <2> QED BY <2>2 DEF y
<1>4. \A x \in born[u] : parent'[x[1]] = x[2]
  BY <1>1, <1>2, <1>3
<1>5. \A c \in Children : parent'[c] = parent[c] \/ <<c, parent'[c]>> \in born[u]
  <2> SUFFICES ASSUME NEW c \in Children, parent'[c] # parent[c]
               PROVE  <<c, parent'[c]>> \in born[u]
    OBVIOUS
  <2>1. PICK x \in born[u] : x[1] = c
    BY <1>2
  <2> QED BY <1>1, <1>4, <2>1
<1>6. parent' \in [Children -> Orders \cup {0}]
  <2>1. \A c \in Children : parent'[c] \in Orders \cup {0}
    <3> SUFFICES ASSUME NEW c \in Children PROVE parent'[c] \in Orders \cup {0}
      OBVIOUS
    <3>1. CASE \E x \in born[u] : x[1] = c
      BY <1>1, <1>4, <3>1
    <3>2. CASE ~ \E x \in born[u] : x[1] = c
      BY <1>2, <3>2 DEF TypeOK
    <3> QED BY <3>1, <3>2
  <2>2. parent' = [c \in Children |-> parent'[c]]
    BY DEF Commit
  <2> QED BY <2>1, <2>2
<1> QED BY <1>1, <1>4, <1>5, <1>6

LEMMA CommitKeeps ==
  ASSUME RowsAssumption, TxAssumption, IInv, NEW u \in Tx, Commit(u)
  PROVE  IInv'
<1>1. TypeOK /\ TxInv(u) /\ pc[u] = "run" /\ inner[u] = 0
  BY DEF IInv, Commit
<1>2. /\ parent' \in [Children -> Orders \cup {0}]
      /\ \A x \in born[u] : x[1] \in Children /\ parent'[x[1]] = x[2]
      /\ \A c \in Children : parent'[c] = parent[c] \/ <<c, parent'[c]>> \in born[u]
  BY <1>1, CommitFacts DEF TxInv
<1>3. /\ \A r \in Rows : holder'[r] # u
      /\ \A t \in Tx : t # u => \A r \in Rows : holder'[r] = t <=> holder[r] = t
      /\ holder' \in [Rows -> Tx \cup {NoTx}]
  BY <1>1, ReleasedFacts DEF Commit
<1>4. /\ UNCHANGED <<placed, subject, inner, innerPlan, todo, attempt, transient>>
      /\ pc'[u] = "committed" /\ plan'[u] = {} /\ born'[u] = {}
      /\ \A t \in Tx : t # u => pc'[t] = pc[t] /\ plan'[t] = plan[t] /\ born'[t] = born[t]
  BY <1>1 DEF Commit, TypeOK
<1>5. TypeOK'
  BY <1>1, <1>2, <1>3 DEF Commit, TypeOK, Phases
<1>6. \A x \in born[u] : /\ x[2] \in placed /\ holder[x[2]] = u /\ holder[x[1]] = u
                         /\ parent[x[1]] = 0 /\ x[2] \in Orders
  BY <1>1, NewbornFacts DEF TxInv, BornOf
<1>7. ASSUME NEW t \in Tx, t # u PROVE TxInv(t)'
  <2>1. \A r \in Newborn(t) : holder[r] = t
    BY <1>1, NewbornFacts DEF IInv, TxInv, BornOf
  <2>2. \A c \in Children : parent'[c] # parent[c] =>
             /\ parent[c] = 0 /\ parent'[c] \in Orders
             /\ holder[parent'[c]] # t /\ c \notin Newborn(t)
    <3> SUFFICES ASSUME NEW c \in Children, parent'[c] # parent[c]
                 PROVE  /\ parent[c] = 0 /\ parent'[c] \in Orders
                        /\ holder[parent'[c]] = u /\ holder[c] = u
      BY <1>7, <2>1
    <3>1. <<c, parent'[c]>> \in born[u]
      BY <1>2
    <3>2. /\ <<c, parent'[c]>>[2] = parent'[c] /\ <<c, parent'[c]>>[1] = c
      OBVIOUS
    <3> QED BY <1>6, <3>1, <3>2
  <2> QED BY <1>1, <1>3, <1>4, <1>7, <2>2, OtherKeeps DEF IInv
<1>8. TxInv(u)'
  <2>1. BornOf(u)'
    BY <1>4 DEF BornOf
  <2>2. RowsFor(u)'
    <3>1. \A r \in innerPlan[u] : Committed(r) \/ r \in Newborn(u)
      BY <1>1 DEF TxInv, RowsFor
    <3>2. \A r \in Newborn(u) : Committed(r)'
      BY <1>1, <1>2, <1>6, NewbornFacts, RowFacts DEF Committed
    <3>3. \A r : Committed(r) => Committed(r)'
      <4>1. \A x \in born[u] : x[2] # 0
        BY <1>6, RowFacts
      <4>2. \A c \in Children : parent[c] # 0 => parent'[c] # 0
        BY <1>2, <4>1
      <4> QED BY <1>4, <4>2 DEF Committed
    <3> QED BY <1>3, <1>4, <3>1, <3>2, <3>3 DEF RowsFor
  <2>3. PhaseOf(u)' /\ UpwardOf(u)'
    BY <1>1, <1>4 DEF PhaseOf, UpwardOf, Inside, Ended
  <2> QED BY <2>1, <2>2, <2>3 DEF TxInv
<1>9. ParentsPlaced'
  <2>1. \A c \in Children : <<c, parent'[c]>> \in born[u] => parent'[c] \in placed
    BY <1>6
  <2> QED BY <1>2, <1>4, <2>1 DEF IInv, ParentsPlaced
<1> QED BY <1>5, <1>7, <1>8, <1>9 DEF IInv

LEMMA PlaceKeeps ==
  ASSUME RowsAssumption, IInv, NEW o \in Orders, PlaceOrder(o)
  PROVE  IInv'
<1>1. /\ UNCHANGED <<parent, holder, pc, attempt, transient>>
      /\ UNCHANGED <<subject, plan, inner, innerPlan, todo, born>>
      /\ placed' = placed \cup {o}
  BY DEF PlaceOrder, work
<1>2. TypeOK' /\ TypeOK
  BY <1>1 DEF IInv, TypeOK
<1>3. ASSUME NEW t \in Tx PROVE TxInv(t)'
  BY <1>1, <1>2, OtherKeeps DEF IInv
<1>4. ParentsPlaced'
  BY <1>1 DEF IInv, ParentsPlaced
<1> QED BY <1>2, <1>3, <1>4 DEF IInv

-----------------------------------------------------------------------------
(* The theorems.                                                            *)

LEMMA IInvInit ==
  ASSUME RowsAssumption, TxAssumption, Init PROVE IInv
<1>1. TypeOK
  BY DEF Init, TypeOK, Phases, TxAssumption
<1>2. ParentsPlaced
  BY DEF Init, ParentsPlaced
<1>3. ASSUME NEW t \in Tx PROVE TxInv(t)
  <2>1. /\ pc[t] = "idle" /\ born[t] = {} /\ plan[t] = {} /\ innerPlan[t] = {} /\ inner[t] = 0
        /\ \A r \in Rows : holder[r] # t
    BY DEF Init, TxAssumption
  <2> QED BY <2>1 DEF TxInv, BornOf, RowsFor, PhaseOf, UpwardOf, Inside, Ended
<1> QED BY <1>1, <1>2, <1>3 DEF IInv

LEMMA IInvNext ==
  ASSUME RowsAssumption, TxAssumption, IInv, [Next]_vars PROVE IInv'
<1>1. CASE UNCHANGED vars
  <2>1. UNCHANGED <<placed, parent, holder>> /\ \A t \in Tx : Same(t)
    BY <1>1 DEF vars, Same
  <2>2. TypeOK' /\ ParentsPlaced' /\ TypeOK
    BY <1>1 DEF vars, IInv, TypeOK, ParentsPlaced
  <2>3. ASSUME NEW t \in Tx PROVE TxInv(t)'
    BY <2>1, <2>2, OtherKeeps DEF IInv, Same
  <2> QED BY <2>2, <2>3 DEF IInv
<1>2. ASSUME NEW u \in Tx, Step(u) PROVE IInv'
  BY <1>2, LockRowKeeps, ReplanKeeps, EnterKeeps, ReplanInTxKeeps, ReturnKeeps, CommitKeeps,
     ContentionKeeps DEF Step
<1>3. ASSUME NEW u \in Tx, NEW s \in Orders \cup {0}, Begin(u, s) PROVE IInv'
  BY <1>3, BeginKeeps
<1>4. ASSUME NEW u \in Tx, LockTimeout(u) \/ Again(u) PROVE IInv'
  BY <1>4, ContentionKeeps, AgainKeeps
<1>5. ASSUME NEW u \in Tx, NEW c \in Children, NEW o \in Orders, Insert(u, c, o) PROVE IInv'
  BY <1>5, InsertKeeps
<1>6. ASSUME NEW u \in Tx, NEW o \in Orders, AskForSet(u, o) \/ AskForOrderRow(u, o)
      PROVE  IInv'
  BY <1>6, AskKeeps
<1>7. ASSUME NEW o \in Orders, PlaceOrder(o) PROVE IInv'
  BY <1>7, PlaceKeeps
<1> QED BY <1>1, <1>2, <1>3, <1>4, <1>5, <1>6, <1>7 DEF Next

LEMMA RunsLocked == IInv => TypeOK /\ RunsUnderItsSet
BY DEF IInv, TxInv, PhaseOf, RunsUnderItsSet, Inside

\* Children appear only with the commit of the transaction that holds their order.
LEMMA FrozenStep ==
  ASSUME RowsAssumption, TxAssumption, IInv, [Next]_vars PROVE SetIsFrozen
<1> SUFFICES ASSUME NEW t \in Tx, pc[t] \in {"lockRes", "run"}, subject[t] # 0,
                    NEW c \in Children, parent[c] # subject[t], parent'[c] = subject[t]
             PROVE  \E x \in born[t] : x[1] = c
  BY DEF SetIsFrozen
<1>1. TypeOK /\ holder[subject[t]] = t
  BY DEF IInv, TxInv, PhaseOf, Verified, HoldsSetOf, Inside
<1>2. CASE UNCHANGED parent
  BY <1>2
<1>3. ASSUME NEW u \in Tx, Commit(u) PROVE \E x \in born[t] : x[1] = c
  <2>1. <<c, subject[t]>> \in born[u]
    BY <1>1, <1>3, CommitFacts DEF IInv, TxInv
  <2>2. <<c, subject[t]>>[2] = subject[t] /\ <<c, subject[t]>>[1] = c
    OBVIOUS
  <2>3. holder[subject[t]] = u
    BY <2>1, <2>2 DEF IInv, TxInv, BornOf
  <2> QED BY <1>1, <2>1, <2>2, <2>3
<1>4. UNCHANGED parent \/ \E u \in Tx : Commit(u)
  BY DEF Next, Step, vars, LockRow, Replan, Grew, Restart, GiveUp, Rollback, Enter, ReplanInTx,
         EnterInTx, ReturnInTx, OrderRowHeld, DeadlockVictim, Begin, LockTimeout, Insert,
         AskForSet, AskForOrderRow, Again, PlaceOrder
<1> QED BY <1>2, <1>3, <1>4

\* While fn runs for an order, its transaction holds every committed row of the
\* order's family, and nobody else can add to a family that was verified
\* (withLockedSet, withLockedSetInTx).
THEOREM VerifiedSetsHold ==
  ASSUME RowsAssumption, TxAssumption
  PROVE  Spec => SetsHold
<1>1. Init => IInv
  BY IInvInit
<1>2. IInv /\ [Next]_vars => IInv'
  BY IInvNext
<1>3. IInv /\ [Next]_vars => SetIsFrozen
  BY FrozenStep
<1> QED BY <1>1, <1>2, <1>3, RunsLocked, PTL DEF Spec, SetsHold

\* A transaction that is waited for while it takes its own set asks for a higher
\* row than the one it is waited for, so that the waits of such transactions
\* cannot close a circle (lockRows' global order).
THEOREM WaitsGoUp ==
  ASSUME RowsAssumption, TxAssumption
  PROVE  Spec => []WaitsUpward
<1>1. Init => IInv
  BY IInvInit
<1>2. IInv /\ [Next]_vars => IInv'
  BY IInvNext
<1>3. IInv => WaitsUpward
  <2> SUFFICES ASSUME IInv, NEW t \in Tx, NEW u \in Tx, NEW r \in Rows, NEW q \in Rows,
                      holder[r] = u, Blocked(u, q), pc[u] \in {"lock", "lockRes"}
               PROVE  r < q
    BY DEF WaitsUpward
  <2> QED BY DEF Blocked, Next1, IInv, TxInv, UpwardOf
<1> QED BY <1>1, <1>2, <1>3, PTL DEF Spec

-----------------------------------------------------------------------------
(* ORDER EDITS                                                              *)


RefundRec == [state : Outcomes \cup {None}, amount : Nat, owed : Int]
EditRec == [done : BOOLEAN, delta : Int, balance : Int, shown : Int,
            type : {"refund_now", "leave_credit", "leave_due", "record_payment", None},
            status : {None, "pending", "final", "failed"}, ref : Attempts \cup {NoLink}]
AdminRec == [pc : {"idle", "previewed", "refund", "record"}, key : Keys \cup {None}, delta : Int,
             total : Int, balance : Int, attempt : Attempts, amount : Int]

Types ==
  /\ total \in Nat /\ settled \in Nat /\ returned \in Nat /\ dropped \in BOOLEAN
  /\ refund \in [Keys -> [Attempts -> RefundRec]]
  /\ journal \in [Keys -> EditRec]
  /\ admin \in [Admins -> AdminRec]
  /\ lock \in Admins \cup {None}

\* The locks are held exactly while a refund is issued.
LockInv == \A a \in Admins : lock = a <=> admin[a].pc \in {"refund", "record"}

\* A request is about an edit, a preview accepts a total, a refund gives money.
AdminInv ==
  \A a \in Admins :
    /\ admin[a].pc # "idle" => admin[a].key \in Keys
    /\ admin[a].pc = "previewed" => admin[a].total \in Nat
    /\ admin[a].pc = "refund" => admin[a].amount \in Nat

\* A key that was not used has changed nothing.
JournalInv ==
  \A k \in Keys :
    /\ ~journal[k].done => journal[k].delta = 0 /\ journal[k].type # "refund_now"
    /\ journal[k].done => journal[k].balance = journal[k].shown

\* The refund of a commit has a row, or is about to get it.
Recorded ==
  \A k \in Keys : journal[k].done /\ journal[k].type = "refund_now" =>
    \/ refund[k][0].state # None
    \/ \E a \in Admins : admin[a].pc = "refund" /\ admin[a].key = k /\ admin[a].attempt = 0

\* What is about to be reserved is owed, and there is money left for it.
Covered ==
  \A a \in Admins :
    admin[a].pc = "refund" /\ refund[admin[a].key][admin[a].attempt].state = None =>
      admin[a].amount <= -amountDue /\ admin[a].amount < available

EditIInv ==
  /\ Types /\ LockInv /\ AdminInv /\ JournalInv /\ TotalExplained /\ WithinPayment
  /\ ~dropped => Recorded /\ Covered /\ EditRefundsAreOwed

-----------------------------------------------------------------------------
(* Sums. *)

\* The positive units of the rows in S, numbered.
Cells(f, S) == {c \in S \X Nat : 1 <= c[2] /\ c[2] <= f[c[1]]}
Neg(f) == [x \in DOMAIN f |-> -f[x]]
Units(f, S) == Cardinality(Cells(f, S))
Count(f, S) == Units(f, S) - Units(Neg(f), S)

LEMMA CellsOne ==
  ASSUME NEW D, NEW f \in [D -> Int], NEW x \in D
  PROVE  /\ IsFiniteSet(Cells(f, {x}))
         /\ Units(f, {x}) = IF f[x] >= 0 THEN f[x] ELSE 0
<1>1. CASE f[x] < 0
  <2>1. Cells(f, {x}) = {}
    BY <1>1 DEF Cells
  <2> QED BY <1>1, <2>1, FS_EmptySet DEF Units
<1>2. CASE f[x] >= 0
  <2> DEFINE n == f[x]
             g == [i \in 1 .. n |-> <<x, i>>]
  <2>1. n \in Nat
    BY <1>2
  <2> HIDE DEF n
  <2>2. \A i \in 1 .. n : g[i] \in Cells(f, {x})
    BY <2>1 DEF Cells, n
  <2>3. \A c \in Cells(f, {x}) : \E i \in 1 .. n : g[i] = c
    <3> SUFFICES ASSUME NEW c \in Cells(f, {x}) PROVE \E i \in 1 .. n : g[i] = c
      OBVIOUS
    <3>1. c \in {x} \X Nat /\ 1 <= c[2] /\ c[2] <= n
      BY DEF Cells, n
    <3>2. c = <<x, c[2]>> /\ c[2] \in 1 .. n
      BY <2>1, <3>1
    <3> QED BY <3>2
  <2>4. \A i, j \in 1 .. n : g[i] = g[j] => i = j
    OBVIOUS
  <2>5. g \in Bijection(1 .. n, Cells(f, {x}))
    BY <2>2, <2>3, <2>4 DEF Bijection, Injection, Surjection, IsInjective
  <2>6. ExistsBijection(1 .. n, Cells(f, {x}))
    BY <2>5 DEF ExistsBijection
  <2>7. g \in Surjection(1 .. n, Cells(f, {x})) /\ IsFiniteSet(1 .. n)
    BY <2>1, <2>5, FS_Interval DEF Bijection
  <2>8. IsFiniteSet(Cells(f, {x}))
    BY <2>7, FS_Surjection
  <2>9. Cardinality(Cells(f, {x})) = n
    BY <2>1, <2>6, FS_CountingElements
  <2> QED BY <1>2, <2>8, <2>9 DEF Units, n
<1> QED BY <1>1, <1>2

LEMMA CellsFinite ==
  ASSUME NEW D, NEW f \in [D -> Int], NEW S \in SUBSET D, IsFiniteSet(S)
  PROVE  IsFiniteSet(Cells(f, S)) /\ Units(f, S) \in Nat
<1> DEFINE part == [x \in S |-> Cells(f, {x})]
           parts == {part[x] : x \in S}
<1>1. part \in Surjection(S, parts)
  BY DEF Surjection
<1>2. IsFiniteSet(parts)
  BY <1>1, FS_Surjection
<1>3. \A p \in parts : IsFiniteSet(p)
  BY CellsOne
<1>4. IsFiniteSet(UNION parts)
  <2> HIDE DEF parts
  <2> QED BY <1>2, <1>3, FS_UNION
<1>5. Cells(f, S) \subseteq UNION parts
  <2> SUFFICES ASSUME NEW c \in Cells(f, S) PROVE c \in UNION parts
    OBVIOUS
  <2>1. c[1] \in S /\ c \in Cells(f, {c[1]})
    BY DEF Cells
  <2> QED BY <2>1
<1>6. IsFiniteSet(Cells(f, S))
  BY <1>4, <1>5, FS_Subset
<1> QED BY <1>6, FS_CardinalityType DEF Units

LEMMA UnitsSplit ==
  ASSUME NEW D, NEW f \in [D -> Int], NEW S \in SUBSET D, NEW T \in SUBSET D, S \cap T = {},
         NEW U, U = S \cup T, IsFiniteSet(S), IsFiniteSet(T)
  PROVE  Units(f, U) = Units(f, S) + Units(f, T)
<1>1. Cells(f, U) = Cells(f, S) \cup Cells(f, T)
  BY DEF Cells
<1>2. Cells(f, S) \cap Cells(f, T) = {}
  BY DEF Cells
<1>3. IsFiniteSet(Cells(f, S)) /\ IsFiniteSet(Cells(f, T)) /\ Units(f, S) \in Nat /\ Units(f, T) \in Nat
  BY CellsFinite
<1>4. Cardinality(Cells(f, S) \cup Cells(f, T)) =
        Cardinality(Cells(f, S)) + Cardinality(Cells(f, T)) - Cardinality({})
  BY <1>2, <1>3, FS_Union
<1>5. Cardinality({}) = 0
  BY FS_EmptySet
<1>6. Units(f, U) = Units(f, S) + Units(f, T) - 0
  BY <1>1, <1>4, <1>5 DEF Units
<1> QED BY <1>3, <1>6

LEMMA CountAdd ==
  ASSUME NEW D, NEW f \in [D -> Int], NEW S \in SUBSET D, IsFiniteSet(S), NEW x \in S
  PROVE  Count(f, S \ {x}) \in Int /\ Count(f, S) = f[x] + Count(f, S \ {x})
<1>1. PICK R : R = S \ {x}
  OBVIOUS
<1>2. PICK X : X = {x}
  OBVIOUS
<1>3. /\ X \in SUBSET D /\ R \in SUBSET D /\ X \cap R = {} /\ S = X \cup R
      /\ IsFiniteSet(X) /\ IsFiniteSet(R)
  BY <1>1, <1>2, FS_Subset
<1>4. ASSUME NEW g \in [D -> Int]
      PROVE  /\ Units(g, S) = Units(g, X) + Units(g, R) /\ Units(g, R) \in Nat
             /\ Units(g, X) = IF g[x] >= 0 THEN g[x] ELSE 0
  BY <1>2, <1>3, UnitsSplit, CellsFinite, CellsOne
<1>5. Neg(f) \in [D -> Int] /\ Neg(f)[x] = -f[x] /\ f[x] \in Int
  BY DEF Neg
<1>6. /\ Units(f, S) = Units(f, X) + Units(f, R) /\ Units(f, R) \in Nat
      /\ Units(f, X) = IF f[x] >= 0 THEN f[x] ELSE 0
  BY <1>4
<1>7. /\ Units(Neg(f), S) = Units(Neg(f), X) + Units(Neg(f), R) /\ Units(Neg(f), R) \in Nat
      /\ Units(Neg(f), X) = IF -f[x] >= 0 THEN -f[x] ELSE 0
  BY <1>4, <1>5
<1> QED BY <1>1, <1>5, <1>6, <1>7 DEF Count

LEMMA CountEmpty ==
  ASSUME NEW f PROVE Count(f, {}) = 0
<1>1. \A g : Cells(g, {}) = {}
  BY DEF Cells
<1> QED BY <1>1, FS_EmptySet DEF Count, Units

\* SumOver, a fold over a set in some order, is the count of its units.
LEMMA SumIsCount ==
  ASSUME NEW D, NEW f \in [D -> Int], NEW S \in SUBSET D, IsFiniteSet(S)
  PROVE  SumOver(f, S) = Count(f, S)
<1> DEFINE Pick(s) == CHOOSE x \in s : TRUE
           iter[s \in SUBSET S] == IF s = {} THEN 0
              ELSE LET x == CHOOSE x \in s : TRUE IN f[x] + iter[s \ {x}]
           Def(g) == g = [s \in SUBSET S |-> IF s = {} THEN 0
              ELSE LET x == CHOOSE x \in s : TRUE IN f[x] + g[s \ {x}]]
           count == [s \in SUBSET S |-> Count(f, s)]
<1>1. Count(f, {}) = 0
  BY CountEmpty
<1>2. ASSUME NEW s \in SUBSET S, s # {}
      PROVE  Pick(s) \in s /\ Count(f, s) = f[Pick(s)] + Count(f, s \ {Pick(s)})
  <2>1. PICK x : x = Pick(s)
    OBVIOUS
  <2>2. x \in s
    BY <2>1, <1>2
  <2>3. IsFiniteSet(s) /\ s \in SUBSET D
    BY FS_Subset
  <2>4. Count(f, s) = f[x] + Count(f, s \ {x})
    BY <2>2, <2>3, CountAdd
  <2> QED BY <2>1, <2>2, <2>4
<1>3. Def(count)
  <2>1. ASSUME NEW s \in SUBSET S, s # {}
        PROVE  count[s] = f[Pick(s)] + count[s \ {Pick(s)}]
    BY <1>2, <2>1
  <2>2. count[{}] = 0
    BY <1>1
  <2>3. count = [s \in SUBSET S |-> count[s]]
    OBVIOUS
  <2> HIDE DEF count
  <2> QED BY <2>1, <2>2, <2>3
<1>4. iter = CHOOSE g : Def(g)
  OBVIOUS
<1>5. Def(iter)
  <2> HIDE DEF Def, iter
  <2> QED BY <1>3, <1>4
<1>6. SumOver(f, S) = iter[S]
  BY DEF SumOver, MapThenSumSet, MapThenFoldSet
<1> HIDE DEF iter
<1>7. /\ iter[{}] = 0
      /\ \A s \in SUBSET S : s # {} => iter[s] = f[Pick(s)] + iter[s \ {Pick(s)}]
  BY <1>5
<1> DEFINE Bad == {s \in SUBSET S : iter[s] # Count(f, s)}
<1>8. Bad = {}
  <2> SUFFICES ASSUME Bad # {} PROVE FALSE
    OBVIOUS
  <2>1. IsWellFoundedOn(StrictSubsetOrdering(S), SUBSET S)
    <3>1. FiniteSubsetsOf(S) = SUBSET S
      BY FS_FiniteSubsetsOfFinite
    <3> QED BY <3>1, FS_StrictSubsetOrderingWellFounded
  <2>2. \E s \in Bad : \A t \in Bad : ~(<<t, s>> \in StrictSubsetOrdering(S))
    BY <2>1, WFMin
  <2>3. PICK s \in Bad : \A t \in Bad : ~(<<t, s>> \in StrictSubsetOrdering(S))
    BY <2>2
  <2>4. s # {}
    BY <1>1, <1>7
  <2>5. s \ {Pick(s)} \notin Bad
    <3>1. Pick(s) \in s
      BY <1>2, <2>4
    <3>2. <<s \ {Pick(s)}, s>> \in StrictSubsetOrdering(S)
      BY <3>1 DEF StrictSubsetOrdering
    <3> QED BY <2>3, <3>2
  <2>6. iter[s \ {Pick(s)}] = Count(f, s \ {Pick(s)})
    BY <2>5
  <2>7. s \in SUBSET S /\ iter[s] # Count(f, s)
    OBVIOUS
  <2>8. Count(f, s) = f[Pick(s)] + Count(f, s \ {Pick(s)})
    BY <1>2, <2>4, <2>7
  <2>9. iter[s] = f[Pick(s)] + iter[s \ {Pick(s)}]
    BY <1>7, <2>4, <2>7
  <2> QED BY <2>6, <2>7, <2>8, <2>9
<1> QED BY <1>6, <1>8

LEMMA SumType ==
  ASSUME NEW D, NEW f \in [D -> Int], NEW S \in SUBSET D, IsFiniteSet(S)
  PROVE  SumOver(f, S) \in Int
<1>1. Neg(f) \in [D -> Int]
  BY DEF Neg
<1>2. Units(f, S) \in Nat /\ Units(Neg(f), S) \in Nat
  BY <1>1, CellsFinite
<1> QED BY <1>2, SumIsCount DEF Count

\* Only the rows that are summed matter.
LEMMA SumSame ==
  ASSUME NEW D, NEW f \in [D -> Int], NEW g \in [D -> Int], NEW S \in SUBSET D, IsFiniteSet(S),
         \A x \in S : f[x] = g[x]
  PROVE  SumOver(f, S) = SumOver(g, S)
<1>1. Cells(f, S) = Cells(g, S) /\ Cells(Neg(f), S) = Cells(Neg(g), S)
  BY DEF Cells, Neg
<1>2. Count(f, S) = Count(g, S)
  BY <1>1 DEF Count, Units
<1> QED BY <1>2, SumIsCount

\* A row joins the sum, or leaves it.
LEMMA SumAdd ==
  ASSUME NEW D, NEW f \in [D -> Int], NEW S \in SUBSET D, IsFiniteSet(S), NEW x \in S
  PROVE  SumOver(f, S) = f[x] + SumOver(f, S \ {x})
<1>1. PICK R : R = S \ {x}
  OBVIOUS
<1>2. R \in SUBSET D /\ IsFiniteSet(R)
  BY <1>1, FS_Subset
<1> QED BY <1>1, <1>2, SumIsCount, CountAdd

\* A write of one row moves a sum by what that row adds before and after.
LEMMA SumWrite ==
  ASSUME NEW D, IsFiniteSet(D), NEW f \in [D -> Int], NEW g \in [D -> Int],
         NEW S \in SUBSET D, NEW T \in SUBSET D, NEW x \in D,
         \A y \in D : y # x => f[y] = g[y] /\ (y \in S <=> y \in T)
  PROVE  SumOver(g, T) = SumOver(f, S) - (IF x \in S THEN f[x] ELSE 0) + (IF x \in T THEN g[x] ELSE 0)
<1>1. PICK R : R = S \ {x}
  OBVIOUS
<1>2. R = T \ {x} /\ R \in SUBSET D
  BY <1>1
<1>3. IsFiniteSet(S) /\ IsFiniteSet(T) /\ IsFiniteSet(R)
  BY <1>2, FS_Subset
<1>4. SumOver(f, R) = SumOver(g, R) /\ SumOver(f, R) \in Int
  <2>1. \A y \in R : f[y] = g[y]
    BY <1>1, <1>2
  <2> QED BY <1>2, <1>3, <2>1, SumSame, SumType
<1>5. SumOver(f, S) = (IF x \in S THEN f[x] ELSE 0) + SumOver(f, R)
  <2>1. CASE x \in S
    BY <1>1, <1>3, <2>1, SumAdd
  <2>2. CASE x \notin S
    <3>1. R = S
      BY <1>1, <2>2
    <3> QED BY <1>4, <2>2, <3>1
  <2> QED BY <2>1, <2>2
<1>6. SumOver(g, T) = (IF x \in T THEN g[x] ELSE 0) + SumOver(f, R)
  <2>1. CASE x \in T
    BY <1>2, <1>3, <1>4, <2>1, SumAdd
  <2>2. CASE x \notin T
    <3>1. R = T
      BY <1>2, <2>2
    <3> QED BY <1>4, <2>2, <3>1
  <2> QED BY <2>1, <2>2
<1>7. f[x] \in Int /\ g[x] \in Int
  OBVIOUS
<1> QED BY <1>4, <1>5, <1>6, <1>7

-----------------------------------------------------------------------------
(* The amounts of the order. *)

LEMMA RefundRows ==
  ASSUME EditAssumption, Types
  PROVE  /\ IsFiniteSet(Keys) /\ IsFiniteSet(Attempts) /\ IsFiniteSet(Refunds) /\ 0 \in Attempts
         /\ Attempts \subseteq Nat
         /\ \A x \in Refunds : Row(x) \in RefundRec /\ x[1] \in Keys /\ x[2] \in Attempts
         /\ [x \in Refunds |-> Row(x).amount] \in [Refunds -> Int]
         /\ [k \in Keys |-> journal[k].delta] \in [Keys -> Int]
<1>1. MaxRetries \in Nat /\ IsFiniteSet(Keys)
  BY DEF EditAssumption
<1>2. IsFiniteSet(Attempts) /\ 0 \in Attempts /\ Attempts \subseteq Nat
  BY <1>1, FS_Interval DEF Attempts
<1>3. IsFiniteSet(Refunds)
  BY <1>1, <1>2, FS_Product DEF Refunds
<1>4. ASSUME NEW x \in Refunds PROVE Row(x) \in RefundRec /\ x[1] \in Keys /\ x[2] \in Attempts
  BY DEF Types, Refunds, Row
<1>5. \A x \in Refunds : Row(x).amount \in Int
  BY <1>4 DEF RefundRec
<1>6. \A k \in Keys : journal[k].delta \in Int
  BY DEF Types, EditRec
<1> QED BY <1>1, <1>2, <1>3, <1>4, <1>5, <1>6

LEMMA Amounts ==
  ASSUME EditAssumption, Types
  PROVE  editRefundedTotal \in Int /\ amountDue \in Int /\ available \in Int
<1>1. editRefundedTotal \in Int
  <2>1. PICK f : f = [x \in Refunds |-> Row(x).amount]
    OBVIOUS
  <2>2. PICK S : S = {x \in Refunds : Live(Row(x).state)}
    OBVIOUS
  <2>3. S \in SUBSET Refunds /\ IsFiniteSet(S) /\ f \in [Refunds -> Int]
    BY <2>1, <2>2, RefundRows, FS_Subset
  <2> QED BY <2>1, <2>2, <2>3, SumType DEF editRefundedTotal
<1> QED BY <1>1 DEF amountDue, available, Types, EditAssumption

\* What a refund row takes from the payment.
Part(r) == IF Live(r.state) THEN r.amount ELSE 0

LEMMA RowWrite ==
  ASSUME EditAssumption, Types, Types', NEW x \in Refunds,
         \A y \in Refunds : y # x => Row(y)' = Row(y)
  PROVE  editRefundedTotal' = editRefundedTotal - Part(Row(x)) + Part(Row(x)')
<1> DEFINE f == [y \in Refunds |-> Row(y).amount]
           g == [y \in Refunds |-> Row(y)'.amount]
           S == {y \in Refunds : Live(Row(y).state)}
           T == {y \in Refunds : Live(Row(y)'.state)}
<1>1. IsFiniteSet(Refunds) /\ f \in [Refunds -> Int] /\ \A y \in Refunds : Row(y) \in RefundRec
  BY RefundRows
<1>2. \A y \in Refunds : Row(y)' \in RefundRec
  BY DEF Types, Row, Refunds
<1>3. g \in [Refunds -> Int]
  BY <1>2 DEF RefundRec
<1>4. \A y \in Refunds : y # x => f[y] = g[y] /\ (y \in S <=> y \in T)
  OBVIOUS
<1>5. editRefundedTotal = SumOver(f, S) /\ editRefundedTotal' = SumOver(g, T)
  BY DEF editRefundedTotal, Refunds
<1>6. /\ x \in S <=> Live(Row(x).state)
      /\ x \in T <=> Live(Row(x)'.state)
      /\ f[x] = Row(x).amount /\ g[x] = Row(x)'.amount
  OBVIOUS
<1>7. S \in SUBSET Refunds /\ T \in SUBSET Refunds
  OBVIOUS
<1> HIDE DEF f, g, S, T
<1>8. SumOver(g, T) = SumOver(f, S) - (IF x \in S THEN f[x] ELSE 0) + (IF x \in T THEN g[x] ELSE 0)
  BY <1>1, <1>3, <1>4, <1>7, SumWrite
<1> QED BY <1>5, <1>6, <1>8 DEF Part

\* A commit adds its delta to what explains the total.
LEMMA DeltaWrite ==
  ASSUME EditAssumption, Types, Types', NEW k \in Keys,
         \A y \in Keys : y # k => journal'[y].delta = journal[y].delta
  PROVE  SumOver([y \in Keys |-> journal'[y].delta], Keys) =
           SumOver([y \in Keys |-> journal[y].delta], Keys) - journal[k].delta + journal'[k].delta
<1> DEFINE f == [y \in Keys |-> journal[y].delta]
           g == [y \in Keys |-> journal'[y].delta]
<1>1. IsFiniteSet(Keys) /\ f \in [Keys -> Int]
  BY RefundRows
<1>2. g \in [Keys -> Int]
  BY DEF Types, EditRec
<1>3. \A y \in Keys : y # k => f[y] = g[y] /\ (y \in Keys <=> y \in Keys)
  OBVIOUS
<1>4. f[k] = journal[k].delta /\ g[k] = journal'[k].delta
  OBVIOUS
<1> HIDE DEF f, g
<1>5. Keys \in SUBSET Keys
  OBVIOUS
<1>6. SumOver(g, Keys) = SumOver(f, Keys) - f[k] + g[k]
  BY <1>1, <1>2, <1>3, <1>5, SumWrite
<1> QED BY <1>4, <1>6 DEF f, g

-----------------------------------------------------------------------------
(* The steps. *)

LEMMA Names ==
  ASSUME EditAssumption PROVE None \notin Admins
BY DEF EditAssumption, None

LEMMA NoAdminType == ASSUME EditAssumption PROVE NoAdmin \in AdminRec /\ NoAdmin.pc = "idle" /\ NoAdmin.attempt = 0
<1>1. 0 \in Attempts
  BY DEF Attempts, EditAssumption
<1> QED BY <1>1 DEF NoAdmin, AdminRec

LEMMA InitInv == ASSUME EditAssumption, EditInit PROVE EditIInv
<1>1. Types
  <2>1. NoRefund \in RefundRec
    BY DEF NoRefund, RefundRec
  <2>2. NoEdit \in EditRec
    BY DEF NoEdit, EditRec
  <2> QED BY <2>1, <2>2, NoAdminType DEF EditInit, Types, EditAssumption
<1>2. LockInv /\ AdminInv /\ JournalInv
  <2>1. \A k \in Keys : journal[k] = NoEdit
    BY DEF EditInit
  <2>2. NoEdit.delta = 0 /\ NoEdit.type = "none" /\ ~NoEdit.done
    BY DEF NoEdit, None
  <2>3. JournalInv
    BY <2>1, <2>2 DEF JournalInv
  <2> QED BY <2>3, Names, NoAdminType DEF EditInit, LockInv, AdminInv
<1>3. TotalExplained
  <2>1. PICK f : f = [k \in Keys |-> journal[k].delta]
    OBVIOUS
  <2>2. IsFiniteSet(Keys) /\ f \in [Keys -> Int] /\ \A k \in Keys : f[k] = 0
    BY <1>1, <2>1, RefundRows DEF EditInit, NoEdit
  <2>3. Cells(f, Keys) = {} /\ Cells(Neg(f), Keys) = {}
    BY <2>2 DEF Cells, Neg
  <2>4. Keys \in SUBSET Keys
    OBVIOUS
  <2>5. SumOver(f, Keys) = 0
    BY <2>2, <2>3, <2>4, SumIsCount, FS_EmptySet DEF Count, Units
  <2>6. total = Total0 /\ Total0 \in Int
    BY DEF EditInit, EditAssumption
  <2> QED BY <2>1, <2>5, <2>6 DEF TotalExplained
<1>4. editRefundedTotal = 0
  <2>1. PICK f : f = [x \in Refunds |-> Row(x).amount]
    OBVIOUS
  <2>2. {x \in Refunds : Live(Row(x).state)} = {}
    BY DEF EditInit, Row, Refunds, NoRefund, Live, None
  <2>3. f \in [Refunds -> Int] /\ {} \in SUBSET Refunds /\ IsFiniteSet({})
    BY <1>1, <2>1, RefundRows, FS_EmptySet
  <2>4. SumOver(f, {}) = Count(f, {})
    BY <2>3, SumIsCount
  <2> QED BY <2>1, <2>2, <2>4, CountEmpty DEF editRefundedTotal
<1>5. WithinPayment
  BY <1>4 DEF WithinPayment, available, EditInit, EditAssumption
<1>6. Recorded /\ Covered /\ EditRefundsAreOwed
  BY DEF EditInit, Recorded, Covered, EditRefundsAreOwed, NoEdit, NoAdmin, Row, Refunds, NoRefund
<1> QED BY <1>1, <1>2, <1>3, <1>5, <1>6 DEF EditIInv

\* The books do not move.
Still == UNCHANGED <<total, settled, refund, returned>>

LEMMA StillBooks ==
  ASSUME Still
  PROVE  /\ amountDue' = amountDue /\ available' = available
         /\ WithinPayment => WithinPayment'
         /\ EditRefundsAreOwed => EditRefundsAreOwed'
<1>1. editRefundedTotal' = editRefundedTotal
  BY DEF Still, editRefundedTotal, Row
<1>2. amountDue' = amountDue /\ available' = available
  BY <1>1 DEF Still, amountDue, available
<1>3. EditRefundsAreOwed => EditRefundsAreOwed'
  BY DEF Still, EditRefundsAreOwed, Row
<1> QED BY <1>2, <1>3 DEF WithinPayment

LEMMA StillJournal ==
  ASSUME total' = total, journal' = journal
  PROVE  (TotalExplained => TotalExplained') /\ (JournalInv => JournalInv')
BY DEF TotalExplained, JournalInv

\* A request that leaves the books and the journal alone and is not about to
\* reserve anything afterwards.
LEMMA Rests ==
  ASSUME EditAssumption, EditIInv, Still, UNCHANGED <<journal, dropped>>, NEW a \in Admins,
         NEW r \in AdminRec, admin' = [admin EXCEPT ![a] = r],
         admin[a].pc \in {"idle", "previewed"},
         r.pc \in {"idle", "previewed"}, r.pc # "idle" => r.key \in Keys,
         r.pc = "previewed" => r.total \in Nat, lock' = lock
  PROVE  EditIInv'
<1>1. Types'
  BY DEF EditIInv, Types, Still
<1>2. LockInv' /\ AdminInv'
  BY DEF EditIInv, Types, LockInv, AdminInv
<1>3. JournalInv' /\ TotalExplained' /\ WithinPayment'
  BY StillBooks, StillJournal DEF EditIInv, Still
<1>4. ASSUME ~dropped' PROVE Recorded' /\ Covered' /\ EditRefundsAreOwed'
  <2>1. Recorded /\ Covered /\ EditRefundsAreOwed
    BY <1>4 DEF EditIInv
  <2>2. \A b \in Admins : admin'[b].pc = "refund" => admin'[b] = admin[b]
    BY DEF EditIInv, Types
  <2>3. \A b \in Admins : admin[b].pc = "refund" => admin'[b] = admin[b]
    BY DEF EditIInv, Types
  <2>4. Recorded'
    BY <2>1, <2>3 DEF Recorded, Still
  <2>5. Covered'
    BY <2>1, <2>2, StillBooks DEF Covered, Still
  <2> QED BY <2>1, <2>4, <2>5, StillBooks
<1> QED BY <1>1, <1>2, <1>3, <1>4 DEF EditIInv

LEMMA PreviewInv ==
  ASSUME EditAssumption, EditIInv, NEW a \in Admins, NEW k \in Keys, NEW d \in Changes, previewOrderEdit(a, k, d)
  PROVE  EditIInv'
<1> DEFINE r == [NoAdmin EXCEPT !.pc = "previewed", !.key = k, !.delta = d,
                                !.total = total + d, !.balance = amountDue + d]
<1>1. amountDue \in Int /\ d \in Int /\ total \in Nat /\ total + d \in Nat
  BY Amounts DEF EditIInv, Types, Changes, EditAssumption, previewOrderEdit
<1>2. r \in AdminRec /\ r.pc = "previewed" /\ r.key = k /\ r.total = total + d
  <2>1. total + d \in Int /\ amountDue + d \in Int /\ 0 \in Attempts
    BY <1>1, RefundRows DEF EditIInv
  <2>2. PICK n : n = NoAdmin
    OBVIOUS
  <2>3. PICK t : t = total + d
    OBVIOUS
  <2>4. PICK m : m = amountDue + d
    OBVIOUS
  <2>5. r = [n EXCEPT !.pc = "previewed", !.key = k, !.delta = d, !.total = t, !.balance = m]
    BY <2>2, <2>3, <2>4
  <2> HIDE DEF r
  <2>6. n \in AdminRec
    BY <2>2, NoAdminType
  <2>7. t \in Int /\ m \in Int
    BY <2>1, <2>3, <2>4
  <2>8. r \in AdminRec /\ r.pc = "previewed" /\ r.key = k /\ r.total = t
    BY <1>1, <2>5, <2>6, <2>7 DEF AdminRec
  <2> QED BY <2>3, <2>8
<1>3. admin' = [admin EXCEPT ![a] = r] /\ admin[a].pc = "idle" /\ Still
      /\ UNCHANGED <<journal, dropped, lock>>
  BY DEF previewOrderEdit, Still
<1> HIDE DEF r
<1> QED BY <1>1, <1>2, <1>3, Rests

LEMMA RefuseInv ==
  ASSUME EditAssumption, EditIInv, NEW a \in Admins, refuseCommit(a) PROVE EditIInv'
<1>1. admin' = [admin EXCEPT ![a] = NoAdmin] /\ admin[a].pc = "previewed" /\ Still
      /\ UNCHANGED <<journal, dropped, lock>>
  BY DEF refuseCommit, Still
<1> QED BY <1>1, NoAdminType, Rests

\* Nobody else is about to reserve while the locks are free.
LEMMA FreeLock ==
  ASSUME EditAssumption, EditIInv, lock = None
  PROVE  \A b \in Admins : admin[b].pc \in {"idle", "previewed"}
BY Names DEF EditIInv, LockInv, Types, AdminRec

\* A request takes the locks to issue a refund, which is owed or recorded.
LEMMA Takes ==
  ASSUME EditAssumption, EditIInv, Still, UNCHANGED <<journal, dropped>>, NEW a \in Admins,
         NEW r \in AdminRec, admin' = [admin EXCEPT ![a] = r], lock = None, lock' = a,
         r.pc = "refund", r.key \in Keys, r.amount \in Nat,
         ~dropped /\ refund[r.key][r.attempt].state = None =>
            r.amount <= -amountDue /\ r.amount < available
  PROVE  EditIInv'
<1>1. Types'
  BY DEF EditIInv, Types, Still
<1>2. \A b \in Admins : b # a => admin'[b] = admin[b] /\ admin[b].pc \in {"idle", "previewed"}
  BY FreeLock DEF EditIInv, Types
<1>3. admin'[a] = r
  BY DEF EditIInv, Types
<1>4. LockInv' /\ AdminInv'
  BY <1>2, <1>3 DEF EditIInv, LockInv, AdminInv
<1>5. JournalInv' /\ TotalExplained' /\ WithinPayment'
  BY StillBooks, StillJournal DEF EditIInv, Still
<1>6. ASSUME ~dropped' PROVE Recorded' /\ Covered' /\ EditRefundsAreOwed'
  <2>1. Recorded /\ Covered /\ EditRefundsAreOwed /\ ~dropped
    BY <1>6 DEF EditIInv
  <2>2. \A b \in Admins : admin[b].pc # "refund"
    BY FreeLock
  <2>3. Recorded'
    BY <2>1, <2>2 DEF Recorded, Still
  <2>4. Covered'
    BY <1>2, <1>3, <2>1, StillBooks DEF Covered, Still
  <2> QED BY <2>1, <2>3, <2>4, StillBooks
<1> QED BY <1>1, <1>4, <1>5, <1>6 DEF EditIInv

LEMMA ReplayInv ==
  ASSUME EditAssumption, EditIInv, NEW a \in Admins, NEW k \in Keys, replayCommit(a, k) PROVE EditIInv'
<1> DEFINE r == [NoAdmin EXCEPT !.pc = "refund", !.key = k, !.amount = -journal[k].balance]
<1>1. journal[k].balance \in Int /\ journal[k].balance < 0 /\ journal[k].done /\ journal[k].type = "refund_now"
  BY DEF EditIInv, Types, EditRec, replayCommit, redrive
<1>2. r \in AdminRec /\ r.pc = "refund" /\ r.key = k /\ r.attempt = 0 /\ r.amount = -journal[k].balance
  <2>1. -journal[k].balance \in Int /\ 0 \in Int /\ 0 \in Attempts
    BY <1>1, RefundRows DEF EditIInv
  <2>2. PICK n : n = NoAdmin
    OBVIOUS
  <2>3. PICK m : m = -journal[k].balance
    OBVIOUS
  <2>4. r = [n EXCEPT !.pc = "refund", !.key = k, !.amount = m] /\ n.attempt = 0 /\ m \in Int
    BY <2>1, <2>2, <2>3, NoAdminType
  <2> HIDE DEF r
  <2>5. n \in AdminRec
    BY <2>2, NoAdminType
  <2>6. r \in AdminRec /\ r.pc = "refund" /\ r.key = k /\ r.attempt = 0 /\ r.amount = m
    BY <2>4, <2>5 DEF AdminRec
  <2> QED BY <2>3, <2>6
<1>3. admin' = [admin EXCEPT ![a] = r] /\ lock = None /\ lock' = a /\ Still
      /\ UNCHANGED <<journal, dropped>>
  BY DEF replayCommit, Still
<1>4. ~dropped => refund[k][0].state # None
  BY <1>1, <1>3, FreeLock DEF EditIInv, Recorded
<1> HIDE DEF r
<1>5. r.amount \in Nat
  BY <1>1, <1>2
<1> QED BY <1>2, <1>3, <1>4, <1>5, Takes

LEMMA RetryInv ==
  ASSUME EditAssumption, EditIInv, NEW a \in Admins, NEW k \in Keys, retryOrderEditRefund(a, k) PROVE EditIInv'
<1> DEFINE r == [NoAdmin EXCEPT !.pc = "refund", !.key = k, !.attempt = NextAttempt(k), !.amount = -amountDue]
<1>1. amountDue \in Int /\ amountDue < 0 /\ -amountDue < available
  BY Amounts DEF EditIInv, retryOrderEditRefund, refundFeasible
<1>2. NextAttempt(k) \in Attempts
  <2>1. PICK S : S = {n \in Attempts \ {0} : refund[k][n].state # None}
    OBVIOUS
  <2>2. IsFiniteSet(S)
    BY <2>1, RefundRows, FS_Subset DEF EditIInv
  <2>3. Cardinality(S) \in Nat
    BY <2>2, FS_CardinalityType
  <2>4. NextAttempt(k) = 1 + Cardinality(S) /\ NextAttempt(k) <= MaxRetries
    BY <2>1 DEF NextAttempt, retryOrderEditRefund
  <2> QED BY <2>3, <2>4 DEF Attempts, EditAssumption
<1>3. r \in AdminRec /\ r.pc = "refund" /\ r.key = k /\ r.amount = -amountDue
  <2>1. -amountDue \in Int /\ 0 \in Int
    BY <1>1
  <2>2. PICK n : n = NoAdmin
    OBVIOUS
  <2>3. PICK m : m = -amountDue
    OBVIOUS
  <2>4. PICK t : t = NextAttempt(k)
    OBVIOUS
  <2>5. r = [n EXCEPT !.pc = "refund", !.key = k, !.attempt = t, !.amount = m] /\ m \in Int /\ t \in Attempts
    BY <1>2, <2>1, <2>2, <2>3, <2>4
  <2> HIDE DEF r
  <2>6. n \in AdminRec
    BY <2>2, NoAdminType
  <2>7. r \in AdminRec /\ r.pc = "refund" /\ r.key = k /\ r.amount = m
    BY <2>5, <2>6 DEF AdminRec
  <2> QED BY <2>3, <2>7
<1>4. admin' = [admin EXCEPT ![a] = r] /\ lock = None /\ lock' = a /\ Still
      /\ UNCHANGED <<journal, dropped>>
  BY DEF retryOrderEditRefund, Still
<1> HIDE DEF r
<1>5. r.amount \in Nat /\ r.amount <= -amountDue /\ r.amount < available
  BY <1>1, <1>3
<1> QED BY <1>3, <1>4, <1>5, Takes

\* An edit is added to the total with the journal entry that explains it.
LEMMA CommitInv ==
  ASSUME EditAssumption, EditIInv, NEW a \in Admins,
         NEW type \in {"refund_now", "leave_credit", "leave_due", "record_payment", None},
         commitOrderEdit(a, type)
  PROVE  EditIInv'
<1> DEFINE k == admin[a].key
           d == admin[a].delta
           b == amountDue + d
           e == [done |-> TRUE, delta |-> d, balance |-> b, shown |-> admin[a].balance, type |-> type,
                 status |-> IF type = "refund_now" THEN "pending" ELSE "final", ref |-> NoLink]
<1>1. /\ admin[a].pc = "previewed" /\ lock = None /\ ~journal[k].done
      /\ total + d = admin[a].total /\ b = admin[a].balance
      /\ total' = total + d /\ settled' = IF type = "record_payment" THEN settled + b ELSE settled
      /\ journal' = [journal EXCEPT ![k] = e]
      /\ UNCHANGED <<refund, returned, dropped>>
  BY DEF commitOrderEdit, previewStale
<1>2. /\ k \in Keys /\ d \in Int /\ amountDue \in Int /\ b \in Int /\ admin[a].total \in Nat
      /\ total \in Nat /\ settled \in Nat /\ available \in Int
  BY <1>1, Amounts DEF EditIInv, Types, AdminInv, AdminRec
<1>3. /\ type = "record_payment" => b > 0
      /\ type = "refund_now" => b < 0 /\ -b < available
  BY <1>2 DEF commitOrderEdit, allowedSettlements, refundFeasible, None
<1>4. e \in EditRec /\ e.done /\ e.delta = d /\ e.balance = e.shown /\ e.type = type
  BY <1>1, <1>2 DEF EditRec
<1>5. /\ journal' \in [Keys -> EditRec] /\ journal'[k] = e
      /\ \A y \in Keys : y # k => journal'[y] = journal[y]
  BY <1>1, <1>2, <1>4 DEF EditIInv, Types
<1> HIDE DEF e
<1>6. PICK r \in AdminRec :
        /\ admin' = [admin EXCEPT ![a] = r]
        /\ type # "refund_now" => r = NoAdmin /\ lock' = None
        /\ type = "refund_now" =>
             r.pc = "refund" /\ r.key = k /\ r.attempt = 0 /\ r.amount = -b /\ lock' = a
  <2>1. CASE type = "refund_now"
    <3>1. PICK n : n = admin[a]
      OBVIOUS
    <3>2. PICK m : m = -b
      OBVIOUS
    <3>3. PICK r : r = [n EXCEPT !.pc = "refund", !.attempt = 0, !.amount = m]
      OBVIOUS
    <3>4. n \in AdminRec /\ m \in Int /\ 0 \in Attempts
      BY <1>2, <3>1, <3>2, RefundRows DEF EditIInv, Types
    <3>5. r \in AdminRec /\ r.pc = "refund" /\ r.key = n.key /\ r.attempt = 0 /\ r.amount = m
      BY <3>3, <3>4 DEF AdminRec
    <3>6. admin' = [admin EXCEPT ![a] = r] /\ lock' = a
      BY <2>1, <3>1, <3>2, <3>3 DEF commitOrderEdit, EditIInv, Types
    <3> QED BY <2>1, <3>1, <3>2, <3>5, <3>6
  <2>2. CASE type # "refund_now"
    BY <1>1, <2>2, NoAdminType DEF commitOrderEdit
  <2> QED BY <2>1, <2>2
<1>7. \A c \in Admins : c # a => admin'[c] = admin[c] /\ admin[c].pc \in {"idle", "previewed"}
  BY <1>1, <1>6, FreeLock DEF EditIInv, Types
<1>8. admin'[a] = r
  BY <1>6 DEF EditIInv, Types
<1>9. Types'
  <2>1. total' \in Nat /\ settled' \in Nat
    BY <1>1, <1>2, <1>3
  <2>2. admin' \in [Admins -> AdminRec] /\ lock' \in Admins \cup {None}
    BY <1>6 DEF EditIInv, Types
  <2> QED BY <1>1, <1>5, <2>1, <2>2 DEF EditIInv, Types
<1>10. LockInv' /\ AdminInv'
  <2>1. CASE type = "refund_now"
    <3>1. r.amount \in Nat
      BY <1>2, <1>3, <1>6, <2>1
    <3> QED BY <1>2, <1>6, <1>7, <1>8, <2>1, <3>1 DEF EditIInv, LockInv, AdminInv
  <2>2. CASE type # "refund_now"
    BY <1>6, <1>7, <1>8, <2>2, Names, NoAdminType DEF EditIInv, LockInv, AdminInv
  <2> QED BY <2>1, <2>2
<1>11. JournalInv'
  BY <1>4, <1>5 DEF EditIInv, JournalInv
<1>12. TotalExplained'
  <2>1. \A y \in Keys : y # k => journal'[y].delta = journal[y].delta
    BY <1>5
  <2>2. SumOver([y \in Keys |-> journal'[y].delta], Keys) =
          SumOver([y \in Keys |-> journal[y].delta], Keys) - journal[k].delta + journal'[k].delta
    BY <1>2, <1>9, <2>1, DeltaWrite DEF EditIInv
  <2>3. journal[k].delta = 0 /\ journal'[k].delta = d
    BY <1>1, <1>2, <1>4, <1>5 DEF EditIInv, JournalInv
  <2>4. SumOver([y \in Keys |-> journal[y].delta], Keys) \in Int
    <3>1. PICK f : f = [y \in Keys |-> journal[y].delta]
      OBVIOUS
    <3>2. f \in [Keys -> Int] /\ IsFiniteSet(Keys) /\ Keys \in SUBSET Keys
      BY <3>1, RefundRows DEF EditIInv
    <3> QED BY <3>1, <3>2, SumType
  <2>5. total = Total0 + SumOver([y \in Keys |-> journal[y].delta], Keys) /\ Total0 \in Int
    BY DEF EditIInv, TotalExplained, EditAssumption
  <2> QED BY <1>1, <1>2, <2>2, <2>3, <2>4, <2>5 DEF TotalExplained
<1>13. editRefundedTotal' = editRefundedTotal /\ available' = available
  BY <1>1 DEF editRefundedTotal, available, Row
<1>14. WithinPayment'
  BY <1>13 DEF EditIInv, WithinPayment
<1>15. ASSUME ~dropped' PROVE Recorded' /\ Covered' /\ EditRefundsAreOwed'
  <2>1. Recorded /\ EditRefundsAreOwed
    BY <1>1, <1>15 DEF EditIInv
  <2>2. EditRefundsAreOwed'
    BY <1>1, <2>1 DEF EditRefundsAreOwed, Row
  <2>3. Recorded'
    <3> SUFFICES ASSUME NEW y \in Keys, journal'[y].done, journal'[y].type = "refund_now"
                 PROVE  \/ refund'[y][0].state # None
                        \/ \E c \in Admins : admin'[c].pc = "refund" /\ admin'[c].key = y /\ admin'[c].attempt = 0
      BY DEF Recorded
    <3>1. CASE y = k
      BY <1>4, <1>5, <1>6, <1>8, <3>1
    <3>2. CASE y # k
      BY <1>1, <1>5, <2>1, <3>2, FreeLock DEF Recorded
    <3> QED BY <3>1, <3>2
  <2>4. Covered'
    <3> SUFFICES ASSUME NEW c \in Admins, admin'[c].pc = "refund"
                 PROVE  admin'[c].amount <= -amountDue' /\ admin'[c].amount < available'
      BY DEF Covered
    <3>1. c = a /\ type = "refund_now"
      BY <1>6, <1>7, <1>8, NoAdminType
    <3>2. amountDue' = b
      <4>1. editRefundedTotal \in Int
        BY Amounts DEF EditIInv
      <4> QED BY <1>1, <1>2, <1>13, <3>1, <4>1 DEF amountDue
    <3>3. admin'[c].amount = -b
      BY <1>6, <1>8, <3>1
    <3> QED BY <1>2, <1>3, <1>13, <3>1, <3>2, <3>3
  <2> QED BY <2>2, <2>3, <2>4
<1> QED BY <1>9, <1>10, <1>11, <1>12, <1>14, <1>15 DEF EditIInv

LEMMA LeaveCreditInv ==
  ASSUME EditAssumption, EditIInv, NEW a \in Admins, NEW k \in Keys, leaveCredit(a, k) PROVE EditIInv'
<1>1. /\ Still /\ UNCHANGED <<admin, lock, dropped>>
      /\ journal' = [journal EXCEPT ![k] = [@ EXCEPT !.type = "leave_credit", !.status = "final", !.ref = NoLink]]
  BY DEF leaveCredit, Still
<1>2. PICK n : n = journal[k]
  OBVIOUS
<1>3. PICK e : e = [n EXCEPT !.type = "leave_credit", !.status = "final", !.ref = NoLink]
  OBVIOUS
<1>4. n \in EditRec
  BY <1>2 DEF EditIInv, Types
<1>5. /\ e \in EditRec /\ e.type = "leave_credit" /\ e.done = n.done /\ e.delta = n.delta
      /\ e.balance = n.balance /\ e.shown = n.shown
  BY <1>3, <1>4 DEF EditRec
<1>6. journal' = [journal EXCEPT ![k] = e]
  BY <1>1, <1>2, <1>3 DEF EditIInv, Types
<1>7. Types'
  BY <1>1, <1>5, <1>6 DEF EditIInv, Types, Still
<1>8. /\ journal'[k] = e
      /\ \A y \in Keys : y # k => journal'[y] = journal[y]
  BY <1>6 DEF EditIInv, Types
<1>9. \A y \in Keys : journal'[y].delta = journal[y].delta
  BY <1>2, <1>5, <1>8
<1>10. JournalInv' /\ LockInv' /\ AdminInv'
  BY <1>1, <1>2, <1>5, <1>8 DEF EditIInv, JournalInv, LockInv, AdminInv
<1>11. TotalExplained' /\ WithinPayment'
  BY <1>1, <1>9, StillBooks DEF EditIInv, TotalExplained, Still
<1>12. ASSUME ~dropped' PROVE Recorded' /\ Covered' /\ EditRefundsAreOwed'
  <2>1. Recorded /\ Covered /\ EditRefundsAreOwed
    BY <1>1, <1>12 DEF EditIInv
  <2>2. Recorded'
    BY <1>1, <1>5, <1>8, <2>1 DEF Recorded, Still
  <2>3. Covered'
    BY <1>1, <2>1, StillBooks DEF Covered, Still
  <2> QED BY <1>1, <2>1, <2>2, <2>3, StillBooks
<1> QED BY <1>7, <1>10, <1>11, <1>12 DEF EditIInv

\* The holder of the locks goes on to record, or its process dies; unless that
\* loses the refund of a commit, the refund has its row.
LEMMA HolderMoves ==
  ASSUME EditAssumption, EditIInv, NEW a \in Admins, admin[a].pc \in {"refund", "record"},
         NEW r \in AdminRec, admin' = [admin EXCEPT ![a] = r], Types',
         \/ r.pc = "record" /\ r.key = admin[a].key /\ lock' = lock
         \/ r.pc = "idle" /\ lock' = None
  PROVE  /\ LockInv' /\ AdminInv'
         /\ \A b \in Admins : admin'[b].pc # "refund" /\ (b # a => admin[b].pc \in {"idle", "previewed"})
<1>1. admin'[a] = r /\ \A b \in Admins : b # a => admin'[b] = admin[b]
  BY DEF EditIInv, Types
<1>2. lock = a /\ \A b \in Admins : b # a => admin[b].pc \in {"idle", "previewed"}
  BY DEF EditIInv, LockInv, Types, AdminRec
<1> QED BY <1>1, <1>2, Names DEF EditIInv, LockInv, AdminInv

\* The request of a after the row of its refund was written or found.
LEMMA ToRecord ==
  ASSUME EditAssumption, EditIInv, NEW a \in Admins, admin[a].pc = "refund",
         admin' = [admin EXCEPT ![a].pc = "record"]
  PROVE  \E r \in AdminRec : admin' = [admin EXCEPT ![a] = r] /\ r.pc = "record" /\ r.key = admin[a].key
<1>1. PICK n : n = admin[a]
  OBVIOUS
<1>2. PICK r : r = [n EXCEPT !.pc = "record"]
  OBVIOUS
<1>3. n \in AdminRec
  BY <1>1 DEF EditIInv, Types
<1>4. r \in AdminRec /\ r.pc = "record" /\ r.key = n.key
  BY <1>2, <1>3 DEF AdminRec
<1>5. admin' = [admin EXCEPT ![a] = r]
  BY <1>1, <1>2 DEF EditIInv, Types
<1> QED BY <1>1, <1>4, <1>5

LEMMA RequestInv ==
  ASSUME EditAssumption, EditIInv, NEW a \in Admins, NEW outcome \in Outcomes, requestRefund(a, outcome)
  PROVE  EditIInv'
<1>0. PICK k, n, new :
        /\ k = admin[a].key /\ n = admin[a].attempt
        /\ new = [state |-> outcome, amount |-> admin[a].amount, owed |-> -amountDue]
  OBVIOUS
<1> DEFINE x == <<k, n>>
<1>1. /\ admin[a].pc = "refund" /\ admin' = [admin EXCEPT ![a].pc = "record"]
      /\ UNCHANGED <<total, settled, returned, journal, lock, dropped>>
      /\ IF refund[k][n].state # None \/ admin[a].amount > available
         THEN UNCHANGED refund ELSE refund' = [refund EXCEPT ![k][n] = new]
  BY <1>0 DEF requestRefund
<1>2. /\ k \in Keys /\ n \in Attempts /\ admin[a].amount \in Nat /\ amountDue \in Int /\ available \in Int
      /\ available >= 0 /\ editRefundedTotal \in Int
  BY <1>0, <1>1, Amounts DEF EditIInv, Types, AdminInv, AdminRec, WithinPayment
<1>3. PICK r \in AdminRec : admin' = [admin EXCEPT ![a] = r] /\ r.pc = "record" /\ r.key = k
  BY <1>0, <1>1, ToRecord
<1>4. new \in RefundRec /\ new.state = outcome /\ new.amount = admin[a].amount /\ new.owed = -amountDue
  BY <1>0, <1>2 DEF RefundRec
<1>5. Types'
  <2>0. refund \in [Keys -> [Attempts -> RefundRec]] /\ new \in RefundRec
    BY <1>4 DEF EditIInv, Types
  <2>1. refund' \in [Keys -> [Attempts -> RefundRec]]
    <3>1. refund' = refund \/ refund' = [refund EXCEPT ![k][n] = new]
      BY <1>1
    <3> QED BY <1>2, <2>0, <3>1
  <2> QED BY <1>1, <1>3, <2>1 DEF EditIInv, Types
<1>6. /\ LockInv' /\ AdminInv'
      /\ \A b \in Admins : admin'[b].pc # "refund" /\ (b # a => admin[b].pc \in {"idle", "previewed"})
  BY <1>0, <1>1, <1>3, <1>5, HolderMoves
<1>7. JournalInv' /\ TotalExplained'
  BY <1>1, StillJournal DEF EditIInv
<1>8. Covered'
  BY <1>6 DEF Covered
<1>9. \A y \in Keys, i \in Attempts : <<y, i>> # x => refund'[y][i] = refund[y][i]
  BY <1>1, <1>2 DEF EditIInv, Types
<1>10. ~dropped => refund'[k][n].state # None
  <2>1. CASE refund[k][n].state # None
    BY <1>1, <2>1
  <2>2. CASE refund[k][n].state = None
    <3>1. ASSUME ~dropped PROVE admin[a].amount < available
      BY <1>0, <1>1, <2>2, <3>1 DEF EditIInv, Covered
    <3>2. ASSUME ~dropped PROVE refund'[k][n] = new
      BY <1>1, <1>2, <2>2, <3>1, <3>2 DEF EditIInv, Types
    <3> QED BY <1>4, <3>2 DEF Outcomes, None
  <2> QED BY <2>1, <2>2
<1>11. ASSUME ~dropped' PROVE Recorded'
  <2>1. Recorded /\ refund'[k][n].state # None
    BY <1>1, <1>10, <1>11 DEF EditIInv
  <2>2. 0 \in Attempts
    BY RefundRows DEF EditIInv
  <2> SUFFICES ASSUME NEW y \in Keys, journal[y].done, journal[y].type = "refund_now"
               PROVE  refund'[y][0].state # None
    BY <1>1 DEF Recorded
  <2>3. CASE y = k /\ n = 0
    BY <2>1, <2>3
  <2>4. CASE ~(y = k /\ n = 0)
    <3>1. refund'[y][0] = refund[y][0]
      BY <1>9, <2>2, <2>4
    <3>2. ~\E b \in Admins : admin[b].pc = "refund" /\ admin[b].key = y /\ admin[b].attempt = 0
      BY <1>0, <1>6, <2>4
    <3> QED BY <2>1, <3>1, <3>2 DEF Recorded
  <2> QED BY <2>3, <2>4
<1>12. WithinPayment' /\ (~dropped' => EditRefundsAreOwed')
  <2>1. CASE UNCHANGED refund
    <3>1. Still
      BY <1>1, <2>1 DEF Still
    <3> QED BY <1>1, <3>1, StillBooks DEF EditIInv
  <2>2. CASE /\ refund[k][n].state = None /\ admin[a].amount <= available
             /\ refund' = [refund EXCEPT ![k][n] = new]
    <3>1. refund'[k][n] = new
      BY <1>2, <2>2 DEF EditIInv, Types
    <3>2. x \in Refunds /\ Row(x) = refund[k][n] /\ Row(x)' = new
      BY <1>2, <3>1 DEF Refunds, Row
    <3>3. \A y \in Refunds : y # x => Row(y)' = Row(y)
      BY <1>9 DEF Refunds, Row
    <3>4. editRefundedTotal' = editRefundedTotal - Part(Row(x)) + Part(Row(x)')
      BY <1>5, <3>2, <3>3, RowWrite DEF EditIInv
    <3>5. Part(Row(x)) = 0 /\ Part(Row(x)') \in {0, admin[a].amount}
      BY <1>4, <2>2, <3>2 DEF Part, Live, None
    <3>6. Total0 \in Nat /\ returned \in Nat /\ returned' = returned
      BY <1>1 DEF EditIInv, Types, EditAssumption
    <3>7. available' >= 0
      BY <1>2, <2>2, <3>4, <3>5, <3>6 DEF available
    <3>8. ASSUME ~dropped' PROVE EditRefundsAreOwed'
      <4>1. EditRefundsAreOwed /\ admin[a].amount <= -amountDue
        BY <1>0, <1>1, <2>2, <3>8 DEF EditIInv, Covered
      <4> QED BY <1>4, <3>2, <3>3, <4>1 DEF EditRefundsAreOwed, Refunds
    <3> QED BY <3>7, <3>8 DEF WithinPayment
  <2> QED BY <1>1, <1>2, <2>1, <2>2
<1> QED BY <1>5, <1>6, <1>7, <1>8, <1>11, <1>12 DEF EditIInv

LEMMA NotRecordedInv ==
  ASSUME EditAssumption, EditIInv, NEW a \in Admins, refundNotRecorded(a) PROVE EditIInv'
<1>1. /\ admin[a].pc = "refund" /\ admin' = [admin EXCEPT ![a].pc = "record"] /\ Still
      /\ UNCHANGED <<journal, lock>> /\ dropped' = (dropped \/ admin[a].attempt = 0)
  BY DEF refundNotRecorded, Still
<1>2. PICK r \in AdminRec : admin' = [admin EXCEPT ![a] = r] /\ r.pc = "record" /\ r.key = admin[a].key
  BY <1>1, ToRecord
<1>3. Types'
  BY <1>1, <1>2 DEF EditIInv, Types, Still
<1>4. /\ LockInv' /\ AdminInv'
      /\ \A b \in Admins : admin'[b].pc # "refund" /\ (b # a => admin[b].pc \in {"idle", "previewed"})
  BY <1>1, <1>2, <1>3, HolderMoves
<1>5. JournalInv' /\ TotalExplained' /\ WithinPayment'
  BY <1>1, StillJournal, StillBooks DEF EditIInv, Still
<1>6. Covered'
  BY <1>4 DEF Covered
<1>7. ASSUME ~dropped' PROVE Recorded' /\ EditRefundsAreOwed'
  <2>1. Recorded /\ EditRefundsAreOwed /\ admin[a].attempt # 0
    BY <1>1, <1>7 DEF EditIInv
  <2>2. Recorded'
    BY <1>1, <1>4, <2>1 DEF Recorded, Still
  <2> QED BY <1>1, <2>1, <2>2, StillBooks
<1> QED BY <1>3, <1>4, <1>5, <1>6, <1>7 DEF EditIInv

LEMMA CrashInv ==
  ASSUME EditAssumption, EditIInv, NEW a \in Admins, Crash(a) PROVE EditIInv'
<1>1. /\ admin[a].pc \in {"refund", "record"} /\ admin' = [admin EXCEPT ![a] = NoAdmin] /\ Still
      /\ lock' = None /\ UNCHANGED journal
      /\ dropped' = (dropped \/ (admin[a].attempt = 0 /\ refund[admin[a].key][0].state = None))
  BY DEF Crash, Still
<1>2. Types'
  BY <1>1, NoAdminType DEF EditIInv, Types, Still
<1>3. /\ LockInv' /\ AdminInv'
      /\ \A b \in Admins : admin'[b].pc # "refund" /\ (b # a => admin[b].pc \in {"idle", "previewed"})
  BY <1>1, <1>2, NoAdminType, HolderMoves
<1>4. JournalInv' /\ TotalExplained' /\ WithinPayment'
  BY <1>1, StillJournal, StillBooks DEF EditIInv, Still
<1>5. Covered'
  BY <1>3 DEF Covered
<1>6. ASSUME ~dropped' PROVE Recorded' /\ EditRefundsAreOwed'
  <2>1. Recorded /\ EditRefundsAreOwed /\ ~(admin[a].attempt = 0 /\ refund[admin[a].key][0].state = None)
    BY <1>1, <1>6 DEF EditIInv
  <2>2. Recorded'
    BY <1>1, <1>3, <2>1 DEF Recorded, Still
  <2> QED BY <1>1, <2>1, <2>2, StillBooks
<1> QED BY <1>2, <1>3, <1>4, <1>5, <1>6 DEF EditIInv

LEMMA RecordOutcomeInv ==
  ASSUME EditAssumption, EditIInv, NEW a \in Admins, recordOutcome(a) PROVE EditIInv'
<1> DEFINE k == admin[a].key
<1>1. /\ admin[a].pc = "record" /\ admin' = [admin EXCEPT ![a] = NoAdmin] /\ Still
      /\ lock' = None /\ UNCHANGED dropped
      /\ journal' = [journal EXCEPT ![k] =
           IF refund[k][admin[a].attempt].state # None THEN [@ EXCEPT !.ref = admin[a].attempt, !.status = "pending"]
           ELSE [@ EXCEPT !.status = "failed"]]
  BY DEF recordOutcome, Still
<1>2. k \in Keys /\ admin[a].attempt \in Attempts /\ journal[k] \in EditRec
  BY <1>1 DEF EditIInv, AdminInv, Types, AdminRec
<1>3. PICK e \in EditRec :
        /\ journal' = [journal EXCEPT ![k] = e]
        /\ e.type = journal[k].type /\ e.done = journal[k].done /\ e.delta = journal[k].delta
        /\ e.balance = journal[k].balance /\ e.shown = journal[k].shown
  <2>1. PICK j : j = journal[k]
    OBVIOUS
  <2>2. PICK t : t = admin[a].attempt
    OBVIOUS
  <2>3. PICK e : e = IF refund[k][t].state # None THEN [j EXCEPT !.ref = t, !.status = "pending"]
                     ELSE [j EXCEPT !.status = "failed"]
    OBVIOUS
  <2>4. j \in EditRec /\ t \in Attempts
    BY <1>2, <2>1, <2>2
  <2>5. /\ e \in EditRec /\ e.type = j.type /\ e.done = j.done /\ e.delta = j.delta
        /\ e.balance = j.balance /\ e.shown = j.shown
    BY <2>3, <2>4 DEF EditRec
  <2>6. journal' = [journal EXCEPT ![k] = e]
    BY <1>1, <1>2, <2>1, <2>2, <2>3 DEF EditIInv, Types
  <2> QED BY <2>1, <2>5, <2>6
<1>4. Types'
  BY <1>1, <1>3, NoAdminType DEF EditIInv, Types, Still
<1>5. /\ LockInv' /\ AdminInv'
      /\ \A b \in Admins : admin'[b].pc # "refund" /\ (b # a => admin[b].pc \in {"idle", "previewed"})
  BY <1>1, <1>4, NoAdminType, HolderMoves
<1>6. /\ journal'[k] = e
      /\ \A y \in Keys : y # k => journal'[y] = journal[y]
  BY <1>2, <1>3 DEF EditIInv, Types
<1>7. \A y \in Keys : /\ journal'[y].delta = journal[y].delta /\ journal'[y].type = journal[y].type
                      /\ journal'[y].done = journal[y].done /\ journal'[y].balance = journal[y].balance
                      /\ journal'[y].shown = journal[y].shown
  BY <1>3, <1>6
<1>8. JournalInv' /\ TotalExplained' /\ WithinPayment'
  BY <1>1, <1>7, StillBooks DEF EditIInv, JournalInv, TotalExplained, Still
<1>9. Covered'
  BY <1>5 DEF Covered
<1>10. ASSUME ~dropped' PROVE Recorded' /\ EditRefundsAreOwed'
  <2>1. Recorded /\ EditRefundsAreOwed /\ \A b \in Admins : admin[b].pc # "refund"
    BY <1>1, <1>5, <1>10 DEF EditIInv
  <2>2. Recorded'
    BY <1>1, <1>7, <2>1 DEF Recorded, Still
  <2> QED BY <1>1, <2>1, <2>2, StillBooks
<1> QED BY <1>4, <1>5, <1>8, <1>9, <1>10 DEF EditIInv

LEMMA FinalizeInv ==
  ASSUME EditAssumption, EditIInv, NEW x \in Refunds, NEW outcome \in {"Settled", "Failed"}, finalizeRefund(x, outcome)
  PROVE  EditIInv'
<1>1. /\ Row(x).state = "Pending" /\ refund' = [refund EXCEPT ![x[1]][x[2]].state = outcome]
      /\ UNCHANGED <<total, settled, returned, journal, admin, lock, dropped>>
  BY DEF finalizeRefund
<1>2. PICK n : n = Row(x)
  OBVIOUS
<1>3. PICK r : r = [n EXCEPT !.state = outcome]
  OBVIOUS
<1>4. n \in RefundRec /\ x[1] \in Keys /\ x[2] \in Attempts
  BY <1>2, RefundRows DEF EditIInv
<1>5. r \in RefundRec /\ r.state = outcome /\ r.amount = n.amount /\ r.owed = n.owed
  BY <1>3, <1>4 DEF RefundRec, Outcomes
<1>6. refund' = [refund EXCEPT ![x[1]][x[2]] = r]
  BY <1>1, <1>2, <1>3, <1>4 DEF EditIInv, Types, Row
<1>7. Types'
  <2>1. PICK i, j : i = x[1] /\ j = x[2]
    OBVIOUS
  <2>2. refund' = [refund EXCEPT ![i][j] = r] /\ i \in Keys /\ j \in Attempts
    BY <1>4, <1>6, <2>1
  <2>3. refund' \in [Keys -> [Attempts -> RefundRec]]
    BY <1>5, <2>2 DEF EditIInv, Types
  <2> QED BY <1>1, <2>3 DEF EditIInv, Types
<1>8. Row(x)' = r /\ \A y \in Refunds : y # x => Row(y)' = Row(y)
  BY <1>4, <1>6 DEF EditIInv, Types, Row, Refunds
<1>9. editRefundedTotal' = editRefundedTotal - Part(n) + Part(r)
  BY <1>2, <1>7, <1>8, RowWrite DEF EditIInv
<1>10. Part(n) = n.amount /\ Part(r) \in {0, n.amount} /\ n.amount \in Nat
  BY <1>1, <1>2, <1>4, <1>5 DEF Part, Live, RefundRec
<1>11. /\ editRefundedTotal \in Int /\ amountDue \in Int /\ available \in Int
       /\ total \in Nat /\ settled \in Nat /\ returned \in Nat /\ Total0 \in Nat
  BY Amounts DEF EditIInv, Types, EditAssumption
<1>12. amountDue' <= amountDue /\ available' >= available /\ amountDue' \in Int /\ available' \in Int
  BY <1>1, <1>9, <1>10, <1>11 DEF amountDue, available
<1>13. LockInv' /\ AdminInv' /\ JournalInv' /\ TotalExplained'
  BY <1>1, StillJournal DEF EditIInv, LockInv, AdminInv
<1>14. WithinPayment'
  BY <1>11, <1>12 DEF EditIInv, WithinPayment
<1>15. \A y \in Keys, i \in Attempts : refund'[y][i].state = None <=> refund[y][i].state = None
  <2> SUFFICES ASSUME NEW y \in Keys, NEW i \in Attempts
               PROVE  refund'[y][i].state = None <=> refund[y][i].state = None
    OBVIOUS
  <2>1. <<y, i>> \in Refunds /\ Row(<<y, i>>) = refund[y][i] /\ Row(<<y, i>>)' = refund'[y][i]
    BY DEF Refunds, Row
  <2>2. CASE <<y, i>> = x
    BY <1>1, <1>5, <1>8, <2>1, <2>2 DEF None
  <2>3. CASE <<y, i>> # x
    BY <1>8, <2>1, <2>3
  <2> QED BY <2>2, <2>3
<1>16. ASSUME ~dropped' PROVE Recorded' /\ Covered' /\ EditRefundsAreOwed'
  <2>1. Recorded /\ Covered /\ EditRefundsAreOwed
    BY <1>1, <1>16 DEF EditIInv
  <2>2. 0 \in Attempts
    BY RefundRows DEF EditIInv
  <2>3. Recorded'
    BY <1>1, <1>15, <2>1, <2>2 DEF Recorded
  <2>4. Covered'
    <3> SUFFICES ASSUME NEW a \in Admins, admin[a].pc = "refund",
                        refund'[admin[a].key][admin[a].attempt].state = None
                 PROVE  admin[a].amount <= -amountDue' /\ admin[a].amount < available'
      BY <1>1 DEF Covered
    <3>1. admin[a].key \in Keys /\ admin[a].attempt \in Attempts /\ admin[a].amount \in Nat
      BY DEF EditIInv, AdminInv, Types, AdminRec
    <3>2. admin[a].amount <= -amountDue /\ admin[a].amount < available
      BY <1>15, <2>1, <3>1 DEF Covered
    <3> QED BY <1>11, <1>12, <3>1, <3>2
  <2>5. EditRefundsAreOwed'
    <3> SUFFICES ASSUME NEW y \in Refunds, Row(y)'.state # None PROVE Row(y)'.amount <= Row(y)'.owed
      BY DEF EditRefundsAreOwed, Refunds
    <3>1. CASE y = x
      BY <1>1, <1>2, <1>5, <1>8, <2>1, <3>1 DEF EditRefundsAreOwed, None
    <3>2. CASE y # x
      BY <1>8, <2>1, <3>2 DEF EditRefundsAreOwed
    <3> QED BY <3>1, <3>2
  <2> QED BY <2>3, <2>4, <2>5
<1> QED BY <1>7, <1>13, <1>14, <1>16 DEF EditIInv

\* Money beside the edits moves only while the locks are free.
LEMMA BesideInv ==
  ASSUME EditAssumption, EditIInv, payBalance \/ ordinaryRefund PROVE EditIInv'
<1>1. lock = None /\ UNCHANGED <<total, refund, journal, admin, lock, dropped>>
  BY DEF payBalance, ordinaryRefund
<1>2. amountDue \in Int /\ available \in Int /\ editRefundedTotal \in Int
  BY Amounts DEF EditIInv
<1>3. settled' \in Nat /\ returned' \in Nat
  BY <1>2 DEF payBalance, ordinaryRefund, EditIInv, Types
<1>4. Types' /\ LockInv' /\ AdminInv' /\ JournalInv' /\ TotalExplained'
  BY <1>1, <1>3, StillJournal DEF EditIInv, Types, LockInv, AdminInv
<1>5. editRefundedTotal' = editRefundedTotal
  BY <1>1 DEF editRefundedTotal, Row
<1>6. WithinPayment'
  <2>1. CASE payBalance
    BY <1>5, <2>1 DEF payBalance, EditIInv, WithinPayment, available
  <2>2. CASE ordinaryRefund
    <3>1. returned \in Nat /\ Total0 \in Nat /\ returned' = returned + 1 /\ available > 1
      BY <2>2 DEF ordinaryRefund, EditIInv, Types, EditAssumption
    <3> QED BY <1>2, <1>5, <3>1 DEF WithinPayment, available
  <2> QED BY <2>1, <2>2
<1>7. \A b \in Admins : admin[b].pc # "refund"
  BY <1>1, FreeLock
<1>8. Covered' /\ (~dropped' => Recorded' /\ EditRefundsAreOwed')
  BY <1>1, <1>7 DEF EditIInv, Covered, Recorded, EditRefundsAreOwed, Row
<1> QED BY <1>4, <1>6, <1>8 DEF EditIInv

LEMMA Inductive ==
  ASSUME EditAssumption, EditIInv, [EditNext]_editVars PROVE EditIInv'
<1>1. CASE AdminStep
  BY <1>1, PreviewInv, RefuseInv, CommitInv, ReplayInv, RetryInv, LeaveCreditInv, RequestInv,
     NotRecordedInv, RecordOutcomeInv, CrashInv DEF AdminStep
<1>2. CASE \E x \in Refunds, outcome \in {"Settled", "Failed"} : finalizeRefund(x, outcome)
  BY <1>2, FinalizeInv
<1>3. CASE payBalance \/ ordinaryRefund
  BY <1>3, BesideInv
<1>4. CASE UNCHANGED editVars
  <2>1. Still /\ UNCHANGED <<journal, admin, lock, dropped>>
    BY <1>4 DEF editVars, Still
  <2>2. Recorded => Recorded'
    BY <2>1 DEF Recorded, Still
  <2>3. Covered => Covered'
    BY <2>1, StillBooks DEF Covered, Still
  <2>4. (Types => Types') /\ (LockInv => LockInv') /\ (AdminInv => AdminInv')
    BY <2>1 DEF Types, LockInv, AdminInv, Still
  <2> QED BY <2>1, <2>2, <2>3, <2>4, StillBooks, StillJournal DEF EditIInv, Still
<1> QED BY <1>1, <1>2, <1>3, <1>4 DEF EditNext

\* However commits, replays, retries, refunds and the provider's late answers
\* interleave and processes die (order-edit-service.ts): every edit is in the
\* total exactly once, edit refunds and ordinary refunds together stay within the
\* payment, an edit settles the balance its operator accepted, and until the
\* refund of a commit is lost before it was recorded no credit is refunded twice.
THEOREM EditsSettle ==
  ASSUME EditAssumption PROVE EditSpec => []EditsSettleExactly
<1>1. EditInit => EditIInv
  BY InitInv
<1>2. EditIInv /\ [EditNext]_editVars => EditIInv'
  BY Inductive
<1>3. EditIInv => EditsSettleExactly
  <2> SUFFICES ASSUME EditIInv PROVE EditsSettleExactly
    OBVIOUS
  <2>1. EditsWellTyped
    <3>1. \A x \in Refunds : Row(x).state \in Outcomes \cup {None} /\ Row(x).amount \in Nat
      BY RefundRows DEF EditIInv, RefundRec
    <3>2. \A k \in Keys : journal[k].ref \in Attempts \cup {NoLink}
      BY DEF EditIInv, Types, EditRec
    <3> QED BY <3>1, <3>2 DEF EditsWellTyped, EditIInv, Types, LockInv
  <2> QED BY <2>1 DEF EditIInv, EditsSettleExactly, SettledAsAccepted, JournalInv
<1> QED BY <1>1, <1>2, <1>3, PTL DEF EditSpec
=============================================================================
