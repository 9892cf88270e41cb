------------------------------ MODULE LockSets ------------------------------
(***************************************************************************)
(* The lock sets of packages/api/src/db/locks.ts.  A transaction plans the  *)
(* rows its subject touches with no lock held, takes them in one global     *)
(* order (licences L2, orders L3, then reservations L4, each class sorted   *)
(* by id), plans again under the licence and order locks, and rolls back    *)
(* and starts over with the larger set when the plan grew.  Helpers running *)
(* inside such a transaction may ask for the set of a further order on the  *)
(* same transaction.                                                        *)
(*                                                                          *)
(* Rows are numbered so that the numeric order is the lock order.  All      *)
(* orders belong to one customer.  A row is inserted by a transaction that  *)
(* holds its order and is invisible to the others until that one commits.   *)
(***************************************************************************)
EXTENDS Integers, FiniteSets

CONSTANTS Licences, Orders, Reservations,  \* the rows, three ranges of ids
          Tx,           \* concurrent transactions
          MustCommit,   \* those that record money a provider already moved
          Bare,         \* in-transaction helpers on a plain withStore: no restart
          MaxRestarts,  \* maxRestarts, 3 in the code
          InTx,         \* helpers may ask for another order's set (X-49)
          NoTx

Rows == Licences \cup Orders \cup Reservations

RowsAssumption ==
    /\ Rows \subseteq Nat \ {0}
    /\ \A l \in Licences, o \in Orders : l < o
    /\ \A o \in Orders, r \in Reservations : o < r
    /\ \A l \in Licences, r \in Reservations : l < r
TxAssumption ==
    /\ NoTx \notin Tx
    /\ MustCommit \subseteq Tx /\ Bare \subseteq Tx
    /\ MaxRestarts \in Nat
    /\ InTx \in BOOLEAN

VARIABLES
    placed,     \* orders that exist
    parent,     \* order of each committed licence or reservation, 0: not inserted
    holder,     \* which transaction holds the row lock
    pc,         \* phase of each transaction
    subject,    \* the order a transaction is about, 0: the whole customer
    plan,       \* the plan its withLockedSet works with
    inner,      \* the order whose set a helper asked for, 0: none
    innerPlan,  \* the plan of that helper
    todo,       \* rows of the current class pass still to lock
    born,       \* <<row, order>> inserted and not yet committed
    attempt, transient  \* restarts used: contention, and deadlock victims

vars == <<placed, parent, holder, pc, subject, plan, inner, innerPlan, todo,
          born, attempt, transient>>
work == <<subject, plan, inner, innerPlan, todo, born>>

Children == Licences \cup Reservations
Phases == {"idle", "lock", "lockRes", "run", "lockIn", "lockInRes",
           "lockOrder", "committed", "failed"}

Init ==
    /\ placed \in SUBSET Orders
    /\ parent \in [Children -> placed \cup {0}]
    /\ holder = [r \in Rows |-> NoTx]
    /\ pc = [t \in Tx |-> "idle"]
    /\ subject = [t \in Tx |-> 0]
    /\ plan = [t \in Tx |-> {}]
    /\ inner = [t \in Tx |-> 0]
    /\ innerPlan = [t \in Tx |-> {}]
    /\ todo = [t \in Tx |-> {}]
    /\ born = [t \in Tx |-> {}]
    /\ attempt = [t \in Tx |-> 0]
    /\ transient = [t \in Tx |-> 0]

-----------------------------------------------------------------------------
(* Planning *)

Newborn(t) == {x[1] : x \in born[t]}

\* A statement of t finds committed rows and its own inserts.
Visible(t, r) == \/ r \in placed \cup Newborn(t)
                 \/ r \in Children /\ parent[r] # 0

\* Rows of the orders os that t finds.
RowsOf(t, os) == {c \in Children : parent[c] \in os}
                 \cup {x[1] : x \in {y \in born[t] : y[2] \in os}}

\* planOne and the reservations planFor adds to it: an order subject plans the
\* order, its licences and its reservations; a customer subject the same for
\* all the customer's orders.
PlanFor_NoReservations(t, s) ==
    LET os == IF s = 0 THEN placed ELSE {s}
    IN  os \cup (RowsOf(t, os) \cap Licences)
PlanFor(t, s) ==
    LET os == IF s = 0 THEN placed ELSE {s} IN os \cup RowsOf(t, os)

LockSetCovers(t, s) == PlanFor(t, s) \subseteq plan[t]

-----------------------------------------------------------------------------
(* Taking the locks *)

Locking(t) == pc[t] \in {"lock", "lockRes", "lockIn", "lockInRes", "lockOrder"}

\* The row lockRows asks for next: the smallest left in the pass.
Next1_Unsorted(t, r) == r \in todo[t]
Next1(t, r) == r \in todo[t] /\ \A x \in todo[t] : r <= x

Blocked(t, r) == /\ Locking(t) /\ Next1(t, r)
                 /\ Visible(t, r) /\ holder[r] \notin {t, NoTx}
WaitsFor(t, u) == \E r \in Rows : Blocked(t, r) /\ holder[r] = u

\* SELECT ... FOR UPDATE of one id; an id that finds no row locks nothing.
LockRow(t) ==
    /\ Locking(t)
    /\ \E r \in Rows :
          /\ Next1(t, r) /\ ~ Blocked(t, r)
          /\ holder' = IF Visible(t, r) THEN [holder EXCEPT ![r] = t] ELSE holder
          /\ todo' = [todo EXCEPT ![t] = @ \ {r}]
    /\ UNCHANGED <<placed, parent, pc, subject, plan, inner, innerPlan, born,
                   attempt, transient>>

\* withLockedSet reads its plan with no lock held, then opens the transaction.
Begin(t, s) ==
    /\ pc[t] = "idle"
    /\ s = 0 \/ s \in placed
    /\ subject' = [subject EXCEPT ![t] = s]
    /\ plan' = [plan EXCEPT ![t] = PlanFor(t, s)]
    /\ todo' = [todo EXCEPT ![t] = PlanFor(t, s) \ Reservations]
    /\ pc' = [pc EXCEPT ![t] = "lock"]
    /\ UNCHANGED <<placed, parent, holder, inner, innerPlan, born, attempt, transient>>

\* The rollback: every lock is released and every insert undone.
Released(t) == [r \in Rows |-> IF holder[r] = t THEN NoTx ELSE holder[r]]

Rollback(t) ==
    /\ holder' = Released(t)
    /\ born' = [born EXCEPT ![t] = {}]
    /\ inner' = [inner EXCEPT ![t] = 0]
    /\ innerPlan' = [innerPlan EXCEPT ![t] = {}]
    /\ UNCHANGED <<placed, parent, subject>>

\* The plan of the call, without what its transaction adopted.
CallPlan(t) == plan[t] \ Newborn(t)

\* A fresh transaction of the same call, with the plan P.
Restart(t, P) ==
    /\ Rollback(t)
    /\ plan' = [plan EXCEPT ![t] = P]
    /\ todo' = [todo EXCEPT ![t] = P \ Reservations]
    /\ pc' = [pc EXCEPT ![t] = "lock"]

GiveUp(t) ==
    /\ Rollback(t)
    /\ plan' = [plan EXCEPT ![t] = {}]
    /\ todo' = [todo EXCEPT ![t] = {}]
    /\ pc' = [pc EXCEPT ![t] = "failed"]
    /\ UNCHANGED <<attempt, transient>>

\* LockSetGrew: the next transaction works with the union.  Only a mustCommit
\* call keeps trying for ever.
Grew_KeepPlan(t, again) ==
    \/ /\ t \in MustCommit
       /\ Restart(t, CallPlan(t))
       /\ UNCHANGED <<attempt, transient>>
    \/ /\ t \notin MustCommit \cup Bare /\ attempt[t] < MaxRestarts
       /\ Restart(t, CallPlan(t))
       /\ attempt' = [attempt EXCEPT ![t] = @ + 1]
       /\ UNCHANGED transient
    \/ /\ t \notin MustCommit /\ (t \in Bare \/ attempt[t] >= MaxRestarts)
       /\ GiveUp(t)
Grew(t, again) ==
    \/ /\ t \in MustCommit
       /\ Restart(t, CallPlan(t) \cup again)
       /\ UNCHANGED <<attempt, transient>>
    \/ /\ t \notin MustCommit \cup Bare /\ attempt[t] < MaxRestarts
       /\ Restart(t, CallPlan(t) \cup again)
       /\ attempt' = [attempt EXCEPT ![t] = @ + 1]
       /\ UNCHANGED transient
    \/ /\ t \notin MustCommit /\ (t \in Bare \/ attempt[t] >= MaxRestarts)
       /\ GiveUp(t)

\* Licences and orders are held: plan again under them.
Replan_Skipped(t) ==
    /\ pc[t] = "lock" /\ todo[t] = {}
    /\ pc' = [pc EXCEPT ![t] = "lockRes"]
    /\ todo' = [todo EXCEPT ![t] = plan[t] \cap Reservations]
    /\ UNCHANGED <<placed, parent, holder, subject, plan, inner, innerPlan, born,
                   attempt, transient>>
Replan(t) ==
    /\ pc[t] = "lock" /\ todo[t] = {}
    /\ \/ /\ PlanFor(t, subject[t]) \subseteq plan[t]
          /\ pc' = [pc EXCEPT ![t] = "lockRes"]
          /\ todo' = [todo EXCEPT ![t] = plan[t] \cap Reservations]
          /\ UNCHANGED <<placed, parent, holder, subject, plan, inner, innerPlan,
                         born, attempt, transient>>
       \/ /\ ~ (PlanFor(t, subject[t]) \subseteq plan[t])
          /\ Grew(t, PlanFor(t, subject[t]))

\* The last reservation is held: fn runs with the HeldLocks brand.
Enter(t) ==
    /\ pc[t] = "lockRes" /\ todo[t] = {}
    /\ pc' = [pc EXCEPT ![t] = "run"]
    /\ UNCHANGED <<placed, parent, holder, attempt, transient, work>>

LockTimeout_NoBudget(t) ==
    /\ t \notin MustCommit
    /\ \E r \in Rows : Blocked(t, r)
    /\ Restart(t, CallPlan(t))
    /\ attempt' = [attempt EXCEPT ![t] = @ + 1]
    /\ UNCHANGED transient
\* 55P03 after lock_timeout '5s'; a mustCommit transaction waits for ever.
LockTimeout(t) ==
    /\ t \notin MustCommit
    /\ \E r \in Rows : Blocked(t, r)
    /\ \/ /\ t \notin Bare /\ attempt[t] < MaxRestarts
          /\ Restart(t, CallPlan(t))
          /\ attempt' = [attempt EXCEPT ![t] = @ + 1]
          /\ UNCHANGED transient
       \/ /\ t \in Bare \/ attempt[t] >= MaxRestarts
          /\ GiveUp(t)

\* A set of transactions that all wait for one another.
WaitCycle(S) == S # {} /\ \A t \in S : \E u \in S : WaitsFor(t, u)

\* 40P01: Postgres picks a victim of a cycle.  Its restarts have a budget of their
\* own, the same for a mustCommit call, and use up the other one as well; attempt
\* is compared with MaxRestarts only, and never by a mustCommit call.
DeadlockVictim(t) ==
    /\ \E S \in SUBSET Tx : t \in S /\ WaitCycle(S)
    /\ \/ /\ t \notin Bare /\ transient[t] < MaxRestarts
          /\ Restart(t, CallPlan(t))
          /\ transient' = [transient EXCEPT ![t] = @ + 1]
          /\ attempt' = [attempt EXCEPT ![t] =
                            IF t \in MustCommit \/ @ >= MaxRestarts THEN @ ELSE @ + 1]
       \/ /\ t \in Bare \/ transient[t] >= MaxRestarts
          /\ GiveUp(t)

-----------------------------------------------------------------------------
(* What fn does *)

\* fn inserts a licence or a reservation of an order whose row it holds.  A
\* reservation joins the plan of the running set (adoptCreatedReservation).
Insert_NoLock(t, c, o) ==
    /\ pc[t] = "run"
    /\ o \in placed
    /\ parent[c] = 0 /\ \A u \in Tx : c \notin Newborn(u)
    /\ born' = [born EXCEPT ![t] = @ \cup {<<c, o>>}]
    /\ holder' = [holder EXCEPT ![c] = t]
    /\ UNCHANGED <<placed, parent, pc, subject, inner, innerPlan, todo, attempt,
                   transient, plan>>
Insert(t, c, o) ==
    /\ pc[t] = "run"
    /\ holder[o] = t /\ o \in placed
    /\ parent[c] = 0 /\ \A u \in Tx : c \notin Newborn(u)
    /\ born' = [born EXCEPT ![t] = @ \cup {<<c, o>>}]
    /\ holder' = [holder EXCEPT ![c] = t]
    /\ IF inner[t] = 0
       THEN /\ plan' = [plan EXCEPT ![t] =
                          IF c \in Reservations /\ o \in @ THEN @ \cup {c} ELSE @]
            /\ UNCHANGED innerPlan
       ELSE /\ innerPlan' = [innerPlan EXCEPT ![t] =
                          IF c \in Reservations /\ o \in @ THEN @ \cup {c} ELSE @]
            /\ UNCHANGED plan
    /\ UNCHANGED <<placed, parent, pc, subject, inner, todo, attempt, transient>>

\* A helper asks for the set of order o on this transaction.  A covering set
\* is reused; otherwise its rows are locked here, in class order.
AskForSet(t, o) ==
    /\ InTx
    /\ pc[t] = "run" /\ inner[t] = 0 /\ o \in placed
    /\ ~ LockSetCovers(t, o)
    /\ inner' = [inner EXCEPT ![t] = o]
    /\ innerPlan' = [innerPlan EXCEPT ![t] = PlanFor(t, o)]
    /\ todo' = [todo EXCEPT ![t] = PlanFor(t, o) \ Reservations]
    /\ pc' = [pc EXCEPT ![t] = "lockIn"]
    /\ UNCHANGED <<placed, parent, holder, subject, plan, born, attempt, transient>>

ReplanInTx(t) ==
    /\ pc[t] = "lockIn" /\ todo[t] = {}
    /\ \/ /\ PlanFor(t, inner[t]) \subseteq innerPlan[t]
          /\ pc' = [pc EXCEPT ![t] = "lockInRes"]
          /\ todo' = [todo EXCEPT ![t] = innerPlan[t] \cap Reservations]
          /\ UNCHANGED <<placed, parent, holder, subject, plan, inner, innerPlan,
                         born, attempt, transient>>
       \/ /\ ~ (PlanFor(t, inner[t]) \subseteq innerPlan[t])
          /\ Grew(t, PlanFor(t, inner[t]))

EnterInTx(t) ==
    /\ pc[t] = "lockInRes" /\ todo[t] = {}
    /\ pc' = [pc EXCEPT ![t] = "run"]
    /\ UNCHANGED <<placed, parent, holder, attempt, transient, work>>

\* The inner fn returns; its locks stay until the transaction ends.
ReturnInTx(t) ==
    /\ pc[t] = "run" /\ inner[t] # 0
    /\ inner' = [inner EXCEPT ![t] = 0]
    /\ innerPlan' = [innerPlan EXCEPT ![t] = {}]
    /\ UNCHANGED <<placed, parent, holder, pc, subject, plan, todo, born, attempt,
                   transient>>

\* lockOrderRowsInTx with one order: only its row, with no plan behind it.
AskForOrderRow(t, o) ==
    /\ InTx
    /\ pc[t] = "run" /\ inner[t] = 0 /\ o \in placed
    /\ ~ LockSetCovers(t, o)
    /\ todo' = [todo EXCEPT ![t] = {o}]
    /\ pc' = [pc EXCEPT ![t] = "lockOrder"]
    /\ UNCHANGED <<placed, parent, holder, subject, plan, inner, innerPlan, born,
                   attempt, transient>>

OrderRowHeld(t) ==
    /\ pc[t] = "lockOrder" /\ todo[t] = {}
    /\ pc' = [pc EXCEPT ![t] = "run"]
    /\ UNCHANGED <<placed, parent, holder, attempt, transient, work>>

Commit(t) ==
    /\ pc[t] = "run" /\ inner[t] = 0
    /\ parent' = [c \in Children |->
                    IF \E x \in born[t] : x[1] = c
                    THEN (CHOOSE x \in born[t] : x[1] = c)[2] ELSE parent[c]]
    /\ holder' = Released(t)
    /\ pc' = [pc EXCEPT ![t] = "committed"]
    /\ plan' = [plan EXCEPT ![t] = {}]
    /\ born' = [born EXCEPT ![t] = {}]
    /\ UNCHANGED <<placed, subject, inner, innerPlan, todo, attempt, transient>>

\* The next request served by this connection.
Again(t) ==
    /\ pc[t] \in {"committed", "failed"} /\ t \notin MustCommit
    /\ pc' = [pc EXCEPT ![t] = "idle"]
    /\ attempt' = [attempt EXCEPT ![t] = 0]
    /\ transient' = [transient EXCEPT ![t] = 0]
    /\ UNCHANGED <<placed, parent, holder, work>>

\* Checkout plans no order: the one it inserts is new to everybody.
PlaceOrder(o) ==
    /\ o \notin placed
    /\ placed' = placed \cup {o}
    /\ UNCHANGED <<parent, holder, pc, attempt, transient, work>>

Step(t) ==
    \/ LockRow(t) \/ Replan(t) \/ Enter(t)
    \/ ReplanInTx(t) \/ EnterInTx(t) \/ ReturnInTx(t) \/ OrderRowHeld(t)
    \/ Commit(t) \/ DeadlockVictim(t)

Next ==
    \/ \E t \in Tx :
          \/ Step(t)
          \/ \E s \in Orders \cup {0} : Begin(t, s)
          \/ LockTimeout(t)
          \/ \E c \in Children, o \in Orders : Insert(t, c, o)
          \/ \E o \in Orders : AskForSet(t, o) \/ AskForOrderRow(t, o)
          \/ Again(t)
    \/ \E o \in Orders : PlaceOrder(o)

Spec == Init /\ [][Next]_vars

\* The steps of a transaction other than taking a row lock.
TxStep(t) == Replan(t) \/ Enter(t) \/ ReplanInTx(t) \/ EnterInTx(t) \/ ReturnInTx(t)
             \/ OrderRowHeld(t) \/ Commit(t) \/ DeadlockVictim(t)

-----------------------------------------------------------------------------
TypeOK ==
    /\ placed \subseteq Orders
    /\ parent \in [Children -> Orders \cup {0}]
    /\ holder \in [Rows -> Tx \cup {NoTx}]
    /\ pc \in [Tx -> Phases]
    /\ subject \in [Tx -> Orders \cup {0}]
    /\ plan \in [Tx -> SUBSET Rows]
    /\ inner \in [Tx -> Orders \cup {0}]
    /\ innerPlan \in [Tx -> SUBSET Rows]
    /\ todo \in [Tx -> SUBSET Rows]
    /\ born \in [Tx -> SUBSET (Children \X Orders)]
    /\ attempt \in [Tx -> 0 .. MaxRestarts]
    /\ transient \in [Tx -> 0 .. MaxRestarts]

\* While fn runs for an order - the subject of its withLockedSet or the order a
\* helper asked for - the transaction holds the order row and every licence and
\* reservation of that order that anybody has committed, although the plan was
\* read before any of the locks was held.
HoldsSetOf(t, o) ==
    /\ holder[o] = t
    /\ \A c \in Children : parent[c] = o => holder[c] = t
RunsUnderItsSet ==
    \A t \in Tx : pc[t] = "run" =>
        /\ subject[t] # 0 => HoldsSetOf(t, subject[t])
        /\ inner[t] # 0 => HoldsSetOf(t, inner[t])

\* Nobody reads a stale family: once a set was verified, the licences and
\* reservations of its order cannot change under it, whoever else is running.
SetIsFrozen ==
    \A t \in Tx : pc[t] \in {"lockRes", "run"} /\ subject[t] # 0 =>
          \A c \in Children : parent[c] # subject[t] /\ parent'[c] = subject[t] =>
              \E x \in born[t] : x[1] = c

\* Both of the above, and the types.
SetsHold == [](TypeOK /\ RunsUnderItsSet) /\ [][SetIsFrozen]_vars

\* The waits go up the global row order: a transaction that is waited for while it
\* takes its own set asks for a higher row than the one it is waited for.  So
\* transactions that each take one set never wait in a circle, and a circle that
\* Postgres has to break goes through a helper's further set.
WaitsUpward ==
    \A t, u \in Tx, r, q \in Rows :
        Blocked(t, r) /\ holder[r] = u /\ Blocked(u, q) /\ pc[u] \in {"lock", "lockRes"} => r < q

=============================================================================
