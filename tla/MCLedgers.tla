----------------------------- MODULE MCLedgers -----------------------------
(***************************************************************************)
(* Loyalty points, order edits and the lock sets of order transactions,    *)
(* for TLC: LoyaltyLedger, OrderEdits and LockSets, each on the instances  *)
(* that make its hard cases happen.  A behaviour stays in the scenario it  *)
(* starts in: the variables of LoyaltyLedger are parked elsewhere, those   *)
(* of LockSets and OrderEdits in an initial state.  The operators and the  *)
(* keys of the edits are interchangeable.                                  *)
(***************************************************************************)
EXTENDS LockSets, OrderEdits, TLC

VARIABLES scenario,
    rows, now, order

others == <<rows, now, order>>
allVars == <<scenario, others, vars, editVars>>

\* One order with edits, bonuses, partial refunds and a late earning.
Points == INSTANCE LoyaltyLedger WITH
    Orders <- {"o1"}, Price <- 3, Edits <- {2, 4}, Welcome <- 2, FirstOrder <- 1,
    Adjustments <- {1}, Days <- 3, MaxTime <- 6
\* Two orders spend and earn while points expire.
TwoOrders == INSTANCE LoyaltyLedger WITH
    Orders <- {"o1", "o2"}, Price <- 2, Edits <- {}, Welcome <- 0, FirstOrder <- 0,
    Adjustments <- {1}, Days <- 2, MaxTime <- 6

\* Value of the variables the chosen scenario does not use.
Parked == 0

\* Helpers ask for the set of another order inside a transaction.
Nested == INSTANCE LockSets WITH Bare <- {"t2"}, InTx <- TRUE
\* Three transactions on the set of one order; or two that nest sets.
StaysIn == /\ scenario = "ordered" => placed \subseteq {2}
           /\ scenario = "nested" => pc["t3"] = "idle" /\ placed # {}

\* Two edits, with one retry of a refund or one ordinary refund; the operators
\* take turns once a refund request was lost.
StaysInEdits ==
    /\ returned + Cardinality({k \in Keys : refund[k][1].state # None}) <= 1
    /\ dropped => \E a \in Admins : admin[a].pc = "idle"

AllInit ==
    \/ /\ rows = Parked /\ now = Parked /\ order = Parked
       /\ scenario \in {"ordered", "nested"}
       /\ Init /\ StaysIn /\ EditInit
    \/ /\ rows = Parked /\ now = Parked /\ order = Parked /\ Init /\ placed = {}
       /\ scenario = "edits" /\ EditInit
    \/ /\ Init /\ placed = {} /\ EditInit
       /\ \/ scenario = "points" /\ Points!Init
          \/ scenario = "two orders" /\ TwoOrders!Init

AllNext ==
    \/ /\ UNCHANGED <<scenario, others, editVars>>
       /\ \/ scenario = "ordered" /\ Next
          \/ scenario = "nested" /\ Nested!Next
       /\ StaysIn'
    \/ /\ UNCHANGED <<scenario, others, vars>>
       /\ scenario = "edits" /\ EditNext
       /\ StaysInEdits'
    \/ /\ UNCHANGED <<scenario, vars, editVars>>
       /\ \/ scenario = "points" /\ Points!Next
          \/ scenario = "two orders" /\ TwoOrders!Next

AllSpec == AllInit /\ [][AllNext]_allVars

-----------------------------------------------------------------------------
ASSUME /\ Points!LoyaltyAssumption
       /\ TwoOrders!LoyaltyAssumption /\ EditAssumption
       /\ RowsAssumption /\ TxAssumption /\ Nested!TxAssumption

EditSymmetry == Permutations(Admins) \cup Permutations(Keys)

\* An order gives back at most the points it took and loses at most those it
\* earned, and all of them once it is fully refunded or cancelled; no sequence
\* of spending, reversing and expiring drives a balance negative, and the replay
\* of the history by lots accounts for every point.
PointsBalance ==
    /\ scenario = "points" => Points!TypeOK /\ Points!NotOverReversed /\ Points!AllGivenBack
    /\ scenario = "two orders" => TwoOrders!NeverNegative /\ TwoOrders!LotsMatchBalance
=============================================================================
