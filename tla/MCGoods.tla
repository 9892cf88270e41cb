------------------------------ MODULE MCGoods ------------------------------
(***************************************************************************)
(* What is sold, for TLC: StockLedger, CartCheckout, LicenseDevices (seats *)
(* and leases of one licence) and LicenseIssuance (keys of one order       *)
(* line), each on the instances that make its hard cases happen.  A        *)
(* behaviour stays in the scenario it starts in: the variables of the      *)
(* other modules are parked, those of CartCheckout in its initial state.   *)
(* Carts, orders, browser tabs and keys are interchangeable.               *)
(***************************************************************************)
EXTENDS CartCheckout, TLC

VARIABLES scenario,
    stock, preOrder, sold, moved, shelf, transfer, stranded, lowered, writes, lic, lapsed, row,
    leases, leaseDev, admission, kind, claimed, refresh, tokens, state, qty, paid, live, dead,
    eff, actor, tries, lock, seen, edits, revokes, peak, restored

others == <<stock, preOrder, sold, moved, shelf, transfer, stranded, lowered, writes, lic,
            lapsed, row, leases, leaseDev, admission, kind, claimed, refresh, tokens, state,
            qty, paid, live, dead, eff, actor, tries, lock, seen, edits, revokes, peak, restored>>
allVars == <<scenario, others, vars>>

\* Two orders share one unit: edits, shipments, refunds, cancellations.
Shipped == INSTANCE StockLedger WITH
    Variants <- {"v1"}, PreOrders <- {}, Orders <- Orders, Initial <- 1, MaxQty <- 2,
    Shelves <- {}, MaxWrites <- 0, Locations <- {}, Launches <- FALSE, Credited <- {},
    order <- sold
\* A variant whose pre-order phase ends.
PreOrder == INSTANCE StockLedger WITH
    Variants <- {"v1"}, PreOrders <- {"v1"}, Orders <- Orders, Initial <- 1, MaxQty <- 1,
    Shelves <- {}, MaxWrites <- 0, Locations <- {}, Launches <- TRUE, Credited <- {},
    order <- sold
\* One order paid with account credit, whose edits are staged.
OnCredit == INSTANCE StockLedger WITH
    Variants <- {"v1"}, PreOrders <- {}, Orders <- {"o1"}, Initial <- 2, MaxQty <- 2,
    Shelves <- {}, MaxWrites <- 0, Locations <- {}, Launches <- FALSE, Credited <- {"o1"},
    order <- sold
\* A staged edit and another order compete for the last unit.
LastUnit == INSTANCE StockLedger WITH
    Variants <- {"v1"}, PreOrders <- {}, Orders <- {"o1", "o2"}, Initial <- 1, MaxQty <- 1,
    Shelves <- {}, MaxWrites <- 0, Locations <- {}, Launches <- FALSE, Credited <- {"o1"},
    order <- sold
\* An operator counts and moves stock between two locations.
Shelves == INSTANCE StockLedger WITH
    Variants <- {"v1"}, PreOrders <- {}, Orders <- {"o1"}, Initial <- 1, MaxQty <- 1,
    Shelves <- {0, 2}, MaxWrites <- 3, Locations <- {"l1", "l2"}, Launches <- FALSE,
    Credited <- {}, order <- sold

\* Two devices on one seat.
Flat == INSTANCE LicenseDevices WITH
    Devices <- {"d1", "d2"}, Paths <- {"activate", "lease"}, Seats <- 1, Policy <- FALSE,
    Marked <- FALSE, Cap <- 0, PrePool <- {}, Notices <- {}, MaxLease <- 2, MaxLeft <- 1
\* A device policy with two pools of one seat.
Pools == INSTANCE LicenseDevices WITH
    Devices <- {"d1", "d2"}, Paths <- {"activate", "lease"}, Seats <- 0, Policy <- TRUE,
    Marked <- TRUE, Cap <- 1, PrePool <- {}, Notices <- {}, MaxLease <- 1, MaxLeft <- 1
\* Leases on one seat, renewed, queued for removal and remotely removed.
Leases == INSTANCE LicenseDevices WITH
    Devices <- {"d1", "d2"}, Paths <- {"lease"}, Seats <- 1, Policy <- FALSE, Marked <- FALSE,
    Cap <- 0, PrePool <- {}, Notices <- {}, MaxLease <- 3, MaxLeft <- 1
\* Two App Store notifications in either order beside activation and linking.
Apple == INSTANCE LicenseDevices WITH
    Devices <- {"d1", "d2"}, Paths <- {"activate", "storekit"}, Seats <- 1, Policy <- FALSE,
    Marked <- FALSE, Cap <- 0, PrePool <- {}, Notices <- {"n1", "n2"}, MaxLease <- 0,
    MaxLeft <- 1

\* Issuance left to the worker; keys are revoked and restored by hand.
Worker == INSTANCE LicenseIssuance WITH
    MaxQty <- 3, MaxEdits <- 2, MaxRevokes <- 1, Retries <- 2, Deferred <- TRUE
\* Issuance with the settlement, and a series of edits.
Inline == INSTANCE LicenseIssuance WITH
    MaxQty <- 2, MaxEdits <- 3, MaxRevokes <- 0, Retries <- 2, Deferred <- FALSE

\* Value of the variables the chosen scenario does not use.
Parked == 0

\* Carts of two revisions.
Brief == INSTANCE CartCheckout WITH MaxRev <- 2
\* Two tabs edit, check out, lose answers, retry and reopen one cart; or a guest
\* cart is merged into the cart of the account while one order is placed.
StaysIn == /\ scenario = "tabs" => \E x \in Carts : cart[x] = NoCart
           /\ scenario = "merge" => \E k \in Keys : /\ \A c \in Clients : client[c].key # k
                                                    /\ \E o \in Orders : order[o] = NoOrder

AllInit ==
    \/ /\ stock = Parked /\ preOrder = Parked /\ sold = Parked /\ moved = Parked
       /\ shelf = Parked /\ transfer = Parked /\ stranded = Parked /\ lowered = Parked
       /\ writes = Parked /\ lic = Parked /\ lapsed = Parked /\ row = Parked /\ leases = Parked
       /\ leaseDev = Parked /\ admission = Parked /\ kind = Parked /\ claimed = Parked
       /\ refresh = Parked /\ tokens = Parked /\ state = Parked /\ qty = Parked /\ paid = Parked
       /\ live = Parked /\ dead = Parked /\ eff = Parked /\ actor = Parked /\ tries = Parked
       /\ lock = Parked /\ seen = Parked /\ edits = Parked /\ revokes = Parked /\ peak = Parked
       /\ restored = Parked
       /\ scenario \in {"tabs", "merge"}
       /\ Init /\ StaysIn
    \/ /\ lic = Parked /\ lapsed = Parked /\ row = Parked /\ leases = Parked
       /\ leaseDev = Parked /\ admission = Parked /\ kind = Parked /\ claimed = Parked
       /\ refresh = Parked /\ tokens = Parked /\ state = Parked /\ qty = Parked /\ paid = Parked
       /\ live = Parked /\ dead = Parked /\ eff = Parked /\ actor = Parked /\ tries = Parked
       /\ lock = Parked /\ seen = Parked /\ edits = Parked /\ revokes = Parked /\ peak = Parked
       /\ restored = Parked /\ Init
       /\ \/ scenario = "shipped" /\ Shipped!Init
          \/ scenario = "pre-order" /\ PreOrder!Init
          \/ scenario = "staged" /\ OnCredit!Init
          \/ scenario = "contested" /\ LastUnit!Init
          \/ scenario = "shelves" /\ Shelves!Init
    \/ /\ stock = Parked /\ preOrder = Parked /\ sold = Parked /\ moved = Parked
       /\ shelf = Parked /\ transfer = Parked /\ stranded = Parked /\ lowered = Parked
       /\ writes = Parked /\ state = Parked /\ qty = Parked /\ paid = Parked /\ live = Parked
       /\ dead = Parked /\ eff = Parked /\ actor = Parked /\ tries = Parked /\ lock = Parked
       /\ seen = Parked /\ edits = Parked /\ revokes = Parked /\ peak = Parked
       /\ restored = Parked /\ Init
       /\ \/ scenario = "flat" /\ Flat!Init
          \/ scenario = "pools" /\ Pools!Init
          \/ scenario = "leases" /\ Leases!Init
          \/ scenario = "apple" /\ Apple!Init
    \/ /\ stock = Parked /\ preOrder = Parked /\ sold = Parked /\ moved = Parked
       /\ shelf = Parked /\ transfer = Parked /\ stranded = Parked /\ lowered = Parked
       /\ writes = Parked /\ lic = Parked /\ lapsed = Parked /\ row = Parked /\ leases = Parked
       /\ leaseDev = Parked /\ admission = Parked /\ kind = Parked /\ claimed = Parked
       /\ refresh = Parked /\ tokens = Parked /\ Init
       /\ \/ scenario = "worker" /\ Worker!Init
          \/ scenario = "inline" /\ Inline!Init

AllNext ==
    \/ /\ UNCHANGED <<scenario, others>>
       /\ \/ scenario = "tabs" /\ Next
          \/ scenario = "merge" /\ Brief!Next
       /\ StaysIn'
    \/ /\ UNCHANGED <<scenario,
           vars, lic, lapsed, row, leases, leaseDev, admission, kind, claimed, refresh, tokens,
           state, qty, paid, live, dead, eff, actor, tries, lock, seen, edits, revokes, peak,
           restored>>
       /\ \/ scenario = "shipped" /\ Shipped!Next
          \/ scenario = "pre-order" /\ PreOrder!Next
          \/ scenario = "staged" /\ OnCredit!Next
          \/ scenario = "contested" /\ LastUnit!Next
          \/ scenario = "shelves" /\ Shelves!Next
    \/ /\ UNCHANGED <<scenario,
           vars, stock, preOrder, sold, moved, shelf, transfer, stranded, lowered, writes,
           state, qty, paid, live, dead, eff, actor, tries, lock, seen, edits, revokes, peak,
           restored>>
       /\ \/ scenario = "flat" /\ Flat!Next
          \/ scenario = "pools" /\ Pools!Next
          \/ scenario = "leases" /\ Leases!Next
          \/ scenario = "apple" /\ Apple!Next
    \/ /\ UNCHANGED <<scenario,
           vars, stock, preOrder, sold, moved, shelf, transfer, stranded, lowered, writes, lic,
           lapsed, row, leases, leaseDev, admission, kind, claimed, refresh, tokens>>
       /\ \/ scenario = "worker" /\ Worker!Next
          \/ scenario = "inline" /\ Inline!Next

AllSpec == AllInit /\ [][AllNext]_allVars

-----------------------------------------------------------------------------
ASSUME /\ Shipped!StockAssumption /\ PreOrder!StockAssumption /\ Shelves!StockAssumption
       /\ OnCredit!StockAssumption /\ LastUnit!StockAssumption
       /\ CartAssumption /\ Brief!CartAssumption /\ Flat!ConstantsAssumption
       /\ Pools!ConstantsAssumption /\ Leases!ConstantsAssumption /\ Apple!ConstantsAssumption
       /\ Worker!ConstantsAssumption /\ Inline!ConstantsAssumption

RowSymmetry == Permutations(Carts) \cup Permutations(Orders) \cup Permutations(Clients)
               \cup Permutations(Keys)

\* The allocated units are those the open orders still wait for and those staged
\* edits reserved (or left behind when their order was purged), the counters of a
\* line never exceed the units it is for, and what orders hold is on the shelf
\* unless an operator lowered the count.  A variant that was on pre-order is
\* excepted: its releases subtract units that were never allocated, so the
\* allocation is only bounded by what the orders hold, and its counts stay natural.
UnitsAddUp ==
    /\ scenario = "shipped" => Shipped!AllocationMatchesOrders /\ Shipped!LinesConsistent
    /\ scenario = "shelves" => Shelves!NoOversell /\ Shelves!AllocationMatchesOrders
    /\ scenario = "staged" => OnCredit!AllocationMatchesOrders /\ OnCredit!LinesConsistent
    /\ scenario = "contested" => LastUnit!AllocationMatchesOrders /\ LastUnit!NoOversell
    /\ scenario = "pre-order" => /\ PreOrder!AllocationNeverStuck /\ PreOrder!LinesConsistent
                                 /\ PreOrder!TypeOK
    /\ TypeOK

\* Bound: how often a device loses its seat.
Bounded == /\ scenario = "flat" => Flat!Bounded
           /\ scenario = "pools" => Pools!Bounded
           /\ scenario = "leases" => Leases!Bounded
           /\ scenario = "apple" => Apple!Bounded

\* Devices activate, lease, link and leave: the live seats stay within the flat
\* count or the pool caps until a restore or renewal notification revives revoked
\* devices, not counting devices older than the pools; where only leases admit,
\* the lease on a live seat belongs to the present admission of the device; the
\* generation of a row never goes back before the row is deleted; a revoked
\* licence has no live seat; no entitlement token leaves for a seat or licence
\* that ended before it was signed.
SeatsFollowAdmissions ==
    /\ [](scenario = "flat" => Flat!TypeOK /\ Flat!SeatsWithinCap)
    /\ [](scenario = "pools" => Pools!SeatsWithinCap)
    /\ [](scenario = "leases" => Leases!LeaseOfThisAdmission)
    /\ [](scenario = "apple" => Apple!SeatsWithinCap /\ Apple!RevokedHasNoSeats)
    /\ [][/\ scenario = "flat" => Flat!TokensFollowSeats
          /\ scenario = "leases" => Leases!GenerationNeverReset
          /\ scenario = "apple" => Apple!GenerationNeverReset /\ Apple!TokensFollowSeats
         ]_allVars

\* A line never has more keys than it ever had units, nor more live keys than it
\* is billed for unless an operator restored one; a fully refunded order has no
\* live key; neither the Paid transition nor a reconcile issues a key while the
\* order has a balance due (license_issue run later by the worker checks no
\* balance and is excepted); and once the order is settled and every effect ran
\* to done, every billed unit has a live key unless keys of the line are revoked.
KeysFollowMoney ==
    /\ [](scenario = "worker" => /\ Worker!KeysWithinBilled /\ Worker!RefundedHasNoKeys
                                 /\ Worker!AddedUnitsAreLicensed)
    /\ [](scenario = "inline" => /\ Inline!KeysWithinBilled /\ Inline!RefundedHasNoKeys
                                 /\ Inline!AddedUnitsAreLicensed)
    /\ [][/\ scenario = "worker" => Worker!EntitlementsFollowMoney
          /\ scenario = "inline" => Inline!EntitlementsFollowMoney]_allVars
=============================================================================
