--------------------------- MODULE MCBackground ----------------------------
(***************************************************************************)
(* What runs behind the requests, for TLC: JobScheduler, StockHook (when   *)
(* to publish the catalog), CatalogGenerations (how a generation is        *)
(* published) and AccountCredit (the credit account that orders, refunds   *)
(* and edits post to), each on the instances that make its hard cases      *)
(* happen.  A behaviour stays in the scenario it starts in: the variables  *)
(* of StockHook are parked elsewhere, those of the other modules in their  *)
(* initial states.                                                         *)
(***************************************************************************)
EXTENDS JobScheduler, CatalogGenerations, AccountCredit

VARIABLES scenario,
    ver, html, tasks, marker, clock, trailing, run, hookLease, published, edge, up, changes,
    fails, crashes, orphaned, unpurged, best, overtaken

others == <<ver, html, tasks, marker, clock, trailing, run, hookLease, published, edge, up,
            changes, fails, crashes, orphaned, unpurged, best, overtaken>>
allVars == <<scenario, others, vars, catalogVars, creditVars>>

\* Two content changes of two products by two processes.
Overlap == INSTANCE StockHook WITH
    Procs <- {"q1", "q2"}, Products <- {"p1", "p2"}, Kinds <- {"content"}, MaxChanges <- 2,
    MaxFails <- 0, MaxCrashes <- 0, LeaseLoss <- FALSE, lease <- hookLease, current <- published
\* Two stock changes and a process that dies.
Crashes == INSTANCE StockHook WITH
    Procs <- {"q1", "q2"}, Products <- {"p1"}, Kinds <- {"stock"}, MaxChanges <- 2,
    MaxFails <- 0, MaxCrashes <- 1, LeaseLoss <- FALSE, lease <- hookLease, current <- published
\* A stock and a content change of one product, and one failure.
Mixed == INSTANCE StockHook WITH
    Procs <- {"q1", "q2"}, Products <- {"p1"}, Kinds <- {"stock", "content"}, MaxChanges <- 2,
    MaxFails <- 1, MaxCrashes <- 0, LeaseLoss <- FALSE, lease <- hookLease, current <- published
\* A publisher paused past its lease.
Paused == INSTANCE StockHook WITH
    Procs <- {"q1", "q2"}, Products <- {"p1"}, Kinds <- {"stock"}, MaxChanges <- 2,
    MaxFails <- 0, MaxCrashes <- 0, LeaseLoss <- TRUE, lease <- hookLease, current <- published

\* Value of the variables the chosen scenario does not use.
Parked == 0

\* The scheduler of a single process without faults.
Quiet == INSTANCE JobScheduler WITH MaxTokens <- 1, MaxFaults <- 0
\* Two processes contend for one job while processes die and leases expire; or
\* one process runs three jobs in two lanes of one slot.
StaysIn == /\ scenario = "leases" => \A p \in Procs : {j \in Jobs : pass[p][j] # "off"} \subseteq Critical
           /\ scenario = "lanes" => \A j \in Jobs : pass["p2"][j] = "off" /\ ~stopped["p2"]

\* p and q publish store a, x publishes store b into the same directory.
MCStoreOf == [r \in Publishers |-> IF r = "x" THEN "b" ELSE "a"]
\* Two publishers of one store keep their leases while processes die and power is
\* lost; or publishers of two stores share a directory, and either leases are lost
\* or power is.
StaysInStore == /\ scenario = "power" => pub["x"] = Idle /\ ~leaseLost
                /\ scenario = "stores" => next <= 2 /\ reads = {} /\ loss <= (IF leaseLost THEN 0 ELSE 1)

\* Two orders hold credit of one account while an operator adjusts or disables it;
\* or refunds, a manual return and edits give the fully credited units of one
\* order back.
StaysInCredit ==
    /\ scenario = "holds" =>
          /\ \A r \in Refunds : refund[r].state = "none"
          /\ \A o \in Orders : edit[o].phase = "none" /\ rows[o] = {}
    /\ scenario = "units" =>
          /\ state["o2"] = "AddingItems" /\ alloc["o1"] \in {NoAlloc, [u \in Units |-> Price]}
          /\ used # {} => disabled \/ \E row \in rows["o1"] : row.key[1] = "manual"

AllInit ==
    \/ /\ ver = Parked /\ html = Parked /\ tasks = Parked /\ marker = Parked /\ clock = Parked
       /\ trailing = Parked /\ run = Parked /\ hookLease = Parked /\ published = Parked
       /\ edge = Parked /\ up = Parked /\ changes = Parked /\ fails = Parked /\ crashes = Parked
       /\ orphaned = Parked /\ unpurged = Parked /\ best = Parked /\ overtaken = Parked
       /\ scenario \in {"leases", "lanes"}
       /\ Init /\ StaysIn /\ CatalogInit /\ CreditInit
    \/ /\ ver = Parked /\ html = Parked /\ tasks = Parked /\ marker = Parked /\ clock = Parked
       /\ trailing = Parked /\ run = Parked /\ hookLease = Parked /\ published = Parked
       /\ edge = Parked /\ up = Parked /\ changes = Parked /\ fails = Parked /\ crashes = Parked
       /\ orphaned = Parked /\ unpurged = Parked /\ best = Parked /\ overtaken = Parked /\ Init
       /\ CreditInit
       /\ scenario \in {"power", "stores"} /\ CatalogInit
    \/ /\ ver = Parked /\ html = Parked /\ tasks = Parked /\ marker = Parked /\ clock = Parked
       /\ trailing = Parked /\ run = Parked /\ hookLease = Parked /\ published = Parked
       /\ edge = Parked /\ up = Parked /\ changes = Parked /\ fails = Parked /\ crashes = Parked
       /\ orphaned = Parked /\ unpurged = Parked /\ best = Parked /\ overtaken = Parked /\ Init
       /\ CatalogInit
       /\ scenario \in {"holds", "units"} /\ CreditInit
    \/ /\ Init /\ CatalogInit /\ CreditInit
       /\ \/ scenario = "overlap" /\ Overlap!Init
          \/ scenario = "crashes" /\ Crashes!Init
          \/ scenario = "mixed" /\ Mixed!Init
          \/ scenario = "paused" /\ Paused!Init

AllNext ==
    \/ /\ UNCHANGED <<scenario, others, catalogVars, creditVars>>
       /\ \/ scenario = "leases" /\ Next
          \/ scenario = "lanes" /\ Quiet!Next
       /\ StaysIn'
    \/ /\ UNCHANGED <<scenario, others, vars, creditVars>>
       /\ scenario \in {"power", "stores"} /\ CatalogNext
       /\ StaysInStore'
    \/ /\ UNCHANGED <<scenario, others, vars, catalogVars>>
       /\ scenario \in {"holds", "units"} /\ CreditNext
       /\ StaysInCredit'
    \/ /\ UNCHANGED <<scenario, vars, catalogVars, creditVars>>
       /\ \/ scenario = "overlap" /\ Overlap!Next
          \/ scenario = "crashes" /\ Crashes!Next
          \/ scenario = "mixed" /\ Mixed!Next
          \/ scenario = "paused" /\ Paused!Next

AllSpec == AllInit /\ [][AllNext]_allVars

-----------------------------------------------------------------------------
ASSUME /\ JobsAssumption /\ BoundsAssumption /\ Quiet!BoundsAssumption
       /\ Overlap!ConstantsAssumption /\ Crashes!ConstantsAssumption
       /\ Mixed!ConstantsAssumption /\ Paused!ConstantsAssumption /\ ConstantsAssumption /\ CreditAssumption

\* No committed change is forgotten.  When nothing is owed, running or queued,
\* every change whose marker was written has been published, even if publishers
\* lost their leases; while no live publisher lost its lease, the catalog carries
\* it, no publication takes a product back to an earlier version, and no page in
\* the edge cache predates a content change, unless a stock publication, which
\* does not purge, acknowledged its marker while the purge was owed.
ChangesAreKept ==
    /\ [](/\ scenario = "overlap" => /\ Overlap!TypeOK /\ Overlap!NoTriggerLost
                                     /\ Overlap!EdgeIsPurged
          /\ scenario = "mixed" => Mixed!NoTriggerLost /\ Mixed!EdgeIsPurged
          /\ scenario = "crashes" => Crashes!NoTriggerLost
          /\ scenario = "paused" => /\ Paused!TypeOK /\ Paused!NoTriggerLost
                                    /\ Paused!EveryChangeWasPublished)
    /\ [][/\ scenario = "overlap" => Overlap!CatalogNeverGoesBack
          /\ scenario = "crashes" => Crashes!CatalogNeverGoesBack
          /\ scenario = "paused" => Paused!CatalogNeverGoesBack]_allVars
=============================================================================
