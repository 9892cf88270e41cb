-------------------------- MODULE MCGatewayPayment --------------------------
(***************************************************************************)
(* GatewayPayment for TLC.  A behaviour keeps the kind of instance it      *)
(* starts with.  Attempt ids are interchangeable.                          *)
(***************************************************************************)
EXTENDS GatewayPayment, TLC

VARIABLE kind

\* Two attempts of any method while no process dies.
Calm == INSTANCE GatewayPayment WITH MaxFaults <- 0

\* The same for a reservable order.
Held == INSTANCE GatewayPayment WITH Reservable <- TRUE, MaxFaults <- 0

kindVars == <<kind, order, goods, prepaid, paid, flagged, att, pay, prov, ev, flow, plan,
              hold, expired, faults>>

\* Bound: with crashes, or with a reservation, one Sezzle session is opened
\* besides an NMI sale.
OneSession == \A a, b \in Attempts : att[a].method = "sezzle" /\ att[b].method = "sezzle" => a = b

KindInit ==
  \/ kind = "crashes" /\ Init
  \/ kind = "calm" /\ Calm!Init
  \/ kind = "held" /\ Held!Init

KindNext ==
  /\ UNCHANGED kind
  /\ \/ kind = "crashes" /\ Next /\ OneSession'
     \/ kind = "calm" /\ Calm!Next
     \/ kind = "held" /\ Held!Next /\ OneSession'

KindSpec == KindInit /\ [][KindNext]_kindVars

AttemptSymmetry == Permutations(Attempts)
=============================================================================
