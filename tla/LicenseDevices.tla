--------------------------- MODULE LicenseDevices ---------------------------
(***************************************************************************)
(* The device seats of one licence (packages/api/src/licensing).  Three     *)
(* paths admit a device: the flat-seat activation (activations.ts), the     *)
(* account-linked lease (device-leases.ts) and the StoreKit link            *)
(* (storekit-license.ts); each locks the licence row, so each is one step.  *)
(* A tombstoned row keeps its device hash, its lease id and its generation. *)
(* Revocation comes from the operator, a full refund, the owner, or Apple.  *)
(***************************************************************************)
EXTENDS Naturals, FiniteSets

CONSTANTS Devices,
          Paths,       \* admission paths in use: "activate", "lease", "storekit"
          Seats,       \* license.seats, 0: no flat cap
          Policy,      \* a device policy is registered for the app
          Marked,      \* metadata.device_policy carries its marker
          Cap,         \* poolCap of either pool
          PrePool,     \* devices activated before the pool column existed
          Notices,     \* App Store notifications about the purchase
          MaxLease,    \* lease ids handed out
          MaxLeft      \* how often a device loses its seat in a run

ConstantsAssumption ==
    /\ Paths \subseteq {"activate", "lease", "storekit"}
    /\ Seats \in Nat /\ Cap \in Nat /\ MaxLease \in Nat
    /\ Policy \in BOOLEAN /\ Marked \in BOOLEAN
    /\ PrePool \subseteq Devices

Pools == {"computer", "mobile"}
Kinds == {"revoke", "restore", "renew", "expire"}

VARIABLES
    lic,        \* license.status
    lapsed,     \* expires_at has passed
    row,        \* license_activation of each device, state "none": no row
    leases,     \* lease ids handed out so far
    leaseDev,   \* device and admission each lease id was issued for
    admission,  \* how often each device lost its seat
    kind,       \* what each notification says
    claimed,    \* notifications already applied (processed_event)
    refresh,    \* device whose refresh read an active licence, not yet signed
    tokens      \* entitlement tokens signed: device and its admission then

vars == <<lic, lapsed, row, leases, leaseDev, admission, kind, claimed, refresh, tokens>>

NoRow == [state |-> "none", pool |-> "none", class |-> "none", gen |-> 0, lease |-> 0]

Init ==
    /\ lic = "active" /\ lapsed = FALSE
    /\ row = [d \in Devices |-> IF d \in PrePool
                THEN [NoRow EXCEPT !.state = "active", !.class = "computer"] ELSE NoRow]
    /\ leases = 0
    /\ leaseDev = [l \in 1 .. MaxLease |-> <<>>]
    /\ admission = [d \in Devices |-> 0]
    /\ kind \in [Notices -> Kinds]
    /\ claimed = {}
    /\ refresh = [d \in Devices |-> FALSE]
    /\ tokens = {}

-----------------------------------------------------------------------------
Live == {d \in Devices : row[d].state = "active"}

\* storedPool: pre-pool rows only have a legacy device class.
storedPool(r) == IF r.pool # "none" THEN r.pool ELSE r.class

usesBoundedDevicePools == Policy /\ (Seats > 0 \/ Marked)

\* Flat cap of the activation and StoreKit paths: only a live row of the same
\* device already holds a seat.
flatFull_CountsTombstone(d) ==
    Seats > 0 /\ row[d].state = "none" /\ Cardinality(Live) >= Seats
flatFull(d) == Seats > 0 /\ d \notin Live /\ Cardinality(Live) >= Seats

poolFull_MoveIsFree(d, p) ==
    /\ usesBoundedDevicePools /\ d \notin Live
    /\ Cardinality({e \in Live \ {d} : storedPool(row[e]) = p}) >= Cap
poolFull(d, p) ==
    /\ usesBoundedDevicePools
    /\ d \notin Live \/ storedPool(row[d]) # p
    /\ Cardinality({e \in Live \ {d} : storedPool(row[e]) = p}) >= Cap

lifecycle == <<lic, lapsed, kind, claimed, refresh, tokens>>

\* activateLicenseOnDevice: a fresh token, any tombstone cleared; the lease
\* columns and the generation are left alone.  Without a policy the row stays
\* unclassified.
activateLicenseOnDevice(d, p) ==
    /\ "activate" \in Paths
    /\ lic = "active" /\ ~ lapsed
    /\ ~ flatFull(d) /\ (Policy => ~ poolFull(d, p))
    /\ row' = [row EXCEPT ![d].state = "active",
                          ![d].pool = IF Policy THEN p ELSE @]
    /\ UNCHANGED <<leases, leaseDev, admission, lifecycle>>

\* issueStoreKitActivation: like it, without pools.
issueStoreKitActivation(d) ==
    /\ "storekit" \in Paths
    /\ lic = "active" /\ ~ lapsed /\ ~ flatFull(d)
    /\ row' = [row EXCEPT ![d].state = "active"]
    /\ UNCHANGED <<leases, leaseDev, admission, lifecycle>>

\* The cap check of a lease counts the rows stored in the pool.
leaseFull(d, p) ==
    /\ d \notin Live \/ (Policy /\ row[d].pool # p)
    /\ Seats > 0 \/ usesBoundedDevicePools
    /\ IF Policy THEN Cardinality({e \in Live : row[e].pool = p}) >= Cap
                 ELSE Cardinality(Live) >= Seats

NewLease_NoCount(d) ==
    /\ leases < MaxLease
    /\ UNCHANGED leases
    /\ leaseDev' = [leaseDev EXCEPT ![leases + 1] = <<d, admission[d]>>]
\* A fresh lease id for device d.
NewLease(d) ==
    /\ leases < MaxLease
    /\ leases' = leases + 1
    /\ leaseDev' = [leaseDev EXCEPT ![leases + 1] = <<d, admission[d]>>]

\* issueDeviceLease: a tombstoned row is reused with its generation.
issueDeviceLease_KeepsLeaseId(d, p) ==
    /\ "lease" \in Paths
    /\ lic = "active" /\ ~ lapsed /\ ~ leaseFull(d, p)
    /\ IF row[d].lease = 0 THEN NewLease(d) ELSE UNCHANGED <<leases, leaseDev>>
    /\ row' = [row EXCEPT ![d].state = "active", ![d].pool = p,
                          ![d].lease = IF @ = 0 THEN leases + 1 ELSE @]
    /\ UNCHANGED <<admission, lifecycle>>
issueDeviceLease_NewGeneration(d, p) ==
    /\ "lease" \in Paths
    /\ lic = "active" /\ ~ lapsed /\ ~ leaseFull(d, p)
    /\ NewLease(d)
    /\ row' = [row EXCEPT ![d].state = "active", ![d].pool = p, ![d].lease = leases + 1,
                          ![d].gen = IF d \in Live THEN @ ELSE 0]
    /\ UNCHANGED <<admission, lifecycle>>
issueDeviceLease(d, p) ==
    /\ "lease" \in Paths
    /\ lic = "active" /\ ~ lapsed /\ ~ leaseFull(d, p)
    /\ NewLease(d)
    /\ row' = [row EXCEPT ![d].state = "active", ![d].pool = p, ![d].lease = leases + 1]
    /\ UNCHANGED <<admission, lifecycle>>

\* renewDeviceLease: the row that carries exactly this lease id, locked; the id
\* rotates, so a second renewal with it finds nothing.
renewDeviceLease(l) ==
    /\ l \in 1 .. leases
    /\ LET d == leaseDev[l][1] IN
          /\ row[d].lease = l /\ row[d].state = "active"
          /\ lic = "active" /\ ~ lapsed
          /\ NewLease(d)
          /\ row' = [row EXCEPT ![d].lease = leases + 1]
    /\ UNCHANGED <<admission, lifecycle>>

-----------------------------------------------------------------------------
(* Losing the seat *)

Tombstoned(D, st) ==
    [d \in Devices |-> IF d \in D THEN [row[d] EXCEPT !.state = st, !.gen = @ + 1]
                                  ELSE row[d]]
Left(D) == [d \in Devices |-> IF d \in D THEN admission[d] + 1 ELSE admission[d]]

\* revokeDeviceRemote, by the owner or by account erasure.
revokeDeviceRemote(d) ==
    /\ row[d].state # "none"
    /\ row' = Tombstoned({d}, "revoked")
    /\ admission' = Left({d} \cap Live)
    /\ UNCHANGED <<leases, leaseDev, lifecycle>>

\* removeDeviceOffline: the device gives up its seat; the request may arrive
\* late or twice, and names the lease it was made under.
removeDeviceOffline(l) ==
    /\ l \in 1 .. leases
    /\ LET d == leaseDev[l][1] IN
          /\ row[d].lease = l /\ row[d].state = "active"
          /\ row' = Tombstoned({d}, "removed")
          /\ admission' = Left({d})
    /\ UNCHANGED <<leases, leaseDev, lifecycle>>

\* deactivateDevice deletes the row of the presented token, tombstone or not and
\* whichever path issued the token.
deactivateDevice(d) ==
    /\ row[d].state # "none"
    /\ row' = [row EXCEPT ![d] = NoRow]
    /\ admission' = Left({d} \cap Live)
    /\ UNCHANGED <<leases, leaseDev, lifecycle>>

\* revokeLicenseInTx, revokeRefundLicenses and the Apple revocation: the
\* licence and all its live seats in one transaction.
Revoke_NoCascade ==
    /\ lic' = "revoked"
    /\ UNCHANGED <<row, admission>>
Revoke ==
    /\ lic' = "revoked"
    /\ row' = Tombstoned(Live, "revoked")
    /\ admission' = Left(Live)

revokeLicense ==
    /\ lic # "revoked"
    /\ Revoke
    /\ UNCHANGED <<lapsed, leases, leaseDev, kind, claimed, refresh, tokens>>

\* restoreLicenseInTx never resurrects past the hard expiry and leaves the
\* tombstones.
restoreLicense ==
    /\ lic # "active" /\ ~ lapsed
    /\ lic' = "active"
    /\ UNCHANGED <<lapsed, row, leases, leaseDev, admission, kind, claimed, refresh, tokens>>

\* applyStoreKitNotification under the claim of its notificationUUID: each
\* notification once, in whatever order Apple's retries deliver them.  A
\* restore or renewal also clears every 'revoked' tombstone, unless the app's
\* policy keeps them.
Untombstoned == [d \in Devices |-> IF row[d].state = "revoked"
                                   THEN [row[d] EXCEPT !.state = "active"] ELSE row[d]]
applyStoreKitNotification(n) ==
    /\ n \notin claimed
    /\ claimed' = claimed \cup {n}
    /\ \/ kind[n] = "revoke" /\ Revoke /\ UNCHANGED lapsed
       \/ /\ kind[n] \in {"restore", "renew"}
          /\ lic' = "active"
          /\ lapsed' \in {FALSE, lapsed}
          /\ row' \in {Untombstoned, row}
          /\ UNCHANGED admission
       \/ /\ kind[n] = "expire"
          /\ lic' = "expired"
          /\ UNCHANGED <<lapsed, row, admission>>
    /\ UNCHANGED <<leases, leaseDev, kind, refresh, tokens>>

-----------------------------------------------------------------------------
(* Refresh: findActivationByToken reads without locks; the provider signs a  *)
(* token and recordCanonicalEntitlementIssuance locks both rows and checks   *)
(* again before the answer leaves.                                           *)
Entitled(d) == row[d].state = "active" /\ lic = "active" /\ ~ lapsed

findActivationByToken(d) ==
    /\ ~ refresh[d] /\ Entitled(d)
    /\ refresh' = [refresh EXCEPT ![d] = TRUE]
    /\ UNCHANGED <<lic, lapsed, row, leases, leaseDev, admission, kind, claimed, tokens>>

Sign(d) == tokens' = tokens \cup {<<d, admission[d]>>}
recordCanonicalEntitlementIssuance_NoRecheck(d) ==
    /\ refresh[d]
    /\ refresh' = [refresh EXCEPT ![d] = FALSE]
    /\ Sign(d)
    /\ UNCHANGED <<lic, lapsed, row, leases, leaseDev, admission, kind, claimed>>
recordCanonicalEntitlementIssuance(d) ==
    /\ refresh[d]
    /\ refresh' = [refresh EXCEPT ![d] = FALSE]
    /\ IF Entitled(d) THEN Sign(d) ELSE UNCHANGED tokens
    /\ UNCHANGED <<lic, lapsed, row, leases, leaseDev, admission, kind, claimed>>

\* Time passes the hard expiry; a subscription payment extends it.
Expire == /\ ~ lapsed /\ lapsed' = TRUE
          /\ UNCHANGED <<lic, row, leases, leaseDev, admission, kind, claimed, refresh, tokens>>
Extend == /\ lapsed /\ lapsed' = FALSE
          /\ UNCHANGED <<lic, row, leases, leaseDev, admission, kind, claimed, refresh, tokens>>

Next ==
    \/ \E d \in Devices :
          \/ \E p \in Pools : activateLicenseOnDevice(d, p) \/ issueDeviceLease(d, p)
          \/ issueStoreKitActivation(d)
          \/ revokeDeviceRemote(d) \/ deactivateDevice(d)
          \/ findActivationByToken(d) \/ recordCanonicalEntitlementIssuance(d)
    \/ \E l \in 1 .. MaxLease : renewDeviceLease(l) \/ removeDeviceOffline(l)
    \/ revokeLicense \/ restoreLicense
    \/ \E n \in Notices : applyStoreKitNotification(n)
    \/ Expire \/ Extend

Spec == Init /\ [][Next]_vars

Bounded == \A d \in Devices : row[d].gen <= MaxLeft /\ admission[d] <= MaxLeft

-----------------------------------------------------------------------------
TypeOK ==
    /\ lic \in {"active", "revoked", "expired"} /\ lapsed \in BOOLEAN
    /\ \A d \in Devices :
          /\ row[d].state \in {"none", "active", "removed", "revoked"}
          /\ row[d].pool \in Pools \cup {"none"} /\ row[d].lease \in 0 .. leases
    /\ leases \in 0 .. MaxLease /\ claimed \subseteq Notices

\* However many devices activate, lease, link, move between pools, leave and
\* come back, the live seats stay within the flat count or the pool caps.  Two
\* exceptions, as in the code: a restore or renewal notification revives
\* revoked devices without counting, and the cap check of a lease does not see
\* a device activated before the pool column existed.
Revived == \E n \in claimed : kind[n] \in {"restore", "renew"}
SeatsWithinCap ==
    ~ Revived =>
    /\ Seats > 0 /\ ~ Policy => Cardinality(Live) <= Seats
    /\ usesBoundedDevicePools =>
          \A p \in Pools : Cardinality({d \in Live \ PrePool : storedPool(row[d]) = p}) <= Cap

\* Where leases are the only admission, the lease id on a live seat was issued in
\* the present admission of the device: a lease or a queued removal from before
\* the device lost its seat cannot touch the seat it got later.  (Activation and
\* a restore notification leave the lease columns of the row as they were.)
LeaseOfThisAdmission ==
    \A d \in Live : row[d].lease # 0 => leaseDev[row[d].lease] = <<d, admission[d]>>

\* While a licence is revoked no seat of it is live, in whatever order the
\* operator, refunds, Apple and the devices acted.
RevokedHasNoSeats == lic = "revoked" => Live = {}

\* No entitlement token leaves for a device whose seat or licence ended between
\* the unlocked read of the refresh and the signature.
TokensFollowSeats ==
    \A k \in tokens' \ tokens : k[1] \in Live /\ lic = "active"

\* As long as the row of a device exists its generation never goes back, so an
\* old envelope can be told from the present one; only the deactivation by the
\* device's own token, which deletes the row, starts it again.
GenerationNeverReset ==
    \A d \in Devices : row'[d].gen >= row[d].gen \/ row'[d] = NoRow
=============================================================================
