------------------------ MODULE CatalogGenerations ------------------------
(***************************************************************************)
(* The catalog directory (manifest/publish.ts): publishGeneration checks    *)
(* the pointer and the owner, stages a generation, deletes old ones, syncs, *)
(* and renames the `current` symlink; readers resolve the pointer once per  *)
(* request.  The publishers of one store share a leader lease; publishers   *)
(* of two stores that were given the same directory do not.                 *)
(***************************************************************************)
EXTENDS Naturals, FiniteSets

CONSTANTS Publishers, StoreOf,
          MaxGen,      \* generations staged in a run
          MaxLoss,     \* process and power failures
          MaxReads,    \* requests that read the catalog
          LeaseLoss    \* a paused publisher may lose its lease

None == "none"
Torn == "torn"   \* an owner.json whose contents did not reach the disk

ConstantsAssumption ==
    /\ StoreOf \in [Publishers -> STRING] /\ MaxGen \in Nat /\ MaxLoss \in Nat
    /\ MaxReads \in Nat /\ LeaseLoss \in BOOLEAN
    /\ \A r \in Publishers : StoreOf[r] \notin {None, Torn}

Gens == 1 .. MaxGen

VARIABLES
    dir,      \* each generation: "none", "staging", "complete", "lost"
    madeBy,   \* store in its marker
    aged,     \* generations older than ten minutes
    synced,   \* generations whose files and directories are on disk
    current,  \* generation the pointer names, 0: no pointer
    disk,     \* the pointer on disk
    removed,  \* generations deleted since the root was last synced
    owner,    \* store in owner.json, None: no such file, or Torn
    pubLease,    \* per store: the publisher that holds its lease
    pub,      \* per publisher: pc, prev, reuse, gen
    next,     \* generations staged
    reads,    \* requests and the generation each resolved
    loss,
    leaseLost \* a publisher lost its lease while it ran (history)

catalogVars == <<dir, madeBy, aged, synced, current, disk, removed, owner, pubLease, pub, next,
                 reads, loss, leaseLost>>
fs == <<dir, madeBy, aged, synced, current, disk, removed, owner, next>>

Idle == [pc |-> "idle", prev |-> 0, reuse |-> 0, gen |-> 0]

CatalogInit ==
    /\ dir = [g \in Gens |-> "none"] /\ madeBy = [g \in Gens |-> None]
    /\ aged = {} /\ synced = {} /\ current = 0 /\ disk = 0 /\ removed = {}
    /\ owner = None /\ pubLease = [s \in {StoreOf[r] : r \in Publishers} |-> {}]
    /\ pub = [r \in Publishers |-> Idle]
    /\ next = 0 /\ reads = {} /\ loss = 0 /\ leaseLost = FALSE

PubGoto(r, pc) == pub' = [pub EXCEPT ![r].pc = pc]
End(r) ==
    /\ pub' = [pub EXCEPT ![r] = Idle]
    /\ pubLease' = [pubLease EXCEPT ![StoreOf[r]] = @ \ {r}]

\* The leader lease, and the generation a scoped publication reuses.
Acquire(r) ==
    /\ pub[r].pc = "idle" /\ next < MaxGen
    /\ pubLease[StoreOf[r]] = {}
    /\ pubLease' = [pubLease EXCEPT ![StoreOf[r]] = {r}]
    /\ \E u \in {0, current} : pub' = [pub EXCEPT ![r].pc = "check", ![r].reuse = u]
    /\ UNCHANGED <<fs, reads, loss, leaseLost>>

\* The pointer must be absent or name a generation of this store.
foreign(r) == current # 0 /\ (dir[current] # "complete" \/ madeBy[current] # StoreOf[r])
Check(r) ==
    /\ pub[r].pc = "check"
    /\ \/ foreign(r) /\ End(r)
       \/ /\ ~ foreign(r)
          /\ pub' = [pub EXCEPT ![r].prev = current, ![r].pc = "claim",
                                ![r].reuse = IF @ = current THEN @ ELSE 0]
          /\ UNCHANGED pubLease
    /\ UNCHANGED <<fs, reads, loss, leaseLost>>

\* owner.json is created exclusively; one that cannot be read is refused as that of
\* another store is.
Claim_Overwrite(r) ==
    /\ pub[r].pc = "claim"
    /\ owner' = StoreOf[r] /\ PubGoto(r, "stage") /\ UNCHANGED pubLease
    /\ UNCHANGED <<dir, madeBy, aged, synced, current, disk, removed, next, reads, loss,
                   leaseLost>>
Claim(r) ==
    /\ pub[r].pc = "claim"
    /\ \/ /\ owner \in {None, StoreOf[r]}
          /\ owner' = StoreOf[r] /\ PubGoto(r, "stage") /\ UNCHANGED pubLease
       \/ /\ owner \notin {None, StoreOf[r]}
          /\ UNCHANGED owner /\ End(r)
    /\ UNCHANGED <<dir, madeBy, aged, synced, current, disk, removed, next, reads, loss,
                   leaseLost>>

\* A fresh directory; reused details are hard-linked from the pinned
\* generation, and a missing file discards the stage.
Stage(r) ==
    /\ pub[r].pc = "stage" /\ next < MaxGen
    /\ next' = next + 1
    /\ \/ /\ pub[r].reuse # 0 => dir[pub[r].reuse] = "complete"
          /\ dir' = [dir EXCEPT ![next + 1] = "staging"]
          /\ madeBy' = [madeBy EXCEPT ![next + 1] = StoreOf[r]]
          /\ pub' = [pub EXCEPT ![r].gen = next + 1, ![r].pc = "clean"]
          /\ UNCHANGED pubLease
       \/ /\ pub[r].reuse # 0 /\ dir[pub[r].reuse] # "complete"
          /\ UNCHANGED <<dir, madeBy>> /\ End(r)
    /\ UNCHANGED <<aged, synced, current, disk, removed, owner, reads, loss, leaseLost>>

\* Cleanup before the marker: complete generations of this store over ten
\* minutes old, never the previous one.
old_NotPrevious(r) == {g \in aged : dir[g] = "complete" /\ madeBy[g] = StoreOf[r]}
old(r) == {g \in aged : dir[g] = "complete" /\ madeBy[g] = StoreOf[r] /\ g # pub[r].prev}
Clean(r) ==
    /\ pub[r].pc = "clean"
    /\ dir' = [g \in Gens |-> IF g \in old(r) THEN "none" ELSE dir[g]]
    /\ removed' = removed \cup old(r)
    /\ PubGoto(r, "seal")
    /\ UNCHANGED <<madeBy, aged, synced, current, disk, owner, pubLease, next, reads, loss,
                   leaseLost>>

\* marker.json, then every written file, then the directories.
Seal_NoSync(r) ==
    /\ pub[r].pc = "seal"
    /\ dir' = [dir EXCEPT ![pub[r].gen] = "complete"]
    /\ PubGoto(r, "rename")
    /\ UNCHANGED <<madeBy, aged, synced, current, disk, removed, owner, pubLease, next, reads,
                   loss, leaseLost>>
Seal(r) ==
    /\ pub[r].pc = "seal"
    /\ dir' = [dir EXCEPT ![pub[r].gen] = "complete"]
    /\ PubGoto(r, "sync")
    /\ UNCHANGED <<madeBy, aged, synced, current, disk, removed, owner, pubLease, next, reads,
                   loss, leaseLost>>
Sync(r) ==
    /\ pub[r].pc = "sync"
    /\ synced' = synced \cup {pub[r].gen}
    /\ PubGoto(r, "rename")
    /\ UNCHANGED <<dir, madeBy, aged, current, disk, removed, owner, pubLease, next, reads,
                   loss, leaseLost>>

Rename(r) ==
    /\ pub[r].pc = "rename"
    /\ current' = pub[r].gen
    /\ PubGoto(r, "syncroot")
    /\ UNCHANGED <<dir, madeBy, aged, synced, disk, removed, owner, pubLease, next, reads,
                   loss, leaseLost>>
SyncRoot(r) ==
    /\ pub[r].pc = "syncroot"
    /\ disk' = current /\ removed' = {}
    /\ End(r)
    /\ UNCHANGED <<dir, madeBy, aged, synced, current, owner, next, reads, loss, leaseLost>>

\* Any step before the rename throws: the staged directory is removed.
Throws(r) ==
    /\ pub[r].pc \in {"clean", "seal", "sync", "rename"} /\ loss < MaxLoss
    /\ loss' = loss + 1
    /\ dir' = [dir EXCEPT ![pub[r].gen] = "none"]
    /\ End(r)
    /\ UNCHANGED <<madeBy, aged, synced, current, disk, removed, owner, next, reads, leaseLost>>

-----------------------------------------------------------------------------
(* Faults and time *)

\* The process dies; the stage stays, without or with its marker.
Die(r) ==
    /\ pub[r].pc # "idle" /\ loss < MaxLoss
    /\ loss' = loss + 1
    /\ End(r)
    /\ UNCHANGED <<fs, reads, leaseLost>>

\* Power loss: publishers die and unsynced files may be empty, owner.json (which
\* nobody syncs) among them.  Metadata is journalled in order: either all of it
\* survives, or the pointer falls back to the last synced one together with the
\* deletions made since, and to before owner.json when the root was never synced.
PowerLoss ==
    /\ loss < MaxLoss
    /\ loss' = loss + 1
    /\ \E back \in BOOLEAN, L \in SUBSET (Gens \ synced) :
          /\ current' = IF back THEN disk ELSE current
          /\ dir' = [g \in Gens |-> IF back /\ g \in removed THEN "complete"
                                   ELSE IF g \in L /\ dir[g] # "none" THEN "lost" ELSE dir[g]]
          /\ owner' \in IF owner = None THEN {None}
                        ELSE {owner, Torn} \cup (IF back /\ disk = 0 THEN {None} ELSE {})
    /\ disk' = current' /\ removed' = {}
    /\ pub' = [r \in Publishers |-> Idle]
    /\ pubLease' = [s \in DOMAIN pubLease |-> {}]
    /\ reads' = {}
    /\ UNCHANGED <<madeBy, aged, synced, next, leaseLost>>

LoseLease(r) ==
    /\ LeaseLoss /\ r \in pubLease[StoreOf[r]]
    /\ pubLease' = [pubLease EXCEPT ![StoreOf[r]] = {}] /\ leaseLost' = TRUE
    /\ UNCHANGED <<fs, pub, reads, loss>>

\* Ten minutes pass: every generation is old.
TenMinutes ==
    /\ aged' = aged \cup {g \in Gens : dir[g] = "complete"}
    /\ UNCHANGED <<dir, madeBy, synced, current, disk, removed, owner, pubLease, pub, next,
                   reads, loss, leaseLost>>

\* pinCatalogGeneration: a request resolves the pointer and reads from there.
Pin(c) ==
    /\ current # 0 /\ \A q \in reads : q.id # c
    /\ reads' = reads \cup {[id |-> c, gen |-> current]}
    /\ UNCHANGED <<fs, pubLease, pub, loss, leaseLost>>
Answered(q) ==
    /\ q \in reads
    /\ reads' = reads \ {q}
    /\ UNCHANGED <<fs, pubLease, pub, loss, leaseLost>>

CatalogNext ==
    \/ \E r \in Publishers :
          \/ Acquire(r) \/ Check(r) \/ Claim(r) \/ Stage(r) \/ Clean(r) \/ Seal(r) \/ Sync(r)
          \/ Rename(r) \/ SyncRoot(r) \/ Throws(r) \/ Die(r) \/ LoseLease(r)
    \/ PowerLoss \/ TenMinutes
    \/ \E c \in 1 .. MaxReads : Pin(c)
    \/ \E q \in reads : Answered(q)

CatalogSpec == CatalogInit /\ [][CatalogNext]_catalogVars

-----------------------------------------------------------------------------
\* The pointer names a complete generation, also after process death and power
\* loss at any step (publishGeneration refuses to publish over one that does not).
PointerComplete == current # 0 => dir[current] = "complete"

\* A request that resolved a generation less than ten minutes old finds its files,
\* however many publications replace the pointer meanwhile (pinCatalogGeneration).
ReadersFindTheirFiles == \A q \in reads : q.gen \notin aged => dir[q.gen] = "complete"

\* A directory given to two stores by mistake serves the one that claimed it, also
\* when a power loss takes the claim: a claim that is gone took the pointer with it,
\* and behind one that cannot be read nobody publishes.
OneStorePerDirectory == current # 0 => owner = Torn \/ madeBy[current] = owner

\* What publishGeneration promises of the directory: a pointer and readers that
\* find complete generations while every publisher keeps its lease, and, leases or
\* not, one store.
CurrentIsComplete ==
    /\ ~ leaseLost => PointerComplete /\ ReadersFindTheirFiles
    /\ OneStorePerDirectory
=============================================================================
