----------------------------- MODULE StockHook -----------------------------
(***************************************************************************)
(* Catalog publication after a stock or content change (manifest/           *)
(* stock-hook.ts, manifest-pending.ts, catalog.ts; the drain and startup    *)
(* passes of jobs/scheduler.ts; the purge of cache/purge-hook.ts).  Every   *)
(* change triggers a fire-and-forget task in its process: it writes the     *)
(* durable marker, then runs a publication or joins the trailing batch of   *)
(* the running one.  Publications of all processes share one leader lease.  *)
(* A publication is abstracted to the product versions it carries; its      *)
(* files are in CatalogGenerations.                                         *)
(***************************************************************************)
EXTENDS Naturals, FiniteSets

CONSTANTS Procs, Products,
          Kinds,       \* changes made: "stock", "content"
          MaxChanges,  \* commits in a run
          MaxFails,    \* failed publications, purges and marker writes
          MaxCrashes,
          LeaseLoss    \* a paused publisher may lose its lease

Drains == {"drain"}               \* the pass of the scheduler
Runners == Procs \cup Drains
None == "none"

ConstantsAssumption ==
    /\ Procs \cap (Drains \cup {None}) = {} /\ Kinds \subseteq {"stock", "content"}
    /\ MaxChanges \in Nat /\ MaxFails \in Nat /\ MaxCrashes \in Nat /\ LeaseLoss \in BOOLEAN

VARIABLES
    ver,       \* committed version of each product
    html,      \* version of its last content change
    tasks,     \* enqueue() calls: [proc, scope, purge, pc, token, id]
    marker,    \* catalog_manifest_pending.requested_at, 0: no row
    clock,     \* last token given
    trailing,  \* per process: scope and purge of the trailing batch
    run,       \* per runner: its publication
    lease,     \* runner that holds the catalog-manifest lease
    current,   \* generation and versions the pointer names
    edge,      \* version of each page in the edge cache
    up, changes, fails, crashes,
    orphaned,  \* products whose trigger died before it was marked (history)
    unpurged,  \* products a stock publication acknowledged unpurged (history)
    best,      \* newest version the pointer ever named (history)
    overtaken  \* a live publisher lost its lease (history)

vars == <<ver, html, tasks, marker, clock, trailing, run, lease, current, edge, up, changes, fails, crashes, orphaned, unpurged, best, overtaken>>
history == <<orphaned, unpurged, best, overtaken>>

Idle == [pc |-> "idle", scope |-> {}, purge |-> FALSE, token |-> 0, base |-> 0, snap |-> [p \in Products |-> 0]]
NoBatch == [scope |-> {}, purge |-> FALSE]

Init ==
    /\ ver = [p \in Products |-> 0] /\ html = [p \in Products |-> 0]
    /\ tasks = {} /\ marker = 0 /\ clock = 0
    /\ trailing = [q \in Procs |-> NoBatch]
    /\ run = [r \in Runners |-> Idle]
    /\ lease = None
    /\ current = [gen |-> 0, has |-> [p \in Products |-> 0]]
    /\ edge = [p \in Products |-> 0]
    /\ up = [q \in Procs |-> TRUE]
    /\ changes = 0 /\ fails = 0 /\ crashes = 0
    /\ orphaned = {} /\ unpurged = {} /\ best = [p \in Products |-> 0] /\ overtaken = FALSE

-----------------------------------------------------------------------------
(* Triggers *)

\* A transaction commits and calls onStockChanged or onCatalogContentChanged;
\* without an exhaustive list of variants the scope is the whole catalog.
Commit(q, p, k, full) ==
    /\ up[q] /\ changes < MaxChanges
    /\ changes' = changes + 1
    /\ ver' = [ver EXCEPT ![p] = changes + 1]
    /\ html' = IF k = "content" THEN [html EXCEPT ![p] = changes + 1] ELSE html
    /\ tasks' = tasks \cup {[proc |-> q, scope |-> IF full THEN Products ELSE {p},
                             purge |-> k = "content", pc |-> "mark", token |-> 0, id |-> changes + 1]}
    /\ UNCHANGED <<marker, clock, trailing, run, lease, current, edge, up, fails, crashes, history>>

\* markManifestRegenerationPending: only an empty marker proves that this
\* scope is the only one owed.
Mark_KeepsScope(t) ==
    /\ t \in tasks /\ t.pc = "mark"
    /\ clock' = clock + 1 /\ marker' = clock + 1
    /\ tasks' = (tasks \ {t}) \cup {[t EXCEPT !.pc = "join", !.token = clock + 1]}
    /\ UNCHANGED <<ver, html, trailing, run, lease, current, edge, up, changes, fails, crashes, history>>
Mark(t) ==
    /\ t \in tasks /\ t.pc = "mark"
    /\ clock' = clock + 1 /\ marker' = clock + 1
    /\ tasks' = (tasks \ {t}) \cup
         {[t EXCEPT !.pc = "join", !.token = clock + 1,
                    !.scope = IF marker = 0 THEN @ ELSE Products]}
    /\ UNCHANGED <<ver, html, trailing, run, lease, current, edge, up, changes, fails, crashes, history>>

\* What tasks that end before their mark leave unmarked: a trailing batch was
\* marked by each of its triggers before it was enqueued again.
Unmarked(T) == UNION {t.scope : t \in {u \in T : u.pc = "mark" /\ u.id <= MaxChanges}}

\* The marker write fails: logged, the task goes on without a token; or the
\* store cannot be read, and the task ends.
MarkFails(t) ==
    /\ t \in tasks /\ t.pc = "mark" /\ fails < MaxFails
    /\ fails' = fails + 1
    /\ \/ tasks' = (tasks \ {t}) \cup {[t EXCEPT !.pc = "join"]}
       \/ tasks' = tasks \ {t}
    /\ orphaned' = orphaned \cup Unmarked({t})
    /\ UNCHANGED <<ver, html, marker, clock, trailing, run, lease, current, edge, up, changes, crashes>>
    /\ UNCHANGED <<unpurged, best, overtaken>>

Start(r, scope, purge, token) ==
    [run EXCEPT ![r] = [Idle EXCEPT !.pc = "admit", !.scope = scope, !.purge = purge, !.token = token]]

\* enqueue after its marker: join the running publication's trailing batch, or
\* run.
Join_Dropped(t) ==
    /\ t \in tasks /\ t.pc = "join"
    /\ tasks' = tasks \ {t}
    /\ UNCHANGED trailing
    /\ run' = IF run[t.proc].pc = "idle" THEN Start(t.proc, t.scope, t.purge, t.token) ELSE run
    /\ UNCHANGED <<ver, html, marker, clock, lease, current, edge, up, changes, fails, crashes, history>>
Join(t) ==
    /\ t \in tasks /\ t.pc = "join"
    /\ tasks' = tasks \ {t}
    /\ \/ /\ run[t.proc].pc # "idle"
          /\ trailing' = [trailing EXCEPT ![t.proc] =
                            [scope |-> @.scope \cup t.scope, purge |-> @.purge \/ t.purge]]
          /\ UNCHANGED run
       \/ /\ run[t.proc].pc = "idle"
          /\ run' = Start(t.proc, t.scope, t.purge, t.token)
          /\ UNCHANGED trailing
    /\ UNCHANGED <<ver, html, marker, clock, lease, current, edge, up, changes, fails, crashes, history>>

-----------------------------------------------------------------------------
(* Publication *)

GiveBack(r) == IF lease = r THEN None ELSE lease

EndRun_NoNullCheck(r) ==
    /\ run' = [run EXCEPT ![r] = Idle]
    /\ lease' = GiveBack(r)
    /\ IF r \in Procs
       THEN /\ tasks' = tasks \cup {[proc |-> r, scope |-> trailing[r].scope, purge |-> trailing[r].purge,
                                     pc |-> "mark", token |-> 0, id |-> MaxChanges + clock + 1]}
            /\ trailing' = [trailing EXCEPT ![r] = NoBatch]
       ELSE UNCHANGED <<tasks, trailing>>
\* run() ends: its trailing batch, if any, is enqueued again.
EndRun(r) ==
    /\ run' = [run EXCEPT ![r] = Idle]
    /\ lease' = GiveBack(r)
    /\ IF r \in Procs /\ trailing[r].scope # {}
       THEN /\ tasks' = tasks \cup {[proc |-> r, scope |-> trailing[r].scope, purge |-> trailing[r].purge,
                                     pc |-> "mark", token |-> 0, id |-> MaxChanges + clock + 1]}
            /\ trailing' = [trailing EXCEPT ![r] = NoBatch]
       ELSE UNCHANGED <<tasks, trailing>>

Acquire_NoLock(r) ==
    /\ run[r].pc = "admit"
    /\ lease' = r
    /\ run' = [run EXCEPT ![r].pc = "pin"]
    /\ UNCHANGED <<ver, html, tasks, marker, clock, trailing, current, edge, up, changes, fails, crashes, history>>
\* withLeaderLock: another holder means nothing is published and the marker
\* stays.
Acquire(r) ==
    /\ run[r].pc = "admit" /\ lease = None
    /\ lease' = r
    /\ run' = [run EXCEPT ![r].pc = "pin"]
    /\ UNCHANGED <<ver, html, tasks, marker, clock, trailing, current, edge, up, changes, fails, crashes, history>>
LockMissed(r) ==
    /\ run[r].pc = "admit" /\ lease # None
    /\ EndRun(r)
    /\ UNCHANGED <<ver, html, marker, clock, current, edge, up, changes, fails, crashes, history>>

Scoped(r) == run[r].scope # Products

\* A scoped publication pins the generation it will reuse before it opens its
\* transaction.
Pin(r) ==
    /\ run[r].pc = "pin"
    /\ run' = [run EXCEPT ![r].pc = "read", ![r].base = current.gen,
                          ![r].snap = current.has]
    /\ UNCHANGED <<ver, html, tasks, marker, clock, trailing, lease, current, edge, up, changes, fails, crashes, history>>

\* buildEntries: the affected products, or all, from one transaction.
Read(r) ==
    /\ run[r].pc = "read"
    /\ run' = [run EXCEPT ![r].pc = "stage",
                          ![r].snap = [p \in Products |-> IF p \in run[r].scope THEN ver[p] ELSE @[p]]]
    /\ UNCHANGED <<ver, html, tasks, marker, clock, trailing, lease, current, edge, up, changes, fails, crashes, history>>

\* publishGeneration refuses a reuse of anything but the current generation;
\* the stage is discarded for one full rebuild.
StaleReuse(r) ==
    /\ run[r].pc = "stage" /\ Scoped(r) /\ run[r].base # current.gen
    /\ run' = [run EXCEPT ![r].pc = "read", ![r].scope = Products]
    /\ UNCHANGED <<ver, html, tasks, marker, clock, trailing, lease, current, edge, up, changes, fails, crashes, history>>
Stage(r) ==
    /\ run[r].pc = "stage" /\ (Scoped(r) => run[r].base = current.gen)
    /\ run' = [run EXCEPT ![r].pc = "rename"]
    /\ UNCHANGED <<ver, html, tasks, marker, clock, trailing, lease, current, edge, up, changes, fails, crashes, history>>
Rename(r) ==
    /\ run[r].pc = "rename"
    /\ current' = [gen |-> current.gen + 1, has |-> run[r].snap]
    /\ run' = [run EXCEPT ![r].pc = IF run[r].purge THEN "purge" ELSE "clear"]
    /\ lease' = IF run[r].purge THEN lease ELSE GiveBack(r)
    /\ best' = [p \in Products |-> IF run[r].snap[p] > best[p] THEN run[r].snap[p] ELSE best[p]]
    /\ UNCHANGED <<ver, html, tasks, marker, clock, trailing, edge, up, changes, fails, crashes>>
    /\ UNCHANGED <<orphaned, unpurged, overtaken>>

\* The publication throws: the marker is left for the drain pass.
Fails(r) ==
    /\ run[r].pc \in {"pin", "read", "stage", "rename", "purge"} /\ fails < MaxFails
    /\ fails' = fails + 1
    /\ EndRun(r)
    /\ UNCHANGED <<ver, html, marker, clock, current, edge, up, changes, crashes, history>>

\* purgeAfterPublish: the pages of the affected products, or the whole host;
\* the edge refills at once, the worst case.
Purge_BeforePublish(r) ==
    /\ run[r].pc = "purge"
    /\ edge' = [p \in Products |-> IF p \in run[r].scope /\ run[r].base = current.gen THEN current.has[p] ELSE edge[p]]
    /\ run' = [run EXCEPT ![r].pc = "clear"]
    /\ lease' = GiveBack(r)
    /\ UNCHANGED <<ver, html, tasks, marker, clock, trailing, current, up, changes, fails, crashes, history>>
Purge(r) ==
    /\ run[r].pc = "purge"
    /\ edge' = [p \in Products |-> IF p \in run[r].scope THEN current.has[p] ELSE edge[p]]
    /\ run' = [run EXCEPT ![r].pc = "clear"]
    /\ lease' = GiveBack(r)
    /\ UNCHANGED <<ver, html, tasks, marker, clock, trailing, current, up, changes, fails, crashes>>
    /\ unpurged' = unpurged \ run[r].scope
    /\ UNCHANGED <<orphaned, best, overtaken>>

\* clearManifestRegenerationPending, after the lease went back, acknowledges the
\* run's own token only.
Clear_Any(r) ==
    /\ run[r].pc = "clear"
    /\ marker' = 0
    /\ EndRun(r)
    /\ UNCHANGED <<ver, html, clock, current, edge, up, changes, fails, crashes, history>>
Clear(r) ==
    /\ run[r].pc = "clear"
    /\ marker' = IF marker = run[r].token THEN 0 ELSE marker
    /\ EndRun(r)
    /\ UNCHANGED <<ver, html, clock, current, edge, up, changes, fails, crashes>>
    /\ unpurged' = IF marker = run[r].token /\ ~ run[r].purge
                   THEN unpurged \cup {p \in Products : edge[p] < html[p]} ELSE unpurged
    /\ UNCHANGED <<orphaned, best, overtaken>>

\* catalog-manifest-drain: a stale marker is republished in full, and purged.
Drain ==
    /\ run["drain"].pc = "idle" /\ marker # 0 /\ \E q \in Procs : up[q]
    /\ run' = Start("drain", Products, TRUE, marker)
    /\ UNCHANGED <<ver, html, tasks, marker, clock, trailing, lease, current, edge, up, changes, fails, crashes, history>>

-----------------------------------------------------------------------------
(* Faults *)

\* A process dies: tasks, trailing batch and publication are gone; its lease
\* row stays until it expires.  The drain pass runs in one of the processes.
Crash(q) ==
    /\ up[q] /\ crashes < MaxCrashes
    /\ crashes' = crashes + 1
    /\ up' = [up EXCEPT ![q] = FALSE]
    /\ orphaned' = orphaned \cup Unmarked({t \in tasks : t.proc = q})
    /\ tasks' = {t \in tasks : t.proc # q}
    /\ trailing' = [trailing EXCEPT ![q] = NoBatch]
    /\ \E d \in {Idle} \cup {run[j] : j \in {k \in Drains : \E o \in Procs \ {q} : up[o]}} :
          run' = [run EXCEPT ![q] = Idle, !["drain"] = d]
    /\ UNCHANGED <<ver, html, marker, clock, lease, current, edge, changes, fails>>
    /\ UNCHANGED <<unpurged, best, overtaken>>

\* The scheduler of a restarted process publishes once, without a token.
Restart(q) ==
    /\ ~ up[q] /\ run["drain"].pc = "idle"
    /\ up' = [up EXCEPT ![q] = TRUE]
    /\ run' = Start("drain", Products, TRUE, 0)
    /\ UNCHANGED <<ver, html, tasks, marker, clock, trailing, lease, current, edge, changes, fails, crashes, history>>

\* The lease of a dead holder runs out; a paused one loses it too.
LeaseExpires ==
    /\ lease # None
    /\ run[lease].pc = "idle" \/ LeaseLoss
    /\ lease' = None
    /\ UNCHANGED <<ver, html, tasks, marker, clock, trailing, run, current, edge, up, changes, fails, crashes>>
    /\ overtaken' = (overtaken \/ run[lease].pc # "idle")
    /\ UNCHANGED <<orphaned, unpurged, best>>

RunStep(r) == \/ Acquire(r) \/ LockMissed(r) \/ Pin(r) \/ Read(r) \/ StaleReuse(r)
              \/ Stage(r) \/ Rename(r) \/ Purge(r) \/ Clear(r)
Step ==
    \/ \E t \in tasks : Mark(t) \/ Join(t)
    \/ \E r \in Runners : RunStep(r)
    \/ Drain \/ LeaseExpires
Fault ==
    \/ \E t \in tasks : MarkFails(t)
    \/ \E r \in Runners : Fails(r)
    \/ \E q \in Procs : Crash(q) \/ Restart(q)
Next == Step \/ Fault
        \/ \E q \in Procs, p \in Products, k \in Kinds, full \in BOOLEAN : Commit(q, p, k, full)

Spec == Init /\ [][Next]_vars

TaskStep == \E t \in tasks : Mark(t) \/ Join(t)

-----------------------------------------------------------------------------
TypeOK ==
    /\ marker \in 0 .. clock
    /\ lease \in Runners \cup {None}
    /\ \A r \in Runners : /\ run[r].pc \in {"idle", "admit", "pin", "read", "stage", "rename", "purge", "clear"}
                          /\ run[r].scope \subseteq Products /\ run[r].base <= current.gen
    /\ \A t \in tasks : t.proc \in Procs /\ t.pc \in {"mark", "join"} /\ t.scope # {}

Quiet == /\ tasks = {} /\ marker = 0
         /\ \A r \in Runners : run[r].pc = "idle"

\* When nothing is owed, running or queued, the published catalog carries every
\* committed change: a marker is acknowledged only by a publication that
\* covers it, whoever publishes and however the triggers overlap.  Exceptions,
\* as in the code: triggers whose marker was never written, and a live publisher
\* that lost its lease.
NoTriggerLost ==
    Quiet /\ ~ overtaken => \A p \in Products : current.has[p] = ver[p] \/ p \in orphaned

\* Even when publishers lose their leases no marker of a change is acknowledged
\* that was never published: an overtaken publisher may put an older generation
\* in its place, but not make the others forget the change.
EveryChangeWasPublished == Quiet => \A p \in Products : best[p] = ver[p] \/ p \in orphaned

\* When nothing is owed, no page in the edge cache shows content from before a
\* committed content change, though purges fail.  Exceptions: those of
\* NoTriggerLost, and a stock publication, which does not purge, that
\* acknowledged the marker of a content change whose purge was still owed.
EdgeIsPurged ==
    Quiet /\ ~ overtaken => \A p \in Products : edge[p] >= html[p] \/ p \in orphaned \cup unpurged

\* While no live publisher has lost its lease, no publication takes a product
\* back to an earlier version.
CatalogNeverGoesBack ==
    ~ overtaken => \A p \in Products : current'.has[p] >= current.has[p]
=============================================================================
