---------------------------- MODULE JobScheduler ----------------------------
(***************************************************************************)
(* The job scheduler: admission (jobs/admission.ts), the leader lease      *)
(* (jobs/leader-lock.ts) and the commit fence (db/client.ts).              *)
(*                                                                         *)
(* Every process ticks every job.  A pass waits for a slot of its lane,    *)
(* claims the job's scheduler_lease row, opens store transactions and      *)
(* gives the lease back.  A lease may expire under a running pass, so each *)
(* transaction checks it again, row-locked, right before COMMIT.           *)
(***************************************************************************)
EXTENDS Naturals, Sequences, FiniteSets

CONSTANTS
  Procs,      \* API processes
  Jobs,       \* leader-locked jobs
  Critical,   \* CRITICAL_JOBS: they have a lane of their own
  Slots,      \* JOBS_CONCURRENCY and JOBS_CRITICAL_CONCURRENCY
  MaxTokens,  \* bound: lease acquisitions per job
  MaxFaults   \* bound: process deaths, lost statements, early losses

JobsAssumption == IsFiniteSet(Jobs) /\ Critical \subseteq Jobs
BoundsAssumption ==
  /\ Slots \in Nat \ {0}
  /\ MaxTokens \in Nat
  /\ MaxFaults \in Nat

VARIABLES
  pass,        \* per process and job, how far its pass is
  queue,       \* per process and lane, the passes waiting for a slot
  stopped,     \* per process, stop() was called
  maintenance, \* the maintenance flag file
  lease,       \* per job, its scheduler_lease row
  issued,      \* per job, how many tokens were issued: a token is its number
  token,       \* per process and job, the token of the pass (0: none)
  lost,        \* per process and job, fence.lost
  committed,   \* per job, the token of the latest commit (history)
  faults       \* faults injected so far

vars == <<pass, queue, stopped, maintenance, lease, issued, token, lost,
          committed, faults>>

\* granted: the slot was handed over, the waiter has not run yet.
\* checked: assertLeasesHeld succeeded, its FOR SHARE lock is held until COMMIT.
Stages == {"off", "queued", "granted", "admitted", "leading", "open",
           "checked", "releasing"}
HoldsSlot == {"granted", "admitted", "leading", "open", "checked", "releasing"}

Lanes == {"critical", "general"}
LaneOf(j) == IF j \in Critical THEN "critical" ELSE "general"
Active(p, lane) == {j \in Jobs : LaneOf(j) = lane /\ pass[p][j] \in HoldsSlot}

NoLease == [token |-> 0, expired |-> FALSE]
ShareLocked(j) == \E p \in Procs : pass[p][j] = "checked"

TypeOK ==
  /\ pass \in [Procs -> [Jobs -> Stages]]
  /\ \A p \in Procs, lane \in Lanes :
       queue[p][lane] \in Seq({j \in Jobs : LaneOf(j) = lane})
  /\ queue \in [Procs -> [Lanes -> Seq(Jobs)]]
  /\ stopped \in [Procs -> BOOLEAN]
  /\ maintenance \in BOOLEAN
  /\ lease \in [Jobs -> [token : Nat, expired : BOOLEAN]]
  /\ issued \in [Jobs -> Nat]
  /\ token \in [Procs -> [Jobs -> Nat]]
  /\ lost \in [Procs -> [Jobs -> BOOLEAN]]
  /\ committed \in [Jobs -> Nat]
  /\ faults \in Nat

Init ==
  /\ pass = [p \in Procs |-> [j \in Jobs |-> "off"]]
  /\ queue = [p \in Procs |-> [l \in Lanes |-> <<>>]]
  /\ stopped = [p \in Procs |-> FALSE]
  /\ maintenance = FALSE
  /\ lease = [j \in Jobs |-> NoLease]
  /\ issued = [j \in Jobs |-> 0]
  /\ token = [p \in Procs |-> [j \in Jobs |-> 0]]
  /\ lost = [p \in Procs |-> [j \in Jobs |-> FALSE]]
  /\ committed = [j \in Jobs |-> 0]
  /\ faults = 0

Fault == faults < MaxFaults /\ faults' = faults + 1

Goto(p, j, stage) == pass' = [pass EXCEPT ![p][j] = stage]

-----------------------------------------------------------------------------
(***************************************************************************)
(* Admission.                                                              *)
(***************************************************************************)

Tick_OneQueue(p, j) ==
  /\ ~stopped[p] /\ pass[p][j] = "off" /\ ~maintenance
  /\ IF Cardinality(Active(p, LaneOf(j))) < Slots
       THEN Goto(p, j, "granted") /\ UNCHANGED queue
       ELSE Goto(p, j, "queued") /\ queue' = [queue EXCEPT ![p]["critical"] = Append(@, j)]
  /\ UNCHANGED <<stopped, maintenance, lease, issued, token, lost, committed, faults>>

\* tick: skipped when stopped, when this process still runs the job, and in
\* maintenance; otherwise the pass takes a free slot or queues.
Tick(p, j) ==
  LET lane == LaneOf(j) IN
  /\ ~stopped[p]
  /\ pass[p][j] = "off"
  /\ ~maintenance
  /\ IF Cardinality(Active(p, lane)) < Slots
       THEN Goto(p, j, "granted") /\ UNCHANGED queue
       ELSE /\ Goto(p, j, "queued")
            /\ queue' = [queue EXCEPT ![p][lane] = Append(@, j)]
  /\ UNCHANGED <<stopped, maintenance, lease, issued, token, lost, committed, faults>>

EndPass_NoHandover(p, j) == Goto(p, j, "off") /\ UNCHANGED queue

\* The pass ends: its slot goes to the first waiter of the lane, if any.
EndPass(p, j) ==
  LET waiting == queue[p][LaneOf(j)] IN
  IF waiting = <<>>
    THEN pass' = [pass EXCEPT ![p][j] = "off"] /\ UNCHANGED queue
    ELSE /\ pass' = [pass EXCEPT ![p][j] = "off", ![p][Head(waiting)] = "granted"]
         /\ queue' = [queue EXCEPT ![p][LaneOf(j)] = Tail(@)]

Admit_NoRecheck(p, j) ==
  /\ pass[p][j] = "granted"
  /\ Goto(p, j, "admitted")
  /\ UNCHANGED <<queue, stopped, maintenance, lease, issued, token, lost, committed, faults>>

\* The waiter runs: stop() may have come in between.
Admit(p, j) ==
  /\ pass[p][j] = "granted"
  /\ IF stopped[p] THEN EndPass(p, j)
                   ELSE Goto(p, j, "admitted") /\ UNCHANGED queue
  /\ UNCHANGED <<stopped, maintenance, lease, issued, token, lost, committed, faults>>

\* stop: no new pass, the queued ones are rejected, the running ones go on.
Stop(p) ==
  /\ ~stopped[p]
  /\ stopped' = [stopped EXCEPT ![p] = TRUE]
  /\ pass' = [pass EXCEPT ![p] =
       [j \in Jobs |-> IF @[j] = "queued" THEN "off" ELSE @[j]]]
  /\ queue' = [queue EXCEPT ![p] = [l \in Lanes |-> <<>>]]
  /\ UNCHANGED <<maintenance, lease, issued, token, lost, committed, faults>>

-----------------------------------------------------------------------------
(***************************************************************************)
(* The lease.                                                              *)
(***************************************************************************)

\* The claim waits for a row lock; then it takes a row that is absent or
\* expired, and otherwise the pass is skipped.
Claimable_NoWait(j) == lease[j] = NoLease \/ lease[j].expired
Claimable_AbsentOnly(j) == ~ShareLocked(j) /\ lease[j] = NoLease

\* The row is absent or expired and no transaction holds it.  Every runner uses
\* leases: the refusal while a runner of the old image holds the job's advisory
\* lock is left out.
Claimable(j) ==
  /\ ~ShareLocked(j)
  /\ lease[j] = NoLease \/ lease[j].expired

Take(j) ==
  /\ issued[j] < MaxTokens
  /\ issued' = [issued EXCEPT ![j] = @ + 1]
  /\ lease' = [lease EXCEPT ![j] = [token |-> issued[j] + 1, expired |-> FALSE]]

ClaimLease(p, j) ==
  /\ pass[p][j] = "admitted"
  /\ Claimable(j)
  /\ Take(j)
  /\ token' = [token EXCEPT ![p][j] = issued[j] + 1]
  /\ lost' = [lost EXCEPT ![p][j] = FALSE]
  /\ Goto(p, j, "leading")
  /\ UNCHANGED <<queue, stopped, maintenance, committed, faults>>

SkipTick(p, j) ==
  /\ pass[p][j] = "admitted"
  /\ ~ShareLocked(j)
  /\ \/ lease[j] # NoLease /\ ~lease[j].expired
     \/ issued[j] = MaxTokens   \* bound: no further acquisition
  /\ EndPass(p, j)
  /\ UNCHANGED <<stopped, maintenance, lease, issued, token, lost, committed, faults>>

\* The claim statement fails or times out in the client; the server may have
\* executed it all the same, and then nobody knows the token.
ClaimFails(p, j) ==
  /\ pass[p][j] = "admitted"
  /\ Fault
  /\ \/ UNCHANGED <<lease, issued>>
     \/ Claimable(j) /\ Take(j)
  /\ EndPass(p, j)
  /\ UNCHANGED <<stopped, maintenance, token, lost, committed>>

\* The renewals stop reaching the row in time.
LeaseExpires(j) ==
  /\ lease[j] # NoLease /\ ~lease[j].expired
  /\ lease' = [lease EXCEPT ![j].expired = TRUE]
  /\ UNCHANGED <<pass, queue, stopped, maintenance, issued, token, lost, committed, faults>>

Running == {"leading", "open", "checked"}
HoldsLease(p, j) == lease[j].token = token[p][j] /\ ~lease[j].expired

\* A renewal finds the row gone, expired or taken over (a successful one only
\* keeps the row from expiring).  The UPDATE waits for row locks.
RenewalFindsLoss(p, j) ==
  /\ pass[p][j] \in Running
  /\ ~lost[p][j]
  /\ ~HoldsLease(p, j) /\ ~ShareLocked(j)
  /\ lost' = [lost EXCEPT ![p][j] = TRUE]
  /\ UNCHANGED <<pass, queue, stopped, maintenance, lease, issued, token, committed, faults>>

\* No renewal was answered for a whole term of this process's own clock.
RenewalOverdue(p, j) ==
  /\ pass[p][j] \in Running
  /\ ~lost[p][j]
  /\ Fault
  /\ lost' = [lost EXCEPT ![p][j] = TRUE]
  /\ UNCHANGED <<pass, queue, stopped, maintenance, lease, issued, token, committed>>

-----------------------------------------------------------------------------
(***************************************************************************)
(* Store transactions of the pass.                                         *)
(***************************************************************************)
BeginTransaction(p, j) ==
  /\ pass[p][j] = "leading"
  /\ Goto(p, j, "open")
  /\ UNCHANGED <<queue, stopped, maintenance, lease, issued, token, lost, committed, faults>>

AssertLeasesHeld_FlagOnly(p, j) ==
  /\ pass[p][j] = "open"
  /\ Goto(p, j, IF lost[p][j] THEN "leading" ELSE "checked")
  /\ UNCHANGED <<queue, stopped, maintenance, lease, issued, token, lost, committed, faults>>

\* assertLeasesHeld: the transaction goes on to COMMIT, or is rolled back and
\* the lease is marked lost.  Not modelled: a transaction left running when its
\* pass ended, which a released fence lets commit with a warning (work that
\* escaped detachFromPass is outside every pass).
AssertLeasesHeld(p, j) ==
  /\ pass[p][j] = "open"
  /\ IF ~lost[p][j] /\ HoldsLease(p, j)
       THEN Goto(p, j, "checked") /\ UNCHANGED lost
       ELSE Goto(p, j, "leading") /\ lost' = [lost EXCEPT ![p][j] = TRUE]
  /\ UNCHANGED <<queue, stopped, maintenance, lease, issued, token, committed, faults>>

Commit(p, j) ==
  /\ pass[p][j] = "checked"
  /\ committed' = [committed EXCEPT ![j] = token[p][j]]
  /\ Goto(p, j, "leading")
  /\ UNCHANGED <<queue, stopped, maintenance, lease, issued, token, lost, faults>>

\* fn returned or threw; renewals end and fence.released is set.
FinishPass(p, j) ==
  /\ pass[p][j] = "leading"
  /\ Goto(p, j, "releasing")
  /\ UNCHANGED <<queue, stopped, maintenance, lease, issued, token, lost, committed, faults>>

\* The DELETE removes the row only while it carries this token.
ReleaseLease(p, j) ==
  /\ pass[p][j] = "releasing"
  /\ ~ShareLocked(j)
  /\ lease' = [lease EXCEPT ![j] = IF @.token = token[p][j] THEN NoLease ELSE @]
  /\ token' = [token EXCEPT ![p][j] = 0]
  /\ EndPass(p, j)
  /\ UNCHANGED <<stopped, maintenance, issued, lost, committed, faults>>

ReleaseFails(p, j) ==
  /\ pass[p][j] = "releasing"
  /\ Fault
  /\ token' = [token EXCEPT ![p][j] = 0]
  /\ EndPass(p, j)
  /\ UNCHANGED <<stopped, maintenance, lease, issued, lost, committed>>

\* A process dies, or ends after stop(), and is started again: its
\* transactions roll back and its lease rows stay until they expire.
Restart(p) ==
  /\ Fault
  /\ pass' = [pass EXCEPT ![p] = [j \in Jobs |-> "off"]]
  /\ queue' = [queue EXCEPT ![p] = [l \in Lanes |-> <<>>]]
  /\ token' = [token EXCEPT ![p] = [j \in Jobs |-> 0]]
  /\ stopped' = [stopped EXCEPT ![p] = FALSE]
  /\ UNCHANGED <<maintenance, lease, issued, lost, committed>>

\* The update sequence turns maintenance on and off again.
SetMaintenance ==
  /\ maintenance' = ~maintenance
  /\ UNCHANGED <<pass, queue, stopped, lease, issued, token, lost, committed, faults>>

PassStep(p, j) ==
  \/ Admit(p, j) \/ ClaimLease(p, j) \/ SkipTick(p, j)
  \/ AssertLeasesHeld(p, j) \/ Commit(p, j) \/ FinishPass(p, j) \/ ReleaseLease(p, j)

FaultStep(p, j) ==
  ClaimFails(p, j) \/ ReleaseFails(p, j) \/ RenewalOverdue(p, j)

Next ==
  \/ \E p \in Procs, j \in Jobs :
       \/ Tick(p, j) \/ PassStep(p, j) \/ BeginTransaction(p, j)
       \/ RenewalFindsLoss(p, j) \/ FaultStep(p, j)
  \/ \E p \in Procs : Stop(p) \/ Restart(p)
  \/ \E j \in Jobs : LeaseExpires(j)
  \/ SetMaintenance

Spec == Init /\ [][Next]_vars

\* No process holds the lease of the job.
Orphaned(j) == \A p \in Procs : token[p][j] # lease[j].token

-----------------------------------------------------------------------------
(***************************************************************************)
(* Properties.                                                             *)
(***************************************************************************)

\* A transaction past the fence keeps its lease row until it commits, even if
\* the lease expires in between: the FOR SHARE lock of assertLeasesHeld keeps a
\* competing claim away (db/client.ts).
CheckedKeepsLease ==
  \A p \in Procs, j \in Jobs :
    pass[p][j] = "checked" => lease[j].token = token[p][j]

\* Once a later pass of a job has committed, no earlier pass of it commits any
\* more, in any process, however slow it was (withLeaderLock's fencing).
CommitsInOrder == \A j \in Jobs : committed[j] <= committed'[j]

\* Between its check and its commit a transaction of a job is alone, although the
\* FOR SHARE lock of assertLeasesHeld keeps no other check away.
OneAtTheFence ==
  \A p, q \in Procs, j \in Jobs : pass[p][j] = "checked" /\ pass[q][j] = "checked" => p = q

\* The lease fences a pass: all of the above.
LeasesFence == [](CheckedKeepsLease /\ OneAtTheFence) /\ [][CommitsInOrder]_vars

\* A lane never runs more passes than it has slots, never lets a pass wait while
\* a slot is free, and remembers each waiting pass exactly once (Semaphore).
SlotsUsed ==
  \A p \in Procs, lane \in Lanes :
    LET waiting == queue[p][lane] IN
    /\ Cardinality(Active(p, lane)) <= Slots
    /\ waiting # <<>> => Cardinality(Active(p, lane)) = Slots
    /\ \A i, k \in DOMAIN waiting : waiting[i] = waiting[k] => i = k
    /\ {waiting[i] : i \in DOMAIN waiting} =
         {j \in Jobs : LaneOf(j) = lane /\ pass[p][j] = "queued"}

\* After stop() a process admits nothing: neither a queued pass nor one whose
\* slot was granted just before (AdmissionStoppedError).
Admitted(p) == {j \in Jobs : pass[p][j] \in HoldsSlot \ {"granted"}}
StopIsQuiet ==
  \A p \in Procs : stopped[p] /\ stopped'[p] => Admitted(p)' \subseteq Admitted(p)

\* Admission is orderly: both of the above, and the types of the queues.
AdmissionIsOrderly == [](TypeOK /\ SlotsUsed) /\ [][StopIsQuiet]_vars

\* The scheduler's own words for maintenance: "pause every scheduled pass during
\* an appliance update" (jobs/scheduler.ts).
PausedInMaintenance ==
  maintenance =>
       \A p \in Procs, j \in Jobs : pass'[p][j] = "leading" => pass[p][j] \in Running
=============================================================================
