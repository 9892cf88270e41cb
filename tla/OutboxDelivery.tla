--------------------------- MODULE OutboxDelivery ---------------------------
(***************************************************************************)
(* The email, webhook and push outboxes (email/outbox.ts, email/wake.ts,   *)
(* webhooks/emit.ts with jobs/webhook-reaper.ts, push/outbox.ts).          *)
(*                                                                         *)
(* A message is enqueued in the transaction of the fact it is about.  A    *)
(* delivery pass claims due rows, hands each to its provider outside any   *)
(* transaction, and records the outcome.  The claim is fenced by the       *)
(* attempt number.  Scheduled passes hold the lease of their channel, and  *)
(* lose their commits with it; the post-commit email wake drains without   *)
(* one, so two passes can work on the same outbox.                         *)
(***************************************************************************)
EXTENDS Naturals, FiniteSets, FiniteSetsExt

CONSTANTS
  Emails, Webhooks, Pushes, \* messages, by channel
  Scheduled,                \* passes the scheduler runs under a lease
  Wakers,                   \* drains of the email waker: no lease
  BatchLimit,               \* LIMIT of the email and push claims
  MaxAttempts,              \* MAX_ATTEMPTS
  MaxCrashes,               \* bound: deaths, lost leases, lost answers
  MaxSlow                   \* bound: claims that age under a live pass

None == "none"
ChannelsDisjoint ==
  /\ Emails \cap Webhooks = {} /\ Emails \cap Pushes = {} /\ Webhooks \cap Pushes = {}
  /\ Scheduled \cap Wakers = {} /\ None \notin Scheduled
BoundsAssumption ==
  /\ BatchLimit \in Nat \ {0} /\ MaxAttempts \in Nat \ {0}
  /\ MaxCrashes \in Nat /\ MaxSlow \in Nat

Messages == Emails \cup Webhooks \cup Pushes
Passes == Scheduled \cup Wakers
Channels == {"email", "webhook", "push"}
Of(ch) == CASE ch = "email" -> Emails [] ch = "webhook" -> Webhooks [] ch = "push" -> Pushes

VARIABLES
  row,        \* the outbox rows
  leader,     \* per channel, the pass that holds its lease
  pass,       \* per pass: its channel, where it is, and the message it is at
  batch,      \* per pass and message, the attempt number it claimed (0: none)
  registered, \* pushes whose device registration and session are live
  accepted,   \* per message, the claims whose hand-over the provider accepted
  carriers,   \* per message, the passes that handed it over (history)
  announced,  \* per message, delivery_dead audit rows and email.dead events
  crashes, slow

vars == <<row, leader, pass, batch, registered, accepted, carriers, announced,
          crashes, slow>>

\* due: next_attempt_at has come; aged: claimed longer ago than the grace period.
Row == [status : {"none", "pending", "processing", "sent", "dead", "deleted"},
        attempts : Nat, due : BOOLEAN, aged : BOOLEAN]
NoRow == [status |-> "none", attempts |-> 0, due |-> FALSE, aged |-> FALSE]

IdlePass == [chan |-> None, pc |-> "idle", msg |-> None, out |-> None]
Outcomes == {"ok", "failed", "unregistered", "cancelled"}

TypeOK ==
  /\ row \in [Messages -> Row]
  /\ leader \in [Channels -> Scheduled \cup {None}]
  /\ pass \in [Passes -> [chan : Channels \cup {None},
                          pc : {"idle", "claim", "ready", "check", "send", "finalize"},
                          msg : Messages \cup {None}, out : Outcomes \cup {None}]]
  /\ batch \in [Passes -> [Messages -> Nat]]
  /\ \A p \in Passes : \A m \in Messages :
       batch[p][m] > 0 => m \in Of(pass[p].chan) /\ batch[p][m] <= row[m].attempts
  /\ registered \subseteq Pushes
  /\ accepted \in [Messages -> SUBSET Nat]
  /\ \A m \in Messages : accepted[m] \subseteq 1..row[m].attempts
  /\ carriers \in [Messages -> SUBSET Passes]
  /\ announced \in [Messages -> Nat]
  /\ crashes \in Nat /\ slow \in Nat

Init ==
  /\ row = [m \in Messages |-> NoRow]
  /\ leader = [ch \in Channels |-> None]
  /\ pass = [p \in Passes |-> IdlePass]
  /\ batch = [p \in Passes |-> [m \in Messages |-> 0]]
  /\ registered = Pushes
  /\ accepted = [m \in Messages |-> {}]
  /\ carriers = [m \in Messages |-> {}]
  /\ announced = [m \in Messages |-> 0]
  /\ crashes = 0 /\ slow = 0

Crashes == crashes < MaxCrashes /\ crashes' = crashes + 1

-----------------------------------------------------------------------------
(***************************************************************************)
(* Enqueueing, with the fact; a second enqueue under the same dedupe key   *)
(* inserts nothing.                                                        *)
(***************************************************************************)
Enqueue(m) ==
  /\ row[m].status = "none"
  /\ row' = [row EXCEPT ![m].status = "pending", ![m].due = TRUE]
  /\ UNCHANGED <<leader, pass, batch, registered, accepted, carriers, announced, crashes, slow>>

\* A scheduled pass starts only as the leader of its channel.
StartPass(p, ch) ==
  /\ pass[p].pc = "idle"
  /\ \/ p \in Scheduled /\ leader[ch] = None /\ leader' = [leader EXCEPT ![ch] = p]
     \/ p \in Wakers /\ ch = "email" /\ UNCHANGED leader
  /\ pass' = [pass EXCEPT ![p] = [IdlePass EXCEPT !.chan = ch, !.pc = "claim"]]
  /\ UNCHANGED <<row, batch, registered, accepted, carriers, announced, crashes, slow>>

\* The commit fence of db/client.ts: a transaction of a scheduled pass commits
\* only while the pass holds its lease.
MayCommit(p) == p \in Wakers \/ leader[pass[p].chan] = p

EndPass(p) ==
  /\ pass' = [pass EXCEPT ![p] = IdlePass]
  /\ batch' = [batch EXCEPT ![p] = [m \in Messages |-> 0]]
  /\ leader' = [ch \in Channels |-> IF leader[ch] = p THEN None ELSE leader[ch]]

Refused(p) == ~MayCommit(p) /\ EndPass(p)

(***************************************************************************)
(* Claims.  A row is due, or its claim is older than ten minutes (email    *)
(* and push; a webhook's is left to the reaper).                           *)
(***************************************************************************)
Claimable_AnyProcessing(m) ==
  \/ row[m].status = "pending" /\ row[m].due
  \/ row[m].status = "processing" /\ m \notin Webhooks

Claimable_NoReclaim(m) == row[m].status = "pending" /\ row[m].due
Claimable_AnyDue(m) == row[m].due

Claimable(m) ==
  \/ row[m].status = "pending" /\ row[m].due
  \/ row[m].status = "processing" /\ row[m].aged /\ m \notin Webhooks

ClaimLimit(ch) == IF ch = "webhook" THEN 1 ELSE BatchLimit

ClaimDue(p) ==
  LET ch == pass[p].chan
      due == {m \in Of(ch) : Claimable(m)}
  IN
  /\ pass[p].pc = "claim"
  /\ MayCommit(p)
  /\ due # {}
  /\ \E s \in kSubset(Min({ClaimLimit(ch), Cardinality(due)}), due) :
       /\ row' = [m \in Messages |->
            IF m \in s THEN [row[m] EXCEPT !.status = "processing", !.attempts = @ + 1,
                                           !.aged = FALSE]
                       ELSE row[m]]
       /\ batch' = [batch EXCEPT ![p] =
            [m \in Messages |-> IF m \in s THEN row[m].attempts + 1 ELSE 0]]
  /\ pass' = [pass EXCEPT ![p].pc = "ready"]
  /\ UNCHANGED <<leader, registered, accepted, carriers, announced, crashes, slow>>

NothingDue(p) ==
  /\ pass[p].pc = "claim"
  /\ \/ Refused(p)
     \/ (\A m \in Of(pass[p].chan) : ~Claimable(m)) /\ MayCommit(p) /\ EndPass(p)
  /\ UNCHANGED <<row, registered, accepted, carriers, announced, crashes, slow>>

Left(p) == {m \in Messages : batch[p][m] > 0}

\* The next row of the batch.  After the last one a webhook pass claims again;
\* an email or push pass is over for this store.
Proceed(p) ==
  /\ pass[p].pc = "ready"
  /\ \/ \E m \in Left(p) :
          /\ pass' = [pass EXCEPT ![p].msg = m,
                                  ![p].pc = IF m \in Pushes THEN "check" ELSE "send"]
          /\ UNCHANGED <<batch, leader>>
     \/ /\ Left(p) = {}
        /\ pass[p].chan = "webhook"
        /\ pass' = [pass EXCEPT ![p].pc = "claim"]
        /\ UNCHANGED <<batch, leader>>
     \/ Left(p) = {} /\ pass[p].chan # "webhook" /\ EndPass(p)
  /\ UNCHANGED <<row, registered, accepted, carriers, announced, crashes, slow>>

\* registrationStillLive, a transaction of its own.
CheckRegistration(p) ==
  /\ pass[p].pc = "check"
  /\ \/ Refused(p)
     \/ /\ MayCommit(p)
        /\ pass' = [pass EXCEPT ![p] =
             IF pass[p].msg \in registered
               THEN [@ EXCEPT !.pc = "send"]
               ELSE [@ EXCEPT !.pc = "finalize", !.out = "cancelled"]]
        /\ UNCHANGED <<leader, batch>>
  /\ UNCHANGED <<row, registered, accepted, carriers, announced, crashes, slow>>

\* The provider accepts, refuses, says the device is gone, or accepts and the
\* answer is lost.
Send(p) ==
  LET m == pass[p].msg IN
  /\ pass[p].pc = "send"
  /\ \E out \in {"ok", "failed"} \cup (IF m \in Pushes THEN {"unregistered"} ELSE {}) :
     \E taken \in BOOLEAN :
       /\ out = "ok" => taken
       /\ out = "unregistered" => ~taken
       /\ IF out = "failed" /\ taken THEN Crashes ELSE UNCHANGED crashes
       /\ pass' = [pass EXCEPT ![p].pc = "finalize", ![p].out = out]
       /\ accepted' = [accepted EXCEPT ![m] = IF taken THEN @ \cup {batch[p][m]} ELSE @]
       /\ carriers' = [carriers EXCEPT ![m] = IF taken THEN @ \cup {p} ELSE @]
  /\ UNCHANGED <<row, leader, batch, registered, announced, slow>>

(***************************************************************************)
(* Finalizing.                                                             *)
(***************************************************************************)
HoldsClaim_StatusOnly(p, m) == row[m].status = "processing"
HoldsClaim_AttemptsOnly(p, m) == row[m].attempts = batch[p][m]
HoldsClaim(p, m) == row[m].status = "processing" /\ row[m].attempts = batch[p][m]

Backoff_ResetsAttempts(r) == [r EXCEPT !.status = "pending", !.due = FALSE, !.attempts = 0]
Backoff(r) == [r EXCEPT !.status = "pending", !.due = FALSE, !.aged = FALSE]
GivesUp(p, m) == batch[p][m] >= MaxAttempts

Finalized(p, m, out) ==
  CASE out = "ok" -> [row[m] EXCEPT !.status = "sent", !.aged = FALSE]
    [] out = "failed" /\ ~GivesUp(p, m) -> Backoff(row[m])
    [] OTHER -> [row[m] EXCEPT !.status = "dead", !.aged = FALSE]

\* An exhausted email is announced in the same transaction, if the row was its.
Announcements_EvenIfStale(p, m, out) ==
  IF m \in Emails /\ out = "failed" /\ GivesUp(p, m) THEN 1 ELSE 0
Announcements(p, m, out) ==
  IF m \in Emails /\ out = "failed" /\ GivesUp(p, m) /\ HoldsClaim(p, m) THEN 1 ELSE 0

Finalize(p) ==
  LET m == pass[p].msg
      out == pass[p].out
  IN
  /\ pass[p].pc = "finalize"
  /\ \/ Refused(p) /\ UNCHANGED <<row, registered, announced>>
     \/ /\ MayCommit(p)
        /\ row' = IF HoldsClaim(p, m) THEN [row EXCEPT ![m] = Finalized(p, m, out)] ELSE row
        /\ registered' = IF out = "unregistered" /\ HoldsClaim(p, m)
                           THEN registered \ {m} ELSE registered
        /\ announced' = [announced EXCEPT ![m] = @ + Announcements(p, m, out)]
        /\ batch' = [batch EXCEPT ![p][m] = 0]
        /\ pass' = [pass EXCEPT ![p].pc = "ready", ![p].msg = None, ![p].out = None]
        /\ UNCHANGED leader
  /\ UNCHANGED <<accepted, carriers, crashes, slow>>

-----------------------------------------------------------------------------
(***************************************************************************)
(* The reaper, the clock, and faults.                                      *)
(***************************************************************************)
ReapStuckWebhooks(m) ==
  /\ m \in Webhooks
  /\ row[m].status = "processing" /\ row[m].aged
  /\ row' = [row EXCEPT ![m].status = "pending", ![m].aged = FALSE]
  /\ UNCHANGED <<leader, pass, batch, registered, accepted, carriers, announced, crashes, slow>>

BackoffElapses(m) ==
  /\ row[m].status = "pending" /\ ~row[m].due
  /\ row' = [row EXCEPT ![m].due = TRUE]
  /\ UNCHANGED <<leader, pass, batch, registered, accepted, carriers, announced, crashes, slow>>

HasLiveOwner(m) == \E p \in Passes : batch[p][m] > 0 /\ batch[p][m] = row[m].attempts

ClaimAges(m) ==
  /\ row[m].status = "processing" /\ ~row[m].aged
  /\ IF HasLiveOwner(m) THEN slow < MaxSlow /\ slow' = slow + 1 ELSE UNCHANGED slow
  /\ row' = [row EXCEPT ![m].aged = TRUE]
  /\ UNCHANGED <<leader, pass, batch, registered, accepted, carriers, announced, crashes>>

\* A process dies, or a transaction of the pass throws.
Crash(p) ==
  /\ pass[p].pc # "idle"
  /\ Crashes
  /\ EndPass(p)
  /\ UNCHANGED <<row, registered, accepted, carriers, announced, slow>>

LoseLease(ch) ==
  /\ leader[ch] # None
  /\ Crashes
  /\ leader' = [leader EXCEPT ![ch] = None]
  /\ UNCHANGED <<row, pass, batch, registered, accepted, carriers, announced, slow>>

\* The admin signs out, or is removed: queued pushes lose their registration.
EndRegistration(m) ==
  /\ m \in registered
  /\ registered' = registered \ {m}
  /\ UNCHANGED <<row, leader, pass, batch, accepted, carriers, announced, crashes, slow>>

\* Deleting a webhook endpoint deletes its deliveries.
DeleteEndpoint(m) ==
  /\ m \in Webhooks
  /\ row[m].status \notin {"none", "deleted"}
  /\ row' = [row EXCEPT ![m].status = "deleted", ![m].aged = FALSE]
  /\ UNCHANGED <<leader, pass, batch, registered, accepted, carriers, announced, crashes, slow>>

PassStep(p) ==
  ClaimDue(p) \/ NothingDue(p) \/ Proceed(p) \/ CheckRegistration(p) \/ Send(p) \/ Finalize(p)

Next ==
  \/ \E m \in Messages :
       \/ Enqueue(m) \/ ReapStuckWebhooks(m) \/ BackoffElapses(m) \/ ClaimAges(m)
       \/ EndRegistration(m) \/ DeleteEndpoint(m)
  \/ \E p \in Passes : PassStep(p) \/ Crash(p)
  \/ \E p \in Passes, ch \in Channels : StartPass(p, ch)
  \/ \E ch \in Channels : LoseLease(ch)

Spec == Init /\ [][Next]_vars

-----------------------------------------------------------------------------
(***************************************************************************)
(* Properties.                                                             *)
(***************************************************************************)

\* A row is sent only by its latest claim, and only if the provider accepted
\* that very hand-over: the outcome of an overtaken claim never settles the row
\* (finalizeEmail, finalizeWebhookDelivery, finalizePush).
SentByLatestClaim ==
  \A m \in Messages : row[m].status = "sent" => row[m].attempts \in accepted[m]

\* An email that dies is announced, once: the audit row and the email.dead event
\* belong to the transaction that gave up (finalizeEmail).
DeadAnnouncedOnce ==
  \A m \in Emails : announced[m] = IF row[m].status = "dead" THEN 1 ELSE 0

\* Without a crash, a lost lease, a lost answer or a claim that outlived its
\* grace period nobody receives a message twice, although the waker and the
\* scheduler drain the same outbox (claimDueEmails).
OnceWithoutFaults ==
  crashes = 0 /\ slow = 0 => \A m \in Messages : Cardinality(accepted[m]) <= 1

\* What is sent, dead or deleted stays so, whatever late pass still holds a claim.
FinalStays ==
  \A m \in Messages :
       /\ row[m].status \in {"sent", "dead"} => row'[m].status \in {row[m].status, "deleted"}
       /\ row[m].status = "deleted" => row'[m].status = "deleted"

\* The claim decides: all of the above.
ClaimsDecide ==
  /\ [](TypeOK /\ SentByLatestClaim /\ DeadAnnouncedOnce /\ OnceWithoutFaults)
  /\ [][FinalStays]_vars

\* email/wake.ts: "a wake-triggered drain and the scheduled drain never deliver
\* the same row".
OneCarrier == \A m \in Emails : Cardinality(carriers[m]) <= 1
=============================================================================
