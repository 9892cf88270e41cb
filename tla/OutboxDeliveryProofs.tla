------------------------ MODULE OutboxDeliveryProofs ------------------------
(***************************************************************************)
(* Machine-checked proofs about the outboxes, for any messages, passes,    *)
(* batch and attempt limits, and any number of crashes and slow claims.    *)
(*                                                                         *)
(* That a row is settled by its latest claim rests on the attempt number:  *)
(* a pass at a message holds a claim of it, and an accepted hand-over is   *)
(* accepted under that number (FlowInv).  That nobody receives a message   *)
(* twice when nothing fails rests on the claim being exclusive then: the   *)
(* row of a live claim is not aged, one pass has it, and what that pass    *)
(* handed over is the only hand-over (QuietInv).                           *)
(***************************************************************************)
EXTENDS OutboxDelivery, FiniteSetTheorems, TLAPS

AtMessage == {"check", "send", "finalize"}

FlowOf(p) ==
  /\ pass[p].pc # "idle" => pass[p].chan \in Channels
  /\ pass[p].pc \in {"idle", "claim"} => \A m \in Messages : batch[p][m] = 0
  /\ pass[p].pc \in AtMessage => pass[p].msg \in Messages /\ batch[p][pass[p].msg] > 0
  /\ pass[p].pc = "check" => pass[p].msg \in Pushes
  /\ pass[p].pc = "finalize" =>
       /\ pass[p].out \in Outcomes
       /\ pass[p].out \in {"unregistered", "cancelled"} => pass[p].msg \in Pushes
       /\ pass[p].out = "ok" => batch[p][pass[p].msg] \in accepted[pass[p].msg]
FlowInv == \A p \in Passes : FlowOf(p)

Quiet == crashes = 0 /\ slow = 0

\* One pass at most has the claim of a message, it is the latest one, and the
\* provider has nothing of the message but what this claim handed over.
ClaimExclusive(m) ==
  /\ \A p \in Passes : batch[p][m] > 0 =>
       /\ batch[p][m] = row[m].attempts /\ row[m].status \in {"processing", "deleted"}
       /\ \A q \in Passes : batch[q][m] > 0 => q = p
       /\ accepted[m] # {} =>
            pass[p].pc = "finalize" /\ pass[p].msg = m /\ pass[p].out = "ok"
  /\ row[m].status = "processing" => ~row[m].aged /\ \E p \in Passes : batch[p][m] > 0
  /\ row[m].status \in {"none", "pending"} => accepted[m] = {}
  /\ accepted[m] \subseteq {row[m].attempts}

QuietInv ==
  Quiet =>
    /\ \A m \in Messages : ClaimExclusive(m)
    /\ \A p \in Scheduled : pass[p].pc # "idle" => leader[pass[p].chan] = p

IInv == TypeOK /\ FlowInv /\ SentByLatestClaim /\ DeadAnnouncedOnce /\ QuietInv
PassRec == [chan : Channels \cup {None},
            pc : {"idle", "claim", "ready", "check", "send", "finalize"},
            msg : Messages \cup {None}, out : Outcomes \cup {None}]

\* What the claims and the hand-overs count.
ClaimsOK ==
  /\ \A p \in Passes, m \in Messages :
       batch[p][m] > 0 => m \in Of(pass[p].chan) /\ batch[p][m] <= row[m].attempts
  /\ \A m \in Messages : accepted[m] \subseteq 1..row[m].attempts

\* The types without the claims.
Shapes ==
  /\ row \in [Messages -> Row] /\ leader \in [Channels -> Scheduled \cup {None}]
  /\ pass \in [Passes -> PassRec] /\ batch \in [Passes -> [Messages -> Nat]]
  /\ registered \subseteq Pushes /\ accepted \in [Messages -> SUBSET Nat]
  /\ carriers \in [Messages -> SUBSET Passes] /\ announced \in [Messages -> Nat]
  /\ crashes \in Nat /\ slow \in Nat

LEMMA TypeParts == (TypeOK <=> Shapes /\ ClaimsOK) /\ (TypeOK' <=> Shapes' /\ ClaimsOK')
BY DEF TypeOK, Shapes, ClaimsOK, PassRec

LEMMA OfFacts ==
  /\ Of("email") = Emails /\ Of("webhook") = Webhooks /\ Of("push") = Pushes
  /\ \A ch \in Channels : Of(ch) \subseteq Messages
  /\ Emails \subseteq Messages /\ Webhooks \subseteq Messages /\ Pushes \subseteq Messages
  /\ Scheduled \subseteq Passes /\ Wakers \subseteq Passes
BY DEF Of, Channels, Messages, Passes

\* A pass that did not move keeps what it is at: hand-overs only accumulate.
LEMMA FlowKeep ==
  ASSUME NEW q \in Passes, FlowOf(q), pass'[q] = pass[q], batch'[q] = batch[q],
         \A m \in Messages : accepted[m] \subseteq accepted'[m]
  PROVE  FlowOf(q)'
BY DEF FlowOf, AtMessage

-----------------------------------------------------------------------------
(* A row changes and nothing else does.                                     *)

LEMMA RowStep ==
  ASSUME IInv, NEW m \in Messages, NEW r \in Row, row' = [row EXCEPT ![m] = r],
         UNCHANGED <<leader, pass, batch, registered, accepted, carriers, announced, crashes>>,
         slow' \in Nat, slow <= slow',
         r.attempts = row[m].attempts,
         r.status = "sent" => row[m].status = "sent",
         m \in Emails => (r.status = "dead" <=> row[m].status = "dead"),
         Quiet' /\ Quiet /\ ClaimExclusive(m) =>
             /\ r.status \in {"none", "pending"} => row[m].status \in {"none", "pending"}
             /\ r.status = "processing" => row[m].status = "processing" /\ ~r.aged
             /\ row[m].status \in {"processing", "deleted"} => r.status \in {"processing", "deleted"}
  PROVE  IInv'
<1>1. Shapes /\ ClaimsOK /\ FlowInv /\ SentByLatestClaim /\ DeadAnnouncedOnce /\ QuietInv
  BY TypeParts DEF IInv
<1>2. /\ row' \in [Messages -> Row] /\ row'[m] = r /\ row[m] \in Row
      /\ \A n \in Messages : n # m => row'[n] = row[n]
      /\ \A n \in Messages : row'[n].attempts = row[n].attempts
  BY <1>1 DEF Shapes
<1>3. TypeOK'
  <2>1. Shapes'
    BY <1>1, <1>2 DEF Shapes
  <2>2. ClaimsOK'
    BY <1>1, <1>2 DEF ClaimsOK
  <2> QED BY <2>1, <2>2, TypeParts
<1>4. FlowInv'
  BY <1>1, FlowKeep DEF FlowInv
<1>5. SentByLatestClaim'
  BY <1>1, <1>2 DEF SentByLatestClaim
<1>6. DeadAnnouncedOnce'
  BY <1>1, <1>2, OfFacts DEF DeadAnnouncedOnce
<1>7. QuietInv'
  <2> SUFFICES ASSUME Quiet'
               PROVE  /\ \A n \in Messages : ClaimExclusive(n)'
                      /\ \A p \in Scheduled : pass'[p].pc # "idle" => leader'[pass'[p].chan] = p
    BY DEF QuietInv
  <2>1. Quiet
    BY <1>1 DEF Quiet, Shapes
  <2>2. /\ \A n \in Messages : ClaimExclusive(n)
        /\ \A p \in Scheduled : pass[p].pc # "idle" => leader[pass[p].chan] = p
    BY <1>1, <2>1 DEF QuietInv
  <2>3. \A n \in Messages : n # m => ClaimExclusive(n)'
    BY <1>2, <2>2 DEF ClaimExclusive
  <2>4. ClaimExclusive(m)'
    BY <1>2, <2>1, <2>2 DEF ClaimExclusive, Row
  <2> QED BY <2>2, <2>3, <2>4
<1> QED BY <1>3, <1>4, <1>5, <1>6, <1>7 DEF IInv

LEMMA RowActions ==
  ASSUME ChannelsDisjoint, BoundsAssumption, IInv, NEW m \in Messages,
         \/ Enqueue(m) \/ ReapStuckWebhooks(m) \/ BackoffElapses(m) \/ ClaimAges(m)
         \/ DeleteEndpoint(m)
  PROVE  IInv'
<1>1. row \in [Messages -> Row] /\ row[m] \in Row /\ slow \in Nat
  BY TypeParts DEF IInv, Shapes
<1>2. CASE Enqueue(m)
  <2> DEFINE r == [row[m] EXCEPT !.status = "pending", !.due = TRUE]
  <2>1. row' = [row EXCEPT ![m] = r] /\ r \in Row /\ r.attempts = row[m].attempts
        /\ r.status = "pending" /\ row[m].status = "none"
    BY <1>1, <1>2 DEF Enqueue, Row
  <2> HIDE DEF r
  <2>2. /\ UNCHANGED <<leader, pass, batch, registered, accepted, carriers, announced, crashes>>
        /\ slow' \in Nat /\ slow <= slow'
    BY <1>1, <1>2 DEF Enqueue
  <2> QED BY <2>1, <2>2, RowStep
<1>3. CASE ReapStuckWebhooks(m)
  <2> DEFINE r == [row[m] EXCEPT !.status = "pending", !.aged = FALSE]
  <2>1. row' = [row EXCEPT ![m] = r] /\ r \in Row /\ r.attempts = row[m].attempts
        /\ r.status = "pending" /\ row[m].status = "processing" /\ row[m].aged /\ m \notin Emails
    BY <1>1, <1>3 DEF ReapStuckWebhooks, Row, ChannelsDisjoint
  <2> HIDE DEF r
  <2>2. ~ ClaimExclusive(m)
    BY <2>1 DEF ClaimExclusive
  <2>3. /\ UNCHANGED <<leader, pass, batch, registered, accepted, carriers, announced, crashes>>
        /\ slow' \in Nat /\ slow <= slow'
    BY <1>1, <1>3 DEF ReapStuckWebhooks
  <2> QED BY <2>1, <2>2, <2>3, RowStep
<1>4. CASE BackoffElapses(m)
  <2> DEFINE r == [row[m] EXCEPT !.due = TRUE]
  <2>1. row' = [row EXCEPT ![m] = r] /\ r \in Row /\ r.attempts = row[m].attempts
        /\ r.status = row[m].status /\ row[m].status = "pending"
    BY <1>1, <1>4 DEF BackoffElapses, Row
  <2> HIDE DEF r
  <2>2. /\ UNCHANGED <<leader, pass, batch, registered, accepted, carriers, announced, crashes>>
        /\ slow' \in Nat /\ slow <= slow'
    BY <1>1, <1>4 DEF BackoffElapses
  <2> QED BY <2>1, <2>2, RowStep
<1>5. CASE ClaimAges(m)
  <2> DEFINE r == [row[m] EXCEPT !.aged = TRUE]
  <2>1. row' = [row EXCEPT ![m] = r] /\ r \in Row /\ r.attempts = row[m].attempts
        /\ r.status = row[m].status /\ row[m].status = "processing"
    BY <1>1, <1>5 DEF ClaimAges, Row
  <2>2. slow' \in Nat /\ slow <= slow' /\ (HasLiveOwner(m) => slow' # 0)
    BY <1>1, <1>5 DEF ClaimAges
  <2> HIDE DEF r
  <2>3. ClaimExclusive(m) => HasLiveOwner(m)
    BY <2>1 DEF ClaimExclusive, HasLiveOwner
  <2> QED BY <1>1, <1>5, <2>1, <2>2, <2>3, RowStep DEF ClaimAges, Quiet
<1>6. CASE DeleteEndpoint(m)
  <2> DEFINE r == [row[m] EXCEPT !.status = "deleted", !.aged = FALSE]
  <2>1. row' = [row EXCEPT ![m] = r] /\ r \in Row /\ r.attempts = row[m].attempts
        /\ r.status = "deleted" /\ m \notin Emails
    BY <1>1, <1>6 DEF DeleteEndpoint, Row, ChannelsDisjoint
  <2> HIDE DEF r
  <2>2. /\ UNCHANGED <<leader, pass, batch, registered, accepted, carriers, announced, crashes>>
        /\ slow' \in Nat /\ slow <= slow'
    BY <1>1, <1>6 DEF DeleteEndpoint
  <2> QED BY <2>1, <2>2, RowStep
<1> QED BY <1>2, <1>3, <1>4, <1>5, <1>6

-----------------------------------------------------------------------------
(* A pass ends.                                                             *)

LEMMA EndStep ==
  ASSUME ChannelsDisjoint, IInv, NEW p \in Passes, EndPass(p), UNCHANGED <<row, accepted, carriers, announced, slow>>,
         registered' = registered, crashes' \in Nat, crashes <= crashes',
         Quiet' => \A m \in Messages : batch[p][m] = 0
  PROVE  IInv'
<1>1. Shapes /\ ClaimsOK /\ FlowInv /\ SentByLatestClaim /\ DeadAnnouncedOnce /\ QuietInv
  BY TypeParts DEF IInv
<1>2. /\ pass' \in [Passes -> PassRec] /\ batch' \in [Passes -> [Messages -> Nat]]
      /\ leader' \in [Channels -> Scheduled \cup {None}]
      /\ pass'[p] = IdlePass /\ pass'[p].pc = "idle" /\ \A m \in Messages : batch'[p][m] = 0
      /\ \A q \in Passes : q # p => pass'[q] = pass[q] /\ batch'[q] = batch[q]
      /\ \A ch \in Channels : leader'[ch] = IF leader[ch] = p THEN None ELSE leader[ch]
  BY <1>1 DEF EndPass, Shapes, PassRec, IdlePass
<1>3. TypeOK'
  <2>1. Shapes'
    BY <1>1, <1>2 DEF Shapes
  <2>2. ClaimsOK'
    BY <1>1, <1>2 DEF ClaimsOK
  <2> QED BY <2>1, <2>2, TypeParts
<1>4. FlowInv'
  <2>1. FlowOf(p)'
    BY <1>2 DEF FlowOf, AtMessage
  <2>2. ASSUME NEW q \in Passes, q # p PROVE FlowOf(q)'
    BY <1>1, <1>2, <2>2, FlowKeep DEF FlowInv
  <2> QED BY <2>1, <2>2 DEF FlowInv
<1>5. SentByLatestClaim' /\ DeadAnnouncedOnce'
  BY <1>1 DEF SentByLatestClaim, DeadAnnouncedOnce
<1>6. QuietInv'
  <2> SUFFICES ASSUME Quiet'
               PROVE  /\ \A n \in Messages : ClaimExclusive(n)'
                      /\ \A q \in Scheduled : pass'[q].pc # "idle" => leader'[pass'[q].chan] = q
    BY DEF QuietInv
  <2>1. Quiet
    BY <1>1 DEF Quiet, Shapes
  <2>2. /\ \A n \in Messages : ClaimExclusive(n)
        /\ \A q \in Scheduled : pass[q].pc # "idle" => leader[pass[q].chan] = q
    BY <1>1, <2>1 DEF QuietInv
  <2>3. \A q \in Passes, m \in Messages : batch'[q][m] = batch[q][m]
    BY <1>2
  <2>4. \A n \in Messages : ClaimExclusive(n)'
    <3> SUFFICES ASSUME NEW n \in Messages PROVE ClaimExclusive(n)'
      OBVIOUS
    <3>1. \A q \in Passes : batch[q][n] > 0 => pass'[q] = pass[q]
      BY <1>2
    <3> QED BY <2>2, <2>3, <3>1 DEF ClaimExclusive
  <2>5. \A q \in Scheduled : pass'[q].pc # "idle" => leader'[pass'[q].chan] = q
    <3> SUFFICES ASSUME NEW q \in Scheduled, pass'[q].pc # "idle"
                 PROVE  leader'[pass'[q].chan] = q
      OBVIOUS
    <3>1. q \in Passes /\ q # p /\ pass'[q] = pass[q]
      BY <1>2, OfFacts
    <3>2. pass[q].chan \in Channels /\ leader[pass[q].chan] = q
      BY <1>1, <2>2, <3>1 DEF FlowInv, FlowOf
    <3> QED BY <1>2, <3>1, <3>2
  <2> QED BY <2>4, <2>5
<1> QED BY <1>3, <1>4, <1>5, <1>6 DEF IInv

\* Without faults no pass loses its lease, so no commit is refused.
LEMMA NeverRefused ==
  ASSUME IInv, Quiet, NEW p \in Passes, pass[p].pc # "idle" PROVE MayCommit(p)
BY DEF IInv, QuietInv, MayCommit, Passes

-----------------------------------------------------------------------------
(* A pass moves: nothing but its record, and for a start the lease, changes. *)

LEMMA PassMoves ==
  ASSUME IInv, NEW p \in Passes, NEW v \in PassRec, pass' = [pass EXCEPT ![p] = v],
         UNCHANGED <<row, batch, registered, accepted, carriers, announced, crashes, slow>>,
         leader' \in [Channels -> Scheduled \cup {None}],
         pass[p].pc # "finalize", FlowOf(p)',
         v.chan = pass[p].chan \/ \A m \in Messages : batch[p][m] = 0,
         \A q \in Scheduled : q # p /\ pass[q].chan \in Channels /\ leader[pass[q].chan] = q
                                => leader'[pass[q].chan] = q,
         Quiet /\ p \in Scheduled => leader'[v.chan] = p
  PROVE  IInv'
<1>1. Shapes /\ ClaimsOK /\ FlowInv /\ SentByLatestClaim /\ DeadAnnouncedOnce /\ QuietInv
  BY TypeParts DEF IInv
<1>2. /\ pass' \in [Passes -> PassRec] /\ pass'[p] = v
      /\ \A q \in Passes : q # p => pass'[q] = pass[q]
  BY <1>1 DEF Shapes
<1>3. TypeOK'
  <2>1. Shapes'
    BY <1>1, <1>2 DEF Shapes
  <2>2. ClaimsOK'
    BY <1>1, <1>2 DEF ClaimsOK
  <2> QED BY <2>1, <2>2, TypeParts
<1>4. FlowInv'
  <2>1. ASSUME NEW q \in Passes, q # p PROVE FlowOf(q)'
    BY <1>1, <1>2, <2>1, FlowKeep DEF FlowInv
  <2> QED BY <2>1 DEF FlowInv
<1>5. SentByLatestClaim' /\ DeadAnnouncedOnce'
  BY <1>1 DEF SentByLatestClaim, DeadAnnouncedOnce
<1>6. QuietInv'
  <2> SUFFICES ASSUME Quiet'
               PROVE  /\ \A n \in Messages : ClaimExclusive(n)'
                      /\ \A q \in Scheduled : pass'[q].pc # "idle" => leader'[pass'[q].chan] = q
    BY DEF QuietInv
  <2>1. Quiet
    BY DEF Quiet
  <2>2. /\ \A n \in Messages : ClaimExclusive(n)
        /\ \A q \in Scheduled : pass[q].pc # "idle" => leader[pass[q].chan] = q
    BY <1>1, <2>1 DEF QuietInv
  <2>3. ASSUME NEW n \in Messages PROVE ClaimExclusive(n)'
    BY <1>2, <2>2 DEF ClaimExclusive
  <2>4. ASSUME NEW q \in Scheduled, pass'[q].pc # "idle" PROVE leader'[pass'[q].chan] = q
    <3>1. CASE q = p
      BY <1>2, <2>1, <3>1
    <3>2. CASE q # p
      <4>1. q \in Passes /\ pass'[q] = pass[q]
        BY <1>2, <3>2, OfFacts
      <4>2. pass[q].chan \in Channels /\ leader[pass[q].chan] = q
        BY <1>1, <2>2, <2>4, <4>1 DEF FlowInv, FlowOf
      <4> QED BY <3>2, <4>1, <4>2
    <3> QED BY <3>1, <3>2
  <2> QED BY <2>3, <2>4
<1> QED BY <1>3, <1>4, <1>5, <1>6 DEF IInv

LEMMA StartPassStep ==
  ASSUME ChannelsDisjoint, IInv, NEW p \in Passes, NEW ch \in Channels, StartPass(p, ch)
  PROVE  IInv'
<1>1. Shapes /\ FlowOf(p)
  BY TypeParts DEF IInv, FlowInv
<1> DEFINE v == [IdlePass EXCEPT !.chan = ch, !.pc = "claim"]
<1>2. /\ v \in PassRec /\ v.pc = "claim" /\ v.chan = ch
      /\ pass' = [pass EXCEPT ![p] = v] /\ pass[p].pc = "idle" /\ pass'[p] = v
  BY <1>1 DEF StartPass, PassRec, IdlePass, Shapes
<1> HIDE DEF v
<1>3. \A m \in Messages : batch[p][m] = 0
  BY <1>1, <1>2 DEF FlowOf
<1>4. FlowOf(p)'
  BY <1>2, <1>3 DEF FlowOf, AtMessage, StartPass
<1>5. UNCHANGED <<row, batch, registered, accepted, carriers, announced, crashes, slow>>
  BY DEF StartPass
<1>6. CASE p \in Scheduled /\ leader[ch] = None /\ leader' = [leader EXCEPT ![ch] = p]
  <2>1. leader' \in [Channels -> Scheduled \cup {None}] /\ leader'[ch] = p
    BY <1>1, <1>6 DEF Shapes
  <2>2. \A q \in Scheduled : q # p /\ pass[q].chan \in Channels /\ leader[pass[q].chan] = q
                                => leader'[pass[q].chan] = q
    BY <1>1, <1>6 DEF Shapes, ChannelsDisjoint
  <2> QED BY <1>2, <1>3, <1>4, <1>5, <2>1, <2>2, PassMoves
<1>7. CASE p \in Wakers /\ ch = "email" /\ UNCHANGED leader
  <2>1. leader' \in [Channels -> Scheduled \cup {None}] /\ p \notin Scheduled
    BY <1>1, <1>7 DEF Shapes, ChannelsDisjoint
  <2>2. \A q \in Scheduled : q # p /\ pass[q].chan \in Channels /\ leader[pass[q].chan] = q
                                => leader'[pass[q].chan] = q
    BY <1>7
  <2> QED BY <1>2, <1>3, <1>4, <1>5, <2>1, <2>2, PassMoves
<1> QED BY <1>6, <1>7 DEF StartPass

\* A pass that keeps its channel and its lease.
LEMMA PassKeepsLease ==
  ASSUME IInv, NEW p \in Passes, NEW v \in PassRec, pass' = [pass EXCEPT ![p] = v],
         UNCHANGED <<row, leader, batch, registered, accepted, carriers, announced, crashes, slow>>,
         pass[p].pc \notin {"idle", "finalize"}, FlowOf(p)', v.chan = pass[p].chan
  PROVE  IInv'
<1>1. leader' \in [Channels -> Scheduled \cup {None}]
  BY TypeParts DEF IInv, Shapes
<1>2. Quiet /\ p \in Scheduled => leader'[v.chan] = p
  BY DEF IInv, QuietInv
<1>3. \A q \in Scheduled : q # p /\ pass[q].chan \in Channels /\ leader[pass[q].chan] = q
                                => leader'[pass[q].chan] = q
  OBVIOUS
<1>4. pass[p].pc # "finalize"
  OBVIOUS
<1>5. UNCHANGED <<row, batch, registered, accepted, carriers, announced, crashes, slow>>
  OBVIOUS
<1> QED BY <1>1, <1>2, <1>3, <1>4, <1>5, PassMoves

\* A pass whose commit is refused has lost its lease: something failed.
LEMMA RefusedStep ==
  ASSUME ChannelsDisjoint, IInv, NEW p \in Passes, Refused(p), pass[p].pc # "idle",
         UNCHANGED <<row, registered, accepted, carriers, announced, crashes, slow>>
  PROVE  IInv'
<1>1. crashes' \in Nat /\ crashes <= crashes'
  BY TypeParts DEF IInv, Shapes
<1>2. ~ Quiet'
  BY NeverRefused DEF Refused, Quiet
<1> QED BY <1>1, <1>2, EndStep DEF Refused

LEMMA NothingDueStep ==
  ASSUME ChannelsDisjoint, IInv, NEW p \in Passes, NothingDue(p)
  PROVE  IInv'
<1>1. UNCHANGED <<row, registered, accepted, carriers, announced, crashes, slow>> /\ pass[p].pc = "claim"
  BY DEF NothingDue
<1>2. CASE Refused(p)
  BY <1>1, <1>2, RefusedStep
<1>3. CASE EndPass(p)
  <2>1. crashes' \in Nat /\ crashes <= crashes'
    BY <1>1, TypeParts DEF IInv, Shapes
  <2>2. \A m \in Messages : batch[p][m] = 0
    BY <1>1 DEF IInv, FlowInv, FlowOf
  <2> QED BY <1>1, <1>3, <2>1, <2>2, EndStep
<1> QED BY <1>2, <1>3 DEF NothingDue

LEMMA CrashStep ==
  ASSUME ChannelsDisjoint, BoundsAssumption, IInv, NEW p \in Passes, Crash(p)
  PROVE  IInv'
<1>1. crashes \in Nat /\ crashes' = crashes + 1
  BY TypeParts DEF IInv, Shapes, Crash, Crashes
<1>2. crashes' \in Nat /\ crashes <= crashes' /\ ~ Quiet'
  BY <1>1 DEF Quiet
<1>3. EndPass(p) /\ UNCHANGED <<row, accepted, carriers, announced, slow>> /\ registered' = registered
  BY DEF Crash
<1> QED BY <1>2, <1>3, EndStep

LEMMA ProceedStep ==
  ASSUME ChannelsDisjoint, IInv, NEW p \in Passes, Proceed(p)
  PROVE  IInv'
<1>1. Shapes /\ FlowOf(p)
  BY TypeParts DEF IInv, FlowInv
<1>2. UNCHANGED <<row, registered, accepted, carriers, announced, crashes, slow>> /\ pass[p].pc = "ready"
  BY DEF Proceed
<1>3. ASSUME NEW m \in Left(p), UNCHANGED <<batch, leader>>,
             pass' = [pass EXCEPT ![p].msg = m,
                                  ![p].pc = IF m \in Pushes THEN "check" ELSE "send"]
      PROVE  IInv'
  <2> DEFINE v == [pass[p] EXCEPT !.msg = m, !.pc = IF m \in Pushes THEN "check" ELSE "send"]
  <2>1. m \in Messages /\ batch[p][m] > 0 /\ pass[p] \in PassRec
    BY <1>1 DEF Left, Shapes
  <2>2. /\ pass' = [pass EXCEPT ![p] = v] /\ v \in PassRec /\ v.chan = pass[p].chan
        /\ v.pc = (IF m \in Pushes THEN "check" ELSE "send") /\ v.msg = m /\ pass'[p] = v
    BY <1>1, <1>3, <2>1 DEF PassRec, Shapes
  <2> HIDE DEF v
  <2>3. FlowOf(p)'
    BY <1>1, <1>2, <1>3, <2>1, <2>2 DEF FlowOf, AtMessage
  <2> QED BY <1>2, <1>3, <2>2, <2>3, PassKeepsLease
<1>4. ASSUME Left(p) = {}, UNCHANGED <<batch, leader>>, pass' = [pass EXCEPT ![p].pc = "claim"]
      PROVE  IInv'
  <2> DEFINE v == [pass[p] EXCEPT !.pc = "claim"]
  <2>1. \A m \in Messages : batch[p][m] = 0
    BY <1>1, <1>4 DEF Left, Shapes
  <2>2. /\ pass' = [pass EXCEPT ![p] = v] /\ v \in PassRec /\ v.chan = pass[p].chan
        /\ v.pc = "claim" /\ pass'[p] = v
    BY <1>1, <1>4 DEF PassRec, Shapes
  <2> HIDE DEF v
  <2>3. FlowOf(p)'
    BY <1>1, <1>2, <1>4, <2>1, <2>2 DEF FlowOf, AtMessage
  <2> QED BY <1>2, <1>4, <2>2, <2>3, PassKeepsLease
<1>5. ASSUME Left(p) = {}, EndPass(p) PROVE IInv'
  <2>1. \A m \in Messages : batch[p][m] = 0
    BY <1>1, <1>5 DEF Left, Shapes
  <2>2. crashes' \in Nat /\ crashes <= crashes'
    BY <1>1, <1>2 DEF Shapes
  <2> QED BY <1>2, <1>5, <2>1, <2>2, EndStep
<1> QED BY <1>3, <1>4, <1>5 DEF Proceed

LEMMA CheckRegistrationStep ==
  ASSUME ChannelsDisjoint, IInv, NEW p \in Passes, CheckRegistration(p)
  PROVE  IInv'
<1>1. Shapes /\ FlowOf(p) /\ pass[p] \in PassRec
  BY TypeParts DEF IInv, FlowInv, Shapes
<1>2. UNCHANGED <<row, registered, accepted, carriers, announced, crashes, slow>> /\ pass[p].pc = "check"
  BY DEF CheckRegistration
<1>3. CASE Refused(p)
  BY <1>2, <1>3, RefusedStep
<1>4. CASE ~ Refused(p)
  <2> DEFINE v == IF pass[p].msg \in registered
                    THEN [pass[p] EXCEPT !.pc = "send"]
                    ELSE [pass[p] EXCEPT !.pc = "finalize", !.out = "cancelled"]
  <2>1. UNCHANGED <<leader, batch>> /\ pass' = [pass EXCEPT ![p] = v]
    BY <1>1, <1>4 DEF CheckRegistration, Shapes
  <2>2. /\ v \in PassRec /\ v.chan = pass[p].chan /\ pass'[p] = v /\ v.msg = pass[p].msg
        /\ v.pc = "send" \/ (v.pc = "finalize" /\ v.out = "cancelled")
    BY <1>1, <2>1 DEF PassRec, Shapes, Outcomes
  <2> HIDE DEF v
  <2>3. FlowOf(p)'
    BY <1>1, <1>2, <2>1, <2>2 DEF FlowOf, AtMessage, Outcomes
  <2> QED BY <1>2, <2>1, <2>2, <2>3, PassKeepsLease
<1> QED BY <1>3, <1>4

-----------------------------------------------------------------------------
(* Claiming, handing over and finalizing.                                   *)

LEMMA ClaimDueStep ==
  ASSUME IInv, NEW p \in Passes, ClaimDue(p)
  PROVE  IInv'
<1>1. Shapes /\ ClaimsOK /\ FlowInv /\ SentByLatestClaim /\ DeadAnnouncedOnce /\ QuietInv
  BY TypeParts DEF IInv
<1>2. /\ UNCHANGED <<leader, registered, accepted, carriers, announced, crashes, slow>>
      /\ pass[p].pc = "claim" /\ pass' = [pass EXCEPT ![p].pc = "ready"]
  BY DEF ClaimDue
<1>3. pass[p].chan \in Channels /\ \A m \in Messages : batch[p][m] = 0
  BY <1>1, <1>2 DEF FlowInv, FlowOf
<1>4. PICK s \in SUBSET {m \in Of(pass[p].chan) : Claimable(m)} :
        /\ row' = [m \in Messages |->
             IF m \in s THEN [row[m] EXCEPT !.status = "processing", !.attempts = @ + 1,
                                            !.aged = FALSE]
                        ELSE row[m]]
        /\ batch' = [batch EXCEPT ![p] =
             [m \in Messages |-> IF m \in s THEN row[m].attempts + 1 ELSE 0]]
  BY DEF ClaimDue, kSubset
<1>5. s \subseteq Messages /\ s \subseteq Of(pass[p].chan) /\ \A m \in s : Claimable(m)
  BY <1>3, <1>4, OfFacts
<1>6. /\ row' \in [Messages -> Row]
      /\ \A m \in s : /\ row'[m].status = "processing" /\ ~ row'[m].aged
                      /\ row'[m].attempts = row[m].attempts + 1 /\ row[m].attempts \in Nat
      /\ \A m \in Messages : m \notin s => row'[m] = row[m]
  <2>1. \A m \in Messages : row[m] \in Row
    BY <1>1 DEF Shapes
  <2>2. \A m \in s : row'[m] = [row[m] EXCEPT !.status = "processing", !.attempts = @ + 1,
                                              !.aged = FALSE]
    BY <1>4, <1>5
  <2>3. \A m \in Messages : m \notin s => row'[m] = row[m]
    BY <1>4
  <2>4. \A m \in s : /\ row'[m].status = "processing" /\ ~ row'[m].aged
                    /\ row'[m].attempts = row[m].attempts + 1 /\ row[m].attempts \in Nat
                    /\ row'[m] \in Row
    <3> SUFFICES ASSUME NEW m \in s
                 PROVE  /\ row'[m].status = "processing" /\ ~ row'[m].aged
                        /\ row'[m].attempts = row[m].attempts + 1 /\ row[m].attempts \in Nat
                        /\ row'[m] \in Row
      OBVIOUS
    <3>1. row[m] \in Row
      BY <1>5, <2>1
    <3>2. row'[m] = [row[m] EXCEPT !.status = "processing", !.attempts = row[m].attempts + 1,
                                   !.aged = FALSE]
      BY <2>2
    <3>3. row[m].attempts \in Nat
      BY <3>1 DEF Row
    <3>4. row'[m] \in Row
      <4> DEFINE a == row[m].attempts + 1
      <4>1. a \in Nat /\ row'[m] = [row[m] EXCEPT !.status = "processing", !.attempts = a, !.aged = FALSE]
        BY <3>2, <3>3
      <4> HIDE DEF a
      <4> QED BY <3>1, <4>1 DEF Row
    <3>5. row'[m].status = "processing" /\ row'[m].attempts = row[m].attempts + 1
      BY <3>1, <3>2 DEF Row
    <3>6. row'[m].aged = FALSE
      BY <3>1, <3>2 DEF Row
    <3> QED BY <3>3, <3>4, <3>5, <3>6
  <2>5. row' \in [Messages -> Row]
    BY <1>4, <2>1, <2>3, <2>4
  <2> QED BY <2>3, <2>4, <2>5
<1>7. /\ batch' \in [Passes -> [Messages -> Nat]]
      /\ \A m \in Messages : batch'[p][m] = IF m \in s THEN row'[m].attempts ELSE 0
      /\ \A q \in Passes : q # p => batch'[q] = batch[q]
  <2>1. \A m \in Messages : row[m].attempts \in Nat
    BY <1>1 DEF Shapes, Row
  <2>2. [m \in Messages |-> IF m \in s THEN row[m].attempts + 1 ELSE 0] \in [Messages -> Nat]
    BY <2>1
  <2> QED BY <1>1, <1>4, <1>6, <2>2 DEF Shapes
<1>8. /\ pass' \in [Passes -> PassRec] /\ pass'[p].pc = "ready" /\ pass'[p].chan = pass[p].chan
      /\ \A q \in Passes : q # p => pass'[q] = pass[q]
  BY <1>1, <1>2 DEF Shapes, PassRec
<1>9. TypeOK'
  <2>1. Shapes'
    BY <1>1, <1>2, <1>6, <1>7, <1>8 DEF Shapes
  <2>2. \A m \in Messages : row[m].attempts \in Nat /\ row'[m].attempts \in Nat
                            /\ row[m].attempts <= row'[m].attempts
    <3>1. \A m \in Messages : row[m].attempts \in Nat
      BY <1>1 DEF Shapes, Row
    <3> QED BY <3>1, <1>6
  <2>3. \A m \in Messages : accepted'[m] \subseteq 1..row'[m].attempts
    BY <1>1, <1>2, <2>2 DEF ClaimsOK
  <2>4. ASSUME NEW q \in Passes, NEW m \in Messages, batch'[q][m] > 0
        PROVE  m \in Of(pass'[q].chan) /\ batch'[q][m] <= row'[m].attempts
    <3>1. CASE q = p
      BY <1>5, <1>7, <1>8, <2>2, <2>4, <3>1
    <3>2. CASE q # p
      <4>1. batch[q][m] \in Nat /\ batch'[q][m] = batch[q][m] /\ pass'[q] = pass[q]
        BY <1>1, <1>7, <1>8, <3>2 DEF Shapes
      <4> QED BY <1>1, <2>2, <2>4, <4>1 DEF ClaimsOK
    <3> QED BY <3>1, <3>2
  <2> QED BY <2>1, <2>3, <2>4, TypeParts DEF ClaimsOK
<1>10. FlowInv'
  <2>1. FlowOf(p)'
    BY <1>3, <1>8 DEF FlowOf, AtMessage
  <2>2. ASSUME NEW q \in Passes, q # p PROVE FlowOf(q)'
    BY <1>1, <1>2, <1>7, <1>8, <2>2, FlowKeep DEF FlowInv
  <2> QED BY <2>1, <2>2 DEF FlowInv
<1>11. SentByLatestClaim'
  BY <1>1, <1>2, <1>6 DEF SentByLatestClaim
<1>12. DeadAnnouncedOnce'
  BY <1>1, <1>2, <1>5, <1>6, OfFacts DEF DeadAnnouncedOnce, Claimable
<1>13. QuietInv'
  <2> SUFFICES ASSUME Quiet'
               PROVE  /\ \A n \in Messages : ClaimExclusive(n)'
                      /\ \A q \in Scheduled : pass'[q].pc # "idle" => leader'[pass'[q].chan] = q
    BY DEF QuietInv
  <2>1. Quiet
    BY <1>2 DEF Quiet
  <2>2. /\ \A n \in Messages : ClaimExclusive(n)
        /\ \A q \in Scheduled : pass[q].pc # "idle" => leader[pass[q].chan] = q
    BY <1>1, <2>1 DEF QuietInv
  <2>3. \A q \in Scheduled : pass'[q].pc # "idle" => leader'[pass'[q].chan] = q
    BY <1>2, <1>8, <2>2, OfFacts
  <2>4. ASSUME NEW n \in s PROVE ClaimExclusive(n)'
    <3>1. n \in Messages /\ row[n].status = "pending"
      BY <1>5, <2>2 DEF Claimable, ClaimExclusive
    <3>2. accepted[n] = {} /\ \A q \in Passes : ~ (batch[q][n] > 0)
      BY <2>2, <3>1 DEF ClaimExclusive
    <3>3. batch'[p][n] = row'[n].attempts /\ batch'[p][n] > 0
      BY <1>6, <1>7, <3>1
    <3>4. \A q \in Passes : batch'[q][n] > 0 => q = p
      BY <1>7, <3>2
    <3> QED BY <1>2, <1>6, <3>2, <3>3, <3>4 DEF ClaimExclusive
  <2>5. ASSUME NEW n \in Messages, n \notin s PROVE ClaimExclusive(n)'
    <3>1. row'[n] = row[n] /\ \A q \in Passes : batch'[q][n] = batch[q][n]
      BY <1>3, <1>6, <1>7, <2>5
    <3>2. \A q \in Passes : batch[q][n] > 0 => pass'[q] = pass[q]
      BY <1>3, <1>8
    <3> QED BY <1>2, <2>2, <3>1, <3>2 DEF ClaimExclusive
  <2> QED BY <2>3, <2>4, <2>5
<1> QED BY <1>9, <1>10, <1>11, <1>12, <1>13 DEF IInv

LEMMA SendStep ==
  ASSUME BoundsAssumption, IInv, NEW p \in Passes, Send(p)
  PROVE  IInv'
<1>1. Shapes /\ ClaimsOK /\ FlowInv /\ SentByLatestClaim /\ DeadAnnouncedOnce /\ QuietInv
  BY TypeParts DEF IInv
<1>2. UNCHANGED <<row, leader, batch, registered, announced, slow>> /\ pass[p].pc = "send"
  BY DEF Send
<1>m. PICK m \in Messages : m = pass[p].msg
  BY <1>1, <1>2 DEF FlowInv, FlowOf, AtMessage
<1>3. PICK out \in {"ok", "failed", "unregistered"}, taken \in BOOLEAN :
        /\ out = "unregistered" => m \in Pushes
        /\ out = "ok" => taken
        /\ IF out = "failed" /\ taken THEN crashes' = crashes + 1 ELSE UNCHANGED crashes
        /\ pass' = [pass EXCEPT ![p].pc = "finalize", ![p].out = out]
        /\ accepted' = [accepted EXCEPT ![m] = IF taken THEN @ \cup {batch[p][m]} ELSE @]
        /\ carriers' = [carriers EXCEPT ![m] = IF taken THEN @ \cup {p} ELSE @]
        /\ out = "unregistered" => ~ taken
  BY <1>m DEF Send, Crashes
<1>4. m \in Messages /\ batch[p][m] > 0 /\ pass[p].chan \in Channels
  BY <1>m, <1>1, <1>2 DEF FlowInv, FlowOf, AtMessage
<1>5. /\ pass' \in [Passes -> PassRec] /\ pass'[p].pc = "finalize" /\ pass'[p].out = out
      /\ pass'[p].msg = m /\ pass'[p].chan = pass[p].chan
      /\ \A q \in Passes : q # p => pass'[q] = pass[q]
  BY <1>m, <1>1, <1>3, <1>4 DEF Shapes, PassRec, Outcomes
<1>6. /\ accepted'[m] = IF taken THEN accepted[m] \cup {batch[p][m]} ELSE accepted[m]
      /\ \A n \in Messages : n # m => accepted'[n] = accepted[n]
      /\ \A n \in Messages : accepted[n] \subseteq accepted'[n]
  BY <1>1, <1>3, <1>4 DEF Shapes
<1>7. crashes' \in Nat /\ crashes <= crashes' /\ (crashes' = 0 => ~ (out = "failed" /\ taken))
  BY <1>1, <1>3 DEF Shapes
<1>8. batch[p][m] \in Nat /\ row[m].attempts \in Nat /\ batch[p][m] <= row[m].attempts
  BY <1>1, <1>4 DEF Shapes, Row, ClaimsOK
<1>9. TypeOK'
  <2>1. accepted' \in [Messages -> SUBSET Nat] /\ carriers' \in [Messages -> SUBSET Passes]
    BY <1>1, <1>3, <1>4, <1>8 DEF Shapes
  <2>2. Shapes'
    BY <1>1, <1>2, <1>5, <1>7, <2>1 DEF Shapes
  <2>3. \A n \in Messages : accepted'[n] \subseteq 1..row'[n].attempts
    BY <1>1, <1>2, <1>4, <1>6, <1>8 DEF ClaimsOK
  <2>4. ClaimsOK'
    BY <1>1, <1>2, <1>5, <2>3 DEF ClaimsOK
  <2> QED BY <2>2, <2>4, TypeParts
<1>10. FlowInv'
  <2>1. FlowOf(p)'
    BY <1>2, <1>3, <1>4, <1>5, <1>6 DEF FlowOf, AtMessage, Outcomes
  <2>2. ASSUME NEW q \in Passes, q # p PROVE FlowOf(q)'
    BY <1>1, <1>2, <1>5, <1>6, <2>2, FlowKeep DEF FlowInv
  <2> QED BY <2>1, <2>2 DEF FlowInv
<1>11. SentByLatestClaim' /\ DeadAnnouncedOnce'
  BY <1>1, <1>2, <1>6 DEF SentByLatestClaim, DeadAnnouncedOnce
<1>12. QuietInv'
  <2> SUFFICES ASSUME Quiet'
               PROVE  /\ \A n \in Messages : ClaimExclusive(n)'
                      /\ \A q \in Scheduled : pass'[q].pc # "idle" => leader'[pass'[q].chan] = q
    BY DEF QuietInv
  <2>1. Quiet /\ (taken => out = "ok")
    BY <1>1, <1>2, <1>3, <1>7 DEF Quiet, Shapes
  <2>2. /\ \A n \in Messages : ClaimExclusive(n)
        /\ \A q \in Scheduled : pass[q].pc # "idle" => leader[pass[q].chan] = q
    BY <1>1, <2>1 DEF QuietInv
  <2>3. \A q \in Scheduled : pass'[q].pc # "idle" => leader'[pass'[q].chan] = q
    BY <1>2, <1>5, <2>2, OfFacts
  <2>4. ASSUME NEW n \in Messages, n # m PROVE ClaimExclusive(n)'
    <3>1. \A q \in Passes : batch[q][n] > 0 /\ accepted[n] # {} => q # p
      BY <1>2, <2>2 DEF ClaimExclusive
    <3> QED BY <1>2, <1>5, <1>6, <2>2, <2>4, <3>1 DEF ClaimExclusive
  <2>5. ClaimExclusive(m)'
    <3>1. /\ accepted[m] = {} /\ batch[p][m] = row[m].attempts
          /\ row[m].status \in {"processing", "deleted"}
          /\ \A q \in Passes : batch[q][m] > 0 => q = p
      BY <1>2, <1>4, <2>2 DEF ClaimExclusive
    <3>2. accepted'[m] # {} => out = "ok"
      BY <1>6, <2>1, <3>1
    <3>3. accepted'[m] \subseteq {row[m].attempts}
      BY <1>6, <3>1
    <3> QED BY <1>2, <1>4, <1>5, <2>2, <3>1, <3>2, <3>3 DEF ClaimExclusive
  <2> QED BY <2>3, <2>4, <2>5
<1> QED BY <1>9, <1>10, <1>11, <1>12 DEF IInv

LEMMA FinalizeStep ==
  ASSUME ChannelsDisjoint, BoundsAssumption, IInv, NEW p \in Passes, Finalize(p)
  PROVE  IInv'
<1>1. Shapes /\ ClaimsOK /\ FlowInv /\ SentByLatestClaim /\ DeadAnnouncedOnce /\ QuietInv
  BY TypeParts DEF IInv
<1>2. UNCHANGED <<accepted, carriers, crashes, slow>> /\ pass[p].pc = "finalize"
  BY DEF Finalize
<1>3. CASE Refused(p) /\ UNCHANGED <<row, registered, announced>>
  BY <1>2, <1>3, RefusedStep
<1>4. CASE ~ (Refused(p) /\ UNCHANGED <<row, registered, announced>>)
  <2>m. PICK m \in Messages : m = pass[p].msg
    BY <1>1, <1>2 DEF FlowInv, FlowOf, AtMessage
  <2> DEFINE out == pass[p].out
             r == Finalized(p, m, out)
  <2>1. /\ row' = IF HoldsClaim(p, m) THEN [row EXCEPT ![m] = r] ELSE row
        /\ registered' = IF out = "unregistered" /\ HoldsClaim(p, m)
                           THEN registered \ {m} ELSE registered
        /\ announced' = [announced EXCEPT ![m] = @ + Announcements(p, m, out)]
        /\ batch' = [batch EXCEPT ![p][m] = 0]
        /\ pass' = [pass EXCEPT ![p].pc = "ready", ![p].msg = None, ![p].out = None]
        /\ UNCHANGED leader
    BY <1>4, <2>m DEF Finalize
  <2>2. /\ m \in Messages /\ batch[p][m] > 0 /\ pass[p].chan \in Channels /\ out \in Outcomes
        /\ out \in {"unregistered", "cancelled"} => m \in Pushes
        /\ out = "ok" => batch[p][m] \in accepted[m]
    BY <1>1, <1>2, <2>m DEF FlowInv, FlowOf, AtMessage
  <2>3. /\ pass' \in [Passes -> PassRec] /\ pass'[p].pc = "ready" /\ pass'[p].chan = pass[p].chan
        /\ \A q \in Passes : q # p => pass'[q] = pass[q]
    <3> DEFINE v == [pass[p] EXCEPT !.pc = "ready", !.msg = None, !.out = None]
    <3>1. pass[p] \in PassRec /\ pass \in [Passes -> PassRec]
      BY <1>1 DEF Shapes
    <3>2. pass' = [pass EXCEPT ![p] = v]
      BY <2>1, <3>1
    <3>3. v \in PassRec /\ v.pc = "ready" /\ v.chan = pass[p].chan
      BY <3>1 DEF PassRec
    <3> HIDE DEF v
    <3> QED BY <3>1, <3>2, <3>3
  <2>4. /\ r \in Row /\ r.attempts = row[m].attempts /\ row[m] \in Row
        /\ r.status = IF out = "ok" THEN "sent"
                      ELSE IF out = "failed" /\ ~ GivesUp(p, m) THEN "pending" ELSE "dead"
    <3>1. row[m] \in Row
      BY <1>1, <2>2 DEF Shapes
    <3> QED BY <3>1, <2>2 DEF Finalized, Backoff, Row
  <2>5. HoldsClaim(p, m) <=> row[m].status = "processing" /\ row[m].attempts = batch[p][m]
    BY DEF HoldsClaim
  <2>6. Announcements(p, m, out) = IF m \in Emails /\ out = "failed" /\ GivesUp(p, m) /\ HoldsClaim(p, m)
                                     THEN 1 ELSE 0
    BY DEF Announcements
  <2> HIDE DEF out, r
  <2>7. /\ row' \in [Messages -> Row] /\ row'[m] = IF HoldsClaim(p, m) THEN r ELSE row[m]
        /\ \A n \in Messages : n # m => row'[n] = row[n]
        /\ \A n \in Messages : row'[n].attempts = row[n].attempts
    BY <1>1, <2>1, <2>2, <2>4 DEF Shapes
  <2>8. /\ batch' \in [Passes -> [Messages -> Nat]] /\ batch'[p][m] = 0
        /\ \A n \in Messages : n # m => batch'[p][n] = batch[p][n]
        /\ \A q \in Passes : q # p => batch'[q] = batch[q]
    BY <1>1, <2>1, <2>2 DEF Shapes
  <2>9. /\ announced' \in [Messages -> Nat]
        /\ announced'[m] = announced[m] + Announcements(p, m, out) /\ announced[m] \in Nat
        /\ \A n \in Messages : n # m => announced'[n] = announced[n]
    BY <1>1, <2>1, <2>2, <2>6 DEF Shapes
  <2>10. TypeOK'
    <3>1. Shapes'
      BY <1>1, <1>2, <2>1, <2>3, <2>7, <2>8, <2>9 DEF Shapes
    <3>2. ASSUME NEW q \in Passes, NEW n \in Messages, batch'[q][n] > 0
          PROVE  batch[q][n] > 0 /\ batch'[q][n] = batch[q][n] /\ pass'[q].chan = pass[q].chan
      BY <2>3, <2>8, <3>2
    <3>3. ClaimsOK'
      BY <1>1, <1>2, <2>7, <3>2 DEF ClaimsOK
    <3> QED BY <3>1, <3>3, TypeParts
  <2>11. FlowInv'
    <3>1. FlowOf(p)'
      BY <2>2, <2>3 DEF FlowOf, AtMessage
    <3>2. ASSUME NEW q \in Passes, q # p PROVE FlowOf(q)'
      BY <1>1, <1>2, <2>3, <2>8, <3>2, FlowKeep DEF FlowInv
    <3> QED BY <3>1, <3>2 DEF FlowInv
  <2>12. SentByLatestClaim'
    BY <1>1, <1>2, <2>2, <2>4, <2>5, <2>7 DEF SentByLatestClaim
  <2>13. DeadAnnouncedOnce'
    <3>1. \A n \in Emails : n # m => announced'[n] = IF row'[n].status = "dead" THEN 1 ELSE 0
      BY <1>1, <2>7, <2>9, OfFacts DEF DeadAnnouncedOnce
    <3>2. ASSUME m \in Emails PROVE announced'[m] = IF row'[m].status = "dead" THEN 1 ELSE 0
      <4>1. out \in {"ok", "failed"} /\ announced[m] = IF row[m].status = "dead" THEN 1 ELSE 0
        BY <1>1, <2>2, <3>2 DEF DeadAnnouncedOnce, ChannelsDisjoint, Outcomes
      <4>2. CASE HoldsClaim(p, m)
        BY <2>4, <2>5, <2>6, <2>7, <2>9, <3>2, <4>1, <4>2
      <4>3. CASE ~ HoldsClaim(p, m)
        BY <2>6, <2>7, <2>9, <4>1, <4>3
      <4> QED BY <4>2, <4>3
    <3> QED BY <3>1, <3>2 DEF DeadAnnouncedOnce
  <2>14. QuietInv'
    <3> SUFFICES ASSUME Quiet'
                 PROVE  /\ \A n \in Messages : ClaimExclusive(n)'
                        /\ \A q \in Scheduled : pass'[q].pc # "idle" => leader'[pass'[q].chan] = q
      BY DEF QuietInv
    <3>1. Quiet
      BY <1>2 DEF Quiet
    <3>2. /\ \A n \in Messages : ClaimExclusive(n)
          /\ \A q \in Scheduled : pass[q].pc # "idle" => leader[pass[q].chan] = q
      BY <1>1, <3>1 DEF QuietInv
    <3>3. \A q \in Scheduled : pass'[q].pc # "idle" => leader'[pass'[q].chan] = q
      BY <1>2, <2>1, <2>3, <3>2, OfFacts
    <3>4. ASSUME NEW n \in Messages, n # m PROVE ClaimExclusive(n)'
      <4>1. \A q \in Passes : batch'[q][n] = batch[q][n]
        BY <2>8, <3>4
      <4>2. \A q \in Passes : batch[q][n] > 0 /\ accepted[n] # {} => q # p
        BY <2>m, <3>2, <3>4 DEF ClaimExclusive
      <4> QED BY <1>2, <2>3, <2>7, <3>2, <3>4, <4>1, <4>2 DEF ClaimExclusive
    <3>5. ClaimExclusive(m)'
      <4>1. /\ batch[p][m] = row[m].attempts /\ row[m].status \in {"processing", "deleted"}
            /\ \A q \in Passes : batch[q][m] > 0 => q = p
            /\ accepted[m] # {} => out = "ok"
            /\ accepted[m] \subseteq {row[m].attempts}
        BY <2>2, <3>2 DEF ClaimExclusive, out
      <4>2. \A q \in Passes : ~ (batch'[q][m] > 0)
        BY <2>2, <2>8, <4>1
      <4>3. row'[m].status \in {"sent", "pending", "dead", "deleted"}
        BY <2>4, <2>5, <2>7, <4>1
      <4>4. row'[m].status = "pending" => out # "ok"
        BY <2>4, <2>5, <2>7, <4>1
      <4> QED BY <1>2, <2>7, <2>2, <4>1, <4>2, <4>3, <4>4 DEF ClaimExclusive
    <3> QED BY <3>3, <3>4, <3>5
  <2> QED BY <2>10, <2>11, <2>12, <2>13, <2>14 DEF IInv
<1> QED BY <1>3, <1>4

LEMMA LoseLeaseStep ==
  ASSUME BoundsAssumption, IInv, NEW ch \in Channels, LoseLease(ch)
  PROVE  IInv'
<1>1. Shapes /\ ClaimsOK /\ FlowInv /\ SentByLatestClaim /\ DeadAnnouncedOnce
  BY TypeParts DEF IInv
<1>2. /\ crashes' \in Nat /\ ~ Quiet' /\ leader' \in [Channels -> Scheduled \cup {None}]
      /\ UNCHANGED <<row, pass, batch, registered, accepted, carriers, announced, slow>>
  BY <1>1 DEF LoseLease, Crashes, Shapes, Quiet
<1>3. TypeOK'
  BY <1>1, <1>2, TypeParts DEF Shapes, ClaimsOK
<1>4. FlowInv' /\ SentByLatestClaim' /\ DeadAnnouncedOnce'
  BY <1>1, <1>2, FlowKeep DEF FlowInv, SentByLatestClaim, DeadAnnouncedOnce
<1> QED BY <1>2, <1>3, <1>4 DEF IInv, QuietInv

LEMMA EndRegistrationStep ==
  ASSUME IInv, NEW m \in Messages, EndRegistration(m)
  PROVE  IInv'
<1>1. Shapes /\ ClaimsOK /\ FlowInv /\ SentByLatestClaim /\ DeadAnnouncedOnce /\ QuietInv
  BY TypeParts DEF IInv
<1>2. /\ registered' \subseteq Pushes
      /\ UNCHANGED <<row, leader, pass, batch, accepted, carriers, announced, crashes, slow>>
  BY <1>1 DEF EndRegistration, Shapes
<1>3. TypeOK'
  BY <1>1, <1>2, TypeParts DEF Shapes, ClaimsOK
<1>4. FlowInv' /\ SentByLatestClaim' /\ DeadAnnouncedOnce'
  BY <1>1, <1>2, FlowKeep DEF FlowInv, SentByLatestClaim, DeadAnnouncedOnce
<1>5. QuietInv'
  BY <1>1, <1>2 DEF QuietInv, Quiet, ClaimExclusive
<1> QED BY <1>3, <1>4, <1>5 DEF IInv

-----------------------------------------------------------------------------
(* The theorem.                                                             *)

LEMMA Inductive ==
  ASSUME ChannelsDisjoint, BoundsAssumption PROVE Spec => []IInv
<1>1. Init => IInv
  <2> SUFFICES ASSUME Init PROVE IInv
    OBVIOUS
  <2>1. /\ \A m \in Messages : row[m] = NoRow /\ accepted[m] = {} /\ announced[m] = 0
        /\ \A p \in Passes : pass[p] = IdlePass /\ \A m \in Messages : batch[p][m] = 0
        /\ NoRow \in Row /\ NoRow.status = "none" /\ IdlePass \in PassRec /\ IdlePass.pc = "idle"
    BY DEF Init, NoRow, Row, IdlePass, PassRec
  <2>2. Shapes
    BY <2>1 DEF Init, Shapes
  <2>3. ClaimsOK
    BY <2>1 DEF ClaimsOK
  <2>4. FlowInv
    BY <2>1 DEF FlowInv, FlowOf, AtMessage
  <2>5. SentByLatestClaim /\ DeadAnnouncedOnce
    BY <2>1, OfFacts DEF SentByLatestClaim, DeadAnnouncedOnce
  <2>6. QuietInv
    BY <2>1, OfFacts DEF QuietInv, ClaimExclusive
  <2> QED BY <2>2, <2>3, <2>4, <2>5, <2>6, TypeParts DEF IInv
<1>2. IInv /\ [Next]_vars => IInv'
  <2> SUFFICES ASSUME IInv, [Next]_vars PROVE IInv'
    OBVIOUS
  <2>1. CASE UNCHANGED vars
    <3>1. IInv' <=> IInv
      BY <2>1 DEF vars, IInv, TypeOK, FlowInv, FlowOf, SentByLatestClaim, DeadAnnouncedOnce,
                  QuietInv, Quiet, ClaimExclusive
    <3> QED BY <3>1
  <2>2. ASSUME NEW m \in Messages,
               \/ Enqueue(m) \/ ReapStuckWebhooks(m) \/ BackoffElapses(m) \/ ClaimAges(m)
               \/ EndRegistration(m) \/ DeleteEndpoint(m)
        PROVE  IInv'
    BY <2>2, RowActions, EndRegistrationStep
  <2>3. ASSUME NEW p \in Passes, PassStep(p) \/ Crash(p) PROVE IInv'
    BY <2>3, ClaimDueStep, NothingDueStep, ProceedStep, CheckRegistrationStep, SendStep,
       FinalizeStep, CrashStep DEF PassStep
  <2>4. ASSUME NEW p \in Passes, NEW ch \in Channels, StartPass(p, ch) PROVE IInv'
    BY <2>4, StartPassStep
  <2>5. ASSUME NEW ch \in Channels, LoseLease(ch) PROVE IInv'
    BY <2>5, LoseLeaseStep
  <2> QED BY <2>1, <2>2, <2>3, <2>4, <2>5 DEF Next
<1> QED BY <1>1, <1>2, PTL DEF Spec

\* A hand-over of the latest claim only is one hand-over.
LEMMA QuietOnce == IInv => OnceWithoutFaults
<1> SUFFICES ASSUME IInv, Quiet, NEW m \in Messages PROVE Cardinality(accepted[m]) <= 1
  BY DEF OnceWithoutFaults, Quiet
<1>1. accepted[m] \subseteq {row[m].attempts}
  BY DEF IInv, QuietInv, ClaimExclusive
<1>2. accepted[m] = {} \/ accepted[m] = {row[m].attempts}
  BY <1>1
<1>3. Cardinality({}) = 0 /\ Cardinality({row[m].attempts}) = 1
  BY FS_EmptySet, FS_Singleton
<1> QED BY <1>2, <1>3

\* No claim, no finalize and no clock takes a row out of a final status.
LEMMA FinalKept ==
  ASSUME BoundsAssumption, IInv, [Next]_vars PROVE FinalStays
<1>1. Shapes /\ FlowInv
  BY TypeParts DEF IInv
<1> SUFFICES ASSUME NEW n \in Messages
             PROVE  /\ row[n].status \in {"sent", "dead"} => row'[n].status \in {row[n].status, "deleted"}
                    /\ row[n].status = "deleted" => row'[n].status = "deleted"
  BY DEF FinalStays
<1> DEFINE Kept == row'[n].status = row[n].status \/ row'[n].status = "deleted"
                   \/ row[n].status \in {"none", "pending", "processing"}
<1>2. SUFFICES Kept
  OBVIOUS
<1>3. row[n] \in Row /\ row \in [Messages -> Row]
  BY <1>1 DEF Shapes
<1>4. CASE row' = row
  BY <1>4
<1>5. ASSUME NEW m \in Messages,
             \/ Enqueue(m) \/ ReapStuckWebhooks(m) \/ BackoffElapses(m) \/ ClaimAges(m)
             \/ DeleteEndpoint(m)
      PROVE  Kept
  <2>1. CASE m # n
    BY <1>3, <1>5, <2>1 DEF Enqueue, ReapStuckWebhooks, BackoffElapses, ClaimAges, DeleteEndpoint
  <2>2. CASE m = n /\ (Enqueue(m) \/ ReapStuckWebhooks(m) \/ BackoffElapses(m) \/ ClaimAges(m))
    BY <2>2 DEF Enqueue, ReapStuckWebhooks, BackoffElapses, ClaimAges
  <2>3. CASE m = n /\ DeleteEndpoint(m)
    BY <1>3, <2>3 DEF DeleteEndpoint, Row
  <2> QED BY <1>5, <2>1, <2>2, <2>3
<1>6. ASSUME NEW p \in Passes, ClaimDue(p) PROVE Kept
  <2>1. PICK s \in SUBSET {m \in Of(pass[p].chan) : Claimable(m)} :
          row' = [m \in Messages |->
            IF m \in s THEN [row[m] EXCEPT !.status = "processing", !.attempts = @ + 1, !.aged = FALSE]
                       ELSE row[m]]
    BY <1>6 DEF ClaimDue, kSubset
  <2>2. n \in s => row[n].status \in {"pending", "processing"}
    BY <2>1 DEF Claimable
  <2> QED BY <2>1, <2>2
<1>7. ASSUME NEW p \in Passes, Finalize(p) PROVE Kept
  <2>1. PICK m \in Messages : m = pass[p].msg
    BY <1>1, <1>7 DEF Finalize, FlowInv, FlowOf, AtMessage
  <2>2. \/ row' = row
        \/ /\ HoldsClaim(p, m)
           /\ row' = [row EXCEPT ![m] = Finalized(p, m, pass[p].out)]
    BY <1>7, <2>1 DEF Finalize
  <2> QED BY <1>3, <2>2 DEF HoldsClaim
<1>8. \/ row' = row
      \/ \E m \in Messages : \/ Enqueue(m) \/ ReapStuckWebhooks(m) \/ BackoffElapses(m)
                             \/ ClaimAges(m) \/ DeleteEndpoint(m)
      \/ \E p \in Passes : ClaimDue(p) \/ Finalize(p)
  BY DEF Next, vars, PassStep, EndRegistration, NothingDue, Proceed, CheckRegistration, Send,
         Crash, StartPass, LoseLease
<1> QED BY <1>4, <1>5, <1>6, <1>7, <1>8

\* For any messages, passes and limits, and any number of crashes, lost leases,
\* lost answers and slow claims: a row is sent only by its latest claim, a dead
\* email is announced exactly once, a message is handed over once when nothing
\* fails, and what is final stays so (claimDueEmails, finalizeEmail and their
\* webhook and push counterparts).
THEOREM ClaimsDecideOutcome ==
  ASSUME ChannelsDisjoint, BoundsAssumption PROVE Spec => ClaimsDecide
<1>1. Spec => []IInv
  BY Inductive
<1>2. IInv => TypeOK /\ SentByLatestClaim /\ DeadAnnouncedOnce /\ OnceWithoutFaults
  BY QuietOnce DEF IInv
<1>3. IInv /\ [Next]_vars => [FinalStays]_vars
  BY FinalKept
<1> QED BY <1>1, <1>2, <1>3, PTL DEF Spec, ClaimsDecide
=============================================================================
