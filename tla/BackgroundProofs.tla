-------------------------- MODULE BackgroundProofs --------------------------
(***************************************************************************)
(* Machine-checked proofs about what runs behind the requests: the job     *)
(* scheduler, for any processes, any finite set of jobs and any number of  *)
(* slots, leases and faults, and the catalog directory, for any            *)
(* publishers, stores, generations, requests and failures.                 *)
(*                                                                         *)
(* Scheduler.  The fence rests on the tokens: no two passes have the same  *)
(* one (TokensApart), a running pass has one, and a lease row that is      *)
(* there carries a token at least as late as the latest commit (TokenInv). *)
(* The lanes need no more than their own invariant (SlotsUsed), which is   *)
(* inductive with the types.                                               *)
(*                                                                         *)
(* Catalog.  owner.json is created exclusively, so every publisher past    *)
(* its claim is of one store, and everything the pointer ever named was    *)
(* made by that store, whoever holds a lease (OwnerInv).  With the lease   *)
(* there is one such publisher: what it read as the previous generation is *)
(* still the current one when it cleans up, and nobody deletes what it     *)
(* staged before the pointer moves (PublishInv).  A request never resolves *)
(* a generation that is still staged, so only the cleanup deletes what it  *)
(* reads (ReadInv).                                                        *)
(***************************************************************************)
EXTENDS JobScheduler, CatalogGenerations, FiniteSetTheorems, TLAPS

-----------------------------------------------------------------------------
(* THE JOB SCHEDULER                                                        *)

TokenInv ==
  /\ \A j \in Jobs : lease[j].token <= issued[j] /\ committed[j] <= issued[j]
  /\ \A j \in Jobs : lease[j].token # 0 => committed[j] <= lease[j].token
  /\ \A p \in Procs, j \in Jobs : pass[p][j] \in Running => token[p][j] # 0

LeaseInv == TypeOK /\ TokenInv /\ CheckedKeepsLease

Passes == [Procs -> [Jobs -> Stages]]
LaneJobs(lane) == {j \in Jobs : LaneOf(j) = lane}

-----------------------------------------------------------------------------
(* Steps of one pass.                                                       *)

LEMMA LaneFacts ==
  \A j \in Jobs : LaneOf(j) \in Lanes /\ j \in LaneJobs(LaneOf(j))
BY DEF LaneOf, Lanes, LaneJobs

\* One pass goes to another stage.
LEMMA GotoFacts ==
  ASSUME TypeOK, NEW p \in Procs, NEW j \in Jobs, NEW stage \in Stages, Goto(p, j, stage)
  PROVE  /\ pass' \in Passes
         /\ pass'[p][j] = stage
         /\ \A q \in Procs, k \in Jobs : q # p \/ k # j => pass'[q][k] = pass[q][k]
BY DEF TypeOK, Goto, Passes

\* What the queues are made of.
QueueOK(q) ==
  /\ q \in [Procs -> [Lanes -> Seq(Jobs)]]
  /\ \A p \in Procs, lane \in Lanes : q[p][lane] \in Seq(LaneJobs(lane))

LEMMA TypeParts ==
  TypeOK <=> /\ pass \in Passes /\ QueueOK(queue)
             /\ stopped \in [Procs -> BOOLEAN] /\ maintenance \in BOOLEAN
             /\ lease \in [Jobs -> [token : Nat, expired : BOOLEAN]]
             /\ issued \in [Jobs -> Nat]
             /\ token \in [Procs -> [Jobs -> Nat]]
             /\ lost \in [Procs -> [Jobs -> BOOLEAN]]
             /\ committed \in [Jobs -> Nat]
             /\ faults \in Nat
BY DEF TypeOK, Passes, QueueOK, LaneJobs

LEMMA TypePartsNext ==
  ASSUME pass' \in Passes, QueueOK(queue'),
         stopped' \in [Procs -> BOOLEAN], maintenance' \in BOOLEAN,
         lease' \in [Jobs -> [token : Nat, expired : BOOLEAN]],
         issued' \in [Jobs -> Nat],
         token' \in [Procs -> [Jobs -> Nat]],
         lost' \in [Procs -> [Jobs -> BOOLEAN]],
         committed' \in [Jobs -> Nat],
         faults' \in Nat
  PROVE  TypeOK'
BY DEF TypeOK, Passes, QueueOK, LaneJobs

\* The end of a pass: the pass is off, or the next of its lane if that is it;
\* a waiter may have the slot.
LEMMA EndPassFacts ==
  ASSUME TypeOK, NEW p \in Procs, NEW j \in Jobs, EndPass(p, j)
  PROVE  /\ pass' \in Passes /\ QueueOK(queue')
         /\ pass'[p][j] \in {"off", "granted"}
         /\ \A q \in Procs, k \in Jobs :
              (q # p \/ k # j) => pass'[q][k] = pass[q][k] \/ pass'[q][k] = "granted"
<1> DEFINE lane == LaneOf(j)
           waiting == queue[p][lane]
<1>1. /\ lane \in Lanes /\ waiting \in Seq(Jobs) /\ waiting \in Seq(LaneJobs(lane))
      /\ pass \in Passes /\ QueueOK(queue)
  BY LaneFacts, TypeParts DEF QueueOK
<1>2. CASE waiting = <<>>
  <2>1. pass' = [pass EXCEPT ![p][j] = "off"] /\ queue' = queue
    BY <1>2 DEF EndPass
  <2> QED BY <1>1, <2>1 DEF Passes, Stages
<1>3. CASE waiting # <<>>
  <2>1. /\ pass' = [pass EXCEPT ![p][j] = "off", ![p][Head(waiting)] = "granted"]
        /\ queue' = [queue EXCEPT ![p][lane] = Tail(waiting)]
    BY <1>3 DEF EndPass
  <2>2. /\ Head(waiting) \in Jobs /\ Tail(waiting) \in Seq(Jobs)
        /\ Tail(waiting) \in Seq(LaneJobs(lane))
    BY <1>1, <1>3
  <2> HIDE DEF waiting, lane
  <2>3. QueueOK(queue')
    BY <1>1, <2>1, <2>2 DEF QueueOK
  <2>4. pass' \in Passes
    BY <1>1, <2>1, <2>2 DEF Passes, Stages
  <2>5. /\ pass'[p][j] \in {"off", "granted"}
        /\ \A q \in Procs, k \in Jobs :
             (q # p \/ k # j) => pass'[q][k] = pass[q][k] \/ pass'[q][k] = "granted"
    BY <1>1, <2>1, <2>2 DEF Passes
  <2> QED BY <2>3, <2>4, <2>5
<1> QED BY <1>2, <1>3
-----------------------------------------------------------------------------
(* The types.                                                               *)

LEMMA TypeInit == Init => TypeOK
<1> SUFFICES ASSUME Init PROVE TypeOK
  OBVIOUS
<1>1. pass \in Passes
  BY DEF Init, Passes, Stages
<1>2. QueueOK(queue)
  BY DEF Init, QueueOK
<1> QED BY <1>1, <1>2, TypeParts DEF Init, NoLease

\* A claim that finds the row free writes the next token into it.
LEMMA TakeFacts ==
  ASSUME TypeOK, NEW j \in Jobs, Take(j)
  PROVE  /\ lease' \in [Jobs -> [token : Nat, expired : BOOLEAN]]
         /\ issued' \in [Jobs -> Nat]
         /\ issued'[j] = issued[j] + 1 /\ lease'[j].token = issued[j] + 1
         /\ \A k \in Jobs : k # j => lease'[k] = lease[k] /\ issued'[k] = issued[k]
BY DEF TypeOK, Take

LEMMA LostFacts ==
  ASSUME TypeOK, NEW p \in Procs, NEW j \in Jobs, lost' = [lost EXCEPT ![p][j] = TRUE]
  PROVE  lost' \in [Procs -> [Jobs -> BOOLEAN]]
<1>1. lost \in [Procs -> [Jobs -> BOOLEAN]]
  BY DEF TypeOK
<1>2. [lost[p] EXCEPT ![j] = TRUE] \in [Jobs -> BOOLEAN]
  BY <1>1
<1> QED BY <1>1, <1>2

LEMMA TypeNext == TypeOK /\ [Next]_vars => TypeOK'
<1> SUFFICES ASSUME TypeOK, [Next]_vars PROVE TypeOK'
  OBVIOUS
<1> USE TypeParts, TypePartsNext
<1>0. CASE UNCHANGED vars
  BY <1>0 DEF vars, TypeOK
<1>1. ASSUME NEW p \in Procs, NEW j \in Jobs, Tick(p, j)
      PROVE  TypeOK'
  <2> DEFINE lane == LaneOf(j)
  <2>1. lane \in Lanes /\ j \in LaneJobs(lane)
    BY LaneFacts
  <2>2. \A s \in Stages : Goto(p, j, s) => pass' \in Passes
    BY GotoFacts
  <2>3. pass' \in Passes
    BY <1>1, <2>2 DEF Tick, Stages
  <2>4. QueueOK([queue EXCEPT ![p][lane] = Append(@, j)])
    <3>1. /\ Append(queue[p][lane], j) \in Seq(Jobs)
          /\ Append(queue[p][lane], j) \in Seq(LaneJobs(lane))
      BY <2>1 DEF QueueOK
    <3> HIDE DEF lane
    <3> QED BY <2>1, <3>1 DEF QueueOK
  <2>5. QueueOK(queue')
    BY <1>1, <2>4 DEF Tick
  <2> QED BY <1>1, <2>3, <2>5 DEF Tick
<1>2. ASSUME NEW p \in Procs, NEW j \in Jobs, Admit(p, j)
      PROVE  TypeOK'
  <2>1. pass' \in Passes /\ QueueOK(queue')
    BY <1>2, EndPassFacts, GotoFacts DEF Admit, Stages
  <2> QED BY <1>2, <2>1 DEF Admit
<1>3. ASSUME NEW p \in Procs, Stop(p)
      PROVE  TypeOK'
  <2>1. pass' \in Passes
    BY <1>3 DEF Stop, Passes, Stages
  <2>2. QueueOK(queue')
    BY <1>3 DEF Stop, QueueOK
  <2> QED BY <1>3, <2>1, <2>2 DEF Stop
<1>4. ASSUME NEW p \in Procs, NEW j \in Jobs, ClaimLease(p, j)
      PROVE  TypeOK'
  <2>1. pass' \in Passes
    BY <1>4, GotoFacts DEF ClaimLease, Stages
  <2>2. token' \in [Procs -> [Jobs -> Nat]] /\ lost' \in [Procs -> [Jobs -> BOOLEAN]]
    BY <1>4 DEF ClaimLease
  <2> QED BY <1>4, <2>1, <2>2, TakeFacts DEF ClaimLease
<1>5. ASSUME NEW p \in Procs, NEW j \in Jobs, SkipTick(p, j)
      PROVE  TypeOK'
  BY <1>5, EndPassFacts DEF SkipTick
<1>6. ASSUME NEW p \in Procs, NEW j \in Jobs, ClaimFails(p, j)
      PROVE  TypeOK'
  BY <1>6, EndPassFacts, TakeFacts DEF ClaimFails, Fault
<1>7. ASSUME NEW j \in Jobs, LeaseExpires(j)
      PROVE  TypeOK'
  <2>1. lease' \in [Jobs -> [token : Nat, expired : BOOLEAN]]
    BY <1>7 DEF LeaseExpires
  <2> QED BY <1>7, <2>1 DEF LeaseExpires
<1>8. ASSUME NEW p \in Procs, NEW j \in Jobs, RenewalFindsLoss(p, j) \/ RenewalOverdue(p, j)
      PROVE  TypeOK'
  <2>1. lost' \in [Procs -> [Jobs -> BOOLEAN]]
    BY <1>8, LostFacts DEF RenewalFindsLoss, RenewalOverdue
  <2> QED BY <1>8, <2>1 DEF RenewalFindsLoss, RenewalOverdue, Fault
<1>9. ASSUME NEW p \in Procs, NEW j \in Jobs, BeginTransaction(p, j) \/ FinishPass(p, j)
      PROVE  TypeOK'
  BY <1>9, GotoFacts DEF BeginTransaction, FinishPass, Stages
<1>10. ASSUME NEW p \in Procs, NEW j \in Jobs, AssertLeasesHeld(p, j)
       PROVE  TypeOK'
  <2>1. pass' \in Passes
    BY <1>10, GotoFacts DEF AssertLeasesHeld, Stages
  <2>2. lost' \in [Procs -> [Jobs -> BOOLEAN]]
    BY <1>10, LostFacts DEF AssertLeasesHeld
  <2> QED BY <1>10, <2>1, <2>2 DEF AssertLeasesHeld
<1>11. ASSUME NEW p \in Procs, NEW j \in Jobs, Commit(p, j)
       PROVE  TypeOK'
  BY <1>11, GotoFacts DEF Commit, Stages
<1>12. ASSUME NEW p \in Procs, NEW j \in Jobs, ReleaseLease(p, j)
       PROVE  TypeOK'
  <2>1. pass' \in Passes /\ QueueOK(queue')
    BY <1>12, EndPassFacts DEF ReleaseLease
  <2> QED BY <1>12, <2>1 DEF ReleaseLease, NoLease
<1>13. ASSUME NEW p \in Procs, NEW j \in Jobs, ReleaseFails(p, j)
       PROVE  TypeOK'
  <2>1. pass' \in Passes /\ QueueOK(queue')
    BY <1>13, EndPassFacts DEF ReleaseFails
  <2> QED BY <1>13, <2>1 DEF ReleaseFails, Fault
<1>14. ASSUME NEW p \in Procs, Restart(p)
       PROVE  TypeOK'
  <2>1. pass' \in Passes
    BY <1>14 DEF Restart, Passes, Stages
  <2>2. QueueOK(queue')
    BY <1>14 DEF Restart, QueueOK
  <2>3. token' \in [Procs -> [Jobs -> Nat]] /\ stopped' \in [Procs -> BOOLEAN]
    BY <1>14 DEF Restart
  <2> QED BY <1>14, <2>1, <2>2, <2>3 DEF Restart, Fault
<1>15. CASE SetMaintenance
  BY <1>15 DEF SetMaintenance
<1> QED
  BY <1>0, <1>1, <1>2, <1>3, <1>4, <1>5, <1>6, <1>7, <1>8, <1>9, <1>10, <1>11, <1>12,
     <1>13, <1>14, <1>15 DEF Next, PassStep, FaultStep
-----------------------------------------------------------------------------
(* The fence.                                                               *)

\* Passes that end, and steps that leave the rows alone, keep the invariant: no
\* pass starts to run or passes the check, and those that run keep their token.
LEMMA LeaseFrame ==
  ASSUME LeaseInv, TypeOK', UNCHANGED <<lease, issued, committed>>,
         \A p \in Procs, j \in Jobs : pass'[p][j] \in Running =>
           /\ pass[p][j] \in Running /\ token'[p][j] = token[p][j]
           /\ pass'[p][j] = "checked" => pass[p][j] = "checked"
  PROVE  LeaseInv'
<1>1. \A j \in Jobs : /\ lease'[j].token = lease[j].token /\ issued'[j] = issued[j]
                      /\ committed'[j] = committed[j]
  OBVIOUS
<1>2. TokenInv'
  BY <1>1 DEF LeaseInv, TokenInv
<1>3. CheckedKeepsLease'
  BY <1>1 DEF LeaseInv, CheckedKeepsLease, Running
<1> QED BY <1>2, <1>3 DEF LeaseInv

\* A claim that takes the row: no pass is past its check then, and the row's new
\* token is later than every commit.
LEMMA LeaseTake ==
  ASSUME LeaseInv, TypeOK', UNCHANGED committed,
         NEW j \in Jobs, ~ShareLocked(j), Take(j),
         \A q \in Procs, k \in Jobs : pass'[q][k] \in Running =>
           \/ k = j /\ pass'[q][k] # "checked" /\ token'[q][k] # 0
           \/ /\ pass[q][k] = pass'[q][k] /\ token'[q][k] = token[q][k]
  PROVE  LeaseInv'
<1>1. /\ issued'[j] = issued[j] + 1 /\ lease'[j].token = issued[j] + 1
      /\ \A k \in Jobs : k # j => lease'[k] = lease[k] /\ issued'[k] = issued[k]
  BY TakeFacts DEF LeaseInv
<1>2. \A k \in Jobs : /\ issued[k] \in Nat /\ committed[k] \in Nat /\ lease[k].token \in Nat
                      /\ committed'[k] = committed[k]
  BY DEF LeaseInv, TypeOK
<1>3. TokenInv'
  BY <1>1, <1>2 DEF LeaseInv, TokenInv
<1>4. CheckedKeepsLease'
  <2> SUFFICES ASSUME NEW q \in Procs, NEW k \in Jobs, pass'[q][k] = "checked"
               PROVE  lease'[k].token = token'[q][k]
    BY DEF CheckedKeepsLease
  <2>1. pass[q][k] = "checked" /\ token'[q][k] = token[q][k]
    BY DEF Running
  <2>2. k # j
    BY <2>1 DEF ShareLocked
  <2> QED BY <1>1, <2>1, <2>2 DEF LeaseInv, CheckedKeepsLease
<1> QED BY <1>3, <1>4 DEF LeaseInv

LEMMA LeaseInit == Init => LeaseInv
<1> SUFFICES ASSUME Init PROVE LeaseInv
  OBVIOUS
<1> QED BY TypeInit DEF Init, LeaseInv, TokenInv, CheckedKeepsLease, NoLease, Running

LEMMA LeaseNext == LeaseInv /\ [Next]_vars => LeaseInv'
<1> SUFFICES ASSUME LeaseInv, [Next]_vars PROVE LeaseInv'
  OBVIOUS
<1>T. TypeOK /\ TypeOK'
  BY TypeNext DEF LeaseInv
<1>0. CASE UNCHANGED vars
  BY <1>0, <1>T, LeaseFrame DEF vars
<1>1. ASSUME NEW p \in Procs, NEW j \in Jobs, Tick(p, j) \/ FinishPass(p, j)
      PROVE  LeaseInv'
  <2>1. PICK s \in {"granted", "queued", "releasing"} : Goto(p, j, s)
    BY <1>1 DEF Tick, FinishPass
  <2>2. \A q \in Procs, k \in Jobs :
          pass'[q][k] \in Running => pass'[q][k] = pass[q][k]
    BY <1>T, <2>1, GotoFacts DEF Running, Stages
  <2> QED BY <1>1, <1>T, <2>2, LeaseFrame DEF Tick, FinishPass
<1>2. ASSUME NEW p \in Procs, NEW j \in Jobs, Admit(p, j)
      PROVE  LeaseInv'
  <2>1. EndPass(p, j) \/ Goto(p, j, "admitted")
    BY <1>2 DEF Admit
  <2>2. \A q \in Procs, k \in Jobs :
          pass'[q][k] \in Running => pass'[q][k] = pass[q][k]
    BY <1>T, <2>1, GotoFacts, EndPassFacts DEF Running, Stages
  <2> QED BY <1>2, <1>T, <2>2, LeaseFrame DEF Admit
<1>3. ASSUME NEW p \in Procs, Stop(p) \/ Restart(p)
      PROVE  LeaseInv'
  <2>1. /\ pass \in [Procs -> [Jobs -> Stages]] /\ token \in [Procs -> [Jobs -> Nat]]
    BY <1>T DEF TypeOK
  <2>2. \A q \in Procs, k \in Jobs :
          pass'[q][k] \in Running => pass'[q][k] = pass[q][k] /\ token'[q][k] = token[q][k]
    <3>1. CASE Stop(p)
      BY <2>1, <3>1 DEF Stop, Running
    <3>2. CASE Restart(p)
      BY <2>1, <3>2 DEF Restart, Running
    <3> QED BY <1>3, <3>1, <3>2
  <2> QED BY <1>3, <1>T, <2>2, LeaseFrame DEF Stop, Restart
<1>4. ASSUME NEW p \in Procs, NEW j \in Jobs, ClaimLease(p, j)
      PROVE  LeaseInv'
  <2>1. /\ pass'[p][j] = "leading"
        /\ \A q \in Procs, k \in Jobs : q # p \/ k # j => pass'[q][k] = pass[q][k]
    BY <1>4, <1>T, GotoFacts DEF ClaimLease, Stages
  <2>2. /\ token'[p][j] # 0
        /\ \A q \in Procs, k \in Jobs : q # p \/ k # j => token'[q][k] = token[q][k]
    BY <1>4, <1>T DEF ClaimLease, TypeOK
  <2> QED BY <1>4, <1>T, <2>1, <2>2, LeaseTake DEF ClaimLease, Claimable
<1>5. ASSUME NEW p \in Procs, NEW j \in Jobs, SkipTick(p, j) \/ ClaimFails(p, j)
      PROVE  LeaseInv'
  <2>1. \A q \in Procs, k \in Jobs :
          pass'[q][k] \in Running => pass'[q][k] = pass[q][k]
    BY <1>5, <1>T, EndPassFacts DEF SkipTick, ClaimFails, Running
  <2>2. UNCHANGED <<token, committed>>
    BY <1>5 DEF SkipTick, ClaimFails
  <2>3. CASE UNCHANGED <<lease, issued>>
    BY <1>T, <2>1, <2>2, <2>3, LeaseFrame
  <2>4. CASE ~ShareLocked(j) /\ Take(j)
    BY <1>T, <2>1, <2>2, <2>4, LeaseTake
  <2> QED BY <1>5, <2>3, <2>4 DEF SkipTick, ClaimFails, Claimable
<1>6. ASSUME NEW j \in Jobs, LeaseExpires(j)
      PROVE  LeaseInv'
  <2>1. \A k \in Jobs : lease'[k].token = lease[k].token
    BY <1>6, <1>T DEF LeaseExpires, TypeOK
  <2>2. UNCHANGED <<pass, issued, token, committed>>
    BY <1>6 DEF LeaseExpires
  <2> QED BY <1>T, <2>1, <2>2 DEF LeaseInv, TokenInv, CheckedKeepsLease
<1>7. ASSUME NEW p \in Procs, NEW j \in Jobs, RenewalFindsLoss(p, j) \/ RenewalOverdue(p, j)
      PROVE  LeaseInv'
  BY <1>7, <1>T, LeaseFrame DEF RenewalFindsLoss, RenewalOverdue
<1>8. ASSUME NEW p \in Procs, NEW j \in Jobs, BeginTransaction(p, j)
      PROVE  LeaseInv'
  <2>1. \A q \in Procs, k \in Jobs : pass'[q][k] \in Running =>
           /\ pass[q][k] \in Running
           /\ pass'[q][k] = "checked" => pass[q][k] = "checked"
    BY <1>8, <1>T, GotoFacts DEF BeginTransaction, Running, Stages
  <2> QED BY <1>8, <1>T, <2>1, LeaseFrame DEF BeginTransaction
<1>9. ASSUME NEW p \in Procs, NEW j \in Jobs, AssertLeasesHeld(p, j)
      PROVE  LeaseInv'
  <2>1. UNCHANGED <<lease, issued, token, committed>>
    BY <1>9 DEF AssertLeasesHeld
  <2>2. /\ pass[p][j] = "open" /\ pass'[p][j] \in {"checked", "leading"}
        /\ pass'[p][j] = "checked" => HoldsLease(p, j)
        /\ \A q \in Procs, k \in Jobs : q # p \/ k # j => pass'[q][k] = pass[q][k]
    BY <1>9, <1>T, GotoFacts DEF AssertLeasesHeld, Stages
  <2>3. TokenInv'
    BY <2>1, <2>2 DEF LeaseInv, TokenInv, Running
  <2>4. CheckedKeepsLease'
    BY <2>1, <2>2 DEF LeaseInv, CheckedKeepsLease, HoldsLease
  <2> QED BY <1>T, <2>3, <2>4 DEF LeaseInv
<1>10. ASSUME NEW p \in Procs, NEW j \in Jobs, Commit(p, j)
       PROVE  LeaseInv'
  <2>1. /\ pass[p][j] = "checked" /\ pass'[p][j] = "leading"
        /\ \A q \in Procs, k \in Jobs : q # p \/ k # j => pass'[q][k] = pass[q][k]
        /\ UNCHANGED <<lease, issued, token>>
    BY <1>10, <1>T, GotoFacts DEF Commit, Stages
  <2>2. /\ committed'[j] = token[p][j] /\ token[p][j] = lease[j].token
        /\ \A k \in Jobs : k # j => committed'[k] = committed[k]
        /\ lease[j].token \in Nat
    BY <1>10, <1>T, <2>1 DEF Commit, TypeOK, LeaseInv, CheckedKeepsLease
  <2>3. TokenInv'
    BY <2>1, <2>2 DEF LeaseInv, TokenInv, Running
  <2>4. CheckedKeepsLease'
    BY <2>1 DEF LeaseInv, CheckedKeepsLease
  <2> QED BY <1>T, <2>3, <2>4 DEF LeaseInv
<1>11. ASSUME NEW p \in Procs, NEW j \in Jobs, ReleaseFails(p, j)
       PROVE  LeaseInv'
  <2>1. \A q \in Procs, k \in Jobs : pass'[q][k] \in Running =>
          pass'[q][k] = pass[q][k] /\ token'[q][k] = token[q][k]
    <3>1. EndPass(p, j) /\ token' = [token EXCEPT ![p][j] = 0]
      BY <1>11 DEF ReleaseFails
    <3>2. /\ pass'[p][j] \in {"off", "granted"}
          /\ \A q \in Procs, k \in Jobs : (q # p \/ k # j) =>
               pass'[q][k] = pass[q][k] \/ pass'[q][k] = "granted"
      BY <1>T, <3>1, EndPassFacts
    <3>3. \A q \in Procs, k \in Jobs : (q # p \/ k # j) => token'[q][k] = token[q][k]
      BY <1>T, <3>1 DEF TypeOK
    <3> QED BY <3>2, <3>3 DEF Running
  <2> QED BY <1>11, <1>T, <2>1, LeaseFrame DEF ReleaseFails
<1>12. ASSUME NEW p \in Procs, NEW j \in Jobs, ReleaseLease(p, j)
       PROVE  LeaseInv'
  <2>1. \A q \in Procs, k \in Jobs : pass'[q][k] \in Running =>
          pass'[q][k] = pass[q][k] /\ token'[q][k] = token[q][k]
    <3>1. EndPass(p, j) /\ token' = [token EXCEPT ![p][j] = 0]
      BY <1>12 DEF ReleaseLease
    <3>2. /\ pass'[p][j] \in {"off", "granted"}
          /\ \A q \in Procs, k \in Jobs : (q # p \/ k # j) =>
               pass'[q][k] = pass[q][k] \/ pass'[q][k] = "granted"
      BY <1>T, <3>1, EndPassFacts
    <3>3. \A q \in Procs, k \in Jobs : (q # p \/ k # j) => token'[q][k] = token[q][k]
      BY <1>T, <3>1 DEF TypeOK
    <3> QED BY <3>2, <3>3 DEF Running
  <2>2. /\ \A k \in Jobs : lease'[k].token = lease[k].token \/ (k = j /\ lease'[k].token = 0)
        /\ UNCHANGED <<issued, committed>>
    BY <1>12, <1>T DEF ReleaseLease, TypeOK, NoLease
  <2>3. \A q \in Procs : pass'[q][j] # "checked"
    BY <1>12, <2>1 DEF ReleaseLease, ShareLocked, Running
  <2>4. TokenInv'
    <3>1. \A k \in Jobs : issued[k] \in Nat /\ committed[k] \in Nat
      BY <1>T DEF TypeOK
    <3> QED BY <2>1, <2>2, <3>1 DEF LeaseInv, TokenInv
  <2>5. CheckedKeepsLease'
    BY <2>1, <2>2, <2>3 DEF LeaseInv, CheckedKeepsLease, Running
  <2> QED BY <1>T, <2>4, <2>5 DEF LeaseInv
<1>13. CASE SetMaintenance
  BY <1>13, <1>T, LeaseFrame DEF SetMaintenance
<1> QED
  BY <1>0, <1>1, <1>2, <1>3, <1>4, <1>5, <1>6, <1>7, <1>8, <1>9, <1>10, <1>11, <1>12,
     <1>13 DEF Next, PassStep, FaultStep

\* A commit carries the token of the row, which is as late as any commit was.
LEMMA CommitOrder == LeaseInv /\ [Next]_vars => CommitsInOrder
<1> SUFFICES ASSUME LeaseInv, [Next]_vars, NEW k \in Jobs
             PROVE  committed[k] <= committed'[k]
  BY DEF CommitsInOrder
<1>1. \A i \in Jobs : committed[i] \in Nat
  BY DEF LeaseInv, TypeOK
<1>2. CASE UNCHANGED committed
  BY <1>1, <1>2
<1>3. ASSUME NEW p \in Procs, NEW j \in Jobs, Commit(p, j)
      PROVE  committed[k] <= committed'[k]
  <2>1. /\ committed'[j] = token[p][j] /\ token[p][j] = lease[j].token
        /\ \A i \in Jobs : i # j => committed'[i] = committed[i]
        /\ token[p][j] # 0
    BY <1>3 DEF Commit, TypeOK, LeaseInv, CheckedKeepsLease, TokenInv, Running
  <2> QED BY <1>1, <2>1 DEF LeaseInv, TokenInv
<1>4. UNCHANGED committed \/ \E p \in Procs, j \in Jobs : Commit(p, j)
  BY DEF Next, vars, PassStep, FaultStep, Tick, Admit, Stop, ClaimLease, SkipTick, ClaimFails,
         LeaseExpires, RenewalFindsLoss, RenewalOverdue, BeginTransaction, AssertLeasesHeld,
         FinishPass, ReleaseLease, ReleaseFails, Restart, SetMaintenance
<1> QED BY <1>2, <1>3, <1>4

\* Tokens come from the counter of their job, so that two passes never have the
\* same one.
TokensApart ==
  /\ \A p \in Procs, j \in Jobs : token[p][j] <= issued[j]
  /\ \A p, q \in Procs, j \in Jobs : p # q /\ token[p][j] # 0 => token[p][j] # token[q][j]

LEMMA TokensInit == Init => TokensApart
BY DEF Init, TokensApart

LEMMA TokensNext == TypeOK /\ TokensApart /\ [Next]_vars => TokensApart'
<1> SUFFICES ASSUME TypeOK, TokensApart, [Next]_vars PROVE TokensApart'
  OBVIOUS
<1>1. /\ token \in [Procs -> [Jobs -> Nat]] /\ issued \in [Jobs -> Nat]
  BY DEF TypeOK
<1>2. \A j \in Jobs : Take(j) => \A k \in Jobs : issued[k] <= issued'[k]
  BY <1>1 DEF Take
<1>3. ASSUME NEW p \in Procs, NEW j \in Jobs, ClaimLease(p, j)
      PROVE  TokensApart'
  <2>1. /\ issued'[j] = issued[j] + 1 /\ token'[p][j] = issued[j] + 1
        /\ \A k \in Jobs : k # j => issued'[k] = issued[k]
        /\ \A q \in Procs, k \in Jobs : q # p \/ k # j => token'[q][k] = token[q][k]
    BY <1>1, <1>3 DEF ClaimLease, Take
  <2>2. \A q \in Procs, k \in Jobs : token[q][k] \in Nat /\ issued[k] \in Nat
    BY <1>1
  <2> QED BY <2>1, <2>2 DEF TokensApart
<1>4. ASSUME \A q \in Procs, k \in Jobs : token'[q][k] \in {token[q][k], 0},
             \A k \in Jobs : issued[k] <= issued'[k] /\ issued'[k] \in Nat
      PROVE  TokensApart'
  <2>1. \A q \in Procs, k \in Jobs : token[q][k] \in Nat /\ issued[k] \in Nat
    BY <1>1
  <2> QED BY <1>4, <2>1 DEF TokensApart
<1>5. CASE UNCHANGED <<token, issued>>
  BY <1>1, <1>4, <1>5
<1>6. ASSUME NEW p \in Procs, NEW j \in Jobs, ClaimFails(p, j) PROVE TokensApart'
  <2>1. UNCHANGED token /\ (UNCHANGED issued \/ Take(j))
    BY <1>6 DEF ClaimFails
  <2>2. \A k \in Jobs : issued[k] <= issued'[k] /\ issued'[k] \in Nat
    BY <1>1, <2>1 DEF Take
  <2> QED BY <1>4, <2>1, <2>2
<1>7. ASSUME NEW p \in Procs, NEW j \in Jobs, ReleaseLease(p, j) \/ ReleaseFails(p, j)
      PROVE  TokensApart'
  <2>1. token' = [token EXCEPT ![p][j] = 0] /\ UNCHANGED issued
    BY <1>7 DEF ReleaseLease, ReleaseFails
  <2>2. \A q \in Procs, k \in Jobs : token'[q][k] \in {token[q][k], 0}
    BY <1>1, <2>1
  <2> QED BY <1>1, <1>4, <2>1, <2>2
<1>8. ASSUME NEW p \in Procs, Restart(p) PROVE TokensApart'
  <2>1. token' = [token EXCEPT ![p] = [j \in Jobs |-> 0]] /\ UNCHANGED issued
    BY <1>8 DEF Restart
  <2>2. \A q \in Procs, k \in Jobs : token'[q][k] \in {token[q][k], 0}
    BY <1>1, <2>1
  <2> QED BY <1>1, <1>4, <2>1, <2>2
<1> QED BY <1>3, <1>5, <1>6, <1>7, <1>8
        DEF Next, vars, PassStep, FaultStep, Tick, Admit, Stop, SkipTick, LeaseExpires,
            RenewalFindsLoss, RenewalOverdue, BeginTransaction, AssertLeasesHeld, Commit,
            FinishPass, SetMaintenance

\* A transaction past the fence keeps its lease until it commits and is the only
\* one of its job there, and commits of a job are in the order of their leases
\* (withLeaderLock, assertLeasesHeld).
THEOREM LeaseFencing == Spec => LeasesFence
<1>1. LeaseInv => TypeOK /\ CheckedKeepsLease
  BY DEF LeaseInv
<1>2. LeaseInv /\ TokensApart => OneAtTheFence
  <2> SUFFICES ASSUME LeaseInv, TokensApart, NEW p \in Procs, NEW q \in Procs, NEW j \in Jobs,
                      pass[p][j] = "checked", pass[q][j] = "checked", p # q
               PROVE  FALSE
    BY DEF OneAtTheFence
  <2>1. token[p][j] = lease[j].token /\ token[q][j] = lease[j].token /\ token[p][j] # 0
    BY DEF LeaseInv, CheckedKeepsLease, TokenInv, Running
  <2> QED BY <2>1 DEF TokensApart
<1> QED BY <1>1, <1>2, LeaseInit, LeaseNext, TokensInit, TokensNext, CommitOrder, PTL
        DEF Spec, LeasesFence
-----------------------------------------------------------------------------
(* The lanes, as operators on the passes f of one process and the queue w of *)
(* one of its lanes.                                                         *)

Holding(f, lane) == {j \in LaneJobs(lane) : f[j] \in HoldsSlot}
Waiting(f, lane) == {j \in LaneJobs(lane) : f[j] = "queued"}

LaneOK(f, w, lane) ==
  /\ Cardinality(Holding(f, lane)) <= Slots
  /\ w # <<>> => Cardinality(Holding(f, lane)) = Slots
  /\ \A i, k \in DOMAIN w : w[i] = w[k] => i = k
  /\ {w[i] : i \in DOMAIN w} = Waiting(f, lane)

LEMMA SlotsByLane ==
  SlotsUsed <=> \A p \in Procs, lane \in Lanes : LaneOK(pass[p], queue[p][lane], lane)
<1>1. \A p, lane : Active(p, lane) = Holding(pass[p], lane)
  BY DEF Active, Holding, LaneJobs
<1>2. \A p, lane : {j \in Jobs : LaneOf(j) = lane /\ pass[p][j] = "queued"}
                     = Waiting(pass[p], lane)
  BY DEF Waiting, LaneJobs
<1> QED BY <1>1, <1>2 DEF SlotsUsed, LaneOK

LEMMA SlotsByLaneNext ==
  (\A p \in Procs, lane \in Lanes : LaneOK(pass'[p], queue'[p][lane], lane)) => SlotsUsed'
<1>1. \A p, lane : Active(p, lane)' = Holding(pass'[p], lane)
  BY DEF Active, Holding, LaneJobs
<1>2. \A p, lane : {j \in Jobs : LaneOf(j) = lane /\ pass'[p][j] = "queued"}
                     = Waiting(pass'[p], lane)
  BY DEF Waiting, LaneJobs
<1> QED BY <1>1, <1>2 DEF SlotsUsed, LaneOK

LEMMA HoldingFinite ==
  ASSUME JobsAssumption, NEW f, NEW lane
  PROVE  IsFiniteSet(Holding(f, lane)) /\ Cardinality(Holding(f, lane)) \in Nat
<1>1. Holding(f, lane) \subseteq Jobs
  BY DEF Holding, LaneJobs
<1> QED BY <1>1, FS_Subset, FS_CardinalityType DEF JobsAssumption

\* A pass of another lane, or one that keeps its slot, does not disturb a lane.
LEMMA LaneKeep ==
  ASSUME NEW f, NEW g, NEW w, NEW lane, LaneOK(f, w, lane),
         \A j \in LaneJobs(lane) : /\ f[j] \in HoldsSlot <=> g[j] \in HoldsSlot
                                   /\ f[j] = "queued" <=> g[j] = "queued"
  PROVE  LaneOK(g, w, lane)
<1>1. Holding(g, lane) = Holding(f, lane) /\ Waiting(g, lane) = Waiting(f, lane)
  BY DEF Holding, Waiting
<1> QED BY <1>1 DEF LaneOK

\* A pass that finds a free slot takes it: nobody waits then.
LEMMA LaneGrant ==
  ASSUME JobsAssumption, BoundsAssumption, NEW f \in [Jobs -> Stages], NEW w, NEW lane,
         LaneOK(f, w, lane), NEW j \in LaneJobs(lane), f[j] = "off",
         Cardinality(Holding(f, lane)) < Slots
  PROVE  LaneOK([f EXCEPT ![j] = "granted"], w, lane)
<1> DEFINE g == [f EXCEPT ![j] = "granted"]
<1>1. Holding(g, lane) = Holding(f, lane) \union {j} /\ j \notin Holding(f, lane)
  BY DEF Holding, HoldsSlot, LaneJobs
<1>2. Waiting(g, lane) = Waiting(f, lane)
  BY DEF Waiting, LaneJobs
<1>3. Cardinality(Holding(g, lane)) = Cardinality(Holding(f, lane)) + 1
  BY <1>1, HoldingFinite, FS_AddElement
<1>4. w = <<>>
  BY HoldingFinite DEF LaneOK, BoundsAssumption
<1> HIDE DEF g
<1> QED
  <2>1. Cardinality(Holding(g, lane)) <= Slots
    BY <1>3, HoldingFinite DEF BoundsAssumption
  <2>2. LaneOK(g, w, lane)
    BY <1>2, <1>4, <2>1 DEF LaneOK
  <2> QED BY <2>2 DEF g

\* A pass that finds none waits at the end of the queue.
LEMMA LaneEnqueue ==
  ASSUME JobsAssumption, BoundsAssumption, NEW f \in [Jobs -> Stages], NEW lane,
         NEW w \in Seq(LaneJobs(lane)), LaneOK(f, w, lane), NEW j \in LaneJobs(lane),
         f[j] = "off", ~(Cardinality(Holding(f, lane)) < Slots)
  PROVE  LaneOK([f EXCEPT ![j] = "queued"], Append(w, j), lane)
<1> DEFINE g == [f EXCEPT ![j] = "queued"]
           v == Append(w, j)
<1>1. Holding(g, lane) = Holding(f, lane)
  BY DEF Holding, HoldsSlot, LaneJobs
<1>2. Waiting(g, lane) = Waiting(f, lane) \union {j} /\ j \notin Waiting(f, lane)
  BY DEF Waiting, LaneJobs
<1>3. Cardinality(Holding(f, lane)) = Slots
  BY HoldingFinite DEF LaneOK, BoundsAssumption
<1>4. /\ v \in Seq(LaneJobs(lane)) /\ DOMAIN v = 1 .. Len(w) + 1 /\ DOMAIN w = 1 .. Len(w)
      /\ v[Len(w) + 1] = j /\ Len(w) \in Nat
      /\ \A i \in 1 .. Len(w) : v[i] = w[i] /\ w[i] \in Waiting(f, lane)
  BY DEF LaneOK
<1> HIDE DEF g, v
<1>5. \A i, k \in DOMAIN v : v[i] = v[k] => i = k
  BY <1>2, <1>4 DEF LaneOK
<1>6. {v[i] : i \in DOMAIN v} = Waiting(g, lane)
  <2>1. {v[i] : i \in DOMAIN v} = {w[i] : i \in DOMAIN w} \union {j}
    BY <1>4
  <2> QED BY <1>2, <2>1 DEF LaneOK
<1>7. LaneOK(g, v, lane)
  BY <1>1, <1>3, <1>5, <1>6 DEF LaneOK, BoundsAssumption
<1> QED BY <1>7 DEF g, v

\* A pass ends and nobody waits: its slot is free.
LEMMA LaneFree ==
  ASSUME JobsAssumption, BoundsAssumption, NEW f \in [Jobs -> Stages], NEW lane,
         LaneOK(f, <<>>, lane), NEW j \in LaneJobs(lane), f[j] \in HoldsSlot
  PROVE  LaneOK([f EXCEPT ![j] = "off"], <<>>, lane)
<1> DEFINE g == [f EXCEPT ![j] = "off"]
<1>1. Holding(g, lane) = Holding(f, lane) \ {j} /\ j \in Holding(f, lane)
  BY DEF Holding, HoldsSlot, LaneJobs
<1>2. Waiting(g, lane) = Waiting(f, lane)
  BY DEF Waiting, LaneJobs, HoldsSlot
<1>3. Cardinality(Holding(g, lane)) = Cardinality(Holding(f, lane)) - 1
  BY <1>1, HoldingFinite, FS_RemoveElement
<1> HIDE DEF g
<1>4. LaneOK(g, <<>>, lane)
  BY <1>2, <1>3, HoldingFinite DEF LaneOK, BoundsAssumption
<1> QED BY <1>4 DEF g

\* A pass ends and its slot goes to the first waiter: as many hold one as before.
LEMMA LaneHandover ==
  ASSUME JobsAssumption, BoundsAssumption, NEW f \in [Jobs -> Stages], NEW lane,
         NEW w \in Seq(LaneJobs(lane)), w # <<>>, LaneOK(f, w, lane),
         NEW j \in LaneJobs(lane), f[j] \in HoldsSlot
  PROVE  LaneOK([f EXCEPT ![j] = "off", ![Head(w)] = "granted"], Tail(w), lane)
<1> DEFINE h == Head(w)
           g == [f EXCEPT ![j] = "off", ![h] = "granted"]
           v == Tail(w)
           rest == Holding(f, lane) \ {j}
<1>1. h \in LaneJobs(lane) /\ h \in Waiting(f, lane) /\ h # j
  <2>1. 1 \in DOMAIN w /\ h = w[1] /\ h \in LaneJobs(lane)
    OBVIOUS
  <2>2. h \in Waiting(f, lane)
    BY <2>1 DEF LaneOK
  <2> QED BY <2>1, <2>2 DEF Waiting, HoldsSlot
<1>2. /\ DOMAIN w = 1 .. Len(w) /\ Len(w) \in Nat \ {0} /\ w[1] = h
      /\ v \in Seq(LaneJobs(lane)) /\ DOMAIN v = 1 .. Len(w) - 1
      /\ \A i \in 1 .. Len(w) - 1 : v[i] = w[i + 1]
  OBVIOUS
<1> HIDE DEF h, v
<1>3. Holding(g, lane) = rest \union {h} /\ h \notin rest /\ j \in Holding(f, lane)
  BY <1>1 DEF Holding, HoldsSlot, LaneJobs, Waiting
<1>4. Waiting(g, lane) = Waiting(f, lane) \ {h}
  BY <1>1 DEF Waiting, LaneJobs, HoldsSlot
<1> HIDE DEF g
<1>5. Cardinality(Holding(g, lane)) = Slots
  <2>1. Cardinality(Holding(f, lane)) = Slots /\ Slots \in Nat
    BY DEF LaneOK, BoundsAssumption
  <2>2. IsFiniteSet(Holding(f, lane))
    BY HoldingFinite
  <2>3. IsFiniteSet(rest) /\ Cardinality(rest) = Slots - 1
    BY <1>3, <2>1, <2>2, FS_RemoveElement
  <2> HIDE DEF rest
  <2>4. Cardinality(rest \union {h}) = Cardinality(rest) + 1
    BY <1>3, <2>3, FS_AddElement
  <2> QED BY <1>3, <2>1, <2>3, <2>4
<1>6. \A i, k \in DOMAIN v : v[i] = v[k] => i = k
  <2> SUFFICES ASSUME NEW i \in DOMAIN v, NEW k \in DOMAIN v, v[i] = v[k] PROVE i = k
    OBVIOUS
  <2>1. i + 1 \in DOMAIN w /\ k + 1 \in DOMAIN w /\ w[i + 1] = w[k + 1]
    BY <1>2
  <2>2. i + 1 = k + 1
    BY <2>1 DEF LaneOK
  <2> QED BY <1>2, <2>2
<1>7. {v[i] : i \in DOMAIN v} = Waiting(g, lane)
  <2>1. {v[i] : i \in DOMAIN v} \subseteq {w[i] : i \in DOMAIN w} \ {h}
    <3> SUFFICES ASSUME NEW i \in DOMAIN v PROVE v[i] \in {w[k] : k \in DOMAIN w} \ {h}
      OBVIOUS
    <3>1. i + 1 \in DOMAIN w /\ i + 1 # 1 /\ 1 \in DOMAIN w /\ v[i] = w[i + 1]
      BY <1>2
    <3>2. w[i + 1] # w[1]
      BY <3>1 DEF LaneOK
    <3> QED BY <1>2, <3>1, <3>2
  <2>2. {w[i] : i \in DOMAIN w} \ {h} \subseteq {v[i] : i \in DOMAIN v}
    <3> SUFFICES ASSUME NEW i \in DOMAIN w, w[i] # h PROVE w[i] \in {v[k] : k \in DOMAIN v}
      OBVIOUS
    <3>1. i - 1 \in DOMAIN v /\ v[i - 1] = w[i]
      BY <1>2
    <3> QED BY <3>1
  <2> QED BY <1>4, <2>1, <2>2 DEF LaneOK
<1>8. LaneOK(g, v, lane)
  BY <1>5, <1>6, <1>7 DEF LaneOK, BoundsAssumption
<1> QED BY <1>8 DEF g, v, h

\* No pass of the lane waits any more, and none has taken a slot.
LEMMA LaneClear ==
  ASSUME JobsAssumption, BoundsAssumption, NEW f, NEW g, NEW w, NEW lane, LaneOK(f, w, lane),
         \A j \in LaneJobs(lane) : /\ g[j] # "queued"
                                   /\ g[j] \in HoldsSlot => f[j] \in HoldsSlot
  PROVE  LaneOK(g, <<>>, lane)
<1>1. Holding(g, lane) \subseteq Holding(f, lane)
  BY DEF Holding
<1>2. Cardinality(Holding(g, lane)) <= Cardinality(Holding(f, lane))
  BY <1>1, HoldingFinite, FS_Subset
<1>3. Cardinality(Holding(g, lane)) <= Slots
  BY <1>2, HoldingFinite DEF LaneOK, BoundsAssumption
<1>4. Waiting(g, lane) = {}
  BY DEF Waiting
<1> QED BY <1>3, <1>4 DEF LaneOK
-----------------------------------------------------------------------------
(* Admission.                                                               *)

AdmissionInv == TypeOK /\ SlotsUsed

\* A step in which no pass of another process moves, and this process's lanes
\* stay as they should be, keeps every lane so.
LEMMA OneProcess ==
  ASSUME SlotsUsed, NEW p \in Procs,
         \A q \in Procs : q # p => pass'[q] = pass[q] /\ queue'[q] = queue[q],
         \A lane \in Lanes : LaneOK(pass'[p], queue'[p][lane], lane)
  PROVE  SlotsUsed'
<1>1. \A q \in Procs, lane \in Lanes : LaneOK(pass'[q], queue'[q][lane], lane)
  <2> SUFFICES ASSUME NEW q \in Procs, NEW lane \in Lanes
               PROVE  LaneOK(pass'[q], queue'[q][lane], lane)
    OBVIOUS
  <2>1. CASE q = p
    BY <2>1
  <2>2. CASE q # p
    <3>1. pass'[q] = pass[q] /\ queue'[q][lane] = queue[q][lane]
      BY <2>2
    <3> QED BY <3>1, SlotsByLane
  <2> QED BY <2>1, <2>2
<1> QED BY <1>1, SlotsByLaneNext

\* A pass moves on with its slot.
LEMMA SlotsMove ==
  ASSUME TypeOK, SlotsUsed, NEW p \in Procs, NEW j \in Jobs, NEW stage \in HoldsSlot,
         pass[p][j] \in HoldsSlot, Goto(p, j, stage), UNCHANGED queue
  PROVE  SlotsUsed'
<1>1. /\ pass'[p] = [pass[p] EXCEPT ![j] = stage]
      /\ \A q \in Procs : q # p => pass'[q] = pass[q]
      /\ pass[p] \in [Jobs -> Stages]
  BY DEF Goto, TypeOK
<1>2. \A lane \in Lanes : LaneOK(pass'[p], queue'[p][lane], lane)
  <2> SUFFICES ASSUME NEW lane \in Lanes PROVE LaneOK(pass'[p], queue[p][lane], lane)
    OBVIOUS
  <2>1. LaneOK(pass[p], queue[p][lane], lane)
    BY SlotsByLane
  <2>2. \A k \in LaneJobs(lane) : /\ pass[p][k] \in HoldsSlot <=> pass'[p][k] \in HoldsSlot
                                  /\ pass[p][k] = "queued" <=> pass'[p][k] = "queued"
    BY <1>1 DEF LaneJobs, HoldsSlot
  <2> QED BY <2>1, <2>2, LaneKeep
<1> QED BY <1>1, <1>2, OneProcess

\* A pass that changes one lane: the other lane of the process is not disturbed.
LEMMA OneLane ==
  ASSUME TypeOK, SlotsUsed, NEW p \in Procs, NEW lane \in Lanes,
         \A q \in Procs : q # p => pass'[q] = pass[q] /\ queue'[q] = queue[q],
         \A l \in Lanes : l # lane => queue'[p][l] = queue[p][l],
         \A k \in Jobs : LaneOf(k) # lane => pass'[p][k] = pass[p][k],
         LaneOK(pass'[p], queue'[p][lane], lane)
  PROVE  SlotsUsed'
<1>1. \A l \in Lanes : LaneOK(pass'[p], queue'[p][l], l)
  <2> SUFFICES ASSUME NEW l \in Lanes, l # lane
               PROVE  LaneOK(pass'[p], queue'[p][l], l)
    OBVIOUS
  <2>1. LaneOK(pass[p], queue[p][l], l) /\ queue'[p][l] = queue[p][l]
    BY SlotsByLane
  <2>2. \A k \in LaneJobs(l) : pass'[p][k] = pass[p][k]
    BY DEF LaneJobs
  <2> QED BY <2>1, <2>2, LaneKeep
<1> QED BY <1>1, OneProcess

LEMMA SlotsTick ==
  ASSUME JobsAssumption, BoundsAssumption, TypeOK, SlotsUsed, NEW p \in Procs, NEW j \in Jobs,
         Tick(p, j)
  PROVE  SlotsUsed'
<1> DEFINE lane == LaneOf(j)
           f == pass[p]
           w == queue[p][lane]
<1>1. /\ lane \in Lanes /\ j \in LaneJobs(lane) /\ f \in [Jobs -> Stages]
      /\ w \in Seq(LaneJobs(lane)) /\ f[j] = "off"
      /\ queue \in [Procs -> [Lanes -> Seq(Jobs)]] /\ pass \in Passes
  BY LaneFacts, TypeParts DEF QueueOK, Passes, Tick
<1>2. LaneOK(f, w, lane) /\ Active(p, lane) = Holding(f, lane)
  BY <1>1, SlotsByLane DEF Active, Holding, LaneJobs
<1>3. CASE Cardinality(Active(p, lane)) < Slots
  <2>1. pass' = [pass EXCEPT ![p][j] = "granted"] /\ queue' = queue
    BY <1>3 DEF Tick, Goto
  <2>2. pass'[p] = [f EXCEPT ![j] = "granted"]
    BY <1>1, <2>1 DEF Passes
  <2>3. LaneOK(pass'[p], queue'[p][lane], lane)
    BY <1>1, <1>2, <1>3, <2>1, <2>2, LaneGrant
  <2>4. \A q \in Procs : q # p => pass'[q] = pass[q]
    BY <1>1, <2>1 DEF Passes
  <2>5. \A k \in Jobs : LaneOf(k) # lane => pass'[p][k] = pass[p][k]
    BY <1>1, <2>2
  <2> HIDE DEF lane, w, f
  <2> QED BY <1>1, <2>1, <2>3, <2>4, <2>5, OneLane
<1>4. CASE ~(Cardinality(Active(p, lane)) < Slots)
  <2>1. pass' = [pass EXCEPT ![p][j] = "queued"]
        /\ queue' = [queue EXCEPT ![p][lane] = Append(@, j)]
    BY <1>4 DEF Tick, Goto
  <2>2. pass'[p] = [f EXCEPT ![j] = "queued"] /\ queue'[p][lane] = Append(w, j)
    BY <1>1, <2>1 DEF Passes
  <2>3. LaneOK(pass'[p], queue'[p][lane], lane)
    <3>1. ~(Cardinality(Holding(f, lane)) < Slots)
      BY <1>2, <1>4
    <3> HIDE DEF f, w, lane
    <3>2. LaneOK([f EXCEPT ![j] = "queued"], Append(w, j), lane)
      BY <1>1, <1>2, <3>1, LaneEnqueue
    <3> QED BY <2>2, <3>2
  <2>4. \A q \in Procs : q # p => pass'[q] = pass[q] /\ queue'[q] = queue[q]
    BY <1>1, <2>1 DEF Passes
  <2>5. \A k \in Jobs : LaneOf(k) # lane => pass'[p][k] = pass[p][k]
    BY <1>1, <2>2
  <2>6. \A l \in Lanes : l # lane => queue'[p][l] = queue[p][l]
    BY <1>1, <2>1
  <2> HIDE DEF lane, w, f
  <2> QED BY <1>1, <2>3, <2>4, <2>5, <2>6, OneLane
<1> QED BY <1>3, <1>4

LEMMA SlotsEnd ==
  ASSUME JobsAssumption, BoundsAssumption, TypeOK, SlotsUsed, NEW p \in Procs, NEW j \in Jobs,
         pass[p][j] \in HoldsSlot, EndPass(p, j)
  PROVE  SlotsUsed'
<1> DEFINE lane == LaneOf(j)
           f == pass[p]
           w == queue[p][lane]
<1>1. /\ lane \in Lanes /\ j \in LaneJobs(lane) /\ f \in [Jobs -> Stages]
      /\ w \in Seq(LaneJobs(lane)) /\ f[j] \in HoldsSlot
      /\ queue \in [Procs -> [Lanes -> Seq(Jobs)]] /\ pass \in Passes
  BY LaneFacts, TypeParts DEF QueueOK, Passes
<1>2. LaneOK(f, w, lane)
  BY <1>1, SlotsByLane
<1>3. CASE w = <<>>
  <2>1. pass' = [pass EXCEPT ![p][j] = "off"] /\ queue' = queue
    BY <1>3 DEF EndPass
  <2>2. pass'[p] = [f EXCEPT ![j] = "off"]
    BY <1>1, <2>1 DEF Passes
  <2>3. LaneOK(pass'[p], queue'[p][lane], lane)
    BY <1>1, <1>2, <1>3, <2>1, <2>2, LaneFree
  <2>4. \A q \in Procs : q # p => pass'[q] = pass[q]
    BY <1>1, <2>1 DEF Passes
  <2>5. \A k \in Jobs : LaneOf(k) # lane => pass'[p][k] = pass[p][k]
    BY <1>1, <2>2
  <2> HIDE DEF lane, w, f
  <2> QED BY <1>1, <2>1, <2>3, <2>4, <2>5, OneLane
<1>4. CASE w # <<>>
  <2>1. /\ pass' = [pass EXCEPT ![p][j] = "off", ![p][Head(w)] = "granted"]
        /\ queue' = [queue EXCEPT ![p][lane] = Tail(@)]
    BY <1>4 DEF EndPass
  <2>h. Head(w) \in LaneJobs(lane)
    BY <1>1, <1>4
  <2>2. pass'[p] = [f EXCEPT ![j] = "off", ![Head(w)] = "granted"]
    BY <1>1, <2>1, <2>h DEF Passes, LaneJobs
  <2>3. queue'[p][lane] = Tail(w)
    BY <1>1, <2>1
  <2>4. LaneOK(pass'[p], queue'[p][lane], lane)
    <3> HIDE DEF f, w, lane
    <3>1. LaneOK([f EXCEPT ![j] = "off", ![Head(w)] = "granted"], Tail(w), lane)
      BY <1>1, <1>2, <1>4, LaneHandover
    <3> QED BY <2>2, <2>3, <3>1
  <2>5. \A q \in Procs : q # p => pass'[q] = pass[q] /\ queue'[q] = queue[q]
    BY <1>1, <2>1 DEF Passes
  <2>6. \A k \in Jobs : LaneOf(k) # lane => pass'[p][k] = pass[p][k]
    BY <1>1, <2>2, <2>h DEF LaneJobs
  <2>7. \A l \in Lanes : l # lane => queue'[p][l] = queue[p][l]
    BY <1>1, <2>1
  <2> HIDE DEF lane, w, f
  <2> QED BY <1>1, <2>4, <2>5, <2>6, <2>7, OneLane
<1> QED BY <1>3, <1>4

\* stop() and a restart empty the queues of a process.
LEMMA SlotsClear ==
  ASSUME JobsAssumption, BoundsAssumption, TypeOK, SlotsUsed, NEW p \in Procs,
         Stop(p) \/ Restart(p)
  PROVE  SlotsUsed'
<1>1. pass \in Passes /\ queue \in [Procs -> [Lanes -> Seq(Jobs)]]
  BY TypeParts DEF QueueOK
<1>2. \A q \in Procs : q # p => pass'[q] = pass[q] /\ queue'[q] = queue[q]
  BY <1>1 DEF Stop, Restart, Passes
<1>3. \A k \in Jobs : /\ pass'[p][k] # "queued"
                      /\ pass'[p][k] \in HoldsSlot => pass[p][k] \in HoldsSlot
  <2>1. CASE Stop(p)
    BY <1>1, <2>1 DEF Stop, Passes, HoldsSlot
  <2>2. CASE Restart(p)
    BY <1>1, <2>2 DEF Restart, Passes, HoldsSlot
  <2> QED BY <2>1, <2>2
<1>4. \A lane \in Lanes : queue'[p][lane] = <<>>
  BY <1>1 DEF Stop, Restart
<1>5. \A lane \in Lanes : LaneOK(pass'[p], queue'[p][lane], lane)
  <2> SUFFICES ASSUME NEW lane \in Lanes PROVE LaneOK(pass'[p], <<>>, lane)
    BY <1>4
  <2>1. LaneOK(pass[p], queue[p][lane], lane)
    BY SlotsByLane
  <2> QED BY <1>3, <2>1, LaneClear DEF LaneJobs
<1> QED BY <1>2, <1>5, OneProcess

LEMMA AdmissionInit ==
  ASSUME BoundsAssumption, Init PROVE AdmissionInv
<1>1. \A p \in Procs, lane \in Lanes : LaneOK(pass[p], queue[p][lane], lane)
  <2> SUFFICES ASSUME NEW p \in Procs, NEW lane \in Lanes
               PROVE  LaneOK(pass[p], queue[p][lane], lane)
    OBVIOUS
  <2>1. Holding(pass[p], lane) = {} /\ Waiting(pass[p], lane) = {} /\ queue[p][lane] = <<>>
    BY DEF Init, Holding, Waiting, HoldsSlot, LaneJobs
  <2> QED BY <2>1, FS_EmptySet DEF LaneOK, BoundsAssumption
<1> QED BY <1>1, SlotsByLane, TypeInit DEF AdmissionInv

LEMMA AdmissionNext ==
  ASSUME JobsAssumption, BoundsAssumption, AdmissionInv, [Next]_vars PROVE AdmissionInv'
<1>T. TypeOK /\ TypeOK' /\ SlotsUsed
  BY TypeNext DEF AdmissionInv
<1> SUFFICES SlotsUsed'
  BY <1>T DEF AdmissionInv
<1>0. CASE UNCHANGED <<pass, queue>>
  BY <1>0, <1>T, SlotsByLane, SlotsByLaneNext
<1>1. ASSUME NEW p \in Procs, NEW j \in Jobs, Tick(p, j) PROVE SlotsUsed'
  BY <1>1, <1>T, SlotsTick
<1>2. ASSUME NEW p \in Procs, NEW j \in Jobs, Admit(p, j) PROVE SlotsUsed'
  BY <1>2, <1>T, SlotsEnd, SlotsMove DEF Admit, HoldsSlot
<1>3. ASSUME NEW p \in Procs, Stop(p) \/ Restart(p) PROVE SlotsUsed'
  BY <1>3, <1>T, SlotsClear
<1>4. ASSUME NEW p \in Procs, NEW j \in Jobs,
             SkipTick(p, j) \/ ClaimFails(p, j) \/ ReleaseLease(p, j) \/ ReleaseFails(p, j)
      PROVE  SlotsUsed'
  <2>1. pass[p][j] \in HoldsSlot /\ EndPass(p, j)
    BY <1>4 DEF SkipTick, ClaimFails, ReleaseLease, ReleaseFails, HoldsSlot
  <2> QED BY <1>T, <2>1, SlotsEnd
<1>5. ASSUME NEW p \in Procs, NEW j \in Jobs,
             \/ ClaimLease(p, j) \/ BeginTransaction(p, j) \/ AssertLeasesHeld(p, j)
             \/ Commit(p, j) \/ FinishPass(p, j)
      PROVE  SlotsUsed'
  <2>1. /\ pass[p][j] \in HoldsSlot /\ queue' = queue
        /\ \E stage \in HoldsSlot : Goto(p, j, stage)
    BY <1>5 DEF ClaimLease, BeginTransaction, AssertLeasesHeld, Commit, FinishPass, HoldsSlot
  <2> QED BY <1>T, <2>1, SlotsMove
<1> QED
  BY <1>0, <1>1, <1>2, <1>3, <1>4, <1>5
  DEF Next, vars, PassStep, FaultStep, LeaseExpires, RenewalFindsLoss, RenewalOverdue,
      SetMaintenance

\* A stopped process only ends passes: a waiter that is handed a slot after
\* stop() finds it and gives the slot on.
LEMMA StopQuiet == TypeOK /\ [Next]_vars => StopIsQuiet
<1> SUFFICES ASSUME TypeOK, [Next]_vars, NEW r \in Procs, stopped[r], stopped'[r], NEW k \in Jobs,
                    pass'[r][k] \in HoldsSlot \ {"granted"}
             PROVE  pass[r][k] \in HoldsSlot \ {"granted"}
  BY DEF StopIsQuiet, Admitted
<1>0. CASE pass' = pass
  BY <1>0
<1>1. ASSUME NEW p \in Procs, NEW j \in Jobs, EndPass(p, j)
      PROVE  pass[r][k] \in HoldsSlot \ {"granted"}
  BY <1>1, EndPassFacts DEF HoldsSlot
<1>2. ASSUME NEW p \in Procs, NEW j \in Jobs, NEW stage \in Stages, Goto(p, j, stage),
             \/ stage \in {"granted", "queued"}
             \/ pass[p][j] \in HoldsSlot \ {"granted"} \/ ~stopped[p]
      PROVE  pass[r][k] \in HoldsSlot \ {"granted"}
  BY <1>2, GotoFacts DEF HoldsSlot
<1>3. ASSUME NEW p \in Procs, Stop(p) \/ Restart(p)
      PROVE  pass[r][k] \in HoldsSlot \ {"granted"}
  <2>1. p # r
    BY <1>3 DEF Stop, Restart, TypeOK
  <2>2. pass'[r] = pass[r]
    BY <1>3, <2>1 DEF Stop, Restart, TypeOK
  <2> QED BY <2>2
<1>4. ASSUME NEW p \in Procs, NEW j \in Jobs,
             \/ Tick(p, j) \/ PassStep(p, j) \/ BeginTransaction(p, j)
             \/ RenewalFindsLoss(p, j) \/ FaultStep(p, j)
      PROVE  pass[r][k] \in HoldsSlot \ {"granted"}
  <2>1. CASE Tick(p, j)
    BY <2>1, <1>2 DEF Tick, Stages
  <2>2. CASE Admit(p, j)
    BY <2>2, <1>1, <1>2 DEF Admit, Stages
  <2>3. CASE SkipTick(p, j) \/ ClaimFails(p, j) \/ ReleaseLease(p, j) \/ ReleaseFails(p, j)
    BY <2>3, <1>1 DEF SkipTick, ClaimFails, ReleaseLease, ReleaseFails
  <2>4. CASE \/ ClaimLease(p, j) \/ BeginTransaction(p, j) \/ AssertLeasesHeld(p, j)
             \/ Commit(p, j) \/ FinishPass(p, j)
    BY <2>4, <1>2 DEF ClaimLease, BeginTransaction, AssertLeasesHeld, Commit, FinishPass,
                      Stages, HoldsSlot
  <2>5. CASE RenewalFindsLoss(p, j) \/ RenewalOverdue(p, j)
    BY <2>5, <1>0 DEF RenewalFindsLoss, RenewalOverdue
  <2> QED BY <1>4, <2>1, <2>2, <2>3, <2>4, <2>5 DEF PassStep, FaultStep
<1> QED
  BY <1>0, <1>3, <1>4 DEF Next, vars, LeaseExpires, SetMaintenance

\* A lane never overfills its slots, never lets a pass wait beside a free one and
\* loses no waiter; after stop() a process admits nothing (Semaphore, stop).
THEOREM AdmissionOrder ==
  ASSUME JobsAssumption, BoundsAssumption
  PROVE  Spec => AdmissionIsOrderly
<1>1. Init => AdmissionInv
  BY AdmissionInit
<1>2. AdmissionInv /\ [Next]_vars => AdmissionInv'
  BY AdmissionNext
<1>3. AdmissionInv => TypeOK /\ SlotsUsed
  BY DEF AdmissionInv
<1>4. AdmissionInv /\ [Next]_vars => StopIsQuiet
  BY StopQuiet DEF AdmissionInv
<1> QED BY <1>1, <1>2, <1>3, <1>4, PTL DEF Spec, AdmissionIsOrderly

-----------------------------------------------------------------------------
(* THE CATALOG DIRECTORY                                                    *)

PubRec == [pc : {"idle", "check", "claim", "stage", "clean", "seal", "sync", "rename", "syncroot"},
           prev : 0 .. MaxGen, reuse : 0 .. MaxGen, gen : 0 .. MaxGen]
LeasedStores == {StoreOf[r] : r \in Publishers}

Typed ==
    /\ dir \in [Gens -> {"none", "staging", "complete", "lost"}] /\ madeBy \in [Gens -> LeasedStores \cup {None}]
    /\ aged \subseteq Gens /\ synced \subseteq Gens /\ removed \subseteq Gens
    /\ next \in 0 .. MaxGen /\ current \in 0 .. next /\ disk \in 0 .. next
    /\ owner \in LeasedStores \cup {None, Torn} /\ pubLease \in [LeasedStores -> SUBSET Publishers]
    /\ pub \in [Publishers -> PubRec] /\ loss \in Nat

Staged == {"clean", "seal", "sync", "rename", "syncroot"}
PastClaim == {"stage"} \cup Staged

\* The owner changes only by a power loss once it is known, and all that is staged or current is the owner's.
OwnerOf(r) ==
    /\ pub[r].pc \in PastClaim => owner = StoreOf[r]
    /\ pub[r].pc \in Staged => pub[r].gen \in 1 .. next /\ madeBy[pub[r].gen] = StoreOf[r]
PointersOwned ==
    /\ current # 0 => owner # None /\ (owner = Torn \/ madeBy[current] = owner)
    /\ disk # 0 => owner # None /\ (owner = Torn \/ madeBy[disk] = owner)
OwnerInv == Typed /\ PointersOwned /\ \A r \in Publishers : OwnerOf(r)

\* Where the one publisher past its claim is, and what it has staged.
PublishOf(r) ==
    /\ pub[r].pc # "idle" => pubLease[StoreOf[r]] = {r}
    /\ pub[r].pc = "claim" /\ owner \in {None, StoreOf[r]} => pub[r].prev = current
    /\ pub[r].pc \in PastClaim \ {"syncroot"} => pub[r].prev = current
    /\ pub[r].pc \in Staged \ {"syncroot"} => pub[r].gen # current /\ pub[r].gen # disk
    /\ pub[r].pc \in {"clean", "seal"} => dir[pub[r].gen] = "staging"
    /\ pub[r].pc \in {"sync", "rename"} => dir[pub[r].gen] = "complete"
    /\ pub[r].pc = "rename" => pub[r].gen \in synced
PointersWhole ==
    /\ current # 0 => dir[current] = "complete" /\ current \in synced
    /\ disk # 0 => disk \in synced /\ (dir[disk] = "complete" \/ disk \in removed)
PublishInv == PointersWhole /\ \A r \in Publishers : PublishOf(r)

\* What a request resolved is never a generation that is still being staged, so
\* only the cleanup deletes it, and only once it is old.
Unpublished == Staged \ {"syncroot"}
ReadInv ==
    /\ \A q \in reads : q.gen \in 1 .. next /\ (q.gen \notin aged => dir[q.gen] = "complete")
    /\ \A r \in Publishers : pub[r].pc \in Unpublished => \A q \in reads : q.gen # pub[r].gen

CatalogInv == OwnerInv /\ (~ leaseLost => PublishInv /\ ReadInv)

-----------------------------------------------------------------------------
(* What a step of one publisher leaves to the others.                       *)

LEMMA Constants ==
  ASSUME ConstantsAssumption
  PROVE  /\ MaxGen \in Nat /\ Gens = 1 .. MaxGen
         /\ \A r \in Publishers : StoreOf[r] \in LeasedStores /\ StoreOf[r] # None /\ StoreOf[r] # Torn
BY DEF ConstantsAssumption, LeasedStores, Gens

LEMMA OwnerOthers ==
  ASSUME ConstantsAssumption, OwnerInv, NEW q \in Publishers, pub'[q] = pub[q],
         next' \in Nat, next <= next', \A g \in 1 .. next : madeBy'[g] = madeBy[g],
         owner' = owner \/ owner = None
  PROVE  OwnerOf(q)'
<1>1. Typed /\ OwnerOf(q) /\ StoreOf[q] # None
  BY Constants DEF OwnerInv
<1>2. next \in Nat
  BY <1>1, Constants DEF Typed
<1>3. pub'[q].pc \in PastClaim => owner' = StoreOf[q]
  BY <1>1 DEF OwnerOf
<1>4. ASSUME pub'[q].pc \in Staged PROVE pub'[q].gen \in 1 .. next' /\ madeBy'[pub'[q].gen] = StoreOf[q]
  <2>1. pub[q].gen \in 1 .. next /\ madeBy[pub[q].gen] = StoreOf[q]
    BY <1>1, <1>4 DEF OwnerOf
  <2>2. pub[q].gen \in 1 .. next'
    BY <1>2, <2>1
  <2> QED BY <2>1, <2>2
<1> QED BY <1>3, <1>4 DEF OwnerOf

\* At most one publisher is past its claim.
LEMMA Alone ==
  ASSUME ConstantsAssumption, OwnerInv, PublishInv, NEW r \in Publishers, NEW q \in Publishers, q # r,
         pub[r].pc \in PastClaim
  PROVE  /\ pub[q].pc \notin PastClaim
         /\ ~ (pub[q].pc = "claim" /\ owner \in {None, StoreOf[q]})
<1>1. owner = StoreOf[r] /\ owner # None /\ pubLease[StoreOf[r]] = {r}
  BY Constants DEF OwnerInv, OwnerOf, PublishInv, PublishOf, PastClaim, Staged
<1>2. pub[q].pc \in PastClaim => owner = StoreOf[q] /\ pubLease[StoreOf[q]] = {q}
  BY DEF OwnerInv, OwnerOf, PublishInv, PublishOf, PastClaim, Staged
<1>3. pub[q].pc = "claim" => pubLease[StoreOf[q]] = {q}
  BY DEF PublishInv, PublishOf
<1> QED BY <1>1, <1>2, <1>3

LEMMA PublishOthers ==
  ASSUME ConstantsAssumption, OwnerInv, PublishInv, NEW r \in Publishers, NEW q \in Publishers, q # r,
         pub'[q] = pub[q],
         pubLease[StoreOf[r]] \in {{}, {r}},
         \A s \in LeasedStores : s # StoreOf[r] => pubLease'[s] = pubLease[s],
         owner' = owner \/ owner' = StoreOf[r],
         \/ pub[r].pc \in PastClaim
         \/ /\ current' = current /\ disk' = disk /\ synced \subseteq synced'
            /\ \A g \in 1 .. next : dir'[g] = dir[g]
  PROVE  PublishOf(q)'
<1>1. OwnerOf(q) /\ PublishOf(q) /\ StoreOf[q] \in LeasedStores
  BY Constants DEF OwnerInv, PublishInv
<1>2. CASE pub[q].pc = "idle"
  BY <1>2 DEF PublishOf, PastClaim, Staged
<1>3. CASE pub[q].pc # "idle"
  <2>1. StoreOf[q] # StoreOf[r] /\ pubLease[StoreOf[q]] = {q}
    BY <1>1, <1>3 DEF PublishOf
  <2>2. pubLease'[StoreOf[q]] = {q}
    BY <1>1, <2>1
  <2>3. CASE pub[r].pc \in PastClaim
    <3>1. pub[q].pc \notin PastClaim /\ ~ (pub[q].pc = "claim" /\ owner' \in {None, StoreOf[q]})
      BY <2>1, <2>3, Alone, Constants
    <3> QED BY <2>2, <3>1 DEF PublishOf, PastClaim, Staged
  <2>4. CASE pub[r].pc \notin PastClaim
    <3>1. /\ current' = current /\ disk' = disk /\ synced \subseteq synced'
          /\ \A g \in 1 .. next : dir'[g] = dir[g]
      BY <2>4
    <3>2. owner' \in {None, StoreOf[q]} => owner \in {None, StoreOf[q]}
      BY <2>1, Constants
    <3>3. pub[q].pc \in Staged => dir'[pub[q].gen] = dir[pub[q].gen]
      BY <1>1, <3>1 DEF OwnerOf
    <3>4. {"clean", "seal", "sync", "rename"} \subseteq Staged
      BY DEF Staged
    <3> QED BY <1>1, <2>2, <3>1, <3>2, <3>3, <3>4 DEF PublishOf
  <2> QED BY <2>3, <2>4
<1> QED BY <1>2, <1>3

\* The publisher ends: it is idle and without its lease.
LEMMA EndFacts ==
  ASSUME ConstantsAssumption, Typed, NEW r \in Publishers, End(r)
  PROVE  /\ pub' \in [Publishers -> PubRec] /\ pub'[r].pc = "idle"
         /\ \A q \in Publishers : q # r => pub'[q] = pub[q]
         /\ pubLease' \in [LeasedStores -> SUBSET Publishers]
         /\ \A s \in LeasedStores : s # StoreOf[r] => pubLease'[s] = pubLease[s]
<1>1. Idle \in PubRec /\ Idle.pc = "idle"
  BY Constants DEF Idle, PubRec
<1> QED BY <1>1, Constants DEF End, Typed

LEMMA PubGotoFacts ==
  ASSUME Typed, NEW r \in Publishers,
         NEW pc \in {"idle", "check", "claim", "stage", "clean", "seal", "sync", "rename", "syncroot"},
         PubGoto(r, pc)
  PROVE  /\ pub' \in [Publishers -> PubRec]
         /\ pub'[r] = [pub[r] EXCEPT !.pc = pc] /\ pub'[r].pc = pc
         /\ pub'[r].prev = pub[r].prev /\ pub'[r].gen = pub[r].gen
         /\ \A q \in Publishers : q # r => pub'[q] = pub[q]
<1>1. pub[r] \in PubRec
  BY DEF Typed
<1>2. [pub[r] EXCEPT !.pc = pc] \in PubRec
  BY <1>1 DEF PubRec
<1> QED BY <1>1, <1>2 DEF PubGoto, Typed, PubRec

-----------------------------------------------------------------------------
(* The owner.                                                               *)

\* A step of a publisher that keeps the pointers and what is made, and ends.
LEMMA OwnerEnd ==
  ASSUME ConstantsAssumption, OwnerInv, NEW r \in Publishers, End(r), Typed',
         madeBy' = madeBy, owner' = owner, current' \in {0, current}, disk' \in {0, disk, current},
         next <= next'
  PROVE  OwnerInv'
<1>1. Typed /\ next' \in Nat
  BY Constants DEF OwnerInv, Typed
<1>2. PointersOwned'
  BY DEF OwnerInv, PointersOwned
<1>3. OwnerOf(r)'
  BY <1>1, EndFacts DEF OwnerOf, PastClaim, Staged
<1>4. \A q \in Publishers : q # r => OwnerOf(q)'
  BY <1>1, EndFacts, OwnerOthers
<1> QED BY <1>2, <1>3, <1>4 DEF OwnerInv

\* A step of a publisher between two of its places.
LEMMA OwnerGoto ==
  ASSUME ConstantsAssumption, OwnerInv, NEW r \in Publishers, Typed',
         \A q \in Publishers : q # r => pub'[q] = pub[q],
         madeBy' = madeBy, owner' = owner, disk' = disk, next' = next,
         current' = current \/ (pub[r].pc \in Staged /\ current' = pub[r].gen),
         pub'[r].pc \in {"idle", "check", "claim"}
           \/ (pub'[r].gen = pub[r].gen /\ pub[r].pc \in Staged)
  PROVE  OwnerInv'
<1>1. Typed /\ next' \in Nat /\ next <= next' /\ StoreOf[r] # None /\ OwnerOf(r)
  BY Constants DEF OwnerInv, Typed
<1>2. PointersOwned'
  BY <1>1 DEF OwnerInv, PointersOwned, OwnerOf, PastClaim
<1>3. OwnerOf(r)'
  BY <1>1 DEF OwnerOf, PastClaim, Staged
<1>4. \A q \in Publishers : q # r => OwnerOf(q)'
  BY <1>1, OwnerOthers
<1> QED BY <1>2, <1>3, <1>4 DEF OwnerInv

LEMMA OwnerAcquire ==
  ASSUME ConstantsAssumption, OwnerInv, NEW r \in Publishers, Acquire(r)
  PROVE  OwnerInv' /\ pub'[r].pc = "check" /\ \A q \in Publishers : q # r => pub'[q] = pub[q]
<1>1. Typed
  BY DEF OwnerInv
<1>2. PICK u \in {0, current} : pub' = [pub EXCEPT ![r].pc = "check", ![r].reuse = u]
  BY DEF Acquire
<1> DEFINE v == [pub[r] EXCEPT !.pc = "check", !.reuse = u]
<1>3. pub[r] \in PubRec /\ u \in 0 .. MaxGen
  BY <1>1, <1>2, Constants DEF Typed
<1>4. v \in PubRec /\ v.pc = "check" /\ pub' = [pub EXCEPT ![r] = v]
  BY <1>1, <1>2, <1>3 DEF PubRec, Typed
<1> HIDE DEF v
<1>5. /\ pub' \in [Publishers -> PubRec] /\ pub'[r].pc = "check"
      /\ \A q \in Publishers : q # r => pub'[q] = pub[q]
  BY <1>1, <1>4 DEF Typed
<1>6. pubLease' \in [LeasedStores -> SUBSET Publishers]
  BY <1>1, Constants DEF Acquire, Typed
<1>7. Typed' /\ UNCHANGED <<madeBy, owner, current, disk, next>>
  BY <1>1, <1>5, <1>6 DEF Typed, Acquire, fs
<1> QED BY <1>5, <1>7, OwnerGoto

LEMMA OwnerCheck ==
  ASSUME ConstantsAssumption, OwnerInv, NEW r \in Publishers, Check(r)
  PROVE  /\ OwnerInv' /\ \A q \in Publishers : q # r => pub'[q] = pub[q]
         /\ pub'[r].pc = "idle" \/ (pub'[r].pc = "claim" /\ pub'[r].prev = current /\ UNCHANGED pubLease)
<1>1. Typed
  BY DEF OwnerInv
<1>2. UNCHANGED <<dir, madeBy, aged, synced, current, disk, removed, owner, next, loss>>
  BY DEF Check, fs
<1>3. CASE End(r)
  <2>1. Typed'
    BY <1>1, <1>2, <1>3, EndFacts DEF Typed
  <2> QED BY <1>1, <1>2, <1>3, <2>1, EndFacts, OwnerGoto
<1>4. CASE ~ End(r)
  <2> DEFINE u == IF pub[r].reuse = current THEN pub[r].reuse ELSE 0
             v == [pub[r] EXCEPT !.prev = current, !.pc = "claim", !.reuse = u]
  <2>1. pub[r] \in PubRec /\ u \in 0 .. MaxGen /\ current \in 0 .. MaxGen
    <3>1. pub[r] \in PubRec /\ current \in 0 .. MaxGen
      BY <1>1, Constants DEF Typed
    <3> QED BY <3>1, Constants DEF PubRec
  <2>2. pub' = [pub EXCEPT ![r] = v] /\ UNCHANGED pubLease
    BY <1>1, <1>4 DEF Check, Typed
  <2> HIDE DEF u
  <2>3. v \in PubRec /\ v.pc = "claim" /\ v.prev = current
    BY <2>1 DEF PubRec
  <2> HIDE DEF v
  <2>4. /\ pub' \in [Publishers -> PubRec] /\ pub'[r].pc = "claim" /\ pub'[r].prev = current
        /\ \A q \in Publishers : q # r => pub'[q] = pub[q]
    BY <1>1, <2>2, <2>3 DEF Typed
  <2>5. Typed'
    BY <1>1, <1>2, <2>2, <2>4 DEF Typed
  <2> QED BY <1>2, <2>2, <2>4, <2>5, OwnerGoto
<1> QED BY <1>3, <1>4

LEMMA OwnerClaim ==
  ASSUME ConstantsAssumption, OwnerInv, NEW r \in Publishers, Claim(r)
  PROVE  OwnerInv'
<1>1. Typed
  BY DEF OwnerInv
<1>2. UNCHANGED <<dir, madeBy, aged, synced, current, disk, removed, next, loss>>
  BY DEF Claim
<1>3. CASE owner' = owner /\ End(r)
  <2>1. Typed'
    BY <1>1, <1>2, <1>3, EndFacts DEF Typed
  <2> QED BY <1>1, <1>2, <1>3, <2>1, EndFacts, OwnerGoto
<1>4. CASE owner \in {None, StoreOf[r]} /\ owner' = StoreOf[r] /\ PubGoto(r, "stage") /\ UNCHANGED pubLease
  <2>1. /\ pub' \in [Publishers -> PubRec] /\ pub'[r].pc = "stage"
        /\ \A q \in Publishers : q # r => pub'[q] = pub[q]
    BY <1>1, <1>4, PubGotoFacts
  <2>2. Typed'
    BY <1>1, <1>2, <1>4, <2>1, Constants DEF Typed
  <2>3. PointersOwned'
    BY <1>2, <1>4, Constants DEF OwnerInv, PointersOwned
  <2>4. OwnerOf(r)'
    BY <1>4, <2>1 DEF OwnerOf, Staged
  <2>5. next' \in Nat /\ next <= next' /\ (owner' = owner \/ owner = None)
    BY <1>1, <1>2, <1>4, Constants DEF Typed
  <2>6. \A q \in Publishers : q # r => OwnerOf(q)'
    BY <1>2, <2>1, <2>5, OwnerOthers
  <2> QED BY <2>2, <2>3, <2>4, <2>6 DEF OwnerInv
<1> QED BY <1>3, <1>4 DEF Claim

LEMMA OwnerStage ==
  ASSUME ConstantsAssumption, OwnerInv, NEW r \in Publishers, Stage(r)
  PROVE  /\ OwnerInv' /\ \A q \in Publishers : q # r => pub'[q] = pub[q]
         /\ \/ pub'[r].pc = "idle" /\ UNCHANGED dir
            \/ /\ pub'[r].pc = "clean" /\ pub'[r].gen = next + 1 /\ pub'[r].prev = pub[r].prev
               /\ UNCHANGED pubLease
               /\ dir'[next + 1] = "staging" /\ \A g \in 1 .. next : dir'[g] = dir[g]
<1>1. Typed /\ OwnerOf(r) /\ pub[r].pc = "stage"
  BY DEF OwnerInv, Stage
<1>2. UNCHANGED <<aged, synced, current, disk, removed, owner, loss>> /\ next' = next + 1
  BY DEF Stage
<1>3. next \in Nat /\ next' \in 0 .. MaxGen /\ next' \in Nat /\ next <= next' /\ next + 1 \in Gens
  BY <1>1, <1>2, Constants DEF Stage, Typed
<1>4. current' \in 0 .. next' /\ disk' \in 0 .. next'
  BY <1>1, <1>2, <1>3 DEF Typed
<1>5. CASE UNCHANGED <<dir, madeBy>> /\ End(r)
  <2>1. Typed'
    BY <1>1, <1>2, <1>3, <1>4, <1>5, EndFacts DEF Typed
  <2>2. OwnerInv'
    BY <1>2, <1>3, <1>5, <2>1, OwnerEnd
  <2> QED BY <1>1, <1>5, <2>2, EndFacts
<1>6. CASE /\ dir' = [dir EXCEPT ![next + 1] = "staging"]
           /\ madeBy' = [madeBy EXCEPT ![next + 1] = StoreOf[r]]
           /\ pub' = [pub EXCEPT ![r].gen = next + 1, ![r].pc = "clean"]
           /\ UNCHANGED pubLease
  <2> DEFINE n == next + 1
             v == [pub[r] EXCEPT !.gen = n, !.pc = "clean"]
  <2>1. pub[r] \in PubRec /\ n \in 0 .. MaxGen /\ n \in Gens /\ n \in 1 .. next' /\ n \notin 1 .. next
    BY <1>1, <1>2, <1>3, Constants DEF Typed
  <2>2. pub' = [pub EXCEPT ![r] = v] /\ dir' = [dir EXCEPT ![n] = "staging"]
        /\ madeBy' = [madeBy EXCEPT ![n] = StoreOf[r]]
    BY <1>1, <1>6 DEF Typed
  <2>3. \A g \in 1 .. next : g \in Gens /\ g # n
    BY <1>1, <2>1, Constants DEF Typed
  <2>4. v \in PubRec /\ v.pc = "clean" /\ v.gen = n /\ v.prev = pub[r].prev
    <3> HIDE DEF n
    <3> QED BY <2>1 DEF PubRec
  <2> HIDE DEF n, v
  <2>5. /\ pub' \in [Publishers -> PubRec] /\ pub'[r] = v
        /\ \A q \in Publishers : q # r => pub'[q] = pub[q]
    BY <1>1, <2>2, <2>4 DEF Typed
  <2>6. /\ dir' \in [Gens -> {"none", "staging", "complete", "lost"}] /\ madeBy' \in [Gens -> LeasedStores \cup {None}]
        /\ dir'[n] = "staging" /\ madeBy'[n] = StoreOf[r]
        /\ \A g \in 1 .. next : dir'[g] = dir[g] /\ madeBy'[g] = madeBy[g]
    BY <1>1, <2>1, <2>2, <2>3, Constants DEF Typed
  <2>7. Typed'
    BY <1>1, <1>2, <1>3, <1>4, <1>6, <2>5, <2>6 DEF Typed
  <2>8. PointersOwned'
    <3>1. (current # 0 => current \in 1 .. next) /\ (disk # 0 => disk \in 1 .. next)
      BY <1>1, <1>3 DEF Typed
    <3> QED BY <1>2, <2>6, <3>1 DEF OwnerInv, PointersOwned
  <2>9. OwnerOf(r)'
    BY <1>1, <1>2, <2>1, <2>4, <2>5, <2>6 DEF OwnerOf, PastClaim, Staged
  <2>10. \A q \in Publishers : q # r => OwnerOf(q)'
    BY <1>2, <1>3, <2>5, <2>6, OwnerOthers
  <2>11. OwnerInv'
    BY <2>7, <2>8, <2>9, <2>10 DEF OwnerInv
  <2>12. n = next + 1
    BY DEF n
  <2> QED BY <1>6, <2>4, <2>5, <2>6, <2>11, <2>12
<1> QED BY <1>5, <1>6 DEF Stage

\* Clean, Seal, Sync and Rename only move the publisher on.
LEMMA OwnerWork ==
  ASSUME ConstantsAssumption, OwnerInv, NEW r \in Publishers,
         Clean(r) \/ Seal(r) \/ Sync(r) \/ Rename(r)
  PROVE  /\ OwnerInv' /\ \A q \in Publishers : q # r => pub'[q] = pub[q]
         /\ pub'[r].prev = pub[r].prev /\ pub'[r].gen = pub[r].gen
         /\ pub[r].gen \in 1 .. next /\ pub[r].gen \in Gens
<1>1. Typed /\ OwnerOf(r)
  BY DEF OwnerInv
<1>2. PICK pc \in {"seal", "sync", "rename", "syncroot"} : PubGoto(r, pc)
  BY DEF Clean, Seal, Sync, Rename
<1>3. /\ pub' \in [Publishers -> PubRec] /\ pub'[r].pc = pc
      /\ pub'[r].prev = pub[r].prev /\ pub'[r].gen = pub[r].gen
      /\ \A q \in Publishers : q # r => pub'[q] = pub[q]
  BY <1>1, <1>2, PubGotoFacts
<1>4. pub[r].pc \in Staged /\ pub[r].gen \in 1 .. next /\ pub[r].gen \in Gens /\ pub[r].gen \in 0 .. next
  <2>1. pub[r].pc \in Staged
    BY DEF Clean, Seal, Sync, Rename, Staged
  <2> QED BY <1>1, <2>1, Constants DEF OwnerOf, Typed
<1>5. /\ UNCHANGED <<madeBy, aged, disk, owner, pubLease, next, loss>>
      /\ current' \in {current, pub[r].gen} /\ removed' \subseteq removed \cup old(r)
      /\ synced' \subseteq synced \cup {pub[r].gen}
  BY DEF Clean, Seal, Sync, Rename
<1>6. dir' \in [Gens -> {"none", "staging", "complete", "lost"}]
  BY <1>1 DEF Clean, Seal, Sync, Rename, Typed
<1>7. Typed'
  <2>1. old(r) \subseteq Gens
    BY <1>1 DEF old, Typed
  <2>2. removed' \subseteq Gens /\ synced' \subseteq Gens /\ current' \in 0 .. next'
    BY <1>1, <1>4, <1>5, <2>1 DEF Typed
  <2> QED BY <1>1, <1>3, <1>5, <1>6, <2>2 DEF Typed
<1> QED BY <1>3, <1>4, <1>5, <1>7, OwnerGoto

\* SyncRoot, Throws and Die end the publisher.
LEMMA OwnerEnds ==
  ASSUME ConstantsAssumption, OwnerInv, NEW r \in Publishers, SyncRoot(r) \/ Throws(r) \/ Die(r)
  PROVE  OwnerInv' /\ End(r)
<1>1. Typed
  BY DEF OwnerInv
<1>2. /\ End(r) /\ UNCHANGED <<madeBy, aged, synced, current, owner, next>>
      /\ disk' \in {disk, current} /\ removed' \in {removed, {}} /\ loss' \in {loss, loss + 1}
  BY DEF SyncRoot, Throws, Die, fs
<1>3. dir' \in [Gens -> {"none", "staging", "complete", "lost"}]
  BY <1>1 DEF SyncRoot, Throws, Die, fs, Typed
<1>4. Typed'
  BY <1>1, <1>2, <1>3, EndFacts DEF Typed
<1>5. next <= next'
  BY <1>1, <1>2, Constants DEF Typed
<1> QED BY <1>2, <1>4, <1>5, OwnerEnd

LEMMA OwnerPowerLoss ==
  ASSUME ConstantsAssumption, OwnerInv, PowerLoss
  PROVE  /\ OwnerInv' /\ \A r \in Publishers : pub'[r].pc = "idle"
<1>1. Typed
  BY DEF OwnerInv
<1>2. Idle \in PubRec /\ Idle.pc = "idle"
  BY Constants DEF Idle, PubRec
<1>3. pub' \in [Publishers -> PubRec] /\ \A r \in Publishers : pub'[r].pc = "idle"
  BY <1>2 DEF PowerLoss
<1>4. /\ current' \in {current, disk} /\ disk' = current' /\ removed' = {} /\ loss' = loss + 1
      /\ UNCHANGED <<madeBy, aged, synced, next>>
      /\ pubLease' = [s \in DOMAIN pubLease |-> {}]
  BY DEF PowerLoss
<1>10. owner' \in {None, Torn, owner} /\ (owner' = None => owner = None \/ current' = 0)
  <2>1. PICK back \in BOOLEAN :
          /\ current' = IF back THEN disk ELSE current
          /\ owner' \in IF owner = None THEN {None}
                        ELSE {owner, Torn} \cup (IF back /\ disk = 0 THEN {None} ELSE {})
    BY DEF PowerLoss
  <2>2. CASE owner = None
    BY <2>1, <2>2
  <2>3. CASE owner # None
    <3>1. owner' \in {owner, Torn} \/ (back /\ disk = 0 /\ owner' = None)
      BY <2>1, <2>3
    <3>2. Torn # None
      BY DEF Torn, None
    <3> QED BY <2>1, <2>3, <3>1, <3>2
  <2> QED BY <2>2, <2>3
<1>5. dir' \in [Gens -> {"none", "staging", "complete", "lost"}]
  BY <1>1 DEF PowerLoss, Typed
<1>6. pubLease' \in [LeasedStores -> SUBSET Publishers]
  BY <1>1, <1>4 DEF Typed
<1>7. Typed'
  BY <1>1, <1>3, <1>4, <1>5, <1>6, <1>10 DEF Typed
<1>8. PointersOwned'
  BY <1>4, <1>10 DEF OwnerInv, PointersOwned
<1>9. \A r \in Publishers : OwnerOf(r)'
  BY <1>3 DEF OwnerOf, PastClaim, Staged
<1> QED BY <1>3, <1>7, <1>8, <1>9 DEF OwnerInv

\* Leases, requests and the clock do not touch what is published.
LEMMA OwnerQuiet ==
  ASSUME ConstantsAssumption, OwnerInv, aged' \subseteq Gens,
         pubLease' \in [LeasedStores -> SUBSET Publishers],
         UNCHANGED <<dir, madeBy, synced, current, disk, removed, owner, pub, next, loss>>
  PROVE  OwnerInv'
<1>1. Typed'
  BY DEF OwnerInv, Typed
<1>2. PointersOwned' /\ \A r \in Publishers : OwnerOf(r)'
  BY DEF OwnerInv, PointersOwned, OwnerOf
<1> QED BY <1>1, <1>2 DEF OwnerInv

LEMMA OwnerInit == ConstantsAssumption /\ CatalogInit => OwnerInv /\ PublishInv
<1> SUFFICES ASSUME ConstantsAssumption, CatalogInit PROVE OwnerInv /\ PublishInv
  OBVIOUS
<1>1. Idle \in PubRec /\ Idle.pc = "idle"
  BY Constants DEF Idle, PubRec
<1>2. \A r \in Publishers : pub[r].pc = "idle"
  BY <1>1 DEF CatalogInit
<1>3. Typed
  BY <1>1, Constants DEF CatalogInit, Typed, LeasedStores
<1>4. PointersOwned /\ PointersWhole
  BY DEF CatalogInit, PointersOwned, PointersWhole
<1>5. \A r \in Publishers : OwnerOf(r) /\ PublishOf(r)
  BY <1>2 DEF OwnerOf, PublishOf, PastClaim, Staged
<1> QED BY <1>3, <1>4, <1>5 DEF OwnerInv, PublishInv

LEMMA OwnerNext ==
  ASSUME ConstantsAssumption, OwnerInv, [CatalogNext]_catalogVars PROVE OwnerInv'
<1>1. Typed
  BY DEF OwnerInv
<1>2. CASE UNCHANGED catalogVars
  BY <1>1, <1>2, OwnerQuiet DEF catalogVars, Typed
<1>3. CASE \E r \in Publishers :
             \/ Acquire(r) \/ Check(r) \/ Claim(r) \/ Stage(r) \/ Clean(r) \/ Seal(r) \/ Sync(r)
             \/ Rename(r) \/ SyncRoot(r) \/ Throws(r) \/ Die(r)
  BY <1>3, OwnerAcquire, OwnerCheck, OwnerClaim, OwnerStage, OwnerWork, OwnerEnds
<1>4. ASSUME NEW r \in Publishers, LoseLease(r) PROVE OwnerInv'
  <2>1. pubLease' \in [LeasedStores -> SUBSET Publishers]
    BY <1>1, <1>4, Constants DEF LoseLease, Typed
  <2> QED BY <1>1, <1>4, <2>1, OwnerQuiet DEF LoseLease, fs, Typed
<1>5. CASE PowerLoss
  BY <1>5, OwnerPowerLoss
<1>6. CASE TenMinutes
  BY <1>1, <1>6, OwnerQuiet DEF TenMinutes, Typed
<1>7. CASE (\E c \in 1 .. MaxReads : Pin(c)) \/ (\E q \in reads : Answered(q))
  BY <1>1, <1>7, OwnerQuiet DEF Pin, Answered, fs, Typed
<1> QED BY <1>2, <1>3, <1>4, <1>5, <1>6, <1>7 DEF CatalogNext

-----------------------------------------------------------------------------
(* One publisher past its claim.                                            *)

LEMMA PublishAcquire ==
  ASSUME ConstantsAssumption, OwnerInv, PublishInv, NEW r \in Publishers, Acquire(r)
  PROVE  PublishInv'
<1>1. Typed /\ UNCHANGED <<dir, synced, current, disk, removed, owner, next>>
  BY DEF OwnerInv, Acquire, fs
<1>2. /\ pub'[r].pc = "check" /\ \A q \in Publishers : q # r => pub'[q] = pub[q]
  BY OwnerAcquire
<1>3. /\ pubLease[StoreOf[r]] = {} /\ pubLease'[StoreOf[r]] = {r}
      /\ \A s \in LeasedStores : s # StoreOf[r] => pubLease'[s] = pubLease[s]
  BY <1>1, Constants DEF Acquire, Typed
<1>4. PublishOf(r)'
  BY <1>2, <1>3 DEF PublishOf, PastClaim, Staged
<1>5. \A q \in Publishers : q # r => PublishOf(q)'
  BY <1>1, <1>2, <1>3, PublishOthers
<1>6. PointersWhole'
  BY <1>1 DEF PublishInv, PointersWhole
<1> QED BY <1>4, <1>5, <1>6 DEF PublishInv

LEMMA OwnsLease ==
  ASSUME PublishInv, NEW r \in Publishers, pub[r].pc # "idle" PROVE pubLease[StoreOf[r]] = {r}
BY DEF PublishInv, PublishOf

\* A publisher ends and the pointers stay whole.
LEMMA PublishEnd ==
  ASSUME ConstantsAssumption, OwnerInv, PublishInv, NEW r \in Publishers, pub[r].pc # "idle", End(r),
         owner' = owner, PointersWhole',
         \/ pub[r].pc \in PastClaim
         \/ UNCHANGED <<dir, synced, current, disk>>
  PROVE  PublishInv'
<1>1. Typed /\ pubLease[StoreOf[r]] = {r}
  BY OwnsLease DEF OwnerInv
<1>2. PublishOf(r)'
  BY <1>1, EndFacts DEF PublishOf, PastClaim, Staged
<1>3. \A q \in Publishers : q # r => PublishOf(q)'
  BY <1>1, EndFacts, PublishOthers
<1> QED BY <1>2, <1>3 DEF PublishInv

LEMMA PublishCheck ==
  ASSUME ConstantsAssumption, OwnerInv, PublishInv, NEW r \in Publishers, Check(r)
  PROVE  PublishInv'
<1>1. Typed /\ pub[r].pc = "check" /\ UNCHANGED <<dir, synced, current, disk, removed, owner, next>>
  BY DEF OwnerInv, Check, fs
<1>2. PointersWhole'
  BY <1>1 DEF PublishInv, PointersWhole
<1>3. pubLease[StoreOf[r]] = {r}
  BY <1>1, OwnsLease
<1>4. CASE End(r)
  BY <1>1, <1>2, <1>4, PublishEnd
<1>5. CASE ~ End(r)
  <2>1. UNCHANGED pubLease
    BY <1>5 DEF Check
  <2>2. /\ pub'[r].pc = "idle" \/ (pub'[r].pc = "claim" /\ pub'[r].prev = current)
        /\ \A q \in Publishers : q # r => pub'[q] = pub[q]
    BY OwnerCheck
  <2>3. PublishOf(r)'
    BY <1>1, <1>3, <2>1, <2>2 DEF PublishOf, PastClaim, Staged
  <2>4. \A q \in Publishers : q # r => PublishOf(q)'
    BY <1>1, <1>3, <2>1, <2>2, PublishOthers
  <2> QED BY <1>2, <2>3, <2>4 DEF PublishInv
<1> QED BY <1>4, <1>5

LEMMA PublishClaim ==
  ASSUME ConstantsAssumption, OwnerInv, PublishInv, NEW r \in Publishers, Claim(r)
  PROVE  PublishInv'
<1>1. Typed /\ pub[r].pc = "claim" /\ UNCHANGED <<dir, synced, current, disk, removed, next>>
  BY DEF OwnerInv, Claim
<1>2. PointersWhole'
  BY <1>1 DEF PublishInv, PointersWhole
<1>3. pubLease[StoreOf[r]] = {r} /\ PublishOf(r)
  BY <1>1, OwnsLease DEF PublishInv
<1>4. CASE owner' = owner /\ End(r)
  BY <1>1, <1>2, <1>4, PublishEnd
<1>5. CASE owner \in {None, StoreOf[r]} /\ owner' = StoreOf[r] /\ PubGoto(r, "stage") /\ UNCHANGED pubLease
  <2>1. /\ pub'[r].pc = "stage" /\ pub'[r].prev = pub[r].prev
        /\ \A q \in Publishers : q # r => pub'[q] = pub[q]
    BY <1>1, <1>5, PubGotoFacts
  <2>2. PublishOf(r)'
    BY <1>1, <1>3, <1>5, <2>1 DEF PublishOf, PastClaim, Staged
  <2>3. \A q \in Publishers : q # r => PublishOf(q)'
    BY <1>1, <1>3, <1>5, <2>1, PublishOthers
  <2> QED BY <1>2, <2>2, <2>3 DEF PublishInv
<1> QED BY <1>4, <1>5 DEF Claim

LEMMA PublishStage ==
  ASSUME ConstantsAssumption, OwnerInv, PublishInv, NEW r \in Publishers, Stage(r)
  PROVE  PublishInv'
<1>1. /\ Typed /\ pub[r].pc = "stage" /\ pub[r].pc \in PastClaim
      /\ UNCHANGED <<synced, current, disk, removed, owner>>
  BY DEF OwnerInv, Stage, PastClaim
<1>2. pubLease[StoreOf[r]] = {r} /\ PublishOf(r)
  BY <1>1, OwnsLease DEF PublishInv
<1>3. next \in Nat /\ next + 1 # current /\ next + 1 # disk
      /\ (current # 0 => current \in 1 .. next) /\ (disk # 0 => disk \in 1 .. next)
  BY <1>1, Constants DEF Typed
<1>4. CASE UNCHANGED dir /\ End(r)
  <2>1. PointersWhole'
    BY <1>1, <1>4 DEF PublishInv, PointersWhole
  <2> QED BY <1>1, <1>4, <2>1, PublishEnd
<1>5. CASE ~ (UNCHANGED dir /\ End(r))
  <2>1. UNCHANGED pubLease
    BY <1>5 DEF Stage
  <2>2. pub' = [pub EXCEPT ![r].gen = next + 1, ![r].pc = "clean"]
    BY <1>5 DEF Stage
  <2>3. pub'[r].pc = "clean"
    BY <1>1, <2>2 DEF Typed, PubRec
  <2>4. /\ pub'[r].gen = next + 1 /\ pub'[r].prev = pub[r].prev /\ dir'[next + 1] = "staging"
        /\ \A g \in 1 .. next : dir'[g] = dir[g]
        /\ \A q \in Publishers : q # r => pub'[q] = pub[q]
    BY <2>3, OwnerStage
  <2>5. PublishOf(r)'
    BY <1>1, <1>2, <1>3, <2>1, <2>3, <2>4 DEF PublishOf, PastClaim, Staged
  <2>6. \A q \in Publishers : q # r => PublishOf(q)'
    BY <1>1, <1>2, <2>1, <2>4, PublishOthers
  <2>7. PointersWhole'
    BY <1>1, <1>3, <2>4 DEF PublishInv, PointersWhole
  <2> QED BY <2>5, <2>6, <2>7 DEF PublishInv
<1> QED BY <1>4, <1>5

LEMMA PublishWork ==
  ASSUME ConstantsAssumption, OwnerInv, PublishInv, NEW r \in Publishers,
         Clean(r) \/ Seal(r) \/ Sync(r) \/ Rename(r)
  PROVE  PublishInv'
<1>1. /\ Typed /\ pub[r].pc \in Staged \ {"syncroot"} /\ pub[r].pc \in PastClaim
      /\ UNCHANGED <<disk, owner, pubLease, next>>
  BY DEF OwnerInv, Clean, Seal, Sync, Rename, Staged, PastClaim
<1>2. pubLease[StoreOf[r]] = {r} /\ PublishOf(r)
  BY <1>1, OwnsLease DEF PublishInv, PastClaim, Staged
<1> DEFINE g == pub[r].gen
<1>3. /\ pub'[r].gen = g /\ pub'[r].prev = pub[r].prev /\ g \in Gens /\ g # 0
      /\ \A q \in Publishers : q # r => pub'[q] = pub[q]
  BY OwnerWork
<1>4. g # current /\ g # disk /\ pub[r].prev = current
  BY <1>1, <1>2 DEF PublishOf, PastClaim
<1>5. \A q \in Publishers : q # r => PublishOf(q)'
  BY <1>1, <1>2, <1>3, PublishOthers
<1>6. (current # 0 => current \in Gens) /\ (disk # 0 => disk \in Gens)
  BY <1>1, Constants DEF Typed
<1>7. CASE Clean(r)
  <2>1. pub'[r].pc = "seal" /\ dir[g] = "staging" /\ UNCHANGED <<current, synced>>
    BY <1>1, <1>2, <1>7, PubGotoFacts DEF Clean, PublishOf
  <2>2. dir'[g] = "staging"
    BY <1>3, <1>7, <2>1 DEF Clean, old
  <2>3. PublishOf(r)'
    BY <1>1, <1>2, <1>3, <1>4, <2>1, <2>2 DEF PublishOf, PastClaim, Staged
  <2>4. current # 0 => dir'[current] = "complete"
    BY <1>4, <1>6, <1>7 DEF Clean, old, PublishInv, PointersWhole
  <2>5. disk # 0 => dir'[disk] = "complete" \/ disk \in removed'
    BY <1>6, <1>7 DEF Clean, PublishInv, PointersWhole
  <2>6. PointersWhole'
    BY <1>1, <2>1, <2>4, <2>5 DEF PublishInv, PointersWhole
  <2> QED BY <1>5, <2>3, <2>6 DEF PublishInv
<1>8. CASE Seal(r)
  <2>1. pub'[r].pc = "sync" /\ UNCHANGED <<current, synced, removed>>
    BY <1>1, <1>8, PubGotoFacts DEF Seal
  <2>2. dir'[g] = "complete" /\ \A h \in Gens : h # g => dir'[h] = dir[h]
    BY <1>1, <1>3, <1>8 DEF Seal, Typed
  <2>3. PublishOf(r)'
    BY <1>1, <1>2, <1>3, <1>4, <2>1, <2>2 DEF PublishOf, PastClaim, Staged
  <2>4. PointersWhole'
    BY <1>1, <1>6, <2>1, <2>2 DEF PublishInv, PointersWhole
  <2> QED BY <1>5, <2>3, <2>4 DEF PublishInv
<1>9. CASE Sync(r)
  <2>1. /\ pub'[r].pc = "rename" /\ UNCHANGED <<current, dir, removed>> /\ pub[r].pc = "sync"
        /\ synced' = synced \cup {g}
    BY <1>1, <1>9, PubGotoFacts DEF Sync
  <2>2. PublishOf(r)'
    BY <1>1, <1>2, <1>3, <1>4, <2>1 DEF PublishOf, PastClaim, Staged
  <2>3. PointersWhole'
    BY <1>1, <2>1 DEF PublishInv, PointersWhole
  <2> QED BY <1>5, <2>2, <2>3 DEF PublishInv
<1>10. CASE Rename(r)
  <2>1. /\ pub'[r].pc = "syncroot" /\ UNCHANGED <<synced, dir, removed>> /\ pub[r].pc = "rename"
        /\ current' = g
    BY <1>1, <1>10, PubGotoFacts DEF Rename
  <2>2. PublishOf(r)'
    BY <1>1, <1>2, <2>1 DEF PublishOf, PastClaim, Staged
  <2>3. PointersWhole'
    BY <1>1, <1>2, <2>1 DEF PublishInv, PointersWhole, PublishOf
  <2> QED BY <1>5, <2>2, <2>3 DEF PublishInv
<1> QED BY <1>7, <1>8, <1>9, <1>10

LEMMA PublishEnds ==
  ASSUME ConstantsAssumption, OwnerInv, PublishInv, NEW r \in Publishers,
         SyncRoot(r) \/ Throws(r) \/ Die(r)
  PROVE  PublishInv'
<1>1. Typed /\ End(r) /\ OwnerOf(r) /\ PublishOf(r) /\ owner' = owner
  BY OwnerEnds DEF OwnerInv, PublishInv, SyncRoot, Throws, Die, fs
<1>2. CASE SyncRoot(r)
  <2>1. PointersWhole'
    BY <1>2 DEF SyncRoot, PublishInv, PointersWhole
  <2> QED BY <1>1, <1>2, <2>1, PublishEnd DEF SyncRoot, PastClaim, Staged
<1>3. CASE Throws(r)
  <2>1. /\ pub[r].pc \in Staged \ {"syncroot"} /\ pub[r].pc \in PastClaim /\ pub[r].pc # "idle"
        /\ UNCHANGED <<synced, current, disk, removed>>
        /\ dir' = [dir EXCEPT ![pub[r].gen] = "none"]
    BY <1>3 DEF Throws, Staged, PastClaim
  <2>2. pub[r].gen # current /\ pub[r].gen # disk
    BY <1>1, <2>1 DEF PublishOf
  <2>3. (current # 0 => dir'[current] = dir[current]) /\ (disk # 0 => dir'[disk] = dir[disk])
    BY <1>1, <2>1, <2>2, Constants DEF Typed
  <2>4. PointersWhole'
    BY <2>1, <2>3 DEF PublishInv, PointersWhole
  <2> QED BY <1>1, <2>1, <2>4, PublishEnd
<1>4. CASE Die(r)
  <2>1. pub[r].pc # "idle" /\ UNCHANGED <<dir, synced, current, disk, removed>>
    BY <1>4 DEF Die, fs
  <2>2. PointersWhole'
    BY <2>1 DEF PublishInv, PointersWhole
  <2> QED BY <1>1, <2>1, <2>2, PublishEnd
<1> QED BY <1>2, <1>3, <1>4

LEMMA PublishPowerLoss ==
  ASSUME ConstantsAssumption, OwnerInv, PublishInv, PowerLoss
  PROVE  PublishInv'
<1>1. Typed /\ \A r \in Publishers : pub'[r].pc = "idle"
  BY OwnerPowerLoss DEF OwnerInv
<1>2. \A r \in Publishers : PublishOf(r)'
  BY <1>1 DEF PublishOf, PastClaim, Staged
<1>3. PICK back \in BOOLEAN, L \in SUBSET (Gens \ synced) :
        /\ current' = IF back THEN disk ELSE current
        /\ dir' = [g \in Gens |-> IF back /\ g \in removed THEN "complete"
                                 ELSE IF g \in L /\ dir[g] # "none" THEN "lost" ELSE dir[g]]
  BY DEF PowerLoss
<1>4. disk' = current' /\ removed' = {} /\ synced' = synced
  BY DEF PowerLoss
<1>5. (current # 0 => current \in Gens) /\ (disk # 0 => disk \in Gens)
  BY <1>1, Constants DEF Typed
<1>6. current' # 0 => current' \in synced /\ dir'[current'] = "complete"
  BY <1>3, <1>5 DEF PublishInv, PointersWhole
<1>7. PointersWhole'
  BY <1>4, <1>6 DEF PointersWhole
<1> QED BY <1>2, <1>7 DEF PublishInv

LEMMA PublishNext ==
  ASSUME ConstantsAssumption, ~ leaseLost', OwnerInv, PublishInv, [CatalogNext]_catalogVars
  PROVE  PublishInv'
<1>1. ASSUME UNCHANGED <<dir, synced, current, disk, removed, owner, pubLease, pub>> PROVE PublishInv'
  BY <1>1 DEF PublishInv, PointersWhole, PublishOf
<1>2. CASE UNCHANGED catalogVars
  BY <1>1, <1>2 DEF catalogVars
<1>3. CASE \E r \in Publishers :
             \/ Acquire(r) \/ Check(r) \/ Claim(r) \/ Stage(r) \/ Clean(r) \/ Seal(r) \/ Sync(r)
             \/ Rename(r) \/ SyncRoot(r) \/ Throws(r) \/ Die(r)
  BY <1>3, PublishAcquire, PublishCheck, PublishClaim, PublishStage, PublishWork, PublishEnds
<1>4. \A r \in Publishers : ~ LoseLease(r)
  BY DEF LoseLease
<1>5. CASE PowerLoss
  BY <1>5, PublishPowerLoss
<1>6. CASE TenMinutes \/ (\E c \in 1 .. MaxReads : Pin(c)) \/ (\E q \in reads : Answered(q))
  BY <1>1, <1>6 DEF TenMinutes, Pin, Answered, fs
<1> QED BY <1>2, <1>3, <1>4, <1>5, <1>6 DEF CatalogNext

-----------------------------------------------------------------------------
(* What requests resolved.                                                  *)

\* A step that keeps or drops requests and takes no file of a young generation.
LEMMA ReadFrame ==
  ASSUME ReadInv, reads' \subseteq reads, aged \subseteq aged', next \in Nat, next' \in Nat,
         next <= next',
         \A q \in reads : q.gen \notin aged' => dir'[q.gen] \in {dir[q.gen], "complete"},
         \A r \in Publishers : pub'[r].pc \in Unpublished =>
           (pub[r].pc \in Unpublished /\ pub'[r].gen = pub[r].gen) \/ pub'[r].gen \notin 1 .. next
  PROVE  ReadInv'
<1>1. \A q \in reads' : q.gen \in 1 .. next
  BY DEF ReadInv
<1>2. \A q \in reads' : q.gen \in 1 .. next'
  BY <1>1
<1>3. \A q \in reads' : q.gen \notin aged' => dir'[q.gen] = "complete"
  BY DEF ReadInv
<1>4. ASSUME NEW r \in Publishers, pub'[r].pc \in Unpublished, NEW q \in reads'
      PROVE  q.gen # pub'[r].gen
  BY <1>1, <1>4 DEF ReadInv
<1> QED BY <1>2, <1>3, <1>4 DEF ReadInv, Unpublished

LEMMA ReadPublisher ==
  ASSUME ConstantsAssumption, OwnerInv, ReadInv, NEW r \in Publishers,
         \/ Acquire(r) \/ Check(r) \/ Claim(r) \/ Stage(r) \/ Clean(r) \/ Seal(r) \/ Sync(r)
         \/ Rename(r) \/ SyncRoot(r) \/ Throws(r) \/ Die(r)
  PROVE  ReadInv'
<1>1. Typed /\ next \in Nat
  BY Constants DEF OwnerInv, Typed
<1>2. UNCHANGED <<reads, aged>>
  BY DEF Acquire, Check, Claim, Stage, Clean, Seal, Sync, Rename, SyncRoot, Throws, Die, fs
<1>3. ASSUME pub[r].pc \in Unpublished PROVE \A q \in reads : q.gen # pub[r].gen
  BY <1>3 DEF ReadInv
<1>4. \A q \in reads : q.gen \in 1 .. next /\ q.gen \in Gens
  BY <1>1, Constants DEF ReadInv, Typed
<1>5. CASE Acquire(r)
  <2>1. pub'[r].pc = "check" /\ \A q \in Publishers : q # r => pub'[q] = pub[q]
    BY <1>5, OwnerAcquire
  <2>2. UNCHANGED <<dir, next>>
    BY <1>5 DEF Acquire, fs
  <2> QED BY <1>1, <1>2, <2>1, <2>2, ReadFrame DEF Unpublished, Staged
<1>6. CASE Check(r)
  <2>1. pub'[r].pc \in {"idle", "claim"} /\ \A q \in Publishers : q # r => pub'[q] = pub[q]
    BY <1>6, OwnerCheck
  <2>2. UNCHANGED <<dir, next>>
    BY <1>6 DEF Check, fs
  <2> QED BY <1>1, <1>2, <2>1, <2>2, ReadFrame DEF Unpublished, Staged
<1>7. CASE Claim(r)
  <2>1. pub'[r].pc \in {"idle", "stage"} /\ \A q \in Publishers : q # r => pub'[q] = pub[q]
    BY <1>1, <1>7, EndFacts, PubGotoFacts DEF Claim
  <2>2. UNCHANGED <<dir, next>>
    BY <1>7 DEF Claim
  <2> QED BY <1>1, <1>2, <2>1, <2>2, ReadFrame DEF Unpublished, Staged
<1>8. CASE Stage(r)
  <2>1. /\ pub'[r].pc = "idle" \/ pub'[r].gen = next + 1
        /\ \A q \in Publishers : q # r => pub'[q] = pub[q]
        /\ \A g \in 1 .. next : dir'[g] = dir[g]
    BY <1>8, OwnerStage
  <2>2. next' = next + 1 /\ next' \in Nat /\ next <= next' /\ next + 1 \notin 1 .. next
    BY <1>1, <1>8 DEF Stage
  <2>3. \A q \in reads : dir'[q.gen] = dir[q.gen]
    BY <1>4, <2>1
  <2>4. pub'[r].pc \in Unpublished => pub'[r].gen \notin 1 .. next
    BY <2>1, <2>2 DEF Unpublished, Staged
  <2> QED BY <1>1, <1>2, <2>1, <2>2, <2>3, <2>4, ReadFrame
<1>9. CASE Clean(r) \/ Seal(r) \/ Sync(r) \/ Rename(r)
  <2>1. /\ pub'[r].gen = pub[r].gen /\ pub[r].gen \in Gens
        /\ \A q \in Publishers : q # r => pub'[q] = pub[q]
    BY <1>9, OwnerWork
  <2>2. pub[r].pc \in Unpublished /\ next' = next
    BY <1>9 DEF Clean, Seal, Sync, Rename, Unpublished, Staged
  <2>3. \A g \in Gens : g \notin aged => dir'[g] \in {dir[g], "complete"}
    BY <1>1, <1>9, <2>1 DEF Clean, old, Seal, Sync, Rename, Typed
  <2> QED BY <1>1, <1>2, <1>4, <2>1, <2>2, <2>3, ReadFrame
<1>10. CASE SyncRoot(r) \/ Throws(r) \/ Die(r)
  <2>1. pub'[r].pc = "idle" /\ \A q \in Publishers : q # r => pub'[q] = pub[q]
    BY <1>1, <1>10, OwnerEnds, EndFacts
  <2>2. next' = next
    BY <1>10 DEF SyncRoot, Throws, Die, fs
  <2>3. \A q \in reads : dir'[q.gen] = dir[q.gen]
    <3>1. CASE SyncRoot(r) \/ Die(r)
      BY <3>1 DEF SyncRoot, Die, fs
    <3>2. CASE Throws(r)
      <4>1. pub[r].pc \in Unpublished /\ dir' = [dir EXCEPT ![pub[r].gen] = "none"]
        BY <3>2 DEF Throws, Unpublished, Staged
      <4> QED BY <1>1, <1>3, <1>4, <4>1 DEF Typed
    <3> QED BY <1>10, <3>1, <3>2
  <2> QED BY <1>1, <1>2, <2>1, <2>2, <2>3, ReadFrame DEF Unpublished, Staged
<1> QED BY <1>5, <1>6, <1>7, <1>8, <1>9, <1>10

LEMMA ReadPin ==
  ASSUME ConstantsAssumption, OwnerInv, PublishInv, ReadInv, NEW c, Pin(c)
  PROVE  ReadInv'
<1>1. UNCHANGED <<dir, aged, current, next, pub>> /\ current # 0
      /\ reads' = reads \cup {[id |-> c, gen |-> current]}
  BY DEF Pin, fs
<1>2. current \in 1 .. next /\ dir[current] = "complete"
  BY <1>1, Constants DEF OwnerInv, Typed, PublishInv, PointersWhole
<1>3. \A r \in Publishers : pub[r].pc \in Unpublished => current # pub[r].gen
  BY DEF PublishInv, PublishOf, Unpublished
<1>4. \A q \in reads' : q \in reads \/ q.gen = current
  BY <1>1
<1>5. \A q \in reads' : q.gen \in 1 .. next' /\ (q.gen \notin aged' => dir'[q.gen] = "complete")
  BY <1>1, <1>2, <1>4 DEF ReadInv
<1>6. \A r \in Publishers : pub'[r].pc \in Unpublished => \A q \in reads' : q.gen # pub'[r].gen
  BY <1>1, <1>3, <1>4 DEF ReadInv
<1> QED BY <1>5, <1>6 DEF ReadInv, Unpublished

LEMMA ReadNext ==
  ASSUME ConstantsAssumption, ~ leaseLost', OwnerInv, PublishInv, ReadInv,
         [CatalogNext]_catalogVars
  PROVE  ReadInv'
<1>1. next \in Nat
  BY Constants DEF OwnerInv, Typed
<1>2. CASE \E r \in Publishers :
             \/ Acquire(r) \/ Check(r) \/ Claim(r) \/ Stage(r) \/ Clean(r) \/ Seal(r) \/ Sync(r)
             \/ Rename(r) \/ SyncRoot(r) \/ Throws(r) \/ Die(r)
  BY <1>2, ReadPublisher
<1>3. \A r \in Publishers : ~ LoseLease(r)
  BY DEF LoseLease
<1>4. CASE PowerLoss
  <2>1. reads' = {}
    BY <1>4 DEF PowerLoss
  <2> QED BY <2>1 DEF ReadInv
<1>5. CASE TenMinutes \/ (\E q \in reads : Answered(q)) \/ UNCHANGED catalogVars
  <2>1. reads' \subseteq reads /\ aged \subseteq aged' /\ UNCHANGED <<dir, next, pub>>
    BY <1>5 DEF TenMinutes, Answered, fs, catalogVars
  <2> QED BY <1>1, <2>1, ReadFrame
<1>6. CASE \E c \in 1 .. MaxReads : Pin(c)
  BY <1>6, ReadPin
<1> QED BY <1>2, <1>3, <1>4, <1>5, <1>6 DEF CatalogNext

-----------------------------------------------------------------------------
(* The theorem.                                                             *)

\* publishGeneration and pinCatalogGeneration: while no publisher loses its lease,
\* the pointer names a complete generation after every step, process death and
\* power loss, and a request that resolved a generation less than ten minutes old
\* finds its files; with lost leases too, a directory that two stores were given
\* serves the store that claimed it (owner.json).
THEOREM PublishedIsWhole ==
  ASSUME ConstantsAssumption PROVE CatalogSpec => []CurrentIsComplete
<1>1. CatalogInit => CatalogInv
  <2>1. CatalogInit => reads = {}
    BY DEF CatalogInit
  <2> QED BY <2>1, OwnerInit DEF CatalogInv, ReadInv
<1>2. CatalogInv /\ [CatalogNext]_catalogVars => CatalogInv'
  <2> SUFFICES ASSUME CatalogInv, [CatalogNext]_catalogVars PROVE CatalogInv'
    OBVIOUS
  <2>1. ~ leaseLost' => ~ leaseLost
    BY DEF CatalogNext, catalogVars, Acquire, Check, Claim, Stage, Clean, Seal, Sync, Rename,
           SyncRoot, Throws, Die, LoseLease, PowerLoss, TenMinutes, Pin, Answered
  <2>2. OwnerInv'
    BY OwnerNext DEF CatalogInv
  <2>3. ASSUME ~ leaseLost' PROVE PublishInv' /\ ReadInv'
    BY <2>1, <2>3, PublishNext, ReadNext DEF CatalogInv
  <2> QED BY <2>2, <2>3 DEF CatalogInv
<1>3. CatalogInv => CurrentIsComplete
  <2>1. OwnerInv => OneStorePerDirectory
    BY DEF OwnerInv, PointersOwned, OneStorePerDirectory
  <2>2. PublishInv => PointerComplete
    BY DEF PublishInv, PointersWhole, PointerComplete
  <2>3. ReadInv => ReadersFindTheirFiles
    BY DEF ReadInv, ReadersFindTheirFiles
  <2> QED BY <2>1, <2>2, <2>3 DEF CatalogInv, CurrentIsComplete
<1> QED BY <1>1, <1>2, <1>3, PTL DEF CatalogSpec
=============================================================================
