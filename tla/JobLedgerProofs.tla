-------------------------- MODULE JobLedgerProofs ---------------------------
(***************************************************************************)
(* As long as no item outlasts the lease, for any accounts, workers, limits *)
(* and bounds: the queue implements JobLedger, what a row has used up of   *)
(* its attempts is what the reaper counted, and an account's failures are  *)
(* jobs of it that failed.  Every step of the queue is one of seven moves  *)
(* of its rows (Moves); what follows is about the moves.                   *)
(***************************************************************************)
EXTENDS JobQueueProofs

atBar == [w \in Workers |-> IF wrk[w].pc \in Holding THEN wrk[w].job ELSE 0]

AtSame == atBar' = atBar
AtLeft(w) == atBar' = [atBar EXCEPT ![w] = 0]

\* A row that waits, is held or is done as before, its attempts untouched.
Same(r, q) ==
  /\ \A S \in {Waiting, Live, Terminal} : q.status \in S <=> r.status \in S
  /\ q.status = "none" <=> r.status = "none"
  /\ r.status \in Live => q.owner = r.owner
  /\ q.attempts = r.attempts /\ q.lost = r.lost

Keeps == \A j \in JobIds : Same(jobs[j], jobs'[j])

Posts ==
  /\ lastId < MaxJobs /\ lastId' = lastId + 1
  /\ \E q \in JobRows : /\ q.status \in Waiting /\ q.attempts = 0 /\ q.lost = 0
                        /\ jobs' = [jobs EXCEPT ![lastId + 1] = q]

Takes(w, j) ==
  /\ jobs[j].status \in Waiting /\ atBar[w] = 0
  /\ jobs' = [jobs EXCEPT ![j] = Claimed(w, j)]
  /\ atBar' = [atBar EXCEPT ![w] = j]

\* The worker's last write to the row it holds.
Settles(w, j) ==
  /\ atBar[w] = j /\ jobs[j].status \in Live /\ jobs[j].owner = w
  /\ \E q \in JobRows : /\ q.status \in Terminal \/ q = Deferred(jobs[j])
                        /\ jobs' = [jobs EXCEPT ![j] = q]
  /\ AtLeft(w)

Withdraws(j) ==
  /\ jobs[j].status \in Waiting
  /\ jobs' = [jobs EXCEPT ![j].status = "cancelled"]

Drops(a) == jobs' = [j \in JobIds |-> IF jobs[j].acct = a THEN NoJob ELSE jobs[j]]

Moves ==
  \/ Keeps /\ UNCHANGED lastId /\ (AtSame \/ \E w \in Workers : AtLeft(w))
  \/ Posts /\ AtSame
  \/ \E w \in Workers, j \in JobIds : (Takes(w, j) \/ Settles(w, j)) /\ UNCHANGED lastId
  \/ jobs' = Reaped /\ UNCHANGED lastId /\ AtSame
  \/ \E j \in JobIds : Withdraws(j) /\ UNCHANGED lastId /\ AtSame
  \/ \E a \in Accounts : Drops(a) /\ UNCHANGED lastId /\ AtSame

-----------------------------------------------------------------------------
(* Every step is a move.                                                   *)

LEMMA AtMoves ==
  ASSUME TypeOK, NEW w \in Workers
  PROVE  /\ UNCHANGED wrk => AtSame
         /\ \A pc : pc \notin Holding /\ (Goto(w, pc) \/ Become(w, Fresh(pc))) => AtLeft(w)
         /\ \A pc \in Holding : wrk[w].pc \in Holding /\ Goto(w, pc) => AtSame
         /\ \A s : wrk[w].pc \in Holding /\ Closing(w, s) => AtSame
         /\ wrk[w].pc \notin Holding /\ AtLeft(w) => AtSame
         /\ wrk[w].pc \notin Holding => atBar[w] = 0
         /\ wrk[w].pc \in Holding => atBar[w] = wrk[w].job
<1>0. wrk \in [Workers -> WorkerStates] /\ wrk[w] \in WorkerStates
  BY DEF TypeOK
<1>1. UNCHANGED wrk => AtSame
  BY DEF AtSame, atBar
<1>2. ASSUME NEW pc, pc \notin Holding, Goto(w, pc) \/ Become(w, Fresh(pc))
      PROVE  AtLeft(w)
  <2>1. wrk'[w].pc = pc /\ \A v \in Workers : v # w => wrk'[v] = wrk[v]
    BY <1>0, <1>2 DEF Goto, Become, Fresh, WorkerStates
  <2>. QED BY <1>2, <2>1 DEF AtLeft, atBar
<1>3. ASSUME wrk[w].pc \in Holding, NEW pc \in Holding, Goto(w, pc)
      PROVE  AtSame
  <2>1. /\ wrk'[w].pc = pc /\ wrk'[w].job = wrk[w].job
        /\ \A v \in Workers : v # w => wrk'[v] = wrk[v]
    BY <1>0, <1>3 DEF Goto, WorkerStates
  <2>. QED BY <1>3, <2>1 DEF AtSame, atBar
<1>4. ASSUME wrk[w].pc \in Holding, NEW s, Closing(w, s) PROVE AtSame
  <2>1. /\ wrk'[w].pc = "closing" /\ wrk'[w].job = wrk[w].job
        /\ \A v \in Workers : v # w => wrk'[v] = wrk[v]
    BY <1>0, <1>4 DEF Closing, WorkerStates
  <2>. QED BY <1>4, <2>1 DEF AtSame, atBar, Holding, Busy
<1>5. /\ wrk[w].pc \notin Holding /\ AtLeft(w) => AtSame
      /\ wrk[w].pc \notin Holding => atBar[w] = 0
      /\ wrk[w].pc \in Holding => atBar[w] = wrk[w].job
  BY DEF AtLeft, AtSame, atBar
<1>. QED BY <1>1, <1>2, <1>3, <1>4, <1>5

LEMMA SameRow ==
  ASSUME NEW r \in JobRows
  PROVE  Same(r, r)
BY DEF Same

\* Steps that leave the rows alone.
LEMMA KeepsRows == UNCHANGED jobs => Keeps
BY DEF Keeps, Same

\* One row is changed, but not what the ledger sees of it.
LEMMA KeepsOne ==
  ASSUME TypeOK, NEW j \in JobIds, NEW q, jobs' = [jobs EXCEPT ![j] = q],
         Same(jobs[j], q)
  PROVE  Keeps
BY DEF TypeOK, Keeps, Same

LEMMA PostsRow ==
  ASSUME TypeOK, NEW a \in Accounts \cup {None}, NEW t \in Types \cup {None},
         NEW p \in Nat, NEW b \in BOOLEAN, NEW c \in BOOLEAN,
         lastId < MaxJobs, Insert(a, t, p, b, c)
  PROVE  Posts
<1>. DEFINE q == [NoJob EXCEPT !.status = "queued", !.acct = a, !.typ = t, !.prio = p,
                               !.due = b, !.cancel = c]
<1>1. q \in JobRows /\ q.status \in Waiting /\ q.attempts = 0 /\ q.lost = 0
  BY DEF NoJob, JobRows, Waiting
<1>. HIDE DEF q
<1>2. jobs' = [jobs EXCEPT ![lastId + 1] = q] /\ lastId' = lastId + 1
  BY DEF Insert, q
<1>. QED BY <1>1, <1>2 DEF Posts

LEMMA RequestMoves ==
  ASSUME Sound, Request
  PROVE  Moves
<1>0. TypeOK /\ RowsPlaced
  BY DEF Sound
<1>1. AtSame
  BY DEF Request, CreateAccount, DeleteAccount, UpdateAccount, Enqueue, ToggleRead,
         Retry, CancelJob, FlipSwitch, AtSame, atBar
<1>2. ASSUME NEW a \in Accounts, NEW on \in BOOLEAN, NEW b \in BOOLEAN,
             CreateAccount(a, on, b)
      PROVE  Moves
  <2>1. CASE b
    <3>1. PICK p \in Priorities : Insert(a, "sync", p, TRUE, FALSE)
      BY <1>2, <2>1 DEF CreateAccount
    <3>2. lastId < MaxJobs /\ p \in Nat /\ "sync" \in Types
      BY <1>2, <2>1, QueueAssumption DEF CreateAccount
    <3>. QED BY <1>0, <1>1, <3>1, <3>2, PostsRow DEF Moves
  <2>2. CASE ~b
    BY <1>1, <1>2, <2>2, KeepsRows DEF CreateAccount, Moves
  <2>. QED BY <2>1, <2>2
<1>3. ASSUME NEW a \in Accounts, DeleteAccount(a) PROVE Moves
  BY <1>1, <1>3 DEF DeleteAccount, Moves, Drops
<1>4. ASSUME NEW a \in Accounts, NEW s, NEW st, UpdateAccount(a, s, st) PROVE Moves
  BY <1>1, <1>4, KeepsRows DEF UpdateAccount, Moves
<1>5. ASSUME NEW a \in Accounts, NEW t \in Types, NEW p \in Priorities,
             NEW due \in BOOLEAN, Enqueue(a, t, p, due)
      PROVE  Moves
  <2>1. lastId < MaxJobs /\ Insert(a, t, p, due, FALSE) /\ p \in Nat
    BY <1>5, QueueAssumption DEF Enqueue, CanInsert
  <2>. QED BY <1>0, <1>1, <2>1, PostsRow DEF Moves
<1>6. ASSUME NEW a \in Accounts, NEW target, ToggleRead(a, target) PROVE Moves
  BY <1>1, <1>6, KeepsRows DEF ToggleRead, Moves
<1>7. ASSUME NEW j \in JobIds, Retry(j) PROVE Moves
  <2>1. /\ lastId < MaxJobs
        /\ Insert(jobs[j].acct, jobs[j].typ, jobs[j].prio, TRUE, jobs[j].cancel)
    BY <1>7 DEF Retry, CanInsert
  <2>2. /\ jobs[j].acct \in Accounts \cup {None} /\ jobs[j].typ \in Types \cup {None}
        /\ jobs[j].prio \in Nat /\ jobs[j].cancel \in BOOLEAN
    BY <1>0 DEF TypeOK, JobRows
  <2>. QED BY <1>0, <1>1, <2>1, <2>2, PostsRow DEF Moves
<1>8. ASSUME NEW j \in JobIds, CancelJob(j) PROVE Moves
  <2>1. CASE jobs[j].status \in Waiting /\ jobs' = [jobs EXCEPT ![j].status = "cancelled"]
    BY <1>1, <1>8, <2>1 DEF CancelJob, Moves, Withdraws
  <2>2. CASE jobs' = [jobs EXCEPT ![j].cancel = TRUE, ![j].asked = TRUE]
    <3>1. \A k \in JobIds : /\ jobs'[k].status = jobs[k].status
                            /\ jobs'[k].owner = jobs[k].owner
                            /\ jobs'[k].attempts = jobs[k].attempts
                            /\ jobs'[k].lost = jobs[k].lost
      BY <1>0, <2>2 DEF TypeOK, JobRows
    <3>. QED BY <1>1, <1>8, <3>1 DEF CancelJob, Moves, Keeps, Same
  <2>. QED BY <1>8, <2>1, <2>2 DEF CancelJob
<1>9. ASSUME FlipSwitch PROVE Moves
  BY <1>1, <1>9, KeepsRows DEF FlipSwitch, Moves
<1>. QED BY <1>2, <1>3, <1>4, <1>5, <1>6, <1>7, <1>8, <1>9 DEF Request
LEMMA TimeMoves ==
  ASSUME Sound, Time
  PROVE  Moves
<1>0. TypeOK
  BY DEF Sound
<1>1. AtSame
  BY DEF Time, BecomesDue, LeaseExpires, BecomesEligible, AtSame, atBar
<1>2. ASSUME NEW j \in JobIds, BecomesDue(j) \/ LeaseExpires(j) PROVE Moves
  <2>1. jobs[j] \in JobRows
    BY <1>0 DEF TypeOK
  <2>2. /\ Same(jobs[j], [jobs[j] EXCEPT !.due = TRUE])
        /\ Same(jobs[j], [jobs[j] EXCEPT !.lease = "expired"])
    BY <2>1 DEF Same, JobRows
  <2>3. \/ jobs' = [jobs EXCEPT ![j] = [jobs[j] EXCEPT !.due = TRUE]]
        \/ jobs' = [jobs EXCEPT ![j] = [jobs[j] EXCEPT !.lease = "expired"]]
    BY <1>2 DEF BecomesDue, LeaseExpires
  <2>4. Keeps
    BY <1>0, <2>2, <2>3, KeepsOne
  <2>. QED BY <1>1, <1>2, <2>4 DEF BecomesDue, LeaseExpires, Moves
<1>3. ASSUME NEW a \in Accounts, BecomesEligible(a) PROVE Moves
  BY <1>1, <1>3, KeepsRows DEF BecomesEligible, Moves
<1>. QED BY <1>2, <1>3 DEF Time

LEMMA LoopMoves ==
  ASSUME Sound, NEW w \in Workers, LoopStep(w)
  PROVE  Moves
<1>0. TypeOK /\ \A pc \in Loop : pc \notin Holding
  BY DEF Sound, Holding, Busy, Engine, Loop
<1>. USE DEF Loop
<1>1. CASE Paused(w)
  BY <1>0, <1>1, AtMoves, KeepsRows DEF Paused, Moves
<1>2. CASE Poll(w)
  BY <1>0, <1>2, AtMoves, KeepsRows DEF Poll, Moves
<1>3. CASE Housekeep(w)
  BY <1>0, <1>3, AtMoves DEF Housekeep, Moves
<1>4. CASE AutoFlag(w)
  BY <1>0, <1>4, AtMoves, KeepsRows DEF AutoFlag, Moves
<1>5. CASE OutOfBlock(w)
  BY <1>0, <1>5, AtMoves, KeepsRows DEF OutOfBlock, Moves
<1>6. CASE SelectDue(w)
  <2>1. AtSame
    BY <1>0, <1>6 DEF SelectDue, AtSame, atBar, TypeOK, WorkerStates
  <2>. QED BY <1>6, <2>1, KeepsRows DEF SelectDue, Moves
<1>7. ASSUME NEW a \in Accounts, PlanOne(w, a) PROVE Moves
  <2>1. AtSame
    BY <1>0, <1>7 DEF PlanOne, AtSame, atBar, TypeOK, WorkerStates
  <2>2. CASE CanInsert(a, "sync")
    <3>1. PICK p \in Priorities, due \in BOOLEAN : Insert(a, "sync", p, due, FALSE)
      BY <1>7, <2>2 DEF PlanOne
    <3>2. lastId < MaxJobs /\ p \in Nat /\ "sync" \in Types
      BY <2>2, QueueAssumption DEF CanInsert
    <3>3. Posts
      BY <1>0, <3>1, <3>2, PostsRow
    <3>. QED BY <2>1, <3>3 DEF Moves
  <2>3. CASE ~CanInsert(a, "sync")
    BY <1>7, <2>1, <2>3, KeepsRows DEF PlanOne, Moves
  <2>. QED BY <2>2, <2>3
<1>8. CASE PlanDone(w)
  BY <1>0, <1>8, AtMoves, KeepsRows DEF PlanDone, Moves
<1>9. CASE ClaimNone(w)
  BY <1>0, <1>9, AtMoves, KeepsRows DEF ClaimNone, Moves
<1>10. CASE Claim(w)
  <2>1. PICK j \in Top :
          IF Admits(j, Claimed(w, j))
          THEN /\ jobs' = [jobs EXCEPT ![j] = Claimed(w, j)]
               /\ Become(w, [Fresh("claimed") EXCEPT
                               !.job = j, !.on = accts[jobs[j].acct].enabled])
          ELSE /\ Become(w, Fresh("backoff"))
               /\ UNCHANGED jobs
    BY <1>10 DEF Claim
  <2>2. j \in JobIds /\ jobs[j].status \in Waiting
    BY DEF Top, Claimable
  <2>3. wrk[w].pc \notin Holding /\ UNCHANGED lastId
    BY <1>0, <1>10 DEF Claim
  <2>4. CASE Admits(j, Claimed(w, j))
    <3>1. /\ wrk'[w].job = j /\ wrk'[w].pc = "claimed"
          /\ \A v \in Workers : v # w => wrk'[v] = wrk[v]
      <4>1. \A on : /\ [Fresh("claimed") EXCEPT !.job = j, !.on = on].job = j
                    /\ [Fresh("claimed") EXCEPT !.job = j, !.on = on].pc = "claimed"
        BY DEF Fresh
      <4>2. wrk' = [wrk EXCEPT ![w] = [Fresh("claimed") EXCEPT
                      !.job = j, !.on = accts[jobs[j].acct].enabled]]
        BY <2>1, <2>4 DEF Become
      <4>. QED BY <1>0, <4>1, <4>2 DEF TypeOK
    <3>2. atBar' = [atBar EXCEPT ![w] = j]
      BY <3>1 DEF atBar, Holding, Busy
    <3>3. Takes(w, j)
      BY <1>0, <2>1, <2>2, <2>3, <2>4, <3>2, AtMoves DEF Takes
    <3>. QED BY <2>2, <2>3, <3>3 DEF Moves
  <2>5. CASE ~Admits(j, Claimed(w, j))
    BY <1>0, <2>1, <2>3, <2>5, AtMoves, KeepsRows DEF Moves
  <2>. QED BY <2>4, <2>5
<1>11. CASE Resume(w)
  BY <1>0, <1>11, AtMoves, KeepsRows DEF Resume, Moves
<1>. QED
  BY <1>1, <1>2, <1>3, <1>4, <1>5, <1>6, <1>7, <1>8, <1>9, <1>10, <1>11 DEF LoopStep

\* A last write: to a row that is gone it does nothing.
LEMMA LastWrite ==
  ASSUME Sound, HolderOwnsRow, NEW w \in Workers, wrk[w].pc \in Holding,
         NEW q \in JobRows, q.status \in Terminal \/ q = Deferred(jobs[wrk[w].job]),
         jobs' = [jobs EXCEPT ![wrk[w].job] = Row(wrk[w].job, q)],
         AtLeft(w), UNCHANGED lastId
  PROVE  Moves
<1>. PICK j \in JobIds : j = wrk[w].job
  BY DEF Sound, TypeOK, WorkerStates, JobIds
<1>1. jobs[j] \in JobRows /\ TypeOK
  BY DEF Sound, TypeOK
<1>2. CASE jobs[j].status = "none"
  <2>1. jobs' = [jobs EXCEPT ![j] = jobs[j]]
    BY <1>2 DEF Row
  <2>2. Keeps
    BY <1>1, <2>1, KeepsOne, SameRow
  <2>. QED BY <2>2 DEF Moves
<1>3. CASE jobs[j].status # "none"
  <2>1. jobs[j].status \in Live /\ jobs[j].owner = w
    BY <1>3 DEF HolderOwnsRow, Holding
  <2>2. jobs' = [jobs EXCEPT ![j] = q]
    BY <1>3 DEF Row
  <2>3. atBar[w] = j
    BY <1>1, AtMoves
  <2>4. Settles(w, j)
    BY <2>1, <2>2, <2>3 DEF Settles
  <2>. QED BY <2>4 DEF Moves
<1>. QED BY <1>2, <1>3

LEMMA RunMoves ==
  ASSUME Sound, HolderOwnsRow, NEW w \in Workers, RunStep(w)
  PROVE  Moves
<1>. PICK j \in JobIds : j = wrk[w].job
  BY DEF Sound, TypeOK, WorkerStates, JobIds
<1>. PICK r \in JobRows : r = jobs[j]
  BY DEF Sound, TypeOK
<1>0. /\ TypeOK
      /\ {"claimed", "closing", "discover", "checkpoint", "item"} \subseteq Holding
      /\ \A pc \in {"idle", "backoff", "followup"} : pc \notin Holding
      /\ \A pc \in Engine : pc \in Holding
      /\ wrk[w].pc \in Holding => r.status = "none" \/ r.status \in Live
  BY DEF Sound, Holding, Busy, Engine, HolderOwnsRow
<1>1. CASE Start(w)
  <2>. DEFINE u == [r EXCEPT !.status = IF wrk[w].on THEN "running" ELSE "cancelled",
                             !.lease = IF wrk[w].on THEN @ ELSE "none"]
  <2>1. /\ IF Admits(j, Row(j, u))
           THEN /\ jobs' = [jobs EXCEPT ![j] = Row(j, u)]
                /\ IF wrk[w].on THEN Goto(w, "discover") ELSE Become(w, Fresh("idle"))
           ELSE Become(w, Fresh("backoff")) /\ UNCHANGED jobs
        /\ wrk[w].pc = "claimed" /\ UNCHANGED lastId
    BY <1>1 DEF Start
  <2>2. wrk[w].pc \in Holding
    BY <1>0, <2>1
  <2>3. CASE Admits(j, Row(j, u)) /\ wrk[w].on
    <3>1. Same(r, Row(j, u))
      BY <1>0, <2>2, <2>3 DEF Same, Row, JobRows, Live, Waiting, Terminal
    <3>2. Keeps
      BY <1>0, <2>1, <2>3, <3>1, KeepsOne
    <3>. QED BY <1>0, <2>1, <2>2, <2>3, <3>2, AtMoves DEF Moves
  <2>4. CASE Admits(j, Row(j, u)) /\ ~wrk[w].on
    <3>1. u \in JobRows /\ u.status \in Terminal
      BY ZenonT(30), <2>4 DEF JobRows, Terminal
    <3>2. AtLeft(w)
      BY <1>0, <2>1, <2>4, AtMoves
    <3>. HIDE DEF u
    <3>. QED BY <2>1, <2>2, <2>4, <3>1, <3>2, LastWrite
  <2>5. CASE ~Admits(j, Row(j, u))
    BY <1>0, <2>1, <2>5, AtMoves, KeepsRows DEF Moves
  <2>. QED BY <2>3, <2>4, <2>5
<1>2. CASE Unavailable(w)
  BY <1>0, <1>2, AtMoves, KeepsRows DEF Unavailable, Moves
<1>3. CASE EngineFails(w)
  BY <1>0, <1>3, AtMoves, KeepsRows DEF EngineFails, Moves
<1>4. CASE Refused(w)
  <2>1. /\ wrk[w].pc \in Holding /\ Become(w, Fresh("idle")) /\ UNCHANGED lastId
        /\ jobs' = [jobs EXCEPT ![j] = Row(j, Deferred(r))]
    BY <1>0, <1>4 DEF Refused
  <2>2. AtLeft(w)
    BY <1>0, <2>1, AtMoves
  <2>3. Deferred(r) \in JobRows
    BY RowTypes
  <2>. QED BY <2>1, <2>2, <2>3, LastWrite
<1>5. CASE UpToDate(w)
  BY <1>0, <1>5, AtMoves, KeepsRows DEF UpToDate, Moves
<1>6. CASE Checkpoint(w)
  BY <1>0, <1>6, AtMoves, KeepsRows DEF Checkpoint, Moves
<1>7. CASE ItemDone(w)
  <2>1. CASE wrk[w].left > 1
    <3>1. /\ jobs' = [jobs EXCEPT ![j] = Row(j, [r EXCEPT !.lease = "held"])]
          /\ wrk' = [wrk EXCEPT ![w].pc = "checkpoint", ![w].left = @ - 1]
          /\ wrk[w].pc = "item" /\ UNCHANGED lastId
      BY <1>7, <2>1 DEF ItemDone
    <3>2. Same(r, Row(j, [r EXCEPT !.lease = "held"]))
      BY DEF Same, Row, JobRows
    <3>3. Keeps
      BY <1>0, <3>1, <3>2, KeepsOne
    <3>4. AtSame
      BY <1>0, <3>1 DEF AtSame, atBar, TypeOK, WorkerStates
    <3>. QED BY <3>1, <3>3, <3>4 DEF Moves
  <2>2. CASE ~(wrk[w].left > 1)
    BY <1>0, <1>7, <2>2, AtMoves, KeepsRows DEF ItemDone, Moves
  <2>. QED BY <2>1, <2>2
<1>8. ASSUME NEW n, NEW more, PlanSlice(w, n, more) PROVE Moves
  <2>1. AtSame
    BY <1>0, <1>8 DEF PlanSlice, AtSame, atBar, TypeOK, WorkerStates
  <2>. QED BY <1>8, <2>1, KeepsRows DEF PlanSlice, Moves
<1>9. CASE Close(w)
  <2>1. /\ wrk[w].pc = "closing" /\ UNCHANGED lastId
        /\ Goto(w, "followup") \/ Become(w, Fresh("idle"))
        /\ jobs' = [jobs EXCEPT ![j] = Row(j, Finished(r, wrk[w].outcome))]
    BY <1>9 DEF Close
  <2>2. wrk[w].outcome \in Terminal
    BY <1>0, <2>1 DEF TypeOK, WorkerStates
  <2>3. Finished(r, wrk[w].outcome) \in JobRows
    BY <2>2, RowTypes
  <2>4. Finished(r, wrk[w].outcome).status \in Terminal
    BY <2>2 DEF Finished, JobRows
  <2>5. AtLeft(w)
    BY <1>0, <2>1, AtMoves
  <2>. QED BY <1>0, <2>1, <2>3, <2>4, <2>5, LastWrite
<1>10. CASE Followup(w)
  <2>1. /\ wrk[w].pc = "followup" /\ Become(w, Fresh("idle"))
        /\ IF r.status # "none" /\ CanInsert(r.acct, "sync")
           THEN Insert(r.acct, "sync", r.prio, FALSE, FALSE)
           ELSE UNCHANGED <<jobs, lastId>>
    BY <1>10 DEF Followup
  <2>2. AtSame
    BY <1>0, <2>1, AtMoves
  <2>3. CASE r.status # "none" /\ CanInsert(r.acct, "sync")
    <3>1. r.acct \in Accounts \cup {None} /\ r.prio \in Nat
      BY DEF JobRows
    <3>2. Posts
      BY <1>0, <2>1, <2>3, <3>1, QueueAssumption, PostsRow DEF CanInsert
    <3>. QED BY <2>2, <3>2 DEF Moves
  <2>4. CASE ~(r.status # "none" /\ CanInsert(r.acct, "sync"))
    BY <2>1, <2>2, <2>4, KeepsRows DEF Moves
  <2>. QED BY <2>3, <2>4
<1>. QED
  BY <1>1, <1>2, <1>3, <1>4, <1>5, <1>6, <1>7, <1>8, <1>9, <1>10 DEF RunStep

LEMMA StepMoves ==
  ASSUME Sound, HolderOwnsRow, [Next]_vars
  PROVE  Moves
<1>0. TypeOK /\ \A pc \in {"idle", "backoff", "down"} : pc \notin Holding
  BY DEF Sound, Holding, Busy, Engine
<1>1. CASE ToggleWrite
  <2>1. AtSame /\ UNCHANGED lastId
    BY <1>1 DEF ToggleWrite, AtSame, atBar
  <2>2. toggle.job \in JobIds
    BY <1>0 DEF TypeOK, JobIds
  <2>3. UNCHANGED jobs \/ Withdraws(toggle.job)
    BY <1>1 DEF ToggleWrite, Withdraws
  <2>. QED BY <2>1, <2>2, <2>3, KeepsRows DEF Moves
<1>2. CASE Reap
  BY <1>2 DEF Reap, Moves, AtSame, atBar
<1>3. ASSUME NEW w \in Workers, DbError(w) PROVE Moves
  BY <1>0, <1>3, AtMoves, KeepsRows DEF DbError, Moves
<1>4. ASSUME NEW w \in Workers, Crash(w) PROVE Moves
  BY <1>0, <1>4, AtMoves, KeepsRows DEF Crash, Moves
<1>5. ASSUME NEW w \in Workers, Restart(w) PROVE Moves
  <2>1. wrk[w].pc \notin Holding /\ AtLeft(w)
    BY <1>0, <1>5, AtMoves DEF Restart
  <2>. QED BY <1>0, <1>5, <2>1, AtMoves DEF Restart, Moves
<1>6. CASE UNCHANGED vars
  BY <1>6, KeepsRows DEF vars, Moves, AtSame, atBar
<1>. QED
  BY <1>1, <1>2, <1>3, <1>4, <1>5, <1>6, RequestMoves, TimeMoves, LoopMoves, RunMoves
  DEF Next, WorkerStep
-----------------------------------------------------------------------------
(* The moves are moves of JobLedger.                                       *)

StateOf(j) ==
  IF jobs[j].status \in Waiting THEN "waiting"
  ELSE IF jobs[j].status \in Live THEN "held"
  ELSE IF jobs[j].status \in Terminal THEN "done"
  ELSE IF j \in 1 .. lastId THEN "dropped" ELSE "unposted"
HolderOf(j) == IF jobs[j].status \in Live THEN jobs[j].owner ELSE None

stateBar == [j \in JobIds |-> StateOf(j)]
holderBar == [j \in JobIds |-> HolderOf(j)]

\* What a row says of its job.
LEMMA StatusCases ==
  ASSUME NEW r \in JobRows
  PROVE  /\ r.status \in Waiting => r.status \notin Live \cup Terminal \cup {"none"}
         /\ r.status \in Live => r.status \notin Terminal \cup {"none"}
         /\ r.status \in Terminal => r.status # "none"
         /\ r.status \in Waiting \cup Live \cup Terminal \cup {"none"}
BY DEF JobRows, Waiting, Live, Terminal

LEMMA StateTypes ==
  /\ \A j \in JobIds : StateOf(j) \in Ledger!States /\ StateOf(j)' \in Ledger!States
  /\ stateBar \in [JobIds -> Ledger!States] /\ stateBar' \in [JobIds -> Ledger!States]
<1>1. \A j \in JobIds : StateOf(j) \in Ledger!States /\ StateOf(j)' \in Ledger!States
  BY DEF StateOf, Ledger!States
<1>. QED BY <1>1 DEF stateBar

LEMMA KeptState ==
  ASSUME NEW j \in JobIds, Same(jobs[j], jobs'[j]), UNCHANGED lastId
  PROVE  StateOf(j)' = StateOf(j) /\ HolderOf(j)' = HolderOf(j)
BY DEF Same, StateOf, HolderOf

\* One row is written.
LEMMA OneState ==
  ASSUME TypeOK, NEW j \in JobIds, NEW q \in JobRows, jobs' = [jobs EXCEPT ![j] = q],
         \A k \in JobIds \ {j} : k \in 1 .. lastId' <=> k \in 1 .. lastId
  PROVE  /\ jobs'[j] = q
         /\ stateBar' = [stateBar EXCEPT ![j] = StateOf(j)']
         /\ holderBar' = [holderBar EXCEPT ![j] = HolderOf(j)']
<1>1. jobs'[j] = q /\ \A k \in JobIds \ {j} : jobs'[k] = jobs[k]
  BY DEF TypeOK
<1>2. \A k \in JobIds \ {j} : StateOf(k)' = StateOf(k) /\ HolderOf(k)' = HolderOf(k)
  BY <1>1 DEF StateOf, HolderOf
<1>. QED BY <1>1, <1>2 DEF stateBar, holderBar

\* Rows change together.
LEMMA ManyStates ==
  ASSUME NEW from, NEW to, UNCHANGED lastId, AtSame,
         \A j \in JobIds :
           \/ StateOf(j)' = StateOf(j) /\ HolderOf(j)' = HolderOf(j)
           \/ StateOf(j) \in from /\ StateOf(j)' \in to /\ HolderOf(j)' = None,
         stateBar' # stateBar,
         from \cap to = {}
  PROVE  Ledger!Moved(from, to)
<1>1. \A j \in JobIds :
        /\ stateBar[j] = StateOf(j) /\ stateBar'[j] = StateOf(j)'
        /\ holderBar[j] = HolderOf(j) /\ holderBar'[j] = HolderOf(j)'
  BY DEF stateBar, holderBar
<1>2. \A j \in JobIds : stateBar'[j] # stateBar[j] =>
                          stateBar[j] \in from /\ stateBar'[j] \in to
  BY <1>1
<1>3. holderBar' = [j \in JobIds |-> IF stateBar'[j] = stateBar[j] THEN holderBar[j]
                                     ELSE None]
  <2>1. \A j \in JobIds : holderBar'[j] = IF stateBar'[j] = stateBar[j]
                                          THEN holderBar[j] ELSE None
    BY <1>1
  <2>. QED BY <2>1 DEF holderBar
<1>4. atBar' = atBar
  BY DEF AtSame
<1>. QED
  BY <1>2, <1>3, <1>4, StateTypes
  DEF Ledger!Moved, stateBar, holderBar, atBar, StateOf, HolderOf, Holding

LEMMA LedgerSteps ==
  ASSUME Sound, HolderOwnsRow, Moves
  PROVE  Ledger!Next \/ UNCHANGED <<stateBar, holderBar, atBar>>
<1>0. TypeOK /\ RowsPlaced /\ lastId \in 0 .. MaxJobs
  BY DEF Sound, TypeOK
<1>1. CASE Keeps /\ UNCHANGED lastId /\ (AtSame \/ \E w \in Workers : AtLeft(w))
  <2>1. UNCHANGED <<stateBar, holderBar>>
    BY <1>1, KeptState DEF Keeps, stateBar, holderBar
  <2>2. ASSUME NEW w \in Workers, AtLeft(w), atBar[w] # 0 PROVE Ledger!Leave(w)
    BY <2>1, <2>2
    DEF Ledger!Leave, AtLeft, stateBar, holderBar, atBar, StateOf, HolderOf, Holding
  <2>3. ASSUME NEW w \in Workers, AtLeft(w), atBar[w] = 0 PROVE AtSame
    BY <2>3 DEF AtLeft, AtSame, atBar
  <2>. QED BY <1>1, <2>1, <2>2, <2>3 DEF AtSame, Ledger!Next
<1>2. CASE Posts /\ AtSame
  <2>. PICK j : j = lastId + 1
    OBVIOUS
  <2>. PICK q \in JobRows : q.status \in Waiting /\ jobs' = [jobs EXCEPT ![j] = q]
    BY <1>2 DEF Posts
  <2>1. /\ j \in JobIds /\ j \notin 1 .. lastId
        /\ \A k \in JobIds \ {j} : k \in 1 .. lastId' <=> k \in 1 .. lastId
    BY <1>0, <1>2, QueueAssumption DEF Posts, JobIds
  <2>2. /\ jobs'[j] = q /\ stateBar' = [stateBar EXCEPT ![j] = StateOf(j)']
        /\ holderBar' = [holderBar EXCEPT ![j] = HolderOf(j)']
    BY <1>0, <2>1, OneState
  <2>3. jobs[j].status = "none"
    BY <1>0, <2>1 DEF RowsPlaced, JobIds
  <2>4. StateOf(j) = "unposted" /\ HolderOf(j) = None
    BY <2>1, <2>3 DEF StateOf, HolderOf, Waiting, Live, Terminal
  <2>5. StateOf(j)' = "waiting" /\ HolderOf(j)' = None
    BY <2>2, StatusCases DEF StateOf, HolderOf
  <2>6. /\ stateBar[j] = "unposted" /\ stateBar' = [stateBar EXCEPT ![j] = "waiting"]
        /\ holderBar' = holderBar /\ atBar' = atBar
    BY <1>2, <2>1, <2>2, <2>4, <2>5 DEF stateBar, holderBar, AtSame
  <2>7. Ledger!Post(j)
    BY <2>6 DEF Ledger!Post, stateBar, holderBar, atBar, StateOf, HolderOf, Holding
  <2>. QED BY <2>1, <2>7 DEF Ledger!Next
<1>3. ASSUME NEW w \in Workers, NEW j \in JobIds, Takes(w, j), UNCHANGED lastId
      PROVE  Ledger!Next
  <2>1. Claimed(w, j) \in JobRows
    BY <1>0, RowTypes DEF Claimed, TypeOK
  <2>2. /\ jobs'[j] = Claimed(w, j) /\ stateBar' = [stateBar EXCEPT ![j] = StateOf(j)']
        /\ holderBar' = [holderBar EXCEPT ![j] = HolderOf(j)']
    BY <1>0, <1>3, <2>1, OneState DEF Takes
  <2>3. Claimed(w, j).status = "claimed" /\ Claimed(w, j).owner = w
    BY <1>0 DEF Claimed, TypeOK, JobRows
  <2>4. StateOf(j) = "waiting" /\ StateOf(j)' = "held" /\ HolderOf(j)' = w
    BY <1>3, <2>2, <2>3 DEF Takes, StateOf, HolderOf, Waiting, Live
  <2>5. /\ stateBar[j] = "waiting" /\ atBar[w] = 0
        /\ stateBar' = [stateBar EXCEPT ![j] = "held"]
        /\ holderBar' = [holderBar EXCEPT ![j] = w]
        /\ atBar' = [atBar EXCEPT ![w] = j]
    BY <1>3, <2>2, <2>4 DEF Takes, stateBar
  <2>6. Ledger!Take(w, j)
    BY <2>5 DEF Ledger!Take, stateBar, holderBar, atBar, StateOf, HolderOf, Holding
  <2>. QED BY <2>6 DEF Ledger!Next
<1>4. ASSUME NEW w \in Workers, NEW j \in JobIds, Settles(w, j), UNCHANGED lastId
      PROVE  Ledger!Next
  <2>. PICK q \in JobRows : /\ q.status \in Terminal \/ q = Deferred(jobs[j])
                            /\ jobs' = [jobs EXCEPT ![j] = q]
    BY <1>4 DEF Settles
  <2>1. /\ jobs'[j] = q /\ stateBar' = [stateBar EXCEPT ![j] = StateOf(j)']
        /\ holderBar' = [holderBar EXCEPT ![j] = HolderOf(j)']
    BY <1>0, <1>4, OneState
  <2>2. q.status \in Terminal \cup Waiting
    BY <1>0 DEF Deferred, TypeOK, JobRows, Waiting
  <2>3. StateOf(j)' \in {"waiting", "done"} /\ HolderOf(j)' = None
    BY <2>1, <2>2, StatusCases DEF StateOf, HolderOf
  <2>4. jobs[j].status \in Live /\ jobs[j].owner = w /\ jobs[j].status \notin Waiting
    BY <1>0, <1>4, StatusCases DEF Settles, TypeOK
  <2>5. StateOf(j) = "held" /\ HolderOf(j) = w
    BY <2>4 DEF StateOf, HolderOf
  <2>6. PICK s \in {"waiting", "done"} : s = StateOf(j)'
    BY <2>3
  <2>7. /\ atBar[w] = j /\ stateBar[j] = "held" /\ holderBar[j] = w
        /\ stateBar' = [stateBar EXCEPT ![j] = s]
        /\ holderBar' = [holderBar EXCEPT ![j] = None]
        /\ atBar' = [atBar EXCEPT ![w] = 0]
    BY <1>4, <2>1, <2>3, <2>5, <2>6 DEF Settles, AtLeft, stateBar, holderBar
  <2>8. Ledger!Settle(w, j)
    BY <2>7 DEF Ledger!Settle, stateBar, holderBar, atBar, StateOf, HolderOf, Holding
  <2>. QED BY <2>8 DEF Ledger!Next
<1>5. CASE jobs' = Reaped /\ UNCHANGED lastId /\ AtSame
  <2>1. ASSUME NEW j \in JobIds, Expired(j)
        PROVE  /\ StateOf(j) = "held" /\ StateOf(j)' \in {"waiting", "done"}
               /\ HolderOf(j)' = None /\ \A w \in Workers : atBar[w] # j
    <3>1. jobs[j].status \in Live /\ jobs[j].lease # "held" /\ jobs[j] \in JobRows
      BY <1>0, <2>1 DEF Expired, TypeOK
    <3>2. jobs'[j].status \in {"failed", "queued"}
      BY <1>5, <2>1, <3>1 DEF Reaped, JobRows
    <3>3. StateOf(j) = "held"
      BY <3>1, StatusCases DEF StateOf
    <3>4. StateOf(j)' \in {"waiting", "done"} /\ HolderOf(j)' = None
      BY <3>2 DEF StateOf, HolderOf, Waiting, Live, Terminal
    <3>5. j # 0
      BY <1>0, <3>1 DEF RowsPlaced, Live
    <3>6. ASSUME NEW w \in Workers PROVE atBar[w] # j
      BY <3>1, <3>5, StatusCases DEF atBar, HolderOwnsRow, Holding
    <3>. QED BY <3>3, <3>4, <3>6
  <2>2. ASSUME NEW j \in JobIds, ~Expired(j)
        PROVE  StateOf(j)' = StateOf(j) /\ HolderOf(j)' = HolderOf(j)
    BY <1>5, <2>2 DEF Reaped, StateOf, HolderOf
  <2>3. CASE stateBar' = stateBar
    <3>1. \A j \in JobIds : stateBar[j] = StateOf(j) /\ stateBar'[j] = StateOf(j)'
      BY DEF stateBar
    <3>2. \A j \in JobIds : ~Expired(j)
      BY <2>1, <2>3, <3>1
    <3>3. holderBar' = holderBar
      BY <2>2, <3>2 DEF holderBar
    <3>. QED BY <1>5, <2>3, <3>3 DEF AtSame
  <2>4. CASE stateBar' # stateBar
    <3>1. Ledger!Moved({"held"}, {"waiting", "done"})
      <4>. PICK from, to : from = {"held"} /\ to = {"waiting", "done"}
        OBVIOUS
      <4>1. from \cap to = {}
        OBVIOUS
      <4>2. \A j \in JobIds :
              \/ StateOf(j)' = StateOf(j) /\ HolderOf(j)' = HolderOf(j)
              \/ StateOf(j) \in from /\ StateOf(j)' \in to /\ HolderOf(j)' = None
        BY <2>1, <2>2
      <4>3. Ledger!Moved(from, to)
        BY <1>5, <2>4, <4>1, <4>2, ManyStates
      <4>. QED BY <4>3
    <3>2. \A j \in JobIds : stateBar'[j] # stateBar[j] => \A w \in Workers : atBar[w] # j
      BY <2>1, <2>2 DEF stateBar
    <3>3. Ledger!Reclaim
      BY <3>1, <3>2 DEF Ledger!Reclaim, stateBar, atBar, StateOf, Holding
    <3>. QED BY <3>3 DEF Ledger!Next
  <2>. QED BY <2>3, <2>4
<1>6. ASSUME NEW j \in JobIds, Withdraws(j), UNCHANGED lastId, AtSame
      PROVE  Ledger!Next
  <2>. PICK q : q = [jobs[j] EXCEPT !.status = "cancelled"]
    OBVIOUS
  <2>1. q \in JobRows /\ q.status = "cancelled" /\ jobs' = [jobs EXCEPT ![j] = q]
    BY <1>0, <1>6 DEF Withdraws, TypeOK, JobRows, Terminal
  <2>2. /\ jobs'[j] = q /\ stateBar' = [stateBar EXCEPT ![j] = StateOf(j)']
        /\ holderBar' = [holderBar EXCEPT ![j] = HolderOf(j)']
    BY <1>0, <1>6, <2>1, OneState
  <2>3. /\ StateOf(j) = "waiting" /\ StateOf(j)' = "done"
        /\ HolderOf(j) = None /\ HolderOf(j)' = None
    BY <1>6, <2>1, <2>2 DEF Withdraws, StateOf, HolderOf, Waiting, Live, Terminal
  <2>4. /\ stateBar[j] = "waiting" /\ stateBar' = [stateBar EXCEPT ![j] = "done"]
        /\ holderBar' = holderBar /\ atBar' = atBar
    BY <1>6, <2>2, <2>3 DEF stateBar, holderBar, AtSame
  <2>5. Ledger!Withdraw(j)
    BY <2>4 DEF Ledger!Withdraw, stateBar, holderBar, atBar, StateOf, HolderOf, Holding
  <2>. QED BY <2>5 DEF Ledger!Next
<1>7. ASSUME NEW a \in Accounts, Drops(a), UNCHANGED lastId, AtSame
      PROVE  Ledger!Next \/ UNCHANGED <<stateBar, holderBar, atBar>>
  <2>1. ASSUME NEW j \in JobIds, jobs[j].acct = a
        PROVE  /\ StateOf(j) \in {"waiting", "held", "done"} /\ StateOf(j)' = "dropped"
               /\ HolderOf(j)' = None
    <3>1. jobs[j].status # "none" /\ jobs[j] \in JobRows
      BY <1>0, <2>1, QueueAssumption DEF RowsPlaced, TypeOK
    <3>2. j \in 1 .. lastId
      <4>1. j <= lastId /\ j # 0
        BY <1>0, <3>1 DEF RowsPlaced
      <4>. QED BY <1>0, <4>1, QueueAssumption DEF JobIds
    <3>3. jobs'[j].status = "none"
      BY <1>7, <2>1 DEF Drops, NoJob
    <3>4. StateOf(j) \in {"waiting", "held", "done"}
      BY <3>1, StatusCases DEF StateOf
    <3>5. StateOf(j)' = "dropped" /\ HolderOf(j)' = None
      BY <1>7, <3>2, <3>3 DEF StateOf, HolderOf, Waiting, Live, Terminal
    <3>. QED BY <3>4, <3>5
  <2>2. ASSUME NEW j \in JobIds, jobs[j].acct # a
        PROVE  StateOf(j)' = StateOf(j) /\ HolderOf(j)' = HolderOf(j)
    BY <1>7, <2>2 DEF Drops, StateOf, HolderOf
  <2>3. CASE stateBar' = stateBar
    <3>1. \A j \in JobIds : stateBar[j] = StateOf(j) /\ stateBar'[j] = StateOf(j)'
      BY DEF stateBar
    <3>2. \A j \in JobIds : jobs[j].acct # a
      BY <2>1, <2>3, <3>1
    <3>3. holderBar' = holderBar
      BY <2>2, <3>2 DEF holderBar
    <3>. QED BY <1>7, <2>3, <3>3 DEF AtSame
  <2>4. CASE stateBar' # stateBar
    <3>. PICK from, to : from = {"waiting", "held", "done"} /\ to = {"dropped"}
      OBVIOUS
    <3>1. from \cap to = {}
      OBVIOUS
    <3>2. \A j \in JobIds :
            \/ StateOf(j)' = StateOf(j) /\ HolderOf(j)' = HolderOf(j)
            \/ StateOf(j) \in from /\ StateOf(j)' \in to /\ HolderOf(j)' = None
      BY <2>1, <2>2
    <3>3. Ledger!Moved(from, to)
      BY <1>7, <2>4, <3>1, <3>2, ManyStates
    <3>4. Ledger!Drop
      BY <3>3 DEF Ledger!Drop
    <3>. QED BY <3>4 DEF Ledger!Next
  <2>. QED BY <2>3, <2>4
<1>. QED BY <1>1, <1>2, <1>3, <1>4, <1>5, <1>6, <1>7 DEF Moves
\* The queue implements JobLedger: a job is posted once, held by one worker at a
\* time, comes back from it or from one that has left it, and stays done
\* (worker/queue.py and the job routes, as long as leases outlast items).
THEOREM LedgerRefined == ~SlowItems => (Spec => ImplementsLedger)
<1>. SUFFICES ASSUME ~SlowItems PROVE Spec => ImplementsLedger
  OBVIOUS
<1>1. Init => Ledger!Init
  <2>. SUFFICES ASSUME Init PROVE Ledger!Init
    OBVIOUS
  <2>1. lastId = 0 /\ \A j \in JobIds : jobs[j].status = "none"
    BY DEF Init, NoJob
  <2>2. \A w \in Workers : wrk[w].pc \notin Holding
    BY DEF Init, Fresh, Holding, Busy, Engine
  <2>3. \A j \in JobIds : j \notin 1 .. lastId
    BY <2>1
  <2>. QED
    BY <2>1, <2>2, <2>3 DEF Ledger!Init, Waiting, Live, Terminal, Holding
<1>2. Sound /\ HolderOwnsRow /\ [Next]_vars => [Ledger!Next]_(Ledger!vars)
  <2>. SUFFICES ASSUME Sound, HolderOwnsRow, [Next]_vars
                PROVE  Ledger!Next \/ UNCHANGED <<stateBar, holderBar, atBar>>
    BY DEF Ledger!vars, stateBar, holderBar, atBar, StateOf, HolderOf, Holding
  <2>. QED BY StepMoves, LedgerSteps
<1>3. Spec => []HolderOwnsRow
  BY HolderAlways
<1>. QED
  BY <1>1, <1>2, <1>3, SoundAlways, PTL DEF Spec, Ledger!Spec, ImplementsLedger

-----------------------------------------------------------------------------
(* Attempts.                                                               *)

Even(r) ==
  /\ r.status \in Waiting => r.attempts = r.lost
  /\ r.status \in Live => r.attempts = r.lost + 1

LEMMA EvenRows ==
  ASSUME TypeOK, NEW j \in JobIds, Even(jobs[j])
  PROVE  /\ Even(NoJob)
         /\ \A w \in Workers : jobs[j].status \in Waiting => Even(Claimed(w, j))
         /\ jobs[j].status \in Live => Even(Deferred(jobs[j]))
         /\ Even(Reaped[j])
<1>. PICK r \in JobRows : r = jobs[j]
  BY DEF TypeOK
<1>0. r.attempts \in Nat /\ r.lost \in Nat
  BY DEF JobRows
<1>1. Even(NoJob)
  BY DEF Even, NoJob, Waiting, Live
<1>2. ASSUME NEW w \in Workers, r.status \in Waiting PROVE Even(Claimed(w, j))
  <2>1. /\ Claimed(w, j).status = "claimed" /\ Claimed(w, j).lost = r.lost
        /\ Claimed(w, j).attempts = r.attempts + 1
    BY DEF Claimed, JobRows
  <2>. QED BY <1>0, <1>2, <2>1 DEF Even, Waiting, Live
<1>3. ASSUME r.status \in Live PROVE Even(Deferred(r))
  <2>1. r.attempts = r.lost + 1
    BY <1>3 DEF Even
  <2>2. /\ Deferred(r).status = "deferred" /\ Deferred(r).lost = r.lost
        /\ Deferred(r).attempts = IF r.attempts > 0 THEN r.attempts - 1 ELSE 0
    BY DEF Deferred, JobRows
  <2>. QED BY <1>0, <2>1, <2>2 DEF Even, Waiting, Live
<1>4. CASE Expired(j)
  <2>1. r.attempts = r.lost + 1
    BY <1>4 DEF Even, Expired
  <2>2. /\ Reaped[j].status \in {"failed", "queued"} /\ Reaped[j].lost = r.lost + 1
        /\ Reaped[j].attempts = r.attempts
    BY <1>4 DEF Reaped, JobRows
  <2>3. Reaped[j].status \notin Live
    BY <2>2 DEF Live
  <2>. QED BY <1>1, <1>2, <1>3, <2>1, <2>2, <2>3 DEF Even
<1>5. CASE ~Expired(j)
  BY <1>1, <1>2, <1>3, <1>5 DEF Reaped
<1>. QED BY <1>4, <1>5

LEMMA EvenStep ==
  ASSUME Sound, HolderOwnsRow, Moves, \A j \in JobIds : Even(jobs[j])
  PROVE  \A j \in JobIds : Even(jobs'[j])
<1>. SUFFICES ASSUME NEW j \in JobIds PROVE Even(jobs'[j])
  OBVIOUS
<1>0. TypeOK /\ Even(jobs[j]) /\ jobs \in [JobIds -> JobRows]
  BY DEF Sound, TypeOK
<1>1. CASE Keeps
  BY <1>0, <1>1 DEF Keeps, Same, Even
<1>2. CASE Posts
  <2>. PICK q \in JobRows : /\ q.status \in Waiting /\ q.attempts = 0 /\ q.lost = 0
                            /\ jobs' = [jobs EXCEPT ![lastId + 1] = q]
    BY <1>2 DEF Posts
  <2>1. Even(q)
    BY StatusCases DEF Even
  <2>. QED BY <1>0, <2>1
<1>3. ASSUME NEW w \in Workers, NEW i \in JobIds, Takes(w, i) PROVE Even(jobs'[j])
  BY <1>0, <1>3, EvenRows DEF Takes
<1>4. ASSUME NEW w \in Workers, NEW i \in JobIds, Settles(w, i) PROVE Even(jobs'[j])
  <2>. PICK q \in JobRows : /\ q.status \in Terminal \/ q = Deferred(jobs[i])
                            /\ jobs' = [jobs EXCEPT ![i] = q]
    BY <1>4 DEF Settles
  <2>1. Even(q)
    <3>1. CASE q.status \in Terminal
      BY <3>1, StatusCases DEF Even
    <3>2. CASE q = Deferred(jobs[i])
      BY <1>0, <1>4, <3>2, EvenRows DEF Settles
    <3>. QED BY <3>1, <3>2
  <2>. QED BY <1>0, <2>1
<1>5. CASE jobs' = Reaped
  BY <1>0, <1>5, EvenRows
<1>6. ASSUME NEW i \in JobIds, Withdraws(i) PROVE Even(jobs'[j])
  <2>1. CASE j = i
    <3>1. jobs'[j].status = "cancelled"
      BY <1>0, <1>6, <2>1 DEF Withdraws, JobRows
    <3>. QED BY <3>1 DEF Even, Waiting, Live
  <2>2. CASE j # i
    BY <1>0, <1>6, <2>2 DEF Withdraws
  <2>. QED BY <2>1, <2>2
<1>7. ASSUME NEW a \in Accounts, Drops(a) PROVE Even(jobs'[j])
  BY <1>0, <1>7, EvenRows DEF Drops
<1>. QED BY <1>1, <1>2, <1>3, <1>4, <1>5, <1>6, <1>7 DEF Moves

\* A deferral gives its attempt back and a reap keeps it (defer_job, claim_next_job,
\* the reaper): a waiting row has used up what the reaper took, a live one one more.
THEOREM AttemptsAlways == ~SlowItems => (Spec => []AttemptsAreLosses)
<1>. SUFFICES ASSUME ~SlowItems PROVE Spec => []AttemptsAreLosses
  OBVIOUS
<1>1. Init => \A j \in JobIds : Even(jobs[j])
  BY DEF Init, NoJob, Even, Waiting, Live
<1>2. /\ Sound /\ HolderOwnsRow /\ [Next]_vars /\ (\A j \in JobIds : Even(jobs[j]))
      => (\A j \in JobIds : Even(jobs[j]))'
  BY StepMoves, EvenStep
<1>3. Spec => []HolderOwnsRow
  BY HolderAlways
<1>4. (\A j \in JobIds : Even(jobs[j])) => AttemptsAreLosses
  BY DEF Even, AttemptsAreLosses
<1>. QED BY <1>1, <1>2, <1>3, <1>4, SoundAlways, PTL DEF Spec

-----------------------------------------------------------------------------
(* Failures.                                                               *)

FailedOf(a) == {j \in JobIds : jobs[j].acct = a /\ jobs[j].status = "failed"}

LEMMA FailedFinite ==
  ASSUME NEW S \in SUBSET JobIds
  PROVE  IsFiniteSet(S) /\ Cardinality(S) \in Nat
<1>1. IsFiniteSet(JobIds)
  BY FS_Interval, QueueAssumption DEF JobIds
<1>. QED BY <1>1, FS_Subset, FS_CardinalityType

\* A step adds what the triggers roll up, or no failure that was not there.
Rolled == accts' = RollUp(jobs')
NoneMore ==
  \A a \in Accounts :
    accts'[a].failures <= accts[a].failures \/ accts'[a].failures = 0

LEMMA AccountSteps ==
  ASSUME TypeOK, [Next]_vars
  PROVE  Rolled \/ NoneMore
<1>0. accts \in [Accounts -> AccountRows] /\ \A a \in Accounts : accts[a].failures \in Nat
  BY QueueAssumption DEF TypeOK, AccountRows
<1>1. CASE UNCHANGED accts
  BY <1>0, <1>1 DEF NoneMore
<1>2. ASSUME NEW a \in Accounts, NEW on \in BOOLEAN, NEW b \in BOOLEAN,
             CreateAccount(a, on, b)
      PROVE  NoneMore
  BY <1>0, <1>2 DEF CreateAccount, Scanned, NoAccount, NoneMore
<1>3. ASSUME NEW a \in Accounts, DeleteAccount(a) PROVE NoneMore
  BY <1>0, <1>3 DEF DeleteAccount, NoAccount, NoneMore
<1>4. ASSUME NEW r \in AccountRows, NEW s, NEW st
      PROVE  /\ Updated(r, s).failures \in {0, r.failures}
             /\ Marked(Updated(r, s), st).failures \in {0, r.failures}
  BY DEF Updated, Marked, AccountRows
<1>5. ASSUME NEW a \in Accounts, NEW s, NEW st, UpdateAccount(a, s, st) PROVE NoneMore
  <2>1. accts' = [accts EXCEPT ![a] = Marked(Updated(accts[a], s), st)]
    BY <1>5 DEF UpdateAccount
  <2>. QED BY <1>0, <1>4, <2>1 DEF NoneMore
<1>6. CASE ToggleWrite
  <2>. PICK a, s : a = toggle.acct /\ s = toggle.target
    OBVIOUS
  <2>1. accts' = [accts EXCEPT ![a] = Updated(accts[a], s)] \/ accts' = accts
    BY <1>6 DEF ToggleWrite
  <2>. QED BY <1>0, <1>4, <2>1 DEF NoneMore
<1>7. ASSUME NEW a \in Accounts, BecomesEligible(a) PROVE NoneMore
  BY <1>0, <1>7 DEF BecomesEligible, NoneMore, AccountRows
<1>8. ASSUME NEW w \in Workers, AutoFlag(w) PROVE NoneMore
  <2>1. \A r \in AccountRows :
          [r EXCEPT !.flagged = TRUE, !.enabled = FALSE].failures = r.failures
    BY DEF AccountRows
  <2>2. ASSUME NEW a \in Accounts PROVE accts'[a].failures = accts[a].failures
    <3>1. \/ accts'[a] = accts[a]
          \/ accts'[a] = [accts[a] EXCEPT !.flagged = TRUE, !.enabled = FALSE]
      BY <1>8 DEF AutoFlag
    <3>. QED BY <1>0, <2>1, <3>1
  <2>. QED BY <1>0, <2>2 DEF NoneMore
<1>9. ASSUME NEW w \in Workers, NEW a \in Accounts, PlanOne(w, a) PROVE NoneMore
  <2>1. accts' = accts \/ accts' = [accts EXCEPT ![a].eligible = FALSE]
    BY ZenonT(30), <1>9 DEF PlanOne
  <2>. QED BY <1>0, <2>1 DEF NoneMore, AccountRows
<1>10. ASSUME NEW w \in Workers, Unavailable(w) PROVE NoneMore
  <2>. PICK a : a = jobs[wrk[w].job].acct
    OBVIOUS
  <2>. DEFINE half == [accts EXCEPT ![a].flagged = TRUE]
  <2>1. accts' = accts \/ accts' = [half EXCEPT ![a].enabled = FALSE]
    BY ZenonT(30), <1>10 DEF Unavailable
  <2>2. half \in [Accounts -> AccountRows]
    BY ZenonT(30), <1>0 DEF AccountRows
  <2>3. ASSUME NEW b \in Accounts PROVE half[b].failures = accts[b].failures
    BY <1>0 DEF AccountRows
  <2>4. \/ accts' = accts
        \/ \A b \in Accounts : accts'[b].failures = half[b].failures
    <3>. HIDE DEF half
    <3>. QED BY <2>1, <2>2 DEF AccountRows
  <2>. HIDE DEF half
  <2>. QED BY <1>0, <2>3, <2>4 DEF NoneMore
<1>11. ASSUME NEW w \in Workers, Housekeep(w) \/ Restart(w) \/ Close(w) PROVE Rolled
  BY <1>11 DEF Housekeep, Restart, Close, Rolled
<1>12. Reap => Rolled
  BY SMTT(30) DEF Reap, Rolled
<1>13. ASSUME NEW w \in Workers, WorkerStep(w)
       PROVE  \/ UNCHANGED accts \/ Housekeep(w) \/ Restart(w) \/ Close(w) \/ AutoFlag(w)
              \/ Unavailable(w) \/ \E a \in Accounts : PlanOne(w, a)
  BY <1>13
  DEF WorkerStep, LoopStep, RunStep, Paused, Poll, OutOfBlock, SelectDue, PlanDone,
      ClaimNone, Claim, Resume, Start, EngineFails, Refused, UpToDate, Checkpoint,
      ItemDone, PlanSlice, Followup, DbError, Crash
<1>14. Request => \/ UNCHANGED accts
                  \/ \E a \in Accounts :
                       \/ \E on, b \in BOOLEAN : CreateAccount(a, on, b)
                       \/ DeleteAccount(a)
                       \/ \E s, st : UpdateAccount(a, s, st)
  BY DEF Request, Enqueue, ToggleRead, Retry, CancelJob, FlipSwitch
<1>15. Time => UNCHANGED accts \/ \E a \in Accounts : BecomesEligible(a)
  BY DEF Time, BecomesDue, LeaseExpires
<1>. QED
  BY <1>1, <1>2, <1>3, <1>5, <1>6, <1>7, <1>8, <1>9, <1>10, <1>11, <1>12, <1>13, <1>14,
     <1>15
  DEF Next, vars
\* Rows keep their account, or go with it; failed ones stay.
LEMMA FailedKept ==
  ASSUME Sound, Sound', RowsStep, TerminalStep, NEW a \in Accounts
  PROVE  \/ accts'[a].failures = 0
         \/ /\ FailedOf(a) \subseteq FailedOf(a)'
            /\ FailedOf(a)' \ FailedOf(a) =
                 {j \in JobIds : /\ jobs[j].acct = a /\ jobs'[j].status = "failed"
                                 /\ jobs[j].status # "failed"}
<1>0. /\ TypeOK /\ RowsPlaced /\ TypeOK' /\ RowsPlaced'
      /\ accts \in [Accounts -> AccountRows]
      /\ jobs \in [JobIds -> JobRows]
  BY DEF Sound, TypeOK
<1>1. CASE Deletes
  <2>. PICK b \in Accounts :
         /\ jobs' = [j \in JobIds |-> IF jobs[j].acct = b THEN NoJob ELSE jobs[j]]
         /\ accts' = [accts EXCEPT ![b] = NoAccount("deleted")]
    BY <1>1 DEF Deletes
  <2>1. CASE a = b
    BY <1>0, <2>1 DEF NoAccount
  <2>2. CASE a # b
    <3>1. \A j \in JobIds : jobs[j].acct = a => jobs'[j] = jobs[j]
      BY <2>2
    <3>2. \A j \in JobIds : jobs'[j].acct = a => jobs'[j] = jobs[j]
      BY <2>2, QueueAssumption DEF NoJob
    <3>. QED BY <3>1, <3>2 DEF FailedOf
  <2>. QED BY <2>1, <2>2
<1>2. CASE Kept \/ Reaps \/ Changes
  <2>1. \A j \in JobIds : jobs'[j].acct = jobs[j].acct
    <3>1. CASE Kept
      BY <3>1 DEF Kept
    <3>2. CASE Reaps
      BY <3>2, ReapedRow DEF Reaps
    <3>3. CASE Changes
      BY <1>0, <3>3 DEF Changes
    <3>. QED BY <1>2, <3>1, <3>2, <3>3
  <2>2. \A j \in JobIds : jobs[j].acct = a /\ jobs[j].status = "failed"
                            => jobs'[j].status = "failed"
    <3>. SUFFICES ASSUME NEW j \in JobIds, jobs[j].acct = a, jobs[j].status = "failed"
                  PROVE  jobs'[j].status = "failed"
      OBVIOUS
    <3>1. jobs'[j].status \in {"failed", "none"}
      BY DEF TerminalStep, Terminal
    <3>2. jobs'[j].acct # None
      BY <2>1, QueueAssumption
    <3>. QED BY <1>0, <3>1, <3>2 DEF RowsPlaced
  <2>. QED BY <2>1, <2>2 DEF FailedOf
<1>3. CASE Inserts
  <2>. PICK k, q : /\ k = lastId + 1 /\ q.status = "queued"
                   /\ jobs' = [jobs EXCEPT ![k] = q]
    BY <1>3 DEF Inserts, NoJob
  <2>1. jobs[k].status = "none" \/ k \notin JobIds
    BY <1>0 DEF RowsPlaced, TypeOK, JobIds
  <2>2. \A j \in JobIds : j # k => jobs'[j] = jobs[j]
    BY <1>0
  <2>3. k \in JobIds => jobs'[k].status = "queued"
    BY <1>0
  <2>. QED BY <2>1, <2>2, <2>3 DEF FailedOf
<1>. QED BY <1>1, <1>2, <1>3 DEF RowsStep

LEMMA FailuresStep ==
  ASSUME Sound, Sound', RowsStep, TerminalStep, Rolled \/ NoneMore, FailuresAreJobs
  PROVE  FailuresAreJobs'
<1>. SUFFICES ASSUME NEW a \in Accounts
              PROVE  accts'[a].failures <= Cardinality(FailedOf(a)')
  BY DEF FailuresAreJobs, FailedOf
<1>. DEFINE new == {j \in JobIds : /\ jobs[j].acct = a /\ jobs'[j].status = "failed"
                                   /\ jobs[j].status # "failed"}
<1>. PICK F, G, N : F = FailedOf(a) /\ G = FailedOf(a)' /\ N = new
  OBVIOUS
<1>1. /\ F \in SUBSET JobIds /\ G \in SUBSET JobIds /\ N \in SUBSET JobIds
      /\ IsFiniteSet(F) /\ Cardinality(F) \in Nat /\ IsFiniteSet(G) /\ Cardinality(G) \in Nat
      /\ IsFiniteSet(N) /\ Cardinality(N) \in Nat
  <2>1. F \in SUBSET JobIds /\ G \in SUBSET JobIds /\ N \in SUBSET JobIds
    BY DEF FailedOf
  <2>. QED BY <2>1, FailedFinite
<1>2. /\ accts[a].failures \in Nat /\ accts[a].failures <= Cardinality(F)
      /\ accts[a] \in AccountRows
  BY QueueAssumption DEF Sound, TypeOK, AccountRows, FailuresAreJobs, FailedOf
<1>3. CASE accts'[a].failures = 0
  BY <1>1, <1>3
<1>4. CASE accts'[a].failures # 0
  <2>1. F \subseteq G /\ G \ F = N
    BY <1>4, FailedKept
  <2>2. Cardinality(F) <= Cardinality(G)
    BY <1>1, <2>1, FS_Subset
  <2>3. CASE NoneMore
    <3>1. accts'[a].failures <= accts[a].failures
      BY <1>4, <2>3 DEF NoneMore
    <3>2. accts'[a].failures \in Nat
      BY QueueAssumption DEF Sound, TypeOK, AccountRows
    <3>. QED BY <1>1, <1>2, <2>2, <3>1, <3>2
  <2>4. CASE Rolled
    <3>1. Cardinality(G) = Cardinality(F) + Cardinality(N)
      <4>1. F \cup N = G /\ F \cap N = {}
        BY <2>1
      <4>2. Cardinality(G) = Cardinality(F) + Cardinality(N) - Cardinality({})
        BY <1>1, <4>1, FS_Union
      <4>. QED BY <1>1, <4>2, FS_EmptySet
    <3>2. accts'[a].failures \in {0, Capped(accts[a].failures + Cardinality(N))}
      <4>. DEFINE won == {j \in JobIds : /\ jobs[j].acct = a /\ jobs'[j].status = "succeeded"
                                         /\ jobs[j].status # "succeeded"}
                  n == IF won # {} THEN 0 ELSE Capped(accts[a].failures + Cardinality(N))
      <4>1. accts'[a] = [accts[a] EXCEPT !.failures = n]
        BY <2>4 DEF Rolled, RollUp
      <4>2. n \in {0, Capped(accts[a].failures + Cardinality(N))}
        OBVIOUS
      <4>. HIDE DEF n
      <4>. QED BY <1>2, <4>1, <4>2 DEF AccountRows
    <3>3. accts'[a].failures = Capped(accts[a].failures + Cardinality(N))
      BY <1>4, <3>2
    <3>4. Capped(accts[a].failures + Cardinality(N)) <= accts[a].failures + Cardinality(N)
      BY <1>1, <1>2, QueueAssumption DEF Capped
    <3>5. Capped(accts[a].failures + Cardinality(N)) \in Nat
      BY <1>1, <1>2, QueueAssumption DEF Capped
    <3>. QED BY <1>1, <1>2, <3>1, <3>3, <3>4, <3>5
  <2>. QED BY <2>3, <2>4
<1>. QED BY <1>3, <1>4

\* trg_job_failure counts no failure twice and none that was taken back: what
\* flags an account is jobs of it that did fail (0002_triggers.sql,
\* auto_flag_failing_accounts), as long as leases outlast items.
THEOREM FailuresAlways == ~SlowItems => (Spec => []FailuresAreJobs)
<1>. SUFFICES ASSUME ~SlowItems PROVE Spec => []FailuresAreJobs
  OBVIOUS
<1>1. Init => FailuresAreJobs
  <2>. SUFFICES ASSUME Init, NEW a \in Accounts
                PROVE  accts[a].failures <= Cardinality(FailedOf(a))
    BY DEF FailuresAreJobs, FailedOf
  <2>1. accts[a] \in {NoAccount("new"), Scanned}
    BY DEF Init
  <2>2. NoAccount("new").failures = 0 /\ Scanned.failures = 0
    BY DEF NoAccount, Scanned
  <2>3. accts[a].failures = 0
    BY <2>1, <2>2
  <2>4. FailedOf(a) \in SUBSET JobIds
    BY DEF FailedOf
  <2>. QED BY <2>3, <2>4, FailedFinite
<1>2. Sound /\ Sound' /\ HolderOwnsRow /\ [Next]_vars /\ FailuresAreJobs
      => FailuresAreJobs'
  <2>. SUFFICES ASSUME Sound, Sound', HolderOwnsRow, [Next]_vars, FailuresAreJobs
                PROVE  FailuresAreJobs'
    OBVIOUS
  <2>1. RowsStep /\ TerminalStep
    BY StepRows, HolderStep
  <2>2. Rolled \/ NoneMore
    BY AccountSteps DEF Sound
  <2>. QED BY <2>1, <2>2, FailuresStep
<1>3. Spec => []HolderOwnsRow
  BY HolderAlways
<1>. QED BY <1>1, <1>2, <1>3, SoundAlways, PTL DEF Spec
=============================================================================
