--------------------------- MODULE JobQueueProofs ---------------------------
(***************************************************************************)
(* Proofs about JobQueue, for every value of its constants.                *)
(***************************************************************************)
EXTENDS JobQueue, FiniteSetTheorems, TLAPS

-----------------------------------------------------------------------------
(* What the operators of the model return.                                 *)

\* The rows the handlers write are rows.
LEMMA RowTypes ==
  ASSUME NEW r \in JobRows
  PROVE  /\ NoJob \in JobRows
         /\ Deferred(r) \in JobRows
         /\ \A s \in Terminal : Finished(r, s) \in JobRows
         /\ \A w \in Workers :
              [r EXCEPT !.status = "claimed", !.owner = w, !.lease = "held",
                        !.attempts = @ + 1] \in JobRows
         /\ \A a \in Accounts, t \in Types, p \in Priorities, b, c \in BOOLEAN :
              [NoJob EXCEPT !.status = "queued", !.acct = a, !.typ = t,
                            !.prio = p, !.due = b, !.cancel = c] \in JobRows
<1>1. NoJob \in JobRows
  BY DEF JobRows, NoJob
<1>2. Deferred(r) \in JobRows
  <2> DEFINE n == IF r.attempts > 0 THEN r.attempts - 1 ELSE 0
  <2>1. n \in Nat
    BY DEF JobRows
  <2>2. Deferred(r) = [r EXCEPT !.status = "deferred", !.due = FALSE, !.owner = None,
                                !.lease = "none", !.attempts = n]
    BY DEF Deferred, JobRows
  <2> HIDE DEF n
  <2> QED
    BY <2>1, <2>2 DEF JobRows, Waiting
<1>3. ASSUME NEW s \in Terminal PROVE Finished(r, s) \in JobRows
  BY DEF JobRows, Finished
<1>4. ASSUME NEW w \in Workers
      PROVE  [r EXCEPT !.status = "claimed", !.owner = w, !.lease = "held",
                       !.attempts = @ + 1] \in JobRows
  <2>1. r.attempts + 1 \in Nat
    BY DEF JobRows
  <2> QED
    BY <2>1 DEF JobRows, Live
<1>5. ASSUME NEW a \in Accounts, NEW t \in Types, NEW p \in Priorities,
             NEW b \in BOOLEAN, NEW c \in BOOLEAN
      PROVE  [NoJob EXCEPT !.status = "queued", !.acct = a, !.typ = t,
                           !.prio = p, !.due = b, !.cancel = c] \in JobRows
  BY <1>1, QueueAssumption DEF JobRows, Waiting
<1> QED
  BY <1>1, <1>2, <1>3, <1>4, <1>5

\* A reap writes rows.
LEMMA ReapedType ==
  ASSUME TypeOK
  PROVE  Reaped \in [JobIds -> JobRows]
<1> SUFFICES ASSUME NEW j \in JobIds PROVE Reaped[j] \in JobRows
  BY DEF Reaped
<1> DEFINE s == IF jobs[j].attempts >= MaxAttempts THEN "failed" ELSE "queued"
           n == jobs[j].lost + 1
<1>1. jobs[j] \in JobRows
  BY DEF TypeOK
<1>2. s \in Waiting \cup Terminal /\ n \in Nat
  BY <1>1 DEF JobRows, Waiting, Terminal
<1>3. Reaped[j] = IF Expired(j)
                  THEN [jobs[j] EXCEPT !.status = s, !.owner = None,
                                       !.lease = "none", !.lost = n]
                  ELSE jobs[j]
  BY <1>1 DEF Reaped, JobRows
<1> HIDE DEF s, n
<1>4. [jobs[j] EXCEPT !.status = s, !.owner = None, !.lease = "none", !.lost = n]
        \in JobRows
  BY <1>1, <1>2 DEF JobRows
<1> QED
  BY <1>1, <1>3, <1>4

\* The triggers keep the failure count within its bound.
LEMMA RollUpType ==
  ASSUME TypeOK, NEW new
  PROVE  /\ RollUp(new) \in [Accounts -> AccountRows]
         /\ \A a \in Accounts : RollUp(new)[a].state = accts[a].state
<1>1. ASSUME NEW a \in Accounts, NEW S \in SUBSET JobIds
      PROVE  Capped(accts[a].failures + Cardinality(S)) \in 0 .. FlagThreshold
  <2>1. IsFiniteSet(JobIds)
    BY FS_Interval, QueueAssumption DEF JobIds
  <2>2. Cardinality(S) \in Nat
    BY <2>1, FS_Subset, FS_CardinalityType
  <2>3. accts[a].failures \in Nat
    BY DEF TypeOK, AccountRows
  <2> QED
    BY <2>2, <2>3, QueueAssumption DEF Capped
<1>2. ASSUME NEW a \in Accounts
      PROVE  /\ RollUp(new)[a] \in AccountRows
             /\ RollUp(new)[a].state = accts[a].state
  <2> DEFINE hit(s) == {j \in JobIds : /\ jobs[j].acct = a /\ new[j].status = s
                                       /\ jobs[j].status # s}
             n == IF hit("succeeded") # {} THEN 0
                  ELSE Capped(accts[a].failures + Cardinality(hit("failed")))
  <2>1. RollUp(new)[a] = [accts[a] EXCEPT !.failures = n]
    BY DEF RollUp
  <2>2. n \in 0 .. FlagThreshold
    BY <1>1, QueueAssumption
  <2>3. accts[a] \in AccountRows
    BY DEF TypeOK
  <2> HIDE DEF n
  <2> QED
    BY <2>1, <2>2, <2>3 DEF AccountRows
<1> QED
  BY <1>2 DEF RollUp

\* What a PATCH and the scrape toggle make of an account row is one.
LEMMA AccountTypes ==
  ASSUME NEW r \in AccountRows, NEW scrape, NEW status
  PROVE  /\ Updated(r, scrape) \in AccountRows
         /\ Marked(Updated(r, scrape), status) \in AccountRows
<1>1. 0 \in 0 .. FlagThreshold
  BY QueueAssumption
<1>2. Updated(r, scrape) \in AccountRows
  BY <1>1 DEF Updated, AccountRows
<1>3. \A q \in AccountRows : Marked(q, status) \in AccountRows
  BY DEF Marked, AccountRows
<1> QED
  BY <1>2, <1>3

\* An insertion writes a row and stays within the ids.
LEMMA InsertType ==
  ASSUME TypeOK, NEW a \in Accounts \cup {None}, NEW t \in Types \cup {None},
         NEW p \in Nat, NEW b \in BOOLEAN, NEW c \in BOOLEAN, lastId < MaxJobs, Insert(a, t, p, b, c)
  PROVE  jobs' \in [JobIds -> JobRows] /\ lastId' \in 0 .. MaxJobs
<1>1. [NoJob EXCEPT !.status = "queued", !.acct = a, !.typ = t, !.prio = p,
                    !.due = b, !.cancel = c] \in JobRows
  BY DEF NoJob, JobRows, Waiting
<1>2. lastId + 1 \in JobIds
  BY QueueAssumption DEF TypeOK, JobIds
<1> QED
  BY <1>1, <1>2, QueueAssumption DEF Insert, TypeOK, JobIds

\* A worker's fresh state, and the changes of its program counter, are states.
LEMMA WorkerTypes ==
  ASSUME TypeOK, NEW w \in Workers
  PROVE  /\ \A pc \in (Busy \cup Loop) \ {"closing"} :
              /\ Become(w, Fresh(pc)) => wrk' \in [Workers -> WorkerStates]
              /\ Goto(w, pc) => wrk' \in [Workers -> WorkerStates]
         /\ \A s \in Terminal : Closing(w, s) => wrk' \in [Workers -> WorkerStates]
<1>1. \A pc \in (Busy \cup Loop) \ {"closing"} : Fresh(pc) \in WorkerStates
  BY QueueAssumption DEF Fresh, WorkerStates
<1>2. \A pc \in (Busy \cup Loop) \ {"closing"} :
        Become(w, Fresh(pc)) => wrk' \in [Workers -> WorkerStates]
  BY <1>1 DEF Become, TypeOK
<1>3. \A pc \in (Busy \cup Loop) \ {"closing"} :
        Goto(w, pc) => wrk' \in [Workers -> WorkerStates]
  BY DEF Goto, TypeOK, WorkerStates
<1>4. \A s \in Terminal : Closing(w, s) => wrk' \in [Workers -> WorkerStates]
  <2> SUFFICES ASSUME NEW s \in Terminal, Closing(w, s)
               PROVE  wrk' \in [Workers -> WorkerStates]
    OBVIOUS
  <2>1. wrk[w] \in WorkerStates /\ "closing" \in Busy
    BY DEF TypeOK, Busy
  <2>2. [wrk[w] EXCEPT !.pc = "closing", !.outcome = s, !.left = 0] \in WorkerStates
    BY <2>1 DEF WorkerStates
  <2>3. wrk' = [wrk EXCEPT ![w] =
                  [wrk[w] EXCEPT !.pc = "closing", !.outcome = s, !.left = 0]]
    BY DEF Closing, TypeOK
  <2> QED
    BY <2>2, <2>3 DEF TypeOK
<1> QED
  BY <1>2, <1>3, <1>4

-----------------------------------------------------------------------------
(* Types.                                                                  *)

\* The tables start out well typed.
LEMMA TypeInit == Init => TypeOK
<1> SUFFICES ASSUME Init PROVE TypeOK
  OBVIOUS
<1>1. NoJob \in JobRows
  BY DEF NoJob, JobRows
<1>2. Fresh("idle") \in WorkerStates
  BY QueueAssumption DEF Fresh, WorkerStates, Loop
<1>3. {NoAccount("new"), Scanned} \subseteq AccountRows
  <2>1. 0 \in 0 .. FlagThreshold
    BY QueueAssumption
  <2>2. NoAccount("new") \in AccountRows
    BY <2>1 DEF NoAccount, AccountRows
  <2>3. Scanned \in AccountRows
    BY <2>1 DEF NoAccount, Scanned, AccountRows
  <2> QED
    BY <2>2, <2>3
<1>4. lastId \in 0 .. MaxJobs
  BY QueueAssumption DEF Init
<1>5. toggle \in [acct : Accounts \cup {None}, target : {"on", "off"}, job : 0 .. MaxJobs]
  BY QueueAssumption DEF Init, NoRequest
<1> QED
  BY <1>1, <1>2, <1>3, <1>4, <1>5 DEF Init, TypeOK

\* Every API request keeps the types.
LEMMA TypeRequest == TypeOK /\ Request => TypeOK'
<1> SUFFICES ASSUME TypeOK, Request PROVE TypeOK'
  OBVIOUS
<1> USE QueueAssumption
<1>1. ASSUME NEW a \in Accounts, NEW on \in BOOLEAN, NEW b \in BOOLEAN,
             CreateAccount(a, on, b)
      PROVE  TypeOK'
  <2>1. [Scanned EXCEPT !.enabled = on] \in AccountRows
    <3>1. 0 \in 0 .. FlagThreshold
      OBVIOUS
    <3>2. CASE on = TRUE
      BY <3>1, <3>2 DEF Scanned, NoAccount, AccountRows
    <3>3. CASE on = FALSE
      BY <3>1, <3>3 DEF Scanned, NoAccount, AccountRows
    <3> QED
      BY <3>2, <3>3
  <2>2. accts' \in [Accounts -> AccountRows]
    BY <1>1, <2>1 DEF CreateAccount, TypeOK
  <2>3. jobs' \in [JobIds -> JobRows] /\ lastId' \in 0 .. MaxJobs
    <3>1. CASE b
      <4>1. PICK p \in Priorities : Insert(a, "sync", p, TRUE, FALSE)
        BY <1>1, <3>1 DEF CreateAccount
      <4> QED
        BY <4>1, <1>1, <3>1, InsertType DEF CreateAccount
    <3>2. CASE ~b
      BY <1>1, <3>2 DEF CreateAccount, TypeOK
    <3> QED
      BY <3>1, <3>2
  <2> QED
    BY <1>1, <2>2, <2>3 DEF CreateAccount, Counted, TypeOK
<1>2. ASSUME NEW a \in Accounts, DeleteAccount(a)
      PROVE  TypeOK'
  <2>1. NoAccount("deleted") \in AccountRows /\ NoJob \in JobRows
    BY DEF NoAccount, AccountRows, NoJob, JobRows
  <2> QED
    BY <1>2, <2>1 DEF DeleteAccount, Counted, TypeOK
<1>3. ASSUME NEW a \in Accounts, NEW scrape \in {"on", "off", "keep"},
             NEW status \in {"flagged", "active", "keep"},
             UpdateAccount(a, scrape, status)
      PROVE  TypeOK'
  <2>1. accts' \in [Accounts -> AccountRows]
    BY <1>3, AccountTypes DEF UpdateAccount, TypeOK
  <2> QED
    BY <1>3, <2>1 DEF UpdateAccount, Counted, TypeOK
<1>4. ASSUME NEW a \in Accounts, NEW t \in Types, NEW p \in Priorities,
             NEW due \in BOOLEAN, Enqueue(a, t, p, due)
      PROVE  TypeOK'
  <2>1. jobs' \in [JobIds -> JobRows] /\ lastId' \in 0 .. MaxJobs
    BY <1>4, InsertType DEF Enqueue, CanInsert
  <2> QED
    BY <1>4, <2>1 DEF Enqueue, Counted, TypeOK
<1>5. ASSUME NEW a \in Accounts, NEW target \in {"on", "off"},
             ToggleRead(a, target)
      PROVE  TypeOK'
  BY <1>5 DEF ToggleRead, Counted, TypeOK, JobIds
<1>6. ASSUME NEW j \in JobIds, Retry(j)
      PROVE  TypeOK'
  <2>1. /\ accts[jobs[j].acct].state = "present"
        /\ jobs[j] \in JobRows
    BY <1>6 DEF Retry, CanInsert, TypeOK
  <2>2. jobs' \in [JobIds -> JobRows] /\ lastId' \in 0 .. MaxJobs
    <3>1. /\ jobs[j].acct \in Accounts \cup {None} /\ jobs[j].typ \in Types \cup {None}
          /\ jobs[j].prio \in Nat /\ jobs[j].cancel \in BOOLEAN
      BY <2>1 DEF JobRows
    <3> QED
      <4>1. lastId < MaxJobs
        BY <1>6 DEF Retry, CanInsert
      <4>2. Insert(jobs[j].acct, jobs[j].typ, jobs[j].prio, TRUE, jobs[j].cancel)
        BY <1>6 DEF Retry
      <4> QED
        BY ZenonT(30), <3>1, <4>1, <4>2, InsertType DEF Insert
  <2> QED
    BY <1>6, <2>2 DEF Retry, Counted, TypeOK
<1>7. ASSUME NEW j \in JobIds, CancelJob(j)
      PROVE  TypeOK'
  <2>1. jobs' \in [JobIds -> JobRows]
    <3>1. jobs[j] \in JobRows
      BY DEF TypeOK
    <3>2. /\ [jobs[j] EXCEPT !.status = "cancelled"] \in JobRows
          /\ [jobs[j] EXCEPT !.cancel = TRUE, !.asked = TRUE] \in JobRows
      BY <3>1 DEF JobRows, Terminal
    <3>3. \/ jobs' = [jobs EXCEPT ![j] = [jobs[j] EXCEPT !.status = "cancelled"]]
          \/ jobs' = [jobs EXCEPT ![j] =
                        [jobs[j] EXCEPT !.cancel = TRUE, !.asked = TRUE]]
      BY <1>7 DEF CancelJob, TypeOK
    <3> QED
      BY <3>2, <3>3 DEF TypeOK
  <2> QED
    BY <1>7, <2>1 DEF CancelJob, Counted, TypeOK
<1>8. ASSUME FlipSwitch PROVE TypeOK'
  BY <1>8 DEF FlipSwitch, Counted, TypeOK
<1> QED
  BY <1>1, <1>2, <1>3, <1>4, <1>5, <1>6, <1>7, <1>8 DEF Request

\* One row changed to another row.
LEMMA RowChange ==
  ASSUME TypeOK, NEW j \in JobIds, NEW r \in JobRows,
         jobs' = [jobs EXCEPT ![j] = r]
  PROVE  jobs' \in [JobIds -> JobRows]
  BY DEF TypeOK

\* The passing of time keeps the types: it only moves flags and leases.
LEMMA TypeTime == TypeOK /\ Time => TypeOK'
<1> SUFFICES ASSUME TypeOK, Time PROVE TypeOK'
  OBVIOUS
<1>1. ASSUME NEW j \in JobIds, BecomesDue(j) PROVE TypeOK'
  <2>1. [jobs[j] EXCEPT !.due = TRUE] \in JobRows
    <3>1. jobs[j] \in JobRows
      BY DEF TypeOK
    <3> QED
      BY <3>1 DEF JobRows
  <2>2. jobs' \in [JobIds -> JobRows]
    BY <1>1, <2>1, RowChange DEF BecomesDue, TypeOK
  <2> QED
    BY <1>1, <2>2 DEF BecomesDue, TypeOK
<1>2. ASSUME NEW j \in JobIds, LeaseExpires(j) PROVE TypeOK'
  <2>1. [jobs[j] EXCEPT !.lease = "expired"] \in JobRows
    BY DEF TypeOK, JobRows
  <2>2. jobs' \in [JobIds -> JobRows]
    BY <1>2, <2>1, RowChange DEF LeaseExpires, TypeOK
  <2> QED
    BY <1>2, <2>2 DEF LeaseExpires, TypeOK
<1>3. ASSUME NEW a \in Accounts, BecomesEligible(a) PROVE TypeOK'
  <2>1. accts' \in [Accounts -> AccountRows]
    BY ZenonT(30), <1>3 DEF BecomesEligible, TypeOK, AccountRows
  <2> QED
    BY <1>3, <2>1 DEF BecomesEligible, TypeOK
<1> QED
  BY <1>1, <1>2, <1>3 DEF Time

\* A step of the worker loop (reap, flag, plan, claim) keeps the types.
LEMMA TypeLoop ==
  ASSUME TypeOK, RowsPlaced, NEW w \in Workers, LoopStep(w)
  PROVE  TypeOK'
<1> USE QueueAssumption
<1>0. {"idle", "claim", "flagging", "select", "planning", "backoff", "down"} \subseteq Loop
      /\ "claimed" \in Busy
  BY DEF Loop, Busy
<1>1. CASE Paused(w)
  BY <1>1 DEF Paused, TypeOK
<1>2. CASE Poll(w)
  <2>1. wrk' \in [Workers -> WorkerStates]
    BY <1>0, <1>2, WorkerTypes DEF Poll
  <2> QED
    BY <1>2, <2>1 DEF Poll, TypeOK
<1>3. CASE Housekeep(w)
  <2>1. wrk' \in [Workers -> WorkerStates]
    BY <1>0, <1>3, WorkerTypes DEF Housekeep
  <2> QED
    BY <1>3, <2>1, ReapedType, RollUpType DEF Housekeep, TypeOK
<1>4. CASE AutoFlag(w)
  <2>1. wrk' \in [Workers -> WorkerStates]
    BY <1>0, <1>4, WorkerTypes DEF AutoFlag
  <2>2. \A a \in Accounts :
          [accts[a] EXCEPT !.flagged = TRUE, !.enabled = FALSE] \in AccountRows
    BY ZenonT(30) DEF TypeOK, AccountRows
  <2>3. accts' \in [Accounts -> AccountRows]
    BY <1>4, <2>2 DEF AutoFlag, TypeOK
  <2> QED
    BY <1>4, <2>1, <2>3 DEF AutoFlag, TypeOK
<1>5. CASE OutOfBlock(w)
  <2>1. wrk' \in [Workers -> WorkerStates]
    BY <1>0, <1>5, WorkerTypes DEF OutOfBlock
  <2> QED
    BY <1>5, <2>1 DEF OutOfBlock, TypeOK
<1>6. CASE SelectDue(w)
  <2>1. PICK C \in SUBSET Accounts :
          wrk' = [wrk EXCEPT ![w].pc = "planning", ![w].cands = C]
    BY <1>6 DEF SelectDue
  <2>2. wrk' = [wrk EXCEPT ![w] = [wrk[w] EXCEPT !.pc = "planning", !.cands = C]]
    BY <2>1 DEF TypeOK
  <2>3. [wrk[w] EXCEPT !.pc = "planning", !.cands = C] \in WorkerStates
    <3>1. wrk[w] \in WorkerStates
      BY DEF TypeOK
    <3> QED
      BY <1>0, <3>1 DEF WorkerStates
  <2>4. wrk' \in [Workers -> WorkerStates]
    BY <2>2, <2>3 DEF TypeOK
  <2> QED
    BY <1>6, <2>4 DEF SelectDue, TypeOK
<1>7. ASSUME NEW a \in Accounts, PlanOne(w, a) PROVE TypeOK'
  <2>1. wrk' \in [Workers -> WorkerStates]
    BY <1>7 DEF PlanOne, TypeOK, WorkerStates
  <2>2. /\ jobs' \in [JobIds -> JobRows] /\ lastId' \in 0 .. MaxJobs
        /\ accts' \in [Accounts -> AccountRows]
    <3>1. CASE CanInsert(a, "sync")
      <4>1. PICK p \in Priorities, due \in BOOLEAN : Insert(a, "sync", p, due, FALSE)
        BY <1>7, <3>1 DEF PlanOne
      <4>2. jobs' \in [JobIds -> JobRows] /\ lastId' \in 0 .. MaxJobs
        BY <3>1, <4>1, InsertType DEF CanInsert
      <4>3. accts' \in [Accounts -> AccountRows]
        <5>1. accts[a] \in AccountRows
          BY DEF TypeOK
        <5>2. [accts[a] EXCEPT !.eligible = FALSE] \in AccountRows
          BY <5>1 DEF AccountRows
        <5>3. accts' = [accts EXCEPT ![a] = [accts[a] EXCEPT !.eligible = FALSE]]
          BY <1>7, <3>1 DEF PlanOne, TypeOK
        <5> QED
          BY <5>2, <5>3 DEF TypeOK
      <4> QED
        BY <4>2, <4>3
    <3>2. CASE ~CanInsert(a, "sync")
      BY <1>7, <3>2 DEF PlanOne, TypeOK
    <3> QED
      BY <3>1, <3>2
  <2> QED
    BY <1>7, <2>1, <2>2 DEF PlanOne, TypeOK
<1>8. CASE PlanDone(w)
  <2>1. wrk' \in [Workers -> WorkerStates]
    BY <1>0, <1>8, WorkerTypes DEF PlanDone
  <2> QED
    BY <1>8, <2>1 DEF PlanDone, TypeOK
<1>9. CASE ClaimNone(w)
  <2>1. wrk' \in [Workers -> WorkerStates]
    BY <1>0, <1>9, WorkerTypes DEF ClaimNone
  <2> QED
    BY <1>9, <2>1 DEF ClaimNone, TypeOK
<1>10. CASE Claim(w)
  <2>1. PICK j \in Top :
          IF Admits(j, Claimed(w, j))
          THEN /\ jobs' = [jobs EXCEPT ![j] = Claimed(w, j)]
               /\ Become(w, [Fresh("claimed") EXCEPT
                               !.job = j, !.on = accts[jobs[j].acct].enabled])
          ELSE /\ Become(w, Fresh("backoff"))
               /\ UNCHANGED jobs
    BY <1>10 DEF Claim
  <2>2. j \in JobIds /\ jobs[j] \in JobRows
    BY DEF Top, Claimable, TypeOK
  <2>3. Claimed(w, j) \in JobRows
    BY <2>2, RowTypes DEF Claimed
  <2>4. accts[jobs[j].acct].enabled \in BOOLEAN
    <3>1. jobs[j].acct \in Accounts
      BY <2>2 DEF Top, Claimable, Waiting, RowsPlaced
    <3> QED
      BY <3>1 DEF TypeOK, AccountRows
  <2>5. [Fresh("claimed") EXCEPT !.job = j, !.on = accts[jobs[j].acct].enabled]
          \in WorkerStates
    <3>1. Fresh("claimed") \in WorkerStates
      BY <1>0 DEF Fresh, WorkerStates
    <3> DEFINE on == accts[jobs[j].acct].enabled
    <3> HIDE DEF on
    <3>2. on \in BOOLEAN
      BY <2>4 DEF on
    <3>3. [Fresh("claimed") EXCEPT !.job = j, !.on = on] \in WorkerStates
      BY <2>2, <3>1, <3>2 DEF WorkerStates, JobIds
    <3> QED
      BY <3>3 DEF on
  <2>6. /\ jobs' \in [JobIds -> JobRows]
        /\ wrk' \in [Workers -> WorkerStates]
    <3>1. CASE Admits(j, Claimed(w, j))
      BY <2>1, <2>2, <2>3, <2>5, <3>1 DEF Become, TypeOK
    <3>2. CASE ~Admits(j, Claimed(w, j))
      BY <1>0, <2>1, <3>2, WorkerTypes DEF TypeOK
    <3> QED
      BY <3>1, <3>2
  <2> QED
    BY <1>10, <2>6 DEF Claim, TypeOK
<1>11. CASE Resume(w)
  <2>1. wrk' \in [Workers -> WorkerStates]
    BY <1>0, <1>11, WorkerTypes DEF Resume
  <2> QED
    BY <1>11, <2>1 DEF Resume, TypeOK
<1> QED
  BY <1>1, <1>2, <1>3, <1>4, <1>5, <1>6, <1>7, <1>8, <1>9, <1>10, <1>11 DEF LoopStep

\* UPDATE ... WHERE id = j with a row leaves rows.
LEMMA UpdateType ==
  ASSUME TypeOK, NEW j \in JobIds, NEW r \in JobRows
  PROVE  Row(j, r) \in JobRows /\ [jobs EXCEPT ![j] = Row(j, r)] \in [JobIds -> JobRows]
  BY DEF Row, TypeOK

\* A step of a run (start, engine, close, follow-up) keeps the types.
LEMMA TypeRun ==
  ASSUME TypeOK, RowsPlaced, NEW w \in Workers, RunStep(w)
  PROVE  TypeOK'
<1> DEFINE j == wrk[w].job
           r == jobs[j]
<1>0. /\ {"discover", "checkpoint", "item", "followup"} \subseteq Busy
      /\ {"idle", "backoff"} \subseteq Loop
      /\ wrk[w] \in WorkerStates /\ j \in JobIds /\ r \in JobRows
  BY DEF Busy, Engine, Loop, TypeOK, WorkerStates, JobIds
<1>1. CASE Start(w)
  <2> DEFINE q == Row(j, [r EXCEPT !.status = IF wrk[w].on THEN "running" ELSE "cancelled",
                                   !.lease = IF wrk[w].on THEN @ ELSE "none"])
  <2>1. q \in JobRows
    <3> DEFINE s == IF wrk[w].on THEN "running" ELSE "cancelled"
               l == IF wrk[w].on THEN r.lease ELSE "none"
    <3>1. s \in Live \cup Terminal /\ l \in {"none", "held", "expired"}
      BY <1>0 DEF JobRows, Live, Terminal
    <3> HIDE DEF s, l
    <3>2. [r EXCEPT !.status = s, !.lease = l] \in JobRows
      BY <1>0, <3>1 DEF JobRows
    <3> QED
      BY <1>0, <3>2, UpdateType DEF s, l
  <2>2. IF Admits(j, q)
        THEN /\ jobs' = [jobs EXCEPT ![j] = q]
             /\ IF wrk[w].on THEN Goto(w, "discover") ELSE Become(w, Fresh("idle"))
        ELSE Become(w, Fresh("backoff")) /\ UNCHANGED jobs
    BY <1>1 DEF Start
  <2> HIDE DEF q
  <2>3. jobs' \in [JobIds -> JobRows]
    BY <1>0, <2>1, <2>2 DEF TypeOK
  <2>4. wrk' \in [Workers -> WorkerStates]
    BY <1>0, <2>2, WorkerTypes
  <2> QED
    BY <1>1, <2>3, <2>4 DEF Start, TypeOK
<1>2. CASE Unavailable(w)
  <2>1. wrk' \in [Workers -> WorkerStates]
    BY <1>2, WorkerTypes DEF Unavailable, Terminal
  <2>2. \A a \in Accounts :
          [accts[a] EXCEPT !.flagged = TRUE, !.enabled = FALSE] \in AccountRows
    BY ZenonT(30) DEF TypeOK, AccountRows
  <2>3. accts' \in [Accounts -> AccountRows]
    BY ZenonT(30), <1>2, <2>2 DEF Unavailable, TypeOK
  <2> QED
    BY <1>2, <2>1, <2>3 DEF Unavailable, TypeOK
<1>3. CASE EngineFails(w)
  <2>1. wrk' \in [Workers -> WorkerStates]
    BY <1>3, WorkerTypes DEF EngineFails, Terminal
  <2> QED
    BY <1>3, <2>1 DEF EngineFails, TypeOK
<1>4. CASE Refused(w)
  <2>1. jobs' \in [JobIds -> JobRows]
    BY <1>0, <1>4, RowTypes, UpdateType DEF Refused
  <2>2. wrk' \in [Workers -> WorkerStates]
    BY <1>0, <1>4, WorkerTypes DEF Refused
  <2> QED
    BY <1>4, <2>1, <2>2 DEF Refused, TypeOK
<1>5. CASE UpToDate(w)
  <2>1. wrk' \in [Workers -> WorkerStates]
    BY <1>5, WorkerTypes DEF UpToDate, Terminal
  <2> QED
    BY <1>5, <2>1 DEF UpToDate, TypeOK
<1>6. CASE Checkpoint(w)
  <2>1. wrk' \in [Workers -> WorkerStates]
    BY <1>0, <1>6, WorkerTypes DEF Checkpoint, Terminal
  <2> QED
    BY <1>6, <2>1 DEF Checkpoint, TypeOK
<1>7. CASE ItemDone(w)
  <2>1. [r EXCEPT !.lease = "held"] \in JobRows
    BY <1>0 DEF JobRows
  <2>2. jobs' \in [JobIds -> JobRows]
    BY <1>0, <1>7, <2>1, UpdateType DEF ItemDone, TypeOK
  <2>3. wrk' \in [Workers -> WorkerStates]
    <3>1. CASE wrk[w].left > 1
      <4>1. wrk[w].left - 1 \in Nat
        BY <1>0, <3>1 DEF WorkerStates
      <4>2. wrk' = [wrk EXCEPT ![w] = [wrk[w] EXCEPT !.pc = "checkpoint",
                                                     !.left = wrk[w].left - 1]]
        BY <1>7, <3>1 DEF ItemDone, TypeOK
      <4>3. [wrk[w] EXCEPT !.pc = "checkpoint", !.left = wrk[w].left - 1]
              \in WorkerStates
        BY <1>0, <4>1 DEF WorkerStates
      <4> QED
        BY <4>2, <4>3 DEF TypeOK
    <3>2. CASE ~(wrk[w].left > 1)
      BY <1>7, <3>2, WorkerTypes DEF ItemDone, Terminal
    <3> QED
      BY <3>1, <3>2
  <2> QED
    BY <1>7, <2>2, <2>3 DEF ItemDone, TypeOK
<1>8. ASSUME NEW n \in 1 .. MaxSlice, NEW more \in BOOLEAN, PlanSlice(w, n, more)
      PROVE  TypeOK'
  <2>1. wrk' = [wrk EXCEPT ![w] = [wrk[w] EXCEPT !.pc = "checkpoint", !.left = n,
                                                 !.more = more]]
    BY <1>8 DEF PlanSlice, TypeOK
  <2>2. n \in Nat
    BY QueueAssumption
  <2>3. [wrk[w] EXCEPT !.pc = "checkpoint", !.left = n, !.more = more] \in WorkerStates
    BY <1>0, <2>2 DEF WorkerStates
  <2>4. wrk' \in [Workers -> WorkerStates]
    BY <2>1, <2>3 DEF TypeOK
  <2> QED
    BY <1>8, <2>4 DEF PlanSlice, TypeOK
<1>9. CASE Close(w)
  <2> DEFINE new == [jobs EXCEPT ![j] = Row(j, Finished(r, wrk[w].outcome))]
  <2>1. /\ jobs' = new /\ accts' = RollUp(new)
        /\ IF wrk[w].outcome = "succeeded" /\ wrk[w].more
           THEN Goto(w, "followup") ELSE Become(w, Fresh("idle"))
    BY <1>9 DEF Close
  <2>2. new \in [JobIds -> JobRows]
    <3>1. wrk[w].outcome \in Terminal
      BY <1>0, <1>9 DEF Close, WorkerStates
    <3> QED
      BY <1>0, <3>1, RowTypes, UpdateType
  <2>3. wrk' \in [Workers -> WorkerStates]
    BY <1>0, <2>1, WorkerTypes
  <2>4. accts' \in [Accounts -> AccountRows]
    BY <2>1, RollUpType
  <2>5. UNCHANGED <<lastId, switch, toggle, faults, requests>>
    BY <1>9 DEF Close
  <2> HIDE DEF new
  <2> QED
    BY <2>1, <2>2, <2>3, <2>4, <2>5 DEF TypeOK
<1>10. CASE Followup(w)
  <2>1. jobs' \in [JobIds -> JobRows] /\ lastId' \in 0 .. MaxJobs
    <3>1. CASE r.status # "none" /\ CanInsert(r.acct, "sync")
      <4>1. r.acct \in Accounts \cup {None} /\ r.prio \in Nat
        BY <1>0 DEF JobRows
      <4>2. lastId < MaxJobs
        BY <3>1 DEF CanInsert
      <4>3. Insert(r.acct, "sync", r.prio, FALSE, FALSE)
        BY <1>10, <3>1 DEF Followup
      <4> QED
        BY <4>1, <4>2, <4>3, InsertType, QueueAssumption DEF Insert
    <3>2. CASE ~(r.status # "none" /\ CanInsert(r.acct, "sync"))
      BY <1>10, <3>2 DEF Followup, TypeOK
    <3> QED
      BY <3>1, <3>2
  <2>2. wrk' \in [Workers -> WorkerStates]
    BY <1>0, <1>10, WorkerTypes DEF Followup
  <2> QED
    BY <1>10, <2>1, <2>2 DEF Followup, TypeOK
<1> QED
  BY <1>1, <1>2, <1>3, <1>4, <1>5, <1>6, <1>7, <1>8, <1>9, <1>10 DEF RunStep

\* One step of the system keeps the types.
LEMMA TypeStep == TypeOK /\ RowsPlaced /\ [Next]_vars => TypeOK'
<1> SUFFICES ASSUME TypeOK, RowsPlaced, [Next]_vars PROVE TypeOK'
  OBVIOUS
<1>1. CASE Request
  BY <1>1, TypeRequest
<1>2. CASE ToggleWrite
  <2> DEFINE j == toggle.job
  <2>0. /\ j \in JobIds /\ jobs[j] \in JobRows
        /\ NoRequest \in [acct : Accounts \cup {None}, target : {"on", "off"},
                          job : 0 .. MaxJobs]
    BY QueueAssumption DEF TypeOK, JobIds, NoRequest
  <2>1. jobs' \in [JobIds -> JobRows]
    <3>1. [jobs[j] EXCEPT !.status = "cancelled"] \in JobRows
      BY <2>0 DEF JobRows, Terminal
    <3> QED
      BY <1>2, <2>0, <3>1 DEF ToggleWrite, TypeOK
  <2>2. accts' \in [Accounts -> AccountRows]
    BY <1>2, AccountTypes DEF ToggleWrite, TypeOK
  <2> QED
    BY <1>2, <2>0, <2>1, <2>2 DEF ToggleWrite, TypeOK
<1>3. CASE Reap
  BY <1>3, ReapedType, RollUpType DEF Reap, TypeOK
<1>4. CASE Time
  BY <1>4, TypeTime
<1>5. ASSUME NEW w \in Workers, WorkerStep(w) PROVE TypeOK'
  <2>0. {"idle", "backoff", "down"} \subseteq Loop
    BY DEF Loop
  <2>1. CASE LoopStep(w)
    BY <2>1, TypeLoop
  <2>2. CASE RunStep(w)
    BY <2>2, TypeRun
  <2>3. CASE DbError(w)
    <3>1. wrk' \in [Workers -> WorkerStates]
      BY <2>0, <2>3, WorkerTypes DEF DbError
    <3> QED
      BY <2>3, <3>1 DEF DbError, TypeOK
  <2>4. CASE Crash(w)
    <3>1. wrk' \in [Workers -> WorkerStates]
      BY <2>0, <2>4, WorkerTypes DEF Crash
    <3> QED
      BY <2>4, <3>1 DEF Crash, TypeOK
  <2>5. CASE Restart(w)
    <3>1. wrk' \in [Workers -> WorkerStates]
      BY <2>0, <2>5, WorkerTypes DEF Restart
    <3> QED
      BY <2>5, <3>1, ReapedType, RollUpType DEF Restart, TypeOK
  <2> QED
    BY <1>5, <2>1, <2>2, <2>3, <2>4, <2>5 DEF WorkerStep
<1>6. CASE UNCHANGED vars
  BY <1>6 DEF vars, TypeOK
<1> QED
  BY <1>1, <1>2, <1>3, <1>4, <1>5, <1>6 DEF Next

-----------------------------------------------------------------------------
(* What a step may do to the rows, and the invariants that follow.         *)

\* The inductive invariant, whatever SlowItems is.
Sound == TypeOK /\ RowsPlaced /\ ActiveRowsRecoverable /\ AttemptsBudget

\* No account goes, and a worker takes up only a row that is there.
AccountsStay ==
  \A a \in Accounts : accts[a].state = "present" => accts'[a].state = "present"
JobsTaken ==
  \A w \in Workers : \/ wrk'[w].job \in {0, wrk[w].job}
                     \/ /\ wrk'[w].job \in JobIds
                        /\ jobs[wrk'[w].job].status # "none"

\* A row that respects the schema and the budget of attempts.
Within(r) ==
  r.attempts <= MaxAttempts /\ (r.status \in Waiting => r.attempts < MaxAttempts)

Kept == UNCHANGED <<jobs, lastId>> /\ AccountsStay

Inserts ==
  \E a \in Accounts, t \in Types, p \in Nat, due, cancel \in BOOLEAN :
    /\ lastId < MaxJobs /\ ~SlotTaken(a, t, 0)
    /\ jobs' = [jobs EXCEPT ![lastId + 1] =
         [NoJob EXCEPT !.status = "queued", !.acct = a, !.typ = t, !.prio = p,
                       !.due = due, !.cancel = cancel]]
    /\ lastId' = lastId + 1
    /\ accts'[a].state = "present" /\ AccountsStay

Deletes ==
  \E a \in Accounts :
    /\ jobs' = [j \in JobIds |-> IF jobs[j].acct = a THEN NoJob ELSE jobs[j]]
    /\ accts' = [accts EXCEPT ![a] = NoAccount("deleted")]
    /\ UNCHANGED lastId

Reaps == jobs' = Reaped /\ UNCHANGED lastId /\ AccountsStay

Changes ==
  \E j \in JobIds, r \in JobRows :
    /\ jobs' = [jobs EXCEPT ![j] = r]
    /\ r.acct = jobs[j].acct /\ r.typ = jobs[j].typ
    /\ r.status = "none" <=> jobs[j].status = "none"
    /\ Admits(j, r) /\ Within(r)
    /\ UNCHANGED lastId /\ AccountsStay

RowsStep == JobsTaken /\ (Kept \/ Inserts \/ Deletes \/ Reaps \/ Changes)

\* An existing row may stay as it is, in its slot, or give its slot up.
LEMMA RowAdmitted ==
  ASSUME Sound, NEW j \in JobIds, NEW r \in JobRows,
         r.acct = jobs[j].acct, r.typ = jobs[j].typ,
         r.status \in Active => jobs[j].status \in Active,
         r.status \in Live => r.lease # "none"
  PROVE  Admits(j, r)
  BY DEF Sound, ActiveRowsRecoverable, Admits

\* The row of a worker's job, updated if it is there, makes a change.
LEMMA UpdateChanges ==
  ASSUME Sound, NEW j \in JobIds, NEW r \in JobRows,
         r.acct = jobs[j].acct, r.typ = jobs[j].typ, r.status # "none",
         r.status \in Active => jobs[j].status \in Active,
         r.status \in Live => r.lease # "none",
         Within(r), jobs' = [jobs EXCEPT ![j] = Row(j, r)],
         UNCHANGED lastId, AccountsStay
  PROVE  Changes
<1>1. CASE jobs[j].status = "none"
  <2>1. jobs' = [jobs EXCEPT ![j] = jobs[j]] /\ jobs[j] \in JobRows
    BY <1>1 DEF Row, Sound, TypeOK
  <2>2. Admits(j, jobs[j]) /\ Within(jobs[j])
    BY <1>1 DEF Admits, Within, Sound, AttemptsBudget, Waiting, Live, Active
  <2> QED
    BY <2>1, <2>2 DEF Changes
<1>2. CASE jobs[j].status # "none"
  BY <1>2, RowAdmitted DEF Row, Changes
<1> QED
  BY <1>1, <1>2

\* An API request inserts, deletes or changes one row, or keeps them all.
LEMMA RequestRows == Sound /\ Request => RowsStep
<1> SUFFICES ASSUME Sound, Request PROVE RowsStep
  OBVIOUS
<1>0. TypeOK /\ RowsPlaced
  BY DEF Sound
<1>1. ASSUME NEW a \in Accounts, NEW on \in BOOLEAN, NEW b \in BOOLEAN,
             CreateAccount(a, on, b)
      PROVE  RowsStep
  <2>1. AccountsStay /\ accts'[a].state = "present"
    BY <1>0, <1>1 DEF CreateAccount, AccountsStay, TypeOK, Scanned, NoAccount
  <2>2. JobsTaken
    BY <1>1 DEF CreateAccount, JobsTaken
  <2>3. CASE b
    <3>1. PICK p \in Priorities : Insert(a, "sync", p, TRUE, FALSE)
      BY <1>1, <2>3 DEF CreateAccount
    <3>2. \A j \in JobIds : jobs[j].acct # a
      BY <1>0, <1>1, QueueAssumption DEF CreateAccount, RowsPlaced
    <3>3. ~SlotTaken(a, "sync", 0) /\ lastId < MaxJobs
      BY <1>1, <2>3, <3>2 DEF CreateAccount, SlotTaken
    <3>4. Inserts
      BY <2>1, <3>1, <3>3, QueueAssumption DEF Insert, Inserts
    <3> QED
      BY <2>2, <3>4 DEF RowsStep
  <2>4. CASE ~b
    BY <1>1, <2>1, <2>2, <2>4 DEF CreateAccount, RowsStep, Kept
  <2> QED
    BY <2>3, <2>4
<1>2. ASSUME NEW a \in Accounts, DeleteAccount(a) PROVE RowsStep
  BY <1>2 DEF DeleteAccount, RowsStep, Deletes, JobsTaken
<1>3. ASSUME NEW a \in Accounts, NEW scrape \in {"on", "off", "keep"},
             NEW status \in {"flagged", "active", "keep"},
             UpdateAccount(a, scrape, status)
      PROVE  RowsStep
  <2>1. Marked(Updated(accts[a], scrape), status).state = accts[a].state
    BY <1>0 DEF Marked, Updated, TypeOK, AccountRows
  <2>2. AccountsStay
    BY <1>0, <1>3, <2>1 DEF UpdateAccount, AccountsStay, TypeOK
  <2> QED
    BY <1>3, <2>2 DEF UpdateAccount, RowsStep, Kept, JobsTaken
<1>4. ASSUME NEW a \in Accounts, NEW t \in Types, NEW p \in Priorities,
             NEW due \in BOOLEAN, Enqueue(a, t, p, due)
      PROVE  RowsStep
  <2>1. Inserts
    BY <1>4, QueueAssumption DEF Enqueue, CanInsert, Insert, Inserts, AccountsStay
  <2> QED
    BY <1>4, <2>1 DEF Enqueue, RowsStep, JobsTaken
<1>5. ASSUME NEW a \in Accounts, NEW target \in {"on", "off"}, ToggleRead(a, target)
      PROVE  RowsStep
  BY <1>5 DEF ToggleRead, RowsStep, Kept, JobsTaken, AccountsStay
<1>6. ASSUME NEW j \in JobIds, Retry(j) PROVE RowsStep
  <2>1. /\ jobs[j].acct \in Accounts /\ jobs[j].typ \in Types
        /\ jobs[j].prio \in Nat /\ jobs[j].cancel \in BOOLEAN
    BY <1>0, <1>6 DEF Retry, RowsPlaced, TypeOK, JobRows
  <2>2. AccountsStay /\ JobsTaken
    BY <1>6 DEF Retry, AccountsStay, JobsTaken
  <2>3. Inserts
    BY <1>6, <2>1, <2>2 DEF Retry, CanInsert, Insert, Inserts
  <2> QED
    BY <2>2, <2>3 DEF RowsStep
<1>7. ASSUME NEW j \in JobIds, CancelJob(j) PROVE RowsStep
  <2>0. AccountsStay /\ JobsTaken
    BY <1>7 DEF CancelJob, AccountsStay, JobsTaken
  <2> DEFINE q == [jobs[j] EXCEPT !.status = "cancelled"]
             r == [jobs[j] EXCEPT !.cancel = TRUE, !.asked = TRUE]
  <2>1. \/ jobs[j].status \in Waiting /\ jobs' = [jobs EXCEPT ![j] = q]
        \/ jobs[j].status \in Live /\ jobs' = [jobs EXCEPT ![j] = r]
    BY <1>0, <1>7 DEF CancelJob, TypeOK
  <2>2. q \in JobRows /\ r \in JobRows
    <3>1. jobs[j] \in JobRows
      BY <1>0 DEF TypeOK
    <3> QED
      BY <3>1 DEF JobRows, Terminal
  <2>3. /\ q.acct = jobs[j].acct /\ q.typ = jobs[j].typ /\ q.status = "cancelled"
        /\ q.attempts = jobs[j].attempts
        /\ r.acct = jobs[j].acct /\ r.typ = jobs[j].typ /\ r.status = jobs[j].status
        /\ r.attempts = jobs[j].attempts /\ r.lease = jobs[j].lease
    BY <1>0 DEF TypeOK, JobRows
  <2> HIDE DEF q, r
  <2>4. Within(q) /\ Within(r)
    BY <2>3 DEF Within, Sound, AttemptsBudget, Waiting
  <2>5. Admits(j, q)
    BY <2>3 DEF Admits, Active, Live
  <2>6. Admits(j, r)
    BY <2>2, <2>3, RowAdmitted DEF Sound, ActiveRowsRecoverable
  <2>7. Changes
    <3>1. CASE jobs[j].status \in Waiting /\ jobs' = [jobs EXCEPT ![j] = q]
      BY <1>7, <2>0, <2>2, <2>3, <2>4, <2>5, <3>1 DEF CancelJob, Changes, Waiting
    <3>2. CASE jobs[j].status \in Live /\ jobs' = [jobs EXCEPT ![j] = r]
      BY <1>7, <2>0, <2>2, <2>3, <2>4, <2>6, <3>2 DEF CancelJob, Changes, Live
    <3> QED
      BY <2>1, <3>1, <3>2
  <2> QED
    BY <2>0, <2>7 DEF RowsStep
<1>8. ASSUME FlipSwitch PROVE RowsStep
  BY <1>8 DEF FlipSwitch, RowsStep, Kept, JobsTaken, AccountsStay
<1> QED
  BY <1>1, <1>2, <1>3, <1>4, <1>5, <1>6, <1>7, <1>8 DEF Request

\* The passing of time changes at most one row, and no row's status.
LEMMA TimeRows == Sound /\ Time => RowsStep
<1> SUFFICES ASSUME Sound, Time PROVE RowsStep
  OBVIOUS
<1>0. TypeOK
  BY DEF Sound
<1>1. ASSUME NEW j \in JobIds, BecomesDue(j) PROVE RowsStep
  <2> DEFINE r == [jobs[j] EXCEPT !.due = TRUE]
  <2>1. r \in JobRows
    <3>1. jobs[j] \in JobRows
      BY <1>0 DEF TypeOK
    <3> QED
      BY <3>1 DEF JobRows
  <2>2. /\ r.acct = jobs[j].acct /\ r.typ = jobs[j].typ /\ r.status = jobs[j].status
        /\ r.attempts = jobs[j].attempts /\ r.lease = jobs[j].lease
        /\ jobs' = [jobs EXCEPT ![j] = r]
    BY <1>0, <1>1 DEF TypeOK, JobRows, BecomesDue
  <2> HIDE DEF r
  <2>3. Admits(j, r) /\ Within(r)
    BY <2>1, <2>2, RowAdmitted DEF Within, Sound, ActiveRowsRecoverable, AttemptsBudget
  <2> QED
    BY <1>1, <2>1, <2>2, <2>3
       DEF BecomesDue, RowsStep, Changes, JobsTaken, AccountsStay
<1>2. ASSUME NEW j \in JobIds, LeaseExpires(j) PROVE RowsStep
  <2> DEFINE r == [jobs[j] EXCEPT !.lease = "expired"]
  <2>1. r \in JobRows
    <3>1. jobs[j] \in JobRows
      BY <1>0 DEF TypeOK
    <3> QED
      BY <3>1 DEF JobRows
  <2>2. /\ r.acct = jobs[j].acct /\ r.typ = jobs[j].typ /\ r.status = jobs[j].status
        /\ r.attempts = jobs[j].attempts /\ r.lease # "none"
        /\ jobs' = [jobs EXCEPT ![j] = r]
    BY <1>0, <1>2 DEF TypeOK, JobRows, LeaseExpires
  <2> HIDE DEF r
  <2>3. Admits(j, r) /\ Within(r)
    BY <2>1, <2>2, RowAdmitted DEF Within, Sound, ActiveRowsRecoverable, AttemptsBudget
  <2> QED
    BY <1>2, <2>1, <2>2, <2>3
       DEF LeaseExpires, RowsStep, Changes, JobsTaken, AccountsStay
<1>3. ASSUME NEW a \in Accounts, BecomesEligible(a) PROVE RowsStep
  <2>1. AccountsStay
    BY <1>0, <1>3 DEF BecomesEligible, AccountsStay, TypeOK, AccountRows
  <2> QED
    BY <1>3, <2>1 DEF BecomesEligible, RowsStep, Kept, JobsTaken
<1> QED
  BY <1>1, <1>2, <1>3 DEF Time

\* What the worker's own state may become, for the steps below.
LEMMA WorkerMoves ==
  ASSUME TypeOK, NEW w \in Workers
  PROVE  /\ \A pc : Become(w, Fresh(pc)) => JobsTaken
         /\ \A pc : Goto(w, pc) => JobsTaken
         /\ \A s : Closing(w, s) => JobsTaken
         /\ \A on : \A j \in JobIds : jobs[j].status # "none"
              /\ Become(w, [Fresh("claimed") EXCEPT !.job = j, !.on = on]) => JobsTaken
<1>1. \A pc : Become(w, Fresh(pc)) => JobsTaken
  BY DEF Become, Fresh, JobsTaken, TypeOK
<1>2. \A pc : Goto(w, pc) => JobsTaken
  BY DEF Goto, JobsTaken, TypeOK, WorkerStates
<1>3. \A s : Closing(w, s) => JobsTaken
  BY DEF Closing, JobsTaken, TypeOK, WorkerStates
<1>4. \A on : \A j \in JobIds : jobs[j].status # "none"
        /\ Become(w, [Fresh("claimed") EXCEPT !.job = j, !.on = on]) => JobsTaken
  BY DEF Become, Fresh, JobsTaken, TypeOK
<1> QED
  BY <1>1, <1>2, <1>3, <1>4

\* A step of the worker loop keeps the rows, reaps them, inserts one or claims one.
LEMMA LoopRows ==
  ASSUME Sound, NEW w \in Workers, LoopStep(w)
  PROVE  RowsStep
<1>0. TypeOK /\ RowsPlaced
  BY DEF Sound
<1>1. CASE Paused(w)
  BY <1>1 DEF Paused, RowsStep, Kept, JobsTaken, AccountsStay
<1>2. CASE Poll(w)
  BY <1>0, <1>2, WorkerMoves DEF Poll, RowsStep, Kept, AccountsStay
<1>3. CASE Housekeep(w)
  <2>1. JobsTaken
    BY <1>0, <1>3, WorkerMoves DEF Housekeep
  <2> QED
    BY <1>0, <1>3, <2>1, RollUpType DEF Housekeep, RowsStep, Reaps, AccountsStay
<1>4. CASE AutoFlag(w)
  <2>1. JobsTaken
    BY <1>0, <1>4, WorkerMoves DEF AutoFlag
  <2>2. AccountsStay
    BY <1>0, <1>4 DEF AutoFlag, AccountsStay, TypeOK, AccountRows
  <2> QED
    BY <1>4, <2>1, <2>2 DEF AutoFlag, RowsStep, Kept
<1>5. CASE OutOfBlock(w)
  BY <1>0, <1>5, WorkerMoves DEF OutOfBlock, RowsStep, Kept, AccountsStay
<1>6. CASE SelectDue(w)
  <2>1. JobsTaken
    BY <1>0, <1>6 DEF SelectDue, JobsTaken, TypeOK, WorkerStates
  <2> QED
    BY <1>6, <2>1 DEF SelectDue, RowsStep, Kept, AccountsStay
<1>7. ASSUME NEW a \in Accounts, PlanOne(w, a) PROVE RowsStep
  <2>1. JobsTaken
    BY <1>0, <1>7 DEF PlanOne, JobsTaken, TypeOK, WorkerStates
  <2>2. CASE CanInsert(a, "sync")
    <3>1. PICK p \in Priorities, due \in BOOLEAN : Insert(a, "sync", p, due, FALSE)
      BY <1>7, <2>2 DEF PlanOne
    <3>2. AccountsStay /\ accts'[a].state = "present"
      BY <1>0, <1>7, <2>2 DEF PlanOne, CanInsert, AccountsStay, TypeOK, AccountRows
    <3>3. Inserts
      BY <2>2, <3>1, <3>2, QueueAssumption DEF CanInsert, Insert, Inserts
    <3> QED
      BY <2>1, <3>3 DEF RowsStep
  <2>3. CASE ~CanInsert(a, "sync")
    BY <1>7, <2>1, <2>3 DEF PlanOne, RowsStep, Kept, AccountsStay
  <2> QED
    BY <2>2, <2>3
<1>8. CASE PlanDone(w)
  BY <1>0, <1>8, WorkerMoves DEF PlanDone, RowsStep, Kept, AccountsStay
<1>9. CASE ClaimNone(w)
  BY <1>0, <1>9, WorkerMoves DEF ClaimNone, RowsStep, Kept, AccountsStay
<1>10. CASE Claim(w)
  <2>1. PICK j \in Top :
          IF Admits(j, Claimed(w, j))
          THEN /\ jobs' = [jobs EXCEPT ![j] = Claimed(w, j)]
               /\ Become(w, [Fresh("claimed") EXCEPT
                               !.job = j, !.on = accts[jobs[j].acct].enabled])
          ELSE /\ Become(w, Fresh("backoff"))
               /\ UNCHANGED jobs
    BY <1>10 DEF Claim
  <2>2. j \in JobIds /\ jobs[j] \in JobRows /\ jobs[j].status \in Waiting
    BY <1>0 DEF Top, Claimable, TypeOK
  <2>3. UNCHANGED lastId /\ AccountsStay
    BY <1>10 DEF Claim, AccountsStay
  <2>4. CASE Admits(j, Claimed(w, j))
    <3>1. JobsTaken
      BY <1>0, <2>1, <2>2, <2>4, WorkerMoves DEF Waiting
    <3>2. Claimed(w, j) \in JobRows
      BY <2>2, RowTypes DEF Claimed
    <3>3. /\ Claimed(w, j).acct = jobs[j].acct /\ Claimed(w, j).typ = jobs[j].typ
          /\ Claimed(w, j).status = "claimed"
          /\ Claimed(w, j).attempts = jobs[j].attempts + 1
      BY <2>2 DEF Claimed, JobRows
    <3>4. Within(Claimed(w, j))
      <4>1. jobs[j].attempts < MaxAttempts /\ jobs[j].attempts \in Nat
        BY <2>2 DEF Sound, AttemptsBudget, JobRows
      <4> QED
        BY <3>3, <4>1, QueueAssumption DEF Within, Waiting
    <3>5. Changes
      BY <2>1, <2>2, <2>3, <2>4, <3>2, <3>3, <3>4 DEF Changes, Waiting
    <3> QED
      BY <3>1, <3>5 DEF RowsStep
  <2>5. CASE ~Admits(j, Claimed(w, j))
    BY <1>0, <2>1, <2>3, <2>5, WorkerMoves DEF RowsStep, Kept
  <2> QED
    BY <2>4, <2>5
<1>11. CASE Resume(w)
  BY <1>0, <1>11, WorkerMoves DEF Resume, RowsStep, Kept, AccountsStay
<1> QED
  BY <1>1, <1>2, <1>3, <1>4, <1>5, <1>6, <1>7, <1>8, <1>9, <1>10, <1>11 DEF LoopStep

\* A step of a run changes the row of the job at hand, or inserts its follow-up.
LEMMA RunRows ==
  ASSUME Sound, NEW w \in Workers, RunStep(w)
  PROVE  RowsStep
<1> DEFINE j == wrk[w].job
           r == jobs[j]
<1>0. /\ TypeOK /\ RowsPlaced
      /\ wrk[w] \in WorkerStates /\ j \in JobIds /\ r \in JobRows
      /\ Within(r)
  BY DEF Sound, TypeOK, WorkerStates, JobIds, Within, AttemptsBudget
<1>1. CASE Start(w)
  <2> DEFINE u == [r EXCEPT !.status = IF wrk[w].on THEN "running" ELSE "cancelled",
                            !.lease = IF wrk[w].on THEN @ ELSE "none"]
             q == Row(j, u)
  <2>1. IF Admits(j, q)
        THEN /\ jobs' = [jobs EXCEPT ![j] = q]
             /\ IF wrk[w].on THEN Goto(w, "discover") ELSE Become(w, Fresh("idle"))
        ELSE Become(w, Fresh("backoff")) /\ UNCHANGED jobs
    BY <1>1 DEF Start
  <2>2. JobsTaken
    BY <1>0, <2>1, WorkerMoves
  <2>3. UNCHANGED lastId /\ AccountsStay
    BY <1>1 DEF Start, AccountsStay
  <2>4. /\ u \in JobRows /\ u.acct = r.acct /\ u.typ = r.typ
        /\ u.status \in {"running", "cancelled"} /\ u.attempts = r.attempts
    <3> DEFINE s == IF wrk[w].on THEN "running" ELSE "cancelled"
               l == IF wrk[w].on THEN r.lease ELSE "none"
    <3>1. s \in {"running", "cancelled"} /\ l \in {"none", "held", "expired"}
      BY <1>0 DEF JobRows
    <3> HIDE DEF s, l
    <3>2. /\ [r EXCEPT !.status = s, !.lease = l] \in JobRows
          /\ [r EXCEPT !.status = s, !.lease = l].acct = r.acct
          /\ [r EXCEPT !.status = s, !.lease = l].typ = r.typ
          /\ [r EXCEPT !.status = s, !.lease = l].attempts = r.attempts
          /\ [r EXCEPT !.status = s, !.lease = l].status = s
      BY ZenonT(30), <1>0, <3>1 DEF JobRows, Live, Terminal
    <3> QED
      BY <1>0, <3>1, <3>2 DEF s, l
  <2> HIDE DEF u
  <2>5. /\ q \in JobRows /\ q.acct = r.acct /\ q.typ = r.typ /\ Within(q)
        /\ (q.status = "none" <=> r.status = "none")
    BY <1>0, <2>4 DEF Row, Within, Waiting
  <2> HIDE DEF q
  <2>6. CASE Admits(j, q)
    <3>1. Changes
      BY <1>0, <2>1, <2>3, <2>5, <2>6 DEF Changes
    <3> QED
      BY <2>2, <3>1 DEF RowsStep
  <2>7. CASE ~Admits(j, q)
    BY <2>1, <2>2, <2>3, <2>7 DEF RowsStep, Kept
  <2> QED
    BY <2>6, <2>7
<1>2. CASE Unavailable(w)
  <2>1. JobsTaken
    BY ZenonT(30), <1>0, <1>2, WorkerMoves DEF Unavailable
  <2>2. AccountsStay
    BY <1>0, <1>2 DEF Unavailable, AccountsStay, TypeOK, AccountRows
  <2> QED
    BY SMTT(30), <1>2, <2>1, <2>2 DEF Unavailable, RowsStep, Kept
<1>3. CASE EngineFails(w)
  BY <1>0, <1>3, WorkerMoves DEF EngineFails, RowsStep, Kept, AccountsStay
<1>4. CASE Refused(w)
  <2>1. JobsTaken
    BY <1>0, <1>4, WorkerMoves DEF Refused
  <2>2. /\ Deferred(r) \in JobRows /\ Deferred(r).acct = r.acct
        /\ Deferred(r).typ = r.typ /\ Deferred(r).status = "deferred"
    <3>1. Deferred(r) \in JobRows
      BY <1>0, RowTypes
    <3>2. /\ Deferred(r).acct = r.acct /\ Deferred(r).typ = r.typ
          /\ Deferred(r).status = "deferred"
      BY <1>0 DEF Deferred, JobRows
    <3> QED
      BY <3>1, <3>2
  <2>3. Within(Deferred(r))
    <3>1. Deferred(r).attempts = IF r.attempts > 0 THEN r.attempts - 1 ELSE 0
      BY <1>0 DEF Deferred, JobRows
    <3>2. r.attempts \in Nat /\ r.attempts <= MaxAttempts
      BY <1>0 DEF JobRows, Within
    <3> QED
      BY <3>1, <3>2, QueueAssumption DEF Within
  <2>4. Changes
    <3>1. /\ jobs' = [jobs EXCEPT ![j] = Row(j, Deferred(r))]
          /\ UNCHANGED lastId /\ AccountsStay
      BY <1>4 DEF Refused, AccountsStay
    <3> QED
      BY <1>0, <2>2, <2>3, <3>1, UpdateChanges DEF Active, Live
  <2> QED
    BY <2>1, <2>4 DEF RowsStep
<1>5. CASE UpToDate(w)
  BY <1>0, <1>5, WorkerMoves DEF UpToDate, RowsStep, Kept, AccountsStay
<1>6. CASE Checkpoint(w)
  BY <1>0, <1>6, WorkerMoves DEF Checkpoint, RowsStep, Kept, AccountsStay
<1>7. CASE ItemDone(w)
  <2> DEFINE u == [r EXCEPT !.lease = "held"]
  <2>1. /\ u \in JobRows /\ u.acct = r.acct /\ u.typ = r.typ
        /\ u.status = r.status /\ u.attempts = r.attempts /\ u.lease = "held"
    BY <1>0 DEF JobRows
  <2>2. UNCHANGED lastId /\ AccountsStay
    BY <1>7 DEF ItemDone, AccountsStay
  <2>3. CASE wrk[w].left > 1
    <3>1. JobsTaken
      BY <1>0, <1>7, <2>3 DEF ItemDone, JobsTaken, TypeOK, WorkerStates
    <3>2. jobs' = [jobs EXCEPT ![j] = Row(j, u)]
      BY <1>7, <2>3 DEF ItemDone
    <3> HIDE DEF u
    <3>3. CASE r.status = "none"
      <4>1. jobs' = jobs
        BY <1>0, <3>2, <3>3 DEF Row, TypeOK
      <4> QED
        BY <2>2, <3>1, <4>1 DEF RowsStep, Kept
    <3>4. CASE r.status # "none"
      <4>1. Within(u)
        BY <1>0, <2>1 DEF Within
      <4>2. Changes
        BY <1>0, <2>1, <2>2, <3>2, <3>4, <4>1, UpdateChanges
      <4> QED
        BY <3>1, <4>2 DEF RowsStep
    <3> QED
      BY <3>3, <3>4
  <2>4. CASE ~(wrk[w].left > 1)
    BY <1>0, <1>7, <2>2, <2>4, WorkerMoves DEF ItemDone, RowsStep, Kept
  <2> QED
    BY <2>3, <2>4
<1>8. ASSUME NEW n \in 1 .. MaxSlice, NEW more \in BOOLEAN, PlanSlice(w, n, more)
      PROVE  RowsStep
  <2>1. JobsTaken
    BY <1>0, <1>8 DEF PlanSlice, JobsTaken, TypeOK, WorkerStates
  <2> QED
    BY <1>8, <2>1 DEF PlanSlice, RowsStep, Kept, AccountsStay
<1>9. CASE Close(w)
  <2> DEFINE s == wrk[w].outcome
             new == [jobs EXCEPT ![j] = Row(j, Finished(r, s))]
  <2>1. /\ jobs' = new /\ accts' = RollUp(new) /\ UNCHANGED lastId
        /\ IF s = "succeeded" /\ wrk[w].more
           THEN Goto(w, "followup") ELSE Become(w, Fresh("idle"))
    BY <1>9 DEF Close
  <2>2. AccountsStay
    BY <1>0, <2>1, RollUpType DEF AccountsStay
  <2>3. JobsTaken
    BY <1>0, <2>1, WorkerMoves
  <2>4. s \in Terminal
    BY <1>0, <1>9 DEF Close, WorkerStates
  <2>5. /\ Finished(r, s) \in JobRows /\ Finished(r, s).acct = r.acct
        /\ Finished(r, s).typ = r.typ /\ Finished(r, s).status = s
        /\ Finished(r, s).attempts = r.attempts
    <3>1. Finished(r, s) \in JobRows
      BY <1>0, <2>4, RowTypes
    <3>2. /\ Finished(r, s).acct = r.acct /\ Finished(r, s).typ = r.typ
          /\ Finished(r, s).status = s /\ Finished(r, s).attempts = r.attempts
      BY <1>0 DEF Finished, JobRows
    <3> QED
      BY <3>1, <3>2
  <2>6. Within(Finished(r, s))
    BY <1>0, <2>4, <2>5 DEF Within, Terminal, Waiting
  <2>7. Changes
    BY <1>0, <2>1, <2>2, <2>4, <2>5, <2>6, UpdateChanges
       DEF Terminal, Active, Live
  <2> QED
    BY <2>3, <2>7 DEF RowsStep
<1>10. CASE Followup(w)
  <2>1. JobsTaken /\ AccountsStay
    BY <1>0, <1>10, WorkerMoves DEF Followup, AccountsStay
  <2>2. CASE r.status # "none" /\ CanInsert(r.acct, "sync")
    <3>1. r.acct \in Accounts /\ r.prio \in Nat
      BY <1>0, <2>2 DEF RowsPlaced, JobRows
    <3>2. Insert(r.acct, "sync", r.prio, FALSE, FALSE) /\ UNCHANGED accts
      BY <1>10, <2>2 DEF Followup
    <3>3. Inserts
      BY <2>1, <2>2, <3>1, <3>2, QueueAssumption DEF CanInsert, Insert, Inserts
    <3> QED
      BY <2>1, <3>3 DEF RowsStep
  <2>3. CASE ~(r.status # "none" /\ CanInsert(r.acct, "sync"))
    BY <1>10, <2>1, <2>3 DEF Followup, RowsStep, Kept
  <2> QED
    BY <2>2, <2>3
<1> QED
  BY <1>1, <1>2, <1>3, <1>4, <1>5, <1>6, <1>7, <1>8, <1>9, <1>10 DEF RunStep

\* Every step of the system does one of these things to the rows.
LEMMA StepRows == Sound /\ [Next]_vars => RowsStep
<1> SUFFICES ASSUME Sound, [Next]_vars PROVE RowsStep
  OBVIOUS
<1>0. TypeOK
  BY DEF Sound
<1>1. CASE Request
  BY <1>1, RequestRows
<1>2. CASE ToggleWrite
  <2> DEFINE j == toggle.job
             q == [jobs[j] EXCEPT !.status = "cancelled"]
  <2>1. j \in JobIds /\ jobs[j] \in JobRows
    BY <1>0 DEF TypeOK, JobIds
  <2>2. \A scrape : \A r \in AccountRows : Updated(r, scrape).state = r.state
    BY DEF Updated, AccountRows
  <2>3. AccountsStay
    BY <1>0, <1>2, <2>2 DEF ToggleWrite, AccountsStay, TypeOK
  <2>4. JobsTaken /\ UNCHANGED lastId
    BY <1>2 DEF ToggleWrite, JobsTaken
  <2>5. /\ q \in JobRows /\ q.acct = jobs[j].acct /\ q.typ = jobs[j].typ
        /\ q.status = "cancelled" /\ q.attempts = jobs[j].attempts
    BY <2>1 DEF JobRows, Terminal
  <2>6. Within(q) /\ Admits(j, q)
    BY <2>1, <2>5
       DEF Within, Sound, AttemptsBudget, Waiting, Admits, Active, Live
  <2>7. \/ jobs' = jobs
        \/ jobs[j].status \in Waiting /\ jobs' = [jobs EXCEPT ![j] = q]
    BY <1>0, <1>2, <2>1 DEF ToggleWrite, TypeOK
  <2> HIDE DEF q
  <2>8. Kept \/ Changes
    BY <2>1, <2>3, <2>4, <2>5, <2>6, <2>7 DEF Kept, Changes, Waiting
  <2> QED
    BY <2>4, <2>8 DEF RowsStep
<1>3. CASE Reap
  BY <1>0, <1>3, RollUpType DEF Reap, RowsStep, Reaps, AccountsStay, JobsTaken
<1>4. CASE Time
  BY <1>4, TimeRows
<1>5. ASSUME NEW w \in Workers, WorkerStep(w) PROVE RowsStep
  <2>1. CASE LoopStep(w)
    BY <2>1, LoopRows
  <2>2. CASE RunStep(w)
    BY <2>2, RunRows
  <2>3. CASE DbError(w)
    BY <1>0, <2>3, WorkerMoves DEF DbError, RowsStep, Kept, AccountsStay
  <2>4. CASE Crash(w)
    BY <1>0, <2>4, WorkerMoves DEF Crash, RowsStep, Kept, AccountsStay
  <2>5. CASE Restart(w)
    <3>1. JobsTaken
      BY <1>0, <2>5, WorkerMoves DEF Restart
    <3> QED
      BY <1>0, <2>5, <3>1, RollUpType DEF Restart, RowsStep, Reaps, AccountsStay
  <2> QED
    BY <1>5, <2>1, <2>2, <2>3, <2>4, <2>5 DEF WorkerStep
<1>6. CASE UNCHANGED vars
  BY <1>6 DEF vars, RowsStep, Kept, AccountsStay, JobsTaken
<1> QED
  BY <1>1, <1>2, <1>3, <1>4, <1>5, <1>6 DEF Next

-----------------------------------------------------------------------------
(* Init and the invariants.                                                *)

\* The empty queue satisfies the inductive invariant.
LEMMA SoundInit == Init => Sound
<1> SUFFICES ASSUME Init PROVE Sound
  OBVIOUS
<1>1. \A j \in JobIds : jobs[j] = NoJob
  BY DEF Init
<1>2. RowsPlaced
  BY <1>1, QueueAssumption DEF Init, RowsPlaced, NoJob, Fresh, JobIds
<1>3. ActiveRowsRecoverable
  BY <1>1 DEF ActiveRowsRecoverable, NoJob, Live, Active
<1>4. AttemptsBudget
  BY <1>1, QueueAssumption DEF AttemptsBudget, NoJob, Waiting
<1> QED
  BY <1>2, <1>3, <1>4, TypeInit DEF Sound

\* What a reap does to one row.
LEMMA ReapedRow ==
  ASSUME Sound, NEW j \in JobIds
  PROVE  /\ Reaped[j].acct = jobs[j].acct /\ Reaped[j].typ = jobs[j].typ
         /\ Reaped[j].status = "none" <=> jobs[j].status = "none"
         /\ Reaped[j].status \in Live => Reaped[j] = jobs[j]
         /\ Reaped[j].status \in Active => jobs[j].status \in Active
         /\ Within(Reaped[j])
<1>1. jobs[j] \in JobRows /\ Within(jobs[j])
  BY DEF Sound, TypeOK, AttemptsBudget, Within
<1>2. CASE Expired(j)
  <2>1. /\ Reaped[j].acct = jobs[j].acct /\ Reaped[j].typ = jobs[j].typ
        /\ Reaped[j].attempts = jobs[j].attempts
        /\ Reaped[j].status =
             IF jobs[j].attempts >= MaxAttempts THEN "failed" ELSE "queued"
    BY <1>1, <1>2 DEF Reaped, JobRows
  <2>2. Within(Reaped[j])
    BY <1>1, <2>1, QueueAssumption DEF Within, JobRows, Waiting
  <2> QED
    BY <1>2, <2>1, <2>2 DEF Expired, Live, Active
<1>3. CASE ~Expired(j)
  BY <1>1, <1>3 DEF Reaped
<1> QED
  BY <1>2, <1>3

\* Rows stay with accounts that are there.
LEMMA PlacedStep ==
  ASSUME Sound, TypeOK', RowsStep
  PROVE  RowsPlaced'
<1>0. TypeOK /\ RowsPlaced /\ 0 \in JobIds /\ lastId \in Nat
  BY QueueAssumption DEF Sound, JobIds, TypeOK
<1>1. lastId' >= lastId
  <2>1. lastId' \in {lastId, lastId + 1}
    BY DEF RowsStep, Kept, Inserts, Deletes, Reaps, Changes
  <2> QED
    BY <1>0, <2>1
<1>2. ASSUME NEW w \in Workers PROVE wrk'[w].job <= lastId'
  <2>1. wrk'[w].job \in Nat
    BY DEF TypeOK, WorkerStates
  <2>2. wrk'[w].job <= lastId
    BY <1>0 DEF RowsStep, JobsTaken, RowsPlaced
  <2> QED
    BY <1>0, <1>1, <2>1, <2>2 DEF TypeOK
<1>3. ASSUME NEW j \in JobIds
      PROVE  /\ jobs'[j].status = "none" <=> jobs'[j].acct = None
             /\ jobs'[j].status # "none" =>
                  /\ j <= lastId'
                  /\ jobs'[j].acct \in Accounts /\ jobs'[j].typ \in Types
                  /\ accts'[jobs'[j].acct].state = "present"
             /\ j = 0 => jobs'[j].status = "none"
  <2>0. /\ jobs[j].status = "none" <=> jobs[j].acct = None
        /\ jobs[j].status # "none" =>
             /\ j <= lastId
             /\ jobs[j].acct \in Accounts /\ jobs[j].typ \in Types
             /\ accts[jobs[j].acct].state = "present"
        /\ j = 0 => jobs[j].status = "none"
    BY <1>0 DEF RowsPlaced
  <2>1. CASE Kept
    BY <2>0, <2>1 DEF Kept, AccountsStay
  <2>2. CASE Inserts
    <3>1. PICK a \in Accounts, t \in Types, p \in Nat, due \in BOOLEAN,
               cancel \in BOOLEAN :
            /\ lastId < MaxJobs /\ ~SlotTaken(a, t, 0)
            /\ jobs' = [jobs EXCEPT ![lastId + 1] =
                 [NoJob EXCEPT !.status = "queued", !.acct = a, !.typ = t,
                               !.prio = p, !.due = due, !.cancel = cancel]]
            /\ lastId' = lastId + 1
            /\ accts'[a].state = "present" /\ AccountsStay
      BY <2>2 DEF Inserts
    <3>2. CASE j = lastId + 1
      <4>1. /\ jobs'[j].status = "queued" /\ jobs'[j].acct = a /\ jobs'[j].typ = t
        BY <1>0, <3>1, <3>2 DEF NoJob, TypeOK
      <4> QED
        BY <1>0, <3>1, <3>2, <4>1, QueueAssumption
    <3>3. CASE j # lastId + 1
      <4>1. jobs'[j] = jobs[j]
        BY <1>0, <3>1, <3>3 DEF TypeOK
      <4> QED
        <5>1. j \in Nat
          BY DEF JobIds
        <5>2. j <= lastId => j <= lastId'
          BY <1>0, <3>1, <5>1
        <5> QED
          BY <2>0, <3>1, <4>1, <5>2 DEF AccountsStay
    <3> QED
      BY <3>2, <3>3
  <2>3. CASE Deletes
    <3>1. PICK a \in Accounts :
            /\ jobs' = [k \in JobIds |-> IF jobs[k].acct = a THEN NoJob ELSE jobs[k]]
            /\ accts' = [accts EXCEPT ![a] = NoAccount("deleted")]
            /\ UNCHANGED lastId
      BY <2>3 DEF Deletes
    <3>2. CASE jobs[j].acct = a
      BY <3>1, <3>2 DEF NoJob
    <3>3. CASE jobs[j].acct # a
      <4>1. jobs'[j] = jobs[j]
        BY <3>1, <3>3
      <4> QED
        BY <1>0, <2>0, <3>1, <3>3, <4>1 DEF TypeOK
    <3> QED
      BY <3>2, <3>3
  <2>4. CASE Reaps
    BY <2>0, <2>4, ReapedRow DEF Reaps, AccountsStay
  <2>5. CASE Changes
    <3>1. PICK k \in JobIds, r \in JobRows :
            /\ jobs' = [jobs EXCEPT ![k] = r]
            /\ r.acct = jobs[k].acct /\ r.typ = jobs[k].typ
            /\ r.status = "none" <=> jobs[k].status = "none"
            /\ UNCHANGED lastId /\ AccountsStay
      BY <2>5 DEF Changes
    <3>2. /\ jobs'[j].acct = jobs[j].acct /\ jobs'[j].typ = jobs[j].typ
          /\ jobs'[j].status = "none" <=> jobs[j].status = "none"
      BY <1>0, <3>1 DEF TypeOK
    <3> QED
      BY <2>0, <3>1, <3>2 DEF AccountsStay
  <2> QED
    BY <2>1, <2>2, <2>3, <2>4, <2>5 DEF RowsStep
<1> QED
  BY <1>0, <1>2, <1>3 DEF RowsPlaced

\* Rows keep within their attempts.
LEMMA BudgetStep ==
  ASSUME Sound, TypeOK', RowsStep
  PROVE  AttemptsBudget'
<1>0. TypeOK /\ \A j \in JobIds : Within(jobs[j])
  BY DEF Sound, AttemptsBudget, Within
<1>1. Within(NoJob)
  BY QueueAssumption DEF Within, NoJob, Waiting
<1>2. ASSUME NEW j \in JobIds PROVE Within(jobs'[j])
  <2>1. CASE Kept
    BY <1>0, <2>1 DEF Kept
  <2>2. CASE Inserts
    <3>1. PICK q : /\ q.attempts = 0
                   /\ jobs' = [jobs EXCEPT ![lastId + 1] = q]
      BY <2>2 DEF Inserts, NoJob
    <3>2. Within(q)
      BY <3>1, QueueAssumption DEF Within
    <3> QED
      BY <1>0, <3>1, <3>2 DEF TypeOK
  <2>3. CASE Deletes
    BY <1>0, <1>1, <2>3 DEF Deletes
  <2>4. CASE Reaps
    BY <2>4, ReapedRow DEF Reaps
  <2>5. CASE Changes
    BY <1>0, <2>5 DEF Changes, TypeOK
  <2> QED
    BY <2>1, <2>2, <2>3, <2>4, <2>5 DEF RowsStep
<1> QED
  BY <1>2 DEF AttemptsBudget, Within

\* Live rows keep their lease, and active ones their slot.
LEMMA ActiveStep ==
  ASSUME Sound, TypeOK', RowsStep
  PROVE  ActiveRowsRecoverable'
<1>0. TypeOK /\ ActiveRowsRecoverable /\ RowsPlaced
  BY DEF Sound
\* It is enough that each live row has a lease and no two share a slot.
<1>1. SUFFICES /\ \A j \in JobIds : jobs'[j].status \in Live => jobs'[j].lease # "none"
               /\ \A j, k \in JobIds :
                    /\ jobs'[j].status \in Active /\ jobs'[k].status \in Active
                    /\ jobs'[j].acct = jobs'[k].acct /\ jobs'[j].typ = jobs'[k].typ
                    => j = k
  BY DEF ActiveRowsRecoverable, SlotTaken
<1>2. /\ \A j \in JobIds : jobs[j].status \in Live => jobs[j].lease # "none"
      /\ \A j, k \in JobIds :
           /\ jobs[j].status \in Active /\ jobs[k].status \in Active
           /\ jobs[j].acct = jobs[k].acct /\ jobs[j].typ = jobs[k].typ
           => j = k
  BY <1>0 DEF ActiveRowsRecoverable, SlotTaken
<1>3. CASE Kept
  BY <1>2, <1>3 DEF Kept
<1>4. CASE Inserts
  <2>0. PICK a \in Accounts, t \in Types : \E q :
          /\ ~SlotTaken(a, t, 0)
          /\ q.status = "queued" /\ q.acct = a /\ q.typ = t
          /\ jobs' = [jobs EXCEPT ![lastId + 1] = q]
    BY ZenonT(30), <1>4 DEF Inserts, NoJob
  <2>1. PICK q :
          /\ ~SlotTaken(a, t, 0)
          /\ q.status = "queued" /\ q.acct = a /\ q.typ = t
          /\ jobs' = [jobs EXCEPT ![lastId + 1] = q]
    BY <2>0
  <2>2. \A k \in JobIds : jobs[k].status \in Active =>
          ~(jobs[k].acct = a /\ jobs[k].typ = t)
    BY <1>0, <2>1 DEF SlotTaken, RowsPlaced, Active, Live
  <2>3. \A k \in JobIds : jobs'[k] = IF k = lastId + 1 THEN q ELSE jobs[k]
    BY <1>0, <2>1 DEF TypeOK
  <2> QED
    BY <1>2, <2>1, <2>2, <2>3 DEF Live
<1>5. CASE Deletes
  <2>1. PICK a \in Accounts :
          \A k \in JobIds : jobs'[k] = IF jobs[k].acct = a THEN NoJob ELSE jobs[k]
    BY <1>5 DEF Deletes
  <2>2. NoJob.status \notin Active
    BY DEF NoJob, Active, Live
  <2> QED
    BY <1>2, <2>1, <2>2 DEF Active
<1>6. CASE Reaps
  BY <1>2, <1>6, ReapedRow DEF Reaps
<1>7. CASE Changes
  <2>1. PICK j \in JobIds, r \in JobRows :
          /\ jobs' = [jobs EXCEPT ![j] = r]
          /\ r.acct = jobs[j].acct /\ r.typ = jobs[j].typ /\ Admits(j, r)
    BY <1>7 DEF Changes
  <2>2. \A k \in JobIds : jobs'[k] = IF k = j THEN r ELSE jobs[k]
    BY <1>0, <2>1 DEF TypeOK
  <2> QED
    BY <1>2, <2>1, <2>2 DEF Admits, SlotTaken
<1> QED
  BY <1>3, <1>4, <1>5, <1>6, <1>7 DEF RowsStep

\* Every step of the system preserves the inductive invariant.
LEMMA SoundStep == Sound /\ [Next]_vars => Sound'
<1> SUFFICES ASSUME Sound, [Next]_vars PROVE Sound'
  OBVIOUS
<1>1. TypeOK'
  BY TypeStep DEF Sound
<1>2. RowsStep
  BY StepRows
<1> QED
  BY <1>1, <1>2, PlacedStep, ActiveStep, BudgetStep DEF Sound

\* The inductive invariant holds in every reachable state.
THEOREM SoundAlways == Spec => []Sound
  BY SoundInit, SoundStep, PTL DEF Spec

\* Every variable has its type.
THEOREM TypeCorrect == Spec => []TypeOK
<1>1. Sound => TypeOK
  BY DEF Sound
<1> QED
  BY <1>1, SoundAlways, PTL

\* Rows belong to accounts that are there, and ids are not reused.
THEOREM PlacedAlways == Spec => []RowsPlaced
<1>1. Sound => RowsPlaced
  BY DEF Sound
<1> QED
  BY <1>1, SoundAlways, PTL

\* Live rows can be reaped and slots are never shared.
THEOREM RecoverableAlways == Spec => []ActiveRowsRecoverable
<1>1. Sound => ActiveRowsRecoverable
  BY DEF Sound
<1> QED
  BY <1>1, SoundAlways, PTL

\* Nothing is claimed beyond its attempts.
THEOREM BudgetAlways == Spec => []AttemptsBudget
<1>1. Sound => AttemptsBudget
  BY DEF Sound
<1> QED
  BY <1>1, SoundAlways, PTL

-----------------------------------------------------------------------------
(* The worker that holds a job owns its row, as long as no item outlasts    *)
(* the lease.  Sound and HolderOwnsRow are inductive together.              *)

Holding == Busy \ {"followup"}

Grip(w, r) ==
  \/ r.status = "none"
  \/ r.status \in Live /\ r.owner = w /\ r.lease = "held"

\* No worker takes up a job, and the rows of those who hold one keep theirs.
Stay ==
  \A v \in Workers : wrk'[v].pc \in Holding =>
    wrk[v].pc \in Holding /\ wrk'[v].job = wrk[v].job
GripKept ==
  \A v \in Workers : wrk'[v].pc \in Holding /\ Grip(v, jobs[wrk[v].job]) =>
    Grip(v, jobs'[wrk[v].job])
Mild == GripKept /\ TerminalStep

\* Ownership survives a step that leaves the workers' states and held rows alone.
LEMMA HolderKept ==
  ASSUME HolderOwnsRow, Stay, GripKept
  PROVE  HolderOwnsRow'
  BY DEF HolderOwnsRow, Stay, GripKept, Grip, Holding

\* A worker that stays where it is holds after the step what it held before.
LEMMA StayMoves ==
  ASSUME TypeOK, NEW w \in Workers
  PROVE  /\ UNCHANGED wrk => Stay
         /\ \A pc : pc \notin Holding /\ (Become(w, Fresh(pc)) \/ Goto(w, pc)) => Stay
         /\ \A pc : wrk[w].pc \in Holding /\ Goto(w, pc) => Stay
         /\ \A s : wrk[w].pc \in Holding /\ Closing(w, s) => Stay
<1>1. UNCHANGED wrk => Stay
  BY DEF Stay
<1>2. \A pc : pc \notin Holding /\ (Become(w, Fresh(pc)) \/ Goto(w, pc)) => Stay
  BY DEF Stay, Become, Fresh, Goto, TypeOK, WorkerStates
<1>3. \A pc : wrk[w].pc \in Holding /\ Goto(w, pc) => Stay
  BY DEF Stay, Goto, TypeOK, WorkerStates
<1>4. \A s : wrk[w].pc \in Holding /\ Closing(w, s) => Stay
  BY DEF Stay, Closing, TypeOK, WorkerStates
<1> QED
  BY <1>1, <1>2, <1>3, <1>4

\* Insertions, deletions, reaps and the rest leave what is held alone.
LEMMA MildRows ==
  ASSUME Sound, HolderOwnsRow, Stay
  PROVE  /\ UNCHANGED jobs => Mild
         /\ \A q : jobs' = [jobs EXCEPT ![lastId + 1] = q] => Mild
         /\ \A a : jobs' = [j \in JobIds |-> IF jobs[j].acct = a THEN NoJob ELSE jobs[j]]
                   => Mild
         /\ jobs' = Reaped => Mild
<1>0. /\ TypeOK /\ RowsPlaced /\ lastId \in Nat
      /\ \A v \in Workers : wrk[v].job \in JobIds /\ wrk[v].job <= lastId
  BY DEF Sound, TypeOK, RowsPlaced, WorkerStates, JobIds
<1>1. UNCHANGED jobs => Mild
  BY DEF Mild, GripKept, TerminalStep
<1>2. ASSUME NEW q, jobs' = [jobs EXCEPT ![lastId + 1] = q] PROVE Mild
  <2>1. \A j \in JobIds : j # lastId + 1 => jobs'[j] = jobs[j]
    BY <1>0, <1>2 DEF TypeOK
  <2>2. \A v \in Workers : jobs'[wrk[v].job] = jobs[wrk[v].job]
    <3> TAKE v \in Workers
    <3>1. wrk[v].job # lastId + 1
      BY <1>0 DEF JobIds
    <3> QED
      BY <1>0, <2>1, <3>1
  <2>3. \A j \in JobIds : jobs[j].status \in Terminal => j # lastId + 1
    BY <1>0 DEF RowsPlaced, Terminal, JobIds
  <2> QED
    BY <2>1, <2>2, <2>3 DEF Mild, GripKept, TerminalStep
<1>3. ASSUME NEW a,
             jobs' = [j \in JobIds |-> IF jobs[j].acct = a THEN NoJob ELSE jobs[j]]
      PROVE  Mild
  <2>1. \A j \in JobIds : jobs'[j] = jobs[j] \/ jobs'[j].status = "none"
    BY <1>3 DEF NoJob
  <2> QED
    BY <1>0, <2>1 DEF Mild, GripKept, Grip, TerminalStep
<1>4. ASSUME jobs' = Reaped PROVE Mild
  <2>1. \A j \in JobIds : ~Expired(j) => jobs'[j] = jobs[j]
    BY <1>4 DEF Reaped
  <2>2. \A j \in JobIds : jobs[j].status \in Terminal => ~Expired(j)
    BY DEF Expired, Terminal, Live
  <2>3. \A j \in JobIds, v \in Workers : Grip(v, jobs[j]) => ~Expired(j)
    BY DEF Expired, Grip, Live
  <2> QED
    BY <1>0, <2>1, <2>2, <2>3 DEF Mild, GripKept, TerminalStep
<1> QED
  BY <1>1, <1>2, <1>3, <1>4

\* A write to a row that waits leaves what is held alone.
LEMMA MildWaiting ==
  ASSUME Sound, HolderOwnsRow, Stay, NEW j \in JobIds, NEW r,
         jobs[j].status \in Waiting, jobs' = [jobs EXCEPT ![j] = r]
  PROVE  Mild
  BY DEF Sound, TypeOK, Mild, GripKept, Grip, TerminalStep, Waiting, Live, Terminal

\* A worker's write to the row of the job it holds.
LEMMA MildOwn ==
  ASSUME Sound, HolderOwnsRow, NEW w \in Workers, wrk[w].pc \in Holding, NEW r,
         jobs' = [jobs EXCEPT ![wrk[w].job] = Row(wrk[w].job, r)],
         \/ wrk'[w].pc \notin Holding
         \/ Grip(w, jobs[wrk[w].job]) /\ jobs[wrk[w].job].status # "none" => Grip(w, r)
  PROVE  Mild
<1> DEFINE j == wrk[w].job
<1>0. /\ TypeOK /\ j \in JobIds
      /\ \A v \in Workers : wrk[v].job \in JobIds
      /\ Grip(w, jobs[j])
  BY DEF Sound, TypeOK, WorkerStates, JobIds, HolderOwnsRow, Holding, Grip
<1>1. CASE jobs[j].status = "none"
  <2>1. jobs' = jobs
    BY <1>0, <1>1 DEF Row, TypeOK
  <2> QED
    BY <2>1 DEF Mild, GripKept, TerminalStep
<1>2. CASE jobs[j].status # "none"
  <2>1. \A k \in JobIds : jobs'[k] = IF k = j THEN r ELSE jobs[k]
    BY <1>0, <1>2 DEF Row, TypeOK
  <2>2. jobs[j].status \in Live /\ jobs[j].owner = w
    BY <1>0, <1>2 DEF Grip
  <2>3. TerminalStep
    BY <2>1, <2>2 DEF TerminalStep, Live, Terminal
  <2>4. \A v \in Workers : wrk[v].job = j /\ v # w => ~Grip(v, jobs[j])
    BY <1>2, <2>2 DEF Grip
  <2>5. GripKept
    BY <1>0, <1>2, <2>1, <2>4 DEF GripKept
  <2> QED
    BY <2>3, <2>5 DEF Mild
<1> QED
  BY <1>1, <1>2

\* No API request disturbs a row that a worker holds.
LEMMA MildRequest == Sound /\ HolderOwnsRow /\ Request => Stay /\ Mild
<1> SUFFICES ASSUME Sound, HolderOwnsRow, Request PROVE Stay /\ Mild
  OBVIOUS
<1>0. TypeOK
  BY DEF Sound
<1>1. Stay
  BY DEF Request, CreateAccount, DeleteAccount, UpdateAccount, Enqueue, ToggleRead,
         Retry, CancelJob, FlipSwitch, Stay
<1>2. ASSUME NEW a \in Accounts, NEW on \in BOOLEAN, NEW b \in BOOLEAN,
             CreateAccount(a, on, b)
      PROVE  Mild
  BY <1>1, <1>2, MildRows DEF CreateAccount, Insert
<1>3. ASSUME NEW a \in Accounts, DeleteAccount(a) PROVE Mild
  BY <1>1, <1>3, MildRows DEF DeleteAccount
<1>4. ASSUME NEW a \in Accounts, NEW scrape \in {"on", "off", "keep"},
             NEW status \in {"flagged", "active", "keep"},
             UpdateAccount(a, scrape, status)
      PROVE  Mild
  BY <1>1, <1>4, MildRows DEF UpdateAccount
<1>5. ASSUME NEW a \in Accounts, NEW t \in Types, NEW p \in Priorities,
             NEW due \in BOOLEAN, Enqueue(a, t, p, due)
      PROVE  Mild
  BY <1>1, <1>5, MildRows DEF Enqueue, Insert
<1>6. ASSUME NEW a \in Accounts, NEW target \in {"on", "off"}, ToggleRead(a, target)
      PROVE  Mild
  BY <1>1, <1>6, MildRows DEF ToggleRead
<1>7. ASSUME NEW j \in JobIds, Retry(j) PROVE Mild
  BY <1>1, <1>7, MildRows DEF Retry, Insert
<1>8. ASSUME NEW j \in JobIds, CancelJob(j) PROVE Mild
  <2>1. CASE /\ jobs[j].status \in Waiting
             /\ jobs' = [jobs EXCEPT ![j].status = "cancelled"]
    BY <1>1, <2>1, MildWaiting
  <2>2. CASE /\ jobs[j].status \in Live
             /\ jobs' = [jobs EXCEPT ![j].cancel = TRUE, ![j].asked = TRUE]
    <3>1. \A k \in JobIds : /\ jobs'[k].status = jobs[k].status
                            /\ jobs'[k].owner = jobs[k].owner
                            /\ jobs'[k].lease = jobs[k].lease
      BY <1>0, <2>2 DEF TypeOK, JobRows
    <3> QED
      BY <1>0, <3>1 DEF Mild, GripKept, Grip, TerminalStep, TypeOK, WorkerStates, JobIds
  <2> QED
    BY <1>8, <2>1, <2>2 DEF CancelJob
<1>9. ASSUME FlipSwitch PROVE Mild
  BY <1>1, <1>9, MildRows DEF FlipSwitch
<1> QED
  BY <1>1, <1>2, <1>3, <1>4, <1>5, <1>6, <1>7, <1>8, <1>9 DEF Request

\* Nor does the passing of time, as long as no item outlasts its lease.
LEMMA MildTime == ~SlowItems /\ Sound /\ HolderOwnsRow /\ Time => Stay /\ Mild
<1> SUFFICES ASSUME ~SlowItems, Sound, HolderOwnsRow, Time PROVE Stay /\ Mild
  OBVIOUS
<1>0. TypeOK
  BY DEF Sound
<1>1. Stay
  BY DEF Time, BecomesDue, LeaseExpires, BecomesEligible, Stay
<1>2. ASSUME NEW j \in JobIds, BecomesDue(j) PROVE Mild
  BY <1>1, <1>2, MildWaiting DEF BecomesDue
<1>3. ASSUME NEW j \in JobIds, LeaseExpires(j) PROVE Mild
  <2>1. \A k \in JobIds : /\ jobs'[k].status = jobs[k].status
                          /\ k # j => jobs'[k] = jobs[k]
    BY <1>0, <1>3 DEF LeaseExpires, TypeOK, JobRows
  <2>2. \A v \in Workers : wrk'[v].pc \in Holding => wrk[v].job # j
    BY <1>1, <1>3 DEF LeaseExpires, Holds, Holding, Stay
  <2> QED
    BY <1>0, <2>1, <2>2
       DEF Mild, GripKept, TerminalStep, TypeOK, WorkerStates, JobIds
<1>4. ASSUME NEW a \in Accounts, BecomesEligible(a) PROVE Mild
  BY <1>1, <1>4, MildRows DEF BecomesEligible
<1> QED
  BY <1>1, <1>2, <1>3, <1>4 DEF Time

\* A step of the worker loop leaves every worker the owner of its row.
LEMMA HolderLoop ==
  ASSUME Sound, HolderOwnsRow, NEW w \in Workers, LoopStep(w)
  PROVE  HolderOwnsRow' /\ TerminalStep
<1>0. /\ TypeOK
      /\ \A pc \in Loop : pc \notin Holding
  BY DEF Sound, Holding, Busy, Engine, Loop
<1> USE DEF Loop
<1>1. CASE Paused(w)
  BY <1>0, <1>1, StayMoves, MildRows, HolderKept DEF Paused, Mild
<1>2. CASE Poll(w)
  BY <1>0, <1>2, StayMoves, MildRows, HolderKept DEF Poll, Mild
<1>3. CASE Housekeep(w)
  BY <1>0, <1>3, StayMoves, MildRows, HolderKept DEF Housekeep, Mild
<1>4. CASE AutoFlag(w)
  BY <1>0, <1>4, StayMoves, MildRows, HolderKept DEF AutoFlag, Mild
<1>5. CASE OutOfBlock(w)
  BY <1>0, <1>5, StayMoves, MildRows, HolderKept DEF OutOfBlock, Mild
<1>6. CASE SelectDue(w)
  <2>1. Stay
    BY <1>0, <1>6 DEF SelectDue, Stay, TypeOK, WorkerStates
  <2> QED
    BY <1>6, <2>1, MildRows, HolderKept DEF SelectDue, Mild
<1>7. ASSUME NEW a \in Accounts, PlanOne(w, a) PROVE HolderOwnsRow' /\ TerminalStep
  <2>1. Stay
    BY <1>0, <1>7 DEF PlanOne, Stay, TypeOK, WorkerStates
  <2>2. Mild
    BY <1>7, <2>1, MildRows DEF PlanOne, Insert
  <2> QED
    BY <2>1, <2>2, HolderKept DEF Mild
<1>8. CASE PlanDone(w)
  BY <1>0, <1>8, StayMoves, MildRows, HolderKept DEF PlanDone, Mild
<1>9. CASE ClaimNone(w)
  BY <1>0, <1>9, StayMoves, MildRows, HolderKept DEF ClaimNone, Mild
<1>10. CASE Claim(w)
  <2>1. PICK j \in Top :
          IF Admits(j, Claimed(w, j))
          THEN /\ jobs' = [jobs EXCEPT ![j] = Claimed(w, j)]
               /\ Become(w, [Fresh("claimed") EXCEPT
                               !.job = j, !.on = accts[jobs[j].acct].enabled])
          ELSE /\ Become(w, Fresh("backoff"))
               /\ UNCHANGED jobs
    BY <1>10 DEF Claim
  <2>2. j \in JobIds /\ jobs[j] \in JobRows /\ jobs[j].status \in Waiting
    BY <1>0 DEF Top, Claimable, TypeOK
  <2>3. CASE Admits(j, Claimed(w, j))
    <3>1. \A k \in JobIds : jobs'[k] = IF k = j THEN Claimed(w, j) ELSE jobs[k]
      BY <1>0, <2>1, <2>3 DEF TypeOK
    <3>2. \A v \in Workers : v # w => wrk'[v] = wrk[v]
      BY <1>0, <2>1, <2>3 DEF Become, TypeOK
    <3>3. wrk'[w].job = j
      <4>1. \A on : [Fresh("claimed") EXCEPT !.job = j, !.on = on].job = j
        BY DEF Fresh
      <4>2. wrk'[w] = [Fresh("claimed") EXCEPT !.job = j,
                                               !.on = accts[jobs[j].acct].enabled]
        BY <1>0, <2>1, <2>3 DEF Become, TypeOK
      <4> QED
        BY <4>1, <4>2
    <3>4. Claimed(w, j).status \in Live /\ Claimed(w, j).owner = w
          /\ Claimed(w, j).lease = "held"
      BY <2>2 DEF Claimed, JobRows, Live
    <3>5. \A v \in Workers : v # w /\ wrk[v].pc \in Holding => wrk[v].job # j
      BY <2>2 DEF HolderOwnsRow, Holding, Waiting, Live
    <3>6. \A v \in Workers : wrk[v].job \in JobIds
      BY <1>0 DEF TypeOK, WorkerStates, JobIds
    <3>7. HolderOwnsRow'
      <4> SUFFICES ASSUME NEW v \in Workers, wrk'[v].pc \in Holding
                   PROVE  Grip(v, jobs'[wrk'[v].job])
        BY DEF HolderOwnsRow, Holding, Grip
      <4>1. CASE v = w
        BY <2>2, <3>1, <3>3, <3>4, <4>1 DEF Grip
      <4>2. CASE v # w
        BY <3>1, <3>2, <3>5, <3>6, <4>2 DEF HolderOwnsRow, Holding, Grip
      <4> QED
        BY <4>1, <4>2
    <3> QED
      BY <2>2, <3>1, <3>7 DEF TerminalStep, Waiting, Terminal
  <2>4. CASE ~Admits(j, Claimed(w, j))
    BY <1>0, <2>1, <2>4, StayMoves, MildRows, HolderKept DEF Mild
  <2> QED
    BY <2>3, <2>4
<1>11. CASE Resume(w)
  BY <1>0, <1>11, StayMoves, MildRows, HolderKept DEF Resume, Mild
<1> QED
  BY <1>1, <1>2, <1>3, <1>4, <1>5, <1>6, <1>7, <1>8, <1>9, <1>10, <1>11 DEF LoopStep

\* So does a step of a run: each writes to its own row only.
LEMMA HolderRun ==
  ASSUME Sound, HolderOwnsRow, NEW w \in Workers, RunStep(w)
  PROVE  HolderOwnsRow' /\ TerminalStep
<1> DEFINE j == wrk[w].job
           r == jobs[j]
<1>0. /\ TypeOK /\ j \in JobIds /\ r \in JobRows
      /\ {"claimed", "closing", "discover", "checkpoint", "item"} \subseteq Holding
      /\ \A pc \in {"idle", "backoff", "followup"} : pc \notin Holding
  BY DEF Sound, TypeOK, WorkerStates, JobIds, Holding, Busy, Engine
<1>1. CASE Start(w)
  <2> DEFINE u == [r EXCEPT !.status = IF wrk[w].on THEN "running" ELSE "cancelled",
                            !.lease = IF wrk[w].on THEN @ ELSE "none"]
             q == Row(j, u)
  <2>1. IF Admits(j, q)
        THEN /\ jobs' = [jobs EXCEPT ![j] = q]
             /\ IF wrk[w].on THEN Goto(w, "discover") ELSE Become(w, Fresh("idle"))
        ELSE Become(w, Fresh("backoff")) /\ UNCHANGED jobs
    BY <1>1 DEF Start
  <2>2. wrk[w].pc \in Holding
    BY <1>0, <1>1 DEF Start
  <2>3. Stay
    BY <1>0, <2>1, <2>2, StayMoves
  <2>4. wrk[w].on /\ Grip(w, r) /\ r.status # "none" => Grip(w, u)
    BY <1>0 DEF Grip, Live, JobRows
  <2> HIDE DEF u
  <2>5. CASE Admits(j, q) /\ wrk[w].on
    BY <2>1, <2>2, <2>3, <2>4, <2>5, MildOwn, HolderKept DEF Mild
  <2>6. CASE Admits(j, q) /\ ~wrk[w].on
    <3>1. wrk'[w].pc \notin Holding
      BY <1>0, <2>1, <2>6 DEF Become, Fresh, TypeOK
    <3> QED
      BY <2>1, <2>2, <2>3, <2>6, <3>1, MildOwn, HolderKept DEF Mild
  <2>7. CASE ~Admits(j, q)
    BY SMTT(30), <2>1, <2>3, <2>7, MildRows, HolderKept DEF Mild
  <2> QED
    BY <2>5, <2>6, <2>7
<1>2. CASE Unavailable(w)
  BY <1>0, <1>2, StayMoves, MildRows, HolderKept DEF Unavailable, Mild
<1>3. CASE EngineFails(w)
  BY <1>0, <1>3, StayMoves, MildRows, HolderKept DEF EngineFails, Engine, Mild
<1>4. CASE Refused(w)
  <2>1. Stay /\ wrk[w].pc \in Holding /\ wrk'[w].pc \notin Holding
    BY <1>0, <1>4, StayMoves DEF Refused, Become, Fresh, TypeOK
  <2>2. Mild
    BY <1>4, <2>1, MildOwn DEF Refused
  <2> QED
    BY <2>1, <2>2, HolderKept DEF Mild
<1>5. CASE UpToDate(w)
  BY <1>0, <1>5, StayMoves, MildRows, HolderKept DEF UpToDate, Mild
<1>6. CASE Checkpoint(w)
  BY <1>0, <1>6, StayMoves, MildRows, HolderKept DEF Checkpoint, Mild
<1>7. CASE ItemDone(w)
  <2>1. CASE wrk[w].left > 1
    <3>1. Stay /\ wrk[w].pc \in Holding
      BY <1>0, <1>7, <2>1 DEF ItemDone, Stay, TypeOK, WorkerStates
    <3>2. Grip(w, r) /\ r.status # "none" => Grip(w, [r EXCEPT !.lease = "held"])
      BY <1>0 DEF Grip, JobRows
    <3>3. jobs' = [jobs EXCEPT ![j] = Row(j, [r EXCEPT !.lease = "held"])]
      BY <1>7, <2>1 DEF ItemDone
    <3>4. Mild
      BY <3>1, <3>2, <3>3, MildOwn
    <3> QED
      BY <3>1, <3>4, HolderKept DEF Mild
  <2>2. CASE ~(wrk[w].left > 1)
    BY <1>0, <1>7, <2>2, StayMoves, MildRows, HolderKept DEF ItemDone, Mild
  <2> QED
    BY <2>1, <2>2
<1>8. ASSUME NEW n \in 1 .. MaxSlice, NEW more \in BOOLEAN, PlanSlice(w, n, more)
      PROVE  HolderOwnsRow' /\ TerminalStep
  <2>1. Stay
    BY <1>0, <1>8 DEF PlanSlice, Stay, TypeOK, WorkerStates
  <2> QED
    BY <1>8, <2>1, MildRows, HolderKept DEF PlanSlice, Mild
<1>9. CASE Close(w)
  <2>1. wrk[w].pc \in Holding /\ (Goto(w, "followup") \/ Become(w, Fresh("idle")))
    BY <1>0, <1>9 DEF Close
  <2>2. Stay /\ wrk'[w].pc \notin Holding
    BY <1>0, <2>1, StayMoves DEF Goto, Become, Fresh, TypeOK, WorkerStates
  <2>3. jobs' = [jobs EXCEPT ![j] = Row(j, Finished(r, wrk[w].outcome))]
    BY <1>9 DEF Close
  <2>4. Mild
    BY <2>1, <2>2, <2>3, MildOwn
  <2> QED
    BY <2>2, <2>4, HolderKept DEF Mild
<1>10. CASE Followup(w)
  <2>1. Stay
    BY <1>0, <1>10, StayMoves DEF Followup
  <2>2. Mild
    BY <1>10, <2>1, MildRows DEF Followup, Insert
  <2> QED
    BY <2>1, <2>2, HolderKept DEF Mild
<1> QED
  BY <1>1, <1>2, <1>3, <1>4, <1>5, <1>6, <1>7, <1>8, <1>9, <1>10 DEF RunStep

\* So does every step of the system.
LEMMA HolderStep ==
  ~SlowItems /\ Sound /\ HolderOwnsRow /\ [Next]_vars => HolderOwnsRow' /\ TerminalStep
<1> SUFFICES ASSUME ~SlowItems, Sound, HolderOwnsRow, [Next]_vars
             PROVE  HolderOwnsRow' /\ TerminalStep
  OBVIOUS
<1>0. /\ TypeOK
      /\ \A pc \in {"idle", "backoff", "down"} : pc \notin Holding
  BY DEF Sound, Holding, Busy, Engine
<1>1. CASE Request
  BY <1>1, MildRequest, HolderKept DEF Mild
<1>2. CASE ToggleWrite
  <2>1. Stay
    BY <1>2 DEF ToggleWrite, Stay
  <2>2. toggle.job \in JobIds
    BY <1>0 DEF TypeOK, JobIds
  <2>3. \/ jobs' = jobs
        \/ /\ jobs[toggle.job].status \in Waiting
           /\ jobs' = [jobs EXCEPT ![toggle.job].status = "cancelled"]
    BY <1>2 DEF ToggleWrite
  <2>4. Mild
    BY <2>1, <2>2, <2>3, MildRows, MildWaiting
  <2> QED
    BY <2>1, <2>4, HolderKept DEF Mild
<1>3. CASE Reap
  <2>1. Stay
    BY <1>3 DEF Reap, Stay
  <2> QED
    BY <1>3, <2>1, MildRows, HolderKept DEF Reap, Mild
<1>4. CASE Time
  BY <1>4, MildTime, HolderKept DEF Mild
<1>5. ASSUME NEW w \in Workers, WorkerStep(w) PROVE HolderOwnsRow' /\ TerminalStep
  <2>1. CASE LoopStep(w)
    BY <2>1, HolderLoop
  <2>2. CASE RunStep(w)
    BY <2>2, HolderRun
  <2>3. CASE DbError(w)
    BY <1>0, <2>3, StayMoves, MildRows, HolderKept DEF DbError, Mild
  <2>4. CASE Crash(w)
    BY <1>0, <2>4, StayMoves, MildRows, HolderKept DEF Crash, Mild
  <2>5. CASE Restart(w)
    BY <1>0, <2>5, StayMoves, MildRows, HolderKept DEF Restart, Mild
  <2> QED
    BY <1>5, <2>1, <2>2, <2>3, <2>4, <2>5 DEF WorkerStep
<1>6. CASE UNCHANGED vars
  BY <1>6, StayMoves, MildRows, HolderKept DEF vars, Mild, HolderOwnsRow, TerminalStep
<1> QED
  BY <1>1, <1>2, <1>3, <1>4, <1>5, <1>6 DEF Next

\* At the start nobody holds anything.
LEMMA HolderInit == Init => HolderOwnsRow
  BY DEF Init, HolderOwnsRow, Fresh, Busy, Engine

\* As long as no item outlasts the lease, a worker owns the row of the job it
\* holds until its last write to it.
THEOREM HolderAlways == ~SlowItems => (Spec => []HolderOwnsRow)
<1> SUFFICES ASSUME ~SlowItems PROVE Spec => []HolderOwnsRow
  OBVIOUS
<1>1. Init => Sound /\ HolderOwnsRow
  BY SoundInit, HolderInit
<1>2. Sound /\ HolderOwnsRow /\ [Next]_vars => Sound' /\ HolderOwnsRow'
  BY SoundStep, HolderStep
<1> QED
  BY <1>1, <1>2, PTL DEF Spec

\* Owning rows and sharing no slot, no two workers run one account's job type.
LEMMA Exclusion == Sound /\ HolderOwnsRow => ExclusiveRun
<1> SUFFICES ASSUME Sound, HolderOwnsRow, NEW v \in Workers, NEW w \in Workers,
                    v # w, wrk[v].pc \in Engine, wrk[w].pc \in Engine,
                    jobs[wrk[v].job].acct = jobs[wrk[w].job].acct,
                    jobs[wrk[v].job].typ = jobs[wrk[w].job].typ,
                    jobs[wrk[v].job].acct # None
             PROVE  FALSE
  BY DEF ExclusiveRun
<1>1. wrk[v].job \in JobIds /\ wrk[w].job \in JobIds
  BY DEF Sound, TypeOK, WorkerStates, JobIds
<1>2. jobs[wrk[v].job].status # "none" /\ jobs[wrk[w].job].status # "none"
  BY <1>1 DEF Sound, RowsPlaced
<1>3. /\ jobs[wrk[v].job].status \in Active /\ jobs[wrk[v].job].owner = v
      /\ jobs[wrk[w].job].status \in Active /\ jobs[wrk[w].job].owner = w
  BY <1>2 DEF HolderOwnsRow, Busy, Engine, Active
<1> QED
  BY <1>1, <1>3 DEF Sound, ActiveRowsRecoverable, SlotTaken

\* As long as no item outlasts the lease, no two workers are at work for the
\* same account and job type.
THEOREM ExclusiveAlways == ~SlowItems => (Spec => []ExclusiveRun)
<1> SUFFICES ASSUME ~SlowItems PROVE Spec => []ExclusiveRun
  OBVIOUS
<1>1. Spec => []HolderOwnsRow
  BY HolderAlways
<1> QED
  BY <1>1, SoundAlways, Exclusion, PTL

\* As long as no item outlasts the lease, what a job ended as is what it stays.
THEOREM FrozenAlways == ~SlowItems => (Spec => TerminalFrozen)
<1> SUFFICES ASSUME ~SlowItems PROVE Spec => TerminalFrozen
  OBVIOUS
<1>1. Spec => []HolderOwnsRow
  BY HolderAlways
<1>2. Sound /\ HolderOwnsRow /\ [Next]_vars => [TerminalStep]_vars
  BY HolderStep
<1> QED
  BY <1>1, <1>2, SoundAlways, PTL DEF Spec, TerminalFrozen
=============================================================================
