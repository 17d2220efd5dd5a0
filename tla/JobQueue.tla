------------------------------ MODULE JobQueue ------------------------------
(***************************************************************************)
(* The scrape queue: the table scrape_jobs and the account columns it      *)
(* feeds, the workers that claim from it and run the sync engine, and the  *)
(* API handlers that write to it.  There is no message between the two     *)
(* containers: every interaction is a transaction on this table, so an     *)
(* action is one transaction, or one step of a worker between two of them. *)
(*                                                                         *)
(* Abstractions.  A timestamp is what is compared with now: scheduled_for  *)
(* becomes "due", lease_expires_at becomes none/held/expired, and          *)
(* next_eligible_at becomes "eligible"; the passing of time is an action.  *)
(* Among due jobs of one priority the claim may take any (scheduled_for    *)
(* and id only break ties).  Progress columns, messages and log rows are   *)
(* left out.                                                               *)
(***************************************************************************)
EXTENDS Naturals, FiniteSets

CONSTANTS
  Accounts,       \* ids an account row may ever have
  Workers,        \* scraper processes
  Types,          \* job_type values in use; "sync" is one of them
  Priorities,     \* priorities a caller may ask for
  MaxAttempts,    \* scrape_jobs.max_attempts (default 3)
  FlagThreshold,  \* settings scraper.max_consecutive_failures
  MaxPerCycle,    \* accounts one pass of the scheduler plans (12)
  SlowItems,      \* TRUE: one item may outlast the lease of its job
  None,           \* NULL
  MaxJobs,        \* bound: job rows ever inserted
  MaxSlice,       \* bound: items in the slice of one run
  MaxFaults,      \* bound: refusals by the source, crashes, database errors
  MaxRequests     \* bound: API calls that write

ASSUME QueueAssumption ==
  /\ "sync" \in Types
  /\ Priorities \subseteq Nat
  /\ MaxAttempts \in Nat \ {0}
  /\ FlagThreshold \in Nat \ {0}
  /\ MaxPerCycle \in Nat \ {0}
  /\ SlowItems \in BOOLEAN
  /\ None \notin Accounts \cup Workers \cup Types
  /\ MaxJobs \in Nat
  /\ MaxSlice \in Nat \ {0}
  /\ MaxFaults \in Nat
  /\ MaxRequests \in Nat

VARIABLES
  jobs,      \* scrape_jobs, by id
  lastId,    \* AUTOINCREMENT: an id is never reused
  accts,     \* the account columns the queue reads and writes
  switch,    \* settings scraper.enabled, the master switch
  wrk,       \* each worker's control state and what it read when it claimed
  toggle,    \* one scrape-toggle request between its read and its write
  faults,    \* faults so far, at most MaxFaults
  requests   \* API calls so far, at most MaxRequests

vars == <<jobs, lastId, accts, switch, wrk, toggle, faults, requests>>

JobIds  == 0 .. MaxJobs                  \* 0 names no row
Waiting == {"queued", "deferred"}
Live    == {"claimed", "running"}
Active  == {"queued"} \cup Live          \* what idx_jobs_one_active covers
Terminal == {"succeeded", "failed", "cancelled"}

JobRows ==
  [status : {"none"} \cup Waiting \cup Live \cup Terminal,
   acct : Accounts \cup {None}, typ : Types \cup {None}, prio : Nat,
   due : BOOLEAN, lease : {"none", "held", "expired"},
   owner : Workers \cup {None}, attempts : Nat,
   cancel : BOOLEAN,    \* payload.cancel_requested
   asked : BOOLEAN,     \* history: a cancel request named this row
   lost : Nat]          \* history: how often the reaper took it back

NoJob ==
  [status |-> "none", acct |-> None, typ |-> None, prio |-> 0, due |-> FALSE,
   lease |-> "none", owner |-> None, attempts |-> 0, cancel |-> FALSE,
   asked |-> FALSE, lost |-> 0]

AccountRows ==
  [state : {"new", "present", "deleted"}, enabled : BOOLEAN,
   flagged : BOOLEAN, failures : 0 .. FlagThreshold, eligible : BOOLEAN]

NoAccount(state) ==
  [state |-> state, enabled |-> FALSE, flagged |-> FALSE, failures |-> 0,
   eligible |-> FALSE]

\* The account row a scan of /archive creates: enabled, and no job yet.
Scanned == [NoAccount("present") EXCEPT !.enabled = TRUE, !.eligible = TRUE]

\* What a worker is doing.  The engine runs from "discover" to "item".
Engine == {"discover", "checkpoint", "item"}
Busy   == {"claimed", "closing", "followup"} \cup Engine
Loop   == {"idle", "claim", "flagging", "select", "planning", "backoff", "down"}

WorkerStates ==
  {r \in [pc : Busy \cup Loop, job : 0 .. MaxJobs, on : BOOLEAN, left : Nat,
          more : BOOLEAN, outcome : Terminal \cup {"none"},
          cands : SUBSET Accounts] :
     r.pc = "closing" => r.outcome \in Terminal}

Fresh(pc) ==
  [pc |-> pc, job |-> 0, on |-> FALSE, left |-> 0, more |-> FALSE,
   outcome |-> "none", cands |-> {}]

NoRequest == [acct |-> None, target |-> "off", job |-> 0]

-----------------------------------------------------------------------------
(* The schema: what an INSERT or UPDATE must satisfy.                      *)

\* Mutant of SlotTaken: an index that forgets running rows.
BugSlotTaken(a, t, j) ==
  \E k \in JobIds \ {j} : /\ jobs[k].status \in {"queued", "claimed"}
                          /\ jobs[k].acct = a /\ jobs[k].typ = t

\* idx_jobs_one_active: another row already holds the account's slot.
SlotTaken(a, t, j) ==
  \E k \in JobIds \ {j} :
    jobs[k].status \in Active /\ jobs[k].acct = a /\ jobs[k].typ = t

\* Mutant of Admits: a schema without either.
BugAdmits(j, r) == TRUE

\* The lease CHECK and the unique index, for row j about to become r.
Admits(j, r) ==
  /\ r.status \in Live => r.lease # "none"
  /\ r.status \in Active => ~SlotTaken(r.acct, r.typ, j)

\* A new row is possible: its account exists, its slot is free, and the bound
\* on rows is not reached.
CanInsert(a, t) ==
  /\ lastId < MaxJobs
  /\ accts[a].state = "present"
  /\ ~SlotTaken(a, t, 0)

Insert(a, t, p, due, cancel) ==
  /\ lastId' = lastId + 1
  /\ jobs' = [jobs EXCEPT ![lastId + 1] =
       [NoJob EXCEPT !.status = "queued", !.acct = a, !.typ = t, !.prio = p,
                     !.due = due, !.cancel = cancel]]

\* UPDATE ... WHERE id = j: nothing happens when the row is gone.
Row(j, r) == IF jobs[j].status = "none" THEN jobs[j] ELSE r

Capped(n) == IF n > FlagThreshold THEN FlagThreshold ELSE n

\* Mutant of RollUp: finish_job and the trigger both count a failure.
BugRollUp(new) ==
  [a \in Accounts |->
     LET hit(s) == {j \in JobIds : /\ jobs[j].acct = a /\ new[j].status = s
                                   /\ jobs[j].status # s}
     IN [accts[a] EXCEPT !.failures =
           IF hit("succeeded") # {} THEN 0
           ELSE Capped(@ + 2 * Cardinality(hit("failed")))]]

\* trg_job_success and trg_job_failure: status changes roll into the account.
\* The count is kept only up to the threshold it is compared with.
RollUp(new) ==
  [a \in Accounts |->
     LET hit(s) == {j \in JobIds : /\ jobs[j].acct = a /\ new[j].status = s
                                   /\ jobs[j].status # s}
     IN [accts[a] EXCEPT !.failures =
           IF hit("succeeded") # {} THEN 0
           ELSE Capped(@ + Cardinality(hit("failed")))]]

\* finish_job and defer_job look at neither the status nor the owner.
Finished(r, s) == [r EXCEPT !.status = s, !.lease = "none"]

\* Mutants of Deferred: a deferral that keeps the attempt, and one that clears
\* it with the other columns of the claim.
BugDeferredKeeps(r) ==
  [r EXCEPT !.status = "deferred", !.due = FALSE, !.owner = None,
            !.lease = "none"]
BugDeferredNull(r) ==
  [r EXCEPT !.status = "deferred", !.due = FALSE, !.owner = None,
            !.lease = "none", !.attempts = None]

Deferred(r) ==
  [r EXCEPT !.status = "deferred", !.due = FALSE, !.owner = None,
            !.lease = "none",
            !.attempts = IF @ > 0 THEN @ - 1 ELSE 0]

\* Mutants of Expired: reaping without looking at the lease, and overlooking
\* rows that were claimed but not yet running.
BugExpiredAny(j) == jobs[j].status \in Live
BugExpiredRunning(j) == jobs[j].status = "running" /\ jobs[j].lease # "held"

Expired(j) == jobs[j].status \in Live /\ jobs[j].lease # "held"

\* Mutant of Reaped: one attempt too many.
BugReaped ==
  [j \in JobIds |->
     IF Expired(j)
     THEN [jobs[j] EXCEPT
             !.status = IF jobs[j].attempts > MaxAttempts THEN "failed" ELSE "queued",
             !.owner = None, !.lease = "none", !.lost = @ + 1]
     ELSE jobs[j]]

Reaped ==
  [j \in JobIds |->
     IF Expired(j)
     THEN [jobs[j] EXCEPT
             !.status = IF jobs[j].attempts >= MaxAttempts THEN "failed" ELSE "queued",
             !.owner = None, !.lease = "none", !.lost = @ + 1]
     ELSE jobs[j]]

-----------------------------------------------------------------------------
(* The API: one transaction per handler.                                   *)

\* Requests are counted up to a bound.
Counted == requests < MaxRequests /\ requests' = requests + 1

\* create_account, with its bootstrap sync; a scan creates the row only.
CreateAccount(a, on, bootstrap) ==
  /\ accts[a].state = "new"
  /\ bootstrap => on /\ lastId < MaxJobs
  /\ accts' = [accts EXCEPT ![a] =
       [Scanned EXCEPT !.enabled = on]]
  /\ IF bootstrap
     THEN \E p \in Priorities : Insert(a, "sync", p, TRUE, FALSE)
     ELSE UNCHANGED <<jobs, lastId>>
  /\ UNCHANGED <<switch, wrk, toggle, faults>>
  /\ Counted

\* Mutant of DeleteAccount: no cascade.
BugDeleteAccount(a) ==
  /\ accts[a].state = "present"
  /\ accts' = [accts EXCEPT ![a] = NoAccount("deleted")]
  /\ UNCHANGED <<jobs, lastId, switch, wrk, toggle, faults>>
  /\ Counted

\* ON DELETE CASCADE takes the jobs with the account.
DeleteAccount(a) ==
  /\ accts[a].state = "present"
  /\ accts' = [accts EXCEPT ![a] = NoAccount("deleted")]
  /\ jobs' = [j \in JobIds |-> IF jobs[j].acct = a THEN NoJob ELSE jobs[j]]
  /\ UNCHANGED <<lastId, switch, wrk, toggle, faults>>
  /\ Counted

\* accounts.update of scrape_enabled: enabling also clears the backoff, and
\* nothing else.
Updated(r, scrape) ==
  CASE scrape = "on" ->
         [r EXCEPT !.enabled = TRUE, !.eligible = TRUE, !.failures = 0]
    [] scrape = "off" -> [r EXCEPT !.enabled = FALSE]
    [] OTHER -> r

\* ... and of status.
Marked(r, status) ==
  CASE status = "flagged" -> [r EXCEPT !.flagged = TRUE]
    [] status = "active" -> [r EXCEPT !.flagged = FALSE]
    [] OTHER -> r

\* PATCH /accounts/{id} and the batch PATCH: scraping, the status, or both.
UpdateAccount(a, scrape, status) ==
  /\ accts[a].state = "present"
  /\ accts' = [accts EXCEPT ![a] = Marked(Updated(@, scrape), status)]
  /\ UNCHANGED <<jobs, lastId, switch, wrk, toggle, faults>>
  /\ Counted

\* run_now and, account by account, enqueue_batch.  A taken slot returns the
\* job that holds it and changes nothing.
Enqueue(a, t, p, due) ==
  /\ CanInsert(a, t)
  /\ Insert(a, t, p, due, FALSE)
  /\ UNCHANGED <<accts, switch, wrk, toggle, faults>>
  /\ Counted

\* retry: a clone of any row, payload included.
Retry(j) ==
  /\ jobs[j].status # "none"
  /\ CanInsert(jobs[j].acct, jobs[j].typ)
  /\ Insert(jobs[j].acct, jobs[j].typ, jobs[j].prio, TRUE, jobs[j].cancel)
  /\ UNCHANGED <<accts, switch, wrk, toggle, faults>>
  /\ Counted

\* Mutant of CancelJob: a cancellation that does not look at the status.
BugCancelJob(j) ==
  /\ jobs[j].status # "none"
  /\ jobs' = [jobs EXCEPT ![j].status = "cancelled"]
  /\ UNCHANGED <<lastId, accts, switch, wrk, toggle, faults>>
  /\ Counted

\* cancel_job: outright while it waits, a flag while a worker has it.
CancelJob(j) ==
  /\ \/ /\ jobs[j].status \in Waiting
        /\ jobs' = [jobs EXCEPT ![j].status = "cancelled"]
     \/ /\ jobs[j].status \in Live
        /\ jobs' = [jobs EXCEPT ![j].cancel = TRUE, ![j].asked = TRUE]
  /\ UNCHANGED <<lastId, accts, switch, wrk, toggle, faults>>
  /\ Counted

\* toggle_scrape reads the card, whose active job is never a deferred one ...
ToggleRead(a, target) ==
  /\ toggle = NoRequest
  /\ accts[a].state = "present"
  /\ LET active == {j \in JobIds : jobs[j].acct = a /\ jobs[j].status \in Active}
     IN \E j \in IF active = {} THEN {0} ELSE active :
          toggle' = [acct |-> a, target |-> target,
                     job |-> IF jobs[j].status = "queued" THEN j ELSE 0]
  /\ UNCHANGED <<jobs, lastId, accts, switch, wrk, faults>>
  /\ Counted

\* ... and writes the account, then cancels the job it read, if it waits still.
ToggleWrite ==
  /\ toggle # NoRequest
  /\ LET a == toggle.acct
         j == toggle.job
     IN /\ accts' = IF accts[a].state = "present"
                    THEN [accts EXCEPT ![a] = Updated(@, toggle.target)]
                    ELSE accts
        /\ jobs' = IF toggle.target = "off" /\ jobs[j].status \in Waiting
                   THEN [jobs EXCEPT ![j].status = "cancelled"]
                   ELSE jobs
  /\ toggle' = NoRequest
  /\ UNCHANGED <<lastId, switch, wrk, faults, requests>>

\* Any GET /jobs and the backend's boot reap.
Reap ==
  /\ \E j \in JobIds : Expired(j)
  /\ jobs' = Reaped
  /\ accts' = RollUp(Reaped)
  /\ UNCHANGED <<lastId, switch, wrk, toggle, faults, requests>>

FlipSwitch ==
  /\ switch' = ~switch
  /\ UNCHANGED <<jobs, lastId, accts, wrk, toggle, faults>>
  /\ Counted

-----------------------------------------------------------------------------
(* Time.                                                                   *)

BecomesDue(j) ==
  /\ jobs[j].status \in Waiting /\ ~jobs[j].due
  /\ jobs' = [jobs EXCEPT ![j].due = TRUE]
  /\ UNCHANGED <<lastId, accts, switch, wrk, toggle, faults, requests>>

BecomesEligible(a) ==
  /\ accts[a].state = "present" /\ ~accts[a].eligible
  /\ accts' = [accts EXCEPT ![a].eligible = TRUE]
  /\ UNCHANGED <<jobs, lastId, switch, wrk, toggle, faults, requests>>

Holds(w, j) == wrk[w].pc \in Busy /\ wrk[w].job = j

\* LEASE_SECONDS is meant to exceed the longest item plus its pause; SlowItems
\* says whether it does.
LeaseExpires(j) ==
  /\ jobs[j].lease = "held"
  /\ SlowItems \/ \A w \in Workers : ~Holds(w, j)
  /\ jobs' = [jobs EXCEPT ![j].lease = "expired"]
  /\ UNCHANGED <<lastId, accts, switch, wrk, toggle, faults, requests>>

-----------------------------------------------------------------------------
(* The worker's loop.                                                      *)

Become(w, r) == wrk' = [wrk EXCEPT ![w] = r]
Goto(w, pc) == wrk' = [wrk EXCEPT ![w].pc = pc]
Closing(w, s) ==
  wrk' = [wrk EXCEPT ![w].pc = "closing", ![w].outcome = s, ![w].left = 0]

Poll(w) ==
  /\ wrk[w].pc = "idle" /\ switch
  /\ Goto(w, "claim")
  /\ UNCHANGED <<jobs, lastId, accts, switch, toggle, faults, requests>>

\* Switched off: the worker only beats (heartbeats are not modelled).
Paused(w) ==
  /\ wrk[w].pc = "idle" /\ ~switch
  /\ UNCHANGED <<jobs, lastId, accts, switch, wrk, toggle, faults, requests>>

\* _housekeeping: reap, flag, plan, each in a transaction of its own.
Housekeep(w) ==
  /\ wrk[w].pc = "idle" /\ switch
  /\ jobs' = Reaped
  /\ accts' = RollUp(Reaped)
  /\ Goto(w, "flagging")
  /\ UNCHANGED <<lastId, switch, toggle, faults, requests>>

\* auto_flag_failing_accounts
AutoFlag(w) ==
  /\ wrk[w].pc = "flagging"
  /\ accts' = [a \in Accounts |->
       IF accts[a].enabled /\ ~accts[a].flagged
          /\ accts[a].failures >= FlagThreshold
       THEN [accts[a] EXCEPT !.flagged = TRUE, !.enabled = FALSE]
       ELSE accts[a]]
  /\ Goto(w, "select")
  /\ UNCHANGED <<jobs, lastId, switch, toggle, faults, requests>>

\* Mutant of Due: any job, even a finished one, keeps an account from being due.
BugDue(a) ==
  /\ accts[a].state = "present" /\ accts[a].enabled
  /\ ~accts[a].flagged /\ accts[a].eligible
  /\ \A j \in JobIds : jobs[j].acct # a

Due(a) ==
  /\ accts[a].state = "present" /\ accts[a].enabled
  /\ ~accts[a].flagged /\ accts[a].eligible
  /\ \A j \in JobIds :
       jobs[j].acct = a => jobs[j].status \notin Active \cup {"deferred"}

\* plan_cycle: nothing outside the scheduled block; inside it, the SELECT of the
\* accounts that are due, or of MaxPerCycle of them.
OutOfBlock(w) ==
  /\ wrk[w].pc = "select"
  /\ Goto(w, "claim")
  /\ UNCHANGED <<jobs, lastId, accts, switch, toggle, faults, requests>>

SelectDue(w) ==
  /\ wrk[w].pc = "select"
  /\ \E some \in SUBSET {a \in Accounts : Due(a)} :
       /\ Cardinality(some) <= MaxPerCycle
       /\ \/ Cardinality(some) = MaxPerCycle
          \/ some = {a \in Accounts : Due(a)}
       /\ wrk' = [wrk EXCEPT ![w].pc = "planning", ![w].cands = some]
  /\ UNCHANGED <<jobs, lastId, accts, switch, toggle, faults, requests>>

\* One candidate: insert and take its slot in the calendar, or pass it over.
PlanOne(w, a) ==
  /\ wrk[w].pc = "planning" /\ a \in wrk[w].cands
  /\ IF CanInsert(a, "sync")
     THEN /\ \E p \in Priorities, due \in BOOLEAN :
               Insert(a, "sync", p, due, FALSE)
          /\ accts' = [accts EXCEPT ![a].eligible = FALSE]
     ELSE UNCHANGED <<jobs, lastId, accts>>
  /\ wrk' = [wrk EXCEPT ![w].cands = @ \ {a}]
  /\ UNCHANGED <<switch, toggle, faults, requests>>

PlanDone(w) ==
  /\ wrk[w].pc = "planning" /\ wrk[w].cands = {}
  /\ Goto(w, "claim")
  /\ UNCHANGED <<jobs, lastId, accts, switch, toggle, faults, requests>>

\* Mutants of Claimable: a claim that may take a claimed row, and one that
\* forgets deferred rows.
BugClaimableLive == {j \in JobIds : jobs[j].status \in Waiting \cup Live /\ jobs[j].due}
BugClaimableQueued == {j \in JobIds : jobs[j].status = "queued" /\ jobs[j].due}

\* The candidates of claim_next_job: due, and of the highest priority.
Claimable == {j \in JobIds : jobs[j].status \in Waiting /\ jobs[j].due}
Top == {j \in Claimable : \A k \in Claimable : jobs[k].prio <= jobs[j].prio}

ClaimNone(w) ==
  /\ wrk[w].pc = "claim" /\ Claimable = {}
  /\ Goto(w, "idle")
  /\ UNCHANGED <<jobs, lastId, accts, switch, toggle, faults, requests>>

Claimed(w, j) ==
  [jobs[j] EXCEPT !.status = "claimed", !.owner = w, !.lease = "held",
                  !.attempts = @ + 1]

\* The UPDATE can be refused by the unique index: a deferred row is not in it,
\* the claimed one is.  The loop logs the error and sleeps.
Claim(w) ==
  /\ wrk[w].pc = "claim"
  /\ \E j \in Top :
       IF Admits(j, Claimed(w, j))
       THEN /\ jobs' = [jobs EXCEPT ![j] = Claimed(w, j)]
            /\ Become(w, [Fresh("claimed") EXCEPT
                            !.job = j, !.on = accts[jobs[j].acct].enabled])
       ELSE /\ Become(w, Fresh("backoff"))
            /\ UNCHANGED jobs
  /\ UNCHANGED <<lastId, accts, switch, toggle, faults, requests>>

Resume(w) ==
  /\ wrk[w].pc = "backoff"
  /\ Become(w, Fresh("idle"))
  /\ UNCHANGED <<jobs, lastId, accts, switch, toggle, faults, requests>>

-----------------------------------------------------------------------------
(* A claimed job: _run_job around the sync engine.                         *)

\* The account was disabled when the claim read it: cancel.  Otherwise
\* mark_running, which the schema refuses if the row lost its lease meanwhile.
Start(w) ==
  /\ wrk[w].pc = "claimed"
  /\ LET j == wrk[w].job
         r == Row(j, [jobs[j] EXCEPT !.status =
                        IF wrk[w].on THEN "running" ELSE "cancelled",
                      !.lease = IF wrk[w].on THEN @ ELSE "none"])
     IN IF Admits(j, r)
        THEN /\ jobs' = [jobs EXCEPT ![j] = r]
             /\ IF wrk[w].on THEN Goto(w, "discover")
                             ELSE Become(w, Fresh("idle"))
        ELSE Become(w, Fresh("backoff")) /\ UNCHANGED jobs
  /\ UNCHANGED <<lastId, accts, switch, toggle, faults, requests>>

\* Discovery found the account gone or private: flag it, in a transaction of
\* its own; the job fails in the next one.
Unavailable(w) ==
  /\ wrk[w].pc = "discover"
  /\ LET a == jobs[wrk[w].job].acct
     IN accts' = IF a = None THEN accts
                 ELSE [accts EXCEPT ![a].flagged = TRUE, ![a].enabled = FALSE]
  /\ Closing(w, "failed")
  /\ UNCHANGED <<jobs, lastId, switch, toggle, faults, requests>>

\* No links, no adapter left, a full disk, or any exception in the engine.
EngineFails(w) ==
  /\ wrk[w].pc \in Engine
  /\ Closing(w, "failed")
  /\ UNCHANGED <<jobs, lastId, accts, switch, toggle, faults, requests>>

\* A rate limit or a bot wall: defer this very row; the run is over.
Refused(w) ==
  /\ wrk[w].pc \in {"discover", "item"}
  /\ faults < MaxFaults
  /\ LET j == wrk[w].job
     IN jobs' = [jobs EXCEPT ![j] = Row(j, Deferred(jobs[j]))]
  /\ Become(w, Fresh("idle"))
  /\ faults' = faults + 1
  /\ UNCHANGED <<lastId, accts, switch, toggle, requests>>

\* Nothing pending: succeeded, without a look at the cancel flag.
UpToDate(w) ==
  /\ wrk[w].pc = "discover"
  /\ Closing(w, "succeeded")
  /\ UNCHANGED <<jobs, lastId, accts, switch, toggle, faults, requests>>

\* plan_run gave a budget: n items now, and perhaps more for a later run.
PlanSlice(w, n, more) ==
  /\ wrk[w].pc = "discover"
  /\ wrk' = [wrk EXCEPT ![w].pc = "checkpoint", ![w].left = n,
                        ![w].more = more]
  /\ UNCHANGED <<jobs, lastId, accts, switch, toggle, faults, requests>>

\* Before each item: is_cancel_requested.
Checkpoint(w) ==
  /\ wrk[w].pc = "checkpoint"
  /\ IF jobs[wrk[w].job].cancel THEN Closing(w, "cancelled")
                                ELSE Goto(w, "item")
  /\ UNCHANGED <<jobs, lastId, accts, switch, toggle, faults, requests>>

\* One item done, or failed on its own.  The lease is renewed, whoever has the
\* row, only if another item follows.
ItemDone(w) ==
  /\ wrk[w].pc = "item"
  /\ IF wrk[w].left > 1
     THEN /\ LET j == wrk[w].job
             IN jobs' = [jobs EXCEPT ![j] =
                           Row(j, [jobs[j] EXCEPT !.lease = "held"])]
          /\ wrk' = [wrk EXCEPT ![w].pc = "checkpoint", ![w].left = @ - 1]
     ELSE Closing(w, "succeeded") /\ UNCHANGED jobs
  /\ UNCHANGED <<lastId, accts, switch, toggle, faults, requests>>

\* finish_job with the result, and the triggers.
Close(w) ==
  /\ wrk[w].pc = "closing"
  /\ LET j == wrk[w].job
         s == wrk[w].outcome
         new == [jobs EXCEPT ![j] = Row(j, Finished(jobs[j], s))]
     IN /\ jobs' = new
        /\ accts' = RollUp(new)
        /\ IF s = "succeeded" /\ wrk[w].more THEN Goto(w, "followup")
                                             ELSE Become(w, Fresh("idle"))
  /\ UNCHANGED <<lastId, switch, toggle, faults, requests>>

\* The next slice of a backfill, always a "sync"; None if it cannot be queued.
Followup(w) ==
  /\ wrk[w].pc = "followup"
  /\ LET r == jobs[wrk[w].job]
     IN IF r.status # "none" /\ CanInsert(r.acct, "sync")
        THEN Insert(r.acct, "sync", r.prio, FALSE, FALSE)
        ELSE UNCHANGED <<jobs, lastId>>
  /\ Become(w, Fresh("idle"))
  /\ UNCHANGED <<accts, switch, toggle, faults, requests>>

\* sqlite3.Error outside the engine (a locked database): the loop sleeps and
\* goes on to another job, this one keeps its lease.
DbError(w) ==
  /\ wrk[w].pc \in Busy \ Engine
  /\ faults < MaxFaults
  /\ faults' = faults + 1
  /\ Become(w, Fresh("backoff"))
  /\ UNCHANGED <<jobs, lastId, accts, switch, toggle, requests>>

\* The container is killed, and comes back: start() reaps before it loops.
Crash(w) ==
  /\ wrk[w].pc # "down"
  /\ faults < MaxFaults
  /\ faults' = faults + 1
  /\ Become(w, Fresh("down"))
  /\ UNCHANGED <<jobs, lastId, accts, switch, toggle, requests>>

Restart(w) ==
  /\ wrk[w].pc = "down"
  /\ jobs' = Reaped
  /\ accts' = RollUp(Reaped)
  /\ Become(w, Fresh("idle"))
  /\ UNCHANGED <<lastId, switch, toggle, faults, requests>>

-----------------------------------------------------------------------------
Init ==
  /\ jobs = [j \in JobIds |-> NoJob]
  /\ lastId = 0
  /\ accts \in [Accounts -> {NoAccount("new"), Scanned}]
  /\ switch = TRUE
  /\ wrk = [w \in Workers |-> Fresh("idle")]
  /\ toggle = NoRequest
  /\ faults = 0
  /\ requests = 0

Request ==
  \/ \E a \in Accounts :
       \/ \E on, bootstrap \in BOOLEAN : CreateAccount(a, on, bootstrap)
       \/ DeleteAccount(a)
       \/ \E scrape \in {"on", "off", "keep"},
             status \in {"flagged", "active", "keep"} :
            UpdateAccount(a, scrape, status)
       \/ \E t \in Types, p \in Priorities, due \in BOOLEAN :
            Enqueue(a, t, p, due)
       \/ \E target \in {"on", "off"} : ToggleRead(a, target)
  \/ \E j \in JobIds : Retry(j) \/ CancelJob(j)
  \/ FlipSwitch

Time ==
  \/ \E j \in JobIds : BecomesDue(j) \/ LeaseExpires(j)
  \/ \E a \in Accounts : BecomesEligible(a)

LoopStep(w) ==
  \/ Paused(w) \/ Poll(w) \/ Housekeep(w) \/ AutoFlag(w)
  \/ OutOfBlock(w) \/ SelectDue(w)
  \/ \E a \in Accounts : PlanOne(w, a)
  \/ PlanDone(w) \/ ClaimNone(w) \/ Claim(w) \/ Resume(w)

RunStep(w) ==
  \/ Start(w) \/ Unavailable(w) \/ EngineFails(w) \/ Refused(w)
  \/ UpToDate(w) \/ Checkpoint(w) \/ ItemDone(w)
  \/ \E n \in 1 .. MaxSlice, more \in BOOLEAN : PlanSlice(w, n, more)
  \/ Close(w) \/ Followup(w)

WorkerStep(w) ==
  LoopStep(w) \/ RunStep(w) \/ DbError(w) \/ Crash(w) \/ Restart(w)

Next ==
  \/ Request \/ ToggleWrite \/ Reap \/ Time
  \/ \E w \in Workers : WorkerStep(w)

Spec == Init /\ [][Next]_vars

\* The containers run and come back (restart: unless-stopped), the loop turns,
\* its housekeeping is due again and again, the scheduled block comes every
\* day, and time passes.  Nothing obliges a user, a source or a fault.
Fairness ==
  /\ \A w \in Workers :
       /\ WF_vars(LoopStep(w) \/ RunStep(w) \/ Restart(w))
       /\ SF_vars(Housekeep(w))
       /\ SF_vars(SelectDue(w))
  /\ \A j \in JobIds :
       WF_vars(BecomesDue(j)) /\ WF_vars(LeaseExpires(j))
  /\ \A a \in Accounts : WF_vars(BecomesEligible(a))

FairSpec == Spec /\ Fairness

-----------------------------------------------------------------------------
(* Safety.                                                                 *)

\* Every variable has its type.
TypeOK ==
  /\ jobs \in [JobIds -> JobRows]
  /\ lastId \in 0 .. MaxJobs
  /\ accts \in [Accounts -> AccountRows]
  /\ switch \in BOOLEAN
  /\ wrk \in [Workers -> WorkerStates]
  /\ toggle \in [acct : Accounts \cup {None}, target : {"on", "off"},
                 job : 0 .. MaxJobs]
  /\ faults \in Nat
  /\ requests \in Nat

\* Every row belongs to an account that is there, no id beyond the last one is
\* in use, and no worker holds an id that will be given to another row: what
\* ON DELETE CASCADE and AUTOINCREMENT are for (0001_init.sql:243-249).
RowsPlaced ==
  /\ jobs[0].status = "none"
  /\ \A j \in JobIds :
       /\ jobs[j].status = "none" <=> jobs[j].acct = None
       /\ jobs[j].status # "none" =>
            /\ j <= lastId
            /\ jobs[j].acct \in Accounts /\ jobs[j].typ \in Types
            /\ accts[jobs[j].acct].state = "present"
  /\ \A w \in Workers : wrk[w].job <= lastId

\* A live row always carries a lease the reaper can compare, and two active
\* rows never share an account's slot, whatever order claims, reaps, deferrals
\* and retries come in (0001_init.sql:288-309); with SlowItems, also when a
\* worker that lost its lease starts, renews, defers or finishes the row.
ActiveRowsRecoverable ==
  \A j \in JobIds :
    /\ jobs[j].status \in Live => jobs[j].lease # "none"
    /\ jobs[j].status \in Active => ~SlotTaken(jobs[j].acct, jobs[j].typ, j)

\* No job is claimed more than max_attempts times net of deferrals: a row that
\* can still be claimed always has an attempt left (claim_next_job, defer_job,
\* reaper); with SlowItems, also after a worker that lost its lease wrote to it.
AttemptsBudget ==
  \A j \in JobIds :
    /\ jobs[j].attempts <= MaxAttempts
    /\ jobs[j].status \in Waiting => jobs[j].attempts < MaxAttempts

\* A worker between its claim and its last write still owns the row: nobody
\* reaped it, reclaimed it or finished it (as long as leases outlast items).
HolderOwnsRow ==
  \A w \in Workers :
    LET r == jobs[wrk[w].job]
    IN wrk[w].pc \in (Busy \ {"followup"}) =>
         \/ r.status = "none"
         \/ r.status \in Live /\ r.owner = w /\ r.lease = "held"

\* Two workers are never at work for the same account and job type.
ExclusiveRun ==
  \A v, w \in Workers :
    LET r == jobs[wrk[v].job]
        q == jobs[wrk[w].job]
    IN v # w /\ wrk[v].pc \in Engine /\ wrk[w].pc \in Engine
         => ~(r.acct = q.acct /\ r.typ = q.typ /\ r.acct # None)

\* Deferrals cost no attempt: what a waiting row has used up is exactly the
\* number of times the reaper took it from a worker (defer_job, queue.py:183).
AttemptsAreLosses ==
  \A j \in JobIds :
    /\ jobs[j].status \in Waiting => jobs[j].attempts = jobs[j].lost
    /\ jobs[j].status \in Live => jobs[j].attempts = jobs[j].lost + 1

\* The failure count that flags an account never exceeds the jobs of that
\* account that did fail, as far as it is kept (up to FlagThreshold, which must
\* be at least 2 to tell): no outcome is rolled in twice (0002_triggers.sql).
FailuresAreJobs ==
  \A a \in Accounts :
    accts[a].failures <=
      Cardinality({j \in JobIds : jobs[j].acct = a /\ jobs[j].status = "failed"})

\* A job ends as cancelled by its engine only if somebody asked for it.
CancelledOnlyIfAsked ==
  \A w \in Workers :
    wrk[w].pc = "closing" /\ wrk[w].outcome = "cancelled"
    /\ jobs[wrk[w].job].status # "none"
      => jobs[wrk[w].job].asked

\* A terminal row stays as it is until its account is deleted.
TerminalStep ==
  \A j \in JobIds :
    jobs[j].status \in Terminal =>
      jobs'[j].status \in {jobs[j].status, "none"}
TerminalFrozen == [][TerminalStep]_vars

\* The queue implements JobLedger: held means claimed or running, and a worker
\* is at a job from its claim to its last write (as long as leases outlast
\* items, HolderOwnsRow).
Ledger == INSTANCE JobLedger WITH
  Nobody <- None,
  NoneHeld <- 0,
  state <- [j \in JobIds |->
              IF jobs[j].status \in Waiting THEN "waiting"
              ELSE IF jobs[j].status \in Live THEN "held"
              ELSE IF jobs[j].status \in Terminal THEN "done"
              ELSE IF j \in 1 .. lastId THEN "dropped" ELSE "unposted"],
  holder <- [j \in JobIds |->
               IF jobs[j].status \in Live THEN jobs[j].owner ELSE None],
  at <- [w \in Workers |->
           IF wrk[w].pc \in Busy \ {"followup"} THEN wrk[w].job ELSE 0]
ImplementsLedger == Ledger!Spec

-----------------------------------------------------------------------------
(* Liveness.                                                               *)

\* A deferred row whose slot another row has taken meanwhile: claiming it is
\* refused by the index for as long as the other row is active.
Wedged ==
  \E j \in JobIds : /\ jobs[j].status = "deferred"
                    /\ SlotTaken(jobs[j].acct, jobs[j].typ, j)

Pending(j) == jobs[j].status \in Waiting /\ jobs[j].due

\* While the scraper is switched on and no deferred row is wedged, every due
\* job is claimed (or cancelled) in the end, whatever its priority.
DueJobsMove ==
  <>[](switch /\ ~Wedged) => \A j \in JobIds : [](Pending(j) => <>~Pending(j))

\* Every due job is claimed in the end while the scraper is switched on: what
\* queue.py promises without the exception for wedged rows.
QueueDrains ==
  <>[]switch => \A j \in JobIds : [](Pending(j) => <>~Pending(j))

\* No crash leaves a job claimed or running for ever: its lease runs out and
\* somebody reaps it (queue.py:8-11).
LiveRecovered ==
  <>[]switch =>
    \A j \in JobIds : [](jobs[j].status \in Live => <>(jobs[j].status \notin Live))

\* Nothing stands between an account and its next sync.
Idle(a) ==
  /\ accts[a].enabled /\ accts[a].eligible
  /\ \A j \in JobIds : jobs[j].acct = a => jobs[j].status \in Terminal

\* An account in good standing that is enabled, eligible and without a pending
\* job does not stay so: the scheduler plans it (scheduler.py:52-78).
DueAccountsPlanned ==
  \A a \in Accounts :
    ~<>[](switch /\ lastId < MaxJobs /\ Idle(a) /\ ~accts[a].flagged)

\* An account that was flagged and switched off and is then enabled again for
\* good does not stay without a job either: what accounts.py:214-215 says
\* re-enabling does.
ReenabledAccountsPlanned ==
  \A a \in Accounts :
    [](accts[a].flagged /\ ~accts[a].enabled =>
         ~<>[](switch /\ lastId < MaxJobs /\ Idle(a)))
=============================================================================
