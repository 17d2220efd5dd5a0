----------------------------- MODULE JobLedger ------------------------------
(***************************************************************************)
(* What the queue promises, without leases, statuses or the schema: a job  *)
(* is posted once, waits, is held by at most one worker at a time, comes   *)
(* back only from the worker that holds it or from one that has left it,   *)
(* and once done stays done.                                               *)
(***************************************************************************)
CONSTANTS Workers, JobIds, Nobody, NoneHeld

VARIABLES
  state,   \* of each job
  holder,  \* of each job that is held
  at       \* of each worker: the job it is working on, or NoneHeld

vars == <<state, holder, at>>

States == {"unposted", "waiting", "held", "done", "dropped"}

Init ==
  /\ state = [j \in JobIds |-> "unposted"]
  /\ holder = [j \in JobIds |-> Nobody]
  /\ at = [w \in Workers |-> NoneHeld]

Post(j) ==
  /\ state[j] = "unposted"
  /\ state' = [state EXCEPT ![j] = "waiting"]
  /\ UNCHANGED <<holder, at>>

Take(w, j) ==
  /\ state[j] = "waiting" /\ at[w] = NoneHeld
  /\ state' = [state EXCEPT ![j] = "held"]
  /\ holder' = [holder EXCEPT ![j] = w]
  /\ at' = [at EXCEPT ![w] = j]

\* The worker hands its job back, done or to wait again.
Settle(w, j) ==
  /\ at[w] = j /\ state[j] = "held" /\ holder[j] = w
  /\ \E s \in {"waiting", "done"} : state' = [state EXCEPT ![j] = s]
  /\ holder' = [holder EXCEPT ![j] = Nobody]
  /\ at' = [at EXCEPT ![w] = NoneHeld]

\* The worker stops working; the job, if it is still there, remains held.
Leave(w) ==
  /\ at[w] # NoneHeld
  /\ at' = [at EXCEPT ![w] = NoneHeld]
  /\ UNCHANGED <<state, holder>>

\* Every job that is no longer as it was has moved this way, and is nobody's.
Moved(from, to) ==
  /\ state' \in [JobIds -> States]
  /\ state' # state
  /\ \A j \in JobIds :
       state'[j] # state[j] => state[j] \in from /\ state'[j] \in to
  /\ holder' = [j \in JobIds |-> IF state'[j] = state[j] THEN holder[j] ELSE Nobody]
  /\ UNCHANGED at

\* Held jobs nobody is working on come back, perhaps together.
Reclaim ==
  /\ Moved({"held"}, {"waiting", "done"})
  /\ \A j \in JobIds : state'[j] # state[j] => \A w \in Workers : at[w] # j

Withdraw(j) ==
  /\ state[j] = "waiting"
  /\ state' = [state EXCEPT ![j] = "done"]
  /\ UNCHANGED <<holder, at>>

\* The jobs of a deleted account; a worker may not have noticed yet.
Drop == Moved({"waiting", "held", "done"}, {"dropped"})

Next ==
  \/ \E j \in JobIds : Post(j) \/ Withdraw(j)
  \/ \E w \in Workers : Leave(w) \/ \E j \in JobIds : Take(w, j) \/ Settle(w, j)
  \/ Reclaim \/ Drop

Spec == Init /\ [][Next]_vars
=============================================================================
