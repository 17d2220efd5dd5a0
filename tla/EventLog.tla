------------------------------ MODULE EventLog ------------------------------
(***************************************************************************)
(* event_log and its writers.  An event like one of the last half hour     *)
(* adds to that row's occurrences instead of a row of its own.  The        *)
(* backend looks and writes on its caller's connection, inside the         *)
(* caller's BEGIN IMMEDIATE; the scraper, and the reap at the backend's    *)
(* start, are in autocommit mode, so other writers come between the look   *)
(* and the write.                                                          *)
(*                                                                         *)
(* Abstractions.  One account.  A kind is a fingerprint with its level:    *)
(* "error" stands for those the badge counts, "debug" for those the trim   *)
(* counts.  The time of a row is its age: within the window, older, or     *)
(* older than keep_days.  Of several rows within the window the one a      *)
(* writer finds may be any (the code: the latest).  An event logged in a   *)
(* transaction that is rolled back leaves nothing.                         *)
(***************************************************************************)
EXTENDS Naturals, FiniteSets

CONSTANTS
  Writers,     \* processes that log in autocommit mode
  KeepDebug,   \* keep_per_account (500)
  MaxRows,     \* bound: rows ever inserted
  MaxEvents,   \* bound: events ever logged
  MaxFaults    \* bound: statements refused, writers killed

Kinds == {"error", "debug"}
RowIds == 1 .. MaxRows

ASSUME EventLogAssumption ==
  /\ IsFiniteSet(Writers)
  /\ MaxRows \in Nat /\ MaxEvents \in Nat /\ MaxFaults \in Nat /\ KeepDebug \in Nat

VARIABLES
  rows,     \* event_log, by id
  last,     \* AUTOINCREMENT
  wr,       \* each writer between its look and its write
  events,   \* events begun, at most MaxEvents
  faults,   \* at most MaxFaults
  written,  \* history: events written, by kind
  pruned,   \* history: occurrences in rows that were pruned, by kind
  due,      \* history: errors looked up and written since the badge was cleared
  since     \* history: errors written since then, whenever looked up

vars == <<rows, last, wr, events, faults, written, pruned, due, since>>

Ages == {"window", "older", "expired"}

Rows == [there : BOOLEAN, kind : Kinds, open : BOOLEAN, age : Ages,
         n : 0 .. MaxEvents]                   \* occurrences

NoRow == [there |-> FALSE, kind |-> "error", open |-> FALSE, age |-> "expired",
          n |-> 0]

\* Mutant of NewRow: the level is left to its default.
BugNewRow(k) == [there |-> TRUE, kind |-> "info", open |-> TRUE, age |-> "window", n |-> 1]

NewRow(k) == [there |-> TRUE, kind |-> k, open |-> TRUE, age |-> "window", n |-> 1]

\* What a writer holds: its event, the row it found (0: none) with its count,
\* and whether the badge was cleared since.
Idle == [busy |-> FALSE, kind |-> "error", row |-> 0, n |-> 0, cleared |-> FALSE]

-----------------------------------------------------------------------------
(* log_event.                                                              *)

\* Mutant of Recent: closed rows are found, too.
BugRecent(k) ==
  {i \in RowIds : rows[i].there /\ rows[i].kind = k /\ rows[i].age = "window"}

\* The open rows of the kind within the window.
Recent(k) ==
  {i \in RowIds : /\ rows[i].there /\ rows[i].kind = k
                  /\ rows[i].open /\ rows[i].age = "window"}

\* Mutant of Bumped: the count is written back as it was read.
BugBumped(i, n) == [rows[i] EXCEPT !.n = n + 1, !.age = "window"]

\* SET occurrences = occurrences + 1, ts = now; n is the count that was read.
Bumped(i, n) == [rows[i] EXCEPT !.n = @ + 1, !.age = "window"]

\* UPDATE ... WHERE id = i, which does nothing when the row is gone, or INSERT.
Put(i, k, n) ==
  IF i # 0
  THEN /\ rows' = IF rows[i].there THEN [rows EXCEPT ![i] = Bumped(i, n)] ELSE rows
       /\ UNCHANGED last
  ELSE /\ last < MaxRows
       /\ rows' = [rows EXCEPT ![last + 1] = NewRow(k)]
       /\ last' = last + 1

Found(k, i) == IF Recent(k) = {} THEN i = 0 ELSE i \in Recent(k)

\* Mutant of Log: the window is not looked at.
BugLog(k) ==
  /\ events < MaxEvents /\ events' = events + 1
  /\ Put(0, k, 0)
  /\ written' = [written EXCEPT ![k] = @ + 1]
  /\ due' = IF k = "error" THEN due + 1 ELSE due
  /\ since' = IF k = "error" THEN since + 1 ELSE since
  /\ UNCHANGED <<wr, faults, pruned>>

\* The backend, inside its caller's transaction.
Log(k) ==
  /\ events < MaxEvents /\ events' = events + 1
  /\ \E i \in 0 .. MaxRows :
       Found(k, i) /\ Put(i, k, IF i = 0 THEN 0 ELSE rows[i].n)
  /\ written' = [written EXCEPT ![k] = @ + 1]
  /\ due' = IF k = "error" THEN due + 1 ELSE due
  /\ since' = IF k = "error" THEN since + 1 ELSE since
  /\ UNCHANGED <<wr, faults, pruned>>

\* The scraper: the SELECT, and then the UPDATE or INSERT it leads to.
Look(w, k) ==
  /\ ~wr[w].busy
  /\ events < MaxEvents /\ events' = events + 1
  /\ \E i \in 0 .. MaxRows :
       /\ Found(k, i)
       /\ wr' = [wr EXCEPT ![w] = [busy |-> TRUE, kind |-> k, row |-> i,
                                   n |-> IF i = 0 THEN 0 ELSE rows[i].n,
                                   cleared |-> FALSE]]
  /\ UNCHANGED <<rows, last, faults, written, pruned, due, since>>

Write(w) ==
  /\ wr[w].busy
  /\ Put(wr[w].row, wr[w].kind, wr[w].n)
  /\ written' = [written EXCEPT ![wr[w].kind] = @ + 1]
  /\ due' = IF wr[w].kind = "error" /\ ~wr[w].cleared THEN due + 1 ELSE due
  /\ since' = IF wr[w].kind = "error" THEN since + 1 ELSE since
  /\ wr' = [wr EXCEPT ![w] = Idle]
  /\ UNCHANGED <<events, faults, pruned>>

\* A statement is refused (log_event swallows it), or the process dies.
Lose(w) ==
  /\ wr[w].busy
  /\ faults < MaxFaults /\ faults' = faults + 1
  /\ wr' = [wr EXCEPT ![w] = Idle]
  /\ UNCHANGED <<rows, last, events, written, pruned, due, since>>

-----------------------------------------------------------------------------
(* The badge, the trim and time.                                           *)

\* trg_job_success, or the endpoint that dismisses an account's errors.
Resolve ==
  /\ rows' = [i \in RowIds |->
       IF rows[i].there /\ rows[i].kind = "error"
       THEN [rows[i] EXCEPT !.open = FALSE] ELSE rows[i]]
  /\ due' = 0 /\ since' = 0
  /\ wr' = [w \in Writers |-> IF wr[w].busy THEN [wr[w] EXCEPT !.cleared = TRUE]
                              ELSE wr[w]]
  /\ UNCHANGED <<last, events, faults, written, pruned>>

\* Mutant of Prunable: everything that has expired.
BugPrunable == {i \in RowIds : rows[i].there /\ rows[i].age = "expired"}

Prunable == {i \in RowIds : /\ rows[i].there /\ ~rows[i].open
                            /\ rows[i].age = "expired"}

DebugRows == {i \in RowIds : rows[i].there /\ rows[i].kind = "debug"}

Younger(i, j) ==
  \/ rows[i].age = "window" /\ rows[j].age # "window"
  \/ rows[i].age = "older" /\ rows[j].age = "expired"

\* Two DELETEs in one transaction: expired rows that are resolved, and all debug
\* rows but the newest.
Prune ==
  /\ \E T \in SUBSET (DebugRows \ Prunable) :
       LET rest == DebugRows \ Prunable
           gone == Prunable \cup T
           count(k) == {e \in gone \X (1 .. MaxEvents) :
                          rows[e[1]].kind = k /\ e[2] <= rows[e[1]].n}
       IN /\ Cardinality(rest \ T) =
               IF Cardinality(rest) < KeepDebug THEN Cardinality(rest) ELSE KeepDebug
          /\ \A i \in T, j \in rest \ T : ~Younger(i, j)
          /\ gone # {}
          /\ rows' = [i \in RowIds |-> IF i \in gone THEN NoRow ELSE rows[i]]
          /\ pruned' = [k \in Kinds |-> pruned[k] + Cardinality(count(k))]
  /\ UNCHANGED <<last, wr, events, faults, written, due, since>>

\* A row leaves the window, and then the days it is kept; no writer takes as
\* long as that for one statement.
Age(i) ==
  /\ rows[i].there /\ rows[i].age # "expired"
  /\ rows[i].age = "older" => \A w \in Writers : wr[w].busy => wr[w].row # i
  /\ rows' = [rows EXCEPT ![i].age = IF @ = "window" THEN "older" ELSE "expired"]
  /\ UNCHANGED <<last, wr, events, faults, written, pruned, due, since>>

-----------------------------------------------------------------------------
Init ==
  /\ rows = [i \in RowIds |-> NoRow]
  /\ last = 0
  /\ wr = [w \in Writers |-> Idle]
  /\ events = 0 /\ faults = 0 /\ due = 0 /\ since = 0
  /\ written = [k \in Kinds |-> 0]
  /\ pruned = [k \in Kinds |-> 0]

Next ==
  \/ \E k \in Kinds : Log(k)
  \/ \E w \in Writers : (\E k \in Kinds : Look(w, k)) \/ Write(w) \/ Lose(w)
  \/ Resolve \/ Prune
  \/ \E i \in RowIds : Age(i)

Spec == Init /\ [][Next]_vars

-----------------------------------------------------------------------------
(* Properties.                                                             *)

\* Every variable has its type.
TypeOK ==
  /\ rows \in [RowIds -> Rows]
  /\ last \in 0 .. MaxRows
  /\ wr \in [Writers -> [busy : BOOLEAN, kind : Kinds, row : 0 .. MaxRows,
                         n : 0 .. MaxEvents, cleared : BOOLEAN]]
  /\ events \in 0 .. MaxEvents /\ faults \in 0 .. MaxFaults
  /\ written \in [Kinds -> 0 .. MaxEvents]
  /\ pruned \in [Kinds -> 0 .. MaxEvents]
  /\ due \in 0 .. MaxEvents /\ since \in 0 .. MaxEvents

\* The occurrences on record, with those that were pruned, are all the errors
\* that were written, and no more than the events of any kind: two writers that
\* find the same row both count (the "x47" of logs.py:8-10), and a row found is
\* not trimmed away before the write unless it is a debug row.
Occurrences(k) ==
  {e \in RowIds \X (1 .. MaxEvents) :
     rows[e[1]].there /\ rows[e[1]].kind = k /\ e[2] <= rows[e[1]].n}
EventsCounted ==
  /\ \A k \in Kinds : Cardinality(Occurrences(k)) + pruned[k] <= written[k]
  /\ Cardinality(Occurrences("error")) + pruned["error"] = written["error"]

\* A storm makes no more rows within the window than there are writers that can
\* look at the same moment, and one: what the split look costs (logs.py:61-72).
StormIsBounded ==
  \A k \in Kinds : Cardinality(Recent(k)) <= Cardinality(Writers) + 1

\* An error that was logged after the badge was last cleared is on the badge:
\* there is an open row, however many writers, ages and prunes came between
\* (logs.py:114-120).
ErrorsOnBadge ==
  due > 0 => \E i \in RowIds : rows[i].there /\ rows[i].kind = "error" /\ rows[i].open

\* Of the errors written since the badge was last cleared it shows all but what
\* writers had looked up before, one each: those may go to a row that is
\* resolved.  No trim hides another (logs.py:61-84, routers/logs.py:122).
OnBadge == {e \in Occurrences("error") : rows[e[1]].open}
BadgeMissesFew == since <= Cardinality(OnBadge) + Cardinality(Writers)
=============================================================================
