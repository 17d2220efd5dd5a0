------------------------------- MODULE Pacing -------------------------------
(***************************************************************************)
(* plan_run of scraper/worker/pacing.py: how many items a run may fetch,   *)
(* how long it waits between them and when the rest is queued; and the     *)
(* window of hours in which the scheduler plans.  Delays are milliseconds, *)
(* cut to integers as the code cuts them; what the code draws at random is *)
(* the interval it draws from.                                             *)
(***************************************************************************)
EXTENDS Integers

CONSTANTS
  MinDelay, MaxDelay,   \* settings scraper.min_delay_ms, max_delay_ms
  ItemsPerRun,          \* settings scraper.items_per_run
  PaceThreshold,        \* settings scraper.backlog_pace_threshold
  RampRuns              \* settings scraper.new_account_ramp_runs

ASSUME PacingAssumption ==
  /\ MinDelay \in Nat /\ MaxDelay \in Nat
  /\ ItemsPerRun \in Int /\ PaceThreshold \in Int /\ RampRuns \in Int

AtMost(m, n)  == IF n < m THEN n ELSE m
AtLeast(m, n) == IF n < m THEN m ELSE n
CeilDiv(n, d) == (n + d - 1) \div d

Ceiling == AtLeast(1, ItemsPerRun)
Ramp    == AtLeast(1, RampRuns)
Low     == AtMost(MinDelay, MaxDelay)
High    == AtLeast(MinDelay, MaxDelay)
Saturation == 200       \* BACKLOG_SATURATION

\* How many items the run takes from the work list.
Budget(backlog, new) ==
  IF backlog <= 0 THEN 0
  ELSE IF new THEN AtMost(Ceiling, AtLeast(1, CeilDiv(backlog, Ramp)))
  ELSE AtMost(Ceiling, backlog)

Paced(backlog, new) == new \/ backlog >= AtLeast(1, PaceThreshold)

\* How far between the two delays the run sits, in 1/80000: a fifth when it is
\* not paced, from 35 % to 100 % by its backlog when it is, and a quarter less
\* for a favourite.
Weight(backlog, new, favourite) ==
  IF Paced(backlog, new)
  THEN IF favourite THEN 21000 + 195 * AtMost(Saturation, backlog)
       ELSE 28000 + 260 * AtMost(Saturation, backlog)
  ELSE IF favourite THEN 12000 ELSE 16000

ScaledDelay(backlog, new, favourite) ==
  Low + ((High - Low) * Weight(backlog, new, favourite)) \div 80000

\* 1.5^n in sixteenths.
Backoff == [n \in 0 .. 4 |-> <<16, 24, 36, 54, 81>>[n + 1]]

\* Mutant of Delay: the cap is the configured maximum.
BugDelay(backlog, new, favourite, failures) ==
  LET d == ScaledDelay(backlog, new, favourite)
  IN IF failures = 0 THEN d
     ELSE AtMost(MaxDelay, (d * Backoff[AtMost(4, failures)]) \div 32)

\* The pause between two items, before jitter.
Delay(backlog, new, favourite, failures) ==
  LET d == ScaledDelay(backlog, new, favourite)
  IN IF failures = 0 THEN d
     ELSE AtMost(4 * MaxDelay, (d * Backoff[AtMost(4, failures)]) \div 16)

\* In how many runs the backlog is expected to be done.
Spread(backlog, new) == AtLeast(1, CeilDiv(backlog, Budget(backlog, new)))

\* The longest pause jittered_delay may draw: ratio is in percent, and one pause
\* in twelve is up to eight times as long.
LongestPause(delay, ratio) ==
  AtLeast(250, (8 * delay * (100 + AtLeast(0, AtMost(90, ratio)))) \div 100)

\* _requeue_delay, from 75 % to 135 % of this many milliseconds.
RequeueBase(remaining, delay) ==
  AtLeast(300000, AtMost(14400000, (remaining * delay) \div 4))

\* in_scheduled_block: hours from start up to, but not at, end; over midnight
\* when end is the smaller; all of them when they are equal.
InBlock(start, end, hour) ==
  IF start = end THEN TRUE
  ELSE IF start < end THEN start <= hour /\ hour < end
  ELSE hour >= start \/ hour < end
-----------------------------------------------------------------------------
(* Parts of properties: what plan_run decides at one backlog, for an account *)
(* whose first sync is still to come (new) or not.                         *)

\* The rule of pacing.py:3-6: a bigger backlog is never fetched faster, also
\* where pacing sets in, nor its next slice queued sooner; failures only back off
\* further; a favourite is never slower; and without failures the delay is between
\* the configured two.
SlowerWithMore(backlog, new) ==
  \A favourite \in BOOLEAN, f \in 0 .. 5 :
    LET d == Delay(backlog, new, favourite, f)
        more == Delay(backlog + 1, new, favourite, f)
    IN /\ d <= more
       /\ RequeueBase(backlog - Budget(backlog, new), d)
            <= RequeueBase(backlog + 1 - Budget(backlog + 1, new), more)
       /\ d <= Delay(backlog, new, favourite, f + 1)
       /\ Delay(backlog, new, TRUE, f) <= d
       /\ f = 0 => Low <= d /\ d <= High

\* No pause comes near a lease of this many milliseconds, which is renewed
\* before it (sync.py:306-308), however the source has failed.
PausesFitLease(backlog, new, ratio, lease) ==
  \A f \in 0 .. 5 : LongestPause(Delay(backlog, new, FALSE, f), ratio) < lease

\* Runs until a backlog of at most bound is empty, if each does its whole slice
\* and none but the first is the account's first.
Runs(bound) ==
  LET after[b \in 0 .. bound] ==
        IF b = 0 THEN 0 ELSE 1 + after[b - Budget(b, FALSE)]
  IN [b \in 1 .. bound |-> [new \in BOOLEAN |-> 1 + after[b - Budget(b, new)]]]

\* spread_over_runs (pacing.py:47-48) is the number of runs the backlog takes, or
\* above it for a first sync, which never takes all of more than one item.
SpreadIsRuns(bound, new) ==
  LET runs == Runs(bound)
  IN \A b \in 1 .. bound :
       IF new THEN /\ runs[b][new] <= Spread(b, new)
                   /\ b > 1 /\ Ramp > 1 => Budget(b, new) < b
              ELSE runs[b][new] = Spread(b, new)

\* A block of hours has the length its two ends say, wherever midnight falls
\* (config.py:138-148).
BlockLength ==
  \A start, end, hour \in 0 .. 23 :
    InBlock(start, end, hour) <=>
      start = end \/ (hour - start) % 24 < (end - start) % 24
=============================================================================
