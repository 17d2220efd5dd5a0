---------------------------- MODULE MCDiscovery -----------------------------
(* Discovery on small bounds, and plan_run at the settings of an installation. *)
EXTENDS Discovery

\* The defaults of 0001_init.sql:390-396.
Default == INSTANCE Pacing WITH
  MinDelay <- 4000, MaxDelay <- 15000, ItemsPerRun <- 25, PaceThreshold <- 5,
  RampRuns <- 6

\* When an idle account's source has shown nothing yet and then has up to MaxBacklog
\* posts (twice the saturation), plan_run at the default settings spreads them as
\* it says, is never faster for more of them or after failures, and never pauses
\* for as long as a lease; and until then the account waits for an hour of the
\* block (pacing.py:3-17, config.py:138-148; the parts are stated in Pacing).
MaxBacklog == 400
PlanSound ==
  At("idle") /\ feed = 0 =>
    /\ \A b \in 1 .. MaxBacklog : /\ Default!SlowerWithMore(b, fresh)
                                 /\ Default!PausesFitLease(b, fresh, 45, 1800000)
    /\ Default!SpreadIsRuns(MaxBacklog, fresh)
    /\ Default!BlockLength
=============================================================================
