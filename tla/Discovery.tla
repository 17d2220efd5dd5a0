----------------------------- MODULE Discovery ------------------------------
(***************************************************************************)
(* How a run learns what the source has, and which part of it it takes:    *)
(* the fallback chain of adapters, the listing with its early exit, the    *)
(* work list, the budget of plan_run and the fate of each item, run after  *)
(* run of one account.                                                     *)
(*                                                                         *)
(* Abstractions.  Posts are numbered by age, the newest is feed; every     *)
(* adapter lists the posts newest first, as base.py:155 requires of it,    *)
(* and gives them dates, and what it lists is a row of its own in          *)
(* remote_index (account, provider, remote_id).  Links do not change.       *)
(* What happens to the bytes of an item is Archive.                        *)
(***************************************************************************)
EXTENDS Pacing, FiniteSets

CONSTANTS
  NAdapters,     \* adapters of build_chain, by rank
  KnownStreak,   \* KNOWN_STREAK_LIMIT (12)
  HardLimit,     \* DISCOVERY_HARD_LIMIT (5000)
  Tries,         \* failures after which an item is given up (4)
  MaxPosts,      \* bound: posts ever made
  MaxFaults      \* bound: adapters failing, refusals, aborts, crashes,
                 \* restarts in the other mode

Adapters == 1 .. NAdapters
Posts == 1 .. MaxPosts
RowIds == Adapters \X Posts

ASSUME DiscoveryAssumption ==
  /\ NAdapters \in Nat /\ MaxPosts \in Nat /\ MaxFaults \in Nat
  /\ KnownStreak \in Nat \ {0} /\ HardLimit \in Nat \ {0} /\ Tries \in Nat \ {0}

VARIABLES
  feed,      \* posts at the source
  remote,    \* remote_index: state and attempts, by adapter and post
  run,       \* the run in progress
  fresh,     \* accounts.last_success_at IS NULL
  enabled,   \* accounts.scrape_enabled
  usable,    \* adapters with a link, cookies and an implementation
  dry,       \* SCRAPER_DRY_RUN of the container
  faults,    \* faults so far, at most MaxFaults
  cut        \* history: adapters with a listing that ended above unlisted posts

vars == <<feed, remote, run, fresh, enabled, usable, dry, faults, cut>>

Open == {"pending", "failed"}
Decided == {"settled", "skipped", "gone"}

Unlisted == [state |-> "unlisted", attempts |-> 0]

Listed(a, p) == remote[<<a, p>>].state # "unlisted"

NoRun == [pc |-> "idle", adapter |-> 1, cursor |-> 0, top |-> 0, streak |-> 0,
          todo |-> {}]

At(pc) == run.pc = pc
To(pc) == run' = [run EXCEPT !.pc = pc]

\* Mutant of Asking: the chain does not end.
BugAsking == At("listing") \/ At("chain")

\* An adapter is asked about the account; an item is about to be handled.
Asking == At("listing") \/ (At("chain") /\ run.adapter \in usable)
Working == At("items") /\ run.todo # {}

Fault == faults < MaxFaults /\ faults' = faults + 1

\* The listing under way ends here: is there a post it has not come to?
CutHere ==
  IF At("listing") /\ \E p \in 1 .. run.cursor : ~Listed(run.adapter, p)
  THEN cut \cup {run.adapter} ELSE cut

-----------------------------------------------------------------------------
(* The source and the operator.                                            *)

Publish ==
  /\ feed < MaxPosts
  /\ feed' = feed + 1
  /\ UNCHANGED <<remote, run, fresh, enabled, usable, dry, faults, cut>>

\* The user switches scraping on again (JobQueue has the whole handler).
Enable ==
  /\ ~enabled
  /\ enabled' = TRUE
  /\ UNCHANGED <<feed, remote, run, fresh, usable, dry, faults, cut>>

\* The container is started again with or without SCRAPER_DRY_RUN.
Redeploy ==
  /\ At("idle")
  /\ Fault
  /\ dry' = ~dry
  /\ UNCHANGED <<feed, remote, run, fresh, enabled, usable, cut>>

-----------------------------------------------------------------------------
(* The chain and the listing.                                              *)

\* A job of the account is claimed: planned by the scheduler if the account is
\* enabled, or asked for by the user.
StartRun ==
  /\ At("idle")
  /\ run' = [NoRun EXCEPT !.pc = "chain"]
  /\ UNCHANGED <<feed, remote, fresh, enabled, usable, dry, faults, cut>>

Probe ==
  /\ At("chain") /\ run.adapter \in usable
  /\ run' = [run EXCEPT !.pc = "listing", !.cursor = feed, !.top = feed, !.streak = 0]
  /\ UNCHANGED <<feed, remote, fresh, enabled, usable, dry, faults, cut>>

\* supports() says no, or AdapterUnavailableError: nothing is asked.
SkipAdapter ==
  /\ At("chain") /\ run.adapter \in Adapters \ usable
  /\ run' = [run EXCEPT !.adapter = @ + 1]
  /\ UNCHANGED <<feed, remote, fresh, enabled, usable, dry, faults, cut>>

\* Any other failure, before or in the middle of its listing: what it has listed
\* stays, and the next one is asked.
AdapterFails ==
  /\ Asking
  /\ Fault
  /\ run' = [NoRun EXCEPT !.pc = "chain", !.adapter = run.adapter + 1]
  /\ cut' = CutHere
  /\ UNCHANGED <<feed, remote, fresh, enabled, usable, dry>>

\* Every adapter has failed, and so does the job.
ChainFails ==
  /\ At("chain") /\ run.adapter \notin Adapters
  /\ run' = NoRun
  /\ UNCHANGED <<feed, remote, fresh, enabled, usable, dry, faults, cut>>

\* Mutant of Upserted: an item that is listed again becomes pending again.
BugUpserted(a, p) == [state |-> "pending", attempts |-> remote[<<a, p>>].attempts]

\* INSERT OR IGNORE, then an UPDATE that leaves the state alone.
Upserted(a, p) ==
  IF Listed(a, p) THEN remote[<<a, p>>] ELSE [Unlisted EXCEPT !.state = "pending"]

\* Mutant of StreakAfter: a post another adapter has listed counts as known.
BugStreakAfter(a, p) ==
  IF \E b \in Adapters : Listed(b, p) THEN run.streak + 1 ELSE 0

StreakAfter(a, p) == IF Listed(a, p) THEN run.streak + 1 ELSE 0

\* The listing goes on below post p, read as the total-th.
GoesOn(total, streak) == streak < KnownStreak /\ total < HardLimit

ListItem ==
  /\ At("listing") /\ run.cursor > 0
  /\ LET a == run.adapter
         p == run.cursor
         streak == StreakAfter(a, p)
         total == run.top - p + 1
         more == GoesOn(total, streak)
     IN /\ remote' = [remote EXCEPT ![<<a, p>>] = Upserted(a, p)]
        /\ run' = [run EXCEPT !.pc = IF more THEN "listing" ELSE "plan",
                              !.cursor = p - 1, !.streak = streak]
        /\ cut' = IF total >= HardLimit /\ \E q \in 1 .. p - 1 : ~Listed(a, q)
                  THEN cut \cup {a} ELSE cut
  /\ UNCHANGED <<feed, fresh, enabled, usable, dry, faults>>

ListEnd ==
  /\ At("listing") /\ run.cursor = 0
  /\ To("plan")
  /\ UNCHANGED <<feed, remote, fresh, enabled, usable, dry, faults, cut>>

-----------------------------------------------------------------------------
(* The work list and its items.                                            *)

\* _pending_items, the rows of all adapters (Archive has the items whose file
\* is already indexed).
WorkList == {r \in RowIds : remote[r].state \in Open /\ remote[r].attempts < Tries}

UpToDate ==
  /\ At("plan") /\ WorkList = {}
  /\ fresh' = FALSE
  /\ run' = NoRun
  /\ UNCHANGED <<feed, remote, enabled, usable, dry, faults, cut>>

Newest(S, n) ==
  {T \in SUBSET S : /\ Cardinality(T) = n
                    /\ \A r \in T, s \in S \ T : r[2] >= s[2]}

PlanSlice ==
  /\ At("plan") /\ WorkList # {}
  /\ \E T \in Newest(WorkList, Budget(Cardinality(WorkList), fresh)) :
       run' = [run EXCEPT !.pc = "items", !.todo = T]
  /\ UNCHANGED <<feed, remote, fresh, enabled, usable, dry, faults, cut>>

Current(r) ==
  At("items") /\ r \in run.todo /\ \A s \in run.todo : r[2] >= s[2]

\* Fetched, adopted, or found to be held already; in a dry run an item that is
\* not held is skipped.
ItemSettles(r) ==
  /\ Current(r)
  /\ \E s \in IF dry THEN {"settled", "skipped"} ELSE {"settled"} :
       remote' = [remote EXCEPT ![r].state = s]
  /\ run' = [run EXCEPT !.todo = @ \ {r}]
  /\ UNCHANGED <<feed, fresh, enabled, usable, dry, faults, cut>>


\* _fail_item (the count that a settled item gets too is not read again).
Failed(row) ==
  [state |-> IF row.attempts + 1 >= Tries THEN "gone" ELSE "failed",
   attempts |-> row.attempts + 1]

ItemFails(r) ==
  /\ Current(r) /\ ~dry
  /\ remote' = [remote EXCEPT ![r] = Failed(@)]
  /\ run' = [run EXCEPT !.todo = @ \ {r}]
  /\ UNCHANGED <<feed, fresh, enabled, usable, dry, faults, cut>>

\* The job succeeds, whatever its items did.
Finish ==
  /\ At("items") /\ run.todo = {}
  /\ fresh' = FALSE
  /\ run' = NoRun
  /\ UNCHANGED <<feed, remote, enabled, usable, dry, faults, cut>>

-----------------------------------------------------------------------------
(* Ways a run ends early.                                                  *)

Stops ==
  /\ Fault
  /\ run' = NoRun
  /\ cut' = CutHere

\* A rate limit or a block, from any request to the source: the job is deferred.
Refused ==
  /\ Asking \/ Working
  /\ Stops
  /\ UNCHANGED <<feed, remote, fresh, enabled, usable, dry>>

\* Gone or private: flagged, and switched off.  A 404 of an item does not count.
Unavailable ==
  /\ Asking
  /\ Stops
  /\ enabled' = FALSE
  /\ UNCHANGED <<feed, remote, fresh, usable, dry>>

\* Cancelled at a checkpoint, or the disk fails.
Aborted ==
  /\ Working
  /\ Stops
  /\ UNCHANGED <<feed, remote, fresh, enabled, usable, dry>>

\* The worker dies, or a statement fails.
Crash ==
  /\ ~At("idle")
  /\ Stops
  /\ UNCHANGED <<feed, remote, fresh, enabled, usable, dry>>

-----------------------------------------------------------------------------
Init ==
  /\ feed \in 0 .. MaxPosts
  /\ remote = [r \in RowIds |-> Unlisted]
  /\ run = NoRun
  /\ fresh = TRUE /\ enabled = TRUE
  /\ usable \in SUBSET Adapters
  /\ dry \in BOOLEAN
  /\ faults = 0
  /\ cut = {}

EngineStep ==
  \/ Probe \/ SkipAdapter \/ ChainFails \/ ListItem \/ ListEnd \/ UpToDate \/ PlanSlice
  \/ \E r \in RowIds : ItemSettles(r) \/ ItemFails(r)
  \/ Finish

Next ==
  \/ Publish \/ Enable \/ Redeploy \/ StartRun \/ EngineStep
  \/ AdapterFails \/ Refused \/ Unavailable \/ Aborted \/ Crash

Spec == Init /\ [][Next]_vars

\* The scheduler gives an enabled account runs for ever (JobQueue), and a run
\* goes on while nothing stops it.
Fairness == WF_vars(enabled /\ StartRun) /\ WF_vars(EngineStep)

FairSpec == Spec /\ Fairness

-----------------------------------------------------------------------------
(* Properties.                                                             *)

\* Every variable has its type.
TypeOK ==
  /\ feed \in 0 .. MaxPosts
  /\ remote \in [RowIds -> [state : {"unlisted"} \cup Open \cup Decided,
                            attempts : 0 .. Tries]]
  /\ run \in [pc : {"idle", "chain", "listing", "plan", "items"},
              adapter : 1 .. NAdapters + 1, cursor : 0 .. MaxPosts,
              top : 0 .. MaxPosts, streak : 0 .. KnownStreak, todo : SUBSET RowIds]
  /\ fresh \in BOOLEAN /\ enabled \in BOOLEAN /\ dry \in BOOLEAN
  /\ usable \in SUBSET Adapters
  /\ faults \in 0 .. MaxFaults
  /\ cut \in SUBSET Adapters

Prefix(a, n) == \A p, q \in 1 .. n : p < q /\ Listed(a, q) => Listed(a, p)

\* As long as no listing of an adapter was cut off above posts it had not come
\* to, the early exit loses nothing: below every recorded post, all are recorded
\* (_ingest_items, sync.py:396-432).
CompleteUnlessCut ==
  \A a \in Adapters \ cut :
    ~(At("listing") /\ run.adapter = a) => Prefix(a, MaxPosts)

\* When the streak ends a listing, everything older is recorded already: "a
\* streak of already-indexed items means everything older is already recorded"
\* (sync.py:399-401).
OlderKnown ==
  At("plan") /\ run.streak >= KnownStreak
    => \A p \in 1 .. run.cursor : Listed(run.adapter, p)

\* Each row of remote_index as ItemFate sees it.
FateOf(r) ==
  CASE remote[r].state = "unlisted" -> [state |-> "unlisted", failures |-> 0]
    [] remote[r].state \in Open -> [state |-> "open", failures |-> remote[r].attempts]
    [] remote[r].state \in {"settled", "skipped"} -> [state |-> "settled", failures |-> 0]
    [] OTHER -> [state |-> "gone", failures |-> remote[r].attempts]

Fates == INSTANCE ItemFate WITH Keys <- RowIds, fate <- [r \in RowIds |-> FateOf(r)]

\* Listed again by later runs, left open by runs that were cut short, an item is
\* recorded once, given up after Tries failures and not before, and never comes
\* back once it is decided (_upsert_remote, sync.py:434-440; _fail_item).
ImplementsFates == Fates!Spec

=============================================================================
