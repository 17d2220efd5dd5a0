-------------------------- MODULE DiscoveryProofs ---------------------------
(***************************************************************************)
(* For any adapters, limits and bounds: the types; what the early exit may *)
(* skip; that remote_index implements ItemFate; and what plan_run promises *)
(* at the settings of an installation (PacingProofs).  The argument about  *)
(* the early exit: what an uncut adapter has listed is downward closed     *)
(* between its listings; during one, so is what it has listed below the    *)
(* cursor, and everything from the cursor up to where it began is listed.  *)
(***************************************************************************)
EXTENDS MCDiscovery, TLAPS

Row == [state : {"unlisted"} \cup Open \cup Decided, attempts : 0 .. Tries]

\* What the state of an item says about its failures.
RowSound(r) ==
  /\ remote[r].state = "unlisted" => remote[r].attempts = 0
  /\ remote[r].state \in Open => remote[r].attempts < Tries
  /\ remote[r].state = "gone" => remote[r].attempts = Tries

\* The run is where its data says: a listing is of an adapter that can be asked
\* and has its early exits ahead of it, a slice is of open items.
RunSound ==
  /\ run.cursor <= run.top /\ run.top <= feed
  /\ At("listing") => run.adapter \in usable /\ run.streak < KnownStreak
  /\ \A r \in run.todo : At("items") /\ remote[r].state \in Open

\* Nothing is listed before it is published, nor above the start of a listing
\* by the listing.
NothingAhead ==
  \A a \in Adapters, p \in Posts :
    /\ Listed(a, p) => p <= feed
    /\ At("listing") /\ run.adapter = a /\ Listed(a, p) => p <= run.top

\* A listing of an uncut adapter under way: no gap above the cursor, and none
\* below it.
ListingSound ==
  \A a \in Adapters \ cut :
    At("listing") /\ run.adapter = a =>
      /\ \A p \in run.cursor + 1 .. run.top : Listed(a, p)
      /\ Prefix(a, run.cursor)

IInv ==
  /\ TypeOK
  /\ \A r \in RowIds : RowSound(r)
  /\ RunSound
  /\ NothingAhead
  /\ ListingSound
  /\ CompleteUnlessCut

-----------------------------------------------------------------------------
(* Rows and how they change.                                               *)

LEMMA RowType ==
  ASSUME TypeOK, NEW r \in RowIds
  PROVE  /\ remote[r].state \in {"unlisted"} \cup Open \cup Decided
         /\ remote[r].attempts \in 0 .. Tries
BY DEF TypeOK

LEMMA TriesPositive ==
  /\ Tries \in Nat /\ 0 < Tries
  /\ KnownStreak \in Nat /\ 0 < KnownStreak
  /\ HardLimit \in Nat /\ 0 < HardLimit
  /\ NAdapters \in Nat /\ MaxPosts \in Nat /\ MaxFaults \in Nat
BY DiscoveryAssumption DEF DiscoveryAssumption

\* A row that is listed again keeps what it has; a new one is open.
LEMMA ListedRow ==
  ASSUME IInv, NEW a \in Adapters, NEW p \in Posts,
         remote' = [remote EXCEPT ![<<a, p>>] = Upserted(a, p)]
  PROVE  /\ remote' \in [RowIds -> Row]
         /\ \A r \in RowIds : RowSound(r)'
         /\ \A b \in Adapters, q \in Posts :
              Listed(b, q)' <=> Listed(b, q) \/ (b = a /\ q = p)
         /\ \A r \in RowIds : remote[r].state \in Open => remote'[r].state \in Open
<1>1. <<a, p>> \in RowIds
  BY DEF RowIds
<1>2. remote \in [RowIds -> Row]
  BY DEF IInv, TypeOK, Row
<1>3. /\ Upserted(a, p) \in Row
      /\ Upserted(a, p).state # "unlisted"
      /\ remote[<<a, p>>].state \in Open => Upserted(a, p).state \in Open
      /\ Listed(a, p) => Upserted(a, p) = remote[<<a, p>>]
      /\ ~Listed(a, p) => Upserted(a, p) = [state |-> "pending", attempts |-> 0]
  BY <1>1, <1>2, TriesPositive DEF Upserted, Listed, Unlisted, Row, Open
<1>4. remote' \in [RowIds -> Row]
  BY <1>1, <1>2, <1>3
<1>5. ASSUME NEW r \in RowIds PROVE RowSound(r)'
  <2>1. RowSound(r)
    BY DEF IInv
  <2>. QED
    BY <1>1, <1>2, <1>3, <2>1, TriesPositive DEF RowSound, Listed, Open
<1>6. ASSUME NEW b \in Adapters, NEW q \in Posts
      PROVE  Listed(b, q)' <=> Listed(b, q) \/ (b = a /\ q = p)
  <2>1. <<b, q>> \in RowIds /\ (<<b, q>> = <<a, p>> <=> b = a /\ q = p)
    BY DEF RowIds
  <2>. QED BY <1>1, <1>2, <1>3, <2>1 DEF Listed
<1>. QED BY <1>1, <1>2, <1>3, <1>4, <1>5, <1>6

\* A row of the slice that is decided or has failed leaves the others alone.
LEMMA DecidedRow ==
  ASSUME IInv, NEW r \in RowIds, remote[r].state \in Open, NEW row \in Row,
         row.state # "unlisted",
         row.state \in Open => row.attempts < Tries,
         row.state = "gone" => row.attempts = Tries,
         remote' = [remote EXCEPT ![r] = row]
  PROVE  /\ remote' \in [RowIds -> Row]
         /\ \A s \in RowIds : RowSound(s)'
         /\ \A b \in Adapters, q \in Posts : Listed(b, q)' <=> Listed(b, q)
         /\ \A s \in RowIds \ {r} : remote'[s] = remote[s]
<1>1. remote \in [RowIds -> Row]
  BY DEF IInv, TypeOK, Row
<1>2. ASSUME NEW s \in RowIds PROVE RowSound(s)'
  <2>1. RowSound(s)
    BY DEF IInv
  <2>. QED BY <1>1, <2>1 DEF RowSound
<1>3. ASSUME NEW b \in Adapters, NEW q \in Posts
      PROVE  Listed(b, q)' <=> Listed(b, q)
  <2>1. <<b, q>> \in RowIds
    BY DEF RowIds
  <2>. QED BY <1>1, <2>1 DEF Listed, Open
<1>. QED BY <1>1, <1>2, <1>3

LEMMA FailedRow ==
  ASSUME IInv, NEW r \in RowIds, remote[r].state \in Open
  PROVE  /\ remote[r].attempts + 1 \in 1 .. Tries
         /\ Failed(remote[r]) =
              IF remote[r].attempts + 1 = Tries
              THEN [state |-> "gone", attempts |-> Tries]
              ELSE [state |-> "failed", attempts |-> remote[r].attempts + 1]
<1>1. remote[r].attempts \in 0 .. Tries /\ remote[r].attempts < Tries
  BY RowType DEF IInv, RowSound
<1>. QED BY <1>1, TriesPositive DEF Failed

-----------------------------------------------------------------------------
(* The invariant, action by action.                                        *)

LEMMA InitHolds == Init => IInv
<1>. SUFFICES ASSUME Init PROVE IInv
  OBVIOUS
<1>1. /\ \A r \in RowIds : remote[r] = Unlisted
      /\ \A a \in Adapters, p \in Posts : ~Listed(a, p)
  BY DEF Init, Listed, RowIds, Unlisted
<1>2. TypeOK
  BY <1>1, TriesPositive DEF Init, TypeOK, Unlisted, NoRun
<1>3. /\ \A r \in RowIds : RowSound(r)
      /\ RunSound
  BY <1>1, TriesPositive
  DEF Init, RowSound, RunSound, NoRun, Unlisted, At, Open
<1>4. NothingAhead /\ ListingSound
  BY <1>1 DEF Init, NothingAhead, ListingSound, NoRun, At
<1>5. CompleteUnlessCut
  BY <1>1 DEF CompleteUnlessCut, Prefix, Posts
<1>. QED BY <1>2, <1>3, <1>4, <1>5 DEF IInv

\* What an adapter has listed when its listing ends, with nothing left out.
LEMMA ListingComplete ==
  ASSUME IInv, NEW a \in Adapters \ cut, At("listing"), run.adapter = a,
         \A p \in 1 .. run.cursor : Listed(a, p)
  PROVE  Prefix(a, MaxPosts)
<1>. SUFFICES ASSUME NEW p \in 1 .. MaxPosts, NEW q \in 1 .. MaxPosts,
                     p < q, Listed(a, q)
              PROVE  Listed(a, p)
  BY DEF Prefix
<1>1. run.cursor \in Nat /\ run.top \in Nat
  BY TriesPositive DEF IInv, TypeOK
<1>2. q <= run.top
  BY DEF IInv, NothingAhead, Posts
<1>3. p \in 1 .. run.cursor \/ p \in run.cursor + 1 .. run.top
  BY <1>1, <1>2, TriesPositive
<1>. QED BY <1>3 DEF IInv, ListingSound

\* Steps that list nothing and begin no listing.
LEMMA QuietKeeps ==
  ASSUME IInv, UNCHANGED <<feed, remote>>, run'.pc # "listing", cut' = CutHere,
         TypeOK', RunSound'
  PROVE  IInv'
<1>1. ASSUME NEW a \in Adapters, NEW p \in Posts
      PROVE  Listed(a, p)' <=> Listed(a, p)
  BY DEF Listed
<1>2. ASSUME NEW r \in RowIds PROVE RowSound(r)'
  BY DEF IInv, RowSound
<1>3. NothingAhead' /\ ListingSound'
  BY <1>1 DEF IInv, NothingAhead, ListingSound, At
<1>4. CompleteUnlessCut'
  <2>. SUFFICES ASSUME NEW a \in Adapters \ cut' PROVE Prefix(a, MaxPosts)
    BY <1>1 DEF CompleteUnlessCut, Prefix, Posts, Listed
  <2>1. a \in Adapters \ cut
    BY DEF CutHere
  <2>2. CASE At("listing") /\ run.adapter = a
    BY <2>1, <2>2, ListingComplete DEF CutHere
  <2>3. CASE ~(At("listing") /\ run.adapter = a)
    BY <2>1, <2>3 DEF IInv, CompleteUnlessCut
  <2>. QED BY <2>2, <2>3
<1>. QED BY <1>2, <1>3, <1>4 DEF IInv

LEMMA FaultType ==
  ASSUME IInv, Fault
  PROVE  faults' \in 0 .. MaxFaults
BY TriesPositive DEF IInv, TypeOK, Fault

\* Steps of the source and the operator.
LEMMA WorldSteps ==
  ASSUME IInv, Publish \/ Enable \/ Redeploy
  PROVE  IInv'
<1>1. /\ UNCHANGED <<remote, run, cut, usable>>
      /\ feed' \in 0 .. MaxPosts /\ feed <= feed'
  BY TriesPositive DEF IInv, TypeOK, Publish, Enable, Redeploy
<1>2. TypeOK'
  <2>1. faults' \in 0 .. MaxFaults
    BY FaultType DEF IInv, TypeOK, Publish, Enable, Redeploy
  <2>2. UNCHANGED fresh /\ enabled' \in BOOLEAN /\ dry' \in BOOLEAN
    BY DEF IInv, TypeOK, Publish, Enable, Redeploy
  <2>. QED BY <1>1, <2>1, <2>2 DEF IInv, TypeOK
<1>3. \A a \in Adapters, p \in Posts : Listed(a, p)' <=> Listed(a, p)
  BY <1>1 DEF Listed
<1>4. (\A r \in RowIds : RowSound(r)') /\ RunSound'
  BY <1>1, TriesPositive DEF IInv, TypeOK, RowSound, RunSound, At
<1>5. NothingAhead'
  BY <1>1, <1>3, TriesPositive DEF IInv, TypeOK, NothingAhead, At, Posts
<1>6. ListingSound' /\ CompleteUnlessCut'
  BY <1>1 DEF IInv, ListingSound, CompleteUnlessCut, Prefix, Listed, At
<1>. QED BY <1>2, <1>4, <1>5, <1>6 DEF IInv

LEMMA CutHereType ==
  ASSUME IInv
  PROVE  /\ CutHere \in SUBSET Adapters
         /\ run.cursor = 0 \/ ~At("listing") => CutHere = cut
BY DEF IInv, TypeOK, RunSound, CutHere, At

\* Ends of a run, early or not, which start nothing.
LEMMA EndSteps ==
  ASSUME IInv,
         ChainFails \/ UpToDate \/ Finish \/ Refused \/ Unavailable \/ Aborted \/ Crash
  PROVE  IInv'
<1>1. /\ UNCHANGED <<feed, remote, usable>> /\ run' = NoRun /\ cut' = CutHere
  BY CutHereType
  DEF ChainFails, UpToDate, Finish, Refused, Unavailable, Aborted, Crash, Stops, At
<1>2. /\ fresh' \in BOOLEAN /\ enabled' \in BOOLEAN /\ dry' \in BOOLEAN
      /\ faults' \in 0 .. MaxFaults
  <2>1. CASE ChainFails \/ UpToDate \/ Finish
    BY <2>1 DEF IInv, TypeOK, ChainFails, UpToDate, Finish
  <2>2. CASE Refused \/ Unavailable \/ Aborted \/ Crash
    BY <2>2, FaultType DEF IInv, TypeOK, Refused, Unavailable, Aborted, Crash, Stops
  <2>. QED BY <2>1, <2>2
<1>3. TypeOK'
  BY <1>1, <1>2, CutHereType, TriesPositive DEF IInv, TypeOK, NoRun
<1>4. RunSound' /\ run'.pc # "listing"
  BY <1>1, TriesPositive DEF IInv, TypeOK, RunSound, NoRun, At
<1>. QED BY <1>1, <1>3, <1>4, QuietKeeps

\* Steps along the chain that are not a listing.
LEMMA ChainSteps ==
  ASSUME IInv, StartRun \/ SkipAdapter \/ AdapterFails \/ ListEnd \/ PlanSlice
  PROVE  IInv'
<1>. USE TriesPositive DEF IInv, TypeOK, RunSound, At, NoRun, Adapters
<1>1. CASE StartRun
  BY <1>1, QuietKeeps, CutHereType DEF StartRun
<1>2. CASE SkipAdapter
  BY <1>2, QuietKeeps, CutHereType DEF SkipAdapter
<1>3. CASE AdapterFails
  <2>1. /\ UNCHANGED <<feed, remote, fresh, enabled, usable, dry>>
        /\ run' = [NoRun EXCEPT !.pc = "chain", !.adapter = run.adapter + 1]
        /\ cut' = CutHere /\ run.adapter \in Adapters /\ Fault
    BY <1>3 DEF AdapterFails, Asking
  <2>2. run' = [pc |-> "chain", adapter |-> run.adapter + 1, cursor |-> 0,
                top |-> 0, streak |-> 0, todo |-> {}]
    BY <2>1
  <2>3. TypeOK' /\ RunSound' /\ run'.pc # "listing"
    BY <2>1, <2>2, FaultType, CutHereType
  <2>. QED BY <2>1, <2>3, QuietKeeps
<1>4. CASE ListEnd
  BY <1>4, QuietKeeps, CutHereType DEF ListEnd, To
<1>5. CASE PlanSlice
  <2>1. PICK T \in Newest(WorkList, Budget(Cardinality(WorkList), fresh)) :
          run' = [run EXCEPT !.pc = "items", !.todo = T]
    BY <1>5 DEF PlanSlice
  <2>2. T \in SUBSET WorkList
    BY <2>1 DEF Newest
  <2>3. /\ T \in SUBSET RowIds
        /\ \A r \in T : remote[r].state \in Open
    BY <2>2 DEF WorkList
  <2>4. UNCHANGED <<feed, remote, fresh, enabled, usable, dry, faults, cut>>
    BY <1>5 DEF PlanSlice
  <2>5. cut' = CutHere
    BY <1>5, <2>4, CutHereType DEF PlanSlice
  <2>6. TypeOK' /\ RunSound' /\ run'.pc # "listing"
    BY <2>1, <2>3, <2>4
  <2>. QED BY <2>4, <2>5, <2>6, QuietKeeps
<1>. QED BY <1>1, <1>2, <1>3, <1>4, <1>5

LEMMA ProbeKeeps ==
  ASSUME IInv, Probe
  PROVE  IInv'
<1>1. /\ UNCHANGED <<feed, remote, fresh, enabled, usable, dry, faults, cut>>
      /\ At("chain") /\ run.adapter \in usable /\ feed \in 0 .. MaxPosts
      /\ run' = [pc |-> "listing", adapter |-> run.adapter, cursor |-> feed,
                 top |-> feed, streak |-> 0, todo |-> run.todo]
  BY DEF Probe, IInv, TypeOK
<1>2. TypeOK'
  BY <1>1, TriesPositive DEF IInv, TypeOK
<1>3. run.todo = {}
  BY <1>1 DEF IInv, RunSound, At
<1>4. RunSound'
  BY <1>1, <1>3, TriesPositive DEF IInv, TypeOK, RunSound, At
<1>5. \A a \in Adapters, p \in Posts : Listed(a, p)' <=> Listed(a, p)
  BY <1>1 DEF Listed
<1>6. (\A r \in RowIds : RowSound(r)') /\ NothingAhead'
  BY <1>1, <1>5 DEF IInv, RowSound, NothingAhead, At
<1>7. ASSUME NEW a \in Adapters \ cut PROVE Prefix(a, MaxPosts)
  BY <1>1 DEF IInv, CompleteUnlessCut, At
<1>8. CompleteUnlessCut'
  BY <1>1, <1>7 DEF CompleteUnlessCut, Prefix, Listed
<1>9. ListingSound'
  <2>. SUFFICES ASSUME NEW a \in Adapters \ cut
                PROVE  /\ \A p \in feed + 1 .. feed : Listed(a, p)
                       /\ Prefix(a, feed)
    BY <1>1 DEF ListingSound, Prefix, Listed
  <2>1. 1 .. feed \subseteq 1 .. MaxPosts
    BY <1>1, TriesPositive
  <2>. QED BY <1>1, <1>7, <2>1 DEF Prefix
<1>. QED BY <1>2, <1>4, <1>6, <1>8, <1>9 DEF IInv

\* One post is read: either the listing goes on with everything from the cursor
\* up listed, or it ends where everything below is listed, or it is cut.
LEMMA ListItemKeeps ==
  ASSUME IInv, ListItem
  PROVE  IInv'
<1>. PICK a, p : a = run.adapter /\ p = run.cursor
  OBVIOUS
<1>. DEFINE streak == StreakAfter(a, p)
            total == run.top - p + 1
            more == GoesOn(total, streak)
<1>. HIDE DEF streak, total, more
<1>1. /\ remote' = [remote EXCEPT ![<<a, p>>] = Upserted(a, p)]
      /\ run' = [run EXCEPT !.pc = IF more THEN "listing" ELSE "plan",
                            !.cursor = p - 1, !.streak = streak]
      /\ cut' = IF total >= HardLimit /\ \E q \in 1 .. p - 1 : ~Listed(a, q)
                THEN cut \cup {a} ELSE cut
      /\ UNCHANGED <<feed, fresh, enabled, usable, dry, faults>>
  BY DEF ListItem, streak, total, more
<1>2. /\ At("listing") /\ a \in Adapters /\ a \in usable /\ p \in Posts
      /\ p <= run.top /\ run.top <= feed /\ feed <= MaxPosts
      /\ run.top \in Nat /\ feed \in Nat /\ run.todo = {}
      /\ run.streak \in Nat /\ run.streak < KnownStreak
  BY TriesPositive DEF ListItem, IInv, TypeOK, RunSound, At, Posts, Adapters
<1>3. /\ streak \in 0 .. KnownStreak
      /\ streak > 0 => Listed(a, p)
      /\ more => streak < KnownStreak
      /\ ~more => streak > 0 \/ total >= HardLimit
  <2>1. streak = IF Listed(a, p) THEN run.streak + 1 ELSE 0
    BY DEF streak, StreakAfter
  <2>2. more <=> streak < KnownStreak /\ total < HardLimit
    BY DEF more, GoesOn
  <2>3. total \in Int
    BY <1>2 DEF total, Posts
  <2>. QED BY <1>2, <2>1, <2>2, <2>3, TriesPositive
<1>4. run' = [pc |-> IF more THEN "listing" ELSE "plan", adapter |-> a,
              cursor |-> p - 1, top |-> run.top, streak |-> streak, todo |-> {}]
  BY <1>1, <1>2 DEF IInv, TypeOK
<1>5. /\ remote' \in [RowIds -> Row]
      /\ \A r \in RowIds : RowSound(r)'
      /\ \A b \in Adapters, q \in Posts :
           Listed(b, q)' <=> Listed(b, q) \/ (b = a /\ q = p)
  BY <1>1, <1>2, ListedRow
<1>6. cut \subseteq cut' /\ cut' \subseteq cut \cup {a}
  BY <1>1
<1>7. TypeOK'
  <2>1. /\ run'.pc \in {"listing", "plan"} /\ p - 1 \in 0 .. MaxPosts
        /\ run.top \in 0 .. MaxPosts /\ a \in 1 .. NAdapters + 1
    BY <1>2, <1>4, TriesPositive DEF Posts, Adapters
  <2>2. run' \in [pc : {"idle", "chain", "listing", "plan", "items"},
                 adapter : 1 .. NAdapters + 1, cursor : 0 .. MaxPosts,
                 top : 0 .. MaxPosts, streak : 0 .. KnownStreak, todo : SUBSET RowIds]
    BY <1>3, <1>4, <2>1
  <2>3. cut' \in SUBSET Adapters
    BY <1>2, <1>6 DEF IInv, TypeOK
  <2>. QED BY <1>1, <1>5, <2>2, <2>3 DEF IInv, TypeOK, Row
<1>8. RunSound'
  BY <1>1, <1>2, <1>3, <1>4 DEF RunSound, At, Posts
<1>9. NothingAhead'
  BY <1>1, <1>2, <1>4, <1>5 DEF IInv, NothingAhead, At, Posts
<1>10. ListingSound'
  <2>. SUFFICES ASSUME a \in Adapters \ cut
                PROVE  /\ \A q \in p .. run.top : Listed(a, q)'
                       /\ Prefix(a, p - 1)'
    BY <1>2, <1>4, <1>6 DEF ListingSound, At, Prefix, Listed, Posts
  <2>1. (\A q \in p + 1 .. run.top : Listed(a, q)) /\ Prefix(a, p)
    BY <1>2 DEF IInv, ListingSound
  <2>2. p .. run.top \subseteq Posts /\ 1 .. p - 1 \subseteq Posts
    BY <1>2, TriesPositive DEF Posts
  <2>3. \A q \in p .. run.top : Listed(a, q)'
    BY <1>2, <1>5, <2>1, <2>2 DEF Posts
  <2>4. \A q \in 1 .. p - 1 : Listed(a, q)' <=> Listed(a, q)
    BY <1>2, <1>5, <2>2 DEF Posts
  <2>5. \A q, s \in 1 .. p - 1 : q < s /\ Listed(a, s) => Listed(a, q)
    BY <1>2, <2>1 DEF Prefix, Posts
  <2>. QED BY <2>3, <2>4, <2>5 DEF Prefix
<1>11. CompleteUnlessCut'
  <2>. SUFFICES ASSUME NEW b \in Adapters \ cut',
                       ~(At("listing")' /\ run'.adapter = b),
                       NEW q \in Posts, NEW s \in Posts, q < s, Listed(b, s)'
                PROVE  Listed(b, q)'
    BY DEF CompleteUnlessCut, Prefix, Posts
  <2>1. CASE b # a
    BY <1>2, <1>5, <1>6, <2>1 DEF IInv, CompleteUnlessCut, Prefix, Posts
  <2>2. CASE b = a
    <3>1. ~more
      BY <1>4, <2>2 DEF At
    <3>2. (\A t \in p + 1 .. run.top : Listed(a, t)) /\ Prefix(a, p)
      BY <1>2, <1>6, <2>2 DEF IInv, ListingSound
    <3>3. ASSUME NEW t \in 1 .. p - 1 PROVE Listed(a, t)
      <4>1. CASE streak > 0
        BY <1>2, <1>3, <3>2, <3>3, <4>1 DEF Prefix, Posts
      <4>2. CASE total >= HardLimit
        BY <1>1, <2>2, <3>3, <4>2
      <4>. QED BY <1>3, <3>1, <4>1, <4>2
    <3>4. s <= run.top
      BY <1>2, <1>5, <2>2 DEF IInv, NothingAhead
    <3>5. q \in 1 .. p - 1 \/ q = p \/ q \in p + 1 .. run.top
      BY <1>2, <3>4 DEF Posts
    <3>. QED BY <1>5, <2>2, <3>2, <3>3, <3>5
  <2>. QED BY <2>1, <2>2
<1>. QED BY <1>5, <1>7, <1>8, <1>9, <1>10, <1>11 DEF IInv

\* What happens to an item of the slice.
LEMMA ItemSteps ==
  ASSUME IInv, NEW r \in RowIds, ItemSettles(r) \/ ItemFails(r)
  PROVE  /\ IInv'
         /\ remote[r].state \in Open
         /\ \/ \E s \in {"settled", "skipped"} : remote' = [remote EXCEPT ![r].state = s]
            \/ remote' = [remote EXCEPT ![r] = Failed(remote[r])]
<1>1. /\ At("items") /\ r \in run.todo /\ remote[r].state \in Open
      /\ run' = [run EXCEPT !.todo = run.todo \ {r}]
      /\ UNCHANGED <<feed, fresh, enabled, usable, dry, faults, cut>>
  BY DEF ItemSettles, ItemFails, Current, IInv, RunSound
<1>2. /\ remote \in [RowIds -> Row]
      /\ remote[r].attempts \in 0 .. Tries
  BY RowType DEF IInv, TypeOK, Row
<1>3. \/ \E s \in {"settled", "skipped"} : remote' = [remote EXCEPT ![r].state = s]
      \/ remote' = [remote EXCEPT ![r] = Failed(remote[r])]
  BY DEF ItemSettles, ItemFails
<1>. DEFINE Decides(row) == /\ remote' = [remote EXCEPT ![r] = row]
                            /\ row.state # "unlisted"
                            /\ row.state \in Open => row.attempts < Tries
                            /\ row.state = "gone" => row.attempts = Tries
<1>4. PICK row \in Row : Decides(row)
  <2>1. CASE remote' = [remote EXCEPT ![r] = Failed(remote[r])]
    <3>. DEFINE n == remote[r].attempts + 1
    <3>1. n \in 1 .. Tries /\ n \in 0 .. Tries
      <4>1. n \in 1 .. Tries
        BY <1>1, FailedRow
      <4>. QED BY <4>1, TriesPositive
    <3>2. CASE n = Tries
      <4>1. Failed(remote[r]) = [state |-> "gone", attempts |-> n]
        BY <1>1, <3>2, FailedRow
      <4>2. [state |-> "gone", attempts |-> n] \in Row
        BY <3>1 DEF Row, Decided
      <4>3. Decides([state |-> "gone", attempts |-> n])
        BY <2>1, <3>2, <4>1 DEF Open
      <4>. QED BY <4>2, <4>3
    <3>3. CASE n # Tries
      <4>1. Failed(remote[r]) = [state |-> "failed", attempts |-> n]
        BY <1>1, <3>3, FailedRow
      <4>2. [state |-> "failed", attempts |-> n] \in Row
        BY <3>1 DEF Row, Open
      <4>3. Decides([state |-> "failed", attempts |-> n])
        BY <2>1, <3>1, <3>3, <4>1, TriesPositive
      <4>. QED BY <4>2, <4>3
    <3>. QED BY <3>2, <3>3
  <2>2. CASE \E s \in {"settled", "skipped"} : remote' = [remote EXCEPT ![r].state = s]
    <3>. PICK s \in {"settled", "skipped"} : remote' = [remote EXCEPT ![r].state = s]
      BY <2>2
    <3>. DEFINE row == [state |-> s, attempts |-> remote[r].attempts]
    <3>1. remote[r] \in Row
      BY <1>2
    <3>2. [remote[r] EXCEPT !.state = s] = row
      BY <3>1 DEF Row
    <3>3. row \in Row /\ Decides(row)
      BY <1>2, <3>2 DEF Row, Open, Decided
    <3>. QED BY <3>3
  <2>. QED BY <1>3, <2>1, <2>2
<1>5. /\ remote' \in [RowIds -> Row]
      /\ \A s \in RowIds : RowSound(s)'
      /\ \A b \in Adapters, q \in Posts : Listed(b, q)' <=> Listed(b, q)
      /\ \A s \in RowIds \ {r} : remote'[s] = remote[s]
  BY <1>1, <1>4, DecidedRow
<1>6. TypeOK'
  BY <1>1, <1>5 DEF IInv, TypeOK, Row
<1>7. RunSound'
  BY <1>1, <1>5 DEF IInv, TypeOK, RunSound, At
<1>8. run'.pc = "items" /\ run.pc = "items"
  BY <1>1 DEF IInv, TypeOK, At
<1>9. NothingAhead' /\ ListingSound'
  BY <1>1, <1>5, <1>8 DEF IInv, NothingAhead, ListingSound, At
<1>10. CompleteUnlessCut'
  BY <1>1, <1>5, <1>8 DEF IInv, CompleteUnlessCut, Prefix, At, Posts
<1>. QED BY <1>1, <1>3, <1>5, <1>6, <1>7, <1>9, <1>10 DEF IInv

LEMMA StepHolds == IInv /\ [Next]_vars => IInv'
<1>. SUFFICES ASSUME IInv, [Next]_vars PROVE IInv'
  OBVIOUS
<1>1. CASE Publish \/ Enable \/ Redeploy
  BY <1>1, WorldSteps
<1>2. CASE \/ ChainFails \/ UpToDate \/ Finish
           \/ Refused \/ Unavailable \/ Aborted \/ Crash
  BY <1>2, EndSteps
<1>3. CASE StartRun \/ SkipAdapter \/ AdapterFails \/ ListEnd \/ PlanSlice
  BY <1>3, ChainSteps
<1>4. CASE Probe
  BY <1>4, ProbeKeeps
<1>5. CASE ListItem
  BY <1>5, ListItemKeeps
<1>6. CASE \E r \in RowIds : ItemSettles(r) \/ ItemFails(r)
  BY <1>6, ItemSteps
<1>7. CASE UNCHANGED vars
  <2>1. \A a \in Adapters, p \in Posts : Listed(a, p)' <=> Listed(a, p)
    BY <1>7 DEF vars, Listed
  <2>. QED
    BY <1>7, <2>1 DEF vars, IInv, TypeOK, RowSound, RunSound, NothingAhead,
                      ListingSound, CompleteUnlessCut, Prefix, Listed, At
<1>. QED
  BY <1>1, <1>2, <1>3, <1>4, <1>5, <1>6, <1>7 DEF Next, EngineStep

LEMMA Invariance == Spec => []IInv
<1>. QED BY InitHolds, StepHolds, PTL DEF Spec

-----------------------------------------------------------------------------
(* Theorems.                                                               *)

\* Every variable has its type, however listings, slices and faults interleave:
\* no streak passes its limit and no item its tries (sync.py:396-432, 655-667).
THEOREM TypeCorrect == Spec => []TypeOK
<1>1. IInv => TypeOK
  BY DEF IInv
<1>. QED BY Invariance, <1>1, PTL

\* As long as no listing of an adapter was cut off above posts it had not come
\* to, its posts are recorded without a gap, for any streak limit and any number
\* of posts, adapters and runs (_ingest_items, sync.py:396-432).
THEOREM CompleteAlways == Spec => []CompleteUnlessCut
<1>1. IInv => CompleteUnlessCut
  BY DEF IInv
<1>. QED BY Invariance, <1>1, PTL

-----------------------------------------------------------------------------
(* remote_index implements ItemFate.                                       *)

fateBar == [r \in RowIds |-> FateOf(r)]

\* The fate of an item, by what is recorded of it.
LEMMA FateCases ==
  ASSUME NEW r \in RowIds
  PROVE  /\ remote[r].state = "unlisted" => FateOf(r) = Fates!Unlisted
         /\ remote[r].state \in Open => FateOf(r) = Fates!Waiting(remote[r].attempts)
         /\ remote[r].state \in {"settled", "skipped"} => FateOf(r) = Fates!Settled
         /\ remote[r].state = "gone" /\ remote[r].attempts = Tries => FateOf(r) = Fates!Gone
BY DEF FateOf, Fates!Unlisted, Fates!Waiting, Fates!Settled, Fates!Gone, Open

\* A step that changes one row changes one fate.
LEMMA OneFate ==
  ASSUME IInv, NEW r \in RowIds, NEW row, remote' = [remote EXCEPT ![r] = row]
  PROVE  /\ fateBar' = [fateBar EXCEPT ![r] = FateOf(r)']
         /\ remote'[r] = row
<1>1. remote \in [RowIds -> Row]
  BY DEF IInv, TypeOK, Row
<1>2. \A s \in RowIds : s # r => FateOf(s)' = FateOf(s)
  BY <1>1 DEF FateOf
<1>. QED BY <1>1, <1>2 DEF fateBar

LEMMA FateSteps ==
  ASSUME IInv, [Next]_vars
  PROVE  [Fates!Next]_fateBar
<1>1. CASE UNCHANGED remote
  BY <1>1 DEF fateBar, FateOf
<1>2. CASE ListItem
  <2>. PICK a, p : a = run.adapter /\ p = run.cursor
    OBVIOUS
  <2>. DEFINE r == <<a, p>>
  <2>1. r \in RowIds
    BY <1>2, TriesPositive
    DEF ListItem, IInv, TypeOK, RunSound, At, RowIds, Posts, Adapters
  <2>2. remote' = [remote EXCEPT ![r] = Upserted(a, p)]
    BY <1>2 DEF ListItem
  <2>3. CASE Listed(a, p)
    <3>1. UNCHANGED remote
      BY <2>1, <2>2, <2>3 DEF Upserted, IInv, TypeOK
    <3>. QED BY <3>1, <1>1
  <2>4. CASE ~Listed(a, p)
    <3>1. Upserted(a, p) = [state |-> "pending", attempts |-> 0]
      BY <2>4 DEF Upserted, Unlisted
    <3>2. /\ fateBar' = [fateBar EXCEPT ![r] = FateOf(r)']
          /\ remote'[r] = [state |-> "pending", attempts |-> 0]
      BY <2>1, <2>2, <3>1, OneFate
    <3>3. fateBar[r] = Fates!Unlisted
      BY <2>1, <2>4, FateCases DEF fateBar, Listed
    <3>4. FateOf(r)' = Fates!Waiting(0)
      BY <3>2 DEF FateOf, Fates!Waiting, Open
    <3>5. Fates!List(r)
      BY <3>2, <3>3, <3>4 DEF Fates!List, fateBar
    <3>. QED BY <2>1, <3>5 DEF Fates!Next
  <2>. QED BY <2>3, <2>4
<1>3. ASSUME NEW r \in RowIds, ItemSettles(r) \/ ItemFails(r)
      PROVE  Fates!Next
  <2>1. remote[r].state \in Open /\ remote[r] \in Row
    BY <1>3, ItemSteps DEF IInv, TypeOK, Row
  <2>2. fateBar[r] = Fates!Waiting(remote[r].attempts)
    BY <2>1, FateCases DEF fateBar
  <2>3. CASE \E s \in {"settled", "skipped"} : remote' = [remote EXCEPT ![r].state = s]
    <3>. PICK s \in {"settled", "skipped"} : remote' = [remote EXCEPT ![r].state = s]
      BY <2>3
    <3>. DEFINE row == [remote[r] EXCEPT !.state = s]
    <3>1. remote' = [remote EXCEPT ![r] = row] /\ row.state = s
      BY <2>1 DEF Row
    <3>. HIDE DEF row
    <3>2. fateBar' = [fateBar EXCEPT ![r] = FateOf(r)'] /\ remote'[r].state = s
      BY <3>1, OneFate
    <3>3. FateOf(r)' = Fates!Settled
      BY <3>2 DEF FateOf, Fates!Settled, Open
    <3>4. Fates!Settle(r)
      BY <2>2, <3>2, <3>3 DEF Fates!Settle, Fates!Waiting, fateBar
    <3>. QED BY <3>4 DEF Fates!Next
  <2>4. CASE remote' = [remote EXCEPT ![r] = Failed(remote[r])]
    <3>. DEFINE n == remote[r].attempts + 1
    <3>1. /\ fateBar' = [fateBar EXCEPT ![r] = FateOf(r)']
          /\ remote'[r] = Failed(remote[r])
      BY <2>4, OneFate
    <3>2. FateOf(r)' = IF n = Tries THEN Fates!Gone ELSE Fates!Waiting(n)
      <4>1. CASE n = Tries
        <5>1. remote'[r] = [state |-> "gone", attempts |-> Tries]
          BY <2>1, <3>1, <4>1, FailedRow
        <5>. QED BY <4>1, <5>1 DEF FateOf, Fates!Gone, Open
      <4>2. CASE n # Tries
        <5>1. remote'[r] = [state |-> "failed", attempts |-> n]
          BY <2>1, <3>1, <4>2, FailedRow
        <5>. QED BY <4>2, <5>1 DEF FateOf, Fates!Waiting, Open
      <4>. QED BY <4>1, <4>2
    <3>3. fateBar[r].state = "open" /\ fateBar[r].failures + 1 = n
      BY <2>2 DEF Fates!Waiting
    <3>. HIDE DEF n
    <3>4. fateBar' = [fateBar EXCEPT ![r] = IF n = Tries THEN Fates!Gone
                                                         ELSE Fates!Waiting(n)]
      BY <3>1, <3>2
    <3>5. Fates!Fail(r)
      BY <3>3, <3>4 DEF Fates!Fail, fateBar
    <3>. QED BY <3>5 DEF Fates!Next
  <2>. QED BY <1>3, <2>3, <2>4, ItemSteps
<1>4. \/ UNCHANGED remote \/ ListItem
      \/ \E r \in RowIds : ItemSettles(r) \/ ItemFails(r)
  BY DEF vars, Next, EngineStep, Publish, Enable, Redeploy, StartRun, Probe,
         SkipAdapter, AdapterFails, ChainFails, ListEnd, UpToDate, PlanSlice, Finish,
         Refused, Unavailable, Aborted, Crash
<1>. QED BY <1>1, <1>2, <1>3, <1>4

\* The index of remote items keeps what ItemFate promises - recorded once, tried
\* until settled or failed Tries times, never back from a decision - whatever
\* lists, fetches, fails or crashes (sync.py:434-485, 629-667).
THEOREM FatesRefined == Spec => ImplementsFates
<1>1. Init => Fates!Init
  <2>. SUFFICES ASSUME Init PROVE Fates!Init
    OBVIOUS
  <2>1. \A r \in RowIds : remote[r].state = "unlisted"
    BY DEF Init, Unlisted
  <2>. QED BY <2>1, FateCases DEF Fates!Init
<1>2. IInv /\ [Next]_vars => [Fates!Next]_fateBar
  BY FateSteps
<1>. QED BY <1>1, <1>2, Invariance, PTL DEF Spec, Fates!Spec, ImplementsFates, fateBar

-----------------------------------------------------------------------------
(* plan_run at the settings of an installation: what PacingProofs proves    *)
(* for any settings, of the instance of Pacing that MCDiscovery makes.      *)

Plan == INSTANCE PacingProofs WITH
  MinDelay <- 4000, MaxDelay <- 15000, ItemsPerRun <- 25, PaceThreshold <- 5,
  RampRuns <- 6

\* The two instances are of the same operators.
LEMMA SameBudget ==
  ASSUME NEW b, NEW new
  PROVE  Plan!Budget(b, new) = Default!Budget(b, new)
BY SMT
DEF Plan!Budget, Default!Budget, Plan!Ceiling, Default!Ceiling, Plan!Ramp, Default!Ramp,
    Plan!CeilDiv, Default!CeilDiv, Plan!AtMost, Default!AtMost, Plan!AtLeast,
    Default!AtLeast

LEMMA SameRange == Plan!Low = Default!Low /\ Plan!High = Default!High
BY SMT
DEF Plan!Low, Default!Low, Plan!High, Default!High, Plan!AtMost, Default!AtMost,
    Plan!AtLeast, Default!AtLeast

LEMMA SameDelay ==
  ASSUME NEW b, NEW new, NEW fav, NEW f
  PROVE  Plan!Delay(b, new, fav, f) = Default!Delay(b, new, fav, f)
<1>1. Plan!ScaledDelay(b, new, fav) = Default!ScaledDelay(b, new, fav)
  BY SMT, SameRange
  DEF Plan!ScaledDelay, Default!ScaledDelay, Plan!Weight, Default!Weight,
      Plan!Saturation, Default!Saturation, Plan!Paced, Default!Paced,
      Plan!AtMost, Default!AtMost, Plan!AtLeast, Default!AtLeast
<1>. QED BY <1>1, SMT
         DEF Plan!Delay, Default!Delay, Plan!Backoff, Default!Backoff, Plan!AtMost,
             Default!AtMost

LEMMA SamePauses ==
  ASSUME NEW d, NEW n
  PROVE  /\ Plan!RequeueBase(n, d) = Default!RequeueBase(n, d)
         /\ Plan!LongestPause(d, n) = Default!LongestPause(d, n)
BY SMT
DEF Plan!RequeueBase, Default!RequeueBase, Plan!LongestPause, Default!LongestPause,
    Plan!AtMost, Default!AtMost, Plan!AtLeast, Default!AtLeast

LEMMA SamePlan ==
  ASSUME NEW b, NEW new
  PROVE  /\ Plan!SlowerWithMore(b, new) => Default!SlowerWithMore(b, new)
         /\ \A ratio, lease : Plan!PausesFitLease(b, new, ratio, lease)
                                => Default!PausesFitLease(b, new, ratio, lease)
         /\ Plan!SpreadIsRuns(b, new) => Default!SpreadIsRuns(b, new)
         /\ Plan!BlockLength => Default!BlockLength
<1>1. Plan!SlowerWithMore(b, new) => Default!SlowerWithMore(b, new)
  BY SameBudget, SameDelay, SamePauses, SameRange, Zenon
  DEF Plan!SlowerWithMore, Default!SlowerWithMore
<1>2. ASSUME NEW ratio, NEW lease, Plan!PausesFitLease(b, new, ratio, lease)
      PROVE  Default!PausesFitLease(b, new, ratio, lease)
  BY <1>2, SameDelay, SamePauses, Zenon DEF Plan!PausesFitLease, Default!PausesFitLease
<1>3. Plan!SpreadIsRuns(b, new) => Default!SpreadIsRuns(b, new)
  <2>1. Plan!Runs(b) = Default!Runs(b)
    BY SMT
    DEF Plan!Runs, Default!Runs, Plan!Budget, Default!Budget, Plan!Ceiling,
        Default!Ceiling, Plan!Ramp, Default!Ramp, Plan!CeilDiv, Default!CeilDiv,
        Plan!AtMost, Default!AtMost, Plan!AtLeast, Default!AtLeast
  <2>2. \A c, n : Plan!Spread(c, n) = Default!Spread(c, n)
    BY SameBudget, SMT
    DEF Plan!Spread, Default!Spread, Plan!CeilDiv, Default!CeilDiv, Plan!AtLeast,
        Default!AtLeast
  <2>3. Plan!Ramp = Default!Ramp
    BY SMT DEF Plan!Ramp, Default!Ramp, Plan!AtLeast, Default!AtLeast
  <2>. QED BY <2>1, <2>2, <2>3, SameBudget, Zenon
           DEF Plan!SpreadIsRuns, Default!SpreadIsRuns
<1>4. Plan!BlockLength => Default!BlockLength
  BY SMT DEF Plan!BlockLength, Default!BlockLength, Plan!InBlock, Default!InBlock
<1>. QED BY <1>1, <1>2, <1>3, <1>4

\* The settings of the installation are of the kind that PacingProofs asks for, and
\* its longest pause is 11.6 minutes.
LEMMA PlanAtDefaults ==
  ASSUME NEW b \in Nat \ {0}, NEW new \in BOOLEAN, NEW lease \in Int, 696000 < lease
  PROVE  /\ Default!SlowerWithMore(b, new)
         /\ Default!PausesFitLease(b, new, 45, lease)
         /\ Default!SpreadIsRuns(b, new)
         /\ Default!BlockLength
<1>1. Plan!SlowerWithMore(b, new)
  BY Plan!SlowerAlways, SMT
<1>2. Plan!PausesFitLease(b, new, 45, lease)
  <2>1. Plan!LongestPause(Plan!AtLeast(Plan!High, 4 * 15000), 45) < lease
    BY SMT DEF Plan!LongestPause, Plan!AtLeast, Plan!AtMost, Plan!High
  <2>. QED BY <2>1, Plan!LeaseFits, SMT
<1>3. Plan!SpreadIsRuns(b, new) /\ Plan!BlockLength
  BY Plan!SpreadAlways, Plan!BlockAlways, SMT
<1>. QED BY <1>1, <1>2, <1>3, SamePlan, SMT

\* At the default settings plan_run keeps its promises for every state in which an
\* account's first posts are to come: a bigger backlog is never fetched faster, no
\* pause reaches the lease, the work is spread as planned (pacing.py:3-17).
THEOREM PlanAlways == Spec => []PlanSound
<1>1. TypeOK => PlanSound
  <2>. SUFFICES ASSUME TypeOK PROVE PlanSound
    OBVIOUS
  <2>1. fresh \in BOOLEAN
    BY DEF TypeOK
  <2>2. MaxBacklog \in Nat \ {0} /\ \A b \in 1 .. MaxBacklog : b \in Nat \ {0}
    BY SMT DEF MaxBacklog
  <2>. QED BY <2>1, <2>2, PlanAtDefaults, SMT DEF PlanSound
<1>. QED BY <1>1, TypeCorrect, PTL
=============================================================================
