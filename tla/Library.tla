------------------------------ MODULE Library -------------------------------
(***************************************************************************)
(* What is derived from one account's media_files: the counters on the     *)
(* account, which triggers keep by increments, and the zip bundles, which  *)
(* are cached under a digest of the rows.  Archive has the rows themselves *)
(* - hashes, duplicates, provenance - and the engine's and the scan's way  *)
(* of writing them; here a row is what a counter or a bundle reads of it.  *)
(*                                                                         *)
(* Abstractions.  A path is its rank in the order of a walk and of a zip.  *)
(* A file is its version, which stands for its (bytes, mtime_ns); 0 is no  *)
(* media file.  A scan and a build each run inside one BEGIN IMMEDIATE, so *)
(* they exclude each other and every other writer, but not the user's work *)
(* in the folder.  Rows are neither deleted nor moved to another account,  *)
(* except with their account.  A row without a hash, and a rehashing scan, *)
(* are hashed although size and mtime agree: which rows is left open.      *)
(***************************************************************************)
EXTENDS Naturals, Sequences, FiniteSets, FiniteSetsExt

CONSTANTS
  NPaths,     \* paths in the account folder
  Types,      \* image, video, other
  TypeOf,     \* classify: the scanner's type of a path, by its extension
  NVersions,  \* bound: versions of files
  SizeOf,     \* their bytes
  Clients,    \* requests for a bundle
  Wants,      \* the parts that may be asked for: all, photos/, videos/
  Keep,       \* zips the cache keeps (12)
  Limit,      \* MAX_BUNDLE_BYTES
  MaxEdits,   \* bound: files written, removed, restored or forgotten
  MaxRequests, MaxFaults, MaxScans   \* bounds

Paths == 1 .. NPaths
Versions == 1 .. NVersions

ASSUME LibraryAssumption ==
  /\ NPaths \in Nat /\ NVersions \in Nat /\ Limit \in Nat
  /\ TypeOf \in [Paths -> Types]
  /\ SizeOf \in [Versions -> Nat]
  /\ Wants \subseteq SUBSET Paths
  /\ Keep \in Nat \ {0} /\ Clients # {}
  /\ MaxEdits \in Nat /\ MaxRequests \in Nat /\ MaxFaults \in Nat /\ MaxScans \in Nat

VARIABLES
  disk,     \* the version at each path, or 0
  next,     \* versions written so far
  media,    \* media_files, by rel_path
  tally,    \* image_count, video_count, other_count, total_bytes of the account
  raw,      \* path of a request for a file that found none, or 0
  scan,     \* the scan in progress, with what it has not committed
  build,    \* the bundle being written
  cache,    \* the zips under bundle_cache_dir, newest first
  resp,     \* FileResponses prepared and not opened, by client
  served,   \* history: the bundle sent last
  edits, requests, faults, scans   \* counted against their bounds

vars == <<disk, next, media, tally, raw, scan, build, cache, resp, served,
          edits, requests, faults, scans>>

Rows == [there : BOOLEAN, type : Types, stamp : 0 .. NVersions,
         missing : BOOLEAN, deleted : BOOLEAN]

NoRow(p) == [there |-> FALSE, type |-> TypeOf[p], stamp |-> 0,
             missing |-> FALSE, deleted |-> FALSE]

Tallies == [count : [Types -> Nat], bytes : Nat]
Zero == [count |-> [t \in Types |-> 0], bytes |-> 0]

NoFiles == [p \in Paths |-> 0]
Inventories == [Paths -> 0 .. NVersions]

NoScan == [pc |-> "off", at |-> 1, listed |-> {}, seen |-> {},
           rows |-> [p \in Paths |-> NoRow(p)], tally |-> Zero]

NoKey == [want |-> {}, inv |-> NoFiles]
NoBuild == [pc |-> "off", client |-> CHOOSE c \in Clients : TRUE, key |-> NoKey,
            asked |-> NoFiles, at |-> 1, files |-> NoFiles, drift |-> {}]
NoResp == [pc |-> "none", key |-> NoKey, asked |-> NoFiles]
NoServed == [asked |-> NoFiles, want |-> {}, files |-> NoFiles, drift |-> {}]

-----------------------------------------------------------------------------
(* The triggers on media_files.                                            *)

Counted(r) == r.there /\ ~r.deleted

\* MAX(0, a - b)
Less(a, b) == IF b > a THEN 0 ELSE a - b

Bytes(r) == IF r.stamp = 0 THEN 0 ELSE SizeOf[r.stamp]

Without(t, r) ==
  IF Counted(r)
    THEN [count |-> [t.count EXCEPT ![r.type] = Less(@, 1)],
          bytes |-> Less(t.bytes, Bytes(r))]
    ELSE t

With(t, r) ==
  IF Counted(r)
    THEN [count |-> [t.count EXCEPT ![r.type] = @ + 1],
          bytes |-> t.bytes + Bytes(r)]
    ELSE t

\* Mutants of Fires: retyping, or a new size, goes unnoticed.
BugFiresType(old, new) ==
  IF old.there
    THEN Bytes(old) # Bytes(new) \/ old.deleted # new.deleted
    ELSE ~new.deleted
BugFiresSize(old, new) ==
  IF old.there
    THEN old.type # new.type \/ old.deleted # new.deleted
    ELSE ~new.deleted

\* The WHEN clauses of trg_media_after_update and trg_media_after_insert.
Fires(old, new) ==
  IF old.there
    THEN \/ old.type # new.type \/ Bytes(old) # Bytes(new)
         \/ old.deleted # new.deleted
    ELSE ~new.deleted

Tallied(t, old, new) ==
  IF Fires(old, new) THEN With(Without(t, old), new) ELSE t

-----------------------------------------------------------------------------
(* The folder.                                                             *)

Edited == edits < MaxEdits /\ edits' = edits + 1

PutFile(p) ==
  /\ Edited /\ next < NVersions
  /\ next' = next + 1
  /\ disk' = [disk EXCEPT ![p] = next + 1]
  /\ UNCHANGED <<media, tally, raw, scan, build, cache, resp, served,
                 requests, faults, scans>>

RemoveFile(p) ==
  /\ Edited /\ disk[p] # 0
  /\ disk' = [disk EXCEPT ![p] = 0]
  /\ UNCHANGED <<next, media, tally, raw, scan, build, cache, resp, served,
                 requests, faults, scans>>

\* A removed file comes back as it was indexed, from a backup or a volume.
RestoreFile(p) ==
  /\ Edited /\ disk[p] = 0 /\ media[p].there
  /\ disk' = [disk EXCEPT ![p] = media[p].stamp]
  /\ UNCHANGED <<next, media, tally, raw, scan, build, cache, resp, served,
                 requests, faults, scans>>

-----------------------------------------------------------------------------
(* Writers of single rows.                                                 *)

\* SQLite has one writer; scan and build are one from their first to last step.
Unlocked == scan.pc = "off" /\ build.pc = "off"

Write(p, r) ==
  /\ Unlocked
  /\ media' = [media EXCEPT ![p] = r]
  /\ tally' = Tallied(tally, media[p], r)
  /\ UNCHANGED <<disk, next, scan, build, cache, resp, served, requests,
                 faults, scans>>

\* _index_media of a fetched or adopted file, with the type its adapter gave.
\* Where the path has a row the insert is refused, and only the provenance of
\* that row changes.
IndexMedia(p, t) ==
  /\ disk[p] # 0 /\ ~media[p].there
  /\ Write(p, [NoRow(p) EXCEPT !.there = TRUE, !.type = t, !.stamp = disk[p]])
  /\ UNCHANGED <<raw, edits>>

\* forget_media
Forget(p) ==
  /\ media[p].there /\ ~media[p].deleted
  /\ Write(p, [media[p] EXCEPT !.deleted = TRUE])
  /\ Edited /\ UNCHANGED raw

\* get_raw_media finds no file, and then waits for the write lock.
RawFindsNone(p) ==
  /\ raw = 0 /\ media[p].there /\ disk[p] = 0
  /\ raw' = p
  /\ UNCHANGED <<disk, next, media, tally, scan, build, cache, resp, served,
                 edits, requests, faults, scans>>

RawMarks ==
  /\ raw # 0
  /\ Write(raw, [media[raw] EXCEPT !.missing = TRUE])
  /\ raw' = 0 /\ UNCHANGED edits

-----------------------------------------------------------------------------
(* The scan of the account.                                                *)

ScanStart ==
  /\ Unlocked /\ scans < MaxScans
  /\ scan' = [NoScan EXCEPT !.pc = "walk", !.rows = media, !.tally = tally,
                            !.listed = {p \in Paths : disk[p] # 0}]
  /\ scans' = scans + 1
  /\ UNCHANGED <<disk, next, media, tally, raw, build, cache, resp, served,
                 edits, requests, faults>>

Walking(p) == scan.pc = "walk" /\ scan.at = p
Visible(p) == p \in scan.listed /\ disk[p] # 0
Unchanged(p) == media[p].there /\ media[p].stamp = disk[p]

Visit(p, r) ==
  /\ scan' = [scan EXCEPT !.at = p + 1, !.seen = @ \cup {p}, !.rows[p] = r,
                          !.tally = Tallied(@, scan.rows[p], r)]
  /\ UNCHANGED <<disk, next, media, tally, raw, build, cache, resp, served,
                 edits, requests, faults, scans>>

VisitNothing(p) ==
  /\ Walking(p) /\ ~Visible(p)
  /\ scan' = [scan EXCEPT !.at = p + 1]
  /\ UNCHANGED <<disk, next, media, tally, raw, build, cache, resp, served,
                 edits, requests, faults, scans>>

\* The row is trusted; a tombstone is cleared.
VisitTrusted(p) ==
  /\ Walking(p) /\ Visible(p) /\ Unchanged(p)
  /\ Visit(p, [scan.rows[p] EXCEPT !.missing = FALSE, !.deleted = FALSE])

\* Hashed: inserted, or updated in everything, its type included.
VisitHashed(p) ==
  /\ Walking(p) /\ Visible(p)
  /\ Visit(p, [NoRow(p) EXCEPT !.there = TRUE, !.stamp = disk[p]])

\* The index may refuse to clear a tombstone (Archive's ScanAborts): rollback.
ScanAborts(p) ==
  /\ Walking(p) /\ Visible(p) /\ Unchanged(p) /\ media[p].deleted
  /\ scan' = NoScan
  /\ UNCHANGED <<disk, next, media, tally, raw, build, cache, resp, served,
                 edits, requests, faults, scans>>

Vanished(p) == scan.rows[p].there /\ p \notin scan.seen

ScanEnd ==
  /\ scan.pc = "walk" /\ scan.at = NPaths + 1
  /\ media' = [p \in Paths |-> [scan.rows[p] EXCEPT !.missing = @ \/ Vanished(p)]]
  /\ tally' = scan.tally
  /\ scan' = NoScan
  /\ UNCHANGED <<disk, next, raw, build, cache, resp, served, edits, requests,
                 faults, scans>>

-----------------------------------------------------------------------------
(* Bundles.                                                                *)

Present(p) == media[p].there /\ ~media[p].deleted /\ ~media[p].missing

\* _inventory: what the digest is taken of.
Inventory == [p \in Paths |-> IF Present(p) THEN media[p].stamp ELSE 0]

\* Mutant of Key: the digest leaves size and mtime out.
BugKey(want) ==
  [want |-> want,
   inv |-> [p \in Paths |-> IF Inventory[p] = 0 THEN 0 ELSE 1]]

\* The name of the zip: the digest of all present files, and the part asked for.
Key(want) == [want |-> want, inv |-> Inventory]

Held(inv, want) == {p \in want : inv[p] # 0}

Fits(want) ==
  MapThenSumSet(LAMBDA p : SizeOf[Inventory[p]], Held(Inventory, want)) <= Limit

Cached(key) == {i \in DOMAIN cache : cache[i].key = key}

Ready(key, asked) == [pc |-> "ready", key |-> key, asked |-> asked]

\* build_bundle up to the cache: above the limit it answers 413.
Asks(c, want) ==
  /\ Unlocked /\ resp[c] = NoResp /\ requests < MaxRequests
  /\ Fits(want)
  /\ requests' = requests + 1

\* A hit counts the rows; none is answered with 404.
AskHit(c, want) ==
  /\ Asks(c, want)
  /\ Cached(Key(want)) # {} /\ Held(Inventory, want) # {}
  /\ resp' = [resp EXCEPT ![c] = Ready(Key(want), Inventory)]
  /\ UNCHANGED <<disk, next, media, tally, raw, scan, build, cache, served,
                 edits, faults, scans>>

AskMiss(c, want) ==
  /\ Asks(c, want)
  /\ Cached(Key(want)) = {}
  /\ build' = [NoBuild EXCEPT !.pc = "zip", !.client = c, !.key = Key(want),
                              !.asked = Inventory]
  /\ UNCHANGED <<disk, next, media, tally, raw, scan, cache, resp, served,
                 edits, faults, scans>>

\* One file of the inventory goes into the .zip.partial, if it is there.
ZipFile ==
  /\ build.pc = "zip" /\ build.at <= NPaths
  /\ LET p == build.at IN
       build' =
         IF p \in Held(build.asked, build.key.want)
           THEN [build EXCEPT !.at = @ + 1, !.files[p] = disk[p],
                   !.drift = IF disk[p] = build.asked[p] THEN @ ELSE @ \cup {p}]
           ELSE [build EXCEPT !.at = @ + 1]
  /\ UNCHANGED <<disk, next, media, tally, raw, scan, cache, resp, served,
                 edits, requests, faults, scans>>

Zip == [key |-> build.key, files |-> build.files, drift |-> build.drift]

\* Mutant of Kept: one too many stays.
BugKept(zips) == IF Len(zips) <= Keep THEN zips ELSE SubSeq(zips, 1, Keep + 1)

\* _prune_cache: by mtime, newest first.
Kept(zips) == IF Len(zips) <= Keep THEN zips ELSE SubSeq(zips, 1, Keep)

\* The rename into the cache, the pruning, the commit; a zip of no file is kept
\* too, and answered with 404.
ZipEnd ==
  /\ build.pc = "zip" /\ build.at = NPaths + 1
  /\ cache' = Kept(<<Zip>> \o cache)
  /\ build' = NoBuild
  /\ resp' = [resp EXCEPT ![build.client] =
                IF build.files = NoFiles THEN NoResp
                                         ELSE Ready(build.key, build.asked)]
  /\ UNCHANGED <<disk, next, media, tally, raw, scan, served, edits, requests,
                 faults, scans>>

\* FileResponse opens the path after the commit: a zip pruned since then is an
\* error to the client.
Open(c) ==
  /\ resp[c].pc = "ready"
  /\ resp' = [resp EXCEPT ![c] = NoResp]
  /\ \/ /\ Cached(resp[c].key) = {}
        /\ UNCHANGED served
     \/ \E i \in Cached(resp[c].key) :
          served' = [asked |-> resp[c].asked, want |-> resp[c].key.want,
                     files |-> cache[i].files, drift |-> cache[i].drift]
  /\ UNCHANGED <<disk, next, media, tally, raw, scan, build, cache, edits,
                 requests, faults, scans>>

Fault == faults < MaxFaults /\ faults' = faults + 1

\* An OSError while zipping: rollback, and the .partial stays behind.
ZipFails ==
  /\ build.pc = "zip"
  /\ Fault
  /\ build' = NoBuild
  /\ UNCHANGED <<disk, next, media, tally, raw, scan, cache, resp, served,
                 edits, requests, scans>>

\* Mutant of CacheAfterCrash: the zip is written under its final name.
BugCacheAfterCrash == IF build.pc = "zip" THEN Kept(<<Zip>> \o cache) ELSE cache

\* A .zip.partial is no hit, and is overwritten by the next build of its name.
CacheAfterCrash == cache

\* The backend dies: transactions roll back, requests are gone.
Crash ==
  /\ Fault
  /\ scan' = NoScan /\ build' = NoBuild /\ raw' = 0
  /\ resp' = [c \in Clients |-> NoResp]
  /\ cache' = CacheAfterCrash
  /\ UNCHANGED <<disk, next, media, tally, served, edits, requests, scans>>

-----------------------------------------------------------------------------
Init ==
  /\ disk = NoFiles /\ next = 0
  /\ media = [p \in Paths |-> NoRow(p)] /\ tally = Zero
  /\ raw = 0 /\ scan = NoScan /\ build = NoBuild /\ cache = <<>>
  /\ resp = [c \in Clients |-> NoResp] /\ served = NoServed
  /\ edits = 0 /\ requests = 0 /\ faults = 0 /\ scans = 0

Next ==
  \/ \E p \in Paths : PutFile(p) \/ RemoveFile(p) \/ RestoreFile(p)
  \/ \E p \in Paths, t \in Types : IndexMedia(p, t)
  \/ \E p \in Paths : Forget(p) \/ RawFindsNone(p)
  \/ RawMarks
  \/ ScanStart
  \/ \E p \in Paths : \/ VisitNothing(p) \/ VisitTrusted(p)
                      \/ VisitHashed(p) \/ ScanAborts(p)
  \/ ScanEnd
  \/ \E c \in Clients, w \in Wants : AskHit(c, w) \/ AskMiss(c, w)
  \/ ZipFile \/ ZipEnd \/ ZipFails
  \/ \E c \in Clients : Open(c)
  \/ Crash

Spec == Init /\ [][Next]_vars

-----------------------------------------------------------------------------
(* Properties.                                                             *)

Keys == [want : SUBSET Paths, inv : Inventories]
Zips == [key : Keys, files : Inventories, drift : SUBSET Paths]

\* Every variable has its type: a file or row that is there has a version that
\* was written, and the cache keeps no more than Keep zips.
TypeOK ==
  /\ next \in 0 .. NVersions
  /\ disk \in [Paths -> 0 .. next]
  /\ media \in [Paths -> Rows] /\ tally \in Tallies
  /\ \A p \in Paths : media[p].stamp <= next /\ (media[p].stamp # 0 <=> media[p].there)
  /\ raw \in 0 .. NPaths /\ (raw # 0 => media[raw].there)
  /\ scan \in [pc : {"off", "walk"}, at : 1 .. NPaths + 1, listed : SUBSET Paths,
               seen : SUBSET Paths, rows : [Paths -> Rows], tally : Tallies]
  /\ \A p \in Paths :
       scan.rows[p].stamp <= next /\ (scan.rows[p].stamp # 0 <=> scan.rows[p].there)
  /\ build \in [pc : {"off", "zip"}, client : Clients, key : Keys,
                asked : Inventories, at : 1 .. NPaths + 1, files : Inventories,
                drift : SUBSET Paths]
  /\ cache \in Seq(Zips) /\ Len(cache) <= Keep
  /\ resp \in [Clients -> [pc : {"none", "ready"}, key : Keys, asked : Inventories]]
  /\ served \in [asked : Inventories, want : SUBSET Paths, files : Inventories,
                 drift : SUBSET Paths]
  /\ edits \in 0 .. MaxEdits /\ requests \in 0 .. MaxRequests
  /\ faults \in 0 .. MaxFaults /\ scans \in 0 .. MaxScans

OfType(rows, t) == {p \in Paths : Counted(rows[p]) /\ rows[p].type = t}

\* image_count, video_count and other_count are what a recount of the rows that
\* are not forgotten would give (0002_triggers.sql:1-7 has it: increments, never
\* a recount), after any order of inserts, retypings, tombstones, revivals and
\* rolled back scans; no MAX(0, ...) ever hides a loss.
CountsExact ==
  \A t \in Types : tally.count[t] = Cardinality(OfType(media, t))

\* The same of total_bytes, when files change their size, or their size alone.
BytesExact ==
  tally.bytes = MapThenSumSet(LAMBDA p : Bytes(media[p]),
                              {p \in Paths : Counted(media[p])})

\* A bundle that is sent has every file its rows had when it was asked for, in
\* that version, except where the folder differed from the rows while the zip
\* was written: whatever was cached, evicted, rebuilt or cut short by a crash
\* (bundler.py:10-13, and the .partial of 105).
ServedAsIndexed ==
  \A p \in Held(served.asked, served.want) :
    served.files[p] = served.asked[p] \/ p \in served.drift

\* Sent bundles are of the folder as it is and as it is indexed, if these two
\* agree: "an unchanged account reuses the existing zip and a changed one misses
\* the cache automatically [...] no stale downloads" (bundler.py:11-13).
NoStaleDownloads ==
  [][\A c \in Clients :
       /\ resp[c].pc = "ready" /\ served' # served
       /\ \A p \in Paths : disk[p] = Inventory[p]
       /\ resp[c].asked = Inventory
       => served'.files = [p \in Paths |->
                             IF p \in served'.want THEN disk[p] ELSE 0]]_vars
=============================================================================
