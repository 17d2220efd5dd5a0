------------------------------ MODULE Archive -------------------------------
(***************************************************************************)
(* One account's folder under /archive and the two tables that index it:   *)
(* media_files (what is there) and remote_index (what the source has).     *)
(* Four parties work on them at once: the sync engine, one item at a time  *)
(* with a transaction between two file operations; the archive scan, which *)
(* walks the folder inside a single write transaction; the user, who adds, *)
(* replaces, removes and restores files under both; and the API.           *)
(*                                                                         *)
(* Abstractions.  A path is its rank in the scan's sorted walk.  Bytes are *)
(* a model value that is also their SHA-256.  (bytes, mtime_ns) is a stamp *)
(* that only says whether two observations of one path are the same file.  *)
(* Rows are kept by path: (account_id, rel_path) is unique and no handler  *)
(* deletes a row or changes its path.  One engine runs at a time: of one   *)
(* job type there is no more (JobQueue's ExclusiveRun).  Accounts share    *)
(* nothing but the write lock.  A scan's stat precedes its hash, so what   *)
(* is written in between is a new stamp, and the next scan hashes again:   *)
(* both are one step here.  A missing folder and unreadable files leave    *)
(* the rows alone and are left out.                                        *)
(***************************************************************************)
EXTENDS Naturals, FiniteSets

CONSTANTS
  Items,      \* remote items the source may list
  Contents,   \* bytes
  NPaths,     \* paths in the account folder
  PathOf,     \* _target_path of an item
  BodyOf,     \* the bytes the source serves for it
  Hinted,     \* items listed with their SHA-256
  Tries,      \* failures after which an item is given up (4)
  None,
  MaxEdits,   \* bound: file operations and forget requests of the user
  MaxFaults,  \* bound: aborted runs and crashes
  MaxScans    \* bound: scans

Paths == 1 .. NPaths
Stamps == 0 .. 5    \* of one path: on disk, in its row, with the run, twice with
                    \* the scan, and a new one

ASSUME ArchiveAssumption ==
  /\ NPaths \in Nat /\ Tries \in Nat \ {0}
  /\ PathOf \in [Items -> Paths]
  /\ \A i, k \in Items : PathOf[i] = PathOf[k] => i = k
  /\ BodyOf \in [Items -> Contents]
  /\ Hinted \subseteq Items
  /\ None \notin Contents \cup Items
  /\ MaxEdits \in Nat /\ MaxFaults \in Nat /\ MaxScans \in Nat

VARIABLES
  disk,    \* the files, by path
  raw,     \* path of a request for a file that found none, or 0
  parts,   \* paths whose download is in a .part file
  media,   \* media_files, by rel_path
  remote,  \* remote_index, by item
  eng,     \* the run in progress: its work list, caches and current item
  scan,    \* the scan in progress, which holds the write lock
  edits, faults, scans,   \* counted against their bounds
  owned    \* history: contents of live rows when the run read their hashes, and
           \* what it has put in place, or found there, since

vars == <<disk, raw, parts, media, remote, eng, scan, edits, faults, scans, owned>>

NoFile == [body |-> None, stamp |-> 0]
Files == {NoFile} \cup [body : Contents, stamp : Stamps]

Rows ==
  [hash : Contents \cup {None}, stamp : Stamps, item : Items \cup {None},
   dup : 0 .. NPaths,     \* duplicate_of, 0 for NULL
   there : BOOLEAN, missing : BOOLEAN, deleted : BOOLEAN,
   torn : BOOLEAN]        \* history: hash and stamp are of two different files

NoRow ==
  [hash |-> None, stamp |-> 0, item |-> None, dup |-> 0, there |-> FALSE,
   missing |-> FALSE, deleted |-> FALSE, torn |-> FALSE]

NewRow(f, i, torn) ==
  [NoRow EXCEPT !.there = TRUE, !.hash = f.body, !.stamp = f.stamp, !.item = i,
                !.torn = torn]

Settled == {"downloaded", "duplicate"}

Idle(pc) ==
  [pc |-> pc, todo |-> {}, hashes |-> {}, known |-> {}, item |-> None,
   file |-> NoFile, torn |-> FALSE, verdict |-> "none"]

NoScan(pc) ==
  [pc |-> pc, at |-> 1, rehash |-> FALSE, start |-> [p \in Paths |-> NoFile],
   seen |-> {}, rows |-> [p \in Paths |-> NoRow],
   edits |-> 0]           \* history: the user's edits before it

-----------------------------------------------------------------------------
(* The schema and the file system.                                         *)

\* idx_media_account_hash: the live rows, but for the one at p, with this hash.
Holders(rows, p, h) ==
  {q \in Paths \ {p} : rows[q].there /\ ~rows[q].deleted /\ rows[q].hash = h}

\* SQLite has one writer; the scan is one from its first row to its last.
Unlocked == scan.pc # "walk"

\* A write gives the path a size and mtime that nothing on record has.
NewStamp(p) ==
  CHOOSE s \in Stamps :
    s \notin {disk[p].stamp, media[p].stamp, scan.rows[p].stamp,
              scan.start[p].stamp, eng.file.stamp}

Written(p, c) == [disk EXCEPT ![p] = [body |-> c, stamp |-> NewStamp(p)]]

Names(i) == \E p \in Paths : media[p].there /\ media[p].item = i

-----------------------------------------------------------------------------
(* The user and the API.                                                   *)

Edited == edits < MaxEdits /\ edits' = edits + 1

PutFile(p, c) ==
  /\ disk' = Written(p, c)
  /\ Edited
  /\ UNCHANGED <<raw, parts, media, remote, eng, scan, faults, scans, owned>>

RemoveFile(p) ==
  /\ disk[p] # NoFile
  /\ disk' = [disk EXCEPT ![p] = NoFile]
  /\ Edited
  /\ UNCHANGED <<raw, parts, media, remote, eng, scan, faults, scans, owned>>

\* A removed file comes back as it was indexed, from a backup or the trash.
RestoreFile(p) ==
  /\ disk[p] = NoFile
  /\ media[p].there /\ media[p].hash # None /\ ~media[p].torn
  /\ disk' = [disk EXCEPT ![p] = [body |-> media[p].hash,
                                  stamp |-> media[p].stamp]]
  /\ Edited
  /\ UNCHANGED <<raw, parts, media, remote, eng, scan, faults, scans, owned>>

\* forget_media: the row is tombstoned, the file stays.
Forget(p) ==
  /\ Unlocked
  /\ media[p].there /\ ~media[p].deleted
  /\ media' = [media EXCEPT ![p].deleted = TRUE]
  /\ Edited
  /\ UNCHANGED <<raw, disk, parts, remote, eng, scan, faults, scans, owned>>

\* get_raw_media finds no file, and then waits for the write lock.
RawFindsNone(p) ==
  /\ raw = 0 /\ media[p].there /\ disk[p] = NoFile
  /\ raw' = p
  /\ UNCHANGED <<disk, parts, media, remote, eng, scan, edits, faults, scans, owned>>

RawMarks ==
  /\ raw # 0 /\ Unlocked
  /\ media' = [media EXCEPT ![raw].missing = TRUE]
  /\ raw' = 0
  /\ UNCHANGED <<disk, parts, remote, eng, scan, edits, faults, scans, owned>>

-----------------------------------------------------------------------------
(* The scan: a transaction that is rolled back when a statement raises.    *)

\* Every row and every file name is read at the start.
ScanStart(rehash) ==
  /\ Unlocked /\ scans < MaxScans
  /\ scan' = [NoScan("walk") EXCEPT !.rehash = rehash, !.start = disk,
                                    !.rows = media, !.edits = edits]
  /\ scans' = scans + 1
  /\ UNCHANGED <<raw, disk, parts, media, remote, eng, edits, faults, owned>>

Walking(p) == scan.pc = "walk" /\ scan.at = p

\* The stored size and mtime are the file's, and there is a hash to trust.
Unchanged(p) ==
  media[p].there /\ media[p].hash # None /\ media[p].stamp = disk[p].stamp

\* Listed and still there.
Visible(p) == scan.start[p] # NoFile /\ disk[p] # NoFile

VisitNothing(p) ==
  /\ Walking(p) /\ ~Visible(p)
  /\ scan' = [scan EXCEPT !.at = p + 1]
  /\ UNCHANGED <<raw, disk, parts, media, remote, eng, edits, faults, scans, owned>>

\* The tombstone of a trusted file is cleared, if the index allows.
Revives(p) ==
  media[p].deleted => Holders(scan.rows, p, media[p].hash) = {}

VisitTrusted(p) ==
  /\ Walking(p) /\ Visible(p) /\ Unchanged(p) /\ ~scan.rehash
  /\ Revives(p)
  /\ scan' = [scan EXCEPT !.at = p + 1, !.seen = @ \cup {p},
                !.rows[p].missing = FALSE, !.rows[p].deleted = FALSE]
  /\ UNCHANGED <<raw, disk, parts, media, remote, eng, edits, faults, scans, owned>>

\* That UPDATE is the one statement whose IntegrityError nobody catches.
ScanAborts(p) ==
  /\ Walking(p) /\ Visible(p) /\ Unchanged(p) /\ ~scan.rehash
  /\ ~Revives(p)
  /\ scan' = NoScan("aborted")
  /\ UNCHANGED <<raw, disk, parts, media, remote, eng, edits, faults, scans, owned>>

\* Mutant of Rehashed: a tombstone stays.
BugRehashedTomb(p) ==
  LET h == disk[p].body
      held == Holders(scan.rows, p, h)
  IN [media[p] EXCEPT
        !.there = TRUE, !.stamp = disk[p].stamp,
        !.hash = IF held = {} THEN h ELSE None,
        !.dup = IF held = {} THEN 0 ELSE CHOOSE q \in held : TRUE,
        !.missing = FALSE, !.torn = FALSE]

\* A new or changed file is hashed; if another live row has that hash, this one
\* goes without and points at it.
Rehashed(p) ==
  LET h == disk[p].body
      held == Holders(scan.rows, p, h)
  IN [media[p] EXCEPT
        !.there = TRUE, !.stamp = disk[p].stamp,
        !.hash = IF held = {} THEN h ELSE None,
        !.dup = IF held = {} THEN 0 ELSE CHOOSE q \in held : TRUE,
        !.missing = FALSE, !.deleted = FALSE, !.torn = FALSE]

VisitHashed(p) ==
  /\ Walking(p) /\ Visible(p) /\ (Unchanged(p) => scan.rehash)
  /\ scan' = [scan EXCEPT !.at = p + 1, !.seen = @ \cup {p},
                          !.rows[p] = Rehashed(p)]
  /\ UNCHANGED <<raw, disk, parts, media, remote, eng, edits, faults, scans, owned>>

\* Rows whose file was not seen are missing; commit.
Reconciled ==
  [p \in Paths |->
     [scan.rows[p] EXCEPT !.missing = @ \/ (scan.rows[p].there /\ p \notin scan.seen)]]

ScanEnd ==
  /\ scan.pc = "walk" /\ scan.at = NPaths + 1
  /\ media' = Reconciled
  /\ scan' = NoScan("off")
  /\ UNCHANGED <<raw, disk, parts, remote, eng, edits, faults, scans, owned>>

-----------------------------------------------------------------------------
(* The sync engine.                                                        *)

\* Mutant of Discover: a state the table does not have.
BugDiscover(i) ==
  /\ eng.pc = "off" /\ Unlocked
  /\ remote[i].state = "unlisted"
  /\ remote' = [remote EXCEPT ![i].state = "queued"]
  /\ UNCHANGED <<raw, disk, parts, media, eng, scan, edits, faults, scans, owned>>

\* _upsert_remote of an item not seen before; a known one keeps its state.
Discover(i) ==
  /\ eng.pc = "off" /\ Unlocked
  /\ remote[i].state = "unlisted"
  /\ remote' = [remote EXCEPT ![i].state = "pending"]
  /\ UNCHANGED <<raw, disk, parts, media, eng, scan, edits, faults, scans, owned>>

\* Mutant of Pending: rows are not looked at.
BugPending ==
  {i \in Items : /\ remote[i].state \in {"pending", "failed"}
                 /\ remote[i].attempts < Tries}

\* _pending_items
Pending ==
  {i \in Items : /\ remote[i].state \in {"pending", "failed"}
                 /\ remote[i].attempts < Tries
                 /\ ~Names(i)}

UpToDate ==
  /\ eng.pc = "off" /\ Pending = {}
  /\ UNCHANGED vars

\* The slice of this run is any part of the backlog.
Plan ==
  /\ eng.pc = "off"
  /\ \E slice \in SUBSET Pending \ {{}} :
       eng' = [Idle("planned") EXCEPT !.todo = slice]
  /\ UNCHANGED <<raw, disk, parts, media, remote, scan, edits, faults, scans, owned>>

\* Mutant of LiveHashes: tombstones are not left out.
BugLiveHashes == {media[p].hash : p \in {q \in Paths : media[q].there}} \ {None}

\* known_hashes and _indexed_remote_ids: read once, used for the whole run.
LiveHashes ==
  {media[p].hash : p \in {q \in Paths : media[q].there /\ ~media[q].deleted}} \ {None}

LiveItems ==
  {media[p].item : p \in {q \in Paths : media[q].there /\ ~media[q].deleted}} \ {None}

ReadHashes ==
  /\ eng.pc = "planned"
  /\ eng' = [eng EXCEPT !.pc = "hashed", !.hashes = LiveHashes]
  /\ owned' = {h \in Contents : Holders(media, 0, h) # {}}
  /\ UNCHANGED <<raw, disk, parts, media, remote, scan, edits, faults, scans>>

ReadKnown ==
  /\ eng.pc = "hashed"
  /\ eng' = [eng EXCEPT !.pc = "item", !.known = LiveItems]
  /\ UNCHANGED <<raw, disk, parts, media, remote, scan, edits, faults, scans, owned>>

\* Guards 1 and 2, against what the run read at its start.
AlreadyHeld(i) == i \in eng.known \/ (i \in Hinted /\ BodyOf[i] \in eng.hashes)

Concluding(i, verdict) ==
  [eng EXCEPT !.pc = "marking", !.item = i, !.verdict = verdict]

SkipHeld(i) ==
  /\ eng.pc = "item" /\ i \in eng.todo
  /\ AlreadyHeld(i)
  /\ eng' = Concluding(i, "duplicate")
  /\ UNCHANGED <<raw, disk, parts, media, remote, scan, edits, faults, scans, owned>>

\* Guard 3: the target is there already; hash it.
Adopt(i) ==
  /\ eng.pc = "item" /\ i \in eng.todo
  /\ ~AlreadyHeld(i) /\ disk[PathOf[i]] # NoFile
  /\ eng' = [eng EXCEPT !.pc = "placed", !.item = i, !.file = disk[PathOf[i]]]
  /\ owned' = owned \cup {disk[PathOf[i]].body}
  /\ UNCHANGED <<raw, disk, parts, media, remote, scan, edits, faults, scans>>

\* Guard 4: download into the .part file ...
Fetch(i) ==
  /\ eng.pc = "item" /\ i \in eng.todo
  /\ ~AlreadyHeld(i) /\ disk[PathOf[i]] = NoFile
  /\ parts' = parts \cup {PathOf[i]}
  /\ eng' = [eng EXCEPT !.pc = "fetching", !.item = i]
  /\ UNCHANGED <<raw, disk, media, remote, scan, edits, faults, scans, owned>>

\* ... and drop it if the bytes are known ...
DropKnown ==
  /\ eng.pc = "fetching" /\ BodyOf[eng.item] \in eng.hashes
  /\ parts' = parts \ {PathOf[eng.item]}
  /\ eng' = Concluding(eng.item, "duplicate")
  /\ UNCHANGED <<raw, disk, media, remote, scan, edits, faults, scans, owned>>

\* ... or rename it into place, over whatever is there by now ...
Rename ==
  /\ eng.pc = "fetching" /\ BodyOf[eng.item] \notin eng.hashes
  /\ PathOf[eng.item] \in parts
  /\ parts' = parts \ {PathOf[eng.item]}
  /\ disk' = Written(PathOf[eng.item], BodyOf[eng.item])
  /\ eng' = [eng EXCEPT !.pc = "placed", !.file = disk'[PathOf[eng.item]]]
  /\ owned' = owned \cup {BodyOf[eng.item]}
  /\ UNCHANGED <<raw, media, remote, scan, edits, faults, scans>>

\* ... unless the source fails it, or serves nothing.
FetchFails ==
  /\ eng.pc = "fetching"
  /\ parts' = parts \ {PathOf[eng.item]}
  /\ eng' = Concluding(eng.item, "failed")
  /\ UNCHANGED <<raw, disk, media, remote, scan, edits, faults, scans, owned>>

\* _index_media first takes the size and mtime of what is there by now, which
\* the user may have replaced since it was hashed ...
Stat ==
  /\ eng.pc = "placed" /\ disk[PathOf[eng.item]] # NoFile
  /\ LET f == disk[PathOf[eng.item]]
     IN eng' = [eng EXCEPT !.pc = "indexing", !.file.stamp = f.stamp,
                           !.torn = f.body # eng.file.body]
  /\ UNCHANGED <<raw, disk, parts, media, remote, scan, edits, faults, scans, owned>>

\* ... or removed, an OSError that ends the run.
StatFails ==
  /\ eng.pc = "placed" /\ disk[PathOf[eng.item]] = NoFile
  /\ eng' = Idle("off")
  /\ UNCHANGED <<raw, disk, parts, media, remote, scan, edits, faults, scans, owned>>

\* An index refuses the new row.
Refused(p, f) == media[p].there \/ Holders(media, p, f.body) # {}

\* Mutant of IndexedRows: the refused insert refreshes the stamp as well.
BugIndexedRows(p, i, f, torn) ==
  IF ~Refused(p, f) THEN [media EXCEPT ![p] = NewRow(f, i, torn)]
  ELSE IF media[p].there
  THEN [media EXCEPT ![p].item = IF @ = None THEN i ELSE @, ![p].stamp = f.stamp]
  ELSE media

\* _index_media: insert; if an index refuses it, add the provenance to the row
\* of that path, if there is one.
IndexedRows(p, i, f, torn) ==
  IF ~Refused(p, f) THEN [media EXCEPT ![p] = NewRow(f, i, torn)]
  ELSE IF media[p].there
  THEN [media EXCEPT ![p].item = IF @ = None THEN i ELSE @]
  ELSE media

Index ==
  /\ eng.pc = "indexing" /\ Unlocked
  /\ media' = IndexedRows(PathOf[eng.item], eng.item, eng.file, eng.torn)
  /\ eng' = IF eng.file.body \in eng.hashes
            THEN Concluding(eng.item, "duplicate")
            ELSE [Concluding(eng.item, "downloaded") EXCEPT
                    !.hashes = @ \cup {eng.file.body}, !.known = @ \cup {eng.item}]
  /\ UNCHANGED <<raw, disk, parts, remote, scan, edits, faults, scans, owned>>

\* Mutant of Marked: gives up one failure after the work list has.
BugMarked(r, verdict) ==
  [state |-> IF verdict = "failed" /\ r.attempts >= Tries THEN "gone" ELSE verdict,
   attempts |-> r.attempts + 1]

\* _mark_remote, and _fail_item, which gives up in the end.
Marked(r, verdict) ==
  [state |-> IF verdict = "failed" /\ r.attempts + 1 >= Tries THEN "gone" ELSE verdict,
   attempts |-> r.attempts + 1]

Mark ==
  /\ eng.pc = "marking" /\ Unlocked
  /\ remote' = [remote EXCEPT ![eng.item] = Marked(@, eng.verdict)]
  /\ eng' = [eng EXCEPT !.pc = "item", !.todo = @ \ {eng.item}, !.item = None,
                        !.file = NoFile, !.torn = FALSE, !.verdict = "none"]
  /\ UNCHANGED <<raw, disk, parts, media, scan, edits, faults, scans, owned>>

Finish ==
  /\ eng.pc = "item" /\ eng.todo = {}
  /\ eng' = Idle("off")
  /\ UNCHANGED <<raw, disk, parts, media, remote, scan, edits, faults, scans, owned>>

\* A cancellation, a refusal by the source, an OSError (a .part file that is
\* gone among them), a database locked for too long: the run is over, and a
\* download in progress takes its .part file with it.
Abort ==
  /\ eng.pc \notin {"down", "off"}
  /\ faults < MaxFaults /\ faults' = faults + 1
  /\ parts' = IF eng.pc = "fetching" THEN parts \ {PathOf[eng.item]} ELSE parts
  /\ eng' = Idle("off")
  /\ UNCHANGED <<raw, disk, media, remote, scan, edits, scans, owned>>

\* The one abort that needs no fault of its own.
PartGone ==
  /\ eng.pc = "fetching" /\ BodyOf[eng.item] \notin eng.hashes
  /\ PathOf[eng.item] \notin parts
  /\ eng' = Idle("off")
  /\ UNCHANGED <<raw, disk, parts, media, remote, scan, edits, faults, scans, owned>>

Crash ==
  /\ eng.pc # "down"
  /\ faults < MaxFaults /\ faults' = faults + 1
  /\ eng' = Idle("down")
  /\ UNCHANGED <<raw, disk, parts, media, remote, scan, edits, scans, owned>>

\* cleanup_partials, as this worker comes back or another one starts.
Restart ==
  /\ eng.pc = "down"
  /\ parts' = {}
  /\ eng' = Idle("off")
  /\ UNCHANGED <<raw, disk, media, remote, scan, edits, faults, scans, owned>>

OtherStarts ==
  /\ parts # {}
  /\ faults < MaxFaults /\ faults' = faults + 1
  /\ parts' = {}
  /\ UNCHANGED <<raw, disk, media, remote, eng, scan, edits, scans, owned>>

-----------------------------------------------------------------------------
Init ==
  /\ disk = [p \in Paths |-> NoFile]
  /\ raw = 0
  /\ parts = {}
  /\ media = [p \in Paths |-> NoRow]
  /\ remote = [i \in Items |-> [state |-> "unlisted", attempts |-> 0]]
  /\ eng = Idle("off")
  /\ scan = NoScan("off")
  /\ edits = 0 /\ faults = 0 /\ scans = 0
  /\ owned = {}

UserStep ==
  \E p \in Paths :
    \/ \E c \in Contents : PutFile(p, c)
    \/ RemoveFile(p) \/ RestoreFile(p) \/ Forget(p) \/ RawFindsNone(p)

ScanWalk ==
  \/ \E p \in Paths :
       VisitNothing(p) \/ VisitTrusted(p) \/ ScanAborts(p) \/ VisitHashed(p)
  \/ ScanEnd

EngineStep ==
  \/ \E i \in Items : Discover(i) \/ SkipHeld(i) \/ Adopt(i) \/ Fetch(i)
  \/ UpToDate \/ Plan \/ ReadHashes \/ ReadKnown
  \/ DropKnown \/ Rename \/ PartGone \/ Stat \/ StatFails \/ Index \/ Mark
  \/ Finish \/ Restart

Next ==
  \/ UserStep \/ RawMarks
  \/ \E rehash \in BOOLEAN : ScanStart(rehash)
  \/ ScanWalk \/ EngineStep
  \/ FetchFails \/ Abort \/ Crash \/ OtherStarts

Spec == Init /\ [][Next]_vars

\* The queue gives the account runs for ever (JobQueue: DueJobsMove) and a run
\* goes on while nothing stops it; a scan goes on to its end.  Users, faults
\* and the source owe nothing.
Fairness == WF_vars(ScanWalk) /\ WF_vars(EngineStep)

FairSpec == Spec /\ Fairness

-----------------------------------------------------------------------------
(* Properties.                                                             *)

\* Every variable has its type.
TypeOK ==
  /\ disk \in [Paths -> Files]
  /\ raw \in 0 .. NPaths
  /\ parts \in SUBSET Paths
  /\ media \in [Paths -> Rows]
  /\ remote \in [Items -> [state : {"unlisted", "pending", "failed", "gone"} \cup Settled,
                           attempts : 0 .. Tries]]
  /\ eng \in [pc : {"down", "off", "planned", "hashed", "item", "fetching",
                    "placed", "indexing", "marking"},
              todo : SUBSET Items, hashes : SUBSET Contents, known : SUBSET Items,
              item : Items \cup {None}, file : Files, torn : BOOLEAN,
              verdict : {"none", "failed"} \cup Settled]
  /\ scan \in [pc : {"off", "walk", "aborted"}, at : 1 .. NPaths + 1,
               rehash : BOOLEAN, start : [Paths -> Files], seen : SUBSET Paths,
               rows : [Paths -> Rows], edits : 0 .. MaxEdits]
  /\ edits \in 0 .. MaxEdits /\ faults \in 0 .. MaxFaults /\ scans \in 0 .. MaxScans
  /\ owned \in SUBSET Contents

\* A scan may trust a size and mtime it has stored: whatever was written under
\* the row since, by the user or by the engine, if they match, so does the hash
\* (scanner.py:183-190).  The one exception is a file replaced between the
\* engine's hash of it and its stat (sync.py:519-582).
StatTrust ==
  \A p \in Paths :
    disk[p] # NoFile /\ Unchanged(p) /\ ~media[p].torn
      => media[p].hash = disk[p].body

\* An item leaves the work list for good only when it is accounted for: a row
\* names it; or a live row held its bytes when this run read what is indexed, or
\* this run has put them in place or found them there since; or it found a file
\* under the item's name (sync.py:497 "Fetch one item, or prove we already have
\* it").  A hash is trusted for one run at most, and a tombstone's never.
SettleStep ==
  \A i \in Items :
    remote[i].state \notin Settled /\ remote'[i].state \in Settled
      => Names(i) \/ BodyOf[i] \in owned \/ eng.file # NoFile
SettledIsHeld == [][SettleStep]_vars

\* A download never starts for an item that a row already names, whatever
\* crashes, scans and forget requests came before.
FetchStep ==
  \A i \in Items :
    eng.pc # "fetching" /\ eng'.pc = "fetching" /\ eng'.item = i => ~Names(i)
RecordedNeverFetched == [][FetchStep]_vars

\* A committed scan tells the truth about every path that neither the user nor
\* the engine touched meanwhile: where there is no file there is no row that is
\* not missing; where there is one there is a live row with its stamp and either
\* its hash (unless torn) or a reference to another live row (scanner.py:1-20).
ScanStep ==
  scan.pc = "walk" /\ scan'.pc = "off" =>
    \A p \in Paths :
      LET r == media'[p]
      IN disk[p] = scan.start[p] /\ edits = scan.edits =>
           IF disk[p] = NoFile THEN r.there => r.missing
           ELSE /\ r.there /\ ~r.missing /\ ~r.deleted /\ r.stamp = disk[p].stamp
                /\ \/ r.hash = disk[p].body \/ r.torn
                   \/ r.hash = None /\ r.dup \in Paths \ {p}
                      /\ media'[r.dup].there /\ ~media'[r.dup].deleted
ScanFaithful == [][ScanStep]_vars

\* Every listed item is settled, given up or named by a row in the end: neither
\* crashes nor scans nor the user leave one behind.
ItemsSettle ==
  \A i \in Items :
    (remote[i].state \in {"pending", "failed"})
      ~> (remote[i].state \in Settled \cup {"gone"} \/ Names(i))

\* Each row of remote_index as ItemFate sees it.
FateOf(i) ==
  CASE remote[i].state = "unlisted" -> [state |-> "unlisted", failures |-> 0]
    [] remote[i].state \in {"pending", "failed"} ->
         [state |-> "open", failures |-> remote[i].attempts]
    [] remote[i].state \in Settled -> [state |-> "settled", failures |-> 0]
    [] OTHER -> [state |-> "gone", failures |-> remote[i].attempts]

Fates == INSTANCE ItemFate WITH Keys <- Items, fate <- [i \in Items |-> FateOf(i)]

\* Through scans, files adopted, downloads cut short and workers restarted, an
\* item is marked once for every time it was tried: given up after Tries failures
\* and not before, and never tried again once decided (sync.py:627-667).
ImplementsFates == Fates!Spec

\* A scan always commits.
ScanCompletes == scan.pc # "aborted"

\* A download never starts for a path whose row the user has deleted: "the
\* scraper's incremental pass treats the file as 'deliberately gone' instead of
\* 'missing, re-download it'" (media.py:96-97).
RefetchStep ==
  \A i \in Items :
    eng.pc # "fetching" /\ eng'.pc = "fetching" /\ eng'.item = i
      => ~(media[PathOf[i]].there /\ media[PathOf[i]].deleted)
ForgottenStaysGone == [][RefetchStep]_vars

\* A row that a scan marks as a duplicate has an original that is there: of the
\* files with these bytes, another one is on disk (media.py:178-179).
OriginalStep ==
  scan.pc = "walk" /\ scan'.pc = "off" =>
    \A p \in Paths :
      media'[p].dup # 0 /\ disk = scan.start /\ disk[p] # NoFile =>
        \E q \in Paths \ {p} : disk[q].body = disk[p].body
DuplicatesHaveOriginals == [][OriginalStep]_vars
=============================================================================
