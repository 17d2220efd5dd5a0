---------------------------- MODULE ArchiveProofs ----------------------------
(***************************************************************************)
(* Every safety property of Archive, for any number of paths, items, edits *)
(* and faults.                                                             *)
(*                                                                         *)
(* The module goes one variable at a time: a lemma per variable says which *)
(* steps change it, so that an invariant is only taken through those.  On  *)
(* top of the types, four invariants carry the properties:                 *)
(*   ScanBase     what a scan has not reached is as it was when it started,*)
(*                since nobody else commits a row under it;                *)
(*   ListUnnamed  the work list holds no item that a row names, but the one*)
(*                between its insert and its mark;                         *)
(*   StampsTell   whatever anybody has on record of a path - the file, its *)
(*                row, the scan's row, the engine's hash - the same stamp  *)
(*                is the same bytes;                                       *)
(*   ScanSound    what the scan has passed it has recorded, unless somebody*)
(*                touched it since.                                        *)
(***************************************************************************)
EXTENDS Archive, TLAPS

-----------------------------------------------------------------------------
(* Which steps change a variable.                                          *)

Edits == \E p \in Paths : \/ \E c \in Contents : PutFile(p, c)
                          \/ RemoveFile(p) \/ RestoreFile(p)
Visits == \E p \in Paths : VisitNothing(p) \/ VisitTrusted(p) \/ VisitHashed(p)
Aborts == \E p \in Paths : ScanAborts(p)
Starts == \E rehash \in BOOLEAN : ScanStart(rehash)
Forgets == \E p \in Paths : Forget(p)
Lists == \E i \in Items : Discover(i)
Takes == \E i \in Items : SkipHeld(i) \/ Adopt(i) \/ Fetch(i)
\* The run is over, in one way or another.
Ends == eng' \in {Idle("off"), Idle("down")}

LEMMA DiskMoves == [Next]_vars => UNCHANGED disk \/ Edits \/ Rename
BY ZenonT(30) DEF vars, Next, UserStep, ScanWalk, EngineStep, Edits, Forget, RawFindsNone,
       RawMarks, ScanStart, VisitNothing, VisitTrusted, VisitHashed, ScanAborts,
       ScanEnd, Discover, SkipHeld, Adopt, Fetch, UpToDate, Plan, ReadHashes,
       ReadKnown, DropKnown, PartGone, Stat, StatFails, Index, Mark, Finish,
       Restart, FetchFails, Abort, Crash, OtherStarts

LEMMA MediaMoves ==
  [Next]_vars => UNCHANGED media \/ Forgets \/ RawMarks \/ ScanEnd \/ Index
BY ZenonT(30) DEF vars, Next, UserStep, ScanWalk, EngineStep, Forgets, RawFindsNone,
       ScanStart, PutFile, RemoveFile, RestoreFile, VisitNothing, VisitTrusted,
       VisitHashed, ScanAborts, Discover, SkipHeld, Adopt, Fetch, UpToDate,
       Plan, ReadHashes, ReadKnown, DropKnown, Rename, PartGone, Stat,
       StatFails, Mark, Finish, Restart, FetchFails, Abort, Crash, OtherStarts

LEMMA ScanMoves ==
  [Next]_vars => UNCHANGED scan \/ Starts \/ Visits \/ Aborts \/ ScanEnd
BY ZenonT(30) DEF vars, Next, UserStep, ScanWalk, EngineStep, Starts, Visits, Aborts,
       Forget, RawFindsNone, RawMarks, PutFile, RemoveFile, RestoreFile,
       Discover, SkipHeld, Adopt, Fetch, UpToDate, Plan, ReadHashes, ReadKnown,
       DropKnown, Rename, PartGone, Stat, StatFails, Index, Mark, Finish,
       Restart, FetchFails, Abort, Crash, OtherStarts

LEMMA RemoteMoves == [Next]_vars => UNCHANGED remote \/ Lists \/ Mark
BY ZenonT(30) DEF vars, Next, UserStep, ScanWalk, EngineStep, Lists, Forget, RawFindsNone,
       RawMarks, PutFile, RemoveFile, RestoreFile, ScanStart, VisitNothing,
       VisitTrusted, VisitHashed, ScanAborts, ScanEnd, SkipHeld, Adopt, Fetch,
       UpToDate, Plan, ReadHashes, ReadKnown, DropKnown, Rename, PartGone, Stat,
       StatFails, Index, Finish, Restart, FetchFails, Abort, Crash, OtherStarts

LEMMA EngineMoves ==
  [Next]_vars => \/ UNCHANGED eng \/ Takes \/ Plan \/ ReadHashes \/ ReadKnown
                 \/ DropKnown \/ Rename \/ FetchFails \/ Stat \/ Index \/ Mark
                    \/ Ends
BY ZenonT(30) DEF vars, Next, UserStep, ScanWalk, EngineStep, Takes, Ends, Forget,
       RawFindsNone, RawMarks, PutFile, RemoveFile, RestoreFile, ScanStart,
       VisitNothing, VisitTrusted, VisitHashed, ScanAborts, ScanEnd, Discover,
       UpToDate, PartGone, StatFails, Finish, Restart, Abort, Crash, OtherStarts

LEMMA OwnedMoves ==
  [Next]_vars => \/ UNCHANGED owned \/ ReadHashes \/ Rename
                 \/ \E i \in Items : Adopt(i)
BY DEF vars, Next, UserStep, ScanWalk, EngineStep, Forget, RawFindsNone,
       RawMarks, PutFile, RemoveFile, RestoreFile, ScanStart, VisitNothing,
       VisitTrusted, VisitHashed, ScanAborts, ScanEnd, Index, Discover, SkipHeld, Fetch,
       UpToDate, Plan, ReadKnown, DropKnown, PartGone, Stat,
       StatFails, Mark, Finish, Restart, FetchFails, Abort, Crash, OtherStarts

-----------------------------------------------------------------------------
(* Types.                                                                  *)

Busy == {"fetching", "placed", "indexing", "marking"}
Observed == {"placed", "indexing"}

EngineOK ==
  /\ eng.pc \in Busy => eng.item \in eng.todo
  /\ eng.pc \in Observed => eng.file.body \in Contents
  /\ eng.pc = "marking" => eng.verdict # "none"

ListOK ==
  /\ \A i \in eng.todo : /\ remote[i].state \in {"pending", "failed"}
                         /\ remote[i].attempts < Tries
  /\ \A i \in Items : remote[i].state = "unlisted" => remote[i].attempts = 0

TypeInv == TypeOK /\ EngineOK /\ ListOK

States == {"unlisted", "pending", "failed", "gone"} \cup Settled
Engines ==
  [pc : {"down", "off", "planned", "hashed", "item", "fetching",
         "placed", "indexing", "marking"},
   todo : SUBSET Items, hashes : SUBSET Contents, known : SUBSET Items,
   item : Items \cup {None}, file : Files, torn : BOOLEAN,
   verdict : {"none", "failed"} \cup Settled]
Scans ==
  [pc : {"off", "walk", "aborted"}, at : 1 .. NPaths + 1,
   rehash : BOOLEAN, start : [Paths -> Files], seen : SUBSET Paths,
   rows : [Paths -> Rows], edits : 0 .. MaxEdits]

DiskType == disk \in [Paths -> Files]
MediaType == media \in [Paths -> Rows]
RemoteType == remote \in [Items -> [state : States, attempts : 0 .. Tries]]
EngineType == eng \in Engines
ScanType == scan \in Scans

LEMMA Types ==
  TypeOK <=> /\ DiskType /\ MediaType /\ RemoteType /\ EngineType /\ ScanType
             /\ raw \in 0 .. NPaths /\ parts \in SUBSET Paths
             /\ edits \in 0 .. MaxEdits /\ faults \in 0 .. MaxFaults
             /\ scans \in 0 .. MaxScans /\ owned \in SUBSET Contents
BY DEF TypeOK, DiskType, MediaType, RemoteType, EngineType, ScanType, States,
       Engines, Scans

-----------------------------------------------------------------------------
(* Operators.                                                              *)

LEMMA NothingType ==
  /\ NoFile \in Files /\ NoRow \in Rows /\ None \notin Contents /\ None \notin Items
  /\ \A pc \in {"down", "off", "planned"} : Idle(pc) \in Engines
  /\ \A pc \in {"off", "walk", "aborted"} : NoScan(pc) \in Scans
<1>1. NoFile \in Files /\ NoRow \in Rows /\ None \notin Contents
      /\ None \notin Items
  BY ArchiveAssumption DEF ArchiveAssumption, NoFile, Files, NoRow, Rows, Stamps
<1>2. \A pc \in {"down", "off", "planned"} : Idle(pc) \in Engines
  BY <1>1 DEF Idle, Engines
<1>3. \A pc \in {"off", "walk", "aborted"} : NoScan(pc) \in Scans
  <2>1. 1 \in 1 .. NPaths + 1 /\ 0 \in 0 .. MaxEdits
    BY ArchiveAssumption DEF ArchiveAssumption
  <2>. QED BY <1>1, <2>1 DEF NoScan, Scans
<1>. QED BY <1>1, <1>2, <1>3

LEMMA FileParts ==
  ASSUME NEW f \in Files
  PROVE  /\ f.stamp \in Stamps /\ f.body \in Contents \cup {None}
         /\ f # NoFile => f.body \in Contents
            /\ f \in [body : Contents, stamp : Stamps]
BY NothingType DEF Files, NoFile, Stamps

LEMMA RowParts ==
  ASSUME NEW r \in Rows
  PROVE  /\ r.hash \in Contents \cup {None} /\ r.stamp \in Stamps
         /\ r.item \in Items \cup {None} /\ r.dup \in 0 .. NPaths
         /\ r.there \in BOOLEAN /\ r.missing \in BOOLEAN /\ r.deleted \in BOOLEAN
         /\ r.torn \in BOOLEAN
BY DEF Rows

\* Of the six stamps a path may have, five are in use at most.
LEMMA NewStampNew ==
  ASSUME NEW p \in Paths
  PROVE  /\ NewStamp(p) \in Stamps
         /\ NewStamp(p) \notin {disk[p].stamp, media[p].stamp, scan.rows[p].stamp,
                                scan.start[p].stamp, eng.file.stamp}
<1>. DEFINE a == disk[p].stamp
            b == media[p].stamp
            c == scan.rows[p].stamp
            d == scan.start[p].stamp
            e == eng.file.stamp
<1>1. \E s \in Stamps : s \notin {a, b, c, d, e}
  <2>. HIDE DEF a, b, c, d, e
  <2>1. \E s \in {0, 1, 2, 3, 4, 5} : s \notin {a, b, c, d, e}
    OBVIOUS
  <2>. QED BY <2>1 DEF Stamps
<1>. QED BY <1>1 DEF NewStamp

LEMMA WrittenType ==
  ASSUME TypeOK, NEW p \in Paths, NEW c \in Contents
  PROVE  Written(p, c) \in [Paths -> Files]
BY NewStampNew, Types DEF DiskType, Written, Files

LEMMA NewRowType ==
  ASSUME NEW f \in Files, f.body \in Contents, NEW i \in Items, NEW torn \in BOOLEAN
  PROVE  NewRow(f, i, torn) \in Rows
<1>1. f.stamp \in Stamps
  BY FileParts
<1>. QED BY <1>1, NothingType DEF NewRow, NoRow, Rows

LEMMA RehashedType ==
  ASSUME TypeOK, NEW p \in Paths, disk[p] # NoFile
  PROVE  Rehashed(p) \in Rows
<1>. DEFINE h == disk[p].body
            held == Holders(scan.rows, p, h)
            dup == IF held = {} THEN 0 ELSE CHOOSE q \in held : TRUE
            hash == IF held = {} THEN h ELSE None
<1>1. disk[p].body \in Contents /\ disk[p].stamp \in Stamps /\ media[p] \in Rows
  BY FileParts, Types DEF DiskType, MediaType
<1>2. dup \in 0 .. NPaths
  <2>1. held \in SUBSET Paths /\ Paths \in SUBSET (0 .. NPaths) /\ 0 \in 0 .. NPaths
    BY ArchiveAssumption DEF ArchiveAssumption, Holders, Paths
  <2>. HIDE DEF held
  <2>. QED BY <2>1
<1>3. hash \in Contents \cup {None}
  BY <1>1
<1>4. Rehashed(p) = [media[p] EXCEPT !.there = TRUE, !.stamp = disk[p].stamp,
                       !.hash = hash, !.dup = dup, !.missing = FALSE,
                       !.deleted = FALSE, !.torn = FALSE]
  BY DEF Rehashed
<1>. HIDE DEF hash, dup
<1>. QED BY <1>1, <1>2, <1>3, <1>4 DEF Rows

LEMMA IndexedRowsType ==
  ASSUME TypeOK, NEW p \in Paths, NEW i \in Items, NEW f \in Files,
         f.body \in Contents, NEW torn \in BOOLEAN
  PROVE  IndexedRows(p, i, f, torn) \in [Paths -> Rows]
<1>1. media \in [Paths -> Rows] /\ NewRow(f, i, torn) \in Rows
  BY NewRowType, Types DEF MediaType
<1>2. [media[p] EXCEPT !.item = IF @ = None THEN i ELSE @] \in Rows
  BY <1>1 DEF Rows
<1>. QED BY <1>1, <1>2 DEF IndexedRows

-----------------------------------------------------------------------------
(* One variable at a time.                                                 *)

LEMMA DiskStep == TypeInv /\ [Next]_vars => DiskType'
<1>. SUFFICES ASSUME TypeInv, [Next]_vars PROVE DiskType'
  OBVIOUS
<1>1. DiskType /\ MediaType /\ EngineType
  BY Types DEF TypeInv
<1>2. ASSUME NEW p \in Paths, \E c \in Contents : PutFile(p, c)
      PROVE  DiskType'
  BY <1>2, WrittenType DEF TypeInv, PutFile, DiskType
<1>3. ASSUME NEW p \in Paths, RemoveFile(p)
      PROVE  DiskType'
  BY <1>1, <1>3, NothingType DEF RemoveFile, DiskType
<1>4. ASSUME NEW p \in Paths, RestoreFile(p)
      PROVE  DiskType'
  <2>1. media[p].hash \in Contents /\ media[p].stamp \in Stamps
    BY <1>1, <1>4, RowParts DEF RestoreFile, MediaType
  <2>2. [body |-> media[p].hash, stamp |-> media[p].stamp] \in Files
    BY <2>1 DEF Files
  <2>. QED BY <1>1, <1>4, <2>2 DEF RestoreFile, DiskType
<1>5. CASE Rename
  <2>1. eng.item \in Items
    BY <1>1, <1>5 DEF Rename, TypeInv, EngineOK, Busy, EngineType, Engines
  <2>2. PathOf[eng.item] \in Paths /\ BodyOf[eng.item] \in Contents
    BY <2>1, ArchiveAssumption DEF ArchiveAssumption
  <2>. QED BY <1>5, <2>2, WrittenType DEF TypeInv, Rename, DiskType
<1>6. CASE UNCHANGED disk
  BY <1>1, <1>6 DEF DiskType
<1>. QED BY <1>2, <1>3, <1>4, <1>5, <1>6, DiskMoves DEF Edits

\* The item in hand, and the file that was hashed under its path.
LEMMA InHand ==
  ASSUME TypeInv
  PROVE  /\ eng \in Engines
         /\ eng.pc \in Busy => /\ eng.item \in Items /\ eng.item \in eng.todo
                               /\ PathOf[eng.item] \in Paths
                               /\ BodyOf[eng.item] \in Contents
         /\ eng.pc \in Observed => eng.file \in Files /\ eng.file.body \in Contents
<1>1. eng \in Engines
  BY Types DEF TypeInv, EngineType
<1>2. eng.todo \in SUBSET Items /\ eng.file \in Files
  BY <1>1 DEF Engines
<1>. QED BY <1>1, <1>2, ArchiveAssumption DEF ArchiveAssumption, TypeInv, EngineOK

LEMMA MediaStep == TypeInv /\ [Next]_vars => MediaType'
<1>. SUFFICES ASSUME TypeInv, [Next]_vars PROVE MediaType'
  OBVIOUS
<1>1. MediaType /\ ScanType /\ raw \in 0 .. NPaths
  BY Types DEF TypeInv
<1>2. ASSUME NEW p \in Paths, Forget(p)
      PROVE  MediaType'
  <2>1. [media[p] EXCEPT !.deleted = TRUE] \in Rows
    BY <1>1 DEF MediaType, Rows
  <2>2. media' = [media EXCEPT ![p] = [media[p] EXCEPT !.deleted = TRUE]]
    BY <1>2 DEF Forget
  <2>. QED BY <1>1, <2>1, <2>2 DEF MediaType
<1>3. CASE RawMarks
  <2>1. raw \in Paths
    BY <1>1, <1>3 DEF RawMarks, Paths
  <2>. QED BY ZenonT(30), <1>1, <1>3, <2>1 DEF RawMarks, MediaType, Rows
<1>4. CASE ScanEnd
  <2>1. \A p \in Paths : scan.rows[p] \in Rows
    BY <1>1 DEF ScanType, Scans
  <2>2. ASSUME NEW p \in Paths
        PROVE  [scan.rows[p] EXCEPT
                  !.missing = @ \/ (scan.rows[p].there /\ p \notin scan.seen)]
                 \in Rows
    <3>1. (scan.rows[p].missing \/ (scan.rows[p].there /\ p \notin scan.seen))
             \in BOOLEAN
      BY <2>1 DEF Rows
    <3>. QED BY <2>1, <3>1 DEF Rows
  <2>. QED BY <1>4, <2>2 DEF ScanEnd, Reconciled, MediaType
<1>5. CASE Index
  <2>1. /\ PathOf[eng.item] \in Paths /\ eng.item \in Items /\ eng.file \in Files
        /\ eng.file.body \in Contents /\ eng.torn \in BOOLEAN
    BY <1>5, InHand DEF Index, Busy, Observed, Engines
  <2>. QED BY <1>5, <2>1, IndexedRowsType DEF TypeInv, Index, MediaType
<1>6. CASE UNCHANGED media
  BY <1>1, <1>6 DEF MediaType
<1>. QED BY <1>2, <1>3, <1>4, <1>5, <1>6, MediaMoves DEF Forgets

LEMMA ScanStepType == TypeInv /\ [Next]_vars => ScanType'
<1>. SUFFICES ASSUME TypeInv, [Next]_vars PROVE ScanType'
  OBVIOUS
<1>1. DiskType /\ MediaType /\ ScanType /\ scan \in Scans /\ edits \in 0 .. MaxEdits
  BY Types DEF TypeInv, ScanType
<1>2. CASE Starts
  BY ZenonT(30), <1>1, <1>2, NothingType
     DEF Starts, ScanStart, NoScan, ScanType, Scans, DiskType, MediaType
<1>3. ASSUME NEW p \in Paths, VisitNothing(p) \/ VisitTrusted(p) \/ VisitHashed(p)
      PROVE  ScanType'
  <2>1. p + 1 \in 1 .. NPaths + 1
    BY ArchiveAssumption DEF ArchiveAssumption, Paths
  <2>2. CASE VisitNothing(p)
    <3>1. scan' = [scan EXCEPT !.at = p + 1]
      BY <2>2 DEF VisitNothing
    <3>. QED BY <1>1, <2>1, <3>1 DEF ScanType, Scans
  <2>3. CASE VisitTrusted(p)
    <3>1. [scan.rows[p] EXCEPT !.missing = FALSE, !.deleted = FALSE] \in Rows
      <4>1. scan.rows[p] \in Rows
        BY <1>1 DEF Scans
      <4>. QED BY <4>1 DEF Rows
    <3>2. [scan.rows EXCEPT ![p].missing = FALSE, ![p].deleted = FALSE]
             \in [Paths -> Rows]
      BY <1>1, <3>1 DEF Scans
    <3>. QED BY <1>1, <2>1, <2>3, <3>2 DEF VisitTrusted, ScanType, Scans
  <2>4. CASE VisitHashed(p)
    <3>1. Rehashed(p) \in Rows
      BY <2>4, RehashedType DEF VisitHashed, Visible, TypeInv
    <3>. HIDE DEF Rehashed
    <3>. QED BY <1>1, <2>1, <2>4, <3>1 DEF VisitHashed, ScanType, Scans
  <2>. QED BY <1>3, <2>2, <2>3, <2>4
<1>4. CASE Aborts \/ ScanEnd
  BY <1>4, NothingType DEF Aborts, ScanAborts, ScanEnd, ScanType
<1>5. CASE UNCHANGED scan
  BY <1>1, <1>5 DEF ScanType
<1>. QED BY <1>2, <1>3, <1>4, <1>5, ScanMoves DEF Visits

LEMMA RemoteStep == TypeInv /\ [Next]_vars => RemoteType'
<1>. SUFFICES ASSUME TypeInv, [Next]_vars PROVE RemoteType'
  OBVIOUS
<1>1. RemoteType
  BY Types DEF TypeInv
<1>2. ASSUME NEW i \in Items, Discover(i)
      PROVE  RemoteType'
  BY <1>1, <1>2 DEF Discover, RemoteType, States
<1>3. CASE Mark
  <2>1. eng.item \in Items /\ eng.item \in eng.todo /\ eng \in Engines
    BY <1>3, InHand DEF Mark, Busy
  <2>2. remote[eng.item].attempts \in 0 .. Tries
        /\ remote[eng.item].attempts < Tries
    BY <1>1, <2>1 DEF TypeInv, ListOK, RemoteType
  <2>3. remote[eng.item].attempts + 1 \in 0 .. Tries
    BY <2>2, ArchiveAssumption DEF ArchiveAssumption
  <2>4. eng.verdict \in {"failed"} \cup Settled
    BY <1>3, <2>1 DEF Mark, TypeInv, EngineOK, Engines
  <2>5. Marked(remote[eng.item], eng.verdict)
           \in [state : States, attempts : 0 .. Tries]
    BY <2>3, <2>4 DEF Marked, States
  <2>. QED BY <1>1, <1>3, <2>1, <2>5 DEF Mark, RemoteType
<1>4. CASE UNCHANGED remote
  BY <1>1, <1>4 DEF RemoteType
<1>. QED BY <1>2, <1>3, <1>4, RemoteMoves DEF Lists

LEMMA LiveTypes ==
  ASSUME MediaType
  PROVE  LiveHashes \in SUBSET Contents /\ LiveItems \in SUBSET Items
BY RowParts DEF MediaType, LiveHashes, LiveItems

\* A verdict on the item in hand, or on the one that is taken from the list.
LEMMA ConcludingType ==
  ASSUME eng \in Engines, NEW i \in Items, NEW v \in {"failed"} \cup Settled
  PROVE  /\ Concluding(i, v) \in Engines
         /\ Concluding(i, v).pc = "marking" /\ Concluding(i, v).item = i
         /\ Concluding(i, v).verdict = v
         /\ Concluding(i, v).todo = eng.todo /\ Concluding(i, v).hashes = eng.hashes
         /\ Concluding(i, v).known = eng.known /\ Concluding(i, v).file = eng.file
BY DEF Concluding, Engines

LEMMA EngineStepType == TypeInv /\ [Next]_vars => EngineType' /\ EngineOK'
<1>. SUFFICES ASSUME TypeInv, [Next]_vars PROVE EngineType' /\ EngineOK'
  OBVIOUS
<1>1. /\ eng \in Engines /\ EngineOK /\ DiskType /\ MediaType
      /\ eng.todo \in SUBSET Items
  BY InHand, Types DEF TypeInv, Engines
<1>2. ASSUME NEW i \in Items, SkipHeld(i)
      PROVE  EngineType' /\ EngineOK'
  <2>1. eng' = Concluding(i, "duplicate") /\ i \in eng.todo
    BY <1>2 DEF SkipHeld
  <2>. QED BY <1>1, <2>1, ConcludingType
              DEF Settled, EngineType, EngineOK, Busy, Observed
<1>3. ASSUME NEW i \in Items, Adopt(i)
      PROVE  EngineType' /\ EngineOK'
  <2>1. disk[PathOf[i]] \in Files /\ disk[PathOf[i]].body \in Contents
    BY <1>1, <1>3, FileParts, ArchiveAssumption
       DEF ArchiveAssumption, Adopt, DiskType
  <2>2. eng' = [eng EXCEPT !.pc = "placed", !.item = i, !.file = disk[PathOf[i]]]
        /\ i \in eng.todo
    BY <1>3 DEF Adopt
  <2>. QED BY <1>1, <2>1, <2>2 DEF EngineType, EngineOK, Busy, Observed, Engines
<1>4. ASSUME NEW i \in Items, Fetch(i)
      PROVE  EngineType' /\ EngineOK'
  <2>1. eng' = [eng EXCEPT !.pc = "fetching", !.item = i] /\ i \in eng.todo
    BY <1>4 DEF Fetch
  <2>. QED BY <1>1, <2>1 DEF EngineType, EngineOK, Busy, Observed, Engines
<1>5. CASE Plan
  <2>1. PICK slice \in SUBSET Pending \ {{}} :
        eng' = [Idle("planned") EXCEPT !.todo = slice]
    BY <1>5 DEF Plan
  <2>2. slice \in SUBSET Items
    BY DEF Pending
  <2>. QED
    BY <2>1, <2>2, NothingType
       DEF Idle, EngineType, EngineOK, Busy, Observed, Engines
<1>6. CASE ReadHashes
  <2>1. eng' = [eng EXCEPT !.pc = "hashed", !.hashes = LiveHashes]
    BY <1>6 DEF ReadHashes
  <2>. QED BY <1>1, <2>1, LiveTypes
              DEF EngineType, EngineOK, Busy, Observed, Engines
<1>7. CASE ReadKnown
  <2>1. eng' = [eng EXCEPT !.pc = "item", !.known = LiveItems]
    BY <1>7 DEF ReadKnown
  <2>. QED BY <1>1, <2>1, LiveTypes
              DEF EngineType, EngineOK, Busy, Observed, Engines
<1>8. CASE DropKnown \/ FetchFails
  <2>1. eng.pc = "fetching"
        /\ \E v \in {"duplicate", "failed"} : eng' = Concluding(eng.item, v)
    BY <1>8 DEF DropKnown, FetchFails
  <2>2. eng.item \in Items /\ eng.item \in eng.todo
    BY <2>1, InHand DEF Busy
  <2>. QED BY <1>1, <2>1, <2>2, ConcludingType
           DEF Settled, EngineType, EngineOK, Busy, Observed
<1>9. CASE Rename
  <2>1. /\ eng' = [eng EXCEPT !.pc = "placed", !.file = disk'[PathOf[eng.item]]]
        /\ disk' = Written(PathOf[eng.item], BodyOf[eng.item])
           /\ eng.pc = "fetching"
    BY <1>9 DEF Rename
  <2>2. /\ eng.item \in eng.todo /\ PathOf[eng.item] \in Paths
        /\ BodyOf[eng.item] \in Contents
    BY <2>1, InHand DEF Busy
  <2>3. disk'[PathOf[eng.item]] \in Files
    BY <2>1, <2>2, WrittenType DEF TypeInv
  <2>4. disk'[PathOf[eng.item]].body \in Contents
    BY <1>1, <2>1, <2>2 DEF Written, DiskType
  <2>. QED BY <1>1, <2>1, <2>2, <2>3, <2>4
              DEF EngineType, EngineOK, Busy, Observed, Engines
<1>10. CASE Stat
  <2>. DEFINE f == disk[PathOf[eng.item]]
  <2>1. /\ eng.pc = "placed" /\ f # NoFile
        /\ eng' = [eng EXCEPT !.pc = "indexing", !.file.stamp = f.stamp,
                              !.torn = f.body # eng.file.body]
    BY <1>10 DEF Stat
  <2>2. eng.item \in eng.todo /\ f \in Files /\ eng.file \in Files
        /\ eng.file.body \in Contents
    BY <1>1, <2>1, InHand DEF Busy, Observed, DiskType
  <2>3. f.stamp \in Stamps /\ eng.file \in [body : Contents, stamp : Stamps]
    BY <2>2, FileParts, NothingType DEF NoFile
  <2>. HIDE DEF f
  <2>4. [eng.file EXCEPT !.stamp = f.stamp] \in [body : Contents, stamp : Stamps]
    BY <2>3
  <2>5. [eng.file EXCEPT !.stamp = f.stamp] \in Files
    BY <2>4 DEF Files
  <2>6. eng' = [eng EXCEPT !.pc = "indexing",
                           !.file = [eng.file EXCEPT !.stamp = f.stamp],
                           !.torn = f.body # eng.file.body]
    BY <2>1
  <2>7. eng' \in Engines /\ eng'.file = [eng.file EXCEPT !.stamp = f.stamp]
        /\ eng'.item = eng.item /\ eng'.todo = eng.todo /\ eng'.pc = "indexing"
    BY <1>1, <2>5, <2>6 DEF Engines
  <2>. QED BY <2>2, <2>4, <2>7 DEF EngineType, EngineOK, Busy, Observed
<1>11. CASE Index
  <2>1. /\ eng.item \in Items /\ eng.item \in eng.todo /\ eng.file.body \in Contents
    BY <1>11, InHand DEF Index, Busy, Observed
  <2>. DEFINE c == Concluding(eng.item, "downloaded")
              done == [c EXCEPT !.hashes = @ \cup {eng.file.body},
                                !.known = @ \cup {eng.item}]
  <2>2. CASE eng' = Concluding(eng.item, "duplicate")
    BY <1>1, <2>1, <2>2, ConcludingType
       DEF Settled, EngineType, EngineOK, Busy, Observed
  <2>3. CASE eng' = done
    <3>1. /\ c \in Engines /\ c.pc = "marking" /\ c.item = eng.item
          /\ c.verdict = "downloaded" /\ c.todo = eng.todo
      BY <1>1, <2>1, ConcludingType DEF Settled
    <3>. HIDE DEF c
    <3>2. /\ done \in Engines /\ done.pc = "marking" /\ done.item = eng.item
          /\ done.verdict = "downloaded" /\ done.todo = eng.todo
      BY <1>1, <2>1, <3>1 DEF Engines
    <3>. HIDE DEF done
    <3>. QED BY <2>1, <2>3, <3>2 DEF EngineType, EngineOK, Busy, Observed
  <2>. QED BY <1>11, <2>2, <2>3 DEF Index
<1>12. CASE Mark
  <2>1. eng' = [eng EXCEPT !.pc = "item", !.todo = @ \ {eng.item}, !.item = None,
                           !.file = NoFile, !.torn = FALSE, !.verdict = "none"]
    BY <1>12 DEF Mark
  <2>. QED BY ZenonT(30), <1>1, <2>1, NothingType
              DEF EngineType, EngineOK, Busy, Observed, Engines
<1>13. CASE Ends
  <2>1. PICK pc \in {"off", "down"} : eng' = Idle(pc)
    BY <1>13 DEF Ends
  <2>2. Idle(pc) \in Engines /\ Idle(pc).pc = pc
    BY NothingType DEF Idle
  <2>. QED BY <2>1, <2>2 DEF EngineType, EngineOK, Busy, Observed
<1>14. CASE UNCHANGED eng
  BY <1>1, <1>14 DEF EngineType, EngineOK
<1>. QED BY <1>2, <1>3, <1>4, <1>5, <1>6, <1>7, <1>8, <1>9, <1>10, <1>11, <1>12,
         <1>13,
            <1>14, EngineMoves DEF Takes

LEMMA ListStep == TypeInv /\ [Next]_vars => ListOK'
<1>. SUFFICES ASSUME TypeInv, [Next]_vars PROVE ListOK'
  OBVIOUS
<1>1. /\ ListOK /\ eng \in Engines /\ eng.todo \in SUBSET Items
      /\ remote \in [Items -> [state : States, attempts : 0 .. Tries]]
  BY InHand, Types DEF TypeInv, Engines, RemoteType
\* The list grows only when it is drawn up.
<1>2. CASE Plan
  <2>1. PICK slice \in SUBSET Pending \ {{}} :
        eng' = [Idle("planned") EXCEPT !.todo = slice]
    BY <1>2 DEF Plan
  <2>2. remote' = remote /\ eng'.todo = slice
    BY <1>2, <2>1 DEF Plan, Idle
  <2>. QED BY <1>1, <2>2 DEF ListOK, Pending
<1>3. CASE ~Plan
  <2>1. eng'.todo \subseteq eng.todo
    <3>1. CASE UNCHANGED eng
      BY <3>1
    <3>2. CASE Takes \/ ReadHashes \/ ReadKnown \/ DropKnown \/ Rename \/ FetchFails
      BY ZenonT(30), <1>1, <3>2
         DEF Takes, SkipHeld, Adopt, Fetch, ReadHashes, ReadKnown, DropKnown,
         Rename,
             FetchFails, Concluding, Engines
    <3>3. CASE Stat
      <4>1. \E f, t : eng' = [eng EXCEPT !.pc = "indexing", !.file = f, !.torn = t]
        BY <1>1, <3>3 DEF Stat, Engines
      <4>. QED BY <1>1, <4>1 DEF Engines
    <3>4. CASE Index
      <4>1. \/ eng' = Concluding(eng.item, "duplicate")
            \/ \E h, k : eng' = [Concluding(eng.item, "downloaded") EXCEPT
                                   !.hashes = h, !.known = k]
        BY <3>4 DEF Index
      <4>. QED BY <1>1, <4>1 DEF Concluding, Engines
    <3>5. CASE Mark
      <4>1. eng'.todo = eng.todo \ {eng.item}
        BY <1>1, <3>5 DEF Mark, Engines
      <4>. QED BY <4>1
    <3>6. CASE Ends
      BY <3>6 DEF Ends, Idle
    <3>. QED BY <1>3, <3>1, <3>2, <3>3, <3>4, <3>5, <3>6, EngineMoves
  <2>2. CASE UNCHANGED remote
    BY <1>1, <2>1, <2>2 DEF ListOK
  <2>3. ASSUME NEW i \in Items, Discover(i)
        PROVE  ListOK'
    <3>1. /\ i \notin eng.todo /\ remote' = [remote EXCEPT ![i].state = "pending"]
          /\ remote[i].attempts = 0
      BY <1>1, <2>3 DEF Discover, ListOK
    <3>. QED BY <1>1, <2>1, <3>1 DEF ListOK
  <2>4. CASE Mark
    <3>1. /\ eng'.todo = eng.todo \ {eng.item} /\ eng.item \in Items
          /\ remote' = [remote EXCEPT ![eng.item] = Marked(@, eng.verdict)]
      BY <1>1, <2>4, InHand DEF Mark, Busy, Engines
    <3>2. Marked(remote[eng.item], eng.verdict).state # "unlisted"
      BY <1>1, <2>4 DEF Marked, Mark, TypeInv, EngineOK, Engines, Settled
    <3>. QED BY <1>1, <3>1, <3>2 DEF ListOK
  <2>. QED BY <2>2, <2>3, <2>4, RemoteMoves DEF Lists
<1>. QED BY <1>2, <1>3

LEMMA OwnedStep == TypeInv /\ [Next]_vars => owned' \in SUBSET Contents
<1>. SUFFICES ASSUME TypeInv, [Next]_vars PROVE owned' \in SUBSET Contents
  OBVIOUS
<1>1. owned \in SUBSET Contents /\ DiskType
  BY Types DEF TypeInv
<1>2. CASE ReadHashes
  BY <1>2 DEF ReadHashes
<1>3. ASSUME NEW i \in Items, Adopt(i)
      PROVE  owned' \in SUBSET Contents
  <2>1. disk[PathOf[i]].body \in Contents
    BY <1>1, <1>3, FileParts, ArchiveAssumption
       DEF ArchiveAssumption, Adopt, DiskType
  <2>. QED BY <1>1, <1>3, <2>1 DEF Adopt
<1>4. CASE Rename
  BY <1>1, <1>4, InHand DEF Rename, Busy
<1>5. CASE UNCHANGED owned
  BY <1>1, <1>5
<1>. QED BY <1>2, <1>3, <1>4, <1>5, OwnedMoves

\* The rest: the .part files, the request for a file, and what is counted.
LEMMA RestStep ==
  TypeInv /\ [Next]_vars =>
    /\ raw' \in 0 .. NPaths /\ parts' \in SUBSET Paths
    /\ edits' \in 0 .. MaxEdits /\ faults' \in 0 .. MaxFaults
       /\ scans' \in 0 .. MaxScans
<1>. SUFFICES ASSUME TypeInv, [Next]_vars
              PROVE  /\ raw' \in 0 .. NPaths /\ parts' \in SUBSET Paths
                     /\ edits' \in 0 .. MaxEdits /\ faults' \in 0 .. MaxFaults
                     /\ scans' \in 0 .. MaxScans
  OBVIOUS
<1>1. /\ raw \in 0 .. NPaths /\ parts \in SUBSET Paths
      /\ edits \in 0 .. MaxEdits /\ faults \in 0 .. MaxFaults
         /\ scans \in 0 .. MaxScans
  BY Types DEF TypeInv
<1>2. /\ UNCHANGED raw \/ (\E p \in Paths : raw' = p) \/ raw' = 0
      /\ \/ UNCHANGED parts \/ parts' \subseteq parts
         \/ \E i \in Items : parts' = parts \cup {PathOf[i]}
  BY ZenonT(30) DEF vars, Next, UserStep, ScanWalk, EngineStep, PutFile, RemoveFile,
         RestoreFile, Forget, RawFindsNone, RawMarks, ScanStart, VisitNothing,
         VisitTrusted, VisitHashed, ScanAborts, ScanEnd, Discover, SkipHeld,
         Adopt, Fetch, UpToDate, Plan, ReadHashes, ReadKnown, DropKnown, Rename,
         PartGone, Stat, StatFails, Index, Mark, Finish, Restart, FetchFails,
         Abort, Crash, OtherStarts
<1>3. /\ UNCHANGED edits \/ (edits < MaxEdits /\ edits' = edits + 1)
      /\ UNCHANGED faults \/ (faults < MaxFaults /\ faults' = faults + 1)
      /\ UNCHANGED scans \/ (scans < MaxScans /\ scans' = scans + 1)
  BY ZenonT(30) DEF vars, Next, UserStep, ScanWalk, EngineStep, PutFile, RemoveFile,
         RestoreFile, Forget, RawFindsNone, RawMarks, ScanStart, VisitNothing,
         VisitTrusted, VisitHashed, ScanAborts, ScanEnd, Discover, SkipHeld,
         Adopt, Fetch, UpToDate, Plan, ReadHashes, ReadKnown, DropKnown, Rename,
         PartGone, Stat, StatFails, Index, Mark, Finish, Restart, FetchFails,
         Abort, Crash, OtherStarts, Edited
<1>4. Paths \in SUBSET (0 .. NPaths) /\ 0 \in 0 .. NPaths
      /\ \A i \in Items : PathOf[i] \in Paths
  BY ArchiveAssumption DEF ArchiveAssumption, Paths
<1>5. raw' \in 0 .. NPaths /\ parts' \in SUBSET Paths
  BY <1>1, <1>2, <1>4
<1>6. /\ edits' \in 0 .. MaxEdits /\ faults' \in 0 .. MaxFaults
         /\ scans' \in 0 .. MaxScans
  BY <1>1, <1>3, ArchiveAssumption DEF ArchiveAssumption
<1>. QED BY <1>5, <1>6

LEMMA TypeStep == TypeInv /\ [Next]_vars => TypeInv'
<1>. SUFFICES ASSUME TypeInv, [Next]_vars PROVE TypeInv'
  OBVIOUS
<1>1. DiskType' /\ MediaType' /\ ScanType' /\ RemoteType' /\ EngineType'
      /\ EngineOK'
  BY DiskStep, MediaStep, ScanStepType, RemoteStep, EngineStepType
<1>2. ListOK' /\ owned' \in SUBSET Contents
  BY ListStep, OwnedStep
<1>3. TypeOK'
  BY <1>1, <1>2, RestStep
     DEF TypeOK, DiskType, MediaType, RemoteType, EngineType, ScanType, States,
         Engines, Scans
<1>. QED BY <1>1, <1>2, <1>3 DEF TypeInv

LEMMA TypeInit == Init => TypeInv
<1>. SUFFICES ASSUME Init PROVE TypeInv
  OBVIOUS
<1>1. /\ DiskType /\ MediaType /\ EngineType /\ ScanType
  BY NothingType DEF Init, DiskType, MediaType, EngineType, ScanType
<1>2. RemoteType /\ ListOK
  BY ArchiveAssumption DEF ArchiveAssumption, Init, RemoteType, States, ListOK, Idle
<1>3. EngineOK
  BY DEF Init, Idle, EngineOK, Busy, Observed
<1>4. /\ raw \in 0 .. NPaths /\ parts \in SUBSET Paths
      /\ edits \in 0 .. MaxEdits /\ faults \in 0 .. MaxFaults
      /\ scans \in 0 .. MaxScans /\ owned \in SUBSET Contents
  BY ArchiveAssumption DEF ArchiveAssumption, Init
<1>. QED BY <1>1, <1>2, <1>3, <1>4, Types DEF TypeInv

LEMMA TypeAlways == Spec => []TypeInv
BY TypeInit, TypeStep, PTL DEF Spec

\* Every variable of the account's folder keeps its type, attempts among them: an
\* item is never marked once more than Tries (sync.py:629-667).
THEOREM TypeCorrect == Spec => []TypeOK
BY TypeAlways, PTL DEF TypeInv

-----------------------------------------------------------------------------
(* Each row of remote_index lives the life of ItemFate.                    *)

fateBar == [i \in Items |-> FateOf(i)]

LEMMA FateCases ==
  ASSUME NEW i \in Items
  PROVE  /\ remote[i].state = "unlisted" => FateOf(i) = Fates!Unlisted
         /\ remote[i].state \in {"pending", "failed"}
              => FateOf(i) = Fates!Waiting(remote[i].attempts)
         /\ remote[i].state \in Settled => FateOf(i) = Fates!Settled
         /\ remote[i].state = "gone" /\ remote[i].attempts = Tries
              => FateOf(i) = Fates!Gone
BY DEF FateOf, Fates!Unlisted, Fates!Waiting, Fates!Settled, Fates!Gone, Settled

\* The same after a step, which changes one row and so one fate.
LEMMA OneFate ==
  ASSUME RemoteType, NEW i \in Items, NEW row, remote' = [remote EXCEPT ![i] = row]
  PROVE  /\ fateBar' = [fateBar EXCEPT ![i] = FateOf(i)']
         /\ row.state = "pending" => FateOf(i)' = Fates!Waiting(row.attempts)
         /\ row.state = "failed" => FateOf(i)' = Fates!Waiting(row.attempts)
         /\ row.state \in Settled => FateOf(i)' = Fates!Settled
         /\ row.state = "gone" /\ row.attempts = Tries => FateOf(i)' = Fates!Gone
<1>1. remote'[i] = row
  BY DEF RemoteType
<1>2. \A k \in Items : k # i => FateOf(k)' = FateOf(k)
  BY DEF RemoteType, FateOf
<1>3. fateBar' = [fateBar EXCEPT ![i] = FateOf(i)']
  BY <1>2 DEF fateBar
<1>4. /\ row.state = "pending" => FateOf(i)' = Fates!Waiting(row.attempts)
      /\ row.state = "failed" => FateOf(i)' = Fates!Waiting(row.attempts)
  BY <1>1 DEF FateOf, Fates!Waiting, Settled
<1>5. row.state \in Settled => FateOf(i)' = Fates!Settled
  BY <1>1 DEF FateOf, Fates!Settled, Settled
<1>6. row.state = "gone" /\ row.attempts = Tries => FateOf(i)' = Fates!Gone
  BY <1>1 DEF FateOf, Fates!Gone, Settled
<1>. QED BY <1>3, <1>4, <1>5, <1>6

LEMMA FateStep ==
  ASSUME TypeInv, [Next]_vars
  PROVE  [Fates!Next]_fateBar
<1>1. ListOK /\ EngineOK /\ RemoteType /\ Tries \in Nat \ {0}
  BY Types, ArchiveAssumption DEF ArchiveAssumption, TypeInv
<1>2. ASSUME NEW i \in Items, Discover(i)
      PROVE  Fates!List(i)
  <2>. DEFINE row == [remote[i] EXCEPT !.state = "pending"]
  <2>1. remote' = [remote EXCEPT ![i] = row] /\ row.state = "pending"
        /\ row.attempts = 0
    BY <1>1, <1>2 DEF Discover, ListOK, RemoteType
  <2>. HIDE DEF row
  <2>2. fateBar' = [fateBar EXCEPT ![i] = FateOf(i)']
        /\ FateOf(i)' = Fates!Waiting(0)
    BY <1>1, <2>1, OneFate
  <2>3. fateBar[i] = Fates!Unlisted
    BY <1>2, FateCases DEF Discover, fateBar
  <2>. QED BY <2>2, <2>3 DEF Fates!List, fateBar
<1>3. CASE Mark
  <2>0. eng.item \in Items
    BY <1>3, InHand DEF Mark, Busy
  <2>. PICK i \in Items : i = eng.item
    BY <2>0
  <2>. DEFINE n == remote[i].attempts + 1
              row == Marked(remote[i], eng.verdict)
  <2>1. /\ i \in Items /\ i \in eng.todo /\ eng.verdict \in {"failed"} \cup Settled
    BY <1>1, <1>3, InHand DEF Mark, Busy, EngineOK, Engines
  <2>2. /\ remote[i].state \in {"pending", "failed"}
           /\ remote[i].attempts \in 0 .. Tries
        /\ remote[i].attempts < Tries
    BY <1>1, <2>1 DEF ListOK, RemoteType
  <2>3. fateBar[i] = Fates!Waiting(remote[i].attempts)
    BY <2>1, <2>2, FateCases DEF fateBar
  <2>4. fateBar[i].state = "open" /\ fateBar[i].failures + 1 = n
    BY <2>3 DEF Fates!Waiting
  <2>5. remote' = [remote EXCEPT ![i] = row]
    BY <1>3 DEF Mark
  <2>6. CASE eng.verdict \in Settled
    <3>1. row.state \in Settled
      BY <2>6 DEF Marked, Settled
    <3>. HIDE DEF row, n
    <3>2. fateBar' = [fateBar EXCEPT ![i] = FateOf(i)']
          /\ FateOf(i)' = Fates!Settled
      BY <1>1, <2>1, <2>5, <3>1, OneFate
    <3>3. Fates!Settle(i)
      BY <2>4, <3>2 DEF Fates!Settle, fateBar
    <3>. QED BY <2>1, <3>3 DEF Fates!Next
  <2>7. CASE eng.verdict = "failed"
    <3>1. row = [state |-> IF n >= Tries THEN "gone" ELSE "failed", attempts |-> n]
      BY <2>7 DEF Marked
    <3>2. n >= Tries <=> n = Tries
      BY <1>1, <2>2
    <3>3. /\ n = Tries => row.state = "gone" /\ row.attempts = Tries
          /\ n # Tries => row.state = "failed" /\ row.attempts = n
      BY <3>1, <3>2
    <3>. HIDE DEF row, n
    <3>4. /\ fateBar' = [fateBar EXCEPT ![i] = FateOf(i)']
          /\ FateOf(i)' = IF n = Tries THEN Fates!Gone ELSE Fates!Waiting(n)
      BY <1>1, <2>1, <2>5, <3>3, OneFate
    <3>5. Fates!Fail(i)
      BY <2>4, <3>4 DEF Fates!Fail, fateBar
    <3>. QED BY <2>1, <3>5 DEF Fates!Next
  <2>. QED BY <2>1, <2>6, <2>7
<1>4. CASE UNCHANGED remote
  BY <1>4 DEF fateBar, FateOf
<1>. QED BY <1>2, <1>3, <1>4, RemoteMoves DEF Lists, Fates!Next

LEMMA FateInit == Init => Fates!Init
<1>. SUFFICES ASSUME Init PROVE Fates!Init
  OBVIOUS
<1>1. \A i \in Items : remote[i].state = "unlisted"
  BY DEF Init
<1>2. \A i \in Items : FateOf(i) = Fates!Unlisted
  BY <1>1, FateCases
<1>. QED BY <1>2 DEF Fates!Init

\* Archive implements ItemFate: through scans, files adopted, downloads cut short
\* and workers restarted, an item is listed once, marked once for each time it
\* was tried, and left alone once decided (sync.py:629-667).
THEOREM FatesRefined == Spec => ImplementsFates
<1>1. Init => Fates!Init
  BY FateInit
<1>2. TypeInv /\ [Next]_vars => [Fates!Next]_fateBar
  BY FateStep
<1>. QED BY <1>1, <1>2, TypeAlways, PTL
            DEF Spec, ImplementsFates, Fates!Spec, fateBar

-----------------------------------------------------------------------------
(* What single steps do to the rows.                                       *)

\* What a visit does to the scan: it moves on, and only the row it passes is
\* touched.
LEMMA VisitRows ==
  ASSUME ScanType, NEW p \in Paths, VisitNothing(p) \/ VisitTrusted(p)
         \/ VisitHashed(p)
  PROVE  /\ scan.pc = "walk" /\ scan'.pc = "walk" /\ scan.at = p /\ scan'.at = p + 1
         /\ scan'.start = scan.start /\ scan'.edits = scan.edits
         /\ \A q \in Paths : q # p => scan'.rows[q] = scan.rows[q]
         /\ VisitNothing(p) => scan'.rows[p] = scan.rows[p]
            /\ scan'.seen = scan.seen
         /\ VisitTrusted(p) =>
              /\ scan'.rows[p] = [scan.rows[p] EXCEPT !.missing = FALSE,
                                                      !.deleted = FALSE]
              /\ scan'.seen = scan.seen \cup {p}
         /\ VisitHashed(p) => scan'.rows[p] = Rehashed(p)
            /\ scan'.seen = scan.seen \cup {p}
         /\ UNCHANGED <<raw, disk, parts, media, remote, eng, edits, faults,
            scans, owned>>
<1>. scan \in Scans
  BY DEF ScanType
<1>. scan.rows \in [Paths -> Rows]
  BY DEF Scans
<1>1. CASE VisitNothing(p)
  <2>1. scan' = [scan EXCEPT !.at = p + 1] /\ scan.pc = "walk" /\ scan.at = p
    BY <1>1 DEF VisitNothing, Walking
  <2>2. /\ scan'.at = p + 1 /\ scan'.pc = "walk" /\ scan'.start = scan.start
        /\ scan'.edits = scan.edits /\ scan'.rows = scan.rows
           /\ scan'.seen = scan.seen
    BY <2>1 DEF Scans
  <2>3. ~VisitTrusted(p) /\ ~VisitHashed(p)
    BY <1>1 DEF VisitNothing, VisitTrusted, VisitHashed
  <2>. QED BY <1>1, <2>1, <2>2, <2>3 DEF VisitNothing
<1>2. CASE VisitTrusted(p)
  <2>. DEFINE row == [scan.rows[p] EXCEPT !.missing = FALSE, !.deleted = FALSE]
  <2>1. scan' = [scan EXCEPT !.at = p + 1, !.seen = @ \cup {p},
                   !.rows = [scan.rows EXCEPT ![p] = row]]
        /\ scan.pc = "walk" /\ scan.at = p
    BY ZenonT(30), <1>2 DEF VisitTrusted, Walking, Scans
  <2>. HIDE DEF row
  <2>2. /\ scan'.at = p + 1 /\ scan'.pc = "walk" /\ scan'.start = scan.start
        /\ scan'.edits = scan.edits /\ scan'.rows = [scan.rows EXCEPT ![p] = row]
        /\ scan'.seen = scan.seen \cup {p}
    BY <2>1 DEF Scans
  <2>3. ~VisitNothing(p) /\ ~VisitHashed(p)
    BY <1>2 DEF VisitNothing, VisitTrusted, VisitHashed
  <2>4. scan'.rows[p] = row
        /\ \A q \in Paths : q # p => scan'.rows[q] = scan.rows[q]
    BY <2>2
  <2>5. UNCHANGED <<raw, disk, parts, media, remote, eng, edits, faults, scans,
        owned>>
    BY <1>2 DEF VisitTrusted
  <2>. QED BY <2>1, <2>2, <2>3, <2>4, <2>5 DEF row
<1>3. CASE VisitHashed(p)
  <2>. DEFINE row == Rehashed(p)
  <2>1. scan' = [scan EXCEPT !.at = p + 1, !.seen = @ \cup {p},
                   !.rows = [scan.rows EXCEPT ![p] = row]]
        /\ scan.pc = "walk" /\ scan.at = p
    BY <1>3 DEF VisitHashed, Walking, Scans
  <2>. HIDE DEF row
  <2>2. /\ scan'.at = p + 1 /\ scan'.pc = "walk" /\ scan'.start = scan.start
        /\ scan'.edits = scan.edits /\ scan'.rows = [scan.rows EXCEPT ![p] = row]
        /\ scan'.seen = scan.seen \cup {p}
    BY <2>1 DEF Scans
  <2>3. ~VisitNothing(p) /\ ~VisitTrusted(p)
    BY <1>3 DEF VisitNothing, VisitTrusted, VisitHashed
  <2>4. scan'.rows[p] = row
        /\ \A q \in Paths : q # p => scan'.rows[q] = scan.rows[q]
    BY <2>2
  <2>5. UNCHANGED <<raw, disk, parts, media, remote, eng, edits, faults, scans,
        owned>>
    BY <1>3 DEF VisitHashed
  <2>. QED BY <2>1, <2>2, <2>3, <2>4, <2>5 DEF row
<1>. QED BY <1>1, <1>2, <1>3

LEMMA RehashedRow ==
  ASSUME TypeOK, NEW p \in Paths, disk[p] # NoFile
  PROVE  LET r == Rehashed(p)
             held == Holders(scan.rows, p, disk[p].body)
         IN /\ r \in Rows /\ r.there /\ ~r.missing /\ ~r.deleted /\ ~r.torn
            /\ r.item = media[p].item /\ r.stamp = disk[p].stamp
            /\ \/ held = {} /\ r.hash = disk[p].body /\ r.dup = 0
               \/ held # {} /\ r.hash = None /\ r.dup \in held
<1>. DEFINE held == Holders(scan.rows, p, disk[p].body)
            dup == IF held = {} THEN 0 ELSE CHOOSE q \in held : TRUE
            hash == IF held = {} THEN disk[p].body ELSE None
            r == [media[p] EXCEPT !.there = TRUE, !.stamp = disk[p].stamp,
                       !.hash = hash, !.dup = dup, !.missing = FALSE,
                       !.deleted = FALSE, !.torn = FALSE]
<1>1. media[p] \in Rows /\ Rehashed(p) \in Rows
  BY RehashedType, Types DEF MediaType
<1>2. Rehashed(p) = r
  BY DEF Rehashed
<1>3. held # {} => dup \in held
  OBVIOUS
<1>. HIDE DEF hash, dup, held
<1>4. /\ r.there /\ ~r.missing /\ ~r.deleted /\ ~r.torn /\ r.item = media[p].item
      /\ r.stamp = disk[p].stamp /\ r.hash = hash /\ r.dup = dup
  BY <1>1 DEF Rows
<1>5. \/ held = {} /\ r.hash = disk[p].body /\ r.dup = 0
      \/ held # {} /\ r.hash = None /\ r.dup \in held
  BY <1>3, <1>4 DEF hash, dup
<1>. HIDE DEF r
<1>. QED BY <1>1, <1>2, <1>4, <1>5 DEF held

\* What the scan commits: its rows, but for the files it has not seen.
LEMMA ReconciledRow ==
  ASSUME ScanType, NEW p \in Paths
  PROVE  /\ Reconciled[p] \in Rows
         /\ \E m \in BOOLEAN :
              /\ Reconciled[p] = [scan.rows[p] EXCEPT !.missing = m]
              /\ scan.rows[p].there /\ p \notin scan.seen => m
              /\ scan.rows[p].there /\ p \in scan.seen => m = scan.rows[p].missing
<1>. DEFINE m == scan.rows[p].missing \/ (scan.rows[p].there /\ p \notin scan.seen)
<1>1. scan.rows[p] \in Rows
  BY DEF ScanType, Scans
<1>2. m \in BOOLEAN /\ Reconciled[p] = [scan.rows[p] EXCEPT !.missing = m]
  BY <1>1 DEF Rows, Reconciled
<1>3. /\ scan.rows[p].there /\ p \notin scan.seen => m
      /\ scan.rows[p].there /\ p \in scan.seen => m = scan.rows[p].missing
  BY <1>1 DEF Rows
<1>. HIDE DEF m
<1>4. Reconciled[p] \in Rows
  BY <1>1, <1>2 DEF Rows
<1>. QED BY <1>2, <1>3, <1>4

\* What the engine, or a request, does to the index: to one row of it.
LEMMA IndexRow ==
  ASSUME TypeInv, Index
  PROVE  LET i == eng.item
             p == PathOf[i]
         IN /\ \A q \in Paths : q # p => media'[q] = media[q]
            /\ \/ /\ ~media[p].there /\ Holders(media, p, eng.file.body) = {}
                  /\ media'[p] = NewRow(eng.file, i, eng.torn)
               \/ /\ media[p].there
                  /\ media'[p] = [media[p] EXCEPT !.item = IF @ = None THEN i ELSE @]
               \/ /\ ~media[p].there /\ media'[p] = media[p]
                  /\ Holders(media, p, eng.file.body) # {}
<1>. DEFINE i == eng.item
            p == PathOf[i]
            f == eng.file
            row == [media[p] EXCEPT !.item = IF @ = None THEN i ELSE @]
<1>1. p \in Paths /\ media \in [Paths -> Rows]
  BY InHand, Types DEF Index, Busy, TypeInv, MediaType
<1>2. media' = IndexedRows(p, i, f, eng.torn)
  BY DEF Index
<1>3. CASE ~Refused(p, f)
  <2>1. media' = [media EXCEPT ![p] = NewRow(f, i, eng.torn)]
    BY <1>2, <1>3 DEF IndexedRows
  <2>. QED BY <1>1, <1>3, <2>1 DEF Refused
<1>4. CASE media[p].there
  <2>1. media' = [media EXCEPT ![p].item = IF @ = None THEN i ELSE @]
    BY <1>2, <1>4 DEF IndexedRows, Refused
  <2>2. media' = [media EXCEPT ![p] = row]
    BY <1>1, <2>1
  <2>. QED BY <1>1, <1>4, <2>2
<1>5. CASE Refused(p, f) /\ ~media[p].there
  <2>1. media' = media
    BY <1>2, <1>5 DEF IndexedRows
  <2>. QED BY <1>1, <1>5, <2>1 DEF Refused
<1>. QED BY <1>3, <1>4, <1>5

LEMMA MarkedRow ==
  ASSUME TypeInv, NEW p \in Paths, Forget(p) \/ (RawMarks /\ p = raw)
  PROVE  /\ Unlocked /\ \A q \in Paths : q # p => media'[q] = media[q]
         /\ \/ Forget(p) /\ media'[p] = [media[p] EXCEPT !.deleted = TRUE]
            \/ media'[p] = [media[p] EXCEPT !.missing = TRUE]
         /\ UNCHANGED <<disk, parts, remote, eng, scan, faults, scans, owned>>
         /\ RawMarks => UNCHANGED edits
<1>. media \in [Paths -> Rows]
  BY Types DEF TypeInv, MediaType
<1>1. CASE Forget(p)
  <2>1. media' = [media EXCEPT ![p] = [media[p] EXCEPT !.deleted = TRUE]]
    BY <1>1 DEF Forget
  <2>2. raw' = raw
    BY <1>1 DEF Forget
  <2>3. raw \in 0 .. NPaths /\ (RawMarks => raw' # raw)
    BY Types DEF TypeInv, RawMarks
  <2>. QED BY <1>1, <2>1, <2>2, <2>3 DEF Forget
<1>2. CASE RawMarks /\ p = raw
  <2>1. media' = [media EXCEPT ![p] = [media[p] EXCEPT !.missing = TRUE]]
    BY <1>2 DEF RawMarks
  <2>. QED BY <1>2, <2>1 DEF RawMarks
<1>. QED BY <1>1, <1>2

\* The request for a file is for one of the paths.
LEMMA RawPath == TypeInv /\ RawMarks => raw \in Paths
BY Types DEF TypeInv, RawMarks, Paths

ScanBase ==
  /\ \A p \in Paths : media[p].item # None => media[p].there
  /\ scan.pc = "walk" =>
       \A p \in Paths :
         /\ p >= scan.at => scan.rows[p] = media[p]
         /\ scan.rows[p].item = media[p].item
         /\ media[p].there => scan.rows[p].there

LEMMA BaseStep == TypeInv /\ ScanBase /\ [Next]_vars => ScanBase'
<1>. SUFFICES ASSUME TypeInv, ScanBase, [Next]_vars PROVE ScanBase'
  OBVIOUS
<1>1. TypeOK /\ MediaType /\ ScanType /\ media \in [Paths -> Rows] /\ scan \in Scans
  BY Types DEF TypeInv, MediaType, ScanType
<1>. DEFINE Kept == \A p \in Paths : /\ media'[p].item # None => media'[p].there
            Walked == scan'.pc = "walk" =>
              \A p \in Paths : /\ p >= scan'.at => scan'.rows[p] = media'[p]
                               /\ scan'.rows[p].item = media'[p].item
                               /\ media'[p].there => scan'.rows[p].there
<1>2. Kept
  <2>1. ASSUME NEW p \in Paths, Forget(p) \/ (RawMarks /\ p = raw)
        PROVE  Kept
    <3>1. /\ \A q \in Paths : q # p => media'[q] = media[q]
          /\ media'[p].item = media[p].item /\ media'[p].there = media[p].there
      BY ZenonT(30), <1>1, <2>1, MarkedRow DEF Rows
    <3>. QED BY <3>1 DEF ScanBase
  <2>2. CASE ScanEnd
    <3>1. \A p \in Paths : /\ media'[p].item = scan.rows[p].item
                           /\ media'[p].there = scan.rows[p].there
      <4>. SUFFICES ASSUME NEW p \in Paths
                    PROVE  /\ media'[p].item = scan.rows[p].item
                           /\ media'[p].there = scan.rows[p].there
        OBVIOUS
      <4>1. scan.rows[p] \in Rows /\ media'[p] = Reconciled[p]
        BY <1>1, <2>2 DEF ScanEnd, Scans
      <4>2. PICK m \in BOOLEAN : Reconciled[p] = [scan.rows[p] EXCEPT !.missing = m]
        BY <1>1, ReconciledRow
      <4>. QED BY <4>1, <4>2 DEF Rows
    <3>. QED BY <2>2, <3>1 DEF ScanBase, ScanEnd
  <2>3. CASE Index
    <3>. DEFINE i == eng.item
                p == PathOf[i]
    <3>1. p \in Paths /\ i \in Items /\ i # None
      BY <2>3, InHand, NothingType DEF Index, Busy
    <3>2. NewRow(eng.file, i, eng.torn).there
      BY DEF NewRow, NoRow
    <3>3. /\ \A q \in Paths : q # p => media'[q] = media[q]
          /\ \/ media'[p] = NewRow(eng.file, i, eng.torn)
             \/ /\ media[p].there
                /\ media'[p] = [media[p] EXCEPT !.item = IF @ = None THEN i ELSE @]
             \/ media'[p] = media[p]
      BY <2>3, IndexRow
    <3>. HIDE DEF p, i
    <3>4. media'[p].item # None => media'[p].there
      BY <1>1, <3>1, <3>2, <3>3 DEF ScanBase, Rows
    <3>. QED BY <3>3, <3>4 DEF ScanBase
  <2>4. CASE UNCHANGED media
    BY <2>4 DEF ScanBase
  <2>. QED BY <2>1, <2>2, <2>3, <2>4, MediaMoves, RawPath DEF Forgets
<1>3. Walked
  <2>1. CASE Starts
    <3>1. scan'.rows = media /\ media' = media
      BY <2>1 DEF Starts, ScanStart, NoScan
    <3>. QED BY <3>1
  <2>2. ASSUME NEW p \in Paths, VisitNothing(p) \/ VisitTrusted(p) \/ VisitHashed(p)
        PROVE  Walked
    <3>1. /\ scan.pc = "walk" /\ scan.at = p /\ scan'.at = p + 1 /\ media' = media
          /\ \A q \in Paths : q # p => scan'.rows[q] = scan.rows[q]
      BY <1>1, <2>2, VisitRows
    <3>2. /\ scan.rows[p] = media[p] /\ media[p] \in Rows
      BY <1>1, <3>1 DEF ScanBase, Paths
    <3>3. /\ scan'.rows[p].item = media[p].item
          /\ media[p].there => scan'.rows[p].there
      <4>1. CASE VisitNothing(p)
        BY <1>1, <3>2, <4>1, VisitRows
      <4>2. CASE VisitTrusted(p)
        <5>1. scan'.rows[p] = [media[p] EXCEPT !.missing = FALSE, !.deleted = FALSE]
          BY ZenonT(30), <1>1, <3>2, <4>2, VisitRows
        <5>. QED BY <3>2, <5>1 DEF Rows
      <4>3. CASE VisitHashed(p)
        <5>1. scan'.rows[p] = Rehashed(p) /\ disk[p] # NoFile
          BY <1>1, <4>3, VisitRows DEF VisitHashed, Visible
        <5>. QED BY <1>1, <5>1, RehashedRow
      <4>. QED BY <2>2, <4>1, <4>2, <4>3
    <3>4. \A q \in Paths : q >= p + 1 => q # p /\ q >= p
      BY DEF Paths
    <3>. QED BY <3>1, <3>3, <3>4 DEF ScanBase
  <2>3. CASE Aborts \/ ScanEnd
    BY <2>3 DEF Aborts, ScanAborts, ScanEnd, NoScan
  <2>4. CASE UNCHANGED scan
    <3>1. scan.pc = "walk" => UNCHANGED media
      <4>1. CASE Forgets \/ RawMarks \/ Index
        BY <4>1 DEF Forgets, Forget, RawMarks, Index, Unlocked
      <4>2. CASE ScanEnd
        BY <2>4, <4>2 DEF ScanEnd, NoScan
      <4>. QED BY <4>1, <4>2, MediaMoves
    <3>. QED BY <2>4, <3>1 DEF ScanBase
  <2>. QED BY <2>1, <2>2, <2>3, <2>4, ScanMoves DEF Visits
<1>. QED BY <1>2, <1>3 DEF ScanBase

-----------------------------------------------------------------------------
(* The work list.                                                          *)

\* A row never disappears, and its provenance is written once.
LEMMA ItemMoves ==
  ASSUME TypeInv, ScanBase, [Next]_vars, NEW p \in Paths
  PROVE  /\ media[p].there => media'[p].there
         /\ media[p].item # None => media'[p].item = media[p].item
         /\ media'[p].item = media[p].item \/ (Index /\ media'[p].item = eng.item)
<1>1. MediaType /\ ScanType /\ media[p] \in Rows /\ scan.rows[p] \in Rows
  BY Types DEF TypeInv, MediaType, ScanType, Scans
<1>2. ASSUME NEW q \in Paths, Forget(q) \/ (RawMarks /\ q = raw)
      PROVE  media'[p].item = media[p].item /\ media'[p].there = media[p].there
  <2>1. CASE p # q
    BY <1>2, <2>1, MarkedRow
  <2>2. CASE p = q
    <3>1. \/ media'[p] = [media[p] EXCEPT !.deleted = TRUE]
          \/ media'[p] = [media[p] EXCEPT !.missing = TRUE]
      BY <1>2, <2>2, MarkedRow
    <3>. QED BY <1>1, <3>1 DEF Rows
  <2>. QED BY <2>1, <2>2
<1>3. CASE ScanEnd
  <2>1. PICK m \in BOOLEAN : media'[p] = [scan.rows[p] EXCEPT !.missing = m]
    BY <1>1, <1>3, ReconciledRow DEF ScanEnd
  <2>2. media'[p].item = scan.rows[p].item /\ media'[p].there = scan.rows[p].there
    BY <1>1, <2>1 DEF Rows
  <2>. QED BY <1>3, <2>2 DEF ScanBase, ScanEnd
<1>4. CASE Index
  <2>1. CASE p # PathOf[eng.item]
    BY <1>4, <2>1, IndexRow
  <2>2. CASE p = PathOf[eng.item]
    <3>1. \/ ~media[p].there /\ media'[p] = NewRow(eng.file, eng.item, eng.torn)
          \/ media'[p] = [media[p] EXCEPT !.item = IF @ = None THEN eng.item ELSE @]
          \/ media'[p] = media[p]
      BY <1>4, <2>2, IndexRow
    <3>2. CASE ~media[p].there /\ media'[p] = NewRow(eng.file, eng.item, eng.torn)
      <4>1. media'[p].item = eng.item /\ media[p].item = None
        BY <3>2 DEF NewRow, NoRow, ScanBase
      <4>. QED BY <1>4, <3>2, <4>1
    <3>3. CASE media'[p] = [media[p] EXCEPT !.item = IF @ = None THEN eng.item ELSE @]
      BY <1>1, <1>4, <3>3 DEF Rows
    <3>. QED BY <3>1, <3>2, <3>3
  <2>. QED BY <2>1, <2>2
<1>. QED BY <1>2, <1>3, <1>4, MediaMoves, RawPath DEF Forgets

\* Once named by a row, an item stays named; only Index names one.
LEMMA NamesMoves ==
  ASSUME TypeInv, ScanBase, [Next]_vars, NEW i \in Items
  PROVE  /\ Names(i) => Names(i)'
         /\ Names(i)' => Names(i) \/ (Index /\ i = eng.item)
<1>1. i # None
  BY NothingType
<1>2. Names(i) => Names(i)'
  BY <1>1, ItemMoves DEF Names
<1>3. ASSUME NEW p \in Paths, media'[p].there, media'[p].item = i
      PROVE  Names(i) \/ (Index /\ i = eng.item)
  <2>1. media'[p].item = media[p].item \/ (Index /\ i = eng.item)
    BY <1>3, ItemMoves
  <2>. QED BY <1>1, <1>3, <2>1 DEF Names, ScanBase
<1>. QED BY <1>2, <1>3 DEF Names

\* Indexing is done: the verdict is known, and perhaps the caches have grown.
LEMMA IndexDone ==
  ASSUME TypeInv, Index
  PROVE  /\ eng'.todo = eng.todo /\ eng'.known \subseteq eng.known \cup {eng.item}
         /\ eng'.pc = "marking" /\ eng'.item = eng.item
         /\ eng'.hashes \subseteq eng.hashes \cup {eng.file.body}
            /\ eng'.file = eng.file
<1>. eng \in Engines
  BY InHand
<1>. DEFINE c == Concluding(eng.item, "downloaded")
            done == [c EXCEPT !.hashes = eng.hashes \cup {eng.file.body},
                              !.known = eng.known \cup {eng.item}]
<1>1. eng.item \in Items
  BY InHand DEF Index, Busy
<1>2. /\ c \in Engines /\ c.pc = "marking" /\ c.item = eng.item /\ c.todo = eng.todo
      /\ c.hashes = eng.hashes /\ c.known = eng.known /\ c.file = eng.file
  BY <1>1, ConcludingType DEF Settled
<1>3. CASE eng' = done
  <2>. HIDE DEF c
  <2>. QED BY <1>2, <1>3 DEF Engines
<1>4. CASE eng' = Concluding(eng.item, "duplicate")
  BY <1>1, <1>4, ConcludingType DEF Settled
<1>5. eng' = done \/ eng' = Concluding(eng.item, "duplicate")
  BY <1>2 DEF Index
<1>. QED BY <1>3, <1>4, <1>5

LEMMA StatDone ==
  ASSUME TypeInv, Stat
  PROVE  LET f == disk[PathOf[eng.item]]
         IN /\ eng'.pc = "indexing" /\ eng'.item = eng.item /\ eng'.todo = eng.todo
            /\ eng'.known = eng.known /\ eng'.hashes = eng.hashes
            /\ eng'.torn = (f.body # eng.file.body)
            /\ eng'.file.body = eng.file.body /\ eng'.file.stamp = f.stamp
<1>. DEFINE f == disk[PathOf[eng.item]]
<1>1. eng \in Engines /\ eng.file \in Files /\ eng.file.body \in Contents
  BY InHand DEF Stat, Observed
<1>2. eng.file \in [body : Contents, stamp : Stamps]
  BY <1>1, FileParts, NothingType DEF NoFile
<1>3. eng' = [eng EXCEPT !.pc = "indexing", !.torn = f.body # eng.file.body,
                         !.file = [eng.file EXCEPT !.stamp = f.stamp]]
  BY DEF Stat
<1>. HIDE DEF f
<1>4. /\ eng'.pc = "indexing" /\ eng'.item = eng.item /\ eng'.todo = eng.todo
      /\ eng'.known = eng.known /\ eng'.hashes = eng.hashes
      /\ eng'.torn = (f.body # eng.file.body)
      /\ eng'.file = [eng.file EXCEPT !.stamp = f.stamp]
  BY <1>1, <1>3 DEF Engines
<1>. QED BY <1>2, <1>4 DEF f

\* Where each step of the engine leads.
LEMMA Landings ==
  ASSUME TypeInv
  PROVE  /\ Plan => eng'.pc = "planned"
         /\ ReadHashes => eng'.pc = "hashed"
         /\ ReadKnown \/ Mark => eng'.pc = "item"
         /\ Rename => eng'.pc = "placed"
         /\ Stat => eng'.pc = "indexing"
         /\ DropKnown \/ FetchFails \/ Index => eng'.pc = "marking"
         /\ Ends => eng'.pc \in {"off", "down"}
         /\ \A i \in Items : /\ SkipHeld(i) => eng'.pc = "marking"
                             /\ Adopt(i) => eng'.pc = "placed"
                             /\ Fetch(i) => eng'.pc = "fetching"
<1>1. eng \in Engines
  BY InHand
<1>2. /\ Plan => eng'.pc = "planned"
      /\ Ends => eng'.pc \in {"off", "down"}
  BY DEF Plan, Ends, Idle
<1>3. /\ ReadHashes => eng'.pc = "hashed"
      /\ ReadKnown \/ Mark => eng'.pc = "item"
      /\ Rename => eng'.pc = "placed"
  BY <1>1 DEF ReadHashes, ReadKnown, Mark, Rename, Engines
<1>4. DropKnown \/ FetchFails => eng'.pc = "marking"
  BY <1>1 DEF DropKnown, FetchFails, Concluding, Engines
<1>5. \A i \in Items : /\ SkipHeld(i) => eng'.pc = "marking"
                       /\ Adopt(i) => eng'.pc = "placed"
                       /\ Fetch(i) => eng'.pc = "fetching"
  BY <1>1 DEF SkipHeld, Adopt, Fetch, Concluding, Engines
<1>6. /\ Stat => eng'.pc = "indexing"
      /\ Index => eng'.pc = "marking"
  BY StatDone, IndexDone
<1>7. DropKnown \/ FetchFails \/ Index => eng'.pc = "marking"
  BY <1>4, <1>6
<1>. QED BY <1>2, <1>3, <1>5, <1>6, <1>7

\* What becomes of the list and the caches of the run in progress.
Steady == eng'.todo = eng.todo /\ eng'.known = eng.known /\ eng.pc # "marking"

LEMMA RunMoves ==
  ASSUME TypeInv, [Next]_vars
  PROVE  \/ UNCHANGED eng \/ Plan \/ ReadKnown \/ Ends
         \/ /\ Mark /\ eng'.todo = eng.todo \ {eng.item} /\ eng'.known = eng.known
            /\ eng'.pc = "item" /\ eng'.hashes = eng.hashes
         \/ /\ Index /\ eng'.todo = eng.todo
               /\ eng'.known \subseteq eng.known \cup {eng.item}
            /\ eng'.pc = "marking" /\ eng'.item = eng.item
            /\ eng'.hashes \subseteq eng.hashes \cup {eng.file.body}
               /\ eng'.file = eng.file
         \/ ReadHashes /\ Steady /\ eng'.pc = "hashed" /\ eng'.hashes = LiveHashes
         \/ Steady /\ eng'.hashes = eng.hashes
            /\ (Takes \/ DropKnown \/ Rename \/ FetchFails \/ Stat)
<1>1. eng \in Engines
  BY InHand
<1>2. CASE Mark
  BY <1>1, <1>2 DEF Mark, Engines
<1>3. CASE Index
  BY <1>3, IndexDone
<1>4. CASE ReadHashes
  BY <1>1, <1>4 DEF ReadHashes, Steady, Engines
<1>5. CASE Stat
  BY SMTT(30), <1>5, StatDone DEF Stat, Steady
<1>6. CASE Takes \/ DropKnown \/ Rename \/ FetchFails
  BY ZenonT(30), <1>1, <1>6
     DEF Takes, SkipHeld, Adopt, Fetch, DropKnown, Rename, FetchFails,
         Concluding, Steady, Engines
<1>. QED BY <1>2, <1>3, <1>4, <1>5, <1>6, EngineMoves

\* The list holds no item that a row names or the run knows, but the one that
\* has just been indexed and is not marked yet.
Marking(i) == eng.pc = "marking" /\ eng.item = i
ListUnnamed == \A i \in eng.todo : Names(i) \/ i \in eng.known => Marking(i)

LEMMA UnnamedStep ==
  ASSUME TypeInv, ScanBase, ListUnnamed, [Next]_vars
  PROVE  ListUnnamed'
<1>1. eng \in Engines /\ eng.todo \in SUBSET Items
  BY InHand DEF Engines
<1>2. CASE Plan
  <2>1. PICK slice \in SUBSET Pending \ {{}} :
        eng' = [Idle("planned") EXCEPT !.todo = slice]
    BY <1>2 DEF Plan
  <2>2. eng'.todo = slice /\ eng'.known = {} /\ slice \subseteq Pending
    BY <2>1 DEF Idle
  <2>3. media' = media
    BY <1>2 DEF Plan
  <2>. QED BY <2>2, <2>3 DEF ListUnnamed, Pending, Names
<1>3. CASE Ends
  BY <1>3 DEF Ends, Idle, ListUnnamed
<1>4. CASE ReadKnown
  <2>1. eng.pc = "hashed" /\ eng'.todo = eng.todo /\ eng'.known = LiveItems
        /\ media' = media
    BY <1>1, <1>4 DEF ReadKnown, Engines
  <2>2. \A i \in LiveItems : Names(i)
    BY DEF LiveItems, Names
  <2>. QED BY <2>1, <2>2 DEF ListUnnamed, Marking, Names
<1>5. CASE UNCHANGED eng
  <2>1. ~Index
    BY <1>5, IndexDone DEF Index
  <2>2. \A i \in Items : Names(i)' => Names(i)
    BY <2>1, NamesMoves
  <2>. QED BY <1>1, <1>5, <2>2 DEF ListUnnamed, Marking
<1>6. CASE Mark /\ eng'.todo = eng.todo \ {eng.item} /\ eng'.known = eng.known
  <2>1. \A i \in eng'.todo : i \in Items /\ i \in eng.todo /\ ~Marking(i)
    BY <1>1, <1>6 DEF Marking
  <2>2. media' = media
    BY <1>6 DEF Mark
  <2>. QED BY <1>6, <2>1, <2>2 DEF ListUnnamed, Names
<1>7. CASE Index /\ eng'.todo = eng.todo
           /\ eng'.known \subseteq eng.known \cup {eng.item}
           /\ eng'.pc = "marking" /\ eng'.item = eng.item
  <2>1. \A i \in eng.todo : Names(i)' \/ i \in eng'.known =>
          i = eng.item \/ Names(i) \/ i \in eng.known
    BY <1>1, <1>7, NamesMoves
  <2>2. ASSUME NEW i \in eng.todo, Names(i) \/ i \in eng.known
        PROVE  FALSE
    BY <1>7, <2>2 DEF ListUnnamed, Marking, Index
  <2>. QED BY <1>7, <2>1, <2>2 DEF ListUnnamed, Marking
<1>8. CASE Steady /\ media' = media
  <2>1. \A i \in eng.todo : ~Names(i) /\ i \notin eng.known
    BY <1>8 DEF ListUnnamed, Marking, Steady
  <2>. QED BY <1>8, <2>1 DEF ListUnnamed, Names, Steady
<1>9. ReadHashes \/ Takes \/ DropKnown \/ Rename \/ FetchFails \/ Stat
        => media' = media
  BY ZenonT(30) DEF ReadHashes, Takes, SkipHeld, Adopt, Fetch, DropKnown, Rename,
         FetchFails, Stat
<1>. QED BY <1>2, <1>3, <1>4, <1>5, <1>6, <1>7, <1>8, <1>9, RunMoves

\* What the run knows, and what it has in hand, live rows held when it started, or
\* it has had in place since.
RunKnows ==
  /\ eng.hashes \subseteq owned
  /\ eng.pc \in Observed => eng.file.body \in owned

LEMMA OwnedGrows == [Next]_vars => ReadHashes \/ owned \subseteq owned'
BY OwnedMoves DEF Adopt, Rename

LEMMA KnowsStep ==
  ASSUME TypeInv, RunKnows, [Next]_vars
  PROVE  RunKnows'
<1>1. eng \in Engines /\ MediaType /\ MediaType' /\ EngineType'
  BY InHand, Types, MediaStep, EngineStepType DEF TypeInv
<1>2. eng'.hashes \subseteq owned'
  <2>1. CASE Plan \/ Ends
    <3>1. eng'.hashes = {}
      BY <2>1 DEF Plan, Ends, Idle
    <3>. QED BY <3>1
  <2>2. CASE ReadHashes
    <3>1. owned' = {h \in Contents : Holders(media, 0, h) # {}}
      BY <2>2 DEF ReadHashes
    <3>2. LiveHashes \subseteq owned'
      <4>. SUFFICES ASSUME NEW q \in Paths, media[q].there, ~media[q].deleted,
                           media[q].hash # None
                    PROVE  media[q].hash \in owned'
        BY DEF LiveHashes
      <4>1. media[q].hash \in Contents
        BY <1>1, RowParts DEF MediaType
      <4>2. q \in Holders(media, 0, media[q].hash)
        BY ArchiveAssumption DEF Holders, ArchiveAssumption, Paths
      <4>. QED BY <3>1, <4>1, <4>2
    <3>3. eng'.hashes = LiveHashes
      BY <1>1, <2>2 DEF ReadHashes, Engines
    <3>. QED BY <3>2, <3>3
  <2>3. CASE ~ReadHashes /\ eng'.hashes = eng.hashes
    BY <2>3, OwnedGrows DEF RunKnows
  <2>4. CASE ~ReadHashes /\ Index /\ eng'.hashes \subseteq eng.hashes \cup {eng.file.body}
    BY <2>4, OwnedGrows DEF RunKnows, Index, Observed
  <2>5. ReadKnown => eng'.hashes = eng.hashes
    BY <1>1 DEF ReadKnown, Engines
  <2>. QED BY <2>1, <2>2, <2>3, <2>4, <2>5, RunMoves
<1>3. eng'.pc \in Observed => eng'.file.body \in owned'
  <2>1. CASE UNCHANGED eng
    <3>1. ~ReadHashes
      BY <1>1, <2>1 DEF ReadHashes, Engines
    <3>. QED BY <2>1, <3>1, OwnedGrows DEF RunKnows
  <2>2. ASSUME NEW i \in Items, Adopt(i)
        PROVE  eng'.file.body \in owned'
    <3>1. eng'.file = disk[PathOf[i]] /\ owned' = owned \cup {disk[PathOf[i]].body}
      BY <1>1, <2>2 DEF Adopt, Engines
    <3>. QED BY <3>1
  <2>3. CASE Rename
    <3>1. /\ eng'.file = disk'[PathOf[eng.item]]
             /\ owned' = owned \cup {BodyOf[eng.item]}
          /\ disk' = Written(PathOf[eng.item], BodyOf[eng.item])
      BY <1>1, <2>3 DEF Rename, Engines
    <3>2. PathOf[eng.item] \in Paths /\ DiskType
      BY <2>3, InHand, Types DEF Rename, Busy, TypeInv
    <3>3. eng'.file.body = BodyOf[eng.item]
      BY <3>1, <3>2 DEF Written, DiskType
    <3>. QED BY <3>1, <3>3
  <2>4. CASE Stat
    <3>1. owned' = owned
      BY <2>4 DEF Stat
    <3>. QED BY <2>4, <3>1, StatDone DEF Stat, RunKnows, Observed
  <2>5. Plan \/ Ends \/ ReadHashes \/ ReadKnown \/ Mark \/ Index \/ DropKnown
        \/ FetchFails
          => eng'.pc \notin Observed
    BY Landings DEF Observed
  <2>6. ASSUME NEW i \in Items, SkipHeld(i) \/ Fetch(i)
        PROVE  eng'.pc \notin Observed
    BY <2>6, Landings DEF Observed
  <2>. QED BY <2>1, <2>2, <2>3, <2>4, <2>5, <2>6, EngineMoves DEF Takes
<1>. QED BY <1>2, <1>3 DEF RunKnows

SettledSound ==
  eng.pc = "marking" /\ eng.verdict \in Settled =>
    Names(eng.item) \/ BodyOf[eng.item] \in owned \/ eng.file # NoFile

LEMMA SoundStep ==
  ASSUME TypeInv, ScanBase, ListUnnamed, RunKnows, SettledSound, [Next]_vars
  PROVE  SettledSound'
<1>1. eng \in Engines /\ (ReadHashes \/ owned \subseteq owned') /\ eng.todo \in SUBSET Items
  BY InHand, OwnedGrows DEF Engines
<1>2. CASE UNCHANGED eng
  <2>0. ~ReadHashes
    BY <1>1, <1>2 DEF ReadHashes, Engines
  <2>1. eng.pc = "marking" => eng.item \in Items
    BY InHand DEF Busy
  <2>2. \A i \in Items : Names(i) => Names(i)'
    BY NamesMoves
  <2>3. eng.item \in Items /\ Names(eng.item)
          => \E i \in Items : i = eng.item /\ Names(i)'
    BY <2>2 DEF Names
  <2>. QED BY <1>1, <1>2, <2>0, <2>1, <2>3 DEF SettledSound, Names
<1>3. ASSUME NEW i \in Items, SkipHeld(i)
      PROVE  SettledSound'
  <2>1. eng' = Concluding(i, "duplicate") /\ i \in eng.todo /\ AlreadyHeld(i)
        /\ eng.pc = "item" /\ owned' = owned
    BY <1>3 DEF SkipHeld
  <2>2. BodyOf[i] \in owned
    BY <2>1 DEF ListUnnamed, Marking, AlreadyHeld, RunKnows
  <2>3. eng'.item = i
    BY <1>1, <2>1, ConcludingType DEF Settled
  <2>. QED BY <2>1, <2>2, <2>3 DEF SettledSound
<1>4. CASE DropKnown
  <2>1. eng' = Concluding(eng.item, "duplicate") /\ BodyOf[eng.item] \in owned
        /\ eng.item \in Items /\ owned' = owned
    BY <1>4, InHand DEF DropKnown, RunKnows, Busy
  <2>2. eng'.item = eng.item
    BY <1>1, <2>1, ConcludingType DEF Settled
  <2>. QED BY <1>1, <2>1, <2>2 DEF SettledSound
<1>5. CASE Index
  <2>1. eng.file.body \in Contents /\ NoFile.body \notin Contents
    BY <1>5, InHand, NothingType DEF Index, Observed, NoFile
  <2>2. eng'.file = eng.file
    BY <1>5, IndexDone
  <2>. QED BY <2>1, <2>2 DEF SettledSound
<1>6. CASE FetchFails
  <2>1. eng.item \in Items
    BY <1>6, InHand DEF FetchFails, Busy
  <2>2. eng'.verdict = "failed"
    BY <1>1, <1>6, <2>1, ConcludingType DEF FetchFails
  <2>. QED BY <2>2 DEF SettledSound, Settled
<1>7. ASSUME NEW i \in Items, Adopt(i) \/ Fetch(i)
      PROVE  eng'.pc # "marking"
  BY <1>7, Landings
<1>8. Plan \/ Ends \/ ReadHashes \/ ReadKnown \/ Mark \/ Rename \/ Stat
        => eng'.pc # "marking"
  BY Landings
<1>. QED BY <1>2, <1>3, <1>4, <1>5, <1>6, <1>7, <1>8, EngineMoves
            DEF Takes, SettledSound

\* The invariant of the work list.
ListInv == TypeInv /\ ScanBase /\ ListUnnamed /\ RunKnows /\ SettledSound

LEMMA ListInit == Init => ListInv
<1>. SUFFICES ASSUME Init PROVE ListInv
  OBVIOUS
<1>1. ScanBase
  BY DEF Init, ScanBase, NoRow, NoScan
<1>2. ListUnnamed /\ SettledSound
  BY DEF Init, Idle, ListUnnamed, SettledSound
<1>3. RunKnows
  BY DEF Init, Idle, RunKnows, NoRow, Observed
<1>. QED BY <1>1, <1>2, <1>3, TypeInit DEF ListInv

LEMMA ListInvStep == ListInv /\ [Next]_vars => ListInv'
<1>. SUFFICES ASSUME ListInv, [Next]_vars PROVE ListInv'
  OBVIOUS
<1>1. TypeInv' /\ ScanBase'
  BY TypeStep, BaseStep DEF ListInv
<1>2. ListUnnamed' /\ RunKnows' /\ SettledSound'
  BY UnnamedStep, KnowsStep, SoundStep DEF ListInv
<1>. QED BY <1>1, <1>2 DEF ListInv

LEMMA ListAlways == Spec => []ListInv
BY ListInit, ListInvStep, PTL DEF Spec

\* An item is settled only when a row names it, a live row held its bytes when the
\* run started or it has put them in place since, or it found a file under its name
\* (sync.py:497): what guards 1 and 2 know is no older than the run, and a name is
\* never taken away.
THEOREM SettledHeld == Spec => SettledIsHeld
<1>1. ListInv /\ [Next]_vars => SettleStep
  <2>. SUFFICES ASSUME ListInv, [Next]_vars, NEW i \in Items,
                       remote[i].state \notin Settled, remote'[i].state \in Settled
                PROVE  Names(i) \/ BodyOf[i] \in owned \/ eng.file # NoFile
    BY DEF SettleStep
  <2>1. RemoteType
    BY Types DEF ListInv, TypeInv
  <2>2. ~Lists
    BY <2>1 DEF Lists, Discover, RemoteType, Settled
  <2>3. Mark
    BY <2>2, RemoteMoves
  <2>4. i = eng.item /\ remote'[i].state = Marked(remote[i], eng.verdict).state
    BY <2>1, <2>3 DEF Mark, RemoteType
  <2>5. eng.verdict \in Settled
    BY <2>4 DEF Marked, Settled
  <2>. QED BY <2>3, <2>4, <2>5 DEF ListInv, SettledSound, Mark
<1>2. ListInv /\ [Next]_vars => [SettleStep]_vars
  BY <1>1
<1>. QED BY <1>2, ListAlways, PTL DEF Spec, SettledIsHeld

\* No download starts for an item that a row already names (sync.py:716-746): the
\* list is drawn up without them, and only the item in hand gets a row meanwhile.
THEOREM RecordedStays == Spec => RecordedNeverFetched
<1>1. ListInv /\ [Next]_vars => FetchStep
  <2>. SUFFICES ASSUME ListInv, [Next]_vars, NEW i \in Items,
                       eng.pc # "fetching", eng'.pc = "fetching", eng'.item = i
                PROVE  ~Names(i)
    BY DEF FetchStep
  <2>1. eng \in Engines
    BY InHand DEF ListInv
  <2>2. /\ ~Plan /\ ~Ends /\ ~ReadHashes /\ ~ReadKnown /\ ~Mark /\ ~Rename /\ ~Stat
        /\ ~DropKnown /\ ~FetchFails /\ ~Index
    BY Landings DEF ListInv
  <2>4. PICK k \in Items : SkipHeld(k) \/ Adopt(k) \/ Fetch(k)
    BY <2>2, EngineMoves DEF Takes
  <2>5. eng.pc = "item" /\ k \in eng.todo /\ eng'.item = k
    BY <2>1, <2>4 DEF SkipHeld, Adopt, Fetch, Concluding, Engines
  <2>. QED BY <2>5 DEF ListInv, ListUnnamed, Marking
<1>2. ListInv /\ [Next]_vars => [FetchStep]_vars
  BY <1>1
<1>. QED BY <1>2, ListAlways, PTL DEF Spec, RecordedNeverFetched

-----------------------------------------------------------------------------
(* Stamps.                                                                 *)

\* What somebody on record says was at a path: the file itself, its row, the
\* row the scan is about to commit and the file the engine hashed.  A torn
\* record says nothing.
Sightings == [body : Contents, stamp : Stamps]
Tells(r, f) == r.there /\ ~r.torn /\ r.hash = f.body /\ r.stamp = f.stamp
Seen(p) ==
  {f \in Sightings :
     \/ f = disk[p]
     \/ Tells(media[p], f) \/ Tells(scan.rows[p], f)
     \/ eng.pc \in Observed /\ PathOf[eng.item] = p /\ ~eng.torn /\ f = eng.file}

\* Of one path, a stamp tells the bytes.
StampsTell ==
  \A p \in Paths : \A f, g \in Seen(p) : f.stamp = g.stamp => f.body = g.body

LEMMA SeenIsOld ==
  ASSUME NEW p \in Paths, NEW f \in Seen(p)
  PROVE  f.stamp # NewStamp(p)
BY NewStampNew DEF Seen, Tells

\* A file is put back as it was seen, or has a stamp of its own.
LEMMA DiskSeen ==
  ASSUME TypeInv, [Next]_vars, NEW p \in Paths, disk'[p] # NoFile
  PROVE  disk'[p] \in Seen(p) \/ disk'[p].stamp = NewStamp(p)
<1>1. DiskType /\ MediaType /\ DiskType'
  BY Types, DiskStep DEF TypeInv
<1>2. disk'[p] \in Sightings
  BY <1>1, FileParts DEF DiskType, Sightings
<1>3. ASSUME NEW q \in Paths, NEW c, disk' = Written(q, c)
      PROVE  disk'[p] \in Seen(p) \/ disk'[p].stamp = NewStamp(p)
  <2>1. CASE p = q
    <3>1. disk'[p] = [body |-> c, stamp |-> NewStamp(p)]
      BY <1>1, <1>3, <2>1 DEF Written, DiskType
    <3>. QED BY <3>1
  <2>2. CASE p # q
    <3>1. disk'[p] = disk[p]
      BY <1>1, <1>3, <2>2 DEF Written, DiskType
    <3>. QED BY <1>2, <3>1 DEF Seen
  <2>. QED BY <2>1, <2>2
<1>4. ASSUME NEW q \in Paths, RemoveFile(q)
      PROVE  disk'[p] \in Seen(p)
  BY <1>1, <1>2, <1>4 DEF RemoveFile, DiskType, Seen
<1>5. ASSUME NEW q \in Paths, RestoreFile(q)
      PROVE  disk'[p] \in Seen(p)
  <2>1. CASE p = q
    <3>1. disk'[p] = [body |-> media[p].hash, stamp |-> media[p].stamp]
      BY <1>1, <1>5, <2>1 DEF RestoreFile, DiskType
    <3>2. Tells(media[p], disk'[p])
      BY <1>5, <2>1, <3>1 DEF RestoreFile, Tells
    <3>. QED BY <1>2, <3>2 DEF Seen
  <2>2. CASE p # q
    <3>1. disk'[p] = disk[p]
      BY <1>1, <1>5, <2>2 DEF RestoreFile, DiskType
    <3>. QED BY <1>2, <3>1 DEF Seen
  <2>. QED BY <2>1, <2>2
<1>6. CASE Rename
  <2>1. PathOf[eng.item] \in Paths
        /\ disk' = Written(PathOf[eng.item], BodyOf[eng.item])
    BY <1>6, InHand DEF Rename, Busy
  <2>. QED BY <1>3, <2>1
<1>7. CASE UNCHANGED disk
  BY <1>2, <1>7 DEF Seen
<1>. QED BY <1>3, <1>4, <1>5, <1>6, <1>7, DiskMoves DEF Edits, PutFile

\* A row is committed from what was seen ...
LEMMA MediaSeen ==
  ASSUME TypeInv, [Next]_vars, NEW p \in Paths, NEW f \in Sightings,
         Tells(media'[p], f)
  PROVE  f \in Seen(p)
<1>1. MediaType /\ ScanType /\ media[p] \in Rows /\ scan.rows[p] \in Rows
  BY Types DEF TypeInv, MediaType, ScanType, Scans
<1>2. ASSUME NEW q \in Paths, Forget(q) \/ (RawMarks /\ q = raw)
      PROVE  Tells(media[p], f)
  <2>1. CASE p # q
    BY <1>2, <2>1, MarkedRow
  <2>2. CASE p = q
    <3>1. \/ media'[p] = [media[p] EXCEPT !.deleted = TRUE]
          \/ media'[p] = [media[p] EXCEPT !.missing = TRUE]
      BY <1>2, <2>2, MarkedRow
    <3>. QED BY <1>1, <3>1 DEF Rows, Tells
  <2>. QED BY <2>1, <2>2
<1>3. CASE ScanEnd
  <2>1. PICK m \in BOOLEAN : media'[p] = [scan.rows[p] EXCEPT !.missing = m]
    BY <1>1, <1>3, ReconciledRow DEF ScanEnd
  <2>2. Tells(scan.rows[p], f)
    BY <1>1, <2>1 DEF Rows, Tells
  <2>. QED BY <2>2 DEF Seen
<1>4. CASE Index
  <2>1. CASE PathOf[eng.item] = p
             /\ media'[p] = NewRow(eng.file, eng.item, eng.torn)
    <3>1. ~eng.torn /\ eng.file.body = f.body /\ eng.file.stamp = f.stamp
      BY <2>1 DEF Tells, NewRow, NoRow
    <3>2. eng.file \in Sightings /\ eng.pc \in Observed
      BY <1>4, InHand, FileParts, NothingType DEF Index, Observed, NoFile, Sightings
    <3>3. eng.file = f
      BY <3>1, <3>2 DEF Sightings
    <3>. QED BY <2>1, <3>1, <3>2, <3>3 DEF Seen
  <2>2. CASE media'[p] = [media[p] EXCEPT !.item = IF @ = None THEN eng.item ELSE @]
    <3>1. Tells(media[p], f)
      BY <1>1, <2>2 DEF Rows, Tells
    <3>. QED BY <3>1 DEF Seen
  <2>3. CASE media'[p] = media[p]
    BY <2>3 DEF Seen
  <2>. QED BY <1>4, <2>1, <2>2, <2>3, IndexRow
<1>5. CASE UNCHANGED media
  BY <1>5 DEF Seen
<1>. QED BY <1>2, <1>3, <1>4, <1>5, MediaMoves, RawPath DEF Forgets, Seen

\* ... a scan hashes what is there ...
LEMMA ScanSeen ==
  ASSUME TypeInv, ScanBase, [Next]_vars, NEW p \in Paths, NEW f \in Sightings,
         Tells(scan'.rows[p], f)
  PROVE  f \in Seen(p)
<1>1. TypeOK /\ ScanType /\ scan.rows[p] \in Rows /\ DiskType
  BY Types DEF TypeInv, ScanType, Scans
<1>2. CASE Starts
  BY <1>2 DEF Starts, ScanStart, NoScan, Seen
<1>3. CASE Aborts \/ ScanEnd
  BY <1>3 DEF Aborts, ScanAborts, ScanEnd, NoScan, NoRow, Tells
<1>4. ASSUME NEW q \in Paths, VisitNothing(q) \/ VisitTrusted(q) \/ VisitHashed(q)
      PROVE  f \in Seen(p)
  <2>1. CASE p # q \/ VisitNothing(q)
    <3>1. scan'.rows[p] = scan.rows[p]
      BY <1>1, <1>4, <2>1, VisitRows
    <3>. QED BY SMTT(30), <3>1 DEF Seen
  <2>2. CASE p = q /\ VisitTrusted(q)
    <3>1. scan'.rows[p] = [scan.rows[p] EXCEPT !.missing = FALSE, !.deleted = FALSE]
      BY <1>1, <2>2, VisitRows
    <3>2. Tells(scan.rows[p], f)
      BY <1>1, <3>1 DEF Rows, Tells
    <3>. QED BY SMTT(30), <3>2 DEF Seen
  <2>3. CASE p = q /\ VisitHashed(q)
    <3>1. scan'.rows[p] = Rehashed(p) /\ disk[p] # NoFile
      BY <1>1, <2>3, VisitRows DEF VisitHashed, Visible
    <3>2. disk[p].body = f.body /\ disk[p].stamp = f.stamp
      BY <1>1, <3>1, RehashedRow, NothingType DEF Tells, Sightings
    <3>3. disk[p] \in Sightings
      BY <1>1, <3>1, FileParts DEF DiskType, Sightings
    <3>. QED BY <3>2, <3>3 DEF Seen, Sightings
  <2>. QED BY <1>4, <2>1, <2>2, <2>3
<1>5. CASE UNCHANGED scan
  BY <1>5 DEF Seen
<1>. QED BY <1>2, <1>3, <1>4, <1>5, ScanMoves DEF Visits

\* ... and the engine has in hand what is there, or was when it hashed it.
LEMMA EngineSeen ==
  ASSUME TypeInv, [Next]_vars, NEW p \in Paths, NEW f \in Sightings,
         eng'.pc \in Observed, PathOf[eng'.item] = p, ~eng'.torn, f = eng'.file
  PROVE  f \in Seen(p) \/ f = disk'[p]
<1>1. eng \in Engines /\ DiskType
  BY InHand, Types DEF TypeInv
<1>2. CASE UNCHANGED eng
  BY <1>2 DEF Seen
<1>3. ASSUME NEW i \in Items, Adopt(i)
      PROVE  f = disk'[p]
  <2>1. eng'.file = disk[PathOf[i]] /\ eng'.item = i /\ disk' = disk
    BY <1>1, <1>3 DEF Adopt, Engines
  <2>. QED BY <2>1
<1>4. CASE Rename
  <2>1. eng'.file = disk'[PathOf[eng.item]] /\ eng'.item = eng.item
    BY <1>1, <1>4 DEF Rename, Engines
  <2>. QED BY <2>1
<1>5. CASE Stat
  <2>1. /\ PathOf[eng.item] = p /\ disk[p].body = eng'.file.body
        /\ eng'.file.stamp = disk[p].stamp /\ disk[p] # NoFile
    BY <1>5, StatDone DEF Stat
  <2>2. p \in Paths /\ disk[p] \in Sightings
    BY <1>1, <2>1, FileParts DEF DiskType, Sightings
  <2>3. f = disk[p]
    BY <2>1, <2>2 DEF Sightings
  <2>. QED BY <2>3 DEF Seen
<1>6. ASSUME NEW i \in Items, SkipHeld(i) \/ Fetch(i)
      PROVE  FALSE
  BY <1>6, Landings DEF Observed
<1>7. ~Plan /\ ~Ends /\ ~ReadHashes /\ ~ReadKnown /\ ~Mark /\ ~DropKnown
      /\ ~FetchFails /\ ~Index
  BY Landings DEF Observed
<1>. QED BY <1>2, <1>3, <1>4, <1>5, <1>6, <1>7, EngineMoves DEF Takes

LEMMA StampsStep ==
  ASSUME TypeInv, ScanBase, StampsTell, [Next]_vars
  PROVE  StampsTell'
<1>. SUFFICES ASSUME NEW p \in Paths, NEW f \in Seen(p)', NEW g \in Seen(p)',
                     f.stamp = g.stamp
              PROVE  f.body = g.body
  BY DEF StampsTell
<1>1. ASSUME NEW h \in Seen(p)'
      PROVE  h \in Seen(p) \/ (h = disk'[p] /\ disk'[p].stamp = NewStamp(p))
  <2>1. h \in Sightings /\ h # NoFile
    BY NothingType DEF Seen, Sightings, NoFile
  <2>2. h \in Seen(p) \/ h = disk'[p]
    BY <2>1, MediaSeen, ScanSeen, EngineSeen DEF Seen
  <2>. QED BY <2>1, <2>2, DiskSeen
<1>2. CASE f \in Seen(p) /\ g \in Seen(p)
  BY <1>2 DEF StampsTell
<1>3. CASE ~(f \in Seen(p) /\ g \in Seen(p))
  BY <1>1, <1>3, SeenIsOld
<1>. QED BY <1>2, <1>3

StampInv == ListInv /\ StampsTell

LEMMA StampsAlways == Spec => []StampInv
<1>1. Init => StampsTell
  BY NothingType
     DEF Init, StampsTell, Seen, Sightings, NoFile, NoRow, NoScan, Idle,
         Observed, Tells
<1>2. ListInv /\ StampsTell /\ [Next]_vars => StampsTell'
  BY StampsStep DEF ListInv
<1>. QED BY <1>1, <1>2, ListAlways, PTL DEF Spec, StampInv

LEMMA Trust == StampInv => StatTrust
<1>. SUFFICES ASSUME StampInv, NEW p \in Paths, disk[p] # NoFile, Unchanged(p),
                     ~media[p].torn
              PROVE  media[p].hash = disk[p].body
  BY DEF StatTrust
<1>. DEFINE f == [body |-> media[p].hash, stamp |-> media[p].stamp]
<1>1. DiskType /\ MediaType
  BY Types DEF StampInv, ListInv, TypeInv
<1>2. f \in Sightings /\ disk[p] \in Sightings
  BY <1>1, FileParts, RowParts DEF DiskType, MediaType, Unchanged, Sightings
<1>3. f \in Seen(p) /\ disk[p] \in Seen(p)
  BY <1>2 DEF Seen, Tells, Unchanged
<1>. QED BY <1>3 DEF StampInv, StampsTell, Unchanged

\* A scan may trust a size and mtime it has stored (scanner.py:183-190).
THEOREM StatTrusted == Spec => []StatTrust
BY StampsAlways, Trust, PTL

-----------------------------------------------------------------------------
(* The scan.                                                               *)

\* What a scan records of a file that nobody has touched since it started.
Live(r) == r.there /\ ~r.deleted
Recorded(p) ==
  LET r == scan.rows[p]
  IN /\ p \in scan.seen
     /\ Live(r) /\ ~r.missing /\ r.stamp = disk[p].stamp
     /\ \/ r.hash = disk[p].body \/ r.torn
        \/ r.hash = None /\ r.dup \in Paths \ {p} /\ Live(scan.rows[r.dup])

\* What it has passed is recorded, and a file that differs from the one it
\* listed has a stamp of its own.
Told(p) == p < scan.at /\ disk[p] = scan.start[p] =>
             IF disk[p] = NoFile THEN p \notin scan.seen ELSE Recorded(p)
Replaced(p) == disk[p] # scan.start[p] => disk[p] # NoFile
                                           /\ disk[p].stamp # scan.start[p].stamp
ScanSound ==
  scan.pc = "walk" =>
    /\ scan.edits <= edits
    /\ \A p \in scan.seen : p < scan.at
    /\ scan.edits = edits => \A p \in Paths : Replaced(p) /\ Told(p)

\* A visit leaves every live row alive.
LEMMA LiveStays ==
  ASSUME TypeInv, ScanBase, NEW p \in Paths, NEW q \in Paths, Live(scan.rows[q]),
         VisitNothing(p) \/ VisitTrusted(p) \/ VisitHashed(p)
  PROVE  Live(scan'.rows[q])
<1>1. TypeOK /\ ScanType /\ scan.rows[q] \in Rows
  BY SMTT(30), Types DEF TypeInv, ScanType, Scans
<1>2. CASE p # q \/ VisitNothing(p)
  BY <1>1, <1>2, VisitRows
<1>3. CASE p = q /\ VisitTrusted(p)
  <2>1. scan'.rows[q] = [scan.rows[q] EXCEPT !.missing = FALSE, !.deleted = FALSE]
    BY <1>1, <1>3, VisitRows
  <2>. QED BY <1>1, <2>1 DEF Live, Rows
<1>4. CASE p = q /\ VisitHashed(p)
  <2>1. scan'.rows[q] = Rehashed(q) /\ disk[q] # NoFile
    BY <1>1, <1>4, VisitRows DEF VisitHashed, Visible
  <2>. QED BY <1>1, <2>1, RehashedRow DEF Live
<1>. QED BY <1>2, <1>3, <1>4

LEMMA ScanSoundStep ==
  ASSUME StampInv, ScanSound, [Next]_vars
  PROVE  ScanSound'
<1>1. /\ TypeInv /\ ScanBase /\ TypeOK /\ ScanType /\ scan \in Scans /\ DiskType
      /\ MediaType /\ StatTrust /\ edits \in Nat
  BY Types, Trust DEF StampInv, ListInv, TypeInv, ScanType
<1>2. CASE Starts
  <2>1. scan'.edits = edits /\ scan'.at = 1 /\ scan'.start = disk /\ scan'.seen = {}
        /\ edits' = edits /\ disk' = disk
    BY <1>2 DEF Starts, ScanStart, NoScan
  <2>. QED BY <1>1, <2>1 DEF ScanSound, Replaced, Told, Paths
<1>3. CASE Aborts \/ ScanEnd
  BY <1>3 DEF Aborts, ScanAborts, ScanEnd, NoScan, ScanSound
<1>4. ASSUME NEW p \in Paths, VisitNothing(p) \/ VisitTrusted(p) \/ VisitHashed(p)
      PROVE  ScanSound'
  <2>1. /\ scan.pc = "walk" /\ scan.at = p /\ scan'.at = p + 1
        /\ scan'.start = scan.start /\ scan'.edits = scan.edits
        /\ scan'.seen = scan.seen \/ scan'.seen = scan.seen \cup {p}
        /\ \A q \in Paths : q # p => scan'.rows[q] = scan.rows[q]
        /\ edits' = edits /\ disk' = disk
    BY <1>1, <1>4, VisitRows
  <2>2. /\ p \notin scan.seen /\ \A q \in scan.seen : q < p + 1
        /\ p < p + 1 /\ scan.seen \in SUBSET Paths
    BY <1>1, <2>1 DEF ScanSound, Paths, Scans
  <2>3. scan.rows[p] = media[p] /\ scan.rows[p] \in Rows /\ disk[p] \in Files
    <3>1. p >= p
      BY DEF Paths
    <3>. QED BY <1>1, <2>1, <3>1 DEF ScanBase, Scans, DiskType
  <2>4. Told(p)'
    <3>1. CASE VisitNothing(p)
      <4>1. disk[p] = scan.start[p] => disk[p] = NoFile
        BY <3>1 DEF VisitNothing, Visible
      <4>2. scan'.seen = scan.seen
        BY <1>1, <3>1, VisitRows
      <4>. QED BY <2>1, <2>2, <4>1, <4>2 DEF Told
    <3>2. CASE VisitTrusted(p)
      <4>1. /\ scan'.rows[p] = [media[p] EXCEPT !.missing = FALSE,
                                                !.deleted = FALSE]
            /\ p \in scan'.seen /\ disk[p] # NoFile /\ Unchanged(p)
        BY <1>1, <2>3, <3>2, VisitRows DEF VisitTrusted, Visible
      <4>2. media[p].hash = disk[p].body \/ media[p].torn
        BY <1>1, <4>1 DEF StatTrust
      <4>3. /\ scan'.rows[p].there /\ ~scan'.rows[p].deleted
               /\ ~scan'.rows[p].missing
            /\ scan'.rows[p].stamp = disk[p].stamp
            /\ scan'.rows[p].hash = disk[p].body \/ scan'.rows[p].torn
        BY <2>3, <4>1, <4>2 DEF Unchanged, Rows
      <4>. QED BY <2>1, <4>1, <4>3 DEF Told, Recorded, Live
    <3>3. CASE VisitHashed(p)
      <4>1. scan'.rows[p] = Rehashed(p) /\ p \in scan'.seen /\ disk[p] # NoFile
        BY <1>1, <3>3, VisitRows DEF VisitHashed, Visible
      <4>. DEFINE held == Holders(scan.rows, p, disk[p].body)
                  r == Rehashed(p)
      <4>2. /\ Live(r) /\ ~r.missing /\ r.stamp = disk[p].stamp
            /\ r.hash = disk[p].body \/ (r.hash = None /\ r.dup \in held)
        BY <1>1, <4>1, RehashedRow DEF Live
      <4>3. \A q \in held : q \in Paths \ {p} /\ Live(scan'.rows[q])
        BY <2>1 DEF Holders, Live
      <4>. HIDE DEF held, r
      <4>4. \/ r.hash = disk[p].body
            \/ r.hash = None /\ r.dup \in Paths \ {p} /\ Live(scan'.rows[r.dup])
        BY <4>2, <4>3
      <4>5. scan'.rows[p] = r
        BY <4>1 DEF r
      <4>6. Live(scan'.rows[p]) <=> Live(r)
        BY <4>5 DEF Live
      <4>7. Recorded(p)'
        BY <2>1, <4>1, <4>2, <4>4, <4>5 DEF Recorded, Live
      <4>. QED BY <2>1, <4>1, <4>7 DEF Told
    <3>. QED BY <1>4, <3>1, <3>2, <3>3
  <2>5. ASSUME NEW q \in Paths, q # p, Told(q)
        PROVE  Told(q)'
    <3>1. scan'.rows[q] = scan.rows[q] /\ (q < p + 1 <=> q < p)
          /\ (q \in scan'.seen <=> q \in scan.seen)
      BY <2>1, <2>5 DEF Paths
    <3>2. Recorded(q) => Recorded(q)'
      <4>1. \A k \in Paths : Live(scan.rows[k]) => Live(scan'.rows[k])
        BY <1>1, <1>4, LiveStays
      <4>. QED BY <2>1, <3>1, <4>1 DEF Recorded, Live
    <3>. QED BY <2>1, <2>5, <3>1, <3>2 DEF Told
  <2>. QED BY SMTT(30), <2>1, <2>2, <2>4, <2>5 DEF ScanSound, Replaced
<1>5. CASE UNCHANGED scan
  <2>1. CASE edits' = edits + 1
    BY <1>1, <1>5, <2>1 DEF ScanSound, Scans
  <2>2. CASE UNCHANGED <<disk, edits>>
    BY <1>5, <2>2 DEF ScanSound, Replaced, Told, Recorded, Live
  <2>3. CASE Rename
    <3>. DEFINE q == PathOf[eng.item]
    <3>1. q \in Paths /\ disk' = Written(q, BodyOf[eng.item]) /\ edits' = edits
          /\ BodyOf[eng.item] \in Contents
      BY <1>1, <2>3, InHand DEF Rename, Busy
    <3>. HIDE DEF q
    <3>2. disk'[q].stamp # scan.start[q].stamp /\ disk'[q] # NoFile
      BY <1>1, <3>1, NewStampNew, NothingType DEF Written, DiskType, NoFile
    <3>3. \A p \in Paths : p # q => disk'[p] = disk[p]
      BY <1>1, <3>1 DEF Written, DiskType
    <3>4. ASSUME NEW p \in Paths, Replaced(p), Told(p)
          PROVE  Replaced(p)' /\ Told(p)'
      <4>1. CASE p = q
        BY <1>5, <3>2, <4>1 DEF Replaced, Told
      <4>2. CASE p # q
        BY <1>5, <3>3, <3>4, <4>2 DEF Replaced, Told, Recorded, Live
      <4>. QED BY <4>1, <4>2
    <3>. QED BY <1>5, <3>1, <3>4 DEF ScanSound
  <2>4. [Next]_vars => edits' = edits + 1 \/ UNCHANGED <<disk, edits>> \/ Rename
    <3>1. Edits => edits' = edits + 1
      BY SMTT(30) DEF Edits, PutFile, RemoveFile, RestoreFile, Edited
    <3>2. UNCHANGED disk => UNCHANGED edits \/ edits' = edits + 1
      BY ZenonT(30) DEF vars, Next, UserStep, ScanWalk, EngineStep, PutFile, RemoveFile,
             RestoreFile, Forget, RawFindsNone, RawMarks, ScanStart,
             VisitNothing, VisitTrusted, VisitHashed, ScanAborts, ScanEnd,
             Discover, SkipHeld, Adopt, Fetch, UpToDate, Plan, ReadHashes,
             ReadKnown, DropKnown, Rename, PartGone, Stat, StatFails, Index,
             Mark, Finish, Restart, FetchFails, Abort, Crash, OtherStarts,
             Edited
    <3>. QED BY <3>1, <3>2, DiskMoves
  <2>. QED BY <2>1, <2>2, <2>3, <2>4
<1>. QED BY <1>2, <1>3, <1>4, <1>5, ScanMoves DEF Visits

\* A committed scan tells the truth of every path that neither the user nor the
\* engine touched while it ran (scanner.py:1-20).
THEOREM ScanFaithfulAlways == Spec => ScanFaithful
<1>1. Init => ScanSound
  BY DEF Init, NoScan, ScanSound
<1>2. StampInv /\ ScanSound /\ [Next]_vars => ScanSound'
  BY ScanSoundStep
<1>3. StampInv /\ ScanSound /\ [Next]_vars => ScanStep
  <2>. SUFFICES ASSUME StampInv, ScanSound, [Next]_vars,
                       scan.pc = "walk", scan'.pc = "off",
                       NEW p \in Paths, disk[p] = scan.start[p], edits = scan.edits
                PROVE  LET r == media'[p]
                       IN IF disk[p] = NoFile THEN r.there => r.missing
                          ELSE /\ r.there /\ ~r.missing /\ ~r.deleted
                               /\ r.stamp = disk[p].stamp
                               /\ \/ r.hash = disk[p].body \/ r.torn
                                  \/ /\ r.hash = None /\ r.dup \in Paths \ {p}
                                     /\ media'[r.dup].there
                                        /\ ~media'[r.dup].deleted
    BY DEF ScanStep
  <2>1. ScanType /\ scan \in Scans
    BY Types DEF StampInv, ListInv, TypeInv, ScanType
  <2>2. ScanEnd
    <3>1. ~Starts /\ ~Aborts
      BY DEF Starts, ScanStart, Unlocked, Aborts, ScanAborts, NoScan
    <3>2. ~Visits
      BY <2>1, VisitRows DEF Visits
    <3>. QED BY <3>1, <3>2, ScanMoves
  <2>3. p < scan.at
    BY <2>2, ArchiveAssumption DEF ArchiveAssumption, ScanEnd, Paths
  <2>4. IF disk[p] = NoFile THEN p \notin scan.seen ELSE Recorded(p)
    BY <2>3 DEF ScanSound, Told
  <2>5. ASSUME NEW q \in Paths
        PROVE  /\ media'[q].there = scan.rows[q].there
               /\ media'[q].deleted = scan.rows[q].deleted
               /\ media'[q].stamp = scan.rows[q].stamp
               /\ media'[q].hash = scan.rows[q].hash
               /\ media'[q].dup = scan.rows[q].dup
               /\ media'[q].torn = scan.rows[q].torn
               /\ scan.rows[q].there /\ q \notin scan.seen => media'[q].missing
               /\ scan.rows[q].there /\ q \in scan.seen
                    => media'[q].missing = scan.rows[q].missing
    <3>1. PICK m \in BOOLEAN : /\ media'[q] = [scan.rows[q] EXCEPT !.missing = m]
                               /\ scan.rows[q].there /\ q \notin scan.seen => m
                               /\ scan.rows[q].there /\ q \in scan.seen
                                    => m = scan.rows[q].missing
      BY <2>1, <2>2, ReconciledRow DEF ScanEnd
    <3>2. scan.rows[q] \in Rows
      BY <2>1 DEF Scans
    <3>. QED BY <3>1, <3>2 DEF Rows
  <2>6. CASE disk[p] = NoFile
    BY <2>4, <2>5, <2>6
  <2>7. CASE disk[p] # NoFile
    BY <2>4, <2>5, <2>7 DEF Recorded, Live
  <2>. QED BY <2>6, <2>7
<1>4. StampInv /\ ScanSound /\ [Next]_vars => [ScanStep]_vars
  BY <1>3
<1>. QED BY <1>1, <1>2, <1>4, StampsAlways, PTL DEF Spec, ScanFaithful
=============================================================================
