--------------------------- MODULE LibraryProofs ----------------------------
(***************************************************************************)
(* The counters of 0002_triggers.sql are exact for any paths, types, sizes *)
(* and bounds, a bundle holds what was indexed, and the types are right.   *)
(* The argument of the counters: the rows and the tally change together    *)
(* only by Tallied, committed or inside a scan, so both pairs stay exact;  *)
(* what else changes rows, is_missing, is not counted.  That of bundles:   *)
(* a zip is true to the inventory in its own name up to where it has been  *)
(* written, and only a complete one is renamed into the cache.             *)
(***************************************************************************)
EXTENDS Library, FiniteSetTheorems, WellFoundedInduction, TLAPS

\* Rows and a tally that agree.
Exact(rows, t) ==
  \A u \in Types : t.count[u] = Cardinality(OfType(rows, u))

-----------------------------------------------------------------------------
(* One row.                                                                *)

LEMMA PathsFinite ==
  /\ IsFiniteSet(Paths)
  /\ \A rows, u : /\ IsFiniteSet(OfType(rows, u))
                  /\ Cardinality(OfType(rows, u)) \in Nat
<1>1. IsFiniteSet(Paths)
  BY LibraryAssumption, FS_Interval DEF LibraryAssumption, Paths
<1>2. ASSUME NEW rows, NEW u
      PROVE  /\ IsFiniteSet(OfType(rows, u))
             /\ Cardinality(OfType(rows, u)) \in Nat
  <2>1. OfType(rows, u) \in SUBSET Paths
    BY DEF OfType
  <2>. QED BY <1>1, <2>1, FS_Subset, FS_CardinalityType
<1>. QED BY <1>1, <1>2

LEMMA BytesNat ==
  ASSUME NEW r \in Rows
  PROVE  Bytes(r) \in Nat
BY LibraryAssumption DEF LibraryAssumption, Bytes, Rows, Versions

LEMMA LessNat ==
  ASSUME NEW a \in Nat, NEW b \in Nat
  PROVE  Less(a, b) \in Nat /\ (b <= a => Less(a, b) = a - b)
BY DEF Less

\* The triggers keep the counters counters.
LEMMA TalliedType ==
  ASSUME NEW t \in Tallies, NEW old \in Rows, NEW new \in Rows
  PROVE  Tallied(t, old, new) \in Tallies
<1>1. Without(t, old) \in Tallies
  <2>1. t.count \in [Types -> Nat] /\ t.bytes \in Nat /\ old.type \in Types
    BY DEF Tallies, Rows
  <2>2. Less(t.count[old.type], 1) \in Nat /\ Less(t.bytes, Bytes(old)) \in Nat
    BY <2>1, BytesNat, LessNat
  <2>. QED BY <2>1, <2>2 DEF Without, Tallies
<1>2. ASSUME NEW s \in Tallies
      PROVE  With(s, new) \in Tallies
  <2>1. s.count \in [Types -> Nat] /\ s.bytes \in Nat /\ new.type \in Types
    BY DEF Tallies, Rows
  <2>2. s.count[new.type] + 1 \in Nat /\ s.bytes + Bytes(new) \in Nat
    BY <2>1, BytesNat
  <2>. QED BY <2>1, <2>2 DEF With, Tallies
<1>. QED BY <1>1, <1>2 DEF Tallied

\* What the trigger does to the counter of one type, in terms of the row.
One(b) == IF b THEN 1 ELSE 0

LEMMA CountMoves ==
  ASSUME NEW t \in Tallies, NEW old \in Rows, NEW new \in Rows, NEW u \in Types,
         Counted(old) => t.count[old.type] >= 1
  PROVE  /\ With(Without(t, old), new).count[u] =
              t.count[u] - One(Counted(old) /\ old.type = u)
                         + One(Counted(new) /\ new.type = u)
<1>1. /\ t.count \in [Types -> Nat] /\ old.type \in Types /\ new.type \in Types
  BY DEF Tallies, Rows
<1>2. Without(t, old).count[u] = t.count[u] - One(Counted(old) /\ old.type = u)
  <2>1. CASE Counted(old)
    <3>1. Less(t.count[old.type], 1) = t.count[old.type] - 1
      BY <1>1, <2>1, LessNat
    <3>2. Without(t, old).count = [t.count EXCEPT ![old.type] = t.count[old.type] - 1]
      BY <2>1, <3>1 DEF Without
    <3>. QED BY <1>1, <2>1, <3>2 DEF One
  <2>2. CASE ~Counted(old)
    BY <1>1, <2>2 DEF Without, One
  <2>. QED BY <2>1, <2>2
<1>3. Without(t, old).count \in [Types -> Int]
  BY <1>1, TalliedType DEF Without, Tallies, Less
<1>4. CASE Counted(new)
  <2>1. With(Without(t, old), new).count =
          [Without(t, old).count EXCEPT ![new.type] = @ + 1]
    BY <1>4 DEF With
  <2>. QED BY <1>1, <1>2, <1>3, <1>4, <2>1 DEF One
<1>5. CASE ~Counted(new)
  BY <1>1, <1>2, <1>5 DEF With, One
<1>. QED BY <1>4, <1>5

\* Writing one row changes the number of counted rows by that row.
LEMMA CardinalityMoves ==
  ASSUME NEW rows \in [Paths -> Rows], NEW p \in Paths, NEW new \in Rows,
         NEW u \in Types
  PROVE  Cardinality(OfType([rows EXCEPT ![p] = new], u)) =
           Cardinality(OfType(rows, u)) - One(Counted(rows[p]) /\ rows[p].type = u)
                                        + One(Counted(new) /\ new.type = u)
<1>. DEFINE S == OfType(rows, u)
            R == S \ {p}
<1>1. /\ IsFiniteSet(S) /\ Cardinality(S) \in Nat
  BY PathsFinite
<1>2. /\ IsFiniteSet(R)
      /\ Cardinality(R) = Cardinality(S) - One(Counted(rows[p]) /\ rows[p].type = u)
  <2>1. p \in S <=> Counted(rows[p]) /\ rows[p].type = u
    BY DEF OfType
  <2>2. Cardinality(R) = IF p \in S THEN Cardinality(S) - 1 ELSE Cardinality(S)
    BY <1>1, FS_RemoveElement
  <2>. QED BY <1>1, <2>1, <2>2, FS_RemoveElement DEF One
<1>3. OfType([rows EXCEPT ![p] = new], u) =
        IF Counted(new) /\ new.type = u THEN R \cup {p} ELSE R
  BY DEF OfType
<1>4. Cardinality(R \cup {p}) = Cardinality(R) + 1
  BY <1>2, FS_AddElement
<1>. QED BY <1>1, <1>2, <1>3, <1>4 DEF One

\* So a row that is written under the triggers keeps an exact tally exact; a row
\* that is there is not taken away.
LEMMA RowExact ==
  ASSUME NEW rows \in [Paths -> Rows], NEW t \in Tallies, NEW p \in Paths,
         NEW new \in Rows, rows[p].there => new.there, Exact(rows, t)
  PROVE  Exact([rows EXCEPT ![p] = new], Tallied(t, rows[p], new))
<1>1. SUFFICES ASSUME NEW u \in Types
               PROVE  Tallied(t, rows[p], new).count[u] =
                        Cardinality(OfType([rows EXCEPT ![p] = new], u))
  BY DEF Exact
<1>. DEFINE old == rows[p]
<1>2. old \in Rows /\ old.type \in Types
  BY DEF Rows
<1>3. t.count[u] = Cardinality(OfType(rows, u)) /\ t.count[u] \in Nat
  BY DEF Exact, Tallies
<1>. DEFINE a == One(Counted(old) /\ old.type = u)
            b == One(Counted(new) /\ new.type = u)
<1>6. Cardinality(OfType([rows EXCEPT ![p] = new], u)) =
        Cardinality(OfType(rows, u)) - a + b
  BY CardinalityMoves
<1>4. CASE Fires(old, new)
  <2>1. Counted(old) => t.count[old.type] >= 1
    <3>1. SUFFICES ASSUME Counted(old) PROVE t.count[old.type] >= 1
      OBVIOUS
    <3>2. p \in OfType(rows, old.type)
      BY <3>1 DEF OfType
    <3>3. Cardinality(OfType(rows, old.type)) # 0
      BY <3>2, PathsFinite, FS_EmptySet
    <3>. QED BY <1>2, <3>3, PathsFinite DEF Exact
  <2>2. With(Without(t, old), new).count[u] = t.count[u] - a + b
    BY <1>2, <2>1, CountMoves
  <2>. HIDE DEF a, b
  <2>. QED BY <1>3, <1>4, <1>6, <2>2 DEF Tallied
<1>5. CASE ~Fires(old, new)
  <2>1. (Counted(old) /\ old.type = u) <=> (Counted(new) /\ new.type = u)
    BY <1>5 DEF Fires, Counted
  <2>2. a = b /\ a \in Int
    BY <2>1 DEF One
  <2>. HIDE DEF a, b
  <2>. QED BY <1>3, <1>5, <1>6, <2>2 DEF Tallied
<1>. QED BY <1>4, <1>5

\* is_missing is not counted.
LEMMA MissingExact ==
  ASSUME NEW rows, NEW new, NEW t, Exact(rows, t),
         \A p \in Paths : /\ Counted(new[p]) <=> Counted(rows[p])
                          /\ new[p].type = rows[p].type
  PROVE  Exact(new, t)
<1>1. \A u : OfType(new, u) = OfType(rows, u)
  BY DEF OfType
<1>. QED BY <1>1 DEF Exact

-----------------------------------------------------------------------------
(* The invariant, in the parts an action may disturb one at a time.        *)

Stamped(rows) ==
  \A p \in Paths : rows[p].stamp <= next /\ (rows[p].stamp # 0 <=> rows[p].there)

FolderOK == next \in 0 .. NVersions /\ disk \in [Paths -> 0 .. next]

MediaOK ==
  /\ media \in [Paths -> Rows] /\ tally \in Tallies /\ Stamped(media)
  /\ Exact(media, tally)

RawOK == raw \in 0 .. NPaths /\ (raw # 0 => media[raw].there)

ScanOK ==
  /\ scan \in [pc : {"off", "walk"}, at : 1 .. NPaths + 1, listed : SUBSET Paths,
               seen : SUBSET Paths, rows : [Paths -> Rows], tally : Tallies]
  /\ Stamped(scan.rows) /\ Exact(scan.rows, scan.tally)

\* A scan takes no row away.
AheadOK ==
  scan.pc = "walk" => \A p \in Paths : media[p].there => scan.rows[p].there

BuildOK ==
  build \in [pc : {"off", "zip"}, client : Clients, key : Keys,
             asked : Inventories, at : 1 .. NPaths + 1, files : Inventories,
             drift : SUBSET Paths]

CacheOK == cache \in Seq(Zips) /\ Len(cache) <= Keep

RespOK == resp \in [Clients -> [pc : {"none", "ready"}, key : Keys, asked : Inventories]]

ServedOK ==
  served \in [asked : Inventories, want : SUBSET Paths, files : Inventories,
              drift : SUBSET Paths]

BoundsOK ==
  /\ edits \in 0 .. MaxEdits /\ requests \in 0 .. MaxRequests
  /\ faults \in 0 .. MaxFaults /\ scans \in 0 .. MaxScans

IInv ==
  /\ FolderOK /\ MediaOK /\ RawOK /\ ScanOK /\ AheadOK /\ BuildOK /\ CacheOK
  /\ RespOK /\ ServedOK /\ BoundsOK

LEMMA IInvImplies == IInv => TypeOK /\ CountsExact
BY DEF IInv, FolderOK, MediaOK, RawOK, ScanOK, BuildOK, CacheOK, RespOK,
       ServedOK, BoundsOK, TypeOK, CountsExact, Exact, Stamped

LEMMA NothingThere ==
  ASSUME NEW p \in Paths
  PROVE  NoRow(p) \in Rows /\ NoRow(p).stamp = 0 /\ ~NoRow(p).there
BY LibraryAssumption DEF LibraryAssumption, NoRow, Rows, Versions

LEMMA NoScanOK ==
  ASSUME FolderOK, scan' = NoScan, next' = next
  PROVE  ScanOK'
<1>. DEFINE rows == [p \in Paths |-> NoRow(p)]
<1>1. rows \in [Paths -> Rows] /\ Zero \in Tallies
  BY NothingThere DEF Zero, Tallies
<1>2. Exact(rows, Zero)
  <2>1. \A u : OfType(rows, u) = {}
    BY NothingThere DEF OfType, Counted
  <2>. QED BY <2>1, FS_EmptySet DEF Exact, Zero
<1>3. \A p \in Paths : rows[p].stamp <= next /\ (rows[p].stamp # 0 <=> rows[p].there)
  BY NothingThere DEF FolderOK
<1>4. 1 \in 1 .. NPaths + 1
  BY LibraryAssumption DEF LibraryAssumption
<1>5. NoScan.rows = rows /\ NoScan.tally = Zero
  BY DEF NoScan
<1>6. NoScan \in [pc : {"off", "walk"}, at : 1 .. NPaths + 1, listed : SUBSET Paths,
                  seen : SUBSET Paths, rows : [Paths -> Rows], tally : Tallies]
  BY <1>1, <1>4 DEF NoScan
<1>7. Exact(scan'.rows, scan'.tally) /\ Stamped(scan.rows)'
  BY <1>2, <1>3, <1>5 DEF Stamped
<1>. QED BY <1>6, <1>7 DEF ScanOK, Exact, OfType, Counted

LEMMA NoKeyType == NoKey \in Keys /\ NoFiles \in Inventories
BY LibraryAssumption DEF LibraryAssumption, NoKey, Keys, NoFiles, Inventories

LEMMA NoBuildOK == build' = NoBuild => BuildOK'
BY NoKeyType, LibraryAssumption DEF LibraryAssumption, NoBuild, BuildOK

LEMMA InitHolds == Init => IInv
<1>1. SUFFICES ASSUME Init PROVE IInv
  OBVIOUS
<1>2. FolderOK /\ RawOK /\ BoundsOK
  BY <1>1, LibraryAssumption DEF LibraryAssumption, Init, FolderOK, RawOK, BoundsOK, NoFiles
<1>3. MediaOK
  <2>1. media \in [Paths -> Rows] /\ Zero \in Tallies /\ Stamped(media)
    BY <1>1, NothingThere DEF Init, Zero, Tallies, Stamped
  <2>2. \A u : OfType(media, u) = {}
    BY <1>1, NothingThere DEF Init, OfType, Counted
  <2>. QED BY <1>1, <2>1, <2>2, FS_EmptySet DEF Init, MediaOK, Exact, Zero
<1>4. ScanOK
  <2>1. scan.rows = media /\ scan.tally = Zero /\ tally = Zero
    BY <1>1 DEF Init, NoScan
  <2>2. 1 \in 1 .. NPaths + 1
    BY LibraryAssumption DEF LibraryAssumption
  <2>. QED BY <1>1, <1>3, <2>1, <2>2 DEF Init, ScanOK, MediaOK, NoScan
<1>7. AheadOK
  BY <1>1 DEF Init, NoScan, AheadOK
<1>5. BuildOK
  BY <1>1, NoKeyType, LibraryAssumption DEF LibraryAssumption, Init, NoBuild, BuildOK
<1>6. CacheOK /\ RespOK /\ ServedOK
  BY <1>1, NoKeyType, LibraryAssumption
     DEF LibraryAssumption, Init, CacheOK, RespOK, ServedOK, NoResp, NoServed
<1>. QED BY <1>2, <1>3, <1>4, <1>5, <1>6, <1>7 DEF IInv

-----------------------------------------------------------------------------
(* The actions, by what they leave alone.                                  *)

LEMMA FolderSteps ==
  ASSUME IInv, NEW p \in Paths, PutFile(p) \/ RemoveFile(p) \/ RestoreFile(p)
  PROVE  IInv'
<1>. USE DEF IInv
<1>1. /\ UNCHANGED <<media, tally, raw, scan, build, cache, resp, served,
                     requests, faults, scans>>
      /\ edits < MaxEdits /\ edits' = edits + 1
  BY DEF PutFile, RemoveFile, RestoreFile, Edited
<1>2. next' \in 0 .. NVersions /\ next' >= next /\ disk' \in [Paths -> 0 .. next']
  <2>1. CASE PutFile(p)
    BY <2>1, LibraryAssumption DEF LibraryAssumption, PutFile, FolderOK
  <2>2. CASE RemoveFile(p)
    BY <2>2 DEF RemoveFile, FolderOK
  <2>3. CASE RestoreFile(p)
    <3>1. media[p].stamp \in 0 .. next
      BY DEF MediaOK, Stamped, Rows, FolderOK
    <3>. QED BY <2>3, <3>1 DEF RestoreFile, FolderOK
  <2>. QED BY <2>1, <2>2, <2>3
<1>3. FolderOK'
  BY <1>2 DEF FolderOK
<1>4. \A rows \in [Paths -> Rows] : Stamped(rows) =>
        \A q \in Paths : rows[q].stamp <= next' /\ (rows[q].stamp # 0 <=> rows[q].there)
  BY <1>2 DEF Stamped, FolderOK, Rows
<1>5. MediaOK' /\ ScanOK'
  BY <1>1, <1>4 DEF MediaOK, ScanOK, Stamped, Exact, OfType, Counted
<1>6. RawOK' /\ AheadOK' /\ BuildOK' /\ CacheOK' /\ RespOK' /\ ServedOK'
  BY <1>1 DEF RawOK, AheadOK, BuildOK, CacheOK, RespOK, ServedOK
<1>7. BoundsOK'
  BY <1>1, LibraryAssumption DEF LibraryAssumption, BoundsOK
<1>. QED BY <1>3, <1>5, <1>6, <1>7

\* A row written under the triggers.
LEMMA WriteKeeps ==
  ASSUME IInv, NEW p \in Paths, NEW r \in Rows, r.there, r.stamp # 0,
         r.stamp <= next, Write(p, r), RawOK', BoundsOK'
  PROVE  IInv'
<1>. USE DEF IInv
<1>1. /\ media' = [media EXCEPT ![p] = r]
      /\ tally' = Tallied(tally, media[p], r)
      /\ UNCHANGED <<disk, next, scan, build, cache, resp, served>>
  BY DEF Write
<1>2. media' \in [Paths -> Rows] /\ Stamped(media)'
  BY <1>1 DEF MediaOK, Stamped
<1>3. tally' \in Tallies
  BY <1>1, TalliedType DEF MediaOK
<1>4. Exact(media, tally)'
  BY <1>1, RowExact DEF MediaOK
<1>5. MediaOK'
  BY <1>2, <1>3, <1>4 DEF MediaOK
<1>6. ScanOK'
  BY <1>1 DEF ScanOK, Stamped, Exact, OfType, Counted
<1>7. FolderOK' /\ BuildOK' /\ CacheOK' /\ RespOK' /\ ServedOK'
  BY <1>1 DEF FolderOK, BuildOK, CacheOK, RespOK, ServedOK
<1>8. AheadOK'
  BY <1>1 DEF Write, Unlocked, AheadOK
<1>. QED BY <1>5, <1>6, <1>7, <1>8

LEMMA RowSteps ==
  ASSUME IInv, NEW p \in Paths,
         \/ \E t \in Types : IndexMedia(p, t)
         \/ Forget(p) \/ RawFindsNone(p) \/ RawMarks
  PROVE  IInv'
<1>. USE DEF IInv
<1>1. CASE \E t \in Types : IndexMedia(p, t)
  <2>1. PICK t \in Types : IndexMedia(p, t)
    BY <1>1
  <2>. DEFINE r == [NoRow(p) EXCEPT !.there = TRUE, !.type = t, !.stamp = disk[p]]
  <2>2. disk[p] # 0 /\ disk[p] <= next /\ disk[p] \in 0 .. NVersions
    <3>1. disk[p] \in 0 .. next /\ next \in 0 .. NVersions
      BY DEF FolderOK
    <3>2. disk[p] # 0
      BY <2>1 DEF IndexMedia
    <3>3. NVersions \in Nat
      BY LibraryAssumption DEF LibraryAssumption
    <3>. QED BY <3>1, <3>2, <3>3
  <2>3. r \in Rows /\ r.there /\ r.stamp = disk[p]
    BY <2>2 DEF NoRow, Rows
  <2>4. RawOK' /\ BoundsOK'
    <3>1. /\ media' = [media EXCEPT ![p] = r]
          /\ UNCHANGED <<raw, edits, requests, faults, scans>>
      BY <2>1 DEF IndexMedia, Write
    <3>2. media \in [Paths -> Rows] /\ (raw # 0 => raw \in Paths)
      BY DEF MediaOK, RawOK, Paths
    <3>. HIDE DEF r
    <3>3. \A q \in Paths : media[q].there => media'[q].there
      BY <2>3, <3>1, <3>2
    <3>4. RawOK'
      BY <3>1, <3>2, <3>3 DEF RawOK
    <3>. QED BY <3>1, <3>4 DEF BoundsOK
  <2>. QED BY <2>1, <2>2, <2>3, <2>4, WriteKeeps DEF IndexMedia
<1>2. CASE Forget(p)
  <2>. DEFINE r == [media[p] EXCEPT !.deleted = TRUE]
  <2>1. r \in Rows /\ r.there /\ r.stamp # 0 /\ r.stamp <= next
    BY <1>2 DEF Forget, MediaOK, Stamped, Rows
  <2>2. RawOK' /\ BoundsOK'
    BY <1>2, <2>1, LibraryAssumption
       DEF LibraryAssumption, Forget, Write, Edited, RawOK, BoundsOK, MediaOK
  <2>. QED BY <1>2, <2>1, <2>2, WriteKeeps DEF Forget
<1>3. CASE RawFindsNone(p)
  <2>1. UNCHANGED <<disk, next, media, tally, scan, build, cache, resp, served,
                    edits, requests, faults, scans>>
    BY <1>3 DEF RawFindsNone
  <2>2. RawOK'
    BY <1>3 DEF RawFindsNone, RawOK, Paths
  <2>3. MediaOK' /\ ScanOK' /\ AheadOK'
    BY <2>1 DEF MediaOK, ScanOK, AheadOK, Stamped, Exact, OfType, Counted
  <2>. QED
    BY <2>1, <2>2, <2>3 DEF FolderOK, BuildOK, CacheOK, RespOK, ServedOK, BoundsOK
<1>4. CASE RawMarks
  <2>1. raw \in Paths /\ media[raw].there
    BY <1>4 DEF RawMarks, RawOK, Paths
  <2>. DEFINE r == [media[raw] EXCEPT !.missing = TRUE]
  <2>2. r \in Rows /\ r.there /\ r.stamp # 0 /\ r.stamp <= next
    BY <2>1 DEF MediaOK, Stamped, Rows
  <2>3. RawOK' /\ BoundsOK'
    BY <1>4, LibraryAssumption DEF LibraryAssumption, RawMarks, Write, RawOK, BoundsOK
  <2>. QED BY <1>4, <2>1, <2>2, <2>3, WriteKeeps DEF RawMarks
<1>. QED BY <1>1, <1>2, <1>3, <1>4
-----------------------------------------------------------------------------
(* The scan: the pair it keeps is exact while it is not committed.         *)

\* What a step of the scan that commits nothing leaves alone.
Folder == <<disk, next, media, tally, raw>>
Answers == <<build, cache, resp, served>>
Bounds == <<edits, requests, faults, scans>>

LEMMA ScanStepKeeps ==
  ASSUME IInv, ScanOK', AheadOK', UNCHANGED Folder, UNCHANGED Answers,
         UNCHANGED <<edits, requests, faults>>, scans' \in 0 .. MaxScans
  PROVE  IInv'
<1>1. FolderOK' /\ MediaOK' /\ RawOK'
  BY DEF IInv, Folder, FolderOK, MediaOK, RawOK, Stamped, Exact, OfType, Counted
<1>2. BuildOK' /\ CacheOK' /\ RespOK' /\ ServedOK' /\ BoundsOK'
  BY DEF IInv, Answers, BuildOK, CacheOK, RespOK, ServedOK, BoundsOK
<1>. QED BY <1>1, <1>2 DEF IInv

LEMMA ScanStarts ==
  ASSUME IInv, ScanStart
  PROVE  IInv'
<1>1. /\ scan'.rows = media /\ scan'.tally = tally
      /\ scan' \in [pc : {"off", "walk"}, at : 1 .. NPaths + 1, listed : SUBSET Paths,
                     seen : SUBSET Paths, rows : [Paths -> Rows], tally : Tallies]
  <2>1. 1 \in 1 .. NPaths + 1
    BY LibraryAssumption DEF LibraryAssumption
  <2>. QED BY <2>1 DEF ScanStart, NoScan, IInv, MediaOK
<1>2. UNCHANGED <<media, tally, next>>
  BY DEF ScanStart
<1>3. ScanOK'
  BY <1>1, <1>2 DEF IInv, MediaOK, ScanOK, Stamped, Exact, OfType, Counted
<1>4. scans' \in 0 .. MaxScans
  BY LibraryAssumption DEF LibraryAssumption, ScanStart, IInv, BoundsOK
<1>5. AheadOK'
  BY <1>1, <1>2 DEF AheadOK
<1>. QED BY <1>3, <1>4, <1>5, ScanStepKeeps DEF ScanStart, Folder, Answers

LEMMA VisitKeeps ==
  ASSUME IInv, NEW p \in Paths, NEW r \in Rows, Walking(p), Visit(p, r),
         r.stamp <= next, r.stamp # 0 <=> r.there, scan.rows[p].there => r.there
  PROVE  IInv'
<1>1. /\ scan.rows \in [Paths -> Rows] /\ scan.tally \in Tallies
      /\ scan.rows[p] \in Rows
  BY DEF IInv, ScanOK
<1>2. scan' = [scan EXCEPT !.at = p + 1, !.seen = scan.seen \cup {p},
                 !.rows[p] = r, !.tally = Tallied(scan.tally, scan.rows[p], r)]
  BY DEF Visit
<1>3. Tallied(scan.tally, scan.rows[p], r) \in Tallies
  BY <1>1, TalliedType
<1>4. p + 1 \in 1 .. NPaths + 1
  BY LibraryAssumption DEF LibraryAssumption, Paths
<1>5. /\ scan'.rows = [scan.rows EXCEPT ![p] = r]
      /\ scan'.tally = Tallied(scan.tally, scan.rows[p], r)
      /\ scan' \in [pc : {"off", "walk"}, at : 1 .. NPaths + 1, listed : SUBSET Paths,
                     seen : SUBSET Paths, rows : [Paths -> Rows], tally : Tallies]
  BY <1>1, <1>2, <1>3, <1>4 DEF IInv, ScanOK
<1>6. Exact(scan'.rows, scan'.tally)
  BY <1>1, <1>5, RowExact DEF IInv, ScanOK
<1>7. next' = next
  BY DEF Visit
<1>8. \A q \in Paths : scan'.rows[q].stamp <= next' /\
                         (scan'.rows[q].stamp # 0 <=> scan'.rows[q].there)
  BY <1>1, <1>5, <1>7 DEF IInv, ScanOK, Stamped
<1>9. ScanOK'
  BY <1>5, <1>6, <1>8 DEF ScanOK, Stamped, Exact, OfType, Counted
<1>10. scans' \in 0 .. MaxScans
  BY DEF Visit, IInv, BoundsOK
<1>11. AheadOK'
  <2>1. media' = media /\ scan.pc = "walk"
    BY DEF Visit, Walking
  <2>. QED BY <1>1, <1>5, <2>1 DEF IInv, AheadOK
<1>. QED BY <1>9, <1>10, <1>11, ScanStepKeeps DEF Visit, Folder, Answers

LEMMA ScanSteps ==
  ASSUME IInv, NEW p \in Paths,
         \/ VisitNothing(p) \/ VisitTrusted(p) \/ VisitHashed(p) \/ ScanAborts(p)
  PROVE  IInv'
<1>1. CASE VisitNothing(p)
  <2>1. p + 1 \in 1 .. NPaths + 1
    BY LibraryAssumption DEF LibraryAssumption, Paths
  <2>2. /\ scan'.rows = scan.rows /\ scan'.tally = scan.tally /\ next' = next
        /\ scan' \in [pc : {"off", "walk"}, at : 1 .. NPaths + 1,
                       listed : SUBSET Paths, seen : SUBSET Paths,
                       rows : [Paths -> Rows], tally : Tallies]
    BY <1>1, <2>1 DEF VisitNothing, IInv, ScanOK
  <2>3. ScanOK'
    BY <2>2 DEF IInv, ScanOK, Stamped, Exact, OfType, Counted
  <2>4. scans' \in 0 .. MaxScans
    BY <1>1 DEF VisitNothing, IInv, BoundsOK
  <2>5. AheadOK'
    BY <1>1, <2>2 DEF VisitNothing, Walking, IInv, AheadOK
  <2>. QED BY <1>1, <2>3, <2>4, <2>5, ScanStepKeeps DEF VisitNothing, Folder, Answers
<1>2. CASE VisitTrusted(p)
  <2>. DEFINE r == [scan.rows[p] EXCEPT !.missing = FALSE, !.deleted = FALSE]
  <2>1. scan.rows[p] \in Rows
    BY DEF IInv, ScanOK
  <2>2. r \in Rows /\ r.stamp = scan.rows[p].stamp /\ r.there = scan.rows[p].there
    BY <2>1 DEF Rows
  <2>3. /\ scan.rows[p].stamp <= next
        /\ scan.rows[p].stamp # 0 <=> scan.rows[p].there
    BY DEF IInv, ScanOK, Stamped
  <2>4. Walking(p) /\ Visit(p, r)
    BY <1>2 DEF VisitTrusted
  <2>. HIDE DEF r
  <2>. QED BY <2>2, <2>3, <2>4, VisitKeeps
<1>3. CASE VisitHashed(p)
  <2>. DEFINE r == [NoRow(p) EXCEPT !.there = TRUE, !.stamp = disk[p]]
  <2>1. disk[p] \in 0 .. next /\ next \in 0 .. NVersions /\ disk[p] # 0
    BY <1>3 DEF VisitHashed, Visible, IInv, FolderOK
  <2>2. disk[p] \in 0 .. NVersions /\ disk[p] <= next
    BY <2>1, LibraryAssumption DEF LibraryAssumption
  <2>3. r \in Rows /\ r.there /\ r.stamp = disk[p]
    BY <2>2, NothingThere DEF NoRow, Rows
  <2>4. Walking(p) /\ Visit(p, r)
    BY <1>3 DEF VisitHashed
  <2>. HIDE DEF r
  <2>. QED BY <2>1, <2>2, <2>3, <2>4, VisitKeeps
<1>4. CASE ScanAborts(p)
  <2>1. ScanOK'
    BY <1>4, NoScanOK DEF ScanAborts, IInv
  <2>2. scans' \in 0 .. MaxScans
    BY <1>4 DEF ScanAborts, IInv, BoundsOK
  <2>3. AheadOK'
    BY <1>4 DEF ScanAborts, NoScan, AheadOK
  <2>. QED BY <1>4, <2>1, <2>2, <2>3, ScanStepKeeps DEF ScanAborts, Folder, Answers
<1>. QED BY <1>1, <1>2, <1>3, <1>4

LEMMA ScanEnds ==
  ASSUME IInv, ScanEnd
  PROVE  IInv'
<1>. DEFINE new == [p \in Paths |-> [scan.rows[p] EXCEPT !.missing = @ \/ Vanished(p)]]
<1>1. media' = new /\ tally' = scan.tally /\ scan' = NoScan
  BY DEF ScanEnd
<1>2. UNCHANGED <<disk, next, raw>> /\ UNCHANGED Answers /\ UNCHANGED Bounds
  BY DEF ScanEnd, Answers, Bounds
<1>3. /\ scan.rows \in [Paths -> Rows] /\ scan.tally \in Tallies
      /\ \A p \in Paths : scan.rows[p] \in Rows
  BY DEF IInv, ScanOK
<1>4. ASSUME NEW p \in Paths
      PROVE  /\ new[p] \in Rows /\ new[p].there = scan.rows[p].there
             /\ new[p].stamp = scan.rows[p].stamp /\ new[p].type = scan.rows[p].type
             /\ new[p].deleted = scan.rows[p].deleted
  <2>1. (scan.rows[p].missing \/ Vanished(p)) \in BOOLEAN
    BY <1>3 DEF Rows
  <2>. QED BY <1>3, <2>1 DEF Rows
<1>5. new \in [Paths -> Rows]
  BY <1>4
<1>6. Exact(new, scan.tally)
  <2>. HIDE DEF new
  <2>1. Exact(scan.rows, scan.tally)
    BY DEF IInv, ScanOK
  <2>. QED BY <1>4, <2>1, MissingExact DEF Counted
<1>. HIDE DEF new
<1>7. MediaOK'
  <2>1. Stamped(media)'
    BY <1>1, <1>2, <1>4 DEF IInv, ScanOK, Stamped
  <2>2. Exact(media, tally)'
    BY <1>1, <1>6 DEF Exact, OfType, Counted
  <2>. QED BY <1>1, <1>3, <1>5, <2>1, <2>2 DEF MediaOK
<1>8. FolderOK' /\ ScanOK'
  BY <1>1, <1>2, NoScanOK DEF IInv, FolderOK
<1>9. RawOK'
  <2>1. raw \in 0 .. NPaths /\ raw' = raw /\ (raw # 0 => raw \in Paths)
    BY <1>2 DEF IInv, RawOK, Paths
  <2>2. ASSUME raw # 0 PROVE media'[raw].there
    <3>1. media[raw].there /\ raw \in Paths
      BY <2>1, <2>2 DEF IInv, RawOK
    <3>2. scan.rows[raw].there
      BY <3>1 DEF ScanEnd, IInv, AheadOK
    <3>. QED BY <1>1, <1>4, <3>1, <3>2
  <2>. QED BY <2>1, <2>2 DEF RawOK
<1>10. BuildOK' /\ CacheOK' /\ RespOK' /\ ServedOK' /\ BoundsOK'
  BY <1>2 DEF IInv, Answers, Bounds, BuildOK, CacheOK, RespOK, ServedOK, BoundsOK
<1>11. AheadOK'
  BY <1>1 DEF NoScan, AheadOK
<1>. QED BY <1>7, <1>8, <1>9, <1>10, <1>11 DEF IInv
-----------------------------------------------------------------------------
(* Bundles touch nothing of the above.                                     *)

LEMMA InventoryType ==
  ASSUME IInv, NEW w \in SUBSET Paths
  PROVE  Inventory \in Inventories /\ Key(w) \in Keys
BY LibraryAssumption
   DEF LibraryAssumption, IInv, MediaOK, Rows, Inventory, Inventories, Key, Keys

LEMMA BundleStepKeeps ==
  ASSUME IInv, UNCHANGED Folder, UNCHANGED <<scan, edits, scans>>,
         BuildOK', CacheOK', RespOK', ServedOK',
         requests' \in 0 .. MaxRequests, faults' \in 0 .. MaxFaults
  PROVE  IInv'
BY DEF IInv, Folder, FolderOK, MediaOK, RawOK, ScanOK, AheadOK, BoundsOK, Stamped,
       Exact, OfType, Counted

LEMMA AskSteps ==
  ASSUME IInv, NEW c \in Clients, NEW w \in Wants, AskHit(c, w) \/ AskMiss(c, w)
  PROVE  IInv'
<1>1. w \in SUBSET Paths /\ 1 \in 1 .. NPaths + 1
  BY LibraryAssumption DEF LibraryAssumption
<1>2. Inventory \in Inventories /\ Key(w) \in Keys
  BY <1>1, InventoryType
<1>3. requests' \in 0 .. MaxRequests /\ faults' \in 0 .. MaxFaults
  BY LibraryAssumption
     DEF LibraryAssumption, AskHit, AskMiss, Asks, IInv, BoundsOK
<1>4. BuildOK'
  <2>1. CASE AskHit(c, w)
    BY <2>1 DEF AskHit, IInv, BuildOK
  <2>2. CASE AskMiss(c, w)
    BY <1>1, <1>2, <2>2, NoKeyType DEF AskMiss, NoBuild, BuildOK
  <2>. QED BY <2>1, <2>2
<1>5. RespOK'
  <2>1. CASE AskHit(c, w)
    BY <1>2, <2>1 DEF AskHit, Ready, IInv, RespOK
  <2>2. CASE AskMiss(c, w)
    BY <2>2 DEF AskMiss, IInv, RespOK
  <2>. QED BY <2>1, <2>2
<1>6. /\ CacheOK' /\ ServedOK'
      /\ UNCHANGED Folder /\ UNCHANGED <<scan, edits, scans>>
  BY DEF AskHit, AskMiss, Folder, IInv, CacheOK, ServedOK
<1>. QED BY <1>3, <1>4, <1>5, <1>6, BundleStepKeeps

\* Pruning keeps a prefix, of at most Keep zips.
LEMMA KeptType ==
  ASSUME NEW zips \in Seq(Zips)
  PROVE  Kept(zips) \in Seq(Zips) /\ Len(Kept(zips)) <= Keep
<1>1. Keep \in Nat /\ Len(zips) \in Nat
  BY LibraryAssumption DEF LibraryAssumption
<1>2. CASE Len(zips) <= Keep
  BY <1>2 DEF Kept
<1>3. CASE ~(Len(zips) <= Keep)
  <2>1. /\ SubSeq(zips, 1, Keep) \in Seq(Zips)
        /\ Len(SubSeq(zips, 1, Keep)) = Keep
    BY <1>1, <1>3
  <2>. QED BY <1>1, <1>3, <2>1 DEF Kept
<1>. QED BY <1>2, <1>3

LEMMA ZipSteps ==
  ASSUME IInv, ZipFile \/ ZipEnd \/ ZipFails
  PROVE  IInv'
<1>1. build \in [pc : {"off", "zip"}, client : Clients, key : Keys,
                 asked : Inventories, at : 1 .. NPaths + 1, files : Inventories,
                 drift : SUBSET Paths]
  BY DEF IInv, BuildOK
<1>2. UNCHANGED Folder /\ UNCHANGED <<scan, edits, scans>> /\ ServedOK'
  BY DEF ZipFile, ZipEnd, ZipFails, Folder, IInv, ServedOK
<1>3. requests' \in 0 .. MaxRequests /\ faults' \in 0 .. MaxFaults
  BY LibraryAssumption
     DEF LibraryAssumption, ZipFile, ZipEnd, ZipFails, Fault, IInv, BoundsOK
<1>4. CASE ZipFile
  <2>. DEFINE p == build.at
  <2>1. p \in Paths /\ p + 1 \in 1 .. NPaths + 1
    BY <1>1, <1>4, LibraryAssumption DEF LibraryAssumption, ZipFile, Paths
  <2>2. disk[p] \in 0 .. NVersions
    BY <2>1, LibraryAssumption DEF LibraryAssumption, IInv, FolderOK
  <2>3. [build.files EXCEPT ![p] = disk[p]] \in Inventories
    BY <1>1, <2>1, <2>2 DEF Inventories
  <2>4. (IF disk[p] = build.asked[p] THEN build.drift ELSE build.drift \cup {p})
          \in SUBSET Paths
    BY <1>1, <2>1
  <2>5. BuildOK'
    BY <1>1, <1>4, <2>1, <2>3, <2>4 DEF ZipFile, BuildOK
  <2>6. CacheOK' /\ RespOK'
    BY <1>4 DEF ZipFile, IInv, CacheOK, RespOK
  <2>. QED BY <1>2, <1>3, <2>5, <2>6, BundleStepKeeps
<1>5. CASE ZipEnd
  <2>1. Zip \in Zips /\ cache \in Seq(Zips)
    BY <1>1 DEF Zip, Zips, IInv, CacheOK
  <2>2. <<Zip>> \o cache \in Seq(Zips)
    BY <2>1
  <2>3. CacheOK'
    BY <1>5, <2>2, KeptType DEF ZipEnd, CacheOK
  <2>4. RespOK'
    BY <1>1, <1>5, NoKeyType DEF ZipEnd, NoResp, Ready, IInv, RespOK
  <2>. QED
    BY <1>2, <1>3, <1>5, <2>3, <2>4, NoBuildOK, BundleStepKeeps DEF ZipEnd
<1>6. CASE ZipFails
  <2>1. CacheOK' /\ RespOK'
    BY <1>6 DEF ZipFails, IInv, CacheOK, RespOK
  <2>. QED BY <1>2, <1>3, <1>6, <2>1, NoBuildOK, BundleStepKeeps DEF ZipFails
<1>. QED BY <1>4, <1>5, <1>6

LEMMA OpenKeeps ==
  ASSUME IInv, NEW c \in Clients, Open(c)
  PROVE  IInv'
<1>1. resp \in [Clients -> [pc : {"none", "ready"}, key : Keys, asked : Inventories]]
  BY DEF IInv, RespOK
<1>2. ASSUME NEW i \in Cached(resp[c].key)
      PROVE  cache[i] \in Zips
  BY <1>2 DEF Cached, IInv, CacheOK
<1>3. ServedOK'
  BY <1>1, <1>2 DEF Open, IInv, ServedOK, Zips, Keys
<1>4. RespOK'
  BY <1>1, NoKeyType DEF Open, NoResp, RespOK
<1>5. /\ UNCHANGED Folder /\ UNCHANGED <<scan, edits, scans>>
      /\ BuildOK' /\ CacheOK'
      /\ requests' \in 0 .. MaxRequests /\ faults' \in 0 .. MaxFaults
  BY DEF Open, Folder, IInv, BuildOK, CacheOK, BoundsOK
<1>. QED BY <1>3, <1>4, <1>5, BundleStepKeeps

LEMMA CrashKeeps ==
  ASSUME IInv, Crash
  PROVE  IInv'
<1>1. FolderOK' /\ MediaOK' /\ CacheOK' /\ ServedOK'
  BY DEF Crash, CacheAfterCrash, IInv, FolderOK, MediaOK, CacheOK, ServedOK, Stamped,
         Exact, OfType, Counted
<1>2. ScanOK' /\ AheadOK' /\ BuildOK'
  BY NoScanOK, NoBuildOK DEF Crash, NoScan, IInv, AheadOK
<1>3. RawOK' /\ RespOK'
  BY NoKeyType, LibraryAssumption DEF LibraryAssumption, Crash, NoResp, RawOK, RespOK
<1>4. BoundsOK'
  BY LibraryAssumption DEF LibraryAssumption, Crash, Fault, IInv, BoundsOK
<1>. QED BY <1>1, <1>2, <1>3, <1>4 DEF IInv

-----------------------------------------------------------------------------
(* The theorems.                                                           *)

LEMMA StepHolds == IInv /\ [Next]_vars => IInv'
<1>1. SUFFICES ASSUME IInv, [Next]_vars PROVE IInv'
  OBVIOUS
<1>2. CASE \E p \in Paths : PutFile(p) \/ RemoveFile(p) \/ RestoreFile(p)
  BY <1>1, <1>2, FolderSteps
<1>3. CASE \/ \E p \in Paths, t \in Types : IndexMedia(p, t)
           \/ \E p \in Paths : Forget(p) \/ RawFindsNone(p)
  BY <1>1, <1>3, RowSteps
<1>4. CASE RawMarks
  <2>1. raw \in Paths
    BY <1>1, <1>4 DEF RawMarks, IInv, RawOK, Paths
  <2>. QED BY <1>1, <1>4, <2>1, RowSteps
<1>5. CASE ScanStart \/ ScanEnd
  BY <1>1, <1>5, ScanStarts, ScanEnds
<1>6. CASE \E p \in Paths : \/ VisitNothing(p) \/ VisitTrusted(p)
                            \/ VisitHashed(p) \/ ScanAborts(p)
  BY <1>1, <1>6, ScanSteps
<1>7. CASE \E c \in Clients, w \in Wants : AskHit(c, w) \/ AskMiss(c, w)
  BY <1>1, <1>7, AskSteps
<1>8. CASE ZipFile \/ ZipEnd \/ ZipFails
  BY <1>1, <1>8, ZipSteps
<1>9. CASE \E c \in Clients : Open(c)
  BY <1>1, <1>9, OpenKeeps
<1>10. CASE Crash
  BY <1>1, <1>10, CrashKeeps
<1>11. CASE UNCHANGED vars
  BY SMTT(30), <1>1, <1>11
     DEF vars, IInv, FolderOK, MediaOK, RawOK, ScanOK, AheadOK, BuildOK, CacheOK,
         RespOK, ServedOK, BoundsOK, Stamped, Exact, OfType, Counted
<1>. QED
  BY <1>1, <1>2, <1>3, <1>4, <1>5, <1>6, <1>7, <1>8, <1>9, <1>10, <1>11 DEF Next

\* Every variable keeps its type; the cache is within its bound.
THEOREM TypeCorrect == Spec => []TypeOK
<1>1. Spec => []IInv
  BY InitHolds, StepHolds, PTL DEF Spec
<1>. QED BY <1>1, IInvImplies, PTL

\* The counters of the account are what a recount of its rows would give, for
\* every number of paths, types and scans (0002_triggers.sql:1-67).
THEOREM CountsAlways == Spec => []CountsExact
<1>1. Spec => []IInv
  BY InitHolds, StepHolds, PTL DEF Spec
<1>. QED BY <1>1, IInvImplies, PTL

-----------------------------------------------------------------------------
(* Sums over finite sets, as MapThenSumSet of FiniteSetsExt computes them.  *)
(* An induction over the size of a set is stated as what a smallest        *)
(* counterexample would be.                                                *)

\* A set of numbers has a least one.
LEMMA LeastNat ==
  ASSUME NEW T \in SUBSET Nat, T # {}
  PROVE  \E n \in T : \A m \in T : n <= m
<1>1. PICK n \in T : \A m \in T : ~(<<m, n>> \in OpToRel(<, Nat))
  BY NatLessThanWellFounded, WFMin
<1>2. ASSUME NEW m \in T PROVE n <= m
  <2>1. m \in Nat /\ n \in Nat
    OBVIOUS
  <2>2. <<m, n>> \in OpToRel(<, Nat) <=> m < n
    BY <2>1 DEF OpToRel
  <2>3. ~(m < n)
    BY <1>1, <2>2
  <2>. QED BY <2>1, <2>3
<1>. QED BY <1>2

\* The order in which FiniteSetsExt takes the elements of a set.
Pick(s) == CHOOSE x \in s : TRUE
Rest(s) == s \ {Pick(s)}

\* One step of the fold, and a function that is the fold of f on every subset.
Step(f, g, s) == IF s = {} THEN 0 ELSE f[Pick(s)] + g[Rest(s)]
IsSum(g, f, S) == g = [s \in SUBSET S |-> Step(f, g, s)]

LEMMA PickIn ==
  ASSUME NEW s, s # {}
  PROVE  Pick(s) \in s /\ Rest(s) \subseteq s /\ Pick(s) \notin Rest(s)
BY DEF Pick, Rest

LEMMA SmallerRest ==
  ASSUME NEW s, IsFiniteSet(s), s # {}
  PROVE  /\ IsFiniteSet(Rest(s)) /\ Cardinality(Rest(s)) \in Nat
         /\ Cardinality(s) \in Nat /\ Cardinality(Rest(s)) = Cardinality(s) - 1
<1>1. Pick(s) \in s
  BY PickIn
<1>. QED BY <1>1, FS_RemoveElement, FS_CardinalityType DEF Rest

\* Induction on the size of a finite set, as the smallest counterexample.
LEMMA SmallestSet ==
  ASSUME NEW S, IsFiniteSet(S), NEW B \in SUBSET SUBSET S, B # {}
  PROVE  \E s \in B : \A t \in B : Cardinality(s) <= Cardinality(t)
<1>. DEFINE Sizes == {n \in Nat : \E s \in B : Cardinality(s) = n}
<1>1. \A s \in B : Cardinality(s) \in Nat
  BY FS_Subset, FS_CardinalityType
<1>2. Sizes \in SUBSET Nat /\ Sizes # {}
  BY <1>1
<1>3. PICK n \in Sizes : \A m \in Sizes : n <= m
  <2>. HIDE DEF Sizes
  <2>. QED BY <1>2, LeastNat
<1>4. PICK s \in B : Cardinality(s) = n
  BY <1>3
<1>5. \A t \in B : Cardinality(t) \in Sizes
  BY <1>1
<1>. HIDE DEF Sizes
<1>. QED BY <1>3, <1>4, <1>5

\* With a nonempty set, its Rest is in reach of that induction.
LEMMA RestSmaller ==
  ASSUME NEW S, IsFiniteSet(S), NEW B \in SUBSET SUBSET S, NEW s \in SUBSET S, s # {},
         \A t \in B : Cardinality(s) <= Cardinality(t), NEW x \in s
  PROVE  s \ {x} \in SUBSET S /\ s \ {x} \notin B
<1>1. IsFiniteSet(s) /\ Cardinality(s) \in Nat
  BY FS_Subset, FS_CardinalityType
<1>2. Cardinality(s \ {x}) = Cardinality(s) - 1
  BY <1>1, FS_RemoveElement
<1>. QED BY <1>1, <1>2

LEMMA SumExists ==
  ASSUME NEW S, IsFiniteSet(S), NEW f
  PROVE  \E g : IsSum(g, f, S)
<1>. DEFINE Upto(n) == \E g : \A s \in SUBSET S : Cardinality(s) <= n => g[s] = Step(f, g, s)
            Bad == {n \in Nat : ~Upto(n)}
<1>1. \A s \in SUBSET S : IsFiniteSet(s) /\ Cardinality(s) \in Nat /\ Cardinality(s) <= Cardinality(S)
  BY FS_Subset, FS_CardinalityType
<1>2. Bad = {}
  <2>1. SUFFICES ASSUME Bad # {} PROVE FALSE
    OBVIOUS
  <2>2. PICK n \in Bad : \A m \in Bad : n <= m
    <3>. HIDE DEF Upto
    <3>1. Bad \in SUBSET Nat
      OBVIOUS
    <3>. HIDE DEF Bad
    <3>. QED BY <2>1, <3>1, LeastNat
  <2>3. Upto(n)
    <3>1. CASE n = 0
      <4>. DEFINE g == [s \in SUBSET S |-> 0]
      <4>1. ASSUME NEW s \in SUBSET S, Cardinality(s) <= 0
            PROVE  g[s] = Step(f, g, s)
        <5>1. s = {}
          BY <1>1, <4>1, FS_EmptySet
        <5>. QED BY <5>1 DEF Step
      <4>. HIDE DEF g
      <4>. QED BY <3>1, <4>1
    <3>2. CASE n # 0
      <4>1. n - 1 \in Nat /\ n \in Nat
        BY <2>2, <3>2
      <4>2. Upto(n - 1)
        <5>. HIDE DEF Upto
        <5>1. n - 1 \notin Bad
          BY <2>2, <4>1
        <5>. QED BY <4>1, <5>1
      <4>3. PICK g : \A s \in SUBSET S : Cardinality(s) <= n - 1 => g[s] = Step(f, g, s)
        BY <4>2
      <4>. DEFINE h == [s \in SUBSET S |-> Step(f, g, s)]
      <4>4. ASSUME NEW s \in SUBSET S, Cardinality(s) <= n
            PROVE  h[s] = Step(f, h, s)
        <5>1. CASE s = {}
          BY <5>1 DEF Step
        <5>2. CASE s # {}
          <6>1. /\ Rest(s) \in SUBSET S /\ Cardinality(Rest(s)) <= n - 1
            BY <1>1, <4>1, <4>4, <5>2, SmallerRest, PickIn
          <6>2. h[Rest(s)] = Step(f, g, Rest(s))
            BY <6>1
          <6>3. g[Rest(s)] = Step(f, g, Rest(s))
            BY <4>3, <6>1
          <6>4. h[s] = Step(f, g, s)
            OBVIOUS
          <6>. HIDE DEF h
          <6>. QED BY <5>2, <6>2, <6>3, <6>4 DEF Step
        <5>. QED BY <5>1, <5>2
      <4>. HIDE DEF h
      <4>. QED BY <4>4
    <3>. QED BY <3>1, <3>2
  <2>. QED BY <2>2, <2>3
<1>3. Upto(Cardinality(S))
  <2>. HIDE DEF Upto
  <2>1. Cardinality(S) \in Nat
    BY FS_CardinalityType
  <2>. QED BY <1>2, <2>1
<1>4. PICK g : \A s \in SUBSET S : g[s] = Step(f, g, s)
  BY <1>1, <1>3
<1>. DEFINE h == [s \in SUBSET S |-> Step(f, g, s)]
<1>5. ASSUME NEW s \in SUBSET S
      PROVE  Step(f, g, s) = Step(f, h, s)
  <2>1. CASE s = {}
    BY <2>1 DEF Step
  <2>2. CASE s # {}
    <3>1. Rest(s) \in SUBSET S
      BY <2>2, PickIn
    <3>2. h[Rest(s)] = g[Rest(s)]
      BY <1>4, <3>1
    <3>. HIDE DEF h
    <3>. QED BY <2>2, <3>2 DEF Step
  <2>. QED BY <2>1, <2>2
<1>6. h = [s \in SUBSET S |-> Step(f, h, s)]
  <2>1. h = [s \in SUBSET S |-> Step(f, g, s)]
    OBVIOUS
  <2>. HIDE DEF h
  <2>. QED BY <1>5, <2>1
<1>. HIDE DEF h
<1>. QED BY <1>6 DEF IsSum

LEMMA SumStep ==
  ASSUME NEW S, NEW f, NEW g, IsSum(g, f, S), NEW s \in SUBSET S
  PROVE  g[s] = Step(f, g, s)
BY DEF IsSum

LEMMA SumType ==
  ASSUME NEW S, IsFiniteSet(S), NEW f, \A p \in S : f[p] \in Nat, NEW g, IsSum(g, f, S)
  PROVE  \A s \in SUBSET S : g[s] \in Nat
<1>. DEFINE Bad == {s \in SUBSET S : g[s] \notin Nat}
<1>1. SUFFICES ASSUME Bad # {} PROVE FALSE
  OBVIOUS
<1>2. PICK s \in Bad : \A t \in Bad : Cardinality(s) <= Cardinality(t)
  <2>1. Bad \in SUBSET SUBSET S
    OBVIOUS
  <2>. HIDE DEF Bad
  <2>. QED BY <1>1, <2>1, SmallestSet
<1>3. g[s] = Step(f, g, s)
  BY SumStep
<1>4. CASE s = {}
  BY <1>3, <1>4 DEF Step
<1>5. CASE s # {}
  <2>1. Pick(s) \in s /\ f[Pick(s)] \in Nat
    BY <1>5, PickIn
  <2>2. Rest(s) \in SUBSET S /\ Rest(s) \notin Bad
    <3>1. Bad \in SUBSET SUBSET S /\ s \in SUBSET S
      OBVIOUS
    <3>. HIDE DEF Bad
    <3>. QED BY <1>2, <1>5, <2>1, <3>1, RestSmaller DEF Rest
  <2>3. g[Rest(s)] \in Nat
    BY <2>2
  <2>4. g[s] = f[Pick(s)] + g[Rest(s)]
    BY <1>3, <1>5 DEF Step
  <2>. QED BY <2>1, <2>3, <2>4
<1>. QED BY <1>4, <1>5

\* Any element may be taken first.
LEMMA SumAnyOrder ==
  ASSUME NEW S, IsFiniteSet(S), NEW f, \A p \in S : f[p] \in Nat, NEW g, IsSum(g, f, S)
  PROVE  \A s \in SUBSET S : \A p \in s : g[s] = f[p] + g[s \ {p}]
<1>. DEFINE Bad == {s \in SUBSET S : \E p \in s : g[s] # f[p] + g[s \ {p}]}
<1>1. SUFFICES ASSUME Bad # {} PROVE FALSE
  OBVIOUS
<1>2. PICK s \in Bad : \A t \in Bad : Cardinality(s) <= Cardinality(t)
  <2>1. Bad \in SUBSET SUBSET S
    OBVIOUS
  <2>. HIDE DEF Bad
  <2>. QED BY <1>1, <2>1, SmallestSet
<1>3. PICK p \in s : g[s] # f[p] + g[s \ {p}]
  OBVIOUS
<1>. DEFINE x == Pick(s)
            rest == (s \ {p}) \ {x}
<1>4. x \in s
  BY <1>3, PickIn
<1>5. g[s] = f[x] + g[s \ {x}]
  <2>1. s \in SUBSET S /\ s # {}
    BY <1>3
  <2>2. g[s] = Step(f, g, s)
    BY <2>1, SumStep
  <2>. QED BY <2>1, <2>2 DEF Step, Rest
<1>6. x # p
  BY <1>3, <1>5
<1>7. ASSUME NEW y \in s
      PROVE  /\ s \ {y} \in SUBSET S
             /\ \A q \in s \ {y} : g[s \ {y}] = f[q] + g[(s \ {y}) \ {q}]
  <2>1. Bad \in SUBSET SUBSET S /\ s \in SUBSET S /\ s # {}
    OBVIOUS
  <2>2. s \ {y} \in SUBSET S /\ s \ {y} \notin Bad
    <3>. HIDE DEF Bad
    <3>. QED BY <1>2, <2>1, RestSmaller
  <2>. QED BY <2>2
<1>8. (s \ {x}) \ {p} = rest
  OBVIOUS
<1>9. g[s \ {x}] = f[p] + g[rest] /\ g[s \ {p}] = f[x] + g[rest]
  <2>1. p \in s \ {x} /\ x \in s \ {p}
    BY <1>4, <1>6
  <2>. HIDE DEF x
  <2>. QED BY <1>4, <1>7, <1>8, <2>1
<1>10. f[x] \in Nat /\ f[p] \in Nat /\ g[rest] \in Nat
  BY <1>4, SumType
<1>. HIDE DEF x, rest, Bad
<1>. QED BY <1>3, <1>5, <1>9, <1>10

\* Only the values at the elements of a set make its sum.
LEMMA SumAgrees ==
  ASSUME NEW S, IsFiniteSet(S), NEW f, NEW g, IsSum(g, f, S),
         NEW T, NEW h, NEW k, IsSum(k, h, T), NEW u \in SUBSET (S \cap T),
         \A p \in u : f[p] = h[p]
  PROVE  g[u] = k[u]
<1>. DEFINE Bad == {s \in SUBSET u : g[s] # k[s]}
<1>1. SUFFICES ASSUME Bad # {} PROVE FALSE
  OBVIOUS
<1>2. Bad \in SUBSET SUBSET u /\ IsFiniteSet(u)
  BY FS_Subset
<1>3. PICK s \in Bad : \A t \in Bad : Cardinality(s) <= Cardinality(t)
  <2>. HIDE DEF Bad
  <2>. QED BY <1>1, <1>2, SmallestSet
<1>4. s \in SUBSET u /\ s \in SUBSET S /\ s \in SUBSET T /\ g[s] # k[s]
  OBVIOUS
<1>5. g[s] = Step(f, g, s) /\ k[s] = Step(h, k, s)
  BY <1>4, SumStep
<1>6. CASE s = {}
  BY <1>4, <1>5, <1>6 DEF Step
<1>7. CASE s # {}
  <2>1. Pick(s) \in s
    BY <1>7, PickIn
  <2>2. Rest(s) \in SUBSET u /\ Rest(s) \notin Bad
    <3>. HIDE DEF Bad
    <3>1. s \ {Pick(s)} \in SUBSET u /\ s \ {Pick(s)} \notin Bad
      <4>1. Bad \in SUBSET SUBSET u /\ IsFiniteSet(u) /\ s \in SUBSET u
        BY <1>2, <1>4
      <4>2. \A t \in Bad : Cardinality(s) <= Cardinality(t)
        BY <1>3
      <4>. QED BY <1>7, <2>1, <4>1, <4>2, RestSmaller
    <3>. QED BY <3>1 DEF Rest
  <2>3. g[Rest(s)] = k[Rest(s)] /\ f[Pick(s)] = h[Pick(s)]
    BY <1>4, <2>1, <2>2
  <2>. QED BY <1>4, <1>5, <1>7, <2>3 DEF Step
<1>. QED BY <1>6, <1>7

BytesOf(rows, S) == MapThenSumSet(LAMBDA p : Bytes(rows[p]), S)

\* MapThenSumSet is such a fold.
LEMMA SumIs ==
  ASSUME NEW S, IsFiniteSet(S), NEW rows
  PROVE  \E g : /\ IsSum(g, [p \in S |-> Bytes(rows[p])], S)
               /\ BytesOf(rows, S) = g[S]
<1>. DEFINE f == [p \in S |-> Bytes(rows[p])]
            it[s \in SUBSET S] ==
              IF s = {} THEN 0 ELSE Bytes(rows[Pick(s)]) + it[s \ {Pick(s)}]
<1>1. BytesOf(rows, S) = it[S]
  BY DEF BytesOf, MapThenSumSet, MapThenFoldSet, Pick
<1>2. PICK g : IsSum(g, f, S)
  <2>. HIDE DEF f
  <2>. QED BY SumExists
<1>3. g = [s \in SUBSET S |->
             IF s = {} THEN 0 ELSE Bytes(rows[Pick(s)]) + g[s \ {Pick(s)}]]
  <2>1. ASSUME NEW s \in SUBSET S
        PROVE  Step(f, g, s) =
                 IF s = {} THEN 0 ELSE Bytes(rows[Pick(s)]) + g[s \ {Pick(s)}]
    <3>1. s # {} => Pick(s) \in S
      BY PickIn
    <3>. QED BY <3>1 DEF Step, Rest
  <2>. HIDE DEF f
  <2>. QED BY <1>2, <2>1 DEF IsSum
<1>4. it = [s \in SUBSET S |->
              IF s = {} THEN 0 ELSE Bytes(rows[Pick(s)]) + it[s \ {Pick(s)}]]
  BY <1>3
<1>5. IsSum(it, f, S)
  <2>1. ASSUME NEW s \in SUBSET S
        PROVE  Step(f, it, s) =
                 IF s = {} THEN 0 ELSE Bytes(rows[Pick(s)]) + it[s \ {Pick(s)}]
    <3>1. s # {} => Pick(s) \in S
      BY PickIn
    <3>. HIDE DEF it
    <3>. QED BY <3>1 DEF Step, Rest
  <2>. HIDE DEF f, it
  <2>. QED BY <1>4, <2>1 DEF IsSum
<1>. HIDE DEF it
<1>. QED BY <1>1, <1>5

\* What total_bytes should be.
Total(rows) == BytesOf(rows, {p \in Paths : Counted(rows[p])})

Weight(r) == IF Counted(r) THEN Bytes(r) ELSE 0

\* total_bytes as the fold over a set of paths: all of them, at best.
LEMMA TotalIs ==
  ASSUME NEW rows \in [Paths -> Rows], NEW g,
         IsSum(g, [p \in Paths |-> Bytes(rows[p])], Paths)
  PROVE  Total(rows) = g[{p \in Paths : Counted(rows[p])}]
<1>. DEFINE S == {p \in Paths : Counted(rows[p])}
            f == [p \in Paths |-> Bytes(rows[p])]
            h == [p \in S |-> Bytes(rows[p])]
<1>1. IsFiniteSet(Paths) /\ IsFiniteSet(S)
  BY PathsFinite, FS_Subset
<1>2. PICK k : /\ IsSum(k, h, S)
               /\ BytesOf(rows, S) = k[S]
  <2>. HIDE DEF S
  <2>. QED BY <1>1, SumIs
<1>3. \A p \in S : f[p] = h[p]
  OBVIOUS
<1>4. S \in SUBSET (Paths \cap S)
  OBVIOUS
<1>5. g[S] = k[S]
  <2>. HIDE DEF S, f, h
  <2>. QED BY <1>1, <1>2, <1>3, <1>4, SumAgrees DEF f
<1>. QED BY <1>2, <1>5 DEF Total

\* Writing one row moves the sum by the weight of that row.
LEMMA TotalMoves ==
  ASSUME NEW rows \in [Paths -> Rows], NEW p \in Paths, NEW new \in Rows
  PROVE  /\ Total(rows) \in Nat /\ Weight(rows[p]) \in Nat /\ Weight(new) \in Nat
         /\ Weight(rows[p]) <= Total(rows)
         /\ Total([rows EXCEPT ![p] = new]) =
              Total(rows) - Weight(rows[p]) + Weight(new)
<1>. DEFINE after == [rows EXCEPT ![p] = new]
            S(r) == {q \in Paths : Counted(r[q])}
            f == [q \in Paths |-> Bytes(rows[q])]
            h == [q \in Paths |-> Bytes(after[q])]
            R == S(rows) \ {p}
<1>1. after \in [Paths -> Rows] /\ rows[p] \in Rows /\ after[p] = new
  OBVIOUS
<1>2. IsFiniteSet(Paths) /\ R \in SUBSET Paths /\ p \notin R
  BY PathsFinite
<1>3. PICK g : IsSum(g, f, Paths)
  <2>. HIDE DEF f, h
  <2>. QED BY <1>2, SumExists
<1>4. PICK k : IsSum(k, h, Paths)
  <2>. HIDE DEF f, h
  <2>. QED BY <1>2, SumExists
<1>5. Total(rows) = g[S(rows)] /\ Total(after) = k[S(after)]
  <2>. HIDE DEF after
  <2>. QED BY <1>1, <1>3, <1>4, TotalIs
<1>6. /\ \A q \in Paths : f[q] \in Nat /\ h[q] \in Nat
      /\ f[p] = Bytes(rows[p]) /\ h[p] = Bytes(new)
  <2>1. \A q \in Paths : rows[q] \in Rows /\ after[q] \in Rows
    BY <1>1
  <2>. HIDE DEF after
  <2>. QED BY <1>1, <2>1, BytesNat
<1>7. \A s \in SUBSET Paths : /\ g[s] \in Nat /\ k[s] \in Nat
                              /\ p \in s => /\ g[s] = f[p] + g[s \ {p}]
                                            /\ k[s] = h[p] + k[s \ {p}]
  <2>. HIDE DEF f, h, after
  <2>1. (\A q \in Paths : f[q] \in Nat) /\ (\A q \in Paths : h[q] \in Nat)
    BY <1>6
  <2>2. \A s \in SUBSET Paths : g[s] \in Nat
    BY <1>2, <1>3, <2>1, SumType
  <2>3. \A s \in SUBSET Paths : k[s] \in Nat
    BY <1>2, <1>4, <2>1, SumType
  <2>4. ASSUME NEW s \in SUBSET Paths, NEW q \in s
        PROVE  g[s] = f[q] + g[s \ {q}]
    BY <1>2, <1>3, <2>1, SumAnyOrder
  <2>5. ASSUME NEW s \in SUBSET Paths, NEW q \in s
        PROVE  k[s] = h[q] + k[s \ {q}]
    BY <1>2, <1>4, <2>1, SumAnyOrder
  <2>. QED BY <2>2, <2>3, <2>4, <2>5
<1>8. g[R] = k[R]
  <2>1. \A q \in R : f[q] = h[q]
    OBVIOUS
  <2>2. R \in SUBSET (Paths \cap Paths)
    BY <1>2
  <2>. HIDE DEF f, h, R, after
  <2>. QED BY <1>2, <1>3, <1>4, <2>1, <2>2, SumAgrees
<1>9. g[S(rows)] = Weight(rows[p]) + g[R]
  <2>1. p \in S(rows) <=> Counted(rows[p])
    OBVIOUS
  <2>2. S(rows) \in SUBSET Paths /\ (p \notin S(rows) => R = S(rows))
    OBVIOUS
  <2>. HIDE DEF S, f, h
  <2>3. CASE p \in S(rows)
    <3>1. Weight(rows[p]) = f[p]
      BY <1>6, <2>1, <2>3 DEF Weight
    <3>. QED BY <1>7, <2>2, <2>3, <3>1
  <2>4. CASE p \notin S(rows)
    <3>1. Weight(rows[p]) = 0 /\ g[R] \in Nat /\ S(rows) = R
      BY <1>2, <1>7, <2>1, <2>2, <2>4 DEF Weight
    <3>. HIDE DEF R
    <3>. QED BY <3>1
  <2>. QED BY <2>3, <2>4
<1>10. k[S(after)] = Weight(new) + k[R]
  <2>1. p \in S(after) <=> Counted(new)
    OBVIOUS
  <2>2. S(after) \in SUBSET Paths /\ R = S(after) \ {p}
    OBVIOUS
  <2>3. p \notin S(after) => R = S(after)
    BY <2>2
  <2>. HIDE DEF S, f, h, R, after
  <2>4. CASE p \in S(after)
    BY <1>6, <1>7, <2>1, <2>2, <2>4 DEF Weight
  <2>5. CASE p \notin S(after)
    BY <1>2, <1>7, <2>1, <2>3, <2>5 DEF Weight
  <2>. QED BY <2>4, <2>5
<1>11. Weight(rows[p]) \in Nat /\ Weight(new) \in Nat /\ g[R] \in Nat /\ k[R] \in Nat
  BY <1>1, <1>2, <1>7, BytesNat DEF Weight
<1>. HIDE DEF R, S, f, h, after
<1>12. Total(after) = Total(rows) - Weight(rows[p]) + Weight(new)
  BY <1>5, <1>8, <1>9, <1>10, <1>11
<1>13. Total(rows) \in Nat /\ Weight(rows[p]) <= Total(rows)
  BY <1>5, <1>9, <1>11
<1>. QED BY <1>11, <1>12, <1>13 DEF after

\* So a written row keeps an exact sum exact.
LEMMA RowWeighed ==
  ASSUME NEW rows \in [Paths -> Rows], NEW t \in Tallies, NEW p \in Paths,
         NEW new \in Rows, rows[p].there => new.there, t.bytes = Total(rows)
  PROVE  Tallied(t, rows[p], new).bytes = Total([rows EXCEPT ![p] = new])
<1>. DEFINE old == rows[p]
            a == Weight(old)
            b == Weight(new)
<1>1. /\ Total(rows) \in Nat /\ a \in Nat /\ b \in Nat /\ a <= Total(rows)
      /\ Total([rows EXCEPT ![p] = new]) = Total(rows) - a + b
  BY TotalMoves
<1>2. CASE Fires(old, new)
  <2>1. Without(t, old).bytes = Total(rows) - a
    <3>1. CASE Counted(old)
      <4>1. a = Bytes(old) /\ Without(t, old).bytes = Less(t.bytes, Bytes(old))
        BY <3>1 DEF Weight, Without
      <4>. HIDE DEF a, b, old
      <4>. QED BY <1>1, <4>1, LessNat
    <3>2. CASE ~Counted(old)
      <4>1. a = 0 /\ Without(t, old).bytes = t.bytes
        BY <3>2 DEF Weight, Without
      <4>. HIDE DEF a, b, old
      <4>. QED BY <1>1, <4>1
    <3>. QED BY <3>1, <3>2
  <2>2. Tallied(t, old, new).bytes = Without(t, old).bytes + b
    <3>1. Tallied(t, old, new) = With(Without(t, old), new)
      BY <1>2 DEF Tallied
    <3>2. CASE Counted(new)
      BY <3>1, <3>2 DEF With, Weight
    <3>3. CASE ~Counted(new)
      <4>1. b = 0 /\ Tallied(t, old, new) = Without(t, old)
        BY <3>1, <3>3 DEF With, Weight
      <4>. HIDE DEF a, b, old
      <4>. QED BY <1>1, <2>1, <4>1
    <3>. QED BY <3>2, <3>3
  <2>. HIDE DEF a, b
  <2>. QED BY <1>1, <2>1, <2>2
<1>3. CASE ~Fires(old, new)
  <2>1. a = b
    BY <1>3 DEF Fires, Counted, Weight
  <2>2. Tallied(t, old, new) = t
    BY <1>3 DEF Tallied
  <2>. HIDE DEF a, b, old
  <2>. QED BY <1>1, <2>1, <2>2 DEF old
<1>. QED BY <1>2, <1>3

\* Rows that weigh the same make the same sum.
LEMMA SameTotal ==
  ASSUME NEW rows, NEW new,
         \A p \in Paths : /\ Counted(new[p]) <=> Counted(rows[p])
                          /\ new[p].stamp = rows[p].stamp
  PROVE  Total(new) = Total(rows)
<1>. DEFINE S == {p \in Paths : Counted(rows[p])}
<1>1. S = {p \in Paths : Counted(new[p])}
  OBVIOUS
<1>2. IsFiniteSet(S)
  BY PathsFinite, FS_Subset
<1>3. PICK g : /\ IsSum(g, [p \in S |-> Bytes(rows[p])], S)
               /\ BytesOf(rows, S) = g[S]
  <2>. HIDE DEF S
  <2>. QED BY <1>2, SumIs
<1>4. PICK k : /\ IsSum(k, [p \in S |-> Bytes(new[p])], S)
               /\ BytesOf(new, S) = k[S]
  <2>. HIDE DEF S
  <2>. QED BY <1>2, SumIs
<1>5. [p \in S |-> Bytes(new[p])] = [p \in S |-> Bytes(rows[p])]
  BY DEF Bytes
<1>6. g = [s \in SUBSET S |-> Step([p \in S |-> Bytes(rows[p])], g, s)]
  BY <1>3 DEF IsSum
<1>7. g[S] = k[S]
  <2>. DEFINE f == [p \in S |-> Bytes(rows[p])]
  <2>1. IsSum(g, f, S) /\ IsSum(k, f, S) /\ S \in SUBSET (S \cap S)
    BY <1>3, <1>4, <1>5
  <2>. HIDE DEF f, S
  <2>. QED BY <1>2, <2>1, SumAgrees
<1>. QED BY <1>1, <1>3, <1>4, <1>7 DEF Total

LEMMA NothingWeighs == Total([p \in Paths |-> NoRow(p)]) = 0
<1>. DEFINE rows == [p \in Paths |-> NoRow(p)]
<1>1. {p \in Paths : Counted(rows[p])} = {}
  BY NothingThere DEF Counted
<1>2. PICK g : /\ IsSum(g, [p \in {} |-> Bytes(rows[p])], {})
               /\ BytesOf(rows, {}) = g[{}]
  BY FS_EmptySet, SumIs
<1>3. g[{}] = 0
  BY <1>2, SumStep DEF Step
<1>. QED BY <1>1, <1>2, <1>3 DEF Total

-----------------------------------------------------------------------------
(* total_bytes, by the same steps.                                         *)

BytesInv == tally.bytes = Total(media) /\ scan.tally.bytes = Total(scan.rows)

\* Every writer of a single row writes one that is there.
LEMMA RowWriters ==
  ASSUME IInv, NEW p \in Paths,
         \/ \E t \in Types : IndexMedia(p, t)
         \/ Forget(p) \/ (RawMarks /\ raw = p)
  PROVE  \E r \in Rows : r.there /\ Write(p, r)
<1>1. media[p] \in Rows
  BY DEF IInv, MediaOK
<1>2. CASE \E t \in Types : IndexMedia(p, t)
  <2>1. PICK t \in Types : IndexMedia(p, t)
    BY <1>2
  <2>2. disk[p] \in 0 .. NVersions
    BY LibraryAssumption DEF LibraryAssumption, IInv, FolderOK
  <2>3. [NoRow(p) EXCEPT !.there = TRUE, !.type = t, !.stamp = disk[p]] \in Rows
    BY <2>2 DEF NoRow, Rows
  <2>4. [NoRow(p) EXCEPT !.there = TRUE, !.type = t, !.stamp = disk[p]].there
    BY DEF NoRow
  <2>. QED BY <2>1, <2>3, <2>4 DEF IndexMedia
<1>3. CASE Forget(p)
  BY <1>1, <1>3 DEF Forget, Rows
<1>4. CASE RawMarks /\ raw = p
  <2>1. media[p].there
    BY <1>4 DEF RawMarks, IInv, RawOK
  <2>. QED BY <1>1, <1>4, <2>1 DEF RawMarks, Rows
<1>. QED BY <1>2, <1>3, <1>4

\* So does every visit that records one.
LEMMA Visitors ==
  ASSUME IInv, NEW p \in Paths, VisitTrusted(p) \/ VisitHashed(p)
  PROVE  \E r \in Rows : (scan.rows[p].there => r.there) /\ Visit(p, r)
<1>1. scan.rows[p] \in Rows
  BY DEF IInv, ScanOK
<1>2. CASE VisitTrusted(p)
  BY <1>1, <1>2 DEF VisitTrusted, Rows
<1>3. CASE VisitHashed(p)
  <2>1. disk[p] \in 0 .. NVersions
    BY LibraryAssumption DEF LibraryAssumption, IInv, FolderOK
  <2>2. /\ [NoRow(p) EXCEPT !.there = TRUE, !.stamp = disk[p]] \in Rows
        /\ [NoRow(p) EXCEPT !.there = TRUE, !.stamp = disk[p]].there
    BY <2>1, NothingThere DEF NoRow, Rows
  <2>. QED BY <1>3, <2>2 DEF VisitHashed
<1>. QED BY <1>2, <1>3

LEMMA NoScanWeighs == NoScan.tally.bytes = Total(NoScan.rows)
BY NothingWeighs DEF NoScan, Zero

LEMMA BytesStep == IInv /\ [Next]_vars /\ BytesInv => BytesInv'
<1>1. SUFFICES ASSUME IInv, [Next]_vars, BytesInv PROVE BytesInv'
  OBVIOUS
<1>2. CASE UNCHANGED <<media, tally, scan>>
  BY <1>1, <1>2 DEF BytesInv
<1>3. ASSUME NEW p \in Paths,
             \/ \E t \in Types : IndexMedia(p, t)
             \/ Forget(p) \/ (RawMarks /\ raw = p)
      PROVE  BytesInv'
  <2>1. PICK r \in Rows : r.there /\ Write(p, r)
    BY <1>1, <1>3, RowWriters
  <2>2. media \in [Paths -> Rows] /\ tally \in Tallies /\ tally.bytes = Total(media)
    BY <1>1 DEF IInv, MediaOK, BytesInv
  <2>3. Tallied(tally, media[p], r).bytes = Total([media EXCEPT ![p] = r])
    BY ZenonT(30), <2>1, <2>2, RowWeighed
  <2>. QED BY <1>1, <2>1, <2>3 DEF Write, BytesInv
<1>4. CASE ScanStart
  <2>1. scan'.rows = media /\ scan'.tally = tally /\ media' = media /\ tally' = tally
    BY <1>4 DEF ScanStart, NoScan
  <2>. QED BY <1>1, <2>1 DEF BytesInv
<1>5. ASSUME NEW p \in Paths, VisitTrusted(p) \/ VisitHashed(p)
      PROVE  BytesInv'
  <2>1. PICK r \in Rows : (scan.rows[p].there => r.there) /\ Visit(p, r)
    BY <1>1, <1>5, Visitors
  <2>2. /\ scan.rows \in [Paths -> Rows] /\ scan.tally \in Tallies
        /\ scan.tally.bytes = Total(scan.rows)
    BY <1>1 DEF IInv, ScanOK, BytesInv
  <2>3. Tallied(scan.tally, scan.rows[p], r).bytes = Total([scan.rows EXCEPT ![p] = r])
    <3>. DEFINE rows == scan.rows
                t == scan.tally
    <3>1. /\ rows \in [Paths -> Rows] /\ t \in Tallies /\ t.bytes = Total(rows)
          /\ rows[p].there => r.there
      BY <2>1, <2>2
    <3>. HIDE DEF rows, t
    <3>2. Tallied(t, rows[p], r).bytes = Total([rows EXCEPT ![p] = r])
      BY ZenonT(30), <3>1, RowWeighed
    <3>. QED BY <3>2 DEF rows, t
  <2>4. /\ scan'.rows = [scan.rows EXCEPT ![p] = r]
        /\ scan'.tally = Tallied(scan.tally, scan.rows[p], r)
        /\ UNCHANGED <<media, tally>>
    <3>1. scan' = [scan EXCEPT !.at = p + 1, !.seen = scan.seen \cup {p},
                     !.rows[p] = r, !.tally = Tallied(scan.tally, scan.rows[p], r)]
      BY <2>1 DEF Visit
    <3>2. /\ scan \in [pc : {"off", "walk"}, at : 1 .. NPaths + 1,
                       listed : SUBSET Paths, seen : SUBSET Paths,
                       rows : [Paths -> Rows], tally : Tallies]
          /\ UNCHANGED <<media, tally>>
      BY <1>1, <2>1 DEF IInv, ScanOK, Visit
    <3>. QED BY <3>1, <3>2
  <2>. QED BY <1>1, <2>3, <2>4 DEF BytesInv
<1>6. ASSUME NEW p \in Paths, VisitNothing(p)
      PROVE  BytesInv'
  <2>1. /\ scan'.rows = scan.rows /\ scan'.tally = scan.tally
        /\ UNCHANGED <<media, tally>>
    BY <1>1, <1>6 DEF VisitNothing, IInv, ScanOK
  <2>. QED BY <1>1, <2>1 DEF BytesInv
<1>7. CASE scan' = NoScan /\ UNCHANGED <<media, tally>>
  BY <1>1, <1>7, NoScanWeighs DEF BytesInv
<1>8. CASE ScanEnd
  <2>1. /\ tally' = scan.tally /\ scan' = NoScan
        /\ media' = [p \in Paths |-> [scan.rows[p] EXCEPT !.missing = @ \/ Vanished(p)]]
    BY <1>8 DEF ScanEnd
  <2>2. \A p \in Paths : /\ Counted(media'[p]) <=> Counted(scan.rows[p])
                         /\ media'[p].stamp = scan.rows[p].stamp
    <3>1. \A p \in Paths : scan.rows[p] \in Rows
      BY <1>1 DEF IInv, ScanOK
    <3>. QED BY <2>1, <3>1 DEF Counted, Rows
  <2>3. Total(media') = Total(scan.rows)
    BY <2>2, SameTotal
  <2>. QED BY <1>1, <2>1, <2>3, NoScanWeighs DEF BytesInv
<1>9. CASE RawMarks
  <2>1. raw \in Paths
    BY <1>1, <1>9 DEF RawMarks, IInv, RawOK, Paths
  <2>. QED BY <1>3, <1>9, <2>1
<1>10. CASE \E p \in Paths : PutFile(p) \/ RemoveFile(p) \/ RestoreFile(p)
  BY <1>2, <1>10 DEF PutFile, RemoveFile, RestoreFile
<1>11. CASE \/ \E c \in Clients, w \in Wants : AskHit(c, w) \/ AskMiss(c, w)
            \/ ZipFile \/ ZipEnd \/ ZipFails
            \/ \E c \in Clients : Open(c)
            \/ \E p \in Paths : RawFindsNone(p)
  BY <1>2, <1>11 DEF AskHit, AskMiss, ZipFile, ZipEnd, ZipFails, Open, RawFindsNone
<1>12. CASE Crash \/ \E p \in Paths : ScanAborts(p)
  BY <1>7, <1>12 DEF Crash, ScanAborts
<1>13. CASE UNCHANGED vars
  BY <1>2, <1>13 DEF vars
<1>. QED
  BY <1>1, <1>3, <1>4, <1>5, <1>6, <1>8, <1>9, <1>10, <1>11, <1>12, <1>13 DEF Next

\* total_bytes of the account is the sum over its rows, for every number of paths
\* and every size of the files (0002_triggers.sql:1-67).
THEOREM BytesAlways == Spec => []BytesExact
<1>1. Init => BytesInv
  <2>1. Init => /\ media = NoScan.rows /\ tally = NoScan.tally /\ scan = NoScan
    BY DEF Init, NoScan
  <2>. QED BY <2>1, NoScanWeighs DEF BytesInv
<1>2. BytesInv => BytesExact
  BY DEF BytesInv, BytesExact, Total, BytesOf
<1>3. Spec => []IInv
  BY InitHolds, StepHolds, PTL DEF Spec
<1>. QED BY <1>1, <1>2, <1>3, BytesStep, PTL DEF Spec

-----------------------------------------------------------------------------
(* What a bundle holds.                                                    *)

\* The files of a zip are those of an inventory, up to where it is written and
\* except where the folder was seen to differ.
Holds(files, drift, inv, want, at) ==
  \A p \in Held(inv, want) : p < at => files[p] = inv[p] \/ p \in drift

Whole(z) == Holds(z.files, z.drift, z.key.inv, z.key.want, NPaths + 1)

BundleInv ==
  /\ \A i \in DOMAIN cache : Whole(cache[i])
  /\ build.pc = "zip" =>
       /\ build.asked = build.key.inv
       /\ Holds(build.files, build.drift, build.asked, build.key.want, build.at)
  /\ \A c \in Clients : resp[c].pc = "ready" => resp[c].asked = resp[c].key.inv
  /\ Holds(served.files, served.drift, served.asked, served.want, NPaths + 1)

\* Pruning makes no zip.
LEMMA KeptOf ==
  ASSUME NEW zips \in Seq(Zips), NEW i \in DOMAIN Kept(zips)
  PROVE  i \in DOMAIN zips /\ Kept(zips)[i] = zips[i]
<1>1. Keep \in Nat /\ Len(zips) \in Nat
  BY LibraryAssumption DEF LibraryAssumption
<1>2. CASE Len(zips) <= Keep
  BY <1>2 DEF Kept
<1>3. CASE ~(Len(zips) <= Keep)
  <2>1. Kept(zips) = SubSeq(zips, 1, Keep)
    BY <1>3 DEF Kept
  <2>2. i \in 1 .. Keep
    BY <1>1, <1>3, <2>1
  <2>. QED BY <1>1, <1>3, <2>1, <2>2
<1>. QED BY <1>2, <1>3

\* One file of the inventory: it agrees with the folder, or the path drifts.
LEMMA ZipFileKeeps ==
  ASSUME IInv, BundleInv, ZipFile
  PROVE  BundleInv'
<1>. DEFINE p == build.at
<1>1. /\ build.files \in [Paths -> 0 .. NVersions] /\ build.drift \in SUBSET Paths
      /\ p \in Paths /\ build.pc = "zip" /\ build.asked = build.key.inv
  BY LibraryAssumption
     DEF LibraryAssumption, ZipFile, IInv, BuildOK, Inventories, Paths, BundleInv
<1>2. /\ build'.pc = build.pc /\ build'.asked = build.asked /\ build'.key = build.key
      /\ build'.at = p + 1
      /\ p \in Held(build.asked, build.key.want) =>
           /\ build'.files = [build.files EXCEPT ![p] = disk[p]]
           /\ build'.drift = IF disk[p] = build.asked[p] THEN build.drift
                                                         ELSE build.drift \cup {p}
      /\ p \notin Held(build.asked, build.key.want) =>
           build'.files = build.files /\ build'.drift = build.drift
  BY DEF ZipFile, IInv, BuildOK
<1>3. ASSUME NEW q \in Held(build.asked, build.key.want), q < p + 1
      PROVE  build'.files[q] = build.asked[q] \/ q \in build'.drift
  <2>1. q \in Paths /\ q \in Nat /\ p \in Nat
    <3>1. build.key.want \in SUBSET Paths
      BY DEF IInv, BuildOK, Keys
    <3>. QED BY <1>1, <3>1 DEF Held, Paths
  <2>2. CASE q = p
    BY <1>1, <1>2, <1>3, <2>1, <2>2
  <2>3. CASE q # p
    <3>1. build.files[q] = build.asked[q] \/ q \in build.drift
      BY <1>1, <1>3, <2>1, <2>3 DEF BundleInv, Holds
    <3>2. build'.files[q] = build.files[q] /\ (q \in build.drift => q \in build'.drift)
      BY <1>1, <1>2, <2>1, <2>3
    <3>. QED BY <3>1, <3>2
  <2>. QED BY <2>2, <2>3
<1>4. Holds(build'.files, build'.drift, build'.asked, build'.key.want, build'.at)
  BY <1>2, <1>3 DEF Holds
<1>5. UNCHANGED <<cache, resp, served>>
  BY DEF ZipFile
<1>. QED BY <1>1, <1>2, <1>4, <1>5 DEF BundleInv, Whole

LEMMA ZipEndKeeps ==
  ASSUME IInv, BundleInv, ZipEnd
  PROVE  BundleInv'
<1>1. /\ build.pc = "zip" /\ build.at = NPaths + 1 /\ build'.pc = "off"
      /\ served' = served /\ cache' = Kept(<<Zip>> \o cache)
      /\ resp' = [resp EXCEPT ![build.client] =
                    IF build.files = NoFiles THEN NoResp
                                             ELSE Ready(build.key, build.asked)]
  BY DEF ZipEnd, NoBuild
<1>2. /\ build.asked = build.key.inv
      /\ Holds(build.files, build.drift, build.asked, build.key.want, NPaths + 1)
  BY <1>1 DEF BundleInv
<1>3. Whole(Zip)
  BY <1>2 DEF Whole, Zip
<1>4. Zip \in Zips /\ cache \in Seq(Zips) /\ <<Zip>> \o cache \in Seq(Zips)
  BY DEF Zip, Zips, IInv, BuildOK, CacheOK
<1>5. ASSUME NEW i \in DOMAIN cache'
      PROVE  Whole(cache'[i])
  <2>. DEFINE zips == <<Zip>> \o cache
  <2>1. i \in DOMAIN zips /\ cache'[i] = zips[i]
    BY <1>1, <1>4, KeptOf
  <2>2. zips[i] = Zip \/ \E k \in DOMAIN cache : zips[i] = cache[k]
    <3>1. i \in 1 .. Len(cache) + 1
      BY <1>4, <2>1
    <3>2. CASE i = 1
      BY <1>4, <3>2
    <3>3. CASE i # 1
      <4>1. i - 1 \in DOMAIN cache /\ zips[i] = cache[i - 1]
        BY <1>4, <3>1, <3>3
      <4>. QED BY <4>1
    <3>. QED BY <3>2, <3>3
  <2>. QED BY <1>3, <2>1, <2>2 DEF BundleInv
<1>6. ASSUME NEW c \in Clients, resp'[c].pc = "ready"
      PROVE  resp'[c].asked = resp'[c].key.inv
  <2>1. resp \in [Clients -> [pc : {"none", "ready"}, key : Keys, asked : Inventories]]
    BY DEF IInv, RespOK
  <2>2. CASE c = build.client
    BY <1>1, <1>2, <1>6, <2>1, <2>2 DEF NoResp, Ready
  <2>3. CASE c # build.client
    BY <1>1, <1>6, <2>1, <2>3 DEF BundleInv
  <2>. QED BY <2>2, <2>3
<1>. QED BY <1>1, <1>5, <1>6 DEF BundleInv

LEMMA AskKeeps ==
  ASSUME IInv, BundleInv, NEW c \in Clients, NEW w \in Wants,
         AskHit(c, w) \/ AskMiss(c, w)
  PROVE  BundleInv'
<1>1. UNCHANGED <<cache, served>>
  BY DEF AskHit, AskMiss
<1>2. resp \in [Clients -> [pc : {"none", "ready"}, key : Keys, asked : Inventories]]
  BY DEF IInv, RespOK
<1>3. CASE AskHit(c, w)
  <2>1. build' = build /\ resp' = [resp EXCEPT ![c] = Ready(Key(w), Inventory)]
    BY <1>3 DEF AskHit
  <2>2. Ready(Key(w), Inventory).asked = Ready(Key(w), Inventory).key.inv
    BY DEF Ready, Key
  <2>3. \A d \in Clients : resp'[d].pc = "ready" => resp'[d].asked = resp'[d].key.inv
    BY <1>2, <2>1, <2>2 DEF BundleInv
  <2>. QED BY <1>1, <2>1, <2>3 DEF BundleInv, Whole
<1>4. CASE AskMiss(c, w)
  <2>1. /\ resp' = resp /\ build'.asked = Inventory /\ build'.key = Key(w)
        /\ build'.at = 1
    BY <1>4 DEF AskMiss, NoBuild
  <2>2. \A p \in Held(build'.asked, build'.key.want) : ~(p < build'.at)
    <3>1. w \in SUBSET Paths
      BY LibraryAssumption DEF LibraryAssumption
    <3>. QED BY <2>1, <3>1 DEF Held, Key, Paths
  <2>3. Holds(build'.files, build'.drift, build'.asked, build'.key.want, build'.at)
    BY <2>2 DEF Holds
  <2>4. build'.asked = build'.key.inv
    BY <2>1 DEF Key
  <2>. QED BY <1>1, <2>1, <2>3, <2>4 DEF BundleInv, Whole
<1>. QED BY <1>3, <1>4

LEMMA OpenServes ==
  ASSUME IInv, BundleInv, NEW c \in Clients, Open(c)
  PROVE  BundleInv'
<1>1. /\ UNCHANGED <<build, cache>> /\ resp[c].pc = "ready"
      /\ resp' = [resp EXCEPT ![c] = NoResp]
  BY DEF Open
<1>2. resp \in [Clients -> [pc : {"none", "ready"}, key : Keys, asked : Inventories]]
  BY DEF IInv, RespOK
<1>3. \A d \in Clients : resp'[d].pc = "ready" => resp'[d].asked = resp'[d].key.inv
  BY <1>1, <1>2 DEF NoResp, BundleInv
<1>4. Holds(served'.files, served'.drift, served'.asked, served'.want, NPaths + 1)
  <2>1. CASE served' = served
    BY <2>1 DEF BundleInv
  <2>2. CASE \E i \in Cached(resp[c].key) :
               served' = [asked |-> resp[c].asked, want |-> resp[c].key.want,
                          files |-> cache[i].files, drift |-> cache[i].drift]
    <3>1. PICK i \in Cached(resp[c].key) :
                 served' = [asked |-> resp[c].asked, want |-> resp[c].key.want,
                            files |-> cache[i].files, drift |-> cache[i].drift]
      BY <2>2
    <3>2. i \in DOMAIN cache /\ cache[i].key = resp[c].key
      BY DEF Cached
    <3>3. resp[c].asked = resp[c].key.inv /\ Whole(cache[i])
      BY <1>1, <3>2 DEF BundleInv
    <3>. QED BY <3>1, <3>2, <3>3 DEF Whole
  <2>. QED BY <2>1, <2>2 DEF Open
<1>. QED BY <1>1, <1>3, <1>4 DEF BundleInv, Whole

LEMMA BundleStep == IInv /\ [Next]_vars /\ BundleInv => BundleInv'
<1>1. SUFFICES ASSUME IInv, [Next]_vars, BundleInv PROVE BundleInv'
  OBVIOUS
<1>2. CASE UNCHANGED <<build, cache, resp, served>>
  BY <1>1, <1>2 DEF BundleInv, Whole
<1>3. CASE \/ \E p \in Paths : \/ PutFile(p) \/ RemoveFile(p) \/ RestoreFile(p)
                               \/ Forget(p) \/ RawFindsNone(p)
           \/ \E p \in Paths, t \in Types : IndexMedia(p, t)
           \/ RawMarks
  BY ZenonT(30), <1>2, <1>3
     DEF PutFile, RemoveFile, RestoreFile, Forget, RawFindsNone, IndexMedia, RawMarks,
         Write
<1>4. CASE \/ ScanStart \/ ScanEnd
           \/ \E p \in Paths : \/ VisitNothing(p) \/ VisitTrusted(p)
                               \/ VisitHashed(p) \/ ScanAborts(p)
  BY ZenonT(30), <1>2, <1>4
     DEF ScanStart, ScanEnd, VisitNothing, VisitTrusted, VisitHashed, ScanAborts, Visit
<1>5. CASE \E c \in Clients, w \in Wants : AskHit(c, w) \/ AskMiss(c, w)
  BY <1>1, <1>5, AskKeeps
<1>6. CASE ZipFile \/ ZipEnd
  BY <1>1, <1>6, ZipFileKeeps, ZipEndKeeps
<1>7. CASE ZipFails
  <2>1. build'.pc = "off" /\ UNCHANGED <<cache, resp, served>>
    BY <1>7 DEF ZipFails, NoBuild
  <2>. QED BY <1>1, <2>1 DEF BundleInv, Whole
<1>8. CASE \E c \in Clients : Open(c)
  BY <1>1, <1>8, OpenServes
<1>9. CASE Crash
  <2>1. build'.pc = "off" /\ UNCHANGED <<cache, served>>
        /\ \A c \in Clients : resp'[c].pc = "none"
    BY <1>9 DEF Crash, CacheAfterCrash, NoBuild, NoResp
  <2>. QED BY <1>1, <2>1 DEF BundleInv, Whole
<1>10. CASE UNCHANGED vars
  BY <1>2, <1>10 DEF vars
<1>. QED
  BY <1>1, <1>3, <1>4, <1>5, <1>6, <1>7, <1>8, <1>9, <1>10 DEF Next

\* Whatever is cached, evicted, rebuilt or cut short, a bundle that is sent has
\* every file of the rows it was asked for, or the folder differed from the rows
\* while it was written (bundler.py:10-13, 105).
THEOREM ServedAlways == Spec => []ServedAsIndexed
<1>1. Init => BundleInv
  <2>1. SUFFICES ASSUME Init PROVE BundleInv
    OBVIOUS
  <2>2. /\ cache = <<>> /\ build.pc = "off" /\ served.want = {}
        /\ \A c \in Clients : resp[c].pc = "none"
    BY <2>1 DEF Init, NoBuild, NoServed, NoResp
  <2>. QED BY <2>2 DEF BundleInv, Holds, Held
<1>2. IInv /\ BundleInv => ServedAsIndexed
  <2>1. SUFFICES ASSUME IInv, BundleInv, NEW p \in Held(served.asked, served.want)
                 PROVE  served.files[p] = served.asked[p] \/ p \in served.drift
    BY DEF ServedAsIndexed
  <2>2. p < NPaths + 1
    <3>1. served.want \in SUBSET Paths
      BY <2>1 DEF IInv, ServedOK
    <3>. QED BY <3>1, LibraryAssumption DEF LibraryAssumption, Held, Paths
  <2>. QED BY <2>1, <2>2 DEF BundleInv, Holds
<1>3. Spec => []IInv
  BY InitHolds, StepHolds, PTL DEF Spec
<1>. QED BY <1>1, <1>2, <1>3, BundleStep, PTL DEF Spec
=============================================================================
