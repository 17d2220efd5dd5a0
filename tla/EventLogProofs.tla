--------------------------- MODULE EventLogProofs ---------------------------
(***************************************************************************)
(* For any writers and bounds: the types, that every error is counted,     *)
(* that a storm stays one line and a few, and that errors stay on the      *)
(* badge until they are resolved, all but one for each writer.  The        *)
(* argument: an id that a writer holds is never given to another row, and  *)
(* an error row it holds is not old enough to be trimmed, so what it       *)
(* writes still counts for its kind; each writer can have at most one row  *)
(* about to appear, or to come back into the window, which together with   *)
(* the rows within the window is never more than the writers and one; and  *)
(* a writer that looked before the badge was cleared writes at most once.  *)
(***************************************************************************)
EXTENDS EventLog, FiniteSetTheorems, TLAPS

Busy == {w \in Writers : wr[w].busy}

\* Ids come in order and are not used again.
IdsSound == \A i \in RowIds : rows[i].there => i <= last

\* The row a writer has found is still of its kind, if it is there; an error row
\* is there and will not be trimmed, and open if it was not resolved since.
HoldSound(w) ==
  wr[w].busy =>
    /\ wr[w].row <= last
    /\ wr[w].row # 0 /\ rows[wr[w].row].there => rows[wr[w].row].kind = wr[w].kind
    /\ wr[w].row # 0 /\ wr[w].kind = "error" =>
         /\ rows[wr[w].row].there /\ rows[wr[w].row].age # "expired"
         /\ ~wr[w].cleared => rows[wr[w].row].open

\* What is written and what is about to be are events.
EventsCover ==
  written["error"] + written["debug"] + Cardinality(Busy) <= events

\* The rows of a kind that are within the window or may come back into it, and
\* the writers about to insert one.
Held(k) == {i \in RowIds : \E w \in Busy : wr[w].kind = k /\ wr[w].row = i}
Inserting(k) == {w \in Busy : wr[w].kind = k /\ wr[w].row = 0}

StormSound ==
  \A k \in Kinds :
    Cardinality(Recent(k) \cup Held(k)) + Cardinality(Inserting(k))
      <= Cardinality(Writers) + 1

\* The writers that looked before the badge was cleared and are yet to write.
Late == {w \in Writers : wr[w].busy /\ wr[w].cleared}

BadgeSound ==
  /\ since <= written["error"]
  /\ since + Cardinality(Late) <= Cardinality(OnBadge) + Cardinality(Writers)

IInv ==
  /\ TypeOK
  /\ IdsSound
  /\ \A w \in Writers : HoldSound(w)
  /\ EventsCover
  /\ due <= written["error"]
  /\ EventsCounted
  /\ StormSound
  /\ ErrorsOnBadge
  /\ BadgeSound

-----------------------------------------------------------------------------
(* Counting.                                                               *)

LEMMA Bounds ==
  /\ MaxRows \in Nat /\ MaxEvents \in Nat /\ MaxFaults \in Nat /\ KeepDebug \in Nat
  /\ IsFiniteSet(Writers) /\ Cardinality(Writers) \in Nat
BY EventLogAssumption, FS_CardinalityType DEF EventLogAssumption

LEMMA UpTo ==
  ASSUME NEW n \in Nat
  PROVE  Cardinality(1 .. n) = n
BY FS_Interval

LEMMA Finite ==
  /\ \A S \in SUBSET RowIds : IsFiniteSet(S) /\ Cardinality(S) \in Nat
  /\ \A S \in SUBSET Writers :
       /\ IsFiniteSet(S) /\ Cardinality(S) \in Nat
       /\ Cardinality(S) <= Cardinality(Writers)
  /\ \A S \in SUBSET (RowIds \X (1 .. MaxEvents)) :
       IsFiniteSet(S) /\ Cardinality(S) \in Nat
<1>1. IsFiniteSet(RowIds) /\ IsFiniteSet(1 .. MaxEvents)
  BY SMTT(30), Bounds, FS_Interval DEF RowIds
<1>2. IsFiniteSet(RowIds \X (1 .. MaxEvents))
  BY <1>1, FS_Product
<1>. QED BY <1>1, <1>2, Bounds, FS_Subset, FS_CardinalityType

\* The rows that are held and the writers about to insert come each from a
\* writer of its own.
LEMMA HoldersFew ==
  ASSUME NEW f, NEW k
  PROVE  LET B == {w \in Writers : f[w].busy}
             H == {i \in RowIds : \E w \in B : f[w].kind = k /\ f[w].row = i}
             I == {w \in B : f[w].kind = k /\ f[w].row = 0}
         IN Cardinality(H) + Cardinality(I) <= Cardinality(Writers)
<1>. DEFINE B == {w \in Writers : f[w].busy}
            H == {i \in RowIds : \E w \in B : f[w].kind = k /\ f[w].row = i}
            I == {w \in B : f[w].kind = k /\ f[w].row = 0}
            g == [i \in H |-> CHOOSE w \in B : f[w].kind = k /\ f[w].row = i]
<1>1. \A i \in H : g[i] \in B /\ f[g[i]].kind = k /\ f[g[i]].row = i /\ i # 0
  <2>. SUFFICES ASSUME NEW i \in H
                PROVE  g[i] \in B /\ f[g[i]].kind = k /\ f[g[i]].row = i /\ i # 0
    OBVIOUS
  <2>1. \E w \in B : f[w].kind = k /\ f[w].row = i
    OBVIOUS
  <2>2. g[i] = CHOOSE w \in B : f[w].kind = k /\ f[w].row = i
    OBVIOUS
  <2>3. i # 0
    BY Bounds DEF RowIds
  <2>. QED BY <2>1, <2>2, <2>3, Zenon
<1>2. /\ B \in SUBSET Writers /\ I \in SUBSET Writers /\ B \ I \in SUBSET Writers
      /\ H \in SUBSET RowIds
  OBVIOUS
<1>3. \A i \in H : g[i] \notin I
  BY <1>1
<1>4. g \in [H -> B \ I]
  BY <1>1, <1>3
<1>5. \A i, j \in H : g[i] = g[j] => i = j
  BY <1>1
<1>. HIDE DEF g
<1>6. g \in Injection(H, B \ I)
  BY <1>4, <1>5 DEF Injection, IsInjective
<1>7. Cardinality(H) <= Cardinality(B \ I)
  BY <1>6, <1>2, Finite, FS_Injection
<1>8. Cardinality(B) = Cardinality(B \ I) + Cardinality(I)
  <2>. DEFINE R == B \ I
  <2>1. R \cup I = B /\ R \cap I = {}
    OBVIOUS
  <2>2. IsFiniteSet(R) /\ IsFiniteSet(I)
    BY <1>2, Finite
  <2>3. Cardinality(R) \in Nat /\ Cardinality(I) \in Nat
    BY <1>2, Finite
  <2>. HIDE DEF R, I, B
  <2>4. Cardinality(B) = Cardinality(R) + Cardinality(I) - Cardinality({})
    BY <2>1, <2>2, FS_Union
  <2>. QED BY <2>3, <2>4, FS_EmptySet DEF R
<1>9. Cardinality(B) <= Cardinality(Writers)
  BY <1>2, Finite
<1>10. /\ Cardinality(B) \in Nat /\ Cardinality(I) \in Nat /\ Cardinality(H) \in Nat
       /\ Cardinality(B \ I) \in Nat /\ Cardinality(Writers) \in Nat
  BY <1>2, Finite, Bounds
<1>. HIDE DEF H, I, B
<1>11. Cardinality(H) + Cardinality(I) <= Cardinality(Writers)
  BY <1>7, <1>8, <1>9, <1>10
<1>. QED BY <1>11 DEF H, I, B

\* The bound of StormSound survives what takes away from both of its sets.
LEMMA StormKeeps ==
  ASSUME StormSound, NEW k \in Kinds,
         Recent(k)' \cup Held(k)' \subseteq Recent(k) \cup Held(k),
         Inserting(k)' \subseteq Inserting(k)
  PROVE  Cardinality(Recent(k)' \cup Held(k)') + Cardinality(Inserting(k)')
           <= Cardinality(Writers) + 1
<1>. DEFINE S == Recent(k) \cup Held(k)
            T == Recent(k)' \cup Held(k)'
<1>1. /\ S \in SUBSET RowIds /\ T \in SUBSET RowIds
      /\ Inserting(k) \in SUBSET Writers /\ Inserting(k)' \in SUBSET Writers
  BY DEF Recent, Held, Inserting, Busy
<1>2. Cardinality(T) <= Cardinality(S)
  BY <1>1, Finite, FS_Subset
<1>3. Cardinality(Inserting(k)') <= Cardinality(Inserting(k))
  BY <1>1, Finite, FS_Subset
<1>4. Cardinality(S) + Cardinality(Inserting(k)) <= Cardinality(Writers) + 1
  BY DEF StormSound
<1>5. /\ Cardinality(S) \in Nat /\ Cardinality(T) \in Nat
      /\ Cardinality(Inserting(k)) \in Nat /\ Cardinality(Inserting(k)') \in Nat
  BY <1>1, Finite
<1>. HIDE DEF S, T
<1>6. Cardinality(T) + Cardinality(Inserting(k)') <= Cardinality(Writers) + 1
  BY <1>2, <1>3, <1>4, <1>5, Bounds
<1>. QED BY <1>6 DEF T

-----------------------------------------------------------------------------
(* Rows and how they change.                                               *)

LEMMA NoRowType == NoRow \in Rows /\ ~NoRow.there
BY Bounds DEF NoRow, Rows, Kinds, Ages

LEMMA NewRowType ==
  ASSUME NEW k \in Kinds, 1 <= MaxEvents
  PROVE  /\ NewRow(k) \in Rows /\ NewRow(k).there /\ NewRow(k).kind = k
         /\ NewRow(k).open /\ NewRow(k).n = 1 /\ NewRow(k).age = "window"
BY Bounds DEF NewRow, Rows, Ages

LEMMA BumpedRow ==
  ASSUME TypeOK, NEW i \in RowIds, NEW n
  PROVE  Bumped(i, n) = [there |-> rows[i].there, kind |-> rows[i].kind,
                         open |-> rows[i].open, age |-> "window",
                         n |-> rows[i].n + 1]
<1>. PICK r \in Rows : r = rows[i]
  BY DEF TypeOK
<1>1. Bumped(i, n) = [r EXCEPT !.n = r.n + 1, !.age = "window"]
  BY DEF Bumped
<1>2. r = [there |-> r.there, kind |-> r.kind, open |-> r.open, age |-> r.age,
           n |-> r.n]
  BY DEF Rows
<1>. QED BY <1>1, <1>2

\* What a row counts was written.
LEMMA RowCounts ==
  ASSUME IInv, NEW i \in RowIds, rows[i].there
  PROVE  rows[i].n <= written[rows[i].kind]
<1>. DEFINE k == rows[i].kind
            g == [m \in 1 .. rows[i].n |-> <<i, m>>]
<1>1. k \in Kinds /\ rows[i].n \in 0 .. MaxEvents
  BY DEF IInv, TypeOK, Rows
<1>2. g \in Injection(1 .. rows[i].n, Occurrences(k))
  <2>1. \A m \in 1 .. rows[i].n : g[m] \in Occurrences(k)
    BY <1>1, Bounds DEF Occurrences
  <2>. QED BY <2>1 DEF Injection, IsInjective
<1>3. Occurrences(k) \in SUBSET (RowIds \X (1 .. MaxEvents))
  BY DEF Occurrences
<1>. HIDE DEF g
<1>4. Cardinality(1 .. rows[i].n) <= Cardinality(Occurrences(k))
  BY <1>2, <1>3, Finite, FS_Injection
<1>5. Cardinality(1 .. rows[i].n) = rows[i].n
  <2>1. rows[i].n \in Nat
    BY <1>1, Bounds
  <2>. QED BY <2>1, UpTo
<1>6. /\ Cardinality(Occurrences(k)) + pruned[k] <= written[k]
      /\ Cardinality(Occurrences(k)) \in Nat /\ pruned[k] \in Nat
      /\ written[k] \in Nat
  BY <1>1, <1>3, Finite, Bounds DEF IInv, EventsCounted, TypeOK
<1>. HIDE DEF k
<1>7. rows[i].n <= written[k]
  BY <1>1, <1>4, <1>5, <1>6
<1>. QED BY <1>7 DEF k

LEMMA Countable ==
  ASSUME NEW k
  PROVE  /\ IsFiniteSet(Occurrences(k)) /\ Cardinality(Occurrences(k)) \in Nat
         /\ IsFiniteSet(Occurrences(k)') /\ Cardinality(Occurrences(k)') \in Nat
BY Finite DEF Occurrences

LEMMA BadgeCountable ==
  /\ IsFiniteSet(OnBadge) /\ Cardinality(OnBadge) \in Nat
  /\ IsFiniteSet(OnBadge') /\ Cardinality(OnBadge') \in Nat
  /\ IsFiniteSet(Late) /\ Cardinality(Late) \in Nat
  /\ IsFiniteSet(Late') /\ Cardinality(Late') \in Nat
  /\ Cardinality(Late') <= Cardinality(Writers)
<1>1. /\ OnBadge \in SUBSET (RowIds \X (1 .. MaxEvents))
      /\ OnBadge' \in SUBSET (RowIds \X (1 .. MaxEvents))
      /\ Late \in SUBSET Writers /\ Late' \in SUBSET Writers
  BY DEF OnBadge, Occurrences, Late
<1>. QED BY <1>1, Finite

\* A row that counts one more, or is new and counts one, is one occurrence more
\* of its kind.
LEMMA OneMore ==
  ASSUME TypeOK, NEW t \in RowIds, NEW row \in Rows, rows' = [rows EXCEPT ![t] = row],
         row.there,
         \/ rows[t].there /\ rows[t].kind = row.kind /\ row.n = rows[t].n + 1
         \/ ~rows[t].there /\ row.n = 1
  PROVE  \A h \in Kinds :
           Cardinality(Occurrences(h)') =
             Cardinality(Occurrences(h)) + (IF h = row.kind THEN 1 ELSE 0)
<1>. DEFINE new == <<t, row.n>>
<1>1. rows \in [RowIds -> Rows] /\ rows'[t] = row
      /\ \A j \in RowIds \ {t} : rows'[j] = rows[j]
  BY DEF TypeOK
<1>2. row.n \in 1 .. MaxEvents /\ row.kind \in Kinds
  BY <1>1, Bounds DEF Rows
<1>3. rows[t].there => rows[t].n \in Nat
  BY <1>1, Bounds DEF Rows
<1>4. \A m \in 1 .. MaxEvents :
        m <= row.n <=> (rows[t].there /\ m <= rows[t].n) \/ m = row.n
  BY <1>2, <1>3
<1>5. new \in Occurrences(row.kind)' /\ new \notin Occurrences(row.kind)
  <2>1. ~(rows[t].there /\ row.n <= rows[t].n)
    BY <1>3
  <2>. QED BY <1>1, <1>2, <2>1 DEF Occurrences
<1>6. Occurrences(row.kind)' = Occurrences(row.kind) \cup {new}
  <2>1. ASSUME NEW j \in RowIds, NEW m \in 1 .. MaxEvents
        PROVE  <<j, m>> \in Occurrences(row.kind)' <=>
                 <<j, m>> \in Occurrences(row.kind) \cup {new}
    <3>1. CASE j = t
      <4>1. rows[t].there => rows[t].kind = row.kind
        OBVIOUS
      <4>. QED BY <3>1, <4>1, <1>1, <1>4 DEF Occurrences
    <3>2. CASE j # t
      BY <3>2, <1>1 DEF Occurrences
    <3>. QED BY <3>1, <3>2
  <2>. QED BY <2>1, <1>5 DEF Occurrences
<1>7. \A h \in Kinds : h # row.kind => Occurrences(h)' = Occurrences(h)
  <2>. SUFFICES ASSUME NEW h \in Kinds, h # row.kind,
                       NEW j \in RowIds, NEW m \in 1 .. MaxEvents
                PROVE  <<j, m>> \in Occurrences(h)' <=> <<j, m>> \in Occurrences(h)
    BY DEF Occurrences
  <2>1. CASE j = t
    BY <2>1, <1>1 DEF Occurrences
  <2>2. CASE j # t
    BY <2>2, <1>1 DEF Occurrences
  <2>. QED BY <2>1, <2>2
<1>8. Cardinality(Occurrences(row.kind)') = Cardinality(Occurrences(row.kind)) + 1
  BY ZenonT(30), <1>5, <1>6, Countable, FS_AddElement
<1>. QED BY <1>7, <1>8, Countable

\* The badge shows what it showed, and one more when that is an open error row.
LEMMA BadgeOneMore ==
  ASSUME TypeOK, NEW t \in RowIds, NEW row \in Rows, rows' = [rows EXCEPT ![t] = row],
         row.there,
         \/ /\ rows[t].there /\ rows[t].kind = row.kind /\ row.n = rows[t].n + 1
            /\ row.open = rows[t].open
         \/ ~rows[t].there /\ row.n = 1
  PROVE  /\ Cardinality(OnBadge) <= Cardinality(OnBadge')
         /\ row.kind = "error" /\ row.open =>
              Cardinality(OnBadge) + 1 <= Cardinality(OnBadge')
<1>. DEFINE new == <<t, row.n>>
<1>1. rows \in [RowIds -> Rows] /\ rows'[t] = row
      /\ \A j \in RowIds \ {t} : rows'[j] = rows[j]
  BY DEF TypeOK
<1>2. row.n \in 1 .. MaxEvents /\ (rows[t].there => rows[t].n \in Nat)
  BY <1>1, Bounds DEF Rows
<1>3. OnBadge \in SUBSET OnBadge'
  <2>. SUFFICES ASSUME NEW j \in RowIds, NEW m \in 1 .. MaxEvents, <<j, m>> \in OnBadge
                PROVE  <<j, m>> \in OnBadge'
    BY DEF OnBadge, Occurrences
  <2>1. CASE j = t
    BY <1>1, <1>2, <2>1 DEF OnBadge, Occurrences
  <2>2. CASE j # t
    BY <1>1, <2>2 DEF OnBadge, Occurrences
  <2>. QED BY <2>1, <2>2
<1>4. Cardinality(OnBadge) <= Cardinality(OnBadge')
  BY <1>3, BadgeCountable, FS_Subset
<1>5. ASSUME row.kind = "error", row.open
      PROVE  Cardinality(OnBadge) + 1 <= Cardinality(OnBadge')
  <2>1. new \in OnBadge'
    BY <1>1, <1>2, <1>5 DEF OnBadge, Occurrences
  <2>2. new \notin OnBadge
    BY <1>1, <1>2 DEF OnBadge, Occurrences
  <2>3. OnBadge \cup {new} \in SUBSET OnBadge'
    BY <1>3, <2>1
  <2>. HIDE DEF new
  <2>4. Cardinality(OnBadge \cup {new}) = Cardinality(OnBadge) + 1
    BY <2>2, BadgeCountable, FS_AddElement
  <2>. QED BY <2>3, <2>4, BadgeCountable, FS_Subset
<1>. QED BY <1>4, <1>5

\* What Put does: nothing, one more on the row that was found, or a row.
Target(i) == IF i = 0 THEN last + 1 ELSE i
Puts(i) == i = 0 \/ rows[i].there

LEMMA PutRow ==
  ASSUME IInv, NEW i \in 0 .. last, NEW k \in Kinds, NEW n, Put(i, k, n),
         i # 0 /\ rows[i].there => rows[i].kind = k,
         written[k] < MaxEvents
  PROVE  \/ ~Puts(i) /\ UNCHANGED <<rows, last>>
         \/ /\ Puts(i) /\ Target(i) \in RowIds
            /\ last' = last + (IF i = 0 THEN 1 ELSE 0) /\ last' \in 0 .. MaxRows
            /\ \E row \in Rows :
                 /\ rows' = [rows EXCEPT ![Target(i)] = row]
                 /\ row.there /\ row.kind = k /\ row.age = "window"
                 /\ i = 0 => ~rows[Target(i)].there /\ row.n = 1 /\ row.open
                 /\ i # 0 => /\ rows[i].there /\ rows[i].kind = k
                             /\ row.n = rows[i].n + 1 /\ row.open = rows[i].open
<1>1. last \in 0 .. MaxRows /\ rows \in [RowIds -> Rows] /\ written[k] \in 0 .. MaxEvents
  BY DEF IInv, TypeOK
<1>2. CASE i = 0
  <2>1. /\ last < MaxRows /\ rows' = [rows EXCEPT ![last + 1] = NewRow(k)]
        /\ last' = last + 1
    BY <1>2 DEF Put
  <2>2. last + 1 \in RowIds /\ last + 1 \in 0 .. MaxRows
    BY <1>1, <2>1, Bounds DEF RowIds
  <2>3. ~rows[last + 1].there
    BY <1>1, <2>2, Bounds DEF IInv, IdsSound
  <2>4. 1 <= MaxEvents
    BY <1>1, Bounds
  <2>. QED BY <1>2, <2>1, <2>2, <2>3, <2>4, NewRowType DEF Puts, Target
<1>3. CASE i # 0 /\ ~rows[i].there
  BY <1>3 DEF Put, Puts
<1>4. CASE i # 0 /\ rows[i].there
  <2>. DEFINE row == Bumped(i, n)
  <2>1. i \in RowIds /\ rows[i] \in Rows
    BY <1>1, <1>4, Bounds DEF RowIds
  <2>2. rows[i].n <= written[k] /\ rows[i].n \in 0 .. MaxEvents
    BY <1>4, <2>1, RowCounts DEF Rows
  <2>3. rows[i].n + 1 \in 0 .. MaxEvents
    BY <1>1, <2>2, Bounds
  <2>4. /\ row \in Rows /\ row.there /\ row.kind = k /\ row.n = rows[i].n + 1
        /\ row.open = rows[i].open /\ row.age = "window"
    <3>1. row = [there |-> rows[i].there, kind |-> rows[i].kind,
                 open |-> rows[i].open, age |-> "window", n |-> rows[i].n + 1]
      BY <2>1, BumpedRow DEF IInv
    <3>. QED BY <1>4, <2>1, <2>3, <3>1 DEF Rows, Ages
  <2>5. rows' = [rows EXCEPT ![i] = row] /\ last' = last
    BY <1>4 DEF Put
  <2>. HIDE DEF row
  <2>6. Target(i) = i /\ Puts(i)
    BY <1>4 DEF Target, Puts
  <2>7. last' = last + 0
    BY <1>1, <2>5
  <2>. QED BY <1>1, <1>4, <2>1, <2>4, <2>5, <2>6, <2>7
<1>. QED BY <1>2, <1>3, <1>4

\* The rows that are there stay, of their kind and as open as they were, and none
\* gets old enough to be trimmed.
Grow ==
  /\ last' \in 0 .. MaxRows /\ last <= last'
  /\ \A j \in RowIds :
       j <= last =>
         /\ rows'[j].there = rows[j].there
         /\ rows[j].there => rows'[j].kind = rows[j].kind /\ rows'[j].open = rows[j].open
         /\ rows[j].age # "expired" => rows'[j].age # "expired"

LEMMA PutParts ==
  ASSUME IInv, NEW i \in 0 .. last, NEW k \in Kinds, NEW n, Put(i, k, n),
         i # 0 /\ rows[i].there => rows[i].kind = k,
         written[k] < MaxEvents
  PROVE  /\ rows' \in [RowIds -> Rows]
         /\ Grow
         /\ IdsSound'
         /\ \A h \in Kinds :
              /\ Cardinality(Occurrences(h)') =
                   Cardinality(Occurrences(h)) + (IF h = k /\ Puts(i) THEN 1 ELSE 0)
              /\ Recent(h)' \subseteq Recent(h) \cup
                   (IF h = k /\ Puts(i) THEN {Target(i)} ELSE {})
         /\ i = 0 \/ (rows[i].there /\ rows[i].open) =>
              \E j \in RowIds : rows'[j].there /\ rows'[j].kind = k /\ rows'[j].open
         /\ Cardinality(OnBadge) <= Cardinality(OnBadge')
         /\ k = "error" /\ (i = 0 \/ (rows[i].there /\ rows[i].open)) =>
              Cardinality(OnBadge) + 1 <= Cardinality(OnBadge')
<1>1. last \in 0 .. MaxRows /\ rows \in [RowIds -> Rows] /\ IdsSound /\ TypeOK
  BY DEF IInv, TypeOK
<1>2. CASE ~Puts(i) /\ UNCHANGED <<rows, last>>
  <2>1. \A h \in Kinds : Occurrences(h)' = Occurrences(h) /\ Recent(h)' = Recent(h)
    BY <1>2 DEF Occurrences, Recent
  <2>2. Grow /\ IdsSound'
    BY <1>1, <1>2, Bounds DEF Grow, IdsSound
  <2>3. rows' \in [RowIds -> Rows] /\ ~Puts(i) /\ i # 0 /\ ~rows[i].there
    BY <1>1, <1>2 DEF Puts
  <2>4. \A h \in Kinds : Cardinality(Occurrences(h)) + 0 = Cardinality(Occurrences(h))
    BY Countable
  <2>5. Cardinality(OnBadge) <= Cardinality(OnBadge')
    <3>1. OnBadge' = OnBadge
      BY <1>2, <2>1 DEF OnBadge, Kinds
    <3>. QED BY <3>1, BadgeCountable
  <2>. QED BY <2>1, <2>2, <2>3, <2>4, <2>5
<1>3. ASSUME /\ Puts(i) /\ Target(i) \in RowIds
             /\ last' = last + (IF i = 0 THEN 1 ELSE 0) /\ last' \in 0 .. MaxRows,
             NEW row \in Rows, rows' = [rows EXCEPT ![Target(i)] = row],
             row.there /\ row.kind = k /\ row.age = "window",
             i = 0 => ~rows[Target(i)].there /\ row.n = 1 /\ row.open,
             i # 0 => /\ rows[i].there /\ rows[i].kind = k
                      /\ row.n = rows[i].n + 1 /\ row.open = rows[i].open
      PROVE  /\ rows' \in [RowIds -> Rows] /\ Grow /\ IdsSound'
             /\ \A h \in Kinds :
                  /\ Cardinality(Occurrences(h)') =
                       Cardinality(Occurrences(h)) + (IF h = k THEN 1 ELSE 0)
                  /\ Recent(h)' \subseteq Recent(h) \cup
                       (IF h = k THEN {Target(i)} ELSE {})
             /\ i = 0 \/ (rows[i].there /\ rows[i].open) =>
                  \E j \in RowIds : rows'[j].there /\ rows'[j].kind = k /\ rows'[j].open
             /\ Cardinality(OnBadge) <= Cardinality(OnBadge')
             /\ k = "error" /\ (i = 0 \/ (rows[i].there /\ rows[i].open)) =>
                  Cardinality(OnBadge) + 1 <= Cardinality(OnBadge')
  <2>. PICK t \in RowIds : t = Target(i)
    BY <1>3
  <2>1. /\ rows' \in [RowIds -> Rows] /\ rows'[t] = row
        /\ \A j \in RowIds : j # t => rows'[j] = rows[j]
    BY <1>1, <1>3
  <2>2. i = 0 => t = last + 1 /\ last' = last + 1
    BY <1>3 DEF Target
  <2>3. i # 0 => t = i /\ last' = last
    BY <1>1, <1>3, Bounds DEF Target
  <2>4. Grow
    <3>1. last <= last' /\ last' \in 0 .. MaxRows
      BY <1>1, <1>3, <2>2, <2>3, Bounds
    <3>2. ASSUME NEW j \in RowIds, j <= last
          PROVE  /\ rows'[j].there = rows[j].there
                 /\ rows[j].there => rows'[j].kind = rows[j].kind /\ rows'[j].open = rows[j].open
                 /\ rows[j].age # "expired" => rows'[j].age # "expired"
      <4>1. CASE j # t
        BY <2>1, <4>1
      <4>2. CASE j = t
        <5>1. i # 0 /\ t = i
          BY <1>1, <2>2, <2>3, <3>2, <4>2, Bounds
        <5>. QED BY <1>3, <2>1, <4>2, <5>1
      <4>. QED BY <4>1, <4>2
    <3>. QED BY <3>1, <3>2 DEF Grow
  <2>5. IdsSound'
    <3>1. t <= last'
      BY <1>1, <2>2, <2>3, Bounds
    <3>2. last <= last' /\ last' \in Nat /\ last \in Nat
      BY <1>1, <2>4, Bounds DEF Grow
    <3>. QED BY <1>1, <2>1, <3>1, <3>2, Bounds DEF IdsSound, RowIds
  <2>6. \A h \in Kinds :
          Cardinality(Occurrences(h)') =
            Cardinality(Occurrences(h)) + (IF h = k THEN 1 ELSE 0)
    <3>1. \/ rows[t].there /\ rows[t].kind = row.kind /\ row.n = rows[t].n + 1
          \/ ~rows[t].there /\ row.n = 1
      BY <1>3, <2>3
    <3>. QED BY <1>1, <1>3, <3>1, OneMore
  <2>7. \A h \in Kinds : Recent(h)' \subseteq Recent(h) \cup (IF h = k THEN {t} ELSE {})
    BY <1>3, <2>1 DEF Recent
  <2>8. i = 0 \/ (rows[i].there /\ rows[i].open) => row.open
    BY <1>3
  <2>9. /\ Cardinality(OnBadge) <= Cardinality(OnBadge')
        /\ row.kind = "error" /\ row.open =>
             Cardinality(OnBadge) + 1 <= Cardinality(OnBadge')
    <3>1. \/ /\ rows[t].there /\ rows[t].kind = row.kind /\ row.n = rows[t].n + 1
             /\ row.open = rows[t].open
          \/ ~rows[t].there /\ row.n = 1
      BY <1>3, <2>3
    <3>. QED BY <1>1, <1>3, <3>1, BadgeOneMore
  <2>. QED BY <1>3, <2>1, <2>4, <2>5, <2>6, <2>7, <2>8, <2>9
<1>4. \/ ~Puts(i) /\ UNCHANGED <<rows, last>>
      \/ /\ Puts(i) /\ Target(i) \in RowIds
         /\ last' = last + (IF i = 0 THEN 1 ELSE 0) /\ last' \in 0 .. MaxRows
         /\ \E row \in Rows :
              /\ rows' = [rows EXCEPT ![Target(i)] = row]
              /\ row.there /\ row.kind = k /\ row.age = "window"
              /\ i = 0 => ~rows[Target(i)].there /\ row.n = 1 /\ row.open
              /\ i # 0 => /\ rows[i].there /\ rows[i].kind = k
                          /\ row.n = rows[i].n + 1 /\ row.open = rows[i].open
  BY PutRow
<1>. QED BY <1>2, <1>3, <1>4

LEMMA HoldKept ==
  ASSUME IInv, Grow, NEW w \in Writers, wr'[w] = wr[w]
  PROVE  HoldSound(w)'
<1>1. wr[w].row \in 0 .. MaxRows /\ last \in 0 .. MaxRows
  BY DEF IInv, TypeOK
<1>2. CASE ~wr[w].busy
  BY <1>2 DEF HoldSound
<1>3. CASE wr[w].busy /\ wr[w].row = 0
  <2>1. 0 <= last'
    BY Bounds DEF Grow
  <2>. QED BY <1>3, <2>1 DEF HoldSound
<1>4. CASE wr[w].busy /\ wr[w].row # 0
  <2>1. wr[w].row \in RowIds /\ wr[w].row <= last /\ HoldSound(w)
    BY <1>1, <1>4, Bounds DEF IInv, HoldSound, RowIds
  <2>2. wr[w].row <= last'
    BY <1>1, <2>1, Bounds DEF Grow
  <2>. QED BY <1>4, <2>1, <2>2 DEF HoldSound, Grow
<1>. QED BY <1>2, <1>3, <1>4

\* Errors that are on the badge stay there as long as the rows do.
LEMMA BadgeKept ==
  ASSUME IInv, Grow
  PROVE  (\E i \in RowIds : rows[i].there /\ rows[i].kind = "error" /\ rows[i].open) =>
           (\E i \in RowIds : rows'[i].there /\ rows'[i].kind = "error" /\ rows'[i].open)
BY DEF IInv, IdsSound, Grow

\* What has been written leaves room for one event more.
LEMMA RoomLeft ==
  ASSUME IInv
  PROVE  /\ events < MaxEvents => \A k \in Kinds : written[k] < MaxEvents
         /\ Busy # {} => \A k \in Kinds : written[k] < MaxEvents
<1>. DEFINE e == written["error"]
            d == written["debug"]
            b == Cardinality(Busy)
<1>1. /\ e \in 0 .. MaxEvents /\ d \in 0 .. MaxEvents /\ events \in 0 .. MaxEvents
      /\ e + d + b <= events
  BY DEF IInv, TypeOK, Kinds, EventsCover
<1>2. b \in Nat /\ (Busy # {} => b # 0)
  BY Finite, FS_EmptySet DEF Busy
<1>. HIDE DEF e, d, b
<1>3. /\ events < MaxEvents => e < MaxEvents /\ d < MaxEvents
      /\ b # 0 => e < MaxEvents /\ d < MaxEvents
  BY <1>1, <1>2, Bounds
<1>. QED BY <1>2, <1>3 DEF Kinds, e, d

\* The types that follow from the counts.
LEMMA CountTypes ==
  ASSUME EventsCounted', EventsCover', (due <= written["error"])',
         (since <= written["error"])', events' \in 0 .. MaxEvents,
         due' \in Nat, since' \in Nat, written' \in [Kinds -> Nat],
         pruned' \in [Kinds -> Nat]
  PROVE  /\ written' \in [Kinds -> 0 .. MaxEvents]
         /\ pruned' \in [Kinds -> 0 .. MaxEvents]
         /\ due' \in 0 .. MaxEvents /\ since' \in 0 .. MaxEvents
<1>. PICK e, d, b : e = written'["error"] /\ d = written'["debug"] /\ b = Cardinality(Busy')
  OBVIOUS
<1>1. b \in Nat /\ e \in Nat /\ d \in Nat
  BY Finite DEF Busy, Kinds
<1>2. e + d + b <= events'
  BY DEF EventsCover
<1>3. e \in 0 .. MaxEvents /\ d \in 0 .. MaxEvents
  BY <1>1, <1>2, Bounds
<1>4. \A k \in Kinds : written'[k] \in 0 .. MaxEvents
  BY <1>3 DEF Kinds
<1>5. ASSUME NEW k \in Kinds PROVE pruned'[k] \in 0 .. MaxEvents
  <2>1. /\ Cardinality(Occurrences(k)') + pruned'[k] <= written'[k]
        /\ Cardinality(Occurrences(k)') \in Nat /\ pruned'[k] \in Nat
    BY <1>5, Countable DEF EventsCounted
  <2>. QED BY <2>1, <1>4, Bounds
<1>6. due' <= e /\ since' <= e
  OBVIOUS
<1>7. due' \in 0 .. MaxEvents /\ since' \in 0 .. MaxEvents
  BY <1>3, <1>6, Bounds
<1>. QED BY <1>4, <1>5, <1>7

\* BadgeSound survives when what it adds up on the left grows no more than the
\* badge.
LEMMA BadgeBalance ==
  ASSUME IInv, since' \in Nat, (since <= written["error"])', NEW d \in Nat, NEW e \in Nat,
         since' <= since + d + e, Cardinality(OnBadge) + d <= Cardinality(OnBadge'),
         Cardinality(Late') + e <= Cardinality(Late)
  PROVE  BadgeSound'
<1>. DEFINE s == since
            t == since'
            a == Cardinality(Late)
            b == Cardinality(Late')
            p == Cardinality(OnBadge)
            q == Cardinality(OnBadge')
            n == Cardinality(Writers)
<1>1. s \in Nat /\ a \in Nat /\ b \in Nat /\ p \in Nat /\ q \in Nat /\ n \in Nat
  BY BadgeCountable, Bounds DEF IInv, TypeOK
<1>2. s + a <= p + n
  BY DEF IInv, BadgeSound
<1>. HIDE DEF s, t, a, b, p, q, n
<1>3. t \in Nat /\ t <= s + d + e /\ p + d <= q /\ b + e <= a
  BY DEF s, t, a, b, p, q
<1>4. t + b <= q + n
  BY <1>1, <1>2, <1>3
<1>. QED BY <1>4 DEF t, b, q, n, BadgeSound
-----------------------------------------------------------------------------
(* The steps.                                                              *)

LEMMA FoundRow ==
  ASSUME IInv, NEW k \in Kinds, NEW i \in 0 .. MaxRows, Found(k, i)
  PROVE  /\ i \in 0 .. last
         /\ i = 0 => Recent(k) = {}
         /\ i # 0 => i \in Recent(k) /\ i \in RowIds /\ rows[i].there
                     /\ rows[i].kind = k /\ rows[i].open /\ rows[i].age = "window"
<1>1. last \in 0 .. MaxRows /\ IdsSound
  BY DEF IInv, TypeOK
<1>2. CASE Recent(k) = {}
  BY <1>1, <1>2, Bounds DEF Found
<1>3. CASE Recent(k) # {}
  <2>1. i \in Recent(k)
    BY <1>3 DEF Found
  <2>2. /\ i \in RowIds /\ rows[i].there /\ rows[i].kind = k /\ rows[i].open
        /\ rows[i].age = "window"
    BY <2>1 DEF Recent
  <2>3. i # 0 /\ i <= last
    BY <1>1, <2>2, Bounds DEF RowIds, IdsSound
  <2>. QED BY <1>1, <1>3, <2>1, <2>2, <2>3, Bounds
<1>. QED BY <1>2, <1>3

LEMMA StormBound ==
  ASSUME NEW k
  PROVE  /\ Cardinality(Held(k)) + Cardinality(Inserting(k)) <= Cardinality(Writers)
         /\ Cardinality(Held(k)') + Cardinality(Inserting(k)') <= Cardinality(Writers)
         /\ Cardinality(Held(k)) \in Nat /\ Cardinality(Inserting(k)) \in Nat
         /\ Cardinality(Held(k)') \in Nat /\ Cardinality(Inserting(k)') \in Nat
         /\ Cardinality(Recent(k) \cup Held(k)) \in Nat
         /\ IsFiniteSet(Recent(k) \cup Held(k)) /\ IsFiniteSet(Held(k))
         /\ IsFiniteSet(Inserting(k))
<1>1. /\ Held(k) \in SUBSET RowIds /\ Held(k)' \in SUBSET RowIds
      /\ Recent(k) \cup Held(k) \in SUBSET RowIds
      /\ Inserting(k) \in SUBSET Writers /\ Inserting(k)' \in SUBSET Writers
  BY DEF Held, Recent, Inserting, Busy
<1>2. Cardinality(Held(k)) + Cardinality(Inserting(k)) <= Cardinality(Writers)
  BY HoldersFew DEF Held, Inserting, Busy
<1>3. Cardinality(Held(k)') + Cardinality(Inserting(k)') <= Cardinality(Writers)
  BY HoldersFew DEF Held, Inserting, Busy
<1>. QED BY <1>1, <1>2, <1>3, Finite

LEMMA LogStep ==
  ASSUME IInv, NEW k \in Kinds, Log(k)
  PROVE  IInv'
<1>. PICK i \in 0 .. MaxRows :
       Found(k, i) /\ Put(i, k, IF i = 0 THEN 0 ELSE rows[i].n)
  BY DEF Log
<1>1. /\ events < MaxEvents /\ events' = events + 1
      /\ written' = [written EXCEPT ![k] = @ + 1]
      /\ due' = IF k = "error" THEN due + 1 ELSE due
      /\ since' = IF k = "error" THEN since + 1 ELSE since
      /\ wr' = wr /\ faults' = faults /\ pruned' = pruned
  BY DEF Log
<1>2. /\ i \in 0 .. last
      /\ i = 0 => Recent(k) = {}
      /\ i # 0 => i \in Recent(k) /\ i \in RowIds /\ rows[i].there
                  /\ rows[i].kind = k /\ rows[i].open /\ rows[i].age = "window"
  BY FoundRow
<1>3. written[k] < MaxEvents
  BY <1>1, RoomLeft
<1>4. Puts(i)
  BY <1>2 DEF Puts
<1>5. /\ rows' \in [RowIds -> Rows] /\ Grow /\ IdsSound'
      /\ \A h \in Kinds :
           /\ Cardinality(Occurrences(h)') =
                Cardinality(Occurrences(h)) + (IF h = k THEN 1 ELSE 0)
           /\ Recent(h)' \subseteq Recent(h) \cup (IF h = k THEN {Target(i)} ELSE {})
      /\ \E j \in RowIds : rows'[j].there /\ rows'[j].kind = k /\ rows'[j].open
      /\ Cardinality(OnBadge) <= Cardinality(OnBadge')
      /\ k = "error" => Cardinality(OnBadge) + 1 <= Cardinality(OnBadge')
  BY <1>2, <1>3, <1>4, PutParts
<1>6. /\ written \in [Kinds -> 0 .. MaxEvents] /\ pruned \in [Kinds -> 0 .. MaxEvents]
      /\ due \in 0 .. MaxEvents /\ events \in 0 .. MaxEvents /\ due <= written["error"]
      /\ since \in 0 .. MaxEvents /\ since <= written["error"]
      /\ EventsCover /\ EventsCounted /\ StormSound /\ ErrorsOnBadge
  BY DEF IInv, TypeOK, BadgeSound
<1>7. /\ written' \in [Kinds -> Nat]
      /\ \A h \in Kinds : written'[h] = written[h] + (IF h = k THEN 1 ELSE 0)
  BY <1>1, <1>6, Bounds
<1>8. EventsCounted'
  <2>1. ASSUME NEW h \in Kinds
        PROVE  /\ Cardinality(Occurrences(h)') + pruned'[h] <= written'[h]
               /\ h = "error" =>
                    Cardinality(Occurrences(h)') + pruned'[h] = written'[h]
    <3>1. /\ Cardinality(Occurrences(h)) + pruned[h] <= written[h]
          /\ h = "error" => Cardinality(Occurrences(h)) + pruned[h] = written[h]
      BY <1>6 DEF EventsCounted
    <3>2. Cardinality(Occurrences(h)) \in Nat /\ pruned[h] \in Nat /\ written[h] \in Nat
      BY <1>6, Countable, Bounds
    <3>. QED BY <1>1, <1>5, <1>7, <3>1, <3>2
  <2>. QED BY <2>1 DEF EventsCounted, Kinds
<1>9. EventsCover'
  <2>1. Busy' = Busy /\ Cardinality(Busy) \in Nat
    BY <1>1, Finite DEF Busy
  <2>2. /\ written["error"] \in Nat /\ written["debug"] \in Nat
        /\ written'["error"] + written'["debug"] = written["error"] + written["debug"] + 1
    BY <1>6, <1>7, Bounds DEF Kinds
  <2>3. /\ written'["error"] \in Nat /\ written'["debug"] \in Nat
    BY <1>7 DEF Kinds
  <2>. QED BY <1>1, <1>6, <2>1, <2>2, <2>3, Bounds DEF EventsCover
<1>10. /\ (due <= written["error"])' /\ due' \in Nat
       /\ (since <= written["error"])' /\ since' \in Nat
  BY <1>1, <1>6, <1>7, Bounds DEF Kinds
<1>11. StormSound'
  <2>. SUFFICES ASSUME NEW h \in Kinds
                PROVE  Cardinality(Recent(h)' \cup Held(h)') + Cardinality(Inserting(h)')
                         <= Cardinality(Writers) + 1
    BY DEF StormSound
  <2>1. Held(h)' = Held(h) /\ Inserting(h)' = Inserting(h)
    BY <1>1 DEF Held, Inserting, Busy
  <2>2. CASE h # k \/ i # 0
    <3>1. Recent(h)' \subseteq Recent(h)
      BY <1>2, <1>5, <2>2 DEF Target
    <3>. QED BY <1>6, <2>1, <3>1, StormKeeps
  <2>3. CASE h = k /\ i = 0
    <3>1. Recent(h)' \cup Held(h)' \in SUBSET (Held(h) \cup {last + 1})
      BY <1>2, <1>5, <2>1, <2>3 DEF Target
    <3>. PICK m, n : m = Cardinality(Held(h)) /\ n = Cardinality(Inserting(h))
      OBVIOUS
    <3>0. IsFiniteSet(Held(h)) /\ m \in Nat /\ n \in Nat /\ m + n <= Cardinality(Writers)
      BY StormBound
    <3>2. /\ IsFiniteSet(Held(h) \cup {last + 1})
          /\ Cardinality(Held(h) \cup {last + 1}) <= m + 1
      <4>1. /\ IsFiniteSet(Held(h) \cup {last + 1})
            /\ Cardinality(Held(h) \cup {last + 1}) =
                 IF last + 1 \in Held(h) THEN m ELSE m + 1
        BY <3>0, FS_AddElement, Zenon
      <4>2. m <= m + 1
        BY <3>0
      <4>3. CASE last + 1 \in Held(h)
        BY <4>1, <4>2, <4>3
      <4>4. CASE last + 1 \notin Held(h)
        <5>1. m + 1 <= m + 1
          BY <3>0
        <5>. QED BY <4>1, <4>4, <5>1
      <4>. QED BY <4>3, <4>4
    <3>. DEFINE S == Recent(h)' \cup Held(h)'
                T == Held(h) \cup {last + 1}
    <3>3. /\ Cardinality(S) <= Cardinality(T)
          /\ Cardinality(S) \in Nat /\ Cardinality(T) \in Nat
      BY <3>1, <3>2, FS_Subset, FS_CardinalityType
    <3>4. Cardinality(T) <= m + 1 /\ Cardinality(Inserting(h)') = n
      BY <2>1, <3>2
    <3>. HIDE DEF S, T
    <3>5. Cardinality(S) + Cardinality(Inserting(h)') <= Cardinality(Writers) + 1
      BY <3>0, <3>3, <3>4, Bounds
    <3>. QED BY <3>5 DEF S
  <2>. QED BY <2>2, <2>3
<1>12. ErrorsOnBadge'
  <2>1. CASE k = "error"
    BY <1>5, <2>1 DEF ErrorsOnBadge
  <2>2. CASE k # "error"
    BY <1>1, <1>5, <1>6, <2>2, BadgeKept DEF ErrorsOnBadge
  <2>. QED BY <2>1, <2>2
<1>13. \A w \in Writers : HoldSound(w)'
  BY <1>1, <1>5, HoldKept
<1>14. TypeOK'
  <2>1. events' \in 0 .. MaxEvents
    BY <1>1, <1>6, Bounds
  <2>2. pruned' \in [Kinds -> Nat]
    BY <1>1, <1>6, Bounds
  <2>3. /\ written' \in [Kinds -> 0 .. MaxEvents] /\ pruned' \in [Kinds -> 0 .. MaxEvents]
        /\ due' \in 0 .. MaxEvents /\ since' \in 0 .. MaxEvents
    BY <1>7, <1>8, <1>9, <1>10, <2>1, <2>2, CountTypes
  <2>. QED BY <1>1, <1>5, <2>1, <2>3 DEF IInv, TypeOK, Grow
<1>15. BadgeSound'
  <2>1. Late' = Late /\ Cardinality(Late') + 0 <= Cardinality(Late)
    BY <1>1, BadgeCountable DEF Late
  <2>2. CASE k = "error"
    <3>1. since' <= since + 1 + 0
      BY <1>1, <1>6, <2>2, Bounds
    <3>. QED BY <1>5, <1>10, <2>1, <2>2, <3>1, BadgeBalance
  <2>3. CASE k # "error"
    <3>1. since' <= since + 0 + 0 /\ Cardinality(OnBadge) + 0 <= Cardinality(OnBadge')
      BY <1>1, <1>5, <1>6, <2>3, BadgeCountable, Bounds
    <3>. QED BY <1>10, <2>1, <3>1, BadgeBalance
  <2>. QED BY <2>2, <2>3
<1>. QED BY <1>5, <1>8, <1>9, <1>10, <1>11, <1>12, <1>13, <1>14, <1>15 DEF IInv

LEMMA LookStep ==
  ASSUME IInv, NEW w \in Writers, NEW k \in Kinds, Look(w, k)
  PROVE  IInv'
<1>. PICK i \in 0 .. MaxRows :
       /\ Found(k, i)
       /\ wr' = [wr EXCEPT ![w] = [busy |-> TRUE, kind |-> k, row |-> i,
                                   n |-> IF i = 0 THEN 0 ELSE rows[i].n,
                                   cleared |-> FALSE]]
  BY DEF Look
<1>1. /\ ~wr[w].busy /\ events < MaxEvents /\ events' = events + 1
      /\ UNCHANGED <<rows, last, faults, written, pruned, due, since>>
  BY DEF Look
<1>2. /\ i \in 0 .. last
      /\ i = 0 => Recent(k) = {}
      /\ i # 0 => i \in Recent(k) /\ i \in RowIds /\ rows[i].there
                  /\ rows[i].kind = k /\ rows[i].open /\ rows[i].age = "window"
  BY FoundRow
<1>3. TypeOK /\ IdsSound /\ EventsCover /\ EventsCounted /\ StormSound /\ ErrorsOnBadge
      /\ due <= written["error"]
  BY DEF IInv
<1>4. /\ wr'[w] = [busy |-> TRUE, kind |-> k, row |-> i,
                   n |-> IF i = 0 THEN 0 ELSE rows[i].n, cleared |-> FALSE]
      /\ \A v \in Writers : v # w => wr'[v] = wr[v]
      /\ wr' \in [Writers -> [busy : BOOLEAN, kind : Kinds, row : 0 .. MaxRows,
                              n : 0 .. MaxEvents, cleared : BOOLEAN]]
  <2>1. i # 0 => rows[i].n \in 0 .. MaxEvents
    BY <1>2, <1>3 DEF TypeOK, Rows
  <2>2. (IF i = 0 THEN 0 ELSE rows[i].n) \in 0 .. MaxEvents
    BY <2>1, Bounds
  <2>. QED BY <1>3, <2>2 DEF TypeOK
<1>5. TypeOK'
  <2>1. events' \in 0 .. MaxEvents
    BY <1>1, <1>3, Bounds DEF TypeOK
  <2>. QED BY <1>1, <1>3, <1>4, <2>1 DEF TypeOK
<1>6. IdsSound' /\ Grow
  BY <1>1, <1>3, Bounds DEF IdsSound, Grow, TypeOK
<1>7. \A v \in Writers : HoldSound(v)'
  <2>1. HoldSound(w)'
    BY <1>1, <1>2, <1>4, Bounds DEF HoldSound
  <2>2. \A v \in Writers : v # w => HoldSound(v)'
    BY <1>4, <1>6, HoldKept
  <2>. QED BY <2>1, <2>2
<1>8. EventsCover'
  <2>1. Busy' = Busy \cup {w} /\ w \notin Busy
    BY <1>1, <1>4 DEF Busy
  <2>2. IsFiniteSet(Busy) /\ Cardinality(Busy) \in Nat
    BY Finite DEF Busy
  <2>3. Cardinality(Busy') = Cardinality(Busy) + 1
    BY <2>1, <2>2, FS_AddElement
  <2>4. written["error"] \in Nat /\ written["debug"] \in Nat /\ events \in Nat
    BY <1>3, Bounds DEF TypeOK, Kinds
  <2>. QED BY <1>1, <1>3, <2>2, <2>3, <2>4 DEF EventsCover
<1>9. EventsCounted' /\ ErrorsOnBadge' /\ (due <= written["error"])'
  BY <1>1, <1>3 DEF EventsCounted, Occurrences, ErrorsOnBadge
<1>10. StormSound'
  <2>. SUFFICES ASSUME NEW h \in Kinds
                PROVE  Cardinality(Recent(h)' \cup Held(h)') + Cardinality(Inserting(h)')
                         <= Cardinality(Writers) + 1
    BY DEF StormSound
  <2>1. Recent(h)' = Recent(h)
    BY <1>1 DEF Recent
  <2>2. CASE h # k \/ i # 0
    <3>1. Held(h)' \subseteq Recent(h) \cup Held(h)
      <4>1. ASSUME NEW j \in Held(h)', j \notin Held(h) PROVE j \in Recent(h)
        <5>1. j = i /\ h = k
          BY <1>1, <1>4, <4>1 DEF Held, Busy
        <5>. QED BY <1>2, <2>2, <5>1
      <4>. QED BY <4>1
    <3>2. Inserting(h)' \subseteq Inserting(h)
      BY <1>1, <1>4, <2>2 DEF Inserting, Busy
    <3>. QED BY <1>3, <2>1, <3>1, <3>2, StormKeeps
  <2>3. CASE h = k /\ i = 0
    <3>1. Recent(h)' \cup Held(h)' = Held(h)'
      BY <1>2, <2>1, <2>3
    <3>2. /\ Cardinality(Held(h)') + Cardinality(Inserting(h)') <= Cardinality(Writers)
          /\ Cardinality(Held(h)') \in Nat /\ Cardinality(Inserting(h)') \in Nat
      BY StormBound
    <3>3. Cardinality(Recent(h)' \cup Held(h)') = Cardinality(Held(h)')
      BY <3>1
    <3>. PICK a, b : a = Cardinality(Held(h)') /\ b = Cardinality(Inserting(h)')
      OBVIOUS
    <3>4. a + b <= Cardinality(Writers) + 1
      BY <3>2, Bounds
    <3>. QED BY <3>3, <3>4, Zenon
  <2>. QED BY <2>2, <2>3
<1>11. BadgeSound'
  <2>1. Late' = Late
    BY <1>1, <1>4 DEF Late
  <2>. QED BY <1>1, <2>1 DEF IInv, BadgeSound, OnBadge, Occurrences
<1>. QED BY <1>3, <1>5, <1>6, <1>7, <1>8, <1>9, <1>10, <1>11 DEF IInv

\* A writer comes back to idle.
LEMMA BackToIdle ==
  ASSUME IInv, NEW w \in Writers, wr[w].busy, wr' = [wr EXCEPT ![w] = Idle]
  PROVE  /\ wr'[w] = Idle /\ ~Idle.busy
         /\ \A v \in Writers : v # w => wr'[v] = wr[v]
         /\ wr' \in [Writers -> [busy : BOOLEAN, kind : Kinds, row : 0 .. MaxRows,
                                 n : 0 .. MaxEvents, cleared : BOOLEAN]]
         /\ Cardinality(Busy') = Cardinality(Busy) - 1
         /\ Cardinality(Busy) \in Nat /\ Cardinality(Busy) # 0
         /\ \A k \in Kinds : /\ Held(k)' \subseteq Held(k)
                             /\ Inserting(k)' = Inserting(k) \ {w}
         /\ Cardinality(Late') + (IF wr[w].cleared THEN 1 ELSE 0) <= Cardinality(Late)
<1>1. /\ wr'[w] = Idle /\ ~Idle.busy
      /\ \A v \in Writers : v # w => wr'[v] = wr[v]
      /\ wr' \in [Writers -> [busy : BOOLEAN, kind : Kinds, row : 0 .. MaxRows,
                              n : 0 .. MaxEvents, cleared : BOOLEAN]]
  BY Bounds DEF IInv, TypeOK, Idle, Kinds
<1>2. Busy' = Busy \ {w} /\ w \in Busy
  BY <1>1 DEF Busy
<1>3. IsFiniteSet(Busy) /\ Cardinality(Busy) \in Nat /\ Cardinality(Busy) # 0
  BY <1>2, Finite, FS_EmptySet DEF Busy
<1>4. Cardinality(Busy') = Cardinality(Busy) - 1
  BY <1>2, <1>3, FS_RemoveElement
<1>5. \A k \in Kinds : Held(k)' \subseteq Held(k) /\ Inserting(k)' = Inserting(k) \ {w}
  BY <1>1, <1>2 DEF Held, Inserting
<1>6. Cardinality(Late') + (IF wr[w].cleared THEN 1 ELSE 0) <= Cardinality(Late)
  <2>1. CASE wr[w].cleared
    <3>1. Late' = Late \ {w} /\ w \in Late
      BY <1>1, <2>1 DEF Late
    <3>2. Cardinality(Late') = Cardinality(Late) - 1
      BY <3>1, BadgeCountable, FS_RemoveElement
    <3>. QED BY <2>1, <3>2, BadgeCountable
  <2>2. CASE ~wr[w].cleared
    <3>1. Late' = Late
      BY <1>1, <2>2 DEF Late
    <3>. QED BY <2>2, <3>1, BadgeCountable
  <2>. QED BY <2>1, <2>2
<1>. QED BY <1>1, <1>3, <1>4, <1>5, <1>6

LEMMA LoseStep ==
  ASSUME IInv, NEW w \in Writers, Lose(w)
  PROVE  IInv'
<1>1. /\ wr[w].busy /\ wr' = [wr EXCEPT ![w] = Idle]
      /\ faults < MaxFaults /\ faults' = faults + 1
      /\ UNCHANGED <<rows, last, events, written, pruned, due, since>>
  BY DEF Lose
<1>2. TypeOK /\ IdsSound /\ EventsCover /\ EventsCounted /\ StormSound /\ ErrorsOnBadge
      /\ due <= written["error"]
  BY DEF IInv
<1>3. /\ wr'[w] = Idle /\ ~Idle.busy
      /\ \A v \in Writers : v # w => wr'[v] = wr[v]
      /\ wr' \in [Writers -> [busy : BOOLEAN, kind : Kinds, row : 0 .. MaxRows,
                              n : 0 .. MaxEvents, cleared : BOOLEAN]]
      /\ Cardinality(Busy') = Cardinality(Busy) - 1
      /\ Cardinality(Busy) \in Nat /\ Cardinality(Busy) # 0
      /\ \A k \in Kinds : Held(k)' \subseteq Held(k) /\ Inserting(k)' = Inserting(k) \ {w}
      /\ Cardinality(Late') + (IF wr[w].cleared THEN 1 ELSE 0) <= Cardinality(Late)
  BY <1>1, BackToIdle
<1>4. TypeOK'
  <2>1. faults' \in 0 .. MaxFaults
    BY <1>1, <1>2, Bounds DEF TypeOK
  <2>. QED BY <1>1, <1>2, <1>3, <2>1 DEF TypeOK
<1>5. IdsSound' /\ Grow
  BY <1>1, <1>2, Bounds DEF IdsSound, Grow, TypeOK
<1>6. \A v \in Writers : HoldSound(v)'
  BY <1>3, <1>5, HoldKept DEF HoldSound
<1>7. EventsCover'
  <2>1. written["error"] \in Nat /\ written["debug"] \in Nat /\ events \in Nat
    BY <1>2, Bounds DEF TypeOK, Kinds
  <2>. QED BY <1>1, <1>2, <1>3, <2>1 DEF EventsCover
<1>8. EventsCounted' /\ ErrorsOnBadge' /\ (due <= written["error"])'
  BY <1>1, <1>2 DEF EventsCounted, Occurrences, ErrorsOnBadge
<1>9. StormSound'
  <2>1. \A k \in Kinds : Recent(k)' = Recent(k)
    BY <1>1 DEF Recent
  <2>. QED BY <1>2, <1>3, <2>1, StormKeeps DEF StormSound
<1>10. BadgeSound'
  <2>1. since' \in Nat /\ (since <= written["error"])' /\ since' <= since + 0 + 0
    BY <1>1, <1>2, Bounds DEF IInv, TypeOK, BadgeSound
  <2>2. OnBadge' = OnBadge /\ Cardinality(OnBadge) + 0 <= Cardinality(OnBadge')
    BY <1>1, BadgeCountable DEF OnBadge, Occurrences
  <2>3. Cardinality(Late') + 0 <= Cardinality(Late)
    BY <1>3, BadgeCountable
  <2>. QED BY <2>1, <2>2, <2>3, BadgeBalance
<1>. QED BY <1>2, <1>4, <1>5, <1>6, <1>7, <1>8, <1>9, <1>10 DEF IInv

LEMMA WriteStep ==
  ASSUME IInv, NEW w \in Writers, Write(w)
  PROVE  IInv'
<1>. PICK k, i, n : k = wr[w].kind /\ i = wr[w].row /\ n = wr[w].n
  OBVIOUS
<1>1. /\ wr[w].busy /\ Put(i, k, n)
      /\ written' = [written EXCEPT ![k] = @ + 1]
      /\ due' = IF k = "error" /\ ~wr[w].cleared THEN due + 1 ELSE due
      /\ since' = IF k = "error" THEN since + 1 ELSE since
      /\ wr' = [wr EXCEPT ![w] = Idle]
      /\ UNCHANGED <<events, faults, pruned>>
  BY DEF Write
<1>2. TypeOK /\ IdsSound /\ EventsCover /\ EventsCounted /\ StormSound /\ ErrorsOnBadge
      /\ due <= written["error"]
  BY DEF IInv
<1>3. /\ wr'[w] = Idle /\ ~Idle.busy
      /\ \A v \in Writers : v # w => wr'[v] = wr[v]
      /\ wr' \in [Writers -> [busy : BOOLEAN, kind : Kinds, row : 0 .. MaxRows,
                              n : 0 .. MaxEvents, cleared : BOOLEAN]]
      /\ Cardinality(Busy') = Cardinality(Busy) - 1
      /\ Cardinality(Busy) \in Nat /\ Cardinality(Busy) # 0
      /\ \A h \in Kinds : Held(h)' \subseteq Held(h) /\ Inserting(h)' = Inserting(h) \ {w}
      /\ Cardinality(Late') + (IF wr[w].cleared THEN 1 ELSE 0) <= Cardinality(Late)
  BY <1>1, BackToIdle
<1>4. /\ k \in Kinds /\ i \in 0 .. MaxRows /\ i <= last /\ last \in 0 .. MaxRows
      /\ i # 0 /\ rows[i].there => rows[i].kind = k
      /\ i # 0 /\ k = "error" =>
           rows[i].there /\ (~wr[w].cleared => rows[i].open)
  BY <1>1, <1>2 DEF IInv, TypeOK, HoldSound
<1>5. i \in 0 .. last
  BY <1>4, Bounds
<1>6. written[k] < MaxEvents
  <2>1. w \in Busy
    BY <1>1 DEF Busy
  <2>. QED BY <1>4, <2>1, RoomLeft
<1>7. /\ rows' \in [RowIds -> Rows] /\ Grow /\ IdsSound'
      /\ \A h \in Kinds :
           /\ Cardinality(Occurrences(h)') =
                Cardinality(Occurrences(h)) + (IF h = k /\ Puts(i) THEN 1 ELSE 0)
           /\ Recent(h)' \subseteq Recent(h) \cup
                (IF h = k /\ Puts(i) THEN {Target(i)} ELSE {})
      /\ i = 0 \/ (rows[i].there /\ rows[i].open) =>
           \E j \in RowIds : rows'[j].there /\ rows'[j].kind = k /\ rows'[j].open
      /\ Cardinality(OnBadge) <= Cardinality(OnBadge')
      /\ k = "error" /\ (i = 0 \/ (rows[i].there /\ rows[i].open)) =>
           Cardinality(OnBadge) + 1 <= Cardinality(OnBadge')
  BY <1>1, <1>4, <1>5, <1>6, PutParts
<1>8. /\ written \in [Kinds -> Nat] /\ pruned \in [Kinds -> Nat]
      /\ due \in Nat /\ since \in Nat /\ events \in 0 .. MaxEvents
  BY <1>2, Bounds DEF TypeOK
<1>9. /\ written' \in [Kinds -> Nat]
      /\ \A h \in Kinds : written'[h] = written[h] + (IF h = k THEN 1 ELSE 0)
  BY <1>1, <1>4, <1>8
<1>10. EventsCounted'
  <2>1. ASSUME NEW h \in Kinds
        PROVE  /\ Cardinality(Occurrences(h)') + pruned'[h] <= written'[h]
               /\ h = "error" =>
                    Cardinality(Occurrences(h)') + pruned'[h] = written'[h]
    <3>1. /\ Cardinality(Occurrences(h)) + pruned[h] <= written[h]
          /\ h = "error" => Cardinality(Occurrences(h)) + pruned[h] = written[h]
      BY <1>2 DEF EventsCounted
    <3>2. Cardinality(Occurrences(h)) \in Nat /\ pruned[h] \in Nat /\ written[h] \in Nat
      BY <1>8, Countable
    <3>3. h = "error" /\ h = k => Puts(i)
      BY <1>4 DEF Puts
    <3>. QED BY <1>1, <1>7, <1>9, <3>1, <3>2, <3>3
  <2>. QED BY <2>1 DEF EventsCounted, Kinds
<1>11. EventsCover'
  <2>1. /\ written["error"] \in Nat /\ written["debug"] \in Nat /\ events \in Nat
        /\ written'["error"] \in Nat /\ written'["debug"] \in Nat
    BY <1>8, <1>9, Bounds DEF Kinds
  <2>2. written'["error"] + written'["debug"] <= written["error"] + written["debug"] + 1
    BY <1>9, <2>1 DEF Kinds
  <2>. QED BY <1>1, <1>2, <1>3, <2>1, <2>2 DEF EventsCover
<1>12. /\ (due <= written["error"])' /\ due' \in Nat
       /\ (since <= written["error"])' /\ since' \in Nat
  <2>1. since <= written["error"] /\ written["error"] \in Nat
    BY <1>8 DEF IInv, BadgeSound, Kinds
  <2>. QED BY <1>1, <1>2, <1>8, <1>9, <2>1 DEF Kinds
<1>13. StormSound'
  <2>. SUFFICES ASSUME NEW h \in Kinds
                PROVE  Cardinality(Recent(h)' \cup Held(h)') + Cardinality(Inserting(h)')
                         <= Cardinality(Writers) + 1
    BY DEF StormSound
  <2>1. CASE h # k \/ i # 0
    <3>1. Recent(h)' \subseteq Recent(h) \cup Held(h)
      <4>1. h = k /\ Puts(i) => Target(i) \in Held(h)
        <5>1. h = k => i \in RowIds
          BY <1>4, <2>1, Bounds DEF RowIds
        <5>. QED BY <1>1, <2>1, <5>1 DEF Target, Held, Busy
      <4>. QED BY <1>7, <4>1
    <3>. QED BY <1>2, <1>3, <3>1, StormKeeps
  <2>2. CASE h = k /\ i = 0
    <3>. DEFINE S == Recent(h) \cup Held(h)
                T == Recent(h)' \cup Held(h)'
    <3>. PICK a, b : a = Cardinality(S) /\ b = Cardinality(Inserting(h))
      OBVIOUS
    <3>1. T \in SUBSET (S \cup {last + 1})
      BY <1>3, <1>7, <2>2 DEF Target
    <3>2. /\ IsFiniteSet(S) /\ IsFiniteSet(Inserting(h)) /\ a \in Nat /\ b \in Nat
          /\ a + b <= Cardinality(Writers) + 1
      BY <1>2, StormBound DEF StormSound
    <3>3. w \in Inserting(h)
      BY <1>1, <2>2 DEF Inserting, Busy
    <3>4. Cardinality(Inserting(h)') = b - 1
      BY <1>3, <3>2, <3>3, FS_RemoveElement
    <3>. HIDE DEF S, T
    <3>5. /\ IsFiniteSet(S \cup {last + 1})
          /\ Cardinality(S \cup {last + 1}) = IF last + 1 \in S THEN a ELSE a + 1
      BY <3>2, FS_AddElement, Zenon
    <3>6. /\ Cardinality(S \cup {last + 1}) <= a + 1
          /\ Cardinality(S \cup {last + 1}) \in Nat
      BY <3>2, <3>5
    <3>7. Cardinality(T) <= Cardinality(S \cup {last + 1}) /\ Cardinality(T) \in Nat
      BY <3>1, <3>5, FS_Subset, FS_CardinalityType
    <3>8. Cardinality(T) + Cardinality(Inserting(h)') <= Cardinality(Writers) + 1
      BY <3>2, <3>4, <3>6, <3>7, Bounds
    <3>. QED BY <3>8 DEF T
  <2>. QED BY <2>1, <2>2
<1>14. ErrorsOnBadge'
  <2>1. CASE k = "error" /\ ~wr[w].cleared
    BY <1>4, <1>7, <2>1 DEF ErrorsOnBadge
  <2>2. CASE ~(k = "error" /\ ~wr[w].cleared)
    BY <1>1, <1>2, <1>7, <2>2, BadgeKept DEF ErrorsOnBadge
  <2>. QED BY <2>1, <2>2
<1>15. \A v \in Writers : HoldSound(v)'
  BY <1>3, <1>7, HoldKept DEF HoldSound
<1>16. TypeOK'
  <2>1. pruned' \in [Kinds -> Nat] /\ events' \in 0 .. MaxEvents
    BY <1>1, <1>8
  <2>2. /\ written' \in [Kinds -> 0 .. MaxEvents] /\ pruned' \in [Kinds -> 0 .. MaxEvents]
        /\ due' \in 0 .. MaxEvents /\ since' \in 0 .. MaxEvents
    BY <1>9, <1>10, <1>11, <1>12, <2>1, CountTypes
  <2>. QED BY <1>1, <1>2, <1>3, <1>7, <2>2 DEF TypeOK, Grow
<1>17. BadgeSound'
  <2>1. CASE k = "error" /\ ~wr[w].cleared
    <3>1. since' <= since + 1 + 0
      BY <1>1, <1>8, <2>1
    <3>2. Cardinality(OnBadge) + 1 <= Cardinality(OnBadge')
      BY <1>4, <1>7, <2>1
    <3>3. Cardinality(Late') + 0 <= Cardinality(Late)
      BY <1>3, <2>1
    <3>. QED BY <1>12, <3>1, <3>2, <3>3, BadgeBalance
  <2>2. CASE k = "error" /\ wr[w].cleared
    <3>1. since' <= since + 0 + 1
      BY <1>1, <1>8, <2>2
    <3>2. Cardinality(OnBadge) + 0 <= Cardinality(OnBadge')
      BY <1>7, BadgeCountable
    <3>3. Cardinality(Late') + 1 <= Cardinality(Late)
      BY <1>3, <2>2
    <3>. QED BY <1>12, <3>1, <3>2, <3>3, BadgeBalance
  <2>3. CASE k # "error"
    <3>1. since' <= since + 0 + 0
      BY <1>1, <1>8, <2>3
    <3>2. Cardinality(OnBadge) + 0 <= Cardinality(OnBadge')
      BY <1>7, BadgeCountable
    <3>3. Cardinality(Late') + 0 <= Cardinality(Late)
      BY <1>3, BadgeCountable
    <3>. QED BY <1>12, <3>1, <3>2, <3>3, BadgeBalance
  <2>. QED BY <2>1, <2>2, <2>3
<1>. QED BY <1>7, <1>10, <1>11, <1>12, <1>13, <1>14, <1>15, <1>16, <1>17 DEF IInv

LEMMA ResolveStep ==
  ASSUME IInv, Resolve
  PROVE  IInv'
<1>1. /\ rows' = [i \in RowIds |->
           IF rows[i].there /\ rows[i].kind = "error"
           THEN [rows[i] EXCEPT !.open = FALSE] ELSE rows[i]]
      /\ due' = 0 /\ since' = 0
      /\ wr' = [w \in Writers |-> IF wr[w].busy THEN [wr[w] EXCEPT !.cleared = TRUE]
                                  ELSE wr[w]]
      /\ UNCHANGED <<last, events, faults, written, pruned>>
  BY DEF Resolve
<1>2. TypeOK /\ IdsSound /\ EventsCover /\ EventsCounted /\ StormSound /\ ErrorsOnBadge
  BY DEF IInv
<1>3. /\ rows' \in [RowIds -> Rows]
      /\ \A i \in RowIds :
           /\ rows'[i].there = rows[i].there /\ rows'[i].kind = rows[i].kind
           /\ rows'[i].age = rows[i].age /\ rows'[i].n = rows[i].n
           /\ rows'[i].open => rows[i].open
  <2>1. \A i \in RowIds : rows[i] \in Rows
    BY <1>2 DEF TypeOK
  <2>. QED BY <1>1, <2>1 DEF Rows
<1>4. /\ wr' \in [Writers -> [busy : BOOLEAN, kind : Kinds, row : 0 .. MaxRows,
                              n : 0 .. MaxEvents, cleared : BOOLEAN]]
      /\ \A w \in Writers :
           /\ wr'[w].busy = wr[w].busy /\ wr'[w].kind = wr[w].kind
           /\ wr'[w].row = wr[w].row /\ (wr[w].busy => wr'[w].cleared)
  <2>1. \A w \in Writers :
          wr[w] \in [busy : BOOLEAN, kind : Kinds, row : 0 .. MaxRows,
                     n : 0 .. MaxEvents, cleared : BOOLEAN]
    BY <1>2 DEF TypeOK
  <2>. QED BY <1>1, <2>1
<1>5. TypeOK'
  BY <1>1, <1>2, <1>3, <1>4, Bounds DEF TypeOK
<1>6. IdsSound' /\ ErrorsOnBadge'
  BY <1>1, <1>2, <1>3 DEF IdsSound, ErrorsOnBadge
<1>7. ASSUME NEW w \in Writers PROVE HoldSound(w)'
  <2>1. HoldSound(w) /\ wr[w].row \in 0 .. MaxRows
    BY <1>2, <1>7 DEF IInv, TypeOK
  <2>2. wr[w].row # 0 => wr[w].row \in RowIds
    BY <2>1, Bounds DEF RowIds
  <2>. QED BY <1>1, <1>3, <1>4, <2>1, <2>2 DEF HoldSound
<1>8. \A k \in Kinds :
        /\ Occurrences(k)' = Occurrences(k)
        /\ Recent(k)' \subseteq Recent(k)
        /\ Held(k)' = Held(k) /\ Inserting(k)' = Inserting(k)
  BY <1>3, <1>4 DEF Occurrences, Recent, Held, Inserting, Busy
<1>9. Busy' = Busy
  BY <1>4 DEF Busy
<1>10. EventsCounted' /\ EventsCover'
  <2>1. /\ \A k \in Kinds : Cardinality(Occurrences(k)') = Cardinality(Occurrences(k))
        /\ Cardinality(Occurrences("error")') = Cardinality(Occurrences("error"))
    BY <1>8 DEF Kinds
  <2>. QED BY <1>1, <1>2, <1>9, <2>1 DEF EventsCounted, EventsCover
<1>11. (due <= written["error"])'
  BY <1>1, <1>2, Bounds DEF TypeOK, Kinds
<1>12. StormSound'
  BY <1>2, <1>8, StormKeeps DEF StormSound
<1>13. BadgeSound'
  <2>1. since' = 0 /\ written'["error"] \in Nat
    BY <1>1, <1>2, Bounds DEF TypeOK, Kinds
  <2>2. Cardinality(Late') <= Cardinality(Writers)
    BY BadgeCountable
  <2>. QED BY <2>1, <2>2, BadgeCountable, Bounds DEF BadgeSound
<1>. QED BY <1>5, <1>6, <1>7, <1>10, <1>11, <1>12, <1>13 DEF IInv

LEMMA AgeStep ==
  ASSUME IInv, NEW i \in RowIds, Age(i)
  PROVE  IInv'
<1>1. /\ rows' = [rows EXCEPT ![i].age = IF @ = "window" THEN "older" ELSE "expired"]
      /\ rows[i].age # "expired"
      /\ rows[i].age = "older" => \A w \in Writers : wr[w].busy => wr[w].row # i
      /\ UNCHANGED <<last, wr, events, faults, written, pruned, due, since>>
  BY DEF Age
<1>2. TypeOK /\ IdsSound /\ EventsCover /\ EventsCounted /\ StormSound /\ ErrorsOnBadge
  BY DEF IInv
<1>3. /\ rows' \in [RowIds -> Rows]
      /\ \A j \in RowIds :
           /\ rows'[j].there = rows[j].there /\ rows'[j].kind = rows[j].kind
           /\ rows'[j].open = rows[j].open /\ rows'[j].n = rows[j].n
           /\ rows'[j].age = "window" => rows[j].age = "window"
           /\ j # i => rows'[j].age = rows[j].age
  <2>1. rows \in [RowIds -> Rows]
    BY <1>2 DEF TypeOK
  <2>. QED BY <1>1, <2>1 DEF Rows, Ages
<1>4. TypeOK' /\ IdsSound' /\ ErrorsOnBadge'
  BY <1>1, <1>2, <1>3 DEF TypeOK, IdsSound, ErrorsOnBadge
<1>5. rows[i].age = "window" => rows'[i].age # "expired"
  BY <1>1, <1>2 DEF TypeOK
<1>6. ASSUME NEW w \in Writers PROVE HoldSound(w)'
  <2>1. HoldSound(w) /\ wr[w].row \in 0 .. MaxRows /\ wr'[w] = wr[w] /\ last' = last
    BY <1>1, <1>2 DEF IInv, TypeOK
  <2>2. wr[w].row # 0 => wr[w].row \in RowIds
    BY <2>1, Bounds DEF RowIds
  <2>3. wr[w].busy /\ wr[w].row = i => rows[i].age = "window"
    BY <1>1, <1>2, <1>6 DEF TypeOK, Rows, Ages
  <2>. QED BY <1>3, <1>5, <2>1, <2>2, <2>3 DEF HoldSound
<1>7. \A k \in Kinds :
        /\ Occurrences(k)' = Occurrences(k)
        /\ Recent(k)' \subseteq Recent(k)
        /\ Held(k)' = Held(k) /\ Inserting(k)' = Inserting(k)
  BY <1>1, <1>3 DEF Occurrences, Recent, Held, Inserting, Busy
<1>8. EventsCounted' /\ EventsCover' /\ (due <= written["error"])'
  <2>1. /\ \A k \in Kinds : Cardinality(Occurrences(k)') = Cardinality(Occurrences(k))
        /\ Cardinality(Occurrences("error")') = Cardinality(Occurrences("error"))
    BY <1>7 DEF Kinds
  <2>. QED BY <1>1, <1>2, <2>1 DEF EventsCounted, EventsCover, Busy, IInv
<1>9. StormSound'
  BY <1>2, <1>7, StormKeeps DEF StormSound
<1>10. BadgeSound'
  <2>1. Late' = Late
    BY <1>1 DEF Late
  <2>2. OnBadge' = OnBadge
    BY <1>3, <1>7 DEF OnBadge, Occurrences, Kinds
  <2>. QED BY <1>1, <2>1, <2>2 DEF IInv, BadgeSound
<1>. QED BY <1>4, <1>6, <1>8, <1>9, <1>10 DEF IInv

\* What a trim takes away, it has counted.
LEMMA PruneKeeps ==
  ASSUME IInv, Prune
  PROVE  IInv'
<1>. PICK T \in SUBSET (DebugRows \ Prunable) :
       LET gone == Prunable \cup T
           count(k) == {e \in gone \X (1 .. MaxEvents) :
                          rows[e[1]].kind = k /\ e[2] <= rows[e[1]].n}
       IN /\ rows' = [i \in RowIds |-> IF i \in gone THEN NoRow ELSE rows[i]]
          /\ pruned' = [k \in Kinds |-> pruned[k] + Cardinality(count(k))]
  BY DEF Prune
<1>. DEFINE gone == Prunable \cup T
            count(k) == {e \in gone \X (1 .. MaxEvents) :
                           rows[e[1]].kind = k /\ e[2] <= rows[e[1]].n}
<1>1. UNCHANGED <<last, wr, events, faults, written, due, since>>
  BY DEF Prune
<1>2. TypeOK /\ IdsSound /\ EventsCover /\ EventsCounted /\ StormSound /\ ErrorsOnBadge
      /\ due <= written["error"]
  BY DEF IInv
<1>3. \A i \in gone :
        /\ i \in RowIds /\ rows[i].there
        /\ rows[i].kind = "error" => ~rows[i].open /\ rows[i].age = "expired"
  BY DEF Prunable, DebugRows
<1>4. /\ rows' \in [RowIds -> Rows]
      /\ \A i \in RowIds : i \in gone => rows'[i] = NoRow
      /\ \A i \in RowIds : i \notin gone => rows'[i] = rows[i]
  BY <1>2, NoRowType DEF TypeOK
<1>5. \A k \in Kinds :
        Cardinality(Occurrences(k)') + Cardinality(count(k)) = Cardinality(Occurrences(k))
  <2>. SUFFICES ASSUME NEW k \in Kinds
                PROVE  Cardinality(Occurrences(k)') + Cardinality(count(k)) =
                         Cardinality(Occurrences(k))
    OBVIOUS
  <2>. PICK C : C = count(k)
    OBVIOUS
  <2>1. \A j \in RowIds, m \in 1 .. MaxEvents :
          <<j, m>> \in Occurrences(k) <=> <<j, m>> \in Occurrences(k)' \cup C
    <3>. SUFFICES ASSUME NEW j \in RowIds, NEW m \in 1 .. MaxEvents
                  PROVE  <<j, m>> \in Occurrences(k) <=>
                           <<j, m>> \in Occurrences(k)' \/ <<j, m>> \in C
      OBVIOUS
    <3>1. CASE j \in gone
      BY <1>3, <1>4, <3>1, NoRowType DEF Occurrences
    <3>2. CASE j \notin gone
      BY <1>4, <3>2 DEF Occurrences
    <3>. QED BY <3>1, <3>2
  <2>2. /\ Occurrences(k) \in SUBSET (RowIds \X (1 .. MaxEvents))
        /\ Occurrences(k)' \in SUBSET (RowIds \X (1 .. MaxEvents))
        /\ C \in SUBSET (RowIds \X (1 .. MaxEvents))
    BY <1>3 DEF Occurrences
  <2>3. Occurrences(k)' \cup C = Occurrences(k)
    BY <2>1, <2>2
  <2>4. Occurrences(k)' \cap C = {}
    <3>1. \A e \in C : e[1] \in gone /\ e[1] \in RowIds
      BY <1>3
    <3>2. \A e \in Occurrences(k)' : e[1] \in RowIds /\ rows'[e[1]].there
      BY DEF Occurrences
    <3>. QED BY <1>4, <3>1, <3>2, NoRowType
  <2>5. IsFiniteSet(Occurrences(k)') /\ IsFiniteSet(C)
    BY <2>2, Finite
  <2>6. Cardinality(Occurrences(k)) =
          Cardinality(Occurrences(k)') + Cardinality(C) - Cardinality({})
    BY <2>3, <2>4, <2>5, FS_Union
  <2>7. Cardinality(C) \in Nat /\ Cardinality(Occurrences(k)') \in Nat
    BY <2>2, Finite
  <2>. QED BY <2>6, <2>7, FS_EmptySet
<1>6. \A k \in Kinds : Cardinality(count(k)) \in Nat
  <2>1. \A k \in Kinds : count(k) \in SUBSET (RowIds \X (1 .. MaxEvents))
    BY <1>3
  <2>. QED BY <2>1, Finite
<1>7. \A k \in Kinds : pruned'[k] = pruned[k] + Cardinality(count(k))
  OBVIOUS
<1>8. pruned' \in [Kinds -> Nat]
  <2>1. \A k \in Kinds : pruned[k] + Cardinality(count(k)) \in Nat
    BY <1>2, <1>6, Bounds DEF TypeOK
  <2>. QED BY <2>1
<1>. HIDE DEF count
<1>9. EventsCounted'
  <2>1. ASSUME NEW k \in Kinds
        PROVE  /\ Cardinality(Occurrences(k)') + pruned'[k] <= written[k]
               /\ k = "error" =>
                    Cardinality(Occurrences(k)') + pruned'[k] = written[k]
    <3>1. /\ Cardinality(Occurrences(k)) + pruned[k] <= written[k]
          /\ k = "error" => Cardinality(Occurrences(k)) + pruned[k] = written[k]
          /\ pruned[k] \in Nat /\ written[k] \in Nat
      BY <1>2, Bounds DEF EventsCounted, TypeOK
    <3>. QED BY <1>5, <1>6, <1>7, <3>1, Countable
  <2>. QED BY <1>1, <2>1 DEF EventsCounted, Kinds
<1>10. EventsCover' /\ (due <= written["error"])'
  BY <1>1, <1>2 DEF EventsCover, Busy
<1>11. TypeOK'
  <2>1. /\ events' \in 0 .. MaxEvents /\ due' \in Nat /\ written' \in [Kinds -> Nat]
        /\ since' \in Nat /\ (since <= written["error"])'
    BY <1>1, <1>2, Bounds DEF TypeOK, IInv, BadgeSound
  <2>2. pruned' \in [Kinds -> 0 .. MaxEvents]
    BY <1>8, <1>9, <1>10, <2>1, CountTypes
  <2>. QED BY <1>1, <1>2, <1>4, <2>2 DEF TypeOK
<1>12. IdsSound'
  BY <1>1, <1>2, <1>4, NoRowType DEF IdsSound
<1>13. ErrorsOnBadge'
  <2>1. \A i \in RowIds : rows[i].there /\ rows[i].kind = "error" /\ rows[i].open
          => rows'[i] = rows[i]
    BY <1>3, <1>4
  <2>. QED BY <1>1, <1>2, <2>1 DEF ErrorsOnBadge
<1>14. ASSUME NEW w \in Writers PROVE HoldSound(w)'
  <2>1. HoldSound(w) /\ wr[w].row \in 0 .. MaxRows /\ wr'[w] = wr[w] /\ last' = last
    BY <1>1, <1>2 DEF IInv, TypeOK
  <2>2. wr[w].row # 0 => wr[w].row \in RowIds
    BY <2>1, Bounds DEF RowIds
  <2>3. wr[w].row # 0 /\ rows'[wr[w].row].there => rows'[wr[w].row] = rows[wr[w].row]
    BY <1>4, <2>2, NoRowType
  <2>4. wr[w].busy /\ wr[w].row # 0 /\ wr[w].kind = "error" =>
          rows'[wr[w].row] = rows[wr[w].row]
    BY <1>3, <1>4, <2>1, <2>2 DEF HoldSound
  <2>. QED BY <2>1, <2>3, <2>4 DEF HoldSound
<1>15. StormSound'
  <2>1. \A k \in Kinds :
          /\ Recent(k)' \subseteq Recent(k)
          /\ Held(k)' = Held(k) /\ Inserting(k)' = Inserting(k)
    BY <1>1, <1>4, NoRowType DEF Recent, Held, Inserting, Busy
  <2>. QED BY <1>2, <2>1, StormKeeps DEF StormSound
<1>16. BadgeSound'
  <2>1. Cardinality(Late') + 0 <= Cardinality(Late)
    <3>1. Late' = Late
      BY <1>1 DEF Late
    <3>. QED BY <3>1, BadgeCountable
  <2>2. OnBadge \in SUBSET OnBadge'
    <3>. SUFFICES ASSUME NEW j \in RowIds, NEW m \in 1 .. MaxEvents, <<j, m>> \in OnBadge
                  PROVE  <<j, m>> \in OnBadge'
      BY DEF OnBadge, Occurrences
    <3>1. rows'[j] = rows[j]
      BY <1>3, <1>4 DEF OnBadge, Occurrences
    <3>. QED BY <3>1 DEF OnBadge, Occurrences
  <2>3. Cardinality(OnBadge) + 0 <= Cardinality(OnBadge')
    BY <2>2, BadgeCountable, FS_Subset
  <2>4. since' \in Nat /\ (since <= written["error"])' /\ since' <= since + 0 + 0
    BY <1>1, <1>2, Bounds DEF TypeOK, IInv, BadgeSound
  <2>. QED BY <2>1, <2>3, <2>4, BadgeBalance
<1>. QED BY <1>9, <1>10, <1>11, <1>12, <1>13, <1>14, <1>15, <1>16 DEF IInv

LEMMA InitIInv == Init => IInv
<1>. SUFFICES ASSUME Init PROVE IInv
  OBVIOUS
<1>1. /\ rows = [i \in RowIds |-> NoRow] /\ last = 0
      /\ wr = [w \in Writers |-> Idle]
      /\ events = 0 /\ faults = 0 /\ due = 0 /\ since = 0
      /\ written = [k \in Kinds |-> 0] /\ pruned = [k \in Kinds |-> 0]
  BY DEF Init
<1>2. TypeOK
  BY <1>1, Bounds, NoRowType DEF TypeOK, Idle, Kinds
<1>3. IdsSound /\ \A w \in Writers : HoldSound(w)
  BY <1>1, NoRowType DEF IdsSound, HoldSound, Idle
<1>4. Busy = {} /\ \A k \in Kinds : Recent(k) = {} /\ Held(k) = {} /\ Inserting(k) = {}
  BY <1>1, NoRowType DEF Busy, Recent, Held, Inserting, Idle
<1>5. EventsCover /\ due <= written["error"] /\ ErrorsOnBadge
  BY <1>1, <1>4, FS_EmptySet DEF EventsCover, ErrorsOnBadge, Kinds
<1>6. EventsCounted /\ BadgeSound
  <2>1. /\ \A k \in Kinds : Occurrences(k) = {}
        /\ Occurrences("error") = {} /\ OnBadge = {}
    BY <1>1, NoRowType DEF Occurrences, OnBadge
  <2>2. Late = {}
    BY <1>4 DEF Late, Busy
  <2>3. EventsCounted
    BY <1>1, <2>1, FS_EmptySet DEF EventsCounted, Kinds
  <2>4. Cardinality(Late) = 0 /\ Cardinality(OnBadge) = 0 /\ since = 0
        /\ written["error"] = 0
    BY <1>1, <2>1, <2>2, FS_EmptySet DEF Kinds
  <2>. QED BY <2>3, <2>4, Bounds DEF BadgeSound
<1>7. StormSound
  <2>1. \A k \in Kinds : Recent(k) \cup Held(k) = {}
    BY <1>4
  <2>2. 0 + 0 <= Cardinality(Writers) + 1
    BY Bounds
  <2>. QED BY <1>4, <2>1, <2>2, FS_EmptySet, Zenon DEF StormSound
<1>. QED BY <1>2, <1>3, <1>5, <1>6, <1>7 DEF IInv

LEMMA Invariance == Spec => []IInv
<1>1. IInv /\ [Next]_vars => IInv'
  <2>. SUFFICES ASSUME IInv, [Next]_vars PROVE IInv'
    OBVIOUS
  <2>1. CASE UNCHANGED vars
    BY <2>1 DEF vars, IInv, TypeOK, IdsSound, HoldSound, EventsCover, Busy, EventsCounted,
                Occurrences, StormSound, Recent, Held, Inserting, ErrorsOnBadge,
                BadgeSound, OnBadge, Late
  <2>2. CASE \E k \in Kinds : Log(k)
    BY <2>2, LogStep
  <2>3. CASE \E w \in Writers, k \in Kinds : Look(w, k)
    BY <2>3, LookStep
  <2>4. CASE \E w \in Writers : Write(w) \/ Lose(w)
    BY <2>4, WriteStep, LoseStep
  <2>5. CASE Resolve \/ Prune
    BY <2>5, ResolveStep, PruneKeeps
  <2>6. CASE \E i \in RowIds : Age(i)
    BY <2>6, AgeStep
  <2>. QED BY <2>1, <2>2, <2>3, <2>4, <2>5, <2>6 DEF Next
<1>. QED BY <1>1, InitIInv, PTL DEF Spec

-----------------------------------------------------------------------------
(* What the log promises.                                                  *)

\* Every variable has its type, however the writers interleave: no count passes
\* the events there were (log_event, logs.py).
THEOREM TypeCorrect == Spec => []TypeOK
BY Invariance, PTL DEF IInv

\* The occurrences on record and those that were pruned are all the errors that
\* were written, with writers between their look and their write, and no more than
\* the events (log_event and prune_event_log, logs.py).
THEOREM CountedAlways == Spec => []EventsCounted
BY Invariance, PTL DEF IInv

\* However many events of a kind come, the rows within the window are at most one
\* more than the writers that look and write apart (log_event, logs.py).
THEOREM StormBounded == Spec => []StormIsBounded
<1>1. IInv => StormIsBounded
  <2>. SUFFICES ASSUME IInv, NEW k \in Kinds
                PROVE  Cardinality(Recent(k)) <= Cardinality(Writers) + 1
    BY DEF StormIsBounded
  <2>1. Recent(k) \in SUBSET (Recent(k) \cup Held(k))
    OBVIOUS
  <2>. PICK a, b, c : /\ a = Cardinality(Recent(k)) /\ b = Cardinality(Inserting(k))
                      /\ c = Cardinality(Recent(k) \cup Held(k))
    OBVIOUS
  <2>2. a <= c /\ a \in Nat /\ b \in Nat /\ c \in Nat
    BY <2>1, StormBound, FS_Subset, FS_CardinalityType
  <2>3. c + b <= Cardinality(Writers) + 1
    BY DEF IInv, StormSound
  <2>4. a <= Cardinality(Writers) + 1
    BY <2>2, <2>3, Bounds
  <2>. QED BY <2>4
<1>. QED BY <1>1, Invariance, PTL

\* An error logged since the badge was cleared is on the badge (log_event and
\* trg_job_success): it can be bumped, aged and trimmed around, but not lost.
THEOREM BadgeHolds == Spec => []ErrorsOnBadge
BY Invariance, PTL DEF IInv

\* Of the errors written since the badge was cleared it shows all but one for each
\* writer that had looked before (log_event, logs.py, against the endpoint that
\* dismisses an account's errors).
THEOREM BadgeShort == Spec => []BadgeMissesFew
<1>1. IInv => BadgeMissesFew
  <2>. SUFFICES ASSUME IInv
                PROVE  since <= Cardinality(OnBadge) + Cardinality(Writers)
    BY DEF BadgeMissesFew
  <2>. PICK a, b : a = Cardinality(Late) /\ b = Cardinality(OnBadge)
    OBVIOUS
  <2>1. since + a <= b + Cardinality(Writers) /\ since \in Nat
    BY Bounds DEF IInv, TypeOK, BadgeSound
  <2>. QED BY <2>1, BadgeCountable, Bounds
<1>. QED BY <1>1, Invariance, PTL
=============================================================================
