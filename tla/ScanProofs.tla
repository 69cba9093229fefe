------------------------------ MODULE ScanProofs ------------------------------
(***************************************************************************)
(* Proofs that the audit of a file, row by row, comes to the report the    *)
(* file as a whole deserves, and that the script that audits a download    *)
(* comes to the same verdict wherever BigInt reads the ids: for files of   *)
(* any length and content.                                                 *)
(***************************************************************************)
EXTENDS ExportFile, CsvProofs, FiniteSetTheorems, TLAPS

ScanIInv == ScanInv /\ file \in Files

(* The rows of a file, and the ids of its data rows.                        *)
LEMMA RowTypes ==
    ASSUME file \in Files
    PROVE  /\ file.rows \in Seq(Seq(Texts) \ {<<>>})
           /\ Len(file.rows) \in Nat
           /\ \A i \in 1 .. Len(file.rows) :
                 Len(file.rows[i]) = Len(Header) =>
                     file.rows[i][1] \in Texts /\ IdOf(i) \in Nat \cup {NotANumber}
<1>1. file.rows \in Seq(Seq(Texts) \ {<<>>})
  BY ScanAssumption
<1>2. ASSUME NEW i \in 1 .. Len(file.rows), Len(file.rows[i]) = Len(Header)
      PROVE  file.rows[i][1] \in Texts
  <2>1. file.rows[i] \in Seq(Texts) /\ Len(file.rows[i]) \in Nat \ {0}
    BY <1>1, <1>2, ScanAssumption
  <2>. QED
    BY <2>1
<1>. QED
  BY <1>1, <1>2, ScanAssumption DEF IdOf

LEMMA ReadIsFinite ==
    ASSUME rowIndex \in Nat
    PROVE  IsFiniteSet(DataRead) /\ IsFiniteSet(NumericRead)
<1>1. IsFiniteSet(2 .. rowIndex)
  BY FS_Interval
<1>2. DataRead \subseteq 2 .. rowIndex /\ NumericRead \subseteq 2 .. rowIndex
  BY DEF DataRead, NumericRead
<1>. QED
  BY <1>1, <1>2, FS_Subset

(* Adding to a finite set.                                                  *)
LEMMA OneMore ==
    ASSUME NEW S, IsFiniteSet(S), NEW x, x \notin S
    PROVE  /\ IsFiniteSet(S \cup {x})
           /\ Cardinality(S) \in Nat
           /\ Cardinality(S \cup {x}) = Cardinality(S) + 1
BY FS_AddElement, FS_CardinalityType, Zenon

-----------------------------------------------------------------------------
(* What reading one more row adds to the sets the counters stand for.       *)
Next1 == rowIndex + 1

LEMMA OneRowRead ==
    ASSUME ScanIInv, pc = "rows", RowsLeft, rowIndex' = rowIndex + 1, UNCHANGED file
    PROVE  /\ rowIndex \in Nat \ {0} /\ Next1 \in 1 .. Len(file.rows) /\ Row = file.rows[Next1]
           /\ 2 .. rowIndex' = (2 .. rowIndex) \cup {Next1}
           /\ Next1 \notin 2 .. rowIndex
           /\ DataRead' = IF Len(Row) = Len(Header) THEN DataRead \cup {Next1} ELSE DataRead
           /\ NumericRead' = IF Len(Row) = Len(Header) /\ IdOf(Next1) # NotANumber
                             THEN NumericRead \cup {Next1} ELSE NumericRead
           /\ \A i : IdOf(i)' = IdOf(i)
<1>1. /\ rowIndex \in Nat \ {0} /\ Next1 \in 1 .. Len(file.rows) /\ Row = file.rows[Next1]
      /\ 2 .. rowIndex' = (2 .. rowIndex) \cup {Next1}
      /\ Next1 \notin 2 .. rowIndex
  BY RowTypes DEF ScanIInv, ScanInv, ScanTypeOK, ScanBegan, RowsLeft, Next1, Row
<1>2. DataRead' = IF Len(Row) = Len(Header) THEN DataRead \cup {Next1} ELSE DataRead
  BY <1>1 DEF DataRead
<1>3. \A i : IdOf(i)' = IdOf(i)
  BY DEF IdOf
<1>4. NumericRead' = IF Len(Row) = Len(Header) /\ IdOf(Next1) # NotANumber
                     THEN NumericRead \cup {Next1} ELSE NumericRead
  BY <1>2, <1>3 DEF NumericRead
<1>. QED
  BY <1>1, <1>2, <1>3, <1>4

LEMMA ReadRange ==
    ASSUME ScanIInv
    PROVE  /\ rowIndex \in Nat
           /\ NumericRead \subseteq DataRead /\ DataRead \subseteq 2 .. rowIndex
           /\ DataRead \subseteq 1 .. Len(file.rows)
           /\ \A i \in NumericRead : IdOf(i) \in Nat
           /\ \A i \in DataRead : file.rows[i][1] \in Texts
BY RowTypes DEF ScanIInv, ScanInv, ScanTypeOK, DataRead, NumericRead

LEMMA SkippedRow ==
    ASSUME ScanIInv, SkipMalformed
    PROVE  ScanIInv'
<1>1. pc = "rows" /\ RowsLeft /\ rowIndex' = rowIndex + 1 /\ UNCHANGED file
      /\ malformedRows' = malformedRows + 1 /\ Len(Row) # Len(Header)
  BY DEF SkipMalformed
<1>2. /\ DataRead' = DataRead /\ NumericRead' = NumericRead
      /\ 2 .. rowIndex' = (2 .. rowIndex) \cup {Next1} /\ Next1 \notin 2 .. rowIndex
      /\ \A i : IdOf(i)' = IdOf(i)
      /\ rowIndex' \in 1 .. Len(file.rows)
  BY <1>1, OneRowRead DEF Next1
<1>3. NumericRead' # 2 .. rowIndex' /\ malformedRows' # 0 /\ malformedRows' \in Nat
  BY <1>1, <1>2, ReadRange DEF ScanIInv, ScanInv, ScanTypeOK
<1>4. RowsAreCounted'
  BY <1>1, <1>2, <1>3 DEF ScanIInv, ScanInv, RowsAreCounted, SkipMalformed
<1>5. IdsAreOrdered' /\ IdsAreBounded'
  BY <1>1, <1>2, <1>3 DEF ScanIInv, ScanInv, IdsAreOrdered, IdsAreBounded, SkipMalformed
<1>6. ScanTypeOK' /\ ScanBegan' /\ IsFiniteSet(seenIds')
  BY <1>1, <1>2, <1>3 DEF ScanIInv, ScanInv, ScanTypeOK, ScanBegan, SkipMalformed
<1>. QED
  BY <1>1, <1>4, <1>5, <1>6 DEF ScanIInv, ScanInv

-----------------------------------------------------------------------------
(* What every data row does, numeric or not.                                *)
LEMMA CountedRow ==
    ASSUME ScanIInv, CountRow
    PROVE  /\ DataRead' = DataRead \cup {Next1} /\ Next1 \notin DataRead
           /\ actualRows' = Cardinality(DataRead')
           /\ seenIds' = {file.rows[i][1] : i \in DataRead'}
           /\ IsFiniteSet(seenIds') /\ seenIds' \subseteq Texts
           /\ actualRows' \in Nat /\ duplicates' \in Nat
           /\ actualRows' = Cardinality(seenIds') + duplicates'
<1>a. pc = "rows" /\ RowsLeft /\ rowIndex' = rowIndex + 1 /\ UNCHANGED file
      /\ Len(Row) = Len(Header)
  BY DEF CountRow
<1>b. /\ IsFiniteSet(seenIds) /\ seenIds \subseteq Texts
      /\ actualRows \in Nat /\ duplicates \in Nat
      /\ actualRows = Cardinality(seenIds) + duplicates
      /\ actualRows = Cardinality(DataRead)
      /\ seenIds = {file.rows[i][1] : i \in DataRead}
  BY DEF ScanIInv, ScanInv, ScanTypeOK, RowsAreCounted
<1>1. /\ DataRead' = DataRead \cup {Next1} /\ Next1 \notin DataRead
      /\ Row = file.rows[Next1] /\ Row[1] \in Texts
  BY <1>a, OneRowRead, ReadRange, RowTypes DEF ScanIInv
<1>2. actualRows' = Cardinality(DataRead')
  <2>1. Cardinality(DataRead') = Cardinality(DataRead) + 1
    BY <1>1, ReadRange, ReadIsFinite, OneMore
  <2>. QED
    BY <1>b, <2>1 DEF CountRow
<1>3. seenIds' = {file.rows[i][1] : i \in DataRead'}
  BY <1>b, <1>1 DEF CountRow
<1>4. /\ IsFiniteSet(seenIds') /\ seenIds' \subseteq Texts
      /\ actualRows' \in Nat /\ duplicates' \in Nat
      /\ actualRows' = Cardinality(seenIds') + duplicates'
  <2>1. CASE Row[1] \in seenIds
    <3>1. seenIds' = seenIds /\ duplicates' = duplicates + 1 /\ actualRows' = actualRows + 1
      BY <2>1 DEF CountRow
    <3>2. Cardinality(seenIds) \in Nat
      BY <1>b, FS_CardinalityType
    <3>. QED
      BY <1>b, <3>1, <3>2
  <2>2. CASE Row[1] \notin seenIds
    <3>1. /\ seenIds' = seenIds \cup {Row[1]} /\ duplicates' = duplicates + 0
          /\ actualRows' = actualRows + 1
      BY <2>2 DEF CountRow
    <3>2. /\ IsFiniteSet(seenIds') /\ Cardinality(seenIds) \in Nat
          /\ Cardinality(seenIds') = Cardinality(seenIds) + 1
      BY <1>b, <2>2, <3>1, OneMore
    <3>. QED
      BY <1>b, <1>1, <3>1, <3>2
  <2>. QED
    BY <2>1, <2>2
<1>. QED
  BY <1>1, <1>2, <1>3, <1>4

LEMMA NonNumericRow ==
    ASSUME ScanIInv, CountNonNumeric
    PROVE  ScanIInv'
<1>1. pc = "rows" /\ RowsLeft /\ rowIndex' = rowIndex + 1 /\ UNCHANGED file
      /\ malformedRows' = malformedRows + 1 /\ Len(Row) = Len(Header) /\ CountRow
      /\ IdValue(Row[1]) = NotANumber
  BY DEF CountNonNumeric, CountRow
<1>2. /\ NumericRead' = NumericRead
      /\ 2 .. rowIndex' = (2 .. rowIndex) \cup {Next1} /\ Next1 \notin 2 .. rowIndex
      /\ \A i : IdOf(i)' = IdOf(i)
      /\ rowIndex' \in 1 .. Len(file.rows)
  BY <1>1, OneRowRead DEF Next1, IdOf
<1>3. NumericRead' # 2 .. rowIndex' /\ malformedRows' # 0 /\ malformedRows' \in Nat
  BY <1>1, <1>2, ReadRange DEF ScanIInv, ScanInv, ScanTypeOK
<1>4. RowsAreCounted'
  <2>1. {i \in NumericRead' : IdOf(i)' > SnapshotMaxId}
          = {i \in NumericRead : IdOf(i) > SnapshotMaxId}
    BY <1>2
  <2>. QED
    BY <1>1, <1>3, <2>1, CountedRow DEF ScanIInv, ScanInv, RowsAreCounted, CountNonNumeric
<1>5. IdsAreOrdered' /\ IdsAreBounded'
  BY <1>1, <1>2, <1>3 DEF ScanIInv, ScanInv, IdsAreOrdered, IdsAreBounded, CountNonNumeric
<1>6. ScanTypeOK' /\ ScanBegan' /\ IsFiniteSet(seenIds')
  BY <1>1, <1>2, <1>3, CountedRow
     DEF ScanIInv, ScanInv, ScanTypeOK, ScanBegan, CountNonNumeric, CountRow
<1>. QED
  BY <1>1, <1>4, <1>5, <1>6 DEF ScanIInv, ScanInv

LEMMA NumericRow ==
    ASSUME ScanIInv, CountNumeric
    PROVE  ScanIInv'
<1>. DEFINE id == IdOf(Next1)
<1>1. pc = "rows" /\ RowsLeft /\ rowIndex' = rowIndex + 1 /\ UNCHANGED file
      /\ Len(Row) = Len(Header) /\ CountRow /\ Row = file.rows[Next1]
      /\ malformedRows' = malformedRows
  BY OneRowRead DEF CountNumeric, CountRow
<1>2. /\ id # NotANumber /\ id \in Nat
      /\ outOfSnapshot' = outOfSnapshot + (IF id > SnapshotMaxId THEN 1 ELSE 0)
      /\ strictlyAscending' = (strictlyAscending /\ (previousId = NotANumber \/ previousId < id))
      /\ previousId' = id
      /\ minId' = IF minId = NotANumber \/ id < minId THEN id ELSE minId
      /\ maxId' = IF maxId = NotANumber \/ id > maxId THEN id ELSE maxId
  <2>1. IdValue(Row[1]) = id
    BY <1>1 DEF IdOf
  <2>2. id \in Nat \cup {NotANumber}
    BY <1>1, OneRowRead, RowTypes DEF ScanIInv
  <2>. QED
    BY <2>1, <2>2 DEF CountNumeric
<1>3. /\ NumericRead' = NumericRead \cup {Next1} /\ Next1 \notin NumericRead
      /\ 2 .. rowIndex' = (2 .. rowIndex) \cup {Next1} /\ Next1 \notin 2 .. rowIndex
      /\ \A i : IdOf(i)' = IdOf(i)
      /\ rowIndex' \in 1 .. Len(file.rows) /\ Next1 = rowIndex + 1 /\ Next1 \in Nat
      /\ \A i \in NumericRead : i \in Nat /\ i < Next1 /\ IdOf(i) \in Nat
  BY <1>1, <1>2, OneRowRead, ReadRange DEF Next1
<1>4. /\ SnapshotMaxId \in Nat /\ NotANumber \notin Nat
      /\ outOfSnapshot \in Nat /\ malformedRows \in Nat /\ strictlyAscending \in BOOLEAN
      /\ {previousId, minId, maxId} \subseteq Nat \cup {NotANumber}
  BY ScanAssumption DEF ScanIInv, ScanInv, ScanTypeOK
<1>5. RowsAreCounted' /\ outOfSnapshot' \in Nat
  <2>. DEFINE Beyond == {i \in NumericRead : IdOf(i) > SnapshotMaxId}
              Beyond1 == {i \in NumericRead' : IdOf(i) > SnapshotMaxId}
  <2>1. outOfSnapshot = Cardinality(Beyond) /\ IsFiniteSet(Beyond)
    <3>1. Beyond \subseteq NumericRead
      OBVIOUS
    <3>. QED
      BY <3>1, ReadRange, ReadIsFinite, FS_Subset DEF ScanIInv, ScanInv, RowsAreCounted
  <2>2. outOfSnapshot' = Cardinality(Beyond1)
    <3>1. CASE id > SnapshotMaxId
      <4>1. Beyond1 = Beyond \cup {Next1} /\ Next1 \notin Beyond
        BY <1>3, <3>1
      <4>2. Cardinality(Beyond1) = Cardinality(Beyond) + 1
        BY <2>1, <4>1, OneMore
      <4>. QED
        BY <1>2, <2>1, <3>1, <4>2
    <3>2. CASE ~(id > SnapshotMaxId)
      <4>1. Beyond1 = Beyond
        BY <1>3, <3>2
      <4>. QED
        BY <1>2, <1>4, <2>1, <3>2, <4>1
    <3>. QED
      BY <3>1, <3>2
  <2>3. Beyond1 = {i \in NumericRead' : IdOf(i)' > SnapshotMaxId}
    BY <1>3
  <2>4. malformedRows' = 0 <=> NumericRead' = 2 .. rowIndex'
    <3>1. malformedRows = 0 <=> NumericRead = 2 .. rowIndex
      BY DEF ScanIInv, ScanInv, RowsAreCounted
    <3>. QED
      BY <1>1, <1>3, <3>1
  <2>5. actualRows' = Cardinality(DataRead') /\ seenIds' = {file'.rows[i][1] : i \in DataRead'}
    BY <1>1, CountedRow
  <2>6. outOfSnapshot' = Cardinality({i \in NumericRead' : IdOf(i)' > SnapshotMaxId})
    BY <2>2, <2>3
  <2>7. outOfSnapshot' \in Nat
    BY <1>2, <1>4
  <2>. QED
    BY <2>4, <2>5, <2>6, <2>7 DEF RowsAreCounted
<1>6. strictlyAscending' <=> \A i, j \in NumericRead' : i < j => IdOf(i) < IdOf(j)
  <2>0. strictlyAscending <=> \A i, j \in NumericRead : i < j => IdOf(i) < IdOf(j)
    BY DEF ScanIInv, ScanInv, IdsAreOrdered
  <2>1. CASE NumericRead = {}
    <3>1. previousId = NotANumber
      BY <2>1 DEF ScanIInv, ScanInv, IdsAreBounded
    <3>2. NumericRead' = {Next1} /\ ~(Next1 < Next1)
      BY <1>3, <2>1
    <3>3. strictlyAscending
      BY <2>0, <2>1
    <3>. QED
      BY <1>2, <3>1, <3>2, <3>3
  <2>2. CASE NumericRead # {}
    <3>1. PICK m \in NumericRead : previousId = IdOf(m) /\ \A j \in NumericRead : j <= m
      BY <2>2 DEF ScanIInv, ScanInv, IdsAreBounded
    <3>2. strictlyAscending' <=> (strictlyAscending /\ IdOf(m) < id)
      BY <1>2, <1>3, <1>4, <3>1
    <3>3. ASSUME strictlyAscending, IdOf(m) < id, NEW i \in NumericRead', NEW j \in NumericRead',
                 i < j
          PROVE  IdOf(i) < IdOf(j)
      <4>1. i \in NumericRead
        BY <1>3, <3>3
      <4>2. CASE j \in NumericRead
        BY <2>0, <3>3, <4>1, <4>2
      <4>3. CASE j = Next1
        <5>1. i = m \/ i < m
          BY <1>3, <3>1, <4>1
        <5>2. IdOf(i) = IdOf(m) \/ IdOf(i) < IdOf(m)
          BY <2>0, <3>1, <3>3, <4>1, <5>1
        <5>. QED
          BY <1>2, <1>3, <3>1, <3>3, <4>1, <4>3, <5>2
      <4>. QED
        BY <1>3, <4>2, <4>3
    <3>4. ASSUME \A i, j \in NumericRead' : i < j => IdOf(i) < IdOf(j)
          PROVE  strictlyAscending /\ IdOf(m) < id
      BY <1>3, <2>0, <3>1, <3>4
    <3>. QED
      BY <3>2, <3>3, <3>4
  <2>. QED
    BY <2>1, <2>2
<1>7. strictlyAscending' /\ malformedRows' = 0 => duplicates' = 0
  <2>. SUFFICES ASSUME strictlyAscending', malformedRows' = 0
                PROVE  duplicates' = 0
    OBVIOUS
  <2>1. NumericRead = 2 .. rowIndex /\ duplicates = 0
    BY <1>1, <1>2 DEF ScanIInv, ScanInv, RowsAreCounted, IdsAreOrdered
  <2>2. seenIds = {file.rows[i][1] : i \in DataRead} /\ DataRead = NumericRead
    BY <2>1, ReadRange DEF ScanIInv, ScanInv, RowsAreCounted
  <2>3. Row[1] \notin seenIds
    <3>. SUFFICES ASSUME NEW i \in NumericRead, file.rows[i][1] = Row[1]
                  PROVE  FALSE
      BY <2>2
    <3>1. IdOf(i) = id
      BY <1>1 DEF IdOf
    <3>2. IdOf(i) < id
      BY <1>3, <1>6
    <3>. QED
      BY <1>2, <3>1, <3>2
  <2>. QED
    BY <1>1, <2>1, <2>3 DEF CountRow
<1>8. IdsAreOrdered'
  <2>1. strictlyAscending' <=> \A i, j \in NumericRead' : i < j => IdOf(i)' < IdOf(j)'
    BY <1>3, <1>6
  <2>. QED
    BY <1>7, <2>1 DEF IdsAreOrdered
<1>9. IdsAreBounded'
  <2>0. NumericRead' # {}
    BY <1>3
  <2>1. \E i \in NumericRead' : previousId' = IdOf(i)' /\ \A j \in NumericRead' : j <= i
    BY <1>2, <1>3
  <2>2. /\ \E i \in NumericRead' : minId' = IdOf(i)' /\ \A j \in NumericRead' : minId' <= IdOf(j)'
        /\ \E i \in NumericRead' : maxId' = IdOf(i)' /\ \A j \in NumericRead' : IdOf(j)' <= maxId'
    <3>1. CASE NumericRead = {}
      <4>1. minId' = id /\ maxId' = id /\ NumericRead' = {Next1}
        BY <1>2, <1>3, <3>1 DEF ScanIInv, ScanInv, IdsAreBounded
      <4>. QED
        BY <1>2, <1>3, <4>1
    <3>2. CASE NumericRead # {}
      <4>1. PICK i \in NumericRead : minId = IdOf(i) /\ \A j \in NumericRead : minId <= IdOf(j)
        BY <3>2 DEF ScanIInv, ScanInv, IdsAreBounded
      <4>2. PICK i2 \in NumericRead : maxId = IdOf(i2) /\ \A j \in NumericRead : IdOf(j) <= maxId
        BY <3>2 DEF ScanIInv, ScanInv, IdsAreBounded
      <4>3. minId \in Nat /\ maxId \in Nat
        BY <1>3, <4>1, <4>2
      <4>4. CASE id < minId
        BY <1>2, <1>3, <1>4, <4>1, <4>2, <4>3, <4>4
      <4>5. CASE ~(id < minId) /\ id > maxId
        BY <1>2, <1>3, <1>4, <4>1, <4>2, <4>3, <4>5
      <4>6. CASE ~(id < minId) /\ ~(id > maxId)
        BY <1>2, <1>3, <1>4, <4>1, <4>2, <4>3, <4>6
      <4>. QED
        BY <4>4, <4>5, <4>6
    <3>. QED
      BY <3>1, <3>2
  <2>. QED
    BY <2>0, <2>1, <2>2 DEF IdsAreBounded
<1>10. ScanTypeOK' /\ ScanBegan' /\ IsFiniteSet(seenIds')
  <2>1. /\ {previousId', minId', maxId'} \subseteq Nat \cup {NotANumber}
        /\ strictlyAscending' \in BOOLEAN
    BY <1>2, <1>4
  <2>. QED
    BY <1>1, <1>3, <1>4, <1>5, <2>1, CountedRow
       DEF ScanIInv, ScanInv, ScanTypeOK, ScanBegan, CountNumeric, CountRow
<1>. QED
  BY <1>1, <1>5, <1>8, <1>9, <1>10 DEF ScanIInv, ScanInv

-----------------------------------------------------------------------------
(* The steps that read no data row.                                         *)
LEMMA NoDataRead ==
    ASSUME rowIndex \in {0, 1}
    PROVE  DataRead = {} /\ NumericRead = {} /\ 2 .. rowIndex = {}
BY DEF DataRead, NumericRead

LEMMA InitScan == Init => ScanIInv
<1>. SUFFICES ASSUME Init
              PROVE  ScanIInv
  OBVIOUS
<1>1. DataRead = {} /\ NumericRead = {} /\ 2 .. rowIndex = {}
  BY NoDataRead DEF Init
<1>2. IsFiniteSet({}) /\ Cardinality({}) = 0
  BY FS_EmptySet
<1>3. ScanTypeOK /\ IsFiniteSet(seenIds) /\ ScanBegan
  <2>1. seenIds = {} /\ actualRows = 0 /\ duplicates = 0 /\ Len(file.rows) \in Nat
    BY RowTypes DEF Init
  <2>2. actualRows = Cardinality(seenIds) + duplicates /\ IsFiniteSet(seenIds)
    BY <1>2, <2>1
  <2>3. {previousId, minId, maxId} \subseteq Nat \cup {NotANumber} /\ seenIds \subseteq Texts
    BY DEF Init
  <2>4. pc = "idle" /\ fileBytes = 0 /\ rowIndex = 0 /\ headerValid = FALSE
        /\ strictlyAscending = TRUE /\ outOfSnapshot = 0 /\ malformedRows = 0
    BY DEF Init
  <2>5. ScanTypeOK
    <3>1. /\ pc \in {"idle", "header", "rows"}
          /\ fileBytes \in Nat /\ rowIndex \in 0 .. Len(file.rows)
          /\ actualRows \in Nat /\ duplicates \in Nat
          /\ outOfSnapshot \in Nat /\ malformedRows \in Nat
      BY <2>1, <2>4
    <3>2. headerValid \in BOOLEAN /\ strictlyAscending \in BOOLEAN
      BY <2>4, Zenon
    <3>. QED
      BY <2>2, <2>3, <3>1, <3>2, Zenon DEF ScanTypeOK
  <2>6. ScanBegan
    BY <2>4 DEF ScanBegan
  <2>. QED
    BY <2>2, <2>5, <2>6
<1>4. RowsAreCounted
  <2>1. Cardinality({i \in NumericRead : IdOf(i) > SnapshotMaxId}) = 0
    <3>1. {i \in NumericRead : IdOf(i) > SnapshotMaxId} = {}
      BY <1>1
    <3>. QED
      BY <1>2, <3>1
  <2>. QED
    BY <1>1, <1>2, <2>1 DEF Init, RowsAreCounted
<1>5. IdsAreOrdered /\ IdsAreBounded
  BY <1>1 DEF Init, IdsAreOrdered, IdsAreBounded
<1>. QED
  BY <1>3, <1>4, <1>5 DEF Init, ScanIInv, ScanInv

LEMMA ScanStarted ==
    ASSUME ScanIInv, HeadObject
    PROVE  ScanIInv'
<1>1. /\ DataRead' = {} /\ NumericRead' = {} /\ 2 .. rowIndex' = {}
  BY DEF HeadObject, DataRead, NumericRead
<1>2. IsFiniteSet({}) /\ Cardinality({}) = 0
  BY FS_EmptySet
<1>3. ScanTypeOK' /\ IsFiniteSet(seenIds') /\ ScanBegan'
  <2>1. /\ seenIds' = {} /\ actualRows' = 0 /\ duplicates' = 0 /\ file' = file
        /\ Len(file.rows) \in Nat
    BY RowTypes DEF ScanIInv, HeadObject, ResetCounters
  <2>2. actualRows' = Cardinality(seenIds') + duplicates' /\ IsFiniteSet(seenIds')
    BY <1>2, <2>1
  <2>3. {previousId', minId', maxId'} \subseteq Nat \cup {NotANumber} /\ seenIds' \subseteq Texts
    BY <2>1 DEF HeadObject, ResetCounters
  <2>4. pc' = "header" /\ fileBytes' = Len(file.rows) /\ rowIndex' = 0 /\ headerValid' = FALSE
        /\ strictlyAscending' = TRUE /\ outOfSnapshot' = 0 /\ malformedRows' = 0
    BY DEF HeadObject, ResetCounters
  <2>5. ScanTypeOK'
    <3>1. /\ pc' \in {"idle", "header", "rows"}
          /\ fileBytes' \in Nat /\ rowIndex' \in 0 .. Len(file'.rows)
          /\ actualRows' \in Nat /\ duplicates' \in Nat
          /\ outOfSnapshot' \in Nat /\ malformedRows' \in Nat
      BY <2>1, <2>4
    <3>2. headerValid' \in BOOLEAN /\ strictlyAscending' \in BOOLEAN
      BY <2>4, Zenon
    <3>. QED
      BY <2>2, <2>3, <3>1, <3>2, Zenon DEF ScanTypeOK
  <2>6. ScanBegan'
    BY <2>1, <2>4 DEF ScanBegan
  <2>. QED
    BY <2>2, <2>5, <2>6
<1>4. RowsAreCounted'
  <2>1. Cardinality({i \in NumericRead' : IdOf(i)' > SnapshotMaxId}) = 0
    <3>1. {i \in NumericRead' : IdOf(i)' > SnapshotMaxId} = {}
      BY <1>1
    <3>. QED
      BY <1>2, <3>1
  <2>. QED
    BY <1>1, <1>2, <2>1 DEF HeadObject, ResetCounters, RowsAreCounted
<1>5. IdsAreOrdered' /\ IdsAreBounded'
  BY <1>1 DEF HeadObject, ResetCounters, IdsAreOrdered, IdsAreBounded
<1>. QED
  BY <1>3, <1>4, <1>5 DEF HeadObject, ScanIInv, ScanInv

LEMMA HeaderRead ==
    ASSUME ScanIInv, ReadHeader
    PROVE  ScanIInv'
<1>1. rowIndex = 0 /\ rowIndex' = 1 /\ UNCHANGED <<file, fileBytes, counters>>
  BY DEF ScanIInv, ScanInv, ScanBegan, ReadHeader
<1>2. /\ DataRead = {} /\ NumericRead = {} /\ 2 .. rowIndex = {}
      /\ DataRead' = {} /\ NumericRead' = {} /\ 2 .. rowIndex' = {}
  BY <1>1 DEF DataRead, NumericRead
<1>3. ScanTypeOK' /\ IsFiniteSet(seenIds') /\ ScanBegan'
  BY <1>1, RowTypes DEF ScanIInv, ScanInv, ReadHeader, counters, ScanTypeOK, ScanBegan
<1>4. RowsAreCounted'
  <2>1. {i \in NumericRead' : IdOf(i)' > SnapshotMaxId}
            = {i \in NumericRead : IdOf(i) > SnapshotMaxId}
    BY <1>2
  <2>. QED
    BY <1>1, <1>2, <2>1 DEF ScanIInv, ScanInv, counters, RowsAreCounted
<1>5. IdsAreOrdered' /\ IdsAreBounded'
  BY <1>1, <1>2 DEF ScanIInv, ScanInv, counters, IdsAreOrdered, IdsAreBounded
<1>. QED
  BY <1>1, <1>3, <1>4, <1>5 DEF ScanIInv, ScanInv

(* A scan that ends, and a step of something else, leave the counters alone. *)
LEMMA ScanRests ==
    ASSUME ScanIInv, pc' = "idle" \/ pc' = pc,
           UNCHANGED <<file, fileBytes, rowIndex, headerValid, counters>>
    PROVE  ScanIInv'
<1>1. /\ DataRead' = DataRead /\ NumericRead' = NumericRead /\ \A i : IdOf(i)' = IdOf(i)
      /\ UNCHANGED <<file, fileBytes, rowIndex, headerValid, seenIds, actualRows, duplicates,
                     outOfSnapshot, strictlyAscending, previousId, minId, maxId, malformedRows>>
  BY DEF counters, DataRead, NumericRead, IdOf
<1>2. ScanTypeOK' /\ IsFiniteSet(seenIds') /\ ScanBegan'
  BY <1>1 DEF ScanIInv, ScanInv, ScanTypeOK, ScanBegan
<1>3. RowsAreCounted'
  BY <1>1 DEF ScanIInv, ScanInv, RowsAreCounted
<1>4. IdsAreOrdered' /\ IdsAreBounded'
  BY <1>1 DEF ScanIInv, ScanInv, IdsAreOrdered, IdsAreBounded
<1>. QED
  BY <1>1, <1>2, <1>3, <1>4 DEF ScanIInv, ScanInv

LEMMA NextScan == ScanIInv /\ [Next]_vars => ScanIInv'
<1>. SUFFICES ASSUME ScanIInv, [Next]_vars
              PROVE  ScanIInv'
  OBVIOUS
<1>1. CASE HeadObject
  BY <1>1, ScanStarted
<1>2. CASE ReadHeader
  BY <1>2, HeaderRead
<1>3. CASE SkipMalformed
  BY <1>3, SkippedRow
<1>4. CASE CountNonNumeric
  BY <1>4, NonNumericRow
<1>5. CASE CountNumeric
  BY <1>5, NumericRow
<1>6. CASE StreamEnds
  BY <1>6, ScanRests DEF StreamEnds
<1>7. CASE StreamFails
  BY <1>7, ScanRests DEF StreamFails
<1>8. CASE UNCHANGED vars
  BY <1>8, ScanRests DEF vars
<1>. QED
  BY <1>1, <1>2, <1>3, <1>4, <1>5, <1>6, <1>7, <1>8 DEF Next

(* At every row, whatever the file holds, the counters of the loop are what *)
(* the rows read so far amount to.                                          *)
THEOREM ScanInvariant == Spec => []ScanInv
<1>1. Init => ScanIInv
  BY InitScan
<1>2. ScanIInv /\ [Next]_vars => ScanIInv'
  BY NextScan
<1>3. ScanIInv => ScanInv
  BY DEF ScanIInv
<1>. QED
  BY <1>1, <1>2, <1>3, PTL DEF Spec

-----------------------------------------------------------------------------
(* The report.  When the stream ends, all rows are read.                    *)
LEMMA AllRead ==
    ASSUME ScanIInv, StreamEnds
    PROVE  /\ rowIndex = Len(file.rows) /\ Len(file.rows) \in Nat
           /\ fileBytes = Len(file.rows)
           /\ Len(file.rows) > 0 => headerValid = (file.rows[1] = Header)
           /\ Audit!Data(file.rows) = DataRead
           /\ Audit!Numeric(file.rows) = NumericRead
           /\ Audit!IdTexts(file.rows) = seenIds
           /\ \A i : Audit!Value(file.rows, i) = IdOf(i)
<1>1. /\ rowIndex = Len(file.rows) /\ Len(file.rows) \in Nat
      /\ fileBytes = Len(file.rows)
      /\ Len(file.rows) > 0 => headerValid = (file.rows[1] = Header)
  BY RowTypes DEF ScanIInv, ScanInv, ScanTypeOK, ScanBegan, StreamEnds, RowsLeft
<1>2. \A i : Audit!Value(file.rows, i) = IdOf(i)
  BY DEF Audit!Value, IdOf
<1>3. Audit!Data(file.rows) = DataRead
  BY <1>1 DEF Audit!Data, DataRead
<1>4. Audit!Numeric(file.rows) = NumericRead
  BY <1>2, <1>3 DEF Audit!Numeric, NumericRead
<1>5. Audit!IdTexts(file.rows) = seenIds
  BY <1>3 DEF Audit!IdTexts, ScanIInv, ScanInv, RowsAreCounted
<1>. QED
  BY <1>1, <1>2, <1>3, <1>4, <1>5

(* No problem is found exactly in the file that was asked for.              *)
LEMMA VerdictIsRight ==
    ASSUME ScanIInv, StreamEnds
    PROVE  NoProblems <=> Audit!IsExact(file.rows)
<1>. DEFINE N == Len(file.rows)
<1>1. /\ N \in Nat /\ rowIndex = N /\ fileBytes = N /\ ExpectedRows \in Nat \ {0}
      /\ file.rows = <<>> <=> N = 0
  BY AllRead, RowTypes, ScanAssumption DEF ScanIInv
<1>2. CASE N = 0
  BY <1>1, <1>2 DEF NoProblems, Audit!IsExact
<1>3. CASE N > 0
  <2>1. headerValid <=> file.rows[1] = Header
    BY <1>3, AllRead, Zenon
  <2>2. malformedRows = 0 <=> Audit!Numeric(file.rows) = 2 .. N
    BY <1>1, AllRead DEF ScanIInv, ScanInv, RowsAreCounted
  <2>3. ASSUME malformedRows = 0
        PROVE  actualRows = N - 1 /\ NumericRead = 2 .. N
    <3>1. NumericRead = 2 .. N
      BY <2>2, <2>3, AllRead
    <3>2. DataRead = 2 .. N
      BY <1>1, <3>1, ReadRange
    <3>3. Cardinality(2 .. N) = N - 1
      <4>1. 2 \in Int /\ N \in Int
        BY <1>1
      <4>2. Cardinality(2 .. N) = IF 2 > N THEN 0 ELSE N - 2 + 1
        BY <4>1, FS_Interval, Zenon
      <4>. QED
        BY <1>1, <1>3, <4>2
    <3>. QED
      BY <3>1, <3>2, <3>3 DEF ScanIInv, ScanInv, RowsAreCounted
  <2>4. ASSUME malformedRows = 0
        PROVE  outOfSnapshot = 0
                   <=> \A i \in 2 .. N : Audit!Value(file.rows, i) <= SnapshotMaxId
    <3>. DEFINE Beyond == {i \in NumericRead : IdOf(i) > SnapshotMaxId}
    <3>1. IsFiniteSet(Beyond) /\ outOfSnapshot = Cardinality(Beyond)
      <4>1. Beyond \subseteq NumericRead
        OBVIOUS
      <4>. QED
        BY <4>1, ReadRange, ReadIsFinite, FS_Subset DEF ScanIInv, ScanInv, RowsAreCounted
    <3>2. outOfSnapshot = 0 <=> Beyond = {}
      BY <3>1, FS_EmptySet
    <3>3. Beyond = {} <=> \A i \in 2 .. N : IdOf(i) <= SnapshotMaxId
      BY <2>3, <2>4, ReadRange, ScanAssumption
    <3>. QED
      BY <3>2, <3>3, AllRead
  <2>5. ASSUME malformedRows = 0
        PROVE  /\ strictlyAscending <=> \A i, j \in 2 .. N :
                      i < j => Audit!Value(file.rows, i) < Audit!Value(file.rows, j)
               /\ strictlyAscending => duplicates = 0 /\ Cardinality(seenIds) = actualRows
    <3>1. /\ strictlyAscending <=> \A i, j \in NumericRead : i < j => IdOf(i) < IdOf(j)
          /\ strictlyAscending => duplicates = 0
      BY <2>5 DEF ScanIInv, ScanInv, IdsAreOrdered
    <3>2. Cardinality(seenIds) \in Nat /\ actualRows = Cardinality(seenIds) + duplicates
      BY FS_CardinalityType DEF ScanIInv, ScanInv, ScanTypeOK
    <3>3. strictlyAscending => Cardinality(seenIds) = actualRows
      BY <3>1, <3>2
    <3>4. NumericRead = 2 .. N
      BY <2>3, <2>5
    <3>. QED
      BY <3>1, <3>3, <3>4, AllRead
  <2>6. NoProblems => Audit!IsExact(file.rows)
    BY <1>1, <1>3, <2>1, <2>2, <2>3, <2>4, <2>5 DEF NoProblems, Audit!IsExact
  <2>7. Audit!IsExact(file.rows) => NoProblems
    BY <1>1, <1>3, <2>1, <2>2, <2>3, <2>4, <2>5 DEF NoProblems, Audit!IsExact
  <2>. QED
    BY <2>6, <2>7
<1>. QED
  BY <1>1, <1>2, <1>3

(* The least and the greatest id the loop remembers are those of the file.  *)
LEMMA ExtremesAreRight ==
    ASSUME ScanIInv, StreamEnds
    PROVE  /\ minId = IF Audit!IdValues(file.rows) = {} THEN NotANumber
                      ELSE Audit!Min(Audit!IdValues(file.rows))
           /\ maxId = IF Audit!IdValues(file.rows) = {} THEN NotANumber
                      ELSE Audit!Max(Audit!IdValues(file.rows))
<1>. DEFINE Ids == Audit!IdValues(file.rows)
<1>1. Ids = {IdOf(i) : i \in NumericRead} /\ \A i \in NumericRead : IdOf(i) \in Nat
  BY AllRead, ReadRange DEF Audit!IdValues
<1>2. CASE NumericRead = {}
  <2>1. Ids = {} /\ minId = NotANumber /\ maxId = NotANumber
    BY <1>1, <1>2 DEF ScanIInv, ScanInv, IdsAreBounded
  <2>. QED
    BY <2>1
<1>3. CASE NumericRead # {}
  <2>1. /\ \E i \in NumericRead : minId = IdOf(i) /\ \A j \in NumericRead : minId <= IdOf(j)
        /\ \E i \in NumericRead : maxId = IdOf(i) /\ \A j \in NumericRead : IdOf(j) <= maxId
    BY <1>3 DEF ScanIInv, ScanInv, IdsAreBounded
  <2>2. /\ Ids # {} /\ Ids \subseteq Nat
        /\ minId \in Ids /\ \A id \in Ids : minId <= id
        /\ maxId \in Ids /\ \A id \in Ids : id <= maxId
    BY <1>1, <1>3, <2>1
  <2>. HIDE DEF Ids
  <2>3. Audit!Min(Ids) \in Ids /\ \A id \in Ids : Audit!Min(Ids) <= id
    BY <2>2 DEF Audit!Min
  <2>4. Audit!Max(Ids) \in Ids /\ \A id \in Ids : id <= Audit!Max(Ids)
    BY <2>2 DEF Audit!Max
  <2>5. Audit!Min(Ids) = minId
    <3>1. Audit!Min(Ids) <= minId /\ minId <= Audit!Min(Ids)
      BY <2>2, <2>3
    <3>2. Audit!Min(Ids) \in Int /\ minId \in Int
      <4>1. Audit!Min(Ids) \in Nat /\ minId \in Nat
        BY <2>2, <2>3, Zenon
      <4>. QED
        BY <4>1
    <3>3. \A a, b \in Int : a <= b /\ b <= a => a = b
      OBVIOUS
    <3>. QED
      BY <3>1, <3>2, <3>3
  <2>6. Audit!Max(Ids) = maxId
    <3>1. Audit!Max(Ids) <= maxId /\ maxId <= Audit!Max(Ids)
      BY <2>2, <2>4
    <3>2. Audit!Max(Ids) \in Int /\ maxId \in Int
      <4>1. Audit!Max(Ids) \in Nat /\ maxId \in Nat
        BY <2>2, <2>4, Zenon
      <4>. QED
        BY <4>1
    <3>3. \A a, b \in Int : a <= b /\ b <= a => a = b
      OBVIOUS
    <3>. QED
      BY <3>1, <3>2, <3>3
  <2>. QED
    BY <2>2, <2>5, <2>6 DEF Ids
<1>. QED
  BY <1>2, <1>3

LEMMA ReportIsRight ==
    ASSUME ScanIInv, StreamEnds
    PROVE  report' = Audit!ReportOf(file.rows)
<1>. DEFINE r == file.rows
<1>1. \A S : Audit!Cardinality(S) = Cardinality(S)
  BY Zenon DEF Audit!Cardinality, Cardinality, Audit!IsFiniteSet, IsFiniteSet
<1>2. NoProblems = Audit!IsExact(r)
  BY VerdictIsRight DEF NoProblems, Audit!IsExact
<1>3. /\ actualRows = Cardinality(Audit!Data(r))
      /\ outOfSnapshot = Cardinality({i \in Audit!Numeric(r) : Audit!Value(r, i) > SnapshotMaxId})
  <2>1. {i \in Audit!Numeric(r) : Audit!Value(r, i) > SnapshotMaxId}
          = {i \in NumericRead : IdOf(i) > SnapshotMaxId}
    BY AllRead
  <2>. QED
    BY <2>1, AllRead DEF ScanIInv, ScanInv, RowsAreCounted
<1>4. duplicates = Cardinality(Audit!Data(r)) - Cardinality(Audit!IdTexts(r))
  <2>1. /\ actualRows = Cardinality(seenIds) + duplicates /\ duplicates \in Nat
        /\ Cardinality(seenIds) \in Nat
    BY FS_CardinalityType DEF ScanIInv, ScanInv, ScanTypeOK
  <2>. QED
    BY <1>3, <2>1, AllRead
<1>5. report' = [passed |-> Audit!IsExact(r), actualRows |-> actualRows,
                 uniqueRows |-> Cardinality(seenIds), duplicates |-> duplicates,
                 outOfSnapshot |-> outOfSnapshot, minId |-> minId, maxId |-> maxId]
  BY <1>2, Zenon DEF StreamEnds
<1>. QED
  BY <1>1, <1>3, <1>4, <1>5, AllRead, ExtremesAreRight, Zenon DEF Audit!ReportOf

(* Every run of the loop to the end of the stream records the report that   *)
(* the file as a whole deserves, and nothing else writes a report.          *)
THEOREM ScanImplementsAudit == Spec => ImplementsAudit
<1>1. Init => Audit!Init
  BY DEF Init, Audit!Init
<1>2. ScanIInv /\ [Next]_vars => [Audit!Next]_<<file.rows, report>>
  <2>. SUFFICES ASSUME ScanIInv, [Next]_vars
                PROVE  [Audit!Next]_<<file.rows, report>>
    OBVIOUS
  <2>1. CASE StreamEnds
    BY <2>1, ReportIsRight DEF StreamEnds, Audit!Next
  <2>2. CASE UNCHANGED <<file, report>>
    BY <2>2
  <2>. QED
    BY <2>1, <2>2 DEF Next, vars, HeadObject, ReadHeader, SkipMalformed, CountNonNumeric,
                      CountNumeric, CountRow, StreamFails
<1>. QED
  BY <1>1, <1>2, InitScan, NextScan, PTL DEF Spec, ImplementsAudit, Audit!Spec

-----------------------------------------------------------------------------
(* Files that assembleFinalCsv writes over the characters C, the header      *)
(* lines without special characters.                                        *)
Written(C) == {FileOf(headers, rows) : headers \in Lines(C \ Specials), rows \in Lines(C)}

LEMMA FileReadBack ==
    ASSUME NEW C, Specials \subseteq C, NEW f \in Written(C)
    PROVE  /\ f.rows = f.written /\ ParseCsv(f.text) = f.written
           /\ f.rows \in Lines(C)
           /\ f.failed <=> \E i \in DOMAIN f.rows : Len(f.rows[i]) # Len(f.rows[1])
<1>1. PICK headers \in Lines(C \ Specials), rows \in Lines(C) : f = FileOf(headers, rows)
  BY DEF Written
<1>. DEFINE text == CsvFile(headers, rows)
            all  == headers \o rows
<1>2. /\ ParseCsv(text) = all /\ CsvParse(text).rows = all
      /\ CsvParse(text).failed <=> \E i \in DOMAIN all : Len(all[i]) # Len(all[1])
  BY WrittenIsParsed
<1>a. all \in Lines(C)
  BY WrittenIsRead
<1>3. f = [written |-> all, text |-> text,
           rows |-> CsvParse(text).rows, failed |-> CsvParse(text).failed]
  BY <1>1 DEF FileOf
<1>. HIDE DEF text, all
<1>4. /\ f.rows = all /\ f.written = all /\ f.text = text
      /\ f.failed <=> \E i \in DOMAIN all : Len(all[i]) # Len(all[1])
  BY <1>2, <1>3
<1>. QED
  BY <1>2, <1>a, <1>4

(* Whatever the fields of the rows hold, both auditors read the rows that    *)
(* were written, and csv-parse fails only on rows of different widths.      *)
THEOREM FileAlwaysReadBack ==
    ASSUME NEW C, Specials \subseteq C, Files \subseteq Written(C)
    PROVE  Spec => []ReadBackAsWritten
<1>1. Init => file \in Files
  BY DEF Init
<1>2. file \in Files /\ [Next]_vars => (file \in Files)'
  BY DEF vars, Next, HeadObject, ReadHeader, SkipMalformed, CountNonNumeric, CountNumeric,
         CountRow, StreamEnds, StreamFails
<1>3. file \in Files => ReadBackAsWritten
  <2>1. SUFFICES ASSUME file \in Files PROVE ReadBackAsWritten
    OBVIOUS
  <2>2. /\ file.rows = file.written /\ ParseCsv(file.text) = file.written
        /\ file.failed => \E i \in DOMAIN file.rows : Len(file.rows[i]) # Len(file.rows[1])
    BY <2>1, FileReadBack
  <2>3. ASSUME NEW i \in DOMAIN file.rows, Len(file.rows[i]) # Len(file.rows[1])
        PROVE  1 \in DOMAIN file.rows
    <3>1. file.rows \in Seq(Seq(Texts) \ {<<>>})
      BY <2>1, RowTypes
    <3>. QED
      BY <2>3, <3>1, LenProperties
  <2>. QED
    BY <2>2, <2>3 DEF ReadBackAsWritten
<1>. QED
  BY <1>1, <1>2, <1>3, PTL DEF Spec

(* The script compares neighbours: that is enough.                          *)
LEMMA NeighboursAscend ==
    ASSUME NEW n \in Nat, NEW id, NEW m \in Nat,
           \A i \in m .. n : id[i] \in Nat,
           \A i \in m .. (n - 1) : id[i] < id[i + 1]
    PROVE  \A i, j \in m .. n : i < j => id[i] < id[j]
<1>. DEFINE S == {d \in Nat : \A i \in m .. n :
                     i + d + 1 \in m .. n => id[i] < id[i + d + 1]}
<1>1. 0 \in S
  <2>1. \A i \in m .. n : i + 1 \in m .. n => i \in m .. (n - 1)
    OBVIOUS
  <2>. QED
    BY <2>1
<1>2. ASSUME NEW d \in Nat, d \in S PROVE d + 1 \in S
  <2>1. SUFFICES ASSUME NEW i \in m .. n, i + (d + 1) + 1 \in m .. n
                 PROVE  id[i] < id[i + (d + 1) + 1]
    OBVIOUS
  <2>. DEFINE k == i + d + 1
  <2>2. k \in m .. n /\ k + 1 \in m .. n /\ k \in m .. (n - 1) /\ k + 1 = i + (d + 1) + 1
    BY <2>1
  <2>3. id[i] < id[k]
    BY <1>2, <2>2
  <2>. HIDE DEF k
  <2>4. id[k] < id[k + 1]
    BY <2>2
  <2>5. id[i] \in Nat /\ id[k] \in Nat /\ id[k + 1] \in Nat
    BY <2>2
  <2>. QED
    BY <2>2, <2>3, <2>4, <2>5
<1>3. Nat \subseteq S
  <2>. HIDE DEF S
  <2>. QED
    BY <1>1, <1>2, NatSetInduction
<1>4. ASSUME NEW i \in m .. n, NEW j \in m .. n, i < j PROVE id[i] < id[j]
  <2>1. j - i - 1 \in Nat /\ i + (j - i - 1) + 1 = j
    BY <1>4
  <2>2. j - i - 1 \in S
    BY <1>3, <2>1
  <2>. QED
    BY <2>1, <2>2
<1>. QED
  BY <1>4

(* The script and the audit of the server look for the same file, where      *)
(* BigInt reads every id and rows have more than one field, so that no row   *)
(* looks empty.                                                              *)
LEMMA ExactFilesAreAccepted ==
    ASSUME NEW text, NEW r \in Seq(Seq(Texts) \ {<<>>}), ParseCsv(text) = r,
           \A i \in 1 .. Len(r) : Len(r[i]) = Len(r[1]),
           r # <<>> /\ Len(r[1]) = Len(Header) /\ Joined(r[1]) = Joined(Header) => r[1] = Header,
           Len(Header) > 1
    PROVE  Audit!IsExact(r) <=> ScriptAccepts(text) /\ IdsAreWhole(r)
<1>. DEFINE n == Len(r)
            data == {i \in 2 .. n : Len(r[i]) > 1 \/ r[i][1] # <<>>}
            id == [i \in 1 .. n |-> IdValue(r[i][1])]
            twice == [i \in 1 .. n |-> NumberTwice(r[i][1])]
<1>1. /\ n \in Nat /\ Len(Header) \in Nat /\ SnapshotMaxId \in Nat
      /\ ExpectedRows \in Nat /\ ExpectedRows > 0
      /\ NotANumber \notin Nat /\ (r = <<>> <=> n = 0)
  BY ScanAssumption, LenProperties, EmptySeq
<1>2. \A i \in 1 .. n : /\ id[i] \in Nat \cup {NotANumber}
                        /\ id[i] # NotANumber => twice[i] = 2 * id[i]
  <2>1. SUFFICES ASSUME NEW i \in 1 .. n
                 PROVE  /\ IdValue(r[i][1]) \in Nat \cup {NotANumber}
                        /\ IdValue(r[i][1]) # NotANumber
                              => NumberTwice(r[i][1]) = 2 * IdValue(r[i][1])
    OBVIOUS
  <2>2. r[i] \in Seq(Texts) /\ r[i] # <<>>
    BY ElementOfSeq
  <2>3. r[i][1] \in Texts
    BY <2>2, EmptySeq, ElementOfSeq
  <2>. QED
    BY <2>3, ScanAssumption, NumberAssumption
<1>3. Audit!IsExact(r) => r # <<>> /\ r[1] = Header /\ n > 0
  BY <1>1 DEF Audit!IsExact
<1>4. ScriptAccepts(text) => r # <<>> /\ r[1] = Header /\ n > 0
  <2>1. SUFFICES ASSUME ScriptAccepts(text) PROVE r # <<>> /\ r[1] = Header
    BY <1>1
  <2>2. /\ r # <<>> /\ Joined(r[1]) = Joined(Header)
        /\ Cardinality(data) = ExpectedRows
        /\ \A i \in data : Len(r[i]) = Len(Header)
    BY <2>1 DEF ScriptAccepts
  <2>3. data # {}
    <3>1. Cardinality({}) = 0 /\ ExpectedRows # 0
      BY <1>1, FS_EmptySet
    <3>. HIDE DEF data
    <3>. QED
      BY <2>2, <3>1
  <2>4. Len(r[1]) = Len(Header)
    <3>1. \A i \in data : i \in 1 .. n
      BY <1>1
    <3>. HIDE DEF data
    <3>. QED
      BY <2>2, <2>3, <3>1
  <2>. QED
    BY <2>2, <2>4
<1>5. SUFFICES ASSUME n > 0, r[1] = Header
               PROVE  Audit!IsExact(r) <=> ScriptAccepts(text) /\ IdsAreWhole(r)
  BY <1>3, <1>4
<1>6. data = 2 .. n /\ \A i \in 2 .. n : i \in 1 .. n /\ Len(r[i]) = Len(Header)
  BY <1>1, <1>5
<1>7. IsFiniteSet(2 .. n) /\ Cardinality(2 .. n) = n - 1
  <2>1. 2 \in Int /\ n \in Int
    BY <1>1
  <2>. HIDE DEF n
  <2>2. IsFiniteSet(2 .. n) /\ Cardinality(2 .. n) = IF 2 > n THEN 0 ELSE n - 2 + 1
    BY <2>1, FS_Interval, Zenon
  <2>. QED
    BY <1>1, <1>5, <2>2
<1>8. Audit!Data(r) = 2 .. n
  BY <1>6 DEF Audit!Data
<1>9. Audit!Numeric(r) = {i \in 2 .. n : id[i] # NotANumber}
      /\ \A i \in 2 .. n : Audit!Value(r, i) = id[i]
  BY <1>6, <1>8 DEF Audit!Numeric, Audit!Value
<1>. DEFINE Whole == \A i \in 2 .. n : id[i] # NotANumber
            Exact == /\ n = ExpectedRows + 1
                     /\ Whole
                     /\ \A i \in 2 .. n : id[i] <= SnapshotMaxId
                     /\ \A i, j \in 2 .. n : i < j => id[i] < id[j]
            Accepted == /\ n - 1 = ExpectedRows
                        /\ Cardinality({twice[i] : i \in 2 .. n}) = ExpectedRows
                        /\ \A i, j \in 2 .. n :
                              i < j /\ (\A k \in 2 .. n : k <= i \/ j <= k)
                                 => Ascends(twice[i], twice[j])
                        /\ \A i \in 2 .. n : twice[i] = NotANumber
                                               \/ twice[i] <= 2 * SnapshotMaxId
<1>10. Audit!IsExact(r) <=> Exact
  <2>1. Audit!Numeric(r) = 2 .. n <=> Whole
    BY <1>9
  <2>2. Audit!IsExact(r) <=> /\ r # <<>> /\ r[1] = Header
                             /\ n = ExpectedRows + 1
                             /\ Audit!Numeric(r) = 2 .. n
                             /\ \A i \in 2 .. n : id[i] <= SnapshotMaxId
                             /\ \A i, j \in 2 .. n : i < j => id[i] < id[j]
    <3>1. \A i \in 2 .. n : Audit!Value(r, i) = id[i]
      BY <1>9
    <3>. HIDE DEF id
    <3>. QED
      BY <3>1, Zenon DEF Audit!IsExact
  <2>3. r # <<>> /\ r[1] = Header
    BY <1>1, <1>5
  <2>. HIDE DEF n, id, Whole
  <2>. QED
    BY <2>1, <2>2, <2>3
<1>11. ScriptAccepts(text) <=> Accepted
  <2>1. \A i \in 2 .. n : twice[i] = NumberTwice(r[i][1])
    BY <1>6
  <2>2. {twice[i] : i \in 2 .. n} = {NumberTwice(r[i][1]) : i \in 2 .. n}
    <3>. HIDE DEF twice, n
    <3>. QED
      BY <2>1
  <2>3. \A i \in data : Len(r[i]) = Len(Header)
    BY <1>6
  <2>4. r # <<>> /\ Joined(r[1]) = Joined(Header)
    BY <1>1, <1>5
  <2>5. ScriptAccepts(text) <=>
          /\ r # <<>> /\ Joined(r[1]) = Joined(Header)
          /\ Cardinality(data) = ExpectedRows
          /\ Cardinality({NumberTwice(r[i][1]) : i \in data}) = ExpectedRows
          /\ \A i \in data : Len(r[i]) = Len(Header)
          /\ \A i, j \in data :
                i < j /\ (\A k \in data : k <= i \/ j <= k)
                   => Ascends(NumberTwice(r[i][1]), NumberTwice(r[j][1]))
          /\ \A i \in data : NumberTwice(r[i][1]) = NotANumber
                               \/ NumberTwice(r[i][1]) <= 2 * SnapshotMaxId
    BY SMT DEF ScriptAccepts
  <2>6. data = 2 .. n
    BY <1>6
  <2>. HIDE DEF twice, data, n
  <2>. QED
    BY <1>7, <2>1, <2>2, <2>3, <2>4, <2>5, <2>6
<1>12. IdsAreWhole(r) <=> Whole
  BY <1>6 DEF IdsAreWhole
<1>13. Whole => \A i \in 2 .. n : /\ id[i] \in Nat /\ twice[i] \in Nat /\ twice[i] = 2 * id[i]
                                  /\ twice[i] # NotANumber
  <2>1. ASSUME Whole, NEW i \in 2 .. n
        PROVE  id[i] \in Nat /\ twice[i] = 2 * id[i]
    <3>1. i \in 1 .. n /\ id[i] # NotANumber
      BY <1>6, <2>1
    <3>. HIDE DEF id, twice, n, Whole
    <3>. QED
      BY <1>2, <3>1
  <2>2. ASSUME NEW a, NEW b, a \in Nat, b = 2 * a PROVE b \in Nat /\ b # NotANumber
    BY <1>1, <2>2
  <2>. HIDE DEF id, twice, n, Whole
  <2>. QED
    BY <2>1, <2>2
<1>14. Exact => Accepted
  <2>1. SUFFICES ASSUME Exact PROVE Accepted
    OBVIOUS
  <2>. DEFINE T == {twice[i] : i \in 2 .. n}
              f == [i \in 2 .. n |-> twice[i]]
  <2>2. f \in Surjection(2 .. n, T)
    BY DEF Surjection
  <2>a. \A i \in 2 .. n : id[i] \in Nat /\ twice[i] = 2 * id[i] /\ twice[i] # NotANumber
    <3>. HIDE DEF id, twice, n
    <3>. QED
      BY <1>13, <2>1
  <2>b. \A i, j \in 2 .. n : i < j => id[i] < id[j]
    BY <2>1
  <2>c. \A i \in 2 .. n : id[i] <= SnapshotMaxId
    BY <2>1
  <2>3. f \in Injection(2 .. n, T)
    <3>1. \A i, j \in 2 .. n : i < j \/ j < i \/ i = j
      BY <1>1
    <3>2. ASSUME NEW i \in 2 .. n, NEW j \in 2 .. n, twice[i] = twice[j] PROVE i = j
      <4>. HIDE DEF id, twice, n
      <4>1. id[i] \in Nat /\ id[j] \in Nat /\ id[i] = id[j]
        BY <2>a, <3>2
      <4>. QED
        BY <2>b, <3>1, <4>1
    <3>3. \A i \in 2 .. n : f[i] = twice[i]
      OBVIOUS
    <3>4. f \in [2 .. n -> T]
      BY <2>2 DEF Surjection
    <3>. HIDE DEF f, id, twice, n, T
    <3>. QED
      BY <3>2, <3>3, <3>4 DEF Injection, IsInjective
  <2>4. Cardinality(T) = Cardinality(2 .. n)
    <3>1. f \in Bijection(2 .. n, T)
      BY <2>2, <2>3 DEF Bijection
    <3>2. ExistsBijection(2 .. n, T)
      BY <3>1 DEF ExistsBijection
    <3>. HIDE DEF T, n
    <3>. QED
      BY <1>7, <3>2, FS_Bijection
  <2>5. n - 1 = ExpectedRows
    BY <1>1, <2>1
  <2>6. \A i \in 2 .. n : twice[i] <= 2 * SnapshotMaxId
    <3>. HIDE DEF id, twice, n
    <3>. QED
      BY <1>1, <2>a, <2>c
  <2>7. \A i, j \in 2 .. n : i < j => Ascends(twice[i], twice[j])
    <3>. HIDE DEF id, twice, n
    <3>. QED
      BY <2>a, <2>b DEF Ascends
  <2>. HIDE DEF id, twice, n
  <2>. QED
    BY <1>7, <2>4, <2>5, <2>6, <2>7
<1>15. Accepted /\ Whole => Exact
  <2>1. SUFFICES ASSUME Accepted, Whole PROVE Exact
    OBVIOUS
  <2>2. n = ExpectedRows + 1
    BY <1>1, <2>1
  <2>a. \A i \in 2 .. n : /\ id[i] \in Nat /\ twice[i] = 2 * id[i] /\ twice[i] # NotANumber
                          /\ twice[i] \in Nat
    <3>. HIDE DEF id, twice, n
    <3>. QED
      BY <1>13, <2>1
  <2>3. \A i \in 2 .. (n - 1) : twice[i] < twice[i + 1]
    <3>1. \A i \in 2 .. (n - 1) : /\ i \in 2 .. n /\ i + 1 \in 2 .. n /\ i < i + 1
                                  /\ \A k \in 2 .. n : k <= i \/ i + 1 <= k
      BY <1>1
    <3>2. \A i \in 2 .. (n - 1) : Ascends(twice[i], twice[i + 1])
      <4>. HIDE DEF id, twice, n
      <4>. QED
        BY <2>1, <3>1
    <3>. HIDE DEF id, twice, n
    <3>. QED
      BY <3>2 DEF Ascends
  <2>4. \A i, j \in 2 .. n : i < j => twice[i] < twice[j]
    <3>1. \A i \in 2 .. n : twice[i] \in Nat
      BY <2>a
    <3>. HIDE DEF id, twice, n
    <3>. QED
      BY <1>1, <2>3, <3>1, NeighboursAscend
  <2>5. \A i, j \in 2 .. n : i < j => id[i] < id[j]
    <3>. HIDE DEF id, twice, n
    <3>. QED
      BY <2>a, <2>4
  <2>6. \A i \in 2 .. n : id[i] <= SnapshotMaxId
    <3>1. \A i \in 2 .. n : twice[i] <= 2 * SnapshotMaxId
      BY <2>1, <2>a
    <3>. HIDE DEF id, twice, n
    <3>. QED
      BY <1>1, <2>a, <3>1
  <2>. HIDE DEF id, twice, n
  <2>. QED
    BY <2>1, <2>2, <2>5, <2>6
<1>16. Exact => Whole
  OBVIOUS
<1>. HIDE DEF Exact, Accepted, Whole
<1>. QED
  BY <1>10, <1>11, <1>12, <1>14, <1>15, <1>16

(* A report is about a file that was read to its end.                       *)
ReportIsExact == report # NoReport => ~file.failed /\ report.passed = Audit!IsExact(file.rows)

LEMMA NextReport == ScanIInv /\ ReportIsExact /\ [Next]_vars => ReportIsExact'
<1>. SUFFICES ASSUME ScanIInv, ReportIsExact, [Next]_vars
              PROVE  ReportIsExact'
  OBVIOUS
<1>1. CASE StreamEnds
  <2>1. /\ report' = Audit!ReportOf(file.rows)
        /\ ~file.failed /\ file' = file
    BY <1>1, ReportIsRight DEF StreamEnds
  <2>2. report'.passed = Audit!IsExact(file.rows)
    BY <2>1 DEF Audit!ReportOf
  <2>3. Audit!IsExact(file.rows)' <=> Audit!IsExact(file.rows)
    BY <2>1 DEF Audit!IsExact, Audit!Numeric, Audit!Data, Audit!Value
  <2>. QED
    BY <2>1, <2>2, <2>3 DEF ReportIsExact
<1>2. CASE UNCHANGED <<file, report>>
  BY <1>2 DEF ReportIsExact, Audit!IsExact, Audit!Numeric, Audit!Data, Audit!Value
<1>. QED
  BY <1>1, <1>2 DEF Next, vars, HeadObject, ReadHeader, SkipMalformed, CountNonNumeric,
                    CountNumeric, CountRow, StreamFails

(* Whenever a report exists, it says that the file passed exactly when       *)
(* scripts/auditLiveExport.mjs accepts the text of the file and BigInt reads *)
(* every id in it.                                                           *)
THEOREM AuditorsAlwaysAgree ==
    ASSUME NEW C, Specials \subseteq C, Files \subseteq Written(C),
           Header \in Seq(Seq(C \ Specials)), Len(Header) > 1
    PROVE  Spec => []AuditorsAgree
<1>1. Init => ReportIsExact
  BY DEF Init, ReportIsExact
<1>2. ScanIInv /\ ReportIsExact => AuditorsAgree
  <2>. SUFFICES ASSUME ScanIInv, ReportIsExact, report # NoReport
                PROVE  report.passed <=> ScriptAccepts(file.text) /\ IdsAreWhole(file.rows)
    BY DEF AuditorsAgree
  <2>1. file \in Files /\ ~file.failed /\ report.passed = Audit!IsExact(file.rows)
    BY DEF ScanIInv, ReportIsExact
  <2>2. file.rows \in Seq(Seq(Texts) \ {<<>>})
    BY <2>1, RowTypes
  <2>3. /\ ParseCsv(file.text) = file.rows
        /\ \A i \in DOMAIN file.rows : Len(file.rows[i]) = Len(file.rows[1])
    BY <2>1, FileReadBack
  <2>4. \A i \in 1 .. Len(file.rows) : Len(file.rows[i]) = Len(file.rows[1])
    BY <2>2, <2>3, LenProperties
  <2>a. ASSUME file.rows # <<>>, Len(file.rows[1]) = Len(Header),
               Joined(file.rows[1]) = Joined(Header)
        PROVE  file.rows[1] = Header
    <3>1. file.rows \in Lines(C)
      BY <2>1, FileReadBack
    <3>2. file.rows[1] \in Seq(Seq(C))
      BY <2>a, <3>1, EmptySeq, ElementOfSeq DEF Lines
    <3>. QED
      BY <2>a, <3>2, JoinedIsEnough
  <2>5. Audit!IsExact(file.rows) <=> ScriptAccepts(file.text) /\ IdsAreWhole(file.rows)
    BY <2>2, <2>3, <2>4, <2>a, ExactFilesAreAccepted
  <2>. QED
    BY <2>1, <2>5
<1>. QED
  BY <1>1, <1>2, InitScan, NextScan, NextReport, PTL DEF Spec
=============================================================================
