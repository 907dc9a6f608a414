----------------------------- MODULE CatalogProofs -----------------------------
(***************************************************************************)
(* The catalog for any names, columns, widths and numbers of records: the  *)
(* invariant is a property of each table, so that every operation on one   *)
(* table needs one lemma, and the count of the tables.                     *)
(***************************************************************************)
EXTENDS Catalog, FiniteSetTheorems, TLAPS

IndexMaps == UNION {[S -> Cols] : S \in SUBSET IndexNames}

Table == [numOfAttrs : 1 .. AttrLimit, insertPos : Nat, numOfRec : 0 .. MaxRec,
          numOfIndex : Nat, index : IndexMaps]

\* insertPos is where the last record ends when blocks are filled in order.
Placed(tb) ==
    tb.insertPos = IF tb.numOfRec = 0 THEN 0
                   ELSE Offset(tb.numOfRec - 1, tb.numOfAttrs) + RecSize(tb)

Counted(tb) ==
    /\ IsFiniteSet(DOMAIN tb.index)
    /\ tb.numOfIndex = Cardinality(DOMAIN tb.index)
    /\ tb.numOfIndex <= IndexLimit

Distinct(tb) == \A i, j \in DOMAIN tb.index : tb.index[i] = tb.index[j] => i = j

Good(tb) == tb \in Table /\ Counted(tb) /\ Distinct(tb) /\ Placed(tb)

\* The invariant.
CatInv ==
    /\ tables \in UNION {[S -> Table] : S \in SUBSET Names}
    /\ IsFiniteSet(DOMAIN tables)
    /\ numOfTables = Cardinality(DOMAIN tables)
    /\ numOfTables <= MaxTables
    /\ \A t \in DOMAIN tables : Good(tables[t])

-------------------------------------------------------------------------------
(* One table. *)

LEMMA NoIndexIsAMap == <<>> \in IndexMaps /\ DOMAIN <<>> = {}
BY DEF IndexMaps

\* A new table has no records and no indexes.
LEMMA NewTableIsGood ==
    ASSUME NEW w \in Widths, w <= AttrLimit
    PROVE  Good(NewTable(w))
<1>1. w \in 1 .. AttrLimit /\ MaxRec \in Nat
  BY CatalogAssumption DEF AttrLimit
<1>2. NewTable(w) \in Table
  BY <1>1, NoIndexIsAMap DEF NewTable, Table
<1>3. Counted(NewTable(w))
  BY NoIndexIsAMap, FS_EmptySet DEF NewTable, Counted, IndexLimit
<1>4. Distinct(NewTable(w)) /\ Placed(NewTable(w))
  BY NoIndexIsAMap DEF NewTable, Distinct, Placed
<1> QED BY <1>2, <1>3, <1>4 DEF Good

\* The placement rule of add_rec_count puts record n where filling blocks in
\* order does, for every width the catalog accepts.
LEMMA NextPosIsOffset ==
    ASSUME NEW w \in 1 .. AttrLimit, NEW n \in Nat
    PROVE  LET p == IF n = 0 THEN 0 ELSE Offset(n - 1, w) + 4 * w
           IN  /\ p \in Nat
               /\ Offset(n, w) = IF (p % BlockSize) + 4 * w > BlockSize
                                 THEN ((p + BlockSize - 1) \div BlockSize) * BlockSize
                                 ELSE p
<1> USE DEF Offset, PerBlock, BlockSize
<1>1. CASE w = 1 BY <1>1
<1>2. CASE w = 2 BY <1>2
<1>3. CASE w = 3 BY <1>3
<1>4. CASE w = 4 BY <1>4
<1>5. CASE w = 5 BY <1>5
<1>6. CASE w = 6 BY <1>6
<1>7. CASE w = 7 BY <1>7
<1>8. CASE w = 8 BY <1>8
<1> QED
  BY <1>1, <1>2, <1>3, <1>4, <1>5, <1>6, <1>7, <1>8 DEF AttrLimit

\* Adding a record leaves the table good while there is a record to add.
LEMMA WithRecordIsGood ==
    ASSUME NEW tb, Good(tb), tb.numOfRec < MaxRec
    PROVE  Good(WithRecord(tb))
<1> DEFINE w == tb.numOfAttrs
           n == tb.numOfRec
           new == WithRecord(tb)
<1>1. tb \in Table /\ w \in 1 .. AttrLimit /\ n \in Nat /\ n + 1 \in 0 .. MaxRec
  BY CatalogAssumption DEF Good, Table
<1>2. NextPos(tb) = Offset(n, w) /\ NextPos(tb) \in Nat
  <2>1. tb.insertPos = IF n = 0 THEN 0 ELSE Offset(n - 1, w) + 4 * w
    BY DEF Good, Placed, RecSize
  <2>2. /\ tb.insertPos \in Nat
        /\ Offset(n, w) = IF (tb.insertPos % BlockSize) + 4 * w > BlockSize
                          THEN ((tb.insertPos + BlockSize - 1) \div BlockSize) * BlockSize
                          ELSE tb.insertPos
    BY <1>1, <2>1, NextPosIsOffset
  <2>3. (tb.insertPos + BlockSize - 1) \div BlockSize \in Nat
    BY <2>2 DEF BlockSize
  <2> QED BY <2>2, <2>3 DEF NextPos, RecSize, BlocksOf, BlockSize
<1>3. /\ new.numOfAttrs = w /\ new.numOfRec = n + 1
      /\ new.insertPos = Offset(n, w) + 4 * w
      /\ new.numOfIndex = tb.numOfIndex /\ new.index = tb.index
      /\ new \in Table
  <2>1. Offset(n, w) + 4 * w \in Nat
    BY <1>1, <1>2 DEF AttrLimit
  <2> QED BY <1>1, <1>2, <2>1 DEF WithRecord, RecSize, Table
<1>4. Placed(new)
  BY <1>1, <1>3 DEF Placed, RecSize
<1> QED BY <1>3, <1>4 DEF Good, Counted, Distinct

\* A name that is free is in neither map, whether cat_check_index looked or not.
LEMMA FreeMeansAbsent ==
    ASSUME NEW tb, Good(tb)
    PROVE  /\ \A i : NameFree(tb, i) <=> i \notin DOMAIN tb.index
           /\ \A c : ColFree(tb, c) <=> c \notin Indexed(tb)
<1>1. tb.numOfIndex = 0 => DOMAIN tb.index = {}
  BY FS_EmptySet DEF Good, Counted
<1> QED BY <1>1 DEF NameFree, ColFree, Indexed

LEMMA WithIndexIsGood ==
    ASSUME NEW tb, Good(tb), NEW i \in IndexNames, NEW c \in Cols,
           NameFree(tb, i), ColFree(tb, c), HasSlot(tb)
    PROVE  Good(WithIndex(tb, i, c))
<1> DEFINE map == With(tb.index, i, c)
           new == WithIndex(tb, i, c)
<1>1. tb \in Table /\ tb.index \in IndexMaps /\ tb.numOfIndex \in Nat
  BY DEF Good, Table
<1>2. i \notin DOMAIN tb.index /\ c \notin Indexed(tb)
  BY FreeMeansAbsent
<1>3. /\ DOMAIN map = DOMAIN tb.index \cup {i}
      /\ map[i] = c
      /\ \A j \in DOMAIN tb.index : map[j] = tb.index[j]
      /\ map \in IndexMaps
  <2>1. map = [j \in DOMAIN tb.index \cup {i} |-> IF j = i THEN c ELSE tb.index[j]]
    BY DEF With
  <2>2. PICK S \in SUBSET IndexNames : tb.index \in [S -> Cols]
    BY <1>1 DEF IndexMaps
  <2>3. map \in [{i} \cup S -> Cols]
    BY <2>1, <2>2
  <2>4. {i} \cup S \in SUBSET IndexNames
    OBVIOUS
  <2> QED BY <1>2, <2>1, <2>2, <2>3, <2>4 DEF IndexMaps
<1>4. /\ new.numOfAttrs = tb.numOfAttrs /\ new.numOfRec = tb.numOfRec
      /\ new.insertPos = tb.insertPos
      /\ new.numOfIndex = tb.numOfIndex + 1 /\ new.index = map
      /\ new \in Table
  <2> HIDE DEF map
  <2>1. new = [tb EXCEPT !.index = map, !.numOfIndex = tb.numOfIndex + 1]
    BY <1>1 DEF WithIndex, map, Table
  <2> HIDE DEF new
  <2>2. tb.numOfIndex + 1 \in Nat /\ map \in IndexMaps
    BY <1>1, <1>3
  <2> QED BY <1>1, <2>1, <2>2 DEF Table
<1>5. Counted(new)
  <2>1. /\ IsFiniteSet(DOMAIN tb.index \cup {i})
        /\ Cardinality(DOMAIN tb.index \cup {i}) = Cardinality(DOMAIN tb.index) + 1
    BY <1>2, FS_AddElement DEF Good, Counted
  <2>2. tb.numOfIndex + 1 <= IndexLimit
    BY <1>1 DEF HasSlot, IndexLimit
  <2> QED BY <1>3, <1>4, <2>1, <2>2 DEF Good, Counted
<1>6. Distinct(new)
  BY <1>2, <1>3, <1>4 DEF Good, Distinct, Indexed
<1> QED BY <1>4, <1>5, <1>6 DEF Good, Placed, RecSize

LEMMA WithoutIndexIsGood ==
    ASSUME NEW tb, Good(tb), NEW i, ~NameFree(tb, i)
    PROVE  Good(WithoutIndex(tb, i))
<1> DEFINE map == [j \in DOMAIN tb.index \ {i} |-> tb.index[j]]
           new == WithoutIndex(tb, i)
<1>1. tb \in Table /\ tb.index \in IndexMaps /\ tb.numOfIndex \in Nat
  BY DEF Good, Table
<1>2. i \in DOMAIN tb.index
  BY FreeMeansAbsent
<1>3. map \in IndexMaps
  <2>1. PICK S \in SUBSET IndexNames : tb.index \in [S -> Cols]
    BY <1>1 DEF IndexMaps
  <2>2. map \in [S \ {i} -> Cols] /\ S \ {i} \in SUBSET IndexNames
    BY <2>1
  <2> QED BY <2>2 DEF IndexMaps
<1>4. /\ IsFiniteSet(DOMAIN tb.index \ {i})
      /\ Cardinality(DOMAIN tb.index \ {i}) = tb.numOfIndex - 1
      /\ tb.numOfIndex <= IndexLimit
  BY <1>2, FS_RemoveElement DEF Good, Counted
<1>5. tb.numOfIndex - 1 \in Nat /\ tb.numOfIndex - 1 <= IndexLimit
  <2>1. Cardinality(DOMAIN tb.index \ {i}) \in Nat
    BY <1>4, FS_CardinalityType
  <2> QED BY <1>1, <1>4, <2>1 DEF IndexLimit
<1>6. /\ new.numOfAttrs = tb.numOfAttrs /\ new.numOfRec = tb.numOfRec
      /\ new.insertPos = tb.insertPos
      /\ new.numOfIndex = tb.numOfIndex - 1 /\ new.index = map
      /\ new \in Table
  BY <1>1, <1>3, <1>5 DEF WithoutIndex, Table
<1>7. Counted(new) /\ Distinct(new)
  BY <1>4, <1>5, <1>6 DEF Good, Counted, Distinct
<1> QED BY <1>6, <1>7 DEF Good, Placed, RecSize

-------------------------------------------------------------------------------
(* The map of tables. *)

\* A change to one table leaves the others and their number alone.
LEMMA UpdateKeeps ==
    ASSUME CatInv, NEW t \in DOMAIN tables, NEW tb, Good(tb), Update(t, tb)
    PROVE  CatInv'
<1>1. PICK S \in SUBSET Names : tables \in [S -> Table]
  BY DEF CatInv
<1>2. tables' \in [S -> Table] /\ DOMAIN tables' = DOMAIN tables
  BY <1>1 DEF Update, Good
<1>3. \A u \in DOMAIN tables' : Good(tables'[u])
  BY <1>1, <1>2 DEF Update, CatInv
<1> QED BY <1>2, <1>3 DEF CatInv, Update

LEMMA CreateTableKeeps ==
    ASSUME CatInv, NEW t \in Names, NEW w \in Widths, CreateTable(t, w)
    PROVE  CatInv'
<1>1. PICK S \in SUBSET Names : tables \in [S -> Table]
  BY DEF CatInv
<1>2. Good(NewTable(w)) /\ NewTable(w) \in Table
  BY NewTableIsGood DEF CreateTable, Good
<1>3. tables' = [u \in S \cup {t} |-> IF u = t THEN NewTable(w) ELSE tables[u]]
  BY <1>1 DEF CreateTable, With
<1>4. tables' \in [S \cup {t} -> Table] /\ S \cup {t} \in SUBSET Names
  BY <1>1, <1>2, <1>3
<1>5. \A u \in DOMAIN tables' : Good(tables'[u])
  BY <1>1, <1>2, <1>3 DEF CatInv
<1>6. IsFiniteSet(DOMAIN tables') /\ numOfTables' = Cardinality(DOMAIN tables')
  <2>1. S = DOMAIN tables /\ t \notin S
    BY <1>1 DEF CreateTable
  <2>2. /\ IsFiniteSet(S \cup {t})
        /\ Cardinality(S \cup {t}) = Cardinality(S) + 1
    BY <2>1, FS_AddElement DEF CatInv
  <2> QED BY <1>3, <2>1, <2>2 DEF CreateTable, CatInv
<1>7. numOfTables' <= MaxTables
  <2>1. numOfTables \in Nat
    BY FS_CardinalityType DEF CatInv
  <2> QED BY <2>1, CatalogAssumption DEF CreateTable
<1> QED BY <1>4, <1>5, <1>6, <1>7 DEF CatInv

LEMMA DropTableKeeps ==
    ASSUME CatInv, NEW t \in Names, DropTable(t)
    PROVE  CatInv'
<1>1. PICK S \in SUBSET Names : tables \in [S -> Table]
  BY DEF CatInv
<1>2. tables' = [u \in S \ {t} |-> tables[u]] /\ S = DOMAIN tables /\ t \in S
  BY <1>1 DEF DropTable
<1>3. tables' \in [S \ {t} -> Table] /\ S \ {t} \in SUBSET Names
  BY <1>1, <1>2
<1>4. \A u \in DOMAIN tables' : Good(tables'[u])
  BY <1>2 DEF CatInv
<1>5. /\ IsFiniteSet(S \ {t})
      /\ Cardinality(S \ {t}) = numOfTables - 1
  BY <1>2, FS_RemoveElement DEF CatInv
<1>6. numOfTables - 1 <= MaxTables
  <2>1. numOfTables \in Nat /\ numOfTables <= MaxTables
    BY FS_CardinalityType DEF CatInv
  <2> QED BY <2>1, CatalogAssumption
<1> QED BY <1>2, <1>3, <1>4, <1>5, <1>6 DEF CatInv, DropTable

LEMMA InitCat == Init => CatInv
<1> SUFFICES ASSUME Init PROVE CatInv
  OBVIOUS
<1>1. tables = <<>> /\ DOMAIN tables = {} /\ numOfTables = 0
  BY DEF Init
<1>2. tables \in [{} -> Table] /\ {} \in SUBSET Names
  BY <1>1
<1> QED BY <1>1, <1>2, FS_EmptySet, CatalogAssumption DEF CatInv

LEMMA NextCat == CatInv /\ [Next]_vars => CatInv'
<1> SUFFICES ASSUME CatInv, [Next]_vars PROVE CatInv'
  OBVIOUS
<1>1. ASSUME NEW t \in Names, NEW w \in Widths, CreateTable(t, w) PROVE CatInv'
  BY <1>1, CreateTableKeeps
<1>2. ASSUME NEW t \in Names, DropTable(t) PROVE CatInv'
  BY <1>2, DropTableKeeps
<1>3. ASSUME NEW t \in Names, AddRecCount(t) PROVE CatInv'
  <2>1. Good(WithRecord(tables[t]))
    BY <1>3, WithRecordIsGood DEF AddRecCount, CatInv
  <2> QED BY <1>3, <2>1, UpdateKeeps DEF AddRecCount
<1>4. ASSUME NEW t \in Names, NEW i \in IndexNames, NEW c \in Cols, CreateIndex(t, i, c)
      PROVE  CatInv'
  <2>1. Good(WithIndex(tables[t], i, c))
    BY <1>4, WithIndexIsGood DEF CreateIndex, CatInv
  <2> QED BY <1>4, <2>1, UpdateKeeps DEF CreateIndex
<1>5. ASSUME NEW t \in Names, NEW i \in IndexNames, DropIndex(t, i) PROVE CatInv'
  <2>1. Good(WithoutIndex(tables[t], i))
    BY <1>5, WithoutIndexIsGood DEF DropIndex, CatInv
  <2> QED BY <1>5, <2>1, UpdateKeeps DEF DropIndex
<1>6. CASE UNCHANGED vars
  BY <1>6 DEF vars, CatInv
<1> QED BY <1>1, <1>2, <1>3, <1>4, <1>5, <1>6 DEF Next

LEMMA CatInvariant == Spec => []CatInv
BY InitCat, NextCat, PTL DEF Spec

-------------------------------------------------------------------------------
(* Theorems. *)

\* The type invariant of the catalog: what add_rec, add_rec_count and the index
\* operations store in a table's entry.
THEOREM CatalogTyped == Spec => []TypeOK
<1>1. CatInv => TypeOK
  <2> SUFFICES ASSUME CatInv PROVE TypeOK
    OBVIOUS
  <2>1. numOfTables \in 0 .. MaxTables
    BY FS_CardinalityType, CatalogAssumption DEF CatInv
  <2>2. DOMAIN tables \subseteq Names
    BY DEF CatInv
  <2>3. ASSUME NEW t \in DOMAIN tables
        PROVE  /\ tables[t].numOfAttrs \in 1 .. AttrLimit
               /\ tables[t].insertPos \in Nat
               /\ tables[t].numOfRec \in 0 .. MaxRec
               /\ tables[t].numOfIndex \in Nat
               /\ DOMAIN tables[t].index \subseteq IndexNames
    <3>1. tables[t] \in Table
      BY DEF CatInv, Good
    <3> QED BY <3>1 DEF Table, IndexMaps
  <2> QED BY <2>1, <2>2, <2>3 DEF TypeOK
<1> QED BY <1>1, CatInvariant, PTL

\* add_rec_count puts the records of every table one behind the other, as many
\* whole ones in a block as fit: none straddles, overlaps or leaves a gap.
THEOREM RecordsAreFilledInOrder == Spec => []Placement
<1>1. CatInv => Placement
  BY DEF CatInv, Good, Placed, Placement
<1> QED BY <1>1, CatInvariant, PTL

\* numOfTables and numOfIndex count the maps that add_rec, del_rec,
\* cat_create_index and cat_drop_index change, within their limits.
THEOREM CountersRight == Spec => []CountersAgree
<1>1. CatInv => CountersAgree
  BY DEF CatInv, Good, Counted, CountersAgree
<1> QED BY <1>1, CatInvariant, PTL

\* cat_check_index, which trusts numOfIndex, never lets two indexes of a table
\* onto one column, so no two of them share an index file.
THEOREM IndexFilesDiffer == Spec => []OneIndexPerColumn
<1>1. CatInv => OneIndexPerColumn
  BY DEF CatInv, Good, Distinct, OneIndexPerColumn
<1> QED BY <1>1, CatInvariant, PTL
=============================================================================
