-------------------------------- MODULE Catalog --------------------------------
(***************************************************************************)
(* The catalog of catalog.cpp and table.cpp: which tables exist, where the *)
(* next record of each goes, and which columns are indexed.  Columns are   *)
(* positions, taken to have distinct names; a table's "index" maps index   *)
(* names to columns and stands for index_name and index_pos, which the     *)
(* code updates together.                                                  *)
(***************************************************************************)
EXTENDS Integers, FiniteSets

CONSTANTS Names,        \* table names, of at most three characters
          IndexNames,   \* index names
          Cols,         \* columns named by CREATE INDEX
          Widths,       \* numbers of columns of CREATE TABLE
          MaxTables,    \* MAX_TABLES
          MaxRec        \* bound of the model: records of a table

ASSUME CatalogAssumption ==
    /\ Widths \subseteq Nat \ {0}
    /\ Cols \subseteq Nat \ {0}
    /\ MaxTables \in Nat
    /\ MaxRec \in Nat

VARIABLES tables, numOfTables

vars == <<tables, numOfTables>>

BlockSize == 48
AttrLimit == 8
IndexLimit == 2

NewTable(w) == [numOfAttrs |-> w, insertPos |-> 0, numOfRec |-> 0,
                numOfIndex |-> 0, index |-> <<>>]

Init == tables = <<>> /\ numOfTables = 0

\* The map f with v at x, as std::map's operator[] leaves it.
With(f, x, v) == [y \in DOMAIN f \cup {x} |-> IF y = x THEN v ELSE f[y]]

-------------------------------------------------------------------------------
(* Where records go. *)

RecSize(tb) == 4 * tb.numOfAttrs

BlocksOf(tb) == (tb.insertPos + BlockSize - 1) \div BlockSize

\* Mutant: a record that just fits starts a new block.
NextPos_Strict(tb) ==
    IF (tb.insertPos % BlockSize) + RecSize(tb) >= BlockSize
    THEN BlocksOf(tb) * BlockSize
    ELSE tb.insertPos

\* A record that does not fit behind the last one starts the next block.
NextPos(tb) ==
    IF (tb.insertPos % BlockSize) + RecSize(tb) > BlockSize
    THEN BlocksOf(tb) * BlockSize
    ELSE tb.insertPos

WithRecord(tb) == [tb EXCEPT !.insertPos = NextPos(tb) + RecSize(tb), !.numOfRec = @ + 1]

-------------------------------------------------------------------------------
(* Indexes. *)

Indexed(tb) == {tb.index[i] : i \in DOMAIN tb.index}

\* What cat_check_index says of creating index i on column c.
NameFree(tb, i) == tb.numOfIndex = 0 \/ i \notin DOMAIN tb.index
ColFree_Always(tb, c) == TRUE      \* mutant
ColFree(tb, c)  == tb.numOfIndex = 0 \/ c \notin Indexed(tb)

HasSlot(tb) == tb.numOfIndex < IndexLimit

WithIndex(tb, i, c) == [tb EXCEPT !.index = With(@, i, c), !.numOfIndex = @ + 1]

\* Mutant: numOfIndex stays.
WithoutIndex_NotCounted(tb, i) == [tb EXCEPT !.index = [j \in DOMAIN @ \ {i} |-> @[j]]]

WithoutIndex(tb, i) ==
    [tb EXCEPT !.index = [j \in DOMAIN @ \ {i} |-> @[j]], !.numOfIndex = @ - 1]

-------------------------------------------------------------------------------

\* Mutant: the number of columns is not checked.
CreateTable_AnyWidth(t, w) ==
    /\ t \notin DOMAIN tables /\ numOfTables < MaxTables
    /\ tables' = With(tables, t, NewTable(w))
    /\ numOfTables' = numOfTables + 1

CreateTable(t, w) ==
    /\ w <= AttrLimit
    /\ t \notin DOMAIN tables
    /\ numOfTables < MaxTables
    /\ tables' = With(tables, t, NewTable(w))
    /\ numOfTables' = numOfTables + 1

DropTable(t) ==
    /\ t \in DOMAIN tables
    /\ tables' = [u \in DOMAIN tables \ {t} |-> tables[u]]
    /\ numOfTables' = numOfTables - 1

Update(t, tb) == tables' = [tables EXCEPT ![t] = tb] /\ UNCHANGED numOfTables

AddRecCount(t) ==
    /\ t \in DOMAIN tables
    /\ tables[t].numOfRec < MaxRec
    /\ Update(t, WithRecord(tables[t]))

CreateIndex(t, i, c) ==
    /\ t \in DOMAIN tables /\ c <= tables[t].numOfAttrs
    /\ NameFree(tables[t], i) /\ ColFree(tables[t], c)
    /\ HasSlot(tables[t])
    /\ Update(t, WithIndex(tables[t], i, c))

\* drop_index asks cat_check_index whether the name is in use.
DropIndex(t, i) ==
    /\ t \in DOMAIN tables /\ ~NameFree(tables[t], i)
    /\ Update(t, WithoutIndex(tables[t], i))

Next ==
    \/ \E t \in Names, w \in Widths : CreateTable(t, w)
    \/ \E t \in Names : DropTable(t) \/ AddRecCount(t)
    \/ \E t \in Names, i \in IndexNames, c \in Cols : CreateIndex(t, i, c)
    \/ \E t \in Names, i \in IndexNames : DropIndex(t, i)

Spec == Init /\ [][Next]_vars

-------------------------------------------------------------------------------
(* Properties. *)

\* Every entry of the catalog ranges over what the code can store in it.
TypeOK ==
    /\ DOMAIN tables \subseteq Names
    /\ numOfTables \in 0 .. MaxTables
    /\ \A t \in DOMAIN tables :
          /\ tables[t].numOfAttrs \in 1 .. AttrLimit
          /\ tables[t].insertPos \in Nat
          /\ tables[t].numOfRec \in 0 .. MaxRec
          /\ tables[t].numOfIndex \in Nat
          /\ DOMAIN tables[t].index \subseteq IndexNames

PerBlock(w) == BlockSize \div (4 * w)

\* The byte offset of record n, counted from 0, when blocks are filled in order.
Offset(n, w) == (n \div PerBlock(w)) * BlockSize + (n % PerBlock(w)) * (4 * w)

\* insertPos is where the last counted record ends when every block holds as many
\* whole records as fit: no record straddles a block, overlaps another or leaves
\* a gap that a scan, which reads 12/numOfAttrs records of each of the
\* ceil(insertPos/48) blocks, would miss or read twice.
Placement ==
    \A t \in DOMAIN tables :
       LET tb == tables[t]
       IN  tb.insertPos = IF tb.numOfRec = 0 THEN 0
                          ELSE Offset(tb.numOfRec - 1, tb.numOfAttrs) + RecSize(tb)

\* The counters and the maps they count agree: get_index_attr allocates
\* numOfIndex cells and fills one per entry of the map, and add_rec trusts
\* numOfTables.  (catalog.cpp:61, 118)
CountersAgree ==
    /\ numOfTables = Cardinality(DOMAIN tables)
    /\ \A t \in DOMAIN tables :
          /\ tables[t].numOfIndex = Cardinality(DOMAIN tables[t].index)
          /\ tables[t].numOfIndex <= IndexLimit

\* Two indexes of a table are never on one column: an index file is named by its
\* table and column, so they would share a file.  (file.cpp:124)
OneIndexPerColumn ==
    \A t \in DOMAIN tables : \A i, j \in DOMAIN tables[t].index :
       tables[t].index[i] = tables[t].index[j] => i = j

===============================================================================
