------------------------------ MODULE EngineProofs ------------------------------
(***************************************************************************)
(* The engine for any names, keys, width and number of records.  Three     *)
(* invariants, each over the one before: where the rows accepted are now   *)
(* (store), where those of the latest EXIT are on disk (durable), that the *)
(* second are the first of the first and, while no process crashed, that   *)
(* nothing else is there; what each index file has of these rows; and that *)
(* an index from before the first crash has every record of its table.     *)
(***************************************************************************)
EXTENDS Engine, TLAPS

CP == INSTANCE CatalogProofs WITH Widths <- {Width}

Contents == [Names -> [Blocks -> [Slots -> Rows \cup {Blank}]]]

\* A catalog that the operations of table.cpp can have made.
CatOK(tbs, n) ==
    /\ tbs \in UNION {[S -> CP!Table] : S \in SUBSET Names}
    /\ CP!IsFiniteSet(DOMAIN tbs)
    /\ n = CP!Cardinality(DOMAIN tbs)
    /\ n <= MaxTables
    /\ \A t \in DOMAIN tbs : CP!Good(tbs[t])

\* The catalog counts the rows.
Fit(tbs, rs) ==
    /\ DOMAIN rs = DOMAIN tbs
    /\ \A t \in DOMAIN tbs :
          /\ tbs[t].numOfAttrs = Width
          /\ rs[t] \in Seq(Rows)
          /\ Len(rs[t]) = tbs[t].numOfRec

Begins(l, m) == Len(l) <= Len(m) /\ \A i \in 1 .. Len(l) : l[i] = m[i]

\* The rows of a list are where filling the blocks in order puts them.
Holds(content, t, list) ==
    \A i \in 1 .. Len(list) : content[t][Place(i)[1]][Place(i)[2]] = list[i]

\* Nothing else is.
Only(content, t, list) ==
    \A b \in Blocks, s \in Slots :
       content[t][b][s] # Blank =>
         \E i \in 1 .. Len(list) : Place(i) = <<b, s>> /\ content[t][b][s] = list[i]

RowsOf(rs, t) == IF t \in DOMAIN rs THEN rs[t] ELSE <<>>

\* The invariant, whatever crashes.
RowsInv ==
    /\ up \in BOOLEAN
    /\ CatOK(tables, numOfTables) /\ Fit(tables, rows)
    /\ CatOK(saved[1], saved[2]) /\ Fit(saved[1], savedRows)
    /\ store \in Contents /\ durable \in Contents
    /\ up => \A t \in DOMAIN saved[1] \ dropped :
                t \in DOMAIN tables /\ Begins(savedRows[t], rows[t])
    /\ up => \A t \in DOMAIN tables \ dropped : Holds(store, t, rows[t])
    /\ \A t \in DOMAIN saved[1] \ dropped : Holds(durable, t, savedRows[t])

\* What is added while no process has crashed.
OnlyInv ==
    ~crashed =>
      /\ up => \A t \in Names \ dropped :
                  Only(store, t, RowsOf(rows, t)) /\ Only(durable, t, RowsOf(rows, t))
      /\ ~up => \A t \in Names \ dropped : Only(durable, t, RowsOf(savedRows, t))

-------------------------------------------------------------------------------
(* Positions.  The arithmetic is over the eight widths the catalog accepts. *)

\* The place after n rows: which block and slot, and that it is where
\* add_rec_count puts the record.
LEMMA PlaceFacts ==
    ASSUME NEW n \in Nat
    PROVE  /\ Per \in Nat \ {0}
           /\ n \div Per \in Nat /\ n % Per \in Slots
           /\ LET o == CP!Offset(n, Width)
              IN  /\ o \in Nat
                  /\ o \div 48 = n \div Per
                  /\ (o % 48) \div (4 * Width) = n % Per
                  /\ (o + 4 * Width + 48 - 1) \div 48 = (n \div Per) + 1
<1> USE DEF Per, Slots, Cat!PerBlock, Cat!BlockSize, CP!Offset, CP!PerBlock, CP!BlockSize
<1>1. CASE Width = 1 BY <1>1
<1>2. CASE Width = 2 BY <1>2
<1>3. CASE Width = 3 BY <1>3
<1>4. CASE Width = 4 BY <1>4
<1>5. CASE Width = 5 BY <1>5
<1>6. CASE Width = 6 BY <1>6
<1>7. CASE Width = 7 BY <1>7
<1>8. CASE Width = 8 BY <1>8
<1> QED
  BY <1>1, <1>2, <1>3, <1>4, <1>5, <1>6, <1>7, <1>8, EngineAssumption

LEMMA PerIs == Per \in 1 .. 12
<1> USE DEF Per, Cat!PerBlock, Cat!BlockSize
<1>1. CASE Width = 1 BY <1>1
<1>2. CASE Width = 2 BY <1>2
<1>3. CASE Width = 3 BY <1>3
<1>4. CASE Width = 4 BY <1>4
<1>5. CASE Width = 5 BY <1>5
<1>6. CASE Width = 6 BY <1>6
<1>7. CASE Width = 7 BY <1>7
<1>8. CASE Width = 8 BY <1>8
<1> QED
  BY <1>1, <1>2, <1>3, <1>4, <1>5, <1>6, <1>7, <1>8, EngineAssumption

\* A position is a block and a slot, and each block and slot is one position.
LEMMA Division ==
    ASSUME NEW n \in Nat
    PROVE  /\ n \div Per \in Nat /\ n % Per \in 0 .. Per - 1
           /\ n = Per * (n \div Per) + (n % Per)
BY PerIs

LEMMA DivisionIsUnique ==
    ASSUME NEW b \in Nat, NEW s \in 0 .. Per - 1
    PROVE  /\ Per * b + s \in Nat
           /\ (Per * b + s) \div Per = b /\ (Per * b + s) % Per = s
BY PerIs

LEMMA DivisionOrder ==
    ASSUME NEW n \in Nat, NEW m \in Nat, n <= m
    PROVE  n \div Per \in Nat /\ m \div Per \in Nat /\ n \div Per <= m \div Per
BY Division, PerIs

\* Different rows are in different places.
LEMMA PlacesDiffer ==
    ASSUME NEW i \in Nat \ {0}, NEW j \in Nat \ {0}, Place(i) = Place(j)
    PROVE  i = j
<1>1. i - 1 \in Nat /\ j - 1 \in Nat
  OBVIOUS
<1>2. (i - 1) \div Per = (j - 1) \div Per /\ (i - 1) % Per = (j - 1) % Per
  BY DEF Place
<1> QED BY <1>1, <1>2, Division

\* A record of the bounded number of records is in one of the blocks.
LEMMA PlaceIsInFile ==
    ASSUME NEW n \in 1 .. MaxRec
    PROVE  Place(n) \in Blocks \X Slots
<1> DEFINE m == MaxRec - 1
<1>1. n - 1 \in Nat /\ m \in Nat /\ n - 1 <= m
  BY EngineAssumption
<1>2. (n - 1) \div Per \in Nat /\ m \div Per \in Nat /\ (n - 1) % Per \in 0 .. Per - 1
  BY <1>1, Division
<1>3. (n - 1) \div Per <= m \div Per
  BY <1>1, DivisionOrder
<1> QED BY <1>2, <1>3 DEF Place, Blocks, Slots

\* The slots in front of a row in its block have the rows before it.
LEMMA RowsBefore ==
    ASSUME NEW i \in Nat \ {0}, NEW s \in 0 .. Place(i)[2]
    PROVE  \E j \in 1 .. i : Place(j) = <<Place(i)[1], s>>
<1> DEFINE b == (i - 1) \div Per
           j == Per * b + s + 1
<1>1. i - 1 \in Nat /\ b \in Nat /\ (i - 1) % Per \in 0 .. Per - 1
      /\ i - 1 = Per * b + ((i - 1) % Per) /\ s \in 0 .. Per - 1 /\ s <= (i - 1) % Per
  BY Division, PerIs DEF Place
<1>2. Per * b \in Nat
  BY <1>1, PerIs
<1>3. j \in 1 .. i
  BY <1>1, <1>2
<1>4. j - 1 = Per * b + s
  BY <1>1, <1>2
<1>5. Place(j) = <<b, s>>
  BY <1>1, <1>4, DivisionIsUnique DEF Place
<1> QED BY <1>3, <1>5 DEF Place

\* A row behind n rows that comes first in a block finds none of them there.
LEMMA FreshBlock ==
    ASSUME NEW n \in Nat, n % Per = 0, NEW i \in 1 .. n
    PROVE  Place(i)[1] # n \div Per
<1> DEFINE b == (i - 1) \div Per
<1>1. i - 1 \in Nat /\ b \in Nat /\ (i - 1) % Per \in 0 .. Per - 1
      /\ i - 1 = Per * b + ((i - 1) % Per)
  BY Division, PerIs
<1>2. n = Per * (n \div Per) /\ n \div Per \in Nat
  BY Division, PerIs
<1>3. b # n \div Per
  BY <1>1, <1>2, PerIs
<1> QED BY <1>3 DEF Place

-------------------------------------------------------------------------------
(* What the steps of the block store do to the rows. *)

\* A list of rows that a table can hold.
Lists == {l \in Seq(Rows) : Len(l) <= MaxRec}

LEMMA RowIsNotBlank == Blank \notin Rows
BY EngineAssumption DEF Rows

\* Every block on disk is as it was, or as the store has it.
Saves ==
    /\ durable' \in Contents
    /\ \A t \in Names, b \in Blocks :
          durable'[t][b] = store[t][b] \/ durable'[t][b] = durable[t][b]

LEMMA WriteBackSaves ==
    ASSUME store \in Contents, durable \in Contents, Pool!WriteBack
    PROVE  Saves
<1>1. PICK out \in [Names -> SUBSET Blocks] :
         durable' = [t \in Names |->
                       [b \in Blocks |-> IF b \in out[t] THEN store[t][b] ELSE durable[t][b]]]
  BY DEF Pool!WriteBack
<1>2. \A t \in Names, b \in Blocks :
         durable'[t][b] = store[t][b] \/ durable'[t][b] = durable[t][b]
  BY <1>1
<1>3. \A t \in Names, b \in Blocks :
         store[t][b] \in [Slots -> Rows \cup {Blank}] /\ durable[t][b] \in [Slots -> Rows \cup {Blank}]
  BY DEF Contents
<1>4. durable' \in Contents
  BY <1>1, <1>3 DEF Contents
<1> QED BY <1>2, <1>4 DEF Saves

LEMMA CommitSavesAll ==
    ASSUME store \in Contents, durable \in Contents, NEW live, Pool!Commit(live)
    PROVE  /\ Saves /\ store' = store
           /\ \A t \in Names : durable'[t] = IF t \in live THEN store[t] ELSE durable[t]
BY DEF Pool!Commit, Contents, Saves

\* What the store and the disk agree on stays on disk.
LEMMA SavesHolds ==
    ASSUME Saves, NEW t \in Names, NEW list \in Lists,
           Holds(store, t, list), Holds(durable, t, list)
    PROVE  Holds(durable', t, list)
<1> SUFFICES ASSUME NEW i \in 1 .. Len(list)
             PROVE  durable'[t][Place(i)[1]][Place(i)[2]] = list[i]
  BY DEF Holds
<1>1. i \in 1 .. MaxRec
  BY EngineAssumption DEF Lists
<1>2. Place(i)[1] \in Blocks
  BY <1>1, PlaceIsInFile
<1> QED BY <1>2 DEF Saves, Holds

LEMMA SavesOnly ==
    ASSUME Saves, NEW t \in Names, NEW list, Only(store, t, list), Only(durable, t, list)
    PROVE  Only(durable', t, list)
BY DEF Saves, Only

\* A write changes one place and, at the first one of a block, may blank the
\* rest of that block.
LEMMA WriteChanges ==
    ASSUME store \in Contents, NEW t \in Names, NEW b \in Blocks, NEW s \in Slots,
           NEW r \in Rows, Pool!Write(t, b, s, r)
    PROVE  /\ store' \in Contents
           /\ \A u \in Names : u # t => store'[u] = store[u]
           /\ store'[t][b][s] = r
           /\ \A c \in Blocks, v \in Slots :
                 \/ <<c, v>> = <<b, s>>
                 \/ store'[t][c][v] = store[t][c][v]
                 \/ (s = 0 /\ c = b /\ store'[t][c][v] = Blank)
<1>0. store[t][b] \in [Slots -> Rows \cup {Blank}] /\ Pool!BlankBlock \in [Slots -> Rows \cup {Blank}]
  BY DEF Contents, Pool!BlankBlock
<1>1. PICK d \in [Slots -> Rows \cup {Blank}] :
         /\ store' = [store EXCEPT ![t] = [@ EXCEPT ![b] = d]]
         /\ \/ d = [store[t][b] EXCEPT ![s] = r]
            \/ s = 0 /\ d = [Pool!BlankBlock EXCEPT ![s] = r]
  BY <1>0 DEF Pool!Write
<1>2. store' \in Contents
  BY <1>1 DEF Contents
<1>3. \A u \in Names : u # t => store'[u] = store[u]
  BY <1>1 DEF Contents
<1>4. \A c \in Blocks : store'[t][c] = IF c = b THEN d ELSE store[t][c]
  BY <1>1 DEF Contents
<1>5. d[s] = r /\ \A v \in Slots \ {s} : d[v] = store[t][b][v] \/ (s = 0 /\ d[v] = Blank)
  BY <1>0, <1>1 DEF Pool!BlankBlock
<1> QED BY <1>2, <1>3, <1>4, <1>5

\* A row written behind the others keeps them, and is the only thing added.
LEMMA AppendHolds ==
    ASSUME store \in Contents, NEW t \in Names, NEW list \in Lists, Len(list) < MaxRec,
           NEW r \in Rows,
           Pool!Write(t, Len(list) \div Per, Len(list) % Per, r)
    PROVE  /\ Holds(store, t, list) => Holds(store', t, Append(list, r))
           /\ Only(store, t, list) => Only(store', t, Append(list, r))
<1> DEFINE n == Len(list)
           new == Append(list, r)
           b == n \div Per
           s == n % Per
<1>1. n \in Nat /\ n + 1 \in 1 .. MaxRec /\ new \in Seq(Rows) /\ Len(new) = n + 1
      /\ new[n + 1] = r /\ \A i \in 1 .. n : new[i] = list[i]
  BY EngineAssumption DEF Lists
<1>2. Place(n + 1) = <<b, s>> /\ b \in Blocks /\ s \in Slots
  <2>1. (n + 1) - 1 = n
    BY <1>1
  <2> QED BY <1>1, <2>1, PlaceIsInFile DEF Place
<1>3. /\ store'[t][b][s] = r
      /\ \A c \in Blocks, v \in Slots :
            \/ <<c, v>> = <<b, s>>
            \/ store'[t][c][v] = store[t][c][v]
            \/ (s = 0 /\ c = b /\ store'[t][c][v] = Blank)
  BY <1>2, WriteChanges
<1> HIDE DEF n, new
<1>4. ASSUME Holds(store, t, list) PROVE Holds(store', t, new)
  <2> SUFFICES ASSUME NEW i \in 1 .. n
               PROVE  store'[t][Place(i)[1]][Place(i)[2]] = list[i]
    BY <1>1, <1>2, <1>3 DEF Holds
  <2>1. i \in 1 .. MaxRec /\ i # n + 1 /\ i \in Nat \ {0} /\ n + 1 \in Nat \ {0}
    BY <1>1, EngineAssumption
  <2>2. Place(i) \in Blocks \X Slots /\ Place(i) = <<Place(i)[1], Place(i)[2]>>
    BY <2>1, PlaceIsInFile
  <2>3. Place(i) # <<b, s>>
    BY <1>2, <2>1, PlacesDiffer
  <2>4. s = 0 => Place(i)[1] # b
    BY <1>1, FreshBlock
  <2>5. store[t][Place(i)[1]][Place(i)[2]] = list[i]
    BY <1>4 DEF Holds, n
  <2> QED BY <1>3, <2>2, <2>3, <2>4, <2>5
<1>5. ASSUME Only(store, t, list) PROVE Only(store', t, new)
  <2> SUFFICES ASSUME NEW c \in Blocks, NEW v \in Slots, store'[t][c][v] # Blank
               PROVE  \E i \in 1 .. n + 1 : Place(i) = <<c, v>> /\ store'[t][c][v] = new[i]
    BY <1>1 DEF Only
  <2>1. CASE <<c, v>> = <<b, s>>
    BY <1>1, <1>2, <1>3, <2>1
  <2>2. CASE <<c, v>> # <<b, s>>
    <3>1. store[t][c][v] # Blank /\ store'[t][c][v] = store[t][c][v]
      BY <1>3, <2>2
    <3>2. PICK i \in 1 .. n : Place(i) = <<c, v>> /\ store[t][c][v] = list[i]
      BY <1>5, <3>1 DEF Only, n
    <3>3. new[i] = list[i] /\ i \in 1 .. n + 1
      BY <1>1
    <3> QED BY <3>1, <3>2, <3>3
  <2> QED BY <2>1, <2>2
<1> QED BY <1>4, <1>5 DEF n, new

-------------------------------------------------------------------------------
(* What the operations of the catalog do to the two catalogs, by the lemmas on *)
(* the catalog alone.                                                         *)

LEMMA CatIs == CP!CatInv <=> CatOK(tables, numOfTables)
BY DEF CP!CatInv, CatOK

LEMMA TableOf ==
    ASSUME NEW tbs, NEW n, CatOK(tbs, n), NEW t \in DOMAIN tbs
    PROVE  /\ t \in Names /\ tbs[t] \in CP!Table /\ CP!Good(tbs[t])
           /\ tbs = [u \in DOMAIN tbs |-> tbs[u]]
BY DEF CatOK, CP!Good

\* The catalog's place for the next record, in blocks and slots, and the number
\* of blocks a scan reads.
LEMMA NextPlace ==
    ASSUME NEW tb, CP!Good(tb), tb.numOfAttrs = Width
    PROVE  LET n == tb.numOfRec
           IN  /\ n \in 0 .. MaxRec
               /\ Cat!NextPos(tb) \div Cat!BlockSize = n \div Per
               /\ (Cat!NextPos(tb) % Cat!BlockSize) \div Cat!RecSize(tb) = n % Per
               /\ Cat!BlocksOf(tb) = IF n = 0 THEN 0 ELSE ((n - 1) \div Per) + 1
<1> DEFINE n == tb.numOfRec
           w == tb.numOfAttrs
           p == IF n = 0 THEN 0 ELSE CP!Offset(n - 1, w) + 4 * w
<1>1. n \in 0 .. MaxRec /\ n \in Nat /\ w \in 1 .. CP!AttrLimit /\ tb.insertPos = p
  BY EngineAssumption DEF CP!Good, CP!Table, CP!Placed, CP!RecSize
<1>2. /\ p \in Nat
      /\ CP!Offset(n, w) = IF (p % CP!BlockSize) + 4 * w > CP!BlockSize
                           THEN ((p + CP!BlockSize - 1) \div CP!BlockSize) * CP!BlockSize
                           ELSE p
  BY <1>1, CP!NextPosIsOffset, EngineAssumption DEF CP!CatalogAssumption
<1>3. Cat!NextPos(tb) = CP!Offset(n, w)
  BY <1>1, <1>2 DEF Cat!NextPos, Cat!BlocksOf, Cat!RecSize, Cat!BlockSize, CP!BlockSize
<1>4. /\ Cat!NextPos(tb) \div Cat!BlockSize = n \div Per
      /\ (Cat!NextPos(tb) % Cat!BlockSize) \div Cat!RecSize(tb) = n % Per
  BY <1>1, <1>3, PlaceFacts DEF Cat!BlockSize, Cat!RecSize
<1>5. CASE n = 0
  BY <1>1, <1>4, <1>5 DEF Cat!BlocksOf, Cat!BlockSize
<1>6. CASE n # 0
  <2>1. n - 1 \in Nat
    BY <1>1, <1>6
  <2>2. (CP!Offset(n - 1, Width) + 4 * Width + 48 - 1) \div 48 = ((n - 1) \div Per) + 1
    BY <2>1, PlaceFacts
  <2> QED BY <1>1, <1>4, <1>6, <2>2 DEF Cat!BlocksOf, Cat!BlockSize
<1> QED BY <1>5, <1>6

LEMMA CreateTableFits ==
    ASSUME CatOK(tables, numOfTables), Fit(tables, rows),
           NEW t \in Names, Cat!CreateTable(t, Width), rows' = Cat!With(rows, t, <<>>)
    PROVE  /\ CatOK(tables', numOfTables') /\ Fit(tables', rows')
           /\ t \notin DOMAIN tables /\ DOMAIN tables' = DOMAIN tables \cup {t}
           /\ rows'[t] = <<>> /\ Cat!Indexed(tables'[t]) = {}
           /\ \A u \in DOMAIN tables : tables'[u] = tables[u] /\ rows'[u] = rows[u]
<1>1. CP!CreateTable(t, Width)
  BY DEF Cat!CreateTable, CP!CreateTable, Cat!With, CP!With, Cat!NewTable, CP!NewTable,
         Cat!AttrLimit, CP!AttrLimit
<1>2. CP!CatInv'
  BY <1>1, CatIs, CP!CreateTableKeeps, EngineAssumption DEF CP!CatalogAssumption
<1>3. CatOK(tables', numOfTables')
  BY <1>2 DEF CP!CatInv, CatOK
<1>4. /\ t \notin DOMAIN tables
      /\ tables' = [u \in DOMAIN tables \cup {t} |->
                      IF u = t THEN Cat!NewTable(Width) ELSE tables[u]]
      /\ rows' = [u \in DOMAIN rows \cup {t} |-> IF u = t THEN <<>> ELSE rows[u]]
  BY DEF Cat!CreateTable, Cat!With
<1>5. /\ Cat!NewTable(Width).numOfAttrs = Width /\ Cat!NewTable(Width).numOfRec = 0
      /\ Cat!Indexed(Cat!NewTable(Width)) = {}
  BY DEF Cat!NewTable, Cat!Indexed
<1>6. <<>> \in Seq(Rows) /\ Len(<<>>) = 0
  OBVIOUS
<1>7. Fit(tables', rows')
  BY <1>4, <1>5, <1>6 DEF Fit
<1> QED BY <1>3, <1>4, <1>5, <1>7 DEF Fit

LEMMA DropTableFits ==
    ASSUME CatOK(tables, numOfTables), Fit(tables, rows),
           NEW t \in Names, Cat!DropTable(t), rows' = Without(rows, {t})
    PROVE  /\ CatOK(tables', numOfTables') /\ Fit(tables', rows')
           /\ DOMAIN tables' = DOMAIN tables \ {t}
           /\ \A u \in DOMAIN tables' : tables'[u] = tables[u] /\ rows'[u] = rows[u]
<1>1. CP!DropTable(t)
  BY DEF Cat!DropTable, CP!DropTable
<1>2. CP!CatInv'
  BY <1>1, CatIs, CP!DropTableKeeps, EngineAssumption DEF CP!CatalogAssumption
<1>3. CatOK(tables', numOfTables')
  BY <1>2 DEF CP!CatInv, CatOK
<1>4. /\ tables' = [u \in DOMAIN tables \ {t} |-> tables[u]]
      /\ rows' = [u \in DOMAIN rows \ {t} |-> rows[u]]
  BY DEF Cat!DropTable, Without
<1> QED BY <1>3, <1>4 DEF Fit

\* One table of the catalog changes.
LEMMA UpdateFits ==
    ASSUME CatOK(tables, numOfTables), NEW t \in DOMAIN tables, NEW tb, CP!Good(tb),
           Cat!Update(t, tb)
    PROVE  /\ CatOK(tables', numOfTables') /\ DOMAIN tables' = DOMAIN tables
           /\ tables'[t] = tb
           /\ \A u \in DOMAIN tables : u # t => tables'[u] = tables[u]
<1>1. CP!Update(t, tb)
  BY DEF Cat!Update, CP!Update
<1>2. CP!CatInv'
  BY <1>1, CatIs, CP!UpdateKeeps, EngineAssumption DEF CP!CatalogAssumption
<1>3. CatOK(tables', numOfTables')
  BY <1>2 DEF CP!CatInv, CatOK
<1>4. tables' = [tables EXCEPT ![t] = tb]
  BY DEF Cat!Update
<1>5. tables = [u \in DOMAIN tables |-> tables[u]]
  BY TableOf
<1> QED BY <1>3, <1>4, <1>5

LEMMA AddRecFits ==
    ASSUME CatOK(tables, numOfTables), Fit(tables, rows),
           NEW t \in Names, Cat!AddRecCount(t),
           NEW r \in Rows, rows' = [rows EXCEPT ![t] = Append(@, r)]
    PROVE  /\ CatOK(tables', numOfTables') /\ Fit(tables', rows')
           /\ DOMAIN tables' = DOMAIN tables
           /\ rows'[t] = Append(rows[t], r) /\ tables'[t].index = tables[t].index
           /\ \A u \in DOMAIN tables : u # t => tables'[u] = tables[u] /\ rows'[u] = rows[u]
<1>1. t \in DOMAIN tables /\ tables[t].numOfRec < MaxRec
      /\ Cat!Update(t, Cat!WithRecord(tables[t]))
  BY DEF Cat!AddRecCount
<1>2. tables[t] \in CP!Table /\ CP!Good(tables[t])
  BY <1>1, TableOf
<1>3. Cat!WithRecord(tables[t]) = CP!WithRecord(tables[t])
  BY DEF Cat!WithRecord, CP!WithRecord, Cat!NextPos, CP!NextPos, Cat!RecSize, CP!RecSize,
         Cat!BlocksOf, CP!BlocksOf, Cat!BlockSize, CP!BlockSize
<1>4. CP!Good(CP!WithRecord(tables[t]))
  BY <1>1, <1>2, CP!WithRecordIsGood, EngineAssumption DEF CP!CatalogAssumption
<1>5. /\ CatOK(tables', numOfTables') /\ DOMAIN tables' = DOMAIN tables
      /\ tables'[t] = CP!WithRecord(tables[t])
      /\ \A u \in DOMAIN tables : u # t => tables'[u] = tables[u]
  BY <1>1, <1>3, <1>4, UpdateFits
<1>6. /\ tables'[t].numOfAttrs = tables[t].numOfAttrs
      /\ tables'[t].numOfRec = tables[t].numOfRec + 1
      /\ tables'[t].index = tables[t].index
  BY <1>2, <1>5 DEF CP!WithRecord, CP!Table
<1>7. /\ rows'[t] = Append(rows[t], r) /\ DOMAIN rows' = DOMAIN rows
      /\ \A u \in DOMAIN rows : u # t => rows'[u] = rows[u]
  BY <1>1 DEF Fit
<1>8. /\ Append(rows[t], r) \in Seq(Rows)
      /\ Len(Append(rows[t], r)) = Len(rows[t]) + 1
  BY <1>1 DEF Fit
<1>9. Fit(tables', rows')
  BY <1>1, <1>5, <1>6, <1>7, <1>8 DEF Fit
<1> QED BY <1>5, <1>6, <1>7, <1>9 DEF Fit

LEMMA CreateIndexFits ==
    ASSUME CatOK(tables, numOfTables), Fit(tables, rows),
           NEW t \in Names, NEW i \in IndexNames, NEW c \in Cols, Cat!CreateIndex(t, i, c),
           rows' = rows
    PROVE  /\ CatOK(tables', numOfTables') /\ Fit(tables', rows')
           /\ DOMAIN tables' = DOMAIN tables
           /\ c \notin Cat!Indexed(tables[t])
           /\ Cat!Indexed(tables'[t]) = Cat!Indexed(tables[t]) \cup {c}
           /\ \A u \in DOMAIN tables : u # t => tables'[u] = tables[u]
<1> DEFINE tb == tables[t]
           new == CP!WithIndex(tb, i, c)
<1>1. /\ t \in DOMAIN tables /\ Cat!Update(t, Cat!WithIndex(tb, i, c))
      /\ CP!NameFree(tb, i) /\ CP!ColFree(tb, c) /\ CP!HasSlot(tb)
  BY DEF Cat!CreateIndex, Cat!NameFree, CP!NameFree, Cat!ColFree, CP!ColFree, Cat!HasSlot,
         CP!HasSlot, Cat!IndexLimit, CP!IndexLimit, Cat!Indexed, CP!Indexed
<1>2. tb \in CP!Table /\ CP!Good(tb)
  BY <1>1, TableOf
<1>3. Cat!WithIndex(tb, i, c) = new
  BY DEF Cat!WithIndex, CP!WithIndex, Cat!With, CP!With
<1>4. CP!Good(new) /\ i \notin DOMAIN tb.index /\ c \notin CP!Indexed(tb)
  BY <1>1, <1>2, CP!WithIndexIsGood, CP!FreeMeansAbsent, EngineAssumption
  DEF CP!CatalogAssumption
<1>5. /\ CatOK(tables', numOfTables') /\ DOMAIN tables' = DOMAIN tables
      /\ tables'[t] = new
      /\ \A u \in DOMAIN tables : u # t => tables'[u] = tables[u]
  BY <1>1, <1>3, <1>4, UpdateFits
<1>6. /\ new.numOfAttrs = tb.numOfAttrs /\ new.numOfRec = tb.numOfRec
      /\ new.index = CP!With(tb.index, i, c)
  BY <1>2 DEF CP!WithIndex, CP!Table
<1>7. Cat!Indexed(new) = Cat!Indexed(tb) \cup {c}
  BY <1>4, <1>6 DEF Cat!Indexed, CP!With
<1>8. Fit(tables', rows')
  BY <1>5, <1>6 DEF Fit
<1> QED BY <1>4, <1>5, <1>7, <1>8 DEF Cat!Indexed, CP!Indexed

LEMMA DropIndexFits ==
    ASSUME CatOK(tables, numOfTables), Fit(tables, rows),
           NEW t \in Names, NEW i \in IndexNames, Cat!DropIndex(t, i), rows' = rows
    PROVE  /\ CatOK(tables', numOfTables') /\ Fit(tables', rows')
           /\ DOMAIN tables' = DOMAIN tables
           /\ Cat!Indexed(tables'[t]) = Cat!Indexed(tables[t]) \ {tables[t].index[i]}
           /\ \A u \in DOMAIN tables : u # t => tables'[u] = tables[u]
<1> DEFINE tb == tables[t]
           new == CP!WithoutIndex(tb, i)
<1>1. t \in DOMAIN tables /\ Cat!Update(t, Cat!WithoutIndex(tb, i)) /\ ~CP!NameFree(tb, i)
  BY DEF Cat!DropIndex, Cat!NameFree, CP!NameFree
<1>2. tb \in CP!Table /\ CP!Good(tb)
  BY <1>1, TableOf
<1>3. Cat!WithoutIndex(tb, i) = new
  BY DEF Cat!WithoutIndex, CP!WithoutIndex
<1>4. CP!Good(new) /\ i \in DOMAIN tb.index
  BY <1>1, <1>2, CP!WithoutIndexIsGood, CP!FreeMeansAbsent, EngineAssumption
  DEF CP!CatalogAssumption
<1>5. /\ CatOK(tables', numOfTables') /\ DOMAIN tables' = DOMAIN tables
      /\ tables'[t] = new
      /\ \A u \in DOMAIN tables : u # t => tables'[u] = tables[u]
  BY <1>1, <1>3, <1>4, UpdateFits
<1>6. /\ new.numOfAttrs = tb.numOfAttrs /\ new.numOfRec = tb.numOfRec
      /\ new.index = [j \in DOMAIN tb.index \ {i} |-> tb.index[j]]
  BY <1>2 DEF CP!WithoutIndex, CP!Table
<1>7. Cat!Indexed(new) = Cat!Indexed(tb) \ {tb.index[i]}
  BY <1>2, <1>4, <1>6 DEF Cat!Indexed, CP!Good, CP!Distinct
<1>8. Fit(tables', rows')
  BY <1>5, <1>6 DEF Fit
<1> QED BY <1>5, <1>7, <1>8

-------------------------------------------------------------------------------
(* The steps. *)

Both == RowsInv /\ OnlyInv

LEMMA TheseAreLists ==
    ASSUME NEW tbs, NEW n, NEW rs, CatOK(tbs, n), Fit(tbs, rs), NEW t \in DOMAIN tbs
    PROVE  t \in Names /\ rs[t] \in Lists
<1>1. tbs[t] \in CP!Table /\ t \in Names
  BY TableOf
<1>2. tbs[t].numOfRec \in 0 .. MaxRec
  BY <1>1 DEF CP!Table
<1> QED BY <1>1, <1>2, EngineAssumption DEF Fit, Lists

\* While the program runs, the rows of the latest EXIT are in the store too.
LEMMA SavedIsHeld ==
    ASSUME RowsInv, up, NEW t \in DOMAIN saved[1] \ dropped
    PROVE  /\ t \in Names /\ savedRows[t] \in Lists
           /\ t \in DOMAIN tables
           /\ Holds(store, t, savedRows[t]) /\ Holds(durable, t, savedRows[t])
<1>1. t \in Names /\ savedRows[t] \in Lists
  BY TheseAreLists DEF RowsInv
<1>2. /\ t \in DOMAIN tables /\ Begins(savedRows[t], rows[t])
      /\ Holds(store, t, rows[t]) /\ Holds(durable, t, savedRows[t])
  BY DEF RowsInv
<1>3. Len(savedRows[t]) \in Nat /\ Len(rows[t]) \in Nat
  BY <1>1, <1>2 DEF Lists, RowsInv, Fit
<1> QED BY <1>1, <1>2, <1>3 DEF Holds, Begins

LEMMA DiskKeeps ==
    ASSUME RowsInv, up, Saves
    PROVE  \A t \in DOMAIN saved[1] \ dropped : Holds(durable', t, savedRows[t])
BY SavedIsHeld, SavesHolds

\* A step that leaves the rows alone and saves some blocks.
LEMMA QuietKeeps ==
    ASSUME Both, up, up' = up, Saves, store' = store,
           rows' = rows, saved' = saved, savedRows' = savedRows,
           dropped' = dropped, crashed' = crashed,
           CatOK(tables', numOfTables'), Fit(tables', rows'), DOMAIN tables' = DOMAIN tables
    PROVE  Both'
<1>1. RowsInv'
  <2>1. \A t \in DOMAIN saved[1] \ dropped : Holds(durable', t, savedRows[t])
    BY DiskKeeps DEF Both
  <2>2. durable' \in Contents
    BY DEF Saves
  <2> QED BY <2>1, <2>2 DEF Both, RowsInv
<1>2. OnlyInv'
  <2> SUFFICES ASSUME ~crashed, NEW t \in Names \ dropped
               PROVE  Only(store, t, RowsOf(rows, t)) /\ Only(durable', t, RowsOf(rows, t))
    BY DEF OnlyInv, RowsOf
  <2> QED BY SavesOnly DEF Both, OnlyInv
<1> QED BY <1>1, <1>2 DEF Both

LEMMA CreateTableKeepsRows ==
    ASSUME Both, NEW t \in Names, CreateTable(t)
    PROVE  Both'
<1>1. /\ CatOK(tables, numOfTables) /\ Fit(tables, rows)
      /\ Cat!CreateTable(t, Width) /\ rows' = Cat!With(rows, t, <<>>)
      /\ up /\ up' = up /\ store' = store /\ durable' = durable /\ saved' = saved
      /\ savedRows' = savedRows /\ dropped' = dropped /\ crashed' = crashed
  BY DEF CreateTable, Both, RowsInv, blocks, life, history
<1>2. /\ CatOK(tables', numOfTables') /\ Fit(tables', rows')
      /\ t \notin DOMAIN tables /\ DOMAIN tables' = DOMAIN tables \cup {t}
      /\ rows'[t] = <<>>
      /\ \A u \in DOMAIN tables : rows'[u] = rows[u]
  BY <1>1, CreateTableFits
<1>3. Holds(store, t, <<>>)
  BY DEF Holds
<1>4. RowsInv'
  BY <1>1, <1>2, <1>3 DEF Both, RowsInv
<1>5. OnlyInv'
  <2>1. \A u \in Names : RowsOf(rows', u) = RowsOf(rows, u)
    BY <1>1, <1>2 DEF RowsOf, Fit
  <2> QED BY <1>1, <1>2, <2>1 DEF Both, OnlyInv
<1> QED BY <1>4, <1>5 DEF Both

LEMMA DropTableKeepsRows ==
    ASSUME Both, NEW t \in Names, DropTable(t)
    PROVE  Both'
<1>1. /\ CatOK(tables, numOfTables) /\ Fit(tables, rows)
      /\ Cat!DropTable(t) /\ rows' = Without(rows, {t})
      /\ up /\ up' = up /\ saved' = saved /\ savedRows' = savedRows
      /\ dropped' = dropped \cup {t} /\ crashed' = crashed /\ Pool!DeleteFile(t)
      /\ store \in Contents /\ durable \in Contents
  BY DEF DropTable, Running, Both, RowsInv, life
<1>2. /\ CatOK(tables', numOfTables') /\ Fit(tables', rows')
      /\ DOMAIN tables' = DOMAIN tables \ {t}
      /\ \A u \in DOMAIN tables' : rows'[u] = rows[u]
  BY <1>1, DropTableFits
<1>3. /\ store' \in Contents /\ durable' \in Contents
      /\ \A u \in Names \ {t} : store'[u] = store[u] /\ durable'[u] = durable[u]
  <2>1. PICK kept \in SUBSET Blocks :
           store' = [store EXCEPT ![t] =
                       [b \in Blocks |-> IF b \in kept THEN store[t][b] ELSE Pool!BlankBlock]]
    BY <1>1 DEF Pool!DeleteFile
  <2>2. Pool!BlankBlock \in [Slots -> Rows \cup {Blank}]
        /\ \A b \in Blocks : store[t][b] \in [Slots -> Rows \cup {Blank}]
    BY <1>1 DEF Pool!BlankBlock, Contents
  <2>3. store' \in Contents /\ \A u \in Names \ {t} : store'[u] = store[u]
    BY <1>1, <2>1, <2>2 DEF Contents
  <2>4. durable' \in Contents /\ \A u \in Names \ {t} : durable'[u] = durable[u]
    BY <1>1, <2>2 DEF Contents, Pool!DeleteFile
  <2> QED BY <2>3, <2>4
<1>4. RowsInv'
  <2>1. DOMAIN saved[1] \subseteq Names /\ DOMAIN tables \subseteq Names
    BY TableOf DEF Both, RowsInv
  <2>2. ASSUME NEW u \in DOMAIN saved[1] \ dropped'
        PROVE  /\ u \in DOMAIN tables' /\ Begins(savedRows[u], rows'[u])
               /\ Holds(durable', u, savedRows[u])
    <3>1. u \in DOMAIN saved[1] \ dropped /\ u # t /\ u \in Names
      BY <1>1, <2>1
    <3>2. /\ u \in DOMAIN tables /\ Begins(savedRows[u], rows[u])
          /\ Holds(durable, u, savedRows[u])
      BY <1>1, <3>1 DEF Both, RowsInv
    <3> QED BY <1>2, <1>3, <3>1, <3>2 DEF Holds
  <2>3. ASSUME NEW u \in DOMAIN tables' \ dropped'
        PROVE  Holds(store', u, rows'[u])
    <3>1. u \in DOMAIN tables \ dropped /\ u # t /\ u \in Names
      BY <1>1, <1>2, <2>1
    <3>2. Holds(store, u, rows[u])
      BY <1>1, <3>1 DEF Both, RowsInv
    <3> QED BY <1>2, <1>3, <3>1, <3>2 DEF Holds
  <2> QED BY <1>1, <1>2, <1>3, <2>2, <2>3 DEF Both, RowsInv
<1>5. OnlyInv'
  <2>1. \A u \in Names \ {t} : RowsOf(rows', u) = RowsOf(rows, u)
    BY <1>1, <1>2 DEF RowsOf, Fit
  <2> SUFFICES ASSUME ~crashed, NEW u \in Names \ dropped, u # t
               PROVE  Only(store', u, RowsOf(rows', u)) /\ Only(durable', u, RowsOf(rows', u))
    BY <1>1 DEF OnlyInv
  <2>2. Only(store, u, RowsOf(rows, u)) /\ Only(durable, u, RowsOf(rows, u))
    BY <1>1 DEF Both, OnlyInv
  <2> QED BY <1>3, <2>1, <2>2 DEF Only
<1> QED BY <1>4, <1>5 DEF Both

LEMMA InsertKeepsRows ==
    ASSUME Both, NEW t \in Names, NEW r \in Rows, Insert(t, r)
    PROVE  Both'
<1> DEFINE n == Len(rows[t])
           b == n \div Per
           s == n % Per
<1>1. /\ CatOK(tables, numOfTables) /\ Fit(tables, rows) /\ t \in DOMAIN tables
      /\ Cat!AddRecCount(t) /\ rows' = [rows EXCEPT ![t] = Append(@, r)]
      /\ up /\ up' = up /\ saved' = saved /\ savedRows' = savedRows
      /\ dropped' = dropped /\ crashed' = crashed
      /\ store \in Contents /\ durable \in Contents
  BY DEF Insert, Running, Both, RowsInv, life, history
<1>2. rows[t] \in Lists /\ n < MaxRec /\ Pool!Write(t, b, s, r)
  <2>1. CP!Good(tables[t]) /\ tables[t].numOfAttrs = Width /\ tables[t].numOfRec = n
        /\ n < MaxRec
    BY <1>1, TableOf DEF Fit, Cat!AddRecCount
  <2>2. /\ Cat!NextPos(tables[t]) \div Cat!BlockSize = b
        /\ (Cat!NextPos(tables[t]) % Cat!BlockSize) \div Cat!RecSize(tables[t]) = s
    BY <2>1, NextPlace
  <2> HIDE DEF n
  <2> QED BY <1>1, <2>1, <2>2, TheseAreLists DEF Insert, NextBlock, NextSlot
<1>3. /\ CatOK(tables', numOfTables') /\ Fit(tables', rows')
      /\ DOMAIN tables' = DOMAIN tables
      /\ rows'[t] = Append(rows[t], r)
      /\ \A u \in DOMAIN tables : u # t => rows'[u] = rows[u]
  BY <1>1, AddRecFits
<1>4. /\ Holds(store, t, rows[t]) => Holds(store', t, rows'[t])
      /\ Only(store, t, rows[t]) => Only(store', t, rows'[t])
  BY <1>1, <1>2, <1>3, AppendHolds
<1>5. store' \in Contents /\ \A u \in Names : u # t => store'[u] = store[u]
  <2>1. n + 1 \in 1 .. MaxRec /\ (n + 1) - 1 = n
    BY <1>2, EngineAssumption DEF Lists
  <2>2. b \in Blocks /\ s \in Slots
    BY <2>1, PlaceIsInFile DEF Place
  <2> QED BY <1>1, <1>2, <2>2, WriteChanges
<1>6. Saves
  BY <1>1, <1>2, WriteBackSaves DEF Pool!Write
<1>7. Begins(rows[t], rows'[t])
  BY <1>2, <1>3 DEF Begins, Lists
<1>8. RowsInv'
  <2>1. \A u \in DOMAIN saved[1] \ dropped : Holds(durable', u, savedRows[u])
    BY <1>1, <1>6, DiskKeeps DEF Both
  <2>2. ASSUME NEW u \in DOMAIN saved[1] \ dropped
        PROVE  u \in DOMAIN tables' /\ Begins(savedRows[u], rows'[u])
    <3>1. u \in DOMAIN tables /\ Begins(savedRows[u], rows[u]) /\ savedRows[u] \in Lists
      BY <1>1, SavedIsHeld DEF Both, RowsInv
    <3>2. CASE u = t
      BY <1>2, <1>3, <1>7, <3>1, <3>2 DEF Begins, Lists
    <3> QED BY <1>3, <3>1, <3>2
  <2>3. ASSUME NEW u \in DOMAIN tables \ dropped
        PROVE  Holds(store', u, rows'[u])
    <3>1. u \in Names /\ Holds(store, u, rows[u])
      BY <1>1, TableOf DEF Both, RowsInv
    <3> QED BY <1>3, <1>4, <1>5, <3>1 DEF Holds
  <2> QED BY <1>1, <1>3, <1>5, <1>6, <2>1, <2>2, <2>3 DEF Both, RowsInv, Saves
<1>9. OnlyInv'
  <2> SUFFICES ASSUME ~crashed, NEW u \in Names \ dropped
               PROVE  Only(store', u, RowsOf(rows', u)) /\ Only(durable', u, RowsOf(rows', u))
    BY <1>1 DEF OnlyInv
  <2>1. Only(store, u, RowsOf(rows, u)) /\ Only(durable, u, RowsOf(rows, u))
    BY <1>1 DEF Both, OnlyInv
  <2>2. Only(durable', u, RowsOf(rows, u))
    BY <1>6, <2>1, SavesOnly
  <2>3. CASE u = t
    <3>1. RowsOf(rows, t) = rows[t] /\ RowsOf(rows', t) = rows'[t]
      BY <1>1, <1>3 DEF RowsOf, Fit
    <3>2. Only(durable', t, rows'[t])
      BY <1>2, <1>7, <2>2, <2>3, <3>1, <1>3 DEF Only, Begins, Lists
    <3> QED BY <1>4, <2>1, <2>3, <3>1, <3>2
  <2>4. CASE u # t
    <3>1. RowsOf(rows', u) = RowsOf(rows, u)
      BY <1>1, <1>3, <2>4 DEF RowsOf, Fit
    <3> QED BY <1>5, <2>1, <2>2, <2>4, <3>1 DEF Only
  <2> QED BY <2>3, <2>4
<1> QED BY <1>8, <1>9 DEF Both

LEMMA ExitKeepsRows ==
    ASSUME Both, Exit
    PROVE  Both'
<1>1. /\ up /\ up' = FALSE /\ store \in Contents /\ durable \in Contents
      /\ saved'[1] = tables /\ saved'[2] = numOfTables /\ savedRows' = rows
      /\ tables' = tables /\ numOfTables' = numOfTables /\ rows' = rows
      /\ dropped' = dropped /\ crashed' = crashed /\ Pool!Commit(DOMAIN tables)
      /\ DOMAIN tables \subseteq Names
  BY TableOf DEF Exit, Both, RowsInv, catalog, history
<1>2. /\ Saves /\ store' = store
      /\ \A t \in Names : durable'[t] = IF t \in DOMAIN tables THEN store[t] ELSE durable[t]
  BY <1>1, CommitSavesAll
<1>3. RowsInv'
  <2>1. \A t \in DOMAIN tables \ dropped : Holds(durable', t, rows[t])
    BY <1>1, <1>2 DEF Both, RowsInv, Holds
  <2> QED BY <1>1, <1>2, <2>1 DEF Both, RowsInv, Saves
<1>4. OnlyInv'
  <2> SUFFICES ASSUME ~crashed, NEW t \in Names \ dropped
               PROVE  Only(durable', t, RowsOf(rows, t))
    BY <1>1 DEF OnlyInv
  <2>1. Only(store, t, RowsOf(rows, t)) /\ Only(durable, t, RowsOf(rows, t))
    BY <1>1 DEF Both, OnlyInv
  <2> QED BY <1>1, <1>2, <2>1 DEF Only
<1> QED BY <1>3, <1>4 DEF Both

\* No catalog at all.
LEMMA NothingFits == CatOK(<<>>, 0) /\ Fit(<<>>, <<>>) /\ DOMAIN <<>> = {}
<1>1. <<>> \in [{} -> CP!Table] /\ DOMAIN <<>> = {}
  OBVIOUS
<1>2. CP!IsFiniteSet({}) /\ CP!Cardinality({}) = 0
  BY CP!FS_EmptySet, EngineAssumption DEF CP!CatalogAssumption
<1>3. <<>> \in UNION {[S -> CP!Table] : S \in SUBSET Names}
  <2>1. [{} -> CP!Table] \in {[S -> CP!Table] : S \in SUBSET Names}
    OBVIOUS
  <2> QED BY <1>1, <2>1
<1>4. CatOK(<<>>, 0)
  BY <1>1, <1>2, <1>3, EngineAssumption DEF CatOK
<1> QED BY <1>1, <1>4 DEF Fit

LEMMA CrashKeepsRows ==
    ASSUME Both, Dies, durable' = durable, store' = store, saved' = saved, savedRows' = savedRows
    PROVE  Both'
BY DEF Dies, Both, RowsInv, OnlyInv, catalog

LEMMA CrashInExitKeepsRows ==
    ASSUME Both, CrashInExit
    PROVE  Both'
<1>1. /\ up' = FALSE /\ crashed' = TRUE /\ store \in Contents /\ durable \in Contents
      /\ tables' = tables /\ numOfTables' = numOfTables /\ rows' = rows /\ dropped' = dropped
      /\ saved'[1] = <<>> /\ saved'[2] = 0 /\ savedRows' = <<>> /\ Pool!Commit(DOMAIN tables)
  BY DEF CrashInExit, Dies, Both, RowsInv, catalog
<1>2. Saves /\ store' = store
  BY <1>1, CommitSavesAll
<1>3. RowsInv'
  BY <1>1, <1>2, NothingFits DEF Both, RowsInv, Saves
<1> QED BY <1>1, <1>3 DEF Both, OnlyInv

LEMMA StartKeepsRows ==
    ASSUME Both, Start
    PROVE  Both'
<1>1. /\ ~up /\ up' = TRUE
      /\ tables' = saved[1] /\ numOfTables' = saved[2] /\ rows' = savedRows
      /\ store' = durable /\ durable' = durable /\ saved' = saved /\ savedRows' = savedRows
      /\ dropped' = dropped /\ crashed' = crashed
  BY DEF Start, Pool!Restart, history
<1>2. RowsInv'
  <2>1. ASSUME NEW t \in DOMAIN saved[1] PROVE Begins(savedRows[t], savedRows[t])
    <3>1. savedRows[t] \in Lists
      BY TheseAreLists DEF Both, RowsInv
    <3> QED BY <3>1 DEF Lists, Begins
  <2> QED BY <1>1, <2>1 DEF Both, RowsInv
<1>3. OnlyInv'
  BY <1>1 DEF Both, OnlyInv, RowsInv, Fit, RowsOf
<1> QED BY <1>2, <1>3 DEF Both

LEMMA InitRows == Init => Both
<1> SUFFICES ASSUME Init PROVE Both
  OBVIOUS
<1>1. /\ tables = <<>> /\ numOfTables = 0 /\ rows = <<>> /\ savedRows = <<>>
      /\ saved[1] = <<>> /\ saved[2] = 0 /\ up = FALSE
      /\ store = Pool!Empty /\ durable = Pool!Empty
  BY DEF Init, Cat!Init, Pool!Init
<1>2. CatOK(tables, numOfTables) /\ CatOK(saved[1], saved[2])
  BY <1>1, NothingFits
<1>4. Fit(<<>>, <<>>) /\ DOMAIN saved[1] = {} /\ DOMAIN tables = {}
  BY <1>1, NothingFits
<1>5. store \in Contents /\ \A t \in Names, b \in Blocks, s \in Slots : durable[t][b][s] = Blank
  BY <1>1 DEF Contents, Pool!Empty, Pool!BlankBlock
<1>6. RowsInv
  BY <1>1, <1>2, <1>4, <1>5 DEF RowsInv
<1>7. OnlyInv
  BY <1>1, <1>5 DEF OnlyInv, Only
<1> QED BY <1>6, <1>7 DEF Both

\* The step relation.
Steps == Statement \/ Drop \/ Process

LEMMA NextRows == Both /\ [Steps]_vars => Both'
<1> SUFFICES ASSUME Both, [Steps]_vars PROVE Both'
  OBVIOUS
<1>0. /\ CatOK(tables, numOfTables) /\ Fit(tables, rows)
      /\ store \in Contents /\ durable \in Contents
  BY DEF Both, RowsInv
<1>1. ASSUME NEW t \in Names, CreateTable(t) PROVE Both'
  BY <1>1, CreateTableKeepsRows
<1>2. ASSUME NEW t \in Names, Select(t) PROVE Both'
  <2>1. Saves /\ store' = store
    BY <1>0, <1>2, WriteBackSaves DEF Select, Pool!Read
  <2> QED BY <1>0, <1>2, <2>1, QuietKeeps DEF Select, Running, catalog, life, history
<1>3. ASSUME NEW t \in Names, NEW r \in Rows, Insert(t, r) PROVE Both'
  BY <1>3, InsertKeepsRows
<1>4. ASSUME NEW t \in Names, NEW r \in Rows, RejectInsert(t, r) PROVE Both'
  BY <1>4 DEF RejectInsert, catalog, blocks, life, history, Both, RowsInv, OnlyInv
<1>5. ASSUME NEW t \in Names, NEW i \in IndexNames, NEW c \in Cols, FailIndex(t, i, c)
      PROVE  Both'
  <2>1. Saves /\ store' = store
    BY <1>0, <1>5, WriteBackSaves DEF FailIndex, Pool!Read
  <2> QED BY <1>0, <1>5, <2>1, QuietKeeps DEF FailIndex, MayIndex, catalog, life, history
<1>6. ASSUME NEW t \in Names, NEW i \in IndexNames, NEW c \in Cols, NEW mode \in {"Y", "N"},
             CreateIndex(t, i, c, mode)
      PROVE  Both'
  <2>1. Saves /\ store' = store
    BY <1>0, <1>6, WriteBackSaves DEF CreateIndex, Pool!Read
  <2>2. up /\ Cat!CreateIndex(t, i, c) /\ rows' = rows /\ UNCHANGED <<life, history>>
    BY <1>6 DEF CreateIndex
  <2>3. /\ CatOK(tables', numOfTables') /\ Fit(tables', rows')
        /\ DOMAIN tables' = DOMAIN tables
    BY <1>0, <2>2, CreateIndexFits
  <2> QED BY <2>1, <2>2, <2>3, QuietKeeps DEF life, history
<1>7. ASSUME Commit PROVE Both'
  <2>1. Saves /\ store' = store
    BY <1>0, <1>7, CommitSavesAll DEF Commit
  <2> QED BY <1>0, <1>7, <2>1, QuietKeeps DEF Commit, catalog, life, history
<1>8. ASSUME NEW t \in Names, DropTable(t) PROVE Both'
  BY <1>8, DropTableKeepsRows
<1>9. ASSUME NEW t \in Names, NEW i \in IndexNames, DropIndex(t, i) PROVE Both'
  <2>1. /\ up /\ Cat!DropIndex(t, i) /\ rows' = rows /\ store' = store
        /\ durable' = durable /\ UNCHANGED <<life, history>>
    BY <1>9 DEF DropIndex, blocks
  <2>2. /\ CatOK(tables', numOfTables') /\ Fit(tables', rows')
        /\ DOMAIN tables' = DOMAIN tables
    BY <1>0, <2>1, DropIndexFits
  <2>3. Saves
    BY <1>0, <2>1 DEF Saves
  <2> QED BY <2>1, <2>2, <2>3, QuietKeeps DEF life, history
<1>10. ASSUME Process PROVE Both'
  <2>1. ASSUME Crashes PROVE Both'
    BY <2>1, CrashKeepsRows, CrashInExitKeepsRows
    DEF Crashes, Crash, CrashInInsert, CrashInCreateIndex, blocks
  <2> QED BY <1>10, <2>1, ExitKeepsRows, StartKeepsRows DEF Process
<1>11. CASE UNCHANGED vars
  BY <1>11 DEF vars, catalog, blocks, life, Both, RowsInv, OnlyInv
<1>12. CASE Statement
  BY <1>1, <1>2, <1>3, <1>4, <1>5, <1>6, <1>7, <1>12 DEF Statement
<1>13. CASE Drop
  BY <1>8, <1>9, <1>13 DEF Drop
<1> QED BY <1>10, <1>11, <1>12, <1>13 DEF Steps

LEMMA RowsInvariant == Spec => []Both
<1>1. Spec => Init /\ [][Steps]_vars
  BY DEF Spec, Steps
<1> QED BY <1>1, InitRows, NextRows, PTL

-------------------------------------------------------------------------------
(* Theorems. *)

\* The rows of a table are among those a scan meets, in their places: in the
\* blocks it reads, with nothing blank before them in their block.
LEMMA RowsAreScanned ==
    ASSUME RowsInv, NEW t \in Known, NEW i \in 1 .. Len(rows[t])
    PROVE  /\ Place(i) \in Scanned(t, store) /\ At(t, Place(i)) = rows[t][i]
           /\ rows[t][i] \in Rows
<1> DEFINE n == Len(rows[t])
           b == Place(i)[1]
           s == Place(i)[2]
<1>1. /\ t \in DOMAIN tables \ dropped /\ up
      /\ CatOK(tables, numOfTables) /\ Fit(tables, rows) /\ Holds(store, t, rows[t])
  BY DEF Known, RowsInv
<1>2. t \in Names /\ rows[t] \in Seq(Rows) /\ n \in Nat /\ n <= MaxRec
  BY <1>1, TheseAreLists DEF Lists
<1>3. i \in 1 .. MaxRec /\ i \in Nat \ {0} /\ i - 1 \in Nat /\ n - 1 \in Nat /\ i - 1 <= n - 1
  BY <1>2, EngineAssumption
<1>4. Place(i) \in Blocks \X Slots /\ Place(i) = <<b, s>> /\ b = (i - 1) \div Per
  BY <1>3, PlaceIsInFile DEF Place
<1>5. b \in 0 .. Cat!BlocksOf(tables[t]) - 1
  <2>1. CP!Good(tables[t]) /\ tables[t].numOfAttrs = Width /\ tables[t].numOfRec = n
    BY <1>1, TableOf DEF Fit
  <2>2. Cat!BlocksOf(tables[t]) = ((n - 1) \div Per) + 1
    BY <1>2, <1>3, <2>1, NextPlace
  <2>3. (i - 1) \div Per \in Nat /\ (n - 1) \div Per \in Nat
        /\ (i - 1) \div Per <= (n - 1) \div Per
    BY <1>3, DivisionOrder
  <2> QED BY <1>4, <2>2, <2>3
<1>6. ASSUME NEW v \in 0 .. s
      PROVE  store[t][b][v] # Blank
  <2>1. PICK j \in 1 .. i : Place(j) = <<b, v>>
    BY <1>3, <1>6, RowsBefore
  <2>2. j \in 1 .. n
    BY <1>2, <1>3, <2>1
  <2>3. store[t][b][v] = rows[t][j] /\ rows[t][j] \in Rows
    BY <1>1, <1>2, <2>1, <2>2 DEF Holds
  <2> QED BY <2>3, RowIsNotBlank
<1>7. Place(i) \in Scanned(t, store)
  BY <1>4, <1>5, <1>6 DEF Scanned
<1> QED BY <1>1, <1>2, <1>7 DEF Holds, At

\* Whatever crashed before: rows that survived an EXIT, or were inserted since
\* the start, are scanned, although what crashed sessions left lies around them.
THEOREM SavedRowsSurviveCrashes == Spec => []CrashKeepsSaved
<1>1. Both => CrashKeepsSaved
  BY RowsAreScanned DEF Both, CrashKeepsSaved
<1> QED BY <1>1, RowsInvariant, PTL

\* A scan stays within the blocks of the file.
LEMMA ScannedInFile ==
    ASSUME RowsInv, NEW t \in DOMAIN tables, NEW p \in Scanned(t, store)
    PROVE  /\ p[1] \in Blocks /\ p[2] \in Slots /\ p = <<p[1], p[2]>>
           /\ store[t][p[1]][p[2]] # Blank
<1> DEFINE n == Len(rows[t])
<1>1. /\ p \in (0 .. Cat!BlocksOf(tables[t]) - 1) \X Slots
      /\ \A s \in 0 .. p[2] : store[t][p[1]][s] # Blank
  BY DEF Scanned
<1>2. CP!Good(tables[t]) /\ tables[t].numOfAttrs = Width /\ tables[t].numOfRec = n
  BY TableOf DEF RowsInv, Fit
<1>3. n \in 0 .. MaxRec
      /\ Cat!BlocksOf(tables[t]) = IF n = 0 THEN 0 ELSE ((n - 1) \div Per) + 1
  BY <1>2, NextPlace
<1>4. n # 0
  BY <1>1, <1>3
<1>5. n - 1 \in Nat /\ MaxRec - 1 \in Nat /\ n - 1 <= MaxRec - 1
  BY <1>3, <1>4, EngineAssumption
<1>6. /\ (n - 1) \div Per \in Nat /\ (MaxRec - 1) \div Per \in Nat
      /\ (n - 1) \div Per <= (MaxRec - 1) \div Per
  BY <1>5, DivisionOrder
<1>7. p[1] \in 0 .. (n - 1) \div Per
  BY <1>1, <1>3, <1>4, <1>6
<1>8. p[2] \in Slots /\ p[2] \in 0 .. p[2] /\ p = <<p[1], p[2]>>
  BY <1>1, PerIs DEF Slots
<1> QED BY <1>1, <1>6, <1>7, <1>8 DEF Blocks

\* Until a process crashes a scan meets the rows inserted and nothing else.
LEMMA ScansAreExact ==
    ASSUME Both, ~crashed, NEW t \in Known
    PROVE  Scanned(t, store) = {Place(i) : i \in 1 .. Len(rows[t])}
<1>1. t \in DOMAIN tables /\ t \in Names \ dropped /\ up /\ Fit(tables, rows)
  BY TableOf DEF Known, Both, RowsInv
<1>2. Only(store, t, rows[t])
  BY <1>1 DEF Both, OnlyInv, RowsOf, Fit
<1>3. \A p \in Scanned(t, store) : \E i \in 1 .. Len(rows[t]) : p = Place(i)
  BY <1>1, <1>2, ScannedInFile DEF Only, Both
<1>4. \A i \in 1 .. Len(rows[t]) : Place(i) \in Scanned(t, store)
  BY RowsAreScanned DEF Both
<1> QED BY <1>3, <1>4

\* While no process crashed, a scan shows exactly the rows inserted, in order.
THEOREM ScansShowTheRows == Spec => []ScanIsRows
<1>1. Both => ScanIsRows
  <2> SUFFICES ASSUME Both, ~crashed, NEW t \in Known
               PROVE  LET n == Len(rows[t])
                      IN  /\ tables[t].numOfRec = n
                          /\ Scanned(t, store) = {Place(i) : i \in 1 .. n}
                          /\ \A i \in 1 .. n : At(t, Place(i)) = rows[t][i]
    BY DEF ScanIsRows
  <2>1. tables[t].numOfRec = Len(rows[t])
    BY DEF Both, RowsInv, Fit, Known
  <2> QED BY <2>1, ScansAreExact, RowsAreScanned DEF Both
<1> QED BY <1>1, RowsInvariant, PTL

-------------------------------------------------------------------------------
(* The index files against the rows, over the invariant of the rows.  An index
   of the catalog has its file.  Unless nothing is known of it, the file leads
   to every row, and with mode "N" it keeps the rows apart; while no process
   crashed, one that "keeps" all leads nowhere else.  Between processes the same
   holds of the catalog on disk, which is why what a running process may have
   done to the files of that catalog is part of the invariant.               *)

Listed(tbs) == {f \in Names \X Cols : f[1] \in DOMAIN tbs /\ f[2] \in Cat!Indexed(tbs[f[1]])}

BlocksIn(list, c, k) == {Place(i)[1] : i \in {j \in 1 .. Len(list) : list[j][c] = k}}

Covers(x, c, list) == \A k \in Keys : BlocksIn(list, c, k) \subseteq x.entries[k]
Exact(x, c, list)  == \A k \in Keys : x.entries[k] = BlocksIn(list, c, k)
Apart(c, list)     == \A i, j \in 1 .. Len(list) : list[i][c] = list[j][c] => i = j

\* Index file x serves the rows of a list by column c.
Serves(x, c, list, exact) ==
    /\ x.keeps # "none" => Covers(x, c, list)
    /\ x.mode = "N" /\ x.keeps # "none" => Apart(c, list)
    /\ exact /\ x.keeps = "all" => Exact(x, c, list)

\* y is x with more entries, or with less known of it.
Grown(x, y) ==
    /\ y.mode = x.mode
    /\ y.keeps # "none" => x.keeps # "none" /\ \A k \in Keys : x.entries[k] \subseteq y.entries[k]
    /\ y.keeps = "all" => x.keeps = "all"

\* The index files are those of a catalog and its rows.
Right(tbs, rs) ==
    /\ Listed(tbs) \subseteq DOMAIN index
    /\ ~crashed => Listed(tbs) = DOMAIN index
    /\ \A f \in Listed(tbs) :
          f[1] \notin dropped => Serves(index[f], f[2], rs[f[1]], ~crashed)

\* The invariant.
IndexInv ==
    /\ DOMAIN index \subseteq Names \X Cols
    /\ index = [f \in DOMAIN index |-> index[f]]
    /\ \A f \in DOMAIN index : index[f] \in IndexFile
    /\ catFile \in {"absent", "empty", "saved"}
    /\ up => /\ Right(tables, rows)
             /\ \A f \in Listed(saved[1]) \cap DOMAIN index :
                   f[1] \notin dropped => f \in Listed(tables)
    /\ ~up => Right(saved[1], savedRows)

All == Both /\ IndexInv

-------------------------------------------------------------------------------
(* One index file. *)

\* A new row adds its block to those of its key.
LEMMA BlocksInAppend ==
    ASSUME NEW list \in Lists, NEW r \in Rows, NEW c, NEW k
    PROVE  BlocksIn(Append(list, r), c, k) =
             BlocksIn(list, c, k) \cup (IF r[c] = k THEN {Len(list) \div Per} ELSE {})
<1> DEFINE n == Len(list)
           new == Append(list, r)
<1>1. /\ n \in Nat /\ Len(new) = n + 1 /\ new[n + 1] = r
      /\ \A i \in 1 .. n : new[i] = list[i]
      /\ 1 .. n + 1 = (1 .. n) \cup {n + 1} /\ (n + 1) - 1 = n
  BY DEF Lists
<1>2. Place(n + 1)[1] = n \div Per
  BY <1>1 DEF Place
<1> HIDE DEF n, new
<1>3. {j \in 1 .. n + 1 : new[j][c] = k} =
        {j \in 1 .. n : list[j][c] = k} \cup (IF r[c] = k THEN {n + 1} ELSE {})
  BY <1>1
<1>4. BlocksIn(new, c, k) = BlocksIn(list, c, k) \cup (IF r[c] = k THEN {n \div Per} ELSE {})
  BY <1>1, <1>2, <1>3 DEF BlocksIn, n
<1> QED BY <1>4 DEF n, new

\* A file of which nothing is known serves any list.
LEMMA UnknownServes ==
    ASSUME NEW x \in IndexFile, NEW c, NEW list, NEW exact
    PROVE  /\ Unknown(x) \in IndexFile /\ Unknown(x).mode = x.mode /\ Unknown(x).keeps = "none"
           /\ Serves(Unknown(x), c, list, exact)
<1>1. NoEntries \in [Keys -> SUBSET Blocks]
  BY DEF NoEntries
<1>2. Unknown(x) \in IndexFile /\ Unknown(x).mode = x.mode /\ Unknown(x).keeps = "none"
  BY <1>1 DEF Unknown, IndexFile
<1> QED BY <1>2 DEF Serves

\* An entry is added, or nothing is known afterwards.
LEMMA EnteredGrows ==
    ASSUME NEW x \in IndexFile, NEW k \in Keys, NEW b \in Blocks
    PROVE  Entered(x, k, b) \in IndexFile /\ Grown(x, Entered(x, k, b))
<1> DEFINE y == [x EXCEPT !.entries[k] = @ \cup {b}]
<1>1. CASE k = NilKey \/ x.keeps = "none"
  BY <1>1, UnknownServes DEF Entered, Grown
<1>2. CASE ~(k = NilKey \/ x.keeps = "none")
  <2>1. y \in IndexFile
    BY DEF IndexFile
  <2>2. /\ y.mode = x.mode /\ y.keeps = x.keeps
        /\ \A j \in Keys : x.entries[j] \subseteq y.entries[j]
    BY DEF IndexFile
  <2> QED BY <1>2, <2>1, <2>2 DEF Entered, Grown
<1> QED BY <1>1, <1>2

\* The update of an index that does not refuse the row.
LEMMA UpdateServes ==
    ASSUME NEW x \in IndexFile, NEW c \in Cols, NEW list \in Lists, NEW r \in Rows,
           NEW exact, Serves(x, c, list, exact),
           x.mode = "N" /\ x.keeps # "none" /\ r[c] # NilKey => x.entries[r[c]] = {},
           NEW b \in Blocks, b = Len(list) \div Per
    PROVE  Serves(Entered(x, r[c], b), c, Append(list, r), exact)
<1> DEFINE y == [x EXCEPT !.entries[r[c]] = @ \cup {b}]
           new == Append(list, r)
<1>0. CASE r[c] = NilKey \/ x.keeps = "none"
  BY <1>0, UnknownServes DEF Entered
<1> SUFFICES ASSUME r[c] # NilKey, x.keeps # "none"
             PROVE  Serves(y, c, new, exact)
  BY <1>0 DEF Entered
<1>1. r[c] \in Keys
  BY DEF Rows
<1>2. /\ y.mode = x.mode /\ y.keeps = x.keeps
      /\ \A k \in Keys : y.entries[k] = x.entries[k] \cup (IF r[c] = k THEN {b} ELSE {})
  BY <1>1 DEF IndexFile
<1>3. \A k \in Keys : BlocksIn(new, c, k) =
                        BlocksIn(list, c, k) \cup (IF r[c] = k THEN {b} ELSE {})
  BY BlocksInAppend
<1>4. Covers(y, c, new)
  BY <1>2, <1>3 DEF Serves, Covers
<1>5. ASSUME exact, x.keeps = "all" PROVE Exact(y, c, new)
  <2>1. \A k \in Keys : x.entries[k] = BlocksIn(list, c, k)
    BY <1>5 DEF Serves, Exact
  <2> HIDE DEF y, new
  <2>2. ASSUME NEW k \in Keys PROVE y.entries[k] = BlocksIn(new, c, k)
    <3>1. y.entries[k] = x.entries[k] \cup (IF r[c] = k THEN {b} ELSE {})
      BY <1>2
    <3>2. BlocksIn(new, c, k) = BlocksIn(list, c, k) \cup (IF r[c] = k THEN {b} ELSE {})
      BY <1>3
    <3>3. x.entries[k] = BlocksIn(list, c, k)
      BY <2>1
    <3> QED BY <3>1, <3>2, <3>3
  <2> QED BY <2>2 DEF Exact
<1>6. ASSUME y.mode = "N" PROVE Apart(c, new)
  <2> DEFINE n == Len(list)
  <2>1. n \in Nat /\ Len(new) = n + 1 /\ new[n + 1] = r /\ \A i \in 1 .. n : new[i] = list[i]
    BY DEF Lists
  <2>2. Apart(c, list) /\ x.entries[r[c]] = {}
    BY <1>2, <1>6 DEF Serves
  <2>3. BlocksIn(list, c, r[c]) = {}
    BY <1>1, <2>2 DEF Serves, Covers
  <2>4. \A i \in 1 .. n : list[i][c] # r[c]
    BY <2>3 DEF BlocksIn
  <2> HIDE DEF n, new
  <2>5. \A i, j \in 1 .. n : list[i][c] = list[j][c] => i = j
    BY <2>2 DEF Apart, n
  <2> QED BY <2>1, <2>4, <2>5 DEF Apart
<1> QED BY <1>2, <1>4, <1>5, <1>6 DEF Serves

\* What a file served it serves when it has grown, but no more exactly.
LEMMA GrownServes ==
    ASSUME NEW x, NEW y, Grown(x, y), NEW c, NEW list, NEW exact, Serves(x, c, list, exact)
    PROVE  Serves(y, c, list, FALSE)
<1>1. y.keeps # "none" => Covers(x, c, list) /\ \A k \in Keys : x.entries[k] \subseteq y.entries[k]
  BY DEF Grown, Serves
<1>2. y.keeps # "none" => Covers(y, c, list)
  BY <1>1 DEF Covers
<1> QED BY <1>2 DEF Grown, Serves

\* An index serves the first rows of a list it serves.
LEMMA ServesBeginning ==
    ASSUME NEW x, NEW c, NEW l \in Lists, NEW m \in Lists, Begins(l, m), NEW exact,
           Serves(x, c, m, exact)
    PROVE  Serves(x, c, l, FALSE)
<1>1. /\ Len(l) \in Nat /\ Len(m) \in Nat /\ Len(l) <= Len(m)
      /\ \A i \in 1 .. Len(l) : l[i] = m[i] /\ i \in 1 .. Len(m)
  BY DEF Begins, Lists
<1>2. \A k : BlocksIn(l, c, k) \subseteq BlocksIn(m, c, k)
  BY <1>1 DEF BlocksIn
<1>3. x.keeps # "none" => Covers(x, c, l)
  BY <1>2 DEF Serves, Covers
<1>4. Apart(c, m) => Apart(c, l)
  BY <1>1 DEF Apart
<1> QED BY <1>3, <1>4 DEF Serves

\* What CREATE INDEX builds from a scan.
NewFile(t, c, mode) ==
    IF HasNil(t, c) THEN Unknown(Built(t, c, mode)) ELSE Built(t, c, mode)

LEMMA BuiltIsFile ==
    ASSUME RowsInv, NEW t \in DOMAIN tables, NEW c, NEW mode \in {"Y", "N"}
    PROVE  Built(t, c, mode) \in IndexFile /\ NewFile(t, c, mode) \in IndexFile
<1>1. \A k : {p[1] : p \in {q \in Scanned(t, store) : At(t, q)[c] = k}} \in SUBSET Blocks
  BY ScannedInFile
<1>2. Built(t, c, mode) \in IndexFile
  BY <1>1 DEF Built, IndexFile
<1> QED BY <1>2, UnknownServes DEF NewFile

LEMMA BuiltServes ==
    ASSUME Both, NEW t \in Known, NEW c \in Cols, NEW mode \in {"Y", "N"},
           mode = "N" /\ Clash(t, c) => HasNil(t, c)
    PROVE  Serves(NewFile(t, c, mode), c, rows[t], ~crashed)
<1> DEFINE n == Len(rows[t])
           x == Built(t, c, mode)
<1>0. CASE HasNil(t, c)
  <2>1. t \in DOMAIN tables /\ RowsInv
    BY DEF Known, Both
  <2> QED BY <1>0, <2>1, BuiltIsFile, UnknownServes DEF NewFile
<1> SUFFICES ASSUME ~HasNil(t, c)
             PROVE  Serves(x, c, rows[t], ~crashed)
  BY <1>0 DEF NewFile
<1>1. \A i \in 1 .. n : /\ Place(i) \in Scanned(t, store) /\ At(t, Place(i)) = rows[t][i]
                        /\ i \in Nat \ {0}
  <2>1. n \in Nat
    BY DEF Both, RowsInv, Fit, Known
  <2> QED BY <2>1, RowsAreScanned DEF Both
<1>2. /\ x.mode = mode
      /\ \A k \in Keys :
            x.entries[k] = {p[1] : p \in {q \in Scanned(t, store) : At(t, q)[c] = k}}
  BY DEF Built
<1>3. Covers(x, c, rows[t])
  BY <1>1, <1>2 DEF Covers, BlocksIn
<1>4. x.mode = "N" => Apart(c, rows[t])
  BY <1>1, <1>2, PlacesDiffer DEF Apart, Clash
<1>5. ASSUME ~crashed PROVE Exact(x, c, rows[t])
  <2>1. Scanned(t, store) = {Place(i) : i \in 1 .. n}
    BY <1>5, ScansAreExact
  <2>2. ASSUME NEW k \in Keys, NEW b
        PROVE  b \in x.entries[k] <=> b \in BlocksIn(rows[t], c, k)
    BY <1>1, <1>2, <2>1 DEF BlocksIn
  <2> QED BY <2>2 DEF Exact
<1> QED BY <1>3, <1>4, <1>5 DEF Serves

-------------------------------------------------------------------------------
(* The steps.  A step that leaves the index files alone keeps the invariant if *)
(* it lists the same columns and keeps the rows of the tables it lists.        *)

\* The fields of the index files.
Typed ==
    /\ DOMAIN index \subseteq Names \X Cols
    /\ index = [f \in DOMAIN index |-> index[f]]
    /\ \A f \in DOMAIN index : index[f] \in IndexFile
    /\ catFile \in {"absent", "empty", "saved"}

Kept ==
    \A f \in Listed(saved[1]) \cap DOMAIN index :
       f[1] \notin dropped => f \in Listed(tables)

LEMMA IndexInvIs ==
    IndexInv <=> Typed /\ (up => Right(tables, rows) /\ Kept) /\ (~up => Right(saved[1], savedRows))
BY DEF IndexInv, Typed, Kept

LEMMA SameFiles ==
    ASSUME All, up, up' = up, index' = index, catFile' = catFile, saved' = saved,
           dropped' = dropped, crashed' = crashed,
           Listed(tables') = Listed(tables),
           \A f \in Listed(tables) : rows'[f[1]] = rows[f[1]]
    PROVE  IndexInv'
<1>1. Typed /\ Right(tables, rows) /\ Kept
  BY IndexInvIs DEF All
<1>2. Typed' /\ Kept'
  BY <1>1 DEF Typed, Kept
<1>3. (Listed(tables))' = Listed(tables')
  BY DEF Listed
<1>4. (Right(tables, rows))'
  BY <1>1, <1>3 DEF Right
<1> QED BY <1>2, <1>4 DEF IndexInv, Typed, Kept

LEMMA CreateTableKeepsIndex ==
    ASSUME All, NEW t \in Names, CreateTable(t)
    PROVE  IndexInv'
<1>1. /\ CatOK(tables, numOfTables) /\ Fit(tables, rows)
      /\ Cat!CreateTable(t, Width) /\ rows' = Cat!With(rows, t, <<>>)
      /\ up /\ up' = up /\ index' = index /\ catFile' = catFile /\ saved' = saved
      /\ dropped' = dropped /\ crashed' = crashed
  BY DEF CreateTable, All, Both, RowsInv, life, history
<1>2. /\ t \notin DOMAIN tables /\ DOMAIN tables' = DOMAIN tables \cup {t}
      /\ Cat!Indexed(tables'[t]) = {}
      /\ \A u \in DOMAIN tables : tables'[u] = tables[u] /\ rows'[u] = rows[u]
  BY <1>1, CreateTableFits
<1>3. Listed(tables') = Listed(tables)
  BY <1>2 DEF Listed
<1>4. \A f \in Listed(tables) : rows'[f[1]] = rows[f[1]]
  BY <1>2 DEF Listed
<1> QED BY <1>1, <1>3, <1>4, SameFiles

\* Removing files that belong together, with the catalog's entries for them.
LEMMA RemoveKeeps ==
    ASSUME All, up, up' = up, catFile' = catFile, saved' = saved, crashed' = crashed,
           NEW F, index' = Without(index, F), Listed(tables') = Listed(tables) \ F,
           dropped \subseteq dropped',
           \A f \in Listed(tables') : rows'[f[1]] = rows[f[1]]
    PROVE  IndexInv'
<1>1. Typed /\ Right(tables, rows) /\ Kept
  BY IndexInvIs DEF All
<1>2. DOMAIN index' = DOMAIN index \ F /\ \A f \in DOMAIN index' : index'[f] = index[f]
  BY DEF Without
<1>3. Typed'
  <2>1. index' = [f \in DOMAIN index' |-> index'[f]]
    BY DEF Without
  <2> QED BY <1>1, <1>2, <2>1 DEF Typed
<1>4. Kept'
  BY <1>1, <1>2 DEF Kept
<1>5. /\ Listed(tables') \subseteq DOMAIN index'
      /\ ~crashed => Listed(tables') = DOMAIN index'
  BY <1>1, <1>2 DEF Right
<1>6. ASSUME NEW f \in Listed(tables'), f[1] \notin dropped'
      PROVE  Serves(index'[f], f[2], rows'[f[1]], ~crashed)
  <2>1. f \in Listed(tables) /\ f[1] \notin dropped /\ f \in DOMAIN index'
    BY <1>5, <1>6
  <2> QED BY <1>1, <1>2, <2>1 DEF Right
<1>7. (Listed(tables))' = Listed(tables')
  BY DEF Listed
<1> QED BY <1>3, <1>4, <1>5, <1>6, <1>7 DEF IndexInv, Typed, Kept, Right

LEMMA DropTableKeepsIndex ==
    ASSUME All, NEW t \in Names, DropTable(t)
    PROVE  IndexInv'
<1> DEFINE F == {<<t, c>> : c \in Cat!Indexed(tables[t])}
<1>1. /\ CatOK(tables, numOfTables) /\ Fit(tables, rows)
      /\ Cat!DropTable(t) /\ rows' = Without(rows, {t})
      /\ up /\ up' = up /\ index' = Without(index, F) /\ catFile' = catFile /\ saved' = saved
      /\ dropped' = dropped \cup {t} /\ crashed' = crashed
  BY DEF DropTable, Running, All, Both, RowsInv, life
<1>2. /\ DOMAIN tables' = DOMAIN tables \ {t}
      /\ \A u \in DOMAIN tables' : tables'[u] = tables[u] /\ rows'[u] = rows[u]
  BY <1>1, DropTableFits
<1>3. Listed(tables') = Listed(tables) \ F
  BY <1>2 DEF Listed
<1>4. \A f \in Listed(tables') : rows'[f[1]] = rows[f[1]]
  BY <1>2 DEF Listed
<1> HIDE DEF F
<1> QED BY <1>1, <1>3, <1>4, RemoveKeeps

LEMMA DropIndexKeepsIndex ==
    ASSUME All, NEW t \in Names, NEW i \in IndexNames, DropIndex(t, i)
    PROVE  IndexInv'
<1> DEFINE F == {<<t, tables[t].index[i]>>}
<1>1. /\ CatOK(tables, numOfTables) /\ Fit(tables, rows)
      /\ Cat!DropIndex(t, i) /\ rows' = rows
      /\ up /\ up' = up /\ index' = Without(index, F) /\ catFile' = catFile /\ saved' = saved
      /\ dropped' = dropped /\ crashed' = crashed
  BY DEF DropIndex, All, Both, RowsInv, life, history
<1>2. /\ DOMAIN tables' = DOMAIN tables
      /\ Cat!Indexed(tables'[t]) = Cat!Indexed(tables[t]) \ {tables[t].index[i]}
      /\ \A u \in DOMAIN tables : u # t => tables'[u] = tables[u]
  BY <1>1, DropIndexFits
<1>3. Listed(tables') = Listed(tables) \ F
  BY <1>2 DEF Listed
<1> HIDE DEF F
<1> QED BY <1>1, <1>3, RemoveKeeps

\* A free column is in no index of the catalog.
LEMMA FreeIsNotListed ==
    ASSUME CatOK(tables, numOfTables), NEW t \in DOMAIN tables, NEW c \in Cols,
           Cat!ColFree(tables[t], c)
    PROVE  Listed(tables) = Listed(tables) \ {<<t, c>>}
<1>1. CP!Good(tables[t]) /\ CP!ColFree(tables[t], c)
  BY TableOf DEF Cat!ColFree, CP!ColFree, Cat!Indexed, CP!Indexed
<1>2. c \notin CP!Indexed(tables[t])
  BY <1>1, CP!FreeMeansAbsent, EngineAssumption DEF CP!CatalogAssumption
<1> QED BY <1>2 DEF Listed, Cat!Indexed, CP!Indexed

LEMMA FailIndexKeepsIndex ==
    ASSUME All, NEW t \in Names, NEW i \in IndexNames, NEW c \in Cols, FailIndex(t, i, c)
    PROVE  IndexInv'
<1> DEFINE F == {<<t, c>>}
<1>1. /\ CatOK(tables, numOfTables) /\ t \in DOMAIN tables /\ Cat!ColFree(tables[t], c)
      /\ up /\ up' = up /\ index' = Without(index, F) /\ catFile' = catFile /\ saved' = saved
      /\ dropped' = dropped /\ crashed' = crashed /\ tables' = tables /\ rows' = rows
  BY DEF FailIndex, MayIndex, All, Both, RowsInv, life, history, catalog
<1>3. Listed(tables') = Listed(tables) \ F
  BY <1>1, FreeIsNotListed
<1> HIDE DEF F
<1> QED BY <1>1, <1>3, RemoveKeeps

LEMMA CreateIndexKeepsIndex ==
    ASSUME All, NEW t \in Names, NEW i \in IndexNames, NEW c \in Cols, NEW mode \in {"Y", "N"},
           CreateIndex(t, i, c, mode)
    PROVE  IndexInv'
<1> DEFINE new == <<t, c>>
           x == NewFile(t, c, mode)
<1>1. /\ CatOK(tables, numOfTables) /\ Fit(tables, rows)
      /\ Cat!CreateIndex(t, i, c) /\ rows' = rows /\ t \in DOMAIN tables
      /\ up /\ up' = up /\ index' = Cat!With(index, new, x) /\ catFile' = catFile
      /\ saved' = saved /\ dropped' = dropped /\ crashed' = crashed
      /\ (mode = "N" /\ Clash(t, c) => HasNil(t, c))
  BY DEF CreateIndex, NewFile, All, Both, RowsInv, life, history, Cat!CreateIndex
<1>2. /\ DOMAIN tables' = DOMAIN tables
      /\ c \notin Cat!Indexed(tables[t])
      /\ Cat!Indexed(tables'[t]) = Cat!Indexed(tables[t]) \cup {c}
      /\ \A u \in DOMAIN tables : u # t => tables'[u] = tables[u]
  BY <1>1, CreateIndexFits
<1>3. Listed(tables') = Listed(tables) \cup {new} /\ new \notin Listed(tables)
  BY <1>1, <1>2 DEF Listed
<1>4. /\ DOMAIN index' = DOMAIN index \cup {new} /\ index'[new] = x
      /\ \A f \in DOMAIN index : f # new => index'[f] = index[f]
      /\ index' = [f \in DOMAIN index' |-> index'[f]]
  BY <1>1 DEF Cat!With
<1>5. Typed /\ Right(tables, rows) /\ Kept
  BY <1>1, IndexInvIs DEF All
<1>6. x \in IndexFile
  BY <1>1, BuiltIsFile DEF All, Both
<1>7. t \notin dropped => Serves(x, c, rows[t], ~crashed)
  BY <1>1, BuiltServes DEF All, Known
<1> HIDE DEF x
<1>8. Typed'
  BY <1>1, <1>4, <1>5, <1>6 DEF Typed
<1>9. Kept'
  BY <1>1, <1>3, <1>4, <1>5 DEF Kept
<1>10. /\ Listed(tables') \subseteq DOMAIN index'
       /\ ~crashed => Listed(tables') = DOMAIN index'
  BY <1>3, <1>4, <1>5 DEF Right
<1>11. ASSUME NEW f \in Listed(tables'), f[1] \notin dropped
       PROVE  Serves(index'[f], f[2], rows[f[1]], ~crashed)
  <2>1. CASE f = new
    BY <1>4, <1>7, <1>11, <2>1
  <2>2. CASE f # new
    BY <1>3, <1>4, <1>5, <1>11, <2>2 DEF Right
  <2> QED BY <2>1, <2>2
<1>12. (Listed(tables))' = Listed(tables')
  BY DEF Listed
<1> QED BY <1>1, <1>8, <1>9, <1>10, <1>11, <1>12 DEF IndexInv, Typed, Kept, Right

\* An index that is updated is one of the table's, and none refused the row.
LEMMA UpdatedAccept ==
    ASSUME RowsInv, NEW t \in DOMAIN tables, NEW r \in Rows, Accepted(t, r, {})
    PROVE  \A c \in Cat!Indexed(tables[t]) : c \in Updated(t, r, {}) /\ ~Refuses(t, c, r, {})
<1> DEFINE ix == tables[t].index
<1>1. DOMAIN ix \subseteq Nat
  <2>1. tables[t] \in CP!Table
    BY TableOf DEF RowsInv
  <2>2. DOMAIN ix \subseteq IndexNames
    BY <2>1 DEF CP!Table, CP!IndexMaps
  <2> QED BY <2>2, EngineAssumption
<1> SUFFICES ASSUME NEW c \in Cat!Indexed(tables[t])
             PROVE  c \in Updated(t, r, {}) /\ ~Refuses(t, c, r, {})
  OBVIOUS
<1>2. c \in Updated(t, r, {})
  BY DEF Accepted
<1>3. PICK i \in DOMAIN ix : c = ix[i] /\ \A j \in DOMAIN ix : j <= i => ~Refuses(t, ix[j], r, {})
  BY <1>2 DEF Updated
<1>4. i <= i
  BY <1>1
<1> QED BY <1>2, <1>3, <1>4

\* The block of the next record is one of the file.
LEMMA NextBlockIs ==
    ASSUME RowsInv, NEW t \in DOMAIN tables, tables[t].numOfRec < MaxRec
    PROVE  /\ NextBlock(t) \in Blocks /\ NextBlock(t) = Len(rows[t]) \div Per
           /\ rows[t] \in Lists
<1> DEFINE n == Len(rows[t])
<1>1. CP!Good(tables[t]) /\ tables[t].numOfAttrs = Width /\ tables[t].numOfRec = n
      /\ rows[t] \in Lists
  BY TableOf, TheseAreLists DEF RowsInv, Fit
<1>2. NextBlock(t) = n \div Per
  BY <1>1, NextPlace DEF NextBlock
<1>3. n + 1 \in 1 .. MaxRec /\ (n + 1) - 1 = n
  BY <1>1, EngineAssumption DEF Lists
<1> HIDE DEF n
<1>4. n \div Per \in Blocks
  BY <1>3, PlaceIsInFile DEF Place
<1> QED BY <1>1, <1>2, <1>4 DEF n

LEMMA NextSlotIs ==
    ASSUME RowsInv, NEW t \in DOMAIN tables, tables[t].numOfRec < MaxRec
    PROVE  NextSlot(t) \in Slots
<1> DEFINE n == Len(rows[t])
<1>1. CP!Good(tables[t]) /\ tables[t].numOfAttrs = Width /\ tables[t].numOfRec = n
      /\ rows[t] \in Lists
  BY TableOf, TheseAreLists DEF RowsInv, Fit
<1>2. NextSlot(t) = n % Per
  BY <1>1, NextPlace DEF NextSlot
<1>3. n + 1 \in 1 .. MaxRec /\ (n + 1) - 1 = n
  BY <1>1, EngineAssumption DEF Lists
<1> HIDE DEF n
<1>4. n % Per \in Slots
  BY <1>3, PlaceIsInFile DEF Place
<1> QED BY <1>2, <1>4 DEF n

\* The files after some columns of a table have the entry for a row.
LEMMA AfterGrows ==
    ASSUME Typed, NEW t, NEW S, NEW r \in Rows, NEW b \in Blocks
    PROVE  /\ DOMAIN IndexAfter(t, S, r, b) = DOMAIN index
           /\ \A f \in DOMAIN index :
                 /\ IndexAfter(t, S, r, b)[f] =
                      IF f[1] = t /\ f[2] \in S THEN Entered(index[f], r[f[2]], b) ELSE index[f]
                 /\ IndexAfter(t, S, r, b)[f] \in IndexFile
                 /\ Grown(index[f], IndexAfter(t, S, r, b)[f])
<1>1. ASSUME NEW f \in DOMAIN index
      PROVE  /\ index[f] \in IndexFile /\ Grown(index[f], index[f])
             /\ Entered(index[f], r[f[2]], b) \in IndexFile
             /\ Grown(index[f], Entered(index[f], r[f[2]], b))
  <2>1. index[f] \in IndexFile /\ r[f[2]] \in Keys
    BY DEF Typed, Rows
  <2> QED BY <2>1, EnteredGrows DEF Grown
<1> QED BY <1>1 DEF IndexAfter

LEMMA InsertKeepsIndex ==
    ASSUME All, NEW t \in Names, NEW r \in Rows, Insert(t, r)
    PROVE  IndexInv'
<1>1. /\ CatOK(tables, numOfTables) /\ Fit(tables, rows) /\ t \in DOMAIN tables /\ RowsInv
      /\ Cat!AddRecCount(t) /\ rows' = [rows EXCEPT ![t] = Append(@, r)]
      /\ up /\ up' = up /\ catFile' = catFile /\ saved' = saved
      /\ dropped' = dropped /\ crashed' = crashed /\ Accepted(t, r, {})
      /\ tables[t].numOfRec < MaxRec
  BY DEF Insert, Running, All, Both, RowsInv, life, history, Cat!AddRecCount
<1>2. PICK b \in Blocks : b = NextBlock(t) /\ b = Len(rows[t]) \div Per
  BY <1>1, NextBlockIs
<1>3. PICK S : S = Updated(t, r, {})
  OBVIOUS
<1>4. /\ DOMAIN tables' = DOMAIN tables
      /\ rows'[t] = Append(rows[t], r) /\ tables'[t].index = tables[t].index
      /\ \A u \in DOMAIN tables : u # t => tables'[u] = tables[u] /\ rows'[u] = rows[u]
  BY <1>1, AddRecFits
<1>5. Listed(tables') = Listed(tables)
  BY <1>4 DEF Listed, Cat!Indexed
<1>6. \A c \in Cat!Indexed(tables[t]) : c \in S /\ ~Refuses(t, c, r, {})
  BY <1>1, <1>3, UpdatedAccept
<1>7. Typed /\ Right(tables, rows) /\ Kept
  BY <1>1, IndexInvIs DEF All
<1>8. /\ DOMAIN index' = DOMAIN index /\ index' = [f \in DOMAIN index' |-> index'[f]]
      /\ \A f \in DOMAIN index :
            /\ index'[f] \in IndexFile
            /\ index'[f] = IF f[1] = t /\ f[2] \in S
                           THEN Entered(index[f], r[f[2]], b) ELSE index[f]
  <2>1. index' = IndexAfter(t, S, r, b)
    BY <1>2, <1>3 DEF Insert
  <2>2. index' = [f \in DOMAIN index' |-> index'[f]]
    BY <2>1 DEF IndexAfter
  <2> QED BY <1>7, <2>1, <2>2, AfterGrows
<1>10. Typed' /\ Kept'
  <2>1. (Listed(tables))' = Listed(tables') /\ (Listed(saved[1]))' = Listed(saved[1])
    BY <1>1 DEF Listed
  <2> QED BY <1>1, <1>5, <1>7, <1>8, <2>1 DEF Typed, Kept
<1>11. ASSUME NEW f \in Listed(tables), f[1] \notin dropped
       PROVE  Serves(index'[f], f[2], rows'[f[1]], ~crashed)
  <2>1. /\ f \in DOMAIN index /\ index[f] \in IndexFile /\ f[2] \in Cols
        /\ Serves(index[f], f[2], rows[f[1]], ~crashed)
        /\ f[1] \in DOMAIN tables /\ f[2] \in Cat!Indexed(tables[f[1]]) /\ f = <<f[1], f[2]>>
    BY <1>7, <1>11 DEF Right, Typed, Listed
  <2>2. CASE f[1] = t
    <3>1. f[2] \in S /\ ~Refuses(t, f[2], r, {})
      BY <1>6, <2>1, <2>2
    <3>2. index[f].mode = "N" /\ index[f].keeps # "none" /\ r[f[2]] # NilKey
            => index[f].entries[r[f[2]]] = {}
      BY <2>1, <2>2, <3>1 DEF Refuses, Unsure
    <3>3. index'[f] = Entered(index[f], r[f[2]], b)
      BY <1>8, <2>1, <2>2, <3>1
    <3>4. rows[t] \in Lists
      BY <1>1, NextBlockIs
    <3>5. Serves(Entered(index[f], r[f[2]], b), f[2], Append(rows[t], r), ~crashed)
      BY <1>2, <2>1, <2>2, <3>2, <3>4, UpdateServes
    <3> QED BY <1>4, <2>2, <3>3, <3>5
  <2>3. CASE f[1] # t
    BY <1>4, <1>8, <2>1, <2>3
  <2> QED BY <2>2, <2>3
<1>12. (Listed(tables))' = Listed(tables')
  BY DEF Listed
<1> QED BY <1>1, <1>5, <1>7, <1>8, <1>10, <1>11, <1>12 DEF IndexInv, Typed, Kept, Right

\* When every answer is known, a refusal comes before any update: with one index
\* it is that one's, and with two the check in front has refused already.
LEMMA RefusedAtOnce ==
    ASSUME All, NEW t \in DOMAIN tables, NEW r \in Rows,
           ~Duplicate(t, r, {}), ~Accepted(t, r, {})
    PROVE  Updated(t, r, {}) = {}
<1> DEFINE ix == tables[t].index
<1>1. CP!Good(tables[t])
  BY TableOf DEF RowsInv, All, Both
<1>2. PICK i \in DOMAIN ix : ix[i] \notin Updated(t, r, {})
  BY DEF Accepted, Updated, Cat!Indexed
<1>3. PICK j \in DOMAIN ix : Refuses(t, ix[j], r, {})
  BY <1>2 DEF Updated
<1>4. ix[j] \in Cat!Indexed(tables[t]) /\ Asked(t, ix[j])
  BY <1>3 DEF Refuses, Asked, Cat!Indexed
<1>5. tables[t].numOfIndex \in Nat /\ ~(tables[t].numOfIndex > 1)
  BY <1>1, <1>3, <1>4 DEF Duplicate, CP!Good, CP!Table
<1>6. CP!IsFiniteSet(DOMAIN ix) /\ CP!Cardinality(DOMAIN ix) <= 1
      /\ CP!Cardinality(DOMAIN ix) \in Nat
  BY <1>1, <1>5 DEF CP!Good, CP!Counted
<1>7. DOMAIN ix = {j}
  <2>1. CP!Cardinality(DOMAIN ix) # 0
    BY <1>3, <1>6, CP!FS_EmptySet, EngineAssumption DEF CP!CatalogAssumption
  <2>2. CP!Cardinality(DOMAIN ix) = 1
    BY <1>6, <2>1
  <2> QED
    BY <1>3, <1>6, <2>2, CP!FS_Singleton, EngineAssumption DEF CP!CatalogAssumption
<1>8. DOMAIN ix \subseteq Nat
  <2>1. DOMAIN ix \subseteq IndexNames
    BY <1>1 DEF CP!Good, CP!Table, CP!IndexMaps
  <2> QED BY <2>1, EngineAssumption
<1> QED BY <1>3, <1>7, <1>8 DEF Updated

\* What a refused insert did to the files.
LEMMA RejectGrows ==
    ASSUME All, NEW t \in Names, NEW r \in Rows, RejectInsert(t, r)
    PROVE  /\ DOMAIN index' = DOMAIN index /\ index' = [f \in DOMAIN index' |-> index'[f]]
           /\ \A f \in DOMAIN index :
                 /\ index'[f] \in IndexFile /\ Grown(index[f], index'[f])
                 /\ index'[f] = index[f] \/ index'[f].keeps # "all"
           /\ Answers(t, r) = {{}} => index' = index
<1>1. t \in DOMAIN tables /\ RowsInv /\ Typed /\ tables[t].numOfRec < MaxRec
  <2>1. up /\ t \in DOMAIN tables /\ tables[t].numOfRec < MaxRec
    BY DEF RejectInsert, Running
  <2> QED BY <2>1, IndexInvIs DEF All, Both
<1>2. CASE index' = index
  BY <1>1, <1>2 DEF Typed, Grown
<1>3. ASSUME NEW no \in Answers(t, r), ~Duplicate(t, r, no), ~Accepted(t, r, no),
             NEW S, S = Updated(t, r, no), NEW b, b = NextBlock(t),
             index' = Ahead(IndexAfter(t, S, r, b), t, S, no)
      PROVE  /\ DOMAIN index' = DOMAIN index /\ index' = [f \in DOMAIN index' |-> index'[f]]
             /\ \A f \in DOMAIN index :
                   /\ index'[f] \in IndexFile /\ Grown(index[f], index'[f])
                   /\ index'[f] = index[f] \/ index'[f].keeps # "all"
             /\ no = {} => index' = index
  <2>1. b \in Blocks
    BY <1>1, <1>3, NextBlockIs
  <2>2. PICK after : after = IndexAfter(t, S, r, b)
    OBVIOUS
  <2>3. /\ DOMAIN after = DOMAIN index
        /\ \A f \in DOMAIN index :
              /\ after[f] \in IndexFile /\ Grown(index[f], after[f])
              /\ ~(f[1] = t /\ f[2] \in S) => after[f] = index[f]
    BY <1>1, <2>1, <2>2, AfterGrows
  <2>4. /\ DOMAIN index' = DOMAIN index /\ index' = [f \in DOMAIN index' |-> index'[f]]
        /\ \A f \in DOMAIN index :
              index'[f] = IF no # {} /\ f[1] = t /\ f[2] \in S /\ after[f].keeps = "all"
                          THEN [after[f] EXCEPT !.keeps = "rows"]
                          ELSE after[f]
    BY <1>3, <2>2, <2>3 DEF Ahead
  <2>5. no = {} => S = {}
    BY <1>1, <1>3, RefusedAtOnce
  <2>6. no = {} => index' = index
    BY <1>1, <2>3, <2>4, <2>5 DEF Typed
  <2>7. ASSUME NEW f \in DOMAIN index
        PROVE  /\ index'[f] \in IndexFile /\ Grown(index[f], index'[f])
               /\ index'[f] = index[f] \/ index'[f].keeps # "all"
    <3> DEFINE y == [after[f] EXCEPT !.keeps = "rows"]
    <3>1. after[f] \in IndexFile /\ Grown(index[f], after[f])
      BY <2>3, <2>7
    <3>2. /\ y \in IndexFile /\ y.mode = after[f].mode /\ y.entries = after[f].entries
          /\ y.keeps = "rows"
      BY <3>1 DEF IndexFile
    <3>3. after[f].keeps = "all" => Grown(index[f], y)
      BY <3>1, <3>2 DEF Grown
    <3>4. after[f] = index[f] \/ (f[1] = t /\ f[2] \in S /\ no # {})
      BY <2>3, <2>5, <2>7
    <3> QED BY <2>4, <2>7, <3>1, <3>2, <3>3, <3>4
  <2> QED BY <2>4, <2>6, <2>7
<1>4. PICK no \in Answers(t, r) :
         \/ index' = index
         \/ /\ ~Duplicate(t, r, no) /\ ~Accepted(t, r, no)
            /\ index' = Ahead(IndexAfter(t, Updated(t, r, no), r, NextBlock(t)), t,
                              Updated(t, r, no), no)
  BY DEF RejectInsert
<1> QED BY <1>2, <1>3, <1>4

LEMMA RejectKeepsIndex ==
    ASSUME All, NEW t \in Names, NEW r \in Rows, RejectInsert(t, r)
    PROVE  IndexInv'
<1>1. /\ up /\ up' = up /\ catFile' = catFile /\ saved' = saved /\ tables' = tables
      /\ rows' = rows /\ dropped' = dropped /\ crashed' = crashed
  BY DEF RejectInsert, Running, catalog, life, history
<1>2. Typed /\ Right(tables, rows) /\ Kept
  BY <1>1, IndexInvIs DEF All
<1>3. /\ DOMAIN index' = DOMAIN index /\ index' = [f \in DOMAIN index' |-> index'[f]]
      /\ \A f \in DOMAIN index :
            /\ index'[f] \in IndexFile /\ Grown(index[f], index'[f])
            /\ index'[f] = index[f] \/ index'[f].keeps # "all"
  BY RejectGrows
<1>4. Typed'
  BY <1>1, <1>2, <1>3 DEF Typed
<1>5. ASSUME NEW f \in Listed(tables), f[1] \notin dropped
      PROVE  Serves(index'[f], f[2], rows[f[1]], ~crashed)
  <2>1. f \in DOMAIN index /\ Serves(index[f], f[2], rows[f[1]], ~crashed)
    BY <1>2, <1>5 DEF Right
  <2>2. CASE index'[f] = index[f]
    BY <2>1, <2>2
  <2>3. CASE index'[f].keeps # "all"
    <3>1. Serves(index[f], f[2], rows[f[1]], FALSE)
      BY <2>1 DEF Serves
    <3>2. Grown(index[f], index'[f])
      BY <1>3, <2>1
    <3>3. Serves(index'[f], f[2], rows[f[1]], FALSE)
      BY ONLY <3>1, <3>2, GrownServes
    <3> QED BY <2>3, <3>3 DEF Serves
  <2> QED BY <1>3, <2>1, <2>2, <2>3
<1>6. /\ (Listed(tables))' = Listed(tables) /\ (Listed(saved[1]))' = Listed(saved[1])
  BY <1>1 DEF Listed
<1> QED BY <1>1, <1>2, <1>3, <1>4, <1>5, <1>6 DEF IndexInv, Typed, Kept, Right

LEMMA ExitKeepsIndex ==
    ASSUME All, Exit
    PROVE  IndexInv'
<1>1. /\ up /\ up' = FALSE /\ saved'[1] = tables /\ savedRows' = rows
      /\ catFile' = "saved" /\ index' = index /\ dropped' = dropped /\ crashed' = crashed
  BY DEF Exit, catalog, history
<1>2. Typed /\ Right(tables, rows)
  BY <1>1, IndexInvIs DEF All
<1>3. (Listed(saved[1]))' = Listed(tables)
  BY <1>1 DEF Listed
<1> QED BY <1>1, <1>2, <1>3 DEF IndexInv, Typed, Right

LEMMA StartKeepsIndex ==
    ASSUME All, Start
    PROVE  IndexInv'
<1>1. /\ ~up /\ up' = TRUE /\ saved' = saved /\ tables' = saved[1] /\ rows' = savedRows
      /\ catFile' \in {catFile, "empty"}
      /\ index' = index /\ dropped' = dropped /\ crashed' = crashed
  BY DEF Start, history
<1>2. Typed /\ Right(saved[1], savedRows)
  BY <1>1, IndexInvIs DEF All
<1>3. (Listed(tables))' = Listed(saved[1]) /\ (Listed(saved[1]))' = Listed(saved[1])
  BY <1>1 DEF Listed
<1> QED BY <1>1, <1>2, <1>3 DEF IndexInv, Typed, Right

\* A crash that leaves the files the catalog on disk lists, with more entries or
\* with less known of them.
LEMMA CrashKeepsIndex ==
    ASSUME All, Dies, saved' = saved, savedRows' = savedRows, catFile' = catFile,
           \A t \in DOMAIN saved[1] : t \notin dropped, Typed',
           \A f \in Listed(saved[1]) :
              /\ f \in DOMAIN index'
              /\ \/ index'[f].keeps = "none"
                 \/ f \in DOMAIN index /\ Grown(index[f], index'[f])
    PROVE  IndexInv'
<1>1. up /\ up' = FALSE /\ dropped' = dropped /\ crashed' = TRUE
  BY DEF Dies
<1>2. Typed /\ Right(tables, rows) /\ Kept
  BY <1>1, IndexInvIs DEF All
<1>3. (Listed(saved[1]))' = Listed(saved[1])
  BY DEF Listed
<1>4. ASSUME NEW f \in Listed(saved[1])
      PROVE  Serves(index'[f], f[2], savedRows[f[1]], FALSE)
  <2>0. CASE index'[f].keeps = "none"
    BY <2>0 DEF Serves
  <2> SUFFICES ASSUME f \in DOMAIN index, Grown(index[f], index'[f])
               PROVE  Serves(index'[f], f[2], savedRows[f[1]], FALSE)
    BY <1>4, <2>0
  <2>1. f[1] \in DOMAIN saved[1] /\ f[1] \notin dropped
    BY DEF Listed
  <2>3. f \in Listed(tables)
    BY <1>2, <2>1 DEF Kept
  <2>4. Serves(index[f], f[2], rows[f[1]], ~crashed)
    BY <1>2, <2>1, <2>3 DEF Right
  <2>5. /\ savedRows[f[1]] \in Lists /\ Begins(savedRows[f[1]], rows[f[1]])
        /\ f[1] \in DOMAIN tables
    BY <1>1, <2>1, SavedIsHeld DEF All, Both, RowsInv
  <2>6. rows[f[1]] \in Lists
    BY <2>5, TheseAreLists DEF All, Both, RowsInv
  <2>7. Serves(index[f], f[2], savedRows[f[1]], FALSE)
    BY <2>4, <2>5, <2>6, ServesBeginning
  <2> QED BY <2>7, GrownServes
<1>5. (~up => Right(saved[1], savedRows))'
  BY <1>1, <1>3, <1>4 DEF Right, Serves
<1> QED BY <1>1, <1>5 DEF IndexInv, Typed

LEMMA ListedIsThere ==
    ASSUME NEW files, SavedIsThere(files)
    PROVE  /\ \A t \in DOMAIN saved[1] : t \notin dropped
           /\ Listed(saved[1]) \subseteq files
<1>1. ASSUME NEW f \in Listed(saved[1]) PROVE f \in files
  <2>1. f = <<f[1], f[2]>> /\ f[1] \in DOMAIN saved[1] /\ f[2] \in Cat!Indexed(saved[1][f[1]])
    BY DEF Listed
  <2> QED BY <2>1 DEF SavedIsThere
<1> QED BY <1>1 DEF SavedIsThere

\* Where insert may be cut: the entries of the first indexes, the last of them
\* torn or not.
LEMMA CutGrows ==
    ASSUME All, NEW t \in Names, NEW r \in Rows, CrashInInsert(t, r)
    PROVE  /\ DOMAIN index' = DOMAIN index /\ index' = [f \in DOMAIN index' |-> index'[f]]
           /\ \A f \in DOMAIN index : index'[f] \in IndexFile /\ Grown(index[f], index'[f])
<1>1. up /\ t \in DOMAIN tables /\ tables[t].numOfRec < MaxRec /\ RowsInv /\ Typed
  <2>1. up /\ t \in DOMAIN tables /\ tables[t].numOfRec < MaxRec
    BY DEF CrashInInsert, Running
  <2> QED BY <2>1, IndexInvIs DEF All, Both
<1>2. PICK b \in Blocks : b = NextBlock(t)
  BY <1>1, NextBlockIs
<1>3. \E S, c : \/ index' = IndexAfter(t, S, r, b)
                \/ index' = [IndexAfter(t, S, r, b) EXCEPT ![<<t, c>>] = Unknown(@)]
  <2>1. PICK no \in Answers(t, r), i \in DOMAIN tables[t].index :
           LET ix    == tables[t].index
               S     == {ix[j] : j \in {j \in DOMAIN ix : j <= i}}
               after == IndexAfter(t, S, r, NextBlock(t))
           IN  index' \in {after, [after EXCEPT ![<<t, ix[i]>>] = Unknown(@)]}
    BY DEF CrashInInsert
  <2> QED BY <1>2, <2>1
<1>4. PICK S, c : \/ index' = IndexAfter(t, S, r, b)
                  \/ index' = [IndexAfter(t, S, r, b) EXCEPT ![<<t, c>>] = Unknown(@)]
  BY <1>3
<1>5. PICK after : after = IndexAfter(t, S, r, b)
  OBVIOUS
<1>6. /\ DOMAIN after = DOMAIN index /\ after = [f \in DOMAIN after |-> after[f]]
      /\ \A f \in DOMAIN index : after[f] \in IndexFile /\ Grown(index[f], after[f])
  <2>1. after = [f \in DOMAIN after |-> after[f]]
    BY <1>5 DEF IndexAfter
  <2> QED BY <1>1, <1>5, <2>1, AfterGrows
<1>7. ASSUME NEW f \in DOMAIN index
      PROVE  Unknown(after[f]) \in IndexFile /\ Grown(index[f], Unknown(after[f]))
  BY <1>6, <1>7, UnknownServes DEF Grown
<1>8. index' = after \/ index' = [after EXCEPT ![<<t, c>>] = Unknown(after[<<t, c>>])]
  BY <1>4, <1>5
<1> QED BY <1>6, <1>7, <1>8

\* The index that was being created.
LEMMA CutIndexIs ==
    ASSUME All, NEW t \in Names, NEW i \in IndexNames, NEW c \in Cols, NEW mode \in {"Y", "N"},
           CrashInCreateIndex(t, i, c, mode)
    PROVE  /\ index'[<<t, c>>] \in IndexFile /\ index'[<<t, c>>].keeps = "none"
           /\ DOMAIN index' = DOMAIN index \cup {<<t, c>>}
           /\ \A f \in DOMAIN index : f # <<t, c>> => index'[f] = index[f]
           /\ index' = [f \in DOMAIN index' |-> index'[f]]
<1>1. t \in DOMAIN tables /\ RowsInv
  BY DEF CrashInCreateIndex, MayIndex, All, Both
<1>2. PICK x \in IndexFile : x = Built(t, c, mode)
  BY <1>1, BuiltIsFile
<1>3. index' = Cat!With(index, <<t, c>>, Unknown(x))
  BY <1>2 DEF CrashInCreateIndex
<1> QED BY <1>3, UnknownServes DEF Cat!With

LEMMA CrashesKeepIndex ==
    ASSUME All, Crashes
    PROVE  IndexInv'
<1>1. CASE Crash
  <2>1. Dies /\ SavedIsThere(DOMAIN index) /\ saved' = saved /\ savedRows' = savedRows
        /\ catFile' = catFile /\ index' = index
    BY <1>1 DEF Crash
  <2>2. Typed'
    BY <2>1 DEF All, IndexInv, Typed
  <2>3. \A f \in Listed(saved[1]) : f \in DOMAIN index' /\ f \in DOMAIN index
                                   /\ Grown(index[f], index'[f])
    BY <2>1, ListedIsThere DEF Grown
  <2>4. \A t \in DOMAIN saved[1] : t \notin dropped
    BY <2>1, ListedIsThere
  <2> QED BY <2>1, <2>2, <2>3, <2>4, CrashKeepsIndex
<1>2. ASSUME NEW t \in Names, NEW r \in Rows, CrashInInsert(t, r) PROVE IndexInv'
  <2>1. Dies /\ SavedIsThere(DOMAIN index) /\ saved' = saved /\ savedRows' = savedRows
        /\ catFile' = catFile
    BY <1>2 DEF CrashInInsert
  <2>2. /\ DOMAIN index' = DOMAIN index /\ index' = [f \in DOMAIN index' |-> index'[f]]
        /\ \A f \in DOMAIN index : index'[f] \in IndexFile /\ Grown(index[f], index'[f])
    BY <1>2, CutGrows
  <2>3. Typed'
    BY <2>1, <2>2 DEF All, IndexInv, Typed
  <2>4. /\ \A u \in DOMAIN saved[1] : u \notin dropped
        /\ \A f \in Listed(saved[1]) : f \in DOMAIN index' /\ f \in DOMAIN index
                                       /\ Grown(index[f], index'[f])
    BY <2>1, <2>2, ListedIsThere
  <2> QED BY <2>1, <2>3, <2>4, CrashKeepsIndex
<1>3. ASSUME NEW t \in Names, NEW i \in IndexNames, NEW c \in Cols, NEW mode \in {"Y", "N"},
             CrashInCreateIndex(t, i, c, mode)
      PROVE  IndexInv'
  <2>1. /\ Dies /\ saved' = saved /\ savedRows' = savedRows /\ catFile' = catFile
        /\ SavedIsThere(DOMAIN index')
    BY <1>3 DEF CrashInCreateIndex
  <2>2. /\ index'[<<t, c>>] \in IndexFile /\ index'[<<t, c>>].keeps = "none"
        /\ DOMAIN index' = DOMAIN index \cup {<<t, c>>}
        /\ \A f \in DOMAIN index : f # <<t, c>> => index'[f] = index[f]
        /\ index' = [f \in DOMAIN index' |-> index'[f]]
    BY <1>3, CutIndexIs
  <2>3. Typed'
    BY <2>1, <2>2 DEF All, IndexInv, Typed
  <2>4. PICK files : files = DOMAIN index'
    OBVIOUS
  <2>5. /\ \A u \in DOMAIN saved[1] : u \notin dropped
        /\ Listed(saved[1]) \subseteq DOMAIN index'
    BY <2>1, <2>4, ListedIsThere
  <2>6. \A f \in Listed(saved[1]) :
           /\ f \in DOMAIN index'
           /\ \/ index'[f].keeps = "none"
              \/ f \in DOMAIN index /\ Grown(index[f], index'[f])
    BY <2>2, <2>5 DEF Grown
  <2> QED BY <2>1, <2>3, <2>5, <2>6, CrashKeepsIndex
<1>4. CASE CrashInExit
  <2>1. /\ up' = FALSE /\ crashed' = TRUE /\ saved'[1] = <<>> /\ catFile' = "empty"
        /\ index' = index
    BY <1>4 DEF CrashInExit, Dies
  <2>2. Typed'
    BY <2>1 DEF All, IndexInv, Typed
  <2>3. Listed(<<>>) = {} /\ (Listed(saved[1]))' = Listed(<<>>)
    BY <2>1, NothingFits DEF Listed
  <2> QED BY <2>1, <2>2, <2>3 DEF IndexInv, Typed, Right
<1> QED BY <1>1, <1>2, <1>3, <1>4 DEF Crashes

LEMMA InitIndex == Init => IndexInv
<1> SUFFICES ASSUME Init PROVE IndexInv
  OBVIOUS
<1>1. index = <<>> /\ catFile = "absent" /\ up = FALSE /\ saved[1] = <<>>
  BY DEF Init
<1>2. DOMAIN index = {} /\ index = [f \in DOMAIN index |-> index[f]] /\ Listed(saved[1]) = {}
  BY <1>1 DEF Listed
<1> QED BY <1>1, <1>2 DEF IndexInv, Right

LEMMA NextIndex == All /\ [Steps]_vars => IndexInv'
<1> SUFFICES ASSUME All, [Steps]_vars PROVE IndexInv'
  OBVIOUS
<1>1. ASSUME NEW t \in Names, CreateTable(t) PROVE IndexInv'
  BY <1>1, CreateTableKeepsIndex
<1>2. ASSUME NEW t \in Names, Select(t) PROVE IndexInv'
  BY <1>2, SameFiles DEF Select, Running, catalog, life, history
<1>3. ASSUME NEW t \in Names, NEW r \in Rows, Insert(t, r) PROVE IndexInv'
  BY <1>3, InsertKeepsIndex
<1>4. ASSUME NEW t \in Names, NEW r \in Rows, RejectInsert(t, r) PROVE IndexInv'
  BY <1>4, RejectKeepsIndex
<1>5. ASSUME NEW t \in Names, NEW i \in IndexNames, NEW c \in Cols, FailIndex(t, i, c)
      PROVE  IndexInv'
  BY <1>5, FailIndexKeepsIndex
<1>6. ASSUME NEW t \in Names, NEW i \in IndexNames, NEW c \in Cols, NEW mode \in {"Y", "N"},
             CreateIndex(t, i, c, mode)
      PROVE  IndexInv'
  BY <1>6, CreateIndexKeepsIndex
<1>7. ASSUME Commit PROVE IndexInv'
  BY <1>7, SameFiles DEF Commit, catalog, life, history
<1>8. ASSUME NEW t \in Names, DropTable(t) PROVE IndexInv'
  BY <1>8, DropTableKeepsIndex
<1>9. ASSUME NEW t \in Names, NEW i \in IndexNames, DropIndex(t, i) PROVE IndexInv'
  BY <1>9, DropIndexKeepsIndex
<1>10. ASSUME Process PROVE IndexInv'
  BY <1>10, ExitKeepsIndex, CrashesKeepIndex, StartKeepsIndex DEF Process
<1>11. CASE UNCHANGED vars
  BY <1>11 DEF vars, catalog, life, All, IndexInv, Right, Listed
<1>12. CASE Statement
  BY <1>1, <1>2, <1>3, <1>4, <1>5, <1>6, <1>7, <1>12 DEF Statement
<1>13. CASE Drop
  BY <1>8, <1>9, <1>13 DEF Drop
<1> QED BY <1>10, <1>11, <1>12, <1>13 DEF Steps

LEMMA AllInvariant == Spec => []All
<1>1. Init => All
  BY InitRows, InitIndex DEF All
<1>2. All /\ [Steps]_vars => All'
  BY NextRows, NextIndex DEF All
<1>3. Spec => Init /\ [][Steps]_vars
  BY DEF Spec, Steps
<1> QED BY <1>1, <1>2, <1>3, PTL

-------------------------------------------------------------------------------
(* The records of a table, those left by lost sessions included: an index that *)
(* keeps all leads to each of them.  Until the first crash there are no others *)
(* than the rows; after it no new index keeps all, and the old ones only grow. *)

\* Index file x leads to every record of a content of the table.
Reached(x, content, t, c) ==
    \A b \in Blocks, s \in Slots :
       content[t][b][s] # Blank => b \in x.entries[content[t][b][s][c]]

RecInv ==
    /\ up => \A f \in Listed(tables) :
                f[1] \notin dropped /\ index[f].keeps = "all" =>
                  Reached(index[f], store, f[1], f[2]) /\ Reached(index[f], durable, f[1], f[2])
    /\ ~up => \A f \in Listed(saved[1]) :
                f[1] \notin dropped /\ index[f].keeps = "all" =>
                  Reached(index[f], durable, f[1], f[2])

\* Where there is nothing else than the rows, what leads to the rows is enough.
LEMMA OnlyReached ==
    ASSUME NEW x, NEW t \in Names, NEW c \in Cols, NEW list \in Lists, NEW content,
           Only(content, t, list), Covers(x, c, list)
    PROVE  Reached(x, content, t, c)
<1> SUFFICES ASSUME NEW b \in Blocks, NEW s \in Slots, content[t][b][s] # Blank
             PROVE  b \in x.entries[content[t][b][s][c]]
  BY DEF Reached
<1>1. PICK i \in 1 .. Len(list) : Place(i) = <<b, s>> /\ content[t][b][s] = list[i]
  BY DEF Only
<1>2. list[i][c] \in Keys
  BY DEF Lists, Rows
<1>3. b \in BlocksIn(list, c, list[i][c])
  BY <1>1 DEF BlocksIn
<1> QED BY <1>1, <1>2, <1>3 DEF Covers

LEMMA UncrashedRecords == All /\ ~crashed => RecInv
<1> SUFFICES ASSUME All, ~crashed PROVE RecInv
  OBVIOUS
<1>1. ASSUME up, NEW f \in Listed(tables), f[1] \notin dropped, index[f].keeps = "all"
      PROVE  Reached(index[f], store, f[1], f[2]) /\ Reached(index[f], durable, f[1], f[2])
  <2>1. /\ f[1] \in Names /\ f[2] \in Cols /\ f[1] \in DOMAIN tables
        /\ rows[f[1]] \in Lists /\ RowsOf(rows, f[1]) = rows[f[1]]
    BY <1>1, TheseAreLists DEF Listed, All, Both, RowsInv, RowsOf, Fit
  <2>2. Covers(index[f], f[2], rows[f[1]])
    BY <1>1 DEF All, IndexInv, Right, Serves
  <2>3. Only(store, f[1], rows[f[1]]) /\ Only(durable, f[1], rows[f[1]])
    BY <1>1, <2>1 DEF All, Both, OnlyInv
  <2> QED BY <2>1, <2>2, <2>3, OnlyReached
<1>2. ASSUME ~up, NEW f \in Listed(saved[1]), f[1] \notin dropped, index[f].keeps = "all"
      PROVE  Reached(index[f], durable, f[1], f[2])
  <2>1. /\ f[1] \in Names /\ f[2] \in Cols /\ f[1] \in DOMAIN saved[1]
        /\ savedRows[f[1]] \in Lists /\ RowsOf(savedRows, f[1]) = savedRows[f[1]]
    BY <1>2, TheseAreLists DEF Listed, All, Both, RowsInv, RowsOf, Fit
  <2>2. Covers(index[f], f[2], savedRows[f[1]])
    BY <1>2 DEF All, IndexInv, Right, Serves
  <2>3. Only(durable, f[1], savedRows[f[1]])
    BY <1>2, <2>1 DEF All, Both, OnlyInv
  <2> QED BY <2>1, <2>2, <2>3, OnlyReached
<1> QED BY <1>1, <1>2 DEF RecInv

\* A table whose blocks at most go to disk, and an index that at most grows.
LEMMA RecordsStay ==
    ASSUME store \in Contents, durable \in Contents, NEW t \in Names, NEW c \in Cols,
           NEW x, NEW y, Grown(x, y), y.keeps # "none",
           Reached(x, store, t, c), Reached(x, durable, t, c), store'[t] = store[t],
           \A b \in Blocks : durable'[t][b] = store[t][b] \/ durable'[t][b] = durable[t][b]
    PROVE  Reached(y, store', t, c) /\ Reached(y, durable', t, c)
<1>1. \A k \in Keys : x.entries[k] \subseteq y.entries[k]
  BY DEF Grown
<1>2. \A b \in Blocks, s \in Slots :
         /\ store[t][b][s] # Blank => store[t][b][s][c] \in Keys
         /\ durable[t][b][s] # Blank => durable[t][b][s][c] \in Keys
  BY DEF Contents, Rows
<1>3. Reached(y, store, t, c) /\ Reached(y, durable, t, c)
  BY <1>1, <1>2 DEF Reached
<1> QED BY <1>3 DEF Reached

\* A statement, after a crash, that leaves the blocks of the tables whose indexes
\* it leaves listed, but for saving some of them.
LEMMA QuietRecords ==
    ASSUME All, RecInv, up, up' = up, dropped \subseteq dropped',
           \A f \in Listed(tables') :
              f[1] \notin dropped' /\ index'[f].keeps = "all" =>
                /\ f \in Listed(tables) /\ Grown(index[f], index'[f])
                /\ store'[f[1]] = store[f[1]]
                /\ \A b \in Blocks : \/ durable'[f[1]][b] = store[f[1]][b]
                                     \/ durable'[f[1]][b] = durable[f[1]][b]
    PROVE  RecInv'
<1>1. (Listed(tables))' = Listed(tables')
  BY DEF Listed
<1>2. ASSUME NEW f \in Listed(tables'), f[1] \notin dropped', index'[f].keeps = "all"
      PROVE  Reached(index'[f], store', f[1], f[2]) /\ Reached(index'[f], durable', f[1], f[2])
  <2>1. /\ f \in Listed(tables) /\ Grown(index[f], index'[f]) /\ f[1] \notin dropped
        /\ store'[f[1]] = store[f[1]]
        /\ \A b \in Blocks : \/ durable'[f[1]][b] = store[f[1]][b]
                             \/ durable'[f[1]][b] = durable[f[1]][b]
    BY <1>2
  <2>2. index[f].keeps = "all" /\ f[1] \in Names /\ f[2] \in Cols
    BY <1>2, <2>1 DEF Grown, Listed
  <2>3. Reached(index[f], store, f[1], f[2]) /\ Reached(index[f], durable, f[1], f[2])
    BY <2>1, <2>2 DEF RecInv
  <2>4. store \in Contents /\ durable \in Contents
    BY DEF All, Both, RowsInv
  <2> QED BY <1>2, <2>1, <2>2, <2>3, <2>4, RecordsStay
<1> QED BY <1>1, <1>2 DEF RecInv

LEMMA CreateTableKeepsRecords ==
    ASSUME All, RecInv, NEW t \in Names, CreateTable(t)
    PROVE  RecInv'
<1>1. /\ CatOK(tables, numOfTables) /\ Fit(tables, rows)
      /\ Cat!CreateTable(t, Width) /\ rows' = Cat!With(rows, t, <<>>)
      /\ up /\ up' = up /\ index' = index /\ store' = store /\ durable' = durable
      /\ dropped' = dropped
  BY DEF CreateTable, All, Both, RowsInv, life, history, blocks
<1>2. /\ DOMAIN tables' = DOMAIN tables \cup {t} /\ Cat!Indexed(tables'[t]) = {}
      /\ t \notin DOMAIN tables /\ \A u \in DOMAIN tables : tables'[u] = tables[u]
  BY <1>1, CreateTableFits
<1>3. Listed(tables') = Listed(tables)
  BY <1>2 DEF Listed
<1> QED BY <1>1, <1>3, QuietRecords DEF Grown

LEMMA DropTableKeepsRecords ==
    ASSUME All, RecInv, NEW t \in Names, DropTable(t)
    PROVE  RecInv'
<1> DEFINE F == {<<t, c>> : c \in Cat!Indexed(tables[t])}
<1>1. /\ CatOK(tables, numOfTables) /\ Fit(tables, rows)
      /\ Cat!DropTable(t) /\ rows' = Without(rows, {t}) /\ Pool!DeleteFile(t)
      /\ up /\ up' = up /\ index' = Without(index, F) /\ dropped' = dropped \cup {t}
      /\ store \in Contents /\ durable \in Contents
  BY DEF DropTable, Running, All, Both, RowsInv, life
<1>2. /\ DOMAIN tables' = DOMAIN tables \ {t}
      /\ \A u \in DOMAIN tables' : tables'[u] = tables[u]
  BY <1>1, DropTableFits
<1>3. \A u \in Names : u # t => store'[u] = store[u] /\ durable'[u] = durable[u]
  BY <1>1 DEF Pool!DeleteFile, Contents
<1>4. Listed(tables) \subseteq DOMAIN index
  BY <1>1 DEF All, IndexInv, Right
<1>5. ASSUME NEW f \in Listed(tables'), f[1] \notin dropped'
      PROVE  /\ f \in Listed(tables) /\ index'[f] = index[f]
             /\ store'[f[1]] = store[f[1]] /\ durable'[f[1]] = durable[f[1]]
  <2>1. f[1] \in Names /\ f[1] # t /\ f \in Listed(tables) /\ f \notin F
    BY <1>1, <1>2, <1>5 DEF Listed
  <2>2. f \in DOMAIN index \ F
    BY <1>4, <2>1
  <2> HIDE DEF F
  <2> QED BY <1>1, <1>3, <2>1, <2>2 DEF Without
<1> QED BY <1>1, <1>5, QuietRecords DEF Grown

\* A statement that changes the catalog and the files of the indexes by some F.
LEMMA RemoveKeepsRecords ==
    ASSUME All, RecInv, up, up' = up, dropped' = dropped, Saves, store' = store,
           NEW F, index' = Without(index, F), Listed(tables') = Listed(tables) \ F
    PROVE  RecInv'
<1>1. Listed(tables) \subseteq DOMAIN index
  BY DEF All, IndexInv, Right
<1>2. \A f \in Listed(tables') : f \in Listed(tables) /\ index'[f] = index[f] /\ f[1] \in Names
  BY <1>1 DEF Without, Listed
<1> QED BY <1>2, QuietRecords DEF Grown, Saves

LEMMA SavesNothing ==
    ASSUME durable \in Contents, durable' = durable
    PROVE  Saves
BY DEF Saves

LEMMA DropIndexKeepsRecords ==
    ASSUME All, RecInv, NEW t \in Names, NEW i \in IndexNames, DropIndex(t, i)
    PROVE  RecInv'
<1> DEFINE F == {<<t, tables[t].index[i]>>}
<1>1. /\ CatOK(tables, numOfTables) /\ Fit(tables, rows) /\ durable \in Contents
      /\ Cat!DropIndex(t, i) /\ rows' = rows /\ store' = store /\ durable' = durable
      /\ up /\ up' = up /\ index' = Without(index, F) /\ dropped' = dropped
  BY DEF DropIndex, All, Both, RowsInv, life, history, blocks
<1>2. /\ DOMAIN tables' = DOMAIN tables
      /\ Cat!Indexed(tables'[t]) = Cat!Indexed(tables[t]) \ {tables[t].index[i]}
      /\ \A u \in DOMAIN tables : u # t => tables'[u] = tables[u]
  BY <1>1, DropIndexFits
<1>3. Listed(tables') = Listed(tables) \ F
  BY <1>2 DEF Listed
<1>4. Saves
  BY <1>1, SavesNothing
<1> HIDE DEF F
<1> QED BY <1>1, <1>3, <1>4, RemoveKeepsRecords

LEMMA FailIndexKeepsRecords ==
    ASSUME All, RecInv, NEW t \in Names, NEW i \in IndexNames, NEW c \in Cols,
           FailIndex(t, i, c)
    PROVE  RecInv'
<1> DEFINE F == {<<t, c>>}
<1>1. /\ CatOK(tables, numOfTables) /\ t \in DOMAIN tables /\ Cat!ColFree(tables[t], c)
      /\ up /\ up' = up /\ index' = Without(index, F) /\ dropped' = dropped
      /\ tables' = tables /\ Pool!Read /\ store \in Contents /\ durable \in Contents
  BY DEF FailIndex, MayIndex, All, Both, RowsInv, life, history, catalog
<1>2. Saves /\ store' = store
  BY <1>1, WriteBackSaves DEF Pool!Read
<1>3. Listed(tables') = Listed(tables) \ F
  BY <1>1, FreeIsNotListed
<1> HIDE DEF F
<1> QED BY <1>1, <1>2, <1>3, RemoveKeepsRecords

LEMMA CreateIndexKeepsRecords ==
    ASSUME All, RecInv, crashed, NEW t \in Names, NEW i \in IndexNames, NEW c \in Cols,
           NEW mode \in {"Y", "N"}, CreateIndex(t, i, c, mode)
    PROVE  RecInv'
<1> DEFINE new == <<t, c>>
           x == NewFile(t, c, mode)
<1>1. /\ CatOK(tables, numOfTables) /\ Fit(tables, rows) /\ RowsInv
      /\ Cat!CreateIndex(t, i, c) /\ t \in DOMAIN tables
      /\ up /\ up' = up /\ index' = Cat!With(index, new, x) /\ dropped' = dropped
      /\ rows' = rows /\ Pool!Read /\ store \in Contents /\ durable \in Contents
  <2>1. /\ up /\ up' = up /\ index' = Cat!With(index, new, x) /\ dropped' = dropped
        /\ Cat!CreateIndex(t, i, c) /\ rows' = rows /\ Pool!Read
    BY DEF CreateIndex, NewFile, life, history
  <2>2. t \in DOMAIN tables
    BY <2>1 DEF Cat!CreateIndex
  <2> QED BY <2>1, <2>2 DEF All, Both, RowsInv
<1>2. /\ DOMAIN tables' = DOMAIN tables
      /\ Cat!Indexed(tables'[t]) = Cat!Indexed(tables[t]) \cup {c}
      /\ \A u \in DOMAIN tables : u # t => tables'[u] = tables[u]
  BY <1>1, CreateIndexFits
<1>3. Listed(tables') = Listed(tables) \cup {new}
  BY <1>1, <1>2 DEF Listed
<1>4. Saves /\ store' = store
  BY <1>1, WriteBackSaves DEF Pool!Read
<1>5. x.keeps # "all"
  <2>1. Built(t, c, mode) \in IndexFile /\ Built(t, c, mode).keeps = "rows"
    BY <1>1, BuiltIsFile DEF Built
  <2> QED BY <2>1, UnknownServes DEF NewFile
<1> HIDE DEF x
<1>6. Listed(tables) \subseteq DOMAIN index
  BY <1>1 DEF All, IndexInv, Right
<1>7. /\ index'[new] = x
      /\ \A f \in Listed(tables) : f # new => index'[f] = index[f]
  BY <1>1, <1>6 DEF Cat!With
<1>8. ASSUME NEW f \in Listed(tables'), index'[f].keeps = "all"
      PROVE  f \in Listed(tables) /\ index'[f] = index[f] /\ f[1] \in Names
  BY <1>3, <1>5, <1>7, <1>8 DEF Listed
<1> QED BY <1>1, <1>4, <1>8, QuietRecords DEF Grown, Saves

LEMMA InsertKeepsRecords ==
    ASSUME All, RecInv, NEW t \in Names, NEW r \in Rows, Insert(t, r)
    PROVE  RecInv'
<1>1. /\ CatOK(tables, numOfTables) /\ Fit(tables, rows) /\ t \in DOMAIN tables /\ RowsInv
      /\ Cat!AddRecCount(t) /\ rows' = [rows EXCEPT ![t] = Append(@, r)]
      /\ up /\ up' = up /\ dropped' = dropped /\ Accepted(t, r, {})
      /\ tables[t].numOfRec < MaxRec /\ store \in Contents /\ durable \in Contents
  BY DEF Insert, Running, All, Both, RowsInv, life, history, Cat!AddRecCount
<1>2. PICK b \in Blocks : b = NextBlock(t)
  BY <1>1, NextBlockIs
<1>3. PICK s \in Slots : s = NextSlot(t)
  BY <1>1, NextSlotIs
<1>4. PICK S : S = Updated(t, r, {})
  OBVIOUS
<1>5. \A c \in Cat!Indexed(tables[t]) : c \in S
  BY <1>1, <1>4, UpdatedAccept
<1>6. Listed(tables') = Listed(tables)
  <2>1. /\ DOMAIN tables' = DOMAIN tables /\ tables'[t].index = tables[t].index
        /\ \A u \in DOMAIN tables : u # t => tables'[u] = tables[u]
    BY <1>1, AddRecFits
  <2> QED BY <2>1 DEF Listed, Cat!Indexed
<1>7. Typed /\ Listed(tables) \subseteq DOMAIN index
  BY <1>1, IndexInvIs DEF All, Right
<1>8. \A f \in DOMAIN index :
         /\ index'[f] = IF f[1] = t /\ f[2] \in S THEN Entered(index[f], r[f[2]], b) ELSE index[f]
         /\ Grown(index[f], index'[f])
  <2>1. index' = IndexAfter(t, S, r, b)
    BY <1>2, <1>4 DEF Insert
  <2> QED BY <1>7, <2>1, AfterGrows
<1>9. Pool!Write(t, b, s, r)
  BY <1>2, <1>3 DEF Insert
<1>10. Saves
  BY <1>1, <1>9, WriteBackSaves DEF Pool!Write
<1>11. /\ \A u \in Names : u # t => store'[u] = store[u]
       /\ store'[t][b][s] = r
       /\ \A d \in Blocks, v \in Slots :
             <<d, v>> = <<b, s>> \/ store'[t][d][v] = store[t][d][v] \/ store'[t][d][v] = Blank
  BY <1>1, <1>9, WriteChanges
<1>12. ASSUME NEW f \in Listed(tables), f[1] \notin dropped, index'[f].keeps = "all"
       PROVE  Reached(index'[f], store', f[1], f[2]) /\ Reached(index'[f], durable', f[1], f[2])
  <2>1. /\ f \in DOMAIN index /\ f[1] \in Names /\ f[2] \in Cols
        /\ f[2] \in Cat!Indexed(tables[f[1]]) /\ Grown(index[f], index'[f])
        /\ index[f] \in IndexFile
    BY <1>7, <1>8, <1>12 DEF Listed, Typed
  <2>2. Reached(index[f], store, f[1], f[2]) /\ Reached(index[f], durable, f[1], f[2])
    BY <1>1, <1>12, <2>1 DEF Grown, RecInv
  <2>3. CASE f[1] # t
    BY <1>1, <1>10, <1>11, <1>12, <2>1, <2>2, <2>3, RecordsStay DEF Saves
  <2>4. CASE f[1] = t
    <3> DEFINE c == f[2]
               y == index'[f]
    <3>1. y = Entered(index[f], r[c], b) /\ r[c] \in Keys
      BY <1>5, <1>8, <2>1, <2>4 DEF Rows
    <3>2. y = [index[f] EXCEPT !.entries[r[c]] = @ \cup {b}]
      BY <1>12, <2>1, <3>1, UnknownServes DEF Entered
    <3>3. b \in y.entries[r[c]] /\ \A k \in Keys : index[f].entries[k] \subseteq y.entries[k]
      BY <2>1, <3>1, <3>2 DEF IndexFile
    <3> HIDE DEF y
    <3>4. \A d \in Blocks, v \in Slots :
             /\ store[t][d][v] # Blank => store[t][d][v][c] \in Keys
             /\ durable[t][d][v] # Blank => durable[t][d][v][c] \in Keys
      BY <1>1, <2>1 DEF Contents, Rows
    <3>5. Reached(y, store, t, c) /\ Reached(y, durable, t, c)
      BY <2>2, <2>4, <3>3, <3>4 DEF Reached
    <3>6. Reached(y, store', t, c)
      BY <1>11, <3>3, <3>5 DEF Reached
    <3>7. Reached(y, durable', t, c)
      BY <1>10, <3>5 DEF Reached, Saves
    <3> QED BY <2>4, <3>6, <3>7 DEF y
  <2> QED BY <2>3, <2>4
<1>13. (Listed(tables))' = Listed(tables')
  BY DEF Listed
<1> QED BY <1>1, <1>6, <1>12, <1>13 DEF RecInv

LEMMA RejectKeepsRecords ==
    ASSUME All, RecInv, NEW t \in Names, NEW r \in Rows, RejectInsert(t, r)
    PROVE  RecInv'
<1>1. /\ up /\ up' = up /\ tables' = tables /\ dropped' = dropped
      /\ store' = store /\ durable' = durable /\ durable \in Contents
  BY DEF RejectInsert, Running, catalog, blocks, life, history, All, Both, RowsInv
<1>2. Listed(tables') \subseteq DOMAIN index
  BY <1>1 DEF All, IndexInv, Right
<1>3. \A f \in DOMAIN index : Grown(index[f], index'[f])
  BY RejectGrows
<1> QED BY <1>1, <1>2, <1>3, QuietRecords

\* A crash: what the catalog on disk lists is there, grown or of no use.
LEMMA CrashKeepsRecords ==
    ASSUME All, RecInv, Dies, saved' = saved, durable' = durable,
           \A t \in DOMAIN saved[1] : t \notin dropped,
           \A f \in Listed(saved[1]) :
              \/ index'[f].keeps = "none"
              \/ f \in DOMAIN index /\ Grown(index[f], index'[f])
    PROVE  RecInv'
<1>1. up /\ up' = FALSE /\ dropped' = dropped
  BY DEF Dies
<1>2. Kept
  BY <1>1, IndexInvIs DEF All
<1>3. (Listed(saved[1]))' = Listed(saved[1])
  BY DEF Listed
<1>4. ASSUME NEW f \in Listed(saved[1]), index'[f].keeps = "all"
      PROVE  Reached(index'[f], durable, f[1], f[2])
  <2>1. /\ f \in DOMAIN index /\ Grown(index[f], index'[f]) /\ f[1] \notin dropped
        /\ f[1] \in Names /\ f[2] \in Cols
    BY <1>4 DEF Listed
  <2>2. f \in Listed(tables) /\ index[f].keeps = "all"
    BY <1>2, <1>4, <2>1 DEF Kept, Grown
  <2>3. Reached(index[f], durable, f[1], f[2])
    BY <1>1, <2>1, <2>2 DEF RecInv
  <2>4. \A b \in Blocks, s \in Slots :
           durable[f[1]][b][s] # Blank => durable[f[1]][b][s][f[2]] \in Keys
    BY <2>1 DEF All, Both, RowsInv, Contents, Rows
  <2> QED BY <1>4, <2>1, <2>3, <2>4 DEF Reached, Grown
<1> QED BY <1>1, <1>3, <1>4 DEF RecInv

LEMMA CrashesKeepRecords ==
    ASSUME All, RecInv, Crashes
    PROVE  RecInv'
<1>1. CASE Crash
  <2>1. Dies /\ SavedIsThere(DOMAIN index) /\ saved' = saved /\ durable' = durable
        /\ index' = index
    BY <1>1 DEF Crash, blocks
  <2> QED BY <2>1, ListedIsThere, CrashKeepsRecords DEF Grown
<1>2. ASSUME NEW t \in Names, NEW r \in Rows, CrashInInsert(t, r) PROVE RecInv'
  <2>1. Dies /\ SavedIsThere(DOMAIN index) /\ saved' = saved /\ durable' = durable
    BY <1>2 DEF CrashInInsert, blocks
  <2>2. \A f \in DOMAIN index : Grown(index[f], index'[f])
    BY <1>2, CutGrows
  <2> QED BY <2>1, <2>2, ListedIsThere, CrashKeepsRecords
<1>3. ASSUME NEW t \in Names, NEW i \in IndexNames, NEW c \in Cols, NEW mode \in {"Y", "N"},
             CrashInCreateIndex(t, i, c, mode)
      PROVE  RecInv'
  <2>1. Dies /\ saved' = saved /\ SavedIsThere(DOMAIN index') /\ durable' = durable
    BY <1>3 DEF CrashInCreateIndex, blocks
  <2>2. /\ index'[<<t, c>>].keeps = "none"
        /\ DOMAIN index' = DOMAIN index \cup {<<t, c>>}
        /\ \A f \in DOMAIN index : f # <<t, c>> => index'[f] = index[f]
    BY <1>3, CutIndexIs
  <2>3. PICK files : files = DOMAIN index'
    OBVIOUS
  <2>4. /\ \A u \in DOMAIN saved[1] : u \notin dropped
        /\ Listed(saved[1]) \subseteq DOMAIN index'
    BY <2>1, <2>3, ListedIsThere
  <2>5. \A f \in Listed(saved[1]) :
           index'[f].keeps = "none" \/ (f \in DOMAIN index /\ Grown(index[f], index'[f]))
    BY <2>2, <2>4 DEF Grown
  <2> QED BY <2>1, <2>4, <2>5, CrashKeepsRecords
<1>4. CASE CrashInExit
  <2>1. up' = FALSE /\ saved'[1] = <<>>
    BY <1>4 DEF CrashInExit, Dies
  <2>2. Listed(<<>>) = {} /\ (Listed(saved[1]))' = Listed(<<>>)
    BY <2>1, NothingFits DEF Listed
  <2> QED BY <2>1, <2>2 DEF RecInv
<1> QED BY <1>1, <1>2, <1>3, <1>4 DEF Crashes

LEMMA ExitKeepsRecords ==
    ASSUME All, RecInv, Exit
    PROVE  RecInv'
<1>1. /\ up /\ up' = FALSE /\ saved'[1] = tables /\ index' = index /\ dropped' = dropped
      /\ Pool!Commit(DOMAIN tables) /\ store \in Contents /\ durable \in Contents
  BY DEF Exit, catalog, history, All, Both, RowsInv
<1>2. \A t \in Names : durable'[t] = IF t \in DOMAIN tables THEN store[t] ELSE durable[t]
  BY <1>1, CommitSavesAll
<1>3. (Listed(saved[1]))' = Listed(tables)
  BY <1>1 DEF Listed
<1>4. \A f \in Listed(tables) : durable'[f[1]] = store[f[1]]
  BY <1>2 DEF Listed
<1> QED BY <1>1, <1>3, <1>4 DEF RecInv, Reached

LEMMA StartKeepsRecords ==
    ASSUME All, RecInv, Start
    PROVE  RecInv'
<1>1. /\ ~up /\ up' = TRUE /\ tables' = saved[1] /\ index' = index /\ dropped' = dropped
      /\ store' = durable /\ durable' = durable
  BY DEF Start, history, Pool!Restart
<1>2. (Listed(tables))' = Listed(saved[1])
  BY <1>1 DEF Listed
<1> QED BY <1>1, <1>2 DEF RecInv, Reached

LEMMA NextRecords ==
    ASSUME All, RecInv, crashed, Steps
    PROVE  RecInv'
<1>1. ASSUME NEW t \in Names, Select(t) PROVE RecInv'
  <2>1. /\ up /\ up' = up /\ tables' = tables /\ index' = index /\ dropped' = dropped
        /\ Pool!Read /\ store \in Contents /\ durable \in Contents
    BY <1>1 DEF Select, Running, catalog, life, history, All, Both, RowsInv
  <2>2. Saves /\ store' = store
    BY <2>1, WriteBackSaves DEF Pool!Read
  <2> QED BY <2>1, <2>2, QuietRecords DEF Grown, Saves, Listed
<1>2. ASSUME Commit PROVE RecInv'
  <2>1. /\ up /\ up' = up /\ tables' = tables /\ index' = index /\ dropped' = dropped
        /\ Pool!Commit(DOMAIN tables) /\ store \in Contents /\ durable \in Contents
    BY <1>2 DEF Commit, catalog, life, history, All, Both, RowsInv
  <2>2. Saves /\ store' = store
    BY <2>1, CommitSavesAll
  <2> QED BY <2>1, <2>2, QuietRecords DEF Grown, Saves, Listed
<1>3. CASE Statement
  BY <1>1, <1>2, <1>3, CreateTableKeepsRecords, InsertKeepsRecords, RejectKeepsRecords,
     FailIndexKeepsRecords, CreateIndexKeepsRecords DEF Statement
<1>4. CASE Drop
  BY <1>4, DropTableKeepsRecords, DropIndexKeepsRecords DEF Drop
<1>5. CASE Process
  BY <1>5, ExitKeepsRecords, StartKeepsRecords, CrashesKeepRecords DEF Process
<1> QED BY <1>3, <1>4, <1>5 DEF Steps

\* Only a crash is one.
LEMMA CrashedByCrash ==
    ASSUME Steps, ~crashed, crashed'
    PROVE  Crashes
BY DEF Steps, Statement, Drop, Process, CreateTable, Select, Insert, RejectInsert, FailIndex,
       CreateIndex, Commit, DropTable, DropIndex, Exit, Start, history

LEMMA RecordsInvariant == Spec => []RecInv
<1>1. Init => ~crashed
  BY DEF Init
<1>2. (All /\ ~crashed => RecInv)'
  BY UncrashedRecords, PTL
<1>3. All /\ All' /\ RecInv /\ [Steps]_vars => RecInv'
  <2> SUFFICES ASSUME All, All', RecInv, [Steps]_vars PROVE RecInv'
    OBVIOUS
  <2>1. CASE UNCHANGED vars
    BY <2>1 DEF vars, catalog, blocks, life, history, RecInv, Listed, Reached
  <2>2. CASE Steps /\ ~crashed /\ ~crashed'
    BY <1>2, <2>2
  <2>3. CASE Steps /\ ~crashed /\ crashed'
    <3>1. Crashes
      BY <2>3, CrashedByCrash
    <3> QED BY <3>1, CrashesKeepRecords
  <2>4. CASE Steps /\ crashed
    BY <2>4, NextRecords
  <2> QED BY <2>1, <2>2, <2>3, <2>4
<1>4. Spec => Init /\ [][Steps]_vars
  BY DEF Spec, Steps
<1> QED BY <1>1, <1>3, <1>4, UncrashedRecords, AllInvariant, PTL

-------------------------------------------------------------------------------
(* Theorems. *)

\* Every variable of the program keeps to its range: catalog, blocks, files.
THEOREM EngineTyped == Spec => []TypeOK
<1>1. All => TypeOK
  <2> SUFFICES ASSUME All PROVE TypeOK
    OBVIOUS
  <2>1. CatOK(tables, numOfTables) /\ store \in Contents /\ durable \in Contents /\ up \in BOOLEAN
    BY DEF All, Both, RowsInv
  <2>2. numOfTables \in 0 .. MaxTables
    BY <2>1, CP!FS_CardinalityType, EngineAssumption DEF CatOK
  <2>3. DOMAIN tables \subseteq Names
    BY <2>1, TableOf
  <2>4. ASSUME NEW t \in DOMAIN tables
        PROVE  /\ tables[t].numOfAttrs \in 1 .. Cat!AttrLimit
               /\ tables[t].insertPos \in Nat
               /\ tables[t].numOfRec \in 0 .. MaxRec
               /\ tables[t].numOfIndex \in Nat
               /\ DOMAIN tables[t].index \subseteq IndexNames
    <3>1. tables[t] \in CP!Table
      BY <2>1, TableOf
    <3> QED BY <3>1 DEF CP!Table, CP!IndexMaps, CP!AttrLimit, Cat!AttrLimit
  <2>5. Cat!TypeOK
    BY <2>2, <2>3, <2>4 DEF Cat!TypeOK
  <2> QED BY <2>1, <2>5 DEF TypeOK, Contents, All, IndexInv, IndexFile
<1> QED BY <1>1, AllInvariant, PTL

\* The files and the catalog agree: no index without its file and, until a
\* process crashes, no file without its index.
THEOREM IndexFilesMatch == Spec => []FilesMatch
<1>1. All => FilesMatch
  BY DEF All, IndexInv, Right, FilesMatch, Listed
<1> QED BY <1>1, AllInvariant, PTL

\* What the invariant says of an index of a known table.
LEMMA KnownIndexServes ==
    ASSUME All, NEW t \in Known, NEW c \in Cat!Indexed(tables[t])
    PROVE  /\ <<t, c>> \in Listed(tables) /\ up /\ t \in DOMAIN tables /\ t \notin dropped
           /\ index[<<t, c>>] \in IndexFile
           /\ Serves(index[<<t, c>>], c, rows[t], ~crashed)
           /\ \A k : BlocksWith(t, c, k) = BlocksIn(rows[t], c, k)
<1>1. /\ up /\ t \in DOMAIN tables \ dropped /\ t \in Names
      /\ Typed /\ Right(tables, rows) /\ CP!Good(tables[t])
  BY IndexInvIs, TableOf DEF Known, All, Both, RowsInv
<1>2. c \in Cols
  BY <1>1 DEF CP!Good, CP!Table, CP!IndexMaps, Cat!Indexed
<1>3. <<t, c>> \in Listed(tables)
  BY <1>1, <1>2 DEF Listed
<1> QED BY <1>1, <1>3 DEF Right, Typed, BlocksWith, BlocksIn

\* Wherever a crash fell, in insert too, an index that was not itself cut leads
\* to every row of its table, and one from before the first crash to every
\* record a scan meets.
THEOREM CrashesKeepIndexes == Spec => []CrashKeepsIndexed
<1>1. All /\ RecInv => CrashKeepsIndexed
  <2> SUFFICES ASSUME All, RecInv, NEW t \in Known, NEW c \in Cat!Indexed(tables[t])
               PROVE  LET x == index[<<t, c>>]
                      IN  /\ x.keeps # "none" =>
                               \A k \in Keys : BlocksWith(t, c, k) \subseteq x.entries[k]
                          /\ x.keeps = "all" =>
                               \A p \in Scanned(t, store) : p[1] \in x.entries[At(t, p)[c]]
    BY DEF CrashKeepsIndexed
  <2> DEFINE x == index[<<t, c>>]
  <2>1. /\ <<t, c>> \in Listed(tables) /\ up /\ t \in DOMAIN tables /\ t \notin dropped
        /\ Serves(x, c, rows[t], ~crashed)
        /\ \A k : BlocksWith(t, c, k) = BlocksIn(rows[t], c, k)
    BY KnownIndexServes
  <2>2. x.keeps # "none" => \A k \in Keys : BlocksWith(t, c, k) \subseteq x.entries[k]
    BY <2>1 DEF Serves, Covers
  <2>3. x.keeps = "all" => Reached(x, store, t, c)
    BY <2>1 DEF RecInv
  <2>4. ASSUME x.keeps = "all", NEW p \in Scanned(t, store)
        PROVE  p[1] \in x.entries[At(t, p)[c]]
    <3>1. p[1] \in Blocks /\ p[2] \in Slots /\ store[t][p[1]][p[2]] # Blank
      BY <2>1, <2>4, ScannedInFile DEF All, Both
    <3> QED BY <2>3, <2>4, <3>1 DEF Reached, At
  <2> QED BY <2>2, <2>4
<1> QED BY <1>1, AllInvariant, RecordsInvariant, PTL

\* A no-duplicate index that was not cut keeps rows apart, after crashes too.
THEOREM NoDuplicates == Spec => []UniqueKeys
<1>1. All => UniqueKeys
  BY KnownIndexServes DEF UniqueKeys, Serves, Apart
<1> QED BY <1>1, AllInvariant, PTL

\* Until a process crashes an index that keeps all leads to the blocks of the
\* rows and nowhere else.
THEOREM IndexesAreExact == Spec => []IndexExact
<1>1. All => IndexExact
  <2> SUFFICES ASSUME All, ~crashed, NEW t \in Known, NEW c \in Cat!Indexed(tables[t]),
                      index[<<t, c>>].keeps = "all"
               PROVE  index[<<t, c>>].entries = [k \in Keys |-> BlocksWith(t, c, k)]
    BY DEF IndexExact
  <2>1. /\ index[<<t, c>>].entries \in [Keys -> SUBSET Blocks]
        /\ \A k \in Keys : index[<<t, c>>].entries[k] = BlocksWith(t, c, k)
    BY KnownIndexServes DEF IndexFile, Serves, Exact
  <2> QED BY <2>1
<1> QED BY <1>1, AllInvariant, PTL

\* When every index's answer is known, a refused insert has changed no index.
THEOREM RejectsAreClean == Spec => RejectsCleanly
<1>1. All => \A t \in Names, r \in Rows :
                RejectInsert(t, r) /\ Answers(t, r) = {{}} => index' = index
  BY RejectGrows
<1> QED BY <1>1, AllInvariant, PTL DEF RejectsCleanly

===============================================================================
