-------------------------------- MODULE Engine --------------------------------
(***************************************************************************)
(* The statements of query.c and the life of the process in main.c, over   *)
(* the catalog, the block store and one index per indexed column.  A       *)
(* statement is one step, for the program runs one at a time, and a crash  *)
(* is one too, between statements or inside one that writes files.  Table  *)
(* rows stay in the pool until they are evicted or committed, index files  *)
(* are written through, and the catalog is written at EXIT only.  "rows"   *)
(* and "savedRows" record what was inserted, to say what a scan shows.     *)
(***************************************************************************)
EXTENDS Integers, FiniteSets, Sequences

CONSTANTS Names,        \* table names
          IndexNames,   \* index names; their order is that of the numbers
          Cols,         \* columns that are indexed
          Keys,         \* values of those columns
          NilKey,       \* INT_MAX, which marks the unused keys of a node
          Width,        \* columns of every table
          MaxTables,    \* MAX_TABLES
          MaxRec,       \* bound of the model: records of a table
          Blank         \* a record position nothing was written to

ASSUME EngineAssumption ==
    /\ Width \in 1 .. 8
    /\ Cols \subseteq 1 .. Width
    /\ IndexNames \subseteq Nat
    /\ MaxTables \in Nat
    /\ MaxRec \in Nat \ {0}
    /\ Blank \notin [Cols -> Keys]

VARIABLES tables, numOfTables,    \* the catalog in memory
          store, durable,         \* table blocks: as read, and on disk
          index,                  \* <<table, column>> -> its index file
          catFile, saved,         \* data/CATALOG: its state and its contents
          up,                     \* the process is running
          rows, savedRows,        \* the rows accepted, now and at the latest EXIT
          dropped,                \* names whose table was ever dropped
          crashed                 \* a process has crashed

catalog == <<tables, numOfTables>>
blocks  == <<store, durable>>
life    == <<catFile, saved, up, savedRows>>
history == <<dropped, crashed>>
vars    == <<catalog, blocks, index, life, rows, dropped, crashed>>

Cat == INSTANCE Catalog WITH Widths <- {Width}

Rows   == [Cols -> Keys]
Per    == Cat!PerBlock(Width)
Slots  == 0 .. Per - 1
Blocks == 0 .. (MaxRec - 1) \div Per

Pool == INSTANCE BlockStore WITH Tables <- Names, Recs <- Rows

Init ==
    /\ Cat!Init /\ Pool!Init
    /\ index = <<>>
    /\ catFile = "absent" /\ saved = <<<<>>, 0>> /\ up = FALSE
    /\ rows = <<>> /\ savedRows = <<>> /\ dropped = {} /\ crashed = FALSE

Running(t) == up /\ t \in DOMAIN tables

\* An index file has its mode, and for each key the blocks a lookup finds.  What
\* can be relied on is recorded in "keeps": "all" records of the table have their
\* entries, or at least the "rows" accepted, or "none".
IndexFile == [mode : {"Y", "N"}, entries : [Keys -> SUBSET Blocks], keeps : {"all", "rows", "none"}]

NoEntries  == [k \in Keys |-> {}]
Unknown(x) == [x EXCEPT !.entries = NoEntries, !.keeps = "none"]

-------------------------------------------------------------------------------
(* Tables *)

CreateTable(t) ==
    /\ up
    /\ Cat!CreateTable(t, Width)
    /\ rows' = Cat!With(rows, t, <<>>)
    /\ UNCHANGED <<blocks, index, life, history>>

Without(f, S) == [x \in DOMAIN f \ S |-> f[x]]

\* The index files and the table file go; frames of the table stay buffered.
DropTable(t) ==
    /\ Running(t)
    /\ index' = Without(index, {<<t, c>> : c \in Cat!Indexed(tables[t])})
    /\ Pool!DeleteFile(t)
    /\ Cat!DropTable(t)
    /\ rows' = Without(rows, {t})
    /\ dropped' = dropped \cup {t}
    /\ UNCHANGED <<life, crashed>>

-------------------------------------------------------------------------------
(* insert *)

\* What a tree makes of INT_MAX depends on its shape: a node that is not full may
\* lead to no leaf, a leaf with room may be written outside its keys.  What one
\* answers that a crash or INT_MAX has damaged is not known either.
Unsure(t, c, r) == r[c] = NilKey \/ index[<<t, c>>].keeps = "none"

\* Of the indexes whose answer is not known, those that refuse a row.
Answers(t, r) == SUBSET {c \in Cat!Indexed(tables[t]) : Unsure(t, c, r)}

Refuses_Never(t, c, r, no) == FALSE      \* mutant
Refuses(t, c, r, no) ==
    IF Unsure(t, c, r)
    THEN c \in no
    ELSE index[<<t, c>>].mode = "N" /\ index[<<t, c>>].entries[r[c]] # {}

Asked(t, c) == index[<<t, c>>].mode = "N"

\* Mutant: two indexes are not enough for the check.
Duplicate_OverTwo(t, r, no) ==
    /\ tables[t].numOfIndex > 2
    /\ \E c \in Cat!Indexed(tables[t]) : Asked(t, c) /\ Refuses(t, c, r, no)

\* With two indexes the no-duplicate ones are asked before any is changed.
Duplicate(t, r, no) ==
    /\ tables[t].numOfIndex > 1
    /\ \E c \in Cat!Indexed(tables[t]) : Asked(t, c) /\ Refuses(t, c, r, no)

\* Indexes are updated in the order of their names, up to one that refuses.
Updated(t, r, no) ==
    LET ix == tables[t].index
    IN  {ix[i] : i \in {i \in DOMAIN ix :
                          \A j \in DOMAIN ix : j <= i => ~Refuses(t, ix[j], r, no)}}

Accepted(t, r, no) == Updated(t, r, no) = Cat!Indexed(tables[t])

\* Mutant: the block replaces those the key had.
Entered_Replaced(x, k, b) ==
    IF k = NilKey \/ x.keeps = "none" THEN Unknown(x) ELSE [x EXCEPT !.entries[k] = {b}]

Entered(x, k, b) ==
    IF k = NilKey \/ x.keeps = "none" THEN Unknown(x) ELSE [x EXCEPT !.entries[k] = @ \cup {b}]

\* The files when the indexes on the columns of S have the entry.
IndexAfter(t, S, r, b) ==
    [f \in DOMAIN index |->
       IF f[1] = t /\ f[2] \in S THEN Entered(index[f], r[f[2]], b) ELSE index[f]]

NextBlock(t) == Cat!NextPos(tables[t]) \div Cat!BlockSize
NextSlot(t)  == (Cat!NextPos(tables[t]) % Cat!BlockSize) \div Cat!RecSize(tables[t])

\* The record and its index entries, in the block add_rec_count chose.
Insert(t, r) ==
    /\ Running(t) /\ Cat!AddRecCount(t)
    /\ ~Duplicate(t, r, {}) /\ Accepted(t, r, {})
    /\ index' = IndexAfter(t, Updated(t, r, {}), r, NextBlock(t))
    /\ Pool!Write(t, NextBlock(t), NextSlot(t), r)
    /\ rows' = [rows EXCEPT ![t] = Append(@, r)]
    /\ UNCHANGED <<life, history>>

\* An index whose answer is not known refuses behind others that were updated:
\* they have an entry for no row, which is all that "keeps" records.
Ahead(files, t, S, no) ==
    [f \in DOMAIN files |->
       IF no # {} /\ f[1] = t /\ f[2] \in S /\ files[f].keeps = "all"
       THEN [files[f] EXCEPT !.keeps = "rows"]
       ELSE files[f]]

\* add_rec_count is undone; an index that was updated before is not.
RejectInsert(t, r) ==
    /\ Running(t) /\ tables[t].numOfRec < MaxRec
    /\ \E no \in Answers(t, r) :
          \/ Duplicate(t, r, no) /\ index' = index
          \/ /\ ~Duplicate(t, r, no) /\ ~Accepted(t, r, no)
             /\ LET S == Updated(t, r, no)
                IN  index' = Ahead(IndexAfter(t, S, r, NextBlock(t)), t, S, no)
    /\ UNCHANGED <<catalog, blocks, life, rows, history>>

-------------------------------------------------------------------------------
(* Reading: select, and the scan of create_index *)

\* The records a scan meets: in every block up to the first one not written.
Scanned(t, content) ==
    {p \in (0 .. Cat!BlocksOf(tables[t]) - 1) \X Slots :
       \A s \in 0 .. p[2] : content[t][p[1]][s] # Blank}

Select(t) ==
    /\ Running(t) /\ tables[t].numOfRec > 0
    /\ Pool!Read
    /\ UNCHANGED <<catalog, index, life, rows, history>>

-------------------------------------------------------------------------------
(* Indexes *)

At(t, p) == store[t][p[1]][p[2]]

\* Mutant: blocks are numbered from 1.
Built_FromOne(t, c, mode) ==
    [mode |-> mode, keeps |-> IF crashed THEN "rows" ELSE "all",
     entries |-> [k \in Keys |-> {p[1] + 1 : p \in {q \in Scanned(t, store) : At(t, q)[c] = k}}]]

\* After a crash the blocks behind the table may hold records that a scan meets
\* once the table has grown, so that the index does not have them all.
Built(t, c, mode) ==
    [mode |-> mode, keeps |-> IF crashed THEN "rows" ELSE "all",
     entries |-> [k \in Keys |-> {p[1] : p \in {q \in Scanned(t, store) : At(t, q)[c] = k}}]]

\* Two scanned records with one key stop a no-duplicate index.
Clash(t, c) == \E p, q \in Scanned(t, store) : p # q /\ At(t, p)[c] = At(t, q)[c]

\* What becomes of INT_MAX in a new index is not known.
HasNil(t, c) == \E p \in Scanned(t, store) : At(t, p)[c] = NilKey

CreateIndex(t, i, c, mode) ==
    /\ up /\ Cat!CreateIndex(t, i, c)
    /\ index' = Cat!With(index, <<t, c>>,
                         IF HasNil(t, c) THEN Unknown(Built(t, c, mode)) ELSE Built(t, c, mode))
    /\ mode = "N" /\ Clash(t, c) => HasNil(t, c)
    /\ Pool!Read
    /\ UNCHANGED <<life, rows, history>>

\* The checks before the file is made.
MayIndex(t, i, c) ==
    /\ up /\ t \in DOMAIN tables
    /\ Cat!NameFree(tables[t], i) /\ Cat!ColFree(tables[t], c) /\ Cat!HasSlot(tables[t])

\* Mutant: the file that was begun is left behind.
FailIndex_Left(t, i, c) ==
    /\ MayIndex(t, i, c)
    /\ Clash(t, c) \/ HasNil(t, c)
    /\ index' = Cat!With(index, <<t, c>>, Built(t, c, "N"))
    /\ Pool!Read
    /\ UNCHANGED <<catalog, life, rows, history>>

\* drop_index removes the entry and the file that were just made.
FailIndex(t, i, c) ==
    /\ MayIndex(t, i, c)
    /\ Clash(t, c) \/ HasNil(t, c)
    /\ index' = Without(index, {<<t, c>>})
    /\ Pool!Read
    /\ UNCHANGED <<catalog, life, rows, history>>

DropIndex(t, i) ==
    /\ up /\ Cat!DropIndex(t, i)
    /\ index' = Without(index, {<<t, tables[t].index[i]>>})
    /\ UNCHANGED <<blocks, life, rows, history>>

-------------------------------------------------------------------------------
(* The process *)

Commit ==
    /\ up
    /\ Pool!Commit(DOMAIN tables)
    /\ UNCHANGED <<catalog, index, life, rows, history>>

\* Mutant: EXIT saves the catalog and not the pool.
Exit_NoCommit ==
    /\ up /\ up' = FALSE
    /\ catFile' = "saved" /\ saved' = catalog /\ savedRows' = rows
    /\ UNCHANGED <<catalog, blocks, index, rows, history>>

Exit ==
    /\ up /\ up' = FALSE
    /\ Pool!Commit(DOMAIN tables)
    /\ catFile' = "saved" /\ saved' = catalog /\ savedRows' = rows
    /\ UNCHANGED <<catalog, index, rows, history>>

\* What the catalog file lists is still there.
SavedIsThere(files) ==
    LET listed == saved[1]
    IN  \A t \in DOMAIN listed :
           /\ t \notin dropped
           /\ \A c \in Cat!Indexed(listed[t]) : <<t, c>> \in files

\* A process dies.  Had it dropped something that the catalog file lists, the
\* next one would find files missing, which is outside the model.
Dies ==
    /\ up /\ up' = FALSE /\ crashed' = TRUE
    /\ UNCHANGED <<catalog, rows, dropped>>

\* Between two statements, or inside one before its first write to a file.
Crash ==
    /\ Dies
    /\ SavedIsThere(DOMAIN index)
    /\ UNCHANGED <<blocks, index, catFile, saved, savedRows>>

\* Mutant: the row is in its file before its index entries are.
CrashInInsert_RowFirst(t, r) ==
    /\ Dies
    /\ Running(t) /\ tables[t].numOfRec < MaxRec /\ Accepted(t, r, {})
    /\ SavedIsThere(DOMAIN index)
    /\ durable' = [durable EXCEPT ![t][NextBlock(t)][NextSlot(t)] = r]
    /\ UNCHANGED <<store, index, catFile, saved, savedRows>>

\* Inside insert: some indexes have the entry, in the order of their names, and
\* the last of them may be cut between two of its writes.  The row is nowhere.
CrashInInsert(t, r) ==
    /\ Dies
    /\ Running(t) /\ tables[t].numOfRec < MaxRec
    /\ SavedIsThere(DOMAIN index)
    /\ \E no \in Answers(t, r) :
          /\ ~Duplicate(t, r, no)
          /\ LET ix == tables[t].index
             IN  \E i \in {i \in DOMAIN ix : ix[i] \in Updated(t, r, no)} :
                    LET S     == {ix[j] : j \in {j \in DOMAIN ix : j <= i}}
                        after == IndexAfter(t, S, r, NextBlock(t))
                    IN  index' \in {after, [after EXCEPT ![<<t, ix[i]>>] = Unknown(@)]}
    /\ UNCHANGED <<blocks, catFile, saved, savedRows>>

\* Inside create_index: the file is there, with some of its entries.
CrashInCreateIndex(t, i, c, mode) ==
    /\ Dies
    /\ MayIndex(t, i, c)
    /\ index' = Cat!With(index, <<t, c>>, Unknown(Built(t, c, mode)))
    /\ SavedIsThere(DOMAIN index')
    /\ UNCHANGED <<blocks, catFile, saved, savedRows>>

\* Inside EXIT: opening CATALOG for writing has emptied it and the new one is not
\* written, so that no process can start again.
CrashInExit ==
    /\ Dies
    /\ Pool!Commit(DOMAIN tables)
    /\ catFile' = "empty" /\ saved' = <<<<>>, 0>> /\ savedRows' = <<>>
    /\ UNCHANGED index

\* The first start leaves an empty CATALOG, which no later start can read: a
\* process that finds one ends with an exception and changes nothing.
Start ==
    /\ ~up /\ up' = TRUE
    /\ catFile # "empty"
    /\ catFile' = IF catFile = "absent" THEN "empty" ELSE catFile
    /\ tables' = saved[1] /\ numOfTables' = saved[2]
    /\ rows' = savedRows
    /\ Pool!Restart
    /\ UNCHANGED <<index, saved, savedRows, history>>

-------------------------------------------------------------------------------

Statement ==
    \/ \E t \in Names : CreateTable(t) \/ Select(t)
    \/ \E t \in Names, r \in Rows : Insert(t, r) \/ RejectInsert(t, r)
    \/ \E t \in Names, i \in IndexNames, c \in Cols :
          FailIndex(t, i, c) \/ \E mode \in {"Y", "N"} : CreateIndex(t, i, c, mode)
    \/ Commit

Drop == \E t \in Names : DropTable(t) \/ \E i \in IndexNames : DropIndex(t, i)

Crashes ==
    \/ Crash \/ CrashInExit
    \/ \E t \in Names, r \in Rows : CrashInInsert(t, r)
    \/ \E t \in Names, i \in IndexNames, c \in Cols, mode \in {"Y", "N"} :
          CrashInCreateIndex(t, i, c, mode)

Process == Exit \/ Start \/ Crashes

Spec == Init /\ [][Statement \/ Drop \/ Process]_vars

-------------------------------------------------------------------------------
(* Properties. *)

\* Every variable ranges over what the code can store in it.
TypeOK ==
    /\ Cat!TypeOK
    /\ store \in [Names -> [Blocks -> [Slots -> Rows \cup {Blank}]]]
    /\ durable \in [Names -> [Blocks -> [Slots -> Rows \cup {Blank}]]]
    /\ DOMAIN index \subseteq Names \X Cols
    /\ \A f \in DOMAIN index : index[f] \in IndexFile
    /\ catFile \in {"absent", "empty", "saved"}
    /\ up \in BOOLEAN

Place(n) == <<(n - 1) \div Per, (n - 1) % Per>>

Known == IF up THEN DOMAIN tables \ dropped ELSE {}

\* A scan of a table shows exactly the rows inserted into it, in their order,
\* across evictions, commits and restarts, unless a process crashed (what it had
\* evicted is met by scans once the table grows over it) or a table of its name
\* was dropped (the frames DROP TABLE leaves in the pool are read again).
ScanIsRows ==
    ~crashed =>
    \A t \in Known :
       LET n == Len(rows[t])
       IN  /\ tables[t].numOfRec = n
           /\ Scanned(t, store) = {Place(i) : i \in 1 .. n}
           /\ \A i \in 1 .. n : At(t, Place(i)) = rows[t][i]

BlocksWith(t, c, k) == {Place(i)[1] : i \in {j \in 1 .. Len(rows[t]) : rows[t][j][c] = k}}

\* Until a process crashes, an index maps every key to exactly the blocks of the
\* rows that have it, whether it was there before the rows or was built from
\* them, whichever insertions were refused as duplicates: a query by index finds
\* what a scan finds.  Not so an index that was given INT_MAX, or that had its
\* entry when another refused INT_MAX or was damaged by it.
IndexExact ==
    ~crashed =>
    \A t \in Known : \A c \in Cat!Indexed(tables[t]) :
       index[<<t, c>>].keeps = "all" =>
         index[<<t, c>>].entries = [k \in Keys |-> BlocksWith(t, c, k)]

\* Rows of a table differ in every column with a no-duplicate index, also when
\* the index or the file has more than the catalog after a crash, unless the
\* index was given INT_MAX or a crash fell between two writes of its file.
UniqueKeys ==
    \A t \in Known : \A c \in Cat!Indexed(tables[t]) :
       index[<<t, c>>].mode = "N" /\ index[<<t, c>>].keeps # "none" =>
         \A i, j \in 1 .. Len(rows[t]) : rows[t][i][c] = rows[t][j][c] => i = j

\* Every index of the catalog has its file, and until a process crashes no other
\* file is left: not by a failed CREATE INDEX, a DROP or a restart.
FilesMatch ==
    LET listed == {f \in Names \X Cols :
                     f[1] \in DOMAIN tables /\ f[2] \in Cat!Indexed(tables[f[1]])}
    IN  up => listed \subseteq DOMAIN index /\ (~crashed => listed = DOMAIN index)

\* An insert that is refused changes no index, with two indexes too: the check
\* before the first update is what keeps them in step (query.c:83-102).  It cannot
\* know the answer of a duplicate-mode index to INT_MAX, or of a damaged one.
RejectsCleanly ==
    [][\A t \in Names, r \in Rows :
         RejectInsert(t, r) /\ Answers(t, r) = {{}} => index' = index]_vars

\* What was inserted before the latest EXIT, or since the start, is readable
\* whenever earlier sessions crashed, whatever they had evicted into the same
\* blocks.
CrashKeepsSaved ==
    \A t \in Known : \A i \in 1 .. Len(rows[t]) :
       Place(i) \in Scanned(t, store) /\ At(t, Place(i)) = rows[t][i]

\* Index entries are in their files before the row is in its own.  Wherever a
\* crash falls, in insert too, every row the table has by its catalog is in those
\* of its indexes that were not themselves cut or given INT_MAX; and every record
\* a scan meets, those left by lost sessions included, is in the indexes built
\* before the first crash.
CrashKeepsIndexed ==
    \A t \in Known : \A c \in Cat!Indexed(tables[t]) :
       LET x == index[<<t, c>>]
       IN  /\ x.keeps # "none" => \A k \in Keys : BlocksWith(t, c, k) \subseteq x.entries[k]
           /\ x.keeps = "all" => \A p \in Scanned(t, store) : p[1] \in x.entries[At(t, p)[c]]

===============================================================================
