------------------------------ MODULE BufferPool ------------------------------
(***************************************************************************)
(* The buffer manager of buffer_mng.cpp over the table files of file.cpp.  *)
(* "pool" is the list buf_pool, its head the end that is evicted, "inUse"  *)
(* the counter buff_in_use.  A table file is its length in blocks, "size", *)
(* and what a read of each block gives, "disk": a block past the end gives *)
(* Fill, because the read fails and leaves the frame as Buffer::fill made  *)
(* it; a block inside the file that was skipped by a write gives Zero.     *)
(***************************************************************************)
EXTENDS Naturals, SequencesExt

CONSTANTS Tables,     \* table names
          MaxBlock,   \* highest block number
          MaxSlot,    \* highest record position inside a block
          Recs,       \* records
          Fill,       \* the bytes 0xC3 a new frame is filled with
          Zero,       \* the zero bytes of a hole in a file
          Limit       \* buff_limits, the argument of the program

ASSUME PoolAssumption ==
    /\ MaxBlock \in Nat
    /\ MaxSlot \in Nat
    /\ Limit \in Nat \ {0}
    /\ Fill \notin Recs /\ Zero \notin Recs /\ Fill # Zero

VARIABLES pool, inUse, disk, size

vars  == <<pool, inUse, disk, size>>
files == <<disk, size>>

Blocks    == 0 .. MaxBlock
Slots     == 0 .. MaxSlot
Values    == Recs \cup {Fill, Zero}
Contents  == [Slots -> Values]
FillBlock == [s \in Slots |-> Fill]
ZeroBlock == [s \in Slots |-> Zero]
Frames    == [table : Tables, block : Blocks, data : Contents]

Frame_NextBlock(t, b, d) == [table |-> t, block |-> b + 1, data |-> d]   \* mutant
Frame(t, b, d) == [table |-> t, block |-> b, data |-> d]

Init ==
    /\ pool = <<>> /\ inUse = 0
    /\ disk = [t \in Tables |-> [b \in Blocks |-> FillBlock]]
    /\ size = [t \in Tables |-> 0]

-------------------------------------------------------------------------------
(* Files. *)

\* File::buff2disk_ on block b: a write past the end leaves zeros behind.
DiskAfter(t, b, d) ==
    [disk EXCEPT ![t] =
       [c \in Blocks |-> IF c = b THEN d
                         ELSE IF size[t] <= c /\ c < b THEN ZeroBlock
                         ELSE disk[t][c]]]

SizeAfter_Short(t, b) == [size EXCEPT ![t] = IF b < @ THEN @ ELSE b]    \* mutant
SizeAfter(t, b) == [size EXCEPT ![t] = IF b < @ THEN @ ELSE b + 1]

WriteDisk(f) ==
    /\ disk' = DiskAfter(f.table, f.block, f.data)
    /\ size' = SizeAfter(f.table, f.block)

-------------------------------------------------------------------------------
(* The pool. *)

Holds(i, t, b)   == pool[i].table = t /\ pool[i].block = b
Resident_NotTail(t, b) == \E i \in 1 .. Len(pool) - 1 : Holds(i, t, b)   \* mutant
Resident(t, b)   == \E i \in DOMAIN pool : Holds(i, t, b)
FirstHit(i, t, b) == Holds(i, t, b) /\ \A j \in 1 .. i-1 : ~Holds(j, t, b)

HasRoom_OneMore == inUse <= Limit     \* mutant
HasRoom == inUse < Limit

\* A frame enters a pool with room.
Enter(f) == pool' = Append(pool, f) /\ inUse' = inUse + 1

\* A frame replaces the head of a full pool.
Replace(f) == pool' = Append(Tail(pool), f) /\ inUse' = inUse

-------------------------------------------------------------------------------
(* get_buf_block: in every case the frame it returns is the tail of the list. *)

GetHit(t, b) ==
    \E i \in DOMAIN pool :
       /\ FirstHit(i, t, b)
       /\ pool' = Append(RemoveAt(pool, i), pool[i])
       /\ UNCHANGED <<inUse, files>>

\* Mutant: the frame is not loaded from the file.
GetRoom_NotLoaded(t, b) ==
    ~Resident(t, b) /\ HasRoom /\ Enter(Frame(t, b, FillBlock)) /\ UNCHANGED files

GetRoom(t, b) ==
    /\ ~Resident(t, b)
    /\ HasRoom
    /\ Enter(Frame(t, b, disk[t][b]))
    /\ UNCHANGED files

\* Mutant: the victim is not saved.
GetEvict_NotSaved(t, b) ==
    ~Resident(t, b) /\ ~HasRoom /\ Replace(Frame(t, b, disk[t][b])) /\ UNCHANGED files

\* The victim is on disk before the requested block is read.
GetEvict(t, b) ==
    /\ ~Resident(t, b)
    /\ ~HasRoom
    /\ WriteDisk(Head(pool))
    /\ Replace(Frame(t, b, disk'[t][b]))

-------------------------------------------------------------------------------
(* write2buf; slot 0 is the byte offset 0 of the block. *)

Put(d, s, r) == [d EXCEPT ![s] = r]

\* In an empty pool only insertPos = 0 starts a fresh frame.
WriteFirst(t, b, s, r) ==
    /\ inUse = 0
    /\ Enter(Frame(t, b, Put(IF b = 0 /\ s = 0 THEN FillBlock ELSE disk[t][b], s, r)))
    /\ UNCHANGED files

\* The frame stays where it is in the list.
WriteHit(t, b, s, r) ==
    /\ inUse # 0
    /\ \E i \in DOMAIN pool :
          /\ FirstHit(i, t, b)
          /\ pool' = ReplaceAt(pool, i, Frame(t, b, Put(pool[i].data, s, r)))
    /\ UNCHANGED <<inUse, files>>

WriteRoom(t, b, s, r) ==
    /\ inUse # 0
    /\ ~Resident(t, b)
    /\ HasRoom
    /\ Enter(Frame(t, b, Put(IF s = 0 THEN FillBlock ELSE disk[t][b], s, r)))
    /\ UNCHANGED files

WriteEvict(t, b, s, r) ==
    /\ inUse # 0
    /\ ~Resident(t, b)
    /\ ~HasRoom
    /\ WriteDisk(Head(pool))
    /\ Replace(Frame(t, b, Put(IF s = 0 THEN FillBlock ELSE disk'[t][b], s, r)))

-------------------------------------------------------------------------------
(* commit: every frame of a table the catalog knows goes to its file. *)

Buffered(t, b) == pool[CHOOSE i \in DOMAIN pool : FirstHit(i, t, b)].data

Reaches(t, c) == \E i \in DOMAIN pool : pool[i].table = t /\ c < pool[i].block

\* Mutant: the most recent frame is skipped.
Committed_NotTail(t, b) ==
    IF Resident(t, b) /\ ~Holds(Len(pool), t, b) THEN Buffered(t, b) ELSE disk[t][b]

Committed(t, b) ==
    IF Resident(t, b) THEN Buffered(t, b)
    ELSE IF size[t] <= b /\ Reaches(t, b) THEN ZeroBlock
    ELSE disk[t][b]

CommittedSize(t) ==
    Max({size[t]} \cup {pool[i].block + 1 : i \in {j \in DOMAIN pool : pool[j].table = t}})

CommitFiles(live) ==
    /\ disk' = [t \in Tables |-> IF t \in live THEN [b \in Blocks |-> Committed(t, b)]
                                              ELSE disk[t]]
    /\ size' = [t \in Tables |-> IF t \in live THEN CommittedSize(t) ELSE size[t]]

Commit(live) == CommitFiles(live) /\ UNCHANGED <<pool, inUse>>

-------------------------------------------------------------------------------
(* The rest of the program. *)

\* drop_table removes the file and leaves the pool alone.
DeleteFile(t) ==
    /\ disk' = [disk EXCEPT ![t] = [b \in Blocks |-> FillBlock]]
    /\ size' = [size EXCEPT ![t] = 0]
    /\ UNCHANGED <<pool, inUse>>

\* A process ends, by EXIT or not, and the next one makes a new manager.
Restart ==
    /\ pool' = <<>> /\ inUse' = 0
    /\ UNCHANGED files

Get(t, b) == GetHit(t, b) \/ GetRoom(t, b) \/ GetEvict(t, b)

Write(t, b, s, r) ==
    \/ WriteFirst(t, b, s, r)
    \/ WriteHit(t, b, s, r)
    \/ WriteRoom(t, b, s, r)
    \/ WriteEvict(t, b, s, r)

Next ==
    \/ \E t \in Tables, b \in Blocks : Get(t, b)
    \/ \E t \in Tables, b \in Blocks, s \in Slots, r \in Recs : Write(t, b, s, r)
    \/ \E live \in SUBSET Tables : Commit(live)
    \/ \E t \in Tables : DeleteFile(t)
    \/ Restart

Spec == Init /\ [][Next]_vars

-------------------------------------------------------------------------------
(* Properties. *)

\* Every variable ranges over what the code can store in it.
TypeOK ==
    /\ pool \in Seq(Frames)
    /\ inUse \in Nat
    /\ disk \in [Tables -> [Blocks -> Contents]]
    /\ size \in [Tables -> Nat]

\* No block is ever buffered in two frames, whatever the order of reads, writes,
\* evictions, drops and commits: get_buf_block and write2buf both search the
\* list by name and number, and two copies of a block would drift apart.
UniqueFrames ==
    \A i, j \in DOMAIN pool :
       pool[i].table = pool[j].table /\ pool[i].block = pool[j].block => i = j

\* buff_in_use counts the frames of the list and stays within buff_limits, so
\* a full pool always has a head to evict (buffer_mng.cpp:56, 136).
PoolBound == inUse = Len(pool) /\ inUse <= Limit

\* A table file never holds anything past its recorded end.
FilesEnd ==
    \A t \in Tables, b \in Blocks : size[t] <= b => disk[t][b] = FillBlock

\* What a reader makes of a block: neither filling nor a hole is a record.
Visible(d) == [s \in Slots |-> IF d[s] = Zero THEN Fill ELSE d[s]]

\* The block as a read would find it now.
Raw(t, b)     == IF Resident(t, b) THEN Buffered(t, b) ELSE disk[t][b]
Content(t, b) == Visible(Raw(t, b))

Store   == [t \in Tables |-> [b \in Blocks |-> Content(t, b)]]
Durable == [t \in Tables |-> [b \in Blocks |-> Visible(disk[t][b])]]

BS == INSTANCE BlockStore WITH store <- Store, durable <- Durable, Blank <- Fill

\* The pool over the files is a block store: no eviction, hit, load, commit or
\* delete changes what any other block holds, and a written record stays until
\* its file is deleted or the process ends.
Refinement == BS!Spec

\* get_buf_block returns the block as the latest write left it, whether the
\* block is buffered, was evicted since, or shares its file with the victim.
ReadsLatest ==
    [][\A t \in Tables, b \in Blocks : Get(t, b) =>
          Visible(Last(pool').data) = Content(t, b)]_vars

\* After COMMIT the files alone hold every block of every table in the catalog,
\* so that a process which starts then reads what this one would have read.
CommitSaves ==
    [][\A live \in SUBSET Tables : Commit(live) =>
          \A t \in live, b \in Blocks : Visible(disk'[t][b]) = Content(t, b)]_vars

===============================================================================
