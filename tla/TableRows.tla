------------------------------- MODULE TableRows -------------------------------
(***************************************************************************)
(* Tables over the buffer manager itself, with the positions query.c and   *)
(* the catalog give it: the next row of a table goes behind its last one,  *)
(* and a table scan reads the blocks that have rows.  "count" is numOfRec, *)
(* NoTable where the catalog has no such table.                            *)
(***************************************************************************)
EXTENDS BufferPool

CONSTANTS NoTable, MaxRows      \* MaxRows: bound of the model, rows of a table

ASSUME RowsAssumption ==
    /\ MaxRows \in 0 .. (MaxBlock + 1) * (MaxSlot + 1)
    /\ NoTable \notin Nat

VARIABLE count

tableVars == <<vars, count>>

PerBlock   == MaxSlot + 1
BlockOf(n) == n \div PerBlock
SlotOf_FromOne(n) == (n + 1) % PerBlock     \* mutant
SlotOf(n)  == n % PerBlock

Live == {t \in Tables : count[t] # NoTable}

TableInit == Init /\ count = [t \in Tables |-> NoTable]

Create(t) ==
    /\ t \notin Live
    /\ count' = [count EXCEPT ![t] = 0]
    /\ UNCHANGED vars

InsertRow(t, r) ==
    /\ t \in Live /\ count[t] < MaxRows
    /\ Write(t, BlockOf(count[t]), SlotOf(count[t]), r)
    /\ count' = [count EXCEPT ![t] = @ + 1]

\* One block of a scan.
ReadBlock(t, b) ==
    /\ t \in Live /\ count[t] > 0 /\ b <= BlockOf(count[t] - 1)
    /\ Get(t, b)
    /\ UNCHANGED count

CommitTables == Commit(Live) /\ UNCHANGED count

\* Mutant: EXIT does not commit.
NextSession_NoCommit == pool' = <<>> /\ inUse' = 0 /\ UNCHANGED <<files, count>>

\* EXIT commits; the next session starts with an empty pool.
NextSession ==
    /\ CommitFiles(Live)
    /\ pool' = <<>> /\ inUse' = 0
    /\ UNCHANGED count

Drop(t) ==
    /\ t \in Live
    /\ DeleteFile(t)
    /\ count' = [count EXCEPT ![t] = NoTable]

Work ==
    \/ \E t \in Tables : Create(t) \/ \E b \in Blocks : ReadBlock(t, b)
    \/ \E t \in Tables, r \in Recs : InsertRow(t, r)
    \/ CommitTables
    \/ NextSession

TableSpec == TableInit /\ [][Work]_tableVars
DropSpec  == TableInit /\ [][Work \/ \E t \in Tables : Drop(t)]_tableVars

-------------------------------------------------------------------------------
(* Properties. *)

\* Without DROP TABLE, a scan of a table meets its rows and then filling: never
\* the zeros of a hole, which it would print as a row, and never a row lost to
\* an eviction, although blocks are written out of order and the manager takes
\* a write at the first byte of a block it does not hold as a new block.
BlocksAreRows ==
    \A t \in Live, b \in Blocks : \A s \in Slots :
       /\ b * PerBlock + s < count[t] => Raw(t, b)[s] \in Recs
       /\ /\ b * PerBlock <= count[t] - 1
          /\ b * PerBlock + s >= count[t]
          => Raw(t, b)[s] = Fill

\* "inBufSize==0 means needs a new block" (buffer_mng.cpp:118): after a write at
\* the first byte of a block, that record is alone in it.
FirstByteIsNewBlock ==
    [][\A t \in Tables, r \in Recs :
          InsertRow(t, r) /\ SlotOf(count[t]) = 0 =>
            \E i \in DOMAIN pool' :
               /\ pool'[i].table = t /\ pool'[i].block = BlockOf(count[t])
               /\ pool'[i].data = Put(FillBlock, 0, r)]_tableVars

===============================================================================
