------------------------------- MODULE LruAudit -------------------------------
(***************************************************************************)
(* The buffer manager with a log of the order in which blocks were last    *)
(* used, to compare the list with what the program says of it: print_buffer*)
(* labels the head of the list LRU and the tail MRU (buffer_mng.cpp:228,   *)
(* 244), and the manager evicts "the LRU block" (lines 52 and 135).        *)
(***************************************************************************)
EXTENDS BufferPool

VARIABLE recent     \* every block used since the start, the latest use last

auditVars == <<vars, recent>>

Use(t, b) == recent' = Append(SelectSeq(recent, LAMBDA x : x # <<t, b>>), <<t, b>>)

AuditInit == Init /\ recent = <<>>

AuditNext ==
    \/ \E t \in Tables, b \in Blocks : Get(t, b) /\ Use(t, b)
    \/ \E t \in Tables, b \in Blocks, s \in Slots, r \in Recs :
          Write(t, b, s, r) /\ Use(t, b)
    \/ Restart /\ recent' = <<>>

AuditSpec == AuditInit /\ [][AuditNext]_auditVars

\* The head of the list, the frame the next miss evicts, is the buffered block
\* whose latest read or write is the oldest (print_buffer's "LRU" end).
HeadIsLRU ==
    LET buffered == SelectSeq(recent, LAMBDA x : Resident(x[1], x[2]))
    IN  pool # <<>> => buffered[1] = <<pool[1].table, pool[1].block>>

===============================================================================
