------------------------------ MODULE BlockStore ------------------------------
(***************************************************************************)
(* What the buffer manager promises to the query layer: a block-addressed  *)
(* store of records.  "store" is what a read returns, "durable" what a new *)
(* process finds on disk.  A block may be copied to disk at any time the   *)
(* pool needs its frame, so a step that uses the pool may save any blocks. *)
(***************************************************************************)
EXTENDS Naturals

CONSTANTS Tables,     \* table names
          Blocks,     \* block numbers of a table file
          Slots,      \* record positions inside a block, 0 the first byte
          Recs,       \* records
          Blank       \* a position no record was written to

VARIABLES store, durable

vars == <<store, durable>>

BlankBlock == [s \in Slots |-> Blank]
Empty      == [t \in Tables |-> [b \in Blocks |-> BlankBlock]]

Init == store = Empty /\ durable = Empty

\* Any blocks go to disk as the store held them before the step.
WriteBack ==
    \E out \in [Tables -> SUBSET Blocks] :
       durable' = [t \in Tables |->
                     [b \in Blocks |-> IF b \in out[t] THEN store[t][b] ELSE durable[t][b]]]

Read ==
    /\ store' = store
    /\ WriteBack

\* A record written at the first byte of a block may start the block afresh:
\* callers fill a block in order, so nothing is behind it then.
Write(t, b, s, r) ==
    /\ \/ store' = [store EXCEPT ![t] =
                      [@ EXCEPT ![b] = [store[t][b] EXCEPT ![s] = r]]]
       \/ /\ s = 0
          /\ store' = [store EXCEPT ![t] =
                         [@ EXCEPT ![b] = [BlankBlock EXCEPT ![s] = r]]]
    /\ WriteBack

\* A commit makes everything the listed tables hold survive a restart.
Commit(live) ==
    /\ durable' = [t \in Tables |-> IF t \in live THEN store[t] ELSE durable[t]]
    /\ store' = store

\* Deleting a table's file empties it on disk; blocks that were buffered may
\* stay readable ("do not flush the table when drop", query.c:782).
DeleteFile(t) ==
    /\ durable' = [durable EXCEPT ![t] = [b \in Blocks |-> BlankBlock]]
    /\ \E kept \in SUBSET Blocks :
          store' = [store EXCEPT ![t] =
                      [b \in Blocks |-> IF b \in kept THEN store[t][b] ELSE BlankBlock]]

\* A new process sees what was on disk.
Restart ==
    /\ store' = durable
    /\ durable' = durable

Next ==
    \/ Read
    \/ \E t \in Tables, b \in Blocks, s \in Slots, r \in Recs : Write(t, b, s, r)
    \/ \E live \in SUBSET Tables : Commit(live)
    \/ \E t \in Tables : DeleteFile(t)
    \/ Restart

Spec == Init /\ [][Next]_vars
===============================================================================
