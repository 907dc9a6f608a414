----------------------------- MODULE MCBPlusTree -----------------------------
(***************************************************************************)
(* BPlusTree with the insertions a run offers restricted.                  *)
(***************************************************************************)
EXTENDS BPlusTree

Offered(k, v) == InsertFirst(k, v) \/ BeginInsert(k, v)

Around ==
    \/ \E mode \in Modes : Create(mode)
    \/ Open \/ Close
    \/ \E k \in Keys : BeginFind(k)
    \/ Step

\* At the capacities of the code it takes 13 keys to split an internal node and
\* all their orders are out of reach: keys come in from the two ends, once each.
Stored(k) == Entries(k) # {}

FromTheEnds(k) ==
    /\ ~Stored(k)
    /\ \/ \A j \in Keys : j < k => Stored(j)
       \/ \A j \in Keys : j > k => Stored(j)

EndsSpec == Init /\ [][Around \/ \E k \in Keys, v \in Vals : FromTheEnds(k) /\ Offered(k, v)]_vars

\* With duplicates the buckets take blocks too, and far fewer keys are in reach.
Few(k) == hdr.duplicate = "Y" => k <= 4

SplitsSpec ==
    /\ Init
    /\ [][Around \/ \E k \in Keys, v \in Vals : Few(k) /\ Offered(k, v)]_vars
    /\ WF_vars(Step)
===============================================================================
