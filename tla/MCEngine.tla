------------------------------- MODULE MCEngine -------------------------------
EXTENDS Engine, TLC

Symmetry == Permutations(Keys \ {NilKey})

\* Dropped names are not created again.
FreshNames == \A t \in Names : t \in dropped => t \notin DOMAIN tables

Alike(content) ==
    \A t \in Names, b \in Blocks, s \in Slots :
       content[t][b][s] # Blank => \E k \in Keys : content[t][b][s] = [c \in Cols |-> k]

\* Once a process has crashed, only tables with at most the index on the first
\* column, and rows with one value in all columns.
OneColumn ==
    crashed => /\ DOMAIN index \subseteq Names \X {1}
               /\ Alike(store) /\ Alike(durable)

Has(content, c, k) ==
    \E t \in Names, b \in Blocks, s \in Slots :
       content[t][b][s] # Blank /\ content[t][b][s][c] = k

\* INT_MAX comes in the second column only.  Once it has come, tables have at most
\* two rows, and the first session does not end.
FewNil ==
    /\ ~Has(store, 1, NilKey) /\ ~Has(durable, 1, NilKey)
    /\ \/ ~Has(store, 2, NilKey) /\ \A f \in DOMAIN index : index[f].keeps = "all"
       \/ crashed
       \/ catFile # "saved" /\ \A t \in DOMAIN rows : Len(rows[t]) <= 2

Bounded == FreshNames /\ OneColumn /\ FewNil
===============================================================================
