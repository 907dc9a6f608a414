------------------------------- MODULE MCQuery -------------------------------
(***************************************************************************)
(* A table of two columns with the index on the first: every order of keys,*)
(* and in the second column 0 and 1 by turns, so that a clause on it cuts  *)
(* through the blocks.                                                     *)
(***************************************************************************)
EXTENDS Query

Offered == {<<k, Len(rows) % 2>> : k \in Keys}

On(col, op, n)  == [left |-> col, op |-> op, right |-> NoCol, num |-> n]
Cross(l, op, r) == [left |-> l, op |-> op, right |-> r, num |-> 0]

Ranges == {">", ">=", "<", "<="}

Clauses ==
    {<<On(1, op, n)>> : op \in Ranges \cup {"="}, n \in {2, 3, NilKey}}
    \cup {<<On(2, "=", 0), On(1, op, 2)>> : op \in {">=", "<"}}
    \cup {<<On(1, ">", 1), On(1, "<", 3)>>, <<On(1, "!=", 2)>>, <<Cross(1, ">", 2)>>,
          <<On(Unknown, "=", 1)>>, <<Cross(Unknown, "=", 2)>>}

QuerySpec == QueryInit /\ [][QueryNext(Offered, Clauses)]_queryVars /\ WF_queryVars(Running)
===============================================================================
