------------------------------- MODULE IndexSpec -------------------------------
(***************************************************************************)
(* What an index promises to query.c: for every key the set of table blocks*)
(* that hold a row with that key.  An index created without duplicates     *)
(* ("N") refuses a key it already has.                                     *)
(***************************************************************************)
CONSTANTS Keys,     \* values of the indexed column
          Vals      \* block numbers of the table

VARIABLES mode, entries, answer

vars == <<mode, entries, answer>>

Init ==
    /\ mode = "none"
    /\ entries = [k \in Keys |-> {}]
    /\ answer = <<"none">>

Create(m) ==
    /\ mode = "none"
    /\ mode' = m
    /\ answer' = <<"none">>
    /\ entries' = entries

Refused(k) == mode = "N" /\ entries[k] # {}

Insert(k, v) ==
    /\ mode # "none"
    /\ IF Refused(k)
         THEN entries' = entries /\ answer' = <<"refused">>
         ELSE /\ entries' = [entries EXCEPT ![k] = @ \cup {v}]
              /\ answer' = <<"stored">>
    /\ mode' = mode

Lookup(k) ==
    CASE \A j \in Keys : entries[j] = {} -> <<"empty">>
      [] entries[k] # {}                 -> <<"found", entries[k]>>
      [] OTHER                           -> <<"absent">>

Find(k) ==
    /\ mode # "none"
    /\ answer' = Lookup(k)
    /\ UNCHANGED <<mode, entries>>

\* The next call begins: its caller has seen the answer of the last one.
Begin == answer' = <<"none">> /\ UNCHANGED <<mode, entries>>

Next ==
    \/ Begin
    \/ \E m \in {"Y", "N"} : Create(m)
    \/ \E k \in Keys, v \in Vals : Insert(k, v)
    \/ \E k \in Keys : Find(k)

Spec == Init /\ [][Next]_vars
===============================================================================
