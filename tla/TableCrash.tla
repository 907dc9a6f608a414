------------------------------ MODULE TableCrash ------------------------------
(***************************************************************************)
(* TableRows with sessions that end at any point: the pool is lost and the *)
(* next session starts from the catalog of the latest EXIT, over the table *)
(* files of whatever was evicted or committed since.                       *)
(***************************************************************************)
EXTENDS TableRows

VARIABLE saved      \* numOfRec in data/CATALOG, <<>> before the first EXIT

crashVars == <<tableVars, saved>>

\* Without an EXIT there is an empty CATALOG, which no process can load.
Crash == saved # <<>> /\ Restart /\ count' = saved /\ UNCHANGED saved

SavingSession == NextSession /\ saved' = count

Statement ==
    /\ \/ \E t \in Tables : Create(t) \/ \E b \in Blocks : ReadBlock(t, b)
       \/ \E t \in Tables, r \in Recs : InsertRow(t, r)
       \/ CommitTables
    /\ UNCHANGED saved

CrashSpec ==
    TableInit /\ saved = <<>> /\ [][Statement \/ SavingSession \/ Crash]_crashVars
===============================================================================
