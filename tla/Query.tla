--------------------------------- MODULE Query ---------------------------------
(***************************************************************************)
(* SELECT with a WHERE clause (print_table3) over one table with an index, *)
(* and the insertions that fill both.  "rows" is the table, PerBlock rows a*)
(* block, as a scan shows it; the index is BPlusTree.  A range query walks *)
(* the leaves with a cursor: a step for every pointer, bucket and leaf.    *)
(***************************************************************************)
EXTENDS BPlusTree, Integers

CONSTANTS Cols,       \* columns of the table
          Indexed,    \* the column with the index
          Unknown,    \* a name that is no column
          NoCol,      \* right_col == NULL: the right side is a number
          PerBlock,   \* recsInBlock
          MaxRows     \* bound of the model: rows of the table

ASSUME QueryAssumption ==
    /\ Indexed \in Cols
    /\ Unknown \notin Cols /\ NoCol \notin Cols \cup {Unknown}
    /\ PerBlock \in Nat \ {0} /\ MaxRows \in Nat
    /\ \A n \in 0 .. MaxRows - 1 : n \div PerBlock \in Vals

VARIABLES rows,       \* the rows of the table, in the order of their insertion
          pending,    \* the row whose insertion has begun, <<>> for none
          cur,        \* the SELECT that runs over the index
          seen        \* what the latest SELECT printed, until the next statement

queryVars == <<vars, rows, pending, cur, seen>>
treeVars  == <<hdr, dhdr, disk, open>>

NoBlock  == -1
NoCursor == [conds |-> <<>>]
NoAnswer == [how |-> "none"]

QueryInit == Init /\ rows = <<>> /\ pending = <<>> /\ cur = NoCursor /\ seen = NoAnswer

Idle == pc = "idle" /\ pending = <<>> /\ cur = NoCursor /\ seen = NoAnswer

-------------------------------------------------------------------------------
(* insert: the index first, then the row *)

InsertRow(r) ==
    /\ Idle /\ Len(rows) < MaxRows
    /\ \/ InsertFirst(r[Indexed], Len(rows) \div PerBlock)
       \/ BeginInsert(r[Indexed], Len(rows) \div PerBlock)
    /\ pending' = r
    /\ UNCHANGED <<rows, cur, seen>>

StoreRow ==
    /\ pc = "idle" /\ pending # <<>>
    /\ rows' = IF answer = <<"stored">> THEN Append(rows, pending) ELSE rows
    /\ pending' = <<>>
    /\ UNCHANGED <<vars, cur, seen>>

-------------------------------------------------------------------------------
(* WHERE clauses: sequences of conditions *)

Compares(op, x, y) ==
    CASE op = "="  -> x = y
      [] op = "!=" -> x # y
      [] op = ">"  -> x > y
      [] op = ">=" -> x >= y
      [] op = "<"  -> x < y
      [] op = "<=" -> x <= y

\* filter
Passes(conds, r) ==
    \A i \in DOMAIN conds :
       LET c == conds[i]
       IN  Compares(c.op, r[c.left], IF c.right = NoCol THEN c.num ELSE r[c.right])

\* check_condition: a right column overrides what was found of the left one.
CheckCondition(conds) ==
    \A i \in DOMAIN conds :
       (IF conds[i].right = NoCol THEN conds[i].left ELSE conds[i].right) # Unknown

\* Then filter compares with the memory in front of the row.
Strays(conds) == \E i \in DOMAIN conds : conds[i].left = Unknown

\* The first condition on the indexed column, or else the last one.
Chosen(conds) ==
    LET on == {i \in DOMAIN conds : conds[i].left = Indexed}
    IN  IF on = {} THEN Last(conds) ELSE conds[Min(on)]

ByIndex(conds) ==
    LET c == Chosen(conds)
    IN  c.left = Indexed /\ c.right = NoCol /\ c.op # "!="

Blocks == (Len(rows) + PerBlock - 1) \div PerBlock

Answer(conds, path, visited) ==
    [conds |-> conds, path |-> path, visited |-> visited,
     how |-> IF Strays(conds) THEN "anything" ELSE "rows"]

-------------------------------------------------------------------------------
(* SELECT without the index *)

RefuseSelect(conds) ==
    /\ Idle /\ rows # <<>> /\ ~CheckCondition(conds)
    /\ seen' = [how |-> "where clause wrong"]
    /\ UNCHANGED <<vars, rows, pending, cur>>

\* The linear scan over every block.
ScanSelect(conds) ==
    /\ Idle /\ rows # <<>> /\ CheckCondition(conds) /\ ~ByIndex(conds)
    /\ seen' = Answer(conds, "scan", [i \in 1 .. Blocks |-> i - 1])
    /\ UNCHANGED <<vars, rows, pending, cur>>

-------------------------------------------------------------------------------
(* SELECT over the index.  A table with rows has an index with a root. *)

IndexSelect(conds) ==
    /\ Idle /\ open /\ rows # <<>> /\ CheckCondition(conds) /\ ByIndex(conds)
    /\ Search("select", Chosen(conds).num, 0)
    /\ cur' = [conds |-> conds, only |-> FALSE, pos |-> 0, ptr |-> NoBlock,
               bucket |-> 0, slot |-> 0, block |-> NoBlock, visited |-> <<>>]
    /\ UNCHANGED <<rows, pending, seen>>

Op  == Chosen(cur.conds).op
Num == Chosen(cur.conds).num

Finish(visited) ==
    /\ seen' = Answer(cur.conds, Op, visited)
    /\ cur' = NoCursor
    /\ Return(<<"none">>)
    /\ UNCHANGED <<treeVars, rows, pending>>

\* The cursor goes on at a position of a leaf, or in a bucket.
Go(label, leaf, c) ==
    /\ pc' = label /\ at' = leaf /\ cur' = c
    /\ UNCHANGED <<treeVars, call, up, answer, rows, pending, seen>>

\* find_it has no hit, a table block, or the first bucket of a chain.
SelectEqual ==
    /\ AtLeaf("select") /\ Op = "="
    /\ LET hits == IndexOf(disk[at], Num)
           ptr  == disk[at].ptrs[Min(hits)]
       IN  \/ hits = {} /\ Finish(<<>>)
           \/ hits # {} /\ hdr.duplicate = "N" /\ Finish(<<ptr>>)
           \/ /\ hits # {} /\ hdr.duplicate = "Y"
              /\ Go("bucket", at, [cur EXCEPT !.bucket = ptr, !.slot = 1])

FirstAbove(n) == Min({i \in 1 .. n.size : Compares(Op, n.keys[i], Num)} \cup {n.size + 1})

\* > and >= start in the leaf of the number and go up to the last leaf.
WalkUp ==
    /\ AtLeaf("select") /\ Op \in {">", ">="}
    /\ Go("walk", at, [cur EXCEPT !.pos = FirstAbove(disk[at])])

\* < and <= start in block 1, where the smallest key is; they stay in it if it is
\* the leaf of the number.
WalkFromFirst ==
    /\ AtLeaf("select") /\ Op \in {"<", "<="}
    /\ Go("walk", 1, [cur EXCEPT !.pos = 1, !.only = (at = 1)])

\* find met a null pointer and returned 0: the block 0 of the table or of the
\* index is taken for the result.
LostSelect ==
    /\ pc = "panic" /\ call.op = "select"
    /\ \/ Op = "=" /\ Finish(IF hdr.duplicate = "N" THEN <<0>> ELSE <<>>)
       \/ Op \in {"<", "<="} /\ Go("walk", 1, [cur EXCEPT !.pos = 1])
       \/ /\ Op \in {">", ">="}          \* the header is read as a leaf
          /\ seen' = [how |-> "anything"] /\ cur' = NoCursor
          /\ Return(<<"none">>)
          /\ UNCHANGED <<treeVars, rows, pending>>

Walking == pc = "walk"
AtKey   == Walking /\ cur.pos <= disk[at].size

\* Mutant: <= stops at the number.
Past_OrAt(k) == Op \in {"<", "<="} /\ k >= Num

\* < and <= end at the first key that does not compare.
Past(k) == Op \in {"<", "<="} /\ ~Compares(Op, k, Num)

EndWalk ==
    /\ AtKey /\ Past(disk[at].keys[cur.pos])
    /\ Finish(cur.visited)

\* The same pointer twice in a row is skipped.
VisitEntry ==
    /\ AtKey /\ ~Past(disk[at].keys[cur.pos])
    /\ LET p    == disk[at].ptrs[cur.pos]
           next == [cur EXCEPT !.pos = @ + 1, !.ptr = p]
       IN  \/ p = cur.ptr /\ Go("walk", at, next)
           \/ /\ p # cur.ptr /\ hdr.duplicate = "N"
              /\ Go("walk", at, [next EXCEPT !.visited = Append(@, p)])
           \/ /\ p # cur.ptr /\ hdr.duplicate = "Y"
              /\ Go("bucket", at, [next EXCEPT !.bucket = p, !.slot = 1])

Repeats_Never(b) == FALSE       \* mutant: nothing is skipped

\* A range query skips the block it has just printed.
Repeats(b) == Op # "=" /\ b = cur.block

VisitPointer ==
    /\ pc = "bucket" /\ cur.slot <= Len(disk[cur.bucket].ptrs)
    /\ LET b == disk[cur.bucket].ptrs[cur.slot]
       IN  Go("bucket", at, [cur EXCEPT !.slot = @ + 1, !.block = b,
                                        !.visited = IF Repeats(b) THEN @ ELSE Append(@, b)])

NextBucket ==
    /\ pc = "bucket" /\ cur.slot > Len(disk[cur.bucket].ptrs)
    /\ LET next == disk[cur.bucket].next
       IN  \/ next # 0 /\ Go("bucket", at, [cur EXCEPT !.bucket = next, !.slot = 1])
           \/ next = 0 /\ Op = "=" /\ Finish(cur.visited)
           \/ next = 0 /\ Op # "=" /\ Go("walk", at, cur)

LeafAfter_Same(leaf) == leaf        \* mutant: the link is not followed
LeafAfter(leaf) == IF cur.only THEN 0 ELSE disk[leaf].next

NextLeaf ==
    /\ Walking /\ cur.pos > disk[at].size
    /\ \/ LeafAfter(at) = 0 /\ Finish(cur.visited)
       \/ LeafAfter(at) # 0 /\ Go("walk", LeafAfter(at), [cur EXCEPT !.pos = 1])

SelectStep ==
    \/ SelectEqual \/ WalkUp \/ WalkFromFirst \/ LostSelect
    \/ EndWalk \/ VisitEntry \/ VisitPointer \/ NextBucket \/ NextLeaf

-------------------------------------------------------------------------------

\* The prompt for the next statement.
Prompt == seen # NoAnswer /\ seen' = NoAnswer /\ UNCHANGED <<vars, rows, pending, cur>>

OpenOrClose ==
    /\ Idle /\ UNCHANGED <<rows, pending, cur, seen>>
    /\ (\E mode \in Modes : Create(mode)) \/ Open \/ Close

TreeStep == Step /\ UNCHANGED <<rows, pending, cur, seen>>

Running == TreeStep \/ SelectStep \/ StoreRow

\* The clauses and rows that are offered are the run's choice.
QueryNext(R, clauses) ==
    \/ \E r \in R : InsertRow(r)
    \/ \E conds \in clauses : RefuseSelect(conds) \/ ScanSelect(conds) \/ IndexSelect(conds)
    \/ OpenOrClose \/ Prompt
    \/ Running

-------------------------------------------------------------------------------
(* Properties. *)

BlockOf(i) == (i - 1) \div PerBlock

\* The rows, by their number, that self_print prints of the v-th block it is given.
Printed(v) ==
    {i \in DOMAIN rows : BlockOf(i) = seen.visited[v] /\ Passes(seen.conds, rows[i])}

Matching == {i \in DOMAIN rows : Passes(seen.conds, rows[i])}

\* A SELECT prints exactly the rows its WHERE clause describes, whichever access
\* path print_table3 takes and wherever splits have put the keys: no row is lost
\* at the ends of a range, between two leaves or in a chain of buckets.
SelectComplete ==
    seen.how = "rows" => UNION {Printed(v) : v \in DOMAIN seen.visited} = Matching

Clustered == \A i, j \in DOMAIN rows : i < j => rows[i][Indexed] <= rows[j][Indexed]

\* A scan and a query by equality print a row once.  A range query, which only
\* skips the block it has just printed, does so if the rows were inserted in
\* ascending order of the indexed column; in descending order it does not.
RowsOnce ==
    seen.how = "rows" /\ (seen.path \in {"scan", "="} \/ Clustered) =>
       \A v, w \in DOMAIN seen.visited : v # w => Printed(v) \cap Printed(w) = {}

\* Every SELECT ends: the chains of leaves and buckets it follows have no cycle.
SelectReturns == cur # NoCursor ~> cur = NoCursor

===============================================================================
