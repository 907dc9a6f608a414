------------------------------- MODULE QueryProofs -------------------------------
(***************************************************************************)
(* SELECT for any table, any WHERE clause and any tree.  While no SELECT   *)
(* runs, the index lists for every key the blocks of its rows, and a chain *)
(* of buckets lists them in ascending order.  While one runs, nothing is   *)
(* written, and the cursor has a bound: the blocks of the keys below it    *)
(* that compare have been visited.                                         *)
(***************************************************************************)
EXTENDS Query, TreeMapProofs

Rows == {r \in [Cols -> Int] : r[Indexed] \in Keys}

Conditions ==
    [left : Cols \cup {Unknown}, op : {"=", "!=", ">", ">=", "<", "<="},
     right : Cols \cup {Unknown, NoCol}, num : Cells]
Clauses == Seq(Conditions) \ {<<>>}

\* Any row with a key of the model, any clause.
SelectSpec == QueryInit /\ [][QueryNext(Rows, Clauses)]_queryVars

BlocksOf(k) == {BlockOf(i) : i \in {j \in DOMAIN rows : rows[j][Indexed] = k}}
Listing == [k \in Keys |-> BlocksOf(k)]

\* The numbers in a chain of buckets go up.
Ascends ==
    \A c \in B :
       /\ \A i, j \in 1 .. Len(disk[c].ptrs) : i < j => disk[c].ptrs[i] < disk[c].ptrs[j]
       /\ disk[c].next # 0 =>
             \A i \in 1 .. Len(disk[c].ptrs), j \in 1 .. Len(disk[disk[c].next].ptrs) :
                disk[c].ptrs[i] < disk[disk[c].next].ptrs[j]

\* Where the insertion of key k and block v is.
Insertion(k, v) ==
    LET plus == [Listing EXCEPT ![k] = @ \cup {v}]
    IN  /\ pc = "find" => /\ call = [op |-> "insert", key |-> k, val |-> v]
                          /\ Content = Listing
        /\ pc = "parent" => answer = <<"stored">> /\ Content = plus
        /\ pc = "idle" => Content = IF answer = <<"stored">> THEN plus ELSE Listing

\* No SELECT runs.
Resting ==
    /\ TreeInv /\ MapInv /\ Ascends
    /\ IF pending = <<>> THEN pc = "idle" /\ Content = Listing
       ELSE Insertion(pending[Indexed], Len(rows) \div PerBlock)

-------------------------------------------------------------------------------
(* Rows and their blocks. *)

LEMMA Division ==
    ASSUME NEW n \in Nat
    PROVE  /\ n \div PerBlock \in Nat /\ n % PerBlock \in 0 .. PerBlock - 1
           /\ n = PerBlock * (n \div PerBlock) + (n % PerBlock)
  BY QueryAssumption

LEMMA DivisionOrder ==
    ASSUME NEW n \in Nat, NEW m \in Nat, n <= m
    PROVE  n \div PerBlock <= m \div PerBlock
  BY Division, QueryAssumption

LEMMA BlockOrder ==
    ASSUME NEW i \in Nat \ {0}, NEW j \in Nat \ {0}, i <= j
    PROVE  BlockOf(i) \in Nat /\ BlockOf(j) \in Nat /\ BlockOf(i) <= BlockOf(j)
<1>1. i - 1 \in Nat /\ j - 1 \in Nat /\ i - 1 <= j - 1
  OBVIOUS
<1> QED
  BY <1>1, Division, DivisionOrder DEF BlockOf

\* A scan visits the blocks that have rows.
LEMMA BlockScanned ==
    ASSUME NEW n \in Nat, NEW i \in 1 .. n, NEW z, z = (n + PerBlock - 1) \div PerBlock
    PROVE  z \in Nat /\ BlockOf(i) \in 0 .. z - 1
<1>1. PICK m, q : m = n - 1 /\ q = m \div PerBlock
  OBVIOUS
<1>2. i - 1 \in Nat /\ m \in Nat /\ i - 1 <= m /\ PerBlock \in Nat /\ PerBlock # 0
  BY <1>1, QueryAssumption
<1>3. BlockOf(i) \in Nat /\ BlockOf(i) <= q /\ q \in Nat
  BY <1>1, <1>2, Division, DivisionOrder DEF BlockOf
<1>4. PICK e : e = m + PerBlock
  OBVIOUS
<1>5. e \in Nat /\ z = e \div PerBlock /\ n + PerBlock - 1 = e
  BY <1>1, <1>2, <1>4
<1>6. z > q
  <2>1. m % PerBlock \in 0 .. PerBlock - 1 /\ m = PerBlock * q + (m % PerBlock)
    BY <1>1, <1>2, Division
  <2>2. z \in Nat /\ e % PerBlock \in 0 .. PerBlock - 1 /\ e = PerBlock * z + (e % PerBlock)
    BY <1>5, Division
  <2>3. SUFFICES ASSUME z <= q PROVE FALSE
    BY <1>3, <2>2
  <2>4. PerBlock * z <= PerBlock * q /\ PerBlock * z \in Nat /\ PerBlock * q \in Nat
    BY <1>2, <1>3, <2>2, <2>3
  <2> QED BY <1>2, <1>4, <2>1, <2>2, <2>4
<1> QED
  BY <1>3, <1>5, <1>6, Division

-------------------------------------------------------------------------------
(* WHERE clauses and answers. *)

\* Without the wild read, what passes a clause compares with its chosen condition.
LEMMA ChosenPasses ==
    ASSUME NEW conds \in Clauses, ByIndex(conds), NEW t, t = Chosen(conds)
    PROVE  /\ t \in Conditions /\ t.left = Indexed /\ t.op \in {"=", ">", ">=", "<", "<="}
           /\ t.num \in Nat /\ t.num <= NilKey
           /\ \A r : Passes(conds, r) => Compares(t.op, r[Indexed], t.num)
<1>1. PICK n : n = Len(conds)
  OBVIOUS
<1>2. n \in Nat /\ n # 0 /\ DOMAIN conds = 1 .. n /\ \A i \in 1 .. n : conds[i] \in Conditions
  BY <1>1 DEF Clauses
<1>3. \E i \in DOMAIN conds : conds[i] = t
  <2>1. PICK on : on = {i \in DOMAIN conds : conds[i].left = Indexed}
    OBVIOUS
  <2>2. t = IF on = {} THEN Last(conds) ELSE conds[Min(on)]
    BY <2>1 DEF Chosen
  <2>3. CASE on = {}
    BY <1>1, <1>2, <2>2, <2>3 DEF Last
  <2>4. CASE on # {}
    <3>1. on \in SUBSET Nat
      BY <1>2, <2>1
    <3>2. Min(on) \in on
      BY <2>4, <3>1, MinFacts
    <3> QED BY <2>1, <2>2, <2>4, <3>2
  <2> QED BY <2>3, <2>4
<1>4. PICK i \in DOMAIN conds : conds[i] = t
  BY <1>3
<1>5. t \in Conditions /\ t.left = Indexed /\ t.right = NoCol /\ t.op # "!="
  BY <1>2, <1>4 DEF ByIndex
<1>6. ASSUME NEW r, Passes(conds, r) PROVE Compares(t.op, r[Indexed], t.num)
  <2>1. Compares(t.op, r[t.left], IF t.right = NoCol THEN t.num ELSE r[t.right])
    BY <1>4, <1>6 DEF Passes
  <2> QED BY <1>5, <2>1
<1>7. t.op \in {"=", ">", ">=", "<", "<="}
  BY <1>5 DEF Conditions
<1>8. t.num \in Nat /\ t.num <= NilKey
  BY <1>5, TreeAssumption DEF Conditions, Cells
<1> QED
  BY <1>5, <1>6, <1>7, <1>8

\* The blocks of an answer: all that have a row it must show, each of them once.
LEMMA AnswerIsRight ==
    ASSUME NEW conds, NEW path, NEW vis, rows' = rows, seen' = Answer(conds, path, vis),
           \A i \in DOMAIN rows : Passes(conds, rows[i]) => \E x \in DOMAIN vis : vis[x] = BlockOf(i),
           path \in {"scan", "="} \/ Clustered => \A x, y \in DOMAIN vis : x # y => vis[x] # vis[y]
    PROVE  SelectComplete' /\ RowsOnce'
<1>1. PICK s : s = seen'
  OBVIOUS
<1>2. s.conds = conds /\ s.path = path /\ s.visited = vis
  BY <1>1 DEF Answer
<1>3. \A x : Printed(x)' = {i \in DOMAIN rows : BlockOf(i) = vis[x] /\ Passes(conds, rows[i])}
  BY <1>1, <1>2 DEF Printed
<1>4. Matching' = {i \in DOMAIN rows : Passes(conds, rows[i])}
  BY <1>1, <1>2 DEF Matching
<1>5. UNION {Printed(x)' : x \in DOMAIN vis} = Matching'
  BY <1>3, <1>4
<1>6. Clustered' <=> Clustered
  BY DEF Clustered
<1>7. SelectComplete'
  BY <1>1, <1>2, <1>5 DEF SelectComplete
<1>8. RowsOnce'
  BY <1>1, <1>2, <1>3, <1>6 DEF RowsOnce
<1> QED
  BY <1>7, <1>8

\* The linear scan.
LEMMA ScanIsRight ==
    ASSUME rows \in Seq(Rows), NEW conds, ScanSelect(conds)
    PROVE  SelectComplete' /\ RowsOnce'
<1>1. PICK n, z, vis : n = Len(rows) /\ z = Blocks /\ vis = [i \in 1 .. z |-> i - 1]
  OBVIOUS
<1>2. rows' = rows /\ seen' = Answer(conds, "scan", vis)
  BY <1>1 DEF ScanSelect
<1>3. n \in Nat /\ DOMAIN rows = 1 .. n
  BY <1>1
<1>4. ASSUME NEW i \in 1 .. n PROVE \E x \in DOMAIN vis : vis[x] = BlockOf(i)
  <2>1. z \in Nat /\ BlockOf(i) \in 0 .. z - 1
    BY <1>1, <1>3, BlockScanned DEF Blocks
  <2>2. BlockOf(i) + 1 \in 1 .. z
    BY <2>1
  <2>3. vis[BlockOf(i) + 1] = BlockOf(i)
    BY <1>1, <2>1, <2>2
  <2> QED BY <1>1, <2>2, <2>3
<1>5. \A x, y \in DOMAIN vis : x # y => vis[x] # vis[y]
  BY <1>1
<1> QED
  BY <1>2, <1>3, <1>4, <1>5, AnswerIsRight

-------------------------------------------------------------------------------
(* Insertions keep the chains ascending. *)

LEMMA SameBucket ==
    ASSUME Ascends, NEW c \in B, disk'[c] = disk[c],
           disk[c].next # 0 => disk'[disk[c].next] = disk[disk[c].next]
    PROVE  /\ \A i, j \in 1 .. Len(disk'[c].ptrs) : i < j => disk'[c].ptrs[i] < disk'[c].ptrs[j]
           /\ disk'[c].next # 0 =>
                 \A i \in 1 .. Len(disk'[c].ptrs), j \in 1 .. Len(disk'[disk'[c].next].ptrs) :
                    disk'[c].ptrs[i] < disk'[disk'[c].next].ptrs[j]
  BY DEF Ascends

LEMMA SameAscends ==
    ASSUME FileInv, Ascends, SameEntries
    PROVE  Ascends'
<1>1. B' = B /\ \A c \in B : disk'[c] = disk[c] /\ (disk[c].next # 0 => disk[c].next \in B)
  BY DEF SameEntries, FileInv, BucketsOK
<1>2. \A c \in B : disk[c].next # 0 => disk'[disk[c].next] = disk[disk[c].next]
  BY <1>1
<1> QED
  BY <1>1, <1>2, SameBucket DEF Ascends

LEMMA EnterAscends ==
    ASSUME FileInv, Ascends, NEW k, NEW v, NEW b, KeyEntered(k, v, b)
    PROVE  Ascends'
<1>1. /\ hdr.duplicate \in {"Y", "N"} /\ \A c \in B : disk'[c] = disk[c]
      /\ hdr.duplicate = "N" => B' = B
      /\ hdr.duplicate = "Y" => B' = B \cup {b} /\ disk'[b] = Bucket(<<v>>, 0)
  BY DEF KeyEntered
<1>2. \A c \in B : disk[c].next # 0 => disk[c].next \in B
  BY DEF FileInv, BucketsOK
<1>3. CASE B' = B
  <2>1. \A c \in B : disk[c].next # 0 => disk'[disk[c].next] = disk[disk[c].next]
    BY <1>1, <1>2
  <2> QED BY <1>1, <1>3, <2>1, SameBucket DEF Ascends
<1>4. CASE B' = B \cup {b} /\ disk'[b] = Bucket(<<v>>, 0)
  <2>1. disk'[b].ptrs = <<v>> /\ disk'[b].next = 0
    BY <1>4 DEF Bucket
  <2>2. Len(<<v>>) = 1
    OBVIOUS
  <2>3. \A i, j \in 1 .. Len(disk'[b].ptrs) : ~(i < j)
    BY <2>1, <2>2
  <2>4. \A c \in B : disk'[c] = disk[c] /\ (disk[c].next # 0 => disk'[disk[c].next] = disk[disk[c].next])
    BY <1>1, <1>2
  <2>5. ASSUME NEW c \in B'
        PROVE  /\ \A i, j \in 1 .. Len(disk'[c].ptrs) : i < j => disk'[c].ptrs[i] < disk'[c].ptrs[j]
               /\ disk'[c].next # 0 =>
                     \A i \in 1 .. Len(disk'[c].ptrs), j \in 1 .. Len(disk'[disk'[c].next].ptrs) :
                        disk'[c].ptrs[i] < disk'[disk'[c].next].ptrs[j]
    <3>1. CASE c = b
      BY <2>1, <2>3, <3>1
    <3>2. CASE c \in B
      BY <2>4, <3>2 DEF Ascends
    <3> QED BY <1>4, <3>1, <3>2
  <2> QED BY <2>5 DEF Ascends
<1> QED
  BY <1>1, <1>3, <1>4

\* A number not below those of the chain joins it at its end.
LEMMA BlockAscends ==
    ASSUME FileInv, Ascends, NEW own \in Ghosts, ChainInv(own), NEW k, NEW h, Filed(k, h),
           NEW v \in Nat, BlockEntered(h, v), \A w \in Held(h) : w <= v
    PROVE  Ascends'
<1>0. hdr.duplicate = "Y"
  BY DEF BlockEntered
<1>1. \A c \in B : /\ c \in Nat /\ disk[c].ptrs \in Seq(Nat)
                   /\ disk[c].next # 0 => disk[c].next \in B /\ own[disk[c].next] = own[c]
  BY <1>0, Owners DEF ChainInv
<1>2. \A c \in B : \A i \in 1 .. Len(disk[c].ptrs) : disk[c].ptrs[i] \in Nat
  BY <1>1
<1>3. ASSUME v \notin Held(h), NEW c \in B, own[c] = h, NEW i \in 1 .. Len(disk[c].ptrs)
      PROVE  disk[c].ptrs[i] < v
  <2>1. disk[c].ptrs[i] \in Held(h)
    BY <1>0, <1>3, HeldIs DEF In
  <2> QED BY <1>2, <1>3, <2>1
<1>4. \A c \in B : disk[c].next # 0 =>
         Len(disk[c].ptrs) = BucketCap /\ \A d \in B : disk[d].next = disk[c].next => d = c
  BY <1>0 DEF ChainInv
<1>5. CASE v \in Held(h) /\ SameEntries
  BY <1>5, SameAscends
<1>6. ASSUME v \notin Held(h), NEW z \in ChainFrom(h), BucketFilled(z, v) PROVE Ascends'
  <2>1. /\ B' = B /\ z \in B /\ Len(disk[z].ptrs) < BucketCap
        /\ disk'[z].ptrs = Append(disk[z].ptrs, v) /\ disk'[z].next = disk[z].next
        /\ \A x \in B : x # z => disk'[x] = disk[x]
    BY <1>6 DEF BucketFilled
  <2>2. own[z] = h
    BY <1>0, <1>6, ChainMembers
  <2>3. disk[z].next = 0
    <3>1. Len(disk[z].ptrs) # BucketCap
      BY <1>1, <2>1, TreeAssumption
    <3> QED BY <1>4, <2>1, <3>1
  <2>4. PICK s, t, e : s = disk[z].ptrs /\ t = disk'[z].ptrs /\ e = Len(s)
    OBVIOUS
  <2>5. /\ s \in Seq(Nat) /\ e \in Nat /\ Len(t) = e + 1 /\ t[e + 1] = v
        /\ \A i \in 1 .. e : t[i] = s[i] /\ s[i] < v
    <3>1. s \in Seq(Nat) /\ t = Append(s, v)
      BY <1>1, <2>1, <2>4
    <3>2. /\ Len(t) = Len(s) + 1 /\ Len(s) \in Nat /\ t[Len(s) + 1] = v
          /\ \A i \in 1 .. Len(s) : t[i] = s[i]
      BY <3>1, Appended
    <3>3. \A i \in 1 .. e : s[i] < v
      BY <1>3, <1>6, <2>1, <2>2, <2>4
    <3> QED BY <2>4, <3>1, <3>2, <3>3
  <2>6. \A i, j \in 1 .. e : i < j => s[i] < s[j]
    BY <2>1, <2>4 DEF Ascends
  <2>7. ASSUME NEW i \in 1 .. Len(t), NEW j \in 1 .. Len(t), i < j PROVE t[i] < t[j]
    <3>1. i \in 1 .. e /\ (j \in 1 .. e \/ j = e + 1)
      BY <2>5, <2>7
    <3> QED BY <2>5, <2>6, <2>7, <3>1
  <2>8. ASSUME NEW c \in B, disk[c].next = z,
               NEW i \in 1 .. Len(disk[c].ptrs), NEW j \in 1 .. Len(t)
        PROVE  disk[c].ptrs[i] < t[j]
    <3>1. z # 0
      BY <2>1, Kinds DEF FileInv
    <3>2. own[c] = h /\ disk[c].next # 0
      BY <1>1, <2>2, <2>8, <3>1
    <3>3. j \in 1 .. e \/ j = e + 1
      BY <2>5
    <3>4. disk[c].ptrs[i] < v
      BY <1>3, <1>6, <2>8, <3>2
    <3>5. j \in 1 .. e => disk[c].ptrs[i] < s[j]
      BY <2>4, <2>8, <3>2 DEF Ascends
    <3> QED BY <2>5, <3>3, <3>4, <3>5
  <2>9. ASSUME NEW c \in B, disk'[c].next # 0,
               NEW i \in 1 .. Len(disk'[c].ptrs), NEW j \in 1 .. Len(disk'[disk'[c].next].ptrs)
        PROVE  disk'[c].ptrs[i] < disk'[disk'[c].next].ptrs[j]
    <3>1. c # z /\ disk'[c] = disk[c]
      BY <2>1, <2>3, <2>9
    <3>2. disk[c].next \in B
      BY <1>1, <2>9, <3>1
    <3>3. CASE disk[c].next = z
      BY <2>4, <2>8, <2>9, <3>1, <3>3
    <3>4. CASE disk[c].next # z
      <4>1. disk'[disk[c].next] = disk[disk[c].next]
        BY <2>1, <3>2, <3>4
      <4> QED BY <2>9, <3>1, <4>1 DEF Ascends
    <3> QED BY <3>3, <3>4
  <2>10. \A c \in B : \A i, j \in 1 .. Len(disk'[c].ptrs) : i < j => disk'[c].ptrs[i] < disk'[c].ptrs[j]
    BY <2>1, <2>4, <2>7 DEF Ascends
  <2> QED BY <2>1, <2>9, <2>10 DEF Ascends
<1>7. ASSUME v \notin Held(h), NEW z \in ChainFrom(h), NEW b \in Nat, BucketAdded(z, v, b)
      PROVE  Ascends'
  <2>1. /\ b \notin B /\ B' = B \cup {b} /\ z \in B /\ disk[z].next = 0
        /\ disk'[z].ptrs = disk[z].ptrs /\ disk'[z].next = b
        /\ \A x \in B : x # z => disk'[x] = disk[x]
    BY <1>7 DEF BucketAdded
  <2>2. disk'[b].ptrs = <<v>> /\ disk'[b].next = 0
    BY <1>7 DEF BucketAdded, Bucket
  <2>3. own[z] = h
    BY <1>0, <1>7, ChainMembers
  <2>4. Len(<<v>>) = 1 /\ <<v>>[1] = v /\ \A j \in 1 .. Len(<<v>>) : j = 1
    OBVIOUS
  <2>5. \A c \in B : disk'[c].ptrs = disk[c].ptrs
    BY <2>1
  <2>6. ASSUME NEW c \in B'
        PROVE  \A i, j \in 1 .. Len(disk'[c].ptrs) : i < j => disk'[c].ptrs[i] < disk'[c].ptrs[j]
    <3>1. CASE c = b
      <4>1. Len(disk'[c].ptrs) = 1
        BY <2>2, <2>4, <3>1
      <4> QED BY <4>1
    <3>2. CASE c \in B
      BY <2>5, <3>2 DEF Ascends
    <3> QED BY <2>1, <3>1, <3>2
  <2>7. ASSUME NEW c \in B', disk'[c].next # 0,
               NEW i \in 1 .. Len(disk'[c].ptrs), NEW j \in 1 .. Len(disk'[disk'[c].next].ptrs)
        PROVE  disk'[c].ptrs[i] < disk'[disk'[c].next].ptrs[j]
    <3>1. c \in B
      BY <2>1, <2>2, <2>7
    <3>2. CASE c = z
      <4>1. disk'[disk'[c].next].ptrs = <<v>>
        BY <2>1, <2>2, <3>2
      <4>2. disk'[disk'[c].next].ptrs[j] = v
        BY <2>4, <2>7, <4>1
      <4>3. disk[c].ptrs[i] < v
        BY <1>3, <1>7, <2>3, <2>5, <2>7, <3>1, <3>2
      <4> QED BY <2>5, <3>1, <4>2, <4>3
    <3>3. CASE c # z
      <4>1. disk'[c] = disk[c] /\ disk[c].next \in B
        BY <1>1, <2>1, <2>7, <3>1, <3>3
      <4>2. disk'[disk[c].next].ptrs = disk[disk[c].next].ptrs
        BY <2>5, <4>1
      <4> QED BY <2>7, <3>1, <4>1, <4>2 DEF Ascends
    <3> QED BY <3>2, <3>3
  <2> QED BY <2>6, <2>7 DEF Ascends
<1> QED
  BY <1>5, <1>6, <1>7 DEF BlockEntered

-------------------------------------------------------------------------------
(* While no SELECT runs: the index lists the rows. *)

LEMMA ShownNext == TreeInv' => Shown'
<1>1. TreeInv => Shown
  BY InvShown
<1> QED
  BY <1>1, PTL

LEMMA AroundNext ==
    ASSUME NoNil, TreeInv, MapInv, Next \/ UNCHANGED vars
    PROVE  Around /\ MapInv'
<1>1. TreeInv'
  BY NextKeeps, StutterKeeps
<1>2. Around
  BY <1>1, InvShown, ShownNext DEF Around
<1> QED
  BY <1>2, NextMaps, StutterMaps DEF Maps

LEMMA QuietRow ==
    ASSUME Around, Ascends, SameEntries
    PROVE  Ascends' /\ Content' = Content
  BY SameMap, SameAscends DEF Around, TreeInv

LEMMA WritesNothing ==
    ASSUME disk' = disk, hdr' = hdr
    PROVE  SameEntries
  BY DEF SameEntries, Filed, L, B, OfType

LEMMA NewKeyRow ==
    ASSUME Around, Ascends, InsertInLeaf \/ SplitLeaf, NEW k, NEW v, k = call.key, v = call.val
    PROVE  Ascends' /\ Content' = [Content EXCEPT ![k] = @ \cup {v}]
<1>1. AtLeaf("insert") /\ IndexOf(disk[at], k) = {}
  BY DEF InsertInLeaf, SplitLeaf, NewKey
<1>2. k \in Keys /\ \A p : ~Filed(k, p)
  BY <1>1, AtLeafFacts
<1>3. \E b : KeyEntered(k, v, b)
  BY InsertInLeafKeeps, SplitLeafKeeps DEF Around
<1>4. PICK b : KeyEntered(k, v, b)
  BY <1>3
<1>5. Content' = [Content EXCEPT ![k] = @ \cup {v}]
  BY <1>2, <1>4, EnterMap DEF Around
<1> QED
  BY <1>4, <1>5, EnterAscends DEF Around, TreeInv

LEMMA FirstRow ==
    ASSUME NoNil, Around, Ascends, NEW k \in Keys, NEW v \in Vals, InsertFirst(k, v)
    PROVE  Ascends' /\ Content' = [Content EXCEPT ![k] = @ \cup {v}]
<1>1. KeyEntered(k, v, 2)
  BY InsertFirstKeeps DEF Around
<1>2. \A p : ~Filed(k, p)
  <2>1. DOMAIN disk = {}
    BY DEF InsertFirst, Around, TreeInv, FileInv, FileOK
  <2> QED BY <2>1 DEF Filed, L, OfType
<1>3. Content' = [Content EXCEPT ![k] = @ \cup {v}]
  BY <1>1, <1>2, EnterMap DEF Around
<1> QED
  BY <1>1, <1>3, EnterAscends DEF Around, TreeInv

LEMMA BlockRow ==
    ASSUME Around, Ascends, AddToBucket, NEW k, NEW v, k = call.key, v = call.val,
           \A w \in Content[k] : w <= v
    PROVE  Ascends' /\ Content' = [Content EXCEPT ![k] = @ \cup {v}]
<1>1. PICK h : h = disk[at].ptrs[Min(IndexOf(disk[at], k))]
  OBVIOUS
<1>2. AtLeaf("insert") /\ IndexOf(disk[at], k) # {} /\ hdr.duplicate = "Y"
  BY DEF AddToBucket
<1>3. k \in Keys /\ v \in Nat /\ Filed(k, h)
  BY <1>1, <1>2, AtLeafFacts
<1>4. BlockEntered(h, v)
  BY <1>1, <1>2, AddToBucketKeeps DEF Around
<1>5. Content' = [Content EXCEPT ![k] = @ \cup {v}]
  BY <1>3, <1>4, BlockMap DEF Around
<1>6. PICK own \in Ghosts : ChainInv(own)
  BY DEF Around, MapInv
<1>7. Content[k] = Held(h)
  BY <1>2, <1>3, <1>6, HasKey DEF Around
<1>8. \A w \in Held(h) : w <= v
  BY <1>7
<1>9. Ascends'
  BY <1>3, <1>4, <1>6, <1>8, BlockAscends DEF Around, TreeInv
<1> QED
  BY <1>5, <1>9

\* The block of the next row is not below those of the rows.
LEMMA NextBlock ==
    ASSUME rows \in Seq(Rows), NEW n, n = Len(rows), NEW v, v = n \div PerBlock
    PROVE  /\ v \in Nat /\ v = BlockOf(n + 1) /\ n \in Nat /\ DOMAIN rows = 1 .. n
           /\ \A k \in Keys : \A w \in Listing[k] : w \in Nat /\ w <= v
<1>1. n \in Nat /\ DOMAIN rows = 1 .. n
  OBVIOUS
<1>2. v = BlockOf(n + 1) /\ v \in Nat
  <2>1. n + 1 - 1 = n
    BY <1>1
  <2> QED BY <1>1, <2>1, Division DEF BlockOf
<1>3. ASSUME NEW k \in Keys, NEW w \in Listing[k] PROVE w \in Nat /\ w <= v
  <2>1. PICK i \in 1 .. n : w = BlockOf(i)
    BY <1>1, <1>3 DEF Listing, BlocksOf
  <2>2. i \in Nat \ {0} /\ n + 1 \in Nat \ {0} /\ i <= n + 1
    BY <1>1
  <2> QED BY <1>2, <2>1, <2>2, BlockOrder
<1> QED
  BY <1>1, <1>2, <1>3

\* What a row that is appended adds to the listing.
LEMMA RowListed ==
    ASSUME rows \in Seq(Rows), NEW r \in Rows, rows' = Append(rows, r),
           NEW k, k = r[Indexed], NEW v, v = Len(rows) \div PerBlock
    PROVE  rows' \in Seq(Rows) /\ Listing' = [Listing EXCEPT ![k] = @ \cup {v}]
<1>1. PICK n, s : n = Len(rows) /\ s = rows'
  OBVIOUS
<1>2. n \in Nat /\ DOMAIN rows = 1 .. n /\ v = BlockOf(n + 1)
  BY <1>1, NextBlock
<1>3. s \in Seq(Rows) /\ Len(s) = n + 1 /\ s[n + 1] = r /\ \A i \in 1 .. n : s[i] = rows[i]
  BY <1>1
<1>4. DOMAIN s = 1 .. n + 1
  BY <1>3
<1>5. \A i \in 1 .. n + 1 : i \in 1 .. n \/ i = n + 1
  BY <1>2
<1>6. \A i \in 1 .. n : i \in 1 .. n + 1
  BY <1>2
<1>7. n + 1 \in 1 .. n + 1
  BY <1>2
<1>8. k \in Keys
  BY DEF Rows
<1>9. ASSUME NEW j \in Keys
      PROVE  BlocksOf(j)' = BlocksOf(j) \cup (IF j = k THEN {v} ELSE {})
  <2>1. BlocksOf(j)' = {BlockOf(i) : i \in {x \in 1 .. n + 1 : s[x][Indexed] = j}}
    BY <1>1, <1>4 DEF BlocksOf, BlockOf
  <2>2. BlocksOf(j) = {BlockOf(i) : i \in {x \in 1 .. n : rows[x][Indexed] = j}}
    BY <1>2 DEF BlocksOf
  <2> QED BY <1>2, <1>3, <1>5, <1>6, <1>7, <2>1, <2>2
<1>10. Listing' = [j \in Keys |-> BlocksOf(j) \cup (IF j = k THEN {v} ELSE {})]
  BY <1>9 DEF Listing
<1> QED
  BY <1>1, <1>3, <1>8, <1>10 DEF Listing

\* The table, and a row on its way into it.
TableOK == rows \in Seq(Rows) /\ pending \in Rows \cup {<<>>}

LEMMA RowFacts ==
    ASSUME NEW r \in Rows
    PROVE  r # <<>> /\ r[Indexed] \in Keys
<1>1. DOMAIN r = Cols /\ Indexed \in Cols
  BY QueryAssumption DEF Rows
<1>2. DOMAIN <<>> = {}
  OBVIOUS
<1> QED
  BY <1>1, <1>2 DEF Rows

\* Steps that write neither the file nor the table.
LEMMA QuietRests ==
    ASSUME NoNil, Resting, UNCHANGED <<vars, rows, pending>>
    PROVE  Resting'
<1>1. /\ disk' = disk /\ hdr' = hdr /\ pc' = pc /\ call' = call /\ answer' = answer
      /\ rows' = rows /\ pending' = pending
  BY DEF vars
<1>2. Around /\ MapInv'
  BY AroundNext DEF Resting
<1>3. Ascends' /\ Content' = Content
  BY <1>1, <1>2, WritesNothing, QuietRow DEF Resting
<1>4. Listing' = Listing
  BY <1>1 DEF Listing, BlocksOf, BlockOf
<1>5. CASE pending = <<>>
  BY <1>1, <1>2, <1>3, <1>4, <1>5 DEF Resting, Around
<1>6. CASE pending # <<>>
  <2>1. PICK k, v, c, l, d, m : /\ k = pending[Indexed] /\ v = Len(rows) \div PerBlock
                                /\ c = Content /\ l = Listing /\ d = Content' /\ m = Listing'
    OBVIOUS
  <2>2. Insertion(k, v)
    BY <1>6, <2>1 DEF Resting
  <2>3. c = d /\ l = m
    BY <1>3, <1>4, <2>1
  <2>4. Insertion(k, v)'
    BY <1>1, <2>1, <2>2, <2>3 DEF Insertion
  <2>5. k = pending'[Indexed] /\ v = Len(rows') \div PerBlock
    BY <1>1, <2>1
  <2> QED BY <1>1, <1>2, <1>3, <1>6, <2>4, <2>5 DEF Resting, Around
<1> QED
  BY <1>5, <1>6

LEMMA OpenCloseRests ==
    ASSUME NoNil, Resting, pending = <<>>, OpenOrClose
    PROVE  Resting' /\ pending' = <<>> /\ rows' = rows
<1>1. rows' = rows /\ pending' = pending /\ pc = "idle"
  BY DEF OpenOrClose, Idle
<1>2. (\E mode \in Modes : Create(mode)) \/ Open \/ Close
  BY DEF OpenOrClose
<1>3. Around /\ MapInv'
  BY <1>2, AroundNext DEF Resting, Next
<1>4. pc' = "idle"
  BY <1>1, <1>2 DEF Create, Open, Close
<1>5. Ascends' /\ Content' = Content
  <2>1. CASE Open \/ Close
    <3>1. disk' = disk /\ hdr' = hdr
      BY <1>3, <2>1 DEF Open, Close, Around, TreeInv, FileInv, HeaderOK
    <3> QED BY <1>3, <3>1, WritesNothing, QuietRow DEF Resting
  <2>2. ASSUME NEW mode \in Modes, Create(mode) PROVE Ascends' /\ Content' = Content
    <3>1. B' = {} /\ Content' = Content
      BY <1>3, <2>2, CreateMap
    <3> QED BY <3>1 DEF Ascends
  <2> QED BY <1>2, <2>1, <2>2
<1>6. Listing' = Listing
  BY <1>1 DEF Listing, BlocksOf, BlockOf
<1> QED
  BY <1>1, <1>3, <1>4, <1>5, <1>6 DEF Resting, Around

LEMMA InsertRowRests ==
    ASSUME NoNil, TableOK, Resting, NEW r \in Rows, InsertRow(r)
    PROVE  Resting' /\ TableOK'
<1>1. PICK k, v : k = r[Indexed] /\ v = Len(rows) \div PerBlock
  OBVIOUS
<1>2. /\ pending = <<>> /\ pending' = r /\ rows' = rows /\ Len(rows) < MaxRows
      /\ InsertFirst(k, v) \/ BeginInsert(k, v)
  BY <1>1 DEF InsertRow, Idle
<1>3. r # <<>> /\ k \in Keys /\ v \in Vals
  <2>1. Len(rows) \in 0 .. MaxRows - 1
    BY <1>2, QueryAssumption DEF TableOK
  <2> QED BY <1>1, <2>1, RowFacts, QueryAssumption
<1>4. Around /\ MapInv'
  BY <1>2, <1>3, AroundNext DEF Resting, Next
<1>5. Content = Listing /\ Ascends
  BY <1>2 DEF Resting
<1>6. Listing' = Listing
  BY <1>2 DEF Listing, BlocksOf, BlockOf
<1>7. PICK l : l = Listing
  OBVIOUS
<1>8. Ascends' /\ Insertion(k, v)'
  <2>1. CASE InsertFirst(k, v)
    <3>1. pc' = "idle" /\ answer' = <<"stored">>
      BY <2>1 DEF InsertFirst, Return
    <3>2. Ascends' /\ Content' = [l EXCEPT ![k] = @ \cup {v}]
      BY <1>3, <1>4, <1>5, <1>7, <2>1, FirstRow
    <3> QED BY <1>6, <1>7, <3>1, <3>2 DEF Insertion
  <2>2. CASE BeginInsert(k, v)
    <3>1. /\ pc' = "find" /\ call' = [op |-> "insert", key |-> k, val |-> v]
          /\ disk' = disk /\ hdr' = hdr
      BY <2>2 DEF BeginInsert, Search
    <3>2. Ascends' /\ Content' = l
      BY <1>4, <1>5, <1>7, <3>1, WritesNothing, QuietRow
    <3> QED BY <1>6, <1>7, <3>1, <3>2 DEF Insertion
  <2> QED BY <1>2, <2>1, <2>2
<1>9. k = pending'[Indexed] /\ v = Len(rows') \div PerBlock /\ pending' # <<>>
  BY <1>1, <1>2, <1>3
<1>10. Resting'
  BY <1>4, <1>8, <1>9 DEF Resting, Around
<1> QED
  BY <1>2, <1>10 DEF TableOK

LEMMA StoreRowRests ==
    ASSUME NoNil, TableOK, Resting, StoreRow
    PROVE  Resting' /\ TableOK'
<1>1. PICK k, v, l : k = pending[Indexed] /\ v = Len(rows) \div PerBlock /\ l = Listing
  OBVIOUS
<1>2. /\ pc = "idle" /\ pending # <<>> /\ pending' = <<>> /\ UNCHANGED vars
      /\ rows' = IF answer = <<"stored">> THEN Append(rows, pending) ELSE rows
  BY DEF StoreRow
<1>3. disk' = disk /\ hdr' = hdr /\ pc' = pc /\ pending \in Rows /\ rows \in Seq(Rows)
  BY <1>2 DEF vars, TableOK
<1>4. Around /\ MapInv'
  BY <1>2, AroundNext DEF Resting
<1>5. Ascends' /\ Content' = Content
  BY <1>3, <1>4, WritesNothing, QuietRow DEF Resting
<1>6. Content = IF answer = <<"stored">> THEN [l EXCEPT ![k] = @ \cup {v}] ELSE l
  BY <1>1, <1>2 DEF Resting, Insertion
<1>7. rows' \in Seq(Rows) /\ Listing' = Content
  <2>1. CASE answer = <<"stored">>
    BY <1>1, <1>2, <1>3, <1>6, <2>1, RowListed
  <2>2. CASE answer # <<"stored">>
    <3>1. rows' = rows
      BY <1>2, <2>2
    <3>2. Listing' = Listing
      BY <3>1 DEF Listing, BlocksOf, BlockOf
    <3> QED BY <1>1, <1>3, <1>6, <2>2, <3>1, <3>2
  <2> QED BY <2>1, <2>2
<1> QED
  BY <1>2, <1>3, <1>4, <1>5, <1>7 DEF Resting, TableOK, Around

\* A step of the tree in an insertion.
LEMMA TreeStepRests ==
    ASSUME NoNil, TableOK, Resting, Step, rows' = rows, pending' = pending
    PROVE  Resting' /\ TableOK'
<1>1. PICK k, v, l : k = pending[Indexed] /\ v = Len(rows) \div PerBlock /\ l = Listing
  OBVIOUS
<1>2. pc # "idle"
  BY DEF Step, Descend, Panic, Found, Refuse, AddToBucket, InsertInLeaf, InsertOutside, SplitLeaf,
         NewRoot, InsertInParent, SplitInternal, NewKey, AtLeaf, Ascending
<1>3. /\ pending # <<>> /\ Ascends
      /\ pc = "find" => call = [op |-> "insert", key |-> k, val |-> v] /\ Content = l
      /\ pc = "parent" => answer = <<"stored">> /\ Content = [l EXCEPT ![k] = @ \cup {v}]
  BY <1>1, <1>2 DEF Resting, Insertion
<1>4. Around /\ MapInv'
  BY AroundNext DEF Resting, Next
<1>5. Listing' = l
  BY <1>1 DEF Listing, BlocksOf, BlockOf
<1>6. k \in Keys /\ \A w \in l[k] : w <= v
  BY <1>1, <1>3, RowFacts, NextBlock DEF TableOK
<1>7. pc \in {"idle", "find", "parent"}
  BY DEF Resting, TreeInv, RangeInv, CallOK
<1>8. Ascends' /\ Insertion(k, v)'
  <2>1. CASE Descend \/ Refuse
    <3>1. disk' = disk /\ hdr' = hdr /\ pc = "find"
      BY <2>1 DEF Descend, Refuse, AtLeaf
    <3>2. Ascends' /\ Content' = l
      BY <1>3, <1>4, <3>1, WritesNothing, QuietRow
    <3>3. \/ pc' = "find" /\ call' = call
          \/ pc' = "idle" /\ answer' # <<"stored">>
      <4>1. CASE Descend
        BY <1>4, <4>1 DEF Descend, Around, TreeInv, RangeInv, CallOK
      <4>2. CASE Refuse
        BY <4>2 DEF Refuse, Return
      <4> QED BY <2>1, <4>1, <4>2
    <3> QED BY <1>3, <1>5, <3>1, <3>2, <3>3 DEF Insertion
  <2>2. CASE AddToBucket \/ InsertInLeaf \/ SplitLeaf
    <3>1. pc = "find" /\ pc' \in {"idle", "parent"} /\ answer' = <<"stored">>
      BY <2>2 DEF AddToBucket, InsertInLeaf, SplitLeaf, NewKey, AtLeaf, Return
    <3>2. k = call.key /\ v = call.val /\ Content = l
      BY <1>3, <3>1
    <3>3. Ascends' /\ Content' = [Content EXCEPT ![k] = @ \cup {v}]
      BY <1>3, <1>4, <1>6, <2>2, <3>2, BlockRow, NewKeyRow
    <3>4. Content' = [l EXCEPT ![k] = @ \cup {v}]
      BY <3>2, <3>3
    <3> QED BY <1>5, <3>1, <3>3, <3>4 DEF Insertion
  <2>3. CASE NewRoot \/ InsertInParent \/ SplitInternal
    <3>1. pc = "parent" /\ pc' \in {"idle", "parent"} /\ answer' = answer
      BY <2>3 DEF NewRoot, InsertInParent, SplitInternal, Ascending, Return
    <3>2. SameEntries
      BY <1>4, <2>3, NewRootKeeps, InsertInParentKeeps, SplitInternalKeeps DEF Around
    <3>3. Ascends' /\ Content' = Content
      BY <1>3, <1>4, <3>2, QuietRow
    <3>4. answer' = <<"stored">> /\ Content' = [l EXCEPT ![k] = @ \cup {v}]
      BY <1>3, <3>1, <3>3
    <3> QED BY <1>5, <3>1, <3>3, <3>4 DEF Insertion
  <2>4. CASE Panic \/ Found
    BY <1>3, <1>7, <2>4 DEF Panic, Found, AtLeaf
  <2>5. CASE InsertOutside
    BY <2>5, NeverOutside DEF Resting
  <2> QED BY <2>1, <2>2, <2>3, <2>4, <2>5 DEF Step
<1>9. k = pending'[Indexed] /\ v = Len(rows') \div PerBlock
  BY <1>1
<1>10. Resting'
  BY <1>3, <1>4, <1>8, <1>9 DEF Resting, Around
<1> QED
  BY <1>10 DEF TableOK

-------------------------------------------------------------------------------
(* A SELECT over the index.  The ghosts are those of the tree; t is the chosen  *)
(* condition, c the cursor.                                                     *)

\* Nothing is written while it runs: the index lists the rows.
Frozen(lo, hi, ht, pos, own) ==
    /\ FileInv /\ Shape(lo, hi, ht, pos) /\ ChainInv(own) /\ KeysIn /\ Ascends
    /\ open /\ hdr.root # 0 /\ pc # "parent" /\ rows \in Seq(Rows)
    /\ \A k \in Keys : \A v : Has(own, k, v) <=> v \in BlocksOf(k)

Cursors == [conds : {x \in Clauses : ByIndex(x)}, only : BOOLEAN, pos : Nat, ptr : Int,
            bucket : Nat, slot : Nat, block : Int, visited : Seq(Nat)]

Cmp(t, k)    == Compares(t.op, k, t.num)
VisIn(s, v)  == \E x \in DOMAIN s : s[x] = v
Latest(c)    == IF hdr.duplicate = "N" THEN c.ptr ELSE c.block

\* What a pointer of a leaf stands for.
Leads(own, p, v) == IF hdr.duplicate = "N" THEN v = p ELSE \E d \in B : own[d] = p /\ In(d, v)

\* The cursor has dealt with the keys before this one.
Bound(hi, leaf, i) == IF i <= disk[leaf].size THEN disk[leaf].keys[i] ELSE hi[leaf]
Upto(own, t, c, b) ==
    \A k \in Keys : \A v : Has(own, k, v) /\ k < b /\ Cmp(t, k) => VisIn(c.visited, v)

InOrder(c) ==
    /\ \A x, y \in DOMAIN c.visited : x < y => c.visited[x] < c.visited[y]
    /\ \A x \in DOMAIN c.visited : c.visited[x] <= Latest(c)

\* < and <= that started in the leaf of the number end there.
Only(hi, t, leaf, c) ==
    c.only => leaf = 1 /\ \A k \in Keys : \A p : Filed(k, p) /\ hi[1] <= k => ~Cmp(t, k)

WalkInv(hi, own, t, leaf, c) ==
    /\ leaf \in L /\ c.pos \in 1 .. disk[leaf].size + 1 /\ t.op # "="
    /\ Upto(own, t, c, Bound(hi, leaf, c.pos))
    /\ c.ptr # NoBlock => \A v : Leads(own, c.ptr, v) => VisIn(c.visited, v)
    /\ c.block # NoBlock => VisIn(c.visited, c.block)
    /\ Only(hi, t, leaf, c)
    /\ Clustered => InOrder(c) /\ \A k \in Keys : \A v :
                       Has(own, k, v) /\ Bound(hi, leaf, c.pos) <= k => Latest(c) <= v

BucketInv(hi, own, t, leaf, c) ==
    /\ hdr.duplicate = "Y" /\ c.bucket \in B /\ c.slot \in 1 .. Len(disk[c.bucket].ptrs) + 1
    /\ \A s \in 1 .. c.slot - 1 : VisIn(c.visited, disk[c.bucket].ptrs[s])
    /\ c.slot > 1 => c.block = disk[c.bucket].ptrs[c.slot - 1]
    /\ c.block # NoBlock => VisIn(c.visited, c.block)
    /\ \A d \in B : own[d] = own[c.bucket] /\ d < c.bucket =>
          \A v : In(d, v) => VisIn(c.visited, v)
    /\ Clustered \/ t.op = "=" =>
          /\ InOrder(c)
          /\ \A s \in c.slot .. Len(disk[c.bucket].ptrs) :
                /\ c.block <= disk[c.bucket].ptrs[s]
                /\ t.op = "=" => c.block < disk[c.bucket].ptrs[s]
    /\ IF t.op = "=" THEN Filed(t.num, own[c.bucket])
       ELSE /\ leaf \in L /\ c.pos \in 2 .. disk[leaf].size + 1
            /\ c.ptr = own[c.bucket] /\ c.ptr = disk[leaf].ptrs[c.pos - 1]
            /\ Upto(own, t, c, disk[leaf].keys[c.pos - 1])
            /\ Only(hi, t, leaf, c)

FindInv(lo, hi, t, node, c) ==
    /\ node \in Nodes /\ lo[node] <= t.num /\ (t.num < hi[node] \/ (t.num = NilKey /\ hi[node] = NilKey))
    /\ call.op = "select" /\ call.key = t.num

Fresh(c) == c.only = FALSE /\ c.ptr = NoBlock /\ c.block = NoBlock /\ c.visited = <<>>

Runs(lo, hi, own, t, node, c) ==
    \/ pc = "find" /\ FindInv(lo, hi, t, node, c) /\ Fresh(c)
    \/ pc = "panic" /\ call.op = "select" /\ t.num = NilKey /\ Fresh(c)
    \/ pc = "walk" /\ WalkInv(hi, own, t, node, c)
    \/ pc = "bucket" /\ BucketInv(hi, own, t, node, c)

Selecting ==
    /\ cur \in Cursors
    /\ \E lo, hi, ht, pos, own \in Ghosts :
          /\ Frozen(lo, hi, ht, pos, own)
          /\ Runs(lo, hi, own, Chosen(cur.conds), at, cur)

-------------------------------------------------------------------------------
(* What a leaf and a chain hold. *)

LEMMA LeafView ==
    ASSUME NEW lo \in Ghosts, NEW hi \in Ghosts, NEW ht \in Ghosts, NEW pos \in Ghosts,
           NEW own \in Ghosts, Frozen(lo, hi, ht, pos, own), NEW leaf \in L, NEW n, n = disk[leaf]
    PROVE  /\ n.size \in Nat /\ 1 <= n.size /\ n.size <= Cap /\ Cap \in Nat
           /\ lo[leaf] \in Nat /\ hi[leaf] \in Nat /\ hi[leaf] <= NilKey /\ NilKey \in Nat
           /\ \A i \in 1 .. n.size : /\ n.keys[i] \in Nat /\ n.keys[i] < NilKey
                                     /\ lo[leaf] <= n.keys[i] /\ n.keys[i] < hi[leaf]
                                     /\ Filed(n.keys[i], n.ptrs[i]) /\ n.keys[i] \in Keys
                                     /\ n.ptrs[i] \in Nat
           /\ \A i, j \in 1 .. n.size : i < j => n.keys[i] < n.keys[j]
<1>1. FileInv /\ Shape(lo, hi, ht, pos) /\ KeysIn
  BY DEF Frozen
<1>2. leaf \in Nodes /\ n \in Leaves /\ KeysOK(n) /\ leaf \in Nat
  BY <1>1, Kinds DEF FileInv
<1>3. /\ n.size \in Nat /\ 1 <= n.size /\ n.size <= Cap /\ Cap \in Nat /\ NilKey \in Nat
      /\ \A i \in 1 .. Cap : n.keys[i] \in Nat
      /\ \A i \in 1 .. Cap : i <= n.size => n.keys[i] < NilKey
      /\ \A i, j \in 1 .. n.size : i < j => n.keys[i] < n.keys[j]
  BY <1>2, NodeFacts
<1>4. \A i \in 1 .. n.size : i \in 1 .. Cap /\ i <= n.size
  BY <1>3
<1>5. lo[leaf] \in Nat /\ hi[leaf] \in Nat /\ hi[leaf] <= NilKey
  BY <1>1, <1>2 DEF Shape, Bounded, Ghosts
<1>6. \A i \in 1 .. n.size : lo[leaf] <= n.keys[i] /\ n.keys[i] < hi[leaf]
  BY <1>1, <1>2 DEF Shape, Bounded
<1>7. \A i \in 1 .. n.size : Filed(n.keys[i], n.ptrs[i])
  BY DEF Filed
<1>8. \A i \in 1 .. n.size : n.keys[i] \in Keys
  BY <1>1, <1>7 DEF KeysIn
<1>9. \A i \in 1 .. n.size : n.ptrs[i] \in Nat
  BY <1>2, <1>4 DEF Leaves
<1> QED
  BY <1>3, <1>4, <1>5, <1>6, <1>7, <1>8, <1>9

LEMMA HasLeads ==
    ASSUME FileInv, open, NEW own, NEW k, NEW v
    PROVE  Has(own, k, v) <=> \E p : Filed(k, p) /\ Leads(own, p, v)
<1>1. hdr.duplicate \in {"Y", "N"}
  BY DEF FileInv, HeaderOK, Headers
<1> QED
  BY <1>1 DEF Has, Leads

\* The rows of a key are those its only pointer leads to.
LEMMA KeyLeads ==
    ASSUME NEW lo \in Ghosts, NEW hi \in Ghosts, NEW ht \in Ghosts, NEW pos \in Ghosts,
           NEW own \in Ghosts, Frozen(lo, hi, ht, pos, own), NEW k, NEW p, Filed(k, p), NEW v
    PROVE  Has(own, k, v) <=> Leads(own, p, v)
<1>1. \A r : Filed(k, r) => r = p
  BY OneEntry DEF Frozen
<1>2. Has(own, k, v) <=> \E r : Filed(k, r) /\ Leads(own, r, v)
  BY HasLeads DEF Frozen
<1> QED
  BY <1>1, <1>2

\* A key of the file.
LEMMA KeyThere ==
    ASSUME NEW lo \in Ghosts, NEW hi \in Ghosts, NEW ht \in Ghosts, NEW pos \in Ghosts,
           NEW own \in Ghosts, Frozen(lo, hi, ht, pos, own), NEW k, NEW v, Has(own, k, v)
    PROVE  k \in Keys /\ k \in Nat /\ k < NilKey /\ \E p : Filed(k, p)
<1>1. PICK p : Filed(k, p)
  BY HasLeads DEF Frozen
<1>2. k \in Nat /\ k < NilKey
  BY <1>1, OneEntry DEF Frozen
<1>3. k \in Keys
  BY <1>1 DEF Frozen, KeysIn
<1> QED
  BY <1>1, <1>2, <1>3

\* A key of the file in the range of a leaf is in the leaf.
LEMMA KeyAt ==
    ASSUME NEW lo \in Ghosts, NEW hi \in Ghosts, NEW ht \in Ghosts, NEW pos \in Ghosts,
           NEW own \in Ghosts, Frozen(lo, hi, ht, pos, own), NEW leaf \in L, NEW k, NEW p,
           Filed(k, p), lo[leaf] <= k, k < hi[leaf]
    PROVE  \E i \in 1 .. disk[leaf].size : disk[leaf].keys[i] = k /\ disk[leaf].ptrs[i] = p
<1>1. k \in Nat
  BY OneEntry DEF Frozen
<1> QED
  BY <1>1, EntryInLeaf DEF Frozen

\* No key of the file is between two keys of a leaf.
LEMMA KeyGap ==
    ASSUME NEW lo \in Ghosts, NEW hi \in Ghosts, NEW ht \in Ghosts, NEW pos \in Ghosts,
           NEW own \in Ghosts, Frozen(lo, hi, ht, pos, own), NEW leaf \in L,
           NEW n, n = disk[leaf], NEW i \in 1 .. n.size, NEW k, NEW p, Filed(k, p),
           n.keys[i] <= k, k < Bound(hi, leaf, i + 1)
    PROVE  k = n.keys[i]
<1>1. /\ n.size \in Nat /\ lo[leaf] \in Nat /\ hi[leaf] \in Nat
      /\ \A j \in 1 .. n.size : n.keys[j] \in Nat /\ lo[leaf] <= n.keys[j] /\ n.keys[j] < hi[leaf]
      /\ \A h, j \in 1 .. n.size : h < j => n.keys[h] < n.keys[j]
  BY LeafView
<1>2. k \in Nat
  BY OneEntry DEF Frozen
<1>3. Bound(hi, leaf, i + 1) <= hi[leaf] /\ Bound(hi, leaf, i + 1) \in Nat
  <2>1. i + 1 <= n.size => i + 1 \in 1 .. n.size
    BY <1>1
  <2> QED BY <1>1, <2>1 DEF Bound
<1>4. lo[leaf] <= k /\ k < hi[leaf]
  BY <1>1, <1>2, <1>3
<1>5. PICK j \in 1 .. n.size : n.keys[j] = k
  BY <1>4, KeyAt
<1>6. ~(j < i)
  BY <1>1, <1>2, <1>5
<1>7. ~(i < j)
  <2>1. SUFFICES ASSUME i < j PROVE FALSE
    OBVIOUS
  <2>2. i + 1 \in 1 .. n.size /\ i + 1 <= n.size /\ (i + 1 < j \/ i + 1 = j)
    BY <1>1, <2>1
  <2>3. Bound(hi, leaf, i + 1) = n.keys[i + 1]
    BY <2>2 DEF Bound
  <2>4. n.keys[i + 1] <= n.keys[j]
    BY <1>1, <2>2
  <2> QED BY <1>1, <1>2, <1>5, <2>2, <2>3, <2>4
<1> QED
  BY <1>1, <1>5, <1>6, <1>7

\* The buckets of a chain follow each other in the order of their numbers.
LEMMA ChainOrder ==
    ASSUME FileInv, hdr.duplicate = "Y", NEW own \in Ghosts, ChainInv(own),
           NEW e \in B, NEW c \in B, own[e] = own[c], e < c
    PROVE  disk[e].next # 0 /\ disk[e].next <= c
<1> DEFINE Follows(x, y) == disk[x].next # 0 /\ disk[x].next <= y
           S == {y \in B : \E x \in B : own[x] = own[y] /\ x < y /\ ~Follows(x, y)}
<1>1. SUFFICES ASSUME S # {} PROVE FALSE
  <2>1. c \notin S
    BY <1>1
  <2> QED BY <2>1
<1>2. \A y \in B : y \in Nat /\ own[y] \in Nat /\ own[y] <= y
  BY Owners DEF Ghosts
<1>3. S \in SUBSET Nat
  BY <1>2
<1> HIDE DEF S
<1>4. PICK y \in S : \A z \in S : y <= z
  BY <1>1, <1>3, LeastNat
<1>5. PICK x \in B : own[x] = own[y] /\ x < y /\ ~Follows(x, y)
  BY <1>4 DEF S
<1>6. y \in B
  BY <1>4 DEF S
<1>7. y # own[y]
  BY <1>2, <1>5, <1>6
<1>8. PICK d \in B : disk[d].next = y
  BY <1>6, <1>7 DEF ChainInv
<1>9. y # 0 /\ d < y /\ own[d] = own[y] /\ d \in Nat /\ x \in Nat /\ y \in Nat
  <2>1. y # 0
    BY <1>2, <1>5, <1>6
  <2> QED BY <1>2, <1>5, <1>6, <1>8, <2>1 DEF ChainInv, FileInv, BucketsOK
<1>10. \A z \in B : z < y => \A w \in B : own[w] = own[z] /\ w < z => Follows(w, z)
  <2>1. \A z \in B : z < y => z \notin S
    BY <1>2, <1>4, <1>6
  <2> QED BY <2>1 DEF S
<1>11. x # d
  BY <1>5, <1>8, <1>9
<1>12. CASE x < d
  <2>1. Follows(x, d)
    BY <1>5, <1>9, <1>10, <1>12
  <2>2. disk[x].next \in Nat
    BY Kinds DEF FileInv, Buckets
  <2> QED BY <1>5, <1>9, <2>1, <2>2
<1>13. CASE d < x
  <2>1. Follows(d, x)
    BY <1>5, <1>9, <1>10, <1>13
  <2> QED BY <1>5, <1>8, <1>9, <2>1
<1> QED
  BY <1>9, <1>11, <1>12, <1>13

\* The rows of a key.
LEMMA HasRow ==
    ASSUME NEW lo \in Ghosts, NEW hi \in Ghosts, NEW ht \in Ghosts, NEW pos \in Ghosts,
           NEW own \in Ghosts, Frozen(lo, hi, ht, pos, own), NEW k, NEW v, Has(own, k, v)
    PROVE  v \in Nat /\ \E i \in DOMAIN rows : rows[i][Indexed] = k /\ v = BlockOf(i)
<1>1. k \in Keys
  BY KeyThere
<1>2. v \in BlocksOf(k)
  BY <1>1 DEF Frozen
<1>3. PICK i \in DOMAIN rows : rows[i][Indexed] = k /\ v = BlockOf(i)
  BY <1>2 DEF BlocksOf
<1>4. i \in Nat \ {0}
  BY DEF Frozen
<1> QED
  BY <1>3, <1>4, BlockOrder

\* A table filled in the order of its keys has the smaller keys in the earlier blocks.
LEMMA ClusterOrder ==
    ASSUME NEW lo \in Ghosts, NEW hi \in Ghosts, NEW ht \in Ghosts, NEW pos \in Ghosts,
           NEW own \in Ghosts, Frozen(lo, hi, ht, pos, own), Clustered,
           NEW j, NEW v, Has(own, j, v), NEW k, NEW w, Has(own, k, w), j < k
    PROVE  v <= w
<1>1. PICK x \in DOMAIN rows : rows[x][Indexed] = j /\ v = BlockOf(x)
  BY HasRow
<1>2. PICK y \in DOMAIN rows : rows[y][Indexed] = k /\ w = BlockOf(y)
  BY HasRow
<1>3. x \in Nat \ {0} /\ y \in Nat \ {0}
  BY DEF Frozen
<1>4. j \in Nat /\ k \in Nat
  BY KeyThere
<1>5. x <= y
  <2>1. SUFFICES ASSUME y < x PROVE FALSE
    BY <1>3
  <2>2. k <= j
    BY <1>1, <1>2, <2>1 DEF Clustered
  <2> QED BY <1>4, <2>2
<1> QED
  BY <1>1, <1>2, <1>3, <1>5, BlockOrder

LEMMA TableHasKey ==
    ASSUME NEW lo \in Ghosts, NEW hi \in Ghosts, NEW ht \in Ghosts, NEW pos \in Ghosts,
           NEW own \in Ghosts, Frozen(lo, hi, ht, pos, own), NEW i \in DOMAIN rows
    PROVE  Has(own, rows[i][Indexed], BlockOf(i))
<1>1. rows[i][Indexed] \in Keys
  BY DEF Frozen, Rows
<1>2. BlockOf(i) \in BlocksOf(rows[i][Indexed])
  BY DEF BlocksOf
<1> QED
  BY <1>1, <1>2 DEF Frozen

-------------------------------------------------------------------------------
(* Ends and steps. *)

\* The keys that compare are dealt with.
Done(own, t, vis) ==
    \A k \in Keys : \A v : Has(own, k, v) /\ Cmp(t, k) => VisIn(vis, v)

Distinct(vis) == \A x, y \in DOMAIN vis : x # y => vis[x] # vis[y]

LEMMA OrderIsDistinct ==
    ASSUME NEW c, c.visited \in Seq(Nat), InOrder(c)
    PROVE  Distinct(c.visited)
<1>1. PICK s : s = c.visited
  OBVIOUS
<1>2. \A x \in DOMAIN s : x \in Nat /\ s[x] \in Nat
  BY <1>1
<1>3. \A x, y \in DOMAIN s : x < y => s[x] < s[y]
  BY <1>1 DEF InOrder
<1>4. ASSUME NEW x \in DOMAIN s, NEW y \in DOMAIN s, x # y PROVE s[x] # s[y]
  <2>1. x < y \/ y < x
    BY <1>2, <1>4
  <2> QED BY <1>2, <1>3, <2>1
<1> QED
  BY <1>1, <1>4 DEF Distinct

\* Nothing is written: what holds of the file and the table still does.
LEMMA StaysFrozen ==
    ASSUME NEW lo \in Ghosts, NEW hi \in Ghosts, NEW ht \in Ghosts, NEW pos \in Ghosts,
           NEW own \in Ghosts, Frozen(lo, hi, ht, pos, own), UNCHANGED treeVars, rows' = rows,
           pc' # "parent"
    PROVE  Frozen(lo, hi, ht, pos, own)'
<1>1. disk' = disk /\ hdr' = hdr /\ dhdr' = dhdr /\ open' = open /\ ~Pending /\ open
  BY DEF treeVars, Frozen, Pending
<1>2. FileInv /\ Shape(lo, hi, ht, pos)
  BY DEF Frozen
<1>3. FileInv' /\ Shape(lo, hi, ht, pos)'
  <2>1. HeaderOK'
    BY <1>1, <1>2 DEF FileInv, HeaderOK
  <2>2. /\ FileOK => FileOK'
        /\ BucketsOK => BucketsOK'
        /\ Counted => Counted'
        /\ HalfFull => HalfFull'
        /\ Bounded(lo, hi) => Bounded(lo, hi)'
        /\ Linked(ht) => Linked(ht)'
        /\ Chained(lo, hi, pos) => Chained(lo, hi, pos)'
    BY <1>1, SameFile
  <2> QED BY <1>2, <2>1, <2>2 DEF FileInv, Shape
<1>4. SameEntries
  BY <1>1, WritesNothing
<1>5. ChainInv(own)' /\ \A j, w : Has(own, j, w)' <=> Has(own, j, w)
  BY <1>4, SameKeeps DEF Frozen
<1>6. KeysIn'
  BY <1>4 DEF Frozen, KeysIn, SameEntries
<1>7. Ascends'
  BY <1>2, <1>4, SameAscends DEF Frozen
<1>8. \A k \in Keys : \A v : (v \in BlocksOf(k))' <=> v \in BlocksOf(k)
  BY DEF BlocksOf, BlockOf
<1>9. \A k \in Keys : \A v : (Has(own, k, v) <=> v \in BlocksOf(k))'
  BY <1>5, <1>8 DEF Frozen
<1>10. hdr'.root # 0 /\ rows' \in Seq(Rows) /\ open'
  BY <1>1 DEF Frozen
<1> QED
  BY <1>3, <1>5, <1>6, <1>7, <1>9, <1>10 DEF Frozen

\* The state without a SELECT comes back.
LEMMA BackToRest ==
    ASSUME NEW lo \in Ghosts, NEW hi \in Ghosts, NEW ht \in Ghosts, NEW pos \in Ghosts,
           NEW own \in Ghosts, Frozen(lo, hi, ht, pos, own), UNCHANGED treeVars, rows' = rows,
           pc' = "idle", pending' = <<>>
    PROVE  Resting'
<1>1. Frozen(lo, hi, ht, pos, own)'
  BY StaysFrozen
<1>2. FileInv' /\ Shape(lo, hi, ht, pos)' /\ ChainInv(own)' /\ KeysIn' /\ Ascends'
  BY <1>1 DEF Frozen
<1>3. CallOK(lo, hi, ht)' /\ CallInv'
  BY DEF CallOK, CallInv
<1>4. TreeInv'
  BY <1>2, <1>3 DEF TreeInv, RangeInv, Shape
<1>5. MapInv'
  BY <1>2, <1>3 DEF MapInv
<1>6. \A k \in Keys : \A v : (v \in Content[k])' <=> Has(own, k, v)'
  BY <1>2, <1>4, ShownNext DEF Shown
<1>7. \A k \in Keys : \A v : Has(own, k, v)' <=> (v \in BlocksOf(k))'
  BY <1>1 DEF Frozen
<1>8. ASSUME NEW k \in Keys PROVE (Content[k])' = BlocksOf(k)'
  BY <1>6, <1>7, <1>8
<1>9. Content' = Listing'
  BY <1>8 DEF Content, Listing
<1> QED
  BY <1>2, <1>4, <1>5, <1>9 DEF Resting

\* A SELECT ends with a right answer, or goes on.
Ended == /\ Resting' /\ SelectComplete' /\ RowsOnce'
         /\ cur' = NoCursor /\ pending' = <<>> /\ rows' = rows
Goes  == Selecting' /\ pending' = <<>> /\ seen' = seen /\ rows' = rows

LEMMA Ends ==
    ASSUME NEW lo \in Ghosts, NEW hi \in Ghosts, NEW ht \in Ghosts, NEW pos \in Ghosts,
           NEW own \in Ghosts, Frozen(lo, hi, ht, pos, own), pending = <<>>,
           NEW c, c = cur, c \in Cursors, NEW t, t = Chosen(c.conds), NEW vis, Finish(vis),
           Done(own, t, vis), t.op = "=" \/ Clustered => Distinct(vis)
    PROVE  Ended
<1>1. PICK conds : conds = c.conds
  OBVIOUS
<1>2. conds \in Clauses /\ ByIndex(conds)
  BY <1>1 DEF Cursors
<1>3. /\ UNCHANGED treeVars /\ rows' = rows /\ pending' = <<>> /\ pc' = "idle" /\ cur' = NoCursor
      /\ seen' = Answer(conds, t.op, vis)
  BY <1>1 DEF Finish, Return, Op
<1>4. \A r : Passes(conds, r) => Cmp(t, r[Indexed])
  BY <1>1, <1>2, ChosenPasses DEF Cmp
<1>5. ASSUME NEW i \in DOMAIN rows, Passes(conds, rows[i])
      PROVE  \E x \in DOMAIN vis : vis[x] = BlockOf(i)
  <2>1. Has(own, rows[i][Indexed], BlockOf(i))
    BY TableHasKey
  <2>2. rows[i][Indexed] \in Keys
    BY <2>1, KeyThere
  <2>3. VisIn(vis, BlockOf(i))
    BY <1>4, <1>5, <2>1, <2>2 DEF Done
  <2> QED BY <2>3 DEF VisIn
<1>6. t.op # "scan"
  BY <1>1, <1>2, ChosenPasses
<1>7. SelectComplete' /\ RowsOnce'
  BY <1>3, <1>5, <1>6, AnswerIsRight DEF Distinct
<1>8. Resting'
  BY <1>3, BackToRest
<1> QED
  BY <1>3, <1>7, <1>8 DEF Ended

\* The cursor's part of the invariant reads the file and the table only.
LEMMA RunsOn ==
    ASSUME NEW hi, NEW own, NEW t, NEW leaf, NEW c, disk' = disk, hdr' = hdr, rows' = rows
    PROVE  /\ WalkInv(hi, own, t, leaf, c) => WalkInv(hi, own, t, leaf, c)'
           /\ BucketInv(hi, own, t, leaf, c) => BucketInv(hi, own, t, leaf, c)'
<1>1. L' = L /\ B' = B
  BY DEF L, B, OfType
<1>2. \A k, p : Filed(k, p)' <=> Filed(k, p)
  BY <1>1 DEF Filed
<1>3. \A d, v : In(d, v)' <=> In(d, v)
  BY DEF In
<1>4. \A k, v : Has(own, k, v)' <=> Has(own, k, v)
  BY <1>1, <1>2, <1>3 DEF Has
<1>5. \A p, v : Leads(own, p, v)' <=> Leads(own, p, v)
  BY <1>1, <1>3 DEF Leads
<1>6. /\ Clustered' <=> Clustered
      /\ InOrder(c)' <=> InOrder(c)
      /\ Latest(c)' = Latest(c)
  BY DEF Clustered, InOrder, Latest
<1>7. \A b : Upto(own, t, c, b)' <=> Upto(own, t, c, b)
  BY <1>4 DEF Upto
<1>8. Only(hi, t, leaf, c)' <=> Only(hi, t, leaf, c)
  BY <1>2 DEF Only
<1>9. \A i : Bound(hi, leaf, i)' = Bound(hi, leaf, i)
  BY DEF Bound
<1>10. WalkInv(hi, own, t, leaf, c) => WalkInv(hi, own, t, leaf, c)'
  BY <1>1, <1>4, <1>5, <1>6, <1>7, <1>8, <1>9 DEF WalkInv
<1>11. BucketInv(hi, own, t, leaf, c) => BucketInv(hi, own, t, leaf, c)'
  BY <1>1, <1>2, <1>3, <1>6, <1>7, <1>8 DEF BucketInv
<1> QED
  BY <1>10, <1>11

LEMMA Onward ==
    ASSUME NEW lo \in Ghosts, NEW hi \in Ghosts, NEW ht \in Ghosts, NEW pos \in Ghosts,
           NEW own \in Ghosts, Frozen(lo, hi, ht, pos, own), pending = <<>>,
           NEW t, NEW label, NEW leaf, NEW c \in Cursors, t = Chosen(c.conds), Go(label, leaf, c),
           \/ label = "walk" /\ WalkInv(hi, own, t, leaf, c)
           \/ label = "bucket" /\ BucketInv(hi, own, t, leaf, c)
    PROVE  Goes
<1>1. /\ pc' = label /\ at' = leaf /\ cur' = c /\ UNCHANGED treeVars
      /\ rows' = rows /\ pending' = <<>> /\ seen' = seen
  BY DEF Go
<1>2. disk' = disk /\ hdr' = hdr /\ label # "parent"
  BY <1>1 DEF treeVars
<1>3. Frozen(lo, hi, ht, pos, own)'
  BY <1>1, <1>2, StaysFrozen
<1>4. \/ label = "walk" /\ WalkInv(hi, own, t, leaf, c)'
      \/ label = "bucket" /\ BucketInv(hi, own, t, leaf, c)'
  BY <1>1, <1>2, RunsOn
<1>5. Runs(lo, hi, own, t, leaf, c)'
  BY <1>1, <1>4 DEF Runs
<1>6. Selecting'
  BY <1>1, <1>3, <1>5 DEF Selecting
<1> QED
  BY <1>1, <1>6 DEF Goes

-------------------------------------------------------------------------------
(* The walk over the leaves. *)

\* Where the walk is.
LEMMA WalkFacts ==
    ASSUME NEW lo \in Ghosts, NEW hi \in Ghosts, NEW ht \in Ghosts, NEW pos \in Ghosts,
           NEW own \in Ghosts, Frozen(lo, hi, ht, pos, own), NEW leaf \in L, NEW n, n = disk[leaf],
           NEW i \in 1 .. n.size, NEW k, k = n.keys[i], NEW p, p = n.ptrs[i]
    PROVE  /\ k \in Keys /\ k \in Nat /\ k < NilKey /\ p \in Nat /\ p # NoBlock /\ Filed(k, p)
           /\ lo[leaf] <= k
           /\ Bound(hi, leaf, i) = k /\ Bound(hi, leaf, i + 1) \in Nat
           /\ k < Bound(hi, leaf, i + 1)
<1>1. /\ n.size \in Nat /\ hi[leaf] \in Nat
      /\ k \in Nat /\ k < NilKey /\ k < hi[leaf] /\ Filed(k, p) /\ k \in Keys /\ p \in Nat
      /\ lo[leaf] <= k
  BY LeafView
<1>2. \A h, j \in 1 .. n.size : h < j => n.keys[h] < n.keys[j]
  BY LeafView
<1>3. \A j \in 1 .. n.size : n.keys[j] \in Nat
  BY LeafView
<1>4. Bound(hi, leaf, i) = k
  BY <1>1 DEF Bound
<1>5. Bound(hi, leaf, i + 1) \in Nat /\ k < Bound(hi, leaf, i + 1)
  <2>1. CASE i + 1 <= n.size
    <3>1. i + 1 \in 1 .. n.size /\ i < i + 1
      BY <1>1, <2>1
    <3> QED BY <1>2, <1>3, <2>1, <3>1 DEF Bound
  <2>2. CASE ~(i + 1 <= n.size)
    BY <1>1, <2>2 DEF Bound
  <2> QED BY <2>1, <2>2
<1>6. p # NoBlock
  BY <1>1 DEF NoBlock
<1> QED
  BY <1>1, <1>4, <1>5, <1>6

\* When the blocks of the key before are visited, the bound moves on.
LEMMA BoundMoves ==
    ASSUME NEW lo \in Ghosts, NEW hi \in Ghosts, NEW ht \in Ghosts, NEW pos \in Ghosts,
           NEW own \in Ghosts, Frozen(lo, hi, ht, pos, own), NEW leaf \in L, NEW n, n = disk[leaf],
           NEW i \in 1 .. n.size, NEW t, NEW c, NEW d, Upto(own, t, c, n.keys[i]),
           \A v : VisIn(c.visited, v) => VisIn(d.visited, v),
           \A v : Leads(own, n.ptrs[i], v) => VisIn(d.visited, v)
    PROVE  Upto(own, t, d, Bound(hi, leaf, i + 1))
<1>1. PICK k, p, b : k = n.keys[i] /\ p = n.ptrs[i] /\ b = Bound(hi, leaf, i + 1)
  OBVIOUS
<1>2. k \in Nat /\ Filed(k, p)
  BY <1>1, WalkFacts
<1>3. ASSUME NEW j \in Keys, NEW v, Has(own, j, v), j < b, Cmp(t, j)
      PROVE  VisIn(d.visited, v)
  <2>1. j \in Nat
    BY <1>3, KeyThere
  <2>2. CASE j < k
    <3>1. VisIn(c.visited, v)
      BY <1>1, <1>3, <2>2 DEF Upto
    <3> QED BY <3>1
  <2>3. CASE k <= j
    <3>1. PICK r : Filed(j, r)
      BY <1>3, KeyThere
    <3>2. j = k
      BY <1>1, <1>3, <2>3, <3>1, KeyGap
    <3>3. Leads(own, p, v)
      BY <1>2, <1>3, <3>2, KeyLeads
    <3> QED BY <1>1, <3>3
  <2> QED BY <1>2, <2>1, <2>2, <2>3
<1> QED
  BY <1>1, <1>3 DEF Upto

\* Keys that are not below the bound come from later blocks.
LEMMA LaterBlocks ==
    ASSUME NEW lo \in Ghosts, NEW hi \in Ghosts, NEW ht \in Ghosts, NEW pos \in Ghosts,
           NEW own \in Ghosts, Frozen(lo, hi, ht, pos, own), NEW leaf \in L, NEW n, n = disk[leaf],
           NEW i \in 1 .. n.size, Clustered, NEW w, Leads(own, n.ptrs[i], w)
    PROVE  \A j \in Keys : \A v : Has(own, j, v) /\ Bound(hi, leaf, i + 1) <= j => w <= v
<1>0. PICK k, p : k = n.keys[i] /\ p = n.ptrs[i]
  OBVIOUS
<1>1. PICK b : b = Bound(hi, leaf, i + 1)
  OBVIOUS
<1>2. k \in Nat /\ b \in Nat /\ k < b /\ Has(own, k, w)
  <2>1. /\ k \in Nat /\ Bound(hi, leaf, i + 1) \in Nat /\ k < Bound(hi, leaf, i + 1)
        /\ Filed(k, p)
    BY ONLY Frozen(lo, hi, ht, pos, own), <1>0, WalkFacts, lo \in Ghosts, hi \in Ghosts,
            ht \in Ghosts, pos \in Ghosts, own \in Ghosts, leaf \in L, n = disk[leaf],
            i \in 1 .. n.size
  <2>3. Has(own, k, w)
    BY <1>0, <2>1, KeyLeads
  <2> QED BY <1>1, <2>1, <2>3
<1>3. ASSUME NEW j \in Keys, NEW v, Has(own, j, v), b <= j PROVE w <= v
  <2>1. j \in Nat
    BY <1>3, KeyThere
  <2>2. k < j
    BY <1>2, <1>3, <2>1
  <2> QED BY <1>2, <1>3, <2>2, ClusterOrder
<1> QED
  BY <1>1, <1>3

LEMMA AtKeyFacts ==
    ASSUME NEW lo \in Ghosts, NEW hi \in Ghosts, NEW ht \in Ghosts, NEW pos \in Ghosts,
           NEW own \in Ghosts, Frozen(lo, hi, ht, pos, own), NEW t, NEW leaf, NEW c,
           WalkInv(hi, own, t, leaf, c), NEW n, n = disk[leaf], c.pos <= n.size,
           NEW i, i = c.pos
    PROVE  /\ leaf \in L /\ i \in 1 .. n.size /\ n.size \in Nat /\ i + 1 \in 2 .. n.size + 1
           /\ Upto(own, t, c, n.keys[i])
           /\ Clustered => \A v : Leads(own, n.ptrs[i], v) => Latest(c) <= v
<1>1. leaf \in L
  BY DEF WalkInv
<1>2. n.size \in Nat
  BY <1>1, LeafView
<1>3. i \in 1 .. n.size /\ i + 1 \in 2 .. n.size + 1
  BY <1>2 DEF WalkInv
<1>4. PICK k, p : k = n.keys[i] /\ p = n.ptrs[i]
  OBVIOUS
<1>5. Bound(hi, leaf, i) = k /\ k \in Keys /\ k \in Nat /\ Filed(k, p)
  BY <1>1, <1>3, <1>4, WalkFacts
<1>6. Upto(own, t, c, k)
  BY <1>5 DEF WalkInv
<1>7. ASSUME Clustered, NEW v, Leads(own, p, v) PROVE Latest(c) <= v
  <2>1. Has(own, k, v)
    BY <1>5, <1>7, KeyLeads
  <2>2. \A j \in Keys : \A w : Has(own, j, w) /\ k <= j => Latest(c) <= w
    BY <1>5, <1>7 DEF WalkInv
  <2> QED BY <1>5, <2>1, <2>2
<1> QED
  BY <1>1, <1>2, <1>3, <1>4, <1>6, <1>7

\* The pointer of the key before again.
LEMMA VisitSame ==
    ASSUME NEW lo \in Ghosts, NEW hi \in Ghosts, NEW ht \in Ghosts, NEW pos \in Ghosts,
           NEW own \in Ghosts, Frozen(lo, hi, ht, pos, own), NEW t, NEW leaf, NEW c \in Cursors,
           WalkInv(hi, own, t, leaf, c), NEW n, n = disk[leaf], c.pos <= n.size,
           NEW i, i = c.pos, n.ptrs[i] = c.ptr, NEW d \in Cursors,
           d.pos = i + 1, d.ptr = c.ptr, d.block = c.block, d.visited = c.visited, d.only = c.only
    PROVE  WalkInv(hi, own, t, leaf, d)
<1>1. PICK b : b = Bound(hi, leaf, i + 1)
  OBVIOUS
<1>2. leaf \in L /\ i \in 1 .. n.size /\ i + 1 \in 2 .. n.size + 1 /\ n.size \in Nat
  BY AtKeyFacts
<1>3. Upto(own, t, c, n.keys[i])
  BY AtKeyFacts
<1>4. c.ptr # NoBlock /\ Bound(hi, leaf, i) \in Nat /\ b \in Nat /\ Bound(hi, leaf, i) < b
  BY <1>1, <1>2, WalkFacts
<1>5. \A v : Leads(own, c.ptr, v) => VisIn(c.visited, v)
  BY <1>4 DEF WalkInv
<1>6. Upto(own, t, d, b)
  BY <1>1, <1>2, <1>3, <1>5, BoundMoves
<1>7. Latest(d) = Latest(c) /\ (InOrder(c) => InOrder(d))
  BY DEF Latest, InOrder
<1>8. ASSUME Clustered, NEW j \in Keys, NEW v, Has(own, j, v), b <= j PROVE Latest(d) <= v
  <2>1. j \in Nat
    BY <1>8, KeyThere
  <2>2. Bound(hi, leaf, c.pos) <= j
    BY <1>4, <1>8, <2>1
  <2> QED BY <1>7, <1>8, <2>2 DEF WalkInv
<1>9. d.pos \in 1 .. n.size + 1
  BY <1>2
<1>10. Only(hi, t, leaf, d)
  BY DEF WalkInv, Only
<1> QED
  BY <1>1, <1>2, <1>5, <1>6, <1>7, <1>8, <1>9, <1>10 DEF WalkInv

\* A block at the end of the visited ones.
LEMMA VisitedMore ==
    ASSUME NEW s \in Seq(Nat), NEW b \in Nat, NEW z, z = Append(s, b)
    PROVE  /\ z \in Seq(Nat) /\ VisIn(z, b)
           /\ \A v : VisIn(s, v) => VisIn(z, v)
           /\ \A x \in DOMAIN z : z[x] = b \/ (x \in DOMAIN s /\ z[x] = s[x])
           /\ (\A x \in DOMAIN s : s[x] < b) /\ (\A x, y \in DOMAIN s : x < y => s[x] < s[y]) =>
                 /\ \A x, y \in DOMAIN z : x < y => z[x] < z[y]
                 /\ \A x \in DOMAIN z : z[x] <= b
<1>1. PICK m : m = Len(s)
  OBVIOUS
<1>2. /\ m \in Nat /\ DOMAIN s = 1 .. m /\ z \in Seq(Nat) /\ DOMAIN z = 1 .. m + 1
      /\ z[m + 1] = b /\ \A x \in 1 .. m : z[x] = s[x] /\ s[x] \in Nat
  BY <1>1, Appended
<1>3. \A x \in 1 .. m + 1 : x \in 1 .. m \/ x = m + 1
  BY <1>2
<1>4. m + 1 \in 1 .. m + 1 /\ \A x \in 1 .. m : x \in 1 .. m + 1
  BY <1>2
<1>5. VisIn(z, b) /\ \A v : VisIn(s, v) => VisIn(z, v)
  BY <1>2, <1>4 DEF VisIn
<1>6. \A x \in DOMAIN z : z[x] = b \/ (x \in DOMAIN s /\ z[x] = s[x])
  BY <1>2, <1>3
<1>7. ASSUME \A x \in DOMAIN s : s[x] < b, \A x, y \in DOMAIN s : x < y => s[x] < s[y]
      PROVE  /\ \A x, y \in DOMAIN z : x < y => z[x] < z[y]
             /\ \A x \in DOMAIN z : z[x] <= b
  <2>1. ASSUME NEW x \in 1 .. m + 1, NEW y \in 1 .. m + 1, x < y PROVE z[x] < z[y]
    <3>1. x \in 1 .. m
      BY <1>2, <2>1
    <3>2. y \in 1 .. m \/ y = m + 1
      BY <1>3
    <3> QED BY <1>2, <1>7, <2>1, <3>1, <3>2
  <2>2. ASSUME NEW x \in 1 .. m + 1 PROVE z[x] <= b
    BY <1>2, <1>3, <1>7
  <2> QED BY <1>2, <2>1, <2>2
<1> QED
  BY <1>2, <1>5, <1>6, <1>7

\* Without duplicates: the block of the key.
LEMMA VisitBlock ==
    ASSUME NEW lo \in Ghosts, NEW hi \in Ghosts, NEW ht \in Ghosts, NEW pos \in Ghosts,
           NEW own \in Ghosts, Frozen(lo, hi, ht, pos, own), NEW t, NEW leaf, NEW c \in Cursors,
           WalkInv(hi, own, t, leaf, c), NEW n, n = disk[leaf], c.pos <= n.size,
           NEW i, i = c.pos, NEW p, p = n.ptrs[i], p # c.ptr, hdr.duplicate = "N",
           NEW d \in Cursors, d.pos = i + 1, d.ptr = p, d.block = c.block,
           d.visited = Append(c.visited, p), d.only = c.only
    PROVE  WalkInv(hi, own, t, leaf, d)
<1>1. PICK b, s : b = Bound(hi, leaf, i + 1) /\ s = c.visited
  OBVIOUS
<1>2. leaf \in L /\ i \in 1 .. n.size /\ i + 1 \in 2 .. n.size + 1 /\ n.size \in Nat
  BY AtKeyFacts
<1>3. Upto(own, t, c, n.keys[i])
  BY AtKeyFacts
<1>4. p \in Nat
  BY <1>2, WalkFacts, SMTT(40)
<1>5. s \in Seq(Nat) /\ c.ptr \in Int
  BY <1>1 DEF Cursors
<1>6. \A v : Leads(own, p, v) <=> v = p
  BY DEF Leads
<1>7. VisIn(d.visited, p) /\ \A v : VisIn(s, v) => VisIn(d.visited, v)
  BY <1>1, <1>4, <1>5, VisitedMore
<1>8. Upto(own, t, d, b)
  <2>1. \A v : VisIn(c.visited, v) => VisIn(d.visited, v)
    BY <1>1, <1>7
  <2>2. \A v : Leads(own, n.ptrs[i], v) => VisIn(d.visited, v)
    BY <1>6, <1>7
  <2>3. Upto(own, t, d, Bound(hi, leaf, i + 1))
    BY <1>2, <1>3, <2>1, <2>2, BoundMoves
  <2> QED BY <1>1, <2>3
<1>9. d.block # NoBlock => VisIn(d.visited, d.block)
  BY <1>1, <1>7 DEF WalkInv
<1>10. ASSUME Clustered
       PROVE  InOrder(d) /\ \A j \in Keys : \A v : Has(own, j, v) /\ b <= j => Latest(d) <= v
  <2>1. Latest(c) = c.ptr /\ Latest(d) = p
    BY DEF Latest
  <2>2. c.ptr < p
    <3>1. Latest(c) <= p
      BY <1>6, <1>10, AtKeyFacts
    <3> QED BY <1>4, <1>5, <2>1, <3>1
  <2>3. InOrder(c)
    BY <1>10 DEF WalkInv
  <2>4. \A x \in DOMAIN s : s[x] < p
    <3>1. \A x \in DOMAIN s : s[x] \in Nat /\ s[x] <= c.ptr
      BY <1>1, <1>5, <2>1, <2>3 DEF InOrder
    <3> QED BY <1>4, <1>5, <2>2, <3>1
  <2>5. \A x, y \in DOMAIN s : x < y => s[x] < s[y]
    BY <1>1, <2>3 DEF InOrder
  <2>6. InOrder(d)
    BY <1>1, <1>4, <1>5, <2>1, <2>4, <2>5, VisitedMore, SMTT(40) DEF InOrder
  <2>7. \A j \in Keys : \A v : Has(own, j, v) /\ b <= j => p <= v
    BY <1>1, <1>2, <1>6, <1>10, LaterBlocks
  <2> QED BY <2>1, <2>6, <2>7
<1>11. d.pos \in 1 .. n.size + 1
  BY <1>2
<1>12. Only(hi, t, leaf, d)
  BY DEF WalkInv, Only
<1>13. t.op # "="
  BY DEF WalkInv
<1>14. \A v : Leads(own, d.ptr, v) => VisIn(d.visited, v)
  BY <1>6, <1>7
<1> QED
  BY <1>1, <1>2, <1>8, <1>9, <1>10, <1>11, <1>12, <1>13, <1>14 DEF WalkInv

\* With duplicates: the chain of the key begins.
LEMMA VisitChain ==
    ASSUME NEW lo \in Ghosts, NEW hi \in Ghosts, NEW ht \in Ghosts, NEW pos \in Ghosts,
           NEW own \in Ghosts, Frozen(lo, hi, ht, pos, own), NEW t, NEW leaf, NEW c \in Cursors,
           WalkInv(hi, own, t, leaf, c), NEW n, n = disk[leaf], c.pos <= n.size,
           NEW i, i = c.pos, NEW p, p = n.ptrs[i], hdr.duplicate = "Y",
           NEW d \in Cursors, d.pos = i + 1, d.ptr = p, d.bucket = p, d.slot = 1,
           d.block = c.block, d.visited = c.visited, d.only = c.only
    PROVE  BucketInv(hi, own, t, leaf, d)
<1>1. leaf \in L /\ i \in 1 .. n.size /\ i + 1 \in 2 .. n.size + 1 /\ n.size \in Nat
  BY AtKeyFacts
<1>2. Upto(own, t, c, n.keys[i])
  BY AtKeyFacts
<1>3. Filed(n.keys[i], p)
  BY <1>1, WalkFacts
<1>4. p \in B /\ own[p] = p /\ Len(disk[p].ptrs) \in Nat /\ 1 <= Len(disk[p].ptrs)
      /\ \A e \in B : own[e] \in Nat /\ own[e] <= e /\ e \in Nat
  <2>1. p \in B /\ own[p] = p
    BY <1>3, Owners DEF Frozen
  <2>2. \A e \in B : own[e] <= e /\ e \in Nat /\ Len(disk[e].ptrs) \in 1 .. BucketCap
    BY Owners DEF Frozen
  <2>3. \A e \in B : own[e] \in Nat
    BY <2>2 DEF Ghosts
  <2>4. PICK m : m = Len(disk[p].ptrs)
    OBVIOUS
  <2>5. m \in 1 .. BucketCap
    BY <2>1, <2>2, <2>4
  <2>6. m \in Nat /\ 1 <= m
    BY <2>5
  <2> QED BY <2>1, <2>2, <2>3, <2>4, <2>6
<1>5. \A e \in B : ~(own[e] = own[p] /\ e < p)
  BY <1>4
<1>6. ASSUME Clustered \/ t.op = "="
      PROVE  InOrder(d) /\ \A s \in 1 .. Len(disk[p].ptrs) :
                /\ d.block <= disk[p].ptrs[s]
                /\ t.op = "=" => d.block < disk[p].ptrs[s]
  <2>1. Clustered /\ t.op # "="
    BY <1>6 DEF WalkInv
  <2>2. Latest(c) = d.block /\ Latest(d) = d.block
    BY DEF Latest
  <2>3. InOrder(d)
    BY <2>1, <2>2 DEF WalkInv, InOrder
  <2>4. ASSUME NEW s \in 1 .. Len(disk[p].ptrs) PROVE d.block <= disk[p].ptrs[s]
    <3>1. Leads(own, p, disk[p].ptrs[s])
      BY <1>4 DEF Leads, In
    <3> QED BY <2>1, <2>2, <3>1, AtKeyFacts
  <2> QED BY <2>1, <2>3, <2>4
<1>7. Upto(own, t, d, n.keys[i])
  BY <1>2 DEF Upto
<1>8. Only(hi, t, leaf, d)
  BY DEF WalkInv, Only
<1>9. t.op # "=" /\ (d.block # NoBlock => VisIn(d.visited, d.block))
  BY DEF WalkInv
<1>10. d.pos - 1 = i
  BY <1>1
<1>11. d.slot \in 1 .. Len(disk[p].ptrs) + 1 /\ ~(d.slot > 1) /\ \A s \in 1 .. d.slot - 1 : FALSE
  <2>1. PICK m : m = Len(disk[p].ptrs)
    OBVIOUS
  <2>2. m \in Nat
    BY <1>4, <2>1
  <2>3. d.slot \in 1 .. m + 1 /\ ~(d.slot > 1)
    BY <2>2
  <2>4. \A s \in 1 .. d.slot - 1 : FALSE
    OBVIOUS
  <2> QED BY <2>1, <2>3, <2>4
<1> QED
  BY <1>1, <1>4, <1>5, <1>6, <1>7, <1>8, <1>9, <1>10, <1>11 DEF BucketInv

\* A pointer of a bucket.
LEMMA PointerVisited ==
    ASSUME NEW lo \in Ghosts, NEW hi \in Ghosts, NEW ht \in Ghosts, NEW pos \in Ghosts,
           NEW own \in Ghosts, Frozen(lo, hi, ht, pos, own), NEW t, NEW leaf, NEW c \in Cursors,
           BucketInv(hi, own, t, leaf, c), NEW q, q = disk[c.bucket].ptrs, c.slot <= Len(q),
           NEW b, b = q[c.slot],
           NEW d \in Cursors, d.pos = c.pos, d.ptr = c.ptr, d.bucket = c.bucket,
           d.slot = c.slot + 1, d.block = b, d.only = c.only,
           \/ t.op # "=" /\ b = c.block /\ d.visited = c.visited
           \/ ~(t.op # "=" /\ b = c.block) /\ d.visited = Append(c.visited, b)
    PROVE  BucketInv(hi, own, t, leaf, d)
<1>1. PICK s, m, u : s = c.visited /\ m = Len(q) /\ u = c.slot
  OBVIOUS
<1>2. c.bucket \in B /\ hdr.duplicate = "Y" /\ u \in 1 .. m + 1
  BY <1>1 DEF BucketInv
<1>3. q \in Seq(Nat) /\ m \in Nat
  <2>1. q \in Seq(Nat)
    BY <1>2, Owners DEF Frozen
  <2> QED BY <1>1, <2>1
<1>4. u \in 1 .. m /\ u + 1 \in 1 .. m + 1 /\ u + 1 > 1 /\ u + 1 - 1 = u
  BY <1>1, <1>2, <1>3
<1>5. \A j \in 1 .. m : q[j] \in Nat
  BY <1>1, <1>3
<1>6. s \in Seq(Nat) /\ c.block \in Int
  BY <1>1 DEF Cursors
<1>7. b \in Nat /\ b # NoBlock
  BY <1>1, <1>4, <1>5 DEF NoBlock
<1>8. VisIn(d.visited, b) /\ \A v : VisIn(s, v) => VisIn(d.visited, v)
  <2>1. CASE d.visited = s /\ b = c.block
    BY <1>1, <1>7, <2>1 DEF BucketInv
  <2>2. CASE d.visited = Append(s, b)
    BY <1>6, <1>7, <2>2, VisitedMore
  <2> QED BY <1>1, <2>1, <2>2
<1>9. \A j \in 1 .. u : VisIn(d.visited, q[j])
  <2>1. \A j \in 1 .. u - 1 : VisIn(s, q[j])
    BY <1>1 DEF BucketInv
  <2>2. \A j \in 1 .. u : j \in 1 .. u - 1 \/ j = u
    BY <1>4
  <2> QED BY <1>1, <1>8, <2>1, <2>2
<1>10. ASSUME Clustered \/ t.op = "="
       PROVE  /\ InOrder(d)
              /\ \A j \in u + 1 .. m : b < q[j]
  <2>1. InOrder(c) /\ \A j \in u .. m : c.block <= q[j] /\ (t.op = "=" => c.block < q[j])
    BY <1>1, <1>10 DEF BucketInv
  <2>2. c.block <= b /\ (t.op = "=" => c.block < b) /\ Latest(c) = c.block /\ Latest(d) = b
    <3>1. u \in u .. m
      BY <1>3, <1>4
    <3> QED BY <1>1, <1>2, <2>1, <3>1 DEF Latest
  <2>3. \A j \in u + 1 .. m : b < q[j]
    <3>1. \A h, j \in 1 .. m : h < j => q[h] < q[j]
      BY <1>1, <1>2 DEF Frozen, Ascends
    <3>2. \A j \in u + 1 .. m : j \in 1 .. m /\ u < j
      BY <1>3, <1>4
    <3> QED BY <1>1, <1>4, <3>1, <3>2
  <2>4. CASE b = c.block /\ d.visited = c.visited
    <3>1. InOrder(d)
      BY <2>1, <2>2, <2>4 DEF InOrder
    <3> QED BY <2>3, <3>1
  <2>5. CASE ~(t.op # "=" /\ b = c.block) /\ d.visited = Append(s, b)
    <3>1. c.block < b
      BY <1>6, <1>7, <2>2, <2>5
    <3>2. \A x \in DOMAIN s : s[x] \in Nat /\ s[x] <= c.block
      BY <1>1, <1>6, <2>1, <2>2 DEF InOrder
    <3>3. \A x \in DOMAIN s : s[x] < b
      BY <1>6, <1>7, <3>1, <3>2
    <3>4. \A x, y \in DOMAIN s : x < y => s[x] < s[y]
      BY <1>1, <2>1 DEF InOrder
    <3>5. PICK z : z = d.visited
      OBVIOUS
    <3>6. /\ \A x, y \in DOMAIN z : x < y => z[x] < z[y]
          /\ \A x \in DOMAIN z : z[x] <= b
      BY <1>6, <1>7, <2>5, <3>3, <3>4, <3>5, VisitedMore
    <3>7. InOrder(d)
      BY <2>2, <3>5, <3>6 DEF InOrder
    <3> QED BY <2>3, <3>7
  <2> QED BY <1>1, <2>4, <2>5
<1>11. \A j \in u + 1 .. m : (b <= q[j] /\ b < q[j]) \/ ~(Clustered \/ t.op = "=")
  <2>1. \A j \in u + 1 .. m : j \in 1 .. m
    BY <1>3, <1>4
  <2> QED BY <1>5, <1>7, <1>10, <2>1
<1>12. \A e \in B : own[e] = own[d.bucket] /\ e < d.bucket => \A v : In(e, v) => VisIn(d.visited, v)
  BY <1>1, <1>8 DEF BucketInv
<1>13. IF t.op = "=" THEN Filed(t.num, own[d.bucket])
       ELSE /\ leaf \in L /\ d.pos \in 2 .. disk[leaf].size + 1
            /\ d.ptr = own[d.bucket] /\ d.ptr = disk[leaf].ptrs[d.pos - 1]
            /\ Upto(own, t, d, disk[leaf].keys[d.pos - 1])
            /\ Only(hi, t, leaf, d)
  BY <1>1, <1>8 DEF BucketInv, Upto, Only
<1>14. d.slot \in 1 .. m + 1 /\ d.slot - 1 = u /\ d.slot = u + 1
  BY <1>1, <1>4
<1> QED
  BY <1>1, <1>2, <1>8, <1>9, <1>10, <1>11, <1>12, <1>13, <1>14 DEF BucketInv

\* The next bucket of the chain.
LEMMA BucketFollows ==
    ASSUME NEW lo \in Ghosts, NEW hi \in Ghosts, NEW ht \in Ghosts, NEW pos \in Ghosts,
           NEW own \in Ghosts, Frozen(lo, hi, ht, pos, own), NEW t, NEW leaf, NEW c \in Cursors,
           BucketInv(hi, own, t, leaf, c), NEW q, q = disk[c.bucket].ptrs, c.slot > Len(q),
           NEW y, y = disk[c.bucket].next, y # 0,
           NEW d \in Cursors, d.pos = c.pos, d.ptr = c.ptr, d.bucket = y, d.slot = 1,
           d.block = c.block, d.visited = c.visited, d.only = c.only
    PROVE  BucketInv(hi, own, t, leaf, d)
<1>1. PICK x, m, s, w : x = c.bucket /\ m = Len(q) /\ s = disk[y].ptrs /\ w = Len(s)
  OBVIOUS
<1>2. x \in B /\ hdr.duplicate = "Y" /\ c.slot \in 1 .. m + 1
  BY <1>1 DEF BucketInv
<1>3. /\ \A e \in B : e \in Nat /\ disk[e].ptrs \in Seq(Nat) /\ Len(disk[e].ptrs) \in 1 .. BucketCap
      /\ y \in B /\ own[y] = own[x] /\ y > x
  <2>1. \A e \in B : e \in Nat /\ disk[e].ptrs \in Seq(Nat) /\ Len(disk[e].ptrs) \in 1 .. BucketCap
    BY <1>2, Owners DEF Frozen
  <2>2. y \in B /\ y > x
    BY <1>1, <1>2 DEF Frozen, FileInv, BucketsOK
  <2>3. own[y] = own[x]
    BY <1>1, <1>2 DEF Frozen, ChainInv
  <2> QED BY <2>1, <2>2, <2>3
<1>4. m \in 1 .. BucketCap /\ w \in 1 .. BucketCap /\ q \in Seq(Nat) /\ s \in Seq(Nat)
  BY <1>1, <1>2, <1>3
<1>5. m \in Nat /\ 1 <= m /\ w \in Nat /\ 1 <= w /\ m \in 1 .. m
  BY <1>4
<1>6. c.slot = m + 1 /\ c.slot > 1 /\ c.slot - 1 = m
  BY <1>1, <1>2, <1>5
<1>7. c.block = q[m] /\ q[m] \in Nat
  BY <1>1, <1>4, <1>5, <1>6 DEF BucketInv
<1>8. \A j \in 1 .. m : VisIn(c.visited, q[j])
  BY <1>1, <1>6 DEF BucketInv
<1>9. ASSUME NEW e \in B, own[e] = own[y], e < y, NEW v, In(e, v) PROVE VisIn(c.visited, v)
  <2>1. CASE e < x
    BY <1>1, <1>3, <1>9, <2>1 DEF BucketInv
  <2>2. CASE e = x
    BY <1>1, <1>8, <1>9, <2>2 DEF In
  <2>3. CASE e > x
    <3>1. x < e /\ own[x] = own[e]
      BY <1>2, <1>3, <1>9, <2>3
    <3>2. y <= e
      BY <1>1, <1>2, <1>9, <3>1, ChainOrder DEF Frozen
    <3> QED BY <1>3, <1>9, <3>2
  <2>4. e \in Nat /\ x \in Nat
    BY <1>2, <1>3
  <2> QED BY <2>1, <2>2, <2>3, <2>4
<1>10. \A j \in 1 .. w : q[m] < s[j] /\ s[j] \in Nat
  <2>1. \A i \in 1 .. Len(disk[x].ptrs), j \in 1 .. Len(disk[disk[x].next].ptrs) :
           disk[x].ptrs[i] < disk[disk[x].next].ptrs[j]
    BY <1>1, <1>2 DEF Frozen, Ascends
  <2>2. \A j \in 1 .. w : q[m] < s[j]
    BY <1>1, <1>5, <2>1
  <2>3. \A j \in 1 .. w : s[j] \in Nat
    BY <1>1, <1>4, SMTT(40)
  <2> QED BY <2>2, <2>3
<1>11. Clustered \/ t.op = "=" => InOrder(d)
  BY DEF BucketInv, InOrder, Latest
<1>12. \A j \in 1 .. w : d.block <= s[j] /\ d.block < s[j]
  BY <1>7, <1>10
<1>13. IF t.op = "=" THEN Filed(t.num, own[y])
       ELSE /\ leaf \in L /\ d.pos \in 2 .. disk[leaf].size + 1
            /\ d.ptr = own[y] /\ d.ptr = disk[leaf].ptrs[d.pos - 1]
            /\ Upto(own, t, d, disk[leaf].keys[d.pos - 1])
            /\ Only(hi, t, leaf, d)
  BY <1>1, <1>3 DEF BucketInv, Upto, Only
<1>14. d.slot \in 1 .. w + 1 /\ ~(d.slot > 1)
  BY <1>5
<1>15. \A j \in 1 .. d.slot - 1 : FALSE
  OBVIOUS
<1>16. d.block # NoBlock => VisIn(d.visited, d.block)
  BY DEF BucketInv
<1> QED
  BY <1>1, <1>2, <1>3, <1>9, <1>11, <1>12, <1>13, <1>14, <1>15, <1>16 DEF BucketInv

\* At the end of a chain its blocks are visited.
LEMMA ChainVisited ==
    ASSUME NEW lo \in Ghosts, NEW hi \in Ghosts, NEW ht \in Ghosts, NEW pos \in Ghosts,
           NEW own \in Ghosts, Frozen(lo, hi, ht, pos, own), NEW t, NEW leaf, NEW c \in Cursors,
           BucketInv(hi, own, t, leaf, c), NEW q, q = disk[c.bucket].ptrs, c.slot > Len(q),
           disk[c.bucket].next = 0
    PROVE  /\ \A v : Leads(own, own[c.bucket], v) => VisIn(c.visited, v)
           /\ Leads(own, own[c.bucket], c.block)
<1>1. PICK x, m : x = c.bucket /\ m = Len(q)
  OBVIOUS
<1>2. x \in B /\ hdr.duplicate = "Y" /\ c.slot \in 1 .. m + 1
  BY <1>1 DEF BucketInv
<1>3. \A e \in B : e \in Nat /\ Len(disk[e].ptrs) \in 1 .. BucketCap
  BY <1>2, Owners DEF Frozen
<1>4. m \in 1 .. BucketCap
  BY <1>1, <1>2, <1>3
<1>5. m \in Nat /\ 1 <= m /\ m \in 1 .. m
  BY <1>4
<1>6. c.slot = m + 1 /\ c.slot > 1 /\ c.slot - 1 = m
  BY <1>1, <1>2, <1>5
<1>7. c.block = q[m]
  BY <1>1, <1>6 DEF BucketInv
<1>8. \A j \in 1 .. m : VisIn(c.visited, q[j])
  BY <1>1, <1>6 DEF BucketInv
<1>9. ASSUME NEW e \in B, own[e] = own[x], NEW v, In(e, v) PROVE VisIn(c.visited, v)
  <2>1. CASE e < x
    BY <1>1, <1>9, <2>1 DEF BucketInv
  <2>2. CASE e = x
    BY <1>1, <1>8, <1>9, <2>2 DEF In
  <2>3. CASE e > x
    <3>1. x < e /\ own[x] = own[e]
      BY <1>2, <1>3, <1>9, <2>3
    <3> QED BY <1>1, <1>2, <1>9, <3>1, ChainOrder DEF Frozen
  <2>4. e \in Nat /\ x \in Nat
    BY <1>2, <1>3
  <2> QED BY <2>1, <2>2, <2>3, <2>4
<1>10. In(x, c.block)
  BY <1>1, <1>5, <1>7 DEF In
<1> QED
  BY <1>1, <1>2, <1>9, <1>10 DEF Leads

\* The end of a query by equality.
LEMMA EqualDone ==
    ASSUME NEW lo \in Ghosts, NEW hi \in Ghosts, NEW ht \in Ghosts, NEW pos \in Ghosts,
           NEW own \in Ghosts, Frozen(lo, hi, ht, pos, own), NEW t, t.op = "=", NEW p,
           Filed(t.num, p), NEW vis, \A v : Leads(own, p, v) => VisIn(vis, v)
    PROVE  Done(own, t, vis)
<1>1. ASSUME NEW k \in Keys, NEW v, Has(own, k, v), Cmp(t, k) PROVE VisIn(vis, v)
  <2>1. k = t.num
    BY <1>1 DEF Cmp, Compares
  <2>2. Leads(own, p, v)
    BY <1>1, <2>1, KeyLeads
  <2> QED BY <2>2
<1> QED
  BY <1>1 DEF Done

\* Back from the chain of a key to its leaf.
LEMMA ChainWalked ==
    ASSUME NEW lo \in Ghosts, NEW hi \in Ghosts, NEW ht \in Ghosts, NEW pos \in Ghosts,
           NEW own \in Ghosts, Frozen(lo, hi, ht, pos, own), NEW t, NEW leaf, NEW c \in Cursors,
           BucketInv(hi, own, t, leaf, c), c.slot > Len(disk[c.bucket].ptrs),
           disk[c.bucket].next = 0, t.op # "="
    PROVE  WalkInv(hi, own, t, leaf, c)
<1>1. PICK n, i, p : n = disk[leaf] /\ i = c.pos - 1 /\ p = c.ptr
  OBVIOUS
<1>2. /\ leaf \in L /\ c.pos \in 2 .. n.size + 1 /\ p = own[c.bucket] /\ p = n.ptrs[i]
      /\ Upto(own, t, c, n.keys[i]) /\ Only(hi, t, leaf, c) /\ hdr.duplicate = "Y"
  BY <1>1 DEF BucketInv
<1>3. n.size \in Nat
  BY <1>1, <1>2, LeafView
<1>4. i \in 1 .. n.size /\ i + 1 = c.pos /\ c.pos \in 1 .. n.size + 1
  BY <1>1, <1>2, <1>3
<1>5. (\A v : Leads(own, p, v) => VisIn(c.visited, v)) /\ Leads(own, p, c.block)
  <2>1. PICK q : q = disk[c.bucket].ptrs
    OBVIOUS
  <2>2. c.slot > Len(q)
    BY <2>1
  <2>3. /\ \A v : Leads(own, own[c.bucket], v) => VisIn(c.visited, v)
        /\ Leads(own, own[c.bucket], c.block)
    BY <2>1, <2>2, ChainVisited
  <2> QED BY <1>2, <2>3
<1>6. Upto(own, t, c, Bound(hi, leaf, i + 1))
  BY <1>1, <1>2, <1>4, <1>5, BoundMoves
<1>7. ASSUME Clustered
      PROVE  /\ InOrder(c)
             /\ \A k \in Keys : \A v : Has(own, k, v) /\ Bound(hi, leaf, i + 1) <= k => Latest(c) <= v
  <2>1. Latest(c) = c.block
    BY <1>2 DEF Latest
  <2>2. InOrder(c)
    BY <1>7 DEF BucketInv
  <2>3. PICK w : w = c.block
    OBVIOUS
  <2>4. Leads(own, n.ptrs[i], w)
    BY <1>2, <1>5, <2>3
  <2>5. \A k \in Keys : \A v : Has(own, k, v) /\ Bound(hi, leaf, i + 1) <= k => w <= v
    BY <1>1, <1>2, <1>4, <1>7, <2>4, LaterBlocks
  <2> QED BY <2>1, <2>2, <2>3, <2>5
<1>8. c.block # NoBlock => VisIn(c.visited, c.block)
  BY DEF BucketInv
<1> QED
  BY <1>1, <1>2, <1>4, <1>5, <1>6, <1>7, <1>8 DEF WalkInv

-------------------------------------------------------------------------------
(* From leaf to leaf. *)

\* The leaf of an entry, and where it is.
LEMMA LeafOf ==
    ASSUME NEW lo \in Ghosts, NEW hi \in Ghosts, NEW ht \in Ghosts, NEW pos \in Ghosts,
           NEW own \in Ghosts, Frozen(lo, hi, ht, pos, own), NEW k, NEW p, Filed(k, p)
    PROVE  /\ k \in Nat /\ k < NilKey
           /\ \E b \in L : lo[b] <= k /\ k < hi[b] /\ \E i \in 1 .. disk[b].size : disk[b].keys[i] = k
<1>1. PICK b \in L : \E i \in 1 .. disk[b].size : disk[b].keys[i] = k /\ disk[b].ptrs[i] = p
  BY DEF Filed
<1>2. lo[b] <= k /\ k < hi[b]
  BY <1>1, LeafView
<1>3. k \in Nat /\ k < NilKey
  BY OneEntry DEF Frozen
<1> QED
  BY <1>1, <1>2, <1>3

LEMMA LeafOrder ==
    ASSUME NEW lo \in Ghosts, NEW hi \in Ghosts, NEW ht \in Ghosts, NEW pos \in Ghosts,
           NEW own \in Ghosts, Frozen(lo, hi, ht, pos, own), NEW a \in L, NEW b \in L,
           NEW k \in Nat, hi[a] <= k, lo[b] <= k, k < hi[b]
    PROVE  pos[a] < pos[b]
<1>1. /\ lo[a] \in Nat /\ hi[a] \in Nat /\ lo[b] \in Nat /\ hi[b] \in Nat
  BY LeafView
<1>2. a \in Nat /\ b \in Nat /\ a \in Nodes
  BY Kinds DEF Frozen, FileInv
<1>3. pos[a] \in Nat /\ pos[b] \in Nat
  BY <1>2 DEF Ghosts
<1>4. lo[a] < hi[a]
  BY <1>2, RangeNotEmpty DEF Frozen, Shape
<1>5. pos[a] # pos[b]
  <2>1. a # b
    BY <1>1
  <2> QED BY <2>1 DEF Frozen, Shape, Chained
<1>6. ~(pos[b] < pos[a])
  <2>1. pos[b] < pos[a] => hi[b] <= lo[a]
    BY RangesInOrder DEF Frozen
  <2> QED BY <1>1, <1>4, <2>1
<1> QED
  BY <1>3, <1>5, <1>6

\* The last leaf has the greatest keys.
LEMMA LastLeaf ==
    ASSUME NEW lo \in Ghosts, NEW hi \in Ghosts, NEW ht \in Ghosts, NEW pos \in Ghosts,
           NEW own \in Ghosts, Frozen(lo, hi, ht, pos, own), NEW leaf \in L,
           disk[leaf].next = 0, NEW k, NEW p, Filed(k, p)
    PROVE  k < hi[leaf]
<1>1. k \in Nat /\ hi[leaf] \in Nat
  BY LeafOf, LeafView
<1>2. SUFFICES ASSUME hi[leaf] <= k PROVE FALSE
  BY <1>1
<1>3. PICK b \in L : lo[b] <= k /\ k < hi[b]
  BY LeafOf
<1>4. pos[leaf] < pos[b]
  BY <1>1, <1>2, <1>3, LeafOrder
<1>5. PICK S : S = {pos[x] : x \in {y \in L : pos[leaf] < pos[y]}}
  OBVIOUS
<1>6. \A x \in L : x \in Nat /\ x # 0 /\ pos[x] \in Nat
  BY Kinds DEF Frozen, FileInv, Ghosts
<1>7. S \in SUBSET Nat /\ S # {}
  BY <1>3, <1>4, <1>5, <1>6
<1>8. PICK m \in S : \A y \in S : m <= y
  BY <1>7, LeastNat
<1>9. PICK x \in L : m = pos[x] /\ pos[leaf] < pos[x]
  BY <1>5, <1>8
<1>10. x # 1
  <2>1. pos[1] = 0
    BY DEF Frozen, Shape, Chained
  <2> QED BY <1>6, <1>9, <2>1
<1>11. PICK a \in L : disk[a].next = x
  BY <1>10 DEF Frozen, Shape, Chained
<1>12. pos[x] = pos[a] + 1
  BY <1>6, <1>11 DEF Frozen, Shape, Chained
<1>13. ~(pos[leaf] < pos[a])
  <2>1. pos[leaf] < pos[a] => pos[a] \in S
    BY <1>5
  <2> QED BY <1>6, <1>8, <1>9, <1>12, <2>1
<1>14. pos[a] = pos[leaf]
  BY <1>6, <1>9, <1>12, <1>13
<1>15. a = leaf
  BY <1>14 DEF Frozen, Shape, Chained
<1> QED
  BY <1>6, <1>11, <1>15

\* Block 1 has the smallest key.
LEMMA FirstLeaf ==
    ASSUME NEW lo \in Ghosts, NEW hi \in Ghosts, NEW ht \in Ghosts, NEW pos \in Ghosts,
           NEW own \in Ghosts, Frozen(lo, hi, ht, pos, own)
    PROVE  1 \in L /\ \A k, p : Filed(k, p) => disk[1].keys[1] <= k
<1>1. 1 \in L /\ pos[1] = 0
  BY DEF Frozen, Shape, Chained
<1>2. PICK n : n = disk[1]
  OBVIOUS
<1>3. /\ n.size \in Nat /\ 1 <= n.size /\ lo[1] \in Nat /\ hi[1] \in Nat
      /\ \A i \in 1 .. n.size : n.keys[i] \in Nat /\ lo[1] <= n.keys[i] /\ n.keys[i] < hi[1]
  BY <1>1, <1>2, LeafView
<1>4. \A i, j \in 1 .. n.size : i < j => n.keys[i] < n.keys[j]
  BY <1>1, <1>2, LeafView
<1>5. 1 \in 1 .. n.size
  BY <1>3
<1>6. ASSUME NEW k, NEW p, Filed(k, p) PROVE n.keys[1] <= k
  <2>1. PICK b \in L : lo[b] <= k /\ k < hi[b] /\ \E i \in 1 .. disk[b].size : disk[b].keys[i] = k
    BY <1>6, LeafOf
  <2>2. k \in Nat
    BY <1>6, LeafOf
  <2>3. CASE b = 1
    <3>1. PICK i \in 1 .. n.size : n.keys[i] = k
      BY <1>2, <2>1, <2>3
    <3>2. i = 1 \/ 1 < i
      BY <1>3
    <3> QED BY <1>3, <1>4, <1>5, <2>2, <3>1, <3>2
  <2>4. CASE b # 1
    <3>1. pos[b] # 0 /\ b \in Nat
      BY <1>1, <2>4, Kinds DEF Frozen, FileInv, Shape, Chained
    <3>2. pos[1] < pos[b]
      BY <1>1, <3>1 DEF Ghosts
    <3>3. hi[1] <= lo[b]
      BY <1>1, <3>2, RangesInOrder DEF Frozen
    <3>4. lo[b] \in Nat
      BY LeafView
    <3> QED BY <1>3, <1>5, <2>1, <2>2, <3>3, <3>4
  <2> QED BY <2>3, <2>4
<1> QED
  BY <1>1, <1>2, <1>6

\* The link of a leaf.
LEMMA LeafFollows ==
    ASSUME NEW lo \in Ghosts, NEW hi \in Ghosts, NEW ht \in Ghosts, NEW pos \in Ghosts,
           NEW own \in Ghosts, Frozen(lo, hi, ht, pos, own), NEW t, NEW leaf, NEW c \in Cursors,
           WalkInv(hi, own, t, leaf, c), c.pos > disk[leaf].size, ~c.only,
           NEW y, y = disk[leaf].next, y # 0,
           NEW d \in Cursors, d.pos = 1, d.ptr = c.ptr, d.block = c.block,
           d.visited = c.visited, d.only = c.only
    PROVE  WalkInv(hi, own, t, y, d)
<1>1. PICK n, m, b, e : n = disk[leaf] /\ m = disk[y] /\ b = Bound(hi, leaf, c.pos) /\ e = m.keys[1]
  OBVIOUS
<1>2. leaf \in L /\ y \in L /\ lo[y] = hi[leaf]
  BY DEF WalkInv, Frozen, Shape, Chained
<1>3. b = hi[leaf] /\ hi[leaf] \in Nat
  <2>1. n.size \in Nat /\ hi[leaf] \in Nat
    BY <1>1, <1>2, LeafView
  <2>2. ~(c.pos <= n.size)
    BY <1>1, <2>1 DEF Cursors
  <2> QED BY <1>1, <2>1, <2>2 DEF Bound
<1>4. /\ m.size \in Nat /\ 1 <= m.size /\ lo[y] \in Nat /\ hi[y] \in Nat
      /\ \A i \in 1 .. m.size : m.keys[i] \in Nat /\ lo[y] <= m.keys[i] /\ m.keys[i] < hi[y]
  BY <1>1, <1>2, LeafView
<1>5. \A i, j \in 1 .. m.size : i < j => m.keys[i] < m.keys[j]
  BY <1>1, <1>2, LeafView
<1>6. 1 \in 1 .. m.size /\ e \in Nat /\ b <= e /\ e < hi[y] /\ Bound(hi, y, 1) = e
  <2>1. 1 \in 1 .. m.size
    BY <1>4
  <2> QED BY <1>1, <1>2, <1>3, <1>4, <2>1 DEF Bound
<1>7. ASSUME NEW k \in Keys, NEW v, Has(own, k, v), k < e, Cmp(t, k) PROVE VisIn(d.visited, v)
  <2>1. k \in Nat /\ \E p : Filed(k, p)
    BY <1>7, KeyThere
  <2>2. PICK p : Filed(k, p)
    BY <2>1
  <2>3. CASE k < b
    BY <1>1, <1>7, <2>3 DEF WalkInv, Upto
  <2>4. CASE ~(k < b)
    <3>1. lo[y] <= k /\ k < hi[y]
      <4>1. k < e /\ e < hi[y] /\ hi[y] \in Nat /\ e \in Nat /\ b = lo[y] /\ b \in Nat
        BY <1>2, <1>3, <1>4, <1>6, <1>7
      <4> QED BY <2>1, <2>4, <4>1
    <3>2. PICK i \in 1 .. m.size : m.keys[i] = k
      BY <1>1, <1>2, <2>2, <3>1, KeyAt
    <3>3. i = 1 \/ 1 < i
      BY <1>4
    <3>4. e <= k
      BY <1>1, <1>4, <1>5, <1>6, <3>2, <3>3
    <3> QED BY <1>6, <1>7, <2>1, <3>4
  <2> QED BY <2>3, <2>4
<1>8. Upto(own, t, d, e)
  BY <1>7 DEF Upto
<1>9. Latest(d) = Latest(c) /\ (InOrder(c) => InOrder(d))
  BY DEF Latest, InOrder
<1>10. ASSUME Clustered, NEW k \in Keys, NEW v, Has(own, k, v), e <= k PROVE Latest(d) <= v
  <2>1. k \in Nat
    BY <1>10, KeyThere
  <2>2. b <= k
    BY <1>3, <1>6, <1>10, <2>1
  <2> QED BY <1>1, <1>9, <1>10, <2>2 DEF WalkInv
<1>11. d.pos \in 1 .. m.size + 1
  BY <1>4
<1>12. Only(hi, t, y, d)
  BY DEF Only
<1> QED
  BY <1>1, <1>2, <1>6, <1>8, <1>9, <1>10, <1>11, <1>12 DEF WalkInv

\* What a condition says of a number.
LEMMA Comparing ==
    ASSUME NEW t, NEW m, m = t.num, m \in Nat, NEW x \in Nat
    PROVE  /\ t.op = "="  => (Cmp(t, x) <=> x = m)
           /\ t.op = ">"  => (Cmp(t, x) <=> m < x)
           /\ t.op = ">=" => (Cmp(t, x) <=> m <= x)
           /\ t.op = "<"  => (Cmp(t, x) <=> x < m)
           /\ t.op = "<=" => (Cmp(t, x) <=> x <= m)
  BY DEF Cmp, Compares

\* < and <= end at the first key that does not compare.
LEMMA PastDone ==
    ASSUME NEW lo \in Ghosts, NEW hi \in Ghosts, NEW ht \in Ghosts, NEW pos \in Ghosts,
           NEW own \in Ghosts, Frozen(lo, hi, ht, pos, own), NEW t, t.num \in Nat, NEW leaf, NEW c,
           WalkInv(hi, own, t, leaf, c), NEW n, n = disk[leaf], c.pos <= n.size,
           t.op \in {"<", "<="}, NEW k, k = n.keys[c.pos], ~Cmp(t, k)
    PROVE  Done(own, t, c.visited)
<1>1. leaf \in L /\ c.pos \in 1 .. n.size /\ Upto(own, t, c, k)
  BY AtKeyFacts
<1>2. k \in Nat
  BY <1>1, WalkFacts
<1>3. ASSUME NEW j \in Keys, NEW v, Has(own, j, v), Cmp(t, j) PROVE VisIn(c.visited, v)
  <2>1. j \in Nat
    BY <1>3, KeyThere
  <2>2. j < k
    <3>1. PICK m : m = t.num
      OBVIOUS
    <3>2. m \in Nat
      BY <3>1
    <3>3. /\ t.op = "<"  => j < m /\ ~(k < m)
          /\ t.op = "<=" => j <= m /\ ~(k <= m)
      BY <1>2, <1>3, <2>1, <3>1, <3>2, Comparing
    <3> QED BY <1>2, <2>1, <3>2, <3>3
  <2> QED BY <1>1, <1>3, <2>2 DEF Upto
<1> QED
  BY <1>3 DEF Done

\* So do all at the end of the last leaf, and < and <= at the end of the leaf of the
\* number when that is block 1.
LEMMA LeavesDone ==
    ASSUME NEW lo \in Ghosts, NEW hi \in Ghosts, NEW ht \in Ghosts, NEW pos \in Ghosts,
           NEW own \in Ghosts, Frozen(lo, hi, ht, pos, own), NEW t, NEW leaf, NEW c \in Cursors,
           WalkInv(hi, own, t, leaf, c), c.pos > disk[leaf].size, c.only \/ disk[leaf].next = 0
    PROVE  Done(own, t, c.visited)
<1>1. PICK n, b : n = disk[leaf] /\ b = Bound(hi, leaf, c.pos)
  OBVIOUS
<1>2. leaf \in L /\ Upto(own, t, c, b)
  BY <1>1 DEF WalkInv
<1>3. b = hi[leaf] /\ hi[leaf] \in Nat
  <2>1. n.size \in Nat /\ hi[leaf] \in Nat
    BY <1>1, <1>2, LeafView
  <2>2. ~(c.pos <= n.size)
    BY <1>1, <2>1 DEF Cursors
  <2> QED BY <1>1, <2>1, <2>2 DEF Bound
<1>4. ASSUME NEW k \in Keys, NEW v, Has(own, k, v), Cmp(t, k) PROVE VisIn(c.visited, v)
  <2>1. PICK p : Filed(k, p)
    BY <1>4, KeyThere
  <2>2. k \in Nat
    BY <2>1, LeafOf
  <2>3. k < b
    <3>1. CASE c.only
      <4>1. leaf = 1 /\ (hi[1] <= k => ~Cmp(t, k))
        BY <2>1, <3>1 DEF WalkInv, Only
      <4> QED BY <1>3, <1>4, <2>2, <4>1
    <3>2. CASE disk[leaf].next = 0
      BY <1>2, <1>3, <2>1, <3>2, LastLeaf
    <3> QED BY <3>1, <3>2
  <2> QED BY <1>2, <1>4, <2>3 DEF Upto
<1> QED
  BY <1>4 DEF Done

\* > and >= begin at the first key of the leaf that compares.
LEMMA UpBegins ==
    ASSUME NEW lo \in Ghosts, NEW hi \in Ghosts, NEW ht \in Ghosts, NEW pos \in Ghosts,
           NEW own \in Ghosts, Frozen(lo, hi, ht, pos, own), NEW t, t.num \in Nat,
           t.op \in {">", ">="}, NEW leaf \in L, lo[leaf] <= t.num, NEW n, n = disk[leaf],
           NEW S, S = {x \in 1 .. n.size : Cmp(t, n.keys[x])} \cup {n.size + 1}, NEW i, i = Min(S),
           NEW d \in Cursors, d.pos = i, d.only = FALSE, d.ptr = NoBlock, d.block = NoBlock,
           d.visited = <<>>
    PROVE  WalkInv(hi, own, t, leaf, d)
<1>1. /\ n.size \in Nat /\ lo[leaf] \in Nat /\ hi[leaf] \in Nat
      /\ \A x \in 1 .. n.size : n.keys[x] \in Nat /\ lo[leaf] <= n.keys[x] /\ n.keys[x] < hi[leaf]
  BY LeafView
<1>2. S = {x \in 1 .. n.size : Cmp(t, n.keys[x])} \cup {n.size + 1}
  OBVIOUS
<1>3. S \in SUBSET Nat /\ S # {} /\ i = Min(S)
  BY <1>1, <1>2
<1>4. i \in S /\ \A x \in S : i <= x
  <2>1. Min(S) \in S /\ \A x \in S : Min(S) <= x
    BY ONLY <1>3, MinFacts
  <2> QED BY <1>3, <2>1
<1>5. i \in 1 .. n.size + 1
  BY <1>1, <1>2, <1>4
<1>6. ASSUME NEW k \in Keys, NEW v, Has(own, k, v), k < Bound(hi, leaf, i), Cmp(t, k) PROVE FALSE
  <2>1. PICK p : Filed(k, p)
    BY <1>6, KeyThere
  <2>2. k \in Nat
    BY <2>1, LeafOf
  <2>3. t.num <= k
    <3>1. PICK m : m = t.num
      OBVIOUS
    <3>2. m \in Nat
      BY <3>1
    <3>3. m < k \/ m <= k
      BY <1>6, <2>2, <3>1, <3>2, Comparing
    <3> QED BY <2>2, <3>1, <3>2, <3>3
  <2>4. Bound(hi, leaf, i) <= hi[leaf] /\ Bound(hi, leaf, i) \in Nat
    <3>1. CASE i <= n.size
      <4>1. i \in 1 .. n.size /\ Bound(hi, leaf, i) = n.keys[i]
        BY <1>5, <3>1 DEF Bound
      <4>2. n.keys[i] \in Nat /\ n.keys[i] < hi[leaf]
        BY <1>1, <4>1
      <4> QED BY ONLY <1>1, <4>1, <4>2
    <3>2. CASE ~(i <= n.size)
      BY <1>1, <3>2 DEF Bound
    <3> QED BY <3>1, <3>2
  <2>5. lo[leaf] <= k /\ k < hi[leaf]
    BY <1>1, <1>6, <2>2, <2>3, <2>4
  <2>6. PICK x \in 1 .. n.size : n.keys[x] = k
    BY <2>1, <2>5, KeyAt
  <2>7. i <= x
    BY <1>2, <1>4, <1>6, <2>6
  <2>8. i \in 1 .. n.size /\ (i = x \/ i < x)
    BY <1>1, <1>5, <2>7
  <2>9. n.keys[i] \in Nat /\ n.keys[x] \in Nat
    BY <1>1, <2>8
  <2>10. n.keys[i] <= n.keys[x]
    <3>1. \A h, j \in 1 .. n.size : h < j => n.keys[h] < n.keys[j]
      BY LeafView
    <3>2. i < x => n.keys[i] < n.keys[x]
      BY ONLY <2>8, <3>1, x \in 1 .. n.size
    <3> QED BY ONLY <2>8, <2>9, <3>2
  <2>11. Bound(hi, leaf, i) = n.keys[i]
    BY <2>8 DEF Bound
  <2> QED BY <1>6, <2>2, <2>6, <2>9, <2>10, <2>11
<1>7. Upto(own, t, d, Bound(hi, leaf, i))
  BY <1>6 DEF Upto
<1>8. Latest(d) = NoBlock
  BY DEF Latest
<1>9. InOrder(d)
  BY DEF InOrder
<1>10. ASSUME NEW k \in Keys, NEW v, Has(own, k, v) PROVE Latest(d) <= v
  BY <1>8, <1>10, HasRow DEF NoBlock
<1>11. Only(hi, t, leaf, d)
  BY DEF Only
<1>12. t.op # "="
  OBVIOUS
<1> QED
  BY <1>5, <1>7, <1>9, <1>10, <1>11, <1>12 DEF WalkInv

\* < and <= begin at the first key of block 1.
LEMMA FirstBegins ==
    ASSUME NEW lo \in Ghosts, NEW hi \in Ghosts, NEW ht \in Ghosts, NEW pos \in Ghosts,
           NEW own \in Ghosts, Frozen(lo, hi, ht, pos, own), NEW t, t.num \in Nat,
           t.op \in {"<", "<="}, NEW d \in Cursors, d.pos = 1, d.ptr = NoBlock, d.block = NoBlock,
           d.visited = <<>>, d.only => t.num < hi[1] \/ hi[1] = NilKey
    PROVE  WalkInv(hi, own, t, 1, d)
<1>1. 1 \in L /\ \A k, p : Filed(k, p) => disk[1].keys[1] <= k
  BY FirstLeaf
<1>2. PICK n : n = disk[1]
  OBVIOUS
<1>3. n.size \in Nat /\ 1 <= n.size /\ hi[1] \in Nat
  BY <1>1, <1>2, LeafView
<1>4. 1 \in 1 .. n.size /\ d.pos \in 1 .. n.size + 1
  BY <1>3
<1>5. Bound(hi, 1, 1) = n.keys[1] /\ n.keys[1] \in Nat
  BY <1>1, <1>2, <1>4, WalkFacts
<1>6. ASSUME NEW k \in Keys, NEW v, Has(own, k, v), k < Bound(hi, 1, 1) PROVE FALSE
  <2>1. PICK p : Filed(k, p)
    BY <1>6, KeyThere
  <2>2. k \in Nat
    BY <2>1, LeafOf
  <2> QED BY <1>1, <1>2, <1>5, <1>6, <2>1, <2>2
<1>7. Upto(own, t, d, Bound(hi, 1, 1))
  BY <1>6 DEF Upto
<1>8. InOrder(d) /\ Latest(d) = NoBlock
  BY DEF InOrder, Latest
<1>9. ASSUME NEW k \in Keys, NEW v, Has(own, k, v) PROVE Latest(d) <= v
  BY <1>8, <1>9, HasRow DEF NoBlock
<1>10. ASSUME d.only, NEW k \in Keys, NEW p, Filed(k, p), hi[1] <= k PROVE ~Cmp(t, k)
  <2>1. k \in Nat /\ k < NilKey
    BY <1>10, LeafOf
  <2>2. NilKey \in Nat
    BY TreeAssumption
  <2>3. t.num < k
    BY <1>3, <1>10, <2>1, <2>2
  <2>4. PICK m : m = t.num
    OBVIOUS
  <2>5. m \in Nat /\ m < k
    BY <2>3, <2>4
  <2> QED BY <2>1, <2>4, <2>5, Comparing
<1>11. Only(hi, t, 1, d)
  BY <1>10 DEF Only
<1>12. t.op # "="
  OBVIOUS
<1> QED
  BY <1>1, <1>2, <1>4, <1>7, <1>8, <1>9, <1>11, <1>12 DEF WalkInv

-------------------------------------------------------------------------------
(* The steps of a SELECT. *)

\* The cursor and its condition.
LEMMA ConditionFacts ==
    ASSUME NEW c \in Cursors, NEW t, t = Chosen(c.conds)
    PROVE  /\ t.op \in {"=", ">", ">=", "<", "<="} /\ t.num \in Nat /\ t.num <= NilKey
           /\ c.visited \in Seq(Nat) /\ c.pos \in Nat /\ c.slot \in Nat /\ c.only \in BOOLEAN
<1>1. PICK conds : conds = c.conds
  OBVIOUS
<1>2. conds \in Clauses /\ ByIndex(conds)
  BY <1>1 DEF Cursors
<1>3. t.op \in {"=", ">", ">=", "<", "<="} /\ t.num \in Nat /\ t.num <= NilKey
  BY <1>1, <1>2, ChosenPasses
<1> QED
  BY <1>3 DEF Cursors

\* A walk ends after the keys that compare.
LEMMA WalkEnds ==
    ASSUME NEW lo \in Ghosts, NEW hi \in Ghosts, NEW ht \in Ghosts, NEW pos \in Ghosts,
           NEW own \in Ghosts, Frozen(lo, hi, ht, pos, own), pending = <<>>,
           NEW c \in Cursors, c = cur, NEW t, t = Chosen(c.conds), NEW leaf,
           WalkInv(hi, own, t, leaf, c), Done(own, t, c.visited), Finish(cur.visited)
    PROVE  Ended
<1>1. PICK vis : vis = c.visited
  OBVIOUS
<1>2. Finish(vis)
  BY <1>1
<1>3. t.op = "=" \/ Clustered => Distinct(vis)
  <2>1. t.op # "=" /\ (Clustered => InOrder(c))
    BY DEF WalkInv
  <2>2. c.visited \in Seq(Nat)
    BY DEF Cursors
  <2>3. Clustered => Distinct(c.visited)
    BY <2>1, <2>2, OrderIsDistinct
  <2> QED BY <1>1, <2>1, <2>3
<1>4. Done(own, t, vis)
  BY <1>1
<1> QED
  BY <1>2, <1>3, <1>4, Ends

LEMMA EndWalkStep ==
    ASSUME NEW lo \in Ghosts, NEW hi \in Ghosts, NEW ht \in Ghosts, NEW pos \in Ghosts,
           NEW own \in Ghosts, Frozen(lo, hi, ht, pos, own), pending = <<>>,
           NEW c \in Cursors, c = cur, NEW t, t = Chosen(c.conds), NEW leaf, leaf = at,
           Runs(lo, hi, own, t, leaf, c), EndWalk
    PROVE  Ended
<1>1. WalkInv(hi, own, t, leaf, c)
  BY DEF EndWalk, AtKey, Walking, Runs
<1>2. PICK n, k : n = disk[leaf] /\ k = n.keys[c.pos]
  OBVIOUS
<1>3. c.pos <= n.size /\ t.op \in {"<", "<="} /\ ~Cmp(t, k) /\ Finish(cur.visited)
  BY <1>2 DEF EndWalk, AtKey, Past, Op, Num, Cmp
<1>4. t.num \in Nat
  BY ConditionFacts
<1>5. Done(own, t, c.visited)
  BY <1>1, <1>2, <1>3, <1>4, PastDone
<1> QED
  BY <1>1, <1>3, <1>5, WalkEnds

LEMMA NextLeafStep ==
    ASSUME NEW lo \in Ghosts, NEW hi \in Ghosts, NEW ht \in Ghosts, NEW pos \in Ghosts,
           NEW own \in Ghosts, Frozen(lo, hi, ht, pos, own), pending = <<>>,
           NEW c \in Cursors, c = cur, NEW t, t = Chosen(c.conds), NEW leaf, leaf = at,
           Runs(lo, hi, own, t, leaf, c), NextLeaf
    PROVE  Ended \/ Goes
<1>1. WalkInv(hi, own, t, leaf, c) /\ c.pos > disk[leaf].size
  BY DEF NextLeaf, Walking, Runs
<1>2. PICK y, d : y = LeafAfter(leaf) /\ d = [c EXCEPT !.pos = 1]
  OBVIOUS
<1>3. CASE y = 0 /\ Finish(cur.visited)
  <2>1. c.only \/ disk[leaf].next = 0
    BY <1>2, <1>3 DEF LeafAfter
  <2>2. Done(own, t, c.visited)
    BY <1>1, <2>1, LeavesDone
  <2> QED BY <1>1, <1>3, <2>2, WalkEnds
<1>4. CASE y # 0 /\ Go("walk", y, d)
  <2>1. ~c.only /\ y = disk[leaf].next
    BY <1>2, <1>4 DEF LeafAfter
  <2>2. /\ d \in Cursors /\ d.conds = c.conds /\ d.pos = 1 /\ d.ptr = c.ptr /\ d.block = c.block
        /\ d.visited = c.visited /\ d.only = c.only
    BY <1>2 DEF Cursors
  <2>3. WalkInv(hi, own, t, y, d)
    BY <1>1, <1>4, <2>1, <2>2, LeafFollows
  <2>4. t = Chosen(d.conds)
    BY <2>2
  <2> QED BY <1>4, <2>2, <2>3, <2>4, Onward
<1> QED
  BY <1>2, <1>3, <1>4 DEF NextLeaf

LEMMA VisitEntryStep ==
    ASSUME NEW lo \in Ghosts, NEW hi \in Ghosts, NEW ht \in Ghosts, NEW pos \in Ghosts,
           NEW own \in Ghosts, Frozen(lo, hi, ht, pos, own), pending = <<>>,
           NEW c \in Cursors, c = cur, NEW t, t = Chosen(c.conds), NEW leaf, leaf = at,
           Runs(lo, hi, own, t, leaf, c), VisitEntry
    PROVE  Goes
<1>1. WalkInv(hi, own, t, leaf, c)
  BY DEF VisitEntry, AtKey, Walking, Runs
<1>2. PICK n, i, p, s : n = disk[leaf] /\ i = c.pos /\ p = n.ptrs[i] /\ s = c.visited
  OBVIOUS
<1>3. c.pos <= n.size
  BY <1>2 DEF VisitEntry, AtKey
<1>4. p \in Nat /\ i \in Nat /\ s \in Seq(Nat)
  <2>1. leaf \in L /\ i \in 1 .. n.size
    BY <1>1, <1>2, <1>3, AtKeyFacts
  <2> QED BY <1>2, <2>1, WalkFacts, ConditionFacts
<1>5. PICK e : e = [c EXCEPT !.pos = i + 1, !.ptr = p]
  OBVIOUS
<1>6. /\ e \in Cursors /\ e.conds = c.conds /\ e.pos = i + 1 /\ e.ptr = p /\ e.block = c.block
      /\ e.visited = s /\ e.only = c.only
  <2>1. PICK j : j = i + 1
    OBVIOUS
  <2>2. j \in Nat /\ p \in Int
    BY <1>4, <2>1
  <2>3. /\ e \in Cursors /\ e.conds = c.conds /\ e.pos = j /\ e.ptr = p /\ e.block = c.block
        /\ e.visited = c.visited /\ e.only = c.only
    BY ONLY <1>5, <2>1, <2>2, c \in Cursors DEF Cursors
  <2> QED BY <1>2, <2>1, <2>3
<1>7. PICK f, g : f = [e EXCEPT !.visited = Append(s, p)] /\ g = [e EXCEPT !.bucket = p, !.slot = 1]
  OBVIOUS
<1>8. \/ p = c.ptr /\ Go("walk", leaf, e)
      \/ p # c.ptr /\ hdr.duplicate = "N" /\ Go("walk", leaf, f)
      \/ p # c.ptr /\ hdr.duplicate = "Y" /\ Go("bucket", leaf, g)
  BY <1>2, <1>5, <1>6, <1>7 DEF VisitEntry
<1>9. CASE p = c.ptr /\ Go("walk", leaf, e)
  <2>1. WalkInv(hi, own, t, leaf, e)
    BY <1>1, <1>2, <1>3, <1>6, <1>9, VisitSame
  <2> QED BY <1>6, <1>9, <2>1, Onward
<1>10. CASE p # c.ptr /\ hdr.duplicate = "N" /\ Go("walk", leaf, f)
  <2>1. Append(s, p) \in Seq(Nat)
    BY <1>4
  <2>2. /\ f \in Cursors /\ f.conds = c.conds /\ f.pos = i + 1 /\ f.ptr = p /\ f.block = c.block
        /\ f.visited = Append(c.visited, p) /\ f.only = c.only
    BY <1>2, <1>6, <1>7, <2>1 DEF Cursors
  <2>3. WalkInv(hi, own, t, leaf, f)
    BY <1>1, <1>2, <1>3, <1>10, <2>2, VisitBlock
  <2> QED BY <1>10, <2>2, <2>3, Onward
<1>11. CASE p # c.ptr /\ hdr.duplicate = "Y" /\ Go("bucket", leaf, g)
  <2>1. /\ g \in Cursors /\ g.conds = c.conds /\ g.pos = i + 1 /\ g.ptr = p /\ g.block = c.block
        /\ g.visited = c.visited /\ g.only = c.only /\ g.bucket = p /\ g.slot = 1
    BY <1>2, <1>4, <1>6, <1>7 DEF Cursors
  <2>2. BucketInv(hi, own, t, leaf, g)
    BY <1>1, <1>2, <1>3, <1>11, <2>1, VisitChain
  <2> QED BY <1>11, <2>1, <2>2, Onward
<1> QED
  BY <1>8, <1>9, <1>10, <1>11

LEMMA VisitPointerStep ==
    ASSUME NEW lo \in Ghosts, NEW hi \in Ghosts, NEW ht \in Ghosts, NEW pos \in Ghosts,
           NEW own \in Ghosts, Frozen(lo, hi, ht, pos, own), pending = <<>>,
           NEW c \in Cursors, c = cur, NEW t, t = Chosen(c.conds), NEW leaf, leaf = at,
           Runs(lo, hi, own, t, leaf, c), VisitPointer
    PROVE  Goes
<1>1. BucketInv(hi, own, t, leaf, c)
  BY DEF VisitPointer, Runs
<1>2. PICK q, u, b, s : q = disk[c.bucket].ptrs /\ u = c.slot /\ b = q[u] /\ s = c.visited
  OBVIOUS
<1>3. u <= Len(q)
  BY <1>2 DEF VisitPointer
<1>4. b \in Nat /\ u \in Nat /\ s \in Seq(Nat)
  <2>1. u \in Nat /\ s \in Seq(Nat)
    BY <1>2, ConditionFacts
  <2>2. c.bucket \in B /\ hdr.duplicate = "Y" /\ u \in 1 .. Len(q) + 1
    BY <1>1, <1>2 DEF BucketInv
  <2>3. q \in Seq(Nat)
    BY <1>2, <2>2, Owners DEF Frozen
  <2>4. u \in 1 .. Len(q)
    BY <1>3, <2>2, <2>3
  <2> QED BY <1>2, <2>1, <2>3, <2>4
<1>5. PICK z : z = IF t.op # "=" /\ b = c.block THEN s ELSE Append(s, b)
  OBVIOUS
<1>6. PICK d : d = [c EXCEPT !.slot = u + 1, !.block = b, !.visited = z]
  OBVIOUS
<1>7. Go("bucket", leaf, d)
  BY <1>2, <1>5, <1>6 DEF VisitPointer, Repeats, Op
<1>8. z \in Seq(Nat)
  BY <1>4, <1>5
<1>9. /\ d \in Cursors /\ d.conds = c.conds /\ d.pos = c.pos /\ d.ptr = c.ptr /\ d.bucket = c.bucket
      /\ d.slot = c.slot + 1 /\ d.block = b /\ d.only = c.only /\ d.visited = z
  <2>1. PICK j : j = u + 1
    OBVIOUS
  <2>2. j \in Nat /\ b \in Int
    BY <1>4, <2>1
  <2>3. /\ d \in Cursors /\ d.conds = c.conds /\ d.pos = c.pos /\ d.ptr = c.ptr
        /\ d.bucket = c.bucket /\ d.slot = j /\ d.block = b /\ d.only = c.only /\ d.visited = z
    BY ONLY <1>6, <1>8, <2>1, <2>2, c \in Cursors DEF Cursors
  <2> QED BY <1>2, <2>1, <2>3
<1>10. \/ t.op # "=" /\ b = c.block /\ d.visited = c.visited
       \/ ~(t.op # "=" /\ b = c.block) /\ d.visited = Append(c.visited, b)
  BY <1>2, <1>5, <1>9
<1>11. BucketInv(hi, own, t, leaf, d)
  BY <1>1, <1>2, <1>3, <1>9, <1>10, PointerVisited
<1> QED
  BY <1>7, <1>9, <1>11, Onward

LEMMA NextBucketStep ==
    ASSUME NEW lo \in Ghosts, NEW hi \in Ghosts, NEW ht \in Ghosts, NEW pos \in Ghosts,
           NEW own \in Ghosts, Frozen(lo, hi, ht, pos, own), pending = <<>>,
           NEW c \in Cursors, c = cur, NEW t, t = Chosen(c.conds), NEW leaf, leaf = at,
           Runs(lo, hi, own, t, leaf, c), NextBucket
    PROVE  Ended \/ Goes
<1>1. BucketInv(hi, own, t, leaf, c)
  BY DEF NextBucket, Runs
<1>2. PICK q, y, d : q = disk[c.bucket].ptrs /\ y = disk[c.bucket].next
                     /\ d = [c EXCEPT !.bucket = y, !.slot = 1]
  OBVIOUS
<1>3. c.slot > Len(q)
  BY <1>2 DEF NextBucket
<1>4. \/ y # 0 /\ Go("bucket", leaf, d)
      \/ y = 0 /\ t.op = "=" /\ Finish(cur.visited)
      \/ y = 0 /\ t.op # "=" /\ Go("walk", leaf, c)
  BY <1>2 DEF NextBucket, Op
<1>5. CASE y # 0 /\ Go("bucket", leaf, d)
  <2>1. y \in Nat
    BY <1>1, <1>2, Kinds DEF BucketInv, Frozen, FileInv, Buckets
  <2>2. /\ d \in Cursors /\ d.conds = c.conds /\ d.pos = c.pos /\ d.ptr = c.ptr /\ d.bucket = y
        /\ d.slot = 1 /\ d.block = c.block /\ d.visited = c.visited /\ d.only = c.only
    BY <1>2, <2>1 DEF Cursors
  <2>3. BucketInv(hi, own, t, leaf, d)
    BY <1>1, <1>2, <1>3, <1>5, <2>2, BucketFollows
  <2> QED BY <1>5, <2>2, <2>3, Onward
<1>6. CASE y = 0 /\ t.op = "=" /\ Finish(cur.visited)
  <2>1. PICK p, vis : p = own[c.bucket] /\ vis = c.visited
    OBVIOUS
  <2>2. Filed(t.num, p) /\ InOrder(c)
    BY <1>1, <1>6, <2>1 DEF BucketInv
  <2>3. \A v : Leads(own, p, v) => VisIn(vis, v)
    <3>1. \A v : Leads(own, own[c.bucket], v) => VisIn(c.visited, v)
      BY <1>1, <1>2, <1>3, <1>6, ChainVisited
    <3> QED BY <2>1, <3>1
  <2>4. Done(own, t, vis)
    BY <1>6, <2>2, <2>3, EqualDone
  <2>5. Distinct(vis)
    BY <2>1, <2>2, OrderIsDistinct, ConditionFacts
  <2>6. Finish(vis)
    BY <1>6, <2>1
  <2> QED BY <2>4, <2>5, <2>6, Ends
<1>7. CASE y = 0 /\ t.op # "=" /\ Go("walk", leaf, c)
  <2>1. WalkInv(hi, own, t, leaf, c)
    BY <1>1, <1>2, <1>3, <1>7, ChainWalked
  <2> QED BY <1>7, <2>1, Onward
<1> QED
  BY <1>4, <1>5, <1>6, <1>7

\* find has reached a leaf.
LEMMA ArrivedFacts ==
    ASSUME NEW lo \in Ghosts, NEW hi \in Ghosts, NEW ht \in Ghosts, NEW pos \in Ghosts,
           NEW own \in Ghosts, Frozen(lo, hi, ht, pos, own),
           NEW c, NEW t, NEW leaf, leaf = at, Runs(lo, hi, own, t, leaf, c), AtLeaf("select")
    PROVE  leaf \in L /\ FindInv(lo, hi, t, leaf, c) /\ Fresh(c)
<1>1. pc = "find" /\ disk[leaf].type = "L"
  BY DEF AtLeaf
<1>2. FindInv(lo, hi, t, leaf, c) /\ Fresh(c)
  BY <1>1 DEF Runs
<1>3. leaf \in L
  BY <1>1, <1>2 DEF FindInv, Nodes, L, I, OfType
<1> QED
  BY <1>2, <1>3

LEMMA SelectEqualStep ==
    ASSUME NEW lo \in Ghosts, NEW hi \in Ghosts, NEW ht \in Ghosts, NEW pos \in Ghosts,
           NEW own \in Ghosts, Frozen(lo, hi, ht, pos, own), pending = <<>>,
           NEW c \in Cursors, c = cur, NEW t, t = Chosen(c.conds), NEW leaf, leaf = at,
           Runs(lo, hi, own, t, leaf, c), SelectEqual
    PROVE  Ended \/ Goes
<1>1. leaf \in L /\ FindInv(lo, hi, t, leaf, c) /\ Fresh(c) /\ t.op = "="
  BY ArrivedFacts DEF SelectEqual, Op
<1>2. PICK n, m, hits, x, p, d : n = disk[leaf] /\ m = t.num /\ hits = IndexOf(n, m) /\ x = Min(hits)
                                 /\ p = n.ptrs[x] /\ d = [c EXCEPT !.bucket = p, !.slot = 1]
  OBVIOUS
<1>3. \/ hits = {} /\ Finish(<<>>)
      \/ hits # {} /\ hdr.duplicate = "N" /\ Finish(<<p>>)
      \/ hits # {} /\ hdr.duplicate = "Y" /\ Go("bucket", leaf, d)
  BY <1>2 DEF SelectEqual, Num
<1>4. m \in Nat /\ m <= NilKey
  BY <1>2, ConditionFacts
<1>5. n.size \in Nat /\ hits = {i \in 1 .. n.size : n.keys[i] = m}
  BY <1>1, <1>2, LeafView DEF IndexOf
<1>6. CASE hits = {} /\ Finish(<<>>)
  <2>1. ASSUME NEW k \in Keys, NEW v, Has(own, k, v), Cmp(t, k) PROVE FALSE
    <3>1. PICK r : Filed(k, r)
      BY <2>1, KeyThere
    <3>2. k \in Nat /\ k < NilKey /\ k = m
      <4>1. k \in Nat /\ k < NilKey
        BY <3>1, LeafOf
      <4> QED BY <1>1, <1>2, <1>4, <2>1, <4>1, Comparing
    <3>3. lo[leaf] <= k /\ k < hi[leaf]
      BY <1>1, <1>2, <3>2 DEF FindInv
    <3>4. PICK i \in 1 .. n.size : n.keys[i] = k
      BY <1>1, <1>2, <3>1, <3>3, KeyAt
    <3> QED BY <1>5, <1>6, <3>2, <3>4
  <2>2. PICK vis : vis = <<>>
    OBVIOUS
  <2>3. Done(own, t, vis)
    BY <2>1 DEF Done
  <2>4. Distinct(vis)
    BY <2>2 DEF Distinct
  <2>5. Finish(vis)
    BY <1>6, <2>2
  <2> QED BY <2>3, <2>4, <2>5, Ends
<1>7. ASSUME hits # {} PROVE Filed(m, p) /\ p \in Nat
  <2>1. hits \in SUBSET Nat
    BY <1>5
  <2>2. x \in hits
    BY <1>2, <1>7, <2>1, MinFacts
  <2>3. x \in 1 .. n.size /\ n.keys[x] = m
    BY <1>5, <2>2
  <2> QED BY <1>1, <1>2, <2>3, LeafView
<1>8. CASE hits # {} /\ hdr.duplicate = "N" /\ Finish(<<p>>)
  <2>1. PICK vis : vis = <<p>>
    OBVIOUS
  <2>2. DOMAIN vis = {1} /\ vis[1] = p
    BY <2>1
  <2>3. VisIn(vis, p)
    BY <2>2 DEF VisIn
  <2>4. \A v : Leads(own, p, v) => VisIn(vis, v)
    BY <1>8, <2>3 DEF Leads
  <2>5. Done(own, t, vis)
    BY <1>1, <1>2, <1>7, <1>8, <2>4, EqualDone
  <2>6. Distinct(vis)
    BY <2>2 DEF Distinct
  <2>7. Finish(vis)
    BY <1>8, <2>1
  <2> QED BY <2>5, <2>6, <2>7, Ends
<1>9. CASE hits # {} /\ hdr.duplicate = "Y" /\ Go("bucket", leaf, d)
  <2>1. PICK q, w : q = disk[p].ptrs /\ w = Len(q)
    OBVIOUS
  <2>2. p \in B /\ own[p] = p /\ w \in Nat /\ q \in Seq(Nat)
    <3>1. p \in B /\ own[p] = p
      BY <1>7, <1>9, Owners DEF Frozen
    <3>2. q \in Seq(Nat)
      BY <1>9, <2>1, <3>1, Owners DEF Frozen
    <3> QED BY <2>1, <3>1, <3>2
  <2>3. /\ d \in Cursors /\ d.conds = c.conds /\ d.bucket = p /\ d.slot = 1
        /\ d.block = NoBlock /\ d.visited = <<>>
    <3>1. p \in Nat
      BY <1>7, <1>9
    <3> QED BY <1>1, <1>2, <3>1 DEF Cursors, Fresh
  <2>4. d.slot \in 1 .. w + 1 /\ ~(d.slot > 1)
    BY <2>2, <2>3
  <2>5. \A s \in 1 .. d.slot - 1 : FALSE
    BY <2>3
  <2>6. \A e \in B : ~(own[e] = own[p] /\ e < p)
    <3>1. \A e \in B : own[e] <= e /\ e \in Nat
      BY <1>9, Owners DEF Frozen
    <3> QED BY <2>2, <3>1
  <2>7. InOrder(d)
    BY <2>3 DEF InOrder
  <2>8. \A s \in d.slot .. w : d.block <= q[s] /\ d.block < q[s]
    <3>1. \A s \in 1 .. w : q[s] \in Nat
      BY <2>1, <2>2
    <3> QED BY <2>3, <3>1 DEF NoBlock
  <2>9. Filed(t.num, own[p])
    BY <1>2, <1>7, <1>9, <2>2
  <2>10. BucketInv(hi, own, t, leaf, d)
    BY <1>1, <1>9, <2>1, <2>2, <2>3, <2>4, <2>5, <2>6, <2>7, <2>8, <2>9 DEF BucketInv
  <2> QED BY <1>9, <2>3, <2>10, Onward
<1> QED
  BY <1>3, <1>6, <1>8, <1>9

LEMMA WalkUpStep ==
    ASSUME NEW lo \in Ghosts, NEW hi \in Ghosts, NEW ht \in Ghosts, NEW pos \in Ghosts,
           NEW own \in Ghosts, Frozen(lo, hi, ht, pos, own), pending = <<>>,
           NEW c \in Cursors, c = cur, NEW t, t = Chosen(c.conds), NEW leaf, leaf = at,
           Runs(lo, hi, own, t, leaf, c), WalkUp
    PROVE  Goes
<1>1. leaf \in L /\ FindInv(lo, hi, t, leaf, c) /\ Fresh(c) /\ t.op \in {">", ">="}
  BY ArrivedFacts DEF WalkUp, Op
<1>2. PICK n, S, i, d :
         /\ n = disk[leaf] /\ S = {x \in 1 .. n.size : Cmp(t, n.keys[x])} \cup {n.size + 1}
         /\ i = Min(S) /\ d = [c EXCEPT !.pos = i]
  OBVIOUS
<1>3. FirstAbove(disk[at]) = i
  BY <1>2 DEF FirstAbove, Cmp, Op, Num
<1>4. Go("walk", leaf, d)
  BY <1>2, <1>3 DEF WalkUp
<1>5. t.num \in Nat /\ lo[leaf] <= t.num
  BY <1>1, ConditionFacts DEF FindInv
<1>6. i \in Nat
  <2>1. n.size \in Nat
    BY <1>1, <1>2, LeafView
  <2>2. S \in SUBSET Nat /\ S # {}
    BY <1>2, <2>1
  <2>3. Min(S) \in S
    BY ONLY <2>2, MinFacts
  <2> QED BY <1>2, <2>2, <2>3
<1>7. /\ d \in Cursors /\ d.conds = c.conds /\ d.pos = i /\ d.ptr = NoBlock /\ d.block = NoBlock
      /\ d.visited = <<>> /\ d.only = FALSE
  BY ONLY <1>1, <1>2, <1>6, c \in Cursors DEF Cursors, Fresh
<1>8. WalkInv(hi, own, t, leaf, d)
  <2>1. leaf \in L /\ Frozen(lo, hi, ht, pos, own) /\ t.op \in {">", ">="}
    BY <1>1
  <2>2. /\ n = disk[leaf] /\ S = {x \in 1 .. n.size : Cmp(t, n.keys[x])} \cup {n.size + 1}
        /\ i = Min(S)
    BY <1>2
  <2>3. /\ d \in Cursors /\ d.pos = i /\ d.only = FALSE /\ d.ptr = NoBlock /\ d.block = NoBlock
        /\ d.visited = <<>>
    BY <1>7
  <2> QED
    BY ONLY <1>5, <2>1, <2>2, <2>3, UpBegins, lo \in Ghosts, hi \in Ghosts, ht \in Ghosts,
       pos \in Ghosts, own \in Ghosts
<1> QED
  BY <1>4, <1>7, <1>8, Onward

LEMMA WalkFromFirstStep ==
    ASSUME NEW lo \in Ghosts, NEW hi \in Ghosts, NEW ht \in Ghosts, NEW pos \in Ghosts,
           NEW own \in Ghosts, Frozen(lo, hi, ht, pos, own), pending = <<>>,
           NEW c \in Cursors, c = cur, NEW t, t = Chosen(c.conds), NEW leaf, leaf = at,
           Runs(lo, hi, own, t, leaf, c), WalkFromFirst
    PROVE  Goes
<1>1. leaf \in L /\ FindInv(lo, hi, t, leaf, c) /\ Fresh(c) /\ t.op \in {"<", "<="}
  BY ArrivedFacts DEF WalkFromFirst, Op
<1>2. PICK d : d = [c EXCEPT !.pos = 1, !.only = (leaf = 1)]
  OBVIOUS
<1>3. Go("walk", 1, d)
  BY <1>2 DEF WalkFromFirst
<1>4. /\ d \in Cursors /\ d.conds = c.conds /\ d.pos = 1 /\ d.ptr = NoBlock /\ d.block = NoBlock
      /\ d.visited = <<>> /\ d.only = (leaf = 1)
  BY <1>1, <1>2 DEF Cursors, Fresh
<1>5. d.only => t.num < hi[1] \/ hi[1] = NilKey
  BY <1>1, <1>4 DEF FindInv
<1>6. WalkInv(hi, own, t, 1, d)
  BY <1>1, <1>4, <1>5, FirstBegins, ConditionFacts
<1> QED
  BY <1>3, <1>4, <1>6, Onward

LEMMA LostSelectStep ==
    ASSUME NEW lo \in Ghosts, NEW hi \in Ghosts, NEW ht \in Ghosts, NEW pos \in Ghosts,
           NEW own \in Ghosts, Frozen(lo, hi, ht, pos, own), pending = <<>>,
           NEW c \in Cursors, c = cur, NEW t, t = Chosen(c.conds), NEW leaf, leaf = at,
           Runs(lo, hi, own, t, leaf, c), LostSelect
    PROVE  Ended \/ Goes
<1>1. t.num = NilKey /\ Fresh(c)
  BY DEF LostSelect, Runs
<1>2. PICK vis, d : vis = (IF hdr.duplicate = "N" THEN <<0>> ELSE <<>>) /\ d = [c EXCEPT !.pos = 1]
  OBVIOUS
<1>3. \/ t.op = "=" /\ Finish(vis)
      \/ t.op \in {"<", "<="} /\ Go("walk", 1, d)
      \/ /\ seen' = [how |-> "anything"] /\ cur' = NoCursor /\ pc' = "idle"
         /\ UNCHANGED treeVars /\ rows' = rows /\ pending' = <<>>
  BY <1>2 DEF LostSelect, Op, Return
<1>4. CASE t.op = "=" /\ Finish(vis)
  <2>1. ASSUME NEW k \in Keys, NEW v, Has(own, k, v), Cmp(t, k) PROVE FALSE
    <3>1. k \in Nat /\ k < NilKey /\ NilKey \in Nat
      BY <2>1, KeyThere, TreeAssumption
    <3>2. k = NilKey
      BY <1>1, <1>4, <2>1, <3>1, Comparing
    <3> QED BY <3>1, <3>2
  <2>2. Done(own, t, vis)
    BY <2>1 DEF Done
  <2>3. Distinct(vis)
    <3>1. DOMAIN <<0>> = {1} /\ DOMAIN <<>> = {}
      OBVIOUS
    <3> QED BY <1>2, <3>1 DEF Distinct
  <2> QED BY <1>4, <2>2, <2>3, Ends
<1>5. CASE t.op \in {"<", "<="} /\ Go("walk", 1, d)
  <2>1. /\ d \in Cursors /\ d.conds = c.conds /\ d.pos = 1 /\ d.ptr = NoBlock /\ d.block = NoBlock
        /\ d.visited = <<>> /\ d.only = FALSE
    BY <1>1, <1>2 DEF Cursors, Fresh
  <2>2. WalkInv(hi, own, t, 1, d)
    BY <1>5, <2>1, FirstBegins, ConditionFacts
  <2> QED BY <1>5, <2>1, <2>2, Onward
<1>6. CASE /\ seen' = [how |-> "anything"] /\ cur' = NoCursor /\ pc' = "idle"
           /\ UNCHANGED treeVars /\ rows' = rows /\ pending' = <<>>
  <2>1. Resting'
    BY <1>6, BackToRest
  <2>2. SelectComplete' /\ RowsOnce'
    BY <1>6 DEF SelectComplete, RowsOnce
  <2> QED BY <1>6, <2>1, <2>2 DEF Ended
<1> QED
  BY <1>3, <1>4, <1>5, <1>6


\* One level of find.  INT_MAX, which is no key, leads to the last pointer of every
\* node, which is null in a node with room.
LEMMA DescendStep ==
    ASSUME NEW lo \in Ghosts, NEW hi \in Ghosts, NEW ht \in Ghosts, NEW pos \in Ghosts,
           NEW own \in Ghosts, Frozen(lo, hi, ht, pos, own), pending = <<>>,
           NEW c \in Cursors, c = cur, NEW t, t = Chosen(c.conds), NEW node, node = at,
           Runs(lo, hi, own, t, node, c), TreeStep
    PROVE  Goes
<1>1. Descend /\ pc = "find" /\ FindInv(lo, hi, t, node, c) /\ Fresh(c)
  <2>1. Step
    BY DEF TreeStep
  <2>2. /\ pc \in {"find", "panic", "walk", "bucket"}
        /\ pc \in {"find", "panic"} => call.op = "select"
    BY DEF Runs, FindInv
  <2>3. Descend
    BY <2>1, <2>2 DEF Step, Descend, Panic, Found, Refuse, AddToBucket, InsertInLeaf, InsertOutside,
                      SplitLeaf, NewRoot, InsertInParent, SplitInternal, NewKey, AtLeaf, Ascending
  <2>4. pc = "find"
    BY <2>3 DEF Descend
  <2> QED BY <2>3, <2>4 DEF Runs
<1>2. PICK k, n, q, d : k = t.num /\ n = disk[node] /\ q = Above(n, k) /\ d = n.ptrs[q]
  OBVIOUS
<1>3. /\ n.type = "I" /\ at' = d /\ pc' = (IF d = 0 THEN "panic" ELSE "find")
      /\ UNCHANGED <<hdr, dhdr, disk, open, call>> /\ k = call.key
  BY <1>1, <1>2 DEF Descend, FindInv
<1>4. /\ node \in I /\ node \in Nodes /\ lo[node] <= k
      /\ k < hi[node] \/ (k = NilKey /\ hi[node] = NilKey)
  BY <1>1, <1>2, <1>3 DEF FindInv, Nodes, L, I, OfType
<1>5. k \in Nat /\ k <= NilKey
  BY <1>2, ConditionFacts
<1>6. FileInv /\ Shape(lo, hi, ht, pos) /\ ~Pending
  BY DEF Frozen, Pending
<1>7. ASSUME k < hi[node]
      PROVE  d # 0 /\ d \in Nodes /\ lo[d] <= k /\ k < hi[d]
  BY <1>2, <1>4, <1>5, <1>6, <1>7, ChildFor
<1>8. ASSUME k = NilKey, hi[node] = NilKey, d # 0
      PROVE  d \in Nodes /\ lo[d] <= k /\ hi[d] = NilKey
  <2>1. n \in Inners /\ KeysOK(n)
    BY <1>2, <1>4, <1>6, Kinds DEF FileInv
  <2>2. /\ Cap \in Nat \ {0, 1} /\ n.size \in Nat /\ n.size <= Cap /\ NilKey \in Nat
        /\ \A j \in 1 .. Cap : n.keys[j] \in Nat /\ n.keys[j] <= NilKey
    BY <2>1, TreeAssumption DEF Inners, Cells
  <2>3. q = Cap + 1
    <3>1. /\ Above(n, k) \in 1 .. Cap + 1
          /\ Above(n, k) <= Cap => n.keys[Above(n, k)] > k
      BY <1>5, <2>2, AboveFacts
    <3>2. ~(q <= Cap)
      <4>1. SUFFICES ASSUME q <= Cap PROVE FALSE
        OBVIOUS
      <4>2. q \in 1 .. Cap /\ n.keys[q] > k
        BY <1>2, <2>2, <3>1, <4>1
      <4>3. n.keys[q] \in Nat /\ n.keys[q] <= NilKey
        BY <2>2, <4>2
      <4> QED BY <1>8, <2>2, <4>2, <4>3
    <3> QED BY <1>2, <2>2, <3>1, <3>2
  <2>4. q \in 1 .. Cap + 1
    BY <2>2, <2>3
  <2>5. /\ q > n.size + 1 => d = 0
        /\ d # 0 => d \in Nodes
    BY <1>2, <1>4, <1>6, <2>4 DEF Shape, Linked
  <2>6. n.size = Cap /\ d \in Nodes
    BY <2>2, <2>3, <1>8, <2>5
  <2>7. q \in 1 .. n.size + 1 /\ q # 1 /\ q = n.size + 1 /\ q - 1 = Cap /\ q - 1 \in 1 .. Cap
    BY <2>2, <2>3, <2>6
  <2>8. Sib(d) = d
    BY <1>6 DEF Sib
  <2>9. lo[d] = n.keys[q - 1] /\ hi[d] = hi[node]
    BY <1>2, <1>4, <1>6, <1>8, <2>7, <2>8 DEF Shape, Bounded
  <2>10. n.keys[q - 1] <= NilKey
    BY <2>2, <2>7
  <2> QED BY <1>8, <2>6, <2>9, <2>10
<1>9. d # 0 => d \in Nodes /\ lo[d] <= k /\ (k < hi[d] \/ (k = NilKey /\ hi[d] = NilKey))
  BY <1>4, <1>7, <1>8
<1>10. d = 0 => k = NilKey
  BY <1>4, <1>7
<1>11. Nodes' = Nodes
  BY <1>3 DEF Nodes, L, I, OfType
<1>12. d # 0 => FindInv(lo, hi, t, d, c)'
  BY <1>1, <1>2, <1>3, <1>9, <1>11 DEF FindInv
<1>13. Runs(lo, hi, own, t, d, c)'
  BY <1>1, <1>2, <1>3, <1>10, <1>12 DEF Runs, FindInv
<1>14. cur' = cur /\ seen' = seen /\ rows' = rows /\ pending' = <<>> /\ UNCHANGED treeVars
  BY <1>3 DEF TreeStep, treeVars
<1>15. Frozen(lo, hi, ht, pos, own)'
  BY <1>3, <1>14, StaysFrozen
<1>16. Selecting'
  BY <1>3, <1>13, <1>14, <1>15 DEF Selecting
<1> QED
  BY <1>14, <1>16 DEF Goes


\* A SELECT over the index begins at the root.  The table has rows, so the index
\* has a root.
LEMMA IndexSelectStep ==
    ASSUME NoNil, TableOK, Resting, pending = <<>>, NEW conds \in Clauses, IndexSelect(conds)
    PROVE  Goes
<1>1. PICK lo \in Ghosts, hi \in Ghosts, ht \in Ghosts, pos \in Ghosts : Shape(lo, hi, ht, pos)
  BY DEF Resting, TreeInv, RangeInv, Shape
<1>2. PICK own \in Ghosts : ChainInv(own)
  BY DEF Resting, MapInv
<1>3. FileInv /\ KeysIn /\ Ascends /\ rows \in Seq(Rows) /\ Content = Listing /\ open
  BY DEF Resting, TreeInv, MapInv, TableOK, IndexSelect
<1>4. \A k \in Keys : \A v : Has(own, k, v) <=> v \in BlocksOf(k)
  <2>1. \A k \in Keys : \A v : v \in Content[k] <=> Has(own, k, v)
    BY <1>2, InvShown DEF Resting, Shown
  <2>2. \A k \in Keys : Listing[k] = BlocksOf(k)
    BY DEF Listing
  <2> QED BY <1>3, <2>1, <2>2
<1>5. hdr.root # 0
  <2>1. SUFFICES ASSUME hdr.root = 0 PROVE FALSE
    OBVIOUS
  <2>2. L = {} /\ B = {}
    BY <1>3, <2>1 DEF FileInv, FileOK, L, B, OfType
  <2>3. \A k, v : ~Has(own, k, v)
    BY <2>2 DEF Has, Filed
  <2>4. rows # <<>> /\ 1 \in DOMAIN rows
    BY <1>3 DEF IndexSelect
  <2>5. rows[1][Indexed] \in Keys /\ BlockOf(1) \in BlocksOf(rows[1][Indexed])
    BY <1>3, <2>4 DEF Rows, BlocksOf
  <2> QED BY <1>4, <2>3, <2>5
<1>6. PICK t, root : t = Chosen(conds) /\ root = hdr.root
  OBVIOUS
<1>7. /\ pc = "idle" /\ pc' = "find" /\ call' = [op |-> "select", key |-> t.num, val |-> 0]
      /\ at' = root /\ UNCHANGED treeVars /\ rows' = rows /\ pending' = <<>> /\ seen' = seen
      /\ ByIndex(conds)
  BY <1>6 DEF IndexSelect, Idle, Search, treeVars
<1>8. PICK d : /\ d = [conds |-> conds, only |-> FALSE, pos |-> 0, ptr |-> NoBlock, bucket |-> 0,
                       slot |-> 0, block |-> NoBlock, visited |-> <<>>]
               /\ cur' = d
  BY DEF IndexSelect
<1>9. d \in Cursors /\ Fresh(d) /\ d.conds = conds
  BY <1>7, <1>8 DEF Cursors, Fresh, NoBlock
<1>10. t.num \in Nat /\ t.num <= NilKey
  BY <1>6, <1>9, ConditionFacts
<1>11. Frozen(lo, hi, ht, pos, own)
  BY <1>1, <1>2, <1>3, <1>4, <1>5, <1>7 DEF Frozen
<1>12. FindInv(lo, hi, t, root, d)'
  <2>1. root \in Nodes /\ root \in Nat
    BY <1>3, <1>5, <1>6, Kinds DEF FileInv, FileOK
  <2>2. Sib(root) = root
    BY <1>7 DEF Sib, Pending
  <2>3. lo[root] = 0 /\ hi[root] = NilKey
    BY <1>1, <1>5, <1>6, <2>2 DEF Shape, Bounded
  <2>4. Nodes' = Nodes
    BY <1>7 DEF treeVars, Nodes, L, I, OfType
  <2>5. t.num < NilKey \/ t.num = NilKey
    BY <1>10, KeyFacts
  <2> QED BY <1>7, <1>10, <2>1, <2>3, <2>4, <2>5 DEF FindInv
<1>13. Runs(lo, hi, own, t, root, d)'
  BY <1>7, <1>9, <1>12 DEF Runs, Fresh
<1>14. Frozen(lo, hi, ht, pos, own)'
  BY <1>7, <1>11, StaysFrozen
<1>15. Selecting'
  BY <1>6, <1>7, <1>8, <1>9, <1>13, <1>14 DEF Selecting
<1> QED
  BY <1>7, <1>15 DEF Goes

\* A step of a SELECT.
LEMMA SelectGoes ==
    ASSUME Selecting, pending = <<>>, SelectStep \/ TreeStep
    PROVE  Ended \/ Goes
<1>1. PICK lo \in Ghosts, hi \in Ghosts, ht \in Ghosts, pos \in Ghosts, own \in Ghosts :
         Frozen(lo, hi, ht, pos, own) /\ Runs(lo, hi, own, Chosen(cur.conds), at, cur)
  BY DEF Selecting
<1>2. PICK c \in Cursors : c = cur
  BY DEF Selecting
<1>3. PICK t, node : t = Chosen(c.conds) /\ node = at
  OBVIOUS
<1>4. Frozen(lo, hi, ht, pos, own) /\ Runs(lo, hi, own, t, node, c)
  BY <1>1, <1>2, <1>3
<1>5. CASE SelectEqual
  BY <1>2, <1>3, <1>4, <1>5, SelectEqualStep
<1>6. CASE WalkUp
  BY <1>2, <1>3, <1>4, <1>6, WalkUpStep
<1>7. CASE WalkFromFirst
  BY <1>2, <1>3, <1>4, <1>7, WalkFromFirstStep
<1>8. CASE LostSelect
  BY <1>2, <1>3, <1>4, <1>8, LostSelectStep
<1>9. CASE EndWalk
  BY <1>2, <1>3, <1>4, <1>9, EndWalkStep
<1>10. CASE VisitEntry
  BY <1>2, <1>3, <1>4, <1>10, VisitEntryStep
<1>11. CASE VisitPointer
  BY <1>2, <1>3, <1>4, <1>11, VisitPointerStep
<1>12. CASE NextBucket
  BY <1>2, <1>3, <1>4, <1>12, NextBucketStep
<1>13. CASE NextLeaf
  BY <1>2, <1>3, <1>4, <1>13, NextLeafStep
<1>14. CASE TreeStep
  BY <1>2, <1>3, <1>4, <1>14, DescendStep
<1> QED
  BY <1>5, <1>6, <1>7, <1>8, <1>9, <1>10, <1>11, <1>12, <1>13, <1>14 DEF SelectStep


-------------------------------------------------------------------------------
(* The invariant. *)

QueryInv ==
    /\ TableOK /\ SelectComplete /\ RowsOnce
    /\ seen # NoAnswer => pending = <<>> /\ cur = NoCursor
    /\ IF cur = NoCursor THEN Resting ELSE pending = <<>> /\ Selecting

LEMMA NoAnswerYet ==
    ASSUME seen' = NoAnswer
    PROVE  SelectComplete' /\ RowsOnce'
  BY DEF NoAnswer, SelectComplete, RowsOnce

LEMMA CursorNext == Selecting' => cur' # NoCursor
<1>1. \A c \in Cursors : c.conds # <<>>
  BY DEF Cursors, Clauses
<1>2. Selecting' => cur' \in Cursors
  BY DEF Selecting
<1> QED
  BY <1>1, <1>2 DEF NoCursor

LEMMA QueryBegins ==
    ASSUME QueryInit
    PROVE  QueryInv
<1>1. Init /\ rows = <<>> /\ pending = <<>> /\ cur = NoCursor /\ seen = NoAnswer
  BY DEF QueryInit
<1>2. TreeInv /\ MapInv /\ Shown
  BY <1>1, InitTree, InitMaps, InvShown
<1>3. L = {} /\ B = {} /\ pc = "idle"
  BY <1>1 DEF Init, L, B, OfType
<1>4. Ascends
  BY <1>3 DEF Ascends
<1>5. PICK own \in Ghosts : ChainInv(own)
  BY <1>2 DEF MapInv
<1>6. ASSUME NEW k \in Keys PROVE Content[k] = {} /\ BlocksOf(k) = {}
  <2>1. \A v : v \in Content[k] <=> Has(own, k, v)
    BY <1>2, <1>5 DEF Shown
  <2>2. \A v : ~Has(own, k, v)
    BY <1>3 DEF Has, Filed
  <2>3. DOMAIN rows = {}
    BY <1>1
  <2>4. BlocksOf(k) = {}
    BY <2>3 DEF BlocksOf
  <2> QED BY <2>1, <2>2, <2>4
<1>7. Content = Listing
  BY <1>6 DEF Content, Listing
<1>8. Resting
  BY <1>1, <1>2, <1>3, <1>4, <1>7 DEF Resting
<1>9. SelectComplete /\ RowsOnce
  BY <1>1 DEF NoAnswer, SelectComplete, RowsOnce
<1>10. TableOK
  BY <1>1 DEF TableOK
<1> QED
  BY <1>1, <1>8, <1>9, <1>10 DEF QueryInv

\* No statement of the program runs: no SELECT runs, the steps of one are not taken.
LEMMA QuietSelects ==
    ASSUME Resting
    PROVE  ~SelectStep
<1>1. pc \in {"idle", "find", "parent"}
  BY DEF Resting, TreeInv, RangeInv, CallOK
<1>2. pc = "find" => call.op # "select"
  BY DEF Resting, MapInv, CallInv
<1> QED
  BY <1>1, <1>2 DEF SelectStep, SelectEqual, WalkUp, WalkFromFirst, LostSelect, EndWalk, VisitEntry,
                    VisitPointer, NextBucket, NextLeaf, AtLeaf, AtKey, Walking

LEMMA QueryKeeps ==
    ASSUME NoNil, QueryInv, QueryNext(Rows, Clauses) \/ UNCHANGED queryVars
    PROVE  QueryInv'
<1>1. /\ TableOK /\ SelectComplete /\ RowsOnce
      /\ seen # NoAnswer => pending = <<>> /\ cur = NoCursor
      /\ cur = NoCursor => Resting
      /\ cur # NoCursor => pending = <<>> /\ Selecting
  BY DEF QueryInv
<1>2. ASSUME Idle, cur' = cur, seen' = seen, Resting', TableOK'
      PROVE  QueryInv'
  BY <1>2, NoAnswerYet DEF Idle, QueryInv
<1>3. ASSUME Ended \/ Goes, seen = NoAnswer
      PROVE  QueryInv'
  <2>1. TableOK'
    BY <1>1, <1>3 DEF TableOK, Ended, Goes
  <2>2. CASE Ended
    BY <2>1, <2>2 DEF Ended, QueryInv
  <2>3. CASE Goes
    <3>1. seen' = NoAnswer
      BY <1>3, <2>3 DEF Goes
    <3> QED BY <2>1, <2>3, <3>1, CursorNext, NoAnswerYet DEF Goes, QueryInv
  <2> QED BY <1>3, <2>2, <2>3
<1>4. ASSUME NEW r \in Rows, InsertRow(r) PROVE QueryInv'
  <2>1. Idle /\ cur' = cur /\ seen' = seen
    BY <1>4 DEF InsertRow
  <2> QED BY <1>1, <1>2, <1>4, <2>1, InsertRowRests DEF Idle
<1>5. ASSUME NEW conds \in Clauses, RefuseSelect(conds) \/ ScanSelect(conds) PROVE QueryInv'
  <2>1. Idle /\ UNCHANGED <<vars, rows, pending, cur>>
    BY <1>5 DEF RefuseSelect, ScanSelect
  <2>2. Resting' /\ TableOK'
    BY <1>1, <2>1, QuietRests DEF Idle, TableOK
  <2>3. SelectComplete' /\ RowsOnce'
    <3>1. CASE RefuseSelect(conds)
      BY <3>1 DEF RefuseSelect, SelectComplete, RowsOnce
    <3>2. CASE ScanSelect(conds)
      BY <1>1, <3>2, ScanIsRight DEF TableOK
    <3> QED BY <1>5, <3>1, <3>2
  <2> QED BY <2>1, <2>2, <2>3 DEF Idle, QueryInv
<1>6. ASSUME NEW conds \in Clauses, IndexSelect(conds) PROVE QueryInv'
  BY <1>1, <1>3, <1>6, IndexSelectStep DEF IndexSelect, Idle
<1>7. CASE OpenOrClose
  <2>1. Idle /\ cur' = cur /\ seen' = seen
    BY <1>7 DEF OpenOrClose
  <2>2. Resting' /\ TableOK'
    BY <1>1, <1>7, <2>1, OpenCloseRests DEF Idle, TableOK
  <2> QED BY <1>2, <2>1, <2>2
<1>8. CASE Prompt
  <2>1. seen' = NoAnswer /\ UNCHANGED <<vars, rows, pending, cur>> /\ cur = NoCursor
    BY <1>1, <1>8 DEF Prompt
  <2>2. Resting' /\ TableOK'
    BY <1>1, <2>1, QuietRests DEF TableOK
  <2> QED BY <2>1, <2>2, NoAnswerYet DEF QueryInv
<1>9. CASE cur # NoCursor /\ (SelectStep \/ TreeStep)
  BY <1>1, <1>3, <1>9, SelectGoes
<1>10. CASE cur = NoCursor /\ (SelectStep \/ TreeStep)
  <2>1. Step /\ UNCHANGED <<rows, pending, cur, seen>>
    BY <1>1, <1>10, QuietSelects DEF TreeStep
  <2>2. Resting' /\ TableOK'
    BY <1>1, <1>10, <2>1, TreeStepRests
  <2>3. SelectComplete' /\ RowsOnce'
    BY <1>1, <2>1 DEF SelectComplete, RowsOnce, Printed, Matching, Clustered
  <2> QED BY <1>1, <1>10, <2>1, <2>2, <2>3 DEF QueryInv
<1>11. CASE StoreRow
  <2>1. pending # <<>> /\ pending' = <<>> /\ cur' = cur /\ seen' = seen
    BY <1>11 DEF StoreRow
  <2>2. cur = NoCursor /\ seen' = NoAnswer
    BY <1>1, <2>1
  <2>3. Resting' /\ TableOK'
    BY <1>1, <1>11, <2>2, StoreRowRests
  <2> QED BY <2>1, <2>2, <2>3, NoAnswerYet DEF QueryInv
<1>12. CASE UNCHANGED queryVars
  <2>1. UNCHANGED <<vars, rows, pending, cur, seen>>
    BY <1>12 DEF queryVars
  <2>2. TableOK' /\ SelectComplete' /\ RowsOnce'
    BY <1>1, <2>1 DEF TableOK, SelectComplete, RowsOnce, Printed, Matching, Clustered
  <2>3. CASE cur = NoCursor
    BY <1>1, <2>1, <2>2, <2>3, QuietRests DEF QueryInv
  <2>4. CASE cur # NoCursor
    <3>1. PICK lo \in Ghosts, hi \in Ghosts, ht \in Ghosts, pos \in Ghosts, own \in Ghosts :
             Frozen(lo, hi, ht, pos, own) /\ Runs(lo, hi, own, Chosen(cur.conds), at, cur)
      BY <1>1, <2>4 DEF Selecting
    <3>2. UNCHANGED treeVars /\ pc' # "parent"
      BY <2>1, <3>1 DEF vars, treeVars, Frozen
    <3>3. Frozen(lo, hi, ht, pos, own)'
      BY <2>1, <3>1, <3>2, StaysFrozen
    <3>4. PICK t, c, node : t = Chosen(cur.conds) /\ c = cur /\ node = at
      OBVIOUS
    <3>5. Runs(lo, hi, own, t, node, c)'
      <4>1. disk' = disk /\ hdr' = hdr /\ pc' = pc /\ call' = call /\ rows' = rows
        BY <2>1 DEF vars
      <4>2. Nodes' = Nodes
        BY <4>1 DEF Nodes, L, I, OfType
      <4> QED BY <3>1, <3>4, <4>1, <4>2, RunsOn DEF Runs, FindInv
    <3>6. t = Chosen(cur'.conds) /\ c = cur' /\ node = at'
      BY <2>1, <3>4 DEF vars
    <3>7. Selecting'
      BY <1>1, <2>1, <2>4, <3>3, <3>5, <3>6 DEF Selecting
    <3> QED BY <1>1, <2>1, <2>2, <2>4, <3>7 DEF QueryInv
  <2> QED BY <2>3, <2>4
<1> QED
  BY <1>4, <1>5, <1>6, <1>7, <1>8, <1>9, <1>10, <1>11, <1>12 DEF QueryNext, Running

\* While statements insert rows and select, the index lists the blocks of the rows
\* and a SELECT over it has printed what its cursor has passed.
THEOREM QueryInvariant == NoNil => (SelectSpec => []QueryInv)
<1> SUFFICES ASSUME NoNil PROVE SelectSpec => []QueryInv
  OBVIOUS
<1>1. QueryInit => QueryInv
  BY QueryBegins
<1>2. QueryInv /\ [QueryNext(Rows, Clauses)]_queryVars => QueryInv'
  BY QueryKeeps
<1> QED
  BY <1>1, <1>2, PTL DEF SelectSpec

\* Whatever rows a table has, however its index has split, whatever the clause is
\* and whichever path print_table3 takes: a SELECT prints exactly the rows that its
\* WHERE clause describes.
THEOREM SelectsAreComplete == NoNil => (SelectSpec => []SelectComplete)
<1>1. QueryInv => SelectComplete
  BY DEF QueryInv
<1> QED
  BY <1>1, QueryInvariant, PTL

\* A scan and a query by equality print no row twice, nor does a range query over a
\* table that was filled in ascending order of its indexed column.
THEOREM RowsPrintedOnce == NoNil => (SelectSpec => []RowsOnce)
<1>1. QueryInv => RowsOnce
  BY DEF QueryInv
<1> QED
  BY <1>1, QueryInvariant, PTL

===============================================================================
