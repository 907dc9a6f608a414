----------------------------- MODULE TreeCrashProofs -----------------------------
(***************************************************************************)
(* Crashes between the writes of a call, for any keys below INT_MAX, any   *)
(* table blocks and any capacities.  F speaks of the file in front of the  *)
(* latest step with the header in block 0, which a crash brings back.      *)
(***************************************************************************)
EXTENDS TreeCrash, TreeMapProofs

F == INSTANCE TreeMapProofs
       WITH disk <- before, hdr <- dhdr, open <- FALSE, pc <- "idle", call <- <<>>,
            at <- 0, up <- <<>>, answer <- <<"none">>

\* The file in front of the latest step is a tree with one of the contents that the
\* statement may leave.
Whole ==
    /\ F!TreeInv /\ F!KeysIn
    /\ \E own \in Ghosts :
          /\ F!ChainInv(own)
          /\ \E c \in Outcomes : \A k \in Keys : \A v : v \in c[k] <=> F!Has(own, k, v)

-------------------------------------------------------------------------------

LEMMA SameNames ==
    /\ F!Headers = Headers /\ F!Leaves = Leaves /\ F!Inners = Inners /\ F!Buckets = Buckets
    /\ F!NoHeader = NoHeader /\ F!Ghosts = Ghosts
    /\ \A n : F!KeysOK(n) <=> KeysOK(n)
  BY DEF F!Headers, F!Leaves, F!Inners, F!Buckets, F!NoHeader, F!Ghosts, F!KeysOK, F!Cells,
         Headers, Leaves, Inners, Buckets, NoHeader, Ghosts, KeysOK, Cells

LEMMA SameSizes == \A S : (F!IsFiniteSet(S) <=> IsFiniteSet(S)) /\ F!Cardinality(S) = Cardinality(S)
  BY DEF F!IsFiniteSet, IsFiniteSet, F!Cardinality, Cardinality

LEMMA Snapshot ==
    ASSUME before' = disk, dhdr' = hdr, pc # "parent", TreeInv
    PROVE  F!TreeInv'
<1>1. F!L' = L /\ F!I' = I /\ F!B' = B /\ F!Nodes' = Nodes
  BY DEF F!L, F!I, F!B, F!Nodes, F!OfType, L, I, B, Nodes, OfType
<1>2. /\ \A b : F!Sib(b)' = b /\ ~F!Unlinked(b)' /\ Sib(b) = b /\ ~Unlinked(b)
      /\ ~F!Pending' /\ ~Pending
  BY DEF F!Sib, F!Unlinked, F!Pending, Sib, Unlinked, Pending
<1>3. HeaderOK => F!HeaderOK'
  BY SameNames DEF F!HeaderOK, HeaderOK
<1>4. FileOK => F!FileOK'
  BY <1>1, SameNames DEF F!FileOK, FileOK
<1>5. BucketsOK => F!BucketsOK'
  BY <1>1 DEF F!BucketsOK, BucketsOK
<1>6. Counted => F!Counted'
  BY <1>1, SameSizes DEF F!Counted, Counted
<1>7. HalfFull => F!HalfFull'
  BY <1>1, <1>2 DEF F!HalfFull, HalfFull
<1>8. PICK lo \in Ghosts, hi \in Ghosts, ht \in Ghosts, pos \in Ghosts :
         RangeInv(lo, hi, ht, pos)
  BY DEF TreeInv
<1>9. F!Bounded(lo, hi)'
  BY <1>1, <1>2, <1>8 DEF F!Bounded, Bounded, RangeInv
<1>10. F!Linked(ht)'
  BY <1>1, <1>2, <1>8 DEF F!Linked, Linked, RangeInv
<1>11. F!Chained(lo, hi, pos)'
  BY <1>1, <1>2, <1>8 DEF F!Chained, Chained, RangeInv
<1>12. F!CallOK(lo, hi, ht)'
  BY DEF F!CallOK
<1>13. F!RangeInv(lo, hi, ht, pos)'
  BY <1>9, <1>10, <1>11, <1>12 DEF F!RangeInv
<1>14. F!FileInv'
  BY <1>3, <1>4, <1>5, <1>6, <1>7 DEF F!FileInv, TreeInv, FileInv
<1> QED
  BY <1>8, <1>13, <1>14, SameNames DEF F!TreeInv

LEMMA SnapshotMap ==
    ASSUME before' = disk, dhdr' = hdr, pc # "parent", TreeInv, MapInv, Content \in Outcomes'
    PROVE  Whole'
<1>1. F!L' = L /\ F!B' = B
  BY DEF F!L, F!B, F!OfType, L, B, OfType
<1>2. \A k, p : F!Filed(k, p)' <=> Filed(k, p)
  BY <1>1 DEF F!Filed, Filed
<1>3. \A c, v : F!In(c, v)' <=> In(c, v)
  BY DEF F!In, In
<1>4. PICK own \in Ghosts : ChainInv(own)
  BY DEF MapInv
<1>5. F!ChainInv(own)'
  BY <1>1, <1>2, <1>4 DEF F!ChainInv, ChainInv
<1>6. \A k, v : F!Has(own, k, v)' <=> Has(own, k, v)
  BY <1>1, <1>2, <1>3 DEF F!Has, Has
<1>7. F!KeysIn'
  BY <1>2 DEF F!KeysIn, KeysIn, MapInv
<1>8. PICK c : c = Content
  OBVIOUS
<1>9. \A k \in Keys : \A v : v \in c[k] <=> Has(own, k, v)
  BY <1>4, <1>8, InvShown DEF Shown
<1>10. c \in Outcomes' /\ \A k \in Keys : \A v : v \in c[k] <=> F!Has(own, k, v)'
  BY <1>6, <1>8, <1>9
<1> QED
  BY <1>4, <1>5, <1>7, <1>10, Snapshot DEF Whole

-------------------------------------------------------------------------------
(* A file that comes back. *)

LEMMA ShownNext == TreeInv' => Shown'
<1>1. TreeInv => Shown
  BY InvShown
<1> QED
  BY <1>1, PTL

\* The contents are a map of the keys.
LEMMA ContentIs ==
    ASSUME Shown', NEW own \in Ghosts, ChainInv(own)', NEW c, c = [k \in Keys |-> c[k]],
           \A k \in Keys : \A v : v \in c[k] <=> Has(own, k, v)'
    PROVE  Content' = c
<1>1. \A k \in Keys : \A v : v \in Content'[k] <=> v \in c[k]
  BY DEF Shown
<1>2. PICK d : d = Content'
  OBVIOUS
<1>3. d = [k \in Keys |-> d[k]]
  BY <1>2 DEF Content
<1>4. \A k \in Keys : d[k] = c[k]
  BY <1>1, <1>2
<1> QED
  BY <1>2, <1>3, <1>4

\* The file in front of the latest step comes back.
LEMMA Restored ==
    ASSUME F!TreeInv, DOMAIN disk' = DOMAIN before, \A b \in DOMAIN before : disk'[b] = before[b],
           hdr' = dhdr, dhdr' = dhdr, pc' = "idle", open' = FALSE
    PROVE  TreeInv'
<1>1. F!L = L' /\ F!I = I' /\ F!B = B' /\ F!Nodes = Nodes'
  BY DEF F!L, F!I, F!B, F!Nodes, F!OfType, L, I, B, Nodes, OfType
<1>0. /\ \A b \in L' : disk'[b] = before[b]
      /\ \A b \in I' : disk'[b] = before[b]
      /\ \A b \in B' : disk'[b] = before[b]
      /\ \A b \in Nodes' : disk'[b] = before[b]
  BY DEF L, I, B, Nodes, OfType
<1>2. /\ \A b : F!Sib(b) = b /\ ~F!Unlinked(b) /\ Sib(b)' = b /\ ~Unlinked(b)'
      /\ ~F!Pending /\ ~Pending'
  BY DEF F!Sib, F!Unlinked, F!Pending, Sib, Unlinked, Pending
<1>3. F!HeaderOK => HeaderOK'
  BY SameNames DEF F!HeaderOK, HeaderOK
<1>4. F!FileOK => FileOK'
  BY <1>0, <1>1, SameNames DEF F!FileOK, FileOK
<1>5. F!BucketsOK => BucketsOK'
  BY <1>0, <1>1 DEF F!BucketsOK, BucketsOK
<1>6. F!Counted => Counted'
  BY <1>1, SameSizes DEF F!Counted, Counted
<1>7. F!HalfFull => HalfFull'
  BY <1>0, <1>1, <1>2 DEF F!HalfFull, HalfFull
<1>8. PICK lo \in Ghosts, hi \in Ghosts, ht \in Ghosts, pos \in Ghosts :
         F!RangeInv(lo, hi, ht, pos)
  BY SameNames DEF F!TreeInv
<1>9. Bounded(lo, hi)'
  BY <1>0, <1>1, <1>2, <1>8 DEF F!Bounded, Bounded, F!RangeInv
<1>10. Linked(ht)'
  BY <1>0, <1>1, <1>2, <1>8 DEF F!Linked, Linked, F!RangeInv
<1>11. Chained(lo, hi, pos)'
  BY <1>0, <1>1, <1>2, <1>8 DEF F!Chained, Chained, F!RangeInv
<1>12. CallOK(lo, hi, ht)'
  BY DEF CallOK
<1>13. RangeInv(lo, hi, ht, pos)'
  BY <1>9, <1>10, <1>11, <1>12 DEF RangeInv
<1>14. FileInv'
  BY <1>3, <1>4, <1>5, <1>6, <1>7 DEF F!FileInv, F!TreeInv, FileInv
<1> QED
  BY <1>8, <1>13, <1>14 DEF TreeInv

\* The contents of a statement are maps of the keys.
IsMap(c) == c = [k \in Keys |-> c[k]]

LEMMA OutcomesAre ==
    ASSUME IsMap(opened)
    PROVE  /\ opened \in Outcomes /\ \A c \in Outcomes : IsMap(c)
           /\ inserting = <<>> => Outcomes = {opened}
           /\ \A k, v : inserting = <<k, v>> =>
                 Outcomes = {opened, [opened EXCEPT ![k] = @ \cup {v}]}
<1>1. opened \in Outcomes
  BY DEF Outcomes
<1>2. inserting = <<>> => Outcomes = {opened}
  BY DEF Outcomes
<1>3. ASSUME NEW k, NEW v, inserting = <<k, v>>
      PROVE  Outcomes = {opened, [opened EXCEPT ![k] = @ \cup {v}]}
  BY <1>3 DEF Outcomes
<1>4. ASSUME NEW c \in Outcomes PROVE IsMap(c)
  BY DEF Outcomes, IsMap
<1> QED
  BY <1>1, <1>2, <1>3, <1>4

LEMMA RestoredMap ==
    ASSUME Whole, IsMap(opened), DOMAIN disk' = DOMAIN before,
           \A b \in DOMAIN before : disk'[b] = before[b],
           hdr' = dhdr, dhdr' = dhdr, pc' = "idle", open' = FALSE
    PROVE  TreeInv' /\ MapInv' /\ Content' \in Outcomes
<1>1. F!L = L' /\ F!B = B'
  BY DEF F!L, F!B, F!OfType, L, B, OfType
<1>2. /\ \A b \in L' : disk'[b] = before[b]
      /\ \A b \in B' : disk'[b] = before[b]
  BY DEF L, B, OfType
<1>3. \A k, p : F!Filed(k, p) <=> Filed(k, p)'
  BY <1>1, <1>2 DEF F!Filed, Filed
<1>4. \A c \in B' : \A v : F!In(c, v) <=> In(c, v)'
  BY <1>2 DEF F!In, In
<1>5. PICK own \in Ghosts : 
         /\ F!ChainInv(own)
         /\ \E c \in Outcomes : \A k \in Keys : \A v : v \in c[k] <=> F!Has(own, k, v)
  BY DEF Whole
<1>6. ChainInv(own)'
  BY <1>1, <1>2, <1>3, <1>5 DEF F!ChainInv, ChainInv
<1>7. \A k, v : F!Has(own, k, v) <=> Has(own, k, v)'
  BY <1>1, <1>3, <1>4 DEF F!Has, Has
<1>8. PICK c \in Outcomes : \A k \in Keys : \A v : v \in c[k] <=> Has(own, k, v)'
  BY <1>5, <1>7
<1>9. TreeInv'
  BY Restored DEF Whole
<1>10. Content' = c
  BY <1>6, <1>8, <1>9, ShownNext, ContentIs, OutcomesAre DEF IsMap
<1>11. MapInv'
  BY <1>3, <1>6 DEF MapInv, KeysIn, CallInv, Whole, F!KeysIn
<1> QED
  BY <1>8, <1>9, <1>10, <1>11

\* The file stays as it is.
LEMMA Stays ==
    ASSUME TreeInv, MapInv, pc # "parent", DOMAIN disk' = DOMAIN disk,
           \A b \in DOMAIN disk : disk'[b] = disk[b],
           hdr' = hdr, dhdr' = hdr, pc' = "idle", open' = FALSE
    PROVE  TreeInv' /\ MapInv' /\ Content' = Content
<1>1. L' = L /\ I' = I /\ B' = B /\ Nodes' = Nodes
  BY DEF L, I, B, Nodes, OfType
<1>0. /\ \A b \in L' : disk'[b] = disk[b]
      /\ \A b \in I' : disk'[b] = disk[b]
      /\ \A b \in B' : disk'[b] = disk[b]
      /\ \A b \in Nodes' : disk'[b] = disk[b]
  BY DEF L, I, B, Nodes, OfType
<1>2. \A b : Sib(b) = b /\ ~Unlinked(b) /\ Sib(b)' = b /\ ~Unlinked(b)' /\ ~Pending /\ ~Pending'
  BY DEF Sib, Unlinked, Pending
<1>3. HeaderOK => HeaderOK'
  BY DEF HeaderOK
<1>4. FileOK => FileOK'
  BY <1>0, <1>1 DEF FileOK
<1>5. BucketsOK => BucketsOK'
  BY <1>0, <1>1 DEF BucketsOK
<1>6. Counted => Counted'
  BY <1>1 DEF Counted
<1>7. HalfFull => HalfFull'
  BY <1>0, <1>1, <1>2 DEF HalfFull
<1>8. PICK lo \in Ghosts, hi \in Ghosts, ht \in Ghosts, pos \in Ghosts :
         RangeInv(lo, hi, ht, pos)
  BY DEF TreeInv
<1>9. Bounded(lo, hi)'
  BY <1>0, <1>1, <1>2, <1>8 DEF Bounded, RangeInv
<1>10. Linked(ht)'
  BY <1>0, <1>1, <1>2, <1>8 DEF Linked, RangeInv
<1>11. Chained(lo, hi, pos)'
  BY <1>0, <1>1, <1>8 DEF Chained, RangeInv
<1>12. CallOK(lo, hi, ht)'
  BY DEF CallOK
<1>13. RangeInv(lo, hi, ht, pos)'
  BY <1>9, <1>10, <1>11, <1>12 DEF RangeInv
<1>14. FileInv'
  BY <1>3, <1>4, <1>5, <1>6, <1>7 DEF TreeInv, FileInv
<1>15. TreeInv'
  BY <1>8, <1>13, <1>14 DEF TreeInv
<1>16. SameEntries
  BY <1>0, <1>1 DEF SameEntries, Filed
<1>17. KeysIn' /\ Owned' /\ Content' = Content
  BY <1>15, <1>16, InvShown, ShownNext, SameMap
<1> QED
  BY <1>15, <1>17 DEF MapInv, Owned, CallInv

-------------------------------------------------------------------------------
(* The invariant. *)

\* The file after n writes of the latest step reads like d in the blocks S.
Reads(n, d, S) == \A b \in S : Torn(n)[b] = d[b]

\* Its leaves and buckets hold what those of the file hold.
SameLeaves(n) ==
    /\ \A b \in L : LET t == Torn(n)[b]
                    IN  /\ t.size = disk[b].size /\ t.keys = disk[b].keys
                        /\ t.ptrs = disk[b].ptrs /\ t.next = disk[b].next
    /\ \A b \in B : Torn(n)[b] = disk[b]

\* Nothing was allocated since the header was written.
Clean ==
    /\ hdr = dhdr /\ pc # "parent" /\ Whole
    /\ \A n \in 0 .. Len(writes) :
          Reads(n, before, DOMAIN disk) \/ Reads(n, disk, DOMAIN disk)

\* Something was: a crash brings the file back, or leaves a block that refers to one
\* the header in block 0 has not counted.
Grown ==
    /\ pc # "find"
    /\ \A n \in 0 .. Len(writes) :
          \/ Whole /\ Reads(n, before, Given(dhdr))
          \/ Harmed(Torn(n), dhdr) /\ SameLeaves(n)
    /\ dhdr.numOfBlocks <= hdr.numOfBlocks /\ hdr.numOfLeafNodes <= dhdr.numOfBlocks
    /\ \A c \in B : disk[c].next <= dhdr.numOfBlocks
    /\ pc = "parent" => \E b \in L : b \in Given(dhdr) /\ disk[b].next \notin Given(dhdr) \cup {0}

\* The tree had no root when the statement began.
Rootless ==
    /\ dhdr.root = 0 /\ dhdr.numOfBlocks = 1 /\ dhdr.numOfLeafNodes = 0
    /\ dhdr.numOfInterNodes = 0 /\ dhdr.numOfPtrBucket = 0
    /\ opened = [k \in Keys |-> {}]

\* What the statement has done so far.
Doing ==
    IF inserting = <<>> THEN pc = "idle" /\ hdr = dhdr /\ Content = opened
    ELSE /\ inserting \in Keys \X Vals
         /\ pc = "find" => /\ Content = opened
                           /\ call = [op |-> "insert", key |-> inserting[1], val |-> inserting[2]]
         /\ Content \in Outcomes

CrashInv ==
    IF pc = "harmed" THEN ~open
    ELSE /\ TreeInv /\ MapInv
         /\ open => /\ IsMap(opened) /\ Doing
                    /\ Rootless \/ (dhdr.root # 0 /\ (Clean \/ Grown))

-------------------------------------------------------------------------------
(* A file that is whole is not harmed. *)

LEMMA LinksIn ==
    ASSUME TreeInv, NEW b \in DOMAIN disk
    PROVE  Links(disk[b], hdr.duplicate) \subseteq Given(hdr) \cup {0}
<1>1. PICK lo \in Ghosts, hi \in Ghosts, ht \in Ghosts, pos \in Ghosts :
         RangeInv(lo, hi, ht, pos)
  BY DEF TreeInv
<1>2. FileOK /\ BucketsOK /\ DOMAIN disk = Given(hdr)
  BY DEF TreeInv, FileInv, FileOK, Given
<1>3. /\ \A x \in L : x \in DOMAIN disk
      /\ \A x \in B : x \in DOMAIN disk
      /\ \A x \in Nodes : x \in DOMAIN disk /\ disk[x].parent \in DOMAIN disk
  BY <1>2, Kinds
<1>4. CASE b \in L
  <2>1. disk[b].type = "L" /\ b \in Nodes
    BY <1>2, <1>4, Kinds
  <2>2. disk[b].next = 0 \/ disk[b].next \in L
    BY <1>1, <1>4 DEF RangeInv, Chained
  <2>3. hdr.duplicate = "Y" => \A i \in 1 .. disk[b].size : disk[b].ptrs[i] \in B
    BY <1>2, <1>4 DEF BucketsOK
  <2> QED BY <1>2, <1>3, <2>1, <2>2, <2>3 DEF Links
<1>5. CASE b \in I
  <2>1. disk[b].type = "I" /\ b \in Nodes /\ disk[b].ptrs \in [1 .. Cap + 1 -> Nat]
    BY <1>2, <1>5, Kinds DEF Inners
  <2>2. \A q \in 1 .. Cap + 1 : disk[b].ptrs[q] = 0 \/ disk[b].ptrs[q] \in Nodes
    BY <1>1, <1>5 DEF RangeInv, Linked
  <2>3. ToSet(disk[b].ptrs) \subseteq Nodes \cup {0}
    BY <2>1, <2>2 DEF ToSet
  <2> QED BY <1>2, <1>3, <2>1, <2>3 DEF Links
<1>6. CASE b \in B
  <2>1. disk[b].type = "B" /\ (disk[b].next = 0 \/ disk[b].next \in B)
    BY <1>2, <1>6, Kinds DEF BucketsOK
  <2> QED BY <1>2, <1>3, <2>1 DEF Links
<1> QED
  BY <1>2, <1>4, <1>5, <1>6, Kinds DEF Nodes

LEMMA WereKinds ==
    ASSUME F!FileOK
    PROVE  /\ \A b \in F!Nodes : /\ b \in DOMAIN before /\ before[b] \in Leaves \cup Inners
                                 /\ before[b].parent \in DOMAIN before
           /\ \A b \in F!L : b \in F!Nodes /\ before[b] \in Leaves /\ before[b].type = "L"
           /\ \A b \in F!I : b \in F!Nodes /\ before[b] \in Inners /\ before[b].type = "I"
           /\ \A b \in F!B : b \in DOMAIN before /\ before[b].type = "B"
           /\ \A b \in DOMAIN before : b \in F!Nodes \/ b \in F!B
  BY F!Kinds, SameNames, TreeAssumption DEF F!TreeAssumption

LEMMA LinksWereIn ==
    ASSUME F!TreeInv, NEW b \in DOMAIN before
    PROVE  Links(before[b], dhdr.duplicate) \subseteq Given(dhdr) \cup {0}
<1>1. PICK lo \in Ghosts, hi \in Ghosts, ht \in Ghosts, pos \in Ghosts :
         F!RangeInv(lo, hi, ht, pos)
  BY SameNames DEF F!TreeInv
<1>2. F!FileOK /\ F!BucketsOK /\ DOMAIN before = Given(dhdr)
  BY DEF F!TreeInv, F!FileInv, F!FileOK, Given
<1>3. /\ \A x \in F!L : x \in DOMAIN before
      /\ \A x \in F!B : x \in DOMAIN before
      /\ \A x \in F!Nodes : x \in DOMAIN before /\ before[x].parent \in DOMAIN before
  BY <1>2, WereKinds
<1>4. CASE b \in F!L
  <2>1. before[b].type = "L" /\ b \in F!Nodes
    BY <1>2, <1>4, WereKinds
  <2>2. before[b].next = 0 \/ before[b].next \in F!L
    BY <1>1, <1>4 DEF F!RangeInv, F!Chained
  <2>3. dhdr.duplicate = "Y" => \A i \in 1 .. before[b].size : before[b].ptrs[i] \in F!B
    BY <1>2, <1>4 DEF F!BucketsOK
  <2> QED BY <1>2, <1>3, <2>1, <2>2, <2>3 DEF Links
<1>5. CASE b \in F!I
  <2>1. before[b].type = "I" /\ b \in F!Nodes /\ before[b].ptrs \in [1 .. Cap + 1 -> Nat]
    BY <1>2, <1>5, WereKinds DEF Inners
  <2>2. \A q \in 1 .. Cap + 1 : before[b].ptrs[q] = 0 \/ before[b].ptrs[q] \in F!Nodes
    BY <1>1, <1>5 DEF F!RangeInv, F!Linked
  <2>3. ToSet(before[b].ptrs) \subseteq F!Nodes \cup {0}
    BY <2>1, <2>2 DEF ToSet
  <2> QED BY <1>2, <1>3, <2>1, <2>3 DEF Links
<1>6. CASE b \in F!B
  <2>1. before[b].type = "B" /\ (before[b].next = 0 \/ before[b].next \in F!B)
    BY <1>2, <1>6, WereKinds DEF F!BucketsOK
  <2> QED BY <1>2, <1>3, <2>1 DEF Links
<1> QED
  BY <1>2, <1>4, <1>5, <1>6, WereKinds DEF F!Nodes

LEMMA Unharmed ==
    ASSUME TreeInv, NEW d, \A b \in Given(hdr) : d[b] = disk[b]
    PROVE  ~Harmed(d, hdr)
<1>1. DOMAIN disk = Given(hdr)
  BY DEF TreeInv, FileInv, FileOK, Given
<1> QED
  BY <1>1, LinksIn DEF Harmed

LEMMA WasUnharmed ==
    ASSUME F!TreeInv, NEW d, \A b \in Given(dhdr) : d[b] = before[b]
    PROVE  ~Harmed(d, dhdr)
<1>1. DOMAIN before = Given(dhdr)
  BY DEF F!TreeInv, F!FileInv, F!FileOK, Given
<1> QED
  BY <1>1, LinksWereIn DEF Harmed

-------------------------------------------------------------------------------
(* The chains of a harmed file. *)

IsWalk(b, c) ==
    /\ c = Chain(b) /\ c[0] = b
    /\ \A i \in 0 .. hdr.numOfBlocks :
          i # 0 => c[i] = IF c[i-1] = 0 THEN 0 ELSE disk[c[i-1]].next
    /\ ChainFrom(b) = {c[i] : i \in 0 .. hdr.numOfBlocks} \ {0}

Walks == hdr.numOfBlocks \in Nat => \A b : \E c : IsWalk(b, c)

LEMMA WalksExist == Walks
  BY ChainStep DEF Walks, IsWalk

LEMMA WalksExistNext == Walks'
  BY WalksExist, PTL

\* The links that a crash leaves are those of the file, and the header counts enough
\* blocks for a walk to meet the same.
LEMMA SameWalk ==
    ASSUME hdr.numOfBlocks \in Nat, hdr'.numOfBlocks \in Nat, hdr'.numOfBlocks <= hdr.numOfBlocks,
           NEW S, \A x \in S : disk'[x].next = disk[x].next,
           NEW b, NEW c, IsWalk(b, c),
           \A i \in 0 .. hdr.numOfBlocks : c[i] = 0 \/ c[i] \in S,
           \A i \in 0 .. hdr.numOfBlocks :
              c[i] # 0 => \E j \in 0 .. hdr'.numOfBlocks : c[j] = c[i]
    PROVE  ChainFrom(b)' = ChainFrom(b)
<1>1. PICK z, y : z = hdr.numOfBlocks /\ y = hdr'.numOfBlocks
  OBVIOUS
<1>2. z \in Nat /\ y \in Nat /\ y <= z
  BY <1>1
<1>3. PICK e : IsWalk(b, e)'
  BY <1>1, <1>2, WalksExistNext DEF Walks
<1>4. /\ e[0] = b
      /\ \A i \in 0 .. y : i # 0 => e[i] = IF e[i-1] = 0 THEN 0 ELSE disk'[e[i-1]].next
      /\ ChainFrom(b)' = {e[i] : i \in 0 .. y} \ {0}
  BY <1>1, <1>3 DEF IsWalk
<1>5. /\ c[0] = b
      /\ \A i \in 0 .. z : i # 0 => c[i] = IF c[i-1] = 0 THEN 0 ELSE disk[c[i-1]].next
      /\ ChainFrom(b) = {c[i] : i \in 0 .. z} \ {0}
  BY <1>1 DEF IsWalk
<1>6. \A i \in 0 .. z : c[i] = 0 \/ c[i] \in S
  BY <1>1
<1>7. \A i \in 0 .. z : c[i] # 0 => \E j \in 0 .. y : c[j] = c[i]
  BY <1>1
<1> DEFINE T == {i \in Nat : i <= y /\ e[i] # c[i]}
<1>8. T = {}
  <2> SUFFICES ASSUME T # {} PROVE FALSE
    OBVIOUS
  <2>1. PICK m \in T : \A x \in T : m <= x
    BY LeastNat
  <2>2. m \in Nat /\ m <= y /\ e[m] # c[m] /\ m # 0
    BY <1>4, <1>5, <2>1
  <2>3. PICK i : i = m - 1
    OBVIOUS
  <2>4. i \in Nat /\ i <= y /\ i \in 0 .. z /\ m \in 0 .. y /\ m \in 0 .. z /\ ~(m <= i)
    BY <1>2, <2>2, <2>3
  <2>5. e[i] = c[i]
    BY <2>1, <2>4
  <2>6. e[m] = IF e[i] = 0 THEN 0 ELSE disk'[e[i]].next
    BY <1>4, <2>2, <2>3, <2>4
  <2>7. c[m] = IF c[i] = 0 THEN 0 ELSE disk[c[i]].next
    BY <1>5, <2>2, <2>3, <2>4
  <2>8. c[i] = 0 \/ c[i] \in S
    BY <1>6, <2>4
  <2> QED BY <2>2, <2>5, <2>6, <2>7, <2>8
<1>9. \A i \in 0 .. y : e[i] = c[i] /\ i \in 0 .. z
  BY <1>2, <1>8
<1>10. {e[i] : i \in 0 .. y} \ {0} = {c[i] : i \in 0 .. z} \ {0}
  BY <1>7, <1>9
<1> QED
  BY <1>4, <1>5, <1>10

\* What a crash leaves if a block refers to one that the header does not count.
Harms ==
    /\ hdr'.duplicate = hdr.duplicate /\ hdr'.root # 0
    /\ hdr'.numOfBlocks \in Nat /\ hdr'.numOfBlocks <= hdr.numOfBlocks
    /\ hdr.numOfLeafNodes <= hdr'.numOfBlocks
    /\ \A c \in B : disk[c].next <= hdr'.numOfBlocks
    /\ \A b \in L : /\ disk'[b].size = disk[b].size /\ disk'[b].keys = disk[b].keys
                    /\ disk'[b].ptrs = disk[b].ptrs /\ disk'[b].next = disk[b].next
    /\ \A b \in B : disk'[b] = disk[b]

LEMMA LeavesWalked ==
    ASSUME TreeInv, hdr.root # 0, Harms
    PROVE  ChainFrom(1)' = L
<1>1. PICK lo \in Ghosts, hi \in Ghosts, ht \in Ghosts, pos \in Ghosts :
         RangeInv(lo, hi, ht, pos)
  BY DEF TreeInv
<1>2. FileInv /\ hdr.numOfBlocks \in Nat /\ hdr.numOfLeafNodes \in Nat
  BY DEF TreeInv, FileInv, HeaderOK, Headers
<1>3. PICK c : IsWalk(1, c)
  BY <1>2, WalksExist DEF Walks
<1>4. ChainFrom(1) = L
  BY <1>1, <1>2, ChainOfLeaves
<1>5. \A i \in 0 .. hdr.numOfBlocks : c[i] = 0 \/ c[i] \in L
  BY <1>3, <1>4 DEF IsWalk
<1>6. \A b \in L : c[pos[b]] = b
  BY <1>1, <1>2, <1>3, LeafAtPosition DEF IsWalk
<1>7. \A b \in L : pos[b] \in 0 .. hdr'.numOfBlocks
  <2>1. \A b \in L : pos[b] \in Nat
    BY Kinds DEF Ghosts, TreeInv, FileInv
  <2>2. \A b \in L : pos[b] < hdr.numOfLeafNodes
    BY <1>1 DEF RangeInv, Chained
  <2>3. hdr'.numOfBlocks \in Nat /\ hdr.numOfLeafNodes <= hdr'.numOfBlocks
    BY DEF Harms
  <2> QED BY <1>2, <2>1, <2>2, <2>3
<1>8. \A i \in 0 .. hdr.numOfBlocks :
         c[i] # 0 => \E j \in 0 .. hdr'.numOfBlocks : c[j] = c[i]
  BY <1>5, <1>6, <1>7
<1>9. \A x \in L : disk'[x].next = disk[x].next
  BY DEF Harms
<1>10. hdr'.numOfBlocks \in Nat /\ hdr'.numOfBlocks <= hdr.numOfBlocks
  BY DEF Harms
<1> QED
  BY <1>2, <1>3, <1>4, <1>5, <1>8, <1>9, <1>10, SameWalk

LEMMA BucketsWalked ==
    ASSUME TreeInv, Harms, NEW h \in B
    PROVE  ChainFrom(h)' = ChainFrom(h) /\ ChainFrom(h) \subseteq B
<1>1. FileInv /\ hdr.numOfBlocks \in Nat
  BY DEF TreeInv, FileInv, HeaderOK, Headers
<1>2. PICK c : IsWalk(h, c)
  BY <1>1, WalksExist DEF Walks
<1>3. PICK z, y : z = hdr.numOfBlocks /\ y = hdr'.numOfBlocks
  OBVIOUS
<1>4. y \in Nat /\ y <= z /\ \A x \in B : disk[x].next <= y /\ disk'[x].next = disk[x].next
  BY <1>3 DEF Harms
<1>5. /\ z \in Nat /\ c[0] = h
      /\ \A i \in 0 .. z : c[i] = 0 \/ (c[i] \in B /\ c[i] > i)
      /\ \A i \in 0 .. z : i # 0 => c[i] = IF c[i-1] = 0 THEN 0 ELSE disk[c[i-1]].next
      /\ ChainFrom(h) = {c[i] : i \in 0 .. z} \ {0}
      /\ \A x \in B : x \in Nat /\ x # 0 /\ x < z
  BY <1>1, <1>2, <1>3, ChainRises DEF IsWalk
<1>6. ASSUME NEW i \in 0 .. z, c[i] # 0 PROVE i \in 0 .. y
  <2>1. CASE i = 0
    BY <1>4, <2>1
  <2>2. CASE i # 0
    <3>1. PICK a : a = c[i-1]
      OBVIOUS
    <3>2. i - 1 \in 0 .. z /\ i \in Nat
      BY <1>5, <2>2
    <3>3. c[i] = IF a = 0 THEN 0 ELSE disk[a].next
      BY <1>5, <2>2, <3>1
    <3>4. a \in B /\ c[i] = disk[a].next
      BY <1>5, <1>6, <3>1, <3>2, <3>3
    <3>5. c[i] <= y /\ c[i] > i /\ c[i] \in Nat
      BY <1>4, <1>5, <1>6, <3>4
    <3> QED BY <1>4, <3>2, <3>5
  <2> QED BY <2>1, <2>2
<1>7. ChainFrom(h) \subseteq B
  BY <1>5
<1>8. /\ \A i \in 0 .. hdr.numOfBlocks : c[i] = 0 \/ c[i] \in B
      /\ \A i \in 0 .. hdr.numOfBlocks :
            c[i] # 0 => \E j \in 0 .. hdr'.numOfBlocks : c[j] = c[i]
  BY <1>3, <1>5, <1>6
<1>9. ChainFrom(h)' = ChainFrom(h)
  BY <1>1, <1>2, <1>3, <1>4, <1>8, SameWalk
<1> QED
  BY <1>7, <1>9

\* A harmed file has the entries of the file.
LEMMA HarmedContent ==
    ASSUME TreeInv, MapInv, hdr.root # 0, hdr.duplicate \in {"Y", "N"}, Harms
    PROVE  Content' = Content
<1>1. LeafChain' = L /\ LeafChain = L
  BY LeavesWalked, LeafChainIs DEF LeafChain, Harms
<1>2. \A b \in L : \A k : IndexOf(disk'[b], k) = IndexOf(disk[b], k) /\ disk'[b].ptrs = disk[b].ptrs
  BY DEF Harms, IndexOf
<1>3. \A k : Entries(k)' = Entries(k)
  BY <1>1, <1>2 DEF Entries
<1>4. hdr'.duplicate = hdr.duplicate
  BY DEF Harms
<1>5. CASE hdr.duplicate = "N"
  BY <1>3, <1>4, <1>5 DEF Content
<1>6. CASE hdr.duplicate = "Y"
  <2>1. PICK own \in Ghosts : ChainInv(own)
    BY DEF MapInv
  <2>2. \A k : \A p \in Entries(k) : p \in B
    BY <1>6, <2>1, EntriesIs DEF ChainInv
  <2>3. \A p \in B : ChainFrom(p)' = ChainFrom(p) /\ ChainFrom(p) \subseteq B
    BY BucketsWalked
  <2>4. \A c \in B : disk'[c] = disk[c]
    BY DEF Harms
  <2>5. ASSUME NEW p \in B PROVE Held(p)' = Held(p)
    BY <2>3, <2>4 DEF Held
  <2>6. \A k : UNION {Held(p)' : p \in Entries(k)} = UNION {Held(p) : p \in Entries(k)}
    BY <2>2, <2>5
  <2> QED BY <1>3, <1>4, <1>6, <2>6 DEF Content
<1> QED
  BY <1>5, <1>6

-------------------------------------------------------------------------------
(* A crash. *)

NoBlocks ==
    /\ Empty /\ hdr.numOfLeafNodes = 0 /\ hdr.numOfInterNodes = 0 /\ hdr.numOfPtrBucket = 0
    /\ hdr.numOfBlocks \in {0, 1} /\ HeaderOK

LEMMA EmptyNext == NoBlocks' => TreeInv'
<1>1. NoBlocks => TreeInv
  BY EmptyFile DEF NoBlocks
<1> QED
  BY <1>1, PTL

\* The file without a root comes back.
LEMMA RootlessCrash ==
    ASSUME Rootless, HeaderOK, open, DOMAIN disk' = {}, hdr' = dhdr, dhdr' = dhdr,
           pc' = "idle", open' = FALSE
    PROVE  TreeInv' /\ MapInv' /\ Content' = opened
<1>1. NoBlocks'
  <2>0. dhdr \in Headers /\ dhdr.duplicate # "none" /\ dhdr.numOfBlocks # 0
    BY DEF HeaderOK, Rootless
  <2>1. HeaderOK'
    BY <2>0 DEF HeaderOK
  <2>2. /\ hdr'.root = 0 /\ hdr'.numOfBlocks = 1 /\ hdr'.numOfLeafNodes = 0
        /\ hdr'.numOfInterNodes = 0 /\ hdr'.numOfPtrBucket = 0
    BY DEF Rootless
  <2> QED BY <2>1, <2>2 DEF NoBlocks, Empty
<1>2. TreeInv'
  BY <1>1, EmptyNext
<1>3. L' = {} /\ B' = {}
  BY DEF L, B, OfType
<1>4. \A k, p : ~Filed(k, p)'
  BY <1>3 DEF Filed
<1>5. PICK own : own = [x \in Nat |-> x]
  OBVIOUS
<1>6. own \in Ghosts /\ ChainInv(own)'
  BY <1>3, <1>4, <1>5 DEF Ghosts, ChainInv
<1>7. \A k, v : ~Has(own, k, v)'
  BY <1>3, <1>4 DEF Has
<1>8. opened = [k \in Keys |-> opened[k]] /\ \A k \in Keys : \A v : v \in opened[k] <=> Has(own, k, v)'
  BY <1>7 DEF Rootless
<1>9. Content' = opened
  BY <1>2, <1>6, <1>8, ShownNext, ContentIs
<1> QED
  BY <1>2, <1>4, <1>6, <1>9 DEF MapInv, KeysIn, CallInv

LEMMA ContentInOutcomes ==
    ASSUME IsMap(opened), Doing
    PROVE  Content \in Outcomes
  BY OutcomesAre DEF Doing

LEMMA WholeDomain ==
    ASSUME Whole
    PROVE  DOMAIN before = Given(dhdr)
  BY DEF Whole, F!TreeInv, F!FileInv, F!FileOK, Given

\* What a crash does to the variables.
LEMMA CrashIs ==
    ASSUME NEW n, Crash(n), NEW d, d = Torn(n)
    PROVE  /\ open /\ open' = FALSE /\ hdr' = dhdr /\ dhdr' = dhdr
           /\ Harmed(d, dhdr) => pc' = "harmed" /\ disk' = d
           /\ ~Harmed(d, dhdr) => pc' = "idle" /\ disk' = [b \in Given(dhdr) |-> d[b]]
  BY DEF Crash, HeaderLeft

\* The file in front of the latest step comes back.
LEMMA BackCrash ==
    ASSUME Whole, IsMap(opened), NEW n, Crash(n), Reads(n, before, Given(dhdr))
    PROVE  pc' = "idle" /\ TreeInv' /\ MapInv' /\ Content' \in Outcomes
<1>1. PICK d : d = Torn(n)
  OBVIOUS
<1>2. \A b \in Given(dhdr) : d[b] = before[b]
  BY <1>1 DEF Reads
<1>3. ~Harmed(d, dhdr)
  BY <1>2, WasUnharmed DEF Whole
<1>4. /\ hdr' = dhdr /\ dhdr' = dhdr /\ pc' = "idle" /\ open' = FALSE
      /\ disk' = [b \in Given(dhdr) |-> d[b]]
  BY <1>1, <1>3, CrashIs
<1>5. DOMAIN disk' = DOMAIN before /\ \A b \in DOMAIN before : disk'[b] = before[b]
  BY <1>2, <1>4, WholeDomain
<1> QED
  BY <1>4, <1>5, RestoredMap

\* Every write of the latest step is in the file.
LEMMA ForthCrash ==
    ASSUME TreeInv, MapInv, hdr = dhdr, pc # "parent", NEW n, Crash(n),
           Reads(n, disk, DOMAIN disk)
    PROVE  pc' = "idle" /\ TreeInv' /\ MapInv' /\ Content' = Content
<1>1. PICK d : d = Torn(n)
  OBVIOUS
<1>0. DOMAIN disk = Given(hdr)
  BY DEF TreeInv, FileInv, FileOK, Given
<1>2. \A b \in Given(hdr) : d[b] = disk[b]
  BY <1>0, <1>1 DEF Reads
<1>3. ~Harmed(d, hdr)
  BY <1>2, Unharmed
<1>4. /\ hdr' = hdr /\ dhdr' = hdr /\ pc' = "idle" /\ open' = FALSE
      /\ disk' = [b \in Given(hdr) |-> d[b]]
  BY <1>1, <1>3, CrashIs
<1>5. DOMAIN disk' = DOMAIN disk /\ \A b \in DOMAIN disk : disk'[b] = disk[b]
  BY <1>0, <1>2, <1>4
<1> QED
  BY <1>4, <1>5, Stays

\* A block refers to one that the header does not count.
LEMMA HarmedCrash ==
    ASSUME TreeInv, MapInv, Grown, dhdr.root # 0, NEW n, Crash(n),
           Harmed(Torn(n), dhdr), SameLeaves(n)
    PROVE  pc' = "harmed" /\ open' = FALSE /\ Content' = Content
<1>1. PICK d : d = Torn(n)
  OBVIOUS
<1>2. hdr' = dhdr /\ pc' = "harmed" /\ open' = FALSE /\ open /\ disk' = d
  BY <1>1, CrashIs
<1>3. /\ FileOK /\ hdr \in Headers /\ dhdr \in Headers /\ hdr.duplicate = dhdr.duplicate
      /\ hdr.duplicate \in {"Y", "N"}
  BY <1>2 DEF TreeInv, FileInv, HeaderOK, Headers
<1>4. dhdr.numOfBlocks \in Nat /\ hdr.numOfBlocks \in Nat /\ dhdr.numOfBlocks <= hdr.numOfBlocks
  BY <1>3 DEF Headers, Grown
<1>5. hdr.root # 0
  <2>1. PICK b \in Given(dhdr) : TRUE
    BY DEF Harmed
  <2>2. b \in DOMAIN disk
    BY <1>3, <1>4, <2>1 DEF FileOK, Given
  <2> QED BY <1>3, <2>2 DEF FileOK
<1>6. Harms
  BY <1>1, <1>2, <1>3, <1>4 DEF Harms, Grown, SameLeaves
<1> QED
  BY <1>2, <1>3, <1>5, <1>6, HarmedContent

LEMMA CrashStep ==
    ASSUME CrashInv, NEW n \in 0 .. Len(writes), Crash(n)
    PROVE  CrashInv' /\ Content' \in Outcomes
<1>1. /\ open /\ open' = FALSE /\ hdr' = dhdr /\ dhdr' = dhdr
      /\ ~Harmed(Torn(n), dhdr) => pc' = "idle" /\ DOMAIN disk' = Given(dhdr)
  BY CrashIs
<1>2. /\ TreeInv /\ MapInv /\ IsMap(opened) /\ Doing
      /\ Rootless \/ (dhdr.root # 0 /\ (Clean \/ Grown))
  BY <1>1 DEF CrashInv
<1>3. Content \in Outcomes /\ opened \in Outcomes
  BY <1>2, ContentInOutcomes, OutcomesAre
<1>4. ((TreeInv' /\ MapInv') \/ pc' = "harmed") => CrashInv'
  BY <1>1 DEF CrashInv
<1>5. CASE Rootless
  <2>1. Given(dhdr) = {}
    BY <1>5 DEF Rootless, Given
  <2>2. ~Harmed(Torn(n), dhdr)
    BY <2>1 DEF Harmed
  <2>3. HeaderOK
    BY <1>2 DEF TreeInv, FileInv
  <2> QED BY <1>1, <1>3, <1>4, <1>5, <2>1, <2>2, <2>3, RootlessCrash
<1>6. CASE Clean
  <2>1. DOMAIN disk = Given(dhdr)
    BY <1>2, <1>6 DEF Clean, TreeInv, FileInv, FileOK, Given
  <2>2. Reads(n, before, DOMAIN disk) \/ Reads(n, disk, DOMAIN disk)
    BY <1>6 DEF Clean
  <2>3. Whole /\ hdr = dhdr /\ pc # "parent"
    BY <1>6 DEF Clean
  <2> QED BY <1>2, <1>3, <1>4, <2>1, <2>2, <2>3, BackCrash, ForthCrash
<1>7. CASE Grown /\ dhdr.root # 0
  <2>1. \/ Whole /\ Reads(n, before, Given(dhdr))
        \/ Harmed(Torn(n), dhdr) /\ SameLeaves(n)
    BY <1>7 DEF Grown
  <2> QED BY <1>2, <1>3, <1>4, <1>7, <2>1, BackCrash, HarmedCrash
<1> QED
  BY <1>2, <1>5, <1>6, <1>7

-------------------------------------------------------------------------------
(* Steps that write nothing. *)

LEMMA AroundStep ==
    ASSUME NoNil, TreeInv, MapInv, Next \/ UNCHANGED vars
    PROVE  Around /\ MapInv'
<1>1. TreeInv'
  BY NextKeeps, StutterKeeps
<1>2. Around
  BY <1>1, InvShown, ShownNext DEF Around
<1> QED
  BY <1>2, NextMaps, StutterMaps DEF Maps

LEMMA NothingWritten ==
    ASSUME Around, disk' = disk, hdr' = hdr
    PROVE  Content' = Content
<1>1. SameEntries
  BY DEF SameEntries, Filed, L, B, OfType
<1> QED
  BY <1>1, SameMap DEF Around

\* A tree without a root has no entries.
LEMMA NoEntries ==
    ASSUME hdr.root = 0
    PROVE  Content = [k \in Keys |-> {}]
<1>1. \A k : Entries(k) = {}
  BY DEF Entries, LeafChain
<1> QED
  BY <1>1 DEF Content

\* A step that writes nothing leaves the file that a crash would bring back.
LEMMA QuietClean ==
    ASSUME TreeInv, MapInv, hdr = dhdr, pc # "parent", before' = disk, disk' = disk,
           hdr' = hdr, dhdr' = dhdr, pc' # "parent", Content \in Outcomes'
    PROVE  Clean'
<1>1. Whole'
  BY SnapshotMap
<1>2. \A n : \A b \in DOMAIN disk' : Torn(n)'[b] = disk'[b]
  BY DEF Torn
<1>3. \A n : Reads(n, disk, DOMAIN disk)'
  BY <1>2 DEF Reads
<1> QED
  BY <1>1, <1>3 DEF Clean

\* A file without a root counts nothing.
LEMMA NothingCounted ==
    ASSUME TreeInv, hdr.root = 0, hdr.duplicate # "none"
    PROVE  /\ hdr.numOfBlocks = 1 /\ hdr.numOfLeafNodes = 0 /\ hdr.numOfInterNodes = 0
           /\ hdr.numOfPtrBucket = 0
<1>1. HeaderOK /\ FileOK /\ Counted /\ hdr \in Headers
  BY DEF TreeInv, FileInv, HeaderOK
<1>2. PICK z : z = hdr.numOfBlocks
  OBVIOUS
<1>3. DOMAIN disk = {} /\ DOMAIN disk = 1 .. z - 1 /\ z \in Nat /\ z # 0
  BY <1>1, <1>2 DEF FileOK, HeaderOK, Headers
<1>4. z = 1
  <2>1. 1 \notin 1 .. z - 1
    BY <1>3
  <2> QED BY <1>3, <2>1
<1>5. L = {} /\ I = {} /\ B = {}
  BY <1>3 DEF L, I, B, OfType
<1>6. Cardinality({}) = 0
  BY FS_EmptySet
<1> QED
  BY <1>1, <1>2, <1>4, <1>5, <1>6 DEF Counted

Undone == IsMap(opened) => opened \in Outcomes

LEMMA OutcomesNext == IsMap(opened)' => opened' \in Outcomes'
<1>1. Undone
  BY OutcomesAre DEF Undone
<1>2. Undone'
  BY <1>1, PTL
<1> QED
  BY <1>2 DEF Undone

LEMMA BeginStep ==
    ASSUME NoNil, TreeInv, MapInv, ~open, Begin
    PROVE  CrashInv'
<1>1. /\ (\E mode \in Modes : Create(mode)) \/ Open
      /\ opened' = Content /\ inserting' = <<>> /\ before' = disk
  BY DEF Begin, Wrote
<1>2. Around /\ MapInv'
  BY <1>1, AroundStep DEF Next
<1>3. /\ pc = "idle" /\ pc' = "idle" /\ hdr' = dhdr' /\ disk' = disk /\ hdr = dhdr
  <2>1. hdr = dhdr
    BY DEF TreeInv, FileInv, HeaderOK
  <2>2. CASE Open
    BY <2>1, <2>2 DEF Open
  <2>3. ASSUME NEW mode \in Modes, Create(mode)
        PROVE  pc = "idle" /\ pc' = "idle" /\ hdr' = dhdr' /\ disk' = disk
    BY <2>3 DEF Create
  <2> QED BY <1>1, <2>1, <2>2, <2>3
<1>4. PICK c : c = Content
  OBVIOUS
<1>5. IsMap(opened')
  <2>1. c = [k \in Keys |-> c[k]]
    BY <1>4 DEF Content
  <2> QED BY <1>1, <1>4, <2>1 DEF IsMap
<1>6. Content \in Outcomes'
  <2>1. IsMap(opened)'
    BY <1>5 DEF IsMap
  <2> QED BY <1>1, <2>1, OutcomesNext
<1>7. ASSUME NEW mode \in Modes, Create(mode)
      PROVE  Content' = Content /\ Rootless'
  <2>1. Content' = Content
    BY <1>2, <1>7, CreateMap
  <2>2. dhdr.duplicate = "none" /\ dhdr' = hdr'
        /\ hdr' = [NoHeader EXCEPT !.duplicate = mode, !.numOfBlocks = 1]
    BY <1>7 DEF Create
  <2>3. hdr.root = 0
    BY <1>3, <2>2 DEF TreeInv, FileInv, HeaderOK, NoHeader
  <2>4. opened' = [k \in Keys |-> {}]
    BY <1>1, <2>3, NoEntries
  <2> QED BY <2>1, <2>2, <2>4 DEF Rootless, NoHeader
<1>8. ASSUME Open
      PROVE  Content' = Content /\ (Rootless' \/ (dhdr'.root # 0 /\ Clean'))
  <2>1. hdr' = hdr /\ dhdr' = dhdr /\ hdr.duplicate # "none"
    BY <1>3, <1>8 DEF Open
  <2>2. Content' = Content
    BY <1>2, <1>3, <2>1, NothingWritten
  <2>3. ASSUME hdr.root = 0 PROVE Rootless'
    <3>1. /\ hdr.numOfBlocks = 1 /\ hdr.numOfLeafNodes = 0 /\ hdr.numOfInterNodes = 0
          /\ hdr.numOfPtrBucket = 0
      BY <2>1, <2>3, NothingCounted
    <3>2. opened' = [k \in Keys |-> {}]
      BY <1>1, <2>3, NoEntries
    <3> QED BY <1>3, <2>1, <2>3, <3>1, <3>2 DEF Rootless
  <2>4. Clean'
    BY <1>1, <1>3, <1>6, <2>1, QuietClean
  <2> QED BY <1>3, <2>1, <2>2, <2>3, <2>4
<1>9. Content' = Content /\ (Rootless' \/ (dhdr'.root # 0 /\ Clean'))
  BY <1>1, <1>7, <1>8
<1>10. Doing'
  BY <1>1, <1>3, <1>9 DEF Doing
<1>11. IsMap(opened)'
  BY <1>5 DEF IsMap
<1> QED
  BY <1>2, <1>3, <1>9, <1>10, <1>11 DEF CrashInv, Around

-------------------------------------------------------------------------------
(* The insertion of a statement begins. *)

\* The two contents that the statement may leave.
LEMMA TwoOutcomes ==
    ASSUME IsMap(opened), opened' = opened, NEW k, NEW v, inserting' = <<k, v>>
    PROVE  opened \in Outcomes' /\ [opened EXCEPT ![k] = @ \cup {v}] \in Outcomes'
<1>1. opened \in Outcomes'
  BY DEF Outcomes
<1>2. <<k, v>> # <<>> /\ <<k, v>>[1] = k /\ <<k, v>>[2] = v
  OBVIOUS
<1>3. PICK i : i = inserting'
  OBVIOUS
<1>4. i \in {inserting'} \ {<<>>} /\ i[1] = k /\ i[2] = v
  BY <1>2, <1>3
<1>5. [opened' EXCEPT ![i[1]] = @ \cup {i[2]}] \in Outcomes'
  BY <1>4 DEF Outcomes
<1>6. [opened' EXCEPT ![i[1]] = @ \cup {i[2]}] = [opened EXCEPT ![k] = @ \cup {v}]
  BY <1>4
<1> QED
  BY <1>1, <1>5, <1>6

LEMMA FirstContent ==
    ASSUME NoNil, Around, NEW k \in Keys, NEW v \in Vals, InsertFirst(k, v)
    PROVE  Content' = [Content EXCEPT ![k] = @ \cup {v}]
<1>1. KeyEntered(k, v, 2)
  BY InsertFirstKeeps DEF Around
<1>2. \A p : ~Filed(k, p)
  <2>1. DOMAIN disk = {}
    BY DEF InsertFirst, Around, TreeInv, FileInv, FileOK
  <2> QED BY <2>1 DEF Filed, L, OfType
<1> QED
  BY <1>1, <1>2, EnterMap DEF Around

LEMMA InsertStep ==
    ASSUME NoNil, CrashInv, open, NEW k \in Keys, NEW v \in Vals, Insert(k, v)
    PROVE  CrashInv'
<1>1. /\ inserting = <<>> /\ inserting' = <<k, v>> /\ opened' = opened
      /\ InsertFirst(k, v) \/ (BeginInsert(k, v) /\ before' = disk)
      /\ pc = "idle"
  BY DEF Insert, InsertFirst, BeginInsert, Wrote
<1>2. /\ TreeInv /\ MapInv /\ IsMap(opened) /\ hdr = dhdr /\ Content = opened
      /\ Rootless \/ dhdr.root # 0
  BY <1>1 DEF CrashInv, Doing
<1>3. Around /\ MapInv'
  BY <1>1, <1>2, AroundStep DEF Next
<1>4. opened \in Outcomes' /\ [opened EXCEPT ![k] = @ \cup {v}] \in Outcomes'
  BY <1>1, <1>2, TwoOutcomes
<1>5. inserting' \in Keys \X Vals /\ inserting' # <<>> /\ inserting'[1] = k /\ inserting'[2] = v
  BY <1>1
<1>6. IsMap(opened)'
  BY <1>1, <1>2 DEF IsMap
<1>7. CASE InsertFirst(k, v)
  <2>1. pc' = "idle" /\ dhdr' = dhdr /\ hdr.root = 0
    BY <1>7 DEF InsertFirst, Return
  <2>2. Content' = [opened EXCEPT ![k] = @ \cup {v}]
    BY <1>2, <1>3, <1>7, FirstContent
  <2>3. Doing'
    BY <1>4, <1>5, <2>1, <2>2 DEF Doing
  <2>4. Rootless'
    BY <1>1, <1>2, <2>1 DEF Rootless
  <2> QED BY <1>3, <1>6, <2>1, <2>3, <2>4 DEF CrashInv, Around
<1>8. CASE BeginInsert(k, v) /\ before' = disk
  <2>1. /\ pc' = "find" /\ call' = [op |-> "insert", key |-> k, val |-> v]
        /\ disk' = disk /\ hdr' = hdr /\ dhdr' = dhdr /\ hdr.root # 0
    BY <1>8 DEF BeginInsert, Search
  <2>2. Content' = opened
    BY <1>2, <1>3, <2>1, NothingWritten
  <2>3. Doing'
    BY <1>1, <1>4, <1>5, <2>1, <2>2 DEF Doing
  <2>4. Content \in Outcomes'
    BY <1>2, <1>4
  <2>5. Clean'
    BY <1>1, <1>2, <1>8, <2>1, <2>4, QuietClean
  <2> QED BY <1>2, <1>3, <1>6, <2>1, <2>3, <2>5 DEF CrashInv, Around
<1> QED
  BY <1>1, <1>7, <1>8

LEMMA EndStep ==
    ASSUME NoNil, CrashInv, End
    PROVE  CrashInv'
<1>1. Close /\ open /\ open' = FALSE /\ pc' = "idle" /\ pc = "idle"
  BY DEF End, Close
<1>2. TreeInv /\ MapInv
  BY <1>1 DEF CrashInv
<1>3. Around /\ MapInv'
  BY <1>1, <1>2, AroundStep DEF Next
<1> QED
  BY <1>1, <1>3 DEF CrashInv, Around

LEMMA StartCrash == CrashInit => CrashInv
<1> SUFFICES ASSUME CrashInit PROVE CrashInv
  OBVIOUS
<1>1. Init /\ pc = "idle" /\ ~open
  BY DEF CrashInit, Init
<1> QED
  BY <1>1, InitTree, InitMaps DEF CrashInv

-------------------------------------------------------------------------------
(* A step of the insertion: the contents. *)

LEMMA NewKeyContent ==
    ASSUME Around, InsertInLeaf \/ SplitLeaf, NEW k, NEW v, k = call.key, v = call.val
    PROVE  Content' = [Content EXCEPT ![k] = @ \cup {v}]
<1>1. AtLeaf("insert") /\ IndexOf(disk[at], k) = {}
  BY DEF InsertInLeaf, SplitLeaf, NewKey
<1>2. k \in Keys /\ \A p : ~Filed(k, p)
  BY <1>1, AtLeafFacts
<1>3. \E b : KeyEntered(k, v, b)
  BY InsertInLeafKeeps, SplitLeafKeeps DEF Around
<1>4. PICK b : KeyEntered(k, v, b)
  BY <1>3
<1> QED
  BY <1>2, <1>4, EnterMap DEF Around

LEMMA BlockContent ==
    ASSUME Around, AddToBucket, NEW k, NEW v, k = call.key, v = call.val
    PROVE  Content' = [Content EXCEPT ![k] = @ \cup {v}]
<1>1. PICK h : h = disk[at].ptrs[Min(IndexOf(disk[at], k))]
  OBVIOUS
<1>2. AtLeaf("insert") /\ IndexOf(disk[at], k) # {} /\ hdr.duplicate = "Y"
  BY DEF AddToBucket
<1>3. k \in Keys /\ v \in Nat /\ Filed(k, h)
  BY <1>1, <1>2, AtLeafFacts
<1>4. BlockEntered(h, v)
  BY <1>1, <1>2, AddToBucketKeeps DEF Around
<1> QED
  BY <1>3, <1>4, BlockMap DEF Around

\* The steps of an insertion.
LEMMA StepIs ==
    ASSUME OrderedStep
    PROVE  /\ before' = disk /\ dhdr' = dhdr /\ open' = open /\ pc \in {"find", "parent"}
           /\ Next /\ pc' # "harmed"
           /\ Descend => pc' \in {"find", "panic"} /\ call' = call
           /\ ~Descend => pc' # "find"
<1>1. before' = disk /\ Step
  BY DEF OrderedStep, Wrote, Step
<1>2. CASE Descend
  BY <1>1, <1>2 DEF Descend, Next
<1>3. CASE Refuse \/ AddToBucket
  BY <1>1, <1>3 DEF Descend, Refuse, AddToBucket, AtLeaf, Return, Next
<1>4. CASE InsertInLeaf \/ SplitLeaf
  BY <1>1, <1>4 DEF Descend, InsertInLeaf, SplitLeaf, NewKey, AtLeaf, Return, Next
<1>5. CASE NewRoot \/ InsertInParent \/ SplitInternal
  BY <1>1, <1>5 DEF Descend, NewRoot, InsertInParent, SplitInternal, Ascending, Return, Next
<1> QED
  BY <1>2, <1>3, <1>4, <1>5 DEF OrderedStep

LEMMA StepContent ==
    ASSUME NoNil, Around, Doing, IsMap(opened), OrderedStep, UNCHANGED statement
    PROVE  /\ Doing' /\ Outcomes' = Outcomes /\ IsMap(opened)'
           /\ pc = "find" => Content = opened /\ opened \in Outcomes
<1>1. opened' = opened /\ inserting' = inserting /\ Outcomes' = Outcomes
  BY DEF statement, Outcomes
<1>2. /\ pc \in {"find", "parent"}
      /\ Descend => pc' \in {"find", "panic"} /\ call' = call
      /\ ~Descend => pc' # "find"
  BY StepIs
<1>3. inserting # <<>> /\ inserting \in Keys \X Vals /\ Content \in Outcomes
  BY <1>2 DEF Doing
<1>4. PICK k, v : k = inserting[1] /\ v = inserting[2]
  OBVIOUS
<1>5. inserting = <<k, v>>
  BY <1>3, <1>4
<1>6. pc = "find" => Content = opened /\ call = [op |-> "insert", key |-> k, val |-> v]
  BY <1>3, <1>4 DEF Doing
<1>7. opened \in Outcomes /\ [opened EXCEPT ![k] = @ \cup {v}] \in Outcomes
  BY <1>5, OutcomesAre
<1>8. CASE Descend \/ Refuse
  <2>1. disk' = disk /\ hdr' = hdr /\ pc = "find"
    BY <1>8 DEF Descend, Refuse, AtLeaf
  <2>2. Content' = opened
    BY <1>6, <2>1, NothingWritten
  <2>3. pc' = "find" => call' = call
    BY <1>2
  <2>4. Doing'
    BY <1>1, <1>3, <1>4, <1>6, <1>7, <2>1, <2>2, <2>3 DEF Doing
  <2> QED BY <1>1, <1>6, <1>7, <2>4 DEF IsMap
<1>9. CASE AddToBucket \/ InsertInLeaf \/ SplitLeaf
  <2>1. pc = "find" /\ ~Descend
    BY <1>9 DEF Descend, AddToBucket, InsertInLeaf, SplitLeaf, NewKey, AtLeaf
  <2>2. call.key = k /\ call.val = v
    BY <1>6, <2>1
  <2>3. Content' = [opened EXCEPT ![k] = @ \cup {v}]
    BY <1>6, <1>9, <2>1, <2>2, NewKeyContent, BlockContent
  <2>4. Doing'
    BY <1>1, <1>2, <1>3, <1>7, <2>1, <2>3 DEF Doing
  <2> QED BY <1>1, <1>6, <1>7, <2>4 DEF IsMap
<1>10. CASE NewRoot \/ InsertInParent \/ SplitInternal
  <2>1. SameEntries /\ pc = "parent" /\ pc' # "find"
    BY <1>10, NewRootKeeps, InsertInParentKeeps, SplitInternalKeeps
       DEF Around, NewRoot, InsertInParent, SplitInternal, Ascending, Return
  <2>2. Content' = Content
    BY <2>1, SameMap DEF Around
  <2>3. Doing'
    BY <1>1, <1>3, <2>1, <2>2 DEF Doing
  <2> QED BY <1>1, <2>1, <2>3 DEF IsMap
<1> QED
  BY <1>8, <1>9, <1>10 DEF OrderedStep

-------------------------------------------------------------------------------
(* The writes of a step. *)

LEMMA OneInFront ==
    ASSUME NEW S, NEW a \in S, NEW s \in Seq(S), NEW t \in Seq(S), Len(t) = Len(s) + 1,
           t[1] = a, \A i \in 1 .. Len(s) : t[i + 1] = s[i]
    PROVE  <<a>> \o s = t
<1>1. PICK x, z : x = <<a>> /\ z = x \o s
  OBVIOUS
<1>2. x \in Seq(S) /\ Len(x) = 1 /\ x[1] = a /\ Len(s) \in Nat
  BY <1>1
<1>3. /\ z \in Seq(S) /\ Len(z) = 1 + Len(s)
      /\ \A i \in 1 .. 1 + Len(s) : z[i] = IF i <= 1 THEN x[i] ELSE s[i - 1]
  BY <1>1, <1>2, ConcatProperties
<1>4. ASSUME NEW i \in 1 .. Len(s) + 1 PROVE z[i] = t[i]
  <2>1. CASE i = 1
    BY <1>2, <1>3, <2>1
  <2>2. CASE i # 1
    <3>1. PICK j : j = i - 1
      OBVIOUS
    <3>2. j \in 1 .. Len(s) /\ j + 1 = i /\ ~(i <= 1) /\ i \in 1 .. 1 + Len(s)
      BY <1>2, <2>2, <3>1
    <3>3. t[i] = s[j]
      BY <3>2
    <3>4. z[i] = s[j]
      BY ONLY <1>3, <3>1, <3>2
    <3> QED BY <3>3, <3>4
  <2> QED BY <2>1, <2>2
<1>5. Len(z) = Len(s) + 1 /\ Len(s) + 1 \in Nat
  BY <1>2, <1>3
<1>6. Array(Len(s) + 1, z) /\ Array(Len(s) + 1, t)
  BY <1>3, <1>5, SeqIsArray
<1>7. z = t
  BY <1>4, <1>5, <1>6, SameArray
<1> QED
  BY <1>1, <1>7

LEMMA Pair ==
    ASSUME NEW a \in Nat, NEW b \in Nat
    PROVE  <<a>> \o <<b>> = <<a, b>>
<1>1. PICK s, t : s = <<b>> /\ t = <<a, b>>
  OBVIOUS
<1>2. s \in Seq(Nat) /\ t \in Seq(Nat) /\ Len(s) = 1 /\ Len(t) = 2 /\ t[1] = a /\ t[2] = b /\ s[1] = b
  BY <1>1
<1>3. Len(t) = Len(s) + 1 /\ \A i \in 1 .. Len(s) : t[i + 1] = s[i]
  BY <1>2
<1> QED
  BY <1>1, <1>2, <1>3, OneInFront

LEMMA Triple ==
    ASSUME NEW a \in Nat, NEW b \in Nat, NEW c \in Nat
    PROVE  <<a>> \o <<b, c>> = <<a, b, c>>
<1>1. PICK s, t : s = <<b, c>> /\ t = <<a, b, c>>
  OBVIOUS
<1>2. /\ s \in Seq(Nat) /\ t \in Seq(Nat) /\ Len(s) = 2 /\ Len(t) = 3
      /\ t[1] = a /\ t[2] = b /\ t[3] = c /\ s[1] = b /\ s[2] = c
  BY <1>1
<1>3. Len(t) = Len(s) + 1 /\ \A i \in 1 .. Len(s) : t[i + 1] = s[i]
  BY <1>2
<1> QED
  BY <1>1, <1>2, <1>3, OneInFront

LEMMA FirstOnes ==
    ASSUME NEW S, NEW w \in Seq(S), NEW n \in 0 .. Len(w)
    PROVE  ToSet(SubSeq(w, 1, n)) = {w[i] : i \in 1 .. n}
<1>1. PICK s : s = SubSeq(w, 1, n)
  OBVIOUS
<1>2. DOMAIN s = 1 .. n /\ \A i \in 1 .. n : s[i] = w[i]
  BY <1>1
<1> QED
  BY <1>1, <1>2 DEF ToSet

\* The file of the next state after n of its writes.
LEMMA TornNext ==
    ASSUME NEW n, NEW b \in DOMAIN disk'
    PROVE  Torn(n)'[b] = IF b \in ToSet(SubSeq(writes', 1, n)) THEN disk'[b]
                         ELSE IF b \in DOMAIN before' THEN before'[b]
                         ELSE Unwritten(disk'[b].type)
  BY DEF Torn

\* What any number of the writes of a step leaves.
WritesTell ==
    \A n \in 0 .. Len(writes) :
       \/ Whole /\ Reads(n, before, Given(dhdr))
       \/ Harmed(Torn(n), dhdr) /\ SameLeaves(n)

\* All blocks but the last one written are new, and the last one refers to a block
\* that the header in the file does not count.
LEMMA LastTells ==
    ASSUME DOMAIN disk = Given(dhdr), dhdr' = dhdr, before' = disk, DOMAIN disk \subseteq DOMAIN disk',
           Whole', NEW w \in Seq(Nat), writes' = w, NEW m, m = Len(w), m # 0,
           w[m] \in DOMAIN disk,
           \A i \in 1 .. m : i # m => w[i] \notin DOMAIN disk,
           \A b \in DOMAIN disk' : b \notin DOMAIN disk \/ disk'[b] # disk[b] =>
              \E i \in 1 .. m : w[i] = b,
           ~(Links(disk'[w[m]], dhdr.duplicate) \subseteq Given(dhdr) \cup {0})
    PROVE  WritesTell'
<1> SUFFICES ASSUME NEW n \in 0 .. m
             PROVE  \/ Whole' /\ Reads(n, before, Given(dhdr))'
                    \/ Harmed(Torn(n), dhdr)' /\ SameLeaves(n)'
  BY DEF WritesTell
<1>0. m \in Nat
  OBVIOUS
<1>1. ToSet(SubSeq(writes', 1, n)) = {w[i] : i \in 1 .. n}
  BY FirstOnes
<1>2. CASE n # m
  <2>1. \A b \in DOMAIN disk : b \notin {w[i] : i \in 1 .. n}
    BY <1>0, <1>2
  <2>2. \A b \in DOMAIN disk : Torn(n)'[b] = before'[b]
    BY <1>1, <2>1, TornNext
  <2> QED BY <2>2 DEF Reads
<1>3. CASE n = m
  <2>1. ASSUME NEW b \in DOMAIN disk' PROVE Torn(n)'[b] = disk'[b]
    <3>1. CASE b \in {w[i] : i \in 1 .. n}
      BY <1>1, <3>1, TornNext
    <3>2. CASE b \notin {w[i] : i \in 1 .. n}
      <4>1. b \in DOMAIN disk /\ disk'[b] = disk[b]
        BY <1>3, <3>2
      <4> QED BY <1>1, <3>2, <4>1, TornNext
    <3> QED BY <3>1, <3>2
  <2>2. /\ \A b \in L' : b \in DOMAIN disk'
        /\ \A b \in B' : b \in DOMAIN disk'
    BY DEF L, B, OfType
  <2>3. SameLeaves(n)'
    BY <2>1, <2>2 DEF SameLeaves
  <2>4. w[m] \in Given(dhdr') /\ Torn(n)'[w[m]] = disk'[w[m]]
    BY <2>1
  <2>5. Harmed(Torn(n), dhdr)'
    BY <2>4 DEF Harmed
  <2> QED BY <2>3, <2>5
<1> QED
  BY <1>2, <1>3

\* One block changes: the file reads as before or as after the step.
LEMMA OneTells ==
    ASSUME before' = disk, DOMAIN disk' = DOMAIN disk, NEW c,
           \A b \in DOMAIN disk : b # c => disk'[b] = disk[b], NEW n
    PROVE  Reads(n, before, DOMAIN disk)' \/ Reads(n, disk, DOMAIN disk)'
<1>1. \A b \in DOMAIN disk : Torn(n)'[b] = IF b \in ToSet(SubSeq(writes', 1, n)) THEN disk'[b] ELSE disk[b]
  BY TornNext
<1>2. CASE c \in ToSet(SubSeq(writes', 1, n))
  <2>1. \A b \in DOMAIN disk : Torn(n)'[b] = disk'[b]
    BY <1>1, <1>2
  <2> QED BY <2>1 DEF Reads
<1>3. CASE c \notin ToSet(SubSeq(writes', 1, n))
  <2>1. \A b \in DOMAIN disk : Torn(n)'[b] = before'[b]
    BY <1>1, <1>3
  <2> QED BY <2>1 DEF Reads
<1> QED
  BY <1>2, <1>3

LEMMA OneClean ==
    ASSUME TreeInv, MapInv, hdr = dhdr, pc # "parent", before' = disk, DOMAIN disk' = DOMAIN disk,
           NEW c, \A b \in DOMAIN disk : b # c => disk'[b] = disk[b],
           hdr' = hdr, dhdr' = dhdr, pc' # "parent", Content \in Outcomes'
    PROVE  Clean'
<1>1. Whole'
  BY SnapshotMap
<1>2. \A n : Reads(n, before, DOMAIN disk)' \/ Reads(n, disk, DOMAIN disk)'
  BY OneTells
<1> QED
  BY <1>1, <1>2 DEF Clean

-------------------------------------------------------------------------------
(* A step of the insertion at its leaf: the writes. *)

\* What is needed of the file in front of the step.
LEMMA FileFacts ==
    ASSUME TreeInv
    PROVE  /\ DOMAIN disk = Given(hdr) /\ hdr.numOfBlocks \in Nat /\ hdr.numOfLeafNodes \in Nat
           /\ hdr.numOfLeafNodes <= hdr.numOfBlocks /\ hdr \in Headers
           /\ hdr.numOfBlocks \notin Given(hdr) \cup {0} \/ hdr.root = 0
           /\ \A b \in DOMAIN disk : b \in Nat /\ b # 0 /\ b < hdr.numOfBlocks
           /\ \A b \in B : b \in DOMAIN disk /\ disk[b].next <= hdr.numOfBlocks
           /\ \A b \in L : b \in DOMAIN disk
<1>1. FileInv /\ FileOK /\ BucketsOK /\ hdr \in Headers
  BY DEF TreeInv, FileInv, HeaderOK
<1>2. PICK z : z = hdr.numOfBlocks
  OBVIOUS
<1>3. z \in Nat /\ DOMAIN disk = 1 .. z - 1 /\ DOMAIN disk = Given(hdr)
  BY <1>1, <1>2 DEF FileOK, Headers, Given
<1>4. \A b \in DOMAIN disk : b \in Nat /\ b # 0 /\ b < z
  BY <1>3
<1>5. /\ \A b \in B : b \in DOMAIN disk
      /\ \A b \in L : b \in DOMAIN disk
  BY DEF B, L, OfType
<1>6. \A b \in B : disk[b].next = 0 \/ disk[b].next \in DOMAIN disk
  BY <1>1, <1>5 DEF BucketsOK
<1>7. \A b \in B : disk[b].next <= z
  BY <1>3, <1>4, <1>6
<1>8. z # 0 \/ hdr.root = 0
  <2>1. ASSUME hdr.root # 0 PROVE z # 0
    <3>1. hdr.root \in DOMAIN disk
      BY <1>1, <2>1, Kinds DEF FileOK
    <3> QED BY <1>3, <1>4, <3>1
  <2> QED BY <2>1
<1> QED
  BY <1>1, <1>2, <1>3, <1>4, <1>5, <1>7, <1>8, LeavesFit

LEMMA SameHeader ==
    ASSUME NEW h \in Headers, NEW g \in Headers, h.root = g.root, h.duplicate = g.duplicate,
           h.numOfBlocks = g.numOfBlocks, h.numOfInterNodes = g.numOfInterNodes,
           h.numOfLeafNodes = g.numOfLeafNodes, h.numOfPtrBucket = g.numOfPtrBucket
    PROVE  h = g
<1>1. h = [root |-> h.root, duplicate |-> h.duplicate, numOfBlocks |-> h.numOfBlocks,
           numOfInterNodes |-> h.numOfInterNodes, numOfLeafNodes |-> h.numOfLeafNodes,
           numOfPtrBucket |-> h.numOfPtrBucket]
  BY DEF Headers
<1>2. g = [root |-> g.root, duplicate |-> g.duplicate, numOfBlocks |-> g.numOfBlocks,
           numOfInterNodes |-> g.numOfInterNodes, numOfLeafNodes |-> g.numOfLeafNodes,
           numOfPtrBucket |-> g.numOfPtrBucket]
  BY DEF Headers
<1> QED
  BY <1>1, <1>2

\* The header after the allocation of z leaves and, in duplicate mode, of a bucket.
LEMMA AllocatedHeader ==
    ASSUME TreeInv, NEW z \in Nat, hdr' = Allocated(z)
    PROVE  /\ hdr.numOfBlocks <= hdr'.numOfBlocks
           /\ hdr'.numOfLeafNodes = hdr.numOfLeafNodes + z
           /\ hdr.duplicate = "N" /\ z = 0 => hdr' = hdr
<1>1. PICK y, g, h : y = Buckets1 /\ g = hdr /\ h = hdr'
  OBVIOUS
<1>2. y \in Nat /\ (hdr.duplicate = "N" => y = 0)
  BY <1>1 DEF Buckets1
<1>3. hdr \in Headers
  BY FileFacts
<1>4. /\ h \in Headers /\ h.root = g.root /\ h.duplicate = g.duplicate
      /\ h.numOfBlocks = g.numOfBlocks + z + y
      /\ h.numOfInterNodes = g.numOfInterNodes
      /\ h.numOfLeafNodes = g.numOfLeafNodes + z
      /\ h.numOfPtrBucket = g.numOfPtrBucket + y
  BY <1>1, <1>3, AllocatedIs
<1>5. g.numOfBlocks \in Nat /\ g.numOfLeafNodes \in Nat /\ g.numOfPtrBucket \in Nat /\ g \in Headers
  BY <1>1, <1>3 DEF Headers
<1>6. g.numOfBlocks <= h.numOfBlocks
  BY <1>2, <1>4, <1>5
<1>7. ASSUME y = 0, z = 0 PROVE h = g
  <2>1. h.numOfBlocks = g.numOfBlocks /\ h.numOfLeafNodes = g.numOfLeafNodes
        /\ h.numOfPtrBucket = g.numOfPtrBucket
    BY <1>4, <1>5, <1>7
  <2> QED BY <1>4, <1>5, <2>1, SameHeader
<1> QED
  BY <1>1, <1>2, <1>4, <1>6, <1>7

\* What is left of the invariant when a step has allocated blocks.
Counts ==
    /\ dhdr.numOfBlocks <= hdr.numOfBlocks /\ hdr.numOfLeafNodes <= dhdr.numOfBlocks
    /\ \A c \in B : disk[c].next <= dhdr.numOfBlocks

LEMMA KeyCounts ==
    ASSUME TreeInv, NEW z \in {0, 1}, hdr' = Allocated(z), dhdr' = hdr,
           hdr.numOfLeafNodes + z <= hdr.numOfBlocks,
           NEW k, NEW v, NEW b, KeyEntered(k, v, b)
    PROVE  Counts'
<1>1. dhdr'.numOfBlocks <= hdr'.numOfBlocks /\ hdr'.numOfLeafNodes <= dhdr'.numOfBlocks
  BY AllocatedHeader
<1>2. ASSUME NEW c \in B' PROVE disk'[c].next <= dhdr'.numOfBlocks
  <2>1. CASE c \in B
    BY <2>1, FileFacts DEF KeyEntered
  <2>2. CASE c \notin B
    <3>1. disk'[c] = Bucket(<<v>>, 0)
      BY <2>2 DEF KeyEntered
    <3>2. disk'[c].next = 0
      BY <3>1 DEF Bucket
    <3> QED BY <3>2, FileFacts
  <2> QED BY <2>1, <2>2
<1> QED
  BY <1>1, <1>2 DEF Counts

LEMMA LeafFile ==
    ASSUME Around, InsertInLeaf, NEW b, b = hdr.numOfBlocks
    PROVE  /\ at \in L /\ at \in DOMAIN disk /\ b \notin DOMAIN disk
           /\ \A x \in DOMAIN disk : x # at => disk'[x] = disk[x]
           /\ DOMAIN disk' = DOMAIN disk \cup (IF hdr.duplicate = "N" THEN {} ELSE {b})
           /\ disk'[at].type = "L"
<1>1. /\ AtLeaf("insert") /\ \E m : /\ disk' = WithBucket([disk EXCEPT ![at] = m], call.val, b)
                                    /\ m.type = disk[at].type
  <2>1. PICK n, i, m : /\ n = disk[at] /\ i = Above(n, call.key)
                       /\ m = [n EXCEPT !.keys = Shift(@, i, call.key),
                                        !.ptrs = Shift(@, i, Pointer(call.val, b)),
                                        !.size = @ + 1]
    OBVIOUS
  <2>2. disk' = WithBucket([disk EXCEPT ![at] = m], call.val, b)
    BY <2>1 DEF InsertInLeaf
  <2>3. m.type = n.type
    BY <2>1
  <2> QED BY <2>1, <2>2, <2>3 DEF InsertInLeaf, NewKey
<1>2. PICK m : /\ disk' = WithBucket([disk EXCEPT ![at] = m], call.val, b)
               /\ m.type = disk[at].type
  BY <1>1
<1>3. at \in L
  BY <1>1, AtLeafFacts
<1>4. at \in DOMAIN disk /\ disk[at].type = "L" /\ b \notin DOMAIN disk
  <2>1. at \in DOMAIN disk /\ disk[at].type = "L"
    BY <1>3 DEF L, OfType
  <2>2. \A x \in DOMAIN disk : x < b /\ x \in Nat
    BY FileFacts DEF Around
  <2> QED BY <2>1, <2>2
<1>5. PICK e : e = [disk EXCEPT ![at] = m]
  OBVIOUS
<1>6. DOMAIN e = DOMAIN disk /\ e[at] = m /\ \A x \in DOMAIN disk : x # at => e[x] = disk[x]
  BY <1>4, <1>5
<1>7. disk' = IF hdr.duplicate = "N" THEN e
              ELSE [x \in DOMAIN e \cup {b} |-> IF x = b THEN Bucket(<<call.val>>, 0) ELSE e[x]]
  BY <1>2, <1>5 DEF WithBucket, With
<1>8. \A x \in DOMAIN disk : disk'[x] = e[x]
  BY <1>4, <1>6, <1>7
<1>9. DOMAIN disk' = DOMAIN disk \cup (IF hdr.duplicate = "N" THEN {} ELSE {b})
  BY <1>6, <1>7
<1> QED
  BY <1>2, <1>3, <1>4, <1>6, <1>8, <1>9

LEMMA LeafStep ==
    ASSUME Around, hdr = dhdr, InsertInLeaf, Wrote(BucketFirst(New, <<at>>)), Content \in Outcomes'
    PROVE  Clean' \/ Grown'
<1>1. PICK k, v, b : k = call.key /\ v = call.val /\ b = hdr.numOfBlocks
  OBVIOUS
<1>2. /\ hdr' = Allocated(0) /\ dhdr' = dhdr /\ pc' = "idle" /\ pc = "find"
      /\ before' = disk /\ writes' = BucketFirst(b, <<at>>)
  BY <1>1 DEF InsertInLeaf, NewKey, AtLeaf, Return, Wrote, New
<1>3. /\ at \in L /\ at \in DOMAIN disk /\ b \notin DOMAIN disk
      /\ \A x \in DOMAIN disk : x # at => disk'[x] = disk[x]
      /\ DOMAIN disk' = DOMAIN disk \cup (IF hdr.duplicate = "N" THEN {} ELSE {b})
      /\ disk'[at].type = "L"
  BY <1>1, LeafFile
<1>4. KeyEntered(k, v, b)
  BY <1>1, InsertInLeafKeeps DEF Around
<1>5. TreeInv /\ MapInv /\ Whole'
  BY <1>2, SnapshotMap DEF Around
<1>6. CASE hdr.duplicate = "N"
  <2>1. hdr' = hdr
    BY <1>2, <1>5, <1>6, AllocatedHeader
  <2>2. DOMAIN disk' = DOMAIN disk
    BY <1>3, <1>6
  <2> QED BY <1>2, <1>3, <1>5, <2>1, <2>2, OneClean
<1>7. CASE hdr.duplicate = "Y"
  <2>1. PICK w, m : w = <<b, at>> /\ m = 2
    OBVIOUS
  <2>2. /\ w \in Seq(Nat) /\ writes' = w /\ m = Len(w) /\ m # 0 /\ w[m] = at
        /\ w[1] = b /\ \A i \in 1 .. m : i # m => w[i] = b
    <3>1. b \in Nat /\ at \in Nat
      BY <1>1, <1>3, <1>5, FileFacts
    <3>2. writes' = w
      <4>1. writes' = <<b>> \o <<at>>
        BY <1>2, <1>7 DEF BucketFirst
      <4> QED BY <2>1, <3>1, <4>1, Pair
    <3> QED BY <2>1, <3>1, <3>2
  <2>3. \A x \in DOMAIN disk' : x \notin DOMAIN disk \/ disk'[x] # disk[x] =>
           \E i \in 1 .. m : w[i] = x
    <3>1. 1 \in 1 .. m /\ m \in 1 .. m
      BY <2>1
    <3> QED BY <1>3, <1>7, <2>2, <3>1
\* The new bucket hangs on the leaf.
  <2>4. \E i \in 1 .. disk'[at].size : disk'[at].ptrs[i] = b
    <3>1. Filed(k, b)'
      BY <1>4, <1>7 DEF KeyEntered, Pointer
    <3>2. PICK a \in L' : \E i \in 1 .. disk'[a].size : disk'[a].ptrs[i] = b
      BY <3>1 DEF Filed
    <3>3. a \in DOMAIN disk' /\ disk'[a].type = "L"
      BY DEF L, OfType
    <3>4. a # b
      <4>1. disk'[b] = Bucket(<<v>>, 0)
        BY <1>4, <1>7 DEF KeyEntered
      <4> QED BY <3>3, <4>1 DEF Bucket
    <3>5. a = at
      <4> SUFFICES ASSUME a # at PROVE FALSE
        OBVIOUS
      <4>1. a \in L /\ disk'[a] = disk[a]
        BY <1>3, <1>7, <3>3, <3>4 DEF L, OfType
      <4>2. \A i \in 1 .. disk[a].size : disk[a].ptrs[i] \in B
        BY <1>5, <1>7, <4>1 DEF TreeInv, FileInv, BucketsOK
      <4> QED BY <1>4, <3>2, <4>1, <4>2 DEF KeyEntered
    <3> QED BY <3>2, <3>5
  <2>5. b \in Links(disk'[at], "Y")
    BY <1>3, <2>4 DEF Links
  <2>6. DOMAIN disk = Given(hdr) /\ b \notin Given(hdr) \cup {0}
    <3>1. hdr.root # 0
      BY <1>2, <1>5 DEF TreeInv, RangeInv, CallOK
    <3> QED BY <1>1, <1>5, <3>1, FileFacts
  <2>7. ~(Links(disk'[w[m]], dhdr.duplicate) \subseteq Given(dhdr) \cup {0})
    BY <1>7, <2>2, <2>5, <2>6
  <2>8. WritesTell'
    <3>1. DOMAIN disk \subseteq DOMAIN disk' /\ DOMAIN disk = Given(dhdr)
      BY <1>3, <2>6
    <3>2. w[m] \in DOMAIN disk /\ \A i \in 1 .. m : i # m => w[i] \notin DOMAIN disk
      BY <1>3, <2>2
    <3>3. dhdr' = dhdr /\ before' = disk /\ Whole' /\ w \in Seq(Nat) /\ writes' = w
          /\ m = Len(w) /\ m # 0
      BY <1>2, <1>5, <2>2
    <3> QED BY ONLY <2>3, <2>7, <3>1, <3>2, <3>3, LastTells
  <2>9. Counts'
    <3>1. PICK z : z = 0
      OBVIOUS
    <3>2. hdr.numOfLeafNodes + z <= hdr.numOfBlocks
      BY <1>5, <3>1, FileFacts
    <3> QED BY <1>2, <1>4, <1>5, <3>1, <3>2, KeyCounts
  <2> QED BY <1>2, <2>8, <2>9 DEF Grown, WritesTell, Counts
<1> QED
  BY <1>4, <1>6, <1>7 DEF KeyEntered

\* A chain that gets a bucket.
LEMMA ChainFile ==
    ASSUME Around, hdr.duplicate = "Y", NEW h \in B, NEW v \in Nat,
           disk' = BucketInsert(h, v), BucketGrows(h, v),
           NEW b, b = hdr.numOfBlocks, NEW z, z = LastOf(h)
    PROVE  /\ z \in B /\ z \in DOMAIN disk /\ b \notin DOMAIN disk /\ b \in Nat
           /\ DOMAIN disk' = DOMAIN disk \cup {b}
           /\ \A x \in DOMAIN disk : x # z => disk'[x] = disk[x]
           /\ disk'[z].type = "B" /\ disk'[z].next = b
           /\ disk'[b] = Bucket(<<v>>, 0)
           /\ B' = B \cup {b}
<1>1. HeaderOK /\ FileOK /\ BucketsOK
  BY DEF Around, TreeInv, FileInv
<1>2. ChainFrom(h) \subseteq B /\ \E x \in ChainFrom(h) : disk[x].next = 0
  BY <1>1, BucketChain
<1>3. z \in B
  <2>1. z = LastOf(h)
    OBVIOUS
  <2>2. z \in ChainFrom(h)
    BY ONLY <1>2, <2>1 DEF LastOf
  <2> QED BY <1>2, <2>2
<1>4. z \in DOMAIN disk /\ disk[z] \in Buckets
  BY <1>1, <1>3, Kinds
<1>5. b \in Nat /\ \A x \in DOMAIN disk : x < b /\ x \in Nat
  BY FileFacts DEF Around
<1>6. b \notin DOMAIN disk
  BY <1>5
<1>7. PICK m : m = LinkedTo(disk[z], b)
  OBVIOUS
<1>8. m \in Buckets /\ m.type = "B" /\ m.next = b
  <2>1. PICK o : o = disk[z]
    OBVIOUS
  <2>2. o \in Buckets /\ b \in Nat /\ m = LinkedTo(o, b)
    BY <1>4, <1>5, <1>7, <2>1
  <2> QED BY ONLY <2>2, BucketLinked
<1>9. PICK e : e = [disk EXCEPT ![z] = m]
  OBVIOUS
<1>10. disk' = [x \in DOMAIN e \cup {b} |-> IF x = b THEN Bucket(<<v>>, 0) ELSE e[x]]
  <2>1. [disk EXCEPT ![z].next = b] = e
    BY <1>7, <1>9 DEF LinkedTo
  <2>2. v \notin Held(h) /\ Roomy(h) = {}
    BY DEF BucketGrows
  <2>3. disk' = With([disk EXCEPT ![LastOf(h)].next = hdr.numOfBlocks],
                     hdr.numOfBlocks, Bucket(<<v>>, 0))
    BY <2>2 DEF BucketInsert
  <2> QED BY <2>1, <2>3 DEF With
<1>11. DOMAIN e = DOMAIN disk /\ e[z] = m /\ \A x \in DOMAIN disk : x # z => e[x] = disk[x]
  BY <1>4, <1>9
<1>12. /\ DOMAIN disk' = DOMAIN disk \cup {b} /\ disk'[b] = Bucket(<<v>>, 0)
       /\ \A x \in DOMAIN disk : disk'[x] = e[x]
  BY <1>6, <1>10, <1>11
<1>13. B' = B \cup {b}
  <2>1. disk'[b].type = "B" /\ disk[z].type = "B"
    BY <1>3, <1>12 DEF Bucket, B, OfType
  <2>2. \A x \in DOMAIN disk : disk'[x].type = disk[x].type
    BY <1>8, <1>11, <1>12, <2>1
  <2> QED BY <1>12, <2>1, <2>2 DEF B, OfType
<1> QED
  BY <1>3, <1>4, <1>5, <1>6, <1>8, <1>11, <1>12, <1>13

LEMMA GrowingStep ==
    ASSUME Around, hdr = dhdr, dhdr' = dhdr, hdr.duplicate = "Y", hdr.root # 0,
           pc # "parent", pc' = "idle", before' = disk, Content \in Outcomes',
           NEW h \in B, NEW v \in Nat, disk' = BucketInsert(h, v), BucketGrows(h, v),
           hdr' = [hdr EXCEPT !.numOfBlocks = @ + 1, !.numOfPtrBucket = @ + 1],
           writes' = <<New, LastOf(h)>>
    PROVE  Grown'
<1>1. PICK b, z : b = hdr.numOfBlocks /\ z = LastOf(h)
  OBVIOUS
<1>2. /\ z \in B /\ z \in DOMAIN disk /\ b \notin DOMAIN disk /\ b \in Nat
      /\ DOMAIN disk' = DOMAIN disk \cup {b}
      /\ \A x \in DOMAIN disk : x # z => disk'[x] = disk[x]
      /\ disk'[z].type = "B" /\ disk'[z].next = b
      /\ disk'[b] = Bucket(<<v>>, 0)
      /\ B' = B \cup {b}
  BY <1>1, ChainFile
<1>3. TreeInv /\ MapInv /\ Whole'
  BY SnapshotMap DEF Around
<1>4. PICK w, m : w = <<b, z>> /\ m = 2
  OBVIOUS
<1>5. /\ w \in Seq(Nat) /\ writes' = w /\ m = Len(w) /\ m # 0 /\ w[m] = z
      /\ w[1] = b /\ \A i \in 1 .. m : i # m => w[i] = b
  <2>1. z \in Nat
    BY <1>2, <1>3, FileFacts
  <2>2. writes' = w
    BY <1>1, <1>4 DEF New
  <2> QED BY <1>2, <1>4, <2>1, <2>2
<1>6. \A x \in DOMAIN disk' : x \notin DOMAIN disk \/ disk'[x] # disk[x] =>
         \E i \in 1 .. m : w[i] = x
  <2>1. 1 \in 1 .. m /\ m \in 1 .. m
    BY <1>4
  <2> QED BY <1>2, <1>5, <2>1
<1>7. DOMAIN disk = Given(hdr) /\ b \notin Given(hdr) \cup {0} /\ hdr \in Headers
  BY <1>1, <1>3, FileFacts
<1>8. ~(Links(disk'[w[m]], dhdr.duplicate) \subseteq Given(dhdr) \cup {0})
  <2>1. b \in Links(disk'[z], "Y")
    BY <1>2 DEF Links
  <2> QED BY <1>5, <1>7, <2>1
<1>9. WritesTell'
  <2>1. DOMAIN disk \subseteq DOMAIN disk' /\ DOMAIN disk = Given(dhdr)
    BY <1>2, <1>7
  <2>2. w[m] \in DOMAIN disk /\ \A i \in 1 .. m : i # m => w[i] \notin DOMAIN disk
    BY <1>2, <1>5
  <2>3. dhdr' = dhdr /\ before' = disk /\ Whole' /\ w \in Seq(Nat) /\ writes' = w
        /\ m = Len(w) /\ m # 0
    BY <1>3, <1>5
  <2> QED BY ONLY <1>6, <1>8, <2>1, <2>2, <2>3, LastTells
<1>10. Counts'
  <2>1. hdr'.numOfBlocks = b + 1 /\ hdr'.numOfLeafNodes = hdr.numOfLeafNodes
    BY <1>1, <1>7 DEF Headers
  <2>2. hdr.numOfLeafNodes <= b
    BY <1>1, <1>3, FileFacts
  <2>3. disk'[b].next = 0
    BY <1>2 DEF Bucket
  <2>4. \A c \in B : c \in DOMAIN disk /\ disk[c].next <= b
    BY <1>1, <1>3, FileFacts
  <2>5. ASSUME NEW c \in B' PROVE disk'[c].next <= b
    BY <1>2, <2>3, <2>4
  <2> QED BY <1>1, <1>2, <2>1, <2>2, <2>5 DEF Counts
<1> QED
  BY <1>9, <1>10 DEF Grown, WritesTell, Counts

LEMMA BlockStep ==
    ASSUME Around, hdr = dhdr, AddToBucket,
           Wrote(BucketOrder(disk[at].ptrs[Min(IndexOf(disk[at], call.key))])),
           Content \in Outcomes'
    PROVE  Clean' \/ Grown'
<1>1. PICK k, v, h : /\ k = call.key /\ v = call.val
                     /\ h = disk[at].ptrs[Min(IndexOf(disk[at], k))]
  OBVIOUS
<1>2. /\ AtLeaf("insert") /\ hdr.duplicate = "Y" /\ IndexOf(disk[at], k) # {}
      /\ disk' = BucketInsert(h, v)
      /\ hdr' = IF BucketGrows(h, v)
                 THEN [hdr EXCEPT !.numOfBlocks = @ + 1, !.numOfPtrBucket = @ + 1]
                 ELSE hdr
      /\ pc' = "idle" /\ pc = "find" /\ dhdr' = dhdr /\ before' = disk
      /\ writes' = BucketOrder(h)
  BY <1>1 DEF AddToBucket, AtLeaf, Return, Wrote
<1>3. v \in Nat /\ Filed(k, h) /\ hdr.root # 0
  BY <1>1, <1>2, AtLeafFacts
<1>4. h \in B
  BY <1>2, <1>3 DEF Around, MapInv, ChainInv
<1>5. TreeInv /\ MapInv
  BY DEF Around
<1>6. CASE BucketGrows(h, v)
  <2>1. writes' = <<New, LastOf(h)>>
    BY <1>1, <1>2, <1>6 DEF BucketOrder
  <2> QED BY <1>2, <1>3, <1>4, <1>6, <2>1, GrowingStep
<1>7. CASE ~BucketGrows(h, v)
  <2>1. \E c : DOMAIN disk' = DOMAIN disk /\ \A b \in DOMAIN disk : b # c => disk'[b] = disk[b]
    BY <1>2, <1>7 DEF BucketInsert, BucketGrows
  <2>2. PICK c : DOMAIN disk' = DOMAIN disk /\ \A b \in DOMAIN disk : b # c => disk'[b] = disk[b]
    BY <2>1
  <2> QED BY <1>2, <1>5, <1>7, <2>2, OneClean
<1> QED
  BY <1>6, <1>7

\* A tree with a root has more block numbers than leaves.
LEMMA FewerLeaves ==
    ASSUME TreeInv, hdr.root # 0
    PROVE  hdr.numOfLeafNodes + 1 <= hdr.numOfBlocks
<1>1. PICK z, m : z = hdr.numOfBlocks /\ m = hdr.numOfLeafNodes
  OBVIOUS
<1>2. /\ z \in Nat /\ m \in Nat /\ DOMAIN disk = 1 .. z - 1 /\ Cardinality(L) = m
      /\ hdr.root \in Nodes
  BY <1>1 DEF TreeInv, FileInv, HeaderOK, Headers, FileOK, Counted
<1>3. L \in SUBSET (1 .. z - 1)
  BY <1>2 DEF L, OfType
<1>4. hdr.root \in 1 .. z - 1
  BY <1>2 DEF Nodes, L, I, OfType
<1>5. PICK y : y = z - 1
  OBVIOUS
<1>6. y \in Nat /\ 1 <= y
  BY <1>2, <1>4, <1>5
<1>7. IsFiniteSet(1 .. y) /\ Cardinality(1 .. y) = y
  <2>1. 1 \in Int /\ y \in Int
    BY <1>6
  <2>2. Cardinality(1 .. y) = IF 1 > y THEN 0 ELSE y - 1 + 1
    BY <2>1, FS_Interval
  <2>3. IsFiniteSet(1 .. y)
    BY <2>1, FS_Interval
  <2> QED BY <1>6, <2>2, <2>3
<1>8. m <= y
  <2>1. L \in SUBSET (1 .. y)
    BY <1>3, <1>5
  <2>2. Cardinality(L) <= Cardinality(1 .. y)
    BY ONLY <1>7, <2>1, FS_Subset
  <2> QED BY <1>2, <1>7, <2>2
<1> QED
  BY <1>1, <1>2, <1>5, <1>8

\* A leaf that was split.
LEMMA SplitFile ==
    ASSUME Around, SplitLeaf, NEW new, new = hdr.numOfBlocks, NEW b, b = new + 1
    PROVE  /\ at \in L /\ at \in DOMAIN disk /\ new \notin DOMAIN disk /\ b \notin DOMAIN disk
           /\ new \in Nat /\ b \in Nat
           /\ \A x \in DOMAIN disk : x # at => disk'[x] = disk[x]
           /\ DOMAIN disk' = DOMAIN disk \cup (IF hdr.duplicate = "N" THEN {new} ELSE {new, b})
           /\ disk'[at].type = "L" /\ disk'[at].next = new
<1>1. /\ AtLeaf("insert")
      /\ \E l, r : /\ disk' = WithBucket(With([disk EXCEPT ![at] = l], new, r), call.val, b)
                   /\ l.type = "L" /\ l.next = new
  <2>1. PICK n, q, keys, ptrs, l, r :
          /\ n = disk[at] /\ q = Above(n, call.key)
          /\ keys = InsertAt(n.keys, q, call.key)
          /\ ptrs = InsertAt(n.ptrs, q, Pointer(call.val, new + 1))
          /\ l = LeafNode(n.parent, new, SubSeq(keys, 1, Half), SubSeq(ptrs, 1, Half))
          /\ r = LeafNode(n.parent, n.next, SubSeq(keys, Half + 1, Cap + 1),
                          SubSeq(ptrs, Half + 1, Cap + 1))
    OBVIOUS
  <2>2. disk' = WithBucket(With([disk EXCEPT ![at] = l], new, r), call.val, b)
    BY <2>1 DEF SplitLeaf
  <2>3. l.type = "L" /\ l.next = new
    BY <2>1 DEF LeafNode
  <2> QED BY <2>2, <2>3 DEF SplitLeaf, NewKey
<1>2. PICK l, r : /\ disk' = WithBucket(With([disk EXCEPT ![at] = l], new, r), call.val, b)
                  /\ l.type = "L" /\ l.next = new
  BY <1>1
<1>3. at \in L
  BY <1>1, AtLeafFacts
<1>4. at \in DOMAIN disk /\ new \notin DOMAIN disk /\ b \notin DOMAIN disk /\ new \in Nat /\ b \in Nat
  <2>1. at \in DOMAIN disk
    BY <1>3 DEF L, OfType
  <2>2. new \in Nat /\ \A x \in DOMAIN disk : x < new /\ x \in Nat
    BY FileFacts DEF Around
  <2> QED BY <2>1, <2>2
<1>5. PICK e : e = [disk EXCEPT ![at] = l]
  OBVIOUS
<1>6. DOMAIN e = DOMAIN disk /\ e[at] = l /\ \A x \in DOMAIN disk : x # at => e[x] = disk[x]
  BY <1>4, <1>5
<1>7. PICK d : d = With(e, new, r)
  OBVIOUS
<1>8. d = [x \in DOMAIN e \cup {new} |-> IF x = new THEN r ELSE e[x]]
  BY <1>7 DEF With
<1>9. DOMAIN d = DOMAIN disk \cup {new} /\ \A x \in DOMAIN disk : d[x] = e[x]
  BY <1>4, <1>6, <1>8
<1>10. disk' = IF hdr.duplicate = "N" THEN d
               ELSE [x \in DOMAIN d \cup {b} |-> IF x = b THEN Bucket(<<call.val>>, 0) ELSE d[x]]
  BY <1>2, <1>5, <1>7 DEF WithBucket, With
<1>11. \A x \in DOMAIN disk : disk'[x] = e[x]
  BY <1>4, <1>9, <1>10
<1>12. DOMAIN disk' = DOMAIN disk \cup (IF hdr.duplicate = "N" THEN {new} ELSE {new, b})
  BY <1>9, <1>10
<1> QED
  BY <1>2, <1>3, <1>4, <1>6, <1>11, <1>12

\* The m blocks w that a split of leaf a writes: leaf a itself at the end.
SplitWrites(w, m, new, b, a) ==
    /\ LeafOrder = w /\ m = Len(w) /\ w[m] = a
    /\ \A i \in 1 .. m : i # m => w[i] \in {new, b}
    /\ \E i \in 1 .. m : w[i] = new
    /\ hdr.duplicate = "Y" => \E i \in 1 .. m : w[i] = b

\* The new leaf and its bucket come before the leaf that refers to them.
LEMMA SplitOrder ==
    ASSUME NEW new \in Nat, NEW b \in Nat, NEW a \in Nat, new = hdr.numOfBlocks, b = new + 1,
           a = at, hdr.duplicate \in {"Y", "N"}
    PROVE  \E w \in Seq(Nat) : \E m \in Nat \ {0} : SplitWrites(w, m, new, b, a)
<1>1. LeafOrder = BucketFirst(b, <<new, a>>)
  BY DEF LeafOrder, New
<1>2. CASE hdr.duplicate = "N"
  <2>1. PICK w, m : w = <<new, a>> /\ m = 2
    OBVIOUS
  <2>2. w \in Seq(Nat) /\ m = Len(w) /\ w[m] = a /\ w[1] = new /\ m \in Nat \ {0}
    BY <2>1
  <2>3. 1 \in 1 .. m /\ \A i \in 1 .. m : i # m => i = 1
    BY <2>1
  <2>4. LeafOrder = w
    BY <1>1, <1>2, <2>1 DEF BucketFirst
  <2>5. hdr.duplicate # "Y"
    BY <1>2
  <2> QED BY <2>2, <2>3, <2>4, <2>5 DEF SplitWrites
<1>3. CASE hdr.duplicate = "Y"
  <2>1. PICK w, m : w = <<b, new, a>> /\ m = 3
    OBVIOUS
  <2>2. /\ w \in Seq(Nat) /\ m = Len(w) /\ w[m] = a /\ w[1] = b /\ w[2] = new
        /\ m \in Nat \ {0}
    BY <2>1
  <2>3. 1 \in 1 .. m /\ 2 \in 1 .. m /\ \A i \in 1 .. m : i # m => i = 1 \/ i = 2
    BY <2>1
  <2>4. LeafOrder = w
    <3>1. LeafOrder = <<b>> \o <<new, a>>
      BY <1>1, <1>3 DEF BucketFirst
    <3> QED BY <2>1, <3>1, Triple
  <2> QED BY <2>2, <2>3, <2>4 DEF SplitWrites
<1> QED
  BY <1>2, <1>3

LEMMA SplitStep ==
    ASSUME Around, hdr = dhdr, SplitLeaf, Wrote(LeafOrder), Content \in Outcomes'
    PROVE  Grown'
<1>1. PICK k, v, new, b : k = call.key /\ v = call.val /\ new = hdr.numOfBlocks /\ b = new + 1
  OBVIOUS
<1>2. /\ hdr' = Allocated(1) /\ dhdr' = dhdr /\ pc' = "parent" /\ pc = "find"
      /\ before' = disk /\ writes' = LeafOrder
  BY DEF SplitLeaf, NewKey, AtLeaf, Wrote
<1>3. /\ at \in L /\ at \in DOMAIN disk /\ new \notin DOMAIN disk /\ b \notin DOMAIN disk
      /\ new \in Nat /\ b \in Nat
      /\ \A x \in DOMAIN disk : x # at => disk'[x] = disk[x]
      /\ DOMAIN disk' = DOMAIN disk \cup (IF hdr.duplicate = "N" THEN {new} ELSE {new, b})
      /\ disk'[at].type = "L" /\ disk'[at].next = new
  BY <1>1, SplitFile
<1>4. KeyEntered(k, v, b)
  BY <1>1, SplitLeafKeeps DEF Around
<1>5. TreeInv /\ MapInv /\ Whole' /\ hdr.duplicate \in {"Y", "N"}
  BY <1>2, <1>4, SnapshotMap DEF Around, KeyEntered
<1>6. hdr.root # 0
  BY <1>2, <1>5 DEF TreeInv, RangeInv, CallOK
<1>7. DOMAIN disk = Given(hdr) /\ new \notin Given(hdr) \cup {0} /\ at \in Nat
  BY <1>1, <1>3, <1>5, <1>6, FileFacts
<1>8. PICK a : a = at
  OBVIOUS
<1>9a. \E w \in Seq(Nat) : \E m \in Nat \ {0} : SplitWrites(w, m, new, b, a)
  BY <1>1, <1>3, <1>5, <1>7, <1>8, SplitOrder
<1>9b. PICK w \in Seq(Nat), m \in Nat \ {0} : SplitWrites(w, m, new, b, a)
  BY <1>9a
<1>9. /\ LeafOrder = w /\ m = Len(w) /\ w[m] = at
      /\ \A i \in 1 .. m : i # m => w[i] \in {new, b}
      /\ \E i \in 1 .. m : w[i] = new
      /\ hdr.duplicate = "Y" => \E i \in 1 .. m : w[i] = b
  BY <1>8, <1>9b DEF SplitWrites
<1>10. \A x \in DOMAIN disk' : x \notin DOMAIN disk \/ disk'[x] # disk[x] =>
          \E i \in 1 .. m : w[i] = x
  <2>1. m \in 1 .. m
    OBVIOUS
  <2> QED BY <1>3, <1>5, <1>9, <2>1
<1>11. ~(Links(disk'[w[m]], dhdr.duplicate) \subseteq Given(dhdr) \cup {0})
  <2>1. new \in Links(disk'[at], hdr.duplicate)
    BY <1>3 DEF Links
  <2> QED BY <1>7, <1>9, <2>1
<1>12. WritesTell'
  <2>1. DOMAIN disk \subseteq DOMAIN disk' /\ DOMAIN disk = Given(dhdr)
    BY <1>3, <1>7
  <2>2. w[m] \in DOMAIN disk /\ \A i \in 1 .. m : i # m => w[i] \notin DOMAIN disk
    BY <1>3, <1>9
  <2>3. dhdr' = dhdr /\ before' = disk /\ Whole' /\ w \in Seq(Nat) /\ writes' = w
        /\ m = Len(w) /\ m # 0
    BY <1>2, <1>5, <1>9
  <2> QED BY ONLY <1>10, <1>11, <2>1, <2>2, <2>3, LastTells
<1>13. Counts'
  <2>1. PICK z : z = 1
    OBVIOUS
  <2>2. hdr.numOfLeafNodes + z <= hdr.numOfBlocks
    BY <1>5, <1>6, <2>1, FewerLeaves
  <2> QED BY <1>2, <1>4, <1>5, <2>1, <2>2, KeyCounts
<1>14. at \in L' /\ at \in Given(dhdr') /\ disk'[at].next \notin Given(dhdr') \cup {0}
  BY <1>2, <1>3, <1>7 DEF L, OfType
<1> QED
  BY <1>2, <1>12, <1>13, <1>14 DEF Grown, WritesTell, Counts

-------------------------------------------------------------------------------
(* A step of the insertion above its leaf. *)

\* The leaves change at most in their parents.
LeavesKept ==
    /\ L' = L
    /\ \A x \in L : /\ disk'[x].type = "L" /\ disk'[x].size = disk[x].size
                    /\ disk'[x].keys = disk[x].keys /\ disk'[x].ptrs = disk[x].ptrs
                    /\ disk'[x].next = disk[x].next

LEMMA AdoptedType ==
    ASSUME NEW n \in Leaves \cup Inners \cup Buckets, NEW p, NEW m, m = Adopted(n, p)
    PROVE  m.type = n.type
  BY DEF Leaves, Inners, Buckets, Adopted

LEMMA LeavesStay ==
    ASSUME TreeInv, NEW p \in Nat, DOMAIN disk \subseteq DOMAIN disk',
           \A x \in DOMAIN disk' :
              \/ x \notin L /\ disk'[x].type # "L"
              \/ x \in DOMAIN disk /\ (disk'[x] = disk[x] \/ disk'[x] = Adopted(disk[x], p))
    PROVE  LeavesKept
<1>1. FileOK
  BY DEF TreeInv, FileInv
<1>2. ASSUME NEW x \in DOMAIN disk PROVE disk[x] \in Leaves \cup Inners \cup Buckets
  BY <1>1 DEF FileOK
<1>3. ASSUME NEW x \in DOMAIN disk, disk'[x] = Adopted(disk[x], p)
      PROVE  disk'[x].type = disk[x].type
  <2>1. PICK n, m : n = disk[x] /\ m = disk'[x]
    OBVIOUS
  <2> QED BY <1>2, <1>3, <2>1, AdoptedType
<1>4. ASSUME NEW x \in L, disk'[x] = Adopted(disk[x], p)
      PROVE  /\ disk'[x].type = "L" /\ disk'[x].size = disk[x].size
             /\ disk'[x].keys = disk[x].keys /\ disk'[x].ptrs = disk[x].ptrs
             /\ disk'[x].next = disk[x].next
  <2>1. PICK n, m : n = disk[x] /\ m = disk'[x]
    OBVIOUS
  <2>2. n \in Leaves
    BY <1>1, <2>1, Kinds
  <2> QED BY <1>4, <2>1, <2>2, AdoptedLeaf
<1>5. L' = L
  BY <1>3 DEF L, OfType
<1>6. \A x \in L : x \in DOMAIN disk /\ disk[x].type = "L"
  BY DEF L, OfType
<1> QED
  BY <1>4, <1>5, <1>6 DEF LeavesKept

\* The node above the two parts of a split.
LEMMA ParentIsInner ==
    ASSUME TreeInv, Pending, hdr.root # up.left
    PROVE  ParentOf(up.left) \in I
<1>1. PICK lo \in Ghosts, hi \in Ghosts, ht \in Ghosts, pos \in Ghosts :
         RangeInv(lo, hi, ht, pos)
  BY DEF TreeInv
<1>2. PICK left, right : left = up.left /\ right = up.right
  OBVIOUS
<1>3. left \in Nodes /\ left # right /\ left # hdr.root
  BY <1>1, <1>2 DEF RangeInv, CallOK, Pending
<1>4. disk[left].parent \in I
  BY <1>1, <1>2, <1>3 DEF RangeInv, Linked, Unlinked
<1> QED
  BY <1>2, <1>4 DEF ParentOf



LEMMA RootKeepsLeaves ==
    ASSUME TreeInv, NewRoot
    PROVE  LeavesKept /\ DOMAIN disk \subseteq DOMAIN disk'
<1>1. PICK left, right, new, e, n :
        /\ left = up.left /\ right = up.right /\ new = hdr.numOfBlocks
        /\ e = [disk EXCEPT ![left] = Adopted(disk[left], new),
                            ![right] = Adopted(disk[right], new)]
        /\ n = InternalNode(new, <<up.key>>, <<left, right>>)
  OBVIOUS
<1>2. disk' = With(e, new, n)
  BY <1>1 DEF NewRoot, Reparent, Adopted
<1>3. n.type = "I"
  BY <1>1 DEF InternalNode
<1>4. new \in Nat /\ new \notin DOMAIN disk
  <2>1. new \in Nat /\ \A x \in DOMAIN disk : x < new /\ x \in Nat
    BY <1>1, FileFacts
  <2> QED BY <2>1
<1>5. left \in DOMAIN disk /\ right \in DOMAIN disk
  <2>1. pc = "parent"
    BY DEF NewRoot, Ascending
  <2>2. left \in Nodes /\ right \in Nodes
    BY <1>1, <2>1 DEF TreeInv, RangeInv, CallOK
  <2> QED BY <2>2 DEF Nodes, L, I, OfType
<1>6. DOMAIN e = DOMAIN disk
      /\ \A x \in DOMAIN disk : e[x] = disk[x] \/ e[x] = Adopted(disk[x], new)
  BY <1>1, <1>5
<1>7. disk' = [x \in DOMAIN e \cup {new} |-> IF x = new THEN n ELSE e[x]]
  BY <1>2 DEF With
<1>8. DOMAIN disk' = DOMAIN disk \cup {new} /\ disk'[new] = n
      /\ \A x \in DOMAIN disk : disk'[x] = e[x]
  BY <1>4, <1>6, <1>7
<1>9. new \notin L
  BY <1>4 DEF L, OfType
<1> QED
  BY <1>3, <1>4, <1>6, <1>8, <1>9, LeavesStay

LEMMA ParentKeepsLeaves ==
    ASSUME TreeInv, InsertInParent
    PROVE  LeavesKept /\ DOMAIN disk \subseteq DOMAIN disk'
<1>1. Pending /\ hdr.root # up.left
  BY DEF InsertInParent, Ascending, Pending
<1>2. PICK p, n, m : /\ p = ParentOf(up.left) /\ n = disk[p]
                     /\ m = [n EXCEPT !.keys = Shift(@, Above(n, up.key), up.key),
                                      !.ptrs = Shift(@, Above(n, up.key) + 1, up.right),
                                      !.size = @ + 1]
  OBVIOUS
<1>3. disk' = [disk EXCEPT ![p] = m]
  BY <1>2 DEF InsertInParent
<1>4. p \in I /\ p \in DOMAIN disk /\ p \notin L
  BY <1>1, <1>2, ParentIsInner DEF I, L, OfType
<1>5. n \in Inners
  BY <1>2, <1>4, Kinds DEF TreeInv, FileInv
<1>6. m.type = "I"
  BY <1>2, <1>5 DEF Inners
<1>7. DOMAIN disk' = DOMAIN disk /\ disk'[p] = m
      /\ \A x \in DOMAIN disk : x # p => disk'[x] = disk[x]
  BY <1>3, <1>4
<1>8. 0 \in Nat
  OBVIOUS
<1> QED
  BY <1>4, <1>6, <1>7, <1>8, LeavesStay

LEMMA SplitKeepsLeaves ==
    ASSUME TreeInv, SplitInternal
    PROVE  LeavesKept /\ DOMAIN disk \subseteq DOMAIN disk'
<1>1. Pending /\ hdr.root # up.left
  BY DEF SplitInternal, Ascending, Pending
<1>2. PICK p, new : p = ParentOf(up.left) /\ new = hdr.numOfBlocks
  OBVIOUS
<1>3. \E l, r, mv : /\ l.type = "I" /\ r.type = "I"
                    /\ disk' = [b \in DOMAIN disk \cup {new} |->
                                  IF b = p THEN l ELSE IF b = new THEN r
                                  ELSE IF b \in mv THEN Adopted(disk[b], new) ELSE disk[b]]
  <2>1. PICK n, i, keys, ptrs, moved, l, r :
          /\ n = disk[p] /\ i = Above(n, up.key)
          /\ keys = InsertAt(n.keys, i, up.key)
          /\ ptrs = InsertAt(n.ptrs, i + 1, up.right)
          /\ moved = SubSeq(ptrs, Half + 2, Cap + 2)
          /\ l = InternalNode(n.parent, SubSeq(keys, 1, Half), SubSeq(ptrs, 1, Half + 1))
          /\ r = InternalNode(n.parent, SubSeq(keys, Half + 1, Cap + 1), <<0>> \o moved)
    OBVIOUS
  <2>2. disk' = [b \in DOMAIN disk \cup {new} |->
                   IF b = p THEN l ELSE IF b = new THEN r
                   ELSE IF b \in ToSet(moved) THEN Adopted(disk[b], new) ELSE disk[b]]
    BY <1>2, <2>1 DEF SplitInternal, Reparent, Adopted
  <2>3. l.type = "I" /\ r.type = "I"
    BY <2>1 DEF InternalNode
  <2> QED BY <2>2, <2>3
<1>4. PICK l, r, mv : /\ l.type = "I" /\ r.type = "I"
                      /\ disk' = [b \in DOMAIN disk \cup {new} |->
                                    IF b = p THEN l ELSE IF b = new THEN r
                                    ELSE IF b \in mv THEN Adopted(disk[b], new) ELSE disk[b]]
  BY <1>3
<1>5. new \in Nat /\ new \notin DOMAIN disk /\ new \notin L
  <2>1. new \in Nat /\ \A x \in DOMAIN disk : x < new /\ x \in Nat
    BY <1>2, FileFacts
  <2> QED BY <2>1 DEF L, OfType
<1>6. p \in DOMAIN disk /\ p \notin L
  BY <1>1, <1>2, ParentIsInner DEF I, L, OfType
<1>7. DOMAIN disk' = DOMAIN disk \cup {new} /\ disk'[p] = l /\ disk'[new] = r
  BY <1>4, <1>5, <1>6
<1>8. ASSUME NEW x \in DOMAIN disk, x # p
      PROVE  disk'[x] = disk[x] \/ disk'[x] = Adopted(disk[x], new)
  BY <1>4, <1>5, <1>8
<1> QED
  BY <1>4, <1>5, <1>6, <1>7, <1>8, LeavesStay

\* What is left of the invariant when inner nodes were allocated.
LEMMA HeaderAbove ==
    ASSUME TreeInv, NewRoot \/ InsertInParent \/ SplitInternal
    PROVE  /\ hdr.numOfBlocks <= hdr'.numOfBlocks /\ hdr.numOfBlocks \in Nat
           /\ hdr'.numOfBlocks \in Nat /\ hdr'.numOfLeafNodes = hdr.numOfLeafNodes
           /\ pc = "parent" /\ pc' # "find"
<1>1. hdr \in Headers /\ hdr.numOfBlocks \in Nat
  BY FileFacts
<1>2. PICK z : z = hdr.numOfBlocks
  OBVIOUS
<1>3. \/ hdr' = hdr
      \/ hdr' = [hdr EXCEPT !.numOfBlocks = @ + 1, !.numOfInterNodes = @ + 1]
      \/ hdr' = [hdr EXCEPT !.root = z, !.numOfBlocks = @ + 1, !.numOfInterNodes = @ + 1]
  BY <1>2 DEF NewRoot, InsertInParent, SplitInternal
<1>4. hdr'.numOfBlocks \in {hdr.numOfBlocks, hdr.numOfBlocks + 1}
      /\ hdr'.numOfLeafNodes = hdr.numOfLeafNodes
  BY <1>1, <1>3 DEF Headers
<1>5. pc = "parent" /\ pc' # "find"
  BY DEF NewRoot, InsertInParent, SplitInternal, Ascending, Return
<1> QED
  BY <1>1, <1>4, <1>5


\* A leaf that refers to one the header in the file does not count is on its way up
\* the tree: whichever writes of the step are kept, the file is harmed.
LEMMA ParentStep ==
    ASSUME TreeInv, Grown, NewRoot \/ InsertInParent \/ SplitInternal,
           before' = disk, dhdr' = dhdr
    PROVE  Grown'
<1>1. LeavesKept /\ DOMAIN disk \subseteq DOMAIN disk'
  BY RootKeepsLeaves, ParentKeepsLeaves, SplitKeepsLeaves
<1>2. B' = B /\ \A c \in B : disk'[c] = disk[c]
  BY NewRootKeeps, InsertInParentKeeps, SplitInternalKeeps DEF SameEntries
<1>3. /\ hdr.numOfBlocks <= hdr'.numOfBlocks /\ hdr'.numOfLeafNodes = hdr.numOfLeafNodes
      /\ pc = "parent" /\ pc' # "find"
  BY HeaderAbove
<1>4. /\ dhdr.numOfBlocks <= hdr.numOfBlocks /\ hdr.numOfLeafNodes <= dhdr.numOfBlocks
      /\ \A c \in B : disk[c].next <= dhdr.numOfBlocks
      /\ \E b \in L : b \in Given(dhdr) /\ disk[b].next \notin Given(dhdr) \cup {0}
  BY <1>3 DEF Grown
<1>5. PICK b \in L : b \in Given(dhdr) /\ disk[b].next \notin Given(dhdr) \cup {0}
  BY <1>4
<1>6. /\ \A x \in L : x \in DOMAIN disk /\ x \in DOMAIN disk' /\ disk[x].type = "L"
      /\ \A x \in B : x \in DOMAIN disk /\ x \in DOMAIN disk'
  BY <1>1 DEF L, B, OfType
<1>7. ASSUME NEW n, NEW x \in DOMAIN disk
      PROVE  Torn(n)'[x] = disk'[x] \/ Torn(n)'[x] = disk[x]
  <2>1. x \in DOMAIN disk'
    BY <1>1
  <2> QED BY <2>1, TornNext
<1>8. L' = L /\ \A x \in L :
         /\ disk'[x].type = "L" /\ disk'[x].size = disk[x].size
         /\ disk'[x].keys = disk[x].keys /\ disk'[x].ptrs = disk[x].ptrs
         /\ disk'[x].next = disk[x].next
  BY <1>1 DEF LeavesKept
<1>9. ASSUME NEW n, NEW x \in L, NEW t, t = Torn(n)'[x]
      PROVE  /\ t.type = "L" /\ t.size = disk'[x].size /\ t.keys = disk'[x].keys
             /\ t.ptrs = disk'[x].ptrs /\ t.next = disk'[x].next
  <2>1. t = disk'[x] \/ t = disk[x]
    BY <1>6, <1>7, <1>9
  <2> QED BY <1>6, <1>8, <2>1
<1>10. ASSUME NEW n PROVE SameLeaves(n)'
  <2>1. \A x \in B' : Torn(n)'[x] = disk'[x]
    BY <1>2, <1>6, <1>7
  <2> QED BY <1>8, <1>9, <2>1 DEF SameLeaves
<1>11. ASSUME NEW n PROVE Harmed(Torn(n), dhdr)'
  <2>1. PICK t : t = Torn(n)'[b]
    OBVIOUS
  <2>2. t.type = "L" /\ t.next = disk[b].next
    BY <1>8, <1>9, <2>1
  <2>3. t.next \in Links(t, dhdr'.duplicate)
    BY <2>2 DEF Links
  <2>4. ~(Links(t, dhdr'.duplicate) \subseteq Given(dhdr') \cup {0}) /\ b \in Given(dhdr')
    BY <1>5, <2>2, <2>3
  <2> QED BY <2>1, <2>4 DEF Harmed
<1>12. dhdr'.numOfBlocks <= hdr'.numOfBlocks
  <2>1. PICK x, y, z : x = dhdr.numOfBlocks /\ y = hdr.numOfBlocks /\ z = hdr'.numOfBlocks
    OBVIOUS
  <2>2. x \in Nat /\ y \in Nat /\ z \in Nat
    <3>1. dhdr \in Headers
      BY DEF TreeInv, FileInv, HeaderOK
    <3>2. dhdr.numOfBlocks \in Nat
      BY <3>1 DEF Headers
    <3> QED BY <2>1, <3>2, HeaderAbove
  <2> QED BY <1>3, <1>4, <2>1, <2>2
<1>13. \A c \in B' : disk'[c].next <= dhdr'.numOfBlocks
  BY <1>2, <1>4
<1>14. b \in L' /\ b \in Given(dhdr') /\ disk'[b].next \notin Given(dhdr') \cup {0}
  BY <1>5, <1>8
<1> QED
  BY <1>3, <1>4, <1>10, <1>11, <1>12, <1>13, <1>14 DEF Grown


-------------------------------------------------------------------------------
(* The invariant holds. *)

\* A step at the leaf, from a file that nothing has grown.
LEMMA FindStep ==
    ASSUME Around, MapInv, Clean, pc = "find", pc' \in {"find", "parent", "idle"},
           OrderedStep, UNCHANGED opened, UNCHANGED inserting, Content \in Outcomes'
    PROVE  Clean' \/ Grown'
<1>1. hdr = dhdr /\ TreeInv /\ before' = disk /\ dhdr' = dhdr /\ ~Ascending
  BY StepIs DEF Clean, Around, Ascending
<1>2. CASE Descend \/ Refuse
  <2>1. disk' = disk /\ hdr' = hdr /\ pc' # "parent"
    BY <1>2 DEF Descend, Refuse, AtLeaf, Return
  <2> QED BY <1>1, <2>1, QuietClean
<1>3. CASE AddToBucket /\ Wrote(BucketOrder(disk[at].ptrs[Min(IndexOf(disk[at], call.key))]))
  BY <1>1, <1>3, BlockStep
<1>4. CASE InsertInLeaf /\ Wrote(BucketFirst(New, <<at>>))
  BY <1>1, <1>4, LeafStep
<1>5. CASE SplitLeaf /\ Wrote(LeafOrder)
  BY <1>1, <1>5, SplitStep
<1>6. ~(NewRoot \/ InsertInParent \/ SplitInternal)
  BY <1>1 DEF NewRoot, InsertInParent, SplitInternal
<1> QED
  BY <1>2, <1>3, <1>4, <1>5, <1>6 DEF OrderedStep

LEMMA OrderedStepKeeps ==
    ASSUME NoNil, CrashInv, OrderedStep, UNCHANGED statement
    PROVE  CrashInv'
<1>1. /\ before' = disk /\ dhdr' = dhdr /\ open' = open /\ pc \in {"find", "parent"}
      /\ Next /\ pc' # "harmed"
  BY StepIs
<1>2. TreeInv /\ MapInv /\ open
  BY <1>1 DEF CrashInv, TreeInv, RangeInv, CallOK
<1>3. /\ IsMap(opened) /\ Doing
      /\ Rootless \/ (dhdr.root # 0 /\ (Clean \/ Grown))
  BY <1>1, <1>2 DEF CrashInv
<1>4. Around /\ MapInv'
  BY <1>1, <1>2, AroundStep
<1>5. /\ Doing' /\ Outcomes' = Outcomes /\ IsMap(opened)'
      /\ pc = "find" => Content = opened /\ opened \in Outcomes
  BY <1>3, <1>4, StepContent
<1>6. pc' \in {"idle", "find", "parent"}
  BY <1>4 DEF Around, TreeInv, RangeInv, CallOK
<1>7. opened' = opened /\ inserting' = inserting
  BY DEF statement
<1>8. CASE Rootless
  <2>1. Rootless'
    BY <1>1, <1>7, <1>8 DEF Rootless
  <2> QED BY <1>1, <1>4, <1>5, <2>1 DEF CrashInv, Around
<1>9. CASE dhdr.root # 0 /\ pc = "find"
  <2>1. Clean \/ Rootless
    BY <1>3, <1>9 DEF Grown
  <2>2. Content \in Outcomes'
    BY <1>5, <1>9
  <2>3. ASSUME Clean PROVE Clean' \/ Grown'
    BY <1>2, <1>4, <1>6, <1>7, <1>9, <2>2, <2>3, FindStep
  <2> QED BY <1>1, <1>4, <1>5, <1>8, <1>9, <2>1, <2>3 DEF CrashInv, Around
<1>10. CASE dhdr.root # 0 /\ pc = "parent"
  <2>1. Grown \/ Rootless
    BY <1>3, <1>10 DEF Clean
  <2>2. NewRoot \/ InsertInParent \/ SplitInternal
    BY <1>10 DEF OrderedStep, Descend, Refuse, AddToBucket, InsertInLeaf, SplitLeaf, NewKey, AtLeaf
  <2>3. ASSUME Grown PROVE Grown'
    BY <1>1, <1>2, <2>2, <2>3, ParentStep
  <2> QED BY <1>1, <1>4, <1>5, <1>8, <1>10, <2>1, <2>3 DEF CrashInv, Around
<1> QED
  BY <1>1, <1>3, <1>8, <1>9, <1>10

\* Steps that change nothing.
LEMMA WholeStays ==
    ASSUME Whole, before' = before, dhdr' = dhdr, Outcomes' = Outcomes
    PROVE  Whole'
<1>1. F!TreeInv
  BY DEF Whole
<1>2. UNCHANGED F!vars
  BY DEF F!vars
<1>3. F!TreeInv'
  BY <1>1, <1>2, TreeAssumption, F!StutterKeeps DEF F!TreeAssumption
<1>4. F!L' = F!L /\ F!B' = F!B
  BY DEF F!L, F!B, F!OfType
<1>5. \A k, p : F!Filed(k, p)' <=> F!Filed(k, p)
  BY <1>4 DEF F!Filed
<1>6. \A c, v : F!In(c, v)' <=> F!In(c, v)
  BY DEF F!In
<1>7. PICK own \in Ghosts :
         /\ F!ChainInv(own)
         /\ \E c \in Outcomes : \A k \in Keys : \A v : v \in c[k] <=> F!Has(own, k, v)
  BY DEF Whole
<1>8. F!ChainInv(own)'
  BY <1>4, <1>5, <1>7 DEF F!ChainInv
<1>9. \A k, v : F!Has(own, k, v)' <=> F!Has(own, k, v)
  BY <1>4, <1>5, <1>6 DEF F!Has
<1>10. F!KeysIn'
  BY <1>5 DEF Whole, F!KeysIn
<1> QED
  BY <1>3, <1>7, <1>8, <1>9, <1>10 DEF Whole

LEMMA CrashStutter ==
    ASSUME NoNil, CrashInv, UNCHANGED crashVars
    PROVE  CrashInv'
<1>1. /\ UNCHANGED vars /\ writes' = writes /\ before' = before
      /\ opened' = opened /\ inserting' = inserting
      /\ pc' = pc /\ open' = open /\ hdr' = hdr /\ dhdr' = dhdr /\ disk' = disk /\ call' = call
  BY DEF crashVars, vars
<1>2. Outcomes' = Outcomes
  BY <1>1 DEF Outcomes
<1>3. L' = L /\ B' = B
  BY <1>1 DEF L, B, OfType
<1>4. \A n : \A b \in DOMAIN disk : Torn(n)'[b] = Torn(n)[b]
  BY <1>1 DEF Torn
<1>5. CASE pc = "harmed"
  BY <1>1, <1>5 DEF CrashInv
<1>6. CASE pc # "harmed" /\ ~open
  <2>1. TreeInv /\ MapInv
    BY <1>6 DEF CrashInv
  <2>2. TreeInv' /\ MapInv'
    BY <1>1, <2>1, AroundStep DEF Around
  <2> QED BY <1>1, <1>6, <2>2 DEF CrashInv
<1>7. CASE pc # "harmed" /\ open
  <2>1. /\ TreeInv /\ MapInv /\ IsMap(opened) /\ Doing
        /\ Rootless \/ (dhdr.root # 0 /\ (Clean \/ Grown))
    BY <1>7 DEF CrashInv
  <2>2. Around /\ MapInv'
    BY <1>1, <2>1, AroundStep
  <2>3. Content' = Content
    BY <1>1, <2>2, NothingWritten
  <2>4. Doing' /\ IsMap(opened)' /\ (Rootless => Rootless')
    BY <1>1, <1>2, <2>1, <2>3 DEF Doing, IsMap, Rootless
  <2>5. Whole => Whole'
    BY <1>1, <1>2, WholeStays
  <2>6. ASSUME NEW n
        PROVE  /\ Reads(n, before, DOMAIN disk) => Reads(n, before, DOMAIN disk)'
               /\ Reads(n, disk, DOMAIN disk) => Reads(n, disk, DOMAIN disk)'
    BY <1>1, <1>4 DEF Reads
  <2>7. Clean => Clean'
    BY <1>1, <2>5, <2>6 DEF Clean
  <2>8. \A n : Torn(n)' = Torn(n)
    BY <1>1 DEF Torn
  <2>9. ASSUME NEW n
        PROVE  /\ Reads(n, before, Given(dhdr)) => Reads(n, before, Given(dhdr))'
               /\ Harmed(Torn(n), dhdr) => Harmed(Torn(n), dhdr)'
               /\ SameLeaves(n) => SameLeaves(n)'
    <3>1. Reads(n, before, Given(dhdr)) => Reads(n, before, Given(dhdr))'
      BY <1>1, <2>8 DEF Reads
    <3>2. Harmed(Torn(n), dhdr) => Harmed(Torn(n), dhdr)'
      BY <1>1, <2>8 DEF Harmed
    <3>3. SameLeaves(n) => SameLeaves(n)'
      BY <1>1, <1>3, <2>8 DEF SameLeaves
    <3> QED BY <3>1, <3>2, <3>3
  <2>10. Grown => Grown'
    BY <1>1, <1>3, <2>5, <2>9 DEF Grown
  <2> QED BY <1>1, <2>1, <2>2, <2>4, <2>7, <2>10 DEF CrashInv, Around
<1> QED
  BY <1>5, <1>6, <1>7

LEMMA CrashNextKeeps ==
    ASSUME NoNil, CrashInv, CrashNext
    PROVE  CrashInv'
<1>1. CASE Begin
  <2>1. pc = "idle" /\ ~open
    BY <1>1 DEF Begin, Create, Open
  <2>2. TreeInv /\ MapInv
    BY <2>1 DEF CrashInv
  <2> QED BY <1>1, <2>1, <2>2, BeginStep
<1>2. CASE End
  BY <1>2, EndStep
<1>3. ASSUME NEW k \in Keys, NEW v \in Vals, Insert(k, v)
      PROVE  CrashInv'
  <2>1. open
    BY <1>3 DEF Insert, InsertFirst, BeginInsert, Search
  <2> QED BY <1>3, <2>1, InsertStep
<1>4. CASE OrderedStep /\ UNCHANGED statement
  BY <1>4, OrderedStepKeeps
<1>5. ASSUME NEW n \in 0 .. Len(writes), Crash(n)
      PROVE  CrashInv'
  BY <1>5, CrashStep
<1> QED
  BY <1>1, <1>2, <1>3, <1>4, <1>5 DEF CrashNext


\* Whatever is kept of the writes of a split, of a new bucket or of a step up the
\* tree: the file is a tree with the contents the statement found or those it was
\* to leave, or a block refers to one that the header has not counted.
THEOREM CrashInvariant == NoNil => (CrashSpec => []CrashInv)
<1> SUFFICES ASSUME NoNil PROVE CrashSpec => []CrashInv
  OBVIOUS
<1>1. CrashInit => CrashInv
  BY StartCrash
<1>2. CrashInv /\ [CrashNext]_crashVars => CrashInv'
  BY CrashNextKeeps, CrashStutter
<1> QED
  BY <1>1, <1>2, PTL DEF CrashSpec

\* A crash that leaves no block referring to one the header has not counted does no
\* harm, then or in the statements that follow: blocks are counted right, the chain
\* is sorted, searches arrive and parents are right.
THEOREM CrashesDoNoHarm == NoNil => (CrashSpec => []OtherwiseHarmless)
<1> SUFFICES ASSUME NoNil PROVE CrashSpec => []OtherwiseHarmless
  OBVIOUS
<1>1. CrashInv => OtherwiseHarmless
  <2> SUFFICES ASSUME CrashInv, pc # "harmed"
               PROVE  Allocation /\ ChainSorted /\ SearchReaches /\ ParentsRight
    BY DEF OtherwiseHarmless
  <2>1. TreeInv
    BY DEF CrashInv
  <2>2. Allocation
    BY <2>1 DEF TreeInv, FileInv, FileOK, Counted, Allocation, L, I, B
  <2> QED BY <2>1, <2>2, InvChainSorted, InvSearchReaches, InvParentsRight
<1> QED
  BY <1>1, CrashInvariant, PTL

\* Right after a crash, harmed or not, the chain of leaves and buckets has every entry
\* that was there when the statement began, and besides at most the statement's own.
THEOREM CrashesTearNothing == NoNil => (CrashSpec => CrashTearsNothing)
<1> SUFFICES ASSUME NoNil PROVE CrashSpec => CrashTearsNothing
  OBVIOUS
<1>1. CrashInv => ((\E n \in 0 .. Len(writes) : Crash(n)) => Content' \in Outcomes)
  BY CrashStep
<1>2. CrashInv /\ [CrashNext]_crashVars =>
        [(\E n \in 0 .. Len(writes) : Crash(n)) => Content' \in Outcomes]_crashVars
  BY <1>1
<1>3. CrashSpec => []CrashInv
  BY CrashInvariant
<1> QED
  BY <1>2, <1>3, PTL DEF CrashSpec, CrashTearsNothing
===============================================================================
