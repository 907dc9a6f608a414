---------------------------- MODULE BPlusTreeProofs ----------------------------
(***************************************************************************)
(* The B+ tree for any keys below INT_MAX, any table blocks and any        *)
(* capacities.  The invariant gives every node the half-open range of keys *)
(* between its neighbours in its parent (lo, hi) and its height (ht), and  *)
(* every leaf its place in the chain (pos).                                *)
(***************************************************************************)
EXTENDS BPlusTree, SequenceTheorems, FiniteSetTheorems, WellFoundedInduction, TLAPS

\* The proofs are about keys that are not INT_MAX.
NoNil == NilKey \notin Keys

\* What an array of keys holds.
Cells == 0 .. NilKey

Headers ==
    [root : Nat, duplicate : {"none", "Y", "N"}, numOfBlocks : Nat,
     numOfInterNodes : Nat, numOfLeafNodes : Nat, numOfPtrBucket : Nat]

Leaves == [type : {"L"}, size : 1 .. Cap, parent : Nat, next : Nat,
           keys : [1 .. Cap -> Cells], ptrs : [1 .. Cap -> Nat]]
Inners == [type : {"I"}, size : 1 .. Cap, parent : Nat,
           keys : [1 .. Cap -> Cells], ptrs : [1 .. Cap + 1 -> Nat]]
Buckets == [type : {"B"}, ptrs : Seq(Nat), next : Nat]

L     == OfType("L")
I     == OfType("I")
B     == OfType("B")
Nodes == L \cup I

\* The keys in use go up and the others are NilKey.
KeysOK(n) ==
    /\ \A i \in 1 .. Cap : IF i <= n.size THEN n.keys[i] < NilKey ELSE n.keys[i] = NilKey
    /\ \A i, j \in 1 .. n.size : i < j => n.keys[i] < n.keys[j]

HeaderOK ==
    /\ hdr \in Headers /\ dhdr \in Headers /\ open \in BOOLEAN
    /\ hdr.duplicate = dhdr.duplicate
    /\ ~open => hdr = dhdr /\ pc = "idle"
    /\ open => hdr.duplicate # "none"
    /\ hdr.duplicate = "none" => hdr = NoHeader
    /\ hdr.duplicate # "none" => hdr.numOfBlocks # 0

FileOK ==
    /\ DOMAIN disk = 1 .. hdr.numOfBlocks - 1
    /\ \A b \in DOMAIN disk : disk[b] \in Leaves \cup Inners \cup Buckets
    /\ \A b \in Nodes : KeysOK(disk[b]) /\ disk[b].parent \in DOMAIN disk
    /\ IF hdr.root = 0 THEN DOMAIN disk = {} ELSE hdr.root \in Nodes

Pending == pc = "parent"

\* While a split is on its way up, the right part stands behind the left one.
Sib(b) == IF Pending /\ b = up.left THEN up.right ELSE b

Unlinked(b) == Pending /\ b = up.right

\* A node has keys from lo to before hi; a node's pointer leads to the keys
\* between its neighbours.
Bounded(lo, hi) ==
    /\ hdr.root # 0 => lo[hdr.root] = 0 /\ hi[Sib(hdr.root)] = NilKey
    /\ \A b \in Nodes : \A i \in 1 .. disk[b].size :
          lo[b] <= disk[b].keys[i] /\ disk[b].keys[i] < hi[b]
    /\ \A b \in Nodes : hi[b] <= NilKey
    /\ \A p \in I : \A q \in 1 .. disk[p].size + 1 :
          LET n == disk[p]
              c == n.ptrs[q]
          IN  IF c = 0 THEN q = 1 /\ n.keys[1] = lo[p]
              ELSE /\ lo[c] = IF q = 1 THEN lo[p] ELSE n.keys[q - 1]
                   /\ hi[Sib(c)] = IF q = n.size + 1 THEN hi[p] ELSE n.keys[q]

\* Parents and children.
Linked(ht) ==
    /\ \A b \in L : ht[b] = 0
    /\ \A p \in I : \A q \in 1 .. Cap + 1 :
          LET c == disk[p].ptrs[q]
          IN  /\ q > disk[p].size + 1 => c = 0
              /\ c # 0 => /\ c \in Nodes /\ disk[c].parent = p /\ ht[p] = ht[c] + 1
                          /\ c # hdr.root /\ ~Unlinked(c)
    /\ \A c \in Nodes : c # hdr.root /\ ~Unlinked(c) =>
          LET p == disk[c].parent
          IN  p \in I /\ \E q \in 1 .. disk[p].size + 1 : disk[p].ptrs[q] = c
    /\ hdr.root # 0 => ht[hdr.root] <= hdr.numOfInterNodes

\* The leaves in the order of their keys.
Chained(lo, hi, pos) ==
    /\ hdr.root # 0 => 1 \in L /\ pos[1] = 0
    /\ \A b \in L :
          /\ pos[b] < hdr.numOfLeafNodes
          /\ \A a \in L : pos[a] = pos[b] => a = b
          /\ disk[b].next # 0 =>
                /\ disk[b].next \in L
                /\ pos[disk[b].next] = pos[b] + 1
                /\ lo[disk[b].next] = hi[b]
          /\ b # 1 => \E a \in L : disk[a].next = b

\* A bucket links to a later block: the chains end. In duplicate mode a leaf's
\* pointers lead to buckets.
BucketsOK ==
    /\ \A c \in B :
          /\ Len(disk[c].ptrs) \in 1 .. BucketCap
          /\ disk[c].next # 0 => disk[c].next \in B /\ disk[c].next > c
    /\ hdr.duplicate = "Y" => \A b \in L : \A i \in 1 .. disk[b].size : disk[b].ptrs[i] \in B

Counted ==
    /\ IsFiniteSet(L) /\ Cardinality(L) = hdr.numOfLeafNodes
    /\ IsFiniteSet(I) /\ Cardinality(I) = hdr.numOfInterNodes
    /\ IsFiniteSet(B) /\ Cardinality(B) = hdr.numOfPtrBucket

HalfFull ==
    \A b \in Nodes : b # hdr.root \/ (Pending /\ b = up.left) => disk[b].size >= Cap \div 2

\* The running call.
CallOK(lo, hi, ht) ==
    /\ pc \in {"idle", "find", "parent"}
    /\ pc # "idle" => hdr.root # 0 /\ open
    /\ pc = "find" =>
          /\ call.key \in Keys /\ call.val \in Nat
          /\ at \in Nodes /\ lo[at] <= call.key /\ call.key < hi[at]
    /\ pc = "parent" =>
          /\ up.left \in Nodes /\ up.right \in Nodes /\ up.left # up.right
          /\ up.right # hdr.root
          /\ disk[up.left].parent = disk[up.right].parent
          /\ ht[up.left] = ht[up.right]
          /\ hi[up.left] = up.key /\ lo[up.right] = up.key

\* The invariant.
FileInv == HeaderOK /\ FileOK /\ BucketsOK /\ Counted /\ HalfFull
RangeInv(lo, hi, ht, pos) ==
    Bounded(lo, hi) /\ Linked(ht) /\ Chained(lo, hi, pos) /\ CallOK(lo, hi, ht)

\* The nodes' part of it, which does not depend on the running call's key.
Shape(lo, hi, ht, pos) == Bounded(lo, hi) /\ Linked(ht) /\ Chained(lo, hi, pos)

Ghosts == [Nat -> Nat]

TreeInv == FileInv /\ \E lo, hi, ht, pos \in Ghosts : RangeInv(lo, hi, ht, pos)

-------------------------------------------------------------------------------
(* Numbers and sequences. *)

\* Induction on numbers: a set of numbers that is not empty has a least one.
LEMMA LeastNat ==
    ASSUME NEW S \in SUBSET Nat, S # {}
    PROVE  \E x \in S : \A y \in S : x <= y
<1>1. PICK x \in S : \A y \in S : <<y, x>> \notin OpToRel(<, Nat)
  BY WFMin, NatLessThanWellFounded
<1>2. \A y \in S : ~(y < x)
  BY <1>1 DEF OpToRel
<1> QED BY <1>2

LEMMA MinFacts ==
    ASSUME NEW S \in SUBSET Nat, S # {}
    PROVE  Min(S) \in S /\ \A x \in S : Min(S) <= x
  BY LeastNat DEF Min

\* An array with n cells.
Array(n, s) == s = [j \in 1 .. n |-> s[j]]

LEMMA ArrayIsSeq ==
    ASSUME NEW n \in Nat, NEW s, Array(n, s)
    PROVE  \E S : s \in Seq(S) /\ Len(s) = n
<1>1. \A j \in 1 .. n : s[j] \in {s[k] : k \in 1 .. n}
  OBVIOUS
<1>2. PICK S : \A j \in 1 .. n : s[j] \in S
  BY <1>1
<1>3. s \in Seq(S) /\ Len(s) = n
  BY <1>2 DEF Array
<1> QED
  BY <1>3

LEMMA SeqIsArray ==
    ASSUME NEW S, NEW s \in Seq(S)
    PROVE  Array(Len(s), s)
  BY DEF Array

LEMMA SameArray ==
    ASSUME NEW n \in Nat, NEW s, NEW t, Array(n, s), Array(n, t),
           \A j \in 1 .. n : s[j] = t[j]
    PROVE  s = t
  BY DEF Array

\* The operations on arrays, cell by cell.
Inserted(s, n, i, x) ==
    [j \in 1 .. n + 1 |-> IF j < i THEN s[j] ELSE IF j = i THEN x ELSE s[j - 1]]
Shifted(s, n, i, x) ==
    [j \in 1 .. n |-> IF j < i THEN s[j] ELSE IF j = i THEN x ELSE s[j - 1]]
Padded(s, m, n, x) == [j \in 1 .. n |-> IF j <= m THEN s[j] ELSE x]
Slice(s, a, b) == [j \in 1 .. b - a + 1 |-> s[a + j - 1]]

LEMMA InsertAtSeq ==
    ASSUME NEW S, NEW s \in Seq(S), NEW i \in 1 .. Len(s) + 1, NEW x \in S
    PROVE  InsertAt(s, i, x) = Inserted(s, Len(s), i, x)
<1> DEFINE a == SubSeq(s, 1, i - 1)
           b == SubSeq(s, i, Len(s))
           c == a \o <<x>>
<1>1. /\ a \in Seq(S) /\ Len(a) = i - 1
      /\ \A j \in 1 .. i - 1 : a[j] = s[j]
  OBVIOUS
<1>2. /\ b \in Seq(S) /\ Len(b) = Len(s) - i + 1
      /\ \A j \in 1 .. Len(s) - i + 1 : b[j] = s[i + j - 1]
  OBVIOUS
<1> HIDE DEF a, b
<1>3. /\ c \in Seq(S) /\ Len(c) = i
      /\ \A j \in 1 .. i : c[j] = IF j < i THEN s[j] ELSE x
  <2>1. <<x>> \in Seq(S) /\ Len(<<x>>) = 1 /\ <<x>>[1] = x
    OBVIOUS
  <2>2. /\ c \in Seq(S) /\ Len(c) = i
        /\ \A j \in 1 .. i : c[j] = IF j <= Len(a) THEN a[j] ELSE <<x>>[j - Len(a)]
    BY <1>1, <2>1, ConcatProperties
  <2> QED BY <1>1, <2>1, <2>2
<1> HIDE DEF c
<1>4. /\ c \o b \in Seq(S) /\ Len(c \o b) = Len(s) + 1
      /\ \A j \in 1 .. Len(s) + 1 :
            (c \o b)[j] = IF j <= i THEN c[j] ELSE b[j - i]
  BY <1>2, <1>3, ConcatProperties
<1>5. ASSUME NEW j \in 1 .. Len(s) + 1
      PROVE  (c \o b)[j] = IF j < i THEN s[j] ELSE IF j = i THEN x ELSE s[j - 1]
  <2>1. CASE j <= i
    BY <1>3, <1>4, <2>1
  <2>2. CASE ~(j <= i)
    <3>1. j - i \in 1 .. Len(s) - i + 1 /\ i + (j - i) - 1 = j - 1
      BY <2>2
    <3> QED BY <1>2, <1>4, <2>2, <3>1
  <2> QED BY <2>1, <2>2
<1>6. InsertAt(s, i, x) = c \o b
  BY DEF InsertAt, a, b, c
<1> DEFINE z == c \o b
<1>7. z \in Seq(S) /\ Len(z) = Len(s) + 1
  BY <1>4
<1>8. \A j \in 1 .. Len(s) + 1 : z[j] = Inserted(s, Len(s), i, x)[j]
  BY <1>5 DEF Inserted
<1> HIDE DEF z
<1>9. Array(Len(s) + 1, z)
  BY <1>7, SeqIsArray
<1>10. Array(Len(s) + 1, Inserted(s, Len(s), i, x))
  BY DEF Array, Inserted
<1>11. Len(s) + 1 \in Nat
  OBVIOUS
<1>12. z = Inserted(s, Len(s), i, x)
  BY <1>8, <1>9, <1>10, <1>11, SameArray
<1> QED
  BY <1>6, <1>12 DEF z

LEMMA ShiftSeq ==
    ASSUME NEW S, NEW s \in Seq(S), NEW i \in 1 .. Len(s), NEW x \in S
    PROVE  Shift(s, i, x) = Shifted(s, Len(s), i, x)
<1> DEFINE t == InsertAt(s, i, x)
<1>1. t = Inserted(s, Len(s), i, x)
  <2>1. i \in 1 .. Len(s) + 1
    OBVIOUS
  <2> QED BY <2>1, InsertAtSeq
<1> HIDE DEF t
<1>2. Array(Len(s) + 1, t)
  BY <1>1 DEF Array, Inserted
<1>3. PICK T : t \in Seq(T) /\ Len(t) = Len(s) + 1
  BY <1>2, ArrayIsSeq
<1>4. Shift(s, i, x) = SubSeq(t, 1, Len(s))
  BY <1>3 DEF Shift, Front, t
<1>5. SubSeq(t, 1, Len(s)) = [j \in 1 .. Len(s) |-> t[j]]
  BY <1>3
<1>6. \A j \in 1 .. Len(s) : t[j] = Shifted(s, Len(s), i, x)[j]
  BY <1>1 DEF Inserted, Shifted
<1>7. Array(Len(s), Shifted(s, Len(s), i, x))
  BY DEF Array, Shifted
<1>8. [j \in 1 .. Len(s) |-> t[j]] = Shifted(s, Len(s), i, x)
  BY <1>6, <1>7 DEF Array
<1> QED
  BY <1>4, <1>5, <1>8

LEMMA PadSeq ==
    ASSUME NEW S, NEW s \in Seq(S), NEW n \in Nat, Len(s) <= n, NEW x \in S
    PROVE  Pad(s, n, x) = Padded(s, Len(s), n, x)
<1> DEFINE r == [i \in 1 .. n - Len(s) |-> x]
<1>1. r \in Seq(S) /\ Len(r) = n - Len(s) /\ \A j \in 1 .. n - Len(s) : r[j] = x
  OBVIOUS
<1> HIDE DEF r
<1>2. /\ s \o r \in Seq(S) /\ Len(s \o r) = n
      /\ \A j \in 1 .. n : (s \o r)[j] = IF j <= Len(s) THEN s[j] ELSE r[j - Len(s)]
  BY <1>1, ConcatProperties
<1>3. \A j \in 1 .. n : j > Len(s) => r[j - Len(s)] = x
  BY <1>1
<1> DEFINE z == s \o r
<1>4. z \in Seq(S) /\ Len(z) = n
  BY <1>2
<1>5. \A j \in 1 .. n : z[j] = Padded(s, Len(s), n, x)[j]
  BY <1>2, <1>3 DEF Padded
<1>6. Pad(s, n, x) = z
  BY DEF Pad, r
<1> HIDE DEF z
<1>7. Array(n, z)
  BY <1>4, SeqIsArray
<1>8. Array(n, Padded(s, Len(s), n, x))
  BY DEF Array, Padded
<1> QED
  BY <1>5, <1>6, <1>7, <1>8, SameArray

LEMMA WithOne ==
    ASSUME NEW n \in Nat, NEW s, Array(n, s), NEW x
    PROVE  \E S : s \in Seq(S) /\ Len(s) = n /\ x \in S
<1>1. PICK S : s \in Seq(S) /\ Len(s) = n
  BY ArrayIsSeq
<1>2. PICK T : T = S \cup {x}
  OBVIOUS
<1>3. x \in T /\ \A y \in S : y \in T
  BY <1>2
<1>4. s \in Seq(T)
  BY <1>1, <1>3
<1> QED
  BY <1>1, <1>3, <1>4

LEMMA InsertAtIs ==
    ASSUME NEW n \in Nat, NEW s, Array(n, s), NEW i \in 1 .. n + 1, NEW x
    PROVE  InsertAt(s, i, x) = Inserted(s, n, i, x)
<1>1. PICK S : s \in Seq(S) /\ Len(s) = n /\ x \in S
  BY WithOne
<1>2. i \in 1 .. Len(s) + 1
  BY <1>1
<1> QED
  BY <1>1, <1>2, InsertAtSeq

LEMMA ShiftIs ==
    ASSUME NEW n \in Nat, NEW s, Array(n, s), NEW i \in 1 .. n, NEW x
    PROVE  Shift(s, i, x) = Shifted(s, n, i, x)
<1>1. PICK S : s \in Seq(S) /\ Len(s) = n /\ x \in S
  BY WithOne
<1>2. i \in 1 .. Len(s)
  BY <1>1
<1> QED
  BY <1>1, <1>2, ShiftSeq

LEMMA PadIs ==
    ASSUME NEW m \in Nat, NEW s, Array(m, s), NEW n \in Nat, m <= n, NEW x
    PROVE  Pad(s, n, x) = Padded(s, m, n, x)
<1>1. PICK S : s \in Seq(S) /\ Len(s) = m /\ x \in S
  BY WithOne
<1>2. Len(s) <= n
  BY <1>1
<1> QED
  BY <1>1, <1>2, PadSeq

LEMMA SliceIs ==
    ASSUME NEW n \in Nat, NEW s, Array(n, s),
           NEW a \in Nat, NEW b \in Nat, 1 <= a, a <= b, b <= n
    PROVE  SubSeq(s, a, b) = Slice(s, a, b)
<1>1. PICK S : s \in Seq(S) /\ Len(s) = n
  BY ArrayIsSeq
<1> QED
  BY <1>1 DEF Slice

-------------------------------------------------------------------------------
(* Nodes. *)

LEMMA FunIsArray ==
    ASSUME NEW n \in Nat, NEW S, NEW s \in [1 .. n -> S]
    PROVE  Array(n, s) /\ Len(s) = n
<1>1. Array(n, s)
  BY DEF Array
<1> QED
  BY <1>1

\* What a node has.
LEMMA NodeFacts ==
    ASSUME NEW n \in Leaves \cup Inners, KeysOK(n)
    PROVE  /\ Cap \in Nat /\ NilKey \in Nat
           /\ n.size \in Nat /\ 1 <= n.size /\ n.size <= Cap
           /\ n.keys \in [1 .. Cap -> Cells]
           /\ \A i \in 1 .. Cap : n.keys[i] \in Nat
           /\ \A i \in 1 .. Cap : i <= n.size => n.keys[i] < NilKey
           /\ \A i \in 1 .. Cap : i > n.size => n.keys[i] = NilKey
           /\ \A i, j \in 1 .. n.size : i < j => n.keys[i] < n.keys[j]
<1>1. Cap \in Nat /\ NilKey \in Nat
  BY TreeAssumption
<1>2. n.size \in 1 .. Cap /\ n.keys \in [1 .. Cap -> Cells]
  BY DEF Leaves, Inners
<1>3. \A i \in 1 .. Cap : n.keys[i] \in Nat
  BY <1>1, <1>2 DEF Cells
<1>4. \A i \in 1 .. Cap : IF i <= n.size THEN n.keys[i] < NilKey ELSE n.keys[i] = NilKey
  BY DEF KeysOK
<1>5. \A i, j \in 1 .. n.size : i < j => n.keys[i] < n.keys[j]
  BY DEF KeysOK
<1>6. n.size \in Nat /\ 1 <= n.size /\ n.size <= Cap
  BY <1>1, <1>2
<1>7. \A i \in 1 .. Cap : i <= n.size => n.keys[i] < NilKey
  BY <1>4
<1>8. \A i \in 1 .. Cap : i > n.size => n.keys[i] = NilKey
  BY <1>1, <1>4, <1>6
<1> QED
  BY <1>1, <1>2, <1>3, <1>5, <1>6, <1>7, <1>8

LEMMA AboveFacts ==
    ASSUME NEW n, Cap \in Nat, \A i \in 1 .. Cap : n.keys[i] \in Nat, NEW k \in Nat
    PROVE  /\ Above(n, k) \in 1 .. Cap + 1
           /\ \A j \in 1 .. Above(n, k) - 1 : n.keys[j] <= k
           /\ Above(n, k) <= Cap => n.keys[Above(n, k)] > k
<1> DEFINE S == {i \in 1 .. Cap : n.keys[i] > k} \cup {Cap + 1}
           a == Above(n, k)
<1>2. S \in SUBSET Nat /\ S # {}
  OBVIOUS
<1>3. a = Min(S)
  BY DEF Above
<1> HIDE DEF S, a
<1>4. a \in S /\ \A x \in S : a <= x
  BY <1>2, <1>3, MinFacts
<1>5. a \in 1 .. Cap + 1 /\ (a <= Cap => n.keys[a] > k)
  BY <1>4 DEF S
<1>6. ASSUME NEW j \in 1 .. a - 1 PROVE n.keys[j] <= k
  <2>1. j \in 1 .. Cap /\ ~(a <= j)
    BY <1>5
  <2>2. j \notin S
    BY <1>4, <2>1
  <2>3. n.keys[j] \in Nat /\ ~(n.keys[j] > k)
    BY <2>1, <2>2 DEF S
  <2> QED BY <2>3
<1> QED
  BY <1>5, <1>6 DEF a

\* In a node: the position of a key below NilKey is among the keys in use or
\* right behind them, and there is one such position.
LEMMA AboveInNode ==
    ASSUME NEW n \in Leaves \cup Inners, KeysOK(n), NEW k \in Nat, k < NilKey
    PROVE  /\ Above(n, k) \in 1 .. n.size + 1
           /\ \A j \in 1 .. Above(n, k) - 1 : n.keys[j] <= k
           /\ Above(n, k) <= n.size => n.keys[Above(n, k)] > k
           /\ \A q \in 1 .. n.size + 1 :
                 (q > 1 => n.keys[q - 1] <= k) /\ (q <= n.size => n.keys[q] > k)
                    => Above(n, k) = q
<1> DEFINE a == Above(n, k)
<1>1. /\ Cap \in Nat /\ n.size \in Nat /\ 1 <= n.size /\ n.size <= Cap /\ NilKey \in Nat
      /\ \A i \in 1 .. Cap : n.keys[i] \in Nat
      /\ \A i \in 1 .. Cap : i > n.size => n.keys[i] = NilKey
      /\ \A i, j \in 1 .. n.size : i < j => n.keys[i] < n.keys[j]
  BY NodeFacts
<1>2. /\ a \in 1 .. Cap + 1
      /\ \A j \in 1 .. a - 1 : n.keys[j] <= k
      /\ a <= Cap => n.keys[a] > k
  BY <1>1, AboveFacts
<1> HIDE DEF a
<1>4. a \in 1 .. n.size + 1
  <2>1. SUFFICES ASSUME a > n.size + 1 PROVE FALSE
    BY <1>1, <1>2
  <2>2. n.size + 1 \in 1 .. a - 1 /\ n.size + 1 \in 1 .. Cap
    BY <1>1, <1>2, <2>1
  <2>3. n.keys[n.size + 1] = NilKey /\ n.keys[n.size + 1] <= k
    BY <1>1, <1>2, <2>2
  <2> QED BY <1>1, <2>3
<1>5. ASSUME NEW q \in 1 .. n.size + 1,
             q > 1 => n.keys[q - 1] <= k, q <= n.size => n.keys[q] > k
      PROVE  a = q
  <2>1. CASE a < q
    <3>1. q - 1 \in 1 .. n.size /\ a \in 1 .. n.size /\ q > 1 /\ a <= q - 1 /\ a <= Cap
          /\ a \in 1 .. Cap /\ q - 1 \in 1 .. Cap
      BY <1>1, <1>2, <1>4, <2>1
    <3>2. n.keys[a] \in Nat /\ n.keys[q - 1] \in Nat /\ n.keys[a] > k
      BY <1>1, <1>2, <3>1
    <3>3. a = q - 1 \/ n.keys[a] < n.keys[q - 1]
      BY <1>1, <3>1
    <3>4. n.keys[q - 1] <= k
      BY <1>5, <3>1
    <3> QED BY <3>2, <3>3, <3>4
  <2>2. CASE a > q
    <3>1. q \in 1 .. a - 1 /\ q <= n.size /\ q \in 1 .. Cap
      BY <1>1, <1>2, <1>4, <2>2
    <3>2. n.keys[q] <= k /\ n.keys[q] > k /\ n.keys[q] \in Nat
      BY <1>1, <1>2, <1>5, <3>1
    <3> QED BY <3>2
  <2> QED BY <1>1, <1>2, <2>1, <2>2
<1> QED
  BY <1>2, <1>1, <1>4, <1>5 DEF a

\* The keys and the pointers of a node with one more at position q.
WideKey(n, q, k, j) == IF j < q THEN n.keys[j] ELSE IF j = q THEN k ELSE n.keys[j - 1]
WidePtr(n, q, c, j) == IF j < q THEN n.ptrs[j] ELSE IF j = q THEN c ELSE n.ptrs[j - 1]

\* The position of a key in a node that does not have it.
Fits(n, q, k) ==
    /\ k \in Nat /\ k < NilKey /\ q \in 1 .. n.size + 1
    /\ q > 1 => n.keys[q - 1] < k
    /\ q <= n.size => k < n.keys[q]

\* A key that goes in where it fits keeps the keys in order.
LEMMA WideKeys ==
    ASSUME NEW n \in Leaves \cup Inners, KeysOK(n), NEW q, NEW k, Fits(n, q, k)
    PROVE  /\ \A j \in 1 .. n.size + 1 :
                 WideKey(n, q, k, j) \in Nat /\ WideKey(n, q, k, j) < NilKey
           /\ \A i, j \in 1 .. n.size + 1 :
                 i < j => WideKey(n, q, k, i) < WideKey(n, q, k, j)
<1> DEFINE W(j) == WideKey(n, q, k, j)
<1>1. /\ n.size \in Nat /\ 1 <= n.size /\ n.size <= Cap /\ Cap \in Nat /\ NilKey \in Nat
      /\ \A i, j \in 1 .. n.size : i < j => n.keys[i] < n.keys[j]
      /\ k \in Nat /\ k < NilKey /\ q \in 1 .. n.size + 1
  BY NodeFacts DEF Fits
<1>2. \A j \in 1 .. n.size : n.keys[j] \in Nat /\ n.keys[j] < NilKey
  <2>1. \A j \in 1 .. n.size : j \in 1 .. Cap /\ j <= n.size
    BY <1>1
  <2> QED BY <2>1, NodeFacts
<1>4. ASSUME NEW j \in 1 .. n.size + 1 PROVE W(j) \in Nat /\ W(j) < NilKey
  <2>1. CASE j < q
    BY <1>1, <1>2, <2>1 DEF WideKey
  <2>2. CASE j = q
    BY <1>1, <2>2 DEF WideKey
  <2>3. CASE j > q
    <3>1. j - 1 \in 1 .. n.size
      BY <1>1, <2>3
    <3>2. W(j) = n.keys[j - 1]
      BY <1>1, <2>3 DEF WideKey
    <3> QED BY <1>2, <3>1, <3>2
  <2> QED BY <1>1, <2>1, <2>2, <2>3
<1>5. ASSUME NEW j \in 1 .. n.size, j < q PROVE n.keys[j] < k
  <2>1. q - 1 \in 1 .. n.size /\ q > 1 /\ (j = q - 1 \/ j < q - 1)
    BY <1>1, <1>5
  <2>2. j = q - 1 \/ n.keys[j] < n.keys[q - 1]
    BY <1>1, <2>1
  <2>3. n.keys[j] \in Nat /\ n.keys[q - 1] \in Nat /\ n.keys[q - 1] < k
    BY <1>2, <2>1 DEF Fits
  <2> QED BY <1>1, <2>2, <2>3
<1>6. ASSUME NEW j \in 1 .. n.size, j >= q PROVE k < n.keys[j]
  <2>1. q \in 1 .. n.size /\ q <= n.size /\ (j = q \/ q < j)
    BY <1>1, <1>6
  <2>2. j = q \/ n.keys[q] < n.keys[j]
    BY <1>1, <2>1
  <2>3. n.keys[j] \in Nat /\ n.keys[q] \in Nat /\ k < n.keys[q]
    BY <1>2, <2>1 DEF Fits
  <2> QED BY <1>1, <2>2, <2>3
<1>7. ASSUME NEW i \in 1 .. n.size + 1, NEW j \in 1 .. n.size + 1, i < j
      PROVE  W(i) < W(j)
  <2>1. CASE j < q
    <3>1. i \in 1 .. n.size /\ j \in 1 .. n.size /\ i < q
      BY <1>1, <1>7, <2>1
    <3>2. W(i) = n.keys[i] /\ W(j) = n.keys[j]
      BY <2>1, <3>1 DEF WideKey
    <3> QED BY <1>1, <1>7, <3>1, <3>2
  <2>2. CASE j = q
    <3>1. i \in 1 .. n.size /\ i < q
      BY <1>1, <1>7, <2>2
    <3>2. W(i) = n.keys[i] /\ W(j) = k
      BY <1>1, <2>2, <3>1 DEF WideKey
    <3> QED BY <1>5, <3>1, <3>2
  <2>3. CASE j > q /\ i < q
    <3>1. j - 1 \in 1 .. n.size /\ i \in 1 .. n.size /\ j - 1 >= q
      BY <1>1, <2>3
    <3>2. n.keys[i] < k /\ k < n.keys[j - 1] /\ n.keys[i] \in Nat /\ n.keys[j - 1] \in Nat
      BY <1>2, <1>5, <1>6, <2>3, <3>1
    <3>3. W(i) = n.keys[i] /\ W(j) = n.keys[j - 1]
      BY <1>1, <2>3 DEF WideKey
    <3> QED BY <1>1, <3>2, <3>3
  <2>4. CASE j > q /\ i = q
    <3>1. j - 1 \in 1 .. n.size /\ j - 1 >= q
      BY <1>1, <2>4
    <3>2. W(i) = k /\ W(j) = n.keys[j - 1]
      BY <1>1, <2>4 DEF WideKey
    <3> QED BY <1>6, <3>1, <3>2
  <2>5. CASE i > q
    <3>1. j - 1 \in 1 .. n.size /\ i - 1 \in 1 .. n.size /\ i - 1 < j - 1 /\ j > q
      BY <1>1, <1>7, <2>5
    <3>2. W(i) = n.keys[i - 1] /\ W(j) = n.keys[j - 1]
      BY <1>1, <2>5, <3>1 DEF WideKey
    <3> QED BY <1>1, <3>1, <3>2
  <2> QED BY <1>1, <1>7, <2>1, <2>2, <2>3, <2>4, <2>5
<1> QED
  BY <1>4, <1>7

\* A split leaves keys on both sides, and about half of them.
LEMMA HalfFacts ==
    /\ Half \in 1 .. Cap /\ Cap + 1 - Half \in 1 .. Cap
    /\ Half >= Cap \div 2 /\ Cap + 1 - Half >= Cap \div 2
    /\ Cap \in Nat /\ Half \in Nat
  BY TreeAssumption DEF Half

\* The keys of a node that is written.
KeyList(m, keys) ==
    /\ m \in 1 .. Cap /\ keys \in [1 .. m -> Cells]
    /\ \A j \in 1 .. m : keys[j] < NilKey
    /\ \A i, j \in 1 .. m : i < j => keys[i] < keys[j]

LEMMA PaddedKeys ==
    ASSUME NEW m, NEW keys, KeyList(m, keys)
    PROVE  /\ Len(keys) = m
           /\ Pad(keys, Cap, NilKey) \in [1 .. Cap -> Cells]
           /\ \A j \in 1 .. m : Pad(keys, Cap, NilKey)[j] = keys[j]
           /\ \A j \in 1 .. Cap : j > m => Pad(keys, Cap, NilKey)[j] = NilKey
<1>1. /\ Cap \in Nat /\ NilKey \in Nat /\ m \in Nat /\ m <= Cap /\ m \in 1 .. Cap
      /\ keys \in [1 .. m -> Cells] /\ NilKey \in Cells
  BY TreeAssumption DEF KeyList, Cells
<1>2. Array(m, keys) /\ Len(keys) = m
  BY <1>1, FunIsArray
<1>3. Pad(keys, Cap, NilKey) = Padded(keys, m, Cap, NilKey)
  BY <1>1, <1>2, PadIs
<1>4. \A j \in 1 .. Cap : j <= m => keys[j] \in Cells
  BY <1>1
<1>5. /\ Padded(keys, m, Cap, NilKey) \in [1 .. Cap -> Cells]
      /\ \A j \in 1 .. m : Padded(keys, m, Cap, NilKey)[j] = keys[j]
      /\ \A j \in 1 .. Cap : j > m => Padded(keys, m, Cap, NilKey)[j] = NilKey
  BY <1>1, <1>4 DEF Padded
<1> QED
  BY <1>2, <1>3, <1>5

LEMMA PaddedPtrs ==
    ASSUME NEW m \in Nat, NEW n \in Nat, m <= n, NEW ptrs \in [1 .. m -> Nat]
    PROVE  /\ Pad(ptrs, n, 0) \in [1 .. n -> Nat]
           /\ \A j \in 1 .. n : Pad(ptrs, n, 0)[j] = IF j <= m THEN ptrs[j] ELSE 0
<1>1. Array(m, ptrs)
  BY FunIsArray
<1>2. Pad(ptrs, n, 0) = Padded(ptrs, m, n, 0)
  BY <1>1, PadIs
<1>3. /\ Padded(ptrs, m, n, 0) \in [1 .. n -> Nat]
      /\ \A j \in 1 .. n : Padded(ptrs, m, n, 0)[j] = IF j <= m THEN ptrs[j] ELSE 0
  BY DEF Padded
<1> QED
  BY <1>2, <1>3

\* A leaf or a node with m keys.
IsLeaf(n, m, parent, next, keys, ptrs) ==
    /\ n \in Leaves /\ KeysOK(n)
    /\ n.type = "L" /\ n.size = m /\ n.parent = parent /\ n.next = next
    /\ \A j \in 1 .. m : n.keys[j] = keys[j] /\ n.ptrs[j] = ptrs[j]
IsInner(n, m, parent, keys, ptrs) ==
    /\ n \in Inners /\ KeysOK(n)
    /\ n.type = "I" /\ n.size = m /\ n.parent = parent
    /\ \A j \in 1 .. m : n.keys[j] = keys[j]
    /\ \A j \in 1 .. Cap + 1 : n.ptrs[j] = IF j <= m + 1 THEN ptrs[j] ELSE 0

PtrList(m, ptrs) == m \in Nat /\ ptrs \in [1 .. m -> Nat]

LEMMA LeafNodeFacts ==
    ASSUME NEW m, NEW keys, KeyList(m, keys), NEW ptrs, PtrList(m, ptrs),
           NEW parent \in Nat, NEW next \in Nat, NEW n, n = LeafNode(parent, next, keys, ptrs)
    PROVE  IsLeaf(n, m, parent, next, keys, ptrs)
<1> DEFINE K == Pad(keys, Cap, NilKey)
           P == Pad(ptrs, Cap, 0)
<1>1. m \in 1 .. Cap /\ Cap \in Nat /\ m \in Nat /\ m <= Cap /\ \A j \in 1 .. m : j \in 1 .. Cap
  BY TreeAssumption DEF KeyList
<1>2. /\ Len(keys) = m /\ K \in [1 .. Cap -> Cells]
      /\ \A j \in 1 .. m : K[j] = keys[j]
      /\ \A j \in 1 .. Cap : j > m => K[j] = NilKey
  BY PaddedKeys
<1>3. P \in [1 .. Cap -> Nat] /\ \A j \in 1 .. Cap : P[j] = IF j <= m THEN ptrs[j] ELSE 0
  BY <1>1, PaddedPtrs DEF PtrList
<1>4. n = [type |-> "L", size |-> m, parent |-> parent, next |-> next, keys |-> K, ptrs |-> P]
  BY <1>2 DEF LeafNode
<1> HIDE DEF K, P
<1>5. /\ n \in Leaves /\ n.type = "L" /\ n.size = m /\ n.parent = parent /\ n.next = next
      /\ n.keys = K /\ n.ptrs = P
  BY <1>1, <1>2, <1>3, <1>4 DEF Leaves
<1>6. KeysOK(n)
  <2>1. \A j \in 1 .. Cap : IF j <= m THEN K[j] < NilKey ELSE K[j] = NilKey
    <3>1. \A j \in 1 .. Cap : j <= m => j \in 1 .. m
      BY <1>1
    <3> QED BY <1>1, <1>2, <3>1 DEF KeyList
  <2>2. \A i, j \in 1 .. m : i < j => K[i] < K[j]
    BY <1>2 DEF KeyList
  <2> QED BY <1>5, <2>1, <2>2 DEF KeysOK
<1>7. \A j \in 1 .. m : n.keys[j] = keys[j] /\ n.ptrs[j] = ptrs[j]
  BY <1>1, <1>2, <1>3, <1>5
<1> QED
  BY <1>5, <1>6, <1>7 DEF IsLeaf

LEMMA InternalNodeFacts ==
    ASSUME NEW m, NEW keys, KeyList(m, keys), NEW ptrs, NEW z, z = m + 1, PtrList(z, ptrs),
           NEW parent \in Nat, NEW n, n = InternalNode(parent, keys, ptrs)
    PROVE  IsInner(n, m, parent, keys, ptrs)
<1> DEFINE K == Pad(keys, Cap, NilKey)
           P == Pad(ptrs, Cap + 1, 0)
<1>1. /\ m \in 1 .. Cap /\ Cap \in Nat /\ m \in Nat /\ m <= Cap
      /\ m + 1 \in Nat /\ Cap + 1 \in Nat /\ m + 1 <= Cap + 1
  BY TreeAssumption DEF KeyList
<1>2. /\ Len(keys) = m /\ K \in [1 .. Cap -> Cells]
      /\ \A j \in 1 .. m : K[j] = keys[j]
      /\ \A j \in 1 .. Cap : j > m => K[j] = NilKey
  BY PaddedKeys
<1>3. P \in [1 .. Cap + 1 -> Nat] /\ \A j \in 1 .. Cap + 1 : P[j] = IF j <= m + 1 THEN ptrs[j] ELSE 0
  BY <1>1, PaddedPtrs DEF PtrList
<1>4. n = [type |-> "I", size |-> m, parent |-> parent, keys |-> K, ptrs |-> P]
  BY <1>2 DEF InternalNode
<1> HIDE DEF K, P
<1>5. /\ n \in Inners /\ n.type = "I" /\ n.size = m /\ n.parent = parent
      /\ n.keys = K /\ n.ptrs = P
  BY <1>1, <1>2, <1>3, <1>4 DEF Inners
<1>6. KeysOK(n)
  <2>1. \A j \in 1 .. Cap : IF j <= m THEN K[j] < NilKey ELSE K[j] = NilKey
    <3>1. \A j \in 1 .. Cap : j <= m => j \in 1 .. m
      BY <1>1
    <3> QED BY <1>1, <1>2, <3>1 DEF KeyList
  <2>2. \A i, j \in 1 .. m : i < j => K[i] < K[j]
    BY <1>2 DEF KeyList
  <2> QED BY <1>5, <2>1, <2>2 DEF KeysOK
<1> QED
  BY <1>2, <1>3, <1>5, <1>6 DEF IsInner

\* The arrays of a node with room after Shift.
LEMMA ShiftedNode ==
    ASSUME NEW n \in Leaves \cup Inners, KeysOK(n), n.size < Cap, NEW q, NEW k, Fits(n, q, k),
           NEW w \in Nat, w >= Cap, n.ptrs \in [1 .. w -> Nat],
           NEW r \in 1 .. w, NEW v \in Nat
    PROVE  /\ Shift(n.keys, q, k) \in [1 .. Cap -> Cells]
           /\ \A j \in 1 .. n.size + 1 : Shift(n.keys, q, k)[j] = WideKey(n, q, k, j)
           /\ \A j \in 1 .. Cap : j > n.size + 1 => Shift(n.keys, q, k)[j] = NilKey
           /\ Shift(n.ptrs, r, v) \in [1 .. w -> Nat]
           /\ \A j \in 1 .. w : Shift(n.ptrs, r, v)[j] = WidePtr(n, r, v, j)
<1>1. /\ Cap \in Nat /\ NilKey \in Nat /\ n.size \in Nat /\ 1 <= n.size /\ n.size < Cap
      /\ q \in 1 .. Cap /\ q <= n.size + 1 /\ k \in Cells
      /\ n.keys \in [1 .. Cap -> Cells]
      /\ \A j \in 1 .. Cap : j > n.size => n.keys[j] = NilKey
  <2>1. /\ Cap \in Nat /\ NilKey \in Nat /\ n.size \in Nat /\ 1 <= n.size
        /\ n.keys \in [1 .. Cap -> Cells]
        /\ \A j \in 1 .. Cap : j > n.size => n.keys[j] = NilKey
    BY NodeFacts
  <2>2. k \in Nat /\ k < NilKey /\ q \in 1 .. n.size + 1
    BY DEF Fits
  <2>3. k \in Cells
    BY <2>1, <2>2 DEF Cells
  <2> QED BY <2>1, <2>2, <2>3
<1>2. Array(Cap, n.keys) /\ Array(w, n.ptrs)
  BY <1>1, FunIsArray
<1>3. Shift(n.keys, q, k) = Shifted(n.keys, Cap, q, k)
  BY <1>1, <1>2, ShiftIs
<1>4. Shift(n.ptrs, r, v) = Shifted(n.ptrs, w, r, v)
  BY <1>2, ShiftIs
<1>5. \A j \in 1 .. Cap : n.keys[j] \in Cells /\ (j > q => n.keys[j - 1] \in Cells)
  BY <1>1
<1>6. Shifted(n.keys, Cap, q, k) \in [1 .. Cap -> Cells]
  BY <1>1, <1>5 DEF Shifted
<1>7. \A j \in 1 .. Cap : Shifted(n.keys, Cap, q, k)[j] = WideKey(n, q, k, j)
  BY DEF Shifted, WideKey
<1>8. ASSUME NEW j \in 1 .. Cap, j > n.size + 1 PROVE WideKey(n, q, k, j) = NilKey
  <2>1. j - 1 \in 1 .. Cap /\ j - 1 > n.size /\ j > q
    BY <1>1, <1>8
  <2>2. WideKey(n, q, k, j) = n.keys[j - 1]
    BY <1>1, <2>1 DEF WideKey
  <2> QED BY <1>1, <2>1, <2>2
<1>9. \A j \in 1 .. w : n.ptrs[j] \in Nat /\ (j > r => n.ptrs[j - 1] \in Nat)
  OBVIOUS
<1>10. Shifted(n.ptrs, w, r, v) \in [1 .. w -> Nat]
  BY <1>9 DEF Shifted
<1>11. \A j \in 1 .. w : Shifted(n.ptrs, w, r, v)[j] = WidePtr(n, r, v, j)
  BY DEF Shifted, WidePtr
<1>12. \A j \in 1 .. n.size + 1 : j \in 1 .. Cap
  BY <1>1
<1> QED
  BY <1>3, <1>4, <1>6, <1>7, <1>8, <1>10, <1>11, <1>12

\* The keys of a node whose cells are those of a wide node.
WideCells(m, n, q, k) ==
    /\ m.size = n.size + 1
    /\ \A j \in 1 .. n.size + 1 : m.keys[j] = WideKey(n, q, k, j)
    /\ \A j \in 1 .. Cap : j > n.size + 1 => m.keys[j] = NilKey

LEMMA WideNodeKeys ==
    ASSUME NEW n \in Leaves \cup Inners, KeysOK(n), n.size < Cap, NEW q, NEW k, Fits(n, q, k),
           NEW m, WideCells(m, n, q, k)
    PROVE  KeysOK(m)
<1>0. /\ m.size = n.size + 1
      /\ \A j \in 1 .. n.size + 1 : m.keys[j] = WideKey(n, q, k, j)
      /\ \A j \in 1 .. Cap : j > n.size + 1 => m.keys[j] = NilKey
  BY DEF WideCells
<1>1. n.size \in Nat /\ 1 <= n.size /\ Cap \in Nat
  BY NodeFacts
<1>2. /\ \A j \in 1 .. n.size + 1 : WideKey(n, q, k, j) < NilKey
      /\ \A i, j \in 1 .. n.size + 1 : i < j => WideKey(n, q, k, i) < WideKey(n, q, k, j)
  BY WideKeys
<1>3. \A j \in 1 .. Cap : IF j <= m.size THEN m.keys[j] < NilKey ELSE m.keys[j] = NilKey
  <2>1. \A j \in 1 .. Cap : j <= n.size + 1 => j \in 1 .. n.size + 1
    BY <1>1
  <2> QED BY <1>0, <1>1, <1>2, <2>1
<1>4. \A i, j \in 1 .. m.size : i < j => m.keys[i] < m.keys[j]
  BY <1>0, <1>2
<1> QED
  BY <1>3, <1>4 DEF KeysOK

LEMMA LeafTyped ==
    ASSUME NEW z \in 1 .. Cap, NEW p \in Nat, NEW x \in Nat,
           NEW K \in [1 .. Cap -> Cells], NEW P \in [1 .. Cap -> Nat]
    PROVE  [type |-> "L", size |-> z, parent |-> p, next |-> x, keys |-> K, ptrs |-> P] \in Leaves
  BY DEF Leaves

LEMMA InnerTyped ==
    ASSUME NEW z \in 1 .. Cap, NEW p \in Nat,
           NEW K \in [1 .. Cap -> Cells], NEW P \in [1 .. Cap + 1 -> Nat]
    PROVE  [type |-> "I", size |-> z, parent |-> p, keys |-> K, ptrs |-> P] \in Inners
  BY DEF Inners

\* What InsertInLeaf and InsertInParent make of a node.
LeafPlus(n, q, k, v) ==
    [n EXCEPT !.keys = Shift(@, q, k), !.ptrs = Shift(@, q, v), !.size = @ + 1]
InnerPlus(n, q, k, v) ==
    [n EXCEPT !.keys = Shift(@, q, k), !.ptrs = Shift(@, q + 1, v), !.size = @ + 1]

LEMMA LeafExcept ==
    ASSUME NEW n \in Leaves, NEW q, NEW k, NEW v
    PROVE  LeafPlus(n, q, k, v) =
             [type |-> "L", size |-> n.size + 1, parent |-> n.parent, next |-> n.next,
              keys |-> Shift(n.keys, q, k), ptrs |-> Shift(n.ptrs, q, v)]
<1> DEFINE K == Shift(n.keys, q, k)
           P == Shift(n.ptrs, q, v)
           z == n.size + 1
<1>0. LeafPlus(n, q, k, v) = [n EXCEPT !.keys = K, !.ptrs = P, !.size = z]
  BY DEF LeafPlus
<1> HIDE DEF K, P, z
<1>1. PICK a, b, c, d, e :
        n = [type |-> "L", size |-> a, parent |-> b, next |-> c, keys |-> d, ptrs |-> e]
  <2>1. n = [type |-> "L", size |-> n.size, parent |-> n.parent, next |-> n.next,
             keys |-> n.keys, ptrs |-> n.ptrs]
    BY DEF Leaves
  <2> QED BY <2>1
<1>2. n.parent = b /\ n.next = c
  BY <1>1
<1>3. PICK m : m = [n EXCEPT !.keys = K]
  OBVIOUS
<1>4. m = [type |-> "L", size |-> a, parent |-> b, next |-> c, keys |-> K, ptrs |-> e]
  BY <1>1, <1>3
<1>5. PICK o : o = [m EXCEPT !.ptrs = P]
  OBVIOUS
<1>6. o = [type |-> "L", size |-> a, parent |-> b, next |-> c, keys |-> K, ptrs |-> P]
  BY <1>4, <1>5
<1>7. [o EXCEPT !.size = z] =
        [type |-> "L", size |-> z, parent |-> b, next |-> c, keys |-> K, ptrs |-> P]
  BY <1>6
<1>8. [n EXCEPT !.keys = K, !.ptrs = P, !.size = z] =
        [type |-> "L", size |-> z, parent |-> n.parent, next |-> n.next, keys |-> K, ptrs |-> P]
  BY <1>2, <1>3, <1>5, <1>7
<1> QED
  BY <1>0, <1>8 DEF K, P, z

LEMMA InnerExcept ==
    ASSUME NEW n \in Inners, NEW q, NEW k, NEW v
    PROVE  InnerPlus(n, q, k, v) =
             [type |-> "I", size |-> n.size + 1, parent |-> n.parent,
              keys |-> Shift(n.keys, q, k), ptrs |-> Shift(n.ptrs, q + 1, v)]
<1> DEFINE K == Shift(n.keys, q, k)
           P == Shift(n.ptrs, q + 1, v)
           z == n.size + 1
<1>0. InnerPlus(n, q, k, v) = [n EXCEPT !.keys = K, !.ptrs = P, !.size = z]
  BY DEF InnerPlus
<1> HIDE DEF K, P, z
<1>1. PICK a, b, d, e :
        n = [type |-> "I", size |-> a, parent |-> b, keys |-> d, ptrs |-> e]
  <2>1. n = [type |-> "I", size |-> n.size, parent |-> n.parent,
             keys |-> n.keys, ptrs |-> n.ptrs]
    BY DEF Inners
  <2> QED BY <2>1
<1>2. n.parent = b
  BY <1>1
<1>3. PICK m : m = [n EXCEPT !.keys = K]
  OBVIOUS
<1>4. m = [type |-> "I", size |-> a, parent |-> b, keys |-> K, ptrs |-> e]
  BY <1>1, <1>3
<1>5. PICK o : o = [m EXCEPT !.ptrs = P]
  OBVIOUS
<1>6. o = [type |-> "I", size |-> a, parent |-> b, keys |-> K, ptrs |-> P]
  BY <1>4, <1>5
<1>7. [o EXCEPT !.size = z] =
        [type |-> "I", size |-> z, parent |-> b, keys |-> K, ptrs |-> P]
  BY <1>6
<1>8. [n EXCEPT !.keys = K, !.ptrs = P, !.size = z] =
        [type |-> "I", size |-> z, parent |-> n.parent, keys |-> K, ptrs |-> P]
  BY <1>2, <1>3, <1>5, <1>7
<1> QED
  BY <1>0, <1>8 DEF K, P, z

\* leaf_node::insert into a leaf with room.
LEMMA LeafWithKey ==
    ASSUME NEW n \in Leaves, KeysOK(n), n.size < Cap, NEW q, NEW k, Fits(n, q, k),
           NEW v \in Nat,
           NEW m, m = LeafPlus(n, q, k, v)
    PROVE  /\ m \in Leaves /\ KeysOK(m)
           /\ m.type = "L" /\ m.size = n.size + 1 /\ m.parent = n.parent /\ m.next = n.next
           /\ \A j \in 1 .. m.size : /\ m.keys[j] = WideKey(n, q, k, j)
                                     /\ m.ptrs[j] = WidePtr(n, q, v, j)
<1> DEFINE K == Shift(n.keys, q, k)
           P == Shift(n.ptrs, q, v)
<1>1. /\ Cap \in Nat /\ n.size \in Nat /\ 1 <= n.size /\ n.size < Cap
      /\ q \in 1 .. Cap /\ n.ptrs \in [1 .. Cap -> Nat] /\ Cap >= Cap
  BY NodeFacts DEF Fits, Leaves
<1>2. /\ K \in [1 .. Cap -> Cells]
      /\ \A j \in 1 .. n.size + 1 : K[j] = WideKey(n, q, k, j)
      /\ \A j \in 1 .. Cap : j > n.size + 1 => K[j] = NilKey
      /\ P \in [1 .. Cap -> Nat]
      /\ \A j \in 1 .. Cap : P[j] = WidePtr(n, q, v, j)
  BY <1>1, ShiftedNode
<1>4. m = [type |-> "L", size |-> n.size + 1, parent |-> n.parent, next |-> n.next,
           keys |-> K, ptrs |-> P]
  BY LeafExcept
<1> HIDE DEF K, P
<1>5. n.parent \in Nat /\ n.next \in Nat /\ n.size + 1 \in 1 .. Cap
  BY <1>1 DEF Leaves
<1>6. /\ m.type = "L" /\ m.size = n.size + 1 /\ m.parent = n.parent /\ m.next = n.next
      /\ m.keys = K /\ m.ptrs = P
  BY <1>4
<1>7. m \in Leaves
  BY <1>2, <1>4, <1>5, LeafTyped
<1>8. KeysOK(m)
  <2>1. n \in Leaves \cup Inners
    OBVIOUS
  <2>2. WideCells(m, n, q, k)
    BY <1>2, <1>6 DEF WideCells
  <2> QED BY <2>1, <2>2, WideNodeKeys
<1>9. \A j \in 1 .. n.size + 1 : j \in 1 .. Cap
  BY <1>1
<1> QED
  BY <1>2, <1>6, <1>7, <1>8, <1>9

\* The same for a node of insert_in_parent, with the pointer one cell further.
LEMMA InnerWithKey ==
    ASSUME NEW n \in Inners, KeysOK(n), n.size < Cap, NEW q, NEW k, Fits(n, q, k),
           NEW v \in Nat,
           NEW m, m = InnerPlus(n, q, k, v)
    PROVE  /\ m \in Inners /\ KeysOK(m)
           /\ m.type = "I" /\ m.size = n.size + 1 /\ m.parent = n.parent
           /\ \A j \in 1 .. m.size : m.keys[j] = WideKey(n, q, k, j)
           /\ \A j \in 1 .. Cap + 1 : m.ptrs[j] = WidePtr(n, q + 1, v, j)
<1> DEFINE K == Shift(n.keys, q, k)
           P == Shift(n.ptrs, q + 1, v)
<1>1. /\ Cap \in Nat /\ n.size \in Nat /\ 1 <= n.size /\ n.size < Cap
      /\ q \in 1 .. Cap /\ n.ptrs \in [1 .. Cap + 1 -> Nat]
      /\ q + 1 \in 1 .. Cap + 1 /\ Cap + 1 \in Nat /\ Cap + 1 >= Cap
  BY NodeFacts DEF Fits, Inners
<1>2. /\ K \in [1 .. Cap -> Cells]
      /\ \A j \in 1 .. n.size + 1 : K[j] = WideKey(n, q, k, j)
      /\ \A j \in 1 .. Cap : j > n.size + 1 => K[j] = NilKey
      /\ P \in [1 .. Cap + 1 -> Nat]
      /\ \A j \in 1 .. Cap + 1 : P[j] = WidePtr(n, q + 1, v, j)
  <2>1. /\ n \in Leaves \cup Inners /\ KeysOK(n) /\ n.size < Cap /\ Fits(n, q, k)
        /\ v \in Nat
    OBVIOUS
  <2> QED BY ONLY <1>1, <2>1, ShiftedNode
<1>4. m = [type |-> "I", size |-> n.size + 1, parent |-> n.parent,
           keys |-> K, ptrs |-> P]
  BY InnerExcept
<1> HIDE DEF K, P
<1>5. n.parent \in Nat /\ n.size + 1 \in 1 .. Cap
  BY <1>1 DEF Inners
<1>6. /\ m.type = "I" /\ m.size = n.size + 1 /\ m.parent = n.parent
      /\ m.keys = K /\ m.ptrs = P
  BY <1>4
<1>7. m \in Inners
  BY <1>2, <1>4, <1>5, InnerTyped
<1>8. KeysOK(m)
  <2>1. n \in Leaves \cup Inners
    OBVIOUS
  <2>2. WideCells(m, n, q, k)
    BY <1>2, <1>6 DEF WideCells
  <2> QED BY <2>1, <2>2, WideNodeKeys
<1> QED
  BY <1>2, <1>6, <1>7, <1>8

\* Cells off + 1 to off + c of a full node's arrays with one more entry.
KeySlice(n, q, k, a, b) == SubSeq(InsertAt(n.keys, q, k), a, b)
PtrSlice(n, r, v, a, b) == SubSeq(InsertAt(n.ptrs, r, v), a, b)

KeyCells(s, c, n, q, k, off) == \A j \in 1 .. c : s[j] = WideKey(n, q, k, off + j)
PtrCells(s, c, n, r, v, off) == \A j \in 1 .. c : s[j] = WidePtr(n, r, v, off + j)

LEMMA SplitKeys ==
    ASSUME NEW n \in Leaves \cup Inners, KeysOK(n), n.size = Cap, NEW q, NEW k, Fits(n, q, k),
           NEW off \in Nat, NEW c \in Nat, 1 <= c, c <= Cap,
           NEW a, a = off + 1, NEW b, b = off + c, b <= Cap + 1
    PROVE  /\ KeyList(c, KeySlice(n, q, k, a, b))
           /\ KeyCells(KeySlice(n, q, k, a, b), c, n, q, k, off)
<1>1. /\ Cap \in Nat /\ Cap + 1 \in Nat /\ q \in 1 .. Cap + 1 /\ NilKey \in Nat
      /\ n.keys \in [1 .. Cap -> Cells]
      /\ a \in Nat /\ b \in Nat /\ 1 <= a /\ a <= b /\ b - a + 1 = c
  BY NodeFacts DEF Fits
<1> DEFINE t == InsertAt(n.keys, q, k)
           s == KeySlice(n, q, k, a, b)
<1>2. Array(Cap, n.keys)
  BY <1>1, FunIsArray
<1>3. t = Inserted(n.keys, Cap, q, k)
  BY <1>1, <1>2, InsertAtIs
<1>4. s = SubSeq(t, a, b)
  BY DEF KeySlice
<1> HIDE DEF s, t
<1>5. Array(Cap + 1, t) /\ \A j \in 1 .. Cap + 1 : t[j] = WideKey(n, q, k, j)
  BY <1>3 DEF Array, Inserted, WideKey
<1>6. SubSeq(t, a, b) = Slice(t, a, b)
  <2>1. PICK w : w = Cap + 1
    OBVIOUS
  <2>2. w \in Nat /\ Array(w, t) /\ a \in Nat /\ b \in Nat /\ 1 <= a /\ a <= b /\ b <= w
    BY <1>1, <1>5, <2>1
  <2> QED BY <2>2, SliceIs
<1>7. s = [j \in 1 .. c |-> t[off + j]]
  <2>1. \A j \in 1 .. c : a + j - 1 = off + j
    BY <1>1
  <2> QED BY <1>1, <1>4, <1>6, <2>1 DEF Slice
<1>8. ASSUME NEW j \in 1 .. c
      PROVE  s[j] = WideKey(n, q, k, off + j) /\ off + j \in 1 .. Cap + 1
  <2>1. off + j \in 1 .. Cap + 1
    <3>1. Cap \in Nat /\ b = off + c /\ b <= Cap + 1
      BY <1>1
    <3> QED BY <3>1
  <2> QED BY <1>5, <1>7, <2>1
<1>9. /\ \A j \in 1 .. Cap + 1 :
           WideKey(n, q, k, j) \in Nat /\ WideKey(n, q, k, j) < NilKey
      /\ \A i, j \in 1 .. Cap + 1 : i < j => WideKey(n, q, k, i) < WideKey(n, q, k, j)
  BY WideKeys
<1>10. \A j \in 1 .. c : s[j] \in Nat /\ s[j] < NilKey
  BY <1>8, <1>9
<1>11. s \in [1 .. c -> Cells]
  <2>1. \A j \in 1 .. c : s[j] \in Cells
    BY <1>1, <1>10 DEF Cells
  <2> QED BY <1>7, <2>1
<1>12. ASSUME NEW i \in 1 .. c, NEW j \in 1 .. c, i < j
       PROVE  s[i] < s[j]
  <2>1. off + i < off + j
    BY <1>12
  <2> QED BY <1>8, <1>9, <2>1
<1>13. c \in 1 .. Cap
  BY <1>1
<1>14. KeyList(c, s) /\ KeyCells(s, c, n, q, k, off)
  BY <1>8, <1>10, <1>11, <1>12, <1>13 DEF KeyList, KeyCells
<1> QED
  BY <1>14 DEF s

LEMMA SplitPtrs ==
    ASSUME NEW n, NEW w \in Nat, n.ptrs \in [1 .. w -> Nat], NEW r \in 1 .. w + 1, NEW v \in Nat,
           NEW off \in Nat, NEW c \in Nat, 1 <= c,
           NEW a, a = off + 1, NEW b, b = off + c, b <= w + 1
    PROVE  /\ PtrList(c, PtrSlice(n, r, v, a, b))
           /\ PtrCells(PtrSlice(n, r, v, a, b), c, n, r, v, off)
<1>1. a \in Nat /\ b \in Nat /\ 1 <= a /\ a <= b /\ b - a + 1 = c
  OBVIOUS
<1> DEFINE t == InsertAt(n.ptrs, r, v)
           s == PtrSlice(n, r, v, a, b)
<1>2. Array(w, n.ptrs)
  BY FunIsArray
<1>3. t = Inserted(n.ptrs, w, r, v)
  BY <1>2, InsertAtIs
<1>4. s = SubSeq(t, a, b)
  BY DEF PtrSlice
<1> HIDE DEF s, t
<1>5. Array(w + 1, t) /\ \A j \in 1 .. w + 1 : t[j] = WidePtr(n, r, v, j)
  BY <1>3 DEF Array, Inserted, WidePtr
<1>6. SubSeq(t, a, b) = Slice(t, a, b)
  BY <1>1, <1>5, SliceIs
<1>7. s = [j \in 1 .. c |-> t[off + j]]
  <2>1. \A j \in 1 .. c : a + j - 1 = off + j
    BY <1>1
  <2> QED BY <1>1, <1>4, <1>6, <2>1 DEF Slice
<1>8. ASSUME NEW j \in 1 .. w + 1 PROVE t[j] \in Nat
  <2>1. j < r => j \in 1 .. w
    OBVIOUS
  <2>2. j > r => j - 1 \in 1 .. w
    OBVIOUS
  <2> QED BY <1>5, <2>1, <2>2 DEF WidePtr
<1>9. ASSUME NEW j \in 1 .. c
      PROVE  s[j] = WidePtr(n, r, v, off + j) /\ s[j] \in Nat
  <2>1. off + j \in 1 .. w + 1
    BY <1>1
  <2> QED BY <1>5, <1>7, <1>8, <2>1
<1>10. PtrList(c, s) /\ PtrCells(s, c, n, r, v, off)
  BY <1>7, <1>9 DEF PtrList, PtrCells
<1> QED
  BY <1>10 DEF s

\* What SplitLeaf makes of a leaf.
LeafLeft(n, q, k, v, new) ==
    LeafNode(n.parent, new, KeySlice(n, q, k, 1, Half), PtrSlice(n, q, v, 1, Half))
LeafRight(n, q, k, v) ==
    LeafNode(n.parent, n.next, KeySlice(n, q, k, Half + 1, Cap + 1),
             PtrSlice(n, q, v, Half + 1, Cap + 1))

LEMMA LeafHalves ==
    ASSUME NEW n \in Leaves, KeysOK(n), n.size = Cap, NEW q, NEW k, Fits(n, q, k),
           NEW v \in Nat, NEW new \in Nat,
           NEW l, l = LeafLeft(n, q, k, v, new), NEW r, r = LeafRight(n, q, k, v)
    PROVE  /\ l \in Leaves /\ KeysOK(l)
           /\ l.type = "L" /\ l.size = Half /\ l.parent = n.parent /\ l.next = new
           /\ \A j \in 1 .. Half : /\ l.keys[j] = WideKey(n, q, k, j)
                                   /\ l.ptrs[j] = WidePtr(n, q, v, j)
           /\ r \in Leaves /\ KeysOK(r)
           /\ r.type = "L" /\ r.size = Cap + 1 - Half /\ r.parent = n.parent /\ r.next = n.next
           /\ \A j \in 1 .. Cap + 1 - Half : /\ r.keys[j] = WideKey(n, q, k, Half + j)
                                             /\ r.ptrs[j] = WidePtr(n, q, v, Half + j)
<1>1. PICK z, a, b : z = Cap + 1 - Half /\ a = Half + 1 /\ b = Cap + 1
  OBVIOUS
<1>2. /\ Half \in Nat /\ 1 <= Half /\ Half <= Cap /\ Cap \in Nat
      /\ n.parent \in Nat /\ n.next \in Nat /\ n.ptrs \in [1 .. Cap -> Nat]
      /\ q \in 1 .. Cap + 1 /\ z \in Nat /\ 1 <= z /\ z <= Cap /\ b = Half + z
      /\ b <= Cap + 1 /\ Half <= Cap + 1 /\ 0 \in Nat /\ 1 = 0 + 1 /\ Half = 0 + Half
  BY <1>1, HalfFacts DEF Leaves, Fits
<1>3. n \in Leaves \cup Inners
  OBVIOUS
<1>4. PICK kl, kr, pl, pr :
        /\ kl = KeySlice(n, q, k, 1, Half) /\ kr = KeySlice(n, q, k, a, b)
        /\ pl = PtrSlice(n, q, v, 1, Half) /\ pr = PtrSlice(n, q, v, a, b)
  OBVIOUS
<1>5. KeyList(Half, kl) /\ KeyCells(kl, Half, n, q, k, 0)
  BY <1>2, <1>3, <1>4, SplitKeys
<1>6. KeyList(z, kr) /\ KeyCells(kr, z, n, q, k, Half)
  BY <1>1, <1>2, <1>3, <1>4, SplitKeys
<1>7. PtrList(Half, pl) /\ PtrCells(pl, Half, n, q, v, 0)
  BY <1>2, <1>4, SplitPtrs
<1>8. PtrList(z, pr) /\ PtrCells(pr, z, n, q, v, Half)
  BY <1>1, <1>2, <1>4, SplitPtrs
<1>9. l = LeafNode(n.parent, new, kl, pl) /\ r = LeafNode(n.parent, n.next, kr, pr)
  BY <1>1, <1>4 DEF LeafLeft, LeafRight
<1>10. IsLeaf(l, Half, n.parent, new, kl, pl)
  BY <1>2, <1>5, <1>7, <1>9, LeafNodeFacts
<1>11. IsLeaf(r, z, n.parent, n.next, kr, pr)
  BY <1>2, <1>6, <1>8, <1>9, LeafNodeFacts
<1>12. \A j \in 1 .. Half : l.keys[j] = WideKey(n, q, k, j) /\ l.ptrs[j] = WidePtr(n, q, v, j)
  <2>1. \A j \in 1 .. Half : 0 + j = j
    BY <1>2
  <2> QED BY <1>5, <1>7, <1>10, <2>1 DEF IsLeaf, KeyCells, PtrCells
<1>13. \A j \in 1 .. z : /\ r.keys[j] = WideKey(n, q, k, Half + j)
                         /\ r.ptrs[j] = WidePtr(n, q, v, Half + j)
  BY <1>6, <1>8, <1>11 DEF IsLeaf, KeyCells, PtrCells
<1> QED
  BY <1>1, <1>10, <1>11, <1>12, <1>13 DEF IsLeaf

LEMMA ZeroInFront ==
    ASSUME NEW c \in Nat, NEW s, PtrList(c, s)
    PROVE  /\ PtrList(c + 1, <<0>> \o s)
           /\ (<<0>> \o s)[1] = 0
           /\ \A j \in 2 .. c + 1 : (<<0>> \o s)[j] = s[j - 1]
<1> DEFINE o == <<0>>
           z == o \o s
<1>1. o \in Seq(Nat) /\ Len(o) = 1 /\ o[1] = 0
  OBVIOUS
<1>2. s \in [1 .. c -> Nat]
  BY DEF PtrList
<1>3. s \in Seq(Nat) /\ Len(s) = c
  BY <1>2
<1> HIDE DEF o
<1>4. /\ z \in Seq(Nat) /\ Len(z) = c + 1
      /\ \A j \in 1 .. c + 1 : z[j] = IF j <= 1 THEN o[j] ELSE s[j - 1]
  <2>1. /\ z \in Seq(Nat) /\ Len(z) = Len(o) + Len(s)
        /\ \A j \in 1 .. Len(o) + Len(s) :
              z[j] = IF j <= Len(o) THEN o[j] ELSE s[j - Len(o)]
    BY <1>1, <1>3, ConcatProperties
  <2>2. Len(o) + Len(s) = c + 1
    BY <1>1, <1>3
  <2> QED BY <1>1, <2>1, <2>2
<1> HIDE DEF z
<1>5. z \in [1 .. c + 1 -> Nat]
  BY <1>4
<1>6. z[1] = 0
  BY <1>1, <1>4
<1>7. ASSUME NEW j \in 2 .. c + 1
      PROVE  z[j] = s[j - 1]
  <2>1. j \in 1 .. c + 1 /\ ~(j <= 1)
    BY <1>1
  <2> QED BY <1>4, <2>1
<1>8. c + 1 \in Nat
  OBVIOUS
<1> QED
  BY <1>5, <1>6, <1>7, <1>8 DEF PtrList, z, o

\* What SplitInternal makes of a node, and the children that move.
Moved(n, q, v) == PtrSlice(n, q + 1, v, Half + 2, Cap + 2)
InnerLeft(n, q, k, v) ==
    InternalNode(n.parent, KeySlice(n, q, k, 1, Half), PtrSlice(n, q + 1, v, 1, Half + 1))
InnerRight(n, q, k, v) ==
    InternalNode(n.parent, KeySlice(n, q, k, Half + 1, Cap + 1), <<0>> \o Moved(n, q, v))

LEMMA InnerHalves ==
    ASSUME NEW n \in Inners, KeysOK(n), n.size = Cap, NEW q, NEW k, Fits(n, q, k),
           NEW v \in Nat,
           NEW l, l = InnerLeft(n, q, k, v), NEW r, r = InnerRight(n, q, k, v)
    PROVE  /\ l \in Inners /\ KeysOK(l)
           /\ l.type = "I" /\ l.size = Half /\ l.parent = n.parent
           /\ \A j \in 1 .. Half : l.keys[j] = WideKey(n, q, k, j)
           /\ \A j \in 1 .. Half + 1 : l.ptrs[j] = WidePtr(n, q + 1, v, j)
           /\ \A j \in 1 .. Cap + 1 : j > Half + 1 => l.ptrs[j] = 0
           /\ r \in Inners /\ KeysOK(r)
           /\ r.type = "I" /\ r.size = Cap + 1 - Half /\ r.parent = n.parent
           /\ \A j \in 1 .. Cap + 1 - Half : r.keys[j] = WideKey(n, q, k, Half + j)
           /\ r.ptrs[1] = 0
           /\ \A j \in 2 .. Cap + 2 - Half : r.ptrs[j] = WidePtr(n, q + 1, v, Half + j)
           /\ \A j \in 1 .. Cap + 1 : j > Cap + 2 - Half => r.ptrs[j] = 0
           /\ ToSet(Moved(n, q, v)) =
                {WidePtr(n, q + 1, v, Half + j) : j \in 2 .. Cap + 2 - Half}
<1>1. PICK z, a, b, x, y, e, w, p, h, g :
        /\ z = Cap + 1 - Half /\ a = Half + 1 /\ b = Cap + 1
        /\ x = Half + 2 /\ y = Cap + 2 /\ w = Cap + 1 /\ p = q + 1 /\ h = Half + 1
        /\ e = z + 1 /\ g = Half + 1
  OBVIOUS
<1>2. /\ Half \in Nat /\ 1 <= Half /\ Half <= Cap /\ Cap \in Nat
      /\ n.parent \in Nat /\ n.ptrs \in [1 .. w -> Nat]
      /\ p \in 1 .. w + 1 /\ z \in Nat /\ 1 <= z /\ z <= Cap /\ b = Half + z
      /\ b <= Cap + 1 /\ Half <= Cap + 1 /\ 0 \in Nat /\ 1 = 0 + 1 /\ Half = 0 + Half
      /\ w \in Nat /\ h \in Nat /\ 1 <= h /\ h = 0 + h /\ h <= w + 1
      /\ x = h + 1 /\ y = h + z /\ y <= w + 1
  BY <1>1, HalfFacts DEF Inners, Fits
<1>3. n \in Leaves \cup Inners
  OBVIOUS
<1>4. PICK kl, kr, pl, pr, mv :
        /\ kl = KeySlice(n, q, k, 1, Half) /\ kr = KeySlice(n, q, k, a, b)
        /\ pl = PtrSlice(n, p, v, 1, h) /\ mv = PtrSlice(n, p, v, x, y) /\ pr = <<0>> \o mv
  OBVIOUS
<1>5. KeyList(Half, kl) /\ KeyCells(kl, Half, n, q, k, 0)
  BY <1>2, <1>3, <1>4, SplitKeys
<1>6. KeyList(z, kr) /\ KeyCells(kr, z, n, q, k, Half)
  BY <1>1, <1>2, <1>3, <1>4, SplitKeys
<1>7. PtrList(h, pl) /\ PtrCells(pl, h, n, p, v, 0)
  BY <1>2, <1>4, SplitPtrs
<1>8. PtrList(z, mv) /\ PtrCells(mv, z, n, p, v, h)
  BY <1>2, <1>4, SplitPtrs
<1>9. PtrList(e, pr) /\ pr[1] = 0 /\ \A j \in 2 .. e : pr[j] = mv[j - 1]
  <2>1. /\ PtrList(z + 1, <<0>> \o mv) /\ (<<0>> \o mv)[1] = 0
        /\ \A j \in 2 .. z + 1 : (<<0>> \o mv)[j] = mv[j - 1]
    BY <1>2, <1>8, ZeroInFront
  <2> QED BY <1>1, <1>4, <2>1
<1>10. Moved(n, q, v) = mv
  BY <1>1, <1>4 DEF Moved
<1>11. l = InternalNode(n.parent, kl, pl) /\ r = InternalNode(n.parent, kr, pr)
  BY <1>1, <1>4, <1>10 DEF InnerLeft, InnerRight
<1>12. IsInner(l, Half, n.parent, kl, pl)
  <2>1. h = Half + 1
    BY <1>1
  <2> QED BY <1>2, <1>5, <1>7, <1>11, <2>1, InternalNodeFacts
<1>13. IsInner(r, z, n.parent, kr, pr)
  BY <1>1, <1>2, <1>6, <1>9, <1>11, InternalNodeFacts
<1>14. \A j \in 1 .. Half : l.keys[j] = WideKey(n, q, k, j)
  <2>1. \A j \in 1 .. Half : 0 + j = j
    BY <1>2
  <2> QED BY <1>5, <1>12, <2>1 DEF IsInner, KeyCells
<1>15. \A j \in 1 .. h : l.ptrs[j] = WidePtr(n, p, v, j)
  <2>1. \A j \in 1 .. h : 0 + j = j /\ j \in 1 .. Cap + 1 /\ j <= Half + 1
    BY <1>1, <1>2
  <2> QED BY <1>7, <1>12, <2>1 DEF IsInner, PtrCells
<1>16. \A j \in 1 .. Cap + 1 : j > Half + 1 => l.ptrs[j] = 0
  BY <1>2, <1>12 DEF IsInner
<1>17. \A j \in 1 .. z : r.keys[j] = WideKey(n, q, k, Half + j)
  BY <1>6, <1>13 DEF IsInner, KeyCells
<1>18. ASSUME NEW j \in 1 .. Cap + 1
       PROVE  /\ j = 1 => r.ptrs[j] = 0
              /\ j \in 2 .. e => r.ptrs[j] = WidePtr(n, p, v, Half + j)
              /\ j > e => r.ptrs[j] = 0
  <2>1. r.ptrs[j] = IF j <= z + 1 THEN pr[j] ELSE 0
    BY <1>13 DEF IsInner
  <2>2. ASSUME j = 1 PROVE r.ptrs[j] = 0
    BY <1>1, <1>2, <1>9, <2>1, <2>2
  <2>3. ASSUME j \in 2 .. e PROVE r.ptrs[j] = WidePtr(n, p, v, Half + j)
    <3>1. j - 1 \in 1 .. z /\ h + (j - 1) = Half + j /\ j <= z + 1
      BY <1>1, <1>2, <2>3
    <3>2. pr[j] = mv[j - 1]
      BY <1>9, <2>3
    <3>3. mv[j - 1] = WidePtr(n, p, v, h + (j - 1))
      BY <1>8, <3>1 DEF PtrCells
    <3> QED BY <2>1, <2>3, <3>1, <3>2, <3>3
  <2>4. ASSUME j > e PROVE r.ptrs[j] = 0
    BY <1>1, <1>2, <2>1, <2>4
  <2> QED BY <2>2, <2>3, <2>4
<1>19. ToSet(mv) = {WidePtr(n, p, v, Half + j) : j \in 2 .. e}
  <2>1. DOMAIN mv = 1 .. z /\ \A j \in 1 .. z : mv[j] = WidePtr(n, p, v, h + j)
    BY <1>8 DEF PtrList, PtrCells
  <2>2. ToSet(mv) = {WidePtr(n, p, v, h + j) : j \in 1 .. z}
    BY <2>1 DEF ToSet
  <2>3. h = Half + 1 /\ e = z + 1 /\ Half \in Nat /\ z \in Nat
    BY <1>1, <1>2
  <2>4. \A j \in 1 .. z : j + 1 \in 2 .. e /\ h + j = Half + (j + 1)
    BY <2>3
  <2>5. \A j \in 2 .. e : j - 1 \in 1 .. z /\ h + (j - 1) = Half + j
    BY <2>3
  <2>6. \A c \in {WidePtr(n, p, v, h + j) : j \in 1 .. z} :
           c \in {WidePtr(n, p, v, Half + j) : j \in 2 .. e}
    BY <2>4
  <2>7. \A c \in {WidePtr(n, p, v, Half + j) : j \in 2 .. e} :
           c \in {WidePtr(n, p, v, h + j) : j \in 1 .. z}
    BY <2>5
  <2> QED BY <2>2, <2>6, <2>7
<1>20. /\ e = Cap + 2 - Half
       /\ \A j \in 2 .. Cap + 2 - Half : j \in 1 .. Cap + 1 /\ j \in 2 .. e
       /\ 1 \in 1 .. Cap + 1
  BY <1>1, <1>2
<1>21. /\ r.ptrs[1] = 0
       /\ \A j \in 2 .. Cap + 2 - Half : r.ptrs[j] = WidePtr(n, q + 1, v, Half + j)
       /\ \A j \in 1 .. Cap + 1 : j > Cap + 2 - Half => r.ptrs[j] = 0
  BY <1>1, <1>18, <1>20
<1>22. \A j \in 1 .. Half + 1 : l.ptrs[j] = WidePtr(n, q + 1, v, j)
  BY <1>1, <1>15
<1>23. ToSet(Moved(n, q, v)) = {WidePtr(n, q + 1, v, Half + j) : j \in 2 .. Cap + 2 - Half}
  BY <1>1, <1>10, <1>19, <1>20
<1>24. r.size = Cap + 1 - Half /\ \A j \in 1 .. Cap + 1 - Half : r.keys[j] = WideKey(n, q, k, Half + j)
  BY <1>1, <1>13, <1>17 DEF IsInner
<1>25. l \in Inners /\ KeysOK(l) /\ l.type = "I" /\ l.size = Half /\ l.parent = n.parent
  BY <1>12 DEF IsInner
<1>26. r \in Inners /\ KeysOK(r) /\ r.type = "I" /\ r.parent = n.parent
  BY <1>13 DEF IsInner
<1> QED
  BY <1>14, <1>16, <1>21, <1>22, <1>23, <1>24, <1>25, <1>26

-------------------------------------------------------------------------------
(* Steps that write nothing. *)

LEMMA KeyFacts == NilKey \in Nat /\ \A k \in Keys : k \in Nat /\ k <= NilKey
  BY TreeAssumption

LEMMA Kinds ==
    ASSUME FileOK
    PROVE  /\ \A b \in Nodes : /\ b \in DOMAIN disk /\ b \in Nat /\ b # 0
                               /\ disk[b] \in Leaves \cup Inners /\ KeysOK(disk[b])
                               /\ disk[b].parent \in DOMAIN disk
           /\ \A b \in L : b \in Nodes /\ disk[b] \in Leaves /\ disk[b].type = "L"
           /\ \A b \in I : b \in Nodes /\ disk[b] \in Inners /\ disk[b].type = "I"
           /\ \A b \in B : b \in DOMAIN disk /\ disk[b] \in Buckets /\ disk[b].type = "B"
           /\ \A b \in DOMAIN disk : b \in Nodes \/ b \in B
           /\ \A b \in DOMAIN disk : b \in Nat /\ b # 0
<1>1. \A b \in DOMAIN disk : b \in Nat /\ b # 0
  BY DEF FileOK
<1>2. \A b \in DOMAIN disk : disk[b] \in Leaves \/ disk[b] \in Inners \/ disk[b] \in Buckets
  BY DEF FileOK
<1>3. /\ \A n \in Leaves : n.type = "L"
      /\ \A n \in Inners : n.type = "I"
      /\ \A n \in Buckets : n.type = "B"
  BY DEF Leaves, Inners, Buckets
<1>4. /\ \A b \in L : b \in DOMAIN disk /\ disk[b].type = "L"
      /\ \A b \in I : b \in DOMAIN disk /\ disk[b].type = "I"
      /\ \A b \in B : b \in DOMAIN disk /\ disk[b].type = "B"
      /\ \A b \in DOMAIN disk : disk[b].type = "L" => b \in L
      /\ \A b \in DOMAIN disk : disk[b].type = "I" => b \in I
      /\ \A b \in DOMAIN disk : disk[b].type = "B" => b \in B
  BY DEF L, I, B, OfType
<1>5. \A b \in L : disk[b] \in Leaves
  BY <1>2, <1>3, <1>4
<1>6. \A b \in I : disk[b] \in Inners
  BY <1>2, <1>3, <1>4
<1>7. \A b \in B : disk[b] \in Buckets
  BY <1>2, <1>3, <1>4
<1>8. \A b \in DOMAIN disk : b \in L \/ b \in I \/ b \in B
  BY <1>2, <1>3, <1>4
<1>9. \A b \in Nodes : KeysOK(disk[b]) /\ disk[b].parent \in DOMAIN disk
  BY DEF FileOK
<1> QED
  BY <1>1, <1>4, <1>5, <1>6, <1>7, <1>8, <1>9 DEF Nodes

\* Between calls and during find the file is as it was.
LEMMA SameFile ==
    ASSUME NEW lo, NEW hi, NEW ht, NEW pos,
           disk' = disk, hdr' = hdr, ~Pending, pc' # "parent"
    PROVE  /\ FileOK => FileOK'
           /\ BucketsOK => BucketsOK'
           /\ Counted => Counted'
           /\ HalfFull => HalfFull'
           /\ Bounded(lo, hi) => Bounded(lo, hi)'
           /\ Linked(ht) => Linked(ht)'
           /\ Chained(lo, hi, pos) => Chained(lo, hi, pos)'
<1>1. L' = L /\ I' = I /\ B' = B /\ Nodes' = Nodes
  BY DEF L, I, B, Nodes, OfType
<1>2. ~Pending'
  BY DEF Pending
<1>3. \A b : Sib(b) = b /\ Sib(b)' = b /\ ~Unlinked(b) /\ ~Unlinked(b)'
  BY <1>2 DEF Sib, Unlinked
<1>4. FileOK => FileOK'
  BY <1>1 DEF FileOK
<1>5. BucketsOK => BucketsOK'
  BY <1>1 DEF BucketsOK
<1>6. Counted => Counted'
  BY <1>1 DEF Counted
<1>7. HalfFull => HalfFull'
  BY <1>1, <1>2 DEF HalfFull
<1>8. Bounded(lo, hi) => Bounded(lo, hi)'
  BY <1>1, <1>3 DEF Bounded
<1>9. Linked(ht) => Linked(ht)'
  BY <1>1, <1>3 DEF Linked
<1>10. Chained(lo, hi, pos) => Chained(lo, hi, pos)'
  BY <1>1 DEF Chained
<1> QED
  BY <1>4, <1>5, <1>6, <1>7, <1>8, <1>9, <1>10

\* A call starts at the root, and a step that writes nothing keeps the invariant.
LEMMA QuietStep ==
    ASSUME FileInv, NEW lo, NEW hi, NEW ht, NEW pos, RangeInv(lo, hi, ht, pos),
           disk' = disk, hdr' = hdr, ~Pending, HeaderOK', CallOK(lo, hi, ht)'
    PROVE  pc' # "parent" => FileInv' /\ RangeInv(lo, hi, ht, pos)'
<1> SUFFICES ASSUME pc' # "parent" PROVE FileInv' /\ RangeInv(lo, hi, ht, pos)'
  OBVIOUS
<1>1. FileOK /\ BucketsOK /\ Counted /\ HalfFull
  BY DEF FileInv
<1>2. Bounded(lo, hi) /\ Linked(ht) /\ Chained(lo, hi, pos)
  BY DEF RangeInv
<1>3. FileOK' /\ BucketsOK' /\ Counted' /\ HalfFull'
  BY <1>1, SameFile
<1>4. Bounded(lo, hi)'
  BY <1>2, SameFile
<1>5. Linked(ht)'
  BY <1>2, SameFile
<1>6. Chained(lo, hi, pos)'
  BY <1>2, SameFile
<1> QED
  BY <1>3, <1>4, <1>5, <1>6 DEF FileInv, RangeInv

Empty == DOMAIN disk = {} /\ hdr.root = 0 /\ pc = "idle"

\* An empty file.
LEMMA EmptyFile ==
    ASSUME Empty, hdr.numOfLeafNodes = 0, hdr.numOfInterNodes = 0, hdr.numOfPtrBucket = 0,
           hdr.numOfBlocks \in {0, 1}, HeaderOK
    PROVE  TreeInv
<1>1. L = {} /\ I = {} /\ B = {} /\ Nodes = {}
  BY DEF L, I, B, Nodes, OfType, Empty
<1>2. 1 .. hdr.numOfBlocks - 1 = {}
  OBVIOUS
<1>3. FileOK
  BY <1>1, <1>2 DEF FileOK, Empty
<1>4. BucketsOK
  BY <1>1 DEF BucketsOK
<1>5. Counted
  BY <1>1, FS_EmptySet DEF Counted
<1>6. HalfFull
  BY <1>1 DEF HalfFull
<1>7. PICK z : z = [x \in Nat |-> 0]
  OBVIOUS
<1>8. z \in Ghosts
  BY <1>7 DEF Ghosts
<1>9. Bounded(z, z)
  BY <1>1 DEF Bounded, Empty
<1>10. Linked(z)
  BY <1>1 DEF Linked, Empty
<1>11. Chained(z, z, z)
  BY <1>1 DEF Chained, Empty
<1>12. CallOK(z, z, z)
  BY DEF CallOK, Empty
<1>13. RangeInv(z, z, z, z)
  BY <1>9, <1>10, <1>11, <1>12 DEF RangeInv
<1>14. FileInv
  BY <1>3, <1>4, <1>5, <1>6 DEF FileInv
<1> QED
  BY <1>8, <1>13, <1>14 DEF TreeInv

LEMMA InitTree == Init => TreeInv
<1> SUFFICES ASSUME Init PROVE TreeInv
  OBVIOUS
<1>1. hdr = NoHeader /\ dhdr = NoHeader /\ disk = <<>> /\ open = FALSE /\ pc = "idle"
  BY DEF Init
<1>2. HeaderOK
  BY <1>1 DEF HeaderOK, Headers, NoHeader
<1>3. Empty
  BY <1>1 DEF Empty, NoHeader
<1> QED
  BY <1>1, <1>2, <1>3, EmptyFile DEF NoHeader

LEMMA CreateKeeps ==
    ASSUME TreeInv, NEW mode \in Modes, Create(mode)
    PROVE  TreeInv'
<1>1. /\ pc = "idle" /\ pc' = "idle" /\ hdr = dhdr /\ hdr.duplicate = "none"
      /\ hdr' = [NoHeader EXCEPT !.duplicate = mode, !.numOfBlocks = 1]
      /\ dhdr' = hdr' /\ open' = TRUE /\ disk' = disk
  BY DEF Create, TreeInv, FileInv, HeaderOK
<1>2. hdr = NoHeader /\ hdr.root = 0
  BY <1>1 DEF TreeInv, FileInv, HeaderOK, NoHeader
<1>3. DOMAIN disk' = {}
  BY <1>1, <1>2 DEF TreeInv, FileInv, FileOK
<1>4. /\ hdr'.root = 0 /\ hdr'.duplicate = mode /\ hdr'.numOfBlocks = 1
      /\ hdr'.numOfLeafNodes = 0 /\ hdr'.numOfInterNodes = 0 /\ hdr'.numOfPtrBucket = 0
      /\ hdr' \in Headers /\ mode \in {"Y", "N"}
  BY <1>1, TreeAssumption DEF NoHeader, Headers
<1>5. HeaderOK'
  BY <1>1, <1>4 DEF HeaderOK
<1>6. L' = {} /\ I' = {} /\ B' = {} /\ Nodes' = {}
  BY <1>3 DEF L, I, B, Nodes, OfType
<1>7. FileOK'
  <2>1. 1 .. hdr'.numOfBlocks - 1 = {}
    BY <1>4
  <2> QED BY <1>3, <1>4, <1>6, <2>1 DEF FileOK
<1>8. BucketsOK' /\ HalfFull'
  BY <1>6 DEF BucketsOK, HalfFull
<1>9. Counted'
  BY <1>4, <1>6, FS_EmptySet DEF Counted
<1>10. PICK z : z = [x \in Nat |-> 0]
  OBVIOUS
<1>11. z \in Ghosts
  BY <1>10 DEF Ghosts
<1>12. Bounded(z, z)' /\ Linked(z)' /\ Chained(z, z, z)'
  BY <1>4, <1>6 DEF Bounded, Linked, Chained
<1>13. CallOK(z, z, z)'
  BY <1>1 DEF CallOK
<1>14. RangeInv(z, z, z, z)'
  BY <1>12, <1>13 DEF RangeInv
<1>15. FileInv'
  BY <1>5, <1>7, <1>8, <1>9 DEF FileInv
<1> QED
  BY <1>11, <1>14, <1>15 DEF TreeInv

\* Opening, closing and what ends a call without writing.
LEMMA RestKeeps ==
    ASSUME TreeInv, disk' = disk, hdr' = hdr, pc' = "idle", ~Pending, HeaderOK'
    PROVE  TreeInv'
<1>1. PICK lo \in Ghosts, hi \in Ghosts, ht \in Ghosts, pos \in Ghosts :
         RangeInv(lo, hi, ht, pos)
  BY DEF TreeInv
<1>2. CallOK(lo, hi, ht)'
  BY DEF CallOK
<1>3. FileInv' /\ RangeInv(lo, hi, ht, pos)'
  BY <1>1, <1>2, QuietStep DEF TreeInv
<1> QED
  BY <1>3 DEF TreeInv

\* The key of a call is in the range of the root.
LEMMA SearchKeeps ==
    ASSUME NoNil, TreeInv, pc = "idle", open, hdr.root # 0,
           NEW op, NEW k \in Keys, NEW v \in Nat, Search(op, k, v)
    PROVE  TreeInv'
<1>1. PICK lo \in Ghosts, hi \in Ghosts, ht \in Ghosts, pos \in Ghosts :
         RangeInv(lo, hi, ht, pos)
  BY DEF TreeInv
<1>2. /\ pc' = "find" /\ call' = [op |-> op, key |-> k, val |-> v] /\ at' = hdr.root
      /\ hdr' = hdr /\ dhdr' = dhdr /\ disk' = disk /\ open' = open /\ ~Pending
  BY DEF Search, Pending
<1>3. HeaderOK'
  BY <1>2 DEF TreeInv, FileInv, HeaderOK
<1>4. Nodes' = Nodes /\ hdr.root \in Nodes
  BY <1>2 DEF Nodes, L, I, OfType, TreeInv, FileInv, FileOK
<1>5. k \in Nat /\ 0 <= k /\ k < NilKey
  BY TreeAssumption DEF NoNil
<1>6. lo[hdr.root] = 0 /\ hi[hdr.root] = NilKey
  BY <1>1, <1>2 DEF RangeInv, Bounded, Sib
<1>7. CallOK(lo, hi, ht)'
  BY <1>2, <1>4, <1>5, <1>6 DEF CallOK
<1>8. FileInv' /\ RangeInv(lo, hi, ht, pos)'
  BY <1>1, <1>2, <1>3, <1>7, QuietStep DEF TreeInv
<1> QED
  BY <1>8 DEF TreeInv

\* A node's pointer for a key in the node's range leads to a child whose range has
\* the key: it is never the null pointer.
LEMMA ChildFor ==
    ASSUME FileInv, NEW lo \in Ghosts, NEW hi \in Ghosts, NEW ht, NEW pos,
           Shape(lo, hi, ht, pos), ~Pending,
           NEW p \in I, NEW k \in Nat, lo[p] <= k, k < hi[p],
           NEW n, n = disk[p], NEW q, q = Above(n, k), NEW c, c = n.ptrs[q]
    PROVE  c # 0 /\ c \in Nodes /\ lo[c] <= k /\ k < hi[c] /\ ht[p] = ht[c] + 1
<1>1. p \in Nodes /\ p \in Nat /\ n \in Inners /\ KeysOK(n)
  BY Kinds DEF FileInv
<1>2. hi[p] <= NilKey /\ hi[p] \in Nat /\ lo[p] \in Nat /\ NilKey \in Nat
  BY <1>1, KeyFacts DEF Shape, Bounded, Ghosts
<1>3. k < NilKey
  BY <1>2
<1>4. n.size \in Nat /\ 1 <= n.size /\ n.size <= Cap /\ Cap \in Nat
  BY <1>1, NodeFacts
<1>5. /\ q \in 1 .. n.size + 1
      /\ \A j \in 1 .. q - 1 : n.keys[j] <= k
      /\ q <= n.size => n.keys[q] > k
  BY <1>1, <1>3, AboveInNode
<1>6. IF c = 0 THEN q = 1 /\ n.keys[1] = lo[p]
      ELSE /\ lo[c] = IF q = 1 THEN lo[p] ELSE n.keys[q - 1]
           /\ hi[c] = IF q = n.size + 1 THEN hi[p] ELSE n.keys[q]
  <2>1. Sib(c) = c
    BY DEF Sib
  <2> QED BY <1>5, <2>1 DEF Shape, Bounded
<1>7. c # 0
  <2>1. SUFFICES ASSUME c = 0 PROVE FALSE
    OBVIOUS
  <2>2. q = 1 /\ n.keys[1] = lo[p] /\ n.keys[1] > k
    BY <1>4, <1>5, <1>6, <2>1
  <2> QED BY <1>2, <2>2
<1>8. c \in Nodes /\ ht[p] = ht[c] + 1
  <2>1. q \in 1 .. Cap + 1
    BY <1>4, <1>5
  <2> QED BY <1>7, <2>1 DEF Shape, Linked
<1>9. lo[c] <= k /\ k < hi[c]
  <2>1. q > 1 => n.keys[q - 1] <= k
    BY <1>4, <1>5
  <2>2. q = 1 \/ q > 1
    BY <1>5
  <2>3. lo[c] <= k
    BY <1>6, <1>7, <2>1, <2>2
  <2>4. q <= n.size \/ q = n.size + 1
    BY <1>4, <1>5
  <2>5. q <= n.size => q # n.size + 1
    BY <1>4, <1>5
  <2>6. \A x : x > k <=> k < x
    OBVIOUS
  <2> QED BY <1>5, <1>6, <1>7, <2>3, <2>4, <2>5, <2>6
<1> QED
  BY <1>7, <1>8, <1>9

\* find goes to a child whose range has the key: it never meets a null pointer.
LEMMA DescendKeeps ==
    ASSUME TreeInv, Descend
    PROVE  TreeInv' /\ pc' = "find"
<1>1. PICK lo \in Ghosts, hi \in Ghosts, ht \in Ghosts, pos \in Ghosts :
         RangeInv(lo, hi, ht, pos)
  BY DEF TreeInv
<1>2. PICK n, k, q, c : n = disk[at] /\ k = call.key /\ q = Above(n, k) /\ c = n.ptrs[q]
  OBVIOUS
<1>3. /\ pc = "find" /\ n.type = "I" /\ at' = c
      /\ pc' = IF c = 0 THEN "panic" ELSE "find"
      /\ hdr' = hdr /\ dhdr' = dhdr /\ disk' = disk /\ open' = open /\ call' = call
      /\ ~Pending
  BY <1>2 DEF Descend, Pending
<1>4. /\ k \in Keys /\ call.val \in Nat /\ at \in Nodes /\ lo[at] <= k /\ k < hi[at]
      /\ hdr.root # 0 /\ open
  BY <1>1, <1>2, <1>3 DEF RangeInv, CallOK
<1>5. at \in I /\ k \in Nat
  BY <1>2, <1>3, <1>4, KeyFacts DEF Nodes, L, I, OfType
<1>6. c # 0 /\ c \in Nodes /\ lo[c] <= k /\ k < hi[c]
  BY <1>1, <1>2, <1>3, <1>4, <1>5, ChildFor DEF TreeInv, RangeInv, Shape
<1>7. HeaderOK'
  BY <1>3, <1>6 DEF TreeInv, FileInv, HeaderOK
<1>8. Nodes' = Nodes
  BY <1>3 DEF Nodes, L, I, OfType
<1>9. CallOK(lo, hi, ht)'
  BY <1>2, <1>3, <1>4, <1>6, <1>8 DEF CallOK
<1>10. FileInv' /\ RangeInv(lo, hi, ht, pos)'
  BY <1>1, <1>3, <1>6, <1>7, <1>9, QuietStep DEF TreeInv
<1> QED
  BY <1>3, <1>6, <1>10 DEF TreeInv

-------------------------------------------------------------------------------
(* What a step does to the entries of the leaves and to the buckets. *)

\* A leaf has key k with pointer p.
Filed(k, p) == \E b \in L : \E i \in 1 .. disk[b].size :
                  disk[b].keys[i] = k /\ disk[b].ptrs[i] = p

\* The entries and the buckets stay.
SameEntries ==
    /\ hdr'.duplicate = hdr.duplicate /\ B' = B
    /\ \A c \in B : disk'[c] = disk[c]
    /\ \A k, p : Filed(k, p)' <=> Filed(k, p)

\* Key k enters with table block v, in duplicate mode through the new bucket b.
KeyEntered(k, v, b) ==
    /\ hdr.duplicate \in {"Y", "N"} /\ hdr'.duplicate = hdr.duplicate
    /\ \A c \in B : disk'[c] = disk[c]
    /\ \A j, p : Filed(j, p)' <=> Filed(j, p) \/ (j = k /\ p = Pointer(v, b))
    /\ b \in Nat /\ b \notin B
    /\ hdr.duplicate = "N" => B' = B
    /\ hdr.duplicate = "Y" => B' = B \cup {b} /\ disk'[b] = Bucket(<<v>>, 0)

\* Bucket c of a chain has room for v.
BucketFilled(c, v) ==
    /\ B' = B /\ c \in B
    /\ Len(disk[c].ptrs) < BucketCap
    /\ disk'[c].ptrs = Append(disk[c].ptrs, v) /\ disk'[c].next = disk[c].next
    /\ \A x \in B : x # c => disk'[x] = disk[x]

\* The new bucket b with v stands behind z, the last one of a chain.
BucketAdded(z, v, b) ==
    /\ b \in Nat /\ b \notin B /\ B' = B \cup {b}
    /\ z \in B /\ disk[z].next = 0
    /\ disk'[z].ptrs = disk[z].ptrs /\ disk'[z].next = b
    /\ disk'[b] = Bucket(<<v>>, 0)
    /\ \A x \in B : x < b /\ (x # z => disk'[x] = disk[x])

\* The chain from h gets the table block v unless it has it.
BlockEntered(h, v) ==
    /\ hdr.duplicate = "Y" /\ hdr'.duplicate = hdr.duplicate
    /\ \A k, p : Filed(k, p)' <=> Filed(k, p)
    /\ \/ v \in Held(h) /\ SameEntries
       \/ v \notin Held(h) /\ \E c \in ChainFrom(h) : BucketFilled(c, v)
       \/ /\ v \notin Held(h) /\ Roomy(h) = {}
          /\ \E z \in ChainFrom(h), b \in Nat : BucketAdded(z, v, b)

\* Leaves that keep their entries.
LEMMA EntriesSame ==
    ASSUME L' = L,
           \A x \in L : /\ disk'[x].size = disk[x].size
                        /\ disk'[x].keys = disk[x].keys /\ disk'[x].ptrs = disk[x].ptrs
    PROVE  \A k, p : Filed(k, p)' <=> Filed(k, p)
  BY DEF Filed

\* The entries of a leaf with one more.
WideFiled(n, q, k, v, x, p) ==
    \E i \in 1 .. n.size + 1 : WideKey(n, q, k, i) = x /\ WidePtr(n, q, v, i) = p

LEMMA WideEntries ==
    ASSUME NEW n, n.size \in Nat, NEW q \in 1 .. n.size + 1, NEW k, NEW v, NEW x, NEW p
    PROVE  WideFiled(n, q, k, v, x, p)
           <=> (x = k /\ p = v) \/ \E i \in 1 .. n.size : n.keys[i] = x /\ n.ptrs[i] = p
<1>1. ASSUME NEW i \in 1 .. n.size + 1, WideKey(n, q, k, i) = x, WidePtr(n, q, v, i) = p
      PROVE  (x = k /\ p = v) \/ \E j \in 1 .. n.size : n.keys[j] = x /\ n.ptrs[j] = p
  <2>1. CASE i < q
    <3>1. i \in 1 .. n.size
      BY <2>1
    <3> QED BY <1>1, <2>1, <3>1 DEF WideKey, WidePtr
  <2>2. CASE i = q
    BY <1>1, <2>2 DEF WideKey, WidePtr
  <2>3. CASE i > q
    <3>1. i - 1 \in 1 .. n.size /\ ~(i < q) /\ i # q
      BY <2>3
    <3> QED BY <1>1, <3>1 DEF WideKey, WidePtr
  <2> QED BY <2>1, <2>2, <2>3
<1>2. ASSUME x = k, p = v
      PROVE  \E i \in 1 .. n.size + 1 : WideKey(n, q, k, i) = x /\ WidePtr(n, q, v, i) = p
  <2>1. WideKey(n, q, k, q) = k /\ WidePtr(n, q, v, q) = v
    BY DEF WideKey, WidePtr
  <2> QED BY <1>2, <2>1
<1>3. ASSUME NEW j \in 1 .. n.size, n.keys[j] = x, n.ptrs[j] = p
      PROVE  \E i \in 1 .. n.size + 1 : WideKey(n, q, k, i) = x /\ WidePtr(n, q, v, i) = p
  <2>1. CASE j < q
    <3>1. j \in 1 .. n.size + 1
      OBVIOUS
    <3> QED BY <1>3, <2>1, <3>1 DEF WideKey, WidePtr
  <2>2. CASE ~(j < q)
    <3>1. PICK i : i = j + 1
      OBVIOUS
    <3>2. i \in 1 .. n.size + 1 /\ ~(i < q) /\ i # q /\ i - 1 = j
      BY <2>2, <3>1
    <3>3. WideKey(n, q, k, i) = n.keys[j] /\ WidePtr(n, q, v, i) = n.ptrs[j]
      BY <3>2 DEF WideKey, WidePtr
    <3> QED BY <1>3, <3>2, <3>3
  <2> QED BY <2>1, <2>2
<1> QED
  BY <1>1, <1>2, <1>3 DEF WideFiled

-------------------------------------------------------------------------------
(* The leaf of an insertion. *)

\* The leaf find reached and the place of a new key in it.
LEMMA NewKeyFits ==
    ASSUME FileInv, NEW lo \in Ghosts, NEW hi \in Ghosts, NEW ht, NEW pos,
           RangeInv(lo, hi, ht, pos), NewKey,
           NEW n, n = disk[at], NEW k, k = call.key, NEW q, q = Above(n, k)
    PROVE  /\ at \in L /\ n \in Leaves /\ KeysOK(n) /\ at \in Nat
           /\ Fits(n, q, k) /\ q \in 1 .. n.size + 1 /\ k \in Nat /\ call.val \in Nat
           /\ lo[at] <= k /\ k < hi[at]
           /\ pc = "find" /\ ~Pending /\ open /\ hdr.root # 0 /\ hdr.duplicate \in {"Y", "N"}
<1>1. pc = "find" /\ n.type = "L" /\ IndexOf(n, k) = {} /\ ~Pending
  BY DEF NewKey, AtLeaf, Pending
<1>2. /\ k \in Keys /\ call.val \in Nat /\ at \in Nodes /\ lo[at] <= k /\ k < hi[at]
      /\ hdr.root # 0 /\ open
  BY <1>1 DEF RangeInv, CallOK
<1>3. at \in L
  BY <1>1, <1>2 DEF Nodes, L, I, OfType
<1>4. n \in Leaves /\ KeysOK(n) /\ at \in Nat /\ n \in Leaves \cup Inners
  BY <1>3, Kinds DEF FileInv
<1>5. hi[at] <= NilKey /\ hi[at] \in Nat
  BY <1>2, <1>4 DEF RangeInv, Bounded, Ghosts
<1>6. k \in Nat /\ NilKey \in Nat
  BY <1>2, KeyFacts
<1>7. k < NilKey
  BY <1>2, <1>5, <1>6
<1>8. /\ n.size \in Nat /\ 1 <= n.size /\ n.size <= Cap /\ Cap \in Nat
      /\ \A i \in 1 .. Cap : n.keys[i] \in Nat
  BY <1>4, NodeFacts
<1>9. /\ q \in 1 .. n.size + 1
      /\ \A j \in 1 .. q - 1 : n.keys[j] <= k
      /\ q <= n.size => n.keys[q] > k
  BY <1>4, <1>6, <1>7, AboveInNode
<1>10. \A i \in 1 .. n.size : n.keys[i] # k
  BY <1>1 DEF IndexOf
<1>11. ASSUME q > 1 PROVE n.keys[q - 1] < k
  <2>1. q - 1 \in 1 .. q - 1 /\ q - 1 \in 1 .. n.size /\ q - 1 \in 1 .. Cap
    BY <1>8, <1>9, <1>11
  <2>2. n.keys[q - 1] <= k /\ n.keys[q - 1] # k /\ n.keys[q - 1] \in Nat
    BY <1>8, <1>9, <1>10, <2>1
  <2> QED BY <1>6, <2>2
<1>12. ASSUME q <= n.size PROVE k < n.keys[q]
  BY <1>9, <1>12
<1>13. Fits(n, q, k)
  BY <1>6, <1>7, <1>9, <1>11, <1>12 DEF Fits
<1>14. hdr.duplicate \in {"Y", "N"}
  BY <1>2 DEF FileInv, HeaderOK, Headers
<1> QED
  BY <1>1, <1>2, <1>3, <1>4, <1>6, <1>9, <1>13, <1>14

LEMMA NeverOutside ==
    ASSUME TreeInv PROVE ~InsertOutside
<1> SUFFICES ASSUME InsertOutside PROVE FALSE
  OBVIOUS
<1>1. PICK lo \in Ghosts, hi \in Ghosts, ht \in Ghosts, pos \in Ghosts :
         RangeInv(lo, hi, ht, pos)
  BY DEF TreeInv
<1>2. PICK n, k, q : n = disk[at] /\ k = call.key /\ q = Above(n, k)
  OBVIOUS
<1>3. NewKey /\ n.size < Cap /\ q = Cap + 1
  BY <1>2 DEF InsertOutside
<1>4. n \in Leaves /\ KeysOK(n) /\ q \in 1 .. n.size + 1
  BY <1>1, <1>2, <1>3, NewKeyFits DEF TreeInv
<1>5. n.size \in Nat /\ Cap \in Nat
  BY <1>4, NodeFacts
<1> QED
  BY <1>3, <1>4, <1>5

\* Writing leaves without splitting them.
LEMMA LeavesRewritten ==
    ASSUME FileInv, NEW lo, NEW hi, NEW ht, NEW pos, RangeInv(lo, hi, ht, pos),
           ~Pending, pc' # "parent",
           L' = L, I' = I, DOMAIN disk \subseteq DOMAIN disk',
           \A x \in I : disk'[x] = disk[x],
           \A x \in L : /\ KeysOK(disk'[x])
                        /\ disk'[x].parent = disk[x].parent /\ disk'[x].next = disk[x].next
                        /\ disk'[x].size >= disk[x].size
                        /\ disk'[x].size \in Nat
                        /\ \A i \in 1 .. disk'[x].size :
                              lo[x] <= disk'[x].keys[i] /\ disk'[x].keys[i] < hi[x],
           hdr'.root = hdr.root, hdr'.numOfLeafNodes = hdr.numOfLeafNodes,
           hdr'.numOfInterNodes = hdr.numOfInterNodes
    PROVE  /\ Bounded(lo, hi)' /\ Linked(ht)' /\ Chained(lo, hi, pos)' /\ HalfFull'
           /\ \A b \in Nodes' : KeysOK(disk'[b]) /\ disk'[b].parent \in DOMAIN disk'
<1>1. Nodes' = Nodes /\ Nodes = L \cup I
  BY DEF Nodes
<1>2. ~Pending'
  BY DEF Pending
<1>3. \A b : Sib(b) = b /\ Sib(b)' = b /\ ~Unlinked(b) /\ ~Unlinked(b)'
  BY <1>2 DEF Sib, Unlinked
<1>4. \A b \in Nodes : /\ disk[b].parent \in DOMAIN disk /\ disk'[b].parent = disk[b].parent
                       /\ KeysOK(disk'[b])
  <2>1. \A b \in I : b \in Nodes /\ KeysOK(disk[b])
    BY Kinds DEF FileInv
  <2> QED BY <1>1, <2>1, Kinds DEF FileInv
<1>5. Bounded(lo, hi)'
  BY <1>1, <1>3 DEF Bounded, RangeInv
<1>6. Linked(ht)'
  BY <1>1, <1>3, <1>4 DEF Linked, RangeInv
<1>7. Chained(lo, hi, pos)'
  BY DEF Chained, RangeInv
<1>8. HalfFull'
  <2>1. ASSUME NEW b \in Nodes, b # hdr.root PROVE disk'[b].size >= Cap \div 2
    <3>1. disk[b].size >= Cap \div 2
      BY <2>1 DEF FileInv, HalfFull
    <3>2. disk[b].size \in Nat /\ Cap \div 2 \in Nat
      <4>1. disk[b] \in Leaves \cup Inners /\ KeysOK(disk[b])
        BY Kinds DEF FileInv
      <4> QED BY <4>1, NodeFacts
    <3>3. CASE b \in L
      BY <3>1, <3>2, <3>3
    <3>4. CASE b \in I
      BY <3>1, <3>4
    <3> QED BY <1>1, <3>3, <3>4
  <2> QED BY <1>1, <1>2, <2>1 DEF HalfFull
<1> QED
  BY <1>1, <1>4, <1>5, <1>6, <1>7, <1>8

\* The cells of a wide node stay within what its keys and pointers are in.
LEMMA WideKeyWithin ==
    ASSUME NEW n, n.size \in Nat, NEW q \in 1 .. n.size + 1, NEW k, NEW a, NEW b,
           \A i \in 1 .. n.size : a <= n.keys[i] /\ n.keys[i] < b, a <= k, k < b,
           NEW j \in 1 .. n.size + 1
    PROVE  a <= WideKey(n, q, k, j) /\ WideKey(n, q, k, j) < b
<1>1. CASE j < q
  BY <1>1 DEF WideKey
<1>2. CASE j = q
  BY <1>2 DEF WideKey
<1>3. CASE j > q
  <2>1. j - 1 \in 1 .. n.size /\ ~(j < q) /\ j # q
    BY <1>3
  <2> QED BY <2>1 DEF WideKey
<1> QED
  BY <1>1, <1>2, <1>3

LEMMA WidePtrWithin ==
    ASSUME NEW n, n.size \in Nat, NEW q \in 1 .. n.size + 1, NEW v, NEW S,
           \A i \in 1 .. n.size : n.ptrs[i] \in S, v \in S,
           NEW j \in 1 .. n.size + 1
    PROVE  WidePtr(n, q, v, j) \in S
<1>1. CASE j < q
  BY <1>1 DEF WidePtr
<1>2. CASE j = q
  BY <1>2 DEF WidePtr
<1>3. CASE j > q
  <2>1. j - 1 \in 1 .. n.size /\ ~(j < q) /\ j # q
    BY <1>3
  <2> QED BY <2>1 DEF WidePtr
<1> QED
  BY <1>1, <1>2, <1>3

\* The blocks an insertion adds to the file: leaves, and a bucket in duplicate mode.
Buckets1 == IF hdr.duplicate = "N" THEN 0 ELSE 1

LEMMA AllocatedIs ==
    ASSUME hdr \in Headers, NEW z \in Nat, NEW hd, hd = Allocated(z)
    PROVE  /\ hd \in Headers
           /\ hd.root = hdr.root /\ hd.duplicate = hdr.duplicate
           /\ hd.numOfBlocks = hdr.numOfBlocks + z + Buckets1
           /\ hd.numOfInterNodes = hdr.numOfInterNodes
           /\ hd.numOfLeafNodes = hdr.numOfLeafNodes + z
           /\ hd.numOfPtrBucket = hdr.numOfPtrBucket + Buckets1
<1>1. PICK a, b, c, d, e, f :
        /\ hdr = [root |-> a, duplicate |-> b, numOfBlocks |-> c, numOfInterNodes |-> d,
                  numOfLeafNodes |-> e, numOfPtrBucket |-> f]
        /\ a \in Nat /\ b \in {"none", "Y", "N"} /\ c \in Nat /\ d \in Nat /\ e \in Nat
        /\ f \in Nat
  BY DEF Headers
<1>2. hd = [root |-> a, duplicate |-> b, numOfBlocks |-> c + z + Buckets1,
              numOfInterNodes |-> d, numOfLeafNodes |-> e + z,
              numOfPtrBucket |-> f + Buckets1]
  <2>1. PICK y : y = Buckets1
    OBVIOUS
  <2>2. hd = [hdr EXCEPT !.numOfBlocks = @ + z + y, !.numOfLeafNodes = @ + z,
                           !.numOfPtrBucket = @ + y]
    BY <2>1 DEF Allocated, Buckets1
  <2>3. PICK g : g = [hdr EXCEPT !.numOfBlocks = c + z + y]
    OBVIOUS
  <2>4. PICK h : h = [g EXCEPT !.numOfLeafNodes = e + z]
    OBVIOUS
  <2>5. hd = [h EXCEPT !.numOfPtrBucket = f + y]
    BY <1>1, <2>2, <2>3, <2>4
  <2>6. g = [root |-> a, duplicate |-> b, numOfBlocks |-> c + z + y,
             numOfInterNodes |-> d, numOfLeafNodes |-> e, numOfPtrBucket |-> f]
    BY <1>1, <2>3
  <2>7. h = [root |-> a, duplicate |-> b, numOfBlocks |-> c + z + y,
             numOfInterNodes |-> d, numOfLeafNodes |-> e + z, numOfPtrBucket |-> f]
    BY <2>4, <2>6
  <2> QED BY <2>1, <2>5, <2>7
<1>3. Buckets1 \in Nat
  BY DEF Buckets1
<1>4. c + z + Buckets1 \in Nat /\ e + z \in Nat /\ f + Buckets1 \in Nat
  BY <1>1, <1>3
<1>5. hd \in Headers
  BY <1>1, <1>2, <1>4 DEF Headers
<1> QED
  BY <1>1, <1>2, <1>5

LEMMA OneMore ==
    ASSUME NEW S, IsFiniteSet(S), NEW n \in Nat, Cardinality(S) = n, NEW x, x \notin S,
           NEW T, T = S \cup {x}
    PROVE  IsFiniteSet(T) /\ Cardinality(T) = n + 1
  BY FS_AddElement

\* A bucket with one pointer.
LEMMA NewBucket ==
    ASSUME NEW v \in Nat, NEW c, c = Bucket(<<v>>, 0)
    PROVE  c \in Buckets /\ c.type = "B" /\ Len(c.ptrs) \in 1 .. BucketCap /\ c.next = 0
<1>1. <<v>> \in Seq(Nat) /\ Len(<<v>>) = 1
  OBVIOUS
<1>2. c.ptrs = <<v>> /\ c.type = "B" /\ c.next = 0 /\ c \in Buckets
  BY <1>1 DEF Bucket, Buckets
<1>3. 1 \in 1 .. BucketCap
  BY TreeAssumption
<1> QED
  BY <1>1, <1>2, <1>3

LEMMA InsertInLeafKeeps ==
    ASSUME TreeInv, InsertInLeaf
    PROVE  TreeInv' /\ KeyEntered(call.key, call.val, hdr.numOfBlocks)
<1>1. PICK lo \in Ghosts, hi \in Ghosts, ht \in Ghosts, pos \in Ghosts :
         RangeInv(lo, hi, ht, pos)
  BY DEF TreeInv
<1>2. PICK n, k, q, b, w, v, m, d :
        /\ n = disk[at] /\ k = call.key /\ q = Above(n, k) /\ b = hdr.numOfBlocks
        /\ w = call.val /\ v = Pointer(w, b) /\ m = LeafPlus(n, q, k, v)
        /\ d = [disk EXCEPT ![at] = m]
  OBVIOUS
<1>3. /\ NewKey /\ n.size < Cap /\ disk' = WithBucket(d, w, b) /\ hdr' = Allocated(0)
      /\ pc' = "idle" /\ dhdr' = dhdr /\ open' = open
  BY <1>2 DEF InsertInLeaf, Return, LeafPlus
<1>4. FileInv /\ HeaderOK /\ FileOK /\ BucketsOK /\ Counted /\ hdr \in Headers
  BY DEF TreeInv, FileInv, HeaderOK
<1>5. /\ at \in L /\ n \in Leaves /\ KeysOK(n) /\ at \in Nat
      /\ Fits(n, q, k) /\ q \in 1 .. n.size + 1 /\ k \in Nat /\ w \in Nat
      /\ lo[at] <= k /\ k < hi[at]
      /\ pc = "find" /\ ~Pending /\ open /\ hdr.root # 0 /\ hdr.duplicate \in {"Y", "N"}
  BY <1>1, <1>2, <1>3, <1>4, NewKeyFits
<1>6. /\ DOMAIN disk = 1 .. b - 1 /\ b \in Nat /\ b # 0 /\ b \notin DOMAIN disk
      /\ at \in DOMAIN disk /\ n.size \in Nat /\ 1 <= n.size
  <2>1. DOMAIN disk = 1 .. b - 1 /\ b \in Nat
    BY <1>2, <1>4 DEF FileOK, Headers
  <2>2. at \in DOMAIN disk
    BY <1>4, <1>5, Kinds
  <2>3. n.size \in Nat /\ 1 <= n.size
    BY <1>5, NodeFacts
  <2> QED BY <2>1, <2>2, <2>3
<1>7. v \in Nat
  BY <1>2, <1>5, <1>6 DEF Pointer
<1>8. /\ m \in Leaves /\ KeysOK(m)
      /\ m.type = "L" /\ m.size = n.size + 1 /\ m.parent = n.parent /\ m.next = n.next
      /\ \A j \in 1 .. m.size : /\ m.keys[j] = WideKey(n, q, k, j)
                                /\ m.ptrs[j] = WidePtr(n, q, v, j)
  BY <1>2, <1>3, <1>5, <1>7, LeafWithKey
<1>9. /\ hdr' \in Headers /\ hdr'.root = hdr.root /\ hdr'.duplicate = hdr.duplicate
      /\ hdr'.numOfBlocks = b + Buckets1
      /\ hdr'.numOfInterNodes = hdr.numOfInterNodes
      /\ hdr'.numOfLeafNodes = hdr.numOfLeafNodes
      /\ hdr'.numOfPtrBucket = hdr.numOfPtrBucket + Buckets1
  <2>1. 0 \in Nat /\ hdr.numOfBlocks + 0 = hdr.numOfBlocks /\ hdr.numOfLeafNodes + 0 = hdr.numOfLeafNodes
    BY <1>4 DEF Headers
  <2>2. PICK z : z = 0
    OBVIOUS
  <2>3. /\ hdr' \in Headers /\ hdr'.root = hdr.root /\ hdr'.duplicate = hdr.duplicate
        /\ hdr'.numOfBlocks = hdr.numOfBlocks + z + Buckets1
        /\ hdr'.numOfInterNodes = hdr.numOfInterNodes
        /\ hdr'.numOfLeafNodes = hdr.numOfLeafNodes + z
        /\ hdr'.numOfPtrBucket = hdr.numOfPtrBucket + Buckets1
    BY <1>3, <1>4, <2>1, <2>2, AllocatedIs
  <2> QED BY <1>2, <2>1, <2>2, <2>3
<1>10. DOMAIN d = DOMAIN disk /\ d[at] = m /\ \A x \in DOMAIN disk : x # at => d[x] = disk[x]
  BY <1>2, <1>6
<1>11. /\ DOMAIN disk' = DOMAIN disk \cup (IF hdr.duplicate = "N" THEN {} ELSE {b})
       /\ \A x \in DOMAIN disk : disk'[x] = d[x]
       /\ hdr.duplicate # "N" => disk'[b] = Bucket(<<w>>, 0)
  <2>1. b \notin DOMAIN d
    BY <1>6, <1>10
  <2>2. disk' = IF hdr.duplicate = "N" THEN d
                ELSE [x \in DOMAIN d \cup {b} |-> IF x = b THEN Bucket(<<w>>, 0) ELSE d[x]]
    BY <1>3 DEF WithBucket, With
  <2>3. CASE hdr.duplicate = "N"
    BY <1>10, <2>2, <2>3
  <2>4. CASE hdr.duplicate # "N"
    BY <1>10, <2>1, <2>2, <2>4
  <2> QED BY <2>3, <2>4
<1>12. disk'[at] = m /\ \A x \in DOMAIN disk : x # at => disk'[x] = disk[x]
  BY <1>6, <1>10, <1>11
<1>13. hdr.duplicate # "N" =>
         /\ disk'[b] \in Buckets /\ disk'[b].type = "B"
         /\ Len(disk'[b].ptrs) \in 1 .. BucketCap /\ disk'[b].next = 0
  <2>1. PICK c : c = Bucket(<<w>>, 0)
    OBVIOUS
  <2> QED BY <1>5, <1>11, <2>1, NewBucket
<1>14. L' = L /\ I' = I /\ B' = B \cup (IF hdr.duplicate = "N" THEN {} ELSE {b})
  <2>1. n.type = "L"
    BY <1>5 DEF Leaves
  <2>2. \A x \in DOMAIN disk : disk'[x].type = disk[x].type
    BY <1>2, <1>8, <1>12, <2>1
  <2> QED BY <1>6, <1>11, <1>13, <2>2 DEF L, I, B, OfType
<1>15. /\ Bounded(lo, hi)' /\ Linked(ht)' /\ Chained(lo, hi, pos)' /\ HalfFull'
       /\ \A x \in Nodes' : KeysOK(disk'[x]) /\ disk'[x].parent \in DOMAIN disk'
  <2>1. \A x \in I : disk'[x] = disk[x]
    <3>1. \A x \in I : x \in DOMAIN disk /\ x # at
      BY <1>4, <1>5 DEF L, I, OfType
    <3> QED BY <1>12, <3>1
  <2>2. ASSUME NEW x \in L
        PROVE  /\ KeysOK(disk'[x])
               /\ disk'[x].parent = disk[x].parent /\ disk'[x].next = disk[x].next
               /\ disk'[x].size >= disk[x].size
               /\ disk'[x].size \in Nat
               /\ \A i \in 1 .. disk'[x].size :
                     lo[x] <= disk'[x].keys[i] /\ disk'[x].keys[i] < hi[x]
    <3>1. x \in DOMAIN disk /\ x \in Nodes /\ disk[x] \in Leaves /\ KeysOK(disk[x])
      BY <1>4, Kinds
    <3>2. disk[x].size \in Nat
      BY <3>1, NodeFacts
    <3>3. \A i \in 1 .. disk[x].size : lo[x] <= disk[x].keys[i] /\ disk[x].keys[i] < hi[x]
      BY <1>1, <3>1 DEF RangeInv, Bounded
    <3>4. CASE x # at
      BY <1>12, <3>1, <3>2, <3>3, <3>4
    <3>5. CASE x = at
      <4>1. \A i \in 1 .. n.size : lo[at] <= n.keys[i] /\ n.keys[i] < hi[at]
        BY <1>2, <3>3, <3>5
      <4>2. \A j \in 1 .. n.size + 1 : lo[at] <= WideKey(n, q, k, j) /\ WideKey(n, q, k, j) < hi[at]
        BY <1>5, <1>6, <4>1, WideKeyWithin
      <4> QED BY <1>2, <1>6, <1>8, <1>12, <3>5, <4>2
    <3> QED BY <3>4, <3>5
  <2>3. DOMAIN disk \subseteq DOMAIN disk' /\ pc' # "parent"
    BY <1>3, <1>11
  <2> QED BY <1>1, <1>4, <1>5, <1>9, <1>14, <2>1, <2>2, <2>3, LeavesRewritten
<1>16. HeaderOK'
  <2>1. hdr'.numOfBlocks # 0
    BY <1>6, <1>9 DEF Buckets1
  <2> QED BY <1>3, <1>4, <1>5, <1>9, <2>1 DEF HeaderOK
<1>17. FileOK'
  <2>1. DOMAIN disk' = 1 .. hdr'.numOfBlocks - 1
    BY <1>6, <1>9, <1>11 DEF Buckets1
  <2>2. \A x \in DOMAIN disk' : disk'[x] \in Leaves \cup Inners \cup Buckets
    BY <1>4, <1>8, <1>11, <1>12, <1>13 DEF FileOK
  <2>3. Nodes' = Nodes
    BY <1>14 DEF Nodes
  <2> QED BY <1>4, <1>5, <1>9, <1>15, <2>1, <2>2, <2>3 DEF FileOK
<1>18. BucketsOK'
  <2>1. ASSUME NEW c \in B'
        PROVE  /\ Len(disk'[c].ptrs) \in 1 .. BucketCap
               /\ disk'[c].next # 0 => disk'[c].next \in B' /\ disk'[c].next > c
    <3>1. CASE c \in B
      <4>1. c \in DOMAIN disk /\ c # at
        BY <1>5, <3>1 DEF L, B, OfType
      <4> QED BY <1>4, <1>12, <1>14, <3>1, <4>1 DEF BucketsOK
    <3>2. CASE c \notin B
      BY <1>13, <1>14, <3>2
    <3> QED BY <3>1, <3>2
  <2>2. ASSUME hdr.duplicate = "Y", NEW x \in L, NEW i \in 1 .. disk'[x].size
        PROVE  disk'[x].ptrs[i] \in B'
    <3>1. x \in DOMAIN disk /\ \A j \in 1 .. disk[x].size : disk[x].ptrs[j] \in B'
      BY <1>4, <1>14, <2>2, Kinds DEF BucketsOK
    <3>2. CASE x # at
      BY <1>12, <3>1, <3>2
    <3>3. CASE x = at
      <4>1. v \in B'
        BY <1>2, <1>14, <2>2 DEF Pointer
      <4>2. \A j \in 1 .. n.size + 1 : WidePtr(n, q, v, j) \in B'
        BY <1>2, <1>5, <1>6, <3>1, <3>3, <4>1, WidePtrWithin
      <4> QED BY <1>8, <1>12, <3>3, <4>2
    <3> QED BY <3>2, <3>3
  <2> QED BY <1>9, <1>14, <2>1, <2>2 DEF BucketsOK
<1>19. Counted'
  <2>1. CASE hdr.duplicate = "N"
    <3>1. B' = B /\ Buckets1 = 0 /\ hdr.numOfPtrBucket + 0 = hdr.numOfPtrBucket
      BY <1>4, <1>14, <2>1 DEF Buckets1, Headers
    <3> QED BY <1>4, <1>9, <1>14, <3>1 DEF Counted
  <2>2. CASE hdr.duplicate # "N"
    <3>1. B' = B \cup {b} /\ Buckets1 = 1 /\ b \notin B
      BY <1>6, <1>14, <2>2 DEF Buckets1, B, OfType
    <3>2. IsFiniteSet(B') /\ Cardinality(B') = hdr.numOfPtrBucket + 1
      BY <1>4, <3>1, OneMore DEF Counted, Headers
    <3> QED BY <1>4, <1>9, <1>14, <3>1, <3>2 DEF Counted
  <2> QED BY <2>1, <2>2
<1>20. CallOK(lo, hi, ht)'
  BY <1>3 DEF CallOK
<1>21. FileInv' /\ RangeInv(lo, hi, ht, pos)'
  BY <1>15, <1>16, <1>17, <1>18, <1>19, <1>20 DEF FileInv, RangeInv
<1>22. ASSUME NEW j, NEW p
       PROVE  Filed(j, p)' <=> Filed(j, p) \/ (j = k /\ p = v)
  <2>1. (\E i \in 1 .. m.size : m.keys[i] = j /\ m.ptrs[i] = p)
        <=> (j = k /\ p = v) \/ \E i \in 1 .. n.size : n.keys[i] = j /\ n.ptrs[i] = p
    <3>1. WideFiled(n, q, k, v, j, p)
          <=> (j = k /\ p = v) \/ \E i \in 1 .. n.size : n.keys[i] = j /\ n.ptrs[i] = p
      BY <1>5, <1>6, WideEntries
    <3> QED BY <1>8, <3>1 DEF WideFiled
  <2>2. \A x \in L : x # at => disk'[x] = disk[x]
    BY <1>12 DEF L, OfType
  <2>3. L' = L /\ disk'[at] = m /\ disk[at] = n /\ at \in L
    BY <1>2, <1>5, <1>12, <1>14
  <2> QED BY <2>1, <2>2, <2>3 DEF Filed
<1>23. KeyEntered(k, w, b)
  <2>1. \A c \in B : c \in DOMAIN disk /\ c # at
    BY <1>5 DEF L, B, OfType
  <2>2. b \notin B
    BY <1>6, <2>1
  <2> QED BY <1>2, <1>5, <1>6, <1>9, <1>11, <1>12, <1>14, <1>22, <2>1, <2>2 DEF KeyEntered
<1> QED
  BY <1>1, <1>2, <1>21, <1>23 DEF TreeInv

-------------------------------------------------------------------------------
(* Chains. *)

\* The first n + 1 blocks from block b on.
ChainOf(c, b, n) ==
    c = [i \in 0 .. n |-> IF i = 0 THEN b ELSE IF c[i-1] = 0 THEN 0 ELSE disk[c[i-1]].next]

LEMMA ChainExists ==
    ASSUME NEW b, NEW n \in Nat
    PROVE  \E c : ChainOf(c, b, n)
<1> DEFINE S == {m \in Nat : ~ \E c : ChainOf(c, b, m)}
<1> SUFFICES ASSUME S # {} PROVE FALSE
  OBVIOUS
<1>1. PICK m \in S : \A x \in S : m <= x
  BY LeastNat
<1>2. CASE m = 0
  <2> DEFINE f == [i \in 0 .. 0 |-> b]
  <2>1. f = [i \in 0 .. 0 |-> IF i = 0 THEN b
                              ELSE IF f[i-1] = 0 THEN 0 ELSE disk[f[i-1]].next]
    OBVIOUS
  <2> QED BY <1>1, <1>2, <2>1 DEF ChainOf
<1>3. CASE m # 0
  <2>1. PICK e : e = m - 1
    OBVIOUS
  <2>2. e \in Nat /\ e \notin S /\ m = e + 1 /\ m \in Nat
    BY <1>1, <1>3, <2>1
  <2>3. PICK f : ChainOf(f, b, e)
    BY <2>2
  <2>4. PICK g : g = [i \in 0 .. m |-> IF i = 0 THEN b
                                       ELSE IF f[i-1] = 0 THEN 0 ELSE disk[f[i-1]].next]
    OBVIOUS
  <2>5. ASSUME NEW i \in 0 .. e PROVE g[i] = f[i]
    <3>1. i \in 0 .. m
      BY <2>2
    <3> QED BY <2>3, <2>4, <3>1 DEF ChainOf
  <2>6. ASSUME NEW i \in 0 .. m, i # 0 PROVE g[i-1] = f[i-1]
    <3>1. i - 1 \in 0 .. e
      BY <2>2, <2>6
    <3> QED BY <2>5, <3>1
  <2>7. ChainOf(g, b, m)
    BY <2>4, <2>6 DEF ChainOf
  <2> QED BY <1>1, <2>7
<1> QED BY <1>2, <1>3

LEMMA ChainIs ==
    ASSUME hdr.numOfBlocks \in Nat, NEW b
    PROVE  ChainOf(Chain(b), b, hdr.numOfBlocks)
<1>1. \E f : ChainOf(f, b, hdr.numOfBlocks)
  BY ChainExists
<1> QED
  BY <1>1 DEF Chain, ChainOf

\* The blocks of a chain, one by one.
LEMMA ChainStep ==
    ASSUME hdr.numOfBlocks \in Nat, NEW b, NEW c, c = Chain(b)
    PROVE  /\ c[0] = b
           /\ \A i \in 0 .. hdr.numOfBlocks :
                 i # 0 => c[i] = IF c[i-1] = 0 THEN 0 ELSE disk[c[i-1]].next
           /\ ChainFrom(b) = {c[i] : i \in 0 .. hdr.numOfBlocks} \ {0}
<1>1. ChainOf(c, b, hdr.numOfBlocks)
  BY ChainIs
<1>2. 0 \in 0 .. hdr.numOfBlocks
  OBVIOUS
<1>3. c[0] = b
  BY <1>1, <1>2 DEF ChainOf
<1>4. ASSUME NEW i \in 0 .. hdr.numOfBlocks, i # 0
      PROVE  c[i] = IF c[i-1] = 0 THEN 0 ELSE disk[c[i-1]].next
  BY <1>1, <1>4 DEF ChainOf
<1>5. ChainFrom(b) = {c[i] : i \in 0 .. hdr.numOfBlocks} \ {0}
  BY DEF ChainFrom
<1> QED
  BY <1>3, <1>4, <1>5

\* The chain of a bucket has buckets only and ends.
LEMMA BucketChain ==
    ASSUME HeaderOK, FileOK, BucketsOK, NEW h \in B
    PROVE  /\ ChainFrom(h) \subseteq B
           /\ \E x \in ChainFrom(h) : disk[x].next = 0
<1>1. PICK c, z : c = Chain(h) /\ z = hdr.numOfBlocks
  OBVIOUS
<1>2. z \in Nat /\ DOMAIN disk = 1 .. z - 1
  BY <1>1 DEF HeaderOK, Headers, FileOK
<1>3. /\ c[0] = h
      /\ \A i \in 0 .. z : i # 0 => c[i] = IF c[i-1] = 0 THEN 0 ELSE disk[c[i-1]].next
      /\ ChainFrom(h) = {c[i] : i \in 0 .. z} \ {0}
  BY <1>1, <1>2, ChainStep
<1>4. \A x \in B : x \in DOMAIN disk /\ x \in Nat /\ x # 0 /\ x < z
  BY <1>2 DEF B, OfType
<1>5. \A x \in B : disk[x].next # 0 => disk[x].next \in B /\ disk[x].next > x
  BY DEF BucketsOK
<1>6. \A i \in 0 .. z : c[i] = 0 \/ c[i] \in B
  <2> DEFINE S == {i \in 0 .. z : ~(c[i] = 0 \/ c[i] \in B)}
  <2> SUFFICES ASSUME S # {} PROVE FALSE
    OBVIOUS
  <2>1. S \in SUBSET Nat
    OBVIOUS
  <2>2. PICK i \in S : \A x \in S : i <= x
    BY <2>1, LeastNat
  <2>3. i \in 0 .. z /\ i # 0
    BY <1>3, <2>2
  <2>4. i - 1 \in 0 .. z /\ ~(i <= i - 1)
    BY <1>2, <2>3
  <2>5. i - 1 \notin S
    BY <2>2, <2>4
  <2>6. c[i-1] = 0 \/ c[i-1] \in B
    BY <2>4, <2>5
  <2>7. c[i] = IF c[i-1] = 0 THEN 0 ELSE disk[c[i-1]].next
    BY <1>3, <2>3
  <2> QED BY <1>5, <2>2, <2>6, <2>7
<1>7. ChainFrom(h) \subseteq B
  BY <1>3, <1>6
<1>8. ASSUME \A x \in ChainFrom(h) : disk[x].next # 0
      PROVE  FALSE
  <2> DEFINE S == {i \in 0 .. z : ~(c[i] \in B /\ c[i] > i)}
  <2>1. S = {}
    <3> SUFFICES ASSUME S # {} PROVE FALSE
      OBVIOUS
    <3>1. S \in SUBSET Nat
      OBVIOUS
    <3>2. PICK i \in S : \A x \in S : i <= x
      BY <3>1, LeastNat
    <3>3. c[0] \in B /\ c[0] > 0
      BY <1>3, <1>4
    <3>4. i \in 0 .. z /\ i # 0
      BY <3>2, <3>3
    <3>5. i - 1 \in 0 .. z /\ ~(i <= i - 1)
      BY <1>2, <3>4
    <3>6. c[i-1] \in B /\ c[i-1] > i - 1
      BY <3>2, <3>5
    <3>7. c[i-1] # 0 /\ c[i-1] \in ChainFrom(h)
      BY <1>3, <1>4, <3>5, <3>6
    <3>8. c[i] = disk[c[i-1]].next
      BY <1>3, <3>4, <3>7
    <3>9. c[i] \in B /\ c[i] > c[i-1]
      BY <1>5, <1>8, <3>6, <3>7, <3>8
    <3>10. c[i] \in Nat /\ c[i-1] \in Nat /\ i \in Nat
      BY <1>4, <3>4, <3>6, <3>9
    <3>11. c[i] > i
      BY <3>6, <3>9, <3>10
    <3> QED BY <3>2, <3>9, <3>11
  <2>2. z \in 0 .. z
    BY <1>2
  <2>3. c[z] \in B /\ c[z] > z
    BY <2>1, <2>2
  <2>4. c[z] \in Nat /\ c[z] < z
    BY <1>4, <2>3
  <2> QED BY <1>2, <2>3, <2>4
<1> QED
  BY <1>7, <1>8

\* Buckets that are written.
LEMMA BucketPlus ==
    ASSUME NEW n \in Buckets, NEW v \in Nat,
           NEW m, m = [n EXCEPT !.ptrs = Append(@, v)]
    PROVE  /\ m \in Buckets /\ m.type = "B" /\ m.next = n.next
           /\ Len(m.ptrs) = Len(n.ptrs) + 1 /\ Len(n.ptrs) \in Nat
<1>1. PICK a, b : n = [type |-> "B", ptrs |-> a, next |-> b] /\ a \in Seq(Nat) /\ b \in Nat
  BY DEF Buckets
<1>2. PICK c : c = Append(a, v)
  OBVIOUS
<1>3. c \in Seq(Nat) /\ Len(c) = Len(a) + 1 /\ Len(a) \in Nat
  BY <1>1, <1>2
<1>4. n.ptrs = a /\ n.next = b
  BY <1>1
<1>5. m = [n EXCEPT !.ptrs = c]
  BY <1>2, <1>4
<1>6. m = [type |-> "B", ptrs |-> c, next |-> b]
  BY <1>1, <1>5
<1>7. m \in Buckets
  <2>1. c \in Seq(Nat) /\ b \in Nat
    BY <1>1, <1>3
  <2> QED BY ONLY <1>6, <2>1 DEF Buckets
<1>8. m.ptrs = c /\ m.next = b /\ m.type = "B"
  BY <1>6
<1> QED
  BY <1>3, <1>4, <1>7, <1>8

LinkedTo(n, x) == [n EXCEPT !.next = x]

LEMMA BucketLinked ==
    ASSUME NEW n \in Buckets, NEW x \in Nat, NEW m, m = LinkedTo(n, x)
    PROVE  m \in Buckets /\ m.type = "B" /\ m.next = x /\ m.ptrs = n.ptrs
  BY DEF Buckets, LinkedTo

\* Writing buckets only.
LEMMA BucketsRewritten ==
    ASSUME TreeInv, ~Pending, pc' = "idle", NEW lo, NEW hi, NEW ht, NEW pos,
           RangeInv(lo, hi, ht, pos),
           L' = L, I' = I, DOMAIN disk \subseteq DOMAIN disk',
           \A x \in Nodes : disk'[x] = disk[x],
           hdr'.root = hdr.root, hdr'.numOfLeafNodes = hdr.numOfLeafNodes,
           hdr'.numOfInterNodes = hdr.numOfInterNodes
    PROVE  /\ RangeInv(lo, hi, ht, pos)' /\ HalfFull'
           /\ \A b \in Nodes' : KeysOK(disk'[b]) /\ disk'[b].parent \in DOMAIN disk'
<1>1. \A x \in I : disk'[x] = disk[x]
  BY DEF Nodes
<1>2. ASSUME NEW x \in L
      PROVE  /\ KeysOK(disk'[x])
             /\ disk'[x].parent = disk[x].parent /\ disk'[x].next = disk[x].next
             /\ disk'[x].size >= disk[x].size
             /\ disk'[x].size \in Nat
             /\ \A i \in 1 .. disk'[x].size :
                   lo[x] <= disk'[x].keys[i] /\ disk'[x].keys[i] < hi[x]
  <2>1. x \in Nodes /\ disk[x] \in Leaves /\ KeysOK(disk[x]) /\ disk'[x] = disk[x]
    BY Kinds DEF TreeInv, FileInv
  <2>2. disk[x].size \in Nat /\ disk[x].size >= disk[x].size
    BY <2>1, NodeFacts
  <2>3. \A i \in 1 .. disk[x].size : lo[x] <= disk[x].keys[i] /\ disk[x].keys[i] < hi[x]
    BY <2>1 DEF RangeInv, Bounded
  <2> QED BY <2>1, <2>2, <2>3
<1>3. FileInv /\ pc' # "parent"
  BY DEF TreeInv
<1>4. /\ Bounded(lo, hi)' /\ Linked(ht)' /\ Chained(lo, hi, pos)' /\ HalfFull'
      /\ \A b \in Nodes' : KeysOK(disk'[b]) /\ disk'[b].parent \in DOMAIN disk'
  BY <1>1, <1>2, <1>3, LeavesRewritten
<1>5. CallOK(lo, hi, ht)'
  BY DEF CallOK
<1> QED
  BY <1>4, <1>5 DEF RangeInv

LEMMA AddToBucketKeeps ==
    ASSUME TreeInv, AddToBucket
    PROVE  TreeInv' /\ BlockEntered(disk[at].ptrs[Min(IndexOf(disk[at], call.key))], call.val)
<1>1. PICK lo \in Ghosts, hi \in Ghosts, ht \in Ghosts, pos \in Ghosts :
         RangeInv(lo, hi, ht, pos)
  BY DEF TreeInv
<1>2. PICK n, v, hits, h, b :
        /\ n = disk[at] /\ v = call.val /\ hits = IndexOf(n, call.key)
        /\ h = n.ptrs[Min(hits)] /\ b = hdr.numOfBlocks
  OBVIOUS
<1>3. /\ AtLeaf("insert") /\ hdr.duplicate = "Y" /\ hits # {}
      /\ disk' = BucketInsert(h, v)
      /\ hdr' = IF BucketGrows(h, v)
                 THEN [hdr EXCEPT !.numOfBlocks = @ + 1, !.numOfPtrBucket = @ + 1]
                 ELSE hdr
      /\ pc' = "idle" /\ dhdr' = dhdr /\ open' = open
  BY <1>2 DEF AddToBucket, Return
<1>4. FileInv /\ HeaderOK /\ FileOK /\ BucketsOK /\ Counted /\ hdr \in Headers
  BY DEF TreeInv, FileInv, HeaderOK
<1>5. pc = "find" /\ n.type = "L" /\ ~Pending /\ open /\ v \in Nat /\ at \in L
  <2>1. pc = "find" /\ n.type = "L" /\ ~Pending
    BY <1>2, <1>3 DEF AtLeaf, Pending
  <2>2. at \in Nodes /\ v \in Nat /\ open
    BY <1>1, <1>2, <2>1 DEF RangeInv, CallOK
  <2> QED BY <1>2, <2>1, <2>2 DEF Nodes, L, I, OfType
<1>6. h \in B
  <2>1. n \in Leaves /\ KeysOK(n)
    BY <1>2, <1>4, <1>5, Kinds
  <2>2. n.size \in Nat
    BY <2>1, NodeFacts
  <2>3. hits \in SUBSET Nat /\ hits \subseteq 1 .. n.size
    BY <1>2, <2>2 DEF IndexOf
  <2>4. Min(hits) \in 1 .. n.size
    BY <1>3, <2>3, MinFacts
  <2> QED BY <1>2, <1>3, <1>4, <1>5, <2>4 DEF BucketsOK
<1>7. /\ b \in Nat /\ DOMAIN disk = 1 .. b - 1 /\ b \notin DOMAIN disk /\ b # 0
      /\ \A x \in B : x \in DOMAIN disk /\ disk[x] \in Buckets /\ x < b /\ x \in Nat
      /\ \A x \in Nodes : x \in DOMAIN disk /\ disk[x].type # "B"
      /\ \A x \in DOMAIN disk : x \in Nodes \/ x \in B
  <2>1. b \in Nat /\ DOMAIN disk = 1 .. b - 1
    BY <1>2, <1>4 DEF FileOK, Headers
  <2>2. \A x \in B : x \in DOMAIN disk /\ disk[x] \in Buckets
    BY <1>4, Kinds
  <2>3. \A x \in Nodes : x \in DOMAIN disk /\ disk[x].type # "B"
    BY <1>4, Kinds DEF Nodes
  <2>4. \A x \in DOMAIN disk : x \in Nodes \/ x \in B
    BY <1>4, Kinds
  <2>5. b # 0 /\ b \notin DOMAIN disk /\ \A x \in DOMAIN disk : x < b /\ x \in Nat
    BY <1>6, <2>1, <2>2
  <2> QED BY <2>1, <2>2, <2>3, <2>4, <2>5
<1>8. /\ ChainFrom(h) \subseteq B
      /\ \E x \in ChainFrom(h) : disk[x].next = 0
  BY <1>4, <1>6, BucketChain
<1>9. CASE v \in Held(h)
  <2>1. disk' = disk /\ hdr' = hdr
    BY <1>3, <1>9 DEF BucketInsert, BucketGrows
  <2>2. HeaderOK'
    BY <1>3, <1>4, <1>5, <2>1 DEF HeaderOK
  <2>3. TreeInv'
    BY <1>3, <1>5, <2>1, <2>2, RestKeeps
  <2>4. SameEntries
    BY <2>1 DEF SameEntries, Filed, L, B, OfType
  <2>5. BlockEntered(h, v)
    BY <1>3, <1>9, <2>1, <2>4 DEF BlockEntered, SameEntries
  <2> QED BY <1>2, <2>3, <2>5
<1>10. CASE v \notin Held(h) /\ Roomy(h) # {}
  <2>1. PICK c : c = CHOOSE x \in Roomy(h) : TRUE
    OBVIOUS
  <2>2. c \in Roomy(h)
    BY <1>10, <2>1
  <2>3. c \in B /\ Len(disk[c].ptrs) < BucketCap
    BY <1>8, <2>2 DEF Roomy
  <2>4. PICK m : m = [disk[c] EXCEPT !.ptrs = Append(@, v)]
    OBVIOUS
  <2>5. disk' = [disk EXCEPT ![c] = m] /\ hdr' = hdr
    BY <1>3, <1>10, <2>1, <2>4 DEF BucketInsert, BucketGrows
  <2>6. /\ m \in Buckets /\ m.type = "B" /\ m.next = disk[c].next
        /\ Len(m.ptrs) = Len(disk[c].ptrs) + 1 /\ Len(disk[c].ptrs) \in Nat
    <3>1. PICK o : o = disk[c]
      OBVIOUS
    <3>2. o \in Buckets /\ m = [o EXCEPT !.ptrs = Append(@, v)]
      BY <1>7, <2>3, <2>4, <3>1
    <3>3. /\ m \in Buckets /\ m.type = "B" /\ m.next = o.next
          /\ Len(m.ptrs) = Len(o.ptrs) + 1 /\ Len(o.ptrs) \in Nat
      BY <1>5, <3>2, BucketPlus
    <3> QED BY <3>1, <3>3
  <2>7. /\ DOMAIN disk' = DOMAIN disk /\ disk'[c] = m
        /\ \A x \in DOMAIN disk : x # c => disk'[x] = disk[x]
    BY <1>7, <2>3, <2>5
  <2>8. L' = L /\ I' = I /\ B' = B /\ Nodes' = Nodes
    <3>1. disk[c].type = "B"
      BY <2>3 DEF B, OfType
    <3>2. \A x \in DOMAIN disk : disk'[x].type = disk[x].type
      BY <2>6, <2>7, <3>1
    <3> QED BY <2>7, <3>2 DEF L, I, B, Nodes, OfType
  <2>9. \A x \in Nodes : disk'[x] = disk[x]
    <3>1. \A x \in Nodes : x # c
      BY <1>7, <2>3 DEF B, OfType
    <3> QED BY <1>7, <2>7, <3>1
  <2>10. /\ RangeInv(lo, hi, ht, pos)' /\ HalfFull'
         /\ \A x \in Nodes' : KeysOK(disk'[x]) /\ disk'[x].parent \in DOMAIN disk'
    BY <1>1, <1>3, <1>5, <2>5, <2>7, <2>8, <2>9, BucketsRewritten
  <2>11. HeaderOK'
    BY <1>3, <1>4, <1>5, <2>5 DEF HeaderOK
  <2>12. FileOK'
    BY <1>4, <2>5, <2>6, <2>7, <2>8, <2>10 DEF FileOK
  <2>13. BucketsOK'
    <3>1. Len(m.ptrs) \in 1 .. BucketCap
      BY <2>3, <2>6, TreeAssumption
    <3>2. \A x \in L : \A i \in 1 .. disk[x].size : disk'[x] = disk[x]
      BY <2>9 DEF Nodes
    <3>3. ASSUME NEW x \in B
          PROVE  /\ Len(disk'[x].ptrs) \in 1 .. BucketCap
                 /\ disk'[x].next # 0 => disk'[x].next \in B /\ disk'[x].next > x
      BY <1>4, <1>7, <2>3, <2>6, <2>7, <3>1 DEF BucketsOK
    <3>4. \A x \in L : \A i \in 1 .. disk'[x].size : disk'[x].ptrs[i] \in B
      BY <1>3, <1>4, <2>9 DEF BucketsOK, Nodes
    <3> QED BY <2>8, <3>3, <3>4 DEF BucketsOK
  <2>14. Counted'
    BY <1>4, <2>5, <2>8 DEF Counted
  <2>15. FileInv'
    BY <2>10, <2>11, <2>12, <2>13, <2>14 DEF FileInv
  <2>16. \A k, p : Filed(k, p)' <=> Filed(k, p)
    BY <2>8, <2>9, EntriesSame DEF Nodes
  <2>17. BucketFilled(c, v)
    <3>1. m.ptrs = Append(disk[c].ptrs, v)
      <4>1. PICK o : o = disk[c]
        OBVIOUS
      <4>2. o \in Buckets /\ m = [o EXCEPT !.ptrs = Append(@, v)]
        BY <1>7, <2>3, <2>4, <4>1
      <4>3. m.ptrs = Append(o.ptrs, v)
        BY <4>2 DEF Buckets
      <4> QED BY <4>1, <4>3
    <3>2. \A x \in B : x \in DOMAIN disk
      BY <1>7
    <3> QED BY <2>3, <2>6, <2>7, <2>8, <3>1, <3>2 DEF BucketFilled
  <2>18. BlockEntered(h, v)
    BY <1>3, <1>10, <2>2, <2>5, <2>16, <2>17 DEF BlockEntered, Roomy
  <2> QED BY <1>1, <1>2, <2>10, <2>15, <2>18 DEF TreeInv
<1>11. CASE v \notin Held(h) /\ Roomy(h) = {}
  <2>1. PICK z : z = LastOf(h)
    OBVIOUS
  <2>2. z \in B /\ disk[z].next = 0
    BY <1>8, <2>1 DEF LastOf
  <2>3. PICK m, c, d : /\ m = [disk[z] EXCEPT !.next = b] /\ c = Bucket(<<v>>, 0)
                       /\ d = [disk EXCEPT ![z] = m]
    OBVIOUS
  <2>4. disk' = With(d, b, c)
    BY <1>2, <1>3, <1>11, <2>1, <2>3 DEF BucketInsert
  <2>5. hdr' = [hdr EXCEPT !.numOfBlocks = @ + 1, !.numOfPtrBucket = @ + 1]
    BY <1>3, <1>11 DEF BucketGrows
  <2>6. m \in Buckets /\ m.type = "B" /\ m.next = b /\ m.ptrs = disk[z].ptrs
    <3>1. PICK o : o = disk[z]
      OBVIOUS
    <3>2. o \in Buckets /\ m = LinkedTo(o, b)
      BY <1>7, <2>2, <2>3, <3>1 DEF LinkedTo
    <3>3. m \in Buckets /\ m.type = "B" /\ m.next = b /\ m.ptrs = o.ptrs
      <4>1. b \in Nat
        BY <1>7
      <4> QED BY ONLY <3>2, <4>1, BucketLinked
    <3> QED BY <3>1, <3>3
  <2>7. c \in Buckets /\ c.type = "B" /\ Len(c.ptrs) \in 1 .. BucketCap /\ c.next = 0
    BY <1>5, <2>3, NewBucket
  <2>8. /\ DOMAIN disk' = DOMAIN disk \cup {b} /\ disk'[z] = m /\ disk'[b] = c
        /\ \A x \in DOMAIN disk : x # z => disk'[x] = disk[x]
    <3>1. DOMAIN d = DOMAIN disk /\ d[z] = m /\ \A x \in DOMAIN disk : x # z => d[x] = disk[x]
      BY <1>7, <2>2, <2>3
    <3>2. disk' = [x \in DOMAIN d \cup {b} |-> IF x = b THEN c ELSE d[x]]
      BY <2>4 DEF With
    <3>3. z # b /\ z \in DOMAIN disk /\ \A x \in DOMAIN disk : x # b
      BY <1>7, <2>2
    <3> QED BY <3>1, <3>2, <3>3
  <2>9. L' = L /\ I' = I /\ B' = B \cup {b} /\ Nodes' = Nodes
    <3>1. disk[z].type = "B" /\ z \in DOMAIN disk
      BY <2>2 DEF B, OfType
    <3>2. \A x \in DOMAIN disk : disk'[x].type = disk[x].type
      BY <2>6, <2>8, <3>1
    <3>3. L' = L /\ I' = I /\ B' = B \cup {b}
      BY <1>7, <2>7, <2>8, <3>2 DEF L, I, B, OfType
    <3> QED BY <3>3 DEF Nodes
  <2>10. \A x \in Nodes : disk'[x] = disk[x]
    <3>1. \A x \in Nodes : x # z
      BY <1>7, <2>2 DEF B, OfType
    <3> QED BY <1>7, <2>8, <3>1
  <2>11. /\ hdr' \in Headers /\ hdr'.root = hdr.root /\ hdr'.duplicate = hdr.duplicate
         /\ hdr'.numOfBlocks = b + 1 /\ hdr'.numOfInterNodes = hdr.numOfInterNodes
         /\ hdr'.numOfLeafNodes = hdr.numOfLeafNodes
         /\ hdr'.numOfPtrBucket = hdr.numOfPtrBucket + 1
    <3>1. PICK e, f, g : e = hdr.numOfBlocks + 1 /\ f = hdr.numOfPtrBucket + 1
                         /\ g = [hdr EXCEPT !.numOfBlocks = e]
      OBVIOUS
    <3>2. hdr' = [g EXCEPT !.numOfPtrBucket = f] /\ e \in Nat /\ f \in Nat
      BY <1>4, <2>5, <3>1 DEF Headers
    <3>3. g \in Headers /\ g.root = hdr.root /\ g.duplicate = hdr.duplicate
          /\ g.numOfBlocks = e /\ g.numOfInterNodes = hdr.numOfInterNodes
          /\ g.numOfLeafNodes = hdr.numOfLeafNodes
      BY <1>4, <3>1, <3>2 DEF Headers
    <3>4. hdr' \in Headers /\ hdr'.root = g.root /\ hdr'.duplicate = g.duplicate
          /\ hdr'.numOfBlocks = g.numOfBlocks /\ hdr'.numOfInterNodes = g.numOfInterNodes
          /\ hdr'.numOfLeafNodes = g.numOfLeafNodes /\ hdr'.numOfPtrBucket = f
      BY <3>2, <3>3 DEF Headers
    <3> QED BY <1>2, <3>1, <3>3, <3>4
  <2>12. /\ RangeInv(lo, hi, ht, pos)' /\ HalfFull'
         /\ \A x \in Nodes' : KeysOK(disk'[x]) /\ disk'[x].parent \in DOMAIN disk'
    <3>1. DOMAIN disk \subseteq DOMAIN disk'
      BY <2>8
    <3> QED BY <1>1, <1>3, <1>5, <2>9, <2>10, <2>11, <3>1, BucketsRewritten
  <2>13. HeaderOK'
    <3>1. hdr'.numOfBlocks # 0
      BY <1>7, <2>11
    <3> QED BY <1>3, <1>4, <1>5, <2>11, <3>1 DEF HeaderOK
  <2>14. FileOK'
    <3>1. DOMAIN disk' = 1 .. hdr'.numOfBlocks - 1
      BY <1>7, <2>8, <2>11
    <3>2. \A x \in DOMAIN disk' : disk'[x] \in Leaves \cup Inners \cup Buckets
      BY <1>4, <2>6, <2>7, <2>8 DEF FileOK
    <3>3. IF hdr'.root = 0 THEN DOMAIN disk' = {} ELSE hdr'.root \in Nodes'
      <4>1. hdr.root # 0
        BY <1>1, <1>5 DEF RangeInv, CallOK
      <4> QED BY <1>4, <2>9, <2>11, <4>1 DEF FileOK
    <3> QED BY <2>12, <3>1, <3>2, <3>3 DEF FileOK
  <2>15. BucketsOK'
    <3>1. ASSUME NEW x \in B'
          PROVE  /\ Len(disk'[x].ptrs) \in 1 .. BucketCap
                 /\ disk'[x].next # 0 => disk'[x].next \in B' /\ disk'[x].next > x
      <4>1. CASE x = b
        BY <2>7, <2>8, <4>1
      <4>2. CASE x = z
        BY <1>4, <1>7, <2>2, <2>6, <2>8, <2>9, <4>2 DEF BucketsOK
      <4>3. CASE x # z /\ x # b
        BY <1>4, <1>7, <2>8, <2>9, <4>3 DEF BucketsOK
      <4> QED BY <4>1, <4>2, <4>3
    <3>2. \A x \in L : \A i \in 1 .. disk'[x].size : disk'[x].ptrs[i] \in B'
      BY <1>3, <1>4, <2>9, <2>10 DEF BucketsOK, Nodes
    <3> QED BY <2>9, <3>1, <3>2 DEF BucketsOK
  <2>16. Counted'
    <3>1. b \notin B
      BY <1>7
    <3>2. IsFiniteSet(B') /\ Cardinality(B') = hdr.numOfPtrBucket + 1
      BY <1>4, <2>9, <3>1, OneMore DEF Counted, Headers
    <3> QED BY <1>4, <2>9, <2>11, <3>2 DEF Counted
  <2>17. FileInv'
    BY <2>12, <2>13, <2>14, <2>15, <2>16 DEF FileInv
  <2>18. \A k, p : Filed(k, p)' <=> Filed(k, p)
    BY <2>9, <2>10, EntriesSame DEF Nodes
  <2>19. BucketAdded(z, v, b)
    BY <1>7, <2>2, <2>3, <2>6, <2>8, <2>9 DEF BucketAdded
  <2>20. z \in ChainFrom(h)
    BY <1>8, <2>1 DEF LastOf
  <2>21. BlockEntered(h, v)
    BY <1>3, <1>7, <1>11, <2>11, <2>18, <2>19, <2>20 DEF BlockEntered
  <2> QED BY <1>1, <1>2, <2>12, <2>17, <2>21 DEF TreeInv
<1> QED
  BY <1>2, <1>9, <1>10, <1>11

LEMMA InsertFirstKeeps ==
    ASSUME NoNil, TreeInv, NEW k \in Keys, NEW w \in Vals, InsertFirst(k, w)
    PROVE  TreeInv' /\ KeyEntered(k, w, 2)
<1>1. PICK n, v, d : /\ v = Pointer(w, 2) /\ n = LeafNode(1, 0, <<k>>, <<v>>)
                     /\ d = With(disk, 1, n)
  OBVIOUS
<1>2. /\ pc = "idle" /\ open /\ hdr.root = 0 /\ disk' = WithBucket(d, w, 2)
      /\ hdr' = [Allocated(1) EXCEPT !.root = 1]
      /\ pc' = "idle" /\ dhdr' = dhdr /\ open' = open
  BY <1>1 DEF InsertFirst, Return
<1>3. FileInv /\ HeaderOK /\ FileOK /\ Counted /\ hdr \in Headers
  BY DEF TreeInv, FileInv, HeaderOK
<1>4. /\ DOMAIN disk = {} /\ hdr.numOfBlocks = 1 /\ hdr.duplicate \in {"Y", "N"}
      /\ hdr.duplicate = dhdr.duplicate
  <2>1. hdr.duplicate \in {"Y", "N"} /\ hdr.numOfBlocks # 0 /\ hdr.numOfBlocks \in Nat
        /\ hdr.duplicate = dhdr.duplicate
    BY <1>2, <1>3 DEF HeaderOK, Headers
  <2>2. DOMAIN disk = {} /\ 1 .. hdr.numOfBlocks - 1 = {}
    BY <1>2, <1>3 DEF FileOK
  <2>3. 1 \notin 1 .. hdr.numOfBlocks - 1
    BY <2>2
  <2> QED BY <2>1, <2>2, <2>3
<1>5. k \in Nat /\ k < NilKey /\ NilKey \in Nat /\ w \in Nat /\ v \in Nat
  <2>1. k \in Nat /\ k <= NilKey /\ NilKey \in Nat /\ k # NilKey
    BY KeyFacts DEF NoNil
  <2>2. w \in Nat
    BY TreeAssumption
  <2>3. v \in Nat
    BY <1>1, <2>2 DEF Pointer
  <2> QED BY <2>1, <2>2, <2>3
<1>6. /\ n \in Leaves /\ KeysOK(n) /\ n.type = "L" /\ n.size = 1 /\ n.parent = 1 /\ n.next = 0
      /\ n.keys[1] = k /\ n.ptrs[1] = v
  <2>1. PICK a, b, o : a = <<k>> /\ b = <<v>> /\ o = 1
    OBVIOUS
  <2>2. a \in [1 .. o -> Cells] /\ a[1] = k /\ o \in 1 .. Cap
    BY <1>5, <2>1, TreeAssumption DEF Cells
  <2>3. b \in [1 .. o -> Nat] /\ b[1] = v /\ o \in Nat
    BY <1>5, <2>1
  <2>4. KeyList(o, a) /\ PtrList(o, b)
    BY <1>5, <2>1, <2>2, <2>3 DEF KeyList, PtrList
  <2>5. n = LeafNode(o, 0, a, b) /\ 0 \in Nat
    BY <1>1, <2>1
  <2>6. IsLeaf(n, o, o, 0, a, b)
    BY <2>3, <2>4, <2>5, LeafNodeFacts
  <2> QED BY <2>1, <2>2, <2>3, <2>6 DEF IsLeaf
<1>7. /\ hdr' \in Headers /\ hdr'.root = 1 /\ hdr'.duplicate = hdr.duplicate
      /\ hdr'.numOfBlocks = 2 + Buckets1
      /\ hdr'.numOfInterNodes = hdr.numOfInterNodes
      /\ hdr'.numOfLeafNodes = hdr.numOfLeafNodes + 1
      /\ hdr'.numOfPtrBucket = hdr.numOfPtrBucket + Buckets1
  <2>1. PICK g : g = Allocated(1)
    OBVIOUS
  <2>2. /\ g \in Headers
        /\ g.duplicate = hdr.duplicate
        /\ g.numOfBlocks = hdr.numOfBlocks + 1 + Buckets1
        /\ g.numOfInterNodes = hdr.numOfInterNodes
        /\ g.numOfLeafNodes = hdr.numOfLeafNodes + 1
        /\ g.numOfPtrBucket = hdr.numOfPtrBucket + Buckets1
    BY <1>3, <2>1, AllocatedIs
  <2>3. hdr' = [g EXCEPT !.root = 1]
    BY <1>2, <2>1
  <2>4. /\ hdr' \in Headers /\ hdr'.root = 1 /\ hdr'.duplicate = g.duplicate
        /\ hdr'.numOfBlocks = g.numOfBlocks /\ hdr'.numOfInterNodes = g.numOfInterNodes
        /\ hdr'.numOfLeafNodes = g.numOfLeafNodes /\ hdr'.numOfPtrBucket = g.numOfPtrBucket
    BY <2>2, <2>3 DEF Headers
  <2>5. hdr.numOfBlocks + 1 + Buckets1 = 2 + Buckets1
    BY <1>4 DEF Buckets1
  <2> QED BY <2>2, <2>4, <2>5
<1>8. d = [x \in {1} |-> n]
  BY <1>1, <1>4 DEF With
<1>9. /\ hdr.duplicate = "N" => DOMAIN disk' = {1}
      /\ hdr.duplicate = "Y" => DOMAIN disk' = {1, 2} /\ disk'[2] = Bucket(<<w>>, 0)
      /\ disk'[1] = n
  <2>1. disk' = IF hdr.duplicate = "N" THEN d
                ELSE [x \in DOMAIN d \cup {2} |-> IF x = 2 THEN Bucket(<<w>>, 0) ELSE d[x]]
    BY <1>2 DEF WithBucket, With
  <2> QED BY <1>4, <1>8, <2>1
<1>10. hdr.duplicate = "Y" =>
         /\ disk'[2] \in Buckets /\ disk'[2].type = "B"
         /\ Len(disk'[2].ptrs) \in 1 .. BucketCap /\ disk'[2].next = 0
  <2>1. PICK c : c = Bucket(<<w>>, 0)
    OBVIOUS
  <2> QED BY <1>5, <1>9, <2>1, NewBucket
<1>11. /\ L' = {1} /\ I' = {} /\ Nodes' = {1}
       /\ hdr.duplicate = "N" => B' = {}
       /\ hdr.duplicate = "Y" => B' = {2}
  <2>1. CASE hdr.duplicate = "N"
    BY <1>6, <1>9, <2>1 DEF L, I, B, OfType, Nodes
  <2>2. CASE hdr.duplicate = "Y"
    BY <1>6, <1>9, <1>10, <2>2 DEF L, I, B, OfType, Nodes
  <2> QED BY <1>4, <2>1, <2>2
<1>12. L = {} /\ I = {} /\ B = {}
  BY <1>4 DEF L, I, B, OfType
<1>13. HeaderOK'
  <2>1. hdr'.numOfBlocks # 0
    BY <1>7 DEF Buckets1
  <2> QED BY <1>2, <1>3, <1>4, <1>7, <2>1 DEF HeaderOK
<1>14. FileOK'
  <2>1. DOMAIN disk' = 1 .. hdr'.numOfBlocks - 1
    <3>1. 1 .. 2 - 1 = {1} /\ 1 .. 3 - 1 = {1, 2}
      OBVIOUS
    <3>2. /\ hdr.duplicate = "N" => hdr'.numOfBlocks = 2
          /\ hdr.duplicate = "Y" => hdr'.numOfBlocks = 3
      BY <1>7 DEF Buckets1
    <3> QED BY <1>4, <1>9, <3>1, <3>2
  <2>2. \A x \in DOMAIN disk' : disk'[x] \in Leaves \cup Inners \cup Buckets
    BY <1>4, <1>6, <1>9, <1>10
  <2>3. 1 \in DOMAIN disk'
    BY <1>4, <1>9
  <2> QED BY <1>6, <1>7, <1>9, <1>11, <2>1, <2>2, <2>3 DEF FileOK
<1>15. BucketsOK'
  <2>1. hdr.duplicate = "Y" => v = 2
    BY <1>1 DEF Pointer
  <2>2. \A i \in 1 .. 1 : i = 1
    OBVIOUS
  <2>3. ASSUME hdr.duplicate = "Y" PROVE BucketsOK'
    BY <1>6, <1>7, <1>9, <1>10, <1>11, <2>1, <2>2, <2>3 DEF BucketsOK
  <2>4. ASSUME hdr.duplicate = "N" PROVE BucketsOK'
    BY <1>7, <1>11, <2>4 DEF BucketsOK
  <2> QED BY <1>4, <2>3, <2>4
<1>16. Counted'
  <2>1. hdr.numOfLeafNodes = 0 /\ hdr.numOfInterNodes = 0 /\ hdr.numOfPtrBucket = 0
    BY <1>3, <1>12, FS_EmptySet DEF Counted
  <2>2. IsFiniteSet({1}) /\ Cardinality({1}) = 1 /\ IsFiniteSet({2}) /\ Cardinality({2}) = 1
    BY FS_Singleton
  <2>3. IsFiniteSet({}) /\ Cardinality({}) = 0
    BY FS_EmptySet
  <2>4. /\ hdr'.numOfLeafNodes = 1 /\ hdr'.numOfInterNodes = 0
        /\ hdr.duplicate = "N" => hdr'.numOfPtrBucket = 0
        /\ hdr.duplicate = "Y" => hdr'.numOfPtrBucket = 1
    BY <1>7, <2>1 DEF Buckets1
  <2> QED BY <1>4, <1>11, <2>2, <2>3, <2>4 DEF Counted
<1>17. HalfFull'
  BY <1>2, <1>7, <1>11 DEF HalfFull, Pending
<1>18. PICK z, y : z = [x \in Nat |-> 0] /\ y = [x \in Nat |-> NilKey]
  OBVIOUS
<1>19. z \in Ghosts /\ y \in Ghosts /\ z[1] = 0 /\ y[1] = NilKey
  BY <1>5, <1>18 DEF Ghosts
<1>20. /\ ~Pending' /\ \A x : Sib(x)' = x
       /\ \A i \in 1 .. 1 : i = 1
  BY <1>2 DEF Sib, Pending
<1>21. Bounded(z, y)'
  BY <1>5, <1>6, <1>7, <1>9, <1>11, <1>19, <1>20 DEF Bounded
<1>22. Linked(z)'
  <2>1. 0 <= hdr'.numOfInterNodes
    BY <1>7 DEF Headers
  <2> QED BY <1>7, <1>11, <1>19, <2>1 DEF Linked
<1>23. Chained(z, y, z)'
  <2>1. 0 < hdr'.numOfLeafNodes
    BY <1>3, <1>7 DEF Headers
  <2> QED BY <1>6, <1>7, <1>9, <1>11, <1>19, <2>1 DEF Chained
<1>24. CallOK(z, y, z)'
  BY <1>2 DEF CallOK
<1>25. FileInv' /\ RangeInv(z, y, z, z)'
  BY <1>13, <1>14, <1>15, <1>16, <1>17, <1>21, <1>22, <1>23, <1>24 DEF FileInv, RangeInv
<1>26. ASSUME NEW j, NEW p
       PROVE  Filed(j, p)' <=> Filed(j, p) \/ (j = k /\ p = v)
  <2>1. ~Filed(j, p)
    BY <1>4 DEF Filed, L, OfType
  <2>2. Filed(j, p)' <=> \E i \in 1 .. 1 : n.keys[i] = j /\ n.ptrs[i] = p
    BY <1>6, <1>9, <1>11 DEF Filed
  <2>3. 1 \in 1 .. 1
    OBVIOUS
  <2> QED BY <1>6, <1>20, <2>1, <2>2, <2>3
<1>27. KeyEntered(k, w, 2)
  <2>1. B = {}
    BY <1>4 DEF B, OfType
  <2> QED BY <1>1, <1>4, <1>7, <1>9, <1>11, <1>26, <2>1 DEF KeyEntered
<1> QED
  BY <1>19, <1>25, <1>27 DEF TreeInv

-------------------------------------------------------------------------------
(* The split of a leaf. *)

LEMMA SplitLeafKeeps ==
    ASSUME TreeInv, SplitLeaf
    PROVE  TreeInv' /\ KeyEntered(call.key, call.val, hdr.numOfBlocks + 1)
<1>1. PICK lo \in Ghosts, hi \in Ghosts, ht \in Ghosts, pos \in Ghosts :
         RangeInv(lo, hi, ht, pos)
  BY DEF TreeInv
<1>2. PICK n, k, q, new, b, w, v, l, r, e, d, a, mid :
        /\ n = disk[at] /\ k = call.key /\ q = Above(n, k) /\ new = hdr.numOfBlocks
        /\ b = new + 1 /\ w = call.val /\ v = Pointer(w, b) /\ a = at
        /\ l = LeafLeft(n, q, k, v, new) /\ r = LeafRight(n, q, k, v)
        /\ e = [disk EXCEPT ![at] = l] /\ d = With(e, new, r) /\ mid = r.keys[1]
  OBVIOUS
<1>3. /\ NewKey /\ n.size = Cap /\ disk' = WithBucket(d, w, b) /\ hdr' = Allocated(1)
      /\ pc' = "parent" /\ dhdr' = dhdr /\ open' = open
      /\ up' = [left |-> a, key |-> mid, right |-> new]
  BY <1>2 DEF SplitLeaf, LeafLeft, LeafRight, KeySlice, PtrSlice
<1>4. FileInv /\ HeaderOK /\ FileOK /\ BucketsOK /\ Counted /\ HalfFull /\ hdr \in Headers
  BY DEF TreeInv, FileInv, HeaderOK
<1>5. /\ a \in L /\ n \in Leaves /\ KeysOK(n) /\ a \in Nat
      /\ Fits(n, q, k) /\ q \in 1 .. n.size + 1 /\ k \in Nat /\ w \in Nat
      /\ lo[a] <= k /\ k < hi[a]
      /\ pc = "find" /\ ~Pending /\ open /\ hdr.root # 0 /\ hdr.duplicate \in {"Y", "N"}
  BY <1>1, <1>2, <1>3, <1>4, NewKeyFits
<1>6. /\ DOMAIN disk = 1 .. new - 1 /\ new \in Nat /\ new # 0 /\ new \notin DOMAIN disk
      /\ b \notin DOMAIN disk /\ b \in Nat /\ b # new
      /\ a \in DOMAIN disk /\ n.size \in Nat /\ 1 <= n.size
  <2>1. DOMAIN disk = 1 .. new - 1 /\ new \in Nat
    BY <1>2, <1>4 DEF FileOK, Headers
  <2>2. a \in DOMAIN disk
    BY <1>4, <1>5, Kinds
  <2>3. n.size \in Nat /\ 1 <= n.size
    BY <1>5, NodeFacts
  <2>4. b = new + 1
    BY <1>2
  <2> QED BY <2>1, <2>2, <2>3, <2>4
<1>7. v \in Nat
  BY <1>2, <1>5, <1>6 DEF Pointer
<1>8. /\ l \in Leaves /\ KeysOK(l)
      /\ l.type = "L" /\ l.size = Half /\ l.parent = n.parent /\ l.next = new
      /\ \A j \in 1 .. Half : /\ l.keys[j] = WideKey(n, q, k, j)
                              /\ l.ptrs[j] = WidePtr(n, q, v, j)
      /\ r \in Leaves /\ KeysOK(r)
      /\ r.type = "L" /\ r.size = Cap + 1 - Half /\ r.parent = n.parent /\ r.next = n.next
      /\ \A j \in 1 .. Cap + 1 - Half : /\ r.keys[j] = WideKey(n, q, k, Half + j)
                                        /\ r.ptrs[j] = WidePtr(n, q, v, Half + j)
  BY <1>2, <1>3, <1>5, <1>6, <1>7, LeafHalves
<1>9. /\ hdr' \in Headers /\ hdr'.root = hdr.root /\ hdr'.duplicate = hdr.duplicate
      /\ hdr'.numOfBlocks = b + Buckets1
      /\ hdr'.numOfInterNodes = hdr.numOfInterNodes
      /\ hdr'.numOfLeafNodes = hdr.numOfLeafNodes + 1
      /\ hdr'.numOfPtrBucket = hdr.numOfPtrBucket + Buckets1
  <2>1. PICK z : z = 1
    OBVIOUS
  <2>2. /\ hdr' \in Headers /\ hdr'.root = hdr.root /\ hdr'.duplicate = hdr.duplicate
        /\ hdr'.numOfBlocks = hdr.numOfBlocks + z + Buckets1
        /\ hdr'.numOfInterNodes = hdr.numOfInterNodes
        /\ hdr'.numOfLeafNodes = hdr.numOfLeafNodes + z
        /\ hdr'.numOfPtrBucket = hdr.numOfPtrBucket + Buckets1
    BY <1>3, <1>4, <2>1, AllocatedIs
  <2> QED BY <1>2, <2>1, <2>2
<1>10. /\ DOMAIN d = DOMAIN disk \cup {new} /\ d[a] = l /\ d[new] = r
       /\ \A x \in DOMAIN disk : x # a => d[x] = disk[x]
  <2>1. DOMAIN e = DOMAIN disk /\ e[a] = l /\ \A x \in DOMAIN disk : x # a => e[x] = disk[x]
    BY <1>2, <1>6
  <2>2. d = [x \in DOMAIN e \cup {new} |-> IF x = new THEN r ELSE e[x]]
    BY <1>2 DEF With
  <2>3. \A x \in DOMAIN disk : x # new
    BY <1>6
  <2> QED BY <1>6, <2>1, <2>2, <2>3
<1>11. /\ hdr.duplicate = "N" => DOMAIN disk' = DOMAIN disk \cup {new}
       /\ hdr.duplicate # "N" => DOMAIN disk' = DOMAIN disk \cup {new, b}
       /\ \A x \in DOMAIN d : disk'[x] = d[x]
       /\ hdr.duplicate # "N" => disk'[b] = Bucket(<<w>>, 0)
  <2>1. b \notin DOMAIN d
    BY <1>6, <1>10
  <2>2. disk' = IF hdr.duplicate = "N" THEN d
                ELSE [x \in DOMAIN d \cup {b} |-> IF x = b THEN Bucket(<<w>>, 0) ELSE d[x]]
    BY <1>3 DEF WithBucket, With
  <2>3. CASE hdr.duplicate = "N"
    BY <1>10, <2>2, <2>3
  <2>4. CASE hdr.duplicate # "N"
    BY <1>10, <2>1, <2>2, <2>4
  <2> QED BY <2>3, <2>4
<1>12. /\ disk'[a] = l /\ disk'[new] = r
       /\ \A x \in DOMAIN disk : x # a => disk'[x] = disk[x]
  BY <1>6, <1>10, <1>11
<1>13. hdr.duplicate # "N" =>
         /\ disk'[b] \in Buckets /\ disk'[b].type = "B"
         /\ Len(disk'[b].ptrs) \in 1 .. BucketCap /\ disk'[b].next = 0
  <2>1. PICK c : c = Bucket(<<w>>, 0)
    OBVIOUS
  <2> QED BY <1>5, <1>11, <2>1, NewBucket
<1>14. /\ L' = L \cup {new} /\ I' = I /\ Nodes' = Nodes \cup {new}
       /\ hdr.duplicate = "N" => B' = B
       /\ hdr.duplicate # "N" => B' = B \cup {b}
  <2>1. n.type = "L"
    BY <1>5 DEF Leaves
  <2>2. \A x \in DOMAIN disk : disk'[x].type = disk[x].type
    BY <1>2, <1>8, <1>12, <2>1
  <2>3. disk'[new].type = "L"
    BY <1>8, <1>12
  <2>4. L' = L \cup {new} /\ I' = I
    BY <1>6, <1>11, <1>13, <2>2, <2>3 DEF L, I, OfType
  <2>5. /\ hdr.duplicate = "N" => B' = B
        /\ hdr.duplicate # "N" => B' = B \cup {b}
    BY <1>6, <1>11, <1>13, <2>2, <2>3 DEF B, OfType
  <2> QED BY <2>4, <2>5 DEF Nodes
\* The wide keys are in order and in the range of the leaf.
<1>15. /\ \A j \in 1 .. Cap + 1 : WideKey(n, q, k, j) \in Nat
       /\ \A i, j \in 1 .. Cap + 1 : i < j => WideKey(n, q, k, i) < WideKey(n, q, k, j)
       /\ \A j \in 1 .. Cap + 1 : lo[a] <= WideKey(n, q, k, j) /\ WideKey(n, q, k, j) < hi[a]
  <2>1. n \in Leaves \cup Inners
    BY <1>5
  <2>2. \A i \in 1 .. n.size : lo[a] <= n.keys[i] /\ n.keys[i] < hi[a]
    BY <1>1, <1>2, <1>5 DEF RangeInv, Bounded, Nodes
  <2>3. \A j \in 1 .. n.size + 1 : lo[a] <= WideKey(n, q, k, j) /\ WideKey(n, q, k, j) < hi[a]
    BY <1>5, <1>6, <2>2, WideKeyWithin
  <2>4. /\ \A j \in 1 .. n.size + 1 : WideKey(n, q, k, j) \in Nat
        /\ \A i, j \in 1 .. n.size + 1 : i < j => WideKey(n, q, k, i) < WideKey(n, q, k, j)
    BY <1>5, <2>1, WideKeys
  <2> QED BY <1>3, <2>3, <2>4
<1>16. /\ Half \in Nat /\ 1 <= Half /\ Half <= Cap /\ Cap \in Nat
       /\ \A j \in 1 .. Half : j \in 1 .. Cap + 1 /\ j < Half + 1
       /\ \A j \in 1 .. Cap + 1 - Half : Half + j \in 1 .. Cap + 1 /\ (j = 1 \/ Half + 1 < Half + j)
       /\ Half + 1 \in 1 .. Cap + 1 /\ 1 \in 1 .. Cap + 1 - Half
  BY HalfFacts
<1>17. mid = WideKey(n, q, k, Half + 1) /\ mid \in Nat /\ lo[a] <= mid /\ mid < hi[a]
  BY <1>2, <1>8, <1>15, <1>16
<1>18. /\ \A j \in 1 .. Half : lo[a] <= l.keys[j] /\ l.keys[j] < mid
       /\ \A j \in 1 .. Cap + 1 - Half : mid <= r.keys[j] /\ r.keys[j] < hi[a]
  <2>1. \A j \in 1 .. Half : lo[a] <= l.keys[j] /\ l.keys[j] < mid
    BY <1>8, <1>15, <1>16, <1>17
  <2>2. ASSUME NEW j \in 1 .. Cap + 1 - Half PROVE mid <= r.keys[j] /\ r.keys[j] < hi[a]
    BY <1>8, <1>15, <1>16, <1>17
  <2> QED BY <2>1, <2>2
<1>19. PICK lo2, hi2, ht2, pos2 :
         /\ lo2 = [x \in Nat |-> IF x = new THEN mid ELSE lo[x]]
         /\ hi2 = [x \in Nat |-> IF x = a THEN mid ELSE IF x = new THEN hi[a] ELSE hi[x]]
         /\ ht2 = [x \in Nat |-> IF x = new THEN 0 ELSE ht[x]]
         /\ pos2 = [x \in Nat |-> IF x = new THEN pos[a] + 1
                                  ELSE IF pos[x] > pos[a] THEN pos[x] + 1 ELSE pos[x]]
  OBVIOUS
<1>20. /\ \A x \in Nat : lo[x] \in Nat /\ hi[x] \in Nat /\ ht[x] \in Nat /\ pos[x] \in Nat
       /\ lo2 \in Ghosts /\ hi2 \in Ghosts /\ ht2 \in Ghosts /\ pos2 \in Ghosts
  <2>1. \A x \in Nat : lo[x] \in Nat /\ hi[x] \in Nat /\ ht[x] \in Nat /\ pos[x] \in Nat
    BY DEF Ghosts
  <2> QED BY <1>5, <1>17, <1>19, <2>1 DEF Ghosts
<1>21. /\ \A x \in Nodes : x \in Nat /\ x # new /\ x # 0 /\ x \in DOMAIN disk
       /\ \A x \in Nodes : lo2[x] = lo[x] /\ ht2[x] = ht[x]
       /\ \A x \in Nodes : x # a => hi2[x] = hi[x] /\ disk'[x] = disk[x]
       /\ lo2[new] = mid /\ hi2[new] = hi[a] /\ hi2[a] = mid /\ ht2[new] = 0
       /\ a \in Nodes /\ a # new
  <2>1. \A x \in Nodes : x \in Nat /\ x # new /\ x # 0 /\ x \in DOMAIN disk
    BY <1>4, <1>6, Kinds
  <2>2. a \in Nodes
    BY <1>5 DEF Nodes
  <2> QED BY <1>5, <1>6, <1>12, <1>19, <2>1, <2>2
<1>22. /\ Pending' /\ \A x : x # a => Sib(x)' = x
       /\ Sib(a)' = new /\ \A x : Unlinked(x)' <=> x = new
       /\ \A x : Sib(x) = x /\ ~Unlinked(x)
  BY <1>3, <1>5 DEF Sib, Unlinked, Pending

\* A node above the leaves keeps its pointers.
<1>23. ASSUME NEW p \in I
       PROVE  /\ p \in Nodes /\ p # a /\ disk'[p] = disk[p]
              /\ disk[p].size \in Nat /\ disk[p].size <= Cap
              /\ \A j \in 1 .. disk[p].size + 1 : j \in 1 .. Cap + 1
  <2>1. p \in Nodes /\ p # a /\ disk[p] \in Leaves \cup Inners /\ KeysOK(disk[p])
    BY <1>4, <1>5, Kinds DEF L, I, OfType
  <2>2. disk[p].size \in Nat /\ disk[p].size <= Cap /\ Cap \in Nat
    BY <2>1, NodeFacts
  <2> QED BY <1>21, <2>1, <2>2
<1>24. Bounded(lo2, hi2)'
  <2>0. PICK root : root = hdr.root
    OBVIOUS
  <2>1. hdr'.root = root /\ lo2[root] = 0 /\ hi2[Sib(root)'] = NilKey
    <3>1. root \in Nodes /\ lo[root] = 0 /\ hi[root] = NilKey /\ hdr'.root = root
      BY <1>1, <1>4, <1>5, <1>9, <1>22, <2>0 DEF RangeInv, Bounded, FileOK
    <3>2. CASE root = a
      BY <1>21, <1>22, <3>1, <3>2
    <3>3. CASE root # a
      BY <1>21, <1>22, <3>1, <3>3
    <3> QED BY <3>1, <3>2, <3>3
  <2>2. ASSUME NEW x \in Nodes', NEW i \in 1 .. disk'[x].size
        PROVE  lo2[x] <= disk'[x].keys[i] /\ disk'[x].keys[i] < hi2[x]
    <3>1. CASE x = a
      BY <1>8, <1>12, <1>18, <1>21, <3>1
    <3>2. CASE x = new
      BY <1>8, <1>12, <1>18, <1>21, <3>2
    <3>3. CASE x # a /\ x # new
      <4>1. x \in Nodes /\ disk'[x] = disk[x] /\ lo2[x] = lo[x] /\ hi2[x] = hi[x]
        BY <1>14, <1>21, <3>3
      <4> QED BY <1>1, <4>1 DEF RangeInv, Bounded
    <3> QED BY <3>1, <3>2, <3>3
  <2>3. ASSUME NEW x \in Nodes' PROVE hi2[x] <= NilKey
    <3>1. \A y \in Nodes : hi[y] <= NilKey
      BY <1>1 DEF RangeInv, Bounded
    <3>2. hi[a] <= NilKey /\ mid <= NilKey
      <4>1. hi[a] <= NilKey /\ hi[a] \in Nat /\ NilKey \in Nat
        BY <1>5, <1>20, <1>21, <3>1, KeyFacts
      <4> QED BY <1>17, <4>1
    <3> QED BY <1>14, <1>21, <3>1, <3>2
  <2>4. ASSUME NEW p \in I, NEW j \in 1 .. disk[p].size + 1, NEW c, c = disk[p].ptrs[j]
        PROVE  IF c = 0 THEN j = 1 /\ disk[p].keys[1] = lo2[p]
               ELSE /\ lo2[c] = IF j = 1 THEN lo2[p] ELSE disk[p].keys[j - 1]
                    /\ hi2[Sib(c)'] = IF j = disk[p].size + 1 THEN hi2[p] ELSE disk[p].keys[j]
    <3>1. IF c = 0 THEN j = 1 /\ disk[p].keys[1] = lo[p]
          ELSE /\ lo[c] = IF j = 1 THEN lo[p] ELSE disk[p].keys[j - 1]
               /\ hi[c] = IF j = disk[p].size + 1 THEN hi[p] ELSE disk[p].keys[j]
      BY <1>1, <1>22, <2>4 DEF RangeInv, Bounded
    <3>2. lo2[p] = lo[p] /\ hi2[p] = hi[p]
      BY <1>21, <1>23
    <3>3. c # 0 => c \in Nodes
      BY <1>1, <1>23, <2>4 DEF RangeInv, Linked
    <3>4. c # 0 => lo2[c] = lo[c] /\ hi2[Sib(c)'] = hi[c]
      <4>1. CASE c = a
        BY <1>21, <1>22, <4>1
      <4>2. CASE c # a
        BY <1>21, <1>22, <3>3, <4>2
      <4> QED BY <4>1, <4>2
    <3> QED BY <3>1, <3>2, <3>4
  <2>5. \A p \in I : disk'[p] = disk[p]
    BY <1>23
  <2>6. \A p \in I' : \A j \in 1 .. disk'[p].size + 1 : \A c : c = disk'[p].ptrs[j] =>
          IF c = 0 THEN j = 1 /\ disk'[p].keys[1] = lo2[p]
          ELSE /\ lo2[c] = IF j = 1 THEN lo2[p] ELSE disk'[p].keys[j - 1]
               /\ hi2[Sib(c)'] = IF j = disk'[p].size + 1 THEN hi2[p] ELSE disk'[p].keys[j]
    BY <1>14, <2>4, <2>5
  <2> QED BY <1>9, <2>1, <2>2, <2>3, <2>6 DEF Bounded
<1>25. Linked(ht2)'
  <2>1. \A x \in L' : ht2[x] = 0
    <3>1. \A x \in L : x \in Nodes /\ ht[x] = 0
      BY <1>1 DEF RangeInv, Linked, Nodes
    <3> QED BY <1>14, <1>21, <3>1
  <2>2. ASSUME NEW p \in I, NEW j \in 1 .. Cap + 1, NEW c, c = disk[p].ptrs[j]
        PROVE  /\ j > disk[p].size + 1 => c = 0
               /\ c # 0 => /\ c \in Nodes' /\ disk'[c].parent = p /\ ht2[p] = ht2[c] + 1
                           /\ c # hdr'.root /\ ~Unlinked(c)'
    <3>1. /\ j > disk[p].size + 1 => c = 0
          /\ c # 0 => /\ c \in Nodes /\ disk[c].parent = p /\ ht[p] = ht[c] + 1
                      /\ c # hdr.root
      BY <1>1, <2>2 DEF RangeInv, Linked
    <3>2. c # 0 => disk'[c].parent = disk[c].parent
      BY <1>2, <1>8, <1>12, <1>21, <3>1
    <3> QED BY <1>9, <1>14, <1>21, <1>22, <1>23, <3>1, <3>2
  <2>3. ASSUME NEW c \in Nodes', c # hdr'.root, ~Unlinked(c)', NEW p, p = disk'[c].parent
        PROVE  p \in I /\ \E j \in 1 .. disk[p].size + 1 : disk[p].ptrs[j] = c
    <3>1. c \in Nodes /\ c # hdr.root
      BY <1>9, <1>14, <1>22, <2>3
    <3>2. p = disk[c].parent
      BY <1>2, <1>8, <1>12, <1>21, <2>3, <3>1
    <3> QED BY <1>1, <1>22, <3>1, <3>2 DEF RangeInv, Linked
  <2>4. ht2[hdr.root] <= hdr'.numOfInterNodes
    <3>1. hdr.root \in Nodes
      BY <1>4, <1>5 DEF FileOK
    <3> QED BY <1>1, <1>5, <1>9, <1>21, <3>1 DEF RangeInv, Linked
  <2>5. \A p \in I : disk'[p] = disk[p]
    BY <1>23
  <2>6. \A p \in I' : \A j \in 1 .. Cap + 1 : \A c : c = disk'[p].ptrs[j] =>
          /\ j > disk'[p].size + 1 => c = 0
          /\ c # 0 => /\ c \in Nodes' /\ disk'[c].parent = p /\ ht2[p] = ht2[c] + 1
                      /\ c # hdr'.root /\ ~Unlinked(c)'
    BY <1>14, <2>2, <2>5
  <2>7. \A c \in Nodes' : c # hdr'.root /\ ~Unlinked(c)' =>
          LET p == disk'[c].parent
          IN  p \in I' /\ \E j \in 1 .. disk'[p].size + 1 : disk'[p].ptrs[j] = c
    BY <1>14, <2>3, <2>5
  <2> QED BY <1>9, <2>1, <2>4, <2>6, <2>7 DEF Linked
<1>26. Chained(lo2, hi2, pos2)'
  <2>1. /\ 1 \in L /\ pos[1] = 0
        /\ \A x \in L : /\ pos[x] < hdr.numOfLeafNodes
                        /\ \A y \in L : pos[y] = pos[x] => y = x
                        /\ disk[x].next # 0 =>
                             /\ disk[x].next \in L
                             /\ pos[disk[x].next] = pos[x] + 1
                             /\ lo[disk[x].next] = hi[x]
                        /\ x # 1 => \E y \in L : disk[y].next = x
    BY <1>1, <1>5 DEF RangeInv, Chained
  <2>2. \A x \in L : x \in Nodes /\ x \in Nat /\ x # new
    BY <1>21 DEF Nodes
  <2>3. /\ pos2[new] = pos[a] + 1
        /\ \A x \in L : pos2[x] = IF pos[x] > pos[a] THEN pos[x] + 1 ELSE pos[x]
        /\ pos2[a] = pos[a]
    <3>1. pos[a] \in Nat
      BY <1>5, <1>20
    <3> QED BY <1>5, <1>6, <1>19, <2>2, <3>1
  <2>4. \A x \in L : pos[x] \in Nat
    BY <1>20, <2>2
  <2>5. 1 \in L' /\ pos2[1] = 0
    <3>1. ~(0 > pos[a])
      BY <1>5, <2>4
    <3> QED BY <1>14, <2>1, <2>3, <3>1
  <2>6. ASSUME NEW x \in L' PROVE pos2[x] < hdr'.numOfLeafNodes
    <3>1. hdr.numOfLeafNodes \in Nat
      BY <1>4 DEF Headers
    <3>2. pos[a] \in Nat /\ pos[a] < hdr.numOfLeafNodes
      BY <1>5, <2>1, <2>4
    <3>3. CASE x = new
      BY <1>9, <2>3, <3>1, <3>2, <3>3
    <3>4. CASE x \in L
      <4>1. pos[x] \in Nat /\ pos[x] < hdr.numOfLeafNodes
        BY <2>1, <2>4, <3>4
      <4>2. pos2[x] = pos[x] + 1 \/ pos2[x] = pos[x]
        BY <2>3, <3>4
      <4> QED BY <1>9, <3>1, <4>1, <4>2
    <3> QED BY <1>14, <3>3, <3>4
  <2>7. ASSUME NEW x \in L', NEW y \in L', pos2[x] = pos2[y] PROVE x = y
    <3>1. pos[a] \in Nat
      BY <1>5, <2>4
    <3>2. \A z \in L : pos2[z] # pos2[new]
      BY <2>3, <2>4, <3>1
    <3>3. CASE x \in L /\ y \in L
      <4>1. pos[x] \in Nat /\ pos[y] \in Nat
        BY <2>4, <3>3
      <4>2. pos[x] = pos[y]
        BY <2>3, <2>7, <3>1, <3>3, <4>1
      <4> QED BY <2>1, <3>3, <4>2
    <3> QED BY <1>14, <2>7, <3>2, <3>3
  <2>8. ASSUME NEW x \in L', disk'[x].next # 0
        PROVE  /\ disk'[x].next \in L' /\ pos2[disk'[x].next] = pos2[x] + 1
               /\ lo2[disk'[x].next] = hi2[x]
    <3>1. pos[a] \in Nat
      BY <1>5, <2>4
    <3>2. CASE x = a
      BY <1>8, <1>12, <1>14, <1>21, <2>3, <3>2
    <3>3. CASE x = new
      <4>1. PICK y : y = disk[a].next
        OBVIOUS
      <4>2. disk'[x].next = y /\ y # 0
        BY <1>2, <1>8, <1>12, <2>8, <3>3, <4>1
      <4>3. y \in L /\ pos[y] = pos[a] + 1 /\ lo[y] = hi[a]
        BY <1>5, <2>1, <4>1, <4>2
      <4>4. pos2[y] = pos[a] + 1 + 1
        BY <2>3, <3>1, <4>3
      <4> QED BY <1>14, <1>21, <2>2, <2>3, <3>3, <4>2, <4>3, <4>4
    <3>4. CASE x # a /\ x # new
      <4>1. PICK y : y = disk[x].next
        OBVIOUS
      <4>2. x \in L /\ disk'[x] = disk[x] /\ y # 0 /\ disk'[x].next = y
        BY <1>14, <1>21, <2>2, <2>8, <3>4, <4>1
      <4>3. y \in L /\ pos[y] = pos[x] + 1 /\ lo[y] = hi[x] /\ pos[x] # pos[a]
        BY <1>5, <2>1, <3>4, <4>1, <4>2
      <4>4. pos[x] \in Nat /\ pos[y] \in Nat
        BY <2>4, <4>2, <4>3
      <4>5. pos2[y] = pos2[x] + 1
        BY <2>3, <3>1, <4>2, <4>3, <4>4
      <4> QED BY <1>14, <1>21, <2>2, <3>4, <4>2, <4>3, <4>5
    <3> QED BY <3>2, <3>3, <3>4
  <2>9. ASSUME NEW x \in L', x # 1 PROVE \E y \in L' : disk'[y].next = x
    <3>1. CASE x = new
      BY <1>5, <1>8, <1>12, <1>14, <3>1
    <3>2. CASE x \in L
      <4>1. PICK y \in L : disk[y].next = x
        BY <2>1, <2>9, <3>2
      <4>2. CASE y = a
        BY <1>2, <1>8, <1>12, <1>14, <4>1, <4>2
      <4>3. CASE y # a
        BY <1>14, <1>21, <2>2, <4>1, <4>3
      <4> QED BY <4>2, <4>3
    <3> QED BY <1>14, <3>1, <3>2
  <2> QED BY <2>5, <2>6, <2>7, <2>8, <2>9 DEF Chained
<1>27. HeaderOK'
  <2>1. hdr'.numOfBlocks # 0
    BY <1>2, <1>6, <1>9 DEF Buckets1
  <2> QED BY <1>3, <1>4, <1>5, <1>9, <2>1 DEF HeaderOK
<1>28. FileOK'
  <2>1. DOMAIN disk' = 1 .. hdr'.numOfBlocks - 1
    <3>1. b = new + 1
      BY <1>2
    <3>2. CASE hdr.duplicate = "N"
      <4>1. hdr'.numOfBlocks - 1 = new
        BY <1>6, <1>9, <3>1, <3>2 DEF Buckets1
      <4>2. 1 .. new = (1 .. new - 1) \cup {new}
        BY <1>6
      <4> QED BY <1>6, <1>11, <3>2, <4>1, <4>2
    <3>3. CASE hdr.duplicate # "N"
      <4>1. hdr'.numOfBlocks - 1 = b
        BY <1>6, <1>9, <3>3 DEF Buckets1
      <4>2. 1 .. b = (1 .. new - 1) \cup {new, b}
        BY <1>6, <3>1
      <4> QED BY <1>6, <1>11, <3>3, <4>1, <4>2
    <3> QED BY <3>2, <3>3
  <2>2. \A x \in DOMAIN disk' : disk'[x] \in Leaves \cup Inners \cup Buckets
    BY <1>4, <1>8, <1>11, <1>12, <1>13 DEF FileOK
  <2>3. ASSUME NEW x \in Nodes' PROVE KeysOK(disk'[x]) /\ disk'[x].parent \in DOMAIN disk'
    <3>1. disk[a].parent \in DOMAIN disk'
      BY <1>4, <1>11, <1>21 DEF FileOK
    <3>2. CASE x = a \/ x = new
      BY <1>2, <1>8, <1>12, <3>1, <3>2
    <3>3. CASE x # a /\ x # new
      <4>1. x \in Nodes /\ disk'[x] = disk[x]
        BY <1>14, <1>21, <3>3
      <4> QED BY <1>4, <1>11, <4>1 DEF FileOK
    <3> QED BY <3>2, <3>3
  <2> QED BY <1>4, <1>5, <1>9, <1>14, <2>1, <2>2, <2>3 DEF FileOK
<1>29. BucketsOK'
  <2>1. ASSUME NEW c \in B'
        PROVE  /\ Len(disk'[c].ptrs) \in 1 .. BucketCap
               /\ disk'[c].next # 0 => disk'[c].next \in B' /\ disk'[c].next > c
    <3>1. CASE c \in B
      <4>1. c \in DOMAIN disk /\ c # a
        BY <1>5, <3>1 DEF L, B, OfType
      <4> QED BY <1>4, <1>12, <1>14, <3>1, <4>1 DEF BucketsOK
    <3>2. CASE c \notin B
      BY <1>13, <1>14, <3>2
    <3> QED BY <3>1, <3>2
  <2>2. ASSUME hdr.duplicate = "Y", NEW x \in L', NEW i \in 1 .. disk'[x].size
        PROVE  disk'[x].ptrs[i] \in B'
    <3>1. v \in B'
      BY <1>2, <1>14, <2>2 DEF Pointer
    <3>2. \A y \in L : \A j \in 1 .. disk[y].size : disk[y].ptrs[j] \in B'
      BY <1>4, <1>14, <2>2 DEF BucketsOK
    <3>3. \A j \in 1 .. Cap + 1 : WidePtr(n, q, v, j) \in B'
      BY <1>2, <1>3, <1>5, <1>6, <3>1, <3>2, WidePtrWithin
    <3>4. CASE x = a
      BY <1>8, <1>12, <1>16, <3>3, <3>4
    <3>5. CASE x = new
      BY <1>8, <1>12, <1>16, <3>3, <3>5
    <3>6. CASE x # a /\ x # new
      <4>1. x \in L /\ disk'[x] = disk[x]
        BY <1>14, <1>21, <3>6 DEF Nodes
      <4> QED BY <3>2, <4>1
    <3> QED BY <3>4, <3>5, <3>6
  <2> QED BY <1>9, <1>14, <2>1, <2>2 DEF BucketsOK
<1>30. Counted'
  <2>1. /\ hdr.numOfLeafNodes \in Nat /\ hdr.numOfPtrBucket \in Nat
        /\ new \notin L /\ b \notin B
    BY <1>4, <1>6 DEF Headers, L, B, OfType
  <2>2. IsFiniteSet(L') /\ Cardinality(L') = hdr'.numOfLeafNodes
    BY <1>4, <1>9, <1>14, <2>1, OneMore DEF Counted
  <2>3. IsFiniteSet(I') /\ Cardinality(I') = hdr'.numOfInterNodes
    BY <1>4, <1>9, <1>14 DEF Counted
  <2>4. IsFiniteSet(B') /\ Cardinality(B') = hdr'.numOfPtrBucket
    <3>1. CASE hdr.duplicate = "N"
      BY <1>4, <1>9, <1>14, <2>1, <3>1 DEF Counted, Buckets1
    <3>2. CASE hdr.duplicate # "N"
      BY <1>4, <1>9, <1>14, <2>1, <3>2, OneMore DEF Counted, Buckets1
    <3> QED BY <3>1, <3>2
  <2> QED BY <2>2, <2>3, <2>4 DEF Counted
<1>31. HalfFull'
  <2>1. ASSUME NEW x \in Nodes', x # hdr.root \/ x = a PROVE disk'[x].size >= Cap \div 2
    <3>1. CASE x = a \/ x = new
      BY <1>8, <1>12, <3>1, HalfFacts
    <3>2. CASE x # a /\ x # new
      <4>1. x \in Nodes /\ disk'[x] = disk[x]
        BY <1>14, <1>21, <3>2
      <4> QED BY <1>4, <2>1, <3>2, <4>1 DEF HalfFull
    <3> QED BY <3>1, <3>2
  <2>2. up'.left = a
    BY <1>3
  <2> QED BY <1>9, <2>1, <2>2 DEF HalfFull
<1>32. CallOK(lo2, hi2, ht2)'
  <2>1. a \in Nodes' /\ new \in Nodes' /\ a # new /\ new # hdr'.root
    <3>1. hdr.root \in Nodes
      BY <1>4, <1>5 DEF FileOK
    <3> QED BY <1>9, <1>14, <1>21, <3>1
  <2>2. disk'[a].parent = disk'[new].parent /\ ht2[a] = ht2[new]
    BY <1>1, <1>5, <1>8, <1>12, <1>21 DEF RangeInv, Linked
  <2>3. hdr'.root # 0 /\ open'
    BY <1>3, <1>5, <1>9
  <2>4. up'.left = a /\ up'.right = new /\ up'.key = mid
    BY <1>3
  <2> QED BY <1>3, <1>21, <2>1, <2>2, <2>3, <2>4 DEF CallOK
<1>33. FileInv' /\ RangeInv(lo2, hi2, ht2, pos2)'
  BY <1>24, <1>25, <1>26, <1>27, <1>28, <1>29, <1>30, <1>31, <1>32 DEF FileInv, RangeInv
<1>34. ASSUME NEW j, NEW p
       PROVE  Filed(j, p)' <=> Filed(j, p) \/ (j = k /\ p = v)
  <2> DEFINE Wide(i) == WideKey(n, q, k, i) = j /\ WidePtr(n, q, v, i) = p
  <2>1. (\E i \in 1 .. Cap + 1 : Wide(i))
        <=> (j = k /\ p = v) \/ \E i \in 1 .. n.size : n.keys[i] = j /\ n.ptrs[i] = p
    <3>1. WideFiled(n, q, k, v, j, p)
          <=> (j = k /\ p = v) \/ \E i \in 1 .. n.size : n.keys[i] = j /\ n.ptrs[i] = p
      BY <1>5, <1>6, WideEntries
    <3> QED BY <1>3, <3>1 DEF WideFiled
  <2>2. (\E i \in 1 .. l.size : l.keys[i] = j /\ l.ptrs[i] = p) <=> \E i \in 1 .. Half : Wide(i)
    BY <1>8
  <2>3. (\E i \in 1 .. r.size : r.keys[i] = j /\ r.ptrs[i] = p)
        <=> \E i \in 1 .. Cap + 1 - Half : Wide(Half + i)
    BY <1>8
  <2> HIDE DEF Wide
  <2>4. (\E i \in 1 .. Cap + 1 : Wide(i))
        <=> (\E i \in 1 .. Half : Wide(i)) \/ \E i \in 1 .. Cap + 1 - Half : Wide(Half + i)
    <3>1. ASSUME NEW i \in 1 .. Cap + 1, Wide(i), ~(i <= Half)
          PROVE  \E o \in 1 .. Cap + 1 - Half : Wide(Half + o)
      <4>1. PICK o : o = i - Half
        OBVIOUS
      <4>2. o \in 1 .. Cap + 1 - Half /\ Half + o = i
        BY <1>16, <3>1, <4>1
      <4> QED BY <3>1, <4>2
    <3>2. \A i \in 1 .. Cap + 1 : i <= Half => i \in 1 .. Half
      BY <1>16
    <3> QED BY <1>16, <3>1, <3>2
  <2>5. \A x \in L : x # a => disk'[x] = disk[x]
    BY <1>12 DEF L, OfType
  <2>6. /\ L' = L \cup {new} /\ disk'[a] = l /\ disk'[new] = r /\ disk[a] = n /\ a \in L
        /\ a # new /\ new \notin L
    BY <1>2, <1>5, <1>6, <1>12, <1>14 DEF L, OfType
  <2>7. Filed(j, p)' <=> \/ \E i \in 1 .. l.size : l.keys[i] = j /\ l.ptrs[i] = p
                         \/ \E i \in 1 .. r.size : r.keys[i] = j /\ r.ptrs[i] = p
                         \/ \E x \in L \ {a} : \E i \in 1 .. disk[x].size :
                               disk[x].keys[i] = j /\ disk[x].ptrs[i] = p
    BY <2>5, <2>6 DEF Filed
  <2>8. Filed(j, p) <=> \/ \E i \in 1 .. n.size : n.keys[i] = j /\ n.ptrs[i] = p
                        \/ \E x \in L \ {a} : \E i \in 1 .. disk[x].size :
                              disk[x].keys[i] = j /\ disk[x].ptrs[i] = p
    BY <2>6 DEF Filed
  <2> QED BY <2>1, <2>2, <2>3, <2>4, <2>7, <2>8
<1>35. KeyEntered(k, w, b)
  <2>1. \A c \in B : c \in DOMAIN disk /\ c # a
    BY <1>5 DEF L, B, OfType
  <2>2. b \notin B
    BY <1>6, <2>1
  <2> QED BY <1>2, <1>5, <1>6, <1>9, <1>11, <1>12, <1>14, <1>34, <2>1, <2>2 DEF KeyEntered
<1> QED
  BY <1>2, <1>20, <1>33, <1>35 DEF TreeInv

-------------------------------------------------------------------------------
(* insert_in_parent. *)

\* What changes only in its parent.
Adopted(n, p) == [n EXCEPT !.parent = p]

LEMMA AdoptedLeaf ==
    ASSUME NEW n \in Leaves, NEW p \in Nat, NEW m, m = Adopted(n, p)
    PROVE  /\ m \in Leaves /\ m.type = "L" /\ m.parent = p /\ m.size = n.size
           /\ m.keys = n.keys /\ m.ptrs = n.ptrs /\ m.next = n.next
<1>1. PICK a, b, c, d, e :
        n = [type |-> "L", size |-> a, parent |-> b, next |-> c, keys |-> d, ptrs |-> e]
  <2>1. n = [type |-> "L", size |-> n.size, parent |-> n.parent, next |-> n.next,
             keys |-> n.keys, ptrs |-> n.ptrs]
    BY DEF Leaves
  <2> QED BY <2>1
<1>2. /\ a \in 1 .. Cap /\ c \in Nat /\ d \in [1 .. Cap -> Cells] /\ e \in [1 .. Cap -> Nat]
      /\ n.size = a /\ n.next = c /\ n.keys = d /\ n.ptrs = e
  BY <1>1 DEF Leaves
<1>3. m = [type |-> "L", size |-> a, parent |-> p, next |-> c, keys |-> d, ptrs |-> e]
  BY ONLY <1>1, m = Adopted(n, p) DEF Adopted
<1>4. m \in Leaves
  BY <1>2, <1>3, LeafTyped
<1> QED
  BY <1>2, <1>3, <1>4

LEMMA AdoptedInner ==
    ASSUME NEW n \in Inners, NEW p \in Nat, NEW m, m = Adopted(n, p)
    PROVE  /\ m \in Inners /\ m.type = "I" /\ m.parent = p /\ m.size = n.size
           /\ m.keys = n.keys /\ m.ptrs = n.ptrs
<1>1. PICK a, b, d, e :
        n = [type |-> "I", size |-> a, parent |-> b, keys |-> d, ptrs |-> e]
  <2>1. n = [type |-> "I", size |-> n.size, parent |-> n.parent,
             keys |-> n.keys, ptrs |-> n.ptrs]
    BY DEF Inners
  <2> QED BY <2>1
<1>2. /\ a \in 1 .. Cap /\ d \in [1 .. Cap -> Cells] /\ e \in [1 .. Cap + 1 -> Nat]
      /\ n.size = a /\ n.keys = d /\ n.ptrs = e
  BY <1>1 DEF Inners
<1>3. m = [type |-> "I", size |-> a, parent |-> p, keys |-> d, ptrs |-> e]
  BY ONLY <1>1, m = Adopted(n, p) DEF Adopted
<1>4. m \in Inners
  BY <1>2, <1>3, InnerTyped
<1> QED
  BY <1>2, <1>3, <1>4

\* A node that is adopted stays what it is.
SameButParent(m, n) ==
    /\ m.type = n.type /\ m.size = n.size /\ m.keys = n.keys /\ m.ptrs = n.ptrs
    /\ n.type = "L" => m.next = n.next
    /\ m \in Leaves \cup Inners /\ KeysOK(m)

LEMMA AdoptedNode ==
    ASSUME NEW n \in Leaves \cup Inners, KeysOK(n), NEW p \in Nat, NEW m, m = Adopted(n, p)
    PROVE  SameButParent(m, n) /\ m.parent = p
<1>1. CASE n \in Leaves
  <2>1. /\ m \in Leaves /\ m.type = "L" /\ m.parent = p /\ m.size = n.size
        /\ m.keys = n.keys /\ m.ptrs = n.ptrs /\ m.next = n.next
    BY <1>1, AdoptedLeaf
  <2>2. n.type = "L"
    BY <1>1 DEF Leaves
  <2>3. KeysOK(m)
    BY <2>1 DEF KeysOK
  <2> QED BY <2>1, <2>2, <2>3 DEF SameButParent
<1>2. CASE n \in Inners
  <2>1. /\ m \in Inners /\ m.type = "I" /\ m.parent = p /\ m.size = n.size
        /\ m.keys = n.keys /\ m.ptrs = n.ptrs
    BY <1>2, AdoptedInner
  <2>2. n.type = "I"
    BY <1>2 DEF Inners
  <2>3. KeysOK(m)
    BY <2>1 DEF KeysOK
  <2> QED BY <2>1, <2>2, <2>3 DEF SameButParent
<1> QED
  BY <1>1, <1>2

\* The two parts of the split below.
LEMMA PendingFacts ==
    ASSUME FileInv, NEW lo \in Ghosts, NEW hi \in Ghosts, NEW ht \in Ghosts, NEW pos,
           RangeInv(lo, hi, ht, pos), Pending,
           NEW left, left = up.left, NEW right, right = up.right, NEW key, key = up.key
    PROVE  /\ left \in Nodes /\ right \in Nodes /\ left # right /\ right # hdr.root
           /\ disk[left].parent = disk[right].parent /\ ht[left] = ht[right]
           /\ hi[left] = key /\ lo[right] = key /\ key \in Nat /\ key < NilKey
           /\ lo[left] < key /\ key < hi[right] /\ hi[right] <= NilKey
           /\ left \in Nat /\ right \in Nat /\ left # 0 /\ right # 0
           /\ open /\ hdr.root # 0 /\ hdr.root \in Nodes /\ NilKey \in Nat
           /\ \A x \in Nat : lo[x] \in Nat /\ hi[x] \in Nat /\ ht[x] \in Nat
<1>1. /\ left \in Nodes /\ right \in Nodes /\ left # right /\ right # hdr.root
      /\ disk[left].parent = disk[right].parent /\ ht[left] = ht[right]
      /\ hi[left] = key /\ lo[right] = key /\ open /\ hdr.root # 0
  BY DEF RangeInv, CallOK, Pending
<1>2. hdr.root \in Nodes
  BY <1>1 DEF FileInv, FileOK
<1>3. /\ left \in Nat /\ right \in Nat /\ left # 0 /\ right # 0
      /\ disk[left] \in Leaves \cup Inners /\ KeysOK(disk[left])
      /\ disk[right] \in Leaves \cup Inners /\ KeysOK(disk[right])
  BY <1>1, Kinds DEF FileInv
<1>4. \A x \in Nat : lo[x] \in Nat /\ hi[x] \in Nat /\ ht[x] \in Nat
  BY DEF Ghosts
<1>5. /\ 1 \in 1 .. disk[left].size /\ disk[left].keys[1] \in Nat
      /\ 1 \in 1 .. disk[right].size /\ disk[right].keys[1] \in Nat
  <2>1. disk[left].size \in Nat /\ 1 <= disk[left].size /\ Cap \in Nat /\ 1 \in 1 .. Cap
    BY <1>3, NodeFacts, TreeAssumption
  <2>2. disk[right].size \in Nat /\ 1 <= disk[right].size
    BY <1>3, NodeFacts
  <2>3. disk[left].keys[1] \in Nat /\ disk[right].keys[1] \in Nat
    BY <1>3, <2>1, NodeFacts
  <2> QED BY <2>1, <2>2, <2>3
<1>6. /\ lo[left] <= disk[left].keys[1] /\ disk[left].keys[1] < hi[left]
      /\ lo[right] <= disk[right].keys[1] /\ disk[right].keys[1] < hi[right]
      /\ hi[right] <= NilKey
  BY <1>1, <1>5 DEF RangeInv, Bounded
<1>7. NilKey \in Nat
  BY KeyFacts
<1>8. lo[left] \in Nat /\ hi[left] \in Nat /\ lo[right] \in Nat /\ hi[right] \in Nat
  BY <1>3, <1>4
<1>9. lo[left] < key /\ key < hi[right] /\ key \in Nat
  BY <1>1, <1>5, <1>6, <1>8
<1>10. key < NilKey
  BY <1>6, <1>7, <1>8, <1>9
<1> QED
  BY <1>1, <1>2, <1>3, <1>4, <1>6, <1>7, <1>9, <1>10

LEMMA NewRootKeeps ==
    ASSUME TreeInv, NewRoot
    PROVE  TreeInv' /\ SameEntries
<1>1. PICK lo \in Ghosts, hi \in Ghosts, ht \in Ghosts, pos \in Ghosts :
         RangeInv(lo, hi, ht, pos)
  BY DEF TreeInv
<1>2. PICK left, right, key, new, l, r, e, n :
        /\ left = up.left /\ right = up.right /\ key = up.key /\ new = hdr.numOfBlocks
        /\ l = Adopted(disk[left], new) /\ r = Adopted(disk[right], new)
        /\ e = [disk EXCEPT ![left] = l, ![right] = r]
        /\ n = InternalNode(new, <<key>>, <<left, right>>)
  OBVIOUS
<1>3. /\ Pending /\ hdr.root = left /\ disk' = With(e, new, n)
      /\ hdr' = [hdr EXCEPT !.root = new, !.numOfBlocks = @ + 1, !.numOfInterNodes = @ + 1]
      /\ pc' = "idle" /\ dhdr' = dhdr /\ open' = open /\ ~Pending'
  BY <1>2 DEF NewRoot, Ascending, Pending, Return, Reparent, Adopted
<1>4. FileInv /\ HeaderOK /\ FileOK /\ BucketsOK /\ Counted /\ HalfFull /\ hdr \in Headers
  BY DEF TreeInv, FileInv, HeaderOK
<1>5. /\ left \in Nodes /\ right \in Nodes /\ left # right
      /\ ht[left] = ht[right]
      /\ hi[left] = key /\ lo[right] = key /\ key \in Nat /\ key < NilKey
      /\ left \in Nat /\ right \in Nat /\ left # 0 /\ right # 0
      /\ open /\ hdr.root # 0 /\ NilKey \in Nat
      /\ \A x \in Nat : lo[x] \in Nat /\ hi[x] \in Nat /\ ht[x] \in Nat
  BY <1>1, <1>2, <1>3, <1>4, PendingFacts
<1>6. /\ DOMAIN disk = 1 .. new - 1 /\ new \in Nat /\ new # 0 /\ new \notin DOMAIN disk
      /\ \A x \in Nodes : x \in DOMAIN disk /\ x \in Nat /\ x # new /\ x # 0
  <2>1. DOMAIN disk = 1 .. new - 1 /\ new \in Nat
    BY <1>2, <1>4 DEF FileOK, Headers
  <2>2. \A x \in Nodes : x \in DOMAIN disk /\ x \in Nat /\ x # 0
    BY <1>4, Kinds
  <2>3. new \notin DOMAIN disk /\ new # 0
    BY <1>5, <2>1, <2>2
  <2> QED BY <2>1, <2>2, <2>3
<1>7. SameButParent(l, disk[left]) /\ l.parent = new /\ SameButParent(r, disk[right]) /\ r.parent = new
  <2>1. PICK x, y : x = disk[left] /\ y = disk[right]
    OBVIOUS
  <2>2. x \in Leaves \cup Inners /\ KeysOK(x) /\ y \in Leaves \cup Inners /\ KeysOK(y)
    BY <1>4, <1>5, <2>1, Kinds
  <2>3. l = Adopted(x, new) /\ r = Adopted(y, new)
    BY <1>2, <2>1
  <2>4. SameButParent(l, x) /\ l.parent = new
    BY <1>6, <2>2, <2>3, AdoptedNode
  <2>5. SameButParent(r, y) /\ r.parent = new
    BY <1>6, <2>2, <2>3, AdoptedNode
  <2> QED BY <2>1, <2>4, <2>5
<1>8. /\ n \in Inners /\ KeysOK(n) /\ n.type = "I" /\ n.size = 1 /\ n.parent = new
      /\ n.keys[1] = key /\ n.ptrs[1] = left /\ n.ptrs[2] = right
      /\ \A j \in 1 .. Cap + 1 : j > 2 => n.ptrs[j] = 0
  <2>1. PICK a, b, o, z : a = <<key>> /\ b = <<left, right>> /\ o = 1 /\ z = 2
    OBVIOUS
  <2>2. a \in [1 .. o -> Cells] /\ a[1] = key /\ o \in 1 .. Cap
    BY <1>5, <2>1, TreeAssumption DEF Cells
  <2>3. b \in [1 .. z -> Nat] /\ b[1] = left /\ b[2] = right /\ z \in Nat /\ z = o + 1
    BY <1>5, <2>1
  <2>4. KeyList(o, a) /\ PtrList(z, b)
    BY <1>5, <2>1, <2>2, <2>3 DEF KeyList, PtrList
  <2>5. n = InternalNode(new, a, b)
    BY <1>2, <2>1
  <2>6. IsInner(n, o, new, a, b)
    BY <1>6, <2>3, <2>4, <2>5, InternalNodeFacts
  <2>7. 1 \in 1 .. Cap + 1 /\ 2 \in 1 .. Cap + 1 /\ 1 \in 1 .. o /\ 1 <= o + 1 /\ 2 <= o + 1
        /\ \A j \in 1 .. Cap + 1 : j > 2 => ~(j <= o + 1)
    BY <2>1, TreeAssumption
  <2> QED BY <2>1, <2>2, <2>3, <2>6, <2>7 DEF IsInner
<1>9. /\ hdr' \in Headers /\ hdr'.root = new /\ hdr'.duplicate = hdr.duplicate
      /\ hdr'.numOfBlocks = new + 1 /\ hdr'.numOfInterNodes = hdr.numOfInterNodes + 1
      /\ hdr'.numOfLeafNodes = hdr.numOfLeafNodes
      /\ hdr'.numOfPtrBucket = hdr.numOfPtrBucket
  <2>1. PICK x, y, f, g : /\ x = hdr.numOfBlocks + 1 /\ y = hdr.numOfInterNodes + 1
                          /\ f = [hdr EXCEPT !.root = new]
                          /\ g = [f EXCEPT !.numOfBlocks = x]
    OBVIOUS
  <2>2. x \in Nat /\ y \in Nat
    BY <1>4, <2>1 DEF Headers
  <2>3. f \in Headers /\ f.root = new /\ f.duplicate = hdr.duplicate
        /\ f.numOfBlocks = hdr.numOfBlocks /\ f.numOfInterNodes = hdr.numOfInterNodes
        /\ f.numOfLeafNodes = hdr.numOfLeafNodes /\ f.numOfPtrBucket = hdr.numOfPtrBucket
    BY <1>4, <1>6, <2>1 DEF Headers
  <2>4. g \in Headers /\ g.root = f.root /\ g.duplicate = f.duplicate
        /\ g.numOfBlocks = x /\ g.numOfInterNodes = f.numOfInterNodes
        /\ g.numOfLeafNodes = f.numOfLeafNodes /\ g.numOfPtrBucket = f.numOfPtrBucket
    BY <2>1, <2>2, <2>3 DEF Headers
  <2>5. hdr' = [g EXCEPT !.numOfInterNodes = y]
    BY <1>3, <1>4, <2>1, <2>3, <2>4 DEF Headers
  <2>6. hdr' \in Headers /\ hdr'.root = g.root /\ hdr'.duplicate = g.duplicate
        /\ hdr'.numOfBlocks = g.numOfBlocks /\ hdr'.numOfInterNodes = y
        /\ hdr'.numOfLeafNodes = g.numOfLeafNodes /\ hdr'.numOfPtrBucket = g.numOfPtrBucket
    BY <2>2, <2>4, <2>5 DEF Headers
  <2> QED BY <1>2, <2>1, <2>3, <2>4, <2>6
<1>10. /\ DOMAIN disk' = DOMAIN disk \cup {new} /\ disk'[left] = l /\ disk'[right] = r
       /\ disk'[new] = n
       /\ \A x \in DOMAIN disk : x # left /\ x # right => disk'[x] = disk[x]
  <2>1. /\ DOMAIN e = DOMAIN disk /\ e[left] = l /\ e[right] = r
        /\ \A x \in DOMAIN disk : x # left /\ x # right => e[x] = disk[x]
    BY <1>2, <1>5, <1>6
  <2>2. disk' = [x \in DOMAIN e \cup {new} |-> IF x = new THEN n ELSE e[x]]
    BY <1>3 DEF With
  <2> QED BY <1>5, <1>6, <2>1, <2>2
<1>11. /\ \A x \in Nodes : SameButParent(disk'[x], disk[x])
       /\ disk'[left].parent = new /\ disk'[right].parent = new
       /\ \A x \in Nodes : x # left /\ x # right => disk'[x].parent = disk[x].parent
  <2>1. ASSUME NEW x \in Nodes, x # left, x # right
        PROVE  SameButParent(disk'[x], disk[x])
    <3>1. disk'[x] = disk[x] /\ disk[x] \in Leaves \cup Inners /\ KeysOK(disk[x])
      BY <1>4, <1>6, <1>10, <2>1, Kinds
    <3> QED BY <3>1 DEF SameButParent
  <2> QED BY <1>6, <1>7, <1>10, <2>1
<1>12. L' = L /\ I' = I \cup {new} /\ B' = B /\ Nodes' = Nodes \cup {new}
  <2>1. \A x \in Nodes : disk'[x].type = disk[x].type
    BY <1>11 DEF SameButParent
  <2>2. \A x \in DOMAIN disk : disk'[x].type = disk[x].type
    <3>1. \A x \in B : x # left /\ x # right /\ x \in DOMAIN disk
      BY <1>5 DEF Nodes, L, I, B, OfType
    <3>2. \A x \in DOMAIN disk : x \in Nodes \/ x \in B
      BY <1>4, Kinds
    <3> QED BY <1>10, <2>1, <3>1, <3>2
  <2>3. L' = L /\ I' = I \cup {new} /\ B' = B
    BY <1>6, <1>8, <1>10, <2>2 DEF L, I, B, OfType
  <2> QED BY <2>3 DEF Nodes
<1>13. PICK lo2, hi2, ht2 :
         /\ lo2 = [x \in Nat |-> IF x = new THEN 0 ELSE lo[x]]
         /\ hi2 = [x \in Nat |-> IF x = new THEN NilKey ELSE hi[x]]
         /\ ht2 = [x \in Nat |-> IF x = new THEN ht[left] + 1 ELSE ht[x]]
  OBVIOUS
<1>14. /\ lo2 \in Ghosts /\ hi2 \in Ghosts /\ ht2 \in Ghosts
       /\ lo2[new] = 0 /\ hi2[new] = NilKey /\ ht2[new] = ht[left] + 1
       /\ \A x \in Nodes : lo2[x] = lo[x] /\ hi2[x] = hi[x] /\ ht2[x] = ht[x]
  <2>1. ht[left] + 1 \in Nat
    BY <1>5
  <2> QED BY <1>5, <1>6, <1>13, <2>1 DEF Ghosts
<1>15. /\ \A x : Sib(x)' = x /\ ~Unlinked(x)'
       /\ Sib(left) = right /\ \A x : x # left => Sib(x) = x
       /\ \A x : Unlinked(x) <=> x = right
  BY <1>2, <1>3 DEF Sib, Unlinked
<1>16. ASSUME NEW p \in I
       PROVE  /\ p \in Nodes /\ p # new /\ disk'[p].size = disk[p].size
              /\ disk'[p].keys = disk[p].keys /\ disk'[p].ptrs = disk[p].ptrs
              /\ disk[p].size \in Nat /\ disk[p].size <= Cap
              /\ \A j \in 1 .. disk[p].size + 1 : j \in 1 .. Cap + 1
  <2>1. p \in Nodes /\ disk[p] \in Leaves \cup Inners /\ KeysOK(disk[p])
    BY <1>4, Kinds
  <2>2. disk[p].size \in Nat /\ disk[p].size <= Cap /\ Cap \in Nat
    BY <2>1, NodeFacts
  <2> QED BY <1>6, <1>11, <2>1, <2>2 DEF SameButParent
\* The children of the nodes there were.
<1>17. ASSUME NEW p \in I, NEW j \in 1 .. Cap + 1, NEW c, c = disk[p].ptrs[j]
       PROVE  /\ j > disk[p].size + 1 => c = 0
              /\ c # 0 => /\ c \in Nodes /\ disk[c].parent = p /\ ht[p] = ht[c] + 1
                          /\ c # left /\ c # right
              /\ j \in 1 .. disk[p].size + 1 =>
                   IF c = 0 THEN j = 1 /\ disk[p].keys[1] = lo[p]
                   ELSE /\ lo[c] = IF j = 1 THEN lo[p] ELSE disk[p].keys[j - 1]
                        /\ hi[c] = IF j = disk[p].size + 1 THEN hi[p] ELSE disk[p].keys[j]
  <2>1. /\ j > disk[p].size + 1 => c = 0
        /\ c # 0 => /\ c \in Nodes /\ disk[c].parent = p /\ ht[p] = ht[c] + 1
                    /\ c # left /\ c # right
    BY <1>1, <1>3, <1>15, <1>17 DEF RangeInv, Linked
  <2>2. ASSUME j \in 1 .. disk[p].size + 1
        PROVE  IF c = 0 THEN j = 1 /\ disk[p].keys[1] = lo[p]
               ELSE /\ lo[c] = IF j = 1 THEN lo[p] ELSE disk[p].keys[j - 1]
                    /\ hi[Sib(c)] = IF j = disk[p].size + 1 THEN hi[p] ELSE disk[p].keys[j]
    BY <1>1, <1>17, <2>2 DEF RangeInv, Bounded
  <2>3. c # 0 => Sib(c) = c
    BY <1>15, <2>1
  <2> QED BY <2>1, <2>2, <2>3
<1>18. Bounded(lo2, hi2)'
  <2>1. ASSUME NEW x \in Nodes', NEW i \in 1 .. disk'[x].size
        PROVE  lo2[x] <= disk'[x].keys[i] /\ disk'[x].keys[i] < hi2[x]
    <3>1. CASE x = new
      <4>1. i = 1
        BY <1>8, <1>10, <3>1
      <4> QED BY <1>5, <1>8, <1>10, <1>14, <3>1, <4>1
    <3>2. CASE x \in Nodes
      <4>1. disk'[x].size = disk[x].size /\ disk'[x].keys = disk[x].keys
        BY <1>11, <3>2 DEF SameButParent
      <4> QED BY <1>1, <1>14, <3>2, <4>1 DEF RangeInv, Bounded
    <3> QED BY <1>12, <3>1, <3>2
  <2>2. \A x \in Nodes' : hi2[x] <= NilKey
    BY <1>1, <1>5, <1>12, <1>14 DEF RangeInv, Bounded
  <2>3. ASSUME NEW p \in I', NEW j \in 1 .. disk'[p].size + 1, NEW c, c = disk'[p].ptrs[j]
        PROVE  IF c = 0 THEN j = 1 /\ disk'[p].keys[1] = lo2[p]
               ELSE /\ lo2[c] = IF j = 1 THEN lo2[p] ELSE disk'[p].keys[j - 1]
                    /\ hi2[c] = IF j = disk'[p].size + 1 THEN hi2[p] ELSE disk'[p].keys[j]
    <3>1. CASE p \in I
      <4>1. j \in 1 .. disk[p].size + 1 /\ j \in 1 .. Cap + 1 /\ c = disk[p].ptrs[j]
        BY <1>16, <2>3, <3>1
      <4>2. /\ c # 0 => c \in Nodes
            /\ IF c = 0 THEN j = 1 /\ disk[p].keys[1] = lo[p]
               ELSE /\ lo[c] = IF j = 1 THEN lo[p] ELSE disk[p].keys[j - 1]
                    /\ hi[c] = IF j = disk[p].size + 1 THEN hi[p] ELSE disk[p].keys[j]
        BY <1>17, <3>1, <4>1
      <4> QED BY <1>14, <1>16, <3>1, <4>2
    <3>2. CASE p = new
      <4>1. disk'[p] = n /\ (j = 1 \/ j = 2)
        BY <1>8, <1>10, <3>2
      <4>2. lo[left] = 0 /\ hi[right] = NilKey
        BY <1>1, <1>3, <1>5, <1>15 DEF RangeInv, Bounded
      <4>3. CASE j = 1
        BY <1>5, <1>8, <1>14, <2>3, <3>2, <4>1, <4>2, <4>3
      <4>4. CASE j = 2
        BY <1>5, <1>8, <1>14, <2>3, <3>2, <4>1, <4>2, <4>4
      <4> QED BY <4>1, <4>3, <4>4
    <3> QED BY <1>12, <3>1, <3>2
  <2> QED BY <1>9, <1>14, <1>15, <2>1, <2>2, <2>3 DEF Bounded
<1>19. Linked(ht2)'
  <2>1. \A x \in L' : ht2[x] = 0
    <3>1. \A x \in L : x \in Nodes /\ ht[x] = 0
      BY <1>1 DEF RangeInv, Linked, Nodes
    <3> QED BY <1>12, <1>14, <3>1
  <2>2. ASSUME NEW p \in I', NEW j \in 1 .. Cap + 1, NEW c, c = disk'[p].ptrs[j]
        PROVE  /\ j > disk'[p].size + 1 => c = 0
               /\ c # 0 => /\ c \in Nodes' /\ disk'[c].parent = p /\ ht2[p] = ht2[c] + 1
                           /\ c # hdr'.root
    <3>1. CASE p \in I
      <4>1. c = disk[p].ptrs[j] /\ disk'[p].size = disk[p].size
        BY <1>16, <2>2, <3>1
      <4>2. /\ j > disk[p].size + 1 => c = 0
            /\ c # 0 => /\ c \in Nodes /\ disk[c].parent = p /\ ht[p] = ht[c] + 1
                        /\ c # left /\ c # right
        BY <1>17, <3>1, <4>1
      <4> QED BY <1>6, <1>9, <1>11, <1>12, <1>14, <1>16, <3>1, <4>1, <4>2
    <3>2. CASE p = new
      <4>1. disk'[p] = n /\ (j = 1 \/ j = 2 \/ j > 2)
        BY <1>10, <3>2
      <4>2. /\ left \in Nodes' /\ disk'[left].parent = new /\ left # new
            /\ right \in Nodes' /\ disk'[right].parent = new /\ right # new
        BY <1>5, <1>6, <1>11, <1>12
      <4>3. ht2[new] = ht2[left] + 1 /\ ht2[new] = ht2[right] + 1
        BY <1>5, <1>14
      <4>4. c = left \/ c = right \/ (c = 0 /\ j > 2)
        BY <1>8, <2>2, <4>1
      <4>5. j > 1 + 1 => c = 0
        BY <1>8, <2>2, <4>1
      <4> QED BY <1>8, <1>9, <3>2, <4>1, <4>2, <4>3, <4>4, <4>5
    <3> QED BY <1>12, <3>1, <3>2
  <2>3. ASSUME NEW c \in Nodes', c # hdr'.root, NEW p, p = disk'[c].parent
        PROVE  p \in I' /\ \E j \in 1 .. disk'[p].size + 1 : disk'[p].ptrs[j] = c
    <3>0. c \in Nodes /\ c # new
      BY <1>9, <1>12, <2>3
    <3>1. CASE c = left \/ c = right
      <4>1. p = new /\ p \in I'
        BY <1>11, <1>12, <2>3, <3>1
      <4>2. 1 \in 1 .. n.size + 1 /\ 2 \in 1 .. n.size + 1
        BY <1>8
      <4> QED BY <1>8, <1>10, <3>1, <4>1, <4>2
    <3>2. CASE c # left /\ c # right
      <4>1. p = disk[c].parent
        BY <1>11, <2>3, <3>0, <3>2
      <4>2. p \in I /\ \E j \in 1 .. disk[p].size + 1 : disk[p].ptrs[j] = c
        BY <1>1, <1>3, <1>15, <3>0, <3>2, <4>1 DEF RangeInv, Linked
      <4> QED BY <1>12, <1>16, <4>2
    <3> QED BY <3>1, <3>2
  <2>4. ht2[new] <= hdr'.numOfInterNodes
    <3>1. ht[left] <= hdr.numOfInterNodes /\ hdr.numOfInterNodes \in Nat /\ ht[left] \in Nat
      BY <1>1, <1>3, <1>4, <1>5 DEF RangeInv, Linked, Headers
    <3> QED BY <1>9, <1>14, <3>1
  <2> QED BY <1>9, <1>15, <2>1, <2>2, <2>3, <2>4 DEF Linked
<1>20. Chained(lo2, hi2, pos)'
  <2>1. \A x \in L : x \in Nodes /\ disk'[x].next = disk[x].next
    BY <1>4, <1>11, Kinds DEF SameButParent
  <2>2. \A x \in L : lo2[x] = lo[x] /\ hi2[x] = hi[x]
    BY <1>14, <2>1
  <2> QED BY <1>1, <1>5, <1>9, <1>12, <2>1, <2>2 DEF RangeInv, Chained
<1>21. HeaderOK'
  <2>1. hdr'.numOfBlocks # 0
    BY <1>6, <1>9
  <2> QED BY <1>3, <1>4, <1>5, <1>9, <2>1 DEF HeaderOK
<1>22. FileOK'
  <2>1. DOMAIN disk' = 1 .. hdr'.numOfBlocks - 1
    <3>1. hdr'.numOfBlocks - 1 = new
      BY <1>6, <1>9
    <3>2. 1 .. new = (1 .. new - 1) \cup {new}
      BY <1>6
    <3> QED BY <1>6, <1>10, <3>1, <3>2
  <2>2. ASSUME NEW x \in DOMAIN disk' PROVE disk'[x] \in Leaves \cup Inners \cup Buckets
    <3>1. CASE x = new
      BY <1>8, <1>10, <3>1
    <3>2. CASE x \in Nodes
      BY <1>11, <3>2 DEF SameButParent
    <3>3. CASE x \in B
      <4>1. x # left /\ x # right /\ x \in DOMAIN disk
        BY <1>5, <3>3 DEF Nodes, L, I, B, OfType
      <4> QED BY <1>4, <1>10, <4>1 DEF FileOK
    <3> QED BY <1>4, <1>10, <3>1, <3>2, <3>3, Kinds
  <2>3. ASSUME NEW x \in Nodes' PROVE KeysOK(disk'[x]) /\ disk'[x].parent \in DOMAIN disk'
    <3>1. CASE x = new
      BY <1>8, <1>10, <3>1
    <3>2. CASE x \in Nodes
      BY <1>4, <1>10, <1>11, <3>2 DEF FileOK, SameButParent
    <3> QED BY <1>12, <3>1, <3>2
  <2> QED BY <1>6, <1>9, <1>12, <2>1, <2>2, <2>3 DEF FileOK
<1>23. BucketsOK'
  <2>1. \A x \in B : disk'[x] = disk[x]
    <3>1. \A x \in B : x # left /\ x # right /\ x \in DOMAIN disk
      BY <1>5 DEF Nodes, L, I, B, OfType
    <3> QED BY <1>10, <3>1
  <2>2. \A x \in L : x \in Nodes /\ disk'[x].size = disk[x].size /\ disk'[x].ptrs = disk[x].ptrs
    BY <1>11 DEF SameButParent, Nodes
  <2> QED BY <1>4, <1>9, <1>12, <2>1, <2>2 DEF BucketsOK
<1>24. Counted'
  <2>1. new \notin I /\ hdr.numOfInterNodes \in Nat
    BY <1>4, <1>6 DEF Nodes, Headers
  <2>2. IsFiniteSet(I') /\ Cardinality(I') = hdr'.numOfInterNodes
    BY <1>4, <1>9, <1>12, <2>1, OneMore DEF Counted
  <2> QED BY <1>4, <1>9, <1>12, <2>2 DEF Counted
<1>25. HalfFull'
  <2>1. ASSUME NEW x \in Nodes', x # new PROVE disk'[x].size >= Cap \div 2
    <3>1. x \in Nodes /\ disk'[x].size = disk[x].size
      BY <1>11, <1>12, <2>1 DEF SameButParent
    <3> QED BY <1>2, <1>3, <1>4, <3>1 DEF HalfFull
  <2> QED BY <1>3, <1>9, <2>1 DEF HalfFull
<1>26. CallOK(lo2, hi2, ht2)'
  BY <1>3 DEF CallOK
<1>27. FileInv' /\ RangeInv(lo2, hi2, ht2, pos)'
  BY <1>18, <1>19, <1>20, <1>21, <1>22, <1>23, <1>24, <1>25, <1>26 DEF FileInv, RangeInv
<1>28. SameEntries
  <2>1. \A x \in B : x # left /\ x # right /\ x \in DOMAIN disk
    BY <1>5 DEF Nodes, L, I, B, OfType
  <2>2. \A x \in L : x \in Nodes
    BY DEF Nodes
  <2>3. \A k, p : Filed(k, p)' <=> Filed(k, p)
    BY <1>11, <1>12, <2>2, EntriesSame DEF SameButParent
  <2> QED BY <1>9, <1>10, <1>12, <2>1, <2>3 DEF SameEntries
<1> QED
  BY <1>1, <1>14, <1>27, <1>28 DEF TreeInv

\* The keys between which pointer j of a node with one more key leads.
WideLo(n, q, k, a, j) == IF j = 1 THEN a ELSE WideKey(n, q, k, j - 1)
WideHi(n, q, k, b, j) == IF j = n.size + 2 THEN b ELSE WideKey(n, q, k, j)

\* Block c is a child of p for the keys from a to before b.
Child(lo, hi, ht, p, c, a, b) ==
    /\ c \in Nodes /\ c # hdr.root /\ disk[c].parent = p /\ ht[p] = ht[c] + 1
    /\ lo[c] = a /\ hi[c] = b

\* The parent of a block that was split, with the key and the right part added
\* behind the left one.
LEMMA WideChildren ==
    ASSUME FileInv, NEW lo \in Ghosts, NEW hi \in Ghosts, NEW ht \in Ghosts, NEW pos,
           RangeInv(lo, hi, ht, pos), Pending,
           NEW left, left = up.left, NEW right, right = up.right, NEW key, key = up.key,
           left # hdr.root, NEW p, p = disk[left].parent, NEW n, n = disk[p],
           NEW q, q = Above(n, key)
    PROVE  /\ p \in I /\ p \in Nodes /\ n \in Inners /\ KeysOK(n) /\ Fits(n, q, key)
           /\ lo[p] <= key /\ key < hi[p]
           /\ \A j \in 1 .. n.size + 2 : \A c :
                 c = WidePtr(n, q + 1, right, j) =>
                   /\ c = 0 => j = 1 /\ WideKey(n, q, key, 1) = lo[p]
                   /\ c # 0 => Child(lo, hi, ht, p, c, WideLo(n, q, key, lo[p], j),
                                     WideHi(n, q, key, hi[p], j))
           /\ \A j \in 1 .. Cap + 2 : j > n.size + 2 => WidePtr(n, q + 1, right, j) = 0
           /\ \A c \in Nodes : c # hdr.root /\ disk[c].parent = p =>
                 \E j \in 1 .. n.size + 2 : WidePtr(n, q + 1, right, j) = c
<1>1. /\ left \in Nodes /\ right \in Nodes /\ left # right /\ right # hdr.root
      /\ disk[left].parent = disk[right].parent /\ ht[left] = ht[right]
      /\ hi[left] = key /\ lo[right] = key /\ key \in Nat /\ key < NilKey
      /\ lo[left] < key /\ key < hi[right] /\ hi[right] <= NilKey
      /\ left \in Nat /\ right \in Nat /\ left # 0 /\ right # 0 /\ NilKey \in Nat
      /\ \A x \in Nat : lo[x] \in Nat /\ hi[x] \in Nat /\ ht[x] \in Nat
  BY PendingFacts
<1>2. /\ Sib(left) = right /\ (\A x : x # left => Sib(x) = x)
      /\ \A x : Unlinked(x) <=> x = right
  BY DEF Sib, Unlinked
<1>3. p \in I /\ \E i \in 1 .. n.size + 1 : n.ptrs[i] = left
  BY <1>1, <1>2 DEF RangeInv, Linked
<1>4. p \in Nodes /\ n \in Inners /\ KeysOK(n) /\ p \in Nat
  BY <1>3, Kinds DEF FileInv
<1>5. /\ Cap \in Nat /\ n.size \in Nat /\ 1 <= n.size /\ n.size <= Cap
      /\ \A i \in 1 .. Cap : n.keys[i] \in Nat
  BY <1>4, NodeFacts
<1>6. lo[p] \in Nat /\ hi[p] \in Nat /\ lo[left] \in Nat /\ hi[right] \in Nat
  BY <1>1, <1>4
<1>7. \A i \in 1 .. n.size : lo[p] <= n.keys[i] /\ n.keys[i] < hi[p]
  BY <1>4 DEF RangeInv, Bounded
<1>8. ASSUME NEW i \in 1 .. n.size + 1, NEW c, c = n.ptrs[i]
      PROVE  /\ c = 0 => i = 1 /\ n.keys[1] = lo[p]
             /\ c # 0 => /\ lo[c] = IF i = 1 THEN lo[p] ELSE n.keys[i - 1]
                         /\ hi[Sib(c)] = IF i = n.size + 1 THEN hi[p] ELSE n.keys[i]
  BY <1>3, <1>8 DEF RangeInv, Bounded
<1>9. ASSUME NEW i \in 1 .. Cap + 1, NEW c, c = n.ptrs[i]
      PROVE  /\ i > n.size + 1 => c = 0
             /\ c # 0 => /\ c \in Nodes /\ disk[c].parent = p /\ ht[p] = ht[c] + 1
                         /\ c # hdr.root /\ c # right
  BY <1>2, <1>3, <1>9 DEF RangeInv, Linked
<1>10. \A i \in 1 .. n.size + 1 : i \in 1 .. Cap + 1
  BY <1>5
\* The pointer to the left part is where the key goes.
<1>11. ASSUME NEW i \in 1 .. n.size + 1, n.ptrs[i] = left
       PROVE  /\ i = q /\ Fits(n, i, key)
              /\ i > 1 => n.keys[i - 1] \in Nat /\ n.keys[i - 1] < key
              /\ i <= n.size => n.keys[i] \in Nat /\ key < n.keys[i]
              /\ lo[left] = IF i = 1 THEN lo[p] ELSE n.keys[i - 1]
              /\ hi[right] = IF i = n.size + 1 THEN hi[p] ELSE n.keys[i]
  <2>1. /\ lo[left] = IF i = 1 THEN lo[p] ELSE n.keys[i - 1]
        /\ hi[right] = IF i = n.size + 1 THEN hi[p] ELSE n.keys[i]
    BY <1>1, <1>2, <1>8, <1>11
  <2>2. ASSUME i > 1 PROVE n.keys[i - 1] \in Nat /\ n.keys[i - 1] < key
    <3>1. i - 1 \in 1 .. Cap /\ i # 1
      BY <1>5, <2>2
    <3> QED BY <1>1, <1>5, <2>1, <3>1
  <2>3. ASSUME i <= n.size PROVE n.keys[i] \in Nat /\ key < n.keys[i]
    <3>1. i \in 1 .. Cap /\ i # n.size + 1
      BY <1>5, <2>3
    <3> QED BY <1>1, <1>5, <2>1, <3>1
  <2>4. Fits(n, i, key)
    BY <1>1, <2>2, <2>3 DEF Fits
  <2>5. /\ i > 1 => n.keys[i - 1] <= key
        /\ i <= n.size => n.keys[i] > key
    BY <1>1, <2>2, <2>3
  <2>6. i = q
    BY <1>1, <1>4, <2>5, AboveInNode
  <2> QED BY <2>1, <2>2, <2>3, <2>4, <2>6
<1>12. /\ q \in 1 .. n.size + 1 /\ n.ptrs[q] = left /\ Fits(n, q, key)
       /\ q > 1 => n.keys[q - 1] \in Nat /\ n.keys[q - 1] < key
       /\ q <= n.size => n.keys[q] \in Nat /\ key < n.keys[q]
       /\ lo[left] = IF q = 1 THEN lo[p] ELSE n.keys[q - 1]
       /\ hi[right] = IF q = n.size + 1 THEN hi[p] ELSE n.keys[q]
       /\ \A i \in 1 .. n.size + 1 : n.ptrs[i] = left => i = q
  <2>1. PICK i \in 1 .. n.size + 1 : n.ptrs[i] = left
    BY <1>3
  <2>2. i = q /\ Fits(n, i, key)
    BY <1>11, <2>1
  <2>3. /\ i > 1 => n.keys[i - 1] \in Nat /\ n.keys[i - 1] < key
        /\ i <= n.size => n.keys[i] \in Nat /\ key < n.keys[i]
    BY <1>11, <2>1
  <2>4. /\ lo[left] = IF i = 1 THEN lo[p] ELSE n.keys[i - 1]
        /\ hi[right] = IF i = n.size + 1 THEN hi[p] ELSE n.keys[i]
    BY <1>11, <2>1
  <2>5. \A x \in 1 .. n.size + 1 : n.ptrs[x] = left => x = q
    BY <1>11
  <2> QED BY <2>1, <2>2, <2>3, <2>4, <2>5
<1>13. q \in Nat /\ 1 <= q /\ q <= n.size + 1
  <2>1. q \in 1 .. n.size + 1
    BY <1>12
  <2> QED BY <1>5, <2>1
<1>14. lo[p] <= key
  <2>0. PICK a, z : a = lo[left] /\ z = n.keys[q - 1]
    OBVIOUS
  <2>1. a \in Nat /\ a < key
    BY <1>1, <1>6, <2>0
  <2>2. CASE q = 1
    <3>1. lo[p] = a
      BY <1>12, <2>0, <2>2
    <3> QED BY <1>1, <2>1, <3>1
  <2>3. CASE q > 1
    <3>1. q - 1 \in 1 .. n.size
      BY <1>5, <1>13, <2>3
    <3>2. lo[p] <= z
      BY <1>7, <2>0, <3>1
    <3>3. z \in Nat /\ z < key
      BY <1>12, <2>0, <2>3
    <3> QED BY <1>1, <1>6, <3>2, <3>3
  <2>4. q = 1 \/ q > 1
    BY <1>5, <1>13
  <2> QED BY <2>2, <2>3, <2>4
<1>15. key < hi[p]
  <2>1. CASE q = n.size + 1
    BY <1>1, <1>12, <2>1
  <2>2. CASE q <= n.size
    <3>1. q \in 1 .. n.size
      BY <1>5, <1>13, <2>2
    <3>2. n.keys[q] < hi[p] /\ n.keys[q] \in Nat /\ key < n.keys[q]
      BY <1>7, <1>12, <2>2, <3>1
    <3> QED BY <1>1, <1>6, <3>2
  <2>3. q = n.size + 1 \/ q <= n.size
    BY <1>5, <1>13
  <2> QED BY <2>1, <2>2, <2>3
<1>16. ht[p] = ht[left] + 1
  <2>1. PICK i \in 1 .. n.size + 1 : n.ptrs[i] = left
    BY <1>3
  <2>2. i \in 1 .. Cap + 1
    BY <1>10
  <2> QED BY <1>1, <1>9, <2>1, <2>2
<1>17. ASSUME NEW j \in 1 .. n.size + 2, NEW c, c = WidePtr(n, q + 1, right, j)
       PROVE  /\ c = 0 => j = 1 /\ WideKey(n, q, key, 1) = lo[p]
              /\ c # 0 => Child(lo, hi, ht, p, c, WideLo(n, q, key, lo[p], j),
                                WideHi(n, q, key, hi[p], j))
  <2>1. CASE j < q
    <3>1. /\ j \in 1 .. n.size + 1 /\ j # n.size + 1 /\ j # n.size + 2 /\ j \in 1 .. Cap + 1
          /\ j # q /\ j < q + 1 /\ (j # 1 => j - 1 < q) /\ (j = 1 => 1 < q)
      BY <1>5, <1>13, <2>1
    <3>2. c = n.ptrs[j] /\ c # left
      BY <1>12, <1>17, <3>1 DEF WidePtr
    <3>3. Sib(c) = c
      BY <1>2, <3>2
    <3>4. /\ WideLo(n, q, key, lo[p], j) = IF j = 1 THEN lo[p] ELSE n.keys[j - 1]
          /\ WideHi(n, q, key, hi[p], j) = n.keys[j]
      BY <2>1, <3>1 DEF WideLo, WideHi, WideKey
    <3>5. c = 0 => j = 1 /\ n.keys[1] = lo[p]
      <4>1. j \in 1 .. n.size + 1 /\ c = n.ptrs[j]
        BY <3>1, <3>2
      <4> QED BY ONLY <1>8, <4>1
    <3>6. ASSUME c = 0 PROVE j = 1 /\ WideKey(n, q, key, 1) = lo[p]
      <4>1. j = 1 /\ n.keys[1] = lo[p]
        BY <3>6, <3>5
      <4>2. 1 < q
        BY <3>1, <4>1
      <4> QED BY <4>1, <4>2 DEF WideKey
    <3>7. ASSUME c # 0
          PROVE Child(lo, hi, ht, p, c, WideLo(n, q, key, lo[p], j), WideHi(n, q, key, hi[p], j))
      <4>1. lo[c] = (IF j = 1 THEN lo[p] ELSE n.keys[j - 1]) /\ hi[c] = n.keys[j]
        <5>1. /\ j \in 1 .. n.size + 1 /\ c = n.ptrs[j] /\ c # 0 /\ Sib(c) = c
              /\ j # n.size + 1
          BY <3>1, <3>2, <3>3, <3>7
        <5> QED BY ONLY <1>8, <5>1
      <4>2. c \in Nodes /\ disk[c].parent = p /\ ht[p] = ht[c] + 1 /\ c # hdr.root
        BY <1>9, <3>1, <3>2, <3>7
      <4> QED BY <3>4, <4>1, <4>2 DEF Child
    <3> QED BY <3>6, <3>7
  <2>2. CASE j = q
    <3>1. j \in 1 .. n.size + 1 /\ j # n.size + 2 /\ j < q + 1 /\ (j # 1 => j - 1 < q) /\ ~(j < q)
      BY <1>5, <1>13, <2>2
    <3>2. c = left
      BY <1>12, <1>17, <2>2, <3>1 DEF WidePtr
    <3>3. /\ WideLo(n, q, key, lo[p], j) = lo[left]
          /\ WideHi(n, q, key, hi[p], j) = hi[left]
      BY <1>1, <1>12, <2>2, <3>1 DEF WideLo, WideHi, WideKey
    <3> QED BY <1>1, <1>16, <3>2, <3>3 DEF Child
  <2>3. CASE j = q + 1
    <3>1. /\ j # 1 /\ j - 1 = q /\ ~(j < q + 1) /\ ~(j < q) /\ j # q /\ ~(q < q)
          /\ (j = n.size + 2 <=> q = n.size + 1)
      BY <1>5, <1>13, <2>3
    <3>2. c = right
      BY <1>17, <2>3, <3>1 DEF WidePtr
    <3>3. /\ WideLo(n, q, key, lo[p], j) = lo[right]
          /\ WideHi(n, q, key, hi[p], j) = hi[right]
      BY <1>1, <1>12, <2>3, <3>1 DEF WideLo, WideHi, WideKey
    <3> QED BY <1>1, <1>16, <3>2, <3>3 DEF Child
  <2>4. CASE j > q + 1
    <3>1. /\ j # 1 /\ j - 1 # 1 /\ ~(j < q + 1) /\ j # q + 1 /\ ~(j < q) /\ j # q
          /\ ~(j - 1 < q) /\ j - 1 # q /\ j - 1 \in 1 .. n.size + 1 /\ j - 1 \in 1 .. Cap + 1
          /\ (j = n.size + 2 <=> j - 1 = n.size + 1) /\ (j - 1) - 1 = j - 2
      BY <1>5, <1>13, <2>4
    <3>2. c = n.ptrs[j - 1] /\ c # left
      BY <1>12, <1>17, <3>1 DEF WidePtr
    <3>3. Sib(c) = c
      BY <1>2, <3>2
    <3>4. c # 0
      BY <1>8, <3>1, <3>2
    <3>5. /\ WideLo(n, q, key, lo[p], j) = n.keys[(j - 1) - 1]
          /\ WideHi(n, q, key, hi[p], j) = IF j - 1 = n.size + 1 THEN hi[p] ELSE n.keys[j - 1]
      BY <3>1 DEF WideLo, WideHi, WideKey
    <3>6. PICK i : i = j - 1
      OBVIOUS
    <3>7. /\ lo[c] = n.keys[i - 1]
          /\ hi[c] = IF i = n.size + 1 THEN hi[p] ELSE n.keys[i]
      <4>1. i \in 1 .. n.size + 1 /\ c = n.ptrs[i] /\ i # 1
        BY <3>1, <3>2, <3>6
      <4>2. i \in 1 .. n.size + 1 /\ c = n.ptrs[i] /\ i # 1 /\ c # 0 /\ Sib(c) = c
        BY <3>3, <3>4, <4>1
      <4> QED BY ONLY <1>8, <4>2
    <3>8. c \in Nodes /\ disk[c].parent = p /\ ht[p] = ht[c] + 1 /\ c # hdr.root
      BY <1>9, <3>1, <3>2, <3>4, <3>6
    <3> QED BY <3>4, <3>5, <3>6, <3>7, <3>8 DEF Child
  <2>5. j < q \/ j = q \/ j = q + 1 \/ j > q + 1
    BY <1>5, <1>13
  <2> QED BY <2>1, <2>2, <2>3, <2>4, <2>5
<1>18. ASSUME NEW j \in 1 .. Cap + 2, j > n.size + 2 PROVE WidePtr(n, q + 1, right, j) = 0
  <2>1. /\ ~(j < q + 1) /\ j # q + 1 /\ j - 1 \in 1 .. Cap + 1 /\ j - 1 > n.size + 1
    BY <1>5, <1>13, <1>18
  <2>2. WidePtr(n, q + 1, right, j) = n.ptrs[j - 1]
    BY <2>1 DEF WidePtr
  <2> QED BY <1>9, <2>1, <2>2
<1>19. ASSUME NEW c \in Nodes, c # hdr.root, disk[c].parent = p
       PROVE  \E j \in 1 .. n.size + 2 : WidePtr(n, q + 1, right, j) = c
  <2>1. CASE c = right
    <3>1. q + 1 \in 1 .. n.size + 2 /\ ~(q + 1 < q + 1)
      BY <1>5, <1>13
    <3>2. WidePtr(n, q + 1, right, q + 1) = c
      BY <2>1, <3>1 DEF WidePtr
    <3> QED BY <3>1, <3>2
  <2>2. CASE c # right
    <3>1. PICK i \in 1 .. n.size + 1 : n.ptrs[i] = c
      BY <1>2, <1>19, <2>2 DEF RangeInv, Linked
    <3>2. CASE i <= q
      <4>1. i \in 1 .. n.size + 2 /\ i < q + 1
        BY <1>5, <1>13, <3>2
      <4>2. WidePtr(n, q + 1, right, i) = c
        BY <3>1, <4>1 DEF WidePtr
      <4> QED BY <4>1, <4>2
    <3>3. CASE i > q
      <4>1. i + 1 \in 1 .. n.size + 2 /\ ~(i + 1 < q + 1) /\ i + 1 # q + 1 /\ (i + 1) - 1 = i
        BY <1>5, <1>13, <3>3
      <4>2. WidePtr(n, q + 1, right, i + 1) = c
        BY <3>1, <4>1 DEF WidePtr
      <4> QED BY <4>1, <4>2
    <3>4. i <= q \/ i > q
      BY <1>5, <1>13
    <3> QED BY <3>2, <3>3, <3>4
  <2> QED BY <2>1, <2>2
<1> QED
  BY <1>3, <1>4, <1>12, <1>14, <1>15, <1>17, <1>18, <1>19

\* The children of a node that is not the parent of the two parts.
LEMMA OtherChildren ==
    ASSUME FileInv, NEW lo \in Ghosts, NEW hi \in Ghosts, NEW ht \in Ghosts, NEW pos,
           RangeInv(lo, hi, ht, pos), Pending,
           NEW p \in I, p # disk[up.left].parent, NEW j \in 1 .. Cap + 1,
           NEW c, c = disk[p].ptrs[j]
    PROVE  /\ j > disk[p].size + 1 => c = 0
           /\ c # 0 => /\ c \in Nodes /\ disk[c].parent = p /\ ht[p] = ht[c] + 1
                       /\ c # hdr.root /\ c # up.left /\ c # up.right
           /\ j \in 1 .. disk[p].size + 1 =>
                IF c = 0 THEN j = 1 /\ disk[p].keys[1] = lo[p]
                ELSE /\ lo[c] = IF j = 1 THEN lo[p] ELSE disk[p].keys[j - 1]
                     /\ hi[c] = IF j = disk[p].size + 1 THEN hi[p] ELSE disk[p].keys[j]
<1>1. /\ j > disk[p].size + 1 => c = 0
      /\ c # 0 => /\ c \in Nodes /\ disk[c].parent = p /\ ht[p] = ht[c] + 1
                  /\ c # hdr.root /\ c # up.right
  BY DEF RangeInv, Linked, Unlinked
<1>2. c # 0 => c # up.left /\ Sib(c) = c
  BY <1>1 DEF Sib
<1>3. ASSUME j \in 1 .. disk[p].size + 1
      PROVE  IF c = 0 THEN j = 1 /\ disk[p].keys[1] = lo[p]
             ELSE /\ lo[c] = IF j = 1 THEN lo[p] ELSE disk[p].keys[j - 1]
                  /\ hi[Sib(c)] = IF j = disk[p].size + 1 THEN hi[p] ELSE disk[p].keys[j]
  BY <1>3 DEF RangeInv, Bounded
<1> QED
  BY <1>1, <1>2, <1>3

LEMMA InsertInParentKeeps ==
    ASSUME TreeInv, InsertInParent
    PROVE  TreeInv' /\ SameEntries
<1>1. PICK lo \in Ghosts, hi \in Ghosts, ht \in Ghosts, pos \in Ghosts :
         RangeInv(lo, hi, ht, pos)
  BY DEF TreeInv
<1>2. PICK left, right, key, p, n, q, m :
        /\ left = up.left /\ right = up.right /\ key = up.key
        /\ p = disk[left].parent /\ n = disk[p] /\ q = Above(n, key)
        /\ m = InnerPlus(n, q, key, right)
  OBVIOUS
<1>3. /\ Pending /\ left # hdr.root /\ n.size < Cap
      /\ disk' = [disk EXCEPT ![p] = m]
      /\ hdr' = hdr /\ pc' = "idle" /\ dhdr' = dhdr /\ open' = open /\ ~Pending'
  BY <1>2 DEF InsertInParent, ParentOf, Ascending, Pending, Return, InnerPlus
<1>4. FileInv /\ HeaderOK /\ FileOK /\ BucketsOK /\ Counted /\ HalfFull
  BY DEF TreeInv, FileInv
<1>5. /\ left \in Nodes /\ right \in Nodes /\ left # right
      /\ disk[left].parent = disk[right].parent
      /\ key \in Nat /\ right \in Nat /\ hdr.root # 0
  BY <1>1, <1>2, <1>3, <1>4, PendingFacts
<1>6. /\ p \in I /\ p \in Nodes /\ n \in Inners /\ KeysOK(n) /\ Fits(n, q, key)
      /\ lo[p] <= key /\ key < hi[p]
      /\ \A j \in 1 .. n.size + 2 : \A c :
            c = WidePtr(n, q + 1, right, j) =>
              /\ c = 0 => j = 1 /\ WideKey(n, q, key, 1) = lo[p]
              /\ c # 0 => Child(lo, hi, ht, p, c, WideLo(n, q, key, lo[p], j),
                                WideHi(n, q, key, hi[p], j))
      /\ \A j \in 1 .. Cap + 2 : j > n.size + 2 => WidePtr(n, q + 1, right, j) = 0
      /\ \A c \in Nodes : c # hdr.root /\ disk[c].parent = p =>
            \E j \in 1 .. n.size + 2 : WidePtr(n, q + 1, right, j) = c
  <2>1. /\ FileInv /\ lo \in Ghosts /\ hi \in Ghosts /\ ht \in Ghosts
        /\ RangeInv(lo, hi, ht, pos) /\ Pending
        /\ left = up.left /\ right = up.right /\ key = up.key
        /\ left # hdr.root /\ p = disk[left].parent /\ n = disk[p] /\ q = Above(n, key)
    BY <1>1, <1>2, <1>3, <1>4
  <2> QED BY ONLY <2>1, WideChildren
<1>7. /\ m \in Inners /\ KeysOK(m)
      /\ m.type = "I" /\ m.size = n.size + 1 /\ m.parent = n.parent
      /\ \A j \in 1 .. m.size : m.keys[j] = WideKey(n, q, key, j)
      /\ \A j \in 1 .. Cap + 1 : m.ptrs[j] = WidePtr(n, q + 1, right, j)
  <2>1. /\ n \in Inners /\ KeysOK(n) /\ n.size < Cap /\ Fits(n, q, key) /\ right \in Nat
        /\ m = InnerPlus(n, q, key, right)
    BY <1>2, <1>3, <1>5, <1>6
  <2> QED BY ONLY <2>1, InnerWithKey
<1>8. /\ n.size \in Nat /\ 1 <= n.size /\ Cap \in Nat /\ n.size < Cap
      /\ q \in 1 .. n.size + 1
  BY <1>3, <1>6, NodeFacts DEF Fits
<1>9. /\ DOMAIN disk' = DOMAIN disk /\ disk'[p] = m
      /\ \A x \in DOMAIN disk : x # p => disk'[x] = disk[x]
      /\ \A x \in Nodes : x \in DOMAIN disk
  BY <1>3, <1>4, <1>6, Kinds
<1>10. L' = L /\ I' = I /\ B' = B /\ Nodes' = Nodes
  <2>1. n.type = "I"
    BY <1>6 DEF Inners
  <2>2. \A x \in DOMAIN disk : disk'[x].type = disk[x].type
    BY <1>2, <1>7, <1>9, <2>1
  <2>3. L' = L /\ I' = I /\ B' = B
    BY <1>9, <2>2 DEF L, I, B, OfType
  <2> QED BY <2>3 DEF Nodes
<1>11. /\ \A x \in L : disk'[x] = disk[x] /\ x \in Nodes
       /\ \A x \in B : disk'[x] = disk[x]
       /\ \A x \in Nodes : disk'[x].parent = disk[x].parent /\ KeysOK(disk'[x])
  <2>1. p \notin L /\ p \notin B
    BY <1>6 DEF L, I, B, OfType
  <2>2. /\ \A x \in L : x \in Nodes /\ x \in DOMAIN disk
        /\ \A x \in B : x \in DOMAIN disk
        /\ \A x \in Nodes : KeysOK(disk[x])
    BY <1>4, Kinds
  <2> QED BY <1>2, <1>7, <1>9, <2>1, <2>2
<1>12. /\ \A x : Sib(x)' = x /\ ~Unlinked(x)'
       /\ \A x : x # left => Sib(x) = x
       /\ \A x : Unlinked(x) <=> x = right
  BY <1>2, <1>3 DEF Sib, Unlinked
<1>13. Bounded(lo, hi)'
  <2>1. lo[hdr.root] = 0 /\ hi[hdr.root] = NilKey
    BY <1>1, <1>3, <1>5, <1>12 DEF RangeInv, Bounded
  <2>2. ASSUME NEW x \in Nodes, NEW i \in 1 .. disk'[x].size
        PROVE  lo[x] <= disk'[x].keys[i] /\ disk'[x].keys[i] < hi[x]
    <3>1. CASE x = p
      <4>1. i \in 1 .. n.size + 1 /\ i \in 1 .. m.size /\ disk'[x].keys[i] = WideKey(n, q, key, i)
        BY <1>7, <1>9, <3>1
      <4>2. PICK a, b : a = lo[p] /\ b = hi[p]
        OBVIOUS
      <4>3. \A z \in 1 .. n.size : a <= n.keys[z] /\ n.keys[z] < b
        BY <1>1, <1>2, <1>6, <4>2 DEF RangeInv, Bounded
      <4>4. a <= WideKey(n, q, key, i) /\ WideKey(n, q, key, i) < b
        BY <1>6, <1>8, <4>1, <4>2, <4>3, WideKeyWithin
      <4> QED BY <3>1, <4>1, <4>2, <4>4
    <3>2. CASE x # p
      BY <1>1, <1>9, <3>2 DEF RangeInv, Bounded
    <3> QED BY <3>1, <3>2
  <2>3. \A x \in Nodes : hi[x] <= NilKey
    BY <1>1 DEF RangeInv, Bounded
  <2>4. ASSUME NEW x \in I, NEW j \in 1 .. disk'[x].size + 1, NEW c, c = disk'[x].ptrs[j]
        PROVE  IF c = 0 THEN j = 1 /\ disk'[x].keys[1] = lo[x]
               ELSE /\ lo[c] = IF j = 1 THEN lo[x] ELSE disk'[x].keys[j - 1]
                    /\ hi[c] = IF j = disk'[x].size + 1 THEN hi[x] ELSE disk'[x].keys[j]
    <3>1. CASE x = p
      <4>1. /\ disk'[x] = m /\ j \in 1 .. n.size + 2 /\ j \in 1 .. Cap + 1
            /\ m.size + 1 = n.size + 2 /\ 1 \in 1 .. m.size
            /\ (j # 1 => j - 1 \in 1 .. m.size) /\ (j # n.size + 2 => j \in 1 .. m.size)
        BY <1>7, <1>8, <1>9, <2>4, <3>1
      <4>2. c = WidePtr(n, q + 1, right, j)
        BY <1>7, <2>4, <4>1
      <4>3. /\ m.keys[1] = WideKey(n, q, key, 1)
            /\ WideLo(n, q, key, lo[p], j) = IF j = 1 THEN lo[p] ELSE m.keys[j - 1]
            /\ WideHi(n, q, key, hi[p], j) = IF j = n.size + 2 THEN hi[p] ELSE m.keys[j]
        BY <1>7, <4>1 DEF WideLo, WideHi
      <4>4. /\ c = 0 => j = 1 /\ WideKey(n, q, key, 1) = lo[p]
            /\ c # 0 => Child(lo, hi, ht, p, c, WideLo(n, q, key, lo[p], j),
                              WideHi(n, q, key, hi[p], j))
        BY <1>6, <4>1, <4>2
      <4>5. ASSUME c = 0 PROVE j = 1 /\ disk'[x].keys[1] = lo[x]
        BY <3>1, <4>1, <4>3, <4>4, <4>5
      <4>6. ASSUME c # 0
            PROVE /\ lo[c] = IF j = 1 THEN lo[x] ELSE disk'[x].keys[j - 1]
                  /\ hi[c] = IF j = disk'[x].size + 1 THEN hi[x] ELSE disk'[x].keys[j]
        BY <3>1, <4>1, <4>3, <4>4, <4>6 DEF Child
      <4> QED BY <4>5, <4>6
    <3>2. CASE x # p
      <4>1. x \in DOMAIN disk /\ disk[x].size \in Nat /\ disk[x].size <= Cap
        <5>1. x \in DOMAIN disk /\ disk[x] \in Leaves \cup Inners /\ KeysOK(disk[x])
          BY <1>4, Kinds
        <5> QED BY <5>1, NodeFacts
      <4>2. disk'[x] = disk[x] /\ j \in 1 .. disk[x].size + 1 /\ j \in 1 .. Cap + 1
        BY <1>8, <1>9, <2>4, <3>2, <4>1
      <4>3. c = disk[x].ptrs[j] /\ x # disk[up.left].parent
        BY <1>2, <2>4, <3>2, <4>2
      <4>4. IF c = 0 THEN j = 1 /\ disk[x].keys[1] = lo[x]
            ELSE /\ lo[c] = IF j = 1 THEN lo[x] ELSE disk[x].keys[j - 1]
                 /\ hi[c] = IF j = disk[x].size + 1 THEN hi[x] ELSE disk[x].keys[j]
        BY <1>1, <1>3, <1>4, <4>2, <4>3, OtherChildren
      <4> QED BY <4>2, <4>4
    <3> QED BY <3>1, <3>2
  <2> QED BY <1>3, <1>10, <1>12, <2>1, <2>2, <2>3, <2>4 DEF Bounded
<1>14. Linked(ht)'
  <2>1. \A x \in L : ht[x] = 0
    BY <1>1 DEF RangeInv, Linked
  <2>2. ASSUME NEW x \in I, NEW j \in 1 .. Cap + 1, NEW c, c = disk'[x].ptrs[j]
        PROVE  /\ j > disk'[x].size + 1 => c = 0
               /\ c # 0 => /\ c \in Nodes /\ disk'[c].parent = x /\ ht[x] = ht[c] + 1
                           /\ c # hdr.root
    <3>1. CASE x = p
      <4>1. /\ disk'[x] = m /\ j \in 1 .. Cap + 2 /\ m.size + 1 = n.size + 2
            /\ (j > n.size + 2 \/ j \in 1 .. n.size + 2)
        BY <1>7, <1>8, <1>9, <3>1
      <4>2. c = WidePtr(n, q + 1, right, j)
        BY <1>7, <2>2, <4>1
      <4>3. j > n.size + 2 => c = 0
        BY <1>6, <4>1, <4>2
      <4>4. ASSUME c # 0
            PROVE  c \in Nodes /\ disk[c].parent = p /\ ht[p] = ht[c] + 1 /\ c # hdr.root
        BY <1>6, <4>1, <4>2, <4>3, <4>4 DEF Child
      <4> QED BY <1>11, <3>1, <4>1, <4>3, <4>4
    <3>2. CASE x # p
      <4>1. x \in DOMAIN disk
        BY <1>4, Kinds
      <4>2. disk'[x] = disk[x] /\ c = disk[x].ptrs[j] /\ x # disk[up.left].parent
        BY <1>2, <1>9, <2>2, <3>2, <4>1
      <4>3. /\ j > disk[x].size + 1 => c = 0
            /\ c # 0 => /\ c \in Nodes /\ disk[c].parent = x /\ ht[x] = ht[c] + 1
                        /\ c # hdr.root
        BY <1>1, <1>3, <1>4, <4>2, OtherChildren
      <4> QED BY <1>11, <4>2, <4>3
    <3> QED BY <3>1, <3>2
  <2>3. ASSUME NEW c \in Nodes, c # hdr.root, NEW x, x = disk[c].parent
        PROVE  x \in I /\ \E j \in 1 .. disk'[x].size + 1 : disk'[x].ptrs[j] = c
    <3>1. CASE x = p
      <4>1. PICK j \in 1 .. n.size + 2 : WidePtr(n, q + 1, right, j) = c
        BY <1>6, <2>3, <3>1
      <4>2. j \in 1 .. Cap + 1 /\ j \in 1 .. m.size + 1
        BY <1>7, <1>8
      <4>3. m.ptrs[j] = c
        BY <1>7, <4>1, <4>2
      <4> QED BY <1>6, <1>9, <3>1, <4>2, <4>3
    <3>2. CASE x # p
      <4>1. c # right
        BY <1>2, <1>5, <2>3, <3>2
      <4>2. x \in I /\ \E j \in 1 .. disk[x].size + 1 : disk[x].ptrs[j] = c
        BY <1>1, <1>12, <2>3, <4>1 DEF RangeInv, Linked
      <4>3. disk'[x] = disk[x]
        BY <1>4, <1>9, <3>2, <4>2, Kinds
      <4> QED BY <4>2, <4>3
    <3> QED BY <3>1, <3>2
  <2>4. ht[hdr.root] <= hdr.numOfInterNodes
    BY <1>1, <1>5 DEF RangeInv, Linked
  <2> QED BY <1>3, <1>10, <1>11, <1>12, <2>1, <2>2, <2>3, <2>4 DEF Linked
<1>15. Chained(lo, hi, pos)'
  BY <1>1, <1>3, <1>10, <1>11 DEF RangeInv, Chained
<1>16. HeaderOK'
  <2>1. open
    BY <1>2, <1>1, <1>3, <1>4, PendingFacts
  <2> QED BY <1>3, <1>4, <2>1 DEF HeaderOK
<1>17. FileOK'
  <2>1. \A x \in DOMAIN disk' : disk'[x] \in Leaves \cup Inners \cup Buckets
    BY <1>4, <1>7, <1>9 DEF FileOK
  <2> QED BY <1>3, <1>4, <1>9, <1>10, <1>11, <2>1 DEF FileOK
<1>18. BucketsOK'
  BY <1>3, <1>4, <1>10, <1>11 DEF BucketsOK
<1>19. Counted'
  BY <1>3, <1>4, <1>10 DEF Counted
<1>20. HalfFull'
  <2>1. ASSUME NEW x \in Nodes, x # hdr.root PROVE disk'[x].size >= Cap \div 2
    <3>1. disk[x].size >= Cap \div 2
      BY <1>4, <2>1 DEF HalfFull
    <3>2. CASE x = p
      <4>1. m.size = n.size + 1 /\ n.size >= Cap \div 2
        BY <1>2, <1>7, <3>1, <3>2
      <4>2. Cap \div 2 \in Nat
        BY HalfFacts
      <4>3. m.size >= Cap \div 2
        BY <1>8, <4>1, <4>2
      <4> QED BY <1>9, <3>2, <4>3
    <3>3. CASE x # p
      BY <1>9, <3>1, <3>3
    <3> QED BY <3>2, <3>3
  <2> QED BY <1>3, <1>10, <2>1 DEF HalfFull
<1>21. CallOK(lo, hi, ht)'
  BY <1>3 DEF CallOK
<1>22. FileInv' /\ RangeInv(lo, hi, ht, pos)'
  BY <1>13, <1>14, <1>15, <1>16, <1>17, <1>18, <1>19, <1>20, <1>21 DEF FileInv, RangeInv
<1>23. SameEntries
  <2>1. \A k, x : Filed(k, x)' <=> Filed(k, x)
    BY <1>10, <1>11, EntriesSame
  <2> QED BY <1>3, <1>10, <1>11, <2>1 DEF SameEntries
<1> QED
  BY <1>1, <1>22, <1>23 DEF TreeInv

\* A node has a key, so its range is not empty.
LEMMA RangeNotEmpty ==
    ASSUME FileInv, NEW lo \in Ghosts, NEW hi \in Ghosts, Bounded(lo, hi), NEW b \in Nodes
    PROVE  lo[b] < hi[b] /\ lo[b] \in Nat /\ hi[b] \in Nat
<1>1. b \in Nat /\ disk[b] \in Leaves \cup Inners /\ KeysOK(disk[b])
  BY Kinds DEF FileInv
<1>2. lo[b] \in Nat /\ hi[b] \in Nat
  BY <1>1 DEF Ghosts
<1>3. 1 \in 1 .. disk[b].size /\ disk[b].keys[1] \in Nat
  <2>1. disk[b].size \in Nat /\ 1 <= disk[b].size /\ Cap \in Nat /\ 1 \in 1 .. Cap
    BY <1>1, NodeFacts, TreeAssumption
  <2>2. disk[b].keys[1] \in Nat
    BY <1>1, <2>1, NodeFacts
  <2> QED BY <2>1, <2>2
<1>4. lo[b] <= disk[b].keys[1] /\ disk[b].keys[1] < hi[b]
  BY <1>3 DEF Bounded
<1> QED
  BY <1>2, <1>3, <1>4

\* A full parent is split: the children of the left part stay, the others move.
\* The first pointer of the right part is null, and no key before its first key
\* is sought in it.
SplitParts(lo, hi, ht, p, n, l, r, mv, mid) ==
    /\ p \in I /\ p \in Nodes /\ n \in Inners
    /\ l \in Inners /\ KeysOK(l) /\ l.type = "I" /\ l.size = Half /\ l.parent = n.parent
    /\ r \in Inners /\ KeysOK(r) /\ r.type = "I" /\ r.size = Cap + 1 - Half
    /\ r.parent = n.parent
    /\ mid \in Nat /\ mid < NilKey
    /\ \A i \in 1 .. l.size : lo[p] <= l.keys[i] /\ l.keys[i] < mid
    /\ \A i \in 1 .. r.size : mid <= r.keys[i] /\ r.keys[i] < hi[p]
    /\ \A j \in 1 .. Cap + 1 : \A c : c = l.ptrs[j] =>
         /\ j > l.size + 1 => c = 0
         /\ c = 0 /\ j <= l.size + 1 => j = 1 /\ l.keys[1] = lo[p]
         /\ c # 0 => /\ c \notin mv
                     /\ Child(lo, hi, ht, p, c, IF j = 1 THEN lo[p] ELSE l.keys[j - 1],
                              IF j = l.size + 1 THEN mid ELSE l.keys[j])
    /\ \A j \in 1 .. Cap + 1 : \A c : c = r.ptrs[j] =>
         /\ j > r.size + 1 => c = 0
         /\ c = 0 /\ j <= r.size + 1 => j = 1
         /\ c # 0 => /\ c \in mv
                     /\ Child(lo, hi, ht, p, c, IF j = 1 THEN mid ELSE r.keys[j - 1],
                              IF j = r.size + 1 THEN hi[p] ELSE r.keys[j])
    /\ \A c \in mv : /\ c \in Nodes /\ disk[c].parent = p /\ c # hdr.root
                     /\ ht[p] = ht[c] + 1
                     /\ \E j \in 1 .. r.size + 1 : r.ptrs[j] = c
    /\ \A c \in Nodes : c # hdr.root /\ disk[c].parent = p =>
         \/ \E j \in 1 .. l.size + 1 : l.ptrs[j] = c
         \/ \E j \in 1 .. r.size + 1 : r.ptrs[j] = c

LEMMA SplitChildren ==
    ASSUME FileInv, NEW lo \in Ghosts, NEW hi \in Ghosts, NEW ht \in Ghosts, NEW pos,
           RangeInv(lo, hi, ht, pos), Pending,
           NEW left, left = up.left, NEW right, right = up.right, NEW key, key = up.key,
           left # hdr.root, NEW p, p = disk[left].parent, NEW n, n = disk[p],
           NEW q, q = Above(n, key), n.size = Cap,
           NEW l, l = InnerLeft(n, q, key, right), NEW r, r = InnerRight(n, q, key, right),
           NEW mv, mv = ToSet(Moved(n, q, right)), NEW mid, mid = r.keys[1]
    PROVE  SplitParts(lo, hi, ht, p, n, l, r, mv, mid)
<1>1. right \in Nat /\ key \in Nat
  BY PendingFacts
<1>2. /\ p \in I /\ p \in Nodes /\ n \in Inners /\ KeysOK(n) /\ Fits(n, q, key)
      /\ lo[p] <= key /\ key < hi[p]
      /\ \A j \in 1 .. n.size + 2 : \A c :
            c = WidePtr(n, q + 1, right, j) =>
              /\ c = 0 => j = 1 /\ WideKey(n, q, key, 1) = lo[p]
              /\ c # 0 => Child(lo, hi, ht, p, c, WideLo(n, q, key, lo[p], j),
                                WideHi(n, q, key, hi[p], j))
      /\ \A c \in Nodes : c # hdr.root /\ disk[c].parent = p =>
            \E j \in 1 .. n.size + 2 : WidePtr(n, q + 1, right, j) = c
  <2>1. /\ FileInv /\ lo \in Ghosts /\ hi \in Ghosts /\ ht \in Ghosts
        /\ RangeInv(lo, hi, ht, pos) /\ Pending
        /\ left = up.left /\ right = up.right /\ key = up.key
        /\ left # hdr.root /\ p = disk[left].parent /\ n = disk[p] /\ q = Above(n, key)
    OBVIOUS
  <2> QED BY ONLY <2>1, WideChildren
<1>3. /\ l \in Inners /\ KeysOK(l)
      /\ l.type = "I" /\ l.size = Half /\ l.parent = n.parent
      /\ \A j \in 1 .. Half : l.keys[j] = WideKey(n, q, key, j)
      /\ \A j \in 1 .. Half + 1 : l.ptrs[j] = WidePtr(n, q + 1, right, j)
      /\ \A j \in 1 .. Cap + 1 : j > Half + 1 => l.ptrs[j] = 0
      /\ r \in Inners /\ KeysOK(r)
      /\ r.type = "I" /\ r.size = Cap + 1 - Half /\ r.parent = n.parent
      /\ \A j \in 1 .. Cap + 1 - Half : r.keys[j] = WideKey(n, q, key, Half + j)
      /\ r.ptrs[1] = 0
      /\ \A j \in 2 .. Cap + 2 - Half : r.ptrs[j] = WidePtr(n, q + 1, right, Half + j)
      /\ \A j \in 1 .. Cap + 1 : j > Cap + 2 - Half => r.ptrs[j] = 0
      /\ mv = {WidePtr(n, q + 1, right, Half + j) : j \in 2 .. Cap + 2 - Half}
  <2>1. /\ n \in Inners /\ KeysOK(n) /\ n.size = Cap /\ Fits(n, q, key) /\ right \in Nat
        /\ l = InnerLeft(n, q, key, right) /\ r = InnerRight(n, q, key, right)
    BY <1>1, <1>2
  <2>2. mv = ToSet(Moved(n, q, right))
    OBVIOUS
  <2> QED BY ONLY <2>1, <2>2, InnerHalves
<1>4. l.size = Half /\ r.size = Cap + 1 - Half
  BY <1>3
<1>5. \A j \in 1 .. Half : l.keys[j] = WideKey(n, q, key, j)
  BY <1>3
<1>6. \A j \in 1 .. Half + 1 : l.ptrs[j] = WidePtr(n, q + 1, right, j)
  BY <1>3
<1>7. \A j \in 1 .. Cap + 1 - Half : r.keys[j] = WideKey(n, q, key, Half + j)
  BY <1>3
<1>8. \A j \in 2 .. Cap + 2 - Half : r.ptrs[j] = WidePtr(n, q + 1, right, Half + j)
  BY <1>3
<1>9. mv = {WidePtr(n, q + 1, right, Half + j) : j \in 2 .. Cap + 2 - Half}
  BY <1>3
<1>10. Half \in Nat /\ 1 <= Half /\ Half <= Cap /\ Cap \in Nat /\ Cap + 1 - Half >= 1
  BY HalfFacts
\* The wide node's keys W go up from lo[p] to before hi[p].
<1> DEFINE W(j) == WideKey(n, q, key, j)
           P(j) == WidePtr(n, q + 1, right, j)
<1>11. /\ \A j \in 1 .. Cap + 1 : W(j) \in Nat /\ W(j) < NilKey
      /\ \A i, j \in 1 .. Cap + 1 : i < j => W(i) < W(j)
  <2>1. n \in Leaves \cup Inners /\ n.size = Cap
    BY <1>2
  <2> QED BY <1>2, <2>1, WideKeys
<1>12. \A j \in 1 .. Cap + 1 : lo[p] <= W(j) /\ W(j) < hi[p]
  <2>1. PICK a, b : a = lo[p] /\ b = hi[p]
    OBVIOUS
  <2>2. \A z \in 1 .. n.size : a <= n.keys[z] /\ n.keys[z] < b
    BY <1>2, <2>1 DEF RangeInv, Bounded
  <2>3. q \in 1 .. n.size + 1 /\ n.size \in Nat
    BY <1>2, <1>10 DEF Fits
  <2>4. a <= key /\ key < b
    BY <1>2, <2>1
  <2>5. ASSUME NEW j \in 1 .. n.size + 1
        PROVE  a <= WideKey(n, q, key, j) /\ WideKey(n, q, key, j) < b
    <3>1. j \in 1 .. n.size + 1
      OBVIOUS
    <3> QED BY ONLY <2>2, <2>3, <2>4, <3>1, WideKeyWithin
  <2> QED BY <2>1, <2>5
<1>13. mid = W(Half + 1) /\ Half + 1 \in 1 .. Cap + 1 /\ mid \in Nat /\ mid < NilKey
  <2>1. 1 \in 1 .. Cap + 1 - Half /\ Half + 1 \in 1 .. Cap + 1
    BY <1>10
  <2>2. mid = WideKey(n, q, key, Half + 1)
    BY <1>7, <2>1
  <2> QED BY <1>11, <2>1, <2>2
<1>14. \A j \in 1 .. Cap + 2 : \A c : c = P(j) =>
        /\ c = 0 => j = 1 /\ W(1) = lo[p]
        /\ c # 0 => Child(lo, hi, ht, p, c, WideLo(n, q, key, lo[p], j),
                          WideHi(n, q, key, hi[p], j))
  BY <1>2
<1>15. \A j \in 1 .. Cap + 2 :
        /\ WideLo(n, q, key, lo[p], j) = IF j = 1 THEN lo[p] ELSE W(j - 1)
        /\ WideHi(n, q, key, hi[p], j) = IF j = Cap + 2 THEN hi[p] ELSE W(j)
  BY DEF WideLo, WideHi
<1> HIDE DEF W, P
<1>16. ASSUME NEW i \in 1 .. l.size PROVE lo[p] <= l.keys[i] /\ l.keys[i] < mid
  <2>1. i \in 1 .. Half /\ i \in 1 .. Cap + 1 /\ i < Half + 1
    BY <1>4, <1>10
  <2>2. l.keys[i] = W(i)
    BY <1>5, <2>1 DEF W
  <2> QED BY <1>11, <1>12, <1>13, <2>1, <2>2
<1>17. ASSUME NEW i \in 1 .. r.size PROVE mid <= r.keys[i] /\ r.keys[i] < hi[p]
  <2>1. i \in 1 .. Cap + 1 - Half /\ Half + i \in 1 .. Cap + 1
        /\ (i = 1 \/ Half + 1 < Half + i)
    BY <1>4, <1>10
  <2>2. r.keys[i] = W(Half + i)
    BY <1>7, <2>1 DEF W
  <2>3. r.keys[i] < hi[p]
    BY <1>12, <2>1, <2>2
  <2>4. CASE i = 1
    <3>1. r.keys[i] = mid
      BY <2>4
    <3> QED BY <1>13, <2>3, <3>1
  <2>5. CASE Half + 1 < Half + i
    <3>1. W(Half + 1) < W(Half + i) /\ W(Half + i) \in Nat
      BY <1>11, <1>13, <2>1, <2>5
    <3> QED BY <1>13, <2>2, <2>3, <3>1
  <2> QED BY <2>1, <2>4, <2>5
\* What moves starts at mid or later, what stays ends there or before.
<1>18. ASSUME NEW c \in mv
       PROVE  \E j \in 2 .. Cap + 2 - Half :
                 /\ c = r.ptrs[j] /\ c = P(Half + j) /\ c # 0 /\ mid <= lo[c]
                 /\ c \in Nodes /\ disk[c].parent = p /\ c # hdr.root /\ ht[p] = ht[c] + 1
  <2>1. PICK j \in 2 .. Cap + 2 - Half : c = P(Half + j)
    BY <1>9 DEF P
  <2>2. PICK z : z = Half + j
    OBVIOUS
  <2>3. /\ z \in 1 .. Cap + 2 /\ z # 1 /\ z - 1 \in 1 .. Cap + 1
        /\ (z - 1 = Half + 1 \/ Half + 1 < z - 1)
    BY <1>10, <2>2
  <2>4. c # 0
    BY <1>14, <2>1, <2>2, <2>3
  <2>5. Child(lo, hi, ht, p, c, W(z - 1), WideHi(n, q, key, hi[p], z))
    <3>1. WideLo(n, q, key, lo[p], z) = W(z - 1)
      BY <1>15, <2>3
    <3>2. Child(lo, hi, ht, p, c, WideLo(n, q, key, lo[p], z), WideHi(n, q, key, hi[p], z))
      BY <1>14, <2>1, <2>2, <2>3, <2>4
    <3> QED BY <3>1, <3>2
  <2>6. mid <= W(z - 1)
    <3>1. CASE z - 1 = Half + 1
      BY <1>13, <3>1
    <3>2. CASE Half + 1 < z - 1
      <4>1. W(Half + 1) < W(z - 1) /\ W(z - 1) \in Nat
        BY <1>11, <1>13, <2>3, <3>2
      <4> QED BY <1>13, <4>1
    <3> QED BY <2>3, <3>1, <3>2
  <2>7. c = r.ptrs[j]
    BY <1>8, <2>1 DEF P
  <2> QED BY <2>1, <2>4, <2>5, <2>6, <2>7 DEF Child
<1>19. ASSUME NEW j \in 1 .. Cap + 1, NEW c, c = l.ptrs[j]
       PROVE  /\ j > l.size + 1 => c = 0
              /\ c = 0 /\ j <= l.size + 1 => j = 1 /\ l.keys[1] = lo[p]
              /\ c # 0 => /\ c \notin mv
                          /\ Child(lo, hi, ht, p, c, IF j = 1 THEN lo[p] ELSE l.keys[j - 1],
                                   IF j = l.size + 1 THEN mid ELSE l.keys[j])
  <2>1. j > l.size + 1 => c = 0
    BY <1>3, <1>19
  <2>2. ASSUME j <= l.size + 1 PROVE /\ j \in 1 .. Half + 1 /\ j \in 1 .. Cap + 2
                                     /\ j # Cap + 2 /\ (j # 1 => j - 1 \in 1 .. Half)
                                     /\ (j # Half + 1 => j \in 1 .. Half) /\ 1 \in 1 .. Half
                                     /\ j \in 1 .. Cap + 1
                                     /\ (j = Half + 1 \/ j < Half + 1)
    BY <1>4, <1>10, <2>2
  <2>3. ASSUME j <= l.size + 1 PROVE c = P(j)
    BY <1>6, <1>19, <2>2, <2>3 DEF P
  <2>4. ASSUME c = 0, j <= l.size + 1 PROVE j = 1 /\ l.keys[1] = lo[p]
    <3>1. j = 1 /\ W(1) = lo[p]
      BY <1>14, <2>2, <2>3, <2>4
    <3>2. l.keys[1] = W(1)
      BY <1>5, <2>2, <2>4 DEF W
    <3> QED BY <3>1, <3>2
  <2>5. ASSUME c # 0
        PROVE  /\ c \notin mv
               /\ Child(lo, hi, ht, p, c, IF j = 1 THEN lo[p] ELSE l.keys[j - 1],
                        IF j = l.size + 1 THEN mid ELSE l.keys[j])
    <3>0. j <= l.size + 1
      BY <1>4, <1>10, <2>1, <2>5
    <3>1. Child(lo, hi, ht, p, c, WideLo(n, q, key, lo[p], j), WideHi(n, q, key, hi[p], j))
      BY <1>14, <2>2, <2>3, <2>5, <3>0
    <3>2. WideLo(n, q, key, lo[p], j) = IF j = 1 THEN lo[p] ELSE l.keys[j - 1]
      <4>1. j # 1 => l.keys[j - 1] = W(j - 1)
        BY <1>5, <2>2, <3>0 DEF W
      <4> QED BY <1>15, <2>2, <3>0, <4>1
    <3>3. WideHi(n, q, key, hi[p], j) = W(j)
      BY <1>15, <2>2, <3>0
    <3>4. W(j) = IF j = l.size + 1 THEN mid ELSE l.keys[j]
      <4>1. j # Half + 1 => l.keys[j] = W(j)
        BY <1>5, <2>2, <3>0 DEF W
      <4>2. l.size = Half /\ mid = W(Half + 1)
        BY <1>4, <1>13
      <4> QED BY <4>1, <4>2
    <3>5. W(j) <= mid
      <4>1. CASE j = Half + 1
        BY <1>13, <4>1
      <4>2. CASE j < Half + 1
        <5>1. W(j) < W(Half + 1) /\ W(j) \in Nat
          BY <1>11, <1>13, <2>2, <3>0, <4>2
        <5> QED BY <1>13, <5>1
      <4> QED BY <2>2, <3>0, <4>1, <4>2
    <3>6. lo[c] < W(j) /\ lo[c] \in Nat /\ W(j) \in Nat
      <4>1. c \in Nodes /\ hi[c] = W(j)
        BY <3>1, <3>3 DEF Child
      <4>2. lo[c] < hi[c] /\ lo[c] \in Nat /\ hi[c] \in Nat
        BY <4>1, RangeNotEmpty DEF RangeInv
      <4> QED BY <4>1, <4>2
    <3>7. ASSUME c \in mv PROVE FALSE
      <4>1. mid <= lo[c]
        BY <1>18, <3>7
      <4> QED BY <1>13, <3>5, <3>6, <4>1
    <3> QED BY <3>1, <3>2, <3>3, <3>4, <3>7
  <2> QED BY <2>1, <2>4, <2>5
<1>20. ASSUME NEW j \in 1 .. Cap + 1, NEW c, c = r.ptrs[j]
       PROVE  /\ j > r.size + 1 => c = 0
              /\ c = 0 /\ j <= r.size + 1 => j = 1
              /\ c # 0 => /\ c \in mv
                          /\ Child(lo, hi, ht, p, c, IF j = 1 THEN mid ELSE r.keys[j - 1],
                                   IF j = r.size + 1 THEN hi[p] ELSE r.keys[j])
  <2>0. r.size + 1 = Cap + 2 - Half
    BY <1>4, <1>10
  <2>1. j > r.size + 1 => c = 0
    BY <1>3, <1>20, <2>0
  <2>2. j = 1 => c = 0
    BY <1>3, <1>20
  <2>3. ASSUME j <= r.size + 1, j # 1
        PROVE  /\ c # 0 /\ c \in mv
               /\ Child(lo, hi, ht, p, c, IF j = 1 THEN mid ELSE r.keys[j - 1],
                        IF j = r.size + 1 THEN hi[p] ELSE r.keys[j])
    <3>1. PICK z : z = Half + j
      OBVIOUS
    <3>2. /\ j \in 2 .. Cap + 2 - Half /\ z \in 1 .. Cap + 2 /\ z # 1
          /\ j - 1 \in 1 .. Cap + 1 - Half /\ Half + (j - 1) = z - 1
          /\ (j # r.size + 1 => j \in 1 .. Cap + 1 - Half)
          /\ (j = r.size + 1 <=> z = Cap + 2)
      BY <1>10, <2>0, <2>3, <3>1
    <3>3. c = P(z)
      BY <1>8, <1>20, <3>1, <3>2 DEF P
    <3>4. c = P(z) /\ c \in mv
      BY <1>9, <3>1, <3>2, <3>3 DEF P
    <3>5. c # 0
      BY <1>14, <3>2, <3>4
    <3>6. Child(lo, hi, ht, p, c, WideLo(n, q, key, lo[p], z), WideHi(n, q, key, hi[p], z))
      BY <1>14, <3>2, <3>4, <3>5
    <3>7. WideLo(n, q, key, lo[p], z) = r.keys[j - 1]
      <4>1. r.keys[j - 1] = W(z - 1)
        <5>1. PICK y : y = j - 1
          OBVIOUS
        <5>2. y \in 1 .. Cap + 1 - Half /\ Half + y = z - 1
          BY <3>2, <5>1
        <5>3. r.keys[y] = WideKey(n, q, key, Half + y)
          BY <1>7, <5>2
        <5> QED BY <5>1, <5>2, <5>3 DEF W
      <4> QED BY <1>15, <3>2, <4>1
    <3>8. WideHi(n, q, key, hi[p], z) = IF j = r.size + 1 THEN hi[p] ELSE r.keys[j]
      <4>1. j # r.size + 1 => r.keys[j] = W(z)
        BY <1>7, <3>1, <3>2 DEF W
      <4> QED BY <1>15, <3>2, <4>1
    <3> QED BY <2>3, <3>4, <3>5, <3>6, <3>7, <3>8
  <2>4. j <= r.size + 1 \/ j > r.size + 1
    BY <1>10, <2>0
  <2> QED BY <2>1, <2>2, <2>3, <2>4
<1>21. ASSUME NEW c \in mv
       PROVE  /\ c \in Nodes /\ disk[c].parent = p /\ c # hdr.root /\ ht[p] = ht[c] + 1
              /\ \E j \in 1 .. r.size + 1 : r.ptrs[j] = c
  <2>1. \A j \in 2 .. Cap + 2 - Half : j \in 1 .. r.size + 1
    BY <1>4, <1>10
  <2>2. PICK j \in 2 .. Cap + 2 - Half :
          /\ c = r.ptrs[j] /\ c = P(Half + j) /\ c # 0 /\ mid <= lo[c]
          /\ c \in Nodes /\ disk[c].parent = p /\ c # hdr.root /\ ht[p] = ht[c] + 1
    BY ONLY <1>18, <1>21
  <2>3. j \in 1 .. r.size + 1 /\ r.ptrs[j] = c
    BY <2>1, <2>2
  <2> QED BY <2>2, <2>3
<1>22. ASSUME NEW c \in Nodes, c # hdr.root, disk[c].parent = p
       PROVE  \/ \E j \in 1 .. l.size + 1 : l.ptrs[j] = c
              \/ \E j \in 1 .. r.size + 1 : r.ptrs[j] = c
  <2>1. PICK j \in 1 .. Cap + 2 : P(j) = c
    BY <1>2, <1>22 DEF P
  <2>2. CASE j <= Half + 1
    <3>1. j \in 1 .. Half + 1 /\ j \in 1 .. l.size + 1
      BY <1>4, <1>10, <2>2
    <3>2. l.ptrs[j] = c
      BY <1>6, <2>1, <3>1 DEF P
    <3> QED BY <3>1, <3>2
  <2>3. CASE j > Half + 1
    <3>1. PICK i : i = j - Half
      OBVIOUS
    <3>2. i \in 2 .. Cap + 2 - Half /\ Half + i = j /\ i \in 1 .. r.size + 1
      BY <1>4, <1>10, <2>3, <3>1
    <3>3. r.ptrs[i] = c
      BY <1>8, <2>1, <3>2 DEF P
    <3> QED BY <3>2, <3>3
  <2>4. j <= Half + 1 \/ j > Half + 1
    BY <1>10
  <2> QED BY <2>2, <2>3, <2>4
<1>23. \A j \in 1 .. Cap + 1 : \A c : c = l.ptrs[j] =>
         /\ j > l.size + 1 => c = 0
         /\ c = 0 /\ j <= l.size + 1 => j = 1 /\ l.keys[1] = lo[p]
         /\ c # 0 => /\ c \notin mv
                     /\ Child(lo, hi, ht, p, c, IF j = 1 THEN lo[p] ELSE l.keys[j - 1],
                              IF j = l.size + 1 THEN mid ELSE l.keys[j])
  BY ONLY <1>19
<1>24. \A j \in 1 .. Cap + 1 : \A c : c = r.ptrs[j] =>
         /\ j > r.size + 1 => c = 0
         /\ c = 0 /\ j <= r.size + 1 => j = 1
         /\ c # 0 => /\ c \in mv
                     /\ Child(lo, hi, ht, p, c, IF j = 1 THEN mid ELSE r.keys[j - 1],
                              IF j = r.size + 1 THEN hi[p] ELSE r.keys[j])
  BY ONLY <1>20
<1>25. /\ \A i \in 1 .. l.size : lo[p] <= l.keys[i] /\ l.keys[i] < mid
       /\ \A i \in 1 .. r.size : mid <= r.keys[i] /\ r.keys[i] < hi[p]
  BY <1>16, <1>17
<1>26. /\ p \in I /\ p \in Nodes /\ n \in Inners
       /\ l \in Inners /\ KeysOK(l) /\ l.type = "I" /\ l.size = Half /\ l.parent = n.parent
       /\ r \in Inners /\ KeysOK(r) /\ r.type = "I" /\ r.size = Cap + 1 - Half
       /\ r.parent = n.parent
       /\ mid \in Nat /\ mid < NilKey
  BY <1>2, <1>3, <1>13
<1>27. \A c \in mv : /\ c \in Nodes /\ disk[c].parent = p /\ c # hdr.root
                      /\ ht[p] = ht[c] + 1
                      /\ \E j \in 1 .. r.size + 1 : r.ptrs[j] = c
  BY ONLY <1>21
<1> QED
  BY ONLY <1>22, <1>23, <1>24, <1>25, <1>26, <1>27 DEF SplitParts

\* The header when a node was added.
LEMMA OneMoreInner ==
    ASSUME hdr \in Headers, NEW hd,
           hd = [hdr EXCEPT !.numOfBlocks = @ + 1, !.numOfInterNodes = @ + 1]
    PROVE  /\ hd \in Headers /\ hd.root = hdr.root /\ hd.duplicate = hdr.duplicate
           /\ hd.numOfBlocks = hdr.numOfBlocks + 1
           /\ hd.numOfInterNodes = hdr.numOfInterNodes + 1
           /\ hd.numOfLeafNodes = hdr.numOfLeafNodes
           /\ hd.numOfPtrBucket = hdr.numOfPtrBucket
<1>1. PICK x, y, g : /\ x = hdr.numOfBlocks + 1 /\ y = hdr.numOfInterNodes + 1
                     /\ g = [hdr EXCEPT !.numOfBlocks = x]
  OBVIOUS
<1>2. x \in Nat /\ y \in Nat
  BY <1>1 DEF Headers
<1>3. g \in Headers /\ g.root = hdr.root /\ g.duplicate = hdr.duplicate
      /\ g.numOfBlocks = x /\ g.numOfInterNodes = hdr.numOfInterNodes
      /\ g.numOfLeafNodes = hdr.numOfLeafNodes /\ g.numOfPtrBucket = hdr.numOfPtrBucket
  BY <1>1, <1>2 DEF Headers
<1>4. hd = [g EXCEPT !.numOfInterNodes = y]
  BY <1>1, <1>3 DEF Headers
<1>5. hd \in Headers /\ hd.root = g.root /\ hd.duplicate = g.duplicate
      /\ hd.numOfBlocks = g.numOfBlocks /\ hd.numOfInterNodes = y
      /\ hd.numOfLeafNodes = g.numOfLeafNodes /\ hd.numOfPtrBucket = g.numOfPtrBucket
  BY <1>2, <1>3, <1>4 DEF Headers
<1> QED
  BY <1>1, <1>3, <1>5

LEMMA SplitInternalKeeps ==
    ASSUME TreeInv, SplitInternal
    PROVE  TreeInv' /\ SameEntries
<1>1. PICK lo \in Ghosts, hi \in Ghosts, ht \in Ghosts, pos \in Ghosts :
         RangeInv(lo, hi, ht, pos)
  BY DEF TreeInv
<1>2. PICK left, right, key, p, n, q, new, l, r, mv, mid :
        /\ left = up.left /\ right = up.right /\ key = up.key
        /\ p = disk[left].parent /\ n = disk[p] /\ q = Above(n, key)
        /\ new = hdr.numOfBlocks
        /\ l = InnerLeft(n, q, key, right) /\ r = InnerRight(n, q, key, right)
        /\ mv = ToSet(Moved(n, q, right)) /\ mid = r.keys[1]
  OBVIOUS
<1>3. /\ Pending /\ left # hdr.root /\ n.size = Cap
      /\ disk' = [b \in DOMAIN disk \cup {new} |->
                    IF b = p THEN l ELSE IF b = new THEN r
                    ELSE IF b \in mv THEN Adopted(disk[b], new) ELSE disk[b]]
      /\ hdr' = [hdr EXCEPT !.numOfBlocks = @ + 1, !.numOfInterNodes = @ + 1]
      /\ up' = [left |-> p, key |-> mid, right |-> new]
      /\ pc' = "parent" /\ dhdr' = dhdr /\ open' = open /\ Pending'
  BY <1>2 DEF SplitInternal, ParentOf, Ascending, Pending, InnerLeft, InnerRight, Moved,
              KeySlice, PtrSlice, Reparent, Adopted
<1>4. FileInv /\ HeaderOK /\ FileOK /\ BucketsOK /\ Counted /\ HalfFull /\ hdr \in Headers
  BY DEF TreeInv, FileInv, HeaderOK
<1>5. /\ left \in Nodes /\ right \in Nodes /\ disk[left].parent = disk[right].parent
      /\ open /\ hdr.root # 0 /\ hdr.root \in Nodes /\ NilKey \in Nat
      /\ \A x \in Nat : lo[x] \in Nat /\ hi[x] \in Nat /\ ht[x] \in Nat
  <2>1. /\ FileInv /\ lo \in Ghosts /\ hi \in Ghosts /\ ht \in Ghosts
        /\ RangeInv(lo, hi, ht, pos) /\ Pending
        /\ left = up.left /\ right = up.right /\ key = up.key
    BY <1>1, <1>2, <1>3, <1>4
  <2> QED BY ONLY <2>1, PendingFacts
<1>6. /\ p \in I /\ p \in Nodes /\ n \in Inners
      /\ l \in Inners /\ KeysOK(l) /\ l.type = "I" /\ l.size = Half /\ l.parent = n.parent
      /\ r \in Inners /\ KeysOK(r) /\ r.type = "I" /\ r.size = Cap + 1 - Half
      /\ r.parent = n.parent
      /\ mid \in Nat /\ mid < NilKey
      /\ \A i \in 1 .. l.size : lo[p] <= l.keys[i] /\ l.keys[i] < mid
      /\ \A i \in 1 .. r.size : mid <= r.keys[i] /\ r.keys[i] < hi[p]
      /\ \A j \in 1 .. Cap + 1 : \A c : c = l.ptrs[j] =>
           /\ j > l.size + 1 => c = 0
           /\ c = 0 /\ j <= l.size + 1 => j = 1 /\ l.keys[1] = lo[p]
           /\ c # 0 => /\ c \notin mv
                       /\ Child(lo, hi, ht, p, c, IF j = 1 THEN lo[p] ELSE l.keys[j - 1],
                                IF j = l.size + 1 THEN mid ELSE l.keys[j])
      /\ \A j \in 1 .. Cap + 1 : \A c : c = r.ptrs[j] =>
           /\ j > r.size + 1 => c = 0
           /\ c = 0 /\ j <= r.size + 1 => j = 1
           /\ c # 0 => /\ c \in mv
                       /\ Child(lo, hi, ht, p, c, IF j = 1 THEN mid ELSE r.keys[j - 1],
                                IF j = r.size + 1 THEN hi[p] ELSE r.keys[j])
      /\ \A c \in mv : /\ c \in Nodes /\ disk[c].parent = p /\ c # hdr.root
                       /\ ht[p] = ht[c] + 1
                       /\ \E j \in 1 .. r.size + 1 : r.ptrs[j] = c
      /\ \A c \in Nodes : c # hdr.root /\ disk[c].parent = p =>
           \/ \E j \in 1 .. l.size + 1 : l.ptrs[j] = c
           \/ \E j \in 1 .. r.size + 1 : r.ptrs[j] = c
  <2>1. left = up.left /\ right = up.right /\ key = up.key
    BY <1>2
  <2>2. left # hdr.root /\ p = disk[left].parent /\ n = disk[p] /\ q = Above(n, key)
    BY <1>2, <1>3
  <2>3. /\ n.size = Cap /\ l = InnerLeft(n, q, key, right) /\ r = InnerRight(n, q, key, right)
        /\ mv = ToSet(Moved(n, q, right)) /\ mid = r.keys[1]
    BY <1>2, <1>3
  <2>4. FileInv /\ RangeInv(lo, hi, ht, pos) /\ Pending
    BY <1>1, <1>3, <1>4
  <2>5. SplitParts(lo, hi, ht, p, n, l, r, mv, mid)
    BY ONLY <2>1, <2>2, <2>3, <2>4, SplitChildren, lo \in Ghosts, hi \in Ghosts, ht \in Ghosts
  <2> QED BY ONLY <2>5 DEF SplitParts
<1>7. /\ DOMAIN disk = 1 .. new - 1 /\ new \in Nat /\ new # 0 /\ new \notin DOMAIN disk
      /\ \A x \in Nodes : x \in DOMAIN disk /\ x \in Nat /\ x # new /\ x # 0
  <2>1. DOMAIN disk = 1 .. new - 1 /\ new \in Nat
    BY <1>2, <1>4 DEF FileOK, Headers
  <2>2. \A x \in Nodes : x \in DOMAIN disk /\ x \in Nat /\ x # 0
    BY <1>4, Kinds
  <2>3. new \notin DOMAIN disk /\ new # 0
    BY <1>5, <2>1, <2>2
  <2> QED BY <2>1, <2>2, <2>3
<1>8. /\ \A c \in Nodes : ht[p] = ht[c] + 1 => c # p
      /\ p \notin mv /\ new \notin mv
  <2>1. ht[p] \in Nat
    BY <1>5, <1>6, <1>7
  <2>2. ht[p] # ht[p] + 1
    BY <2>1
  <2> QED BY <1>6, <1>7, <2>2
<1>9. /\ hdr' \in Headers /\ hdr'.root = hdr.root /\ hdr'.duplicate = hdr.duplicate
      /\ hdr'.numOfBlocks = new + 1
      /\ hdr'.numOfInterNodes = hdr.numOfInterNodes + 1
      /\ hdr'.numOfLeafNodes = hdr.numOfLeafNodes
      /\ hdr'.numOfPtrBucket = hdr.numOfPtrBucket
  <2>1. PICK hd : hd = hdr'
    OBVIOUS
  <2> QED BY <1>2, <1>3, <1>4, <2>1, OneMoreInner
<1>10. /\ DOMAIN disk' = DOMAIN disk \cup {new} /\ disk'[p] = l /\ disk'[new] = r
       /\ \A x \in mv : disk'[x] = Adopted(disk[x], new)
       /\ \A x \in DOMAIN disk : x # p /\ x \notin mv => disk'[x] = disk[x]
  <2>1. p \in DOMAIN disk /\ p # new /\ \A x \in mv : x \in DOMAIN disk
    BY <1>6, <1>7
  <2>2. DOMAIN disk' = DOMAIN disk \cup {new} /\ disk'[p] = l /\ disk'[new] = r
    BY <1>3, <2>1
  <2>3. \A x \in mv : disk'[x] = Adopted(disk[x], new)
    BY <1>3, <1>8, <2>1
  <2>4. \A x \in DOMAIN disk : x # p /\ x \notin mv => disk'[x] = disk[x]
    BY <1>3, <1>7
  <2> QED BY <2>2, <2>3, <2>4
<1>11. ASSUME NEW x \in Nodes
       PROVE  /\ x # p => SameButParent(disk'[x], disk[x])
              /\ x \in mv => disk'[x].parent = new
              /\ x \notin mv => disk'[x].parent = disk[x].parent
  <2>1. disk[x] \in Leaves \cup Inners /\ KeysOK(disk[x]) /\ x \in DOMAIN disk
    BY <1>4, Kinds
  <2>2. CASE x \in mv
    <3>1. PICK o, e : o = disk[x] /\ e = disk'[x]
      OBVIOUS
    <3>2. e = Adopted(o, new)
      BY <1>10, <2>2, <3>1
    <3>3. SameButParent(e, o) /\ e.parent = new
      BY <1>7, <2>1, <3>1, <3>2, AdoptedNode
    <3> QED BY <2>2, <3>1, <3>3
  <2>3. CASE x = p
    BY <1>2, <1>6, <1>8, <1>10, <2>3
  <2>4. CASE x # p /\ x \notin mv
    <3>1. disk'[x] = disk[x]
      BY <1>10, <2>1, <2>4
    <3> QED BY <2>1, <2>4, <3>1 DEF SameButParent
  <2> QED BY <2>2, <2>3, <2>4
<1>12. /\ L' = L /\ I' = I \cup {new} /\ B' = B /\ Nodes' = Nodes \cup {new}
       /\ \A x \in B : disk'[x] = disk[x]
       /\ \A x \in L : x # p /\ x \in Nodes
  <2>0. n.type = "I"
    BY <1>6 DEF Inners
  <2>1. \A x \in Nodes : disk'[x].type = disk[x].type
    BY <1>2, <1>6, <1>10, <1>11, <2>0 DEF SameButParent
  <2>2. \A x \in B : disk'[x] = disk[x]
    <3>1. \A x \in B : x \notin Nodes /\ x \in DOMAIN disk
      BY DEF Nodes, L, I, B, OfType
    <3> QED BY <1>6, <1>10, <3>1
  <2>3. \A x \in DOMAIN disk : disk'[x].type = disk[x].type
    <3>1. \A x \in DOMAIN disk : x \in Nodes \/ x \in B
      BY <1>4, Kinds
    <3> QED BY <2>1, <2>2, <3>1
  <2>4. L' = L /\ I' = I \cup {new} /\ B' = B
    BY <1>6, <1>7, <1>10, <2>3 DEF L, I, B, OfType
  <2>5. \A x \in L : x # p /\ x \in Nodes
    BY <1>6 DEF L, I, OfType, Nodes
  <2> QED BY <2>2, <2>4, <2>5 DEF Nodes
<1>13. PICK lo2, hi2, ht2 :
         /\ lo2 = [x \in Nat |-> IF x = new THEN mid ELSE lo[x]]
         /\ hi2 = [x \in Nat |-> IF x = new THEN hi[p] ELSE IF x = p THEN mid ELSE hi[x]]
         /\ ht2 = [x \in Nat |-> IF x = new THEN ht[p] ELSE ht[x]]
  OBVIOUS
<1>14. /\ lo2 \in Ghosts /\ hi2 \in Ghosts /\ ht2 \in Ghosts
       /\ lo2[new] = mid /\ hi2[new] = hi[p] /\ ht2[new] = ht[p] /\ hi2[p] = mid
       /\ \A x \in Nodes : lo2[x] = lo[x] /\ ht2[x] = ht[x]
       /\ \A x \in Nodes : x # p => hi2[x] = hi[x]
  <2>1. p \in Nat /\ p # new /\ hi[p] \in Nat /\ ht[p] \in Nat
    BY <1>5, <1>6, <1>7
  <2>2. new \in Nat /\ mid \in Nat /\ \A x \in Nodes : x \in Nat /\ x # new
    BY <1>5, <1>6, <1>7
  <2>3. lo2 \in Ghosts /\ lo2[new] = mid /\ \A x \in Nodes : lo2[x] = lo[x]
    BY <1>13, <2>2 DEF Ghosts
  <2>4. ht2 \in Ghosts /\ ht2[new] = ht[p] /\ \A x \in Nodes : ht2[x] = ht[x]
    BY <1>13, <2>1, <2>2 DEF Ghosts
  <2>5. /\ hi2 \in Ghosts /\ hi2[new] = hi[p] /\ hi2[p] = mid
        /\ \A x \in Nodes : x # p => hi2[x] = hi[x]
    BY <1>13, <2>1, <2>2 DEF Ghosts
  <2> QED BY <2>3, <2>4, <2>5
<1>15. /\ \A x : x # p => Sib(x)' = x
       /\ Sib(p)' = new
       /\ \A x : Unlinked(x)' <=> x = new
       /\ \A x : x # left => Sib(x) = x
       /\ \A x : Unlinked(x) <=> x = right
  BY <1>2, <1>3 DEF Sib, Unlinked
<1>16. ASSUME NEW x \in I, x # p
       PROVE  /\ x \in Nodes /\ x # new /\ disk'[x].size = disk[x].size
              /\ disk'[x].keys = disk[x].keys /\ disk'[x].ptrs = disk[x].ptrs
              /\ disk[x].size \in Nat /\ disk[x].size <= Cap
              /\ \A j \in 1 .. disk[x].size + 1 : j \in 1 .. Cap + 1
  <2>1. x \in Nodes /\ disk[x] \in Leaves \cup Inners /\ KeysOK(disk[x])
    BY <1>4, Kinds
  <2>2. disk[x].size \in Nat /\ disk[x].size <= Cap /\ Cap \in Nat
    BY <2>1, NodeFacts
  <2> QED BY <1>7, <1>11, <1>16, <2>1, <2>2 DEF SameButParent
<1>17. ASSUME NEW x \in I, x # p, NEW j \in 1 .. Cap + 1, NEW c, c = disk[x].ptrs[j]
       PROVE  /\ j > disk[x].size + 1 => c = 0
              /\ c # 0 => /\ c \in Nodes /\ disk[c].parent = x /\ ht[x] = ht[c] + 1
                          /\ c # hdr.root /\ c \notin mv
              /\ j \in 1 .. disk[x].size + 1 =>
                   IF c = 0 THEN j = 1 /\ disk[x].keys[1] = lo[x]
                   ELSE /\ lo[c] = IF j = 1 THEN lo[x] ELSE disk[x].keys[j - 1]
                        /\ hi[c] = IF j = disk[x].size + 1 THEN hi[x] ELSE disk[x].keys[j]
  <2>1. x # disk[up.left].parent
    BY <1>2, <1>17
  <2>2. /\ j > disk[x].size + 1 => c = 0
        /\ c # 0 => /\ c \in Nodes /\ disk[c].parent = x /\ ht[x] = ht[c] + 1
                    /\ c # hdr.root
        /\ j \in 1 .. disk[x].size + 1 =>
             IF c = 0 THEN j = 1 /\ disk[x].keys[1] = lo[x]
             ELSE /\ lo[c] = IF j = 1 THEN lo[x] ELSE disk[x].keys[j - 1]
                  /\ hi[c] = IF j = disk[x].size + 1 THEN hi[x] ELSE disk[x].keys[j]
    BY <1>1, <1>3, <1>4, <1>17, <2>1, OtherChildren
  <2>3. c # 0 => c \notin mv
    BY <1>6, <1>17, <2>2
  <2> QED BY <2>2, <2>3
<1>18. Cap \in Nat /\ Half \in Nat /\ 1 <= Half /\ Half <= Cap /\ l.size = Half
       /\ r.size = Cap + 1 - Half
  BY <1>6, HalfFacts
<1>19. Bounded(lo2, hi2)'
  <2>1. ASSUME NEW x \in Nodes', NEW i \in 1 .. disk'[x].size
        PROVE  lo2[x] <= disk'[x].keys[i] /\ disk'[x].keys[i] < hi2[x]
    <3>1. CASE x = new
      BY <1>6, <1>10, <1>14, <3>1
    <3>2. CASE x = p
      BY <1>6, <1>10, <1>14, <3>2
    <3>3. CASE x \in Nodes /\ x # p
      <4>1. disk'[x].size = disk[x].size /\ disk'[x].keys = disk[x].keys
        BY <1>11, <3>3 DEF SameButParent
      <4> QED BY <1>1, <1>14, <3>3, <4>1 DEF RangeInv, Bounded
    <3> QED BY <1>12, <3>1, <3>2, <3>3
  <2>2. \A x \in Nodes' : hi2[x] <= NilKey
    <3>1. \A x \in Nodes : hi[x] <= NilKey
      BY <1>1 DEF RangeInv, Bounded
    <3>2. mid <= NilKey
      BY <1>5, <1>6
    <3> QED BY <1>6, <1>12, <1>14, <3>1, <3>2
  <2>3. ASSUME NEW x \in I', NEW j \in 1 .. disk'[x].size + 1, NEW c, c = disk'[x].ptrs[j],
               NEW s, s = Sib(c)'
        PROVE  IF c = 0 THEN j = 1 /\ disk'[x].keys[1] = lo2[x]
               ELSE /\ lo2[c] = IF j = 1 THEN lo2[x] ELSE disk'[x].keys[j - 1]
                    /\ hi2[s] = IF j = disk'[x].size + 1 THEN hi2[x] ELSE disk'[x].keys[j]
    <3>1. CASE x = p
      <4>1. disk'[x] = l /\ j \in 1 .. Cap + 1 /\ j <= l.size + 1 /\ c = l.ptrs[j]
        <5>1. j \in 1 .. l.size + 1 /\ disk'[x] = l /\ c = l.ptrs[j]
          BY <1>10, <2>3, <3>1
        <5> QED BY <1>18, <5>1
      <4>2. c = 0 => j = 1 /\ l.keys[1] = lo[p]
        BY <1>6, <4>1
      <4>3. ASSUME c # 0
            PROVE /\ lo2[c] = IF j = 1 THEN lo2[p] ELSE l.keys[j - 1]
                  /\ hi2[s] = IF j = l.size + 1 THEN hi2[p] ELSE l.keys[j]
        <5>1. Child(lo, hi, ht, p, c, IF j = 1 THEN lo[p] ELSE l.keys[j - 1],
                    IF j = l.size + 1 THEN mid ELSE l.keys[j])
          BY <1>6, <4>1, <4>3
        <5>2. /\ c \in Nodes /\ ht[p] = ht[c] + 1
              /\ lo[c] = IF j = 1 THEN lo[p] ELSE l.keys[j - 1]
              /\ hi[c] = IF j = l.size + 1 THEN mid ELSE l.keys[j]
          BY <5>1 DEF Child
        <5>3. c # p /\ s = c
          BY <1>8, <1>15, <2>3, <5>2
        <5> QED BY <1>6, <1>14, <5>2, <5>3
      <4> QED BY <1>6, <1>14, <3>1, <4>1, <4>2, <4>3
    <3>2. CASE x = new
      <4>1. disk'[x] = r /\ j \in 1 .. Cap + 1 /\ j <= r.size + 1 /\ c = r.ptrs[j]
        <5>1. j \in 1 .. r.size + 1 /\ disk'[x] = r /\ c = r.ptrs[j]
          BY <1>10, <2>3, <3>2
        <5> QED BY <1>18, <5>1
      <4>2. c = 0 => j = 1
        BY <1>6, <4>1
      <4>3. ASSUME c # 0
            PROVE /\ lo2[c] = IF j = 1 THEN lo2[new] ELSE r.keys[j - 1]
                  /\ hi2[s] = IF j = r.size + 1 THEN hi2[new] ELSE r.keys[j]
        <5>1. Child(lo, hi, ht, p, c, IF j = 1 THEN mid ELSE r.keys[j - 1],
                    IF j = r.size + 1 THEN hi[p] ELSE r.keys[j])
          BY <1>6, <4>1, <4>3
        <5>2. /\ c \in Nodes /\ ht[p] = ht[c] + 1
              /\ lo[c] = IF j = 1 THEN mid ELSE r.keys[j - 1]
              /\ hi[c] = IF j = r.size + 1 THEN hi[p] ELSE r.keys[j]
          BY <5>1 DEF Child
        <5>3. c # p /\ s = c
          BY <1>8, <1>15, <2>3, <5>2
        <5> QED BY <1>14, <5>2, <5>3
      <4>4. r.keys[1] = lo2[new]
        BY <1>2, <1>14
      <4> QED BY <3>2, <4>1, <4>2, <4>3, <4>4
    <3>3. CASE x \in I /\ x # p
      <4>1. /\ x \in Nodes /\ disk'[x].size = disk[x].size /\ disk'[x].keys = disk[x].keys
            /\ j \in 1 .. disk[x].size + 1 /\ j \in 1 .. Cap + 1 /\ c = disk[x].ptrs[j]
        BY <1>16, <2>3, <3>3
      <4>2. /\ c # 0 => c \in Nodes
            /\ IF c = 0 THEN j = 1 /\ disk[x].keys[1] = lo[x]
               ELSE /\ lo[c] = IF j = 1 THEN lo[x] ELSE disk[x].keys[j - 1]
                    /\ hi[c] = IF j = disk[x].size + 1 THEN hi[x] ELSE disk[x].keys[j]
        BY <1>17, <3>3, <4>1
      <4>3. lo2[x] = lo[x] /\ hi2[x] = hi[x]
        BY <1>14, <3>3, <4>1
      <4>4. ASSUME c # 0 PROVE lo2[c] = lo[c] /\ hi2[s] = hi[c]
        <5>1. CASE c = p
          BY <1>6, <1>14, <1>15, <2>3, <5>1
        <5>2. CASE c # p
          BY <1>14, <1>15, <2>3, <4>2, <4>4, <5>2
        <5> QED BY <5>1, <5>2
      <4> QED BY <4>1, <4>2, <4>3, <4>4
    <3> QED BY <1>12, <3>1, <3>2, <3>3
  <2>4. ASSUME NEW s, s = Sib(hdr.root)' PROVE lo2[hdr.root] = 0 /\ hi2[s] = NilKey
    <3>1. lo[hdr.root] = 0 /\ hi[hdr.root] = NilKey
      BY <1>1, <1>3, <1>5, <1>15 DEF RangeInv, Bounded
    <3>2. PICK root : root = hdr.root
      OBVIOUS
    <3>3. root = hdr'.root /\ s = Sib(root)'
      BY <1>9, <2>4, <3>2
    <3>4. CASE root = p
      BY <1>5, <1>14, <1>15, <3>1, <3>2, <3>3, <3>4
    <3>5. CASE root # p
      BY <1>5, <1>14, <1>15, <3>1, <3>2, <3>3, <3>5
    <3> QED BY <3>4, <3>5
  <2> QED BY <1>9, <2>1, <2>2, <2>3, <2>4 DEF Bounded
<1>20. Linked(ht2)'
  <2>1. \A x \in L' : ht2[x] = 0
    <3>1. \A x \in L : x \in Nodes /\ ht[x] = 0
      BY <1>1, <1>12 DEF RangeInv, Linked
    <3> QED BY <1>12, <1>14, <3>1
  <2>2. ASSUME NEW x \in I', NEW j \in 1 .. Cap + 1, NEW c, c = disk'[x].ptrs[j]
        PROVE  /\ j > disk'[x].size + 1 => c = 0
               /\ c # 0 => /\ c \in Nodes /\ disk'[c].parent = x /\ ht2[x] = ht2[c] + 1
                           /\ c # hdr.root
    <3>1. CASE x = p
      <4>1. disk'[x] = l /\ c = l.ptrs[j]
        BY <1>10, <2>2, <3>1
      <4>2. j > l.size + 1 => c = 0
        BY <1>6, <4>1
      <4>3. ASSUME c # 0
            PROVE  /\ c \in Nodes /\ disk[c].parent = p /\ ht[p] = ht[c] + 1
                   /\ c # hdr.root /\ c \notin mv
        <5>1. /\ c \notin mv
              /\ Child(lo, hi, ht, p, c, IF j = 1 THEN lo[p] ELSE l.keys[j - 1],
                       IF j = l.size + 1 THEN mid ELSE l.keys[j])
          BY <1>6, <4>1, <4>3
        <5> QED BY <5>1 DEF Child
      <4> QED BY <1>6, <1>11, <1>14, <3>1, <4>1, <4>2, <4>3
    <3>2. CASE x = new
      <4>1. disk'[x] = r /\ c = r.ptrs[j]
        BY <1>10, <2>2, <3>2
      <4>2. j > r.size + 1 => c = 0
        BY <1>6, <4>1
      <4>3. ASSUME c # 0
            PROVE  /\ c \in Nodes /\ ht[p] = ht[c] + 1 /\ c # hdr.root /\ c \in mv
        <5>1. c \in mv
          BY <1>6, <4>1, <4>3
        <5> QED BY <1>6, <5>1
      <4> QED BY <1>11, <1>14, <3>2, <4>1, <4>2, <4>3
    <3>3. CASE x \in I /\ x # p
      <4>1. c = disk[x].ptrs[j] /\ disk'[x].size = disk[x].size /\ x \in Nodes
        BY <1>16, <2>2, <3>3
      <4>2. /\ j > disk[x].size + 1 => c = 0
            /\ c # 0 => /\ c \in Nodes /\ disk[c].parent = x /\ ht[x] = ht[c] + 1
                        /\ c # hdr.root /\ c \notin mv
        BY <1>17, <3>3, <4>1
      <4> QED BY <1>11, <1>14, <4>1, <4>2
    <3> QED BY <1>12, <3>1, <3>2, <3>3
  <2>3. ASSUME NEW c \in Nodes, c # hdr.root, NEW x, x = disk'[c].parent
        PROVE  x \in I' /\ \E j \in 1 .. disk'[x].size + 1 : disk'[x].ptrs[j] = c
    <3>1. CASE disk[c].parent = p
      <4>1. CASE \E j \in 1 .. r.size + 1 : r.ptrs[j] = c
        <5>1. PICK j \in 1 .. r.size + 1 : r.ptrs[j] = c
          BY <4>1
        <5>2. j \in 1 .. Cap + 1 /\ c # 0
          BY <1>7, <1>18, <5>1
        <5>3. c \in mv
          BY <1>6, <5>1, <5>2
        <5>4. x = new
          BY <1>11, <2>3, <5>3
        <5> QED BY <1>10, <1>12, <5>1, <5>4
      <4>2. CASE \E j \in 1 .. l.size + 1 : l.ptrs[j] = c
        <5>1. PICK j \in 1 .. l.size + 1 : l.ptrs[j] = c
          BY <4>2
        <5>2. j \in 1 .. Cap + 1 /\ c # 0
          BY <1>7, <1>18, <5>1
        <5>3. c \notin mv
          BY <1>6, <5>1, <5>2
        <5>4. x = p
          BY <1>11, <2>3, <3>1, <5>3
        <5> QED BY <1>6, <1>10, <1>12, <5>1, <5>4
      <4> QED BY <1>6, <2>3, <3>1, <4>1, <4>2
    <3>2. CASE disk[c].parent # p
      <4>1. c # right /\ c \notin mv
        <5>1. c \notin mv
          BY <1>6, <3>2
        <5> QED BY <1>2, <1>5, <3>2, <5>1
      <4>2. x = disk[c].parent /\ x # p
        BY <1>11, <2>3, <3>2, <4>1
      <4>3. x \in I /\ \E j \in 1 .. disk[x].size + 1 : disk[x].ptrs[j] = c
        BY <1>1, <1>15, <2>3, <4>1, <4>2 DEF RangeInv, Linked
      <4> QED BY <1>12, <1>16, <4>2, <4>3
    <3> QED BY <3>1, <3>2
  <2>4. ht2[hdr.root] <= hdr'.numOfInterNodes
    <3>1. /\ ht[hdr.root] <= hdr.numOfInterNodes /\ hdr.numOfInterNodes \in Nat
          /\ ht[hdr.root] \in Nat
      BY <1>1, <1>4, <1>5, <1>7 DEF RangeInv, Linked, Headers
    <3> QED BY <1>5, <1>9, <1>14, <3>1
  <2>5. \A c \in Nodes : c \in Nodes' /\ c # new
    BY <1>7, <1>12
  <2>6. \A c \in Nodes' : c # new => c \in Nodes
    BY <1>12
  <2> QED BY <1>9, <1>15, <2>1, <2>2, <2>3, <2>4, <2>5, <2>6 DEF Linked
<1>21. Chained(lo2, hi2, pos)'
  <2>1. \A x \in L : disk'[x].next = disk[x].next
    <3>1. \A x \in L : disk[x].type = "L"
      BY <1>4, Kinds
    <3> QED BY <1>11, <1>12, <3>1 DEF SameButParent
  <2>2. \A x \in L : lo2[x] = lo[x] /\ hi2[x] = hi[x]
    BY <1>12, <1>14
  <2> QED BY <1>1, <1>9, <1>12, <2>1, <2>2 DEF RangeInv, Chained
<1>22. HeaderOK'
  <2>1. hdr'.numOfBlocks # 0
    BY <1>7, <1>9
  <2> QED BY <1>3, <1>4, <1>5, <1>9, <2>1 DEF HeaderOK
<1>23. FileOK'
  <2>1. DOMAIN disk' = 1 .. hdr'.numOfBlocks - 1
    <3>1. hdr'.numOfBlocks - 1 = new
      BY <1>7, <1>9
    <3>2. 1 .. new = (1 .. new - 1) \cup {new}
      BY <1>7
    <3> QED BY <1>7, <1>10, <3>1, <3>2
  <2>2. ASSUME NEW x \in DOMAIN disk' PROVE disk'[x] \in Leaves \cup Inners \cup Buckets
    <3>1. CASE x = new \/ x = p
      BY <1>6, <1>10, <3>1
    <3>2. CASE x \in Nodes /\ x # p
      BY <1>11, <3>2 DEF SameButParent
    <3>3. CASE x \in B
      BY <1>4, <1>12, <3>3, Kinds
    <3> QED BY <1>4, <1>10, <3>1, <3>2, <3>3, Kinds
  <2>3. ASSUME NEW x \in Nodes' PROVE KeysOK(disk'[x]) /\ disk'[x].parent \in DOMAIN disk'
    <3>1. n.parent \in DOMAIN disk
      BY <1>2, <1>4, <1>6 DEF FileOK
    <3>2. CASE x = new \/ x = p
      BY <1>6, <1>10, <3>1, <3>2
    <3>3. CASE x \in Nodes /\ x # p
      <4>1. disk[x].parent \in DOMAIN disk
        BY <1>4, <3>3 DEF FileOK
      <4>2. disk'[x].parent = new \/ disk'[x].parent = disk[x].parent
        BY <1>11, <3>3
      <4>3. KeysOK(disk'[x])
        BY <1>11, <3>3 DEF SameButParent
      <4> QED BY <1>10, <4>1, <4>2, <4>3
    <3> QED BY <1>12, <3>2, <3>3
  <2> QED BY <1>5, <1>9, <1>12, <2>1, <2>2, <2>3 DEF FileOK
<1>24. BucketsOK'
  <2>1. \A x \in L : disk'[x].size = disk[x].size /\ disk'[x].ptrs = disk[x].ptrs
    BY <1>11, <1>12 DEF SameButParent
  <2> QED BY <1>4, <1>9, <1>12, <2>1 DEF BucketsOK
<1>25. Counted'
  <2>1. new \notin I /\ hdr.numOfInterNodes \in Nat
    BY <1>4, <1>7 DEF Nodes, Headers
  <2>2. IsFiniteSet(I') /\ Cardinality(I') = hdr'.numOfInterNodes
    BY <1>4, <1>9, <1>12, <2>1, OneMore DEF Counted
  <2> QED BY <1>4, <1>9, <1>12, <2>2 DEF Counted
<1>26. HalfFull'
  <2>1. ASSUME NEW x \in Nodes', x # hdr.root \/ x = p PROVE disk'[x].size >= Cap \div 2
    <3>1. CASE x = new
      BY <1>6, <1>10, <3>1, HalfFacts
    <3>2. CASE x = p
      BY <1>6, <1>10, <3>2, HalfFacts
    <3>3. CASE x \in Nodes /\ x # p
      <4>1. disk'[x].size = disk[x].size
        BY <1>11, <3>3 DEF SameButParent
      <4>2. disk[x].size >= Cap \div 2
        BY <1>4, <2>1, <3>3 DEF HalfFull
      <4> QED BY <4>1, <4>2
    <3> QED BY <1>12, <3>1, <3>2, <3>3
  <2> QED BY <1>3, <1>9, <2>1 DEF HalfFull
<1>27. CallOK(lo2, hi2, ht2)'
  <2>1. up'.left = p /\ up'.key = mid /\ up'.right = new
    BY <1>3
  <2>2. disk'[p].parent = disk'[new].parent
    BY <1>6, <1>10
  <2>3. ht2[p] = ht2[new] /\ hi2[p] = mid /\ lo2[new] = mid
    BY <1>6, <1>14
  <2>4. p \in Nodes' /\ new \in Nodes' /\ p # new /\ new # hdr'.root /\ hdr'.root # 0 /\ open'
    BY <1>3, <1>5, <1>6, <1>7, <1>9, <1>12
  <2> QED BY <1>3, <2>1, <2>2, <2>3, <2>4 DEF CallOK
<1>28. FileInv' /\ RangeInv(lo2, hi2, ht2, pos)'
  BY <1>19, <1>20, <1>21, <1>22, <1>23, <1>24, <1>25, <1>26, <1>27 DEF FileInv, RangeInv
<1>29. SameEntries
  <2>1. \A k, x : Filed(k, x)' <=> Filed(k, x)
    BY <1>11, <1>12, EntriesSame DEF SameButParent
  <2> QED BY <1>9, <1>12, <2>1 DEF SameEntries
<1> QED
  BY <1>1, <1>14, <1>28, <1>29 DEF TreeInv

-------------------------------------------------------------------------------
(* The invariant and what follows from it. *)

LEMMA NextKeeps ==
    ASSUME NoNil, TreeInv, Next
    PROVE  TreeInv'
<1>1. CASE \E mode \in Modes : Create(mode)
  BY <1>1, CreateKeeps
<1>2. CASE Open
  <2>1. dhdr = hdr
    BY <1>2 DEF Open, TreeInv, FileInv, HeaderOK
  <2>2. /\ disk' = disk /\ hdr' = hdr /\ dhdr' = dhdr /\ pc' = "idle" /\ ~Pending
        /\ open' = TRUE /\ hdr.duplicate # "none"
    BY <1>2, <2>1 DEF Open, Pending
  <2>3. HeaderOK'
    BY <2>2 DEF TreeInv, FileInv, HeaderOK
  <2> QED BY <2>2, <2>3, RestKeeps
<1>3. CASE Close
  <2>1. /\ disk' = disk /\ hdr' = hdr /\ dhdr' = hdr /\ pc' = "idle" /\ ~Pending
        /\ open' = FALSE
    BY <1>3 DEF Close, Pending
  <2>2. HeaderOK'
    BY <2>1 DEF TreeInv, FileInv, HeaderOK
  <2> QED BY <2>1, <2>2, RestKeeps
<1>4. ASSUME NEW k \in Keys, BeginFind(k) PROVE TreeInv'
  <2>1. CASE hdr.root = 0
    <3>1. /\ disk' = disk /\ hdr' = hdr /\ dhdr' = dhdr /\ pc' = "idle" /\ ~Pending
          /\ open' = open
      BY <1>4, <2>1 DEF BeginFind, Return, Pending
    <3>2. HeaderOK'
      BY <3>1 DEF TreeInv, FileInv, HeaderOK
    <3> QED BY <3>1, <3>2, RestKeeps
  <2>2. CASE hdr.root # 0
    <3>1. pc = "idle" /\ open /\ Search("find_it", k, 0) /\ 0 \in Nat
      BY <1>4, <2>2 DEF BeginFind
    <3> QED BY <2>2, <3>1, SearchKeeps
  <2> QED BY <2>1, <2>2
<1>5. ASSUME NEW k \in Keys, NEW v \in Vals, InsertFirst(k, v) PROVE TreeInv'
  BY <1>5, InsertFirstKeeps
<1>6. ASSUME NEW k \in Keys, NEW v \in Vals, BeginInsert(k, v) PROVE TreeInv'
  <2>1. pc = "idle" /\ open /\ hdr.root # 0 /\ Search("insert", k, v) /\ v \in Nat
    BY <1>6, TreeAssumption DEF BeginInsert
  <2> QED BY <2>1, SearchKeeps
<1>7. CASE Descend
  BY <1>7, DescendKeeps
<1>8. CASE Panic
  BY <1>8 DEF Panic, TreeInv, RangeInv, CallOK
<1>9. CASE Found \/ Refuse
  <2>1. /\ disk' = disk /\ hdr' = hdr /\ dhdr' = dhdr /\ pc' = "idle" /\ ~Pending
        /\ open' = open
    BY <1>9 DEF Found, Refuse, AtLeaf, Return, Pending
  <2>2. HeaderOK'
    BY <2>1 DEF TreeInv, FileInv, HeaderOK
  <2> QED BY <2>1, <2>2, RestKeeps
<1>10. CASE AddToBucket
  BY <1>10, AddToBucketKeeps
<1>11. CASE InsertInLeaf
  BY <1>11, InsertInLeafKeeps
<1>12. CASE InsertOutside
  BY <1>12, NeverOutside
<1>13. CASE SplitLeaf
  BY <1>13, SplitLeafKeeps
<1>14. CASE NewRoot
  BY <1>14, NewRootKeeps
<1>15. CASE InsertInParent
  BY <1>15, InsertInParentKeeps
<1>16. CASE SplitInternal
  BY <1>16, SplitInternalKeeps
<1> QED
  BY <1>1, <1>2, <1>3, <1>4, <1>5, <1>6, <1>7, <1>8, <1>9, <1>10, <1>11, <1>12, <1>13,
     <1>14, <1>15, <1>16 DEF Next, Step

LEMMA StutterKeeps ==
    ASSUME TreeInv, UNCHANGED vars
    PROVE  TreeInv'
<1>0. PICK lo \in Ghosts, hi \in Ghosts, ht \in Ghosts, pos \in Ghosts :
         RangeInv(lo, hi, ht, pos)
  BY DEF TreeInv
<1>1. /\ hdr' = hdr /\ dhdr' = dhdr /\ disk' = disk /\ open' = open /\ pc' = pc
      /\ call' = call /\ at' = at /\ up' = up
  BY DEF vars
<1>2. L' = L /\ I' = I /\ B' = B /\ Nodes' = Nodes /\ Pending' = Pending
  BY <1>1 DEF L, I, B, Nodes, OfType, Pending
<1>3. /\ \A b : Sib(b)' = Sib(b)
      /\ \A b : Unlinked(b)' <=> Unlinked(b)
  BY <1>1, <1>2 DEF Sib, Unlinked
<1>4. HeaderOK' /\ FileOK' /\ BucketsOK' /\ Counted' /\ HalfFull'
  <2>1. HeaderOK /\ FileOK /\ BucketsOK /\ Counted /\ HalfFull
    BY DEF TreeInv, FileInv
  <2>2. HeaderOK'
    BY <1>1, <2>1 DEF HeaderOK
  <2>3. FileOK'
    BY <1>1, <1>2, <2>1 DEF FileOK
  <2>4. BucketsOK'
    BY <1>1, <1>2, <2>1 DEF BucketsOK
  <2>5. Counted'
    BY <1>1, <1>2, <2>1 DEF Counted
  <2>6. HalfFull'
    BY <1>1, <1>2, <2>1 DEF HalfFull
  <2> QED BY <2>2, <2>3, <2>4, <2>5, <2>6
<1>5. Bounded(lo, hi)'
  BY <1>0, <1>1, <1>2, <1>3 DEF Bounded, RangeInv
<1>6. Linked(ht)'
  BY <1>0, <1>1, <1>2, <1>3 DEF Linked, RangeInv
<1>7. Chained(lo, hi, pos)'
  BY <1>0, <1>1, <1>2 DEF Chained, RangeInv
<1>8. CallOK(lo, hi, ht)'
  BY <1>0, <1>1, <1>2 DEF CallOK, RangeInv
<1>9. FileInv' /\ RangeInv(lo, hi, ht, pos)'
  BY <1>4, <1>5, <1>6, <1>7, <1>8 DEF FileInv, RangeInv
<1> QED
  BY <1>9 DEF TreeInv

\* The invariant of the tree: every reachable file is a search tree whose nodes'
\* ranges, heights and chain fit together, in the middle of a split too.
THEOREM TreeInvariant == NoNil => (Spec => []TreeInv)
<1> SUFFICES ASSUME NoNil PROVE Spec => []TreeInv
  OBVIOUS
<1>1. Init => TreeInv
  BY InitTree
<1>2. TreeInv /\ [Next]_vars => TreeInv'
  BY NextKeeps, StutterKeeps
<1> QED
  BY <1>1, <1>2, PTL DEF Spec

LEMMA ArrayLen ==
    ASSUME NEW n \in Nat, NEW S, NEW s \in [1 .. n -> S]
    PROVE  Len(s) = n
  OBVIOUS

LEMMA InvTypeOK == ASSUME TreeInv PROVE TypeOK
<1>1. HeaderOK /\ FileOK /\ BucketsOK
  BY DEF TreeInv, FileInv
<1>2. hdr \in Headers /\ dhdr \in Headers /\ open \in BOOLEAN
  BY <1>1 DEF HeaderOK
<1>3. pc \in {"idle", "find", "parent"}
  BY DEF TreeInv, RangeInv, CallOK
<1>4. Cap \in Nat /\ Cap + 1 \in Nat
  BY TreeAssumption
<1>5. ASSUME NEW b \in Nodes
      PROVE  /\ disk[b].size \in 1 .. Cap /\ disk[b].parent \in DOMAIN disk
             /\ Len(disk[b].keys) = Cap
             /\ \A i \in 1 .. Cap : disk[b].keys[i] = NilKey <=> i > disk[b].size
  <2>1. /\ disk[b] \in Leaves \cup Inners /\ KeysOK(disk[b])
        /\ disk[b].parent \in DOMAIN disk
    BY <1>1, Kinds
  <2>2. /\ disk[b].size \in Nat /\ disk[b].size \in 1 .. Cap
        /\ disk[b].keys \in [1 .. Cap -> Cells]
        /\ \A i \in 1 .. Cap : disk[b].keys[i] \in Nat
        /\ \A i \in 1 .. Cap : i <= disk[b].size => disk[b].keys[i] < NilKey
        /\ \A i \in 1 .. Cap : i > disk[b].size => disk[b].keys[i] = NilKey
    BY <1>4, <2>1, NodeFacts
  <2>3. Len(disk[b].keys) = Cap
    BY <1>4, <2>2, ArrayLen
  <2>4. ASSUME NEW i \in 1 .. Cap PROVE disk[b].keys[i] = NilKey <=> i > disk[b].size
    <3>1. i <= disk[b].size \/ i > disk[b].size
      BY <2>2
    <3>2. i > disk[b].size => ~(i <= disk[b].size)
      BY <2>2
    <3>3. NilKey \in Nat
      BY KeyFacts
    <3> QED BY <2>2, <3>1, <3>2, <3>3
  <2> QED BY <2>1, <2>2, <2>3, <2>4
<1>6. \A b \in L : Len(disk[b].ptrs) = Cap
  <2>1. \A b \in L : disk[b].ptrs \in [1 .. Cap -> Nat]
    BY <1>1, Kinds DEF Leaves
  <2> QED BY <1>4, <2>1, ArrayLen
<1>7. \A b \in I : Len(disk[b].ptrs) = Cap + 1
  <2>1. \A b \in I : disk[b].ptrs \in [1 .. Cap + 1 -> Nat]
    BY <1>1, Kinds DEF Inners
  <2> QED BY <1>4, <2>1, ArrayLen
<1>8. \A b \in B : Len(disk[b].ptrs) \in 1 .. BucketCap
  BY <1>1 DEF BucketsOK
<1>9. \A h \in {hdr, dhdr} :
        /\ h.duplicate \in {"none", "Y", "N"}
        /\ {h.root, h.numOfBlocks, h.numOfInterNodes, h.numOfLeafNodes,
            h.numOfPtrBucket} \subseteq Nat
  BY <1>2 DEF Headers
<1>10. L = OfType("L") /\ I = OfType("I") /\ B = OfType("B")
       /\ Nodes = OfType("L") \cup OfType("I")
  BY DEF L, I, B, Nodes
<1> QED
  BY <1>2, <1>3, <1>5, <1>6, <1>7, <1>8, <1>9, <1>10 DEF TypeOK

\* Nodes and buckets stay what the code writes: 1 to Cap keys in use, INT_MAX
\* behind them, parents that exist, buckets of 1 to BucketCap pointers.
THEOREM TreeTyped == NoNil => (Spec => []TypeOK)
<1>1. TreeInv => TypeOK
  BY InvTypeOK
<1> QED
  BY <1>1, TreeInvariant, PTL

\* Block numbers are handed out once, and the header's three counters are the
\* numbers of leaves, nodes and buckets in the file, whatever was split.
THEOREM BlocksAreCounted == NoNil => (Spec => []Allocation)
<1>1. TreeInv => Allocation
  BY DEF TreeInv, FileInv, FileOK, Counted, Allocation, L, I, B
<1> QED
  BY <1>1, TreeInvariant, PTL

\* find never meets the null first pointer of a split node: no key sought is
\* smaller than the node's first key.
THEOREM FindMeetsNoNull == NoNil => (Spec => []NeverPanics)
<1>1. TreeInv => NeverPanics
  BY DEF TreeInv, RangeInv, CallOK, NeverPanics
<1> QED
  BY <1>1, TreeInvariant, PTL

\* leaf_node::insert always finds a cell for a new key: the write to keys[-1]
\* takes a key that is INT_MAX.
THEOREM InsertStaysInside == NoNil => (Spec => []WritesInside)
<1>1. TreeInv => WritesInside
  BY DEF TreeInv, RangeInv, CallOK, WritesInside
<1> QED
  BY <1>1, TreeInvariant, PTL

LEMMA InvParentsRight == ASSUME TreeInv PROVE ParentsRight
<1> SUFFICES ASSUME pc = "idle", NEW p \in I, NEW c \in ToSet(disk[p].ptrs), c # 0
             PROVE  disk[c].parent = p
  BY DEF ParentsRight, I
<1>1. PICK lo \in Ghosts, hi \in Ghosts, ht \in Ghosts, pos \in Ghosts :
         RangeInv(lo, hi, ht, pos)
  BY DEF TreeInv
<1>2. disk[p].ptrs \in [1 .. Cap + 1 -> Nat]
  BY Kinds DEF TreeInv, FileInv, Inners
<1>3. PICK q \in 1 .. Cap + 1 : disk[p].ptrs[q] = c
  BY <1>2 DEF ToSet
<1> QED
  BY <1>1, <1>3 DEF RangeInv, Linked

\* Between calls parent_block names the node that points at the block: every split
\* gave the children it moved their new parent.
THEOREM ParentsAreRight == NoNil => (Spec => []ParentsRight)
<1>1. TreeInv => ParentsRight
  BY InvParentsRight
<1> QED
  BY <1>1, TreeInvariant, PTL

-------------------------------------------------------------------------------
(* The chain of leaves. *)

\* There are fewer leaves than block numbers.
LEMMA LeavesFit ==
    ASSUME FileInv
    PROVE  /\ hdr.numOfBlocks \in Nat /\ hdr.numOfLeafNodes \in Nat
           /\ hdr.numOfLeafNodes <= hdr.numOfBlocks
<1>1. PICK z, m : z = hdr.numOfBlocks /\ m = hdr.numOfLeafNodes
  OBVIOUS
<1>2. z \in Nat /\ m \in Nat /\ DOMAIN disk = 1 .. z - 1 /\ Cardinality(L) = m
  BY <1>1 DEF FileInv, HeaderOK, Headers, FileOK, Counted
<1>3. L \in SUBSET (1 .. z - 1)
  BY <1>2 DEF L, OfType
<1>4. z - 1 \in Int /\ 1 \in Int
  BY <1>2
<1>5. IsFiniteSet(1 .. z - 1) /\ Cardinality(1 .. z - 1) = IF 1 > z - 1 THEN 0 ELSE z - 1
  <2>1. PICK y : y = z - 1
    OBVIOUS
  <2>2. Cardinality(1 .. y) = IF 1 > y THEN 0 ELSE y - 1 + 1
    BY <1>4, <2>1, FS_Interval
  <2>3. IsFiniteSet(1 .. y) /\ y - 1 + 1 = y
    BY <1>4, <2>1, FS_Interval
  <2> QED BY <2>1, <2>2, <2>3
<1>6. m <= Cardinality(1 .. z - 1)
  BY <1>2, <1>3, <1>5, FS_Subset
<1>7. Cardinality(1 .. z - 1) <= z
  BY <1>2, <1>5
<1> QED
  BY <1>1, <1>2, <1>5, <1>6, <1>7

\* The chain from block 1 has a leaf at the leaf's position.
LEMMA LeafAtPosition ==
    ASSUME FileInv, NEW lo \in Ghosts, NEW hi \in Ghosts, NEW ht \in Ghosts, NEW pos \in Ghosts,
           RangeInv(lo, hi, ht, pos), hdr.root # 0,
           NEW c, c = Chain(1)
    PROVE  \A b \in L : pos[b] \in 0 .. hdr.numOfBlocks /\ c[pos[b]] = b
<1>1. PICK z : z = hdr.numOfBlocks
  OBVIOUS
<1>2. z \in Nat /\ \A b \in L : b \in Nat /\ b # 0 /\ pos[b] \in 0 .. z
  <2>1. /\ z \in Nat /\ hdr.numOfLeafNodes \in Nat /\ hdr.numOfLeafNodes <= z
    BY <1>1, LeavesFit
  <2>2. \A b \in L : pos[b] < hdr.numOfLeafNodes
    BY DEF RangeInv, Chained
  <2>3. \A b \in L : b \in Nat /\ b # 0
    BY Kinds DEF FileInv
  <2>4. \A b \in L : pos[b] \in Nat
    BY <2>3 DEF Ghosts
  <2> QED BY <2>1, <2>2, <2>3, <2>4
<1>3. /\ c[0] = 1
      /\ \A i \in 0 .. z : i # 0 => c[i] = IF c[i-1] = 0 THEN 0 ELSE disk[c[i-1]].next
  BY <1>1, <1>2, ChainStep
<1> DEFINE S == {m \in Nat : \E b \in L : pos[b] = m /\ c[m] # b}
<1>4. S = {}
  <2> SUFFICES ASSUME S # {} PROVE FALSE
    OBVIOUS
  <2>1. PICK m \in S : \A x \in S : m <= x
    BY LeastNat
  <2>2. PICK b \in L : pos[b] = m /\ c[m] # b
    BY <2>1
  <2>3. pos[1] = 0
    BY DEF RangeInv, Chained
  <2>4. b # 1
    BY <1>3, <2>2, <2>3
  <2>5. PICK a \in L : disk[a].next = b
    BY <2>2, <2>4 DEF RangeInv, Chained
  <2>6. pos[b] = pos[a] + 1
    BY <1>2, <2>2, <2>5 DEF RangeInv, Chained
  <2>7. PICK e : e = pos[a]
    OBVIOUS
  <2>8. e \in Nat /\ m = e + 1 /\ e < m /\ m \in 0 .. z /\ m # 0 /\ m - 1 = e
    BY <1>2, <2>2, <2>6, <2>7
  <2>9. c[e] = a
    <3>1. e \notin S
      BY <2>1, <2>8
    <3> QED BY <2>5, <2>7, <2>8, <3>1
  <2>10. c[m] = IF c[m-1] = 0 THEN 0 ELSE disk[c[m-1]].next
    BY <1>3, <2>8
  <2> QED BY <1>2, <2>2, <2>5, <2>8, <2>9, <2>10
<1>5. \A b \in L : c[pos[b]] = b
  <2>1. \A b \in L : pos[b] \in Nat
    BY <1>2
  <2> QED BY <1>4, <2>1
<1> QED
  BY <1>1, <1>2, <1>5

\* The chain from block 1 has leaves only.
LEMMA ChainOfLeaves ==
    ASSUME FileInv, NEW lo \in Ghosts, NEW hi \in Ghosts, NEW ht \in Ghosts, NEW pos \in Ghosts,
           RangeInv(lo, hi, ht, pos), hdr.root # 0
    PROVE  ChainFrom(1) = L
<1>1. PICK z, c : z = hdr.numOfBlocks /\ c = Chain(1)
  OBVIOUS
<1>2. z \in Nat
  BY <1>1, LeavesFit
<1>3. /\ c[0] = 1
      /\ \A i \in 0 .. z : i # 0 => c[i] = IF c[i-1] = 0 THEN 0 ELSE disk[c[i-1]].next
      /\ ChainFrom(1) = {c[i] : i \in 0 .. z} \ {0}
  BY <1>1, <1>2, ChainStep
<1> DEFINE S == {i \in Nat : i <= z /\ c[i] # 0 /\ c[i] \notin L}
<1>4. S = {}
  <2> SUFFICES ASSUME S # {} PROVE FALSE
    OBVIOUS
  <2>1. PICK m \in S : \A x \in S : m <= x
    BY LeastNat
  <2>2. m \in Nat /\ m <= z /\ c[m] # 0 /\ c[m] \notin L
    BY <2>1
  <2>3. m # 0
    BY <1>3, <2>2 DEF RangeInv, Chained
  <2>4. PICK e : e = m - 1
    OBVIOUS
  <2>5. e \in Nat /\ e <= z /\ m \in 0 .. z /\ ~(m <= e)
    BY <1>2, <2>2, <2>3, <2>4
  <2>6. e \notin S
    BY <2>1, <2>5
  <2>7. c[e] = 0 \/ c[e] \in L
    BY <2>5, <2>6
  <2>8. c[m] = IF c[e] = 0 THEN 0 ELSE disk[c[e]].next
    BY <1>3, <2>3, <2>4, <2>5
  <2>9. c[e] \in L /\ c[m] = disk[c[e]].next
    BY <2>2, <2>7, <2>8
  <2> QED BY <2>2, <2>9 DEF RangeInv, Chained
<1>5. ChainFrom(1) \subseteq L
  <2>1. \A i \in 0 .. z : i \in Nat /\ i <= z
    BY <1>2
  <2>2. \A i \in 0 .. z : c[i] # 0 => c[i] \in L
    BY <1>4, <2>1
  <2> QED BY <1>3, <2>2
<1>6. ASSUME NEW b \in L PROVE b \in ChainFrom(1)
  <2>1. pos[b] \in 0 .. z /\ c[pos[b]] = b
    BY <1>1, LeafAtPosition
  <2>2. b # 0
    BY Kinds DEF FileInv
  <2> QED BY <1>3, <2>1, <2>2
<1> QED
  BY <1>5, <1>6

LEMMA LeafChainIs == ASSUME TreeInv PROVE LeafChain = L
<1>1. PICK lo \in Ghosts, hi \in Ghosts, ht \in Ghosts, pos \in Ghosts :
         RangeInv(lo, hi, ht, pos)
  BY DEF TreeInv
<1>2. CASE hdr.root = 0
  BY <1>2 DEF LeafChain, TreeInv, FileInv, FileOK, L, OfType
<1>3. CASE hdr.root # 0
  BY <1>1, <1>3, ChainOfLeaves DEF LeafChain, TreeInv
<1> QED
  BY <1>2, <1>3

LEMMA InvChainSorted == ASSUME TreeInv PROVE ChainSorted
<1>1. PICK lo \in Ghosts, hi \in Ghosts, ht \in Ghosts, pos \in Ghosts :
         RangeInv(lo, hi, ht, pos)
  BY DEF TreeInv
<1>2. LeafChain = L /\ L = OfType("L")
  BY LeafChainIs DEF L
<1>3. ASSUME NEW b \in L, NEW n, n = disk[b]
      PROVE  /\ \A i, j \in 1 .. n.size : i < j => n.keys[i] < n.keys[j]
             /\ n.next # 0 => n.keys[n.size] < disk[n.next].keys[1]
  <2>1. n \in Leaves \cup Inners /\ KeysOK(n) /\ b \in Nodes /\ b \in Nat
    BY <1>3, Kinds DEF TreeInv, FileInv
  <2>2. \A i, j \in 1 .. n.size : i < j => n.keys[i] < n.keys[j]
    BY <2>1 DEF KeysOK
  <2>3. ASSUME n.next # 0 PROVE n.keys[n.size] < disk[n.next].keys[1]
    <3>1. PICK x, m : x = n.next /\ m = disk[x]
      OBVIOUS
    <3>2. x \in L /\ lo[x] = hi[b]
      BY <1>1, <1>3, <2>3, <3>1 DEF RangeInv, Chained
    <3>3. m \in Leaves \cup Inners /\ KeysOK(m) /\ x \in Nodes /\ x \in Nat
      BY <3>1, <3>2, Kinds DEF TreeInv, FileInv
    <3>4. /\ n.size \in Nat /\ 1 <= n.size /\ n.size <= Cap /\ Cap \in Nat
          /\ \A i \in 1 .. Cap : n.keys[i] \in Nat
      BY <2>1, NodeFacts
    <3>5. /\ m.size \in Nat /\ 1 <= m.size /\ m.size <= Cap
          /\ \A i \in 1 .. Cap : m.keys[i] \in Nat
      BY <3>3, NodeFacts
    <3>6. n.size \in 1 .. n.size /\ n.size \in 1 .. Cap /\ 1 \in 1 .. m.size /\ 1 \in 1 .. Cap
      BY <3>4, <3>5
    <3>7. n.keys[n.size] < hi[b]
      BY <1>1, <1>3, <2>1, <3>6 DEF RangeInv, Bounded
    <3>8. lo[x] <= m.keys[1]
      BY <1>1, <3>1, <3>3, <3>6 DEF RangeInv, Bounded
    <3>9. n.keys[n.size] \in Nat /\ m.keys[1] \in Nat /\ hi[b] \in Nat /\ lo[x] \in Nat
      BY <1>1, <2>1, <3>3, <3>4, <3>5, <3>6 DEF Ghosts
    <3>10. n.keys[n.size] < m.keys[1]
      BY <3>2, <3>7, <3>8, <3>9
    <3> QED BY <3>1, <3>10
  <2> QED BY <2>2, <2>3
<1> QED
  BY <1>2, <1>3 DEF ChainSorted

\* The leaves form one chain from block 1 with keys that go up strictly: a range
\* query that walks it from block 1 meets every leaf, in order, during splits too.
THEOREM LeavesInOrder == NoNil => (Spec => []ChainSorted)
<1>1. TreeInv => ChainSorted
  BY InvChainSorted
<1> QED
  BY <1>1, TreeInvariant, PTL

-------------------------------------------------------------------------------
(* The way of find. *)

DescentOf(d, k, m) ==
    d = [i \in 0 .. m |-> IF i = 0 THEN hdr.root
                          ELSE IF d[i-1] = 0 THEN 0
                          ELSE LET n == disk[d[i-1]]
                               IN  IF n.type = "L" THEN d[i-1] ELSE n.ptrs[Above(n, k)]]

LEMMA DescentExists ==
    ASSUME NEW k, NEW m \in Nat
    PROVE  \E d : DescentOf(d, k, m)
<1> DEFINE S == {x \in Nat : ~ \E d : DescentOf(d, k, x)}
           Next1(a) == IF a = 0 THEN 0
                       ELSE LET n == disk[a]
                            IN  IF n.type = "L" THEN a ELSE n.ptrs[Above(n, k)]
<1>0. \A d, x : DescentOf(d, k, x) <=>
                d = [i \in 0 .. x |-> IF i = 0 THEN hdr.root ELSE Next1(d[i-1])]
  BY DEF DescentOf
<1> HIDE DEF Next1
<1> SUFFICES ASSUME S # {} PROVE FALSE
  OBVIOUS
<1>1. PICK x \in S : \A y \in S : x <= y
  BY LeastNat
<1>2. CASE x = 0
  <2> DEFINE f == [i \in 0 .. 0 |-> hdr.root]
  <2>1. f = [i \in 0 .. 0 |-> IF i = 0 THEN hdr.root ELSE Next1(f[i-1])]
    OBVIOUS
  <2> QED BY <1>0, <1>1, <1>2, <2>1
<1>3. CASE x # 0
  <2>1. PICK e : e = x - 1
    OBVIOUS
  <2>2. e \in Nat /\ e \notin S /\ x = e + 1 /\ x \in Nat
    BY <1>1, <1>3, <2>1
  <2>3. PICK f : f = [i \in 0 .. e |-> IF i = 0 THEN hdr.root ELSE Next1(f[i-1])]
    BY <1>0, <2>2
  <2>4. PICK g : g = [i \in 0 .. x |-> IF i = 0 THEN hdr.root ELSE Next1(f[i-1])]
    OBVIOUS
  <2>5. ASSUME NEW i \in 0 .. e PROVE g[i] = f[i]
    <3>1. i \in 0 .. x
      BY <2>2
    <3> QED BY <2>3, <2>4, <3>1
  <2>6. ASSUME NEW i \in 0 .. x, i # 0 PROVE g[i-1] = f[i-1]
    <3>1. i - 1 \in 0 .. e
      BY <2>2, <2>6
    <3> QED BY <2>5, <3>1
  <2>7. g = [i \in 0 .. x |-> IF i = 0 THEN hdr.root ELSE Next1(g[i-1])]
    BY <2>4, <2>6
  <2> QED BY <1>0, <1>1, <2>7
<1> QED BY <1>2, <1>3

\* The blocks find reaches, one by one.
LEMMA DescentStep ==
    ASSUME hdr.numOfInterNodes \in Nat, NEW k, NEW d, d = Descent(k)
    PROVE  /\ d[0] = hdr.root /\ DOMAIN d = 0 .. hdr.numOfInterNodes
           /\ \A i \in 0 .. hdr.numOfInterNodes : i # 0 =>
                d[i] = IF d[i-1] = 0 THEN 0
                       ELSE LET n == disk[d[i-1]]
                            IN  IF n.type = "L" THEN d[i-1] ELSE n.ptrs[Above(n, k)]
<1>1. \E f : DescentOf(f, k, hdr.numOfInterNodes)
  BY DescentExists
<1>2. DescentOf(d, k, hdr.numOfInterNodes)
  BY <1>1 DEF Descent, DescentOf
<1>3. 0 \in 0 .. hdr.numOfInterNodes
  OBVIOUS
<1> QED
  BY <1>2, <1>3 DEF DescentOf

\* A node of the tree is above the leaves.
LEMMA InnerHeight ==
    ASSUME FileInv, NEW lo \in Ghosts, NEW hi \in Ghosts, NEW ht \in Ghosts, NEW pos,
           RangeInv(lo, hi, ht, pos), NEW p \in I
    PROVE  ht[p] # 0
<1>1. PICK n, c : n = disk[p] /\ c = n.ptrs[2]
  OBVIOUS
<1>2. n \in Inners /\ KeysOK(n)
  BY <1>1, Kinds DEF FileInv
<1>3. n.size \in Nat /\ 1 <= n.size /\ n.size <= Cap /\ Cap \in Nat
  BY <1>2, NodeFacts
<1>4. 2 \in 1 .. n.size + 1 /\ 2 \in 1 .. Cap + 1
  BY <1>3
<1>5. c # 0
  BY <1>1, <1>4 DEF RangeInv, Bounded
<1>6. c \in Nodes /\ ht[p] = ht[c] + 1
  BY <1>1, <1>4, <1>5 DEF RangeInv, Linked
<1>7. ht[c] \in Nat
  BY <1>6, Kinds DEF FileInv, Ghosts
<1> QED
  BY <1>6, <1>7

\* Level by level find goes down to the leaf whose range has the key, and reaches it
\* at the height of the root, whatever the key.
LEMMA DescentGoesDown ==
    ASSUME FileInv, NEW lo \in Ghosts, NEW hi \in Ghosts, NEW ht \in Ghosts, NEW pos,
           RangeInv(lo, hi, ht, pos), ~Pending, hdr.root # 0,
           NEW k \in Nat, k < NilKey, NEW d, d = Descent(k), NEW h, h = ht[hdr.root]
    PROVE  /\ h \in Nat /\ h <= hdr.numOfInterNodes /\ hdr.numOfInterNodes \in Nat
           /\ DOMAIN d = 0 .. hdr.numOfInterNodes
           /\ \A i \in 0 .. hdr.numOfInterNodes :
                 /\ d[i] \in Nodes /\ lo[d[i]] <= k /\ k < hi[d[i]]
                 /\ d[i] \in L <=> i >= h
<1>1. PICK z, root : z = hdr.numOfInterNodes /\ root = hdr.root
  OBVIOUS
<1>2. z \in Nat /\ root \in Nodes /\ root \in Nat
  BY <1>1, Kinds DEF FileInv, HeaderOK, Headers, FileOK
<1>3. h \in Nat /\ h <= z
  BY <1>1, <1>2 DEF RangeInv, Linked, Ghosts
<1>4. /\ d[0] = root /\ DOMAIN d = 0 .. z
      /\ \A i \in 0 .. z : i # 0 =>
           d[i] = IF d[i-1] = 0 THEN 0
                  ELSE LET n == disk[d[i-1]]
                       IN  IF n.type = "L" THEN d[i-1] ELSE n.ptrs[Above(n, k)]
  BY <1>1, <1>2, DescentStep
<1>5. lo[root] = 0 /\ hi[root] = NilKey
  BY <1>1 DEF RangeInv, Bounded, Sib
<1> DEFINE Right(i) == /\ d[i] \in Nodes /\ lo[d[i]] <= k /\ k < hi[d[i]]
                       /\ i <= h => ht[d[i]] = h - i
                       /\ i >= h => d[i] \in L
           S == {i \in Nat : i <= z /\ ~Right(i)}
<1>6. Right(0)
  <2>1. 0 >= h => root \in L
    <3>1. root \in I => ht[root] # 0
      BY InnerHeight
    <3> QED BY <1>1, <1>2, <1>3, <3>1 DEF Nodes
  <2> QED BY <1>1, <1>2, <1>3, <1>4, <1>5, <2>1
<1>7. ASSUME NEW e \in Nat, e + 1 <= z, Right(e) PROVE Right(e + 1)
  <2>1. PICK x, y, n : x = d[e] /\ y = d[e + 1] /\ n = disk[x]
    OBVIOUS
  <2>2. /\ x \in Nodes /\ lo[x] <= k /\ k < hi[x] /\ x \in Nat /\ x # 0
        /\ e <= h => ht[x] = h - e
        /\ e >= h => x \in L
    BY <1>7, <2>1, Kinds DEF FileInv
  <2>3. y = IF n.type = "L" THEN x ELSE n.ptrs[Above(n, k)]
    <3>1. PICK i : i = e + 1
      OBVIOUS
    <3>2. i \in 0 .. z /\ i # 0 /\ i - 1 = e
      BY <1>2, <1>7, <3>1
    <3> QED BY <1>4, <2>1, <2>2, <3>1, <3>2
  <2>4. CASE e >= h
    <3>1. n.type = "L" /\ ht[x] = 0
      BY <2>1, <2>2, <2>4, Kinds DEF FileInv, RangeInv, Linked
    <3>2. y = x /\ ~(e + 1 <= h)
      BY <1>3, <2>3, <2>4, <3>1
    <3> QED BY <2>1, <2>2, <2>4, <3>2
  <2>5. CASE e < h
    <3>1. ht[x] = h - e /\ ht[x] # 0
      BY <1>3, <2>2, <2>5
    <3>2. x \in I /\ x \notin L
      BY <2>2, <3>1 DEF RangeInv, Linked, Nodes
    <3>3. n.type = "I"
      BY <2>1, <3>2, Kinds DEF FileInv
    <3>4. y = n.ptrs[Above(n, k)]
      BY <2>3, <3>3
    <3>5. y \in Nodes /\ lo[y] <= k /\ k < hi[y] /\ ht[x] = ht[y] + 1
      BY <2>1, <2>2, <3>2, <3>4, ChildFor DEF RangeInv, Shape
    <3>6. ht[y] \in Nat
      BY <3>5, Kinds DEF FileInv, Ghosts
    <3>7. ht[y] = h - (e + 1) /\ (e + 1 >= h => ht[y] = 0)
      BY <1>3, <2>5, <3>1, <3>5, <3>6
    <3>8. ASSUME ht[y] = 0 PROVE y \in L
      <4>1. y \in I => ht[y] # 0
        BY InnerHeight
      <4> QED BY <3>5, <3>8, <4>1 DEF Nodes
    <3> QED BY <2>1, <3>5, <3>7, <3>8
  <2> QED BY <1>3, <2>4, <2>5
<1>8. S = {}
  <2> SUFFICES ASSUME S # {} PROVE FALSE
    OBVIOUS
  <2> HIDE DEF Right
  <2>1. PICK m \in S : \A i \in S : m <= i
    BY LeastNat
  <2>2. m \in Nat /\ m <= z /\ ~Right(m) /\ m # 0
    BY <1>6, <2>1
  <2>3. PICK e : e = m - 1
    OBVIOUS
  <2>4. e \in Nat /\ e + 1 = m /\ e <= z /\ ~(m <= e)
    BY <1>2, <2>2, <2>3
  <2>5. Right(e)
    BY <2>1, <2>4
  <2> QED BY <1>7, <2>2, <2>4, <2>5
<1>9. ASSUME NEW i \in 0 .. z
      PROVE  /\ d[i] \in Nodes /\ lo[d[i]] <= k /\ k < hi[d[i]]
             /\ d[i] \in L <=> i >= h
  <2>1. i \in Nat /\ i <= z
    BY <1>2
  <2>2. Right(i)
    BY <1>8, <2>1
  <2>3. ASSUME d[i] \in L, ~(i >= h) PROVE FALSE
    <3>1. i <= h /\ h - i # 0
      BY <1>3, <2>1, <2>3
    <3>2. ht[d[i]] = 0
      BY <2>3 DEF RangeInv, Linked
    <3> QED BY <2>2, <3>1, <3>2
  <2> QED BY <2>2, <2>3
<1> QED
  BY <1>1, <1>2, <1>3, <1>4, <1>9

\* A leaf that comes later in the chain has the greater keys.
LEMMA RangesInOrder ==
    ASSUME FileInv, NEW lo \in Ghosts, NEW hi \in Ghosts, NEW ht \in Ghosts, NEW pos \in Ghosts,
           Shape(lo, hi, ht, pos), NEW a \in L
    PROVE  \A b \in L : pos[a] < pos[b] => hi[a] <= lo[b]
<1>1. \A x \in L : x \in Nodes /\ x \in Nat /\ pos[x] \in Nat /\ lo[x] \in Nat /\ hi[x] \in Nat
  BY Kinds DEF FileInv, Ghosts
<1>2. \A x \in L : lo[x] < hi[x]
  BY <1>1, RangeNotEmpty DEF Shape
<1> DEFINE S == {m \in Nat : \E b \in L : pos[b] = m /\ pos[a] < pos[b] /\ ~(hi[a] <= lo[b])}
<1>3. S = {}
  <2> SUFFICES ASSUME S # {} PROVE FALSE
    OBVIOUS
  <2>1. PICK m \in S : \A i \in S : m <= i
    BY LeastNat
  <2>2. PICK b \in L : pos[b] = m /\ pos[a] < pos[b] /\ ~(hi[a] <= lo[b])
    BY <2>1
  <2>3. b # 1
    <3>1. hdr.root # 0
      BY DEF FileInv, FileOK, L, OfType
    <3>2. pos[1] = 0
      BY <3>1 DEF Shape, Chained
    <3> QED BY <1>1, <2>2, <3>2
  <2>4. PICK x \in L : disk[x].next = b
    BY <2>2, <2>3 DEF Shape, Chained
  <2>5. b # 0
    BY Kinds DEF FileInv
  <2>6. pos[b] = pos[x] + 1 /\ lo[b] = hi[x]
    BY <2>2, <2>4, <2>5 DEF Shape, Chained
  <2>7. pos[x] \in Nat /\ ~(m <= pos[x])
    BY <1>1, <2>2, <2>4, <2>6
  <2>8. pos[x] \notin S
    BY <2>1, <2>7
  <2>9. pos[a] = pos[x] \/ pos[a] < pos[x]
    BY <1>1, <2>2, <2>4, <2>6
  <2>10. CASE pos[a] = pos[x]
    <3>1. a = x
      BY <2>4, <2>10 DEF Shape, Chained
    <3> QED BY <1>1, <2>2, <2>6, <3>1
  <2>11. CASE pos[a] < pos[x]
    <3>1. hi[a] <= lo[x]
      BY <2>4, <2>7, <2>8, <2>11
    <3>2. lo[x] < hi[x]
      BY <1>2, <2>4
    <3> QED BY <1>1, <2>2, <2>4, <2>6, <3>1, <3>2
  <2> QED BY <2>9, <2>10, <2>11
<1>4. ASSUME NEW b \in L, pos[a] < pos[b] PROVE hi[a] <= lo[b]
  BY <1>1, <1>3, <1>4
<1> QED
  BY <1>4

\* Leaves with a key in common are the same leaf.
LEMMA OneLeaf ==
    ASSUME FileInv, NEW lo \in Ghosts, NEW hi \in Ghosts, NEW ht \in Ghosts, NEW pos \in Ghosts,
           Shape(lo, hi, ht, pos), NEW a \in L, NEW b \in L, NEW k \in Nat,
           lo[a] <= k, k < hi[a], lo[b] <= k, k < hi[b]
    PROVE  a = b
<1>1. /\ pos[a] \in Nat /\ pos[b] \in Nat
      /\ lo[a] \in Nat /\ hi[a] \in Nat /\ lo[b] \in Nat /\ hi[b] \in Nat
  BY Kinds DEF FileInv, Ghosts
<1>2. pos[a] < pos[b] => hi[a] <= lo[b]
  BY RangesInOrder
<1>3. pos[b] < pos[a] => hi[b] <= lo[a]
  BY RangesInOrder
<1>4. pos[a] = pos[b]
  BY <1>1, <1>2, <1>3
<1> QED
  BY <1>4 DEF Shape, Chained

\* Once find is at its leaf it stays there.
LEMMA LeafReached ==
    ASSUME FileInv, NEW lo \in Ghosts, NEW hi \in Ghosts, NEW ht \in Ghosts, NEW pos \in Ghosts,
           RangeInv(lo, hi, ht, pos), ~Pending, hdr.root # 0,
           NEW b \in L, NEW k \in Nat, lo[b] <= k, k < hi[b]
    PROVE  /\ Levels(k, b) = {i \in 0 .. hdr.numOfInterNodes : i >= ht[hdr.root]}
           /\ Descent(k)[hdr.numOfInterNodes] = b
<1>1. PICK z, d, h : z = hdr.numOfInterNodes /\ d = Descent(k) /\ h = ht[hdr.root]
  OBVIOUS
<1>2. k < NilKey
  <2>1. b \in Nodes /\ b \in Nat /\ NilKey \in Nat
    BY Kinds, KeyFacts DEF FileInv
  <2>2. hi[b] <= NilKey /\ hi[b] \in Nat
    BY <2>1 DEF RangeInv, Bounded, Ghosts
  <2> QED BY <2>1, <2>2
<1>3. /\ h \in Nat /\ h <= z /\ z \in Nat /\ DOMAIN d = 0 .. z
      /\ \A i \in 0 .. z : /\ d[i] \in Nodes /\ lo[d[i]] <= k /\ k < hi[d[i]]
                           /\ d[i] \in L <=> i >= h
  BY <1>1, <1>2, DescentGoesDown
<1>4. ASSUME NEW i \in 0 .. z, i >= h PROVE d[i] = b
  <2>1. d[i] \in L /\ lo[d[i]] <= k /\ k < hi[d[i]]
    BY <1>3, <1>4
  <2> QED BY <2>1, OneLeaf DEF RangeInv, Shape
<1>5. \A i \in 0 .. z : d[i] = b => i >= h
  BY <1>3
<1>6. Levels(k, b) = {i \in 0 .. z : i >= h}
  BY <1>1, <1>3, <1>4, <1>5 DEF Levels
<1>7. z \in 0 .. z /\ z >= h
  BY <1>3
<1> QED
  BY <1>1, <1>4, <1>6, <1>7

LEMMA InvSearchReaches == ASSUME NoNil, TreeInv PROVE SearchReaches
<1> SUFFICES ASSUME pc = "idle", hdr.root # 0
             PROVE  /\ \A k \in Keys \ {NilKey} : Descent(k)[hdr.numOfInterNodes] # 0
                    /\ \A b \in LeafChain : \A k \in ToSet(disk[b].keys) \ {NilKey} :
                          Descent(k)[hdr.numOfInterNodes] = b
  BY DEF SearchReaches
<1>1. PICK lo \in Ghosts, hi \in Ghosts, ht \in Ghosts, pos \in Ghosts :
         RangeInv(lo, hi, ht, pos)
  BY DEF TreeInv
<1>2. ~Pending /\ LeafChain = L /\ FileInv
  BY LeafChainIs DEF Pending, TreeInv
<1>3. ASSUME NEW k \in Keys \ {NilKey} PROVE Descent(k)[hdr.numOfInterNodes] # 0
  <2>1. k \in Nat /\ k < NilKey
    BY KeyFacts
  <2>2. PICK d, z, h : d = Descent(k) /\ z = hdr.numOfInterNodes /\ h = ht[hdr.root]
    OBVIOUS
  <2>3. z \in Nat /\ \A i \in 0 .. z : d[i] \in Nodes
    BY <1>1, <1>2, <2>1, <2>2, DescentGoesDown
  <2>4. d[z] \in Nodes
    BY <2>3
  <2> QED BY <1>2, <2>2, <2>4, Kinds DEF FileInv
<1>4. ASSUME NEW b \in L, NEW k \in ToSet(disk[b].keys) \ {NilKey}
      PROVE  Descent(k)[hdr.numOfInterNodes] = b
  <2>1. PICK n : n = disk[b]
    OBVIOUS
  <2>2. n \in Leaves \cup Inners /\ KeysOK(n) /\ b \in Nodes
    BY <1>2, <2>1, Kinds DEF FileInv
  <2>3. /\ Cap \in Nat /\ n.size \in Nat /\ n.keys \in [1 .. Cap -> Cells]
        /\ \A i \in 1 .. Cap : n.keys[i] \in Nat
        /\ \A i \in 1 .. Cap : i > n.size => n.keys[i] = NilKey
    BY <2>2, NodeFacts
  <2>4. PICK i \in 1 .. Cap : k = n.keys[i]
    BY <2>1, <2>3 DEF ToSet
  <2>5. i \in 1 .. n.size
    <3>1. ~(i > n.size)
      BY <2>3, <2>4
    <3> QED BY <2>3, <3>1
  <2>6. k \in Nat /\ lo[b] <= k /\ k < hi[b]
    BY <1>1, <2>1, <2>2, <2>3, <2>4, <2>5 DEF RangeInv, Bounded
  <2> QED BY <1>1, <1>2, <2>6, LeafReached
<1> QED
  BY <1>2, <1>3, <1>4

\* Between calls find reaches the leaf of every key in the file and a leaf for every
\* key there could be: no split loses a subtree.
THEOREM SearchesArrive == NoNil => (Spec => []SearchReaches)
<1> SUFFICES ASSUME NoNil PROVE Spec => []SearchReaches
  OBVIOUS
<1>1. TreeInv => SearchReaches
  BY InvSearchReaches
<1> QED
  BY <1>1, TreeInvariant, PTL

LEMMA InvBalanced == ASSUME TreeInv PROVE Balanced
<1> SUFFICES ASSUME pc = "idle"
             PROVE  /\ Cardinality({Levels(disk[b].keys[1], b) : b \in LeafChain}) <= 1
                    /\ \A b \in Nodes : b # hdr.root => disk[b].size >= Cap \div 2
  BY DEF Balanced, Nodes, L, I
<1>1. PICK lo \in Ghosts, hi \in Ghosts, ht \in Ghosts, pos \in Ghosts :
         RangeInv(lo, hi, ht, pos)
  BY DEF TreeInv
<1>2. ~Pending /\ LeafChain = L /\ FileInv
  BY LeafChainIs DEF Pending, TreeInv
<1>3. PICK all : all = {i \in 0 .. hdr.numOfInterNodes : i >= ht[hdr.root]}
  OBVIOUS
<1>4. ASSUME NEW b \in L PROVE Levels(disk[b].keys[1], b) = all
  <2>1. PICK k : k = disk[b].keys[1]
    OBVIOUS
  <2>2. disk[b] \in Leaves \cup Inners /\ KeysOK(disk[b]) /\ b \in Nodes
    BY <1>2, Kinds DEF FileInv
  <2>3. 1 \in 1 .. disk[b].size /\ k \in Nat
    <3>1. disk[b].size \in Nat /\ 1 <= disk[b].size /\ Cap \in Nat /\ 1 \in 1 .. Cap
      BY <2>2, NodeFacts, TreeAssumption
    <3>2. disk[b].keys[1] \in Nat
      BY <2>2, <3>1, NodeFacts
    <3> QED BY <2>1, <3>1, <3>2
  <2>4. lo[b] <= k /\ k < hi[b]
    BY <1>1, <2>1, <2>2, <2>3 DEF RangeInv, Bounded
  <2>5. hdr.root # 0
    BY <1>2 DEF FileInv, FileOK, L, OfType
  <2>6. Levels(k, b) = {i \in 0 .. hdr.numOfInterNodes : i >= ht[hdr.root]}
    BY <1>1, <1>2, <2>3, <2>4, <2>5, LeafReached
  <2> QED BY <1>3, <2>1, <2>6
<1>5. Cardinality({Levels(disk[b].keys[1], b) : b \in LeafChain}) <= 1
  <2>1. PICK T : T = {Levels(disk[b].keys[1], b) : b \in LeafChain}
    OBVIOUS
  <2>2. T \in SUBSET {all}
    BY <1>2, <1>4, <2>1
  <2>3. IsFiniteSet({all}) /\ Cardinality({all}) = 1
    BY FS_Singleton
  <2>4. Cardinality(T) <= Cardinality({all})
    BY <2>2, <2>3, FS_Subset
  <2> QED BY <2>1, <2>3, <2>4
<1>6. \A b \in Nodes : b # hdr.root => disk[b].size >= Cap \div 2
  BY <1>2 DEF FileInv, HalfFull
<1> QED
  BY <1>5, <1>6

\* Between calls all leaves are at one depth, and every node but the root is at least
\* as full as the smaller half of a split.
THEOREM TreeBalanced == NoNil => (Spec => []Balanced)
<1>1. TreeInv => Balanced
  BY InvBalanced
<1> QED
  BY <1>1, TreeInvariant, PTL

===============================================================================
