------------------------------ MODULE TreeMapProofs ------------------------------
(***************************************************************************)
(* The B+ tree as the map it promises to be, for any keys below INT_MAX,   *)
(* any table blocks and any capacities.  The structure of the tree gives   *)
(* every key one entry in one leaf; the invariant here gives every bucket  *)
(* the head of its chain (own), which is the pointer of one key.           *)
(***************************************************************************)
EXTENDS BPlusTreeProofs

\* Bucket c has the table block v.
In(c, v) == \E i \in 1 .. Len(disk[c].ptrs) : disk[c].ptrs[i] = v

\* Every bucket is in the chain of one key, only the last one of a chain has room,
\* and no number is in a chain twice.
ChainInv(own) ==
    hdr.duplicate = "Y" =>
      /\ \A k, p : Filed(k, p) => p \in B /\ own[p] = p
      /\ \A k, j, p : Filed(k, p) /\ Filed(j, p) => j = k
      /\ \A c \in B : own[c] <= c /\ \E k : Filed(k, own[c])
      /\ \A c \in B : disk[c].next # 0 =>
            /\ own[disk[c].next] = own[c]
            /\ Len(disk[c].ptrs) = BucketCap
            /\ \A d \in B : disk[d].next = disk[c].next => d = c
      /\ \A c \in B : c # own[c] => \E d \in B : disk[d].next = c
      /\ \A c, d \in B : own[c] = own[d] =>
            \A i \in 1 .. Len(disk[c].ptrs), j \in 1 .. Len(disk[d].ptrs) :
               disk[c].ptrs[i] = disk[d].ptrs[j] => c = d /\ i = j

\* The keys of the file are keys of the model, and so is what the call brings.
KeysIn == \A k, p : Filed(k, p) => k \in Keys
CallInv == pc = "find" => /\ call.op \in {"find_it", "insert"}
                          /\ call.op = "insert" => call.val \in Vals

MapInv == KeysIn /\ CallInv /\ \E own \in Ghosts : ChainInv(own)

\* The file has table block v for key k.
Has(own, k, v) ==
    IF hdr.duplicate = "N" THEN Filed(k, v)
    ELSE \E c \in B : Filed(k, own[c]) /\ In(c, v)

-------------------------------------------------------------------------------
(* Keys and leaves. *)

\* An entry of a key that leads to leaf b is in leaf b.
LEMMA EntryInLeaf ==
    ASSUME FileInv, NEW lo \in Ghosts, NEW hi \in Ghosts, NEW ht \in Ghosts, NEW pos \in Ghosts,
           Shape(lo, hi, ht, pos), NEW b \in L, NEW k \in Nat, lo[b] <= k, k < hi[b],
           NEW p, Filed(k, p)
    PROVE  \E i \in 1 .. disk[b].size : disk[b].keys[i] = k /\ disk[b].ptrs[i] = p
<1>1. PICK a \in L : \E i \in 1 .. disk[a].size : disk[a].keys[i] = k /\ disk[a].ptrs[i] = p
  BY DEF Filed
<1>2. lo[a] <= k /\ k < hi[a]
  <2>1. a \in Nodes
    BY DEF Nodes
  <2> QED BY <1>1, <2>1 DEF Shape, Bounded
<1>3. a = b
  BY <1>2, OneLeaf
<1> QED
  BY <1>1, <1>3

\* A key is a number below INT_MAX and has one entry.
LEMMA OneEntry ==
    ASSUME FileInv, NEW lo \in Ghosts, NEW hi \in Ghosts, NEW ht \in Ghosts, NEW pos \in Ghosts,
           Shape(lo, hi, ht, pos), NEW k, NEW p, Filed(k, p)
    PROVE  k \in Nat /\ k < NilKey /\ p \in Nat /\ \A r : Filed(k, r) => r = p
<1>2. PICK a \in L : \E x \in 1 .. disk[a].size : disk[a].keys[x] = k /\ disk[a].ptrs[x] = p
  BY DEF Filed
<1>3. PICK n, i : n = disk[a] /\ i \in 1 .. n.size /\ n.keys[i] = k /\ n.ptrs[i] = p
  BY <1>2
<1>4. n \in Leaves /\ KeysOK(n) /\ a \in Nodes
  BY <1>3, Kinds DEF FileInv
<1>5. /\ n.size \in Nat /\ n.size <= Cap /\ Cap \in Nat
      /\ \A x \in 1 .. Cap : n.keys[x] \in Nat
      /\ \A x \in 1 .. Cap : x <= n.size => n.keys[x] < NilKey
      /\ \A x, y \in 1 .. n.size : x < y => n.keys[x] < n.keys[y]
  BY <1>4, NodeFacts
<1>6. i \in 1 .. n.size /\ i \in 1 .. Cap /\ i <= n.size
  BY <1>2, <1>3, <1>5
<1>7. k \in Nat /\ k < NilKey /\ p \in Nat
  <2>1. n.ptrs[i] \in Nat
    BY <1>4, <1>6 DEF Leaves
  <2> QED BY <1>2, <1>3, <1>5, <1>6, <2>1
<1>8. lo[a] <= k /\ k < hi[a]
  BY <1>2, <1>4 DEF Shape, Bounded
<1>9. ASSUME NEW r, Filed(k, r) PROVE r = p
  <2>1. PICK j \in 1 .. n.size : n.keys[j] = k /\ n.ptrs[j] = r
    BY <1>3, <1>4, <1>7, <1>8, <1>9, EntryInLeaf
  <2>2. ~(n.keys[i] < n.keys[j]) /\ ~(n.keys[j] < n.keys[i])
    BY <1>2, <1>3, <1>7, <2>1
  <2>3. i = j
    BY <1>5, <1>6, <2>1, <2>2
  <2> QED BY <1>2, <1>3, <2>1, <2>3
<1> QED
  BY <1>7, <1>9

LEMMA KeyOnce ==
    ASSUME TreeInv, NEW k, NEW p, Filed(k, p)
    PROVE  k \in Nat /\ k < NilKey /\ p \in Nat /\ \A r : Filed(k, r) => r = p
<1>1. PICK lo \in Ghosts, hi \in Ghosts, ht \in Ghosts, pos \in Ghosts : Shape(lo, hi, ht, pos)
  BY DEF TreeInv, RangeInv, Shape
<1> QED
  BY <1>1, OneEntry DEF TreeInv

\* find is at the leaf of its key: the file has the key if that leaf has it.
LEMMA FoundHere ==
    ASSUME TreeInv, pc = "find", disk[at].type = "L", NEW n, n = disk[at],
           NEW k, k = call.key, NEW hits, hits = IndexOf(n, k)
    PROVE  /\ k \in Keys /\ hdr.root # 0 /\ open /\ at \in L
           /\ hits = {} => \A p : ~Filed(k, p)
           /\ hits # {} => Filed(k, n.ptrs[Min(hits)])
<1>1. PICK lo \in Ghosts, hi \in Ghosts, ht \in Ghosts, pos \in Ghosts :
         RangeInv(lo, hi, ht, pos)
  BY DEF TreeInv
<1>2. k \in Keys /\ at \in Nodes /\ lo[at] <= k /\ k < hi[at] /\ hdr.root # 0 /\ open
  BY <1>1 DEF RangeInv, CallOK
<1>3. at \in L /\ k \in Nat /\ FileInv
  BY <1>2, KeyFacts DEF Nodes, L, I, OfType, TreeInv
<1>4. ASSUME hits = {}, NEW p, Filed(k, p) PROVE FALSE
  <2>1. \E i \in 1 .. n.size : n.keys[i] = k
    BY <1>1, <1>2, <1>3, <1>4, EntryInLeaf DEF RangeInv, Shape
  <2> QED BY <1>4, <2>1 DEF IndexOf
<1>5. ASSUME hits # {} PROVE Filed(k, n.ptrs[Min(hits)])
  <2>1. n \in Leaves
    BY <1>3, Kinds DEF FileInv
  <2>2. hits \in SUBSET Nat
    BY DEF IndexOf
  <2>3. Min(hits) \in hits
    BY <1>5, <2>2, MinFacts
  <2> QED BY <1>3, <2>3 DEF IndexOf, Filed
<1> QED
  BY <1>2, <1>3, <1>4, <1>5

-------------------------------------------------------------------------------
(* Chains of buckets and what the file holds. *)

\* The links of a chain go up.
LEMMA ChainRises ==
    ASSUME FileInv, NEW h \in B, NEW c, c = Chain(h), NEW z, z = hdr.numOfBlocks
    PROVE  /\ z \in Nat /\ c[0] = h
           /\ \A i \in 0 .. z : c[i] = 0 \/ (c[i] \in B /\ c[i] > i)
           /\ \A i \in 0 .. z : i # 0 => c[i] = IF c[i-1] = 0 THEN 0 ELSE disk[c[i-1]].next
           /\ ChainFrom(h) = {c[i] : i \in 0 .. z} \ {0}
           /\ \A x \in B : x \in Nat /\ x # 0 /\ x < z
<1>1. z \in Nat /\ DOMAIN disk = 1 .. z - 1
  BY DEF HeaderOK, Headers, FileOK, FileInv
<1>2. /\ c[0] = h
      /\ \A i \in 0 .. z : i # 0 => c[i] = IF c[i-1] = 0 THEN 0 ELSE disk[c[i-1]].next
      /\ ChainFrom(h) = {c[i] : i \in 0 .. z} \ {0}
  BY <1>1, ChainStep
<1>3. \A x \in B : x \in DOMAIN disk /\ x \in Nat /\ x # 0 /\ x < z
  BY <1>1 DEF B, OfType
<1>4. \A x \in B : disk[x].next # 0 => disk[x].next \in B /\ disk[x].next > x
  BY DEF BucketsOK, FileInv
<1> DEFINE S == {i \in 0 .. z : ~(c[i] = 0 \/ (c[i] \in B /\ c[i] > i))}
<1>5. S = {}
  <2> SUFFICES ASSUME S # {} PROVE FALSE
    OBVIOUS
  <2>1. S \in SUBSET Nat
    OBVIOUS
  <2>2. PICK i \in S : \A x \in S : i <= x
    BY <2>1, LeastNat
  <2>3. c[0] \in B /\ c[0] > 0
    BY <1>2, <1>3
  <2>4. i \in 0 .. z /\ i # 0
    BY <2>2, <2>3
  <2>5. i - 1 \in 0 .. z /\ ~(i <= i - 1)
    BY <1>1, <2>4
  <2>6. c[i-1] = 0 \/ (c[i-1] \in B /\ c[i-1] > i - 1)
    BY <2>2, <2>5
  <2>7. c[i] = IF c[i-1] = 0 THEN 0 ELSE disk[c[i-1]].next
    BY <1>2, <2>4
  <2>8. ~(c[i] = 0 \/ (c[i] \in B /\ c[i] > i))
    BY <2>2
  <2>9. c[i-1] # 0
    BY <2>7, <2>8
  <2>10. c[i] \in B /\ c[i] > c[i-1]
    BY <1>4, <2>6, <2>7, <2>8, <2>9
  <2>11. c[i] \in Nat /\ c[i-1] \in Nat /\ i \in Nat
    BY <1>3, <2>4, <2>6, <2>9, <2>10
  <2>12. c[i] > i
    BY <2>6, <2>9, <2>10, <2>11
  <2> QED BY <2>8, <2>10, <2>12
<1>6. \A i \in 0 .. z : c[i] = 0 \/ (c[i] \in B /\ c[i] > i)
  BY <1>5
<1> QED
  BY <1>1, <1>2, <1>3, <1>6

\* The chain of an entry's pointer has the buckets it owns.
LEMMA ChainMembers ==
    ASSUME FileInv, hdr.duplicate = "Y", NEW own \in Ghosts, ChainInv(own),
           NEW k, NEW h, Filed(k, h)
    PROVE  \A x : x \in ChainFrom(h) <=> x \in B /\ own[x] = h
<1>1. h \in B /\ own[h] = h
  BY DEF ChainInv
<1>2. PICK c, z : c = Chain(h) /\ z = hdr.numOfBlocks
  OBVIOUS
<1>3. /\ z \in Nat /\ c[0] = h
      /\ \A i \in 0 .. z : c[i] = 0 \/ (c[i] \in B /\ c[i] > i)
      /\ \A i \in 0 .. z : i # 0 => c[i] = IF c[i-1] = 0 THEN 0 ELSE disk[c[i-1]].next
      /\ ChainFrom(h) = {c[i] : i \in 0 .. z} \ {0}
      /\ \A x \in B : x \in Nat /\ x # 0 /\ x < z
  BY <1>1, <1>2, ChainRises
<1>4. \A x \in B : disk[x].next # 0 => /\ disk[x].next \in B /\ disk[x].next > x
                                       /\ own[disk[x].next] = own[x]
  BY DEF ChainInv, BucketsOK, FileInv
<1>5. ASSUME NEW x \in ChainFrom(h) PROVE x \in B /\ own[x] = h
  <2> DEFINE S == {i \in 0 .. z : ~(c[i] = 0 \/ own[c[i]] = h)}
  <2>1. S = {}
    <3> SUFFICES ASSUME S # {} PROVE FALSE
      OBVIOUS
    <3>1. S \in SUBSET Nat
      OBVIOUS
    <3>2. PICK i \in S : \A y \in S : i <= y
      BY <3>1, LeastNat
    <3>3. i \in 0 .. z /\ i # 0
      BY <1>1, <1>3, <3>2
    <3>4. i - 1 \in 0 .. z /\ ~(i <= i - 1)
      BY <1>3, <3>3
    <3>5. c[i-1] = 0 \/ own[c[i-1]] = h
      BY <3>2, <3>4
    <3>6. c[i] = IF c[i-1] = 0 THEN 0 ELSE disk[c[i-1]].next
      BY <1>3, <3>3
    <3>7. c[i] # 0 /\ own[c[i]] # h
      BY <3>2
    <3>8. c[i-1] # 0 /\ c[i-1] \in B
      BY <1>3, <3>4, <3>6, <3>7
    <3> QED BY <1>4, <3>5, <3>6, <3>7, <3>8
  <2>2. PICK i \in 0 .. z : c[i] = x /\ x # 0
    BY <1>3
  <2> QED BY <1>3, <2>1, <2>2
<1>6. ASSUME NEW x \in B, own[x] = h PROVE x \in ChainFrom(h)
  <2> DEFINE S == {y \in B : own[y] = h /\ y \notin ChainFrom(h)}
  <2>1. S = {}
    <3> SUFFICES ASSUME S # {} PROVE FALSE
      OBVIOUS
    <3>1. S \in SUBSET Nat
      BY <1>3
    <3>2. PICK y \in S : \A w \in S : y <= w
      BY <3>1, LeastNat
    <3>3. y \in B /\ own[y] = h /\ y \notin ChainFrom(h)
      BY <3>2
    <3>4. h \in ChainFrom(h)
      <4>1. 0 \in 0 .. z /\ h # 0
        BY <1>1, <1>3
      <4> QED BY <1>3, <4>1
    <3>5. PICK d \in B : disk[d].next = y
      BY <3>3, <3>4 DEF ChainInv
    <3>6. y # 0 /\ y > d /\ own[d] = h /\ y \in Nat /\ d \in Nat
      BY <1>3, <1>4, <3>3, <3>5
    <3>7. d \in ChainFrom(h)
      <4>1. d \notin S
        BY <3>2, <3>6
      <4> QED BY <3>6, <4>1
    <3>8. PICK i \in 0 .. z : c[i] = d
      BY <1>3, <3>7
    <3>9. PICK j : j = i + 1
      OBVIOUS
    <3>10. j \in 0 .. z /\ j # 0 /\ j - 1 = i
      <4>1. d \in Nat /\ d > i /\ d < z
        BY <1>3, <3>6, <3>8
      <4> QED BY <1>3, <3>9, <4>1
    <3>11. c[j] = y
      <4>1. c[j] = IF c[i] = 0 THEN 0 ELSE disk[c[i]].next
        BY <1>3, <3>10
      <4> QED BY <1>3, <3>5, <3>8, <4>1
    <3> QED BY <1>3, <3>3, <3>6, <3>10, <3>11
  <2> QED BY <1>6, <2>1
<1> QED
  BY <1>5, <1>6

\* The block numbers of a bucket.
LEMMA InBucket ==
    ASSUME FileInv, NEW c \in B, NEW v
    PROVE  v \in ToSet(disk[c].ptrs) <=> In(c, v)
<1>1. PICK s : s = disk[c].ptrs
  OBVIOUS
<1>2. s \in Seq(Nat)
  BY <1>1, Kinds DEF FileInv, Buckets
<1>3. DOMAIN s = 1 .. Len(s)
  BY <1>2
<1> QED
  BY <1>1, <1>3 DEF In, ToSet

LEMMA HeldIs ==
    ASSUME FileInv, hdr.duplicate = "Y", NEW own \in Ghosts, ChainInv(own),
           NEW k, NEW h, Filed(k, h), NEW v
    PROVE  v \in Held(h) <=> \E c \in B : own[c] = h /\ In(c, v)
<1>1. \A x : x \in ChainFrom(h) <=> x \in B /\ own[x] = h
  BY ChainMembers
<1>2. v \in Held(h) <=> \E c \in ChainFrom(h) : v \in ToSet(disk[c].ptrs)
  BY DEF Held
<1> QED
  BY <1>1, <1>2, InBucket

LEMMA EntriesIs ==
    ASSUME TreeInv, NEW k, NEW p
    PROVE  p \in Entries(k) <=> Filed(k, p)
<1>1. LeafChain = L
  BY LeafChainIs
<1>2. \A b : IndexOf(disk[b], k) = {i \in 1 .. disk[b].size : disk[b].keys[i] = k}
  BY DEF IndexOf
<1>3. p \in Entries(k) <=> \E b \in L : \E i \in IndexOf(disk[b], k) : disk[b].ptrs[i] = p
  BY <1>1 DEF Entries
<1> QED
  BY <1>2, <1>3 DEF Filed

\* What the index shows for every key.
Shown == \A own \in Ghosts : ChainInv(own) =>
            \A k \in Keys : \A v : v \in Content[k] <=> Has(own, k, v)

LEMMA InvShown == ASSUME TreeInv PROVE Shown
<1> SUFFICES ASSUME NEW own \in Ghosts, ChainInv(own), NEW k \in Keys, NEW v
             PROVE  v \in Content[k] <=> Has(own, k, v)
  BY DEF Shown
<1>1. FileInv /\ hdr \in Headers
  BY DEF TreeInv, FileInv, HeaderOK
<1>2. CASE hdr.duplicate = "N"
  BY <1>2, EntriesIs DEF Content, Has
<1>3. CASE hdr.duplicate = "Y"
  <2>1. v \in Content[k] <=> \E p \in Entries(k) : v \in Held(p)
    BY <1>3 DEF Content
  <2>2. v \in Content[k] <=> \E p : Filed(k, p) /\ v \in Held(p)
    BY <2>1, EntriesIs
  <2>3. \A p : Filed(k, p) => (v \in Held(p) <=> \E c \in B : own[c] = p /\ In(c, v))
    BY <1>1, <1>3, HeldIs
  <2>4. (\E p : Filed(k, p) /\ v \in Held(p)) <=> \E c \in B : Filed(k, own[c]) /\ In(c, v)
    BY <2>3
  <2> QED BY <1>3, <2>2, <2>4 DEF Has
<1>4. CASE hdr.duplicate = "none"
  <2>1. hdr.root = 0 /\ hdr.numOfBlocks = 0
    BY <1>1, <1>4 DEF FileInv, HeaderOK, NoHeader
  <2>2. DOMAIN disk = {}
    BY <1>1, <2>1 DEF FileInv, FileOK
  <2>3. L = {} /\ B = {}
    BY <2>2 DEF L, B, OfType
  <2>4. \A p : p \notin Entries(k)
    BY <2>3, EntriesIs DEF Filed
  <2> QED BY <1>4, <2>3, <2>4 DEF Content, Has
<1> QED
  BY <1>1, <1>2, <1>3, <1>4 DEF Headers

-------------------------------------------------------------------------------
(* What an insertion does to the chains. *)

\* The pointers of the entries and the owners of the buckets are buckets.
LEMMA Owners ==
    ASSUME FileInv, hdr.duplicate = "Y", NEW own \in Ghosts, ChainInv(own)
    PROVE  /\ \A k, p : Filed(k, p) => p \in B /\ p \in Nat /\ own[p] = p
           /\ \A c \in B : /\ c \in Nat /\ own[c] \in B /\ own[c] <= c
                           /\ disk[c].ptrs \in Seq(Nat) /\ Len(disk[c].ptrs) \in 1 .. BucketCap
                           /\ disk[c].next # 0 => disk[c].next \in B
<1>1. \A c \in B : c \in Nat /\ disk[c] \in Buckets
  BY Kinds DEF FileInv
<1>2. \A k, p : Filed(k, p) => p \in B /\ own[p] = p
  BY DEF ChainInv
<1>3. \A c \in B : own[c] <= c /\ own[c] \in B
  BY <1>2 DEF ChainInv
<1>4. \A c \in B : Len(disk[c].ptrs) \in 1 .. BucketCap /\ (disk[c].next # 0 => disk[c].next \in B)
  BY DEF FileInv, BucketsOK
<1> QED
  BY <1>1, <1>2, <1>3, <1>4 DEF Buckets

\* The file has what it had and table block v for key k.
OneMoreBlock(own, to, k, v) ==
    \A j, w : Has(to, j, w)' <=> Has(own, j, w) \/ (j = k /\ w = v)

\* A key that was not there gets a chain of its own.
LEMMA EnterKeeps ==
    ASSUME FileInv, NEW own \in Ghosts, ChainInv(own), NEW k, NEW v, NEW b, KeyEntered(k, v, b),
           \A p : ~Filed(k, p)
    PROVE  \E to \in Ghosts : ChainInv(to)' /\ OneMoreBlock(own, to, k, v)
<1>0. /\ hdr.duplicate \in {"Y", "N"} /\ hdr'.duplicate = hdr.duplicate
      /\ \A c \in B : disk'[c] = disk[c]
      /\ \A j, p : Filed(j, p)' <=> Filed(j, p) \/ (j = k /\ p = Pointer(v, b))
      /\ b \in Nat /\ b \notin B
      /\ hdr.duplicate = "N" => B' = B
      /\ hdr.duplicate = "Y" => B' = B \cup {b} /\ disk'[b] = Bucket(<<v>>, 0)
  BY DEF KeyEntered
<1>1. CASE hdr.duplicate = "N"
  <2>1. ChainInv(own)'
    BY <1>0, <1>1 DEF ChainInv
  <2>2. OneMoreBlock(own, own, k, v)
    BY <1>0, <1>1 DEF OneMoreBlock, Has, Pointer
  <2> QED BY <2>1, <2>2
<1>2. CASE hdr.duplicate = "Y"
  <2>1. PICK to : to = [own EXCEPT ![b] = b]
    OBVIOUS
  <2>2. to \in Ghosts /\ to[b] = b /\ \A c \in B : to[c] = own[c]
    <3>1. \A c \in B : c \in Nat
      BY Kinds DEF FileInv
    <3> QED BY <1>0, <2>1, <3>1 DEF Ghosts
  <2>3. \A j, p : Filed(j, p)' <=> Filed(j, p) \/ (j = k /\ p = b)
    BY <1>0, <1>2 DEF Pointer
  <2>4. disk'[b].ptrs = <<v>> /\ disk'[b].next = 0 /\ B' = B \cup {b}
    BY <1>0, <1>2 DEF Bucket
  <2>5. /\ \A j, p : Filed(j, p) => p \in B /\ p \in Nat /\ own[p] = p
        /\ \A c \in B : c \in Nat /\ own[c] \in B /\ own[c] <= c
        /\ \A c \in B : disk[c].next # 0 => disk[c].next \in B
    BY <1>2, Owners
  <2>6. /\ \A i, j, p : Filed(i, p) /\ Filed(j, p) => i = j
        /\ \A c \in B : \E j : Filed(j, own[c])
        /\ \A c \in B : disk[c].next # 0 =>
              /\ own[disk[c].next] = own[c]
              /\ Len(disk[c].ptrs) = BucketCap
              /\ \A d \in B : disk[d].next = disk[c].next => d = c
        /\ \A c \in B : c # own[c] => \E d \in B : disk[d].next = c
        /\ \A c, d \in B : own[c] = own[d] =>
              \A i \in 1 .. Len(disk[c].ptrs), j \in 1 .. Len(disk[d].ptrs) :
                 disk[c].ptrs[i] = disk[d].ptrs[j] => c = d /\ i = j
    BY <1>2 DEF ChainInv
  <2>7. ASSUME NEW j, NEW p, Filed(j, p)' PROVE p \in B' /\ to[p] = p
    BY <2>2, <2>3, <2>4, <2>5, <2>7
  <2>8. ASSUME NEW i, NEW j, NEW p, Filed(i, p)', Filed(j, p)' PROVE j = i
    BY <1>0, <2>3, <2>5, <2>6, <2>8
  <2>9. ASSUME NEW c \in B' PROVE to[c] <= c /\ \E j : Filed(j, to[c])'
    BY <1>0, <2>2, <2>3, <2>4, <2>5, <2>6
  <2>10. ASSUME NEW c \in B', disk'[c].next # 0
         PROVE  /\ to[disk'[c].next] = to[c]
                /\ Len(disk'[c].ptrs) = BucketCap
                /\ \A d \in B' : disk'[d].next = disk'[c].next => d = c
    <3>1. c \in B /\ disk'[c] = disk[c] /\ disk[c].next \in B
      BY <1>0, <2>4, <2>5, <2>10
    <3>2. \A d \in B' : disk'[d].next = disk'[c].next => d \in B
      BY <2>4, <2>10
    <3> QED BY <1>0, <2>2, <2>6, <2>10, <3>1, <3>2
  <2>11. ASSUME NEW c \in B', c # to[c] PROVE \E d \in B' : disk'[d].next = c
    BY <1>0, <2>2, <2>4, <2>6, <2>11
  <2>12. ASSUME NEW c \in B', NEW d \in B', to[c] = to[d],
                NEW i \in 1 .. Len(disk'[c].ptrs), NEW j \in 1 .. Len(disk'[d].ptrs),
                disk'[c].ptrs[i] = disk'[d].ptrs[j]
         PROVE  c = d /\ i = j
    <3>1. CASE c = b
      <4>1. d = b
        BY <1>0, <2>2, <2>4, <2>5, <2>12, <3>1
      <4>2. Len(<<v>>) = 1
        OBVIOUS
      <4>3. i = 1 /\ j = 1
        <5>1. \A x \in 1 .. Len(disk'[b].ptrs) : x = 1
          BY <2>4, <4>2
        <5> QED BY <2>12, <3>1, <4>1, <5>1
      <4> QED BY <3>1, <4>1, <4>3
    <3>2. CASE c # b
      <4>1. c \in B /\ d \in B
        BY <1>0, <2>2, <2>4, <2>5, <2>12, <3>2
      <4>2. own[c] = own[d] /\ disk'[c] = disk[c] /\ disk'[d] = disk[d]
        BY <1>0, <2>2, <2>12, <4>1
      <4>3. \A x \in 1 .. Len(disk[c].ptrs), y \in 1 .. Len(disk[d].ptrs) :
               disk[c].ptrs[x] = disk[d].ptrs[y] => c = d /\ x = y
        BY <2>6, <4>1, <4>2
      <4> QED BY <2>12, <4>2, <4>3
    <3> QED BY <3>1, <3>2
  <2>13. ChainInv(to)'
    BY <2>7, <2>8, <2>9, <2>10, <2>11, <2>12 DEF ChainInv
  <2>14. ASSUME NEW j, NEW w
         PROVE  Has(to, j, w)' <=> Has(own, j, w) \/ (j = k /\ w = v)
    <3>1. Has(to, j, w)' <=> \E c \in B' : Filed(j, to[c])' /\ In(c, w)'
      BY <1>0, <1>2 DEF Has
    <3>2. Has(own, j, w) <=> \E c \in B : Filed(j, own[c]) /\ In(c, w)
      BY <1>2 DEF Has
    <3>3. In(b, w)' <=> w = v
      <4>1. Len(<<v>>) = 1 /\ <<v>>[1] = v
        OBVIOUS
      <4> QED BY <2>4, <4>1 DEF In
    <3>4. \A c \in B : In(c, w)' <=> In(c, w)
      BY <1>0 DEF In
    <3>5. Filed(j, b)' <=> j = k
      BY <1>0, <2>3, <2>5
    <3>6. \A c \in B : Filed(j, to[c])' <=> Filed(j, own[c])
      BY <1>0, <2>2, <2>3, <2>5
    <3> QED BY <2>2, <2>4, <3>1, <3>2, <3>3, <3>4, <3>5, <3>6
  <2> QED BY <2>2, <2>13, <2>14 DEF OneMoreBlock
<1> QED
  BY <1>0, <1>1, <1>2

\* A step that keeps the entries and the buckets keeps the chains.
LEMMA SameKeeps ==
    ASSUME NEW own \in Ghosts, ChainInv(own), SameEntries
    PROVE  ChainInv(own)' /\ \A j, w : Has(own, j, w)' <=> Has(own, j, w)
<1>1. /\ hdr'.duplicate = hdr.duplicate /\ B' = B
      /\ \A c \in B : disk'[c] = disk[c]
      /\ \A k, p : Filed(k, p)' <=> Filed(k, p)
  BY DEF SameEntries
<1>2. \A c \in B : \A w : In(c, w)' <=> In(c, w)
  BY <1>1 DEF In
<1>3. ASSUME hdr.duplicate = "Y" PROVE ChainInv(own)'
  <2>1. \A c, d \in B : own[c] = own[d] =>
           \A i \in 1 .. Len(disk'[c].ptrs), j \in 1 .. Len(disk'[d].ptrs) :
              disk'[c].ptrs[i] = disk'[d].ptrs[j] => c = d /\ i = j
    <3>1. \A c, d \in B : own[c] = own[d] =>
             \A i \in 1 .. Len(disk[c].ptrs), j \in 1 .. Len(disk[d].ptrs) :
                disk[c].ptrs[i] = disk[d].ptrs[j] => c = d /\ i = j
      BY <1>3 DEF ChainInv
    <3> QED BY <1>1, <3>1
  <2>2. \A c \in B : disk'[c].next # 0 =>
            /\ own[disk'[c].next] = own[c]
            /\ Len(disk'[c].ptrs) = BucketCap
            /\ \A d \in B : disk'[d].next = disk'[c].next => d = c
    BY <1>1, <1>3 DEF ChainInv
  <2>3. \A c \in B : c # own[c] => \E d \in B : disk'[d].next = c
    BY <1>1, <1>3 DEF ChainInv
  <2>4. /\ \A k, p : Filed(k, p)' => p \in B /\ own[p] = p
        /\ \A k, j, p : Filed(k, p)' /\ Filed(j, p)' => j = k
        /\ \A c \in B : own[c] <= c /\ \E k : Filed(k, own[c])'
    BY <1>1, <1>3 DEF ChainInv
  <2> QED BY <1>1, <2>1, <2>2, <2>3, <2>4 DEF ChainInv
<1>4. \A j, w : Has(own, j, w)' <=> Has(own, j, w)
  BY <1>1, <1>2 DEF Has
<1>5. ASSUME hdr.duplicate # "Y" PROVE ChainInv(own)'
  BY <1>1, <1>5 DEF ChainInv
<1> QED
  BY <1>3, <1>4, <1>5

\* A number appended to a bucket.
LEMMA Appended ==
    ASSUME NEW s \in Seq(Nat), NEW v \in Nat, NEW t, t = Append(s, v)
    PROVE  /\ Len(t) = Len(s) + 1 /\ Len(s) \in Nat /\ t[Len(s) + 1] = v
           /\ \A i \in 1 .. Len(s) : t[i] = s[i]
  OBVIOUS

\* The key's chain gets the number in its last bucket.
LEMMA FillKeeps ==
    ASSUME FileInv, hdr.duplicate = "Y", hdr'.duplicate = "Y",
           NEW own \in Ghosts, ChainInv(own), NEW k, NEW h, Filed(k, h), NEW v \in Nat,
           v \notin Held(h), NEW z \in ChainFrom(h), BucketFilled(z, v),
           \A j, p : Filed(j, p)' <=> Filed(j, p)
    PROVE  ChainInv(own)' /\ OneMoreBlock(own, own, k, v)
<1>1. /\ B' = B /\ z \in B /\ Len(disk[z].ptrs) < BucketCap
      /\ disk'[z].ptrs = Append(disk[z].ptrs, v) /\ disk'[z].next = disk[z].next
      /\ \A x \in B : x # z => disk'[x] = disk[x]
  BY DEF BucketFilled
<1>2. own[z] = h
  BY ChainMembers
<1>3. \A c \in B : own[c] = h => ~In(c, v)
  BY HeldIs
<1>4. /\ \A j, p : Filed(j, p) => p \in B /\ own[p] = p
      /\ \A i, j, p : Filed(i, p) /\ Filed(j, p) => i = j
      /\ \A c \in B : own[c] <= c /\ \E j : Filed(j, own[c])
      /\ \A c \in B : disk[c].next # 0 =>
            /\ own[disk[c].next] = own[c]
            /\ Len(disk[c].ptrs) = BucketCap
            /\ \A d \in B : disk[d].next = disk[c].next => d = c
      /\ \A c \in B : c # own[c] => \E d \in B : disk[d].next = c
      /\ \A c, d \in B : own[c] = own[d] =>
            \A i \in 1 .. Len(disk[c].ptrs), j \in 1 .. Len(disk[d].ptrs) :
               disk[c].ptrs[i] = disk[d].ptrs[j] => c = d /\ i = j
  BY DEF ChainInv
<1>5. PICK s, t, e : s = disk[z].ptrs /\ t = disk'[z].ptrs /\ e = Len(s)
  OBVIOUS
<1>6. /\ s \in Seq(Nat) /\ e \in Nat /\ e < BucketCap /\ Len(t) = e + 1 /\ t[e + 1] = v
      /\ \A i \in 1 .. e : t[i] = s[i]
  <2>1. s \in Seq(Nat)
    BY <1>1, <1>5, Owners
  <2>2. t = Append(s, v)
    BY <1>1, <1>5
  <2>3. /\ Len(t) = Len(s) + 1 /\ Len(s) \in Nat /\ t[Len(s) + 1] = v
        /\ \A i \in 1 .. Len(s) : t[i] = s[i]
    BY <2>1, <2>2, Appended
  <2> QED BY <1>1, <1>5, <2>1, <2>3
<1>7. \A c \in B : disk'[c].next = disk[c].next
  BY <1>1
<1>8. disk[z].next = 0
  <2>1. e # BucketCap
    BY <1>6, TreeAssumption
  <2> QED BY <1>1, <1>4, <1>5, <2>1
<1>9. \A c \in B : disk[c].next # 0 => Len(disk'[c].ptrs) = BucketCap
  BY <1>1, <1>4, <1>8
<1>10. \A w : In(z, w)' <=> In(z, w) \/ w = v
  <2>1. \A i \in 1 .. e + 1 : i \in 1 .. e \/ i = e + 1
    BY <1>6
  <2>2. \A i \in 1 .. e : i \in 1 .. e + 1
    BY <1>6
  <2>3. e + 1 \in 1 .. e + 1
    BY <1>6
  <2> QED BY <1>5, <1>6, <2>1, <2>2, <2>3 DEF In
<1>11. \A c \in B : c # z => \A w : In(c, w)' <=> In(c, w)
  BY <1>1 DEF In
<1>12. ASSUME NEW c \in B, own[c] = h, NEW j \in 1 .. Len(disk[c].ptrs)
       PROVE  disk[c].ptrs[j] # v
  BY <1>3, <1>12 DEF In
<1>13. ASSUME NEW c \in B, NEW d \in B, own[c] = own[d],
              NEW i \in 1 .. Len(disk'[c].ptrs), NEW j \in 1 .. Len(disk'[d].ptrs),
              disk'[c].ptrs[i] = disk'[d].ptrs[j]
       PROVE  c = d /\ i = j
  <2>1. \A x \in B : \A y \in 1 .. Len(disk'[x].ptrs) :
           \/ y \in 1 .. Len(disk[x].ptrs) /\ disk'[x].ptrs[y] = disk[x].ptrs[y]
           \/ x = z /\ y = e + 1 /\ disk'[x].ptrs[y] = v
    <3>1. ASSUME NEW y \in 1 .. Len(t) PROVE (y \in 1 .. e /\ t[y] = s[y]) \/ (y = e + 1 /\ t[y] = v)
      <4>1. y \in 1 .. e \/ y = e + 1
        BY <1>6
      <4> QED BY <1>6, <4>1
    <3> QED BY <1>1, <1>5, <3>1
  <2>2. CASE i \in 1 .. Len(disk[c].ptrs) /\ disk'[c].ptrs[i] = disk[c].ptrs[i]
    <3>1. CASE j \in 1 .. Len(disk[d].ptrs) /\ disk'[d].ptrs[j] = disk[d].ptrs[j]
      <4>1. disk[c].ptrs[i] = disk[d].ptrs[j]
        BY <1>13, <2>2, <3>1
      <4>2. \A x \in 1 .. Len(disk[c].ptrs), y \in 1 .. Len(disk[d].ptrs) :
               disk[c].ptrs[x] = disk[d].ptrs[y] => c = d /\ x = y
        BY <1>4, <1>13
      <4> QED BY <2>2, <3>1, <4>1, <4>2
    <3>2. CASE d = z /\ j = e + 1 /\ disk'[d].ptrs[j] = v
      BY <1>2, <1>12, <1>13, <2>2, <3>2
    <3> QED BY <2>1, <3>1, <3>2
  <2>3. CASE c = z /\ i = e + 1 /\ disk'[c].ptrs[i] = v
    <3>1. CASE j \in 1 .. Len(disk[d].ptrs) /\ disk'[d].ptrs[j] = disk[d].ptrs[j]
      BY <1>2, <1>12, <1>13, <2>3, <3>1
    <3>2. CASE d = z /\ j = e + 1
      BY <2>3, <3>2
    <3> QED BY <2>1, <3>1, <3>2
  <2> QED BY <2>1, <2>2, <2>3
<1>14. ChainInv(own)'
  <2>1. \A c \in B : disk'[c].next # 0 =>
            /\ own[disk'[c].next] = own[c]
            /\ Len(disk'[c].ptrs) = BucketCap
            /\ \A d \in B : disk'[d].next = disk'[c].next => d = c
    BY <1>4, <1>7, <1>9
  <2>2. \A c \in B : c # own[c] => \E d \in B : disk'[d].next = c
    BY <1>4, <1>7
  <2> QED BY <1>1, <1>4, <1>13, <2>1, <2>2 DEF ChainInv
<1>15. ASSUME NEW j, NEW w
       PROVE  Has(own, j, w)' <=> Has(own, j, w) \/ (j = k /\ w = v)
  <2>1. Has(own, j, w)' <=> \E c \in B : Filed(j, own[c]) /\ In(c, w)'
    BY <1>1 DEF Has
  <2>2. Has(own, j, w) <=> \E c \in B : Filed(j, own[c]) /\ In(c, w)
    BY DEF Has
  <2>3. \A c \in B : In(c, w)' <=> In(c, w) \/ (c = z /\ w = v)
    BY <1>10, <1>11
  <2>4. Filed(j, own[z]) <=> j = k
    BY <1>2, <1>4
  <2> QED BY <1>1, <2>1, <2>2, <2>3, <2>4
<1> QED
  BY <1>14, <1>15 DEF OneMoreBlock

\* The key's chain gets a new bucket behind its last one.
LEMMA AddKeeps ==
    ASSUME FileInv, hdr.duplicate = "Y", hdr'.duplicate = "Y",
           NEW own \in Ghosts, ChainInv(own), NEW k, NEW h, Filed(k, h), NEW v \in Nat,
           v \notin Held(h), Roomy(h) = {}, NEW z \in ChainFrom(h), NEW b, BucketAdded(z, v, b),
           \A j, p : Filed(j, p)' <=> Filed(j, p)
    PROVE  \E to \in Ghosts : ChainInv(to)' /\ OneMoreBlock(own, to, k, v)
<1>1. /\ b \in Nat /\ b \notin B /\ B' = B \cup {b}
      /\ z \in B /\ disk[z].next = 0
      /\ disk'[z].ptrs = disk[z].ptrs /\ disk'[z].next = b
      /\ \A x \in B : x < b /\ (x # z => disk'[x] = disk[x])
  BY DEF BucketAdded
<1>2. disk'[b].ptrs = <<v>> /\ disk'[b].next = 0
  BY DEF BucketAdded, Bucket
<1>3. own[z] = h
  BY ChainMembers
<1>4. \A c \in B : own[c] = h => ~In(c, v)
  BY HeldIs
<1>5. /\ \A j, p : Filed(j, p) => p \in B /\ p \in Nat /\ own[p] = p
      /\ \A c \in B : c \in Nat /\ own[c] \in B /\ own[c] <= c
      /\ \A c \in B : disk[c].next # 0 => disk[c].next \in B
      /\ \A c \in B : Len(disk[c].ptrs) \in 1 .. BucketCap
  BY Owners
<1>6. /\ \A i, j, p : Filed(i, p) /\ Filed(j, p) => i = j
      /\ \A c \in B : \E j : Filed(j, own[c])
      /\ \A c \in B : disk[c].next # 0 =>
            /\ own[disk[c].next] = own[c]
            /\ Len(disk[c].ptrs) = BucketCap
            /\ \A d \in B : disk[d].next = disk[c].next => d = c
      /\ \A c \in B : c # own[c] => \E d \in B : disk[d].next = c
      /\ \A c, d \in B : own[c] = own[d] =>
            \A i \in 1 .. Len(disk[c].ptrs), j \in 1 .. Len(disk[d].ptrs) :
               disk[c].ptrs[i] = disk[d].ptrs[j] => c = d /\ i = j
  BY DEF ChainInv
<1>7. Len(disk[z].ptrs) = BucketCap
  <2>1. ~(Len(disk[z].ptrs) < BucketCap)
    BY DEF Roomy
  <2> QED BY <1>1, <1>5, <2>1, TreeAssumption
<1>8. PICK to : to = [own EXCEPT ![b] = h]
  OBVIOUS
<1>9. to \in Ghosts /\ to[b] = h /\ \A c \in B : to[c] = own[c]
  BY <1>1, <1>5, <1>8 DEF Ghosts
<1>10. \A c \in B : disk'[c].ptrs = disk[c].ptrs
  BY <1>1
<1>11. \A c \in B : disk'[c].next = IF c = z THEN b ELSE disk[c].next
  BY <1>1
<1>12. b # 0 /\ z # b /\ h \in B /\ h <= b
  <2>1. h \in Nat /\ z \in Nat /\ h <= z /\ z < b
    BY <1>1, <1>3, <1>5
  <2> QED BY <1>1, <1>5, <2>1
<1>13. \A c \in B' : to[c] <= c /\ \E j : Filed(j, to[c])
  BY <1>1, <1>5, <1>6, <1>9, <1>12
<1>14. ASSUME NEW c \in B', disk'[c].next # 0
       PROVE  /\ to[disk'[c].next] = to[c]
              /\ Len(disk'[c].ptrs) = BucketCap
              /\ \A d \in B' : disk'[d].next = disk'[c].next => d = c
  <2>1. c \in B
    BY <1>1, <1>2, <1>14
  <2>2. \A d \in B' : disk'[d].next = disk'[c].next => d \in B
    BY <1>1, <1>2, <1>14
  <2>3. CASE c = z
    <3>1. disk'[c].next = b /\ \A d \in B : disk'[d].next = b => d = z
      BY <1>1, <1>5, <1>11, <1>12, <2>3
    <3> QED BY <1>3, <1>7, <1>9, <1>10, <2>1, <2>2, <2>3, <3>1
  <2>4. CASE c # z
    <3>1. disk'[c].next = disk[c].next /\ disk[c].next \in B
      BY <1>5, <1>11, <1>14, <2>1, <2>4
    <3>2. \A d \in B : disk'[d].next = disk'[c].next => d = c
      BY <1>1, <1>6, <1>11, <1>14, <2>1, <3>1
    <3> QED BY <1>6, <1>9, <1>10, <1>14, <2>1, <2>2, <3>1, <3>2
  <2> QED BY <2>3, <2>4
<1>15. ASSUME NEW c \in B', c # to[c] PROVE \E d \in B' : disk'[d].next = c
  <2>1. CASE c = b
    BY <1>1, <1>11, <2>1
  <2>2. CASE c # b
    <3>1. c \in B /\ c # own[c]
      BY <1>1, <1>9, <1>15, <2>2
    <3>2. PICK d \in B : disk[d].next = c
      BY <1>6, <3>1
    <3>3. c # 0 /\ d # z
      <4>1. c # 0
        BY <3>1, Kinds DEF FileInv
      <4> QED BY <1>1, <3>2, <4>1
    <3> QED BY <1>1, <1>11, <3>2, <3>3
  <2> QED BY <2>1, <2>2
<1>16. Len(<<v>>) = 1 /\ <<v>>[1] = v
  OBVIOUS
<1>17. \A c \in B : \A w : In(c, w)' <=> In(c, w)
  BY <1>10 DEF In
<1>18. \A w : In(b, w)' <=> w = v
  BY <1>2, <1>16 DEF In
<1>19. ASSUME NEW c \in B, own[c] = h, NEW j \in 1 .. Len(disk[c].ptrs)
       PROVE  disk[c].ptrs[j] # v
  BY <1>4, <1>19 DEF In
<1>20. ASSUME NEW c \in B', NEW d \in B', to[c] = to[d],
              NEW i \in 1 .. Len(disk'[c].ptrs), NEW j \in 1 .. Len(disk'[d].ptrs),
              disk'[c].ptrs[i] = disk'[d].ptrs[j]
       PROVE  c = d /\ i = j
  <2>1. i \in 1 .. 1 /\ c = b => i = 1 /\ disk'[c].ptrs[i] = v
    BY <1>2, <1>16
  <2>2. j \in 1 .. 1 /\ d = b => j = 1 /\ disk'[d].ptrs[j] = v
    BY <1>2, <1>16
  <2>3. CASE c = b /\ d = b
    BY <1>2, <1>16, <2>1, <2>2, <2>3
  <2>4. CASE c = b /\ d \in B
    BY <1>2, <1>9, <1>10, <1>16, <1>19, <1>20, <2>1, <2>4
  <2>5. CASE c \in B /\ d = b
    BY <1>2, <1>9, <1>10, <1>16, <1>19, <1>20, <2>2, <2>5
  <2>6. CASE c \in B /\ d \in B
    <3>1. own[c] = own[d] /\ disk'[c].ptrs = disk[c].ptrs /\ disk'[d].ptrs = disk[d].ptrs
      BY <1>9, <1>10, <1>20, <2>6
    <3>2. \A x \in 1 .. Len(disk[c].ptrs), y \in 1 .. Len(disk[d].ptrs) :
             disk[c].ptrs[x] = disk[d].ptrs[y] => c = d /\ x = y
      BY <1>6, <2>6, <3>1
    <3> QED BY <1>20, <3>1, <3>2
  <2> QED BY <1>1, <2>3, <2>4, <2>5, <2>6
<1>21. ChainInv(to)'
  <2>1. \A j, p : Filed(j, p) => p \in B' /\ to[p] = p
    BY <1>1, <1>5, <1>9
  <2> QED BY <1>6, <1>13, <1>14, <1>15, <1>20, <2>1 DEF ChainInv
<1>22. ASSUME NEW j, NEW w
       PROVE  Has(to, j, w)' <=> Has(own, j, w) \/ (j = k /\ w = v)
  <2>1. Has(to, j, w)' <=> \E c \in B' : Filed(j, to[c]) /\ In(c, w)'
    BY DEF Has
  <2>2. Has(own, j, w) <=> \E c \in B : Filed(j, own[c]) /\ In(c, w)
    BY DEF Has
  <2>3. Filed(j, to[b]) <=> j = k
    BY <1>6, <1>9
  <2> QED BY <1>1, <1>9, <1>17, <1>18, <2>1, <2>2, <2>3
<1> QED
  BY <1>9, <1>21, <1>22 DEF OneMoreBlock

\* A number joins the chain of a key that is there.
LEMMA BlockKeeps ==
    ASSUME FileInv, NEW own \in Ghosts, ChainInv(own), NEW k, NEW h, Filed(k, h),
           NEW v \in Nat, BlockEntered(h, v)
    PROVE  \E to \in Ghosts : ChainInv(to)' /\ OneMoreBlock(own, to, k, v)
<1>1. /\ hdr.duplicate = "Y" /\ hdr'.duplicate = "Y"
      /\ \A j, p : Filed(j, p)' <=> Filed(j, p)
  BY DEF BlockEntered
<1>2. CASE v \in Held(h) /\ SameEntries
  <2>1. ChainInv(own)' /\ \A j, w : Has(own, j, w)' <=> Has(own, j, w)
    BY <1>2, SameKeeps
  <2>2. Has(own, k, v)
    <3>1. \E c \in B : own[c] = h /\ In(c, v)
      BY <1>1, <1>2, HeldIs
    <3> QED BY <1>1, <3>1 DEF Has
  <2> QED BY <2>1, <2>2 DEF OneMoreBlock
<1>3. CASE v \notin Held(h) /\ \E c \in ChainFrom(h) : BucketFilled(c, v)
  BY <1>1, <1>3, FillKeeps
<1>4. CASE /\ v \notin Held(h) /\ Roomy(h) = {}
           /\ \E z \in ChainFrom(h), b \in Nat : BucketAdded(z, v, b)
  BY <1>1, <1>4, AddKeeps
<1> QED
  BY <1>2, <1>3, <1>4 DEF BlockEntered

-------------------------------------------------------------------------------
(* The steps of the map. *)

LEMMA SameContent ==
    ASSUME Shown, Shown', NEW own \in Ghosts, NEW to \in Ghosts, ChainInv(own), ChainInv(to)',
           \A j, w : Has(to, j, w)' <=> Has(own, j, w)
    PROVE  Content' = Content
<1>1. \A j \in Keys : \A w : w \in Content'[j] <=> w \in Content[j]
  BY DEF Shown
<1>2. PICK c, d : c = Content /\ d = Content'
  OBVIOUS
<1>3. c = [j \in Keys |-> c[j]] /\ d = [j \in Keys |-> d[j]]
  BY <1>2 DEF Content
<1>4. \A j \in Keys : d[j] = c[j]
  BY <1>1, <1>2
<1> QED
  BY <1>2, <1>3, <1>4

LEMMA MoreContent ==
    ASSUME Shown, Shown', NEW own \in Ghosts, NEW to \in Ghosts, ChainInv(own), ChainInv(to)',
           NEW k \in Keys, NEW v, OneMoreBlock(own, to, k, v)
    PROVE  Content' = [Content EXCEPT ![k] = @ \cup {v}]
<1>1. \A j \in Keys : \A w : w \in Content'[j] <=> w \in Content[j] \/ (j = k /\ w = v)
  BY DEF Shown, OneMoreBlock
<1>2. PICK c, d : c = Content /\ d = Content'
  OBVIOUS
<1>3. c = [j \in Keys |-> c[j]] /\ d = [j \in Keys |-> d[j]]
  BY <1>2 DEF Content
<1>4. \A j \in Keys : \A w : w \in d[j] <=> w \in c[j] \/ (j = k /\ w = v)
  BY <1>1, <1>2
<1>5. d[k] = c[k] \cup {v} /\ \A j \in Keys : j # k => d[j] = c[j]
  BY <1>4
<1>6. d = [c EXCEPT ![k] = @ \cup {v}]
  BY <1>3, <1>5
<1> QED
  BY <1>2, <1>6

\* The map has for a key of the file what its entry leads to.
LEMMA HasKey ==
    ASSUME TreeInv, Shown, NEW own \in Ghosts, ChainInv(own), hdr.duplicate # "none",
           NEW k \in Keys, NEW p, Filed(k, p)
    PROVE  /\ Content[k] = IF hdr.duplicate = "N" THEN {p} ELSE Held(p)
           /\ Content[k] # {}
<1>1. FileInv /\ hdr.duplicate \in {"N", "Y"}
  BY DEF TreeInv, FileInv, HeaderOK, Headers
<1>2. \A r : Filed(k, r) <=> r = p
  BY KeyOnce
<1>3. \A w : w \in Content[k] <=> Has(own, k, w)
  BY DEF Shown
<1>4. CASE hdr.duplicate = "N"
  <2>1. \A w : w \in Content[k] <=> w = p
    BY <1>2, <1>3, <1>4 DEF Has
  <2> QED BY <1>4, <2>1
<1>5. CASE hdr.duplicate = "Y"
  <2>1. \A w : w \in Content[k] <=> \E c \in B : own[c] = p /\ In(c, w)
    BY <1>2, <1>3, <1>5 DEF Has
  <2>2. \A w : w \in Held(p) <=> \E c \in B : own[c] = p /\ In(c, w)
    BY <1>1, <1>5, HeldIs
  <2>3. Content[k] = Held(p)
    BY <2>1, <2>2
  <2>4. p \in B /\ own[p] = p /\ 1 \in 1 .. Len(disk[p].ptrs)
    <3>1. p \in B /\ own[p] = p
      BY <1>1, <1>5, Owners
    <3>2. Len(disk[p].ptrs) \in 1 .. BucketCap
      BY <1>1, <1>5, <3>1, Owners
    <3> QED BY <3>1, <3>2, TreeAssumption
  <2>5. disk[p].ptrs[1] \in Content[k]
    BY <2>1, <2>4 DEF In
  <2> QED BY <1>5, <2>3, <2>5
<1> QED
  BY <1>1, <1>4, <1>5

LEMMA HasNot ==
    ASSUME Shown, NEW own \in Ghosts, ChainInv(own), NEW k \in Keys, \A p : ~Filed(k, p)
    PROVE  Content[k] = {}
<1>1. \A w : ~Has(own, k, w)
  BY DEF Has
<1>2. \A w : w \notin Content[k]
  BY <1>1 DEF Shown
<1> QED
  BY <1>2

Owned == \E own \in Ghosts : ChainInv(own)

LEMMA SameMap ==
    ASSUME MapInv, Shown, Shown', SameEntries
    PROVE  KeysIn' /\ Owned' /\ Content' = Content
<1>1. PICK own \in Ghosts : ChainInv(own)
  BY DEF MapInv
<1>2. ChainInv(own)' /\ \A j, w : Has(own, j, w)' <=> Has(own, j, w)
  BY <1>1, SameKeeps
<1>3. Content' = Content
  BY <1>1, <1>2, SameContent
<1>4. KeysIn'
  BY DEF MapInv, KeysIn, SameEntries
<1> QED
  BY <1>2, <1>3, <1>4 DEF Owned

LEMMA EnterMap ==
    ASSUME TreeInv, MapInv, Shown, Shown', NEW k \in Keys, NEW v, NEW b, KeyEntered(k, v, b),
           \A p : ~Filed(k, p)
    PROVE  /\ KeysIn' /\ Owned'
           /\ Content[k] = {} /\ Content' = [Content EXCEPT ![k] = @ \cup {v}]
<1>1. PICK own \in Ghosts : ChainInv(own)
  BY DEF MapInv
<1>2. PICK to \in Ghosts : ChainInv(to)' /\ OneMoreBlock(own, to, k, v)
  BY <1>1, EnterKeeps DEF TreeInv
<1>3. Content' = [Content EXCEPT ![k] = @ \cup {v}]
  BY <1>1, <1>2, MoreContent
<1>4. Content[k] = {}
  BY <1>1, HasNot
<1>5. KeysIn'
  BY DEF MapInv, KeysIn, KeyEntered
<1> QED
  BY <1>2, <1>3, <1>4, <1>5 DEF Owned

LEMMA BlockMap ==
    ASSUME TreeInv, MapInv, Shown, Shown', NEW k \in Keys, NEW h, Filed(k, h), NEW v \in Nat,
           BlockEntered(h, v)
    PROVE  KeysIn' /\ Owned' /\ Content' = [Content EXCEPT ![k] = @ \cup {v}]
<1>1. PICK own \in Ghosts : ChainInv(own)
  BY DEF MapInv
<1>2. PICK to \in Ghosts : ChainInv(to)' /\ OneMoreBlock(own, to, k, v)
  BY <1>1, BlockKeeps DEF TreeInv
<1>3. Content' = [Content EXCEPT ![k] = @ \cup {v}]
  BY <1>1, <1>2, MoreContent
<1>4. KeysIn'
  BY DEF MapInv, KeysIn, BlockEntered
<1> QED
  BY <1>2, <1>3, <1>4 DEF Owned

LEMMA InitMaps == Init => MapInv /\ IS!Init
<1> SUFFICES ASSUME Init PROVE MapInv /\ IS!Init
  OBVIOUS
<1>1. DOMAIN disk = {} /\ hdr.root = 0 /\ pc = "idle" /\ hdr.duplicate = "none"
      /\ dhdr.duplicate = "none" /\ answer = <<"none">>
  BY DEF Init, NoHeader
<1>2. L = {} /\ B = {}
  BY <1>1 DEF L, B, OfType
<1>3. \A k, p : ~Filed(k, p)
  BY <1>2 DEF Filed
<1>4. PICK own : own = [x \in Nat |-> x]
  OBVIOUS
<1>5. own \in Ghosts /\ ChainInv(own)
  BY <1>1, <1>4 DEF Ghosts, ChainInv
<1>6. MapInv
  BY <1>1, <1>3, <1>5 DEF MapInv, KeysIn, CallInv
<1>7. Content = [k \in Keys |-> {}]
  <2>1. \A k : Entries(k) = {}
    BY <1>1 DEF Entries, LeafChain
  <2> QED BY <1>1, <2>1 DEF Content
<1> QED
  BY <1>1, <1>6, <1>7 DEF IS!Init

\* A step that writes no node and no bucket.
LEMMA QuietMap ==
    ASSUME MapInv, Shown, Shown', disk' = disk, hdr' = hdr
    PROVE  KeysIn' /\ Owned' /\ Content' = Content
<1>1. SameEntries
  BY DEF SameEntries, Filed, L, B, OfType
<1> QED
  BY <1>1, SameMap

LEMMA SameMode ==
    ASSUME HeaderOK, HeaderOK', hdr'.duplicate = hdr.duplicate
    PROVE  dhdr'.duplicate = dhdr.duplicate
  BY DEF HeaderOK

\* What a step of the tree is in the map.
Maps == MapInv' /\ [IS!Next]_(IS!vars)

Around == TreeInv /\ TreeInv' /\ MapInv /\ Shown /\ Shown'

LEMMA CreateMap ==
    ASSUME Around, NEW mode \in Modes, Create(mode)
    PROVE  KeysIn' /\ Owned' /\ B' = {} /\ Content' = Content
<1>1. dhdr.duplicate = "none" /\ disk' = disk
  BY DEF Create
<1>2. DOMAIN disk = {}
  <2>1. HeaderOK /\ FileOK
    BY DEF Around, TreeInv, FileInv
  <2>2. hdr.root = 0
    BY <1>1, <2>1 DEF HeaderOK, NoHeader
  <2> QED BY <2>1, <2>2 DEF FileOK
<1>3. L = {} /\ B = {} /\ L' = {} /\ B' = {}
  BY <1>1, <1>2 DEF L, B, OfType
<1>4. \A k, p : ~Filed(k, p) /\ ~Filed(k, p)'
  BY <1>3 DEF Filed
<1>5. PICK own \in Ghosts : ChainInv(own)
  BY DEF Around, MapInv
<1>6. ChainInv(own)'
  BY <1>3, <1>4 DEF ChainInv
<1>7. \A j, w : ~Has(own, j, w) /\ ~Has(own, j, w)'
  BY <1>3, <1>4 DEF Has
<1>8. Content' = Content
  BY <1>5, <1>6, <1>7, SameContent DEF Around
<1> QED
  BY <1>3, <1>4, <1>6, <1>8 DEF KeysIn, Owned

LEMMA CreateMaps ==
    ASSUME Around, NEW mode \in Modes, Create(mode)
    PROVE  Maps
<1>1. /\ dhdr.duplicate = "none" /\ pc = "idle" /\ pc' = "idle"
      /\ answer' = <<"none">> /\ hdr' = dhdr' /\ hdr'.duplicate = mode
  BY DEF Create, NoHeader
<1>2. mode \in {"Y", "N"}
  BY TreeAssumption
<1>3. KeysIn' /\ Owned' /\ Content' = Content
  BY CreateMap
<1>4. MapInv'
  BY <1>1, <1>3 DEF MapInv, Owned, CallInv
<1>5. IS!Create(mode)
  BY <1>1, <1>3 DEF IS!Create
<1> QED
  BY <1>2, <1>4, <1>5 DEF Maps, IS!Next

\* The next call begins.
LEMMA BeginMaps ==
    ASSUME Around, disk' = disk, hdr' = hdr, answer' = <<"none">>, CallInv'
    PROVE  Maps
<1>1. KeysIn' /\ Owned' /\ Content' = Content
  BY QuietMap DEF Around
<1>2. dhdr'.duplicate = dhdr.duplicate
  BY SameMode DEF Around, TreeInv, FileInv
<1>3. MapInv'
  BY <1>1 DEF MapInv, Owned
<1>4. IS!Begin
  BY <1>1, <1>2 DEF IS!Begin
<1> QED
  BY <1>3, <1>4 DEF Maps, IS!Next

\* A step inside a call.
LEMMA InnerMaps ==
    ASSUME Around, SameEntries, answer' = answer, CallInv'
    PROVE  Maps
<1>1. KeysIn' /\ Owned' /\ Content' = Content
  BY SameMap DEF Around
<1>2. dhdr'.duplicate = dhdr.duplicate
  BY SameMode DEF Around, TreeInv, FileInv, SameEntries
<1>3. MapInv'
  BY <1>1 DEF MapInv, Owned
<1>4. UNCHANGED IS!vars
  BY <1>1, <1>2 DEF IS!vars
<1> QED
  BY <1>3, <1>4 DEF Maps

\* An insertion that stores.
LEMMA StoreMaps ==
    ASSUME Around, NEW k \in Keys, NEW v \in Vals, open, hdr'.duplicate = hdr.duplicate,
           KeysIn', Owned', Content' = [Content EXCEPT ![k] = @ \cup {v}],
           hdr.duplicate = "N" => Content[k] = {},
           answer' = <<"stored">>, pc' # "find"
    PROVE  Maps
<1>1. HeaderOK /\ HeaderOK'
  BY DEF Around, TreeInv, FileInv
<1>2. dhdr'.duplicate = dhdr.duplicate
  BY <1>1, SameMode
<1>3. MapInv'
  BY DEF MapInv, Owned, CallInv
<1>4. dhdr.duplicate # "none" /\ ~IS!Refused(k)
  BY <1>1 DEF HeaderOK, IS!Refused
<1>5. IS!Insert(k, v)
  BY <1>2, <1>4 DEF IS!Insert
<1> QED
  BY <1>3, <1>5 DEF Maps, IS!Next

LEMMA InsertFirstMaps ==
    ASSUME NoNil, Around, NEW k \in Keys, NEW v \in Vals, InsertFirst(k, v)
    PROVE  Maps
<1>1. KeyEntered(k, v, 2)
  BY InsertFirstKeeps DEF Around
<1>2. open /\ hdr.root = 0 /\ answer' = <<"stored">> /\ pc' = "idle"
  BY DEF InsertFirst, Return
<1>3. \A p : ~Filed(k, p)
  <2>1. DOMAIN disk = {}
    BY <1>2 DEF Around, TreeInv, FileInv, FileOK
  <2> QED BY <2>1 DEF Filed, L, OfType
<1>4. KeysIn' /\ Owned' /\ Content[k] = {} /\ Content' = [Content EXCEPT ![k] = @ \cup {v}]
  BY <1>1, <1>3, EnterMap DEF Around
<1>5. hdr'.duplicate = hdr.duplicate
  BY <1>1 DEF KeyEntered
<1> QED
  BY <1>2, <1>4, <1>5, StoreMaps

\* The call at its leaf.
LEMMA AtLeafFacts ==
    ASSUME Around, NEW op, AtLeaf(op), NEW k, NEW v, k = call.key, v = call.val
    PROVE  /\ k \in Keys /\ hdr.root # 0 /\ open /\ at \in L
           /\ op = "insert" => v \in Vals /\ v \in Nat
           /\ IndexOf(disk[at], k) = {} => \A p : ~Filed(k, p)
           /\ IndexOf(disk[at], k) # {} => Filed(k, disk[at].ptrs[Min(IndexOf(disk[at], k))])
<1>1. pc = "find" /\ disk[at].type = "L" /\ call.op = op
  BY DEF AtLeaf
<1>2. PICK n, hits : n = disk[at] /\ hits = IndexOf(n, k)
  OBVIOUS
<1>3. /\ k \in Keys /\ hdr.root # 0 /\ open /\ at \in L
      /\ hits = {} => \A p : ~Filed(k, p)
      /\ hits # {} => Filed(k, n.ptrs[Min(hits)])
  BY <1>1, <1>2, FoundHere DEF Around
<1>4. op = "insert" => v \in Vals /\ v \in Nat
  BY <1>1, TreeAssumption DEF Around, MapInv, CallInv
<1> QED
  BY <1>2, <1>3, <1>4

LEMMA NewKeyMaps ==
    ASSUME Around, InsertInLeaf \/ SplitLeaf
    PROVE  Maps
<1>1. PICK k, v : k = call.key /\ v = call.val
  OBVIOUS
<1>2. AtLeaf("insert") /\ IndexOf(disk[at], k) = {}
  BY <1>1 DEF InsertInLeaf, SplitLeaf, NewKey
<1>3. k \in Keys /\ v \in Vals /\ open /\ \A p : ~Filed(k, p)
  BY <1>1, <1>2, AtLeafFacts
<1>4. \E b : KeyEntered(k, v, b)
  BY <1>1, InsertInLeafKeeps, SplitLeafKeeps DEF Around
<1>5. PICK b : KeyEntered(k, v, b)
  BY <1>4
<1>6. KeysIn' /\ Owned' /\ Content[k] = {} /\ Content' = [Content EXCEPT ![k] = @ \cup {v}]
  BY <1>3, <1>5, EnterMap DEF Around
<1>7. hdr'.duplicate = hdr.duplicate
  BY <1>5 DEF KeyEntered
<1>8. answer' = <<"stored">> /\ pc' # "find"
  BY DEF InsertInLeaf, SplitLeaf, Return
<1> QED
  BY <1>3, <1>6, <1>7, <1>8, StoreMaps

LEMMA AddToBucketMaps ==
    ASSUME Around, AddToBucket
    PROVE  Maps
<1>1. PICK k, v : k = call.key /\ v = call.val
  OBVIOUS
<1>2. PICK h : h = disk[at].ptrs[Min(IndexOf(disk[at], k))]
  OBVIOUS
<1>3. /\ AtLeaf("insert") /\ IndexOf(disk[at], k) # {} /\ hdr.duplicate = "Y"
      /\ answer' = <<"stored">> /\ pc' = "idle"
  BY <1>1 DEF AddToBucket, Return
<1>4. k \in Keys /\ v \in Vals /\ v \in Nat /\ open /\ Filed(k, h)
  BY <1>1, <1>2, <1>3, AtLeafFacts
<1>5. BlockEntered(h, v)
  BY <1>1, <1>2, AddToBucketKeeps DEF Around
<1>6. KeysIn' /\ Owned' /\ Content' = [Content EXCEPT ![k] = @ \cup {v}]
  BY <1>4, <1>5, BlockMap DEF Around
<1>7. hdr'.duplicate = hdr.duplicate
  BY <1>5 DEF BlockEntered
<1> QED
  BY <1>3, <1>4, <1>6, <1>7, StoreMaps

LEMMA RefuseMaps ==
    ASSUME Around, Refuse
    PROVE  Maps
<1>1. PICK k, v : k = call.key /\ v = call.val
  OBVIOUS
<1>2. /\ AtLeaf("insert") /\ IndexOf(disk[at], k) # {} /\ hdr.duplicate = "N"
      /\ answer' = <<"refused">> /\ pc' = "idle" /\ disk' = disk /\ hdr' = hdr
  BY <1>1 DEF Refuse, Return
<1>3. k \in Keys /\ v \in Vals /\ \E p : Filed(k, p)
  BY <1>1, <1>2, AtLeafFacts
<1>4. Content[k] # {}
  <2>1. PICK own \in Ghosts : ChainInv(own)
    BY DEF Around, MapInv
  <2> QED BY <1>2, <1>3, <2>1, HasKey DEF Around
<1>5. KeysIn' /\ Owned' /\ Content' = Content
  BY <1>2, QuietMap DEF Around
<1>6. HeaderOK /\ HeaderOK'
  BY DEF Around, TreeInv, FileInv
<1>7. dhdr'.duplicate = dhdr.duplicate /\ dhdr.duplicate = "N"
  BY <1>2, <1>6, SameMode DEF HeaderOK
<1>8. IS!Insert(k, v)
  BY <1>2, <1>4, <1>5, <1>7 DEF IS!Insert, IS!Refused
<1>9. MapInv'
  BY <1>2, <1>5 DEF MapInv, Owned, CallInv
<1> QED
  BY <1>3, <1>8, <1>9 DEF Maps, IS!Next

\* A lookup that ends: what it answers is what the map has.
LEMMA LookupMaps ==
    ASSUME Around, disk' = disk, hdr' = hdr, open, pc' = "idle", NEW k \in Keys,
           answer' = IS!Lookup(k)
    PROVE  Maps
<1>1. KeysIn' /\ Owned' /\ Content' = Content
  BY QuietMap DEF Around
<1>2. HeaderOK /\ HeaderOK'
  BY DEF Around, TreeInv, FileInv
<1>3. dhdr'.duplicate = dhdr.duplicate /\ dhdr.duplicate # "none"
  BY <1>2, SameMode DEF HeaderOK
<1>4. IS!Find(k)
  BY <1>1, <1>3 DEF IS!Find
<1>5. MapInv'
  BY <1>1 DEF MapInv, Owned, CallInv
<1> QED
  BY <1>4, <1>5 DEF Maps, IS!Next

LEMMA BeginFindMaps ==
    ASSUME Around, NEW k \in Keys, BeginFind(k)
    PROVE  Maps
<1>1. CASE hdr.root = 0
  <2>1. /\ disk' = disk /\ hdr' = hdr /\ open /\ pc' = "idle" /\ answer' = <<"empty">>
    BY <1>1 DEF BeginFind, Return
  <2>2. DOMAIN disk = {}
    BY <1>1 DEF Around, TreeInv, FileInv, FileOK
  <2>3. \A j, p : ~Filed(j, p)
    BY <2>2 DEF Filed, L, OfType
  <2>4. PICK own \in Ghosts : ChainInv(own)
    BY DEF Around, MapInv
  <2>5. \A j \in Keys : Content[j] = {}
    BY <2>3, <2>4, HasNot DEF Around
  <2>6. IS!Lookup(k) = <<"empty">>
    BY <2>5 DEF IS!Lookup
  <2> QED BY <2>1, <2>6, LookupMaps
<1>2. CASE hdr.root # 0
  <2>1. Search("find_it", k, 0)
    BY <1>2 DEF BeginFind
  <2>2. disk' = disk /\ hdr' = hdr /\ answer' = <<"none">> /\ CallInv'
    BY <2>1 DEF Search, CallInv
  <2> QED BY <2>2, BeginMaps
<1> QED
  BY <1>1, <1>2

LEMMA FoundMaps ==
    ASSUME Around, Found
    PROVE  Maps
<1>1. PICK k, v, n, hits, ptr :
         k = call.key /\ v = call.val /\ n = disk[at] /\ hits = IndexOf(n, k) /\ ptr = n.ptrs[Min(hits)]
  OBVIOUS
<1>2. /\ AtLeaf("find_it") /\ pc' = "idle" /\ disk' = disk /\ hdr' = hdr
      /\ answer' = IF hits = {} THEN <<"absent">>
                   ELSE <<"found", IF hdr.duplicate = "N" THEN {ptr} ELSE Held(ptr)>>
  BY <1>1 DEF Found, Return
<1>3. /\ k \in Keys /\ open /\ at \in L
      /\ hits = {} => \A p : ~Filed(k, p)
      /\ hits # {} => Filed(k, ptr)
  BY <1>1, <1>2, AtLeafFacts
<1>4. FileInv /\ HeaderOK /\ hdr.duplicate # "none"
  BY <1>3 DEF Around, TreeInv, FileInv, HeaderOK
<1>5. PICK own \in Ghosts : ChainInv(own)
  BY DEF Around, MapInv
<1>6. \E j \in Keys : Content[j] # {}
  <2>1. n \in Leaves
    BY <1>1, <1>3, <1>4, Kinds DEF FileInv
  <2>2. 1 \in 1 .. n.size
    BY <2>1 DEF Leaves
  <2>3. Filed(n.keys[1], n.ptrs[1])
    BY <1>1, <1>3, <2>2 DEF Filed
  <2>4. n.keys[1] \in Keys
    BY <2>3 DEF Around, MapInv, KeysIn
  <2> QED BY <1>4, <1>5, <2>3, <2>4, HasKey DEF Around
<1>7. answer' = IS!Lookup(k)
  <2>1. CASE hits = {}
    <3>1. Content[k] = {}
      BY <1>3, <1>5, <2>1, HasNot DEF Around
    <3> QED BY <1>2, <1>6, <2>1, <3>1 DEF IS!Lookup
  <2>2. CASE hits # {}
    <3>1. /\ Content[k] = IF hdr.duplicate = "N" THEN {ptr} ELSE Held(ptr)
          /\ Content[k] # {}
      BY <1>3, <1>4, <1>5, <2>2, HasKey DEF Around
    <3> QED BY <1>2, <1>3, <2>2, <3>1 DEF IS!Lookup
  <2> QED BY <2>1, <2>2
<1> QED
  BY <1>2, <1>3, <1>7, LookupMaps

LEMMA NextMaps ==
    ASSUME NoNil, Around, Next
    PROVE  Maps
<1>1. CASE \E mode \in Modes : Create(mode)
  BY <1>1, CreateMaps
<1>2. CASE Open
  <2>1. hdr' = dhdr /\ ~open /\ disk' = disk /\ answer' = <<"none">> /\ pc' = "idle"
    BY <1>2 DEF Open
  <2>2. hdr' = hdr
    BY <2>1 DEF Around, TreeInv, FileInv, HeaderOK
  <2> QED BY <2>1, <2>2, BeginMaps DEF CallInv
<1>3. CASE Close
  <2>1. hdr' = hdr /\ disk' = disk /\ answer' = <<"none">> /\ pc' = "idle"
    BY <1>3 DEF Close
  <2> QED BY <2>1, BeginMaps DEF CallInv
<1>4. ASSUME NEW k \in Keys, BeginFind(k) PROVE Maps
  BY <1>4, BeginFindMaps
<1>5. ASSUME NEW k \in Keys, NEW v \in Vals, InsertFirst(k, v) PROVE Maps
  BY <1>5, InsertFirstMaps
<1>6. ASSUME NEW k \in Keys, NEW v \in Vals, BeginInsert(k, v) PROVE Maps
  <2>1. disk' = disk /\ hdr' = hdr /\ answer' = <<"none">> /\ CallInv'
    BY <1>6 DEF BeginInsert, Search, CallInv
  <2> QED BY <2>1, BeginMaps
<1>7. CASE Descend
  <2>1. /\ disk' = disk /\ hdr' = hdr /\ answer' = answer /\ pc = "find" /\ call' = call
    BY <1>7 DEF Descend
  <2>2. SameEntries
    BY <2>1 DEF SameEntries, Filed, L, B, OfType
  <2>3. CallInv'
    BY <2>1 DEF Around, MapInv, CallInv
  <2> QED BY <2>1, <2>2, <2>3, InnerMaps
<1>8. CASE Panic
  BY <1>8 DEF Panic, Around, TreeInv, RangeInv, CallOK
<1>9. CASE Found
  BY <1>9, FoundMaps
<1>10. CASE Refuse
  BY <1>10, RefuseMaps
<1>11. CASE AddToBucket
  BY <1>11, AddToBucketMaps
<1>12. CASE InsertInLeaf \/ SplitLeaf
  BY <1>12, NewKeyMaps
<1>13. CASE InsertOutside
  BY <1>13, NeverOutside DEF Around
<1>14. CASE NewRoot \/ InsertInParent \/ SplitInternal
  <2>1. SameEntries
    BY <1>14, NewRootKeeps, InsertInParentKeeps, SplitInternalKeeps DEF Around
  <2>2. answer' = answer /\ pc' # "find"
    BY <1>14 DEF NewRoot, InsertInParent, SplitInternal, Return, Ascending
  <2> QED BY <2>1, <2>2, InnerMaps DEF CallInv
<1> QED
  BY <1>1, <1>2, <1>3, <1>4, <1>5, <1>6, <1>7, <1>8, <1>9, <1>10, <1>11, <1>12, <1>13,
     <1>14 DEF Next, Step

LEMMA StutterMaps ==
    ASSUME Around, UNCHANGED vars
    PROVE  Maps
<1>1. disk' = disk /\ hdr' = hdr /\ answer' = answer /\ pc' = pc /\ call' = call
  BY DEF vars
<1>2. SameEntries
  BY <1>1 DEF SameEntries, Filed, L, B, OfType
<1>3. CallInv'
  BY <1>1 DEF Around, MapInv, CallInv
<1> QED
  BY <1>1, <1>2, <1>3, InnerMaps

\* Every bucket has one key, the number of a block is once in a chain, and a chain
\* fills its last bucket before it gets another: in every reachable file.
THEOREM MapInvariant == NoNil => (Spec => []MapInv)
<1> SUFFICES ASSUME NoNil PROVE Spec => []MapInv
  OBVIOUS
<1>1. Init => MapInv
  BY InitMaps
<1>2. TreeInv => Shown
  BY InvShown
<1>3. TreeInv /\ TreeInv' /\ Shown /\ Shown' /\ MapInv /\ [Next]_vars => MapInv'
  BY NextMaps, StutterMaps DEF Around, Maps
<1> QED
  BY <1>1, <1>2, <1>3, TreeInvariant, PTL DEF Spec

\* The tree is the map it promises: whatever an insertion splits, it adds one block
\* to one key; a lookup answers what was added; what is refused changes nothing.
THEOREM TreeIsMap == NoNil => (Spec => Refinement)
<1> SUFFICES ASSUME NoNil PROVE Spec => Refinement
  OBVIOUS
<1>1. Init => IS!Init
  BY InitMaps
<1>2. TreeInv => Shown
  BY InvShown
<1>3. TreeInv /\ TreeInv' /\ Shown /\ Shown' /\ MapInv /\ [Next]_vars => [IS!Next]_(IS!vars)
  BY NextMaps, StutterMaps DEF Around, Maps
<1> QED
  BY <1>1, <1>2, <1>3, TreeInvariant, MapInvariant, PTL DEF Spec, Refinement, IS!Spec

-------------------------------------------------------------------------------
(* The chains as the runs check them. *)

\* A chain has one last bucket.
LEMMA OneEnd ==
    ASSUME FileInv, NEW h \in B, NEW a \in ChainFrom(h), NEW e \in ChainFrom(h),
           disk[a].next = 0, disk[e].next = 0
    PROVE  a = e
<1>1. PICK c, z : c = Chain(h) /\ z = hdr.numOfBlocks
  OBVIOUS
<1>2. /\ z \in Nat
      /\ \A i \in 0 .. z : i # 0 => c[i] = IF c[i-1] = 0 THEN 0 ELSE disk[c[i-1]].next
      /\ ChainFrom(h) = {c[i] : i \in 0 .. z} \ {0}
  BY <1>1, ChainRises
<1>3. ASSUME NEW i \in 0 .. z, NEW j \in 0 .. z, c[i] # 0, disk[c[i]].next = 0, i < j
      PROVE  c[j] = 0
  <2> DEFINE S == {x \in 0 .. z : i < x /\ c[x] # 0}
  <2>1. S = {}
    <3> SUFFICES ASSUME S # {} PROVE FALSE
      OBVIOUS
    <3>1. S \in SUBSET Nat
      OBVIOUS
    <3>2. PICK x \in S : \A y \in S : x <= y
      BY <3>1, LeastNat
    <3>3. x \in 0 .. z /\ x # 0 /\ i < x /\ c[x] # 0 /\ i \in Nat
      BY <1>2, <3>2
    <3>4. x - 1 \in 0 .. z /\ ~(x <= x - 1)
      BY <1>2, <3>3
    <3>5. c[x] = IF c[x-1] = 0 THEN 0 ELSE disk[c[x-1]].next
      BY <1>2, <3>3
    <3>6. CASE i = x - 1
      BY <1>3, <3>3, <3>5, <3>6
    <3>7. CASE i # x - 1
      <4>1. i < x - 1
        BY <1>2, <3>3, <3>4, <3>7
      <4>2. c[x-1] = 0
        BY <3>2, <3>4, <4>1
      <4> QED BY <3>3, <3>5, <4>2
    <3> QED BY <3>6, <3>7
  <2> QED BY <1>3, <2>1
<1>4. PICK i \in 0 .. z : c[i] = a
  BY <1>2
<1>5. PICK j \in 0 .. z : c[j] = e
  BY <1>2
<1>6. a # 0 /\ e # 0
  BY <1>2
<1>7. ~(i < j) /\ ~(j < i)
  BY <1>3, <1>4, <1>5, <1>6
<1>8. i = j
  BY <1>2, <1>7
<1> QED
  BY <1>4, <1>5, <1>8

LEMMA InvBucketsRight == ASSUME TreeInv, MapInv PROVE BucketsRight
<1> SUFFICES ASSUME hdr.duplicate = "Y" PROVE BucketsRight
  BY DEF BucketsRight
<1>1. PICK heads : heads = UNION {{disk[b].ptrs[i] : i \in 1 .. disk[b].size} : b \in LeafChain}
  OBVIOUS
<1>2. FileInv /\ HeaderOK /\ FileOK /\ BucketsOK
  BY DEF TreeInv, FileInv
<1>3. \A h : h \in heads <=> \E k : Filed(k, h)
  <2>1. \A h : h \in heads <=> \E b \in L : \E i \in 1 .. disk[b].size : disk[b].ptrs[i] = h
    BY <1>1, LeafChainIs
  <2>2. ASSUME NEW h, NEW b \in L, NEW i \in 1 .. disk[b].size, disk[b].ptrs[i] = h
        PROVE  \E k : Filed(k, h)
    BY <2>2 DEF Filed
  <2>3. ASSUME NEW h, NEW k, Filed(k, h) PROVE h \in heads
    BY <2>1, <2>3 DEF Filed
  <2> QED BY <2>1, <2>2, <2>3
<1>4. PICK own \in Ghosts : ChainInv(own)
  BY DEF MapInv
<1>5. \A h \in heads : \A x : x \in ChainFrom(h) <=> x \in B /\ own[x] = h
  BY <1>2, <1>3, <1>4, ChainMembers
<1>6. \A x \in B : own[x] \in heads
  BY <1>3, <1>4 DEF ChainInv
<1>7. UNION {ChainFrom(h) : h \in heads} = OfType("B")
  BY <1>5, <1>6 DEF B
<1>8. \A g, h \in heads : g # h => ChainFrom(g) \cap ChainFrom(h) = {}
  BY <1>5
<1>9. ASSUME NEW h \in heads PROVE Roomy(h) \subseteq {LastOf(h)}
  <2>1. h \in B
    BY <1>2, <1>3, <1>4, Owners
  <2>2. PICK z : z = LastOf(h)
    OBVIOUS
  <2>3. z \in ChainFrom(h) /\ disk[z].next = 0
    BY <1>2, <2>1, <2>2, BucketChain DEF LastOf
  <2>4. ASSUME NEW c \in Roomy(h) PROVE c = z
    <3>1. c \in ChainFrom(h) /\ Len(disk[c].ptrs) < BucketCap
      BY <2>4 DEF Roomy
    <3>2. c \in B /\ Len(disk[c].ptrs) \in Nat
      <4>1. c \in B
        BY <1>5, <3>1
      <4> QED BY <1>2, <1>4, <4>1, Owners
    <3>3. Len(disk[c].ptrs) # BucketCap
      BY <3>1, <3>2, TreeAssumption
    <3>4. disk[c].next = 0
      BY <1>4, <3>2, <3>3 DEF ChainInv
    <3> QED BY <1>2, <2>1, <2>3, <3>1, <3>4, OneEnd
  <2> QED BY <2>2, <2>4
<1>10. ASSUME NEW h \in heads, NEW c \in ChainFrom(h), NEW d \in ChainFrom(h),
              NEW i \in 1 .. Len(disk[c].ptrs), NEW j \in 1 .. Len(disk[d].ptrs),
              disk[c].ptrs[i] = disk[d].ptrs[j]
       PROVE  c = d /\ i = j
  <2>1. c \in B /\ d \in B /\ own[c] = own[d]
    BY <1>5
  <2>2. \A x \in 1 .. Len(disk[c].ptrs), y \in 1 .. Len(disk[d].ptrs) :
           disk[c].ptrs[x] = disk[d].ptrs[y] => c = d /\ x = y
    BY <1>4, <2>1 DEF ChainInv
  <2> QED BY <1>10, <2>2
<1> QED
  BY <1>1, <1>7, <1>8, <1>9, <1>10 DEF BucketsRight

\* In duplicate mode every bucket belongs to the chain of one key, only the last
\* bucket of a chain has room, and no block number is in a chain twice.
THEOREM ChainsAreRight == NoNil => (Spec => []BucketsRight)
<1>1. TreeInv /\ MapInv => BucketsRight
  BY InvBucketsRight
<1> QED
  BY <1>1, TreeInvariant, MapInvariant, PTL

===============================================================================
