------------------------------- MODULE BPlusTree -------------------------------
(***************************************************************************)
(* The index file of bplustree.cpp: a B+ tree that only grows.  "hdr" is   *)
(* the global variable header, "dhdr" block 0 of the file, "disk" the other*)
(* blocks.  One call runs at a time and is broken into the steps the code  *)
(* takes: one per level of find, one for the leaf, one per level of        *)
(* insert_in_parent.  A node's arrays have the capacity Cap (4 in the      *)
(* code) and unused keys hold NilKey (INT_MAX); a bucket holds BucketCap   *)
(* pointers (10 in the code).                                              *)
(***************************************************************************)
EXTENDS Naturals, SequencesExt

CONSTANTS Keys,        \* values of the indexed column
          Vals,        \* block numbers of the table
          Modes,       \* values of duplicate in use: "Y", "N"
          NilKey,      \* INT_MAX
          Cap,         \* keys in a node
          BucketCap    \* pointers in a bucket

ASSUME TreeAssumption ==
    /\ Cap \in Nat \ {0, 1}
    /\ BucketCap \in Nat \ {0}
    /\ NilKey \in Nat
    /\ Keys \subseteq 0 .. NilKey
    /\ Vals \subseteq Nat
    /\ Modes \subseteq {"Y", "N"}

VARIABLES hdr,      \* header
          dhdr,     \* block 0 of the file
          disk,     \* block number -> node or bucket
          open,     \* a bplus_tree object exists and its header was read
          pc,       \* where the running call is
          call,     \* its arguments
          at,       \* find: the block reached
          up,       \* insert_in_parent: left_block, key, right_block
          answer    \* what the latest call returned, until the next one begins

vars == <<hdr, dhdr, disk, open, pc, call, at, up, answer>>

NoHeader == [root |-> 0, duplicate |-> "none", numOfBlocks |-> 0,
             numOfInterNodes |-> 0, numOfLeafNodes |-> 0, numOfPtrBucket |-> 0]

Init ==
    /\ hdr = NoHeader /\ dhdr = NoHeader
    /\ disk = <<>> /\ open = FALSE
    /\ pc = "idle" /\ call = <<>> /\ at = 0 /\ up = <<>>
    /\ answer = <<"none">>

-------------------------------------------------------------------------------
(* Nodes and buckets. *)

Pad(s, n, x) == s \o [i \in 1 .. n - Len(s) |-> x]

\* Mutants: size is not set from the keys; unused keys are zero.
LeafNode_FullSize(parent, next, keys, ptrs) ==
    [type |-> "L", size |-> Cap, parent |-> parent, next |-> next,
     keys |-> Pad(keys, Cap, NilKey), ptrs |-> Pad(ptrs, Cap, 0)]
LeafNode_ZeroKeys(parent, next, keys, ptrs) ==
    [type |-> "L", size |-> Len(keys), parent |-> parent, next |-> next,
     keys |-> Pad(keys, Cap, 0), ptrs |-> Pad(ptrs, Cap, 0)]

LeafNode(parent, next, keys, ptrs) ==
    [type |-> "L", size |-> Len(keys), parent |-> parent, next |-> next,
     keys |-> Pad(keys, Cap, NilKey), ptrs |-> Pad(ptrs, Cap, 0)]

\* Mutant: unused keys are zero.
InternalNode_ZeroKeys(parent, keys, ptrs) ==
    [type |-> "I", size |-> Len(keys), parent |-> parent,
     keys |-> Pad(keys, Cap, 0), ptrs |-> Pad(ptrs, Cap + 1, 0)]

InternalNode(parent, keys, ptrs) ==
    [type |-> "I", size |-> Len(keys), parent |-> parent,
     keys |-> Pad(keys, Cap, NilKey), ptrs |-> Pad(ptrs, Cap + 1, 0)]

Bucket(ptrs, next) == [type |-> "B", ptrs |-> ptrs, next |-> next]

\* Mutant: an equal key counts as greater.
Above_OrEqual(n, k) == Min({i \in 1 .. Cap : n.keys[i] >= k} \cup {Cap + 1})

\* The first key greater than k, Cap + 1 when there is none.
Above(n, k) == Min({i \in 1 .. Cap : n.keys[i] > k} \cup {Cap + 1})

\* leaf_node::find looks at the keys in use only.
IndexOf(n, k) == {i \in 1 .. n.size : n.keys[i] = k}

Half_OneMore == Cap \div 2 + 2      \* mutant

\* A split leaves this many of the Cap + 1 keys on the left.
Half == Cap \div 2 + 1

Shift_Behind(s, i, x) == Front(InsertAt(s, i + 1, x))     \* mutant

\* An insertion into an array of n cells drops the last cell.
Shift(s, i, x) == Front(InsertAt(s, i, x))

\* A file with block b written.
With(d, b, n) == [c \in DOMAIN d \cup {b} |-> IF c = b THEN n ELSE d[c]]

Reparent_Not(b, p) == disk[b]      \* mutant
Reparent(b, p) == [disk[b] EXCEPT !.parent = p]

-------------------------------------------------------------------------------
(* Buckets: the chain that starts at a leaf's pointer. *)

\* The blocks that follow block b by their links, 0 past the end.
Chain(b) ==
    LET c[i \in 0 .. hdr.numOfBlocks] == IF i = 0 THEN b
                                         ELSE IF c[i-1] = 0 THEN 0
                                         ELSE disk[c[i-1]].next
    IN  c

ChainFrom(b) == {Chain(b)[i] : i \in 0 .. hdr.numOfBlocks} \ {0}

Held(b) == UNION {ToSet(disk[c].ptrs) : c \in ChainFrom(b)}

Roomy(b) == {c \in ChainFrom(b) : Len(disk[c].ptrs) < BucketCap}
LastOf(b) == CHOOSE c \in ChainFrom(b) : disk[c].next = 0

\* Mutant: a number that is there already is appended again.
BucketInsert_Again(b, v) ==
    IF Roomy(b) # {}
    THEN [disk EXCEPT ![CHOOSE c \in Roomy(b) : TRUE].ptrs = Append(@, v)]
    ELSE With([disk EXCEPT ![LastOf(b)].next = hdr.numOfBlocks],
              hdr.numOfBlocks, Bucket(<<v>>, 0))

\* What ptr_bucket::insert leaves on disk for the chain from b.
BucketInsert(b, v) ==
    IF v \in Held(b) THEN disk
    ELSE IF Roomy(b) # {} THEN
        LET c == CHOOSE c \in Roomy(b) : TRUE
        IN  [disk EXCEPT ![c].ptrs = Append(@, v)]
    ELSE With([disk EXCEPT ![LastOf(b)].next = hdr.numOfBlocks],
              hdr.numOfBlocks, Bucket(<<v>>, 0))

BucketGrows(b, v) == v \notin Held(b) /\ Roomy(b) = {}

-------------------------------------------------------------------------------
(* Opening and closing: a bplus_tree object lives for one statement. *)

Create(mode) ==
    /\ pc = "idle" /\ ~open /\ dhdr.duplicate = "none"
    /\ hdr' = [NoHeader EXCEPT !.duplicate = mode, !.numOfBlocks = 1]
    /\ dhdr' = hdr'
    /\ open' = TRUE
    /\ answer' = <<"none">>
    /\ UNCHANGED <<disk, pc, call, at, up>>

\* The constructor and read_in_header.
Open ==
    /\ pc = "idle" /\ ~open /\ dhdr.duplicate # "none"
    /\ hdr' = dhdr
    /\ open' = TRUE
    /\ answer' = <<"none">>
    /\ UNCHANGED <<dhdr, disk, pc, call, at, up>>

\* Mutant: the header is not written back.
Close_HeaderKept ==
    /\ pc = "idle" /\ open /\ open' = FALSE
    /\ answer' = <<"none">>
    /\ UNCHANGED <<hdr, dhdr, disk, pc, call, at, up>>

\* The destructor writes the header back.
Close ==
    /\ pc = "idle" /\ open
    /\ dhdr' = hdr
    /\ open' = FALSE
    /\ answer' = <<"none">>
    /\ UNCHANGED <<hdr, disk, pc, call, at, up>>

Return(a) == pc' = "idle" /\ call' = <<>> /\ at' = 0 /\ up' = <<>> /\ answer' = a

-------------------------------------------------------------------------------
(* find and find_it *)

Search(op, k, v) ==
    /\ pc' = "find" /\ call' = [op |-> op, key |-> k, val |-> v] /\ at' = hdr.root
    /\ answer' = <<"none">>
    /\ UNCHANGED <<hdr, dhdr, disk, open, up>>

BeginFind(k) ==
    /\ pc = "idle" /\ open
    /\ IF hdr.root = 0
         THEN Return(<<"empty">>) /\ UNCHANGED <<hdr, dhdr, disk, open>>
         ELSE Search("find_it", k, 0)

\* Mutant: every level of find starts at the root again.
Descend_FromRoot ==
    /\ pc = "find" /\ disk[at].type = "I"
    /\ at' = hdr.root
    /\ UNCHANGED <<hdr, dhdr, disk, open, pc, call, up, answer>>

\* One level of find; a null pointer is the case "this should not happen".
Descend ==
    /\ pc = "find" /\ disk[at].type = "I"
    /\ at' = disk[at].ptrs[Above(disk[at], call.key)]
    /\ pc' = IF at' = 0 THEN "panic" ELSE "find"
    /\ UNCHANGED <<hdr, dhdr, disk, open, call, up, answer>>

\* The call that met a null pointer returns 0; what a SELECT makes of that is in
\* Query.
Panic ==
    /\ pc = "panic" /\ call.op # "select"
    /\ Return(<<"panic">>)
    /\ UNCHANGED <<hdr, dhdr, disk, open>>

AtLeaf(op) == pc = "find" /\ disk[at].type = "L" /\ call.op = op

\* A lookup returns the leaf's pointer: a table block, or the bucket chain the
\* caller reads the table blocks from.
Found ==
    /\ AtLeaf("find_it")
    /\ LET n    == disk[at]
           hits == IndexOf(n, call.key)
           ptr  == n.ptrs[Min(hits)]
       IN  Return(IF hits = {} THEN <<"absent">>
                  ELSE <<"found", IF hdr.duplicate = "N" THEN {ptr} ELSE Held(ptr)>>)
    /\ UNCHANGED <<hdr, dhdr, disk, open>>

-------------------------------------------------------------------------------
(* insert *)

\* What goes into the leaf for a new key: the table block, or a new bucket.
Pointer_Inverted(v, b) == IF hdr.duplicate = "N" THEN b ELSE v     \* mutant
Pointer(v, b) == IF hdr.duplicate = "N" THEN v ELSE b
WithBucket(d, v, b) == IF hdr.duplicate = "N" THEN d ELSE With(d, b, Bucket(<<v>>, 0))

\* Mutant: numOfBlocks is left alone.
Allocated_KindsOnly(leaves) == [hdr EXCEPT !.numOfLeafNodes = @ + leaves]

\* The header after n leaves and, in duplicate mode, one bucket were allocated.
Allocated(leaves) ==
    LET buckets == IF hdr.duplicate = "N" THEN 0 ELSE 1
    IN  [hdr EXCEPT !.numOfBlocks = @ + leaves + buckets,
                    !.numOfLeafNodes = @ + leaves,
                    !.numOfPtrBucket = @ + buckets]

\* The first key makes block 1 the root, with its bucket in block 2.
InsertFirst(k, v) ==
    /\ pc = "idle" /\ open /\ hdr.root = 0
    /\ disk' = WithBucket(With(disk, 1, LeafNode(1, 0, <<k>>, <<Pointer(v, 2)>>)), v, 2)
    /\ hdr' = [Allocated(1) EXCEPT !.root = 1]
    /\ Return(<<"stored">>)
    /\ UNCHANGED <<dhdr, open>>

BeginInsert(k, v) ==
    /\ pc = "idle" /\ open /\ hdr.root # 0
    /\ Search("insert", k, v)

Refuse ==
    /\ AtLeaf("insert") /\ hdr.duplicate = "N"
    /\ IndexOf(disk[at], call.key) # {}
    /\ Return(<<"refused">>)
    /\ UNCHANGED <<hdr, dhdr, disk, open>>

\* The key exists: the block number joins its buckets.
AddToBucket ==
    /\ AtLeaf("insert") /\ hdr.duplicate = "Y"
    /\ LET hits == IndexOf(disk[at], call.key)
           head == disk[at].ptrs[Min(hits)]
       IN  /\ hits # {}
           /\ disk' = BucketInsert(head, call.val)
           /\ hdr' = IF BucketGrows(head, call.val)
                      THEN [hdr EXCEPT !.numOfBlocks = @ + 1, !.numOfPtrBucket = @ + 1]
                      ELSE hdr
    /\ Return(<<"stored">>)
    /\ UNCHANGED <<dhdr, open>>

NewKey == AtLeaf("insert") /\ IndexOf(disk[at], call.key) = {}

\* A leaf with room whose keys are all smaller and unused cells hold NilKey has
\* a greater key in it unless the new key is NilKey itself.
InsertInLeaf ==
    /\ NewKey /\ disk[at].size < Cap
    /\ LET n == disk[at]
           i == Above(n, call.key)
           b == hdr.numOfBlocks
           m == [n EXCEPT !.keys = Shift(@, i, call.key),
                          !.ptrs = Shift(@, i, Pointer(call.val, b)),
                          !.size = @ + 1]
       IN  /\ i <= Cap
           /\ disk' = WithBucket([disk EXCEPT ![at] = m], call.val, b)
           /\ hdr' = Allocated(0)
    /\ Return(<<"stored">>)
    /\ UNCHANGED <<dhdr, open>>

\* Otherwise pst stays -1 and the code writes keys[-1]: the model ends here.
InsertOutside ==
    /\ NewKey /\ disk[at].size < Cap
    /\ Above(disk[at], call.key) = Cap + 1
    /\ pc' = "outside"
    /\ UNCHANGED <<hdr, dhdr, disk, open, call, at, up, answer>>

\* A full leaf is split; insert_in_parent, which returns 1 on every path, comes
\* next, so the answer is known here.
SplitLeaf ==
    /\ NewKey /\ disk[at].size = Cap
    /\ LET n    == disk[at]
           i    == Above(n, call.key)
           new  == hdr.numOfBlocks
           keys == InsertAt(n.keys, i, call.key)
           ptrs == InsertAt(n.ptrs, i, Pointer(call.val, new + 1))
           left  == LeafNode(n.parent, new, SubSeq(keys, 1, Half), SubSeq(ptrs, 1, Half))
           right == LeafNode(n.parent, n.next, SubSeq(keys, Half + 1, Cap + 1),
                             SubSeq(ptrs, Half + 1, Cap + 1))
       IN  /\ disk' = WithBucket(With([disk EXCEPT ![at] = left], new, right), call.val, new + 1)
           /\ hdr' = Allocated(1)
           /\ up' = [left |-> at, key |-> right.keys[1], right |-> new]
    /\ pc' = "parent"
    /\ answer' = <<"stored">>
    /\ UNCHANGED <<dhdr, open, call, at>>

-------------------------------------------------------------------------------
(* insert_in_parent, one call per step *)

Ascending == pc = "parent"

NewRoot ==
    /\ Ascending /\ hdr.root = up.left
    /\ LET new == hdr.numOfBlocks
       IN  /\ disk' = With([disk EXCEPT ![up.left] = Reparent(up.left, new),
                                        ![up.right] = Reparent(up.right, new)],
                           new, InternalNode(new, <<up.key>>, <<up.left, up.right>>))
           /\ hdr' = [hdr EXCEPT !.root = new, !.numOfBlocks = @ + 1,
                                 !.numOfInterNodes = @ + 1]
    /\ Return(answer)
    /\ UNCHANGED <<dhdr, open>>

ParentOf(b) == disk[b].parent

InsertInParent ==
    /\ Ascending /\ hdr.root # up.left
    /\ LET p == ParentOf(up.left)
           n == disk[p]
           i == Above(n, up.key)
       IN  /\ n.size < Cap
           /\ disk' = [disk EXCEPT ![p] = [n EXCEPT !.keys = Shift(@, i, up.key),
                                                    !.ptrs = Shift(@, i + 1, up.right),
                                                    !.size = @ + 1]]
    /\ Return(answer)
    /\ UNCHANGED <<hdr, dhdr, open>>

\* The new node's first pointer is null: its first key is the one that moves up.
SplitInternal ==
    /\ Ascending /\ hdr.root # up.left
    /\ LET p    == ParentOf(up.left)
           n    == disk[p]
           i    == Above(n, up.key)
           new  == hdr.numOfBlocks
           keys == InsertAt(n.keys, i, up.key)
           ptrs == InsertAt(n.ptrs, i + 1, up.right)
           moved == SubSeq(ptrs, Half + 2, Cap + 2)
           left  == InternalNode(n.parent, SubSeq(keys, 1, Half), SubSeq(ptrs, 1, Half + 1))
           right == InternalNode(n.parent, SubSeq(keys, Half + 1, Cap + 1), <<0>> \o moved)
       IN  /\ n.size = Cap
           /\ disk' = [b \in DOMAIN disk \cup {new} |->
                         IF b = p THEN left ELSE IF b = new THEN right
                         ELSE IF b \in ToSet(moved) THEN Reparent(b, new) ELSE disk[b]]
           /\ hdr' = [hdr EXCEPT !.numOfBlocks = @ + 1, !.numOfInterNodes = @ + 1]
           /\ up' = [left |-> p, key |-> right.keys[1], right |-> new]
    /\ UNCHANGED <<dhdr, open, pc, call, at, answer>>

-------------------------------------------------------------------------------

Step ==
    \/ Descend \/ Panic \/ Found
    \/ Refuse \/ AddToBucket \/ InsertInLeaf \/ InsertOutside \/ SplitLeaf
    \/ NewRoot \/ InsertInParent \/ SplitInternal

Next ==
    \/ \E mode \in Modes : Create(mode)
    \/ Open \/ Close
    \/ \E k \in Keys : BeginFind(k)
    \/ \E k \in Keys, v \in Vals : InsertFirst(k, v) \/ BeginInsert(k, v)
    \/ Step

\* A call runs to its end: the program has one thread and no call blocks.
Spec == Init /\ [][Next]_vars /\ WF_vars(Step)

-------------------------------------------------------------------------------
(* Properties. *)

OfType(t) == {b \in DOMAIN disk : disk[b].type = t}

\* Every variable ranges over what the code can store in it.
TypeOK ==
    /\ \A h \in {hdr, dhdr} :
          /\ h.duplicate \in {"none", "Y", "N"}
          /\ {h.root, h.numOfBlocks, h.numOfInterNodes, h.numOfLeafNodes,
              h.numOfPtrBucket} \subseteq Nat
    /\ \A b \in OfType("L") \cup OfType("I") :
          /\ disk[b].size \in 1 .. Cap /\ disk[b].parent \in DOMAIN disk
          /\ Len(disk[b].keys) = Cap
          /\ \A i \in 1 .. Cap : disk[b].keys[i] = NilKey <=> i > disk[b].size
    /\ \A b \in OfType("L") : Len(disk[b].ptrs) = Cap
    /\ \A b \in OfType("I") : Len(disk[b].ptrs) = Cap + 1
    /\ \A b \in OfType("B") : Len(disk[b].ptrs) \in 1 .. BucketCap
    /\ open \in BOOLEAN
    /\ pc \in {"idle", "find", "parent", "panic", "outside"}

\* Block numbers are handed out once: the blocks written are exactly those the
\* header has counted, and its three counters are the numbers of each kind.
Allocation ==
    /\ DOMAIN disk = 1 .. hdr.numOfBlocks - 1
    /\ Cardinality(OfType("L")) = hdr.numOfLeafNodes
    /\ Cardinality(OfType("I")) = hdr.numOfInterNodes
    /\ Cardinality(OfType("B")) = hdr.numOfPtrBucket

LeafChain == IF hdr.root = 0 THEN {} ELSE ChainFrom(1)

\* The leaves form one chain that starts in block 1 with the smallest key and
\* goes up strictly, during splits too: range queries walk it from block 1
\* ("The smallest value is always in block one", query.c:512).
ChainSorted ==
    /\ LeafChain = OfType("L")
    /\ \A b \in LeafChain :
          LET n == disk[b]
          IN  /\ \A i, j \in 1 .. n.size : i < j => n.keys[i] < n.keys[j]
              /\ n.next # 0 => n.keys[n.size] < disk[n.next].keys[1]

\* The block find reaches at each level, 0 when it met a null pointer.
Descent(k) ==
    LET d[i \in 0 .. hdr.numOfInterNodes] ==
          IF i = 0 THEN hdr.root
          ELSE IF d[i-1] = 0 THEN 0
          ELSE LET n == disk[d[i-1]]
               IN  IF n.type = "L" THEN d[i-1] ELSE n.ptrs[Above(n, k)]
    IN  d

\* A leaf is reached at its level and stays reached below it.
Levels(k, b) == {i \in DOMAIN Descent(k) : Descent(k)[i] = b}

\* Between calls, find started at the root reaches the leaf of every key in the
\* chain but INT_MAX, and every key to be inserted has a leaf: no split loses a
\* subtree or sends a search to the null first pointer of a split node.
SearchReaches ==
    pc = "idle" /\ hdr.root # 0 =>
      /\ \A k \in Keys \ {NilKey} : Descent(k)[hdr.numOfInterNodes] # 0
      /\ \A b \in LeafChain : \A k \in ToSet(disk[b].keys) \ {NilKey} :
            Descent(k)[hdr.numOfInterNodes] = b

\* Between calls the leaves are at one depth and no node but the root is less
\* full than the smaller half of a split.
Balanced ==
    pc = "idle" =>
      /\ Cardinality({Levels(disk[b].keys[1], b) : b \in LeafChain}) <= 1
      /\ \A b \in OfType("L") \cup OfType("I") :
            b # hdr.root => disk[b].size >= Cap \div 2

\* Between calls parent_block, which insert_in_parent follows and update_parent
\* maintains, names the node that points at the block.
ParentsRight ==
    pc = "idle" =>
      \A p \in OfType("I") : \A c \in ToSet(disk[p].ptrs) \ {0} : disk[c].parent = p

\* In duplicate mode every bucket belongs to the chain of one key, only the last
\* bucket of a chain has room, and no block number is in a chain twice.
BucketsRight ==
    hdr.duplicate = "Y" =>
      LET heads == UNION {{disk[b].ptrs[i] : i \in 1 .. disk[b].size} : b \in LeafChain}
      IN  /\ UNION {ChainFrom(h) : h \in heads} = OfType("B")
          /\ \A g, h \in heads : g # h => ChainFrom(g) \cap ChainFrom(h) = {}
          /\ \A h \in heads :
                /\ Roomy(h) \subseteq {LastOf(h)}
                /\ \A c, d \in ChainFrom(h) :
                      \A i \in 1 .. Len(disk[c].ptrs), j \in 1 .. Len(disk[d].ptrs) :
                         disk[c].ptrs[i] = disk[d].ptrs[j] => c = d /\ i = j

\* find never meets a null pointer ("this should not happen", bplustree.cpp:191).
NeverPanics == pc # "panic"

\* leaf_node::insert always finds a place inside the arrays.
WritesInside == pc # "outside"

\* Every call on the tree returns: find reaches a leaf and insert_in_parent stops
\* at a node with room or at a new root.
CallsReturn == pc # "idle" ~> pc = "idle"

Entries(k) ==
    UNION {{disk[b].ptrs[i] : i \in IndexOf(disk[b], k)} : b \in LeafChain}

\* The table blocks the file has for every key.
Content == [k \in Keys |-> IF hdr.duplicate = "N" THEN Entries(k)
                           ELSE UNION {Held(p) : p \in Entries(k)}]

IS == INSTANCE IndexSpec WITH mode <- dhdr.duplicate, entries <- Content

\* The tree is a map from keys to sets of blocks: an insertion adds one block to
\* one key whatever it splits, a lookup returns what was added and nothing else,
\* a refused key changes nothing, and closing and opening loses nothing.
Refinement == IS!Spec

===============================================================================
