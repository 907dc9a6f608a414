------------------------------- MODULE TreeCrash -------------------------------
(***************************************************************************)
(* A crash between any two writes of a call on the tree.  A statement opens*)
(* the index, inserts one key and closes it; its writes reach the file in  *)
(* the order of the code, the header only at the end.  "writes" names the  *)
(* blocks the latest step wrote, in their order, and "before" is the file  *)
(* in front of it, so that a crash can keep any first part of them.        *)
(***************************************************************************)
EXTENDS BPlusTree

CONSTANT Shared     \* bound of the model: keys that more than one block may have

ASSUME CrashAssumption == Shared \subseteq Keys

VARIABLES writes, before,
          opened,       \* the contents when the statement opened the index
          inserting     \* the <<key, block>> it inserts, <<>> before

crashVars == <<vars, writes, before, opened, inserting>>
statement == <<opened, inserting>>

CrashInit ==
    /\ Init /\ writes = <<>> /\ before = <<>>
    /\ opened = <<>> /\ inserting = <<>>

NoStatement == opened' = <<>> /\ inserting' = <<>>

Wrote(order) == writes' = order /\ before' = disk

-------------------------------------------------------------------------------
(* The steps of an insertion and the order of their writes.  Searches write *)
(* nothing; a new bucket is written where it is made, before its leaf.      *)

BucketFirst(b, order) == IF hdr.duplicate = "N" THEN order ELSE <<b>> \o order

New == hdr.numOfBlocks

\* Mutant: the leaf that was split is written before the one that is new.
LeafOrder_OldFirst == BucketFirst(New + 1, <<at, New>>)
LeafOrder == BucketFirst(New + 1, <<New, at>>)

BucketOrder(head) ==
    IF BucketGrows(head, call.val) THEN <<New, LastOf(head)>>
    ELSE SetToSeq({b \in DOMAIN disk : disk'[b] # disk[b]})

\* update_parent comes first, then the node that was split, then the new one.
InternalOrder ==
    LET moved == SelectSeq(disk'[New].ptrs, LAMBDA b : b # 0)
    IN  moved \o <<ParentOf(up.left), New>>

OrderedStep ==
    \/ (Descend \/ Refuse) /\ Wrote(<<>>)
    \/ AddToBucket /\ Wrote(BucketOrder(disk[at].ptrs[Min(IndexOf(disk[at], call.key))]))
    \/ InsertInLeaf /\ Wrote(BucketFirst(New, <<at>>))
    \/ SplitLeaf /\ Wrote(LeafOrder)
    \/ NewRoot /\ Wrote(<<New, up.left, up.right>>)
    \/ InsertInParent /\ Wrote(<<ParentOf(up.left)>>)
    \/ SplitInternal /\ Wrote(InternalOrder)

Begin ==
    /\ (\E mode \in Modes : Create(mode)) \/ Open
    /\ opened' = Content /\ inserting' = <<>> /\ Wrote(<<>>)

Insert(k, v) ==
    /\ inserting = <<>> /\ inserting' = <<k, v>>
    /\ \/ InsertFirst(k, v) /\ Wrote(BucketFirst(2, <<1>>))
       \/ BeginInsert(k, v) /\ Wrote(<<>>)
    /\ UNCHANGED opened

End == Close /\ Wrote(<<>>) /\ NoStatement

-------------------------------------------------------------------------------
(* The crash *)

\* A block that was not written reads as the constructor left it.
Unwritten(type) == IF type = "B" THEN Bucket(<<>>, 0) ELSE LeafNode(0, 0, <<>>, <<>>)

\* The file with the first n writes of the latest step.
Torn(n) ==
    [b \in DOMAIN disk |->
       IF b \in ToSet(SubSeq(writes, 1, n)) THEN disk[b]
       ELSE IF b \in DOMAIN before THEN before[b]
       ELSE Unwritten(disk[b].type)]

Links(n, mode) ==
    CASE n.type = "L" -> {n.next, n.parent} \cup
                         (IF mode = "Y" THEN {n.ptrs[i] : i \in 1 .. n.size} ELSE {})
      [] n.type = "I" -> {n.parent} \cup ToSet(n.ptrs)
      [] n.type = "B" -> {n.next}

\* The blocks the header has counted; the others will be given out again.
Given(h) == 1 .. h.numOfBlocks - 1

Harmed(d, h) == \E b \in Given(h) : ~(Links(d[b], h.duplicate) \subseteq Given(h) \cup {0})

HeaderLeft_Early == hdr     \* mutant: the header is written as soon as it changes
HeaderLeft == dhdr

\* The header that the next statement will read stands for the one in memory.
\* Blocks it does not count are written before they are read again, and left
\* out, unless a block refers to one: there the model ends.
Crash(n) ==
    LET d == Torn(n)
        h == HeaderLeft
    IN  /\ open /\ open' = FALSE
        /\ hdr' = h /\ dhdr' = h
        /\ IF Harmed(d, h)
             THEN pc' = "harmed" /\ disk' = d
             ELSE pc' = "idle" /\ disk' = [b \in Given(h) |-> d[b]]
        /\ call' = <<>> /\ at' = 0 /\ up' = <<>> /\ answer' = <<"none">>
        /\ writes' = <<>> /\ before' = disk'
        /\ NoStatement

CrashNext ==
    \/ Begin \/ End
    \/ \E k \in Keys, v \in Vals : (k \in Shared \/ v = Min(Vals)) /\ Insert(k, v)
    \/ OrderedStep /\ UNCHANGED statement
    \/ \E n \in 0 .. Len(writes) : Crash(n)

CrashSpec == CrashInit /\ [][CrashNext]_crashVars

-------------------------------------------------------------------------------
(* Properties. *)

\* What the statement may leave: the contents it found or those with its key.
Outcomes ==
    {opened} \cup {[opened EXCEPT ![i[1]] = @ \cup {i[2]}] : i \in {inserting} \ {<<>>}}

\* Right after a crash the chain of leaves and buckets still has every entry
\* that was there when the statement began, and nothing but its own key besides:
\* a split writes the new node before the one that refers to it.
CrashTearsNothing == [][(\E n \in 0 .. Len(writes) : Crash(n)) => Content' \in Outcomes]_crashVars

\* A crash that leaves no block referring to one the header has not counted does
\* no harm: searches, links, parents and counters are right, whichever writes of
\* a split or of a new bucket were lost.
OtherwiseHarmless ==
    pc # "harmed" => Allocation /\ ChainSorted /\ SearchReaches /\ ParentsRight

===============================================================================
