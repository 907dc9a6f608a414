--------------------------- MODULE BufferPoolProofs ---------------------------
(***************************************************************************)
(* Proofs about BufferPool, for any number of tables, blocks, slots and    *)
(* frames.                                                                 *)
(***************************************************************************)
EXTENDS BufferPool, SequenceTheorems, FiniteSetTheorems, WellFoundedInduction, TLAPS

\* The strengthening of UniqueFrames and PoolBound that every step preserves.
PoolInv == TypeOK /\ UniqueFrames /\ PoolBound

\* Removing an element keeps the others in their order.
LEMMA RemoveAtFacts ==
    ASSUME NEW S, NEW s \in Seq(S), NEW i \in 1 .. Len(s)
    PROVE  /\ RemoveAt(s, i) \in Seq(S)
           /\ Len(RemoveAt(s, i)) = Len(s) - 1
           /\ \A j \in 1 .. Len(s) - 1 :
                 RemoveAt(s, i)[j] = IF j < i THEN s[j] ELSE s[j + 1]
<1> DEFINE a == SubSeq(s, 1, i - 1)
           b == SubSeq(s, i + 1, Len(s))
<1>1. /\ a \in Seq(S) /\ Len(a) = i - 1
      /\ \A j \in 1 .. i - 1 : a[j] = s[j]
  OBVIOUS
<1>2. /\ b \in Seq(S) /\ Len(b) = Len(s) - i
      /\ \A j \in 1 .. Len(s) - i : b[j] = s[i + j]
  OBVIOUS
<1>3. RemoveAt(s, i) = a \o b
  BY DEF RemoveAt
<1>4. /\ a \o b \in Seq(S) /\ Len(a \o b) = Len(a) + Len(b)
      /\ \A j \in 1 .. Len(a) + Len(b) :
            (a \o b)[j] = IF j <= Len(a) THEN a[j] ELSE b[j - Len(a)]
  <2> HIDE DEF a, b
  <2> QED BY <1>1, <1>2, ConcatProperties
<1> HIDE DEF a, b
<1>5. Len(a \o b) = Len(s) - 1
  BY <1>1, <1>2, <1>4
<1>6. ASSUME NEW j \in 1 .. Len(s) - 1
      PROVE  (a \o b)[j] = IF j < i THEN s[j] ELSE s[j + 1]
  <2>1. j \in 1 .. Len(a) + Len(b)
    BY <1>1, <1>2
  <2>2. CASE j < i
    BY <2>1, <2>2, <1>1, <1>4
  <2>3. CASE ~(j < i)
    <3>1. (a \o b)[j] = b[j - (i - 1)]
      BY <2>1, <2>3, <1>1, <1>4
    <3>2. j - (i - 1) \in 1 .. Len(s) - i /\ i + (j - (i - 1)) = j + 1
      BY <2>3
    <3> QED BY <3>1, <3>2, <2>3, <1>2
  <2> QED BY <2>2, <2>3
<1> QED
  BY <1>3, <1>4, <1>5, <1>6

\* A hit moves the frame at i behind all others: position j then holds what
\* position Source(i, j) held, and no two positions have the same source.
Source(i, j) == IF j = Len(pool) THEN i ELSE IF j < i THEN j ELSE j + 1

LEMMA MoveToBack ==
    ASSUME NEW S, pool \in Seq(S), NEW i \in DOMAIN pool
    PROVE  LET p == Append(RemoveAt(pool, i), pool[i])
           IN  /\ p \in Seq(S) /\ Len(p) = Len(pool)
               /\ \A j \in DOMAIN pool : Source(i, j) \in DOMAIN pool
                                         /\ p[j] = pool[Source(i, j)]
               /\ \A j, k \in DOMAIN pool : Source(i, j) = Source(i, k) => j = k
<1> DEFINE r == RemoveAt(pool, i)
<1>1. i \in 1 .. Len(pool) /\ pool[i] \in S
  OBVIOUS
<1>2. /\ r \in Seq(S) /\ Len(r) = Len(pool) - 1
      /\ \A j \in 1 .. Len(pool) - 1 : r[j] = IF j < i THEN pool[j] ELSE pool[j + 1]
  BY <1>1, RemoveAtFacts
<1> HIDE DEF r
<1>3. /\ Append(r, pool[i]) \in Seq(S) /\ Len(Append(r, pool[i])) = Len(pool)
      /\ \A j \in 1 .. Len(pool) - 1 : Append(r, pool[i])[j] = r[j]
      /\ Append(r, pool[i])[Len(pool)] = pool[i]
  BY <1>1, <1>2
<1>4. \A j \in DOMAIN pool : Source(i, j) \in DOMAIN pool
                             /\ Append(r, pool[i])[j] = pool[Source(i, j)]
  BY <1>1, <1>2, <1>3 DEF Source
<1>5. \A j, k \in DOMAIN pool : Source(i, j) = Source(i, k) => j = k
  BY <1>1 DEF Source
<1> QED
  BY <1>3, <1>4, <1>5 DEF r

-------------------------------------------------------------------------------
(* What the four ways of changing the pool do to the invariant. *)

\* get_buf_block on a buffered block only reorders the list.
LEMMA HitKeeps ==
    ASSUME PoolInv, NEW t \in Tables, NEW b \in Blocks, GetHit(t, b)
    PROVE  PoolInv'
<1>1. PICK i \in DOMAIN pool :
         pool' = Append(RemoveAt(pool, i), pool[i]) /\ UNCHANGED <<inUse, files>>
  BY DEF GetHit
<1>2. pool \in Seq(Frames)
  BY DEF PoolInv, TypeOK
<1>3. /\ pool' \in Seq(Frames) /\ Len(pool') = Len(pool)
      /\ \A j \in DOMAIN pool : Source(i, j) \in DOMAIN pool /\ pool'[j] = pool[Source(i, j)]
      /\ \A j, k \in DOMAIN pool : Source(i, j) = Source(i, k) => j = k
  BY <1>1, <1>2, MoveToBack
<1>4. DOMAIN pool' = DOMAIN pool
  BY <1>2, <1>3
<1>5. TypeOK' /\ PoolBound'
  BY <1>1, <1>3 DEF PoolInv, TypeOK, PoolBound, files
<1>6. UniqueFrames'
  BY <1>3, <1>4 DEF PoolInv, UniqueFrames
<1> QED
  BY <1>5, <1>6 DEF PoolInv

\* A frame of a block that was not buffered enters a pool with room.
LEMMA EnterKeeps ==
    ASSUME PoolInv, NEW f \in Frames, ~Resident(f.table, f.block), HasRoom, Enter(f)
    PROVE  pool' \in Seq(Frames) /\ inUse' \in Nat /\ UniqueFrames' /\ PoolBound'
<1>1. pool \in Seq(Frames) /\ inUse \in Nat /\ inUse = Len(pool) /\ inUse < Limit
  BY DEF PoolInv, TypeOK, PoolBound, HasRoom
<1>2. /\ pool' \in Seq(Frames) /\ Len(pool') = Len(pool) + 1
      /\ \A j \in DOMAIN pool : pool'[j] = pool[j]
      /\ pool'[Len(pool) + 1] = f
      /\ DOMAIN pool' = DOMAIN pool \cup {Len(pool) + 1}
  BY <1>1 DEF Enter
<1>3. inUse' \in Nat /\ PoolBound'
  BY <1>1, <1>2, PoolAssumption DEF Enter, PoolBound
<1>4. \A j \in DOMAIN pool : ~(pool[j].table = f.table /\ pool[j].block = f.block)
  BY DEF Resident, Holds
<1>5. UniqueFrames'
  BY <1>2, <1>4 DEF PoolInv, UniqueFrames
<1> QED
  BY <1>2, <1>3, <1>5

\* A frame of a block that was not buffered takes the place of the head.
LEMMA ReplaceKeeps ==
    ASSUME PoolInv, NEW f \in Frames, ~Resident(f.table, f.block), ~HasRoom, Replace(f)
    PROVE  pool' \in Seq(Frames) /\ inUse' \in Nat /\ UniqueFrames' /\ PoolBound'
<1>1. pool \in Seq(Frames) /\ inUse \in Nat /\ inUse = Len(pool) /\ inUse = Limit /\ pool # <<>>
  BY PoolAssumption DEF PoolInv, TypeOK, PoolBound, HasRoom
<1>2. /\ Tail(pool) \in Seq(Frames) /\ Len(Tail(pool)) = Len(pool) - 1
      /\ \A j \in 1 .. Len(pool) - 1 : Tail(pool)[j] = pool[j + 1]
  BY <1>1, HeadTailProperties
<1>3. /\ pool' \in Seq(Frames) /\ Len(pool') = Len(pool)
      /\ DOMAIN pool' = DOMAIN pool
      /\ \A j \in 1 .. Len(pool) - 1 : pool'[j] = pool[j + 1]
      /\ pool'[Len(pool)] = f
  BY <1>1, <1>2 DEF Replace
<1>4. inUse' \in Nat /\ PoolBound'
  BY <1>1, <1>3 DEF Replace, PoolBound
<1>5. \A j \in DOMAIN pool : ~(pool[j].table = f.table /\ pool[j].block = f.block)
  BY DEF Resident, Holds
<1>6. UniqueFrames'
  BY <1>1, <1>3, <1>5 DEF PoolInv, UniqueFrames
<1> QED
  BY <1>3, <1>4, <1>6

\* A record written to a buffered block changes its frame in place.
LEMMA WriteHitKeeps ==
    ASSUME PoolInv, NEW t \in Tables, NEW b \in Blocks, NEW s \in Slots, NEW r \in Recs,
           WriteHit(t, b, s, r)
    PROVE  PoolInv'
<1>1. PICK i \in DOMAIN pool :
         /\ FirstHit(i, t, b)
         /\ pool' = ReplaceAt(pool, i, Frame(t, b, Put(pool[i].data, s, r)))
  BY DEF WriteHit
<1>2. pool \in Seq(Frames) /\ pool[i] \in Frames /\ i \in 1 .. Len(pool)
  BY DEF PoolInv, TypeOK
<1>3. Frame(t, b, Put(pool[i].data, s, r)) \in Frames
  BY <1>2 DEF Frames, Frame, Put, Contents, Values
<1>4. /\ pool' \in Seq(Frames) /\ Len(pool') = Len(pool) /\ DOMAIN pool' = DOMAIN pool
      /\ \A j \in DOMAIN pool : pool'[j].table = pool[j].table /\ pool'[j].block = pool[j].block
  BY <1>1, <1>2, <1>3 DEF ReplaceAt, FirstHit, Holds, Frame
<1>5. TypeOK' /\ PoolBound'
  BY <1>4 DEF PoolInv, TypeOK, PoolBound, WriteHit, files
<1>6. UniqueFrames'
  BY <1>4 DEF PoolInv, UniqueFrames
<1> QED
  BY <1>5, <1>6 DEF PoolInv

-------------------------------------------------------------------------------
(* Files *)

\* Writing a frame to its file keeps the files well formed.
LEMMA WriteDiskKeeps ==
    ASSUME PoolInv, NEW f \in Frames, WriteDisk(f)
    PROVE  /\ disk' \in [Tables -> [Blocks -> Contents]]
           /\ size' \in [Tables -> Nat]
<1>1. f.table \in Tables /\ f.block \in Blocks /\ f.data \in Contents
  BY DEF Frames
<1>2. f.block \in Nat
  BY <1>1, PoolAssumption DEF Blocks
<1>3. size' \in [Tables -> Nat]
  <2>1. size \in [Tables -> Nat]
    BY DEF PoolInv, TypeOK
  <2>2. (IF f.block < size[f.table] THEN size[f.table] ELSE f.block + 1) \in Nat
    BY <1>1, <1>2, <2>1
  <2> QED BY <2>1, <2>2 DEF WriteDisk, SizeAfter
<1>4. ZeroBlock \in Contents
  BY DEF ZeroBlock, Contents, Values
<1>5. disk' \in [Tables -> [Blocks -> Contents]]
  BY <1>1, <1>4 DEF WriteDisk, DiskAfter, PoolInv, TypeOK
<1> QED
  BY <1>3, <1>5

LEMMA HeadIsFrame ==
    ASSUME PoolInv, ~HasRoom
    PROVE  pool # <<>> /\ Head(pool) \in Frames /\ Head(pool) = pool[1] /\ 1 \in DOMAIN pool
  BY PoolAssumption DEF PoolInv, TypeOK, PoolBound, HasRoom

-------------------------------------------------------------------------------
(* One lemma per operation. *)

LEMMA GetKeeps ==
    ASSUME PoolInv, NEW t \in Tables, NEW b \in Blocks, Get(t, b)
    PROVE  PoolInv'
<1>1. CASE GetHit(t, b)
  BY <1>1, HitKeeps
<1>2. CASE GetRoom(t, b)
  <2> DEFINE f == Frame(t, b, disk[t][b])
  <2>1. f \in Frames /\ f.table = t /\ f.block = b
    BY DEF PoolInv, TypeOK, Frame, Frames
  <2>2. ~Resident(f.table, f.block) /\ HasRoom /\ Enter(f)
    BY <1>2, <2>1 DEF GetRoom
  <2> HIDE DEF f
  <2>3. pool' \in Seq(Frames) /\ inUse' \in Nat /\ UniqueFrames' /\ PoolBound'
    BY <2>1, <2>2, EnterKeeps
  <2> QED BY <1>2, <2>3 DEF GetRoom, files, PoolInv, TypeOK
<1>3. CASE GetEvict(t, b)
  <2> DEFINE f == Frame(t, b, disk'[t][b])
  <2>1. disk' \in [Tables -> [Blocks -> Contents]] /\ size' \in [Tables -> Nat]
    BY <1>3, HeadIsFrame, WriteDiskKeeps DEF GetEvict
  <2>2. f \in Frames /\ f.table = t /\ f.block = b
    BY <2>1 DEF Frame, Frames
  <2>3. ~Resident(f.table, f.block) /\ ~HasRoom /\ Replace(f)
    BY <1>3, <2>2 DEF GetEvict
  <2> HIDE DEF f
  <2>4. pool' \in Seq(Frames) /\ inUse' \in Nat /\ UniqueFrames' /\ PoolBound'
    BY <2>2, <2>3, ReplaceKeeps
  <2> QED BY <2>1, <2>4 DEF PoolInv, TypeOK
<1> QED
  BY <1>1, <1>2, <1>3 DEF Get

\* What write2buf puts into a frame that was not buffered.
LEMMA PutIsContents ==
    ASSUME NEW d \in Contents, NEW s \in Slots, NEW r \in Recs
    PROVE  Put(d, s, r) \in Contents
  BY DEF Put, Contents, Values

LEMMA FillIsContents == FillBlock \in Contents
  BY DEF FillBlock, Contents, Values

LEMMA WriteKeeps ==
    ASSUME PoolInv, NEW t \in Tables, NEW b \in Blocks, NEW s \in Slots, NEW r \in Recs,
           Write(t, b, s, r)
    PROVE  PoolInv'
<1>1. CASE WriteFirst(t, b, s, r)
  <2> DEFINE d == IF b = 0 /\ s = 0 THEN FillBlock ELSE disk[t][b]
             f == Frame(t, b, Put(d, s, r))
  <2>1. d \in Contents
    BY FillIsContents DEF PoolInv, TypeOK
  <2>2. f \in Frames /\ f.table = t /\ f.block = b
    <3> HIDE DEF d
    <3> QED BY <2>1, PutIsContents DEF Frame, Frames
  <2>3. ~Resident(f.table, f.block) /\ HasRoom /\ Enter(f)
    <3>1. inUse = 0 /\ Enter(f)
      BY <1>1 DEF WriteFirst
    <3>2. DOMAIN pool = {}
      <4>1. pool \in Seq(Frames) /\ Len(pool) = 0
        BY <3>1 DEF PoolInv, TypeOK, PoolBound
      <4> QED BY <4>1
    <3>3. HasRoom
      BY <3>1, PoolAssumption DEF HasRoom
    <3> QED BY <3>1, <3>2, <3>3 DEF Resident
  <2> HIDE DEF f
  <2>4. pool' \in Seq(Frames) /\ inUse' \in Nat /\ UniqueFrames' /\ PoolBound'
    BY <2>2, <2>3, EnterKeeps
  <2> QED BY <1>1, <2>4 DEF WriteFirst, files, PoolInv, TypeOK
<1>2. CASE WriteHit(t, b, s, r)
  BY <1>2, WriteHitKeeps
<1>3. CASE WriteRoom(t, b, s, r)
  <2> DEFINE d == IF s = 0 THEN FillBlock ELSE disk[t][b]
             f == Frame(t, b, Put(d, s, r))
  <2>1. d \in Contents
    BY FillIsContents DEF PoolInv, TypeOK
  <2>2. f \in Frames /\ f.table = t /\ f.block = b
    <3> HIDE DEF d
    <3> QED BY <2>1, PutIsContents DEF Frame, Frames
  <2>3. ~Resident(f.table, f.block) /\ HasRoom /\ Enter(f)
    BY <1>3, <2>2 DEF WriteRoom
  <2> HIDE DEF f
  <2>4. pool' \in Seq(Frames) /\ inUse' \in Nat /\ UniqueFrames' /\ PoolBound'
    BY <2>2, <2>3, EnterKeeps
  <2> QED BY <1>3, <2>4 DEF WriteRoom, files, PoolInv, TypeOK
<1>4. CASE WriteEvict(t, b, s, r)
  <2> DEFINE d == IF s = 0 THEN FillBlock ELSE disk'[t][b]
             f == Frame(t, b, Put(d, s, r))
  <2>1. disk' \in [Tables -> [Blocks -> Contents]] /\ size' \in [Tables -> Nat]
    BY <1>4, HeadIsFrame, WriteDiskKeeps DEF WriteEvict
  <2>2. d \in Contents
    BY <2>1, FillIsContents
  <2>3. f \in Frames /\ f.table = t /\ f.block = b
    <3> HIDE DEF d
    <3> QED BY <2>2, PutIsContents DEF Frame, Frames
  <2>4. ~Resident(f.table, f.block) /\ ~HasRoom /\ Replace(f)
    BY <1>4, <2>3 DEF WriteEvict
  <2> HIDE DEF f
  <2>5. pool' \in Seq(Frames) /\ inUse' \in Nat /\ UniqueFrames' /\ PoolBound'
    BY <2>3, <2>4, ReplaceKeeps
  <2> QED BY <2>1, <2>5 DEF PoolInv, TypeOK
<1> QED
  BY <1>1, <1>2, <1>3, <1>4 DEF Write

-------------------------------------------------------------------------------
(* Commit *)

\* A nonempty set of bounded numbers has a maximum.
LEMMA MaxExists ==
    ASSUME NEW S \in SUBSET Nat, S # {}, NEW n \in Nat, \A x \in S : x <= n
    PROVE  Max(S) \in S /\ \A x \in S : x <= Max(S)
<1> DEFINE Over(x) == {y \in S : y > x}
           F == {Over(x) : x \in S}
<1>1. IsFiniteSet(S)
  BY FS_BoundedSetOfNaturals
<1>2. F \subseteq FiniteSubsetsOf(S)
  BY <1>1, FS_Subset DEF FiniteSubsetsOf
<1>3. IsWellFoundedOn(StrictSubsetOrdering(S), FiniteSubsetsOf(S))
  BY FS_StrictSubsetOrderingWellFounded
<1>4. PICK U \in F : \A V \in F : <<V, U>> \notin StrictSubsetOrdering(S)
  <2>1. F # {}
    OBVIOUS
  <2> HIDE DEF F
  <2> QED BY <1>2, <1>3, <2>1, WFMin
<1>5. PICK x \in S : U = Over(x)
  OBVIOUS
<1>6. \A y \in S : y <= x
  <2>1. SUFFICES ASSUME NEW y \in S, y > x PROVE FALSE
    OBVIOUS
  <2>2. Over(y) \in F
    OBVIOUS
  <2>3. Over(y) \subseteq Over(x) /\ y \in Over(x) /\ y \notin Over(y)
    <3> HIDE DEF F
    <3>1. x \in Nat /\ y \in Nat /\ \A z \in S : z \in Nat
      OBVIOUS
    <3>2. \A z \in S : z > y => z > x
      BY <2>1, <3>1
    <3>3. y > x /\ ~(y > y)
      BY <2>1, <3>1
    <3> QED BY <3>2, <3>3
  <2>4. <<Over(y), Over(x)>> \in StrictSubsetOrdering(S)
    BY <2>3 DEF StrictSubsetOrdering
  <2> QED BY <1>4, <1>5, <2>2, <2>4
<1> QED
  BY <1>6 DEF Max

\* With one frame per block the search of the list has one possible result.
LEMMA TheFrame ==
    ASSUME UniqueFrames, NEW t, NEW b, NEW i \in DOMAIN pool, Holds(i, t, b),
           pool \in Seq(Frames)
    PROVE  Resident(t, b) /\ FirstHit(i, t, b) /\ Buffered(t, b) = pool[i].data
<1>1. \A j \in DOMAIN pool : Holds(j, t, b) => j = i
  BY DEF UniqueFrames, Holds
<1>2. FirstHit(i, t, b)
  <2>1. 1 .. i-1 \subseteq DOMAIN pool /\ i \notin 1 .. i-1
    OBVIOUS
  <2> QED BY <1>1, <2>1 DEF FirstHit
<1>3. \A j \in DOMAIN pool : FirstHit(j, t, b) <=> j = i
  BY <1>1, <1>2 DEF FirstHit
<1>4. (CHOOSE j \in DOMAIN pool : FirstHit(j, t, b)) = i
  BY <1>3
<1> QED
  BY <1>2, <1>4 DEF Buffered, Resident

LEMMA BufferedIsContents ==
    ASSUME PoolInv, NEW t, NEW b, Resident(t, b)
    PROVE  Buffered(t, b) \in Contents
<1>1. PICK i \in DOMAIN pool : Holds(i, t, b)
  BY DEF Resident
<1>2. pool \in Seq(Frames) /\ pool[i] \in Frames
  BY DEF PoolInv, TypeOK
<1>3. Buffered(t, b) = pool[i].data
  BY <1>1, <1>2, TheFrame DEF PoolInv
<1> QED
  BY <1>2, <1>3 DEF Frames

\* A commit gives every file a length that covers its old end and all frames.
LEMMA CommittedSizeFacts ==
    ASSUME PoolInv, NEW t \in Tables
    PROVE  /\ CommittedSize(t) \in Nat
           /\ size[t] <= CommittedSize(t)
           /\ \A i \in DOMAIN pool : pool[i].table = t => pool[i].block < CommittedSize(t)
           /\ \/ CommittedSize(t) = size[t]
              \/ \E i \in DOMAIN pool : pool[i].table = t /\ CommittedSize(t) = pool[i].block + 1
<1> DEFINE ends == {pool[i].block + 1 : i \in {j \in DOMAIN pool : pool[j].table = t}}
           S == {size[t]} \cup ends
<1>1. pool \in Seq(Frames) /\ size[t] \in Nat
  BY DEF PoolInv, TypeOK
<1>2. \A i \in DOMAIN pool : pool[i].block \in 0 .. MaxBlock
  <2>1. \A i \in DOMAIN pool : pool[i] \in Frames
    BY <1>1
  <2> QED BY <2>1 DEF Frames, Blocks
<1>3. S \in SUBSET Nat /\ S # {}
  BY <1>1, <1>2, PoolAssumption
<1>4. \A x \in S : x <= size[t] + MaxBlock + 1
  BY <1>1, <1>2, PoolAssumption
<1>5. size[t] + MaxBlock + 1 \in Nat
  BY <1>1, PoolAssumption
<1>6. CommittedSize(t) = Max(S)
  BY DEF CommittedSize
<1> HIDE DEF S
<1>7. Max(S) \in S /\ \A x \in S : x <= Max(S)
  BY <1>3, <1>4, <1>5, MaxExists
<1>8. Max(S) \in Nat
  BY <1>3, <1>7
<1>9. size[t] <= Max(S)
  BY <1>7 DEF S
<1>10. ASSUME NEW i \in DOMAIN pool, pool[i].table = t
       PROVE  pool[i].block < Max(S)
  <2>1. pool[i].block + 1 \in S
    BY <1>10 DEF S
  <2> QED BY <1>2, <1>7, <1>8, <2>1, PoolAssumption
<1>11. \/ Max(S) = size[t]
       \/ \E i \in DOMAIN pool : pool[i].table = t /\ Max(S) = pool[i].block + 1
  BY <1>7 DEF S
<1> QED
  BY <1>6, <1>8, <1>9, <1>10, <1>11

\* A commit keeps the files well formed.
LEMMA CommitFilesTyped ==
    ASSUME PoolInv, NEW live \in SUBSET Tables, CommitFiles(live)
    PROVE  /\ disk' \in [Tables -> [Blocks -> Contents]]
           /\ size' \in [Tables -> Nat]
<1>1. \A t \in Tables, b \in Blocks : Committed(t, b) \in Contents
  BY BufferedIsContents DEF Committed, ZeroBlock, Contents, Values, PoolInv, TypeOK
<1>2. disk' \in [Tables -> [Blocks -> Contents]]
  BY <1>1 DEF CommitFiles, PoolInv, TypeOK
<1>3. size' \in [Tables -> Nat]
  BY CommittedSizeFacts DEF CommitFiles, PoolInv, TypeOK
<1> QED
  BY <1>2, <1>3

LEMMA CommitKeeps ==
    ASSUME PoolInv, NEW live \in SUBSET Tables, Commit(live)
    PROVE  PoolInv'
<1>1. pool' = pool /\ inUse' = inUse
  BY DEF Commit
<1>2. disk' \in [Tables -> [Blocks -> Contents]] /\ size' \in [Tables -> Nat]
  BY CommitFilesTyped DEF Commit
<1> QED
  BY <1>1, <1>2 DEF PoolInv, TypeOK, UniqueFrames, PoolBound

LEMMA DeleteFileKeeps ==
    ASSUME PoolInv, NEW t \in Tables, DeleteFile(t)
    PROVE  PoolInv'
<1>1. pool' = pool /\ inUse' = inUse
  BY DEF DeleteFile
<1>2. disk' \in [Tables -> [Blocks -> Contents]] /\ size' \in [Tables -> Nat]
  BY FillIsContents DEF DeleteFile, PoolInv, TypeOK
<1> QED
  BY <1>1, <1>2 DEF PoolInv, TypeOK, UniqueFrames, PoolBound

LEMMA RestartKeeps ==
    ASSUME PoolInv, Restart
    PROVE  PoolInv'
<1>1. pool' \in Seq(Frames) /\ Len(pool') = 0 /\ DOMAIN pool' = {}
  BY DEF Restart
<1> QED
  BY <1>1, PoolAssumption DEF PoolInv, TypeOK, UniqueFrames, PoolBound, Restart, files

-------------------------------------------------------------------------------
(* The invariant. *)

LEMMA InitInv == Init => PoolInv
<1>1. SUFFICES ASSUME Init PROVE PoolInv
  OBVIOUS
<1>2. pool \in Seq(Frames) /\ Len(pool) = 0 /\ DOMAIN pool = {}
  BY <1>1 DEF Init
<1>3. disk \in [Tables -> [Blocks -> Contents]] /\ size \in [Tables -> Nat]
  BY <1>1, FillIsContents DEF Init
<1> QED
  BY <1>1, <1>2, <1>3, PoolAssumption DEF Init, PoolInv, TypeOK, UniqueFrames, PoolBound

LEMMA NextKeeps == PoolInv /\ [Next]_vars => PoolInv'
<1> SUFFICES ASSUME PoolInv, [Next]_vars PROVE PoolInv'
  OBVIOUS
<1>1. ASSUME NEW t \in Tables, NEW b \in Blocks, Get(t, b) PROVE PoolInv'
  BY <1>1, GetKeeps
<1>2. ASSUME NEW t \in Tables, NEW b \in Blocks, NEW s \in Slots, NEW r \in Recs,
             Write(t, b, s, r)
      PROVE  PoolInv'
  BY <1>2, WriteKeeps
<1>3. ASSUME NEW live \in SUBSET Tables, Commit(live) PROVE PoolInv'
  BY <1>3, CommitKeeps
<1>4. ASSUME NEW t \in Tables, DeleteFile(t) PROVE PoolInv'
  BY <1>4, DeleteFileKeeps
<1>5. CASE Restart
  BY <1>5, RestartKeeps
<1>6. CASE UNCHANGED vars
  BY <1>6 DEF vars, PoolInv, TypeOK, UniqueFrames, PoolBound
<1> QED
  BY <1>1, <1>2, <1>3, <1>4, <1>5, <1>6 DEF Next

LEMMA Invariant == Spec => []PoolInv
  BY InitInv, NextKeeps, PTL DEF Spec

\* Every variable of the buffer manager ranges over what the code can store in
\* it, for any number of tables, blocks, slots and frames.
THEOREM PoolTyped == Spec => []TypeOK
<1>1. PoolInv => TypeOK
  BY DEF PoolInv
<1> QED
  BY <1>1, Invariant, PTL

\* No reachable pool buffers a block twice: the searches of get_buf_block and
\* write2buf keep the list duplicate-free under every eviction and drop.
THEOREM FramesAreUnique == Spec => []UniqueFrames
<1>1. PoolInv => UniqueFrames
  BY DEF PoolInv
<1> QED
  BY <1>1, Invariant, PTL

\* buff_in_use counts the list and never exceeds buff_limits.
THEOREM PoolIsBounded == Spec => []PoolBound
<1>1. PoolInv => PoolBound
  BY DEF PoolInv
<1> QED
  BY <1>1, Invariant, PTL

-------------------------------------------------------------------------------
(* What a read and a commit give: ReadsLatest and CommitSaves, from the    *)
(* invariant above and the shape of the files.                             *)

\* The invariant: a hole that a write leaves in a file was past the file's end,
\* so what a read makes of it does not change.
FullInv == PoolInv /\ FilesEnd

LEMMA WriteDiskEnds ==
    ASSUME PoolInv, FilesEnd, NEW f \in Frames, WriteDisk(f)
    PROVE  FilesEnd'
<1>1. SUFFICES ASSUME NEW t \in Tables, NEW b \in Blocks, size'[t] <= b
               PROVE  disk'[t][b] = FillBlock
  BY DEF FilesEnd, FillBlock
<1>2. /\ f.table \in Tables /\ f.block \in Nat /\ b \in Nat
      /\ size[t] \in Nat /\ size \in [Tables -> Nat]
  BY PoolAssumption DEF PoolInv, TypeOK, Frames, Blocks
<1>3. CASE t # f.table
  BY <1>1, <1>3 DEF WriteDisk, DiskAfter, SizeAfter, FilesEnd, PoolInv, TypeOK
<1>4. CASE t = f.table
  <2>1. size'[t] = IF f.block < size[t] THEN size[t] ELSE f.block + 1
    BY <1>2, <1>4 DEF WriteDisk, SizeAfter
  <2>2. b # f.block /\ size[t] <= b /\ ~(size[t] <= b /\ b < f.block)
    BY <1>1, <1>2, <2>1
  <2>3. disk'[t][b] = disk[t][b]
    BY <1>4, <2>2 DEF WriteDisk, DiskAfter, PoolInv, TypeOK
  <2> QED BY <2>2, <2>3 DEF FilesEnd
<1> QED
  BY <1>3, <1>4

LEMMA CommitEnds ==
    ASSUME PoolInv, FilesEnd, NEW live \in SUBSET Tables, Commit(live)
    PROVE  FilesEnd'
<1>1. SUFFICES ASSUME NEW t \in Tables, NEW b \in Blocks, size'[t] <= b
               PROVE  disk'[t][b] = FillBlock
  BY DEF FilesEnd, FillBlock
<1>2. CASE t \notin live
  BY <1>1, <1>2 DEF Commit, CommitFiles, FilesEnd
<1>3. CASE t \in live
  <2>1. b \in Nat /\ size[t] \in Nat /\ CommittedSize(t) \in Nat /\ size[t] <= CommittedSize(t)
    BY CommittedSizeFacts, PoolAssumption DEF PoolInv, TypeOK, Blocks
  <2>2. CommittedSize(t) <= b
    BY <1>1, <1>3 DEF Commit, CommitFiles
  <2>3. \A i \in DOMAIN pool : pool[i].table = t => pool[i].block \in Nat /\ pool[i].block < b
    <3>1. \A i \in DOMAIN pool : pool[i] \in Frames
      BY DEF PoolInv, TypeOK
    <3> QED BY <2>1, <2>2, <3>1, CommittedSizeFacts, PoolAssumption DEF Frames, Blocks
  <2>4. ~Resident(t, b) /\ ~Reaches(t, b)
    BY <2>1, <2>3 DEF Resident, Holds, Reaches
  <2>5. size[t] <= b
    BY <2>1, <2>2
  <2>6. disk'[t][b] = Committed(t, b)
    BY <1>3 DEF Commit, CommitFiles
  <2> QED BY <2>4, <2>5, <2>6 DEF Committed, FilesEnd
<1> QED
  BY <1>2, <1>3

LEMMA NextEnds == FullInv /\ [Next]_vars => FilesEnd'
<1> SUFFICES ASSUME PoolInv, FilesEnd, [Next]_vars PROVE FilesEnd'
  BY DEF FullInv
<1>1. ASSUME UNCHANGED files PROVE FilesEnd'
  BY <1>1 DEF files, FilesEnd
<1>2. ASSUME NEW t \in Tables, NEW b \in Blocks, Get(t, b) PROVE FilesEnd'
  <2>1. CASE GetHit(t, b) \/ GetRoom(t, b)
    BY <2>1, <1>1 DEF GetHit, GetRoom
  <2>2. CASE GetEvict(t, b)
    BY <2>2, HeadIsFrame, WriteDiskEnds DEF GetEvict
  <2> QED BY <1>2, <2>1, <2>2 DEF Get
<1>3. ASSUME NEW t \in Tables, NEW b \in Blocks, NEW s \in Slots, NEW r \in Recs,
             Write(t, b, s, r)
      PROVE  FilesEnd'
  <2>1. CASE WriteFirst(t, b, s, r) \/ WriteHit(t, b, s, r) \/ WriteRoom(t, b, s, r)
    BY <2>1, <1>1 DEF WriteFirst, WriteHit, WriteRoom
  <2>2. CASE WriteEvict(t, b, s, r)
    BY <2>2, HeadIsFrame, WriteDiskEnds DEF WriteEvict
  <2> QED BY <1>3, <2>1, <2>2 DEF Write
<1>4. ASSUME NEW live \in SUBSET Tables, Commit(live) PROVE FilesEnd'
  BY <1>4, CommitEnds
<1>5. ASSUME NEW t \in Tables, DeleteFile(t) PROVE FilesEnd'
  BY <1>5 DEF DeleteFile, FilesEnd, PoolInv, TypeOK, FillBlock
<1>6. CASE Restart
  BY <1>6, <1>1 DEF Restart
<1>7. CASE UNCHANGED vars
  BY <1>7, <1>1 DEF vars, files
<1> QED
  BY <1>2, <1>3, <1>4, <1>5, <1>6, <1>7 DEF Next

LEMMA InitEnds == Init => FilesEnd
  BY DEF Init, FilesEnd

LEMMA FullInvariant == Spec => []FullInv
<1>1. Init => FullInv
  BY InitInv, InitEnds DEF FullInv
<1>2. FullInv /\ [Next]_vars => FullInv'
  BY NextKeeps, NextEnds DEF FullInv
<1> QED
  BY <1>1, <1>2, PTL DEF Spec

\* No table file ever holds anything past its end, whatever is evicted, committed
\* or deleted, so a block that was never written reads as filling.
THEOREM FilesEndRight == Spec => []FilesEnd
<1>1. FullInv => FilesEnd
  BY DEF FullInv
<1> QED
  BY <1>1, FullInvariant, PTL

-------------------------------------------------------------------------------
(* What a reader makes of a block after a write to the files. *)

\* A hole and the filling before it look alike.
LEMMA HoleIsFill == Visible(ZeroBlock) = Visible(FillBlock)
  BY DEF Visible, ZeroBlock, FillBlock

LEMMA WriteDiskShows ==
    ASSUME PoolInv, FilesEnd, NEW f \in Frames, WriteDisk(f),
           NEW t \in Tables, NEW b \in Blocks
    PROVE  Visible(disk'[t][b]) =
             IF t = f.table /\ b = f.block THEN Visible(f.data) ELSE Visible(disk[t][b])
<1>1. disk'[t][b] = IF t # f.table THEN disk[t][b]
                    ELSE IF b = f.block THEN f.data
                    ELSE IF size[t] <= b /\ b < f.block THEN ZeroBlock
                    ELSE disk[t][b]
  BY DEF WriteDisk, DiskAfter, PoolInv, TypeOK, Frames
<1>2. size[t] <= b => disk[t][b] = FillBlock
  BY DEF FilesEnd
<1> QED
  BY <1>1, <1>2, HoleIsFill

LEMMA CommittedShows ==
    ASSUME FilesEnd, NEW t \in Tables, NEW b \in Blocks
    PROVE  Visible(Committed(t, b)) = Content(t, b)
<1>1. size[t] <= b => disk[t][b] = FillBlock
  BY DEF FilesEnd
<1> QED
  BY <1>1, HoleIsFill DEF Committed, Content, Raw

-------------------------------------------------------------------------------
(* Reads and commits *)

LEMMA GetReads ==
    ASSUME PoolInv, FilesEnd, NEW t \in Tables, NEW b \in Blocks, Get(t, b)
    PROVE  Visible(Last(pool').data) = Content(t, b)
<1> USE DEF Content, Raw
<1>1. pool \in Seq(Frames)
  BY DEF PoolInv, TypeOK
<1>2. CASE GetHit(t, b)
  <2>1. PICK i \in DOMAIN pool :
           FirstHit(i, t, b) /\ pool' = Append(RemoveAt(pool, i), pool[i])
    BY <1>2 DEF GetHit
  <2>2. Holds(i, t, b)
    BY <2>1 DEF FirstHit
  <2>3. Resident(t, b) /\ Buffered(t, b) = pool[i].data
    BY <1>1, <2>2, TheFrame DEF PoolInv
  <2>4. Last(pool') = pool[i]
    <3>1. pool[i] \in Frames /\ i \in 1 .. Len(pool)
      BY <1>1
    <3>2. RemoveAt(pool, i) \in Seq(Frames)
      BY <1>1, <3>1, RemoveAtFacts
    <3> QED BY <2>1, <3>1, <3>2 DEF Last
  <2> QED BY <2>3, <2>4
<1>3. CASE GetRoom(t, b)
  <2>1. pool' = Append(pool, Frame(t, b, disk[t][b])) /\ ~Resident(t, b)
    BY <1>3 DEF GetRoom, Enter
  <2>2. Last(pool') = Frame(t, b, disk[t][b])
    BY <1>1, <2>1 DEF Last
  <2> QED BY <2>1, <2>2 DEF Frame
<1>4. CASE GetEvict(t, b)
  <2>1. /\ ~Resident(t, b) /\ WriteDisk(Head(pool))
        /\ pool' = Append(Tail(pool), Frame(t, b, disk'[t][b]))
    BY <1>4 DEF GetEvict, Replace
  <2>2. pool # <<>> /\ Head(pool) \in Frames /\ Head(pool) = pool[1] /\ 1 \in DOMAIN pool
    BY <1>4, HeadIsFrame DEF GetEvict
  <2>3. ~(t = Head(pool).table /\ b = Head(pool).block)
    BY <2>1, <2>2 DEF Resident, Holds
  <2>4. Visible(disk'[t][b]) = Visible(disk[t][b])
    BY <2>1, <2>2, <2>3, WriteDiskShows
  <2>5. Last(pool') = Frame(t, b, disk'[t][b])
    <3>1. Tail(pool) \in Seq(Frames)
      BY <1>1, <2>2, HeadTailProperties
    <3> QED BY <2>1, <3>1 DEF Last
  <2> QED BY <2>1, <2>4, <2>5 DEF Frame
<1> QED
  BY <1>2, <1>3, <1>4 DEF Get

\* get_buf_block gives the latest contents of the block it is asked for, however
\* many blocks were evicted in between and whichever file the victim was in.
THEOREM ReadsAreLatest == Spec => ReadsLatest
<1>1. FullInv /\ [Next]_vars =>
        [\A t \in Tables, b \in Blocks : Get(t, b) =>
            Visible(Last(pool').data) = Content(t, b)]_vars
  BY GetReads DEF FullInv
<1> QED
  BY <1>1, FullInvariant, PTL DEF Spec, ReadsLatest

\* After COMMIT the files hold all that the buffered and evicted blocks of the
\* tables in the catalog held.
THEOREM CommitsSave == Spec => CommitSaves
<1>1. ASSUME FilesEnd, NEW live \in SUBSET Tables, Commit(live),
             NEW t \in live, NEW b \in Blocks
      PROVE  Visible(disk'[t][b]) = Content(t, b)
  BY <1>1, CommittedShows DEF Commit, CommitFiles
<1>2. FullInv /\ [Next]_vars =>
        [\A live \in SUBSET Tables : Commit(live) =>
            \A t \in live, b \in Blocks : Visible(disk'[t][b]) = Content(t, b)]_vars
  BY <1>1 DEF FullInv
<1> QED
  BY <1>2, FullInvariant, PTL DEF Spec, CommitSaves
-------------------------------------------------------------------------------
(* The block store.  The pool over the files implements what Engine builds on:
   each way of changing the pool has a lemma on what a reader finds in every
   block afterwards.                                                         *)

\* What a reader of the file alone finds.
Saved(t, b) == Visible(disk[t][b])

Within(p, i, t, b) == p[i].table = t /\ p[i].block = b

\* The search of a list with one frame per block.
LEMMA FrameOf ==
    ASSUME NEW p \in Seq(Frames),
           \A i, j \in DOMAIN p : p[i].table = p[j].table /\ p[i].block = p[j].block => i = j,
           NEW t, NEW b, NEW i \in DOMAIN p, Within(p, i, t, b)
    PROVE  i = CHOOSE k \in DOMAIN p :
                  Within(p, k, t, b) /\ \A j \in 1 .. k-1 : ~Within(p, j, t, b)
<1>1. \A j \in DOMAIN p : Within(p, j, t, b) => j = i
  BY DEF Within
<1>2. 1 .. i-1 \subseteq DOMAIN p /\ i \notin 1 .. i-1
  OBVIOUS
<1> QED BY <1>1, <1>2

\* A buffered block shows its frame, before and after a step.
LEMMA ShowsFrame ==
    ASSUME PoolInv, NEW t, NEW b, NEW i \in DOMAIN pool,
           pool[i].table = t, pool[i].block = b
    PROVE  Content(t, b) = Visible(pool[i].data)
BY TheFrame DEF PoolInv, TypeOK, Holds, Content, Raw

LEMMA ShowsFrameNext ==
    ASSUME PoolInv', NEW t, NEW b, NEW i \in DOMAIN pool',
           pool'[i].table = t, pool'[i].block = b
    PROVE  Content(t, b)' = Visible(pool'[i].data)
<1>1. /\ pool' \in Seq(Frames)
      /\ \A j, k \in DOMAIN pool' :
           pool'[j].table = pool'[k].table /\ pool'[j].block = pool'[k].block => j = k
  BY DEF PoolInv, TypeOK, UniqueFrames
<1>2. i = CHOOSE k \in DOMAIN pool' :
            Within(pool', k, t, b) /\ \A j \in 1 .. k-1 : ~Within(pool', j, t, b)
  <2>1. Within(pool', i, t, b)
    BY DEF Within
  <2> QED BY <1>1, <2>1, FrameOf
<1>3. Buffered(t, b)' = pool'[i].data
  BY <1>2 DEF Buffered, FirstHit, Holds, Within
<1>4. Resident(t, b)'
  BY DEF Resident, Holds
<1> QED BY <1>3, <1>4 DEF Content, Raw

\* A block that is not buffered shows its file.
LEMMA ShowsFileNext ==
    ASSUME NEW t, NEW b,
           \A i \in DOMAIN pool' : ~(pool'[i].table = t /\ pool'[i].block = b)
    PROVE  Content(t, b)' = Saved(t, b)'
BY DEF Content, Raw, Saved, Resident, Holds

-------------------------------------------------------------------------------
(* The four ways of changing the pool. *)

LEMMA HitShows ==
    ASSUME PoolInv, PoolInv', NEW t \in Tables, NEW b \in Blocks, GetHit(t, b),
           NEW u \in Tables, NEW c \in Blocks
    PROVE  Content(u, c)' = Content(u, c) /\ Saved(u, c)' = Saved(u, c)
<1>1. PICK i \in DOMAIN pool :
         pool' = Append(RemoveAt(pool, i), pool[i]) /\ UNCHANGED <<inUse, files>>
  BY DEF GetHit
<1>2. pool \in Seq(Frames)
  BY DEF PoolInv, TypeOK
<1>3. /\ pool' \in Seq(Frames) /\ Len(pool') = Len(pool)
      /\ \A j \in DOMAIN pool : Source(i, j) \in DOMAIN pool /\ pool'[j] = pool[Source(i, j)]
  BY <1>1, <1>2, MoveToBack
<1>4. DOMAIN pool' = DOMAIN pool
  BY <1>2, <1>3
<1>5. disk' = disk
  BY <1>1 DEF files
<1>6. CASE Resident(u, c)
  <2>1. PICK j \in DOMAIN pool : pool[j].table = u /\ pool[j].block = c
    BY <1>6 DEF Resident, Holds
  <2>2. PICK k \in DOMAIN pool : Source(i, k) = j
    <3> DEFINE k == IF j = i THEN Len(pool) ELSE IF j < i THEN j ELSE j - 1
    <3>1. i \in 1 .. Len(pool) /\ j \in 1 .. Len(pool) /\ DOMAIN pool = 1 .. Len(pool)
      BY <1>2
    <3>2. k \in DOMAIN pool /\ Source(i, k) = j
      BY <3>1 DEF Source
    <3> QED BY <3>2
  <2>3. pool'[k] = pool[j]
    BY <1>3, <2>2
  <2> QED BY <1>4, <1>5, <2>1, <2>3, ShowsFrame, ShowsFrameNext DEF Saved
<1>7. CASE ~Resident(u, c)
  <2>1. \A k \in DOMAIN pool' : ~(pool'[k].table = u /\ pool'[k].block = c)
    BY <1>3, <1>4, <1>7 DEF Resident, Holds
  <2>2. Content(u, c)' = Saved(u, c)'
    BY <2>1, ShowsFileNext
  <2> QED BY <1>5, <1>7, <2>2 DEF Content, Raw, Saved
<1> QED BY <1>6, <1>7

LEMMA EnterShows ==
    ASSUME PoolInv, PoolInv', NEW f \in Frames, ~Resident(f.table, f.block),
           Enter(f), UNCHANGED files, NEW u \in Tables, NEW c \in Blocks
    PROVE  /\ Content(u, c)' = IF u = f.table /\ c = f.block THEN Visible(f.data)
                                                            ELSE Content(u, c)
           /\ Saved(u, c)' = Saved(u, c)
<1>1. pool \in Seq(Frames)
  BY DEF PoolInv, TypeOK
<1>2. /\ DOMAIN pool' = DOMAIN pool \cup {Len(pool) + 1}
      /\ \A j \in DOMAIN pool : pool'[j] = pool[j]
      /\ pool'[Len(pool) + 1] = f
  BY <1>1 DEF Enter
<1>3. disk' = disk
  BY DEF files
<1>4. CASE u = f.table /\ c = f.block
  <2>1. Len(pool) + 1 \in DOMAIN pool'
    BY <1>2
  <2> QED BY <1>2, <1>3, <1>4, <2>1, ShowsFrameNext DEF Saved
<1>5. CASE Resident(u, c)
  <2>1. PICK j \in DOMAIN pool : pool[j].table = u /\ pool[j].block = c
    BY <1>5 DEF Resident, Holds
  <2>2. ~(u = f.table /\ c = f.block)
    BY <1>5
  <2> QED BY <1>2, <1>3, <2>1, <2>2, ShowsFrame, ShowsFrameNext DEF Saved
<1>6. CASE ~Resident(u, c) /\ ~(u = f.table /\ c = f.block)
  <2>1. \A k \in DOMAIN pool' : ~(pool'[k].table = u /\ pool'[k].block = c)
    BY <1>2, <1>6 DEF Resident, Holds
  <2>2. Content(u, c)' = Saved(u, c)'
    BY <2>1, ShowsFileNext
  <2> QED BY <1>3, <1>6, <2>2 DEF Content, Raw, Saved
<1> QED BY <1>4, <1>5, <1>6

\* The victim's block reads from the file what its frame held.
LEMMA ReplaceShows ==
    ASSUME PoolInv, PoolInv', FilesEnd, NEW f \in Frames, ~Resident(f.table, f.block),
           ~HasRoom, WriteDisk(Head(pool)), Replace(f), NEW u \in Tables, NEW c \in Blocks
    PROVE  /\ Content(u, c)' = IF u = f.table /\ c = f.block THEN Visible(f.data)
                                                            ELSE Content(u, c)
           /\ Saved(u, c)' = Saved(u, c) \/ Saved(u, c)' = Content(u, c)
<1> DEFINE h == Head(pool)
<1>1. /\ pool \in Seq(Frames) /\ pool # <<>> /\ h \in Frames /\ h = pool[1]
      /\ 1 \in DOMAIN pool
  BY HeadIsFrame DEF PoolInv, TypeOK
<1>2. /\ DOMAIN pool' = DOMAIN pool /\ DOMAIN pool = 1 .. Len(pool) /\ Len(pool) \in Nat
      /\ \A j \in 1 .. Len(pool) - 1 : pool'[j] = pool[j + 1]
      /\ pool'[Len(pool)] = f
  <2>1. /\ Tail(pool) \in Seq(Frames) /\ Len(Tail(pool)) = Len(pool) - 1
        /\ \A j \in 1 .. Len(pool) - 1 : Tail(pool)[j] = pool[j + 1]
    BY <1>1, HeadTailProperties
  <2> QED BY <1>1, <2>1 DEF Replace
<1>3. Saved(u, c)' = IF u = h.table /\ c = h.block THEN Visible(h.data) ELSE Saved(u, c)
  BY <1>1, WriteDiskShows DEF Saved
<1>4. Saved(u, c)' = Saved(u, c) \/ Saved(u, c)' = Content(u, c)
  BY <1>1, <1>3, ShowsFrame
<1>5. CASE u = f.table /\ c = f.block
  <2>1. Len(pool) \in DOMAIN pool'
    BY <1>1, <1>2
  <2> QED BY <1>2, <1>4, <1>5, <2>1, ShowsFrameNext
<1>6. CASE Resident(u, c)
  <2>1. PICK j \in DOMAIN pool : pool[j].table = u /\ pool[j].block = c
    BY <1>6 DEF Resident, Holds
  <2>2. ~(u = f.table /\ c = f.block)
    BY <1>6
  <2>3. CASE j = 1
    <3>1. \A k \in DOMAIN pool' : ~(pool'[k].table = u /\ pool'[k].block = c)
      <4>1. ASSUME NEW k \in DOMAIN pool', k # Len(pool)
            PROVE  ~(pool'[k].table = u /\ pool'[k].block = c)
        <5>1. k + 1 \in DOMAIN pool /\ k + 1 # 1 /\ pool'[k] = pool[k + 1]
          BY <1>2, <4>1
        <5> QED BY <2>1, <2>3, <5>1 DEF PoolInv, UniqueFrames
      <4> QED BY <1>2, <2>2, <4>1
    <3>2. Content(u, c)' = Saved(u, c)'
      BY <3>1, ShowsFileNext
    <3>3. Saved(u, c)' = Visible(pool[1].data)
      BY <1>1, <1>3, <2>1, <2>3
    <3> QED BY <1>1, <1>4, <2>1, <2>2, <2>3, <3>2, <3>3, ShowsFrame
  <2>4. CASE j # 1
    <3>1. j - 1 \in DOMAIN pool' /\ pool'[j - 1] = pool[j]
      BY <1>2, <2>4
    <3> QED BY <1>4, <2>1, <2>2, <3>1, ShowsFrame, ShowsFrameNext
  <2> QED BY <2>3, <2>4
<1>7. CASE ~Resident(u, c) /\ ~(u = f.table /\ c = f.block)
  <2>1. \A k \in DOMAIN pool' : ~(pool'[k].table = u /\ pool'[k].block = c)
    <3>1. ASSUME NEW k \in DOMAIN pool', k # Len(pool)
          PROVE  ~(pool'[k].table = u /\ pool'[k].block = c)
      <4>1. k + 1 \in DOMAIN pool /\ pool'[k] = pool[k + 1]
        BY <1>2, <3>1
      <4> QED BY <1>7, <4>1 DEF Resident, Holds
    <3> QED BY <1>2, <1>7, <3>1
  <2>2. Content(u, c)' = Saved(u, c)'
    BY <2>1, ShowsFileNext
  <2>3. ~(u = h.table /\ c = h.block)
    BY <1>1, <1>7 DEF Resident, Holds
  <2>4. Content(u, c)' = Saved(u, c)
    BY <1>3, <2>2, <2>3
  <2> QED BY <1>4, <1>7, <2>4 DEF Content, Raw, Saved
<1> QED BY <1>5, <1>6, <1>7

\* A record changes the frame of its block where it stands.
LEMMA WriteHitShows ==
    ASSUME PoolInv, PoolInv', NEW t \in Tables, NEW b \in Blocks, NEW s \in Slots,
           NEW r \in Recs, WriteHit(t, b, s, r)
    PROVE  \E d \in Contents :
             /\ Visible(d) = Content(t, b)
             /\ \A u \in Tables, c \in Blocks :
                  /\ Content(u, c)' = IF u = t /\ c = b THEN Visible(Put(d, s, r))
                                                       ELSE Content(u, c)
                  /\ Saved(u, c)' = Saved(u, c)
<1>1. PICK i \in DOMAIN pool :
         /\ FirstHit(i, t, b)
         /\ pool' = ReplaceAt(pool, i, Frame(t, b, Put(pool[i].data, s, r)))
  BY DEF WriteHit
<1>2. pool \in Seq(Frames) /\ pool[i] \in Frames /\ i \in 1 .. Len(pool)
  BY DEF PoolInv, TypeOK
<1>3. pool[i].table = t /\ pool[i].block = b /\ pool[i].data \in Contents
  BY <1>1, <1>2 DEF FirstHit, Holds, Frames
<1> DEFINE f == Frame(t, b, Put(pool[i].data, s, r))
<1>4. /\ DOMAIN pool' = DOMAIN pool
      /\ pool'[i] = f
      /\ \A j \in DOMAIN pool : j # i => pool'[j] = pool[j]
  BY <1>1, <1>2 DEF ReplaceAt
<1>5. disk' = disk
  BY DEF WriteHit, files
<1>6. f.table = t /\ f.block = b /\ f.data = Put(pool[i].data, s, r)
  BY DEF Frame
<1>7. ASSUME NEW u \in Tables, NEW c \in Blocks
      PROVE  /\ Content(u, c)' = IF u = t /\ c = b THEN Visible(Put(pool[i].data, s, r))
                                                   ELSE Content(u, c)
             /\ Saved(u, c)' = Saved(u, c)
  <2> HIDE DEF f
  <2>1. CASE u = t /\ c = b
    BY <1>4, <1>5, <1>6, <2>1, ShowsFrameNext DEF Saved
  <2>2. CASE Resident(u, c) /\ ~(u = t /\ c = b)
    <3>1. PICK j \in DOMAIN pool : pool[j].table = u /\ pool[j].block = c
      BY <2>2 DEF Resident, Holds
    <3>2. j # i
      BY <1>3, <2>2, <3>1
    <3> QED BY <1>4, <1>5, <2>2, <3>1, <3>2, ShowsFrame, ShowsFrameNext DEF Saved
  <2>3. CASE ~Resident(u, c) /\ ~(u = t /\ c = b)
    <3>1. \A k \in DOMAIN pool' : ~(pool'[k].table = u /\ pool'[k].block = c)
      BY <1>4, <1>6, <2>3 DEF Resident, Holds
    <3>2. Content(u, c)' = Saved(u, c)'
      BY <3>1, ShowsFileNext
    <3> QED BY <1>5, <2>3, <3>2 DEF Content, Raw, Saved
  <2> QED BY <2>1, <2>2, <2>3
<1>8. Visible(pool[i].data) = Content(t, b)
  BY <1>3, ShowsFrame
<1> QED BY <1>3, <1>7, <1>8

-------------------------------------------------------------------------------
(* From blocks to the two maps of the block store. *)

\* A reader of a block with a record put into it finds the record.
LEMMA PutShows ==
    ASSUME NEW d \in Contents, NEW s \in Slots, NEW r \in Recs
    PROVE  Visible(Put(d, s, r)) = [Visible(d) EXCEPT ![s] = r]
BY PoolAssumption DEF Visible, Put, Contents

LEMMA FillShows == Visible(FillBlock) = BS!BlankBlock
BY PoolAssumption DEF Visible, FillBlock, BS!BlankBlock

\* A step that saves some blocks as they were is a WriteBack.
LEMMA SomeSaved ==
    ASSUME \A u \in Tables, c \in Blocks :
              Saved(u, c)' = Saved(u, c) \/ Saved(u, c)' = Content(u, c)
    PROVE  BS!WriteBack
<1> DEFINE out == [u \in Tables |-> {c \in Blocks : Saved(u, c)' = Content(u, c)}]
<1>1. out \in [Tables -> SUBSET Blocks]
  OBVIOUS
<1>2. Durable' = [u \in Tables |-> [c \in Blocks |->
                    IF c \in out[u] THEN Store[u][c] ELSE Durable[u][c]]]
  BY DEF Durable, Store, Saved
<1> HIDE DEF out
<1> QED BY <1>1, <1>2 DEF BS!WriteBack

\* A step that changes what a reader finds in one block, by one record, is a Write.
LEMMA OneWritten ==
    ASSUME NEW t \in Tables, NEW b \in Blocks, NEW s \in Slots, NEW r \in Recs,
           NEW d \in Contents,
           Visible(d) = Content(t, b) \/ (s = 0 /\ d = FillBlock),
           \A u \in Tables, c \in Blocks :
              /\ Content(u, c)' = IF u = t /\ c = b THEN Visible(Put(d, s, r))
                                                   ELSE Content(u, c)
              /\ Saved(u, c)' = Saved(u, c) \/ Saved(u, c)' = Content(u, c)
    PROVE  BS!Write(t, b, s, r)
<1>1. BS!WriteBack
  BY SomeSaved
<1>2. Store' = [Store EXCEPT ![t] = [@ EXCEPT ![b] = Visible(Put(d, s, r))]]
  BY DEF Store
<1>3. CASE Visible(d) = Content(t, b)
  <2>1. Visible(Put(d, s, r)) = [Store[t][b] EXCEPT ![s] = r]
    BY <1>3, PutShows DEF Store
  <2> QED BY <1>1, <1>2, <2>1 DEF BS!Write
<1>4. CASE s = 0 /\ d = FillBlock
  <2>1. Visible(Put(d, s, r)) = [BS!BlankBlock EXCEPT ![s] = r]
    BY <1>4, PutShows, FillShows
  <2> QED BY <1>1, <1>2, <1>4, <2>1 DEF BS!Write
<1> QED BY <1>3, <1>4

-------------------------------------------------------------------------------
(* One lemma per operation. *)

LEMMA GetRefines ==
    ASSUME PoolInv, PoolInv', FilesEnd, NEW t \in Tables, NEW b \in Blocks, Get(t, b)
    PROVE  BS!Read
<1>1. ASSUME NEW u \in Tables, NEW c \in Blocks
      PROVE  /\ Content(u, c)' = Content(u, c)
             /\ Saved(u, c)' = Saved(u, c) \/ Saved(u, c)' = Content(u, c)
  <2>1. CASE GetHit(t, b)
    BY <2>1, HitShows
  <2>2. CASE GetRoom(t, b)
    <3> DEFINE f == Frame(t, b, disk[t][b])
    <3>1. f \in Frames /\ f.table = t /\ f.block = b /\ f.data = disk[t][b]
      BY DEF PoolInv, TypeOK, Frame, Frames
    <3>2. ~Resident(f.table, f.block) /\ Enter(f) /\ UNCHANGED files
      BY <2>2, <3>1 DEF GetRoom
    <3> HIDE DEF f
    <3>3. /\ Content(u, c)' = IF u = f.table /\ c = f.block THEN Visible(f.data)
                                                            ELSE Content(u, c)
          /\ Saved(u, c)' = Saved(u, c)
      BY <3>1, <3>2, EnterShows
    <3>4. u = t /\ c = b => Visible(f.data) = Content(u, c)
      BY <3>1, <3>2 DEF Content, Raw
    <3> QED BY <3>1, <3>3, <3>4
  <2>3. CASE GetEvict(t, b)
    <3> DEFINE f == Frame(t, b, disk'[t][b])
    <3>1. f \in Frames /\ f.table = t /\ f.block = b /\ f.data = disk'[t][b]
      BY DEF PoolInv, TypeOK, Frame, Frames
    <3>2. ~Resident(f.table, f.block) /\ ~HasRoom /\ WriteDisk(Head(pool)) /\ Replace(f)
      BY <2>3, <3>1 DEF GetEvict
    <3> HIDE DEF f
    <3>3. /\ Content(u, c)' = IF u = f.table /\ c = f.block THEN Visible(f.data)
                                                            ELSE Content(u, c)
          /\ Saved(u, c)' = Saved(u, c) \/ Saved(u, c)' = Content(u, c)
      BY <3>1, <3>2, ReplaceShows
    <3>4. u = t /\ c = b => Visible(f.data) = Content(u, c)
      <4>1. Saved(t, b)' = Saved(t, b) /\ Content(t, b) = Saved(t, b)
        <5>1. Head(pool) \in Frames /\ ~(t = Head(pool).table /\ b = Head(pool).block)
          BY <3>1, <3>2, HeadIsFrame DEF Resident, Holds
        <5> QED BY <3>1, <3>2, <5>1, WriteDiskShows DEF Saved, Content, Raw
      <4> QED BY <3>1, <4>1 DEF Saved
    <3> QED BY <3>1, <3>3, <3>4
  <2> QED BY <2>1, <2>2, <2>3 DEF Get
<1>2. Store' = Store
  BY <1>1 DEF Store
<1> QED BY <1>1, <1>2, SomeSaved DEF BS!Read

LEMMA WriteRefines ==
    ASSUME PoolInv, PoolInv', FilesEnd, NEW t \in Tables, NEW b \in Blocks,
           NEW s \in Slots, NEW r \in Recs, Write(t, b, s, r)
    PROVE  BS!Write(t, b, s, r)
<1>1. CASE WriteFirst(t, b, s, r)
  <2> DEFINE d == IF b = 0 /\ s = 0 THEN FillBlock ELSE disk[t][b]
             f == Frame(t, b, Put(d, s, r))
  <2>1. d \in Contents
    BY FillIsContents DEF PoolInv, TypeOK
  <2>2. ~Resident(t, b)
    <3>1. pool \in Seq(Frames) /\ Len(pool) = 0
      BY <1>1 DEF WriteFirst, PoolInv, TypeOK, PoolBound
    <3> QED BY <3>1 DEF Resident
  <2>3. Visible(d) = Content(t, b) \/ (s = 0 /\ d = FillBlock)
    BY <2>2 DEF Content, Raw
  <2>4. Enter(f) /\ UNCHANGED files
    BY <1>1 DEF WriteFirst
  <2> HIDE DEF d
  <2>5. f \in Frames /\ f.table = t /\ f.block = b /\ f.data = Put(d, s, r)
    BY <2>1, PutIsContents DEF Frame, Frames
  <2> HIDE DEF f
  <2>6. \A u \in Tables, c \in Blocks :
           /\ Content(u, c)' = IF u = t /\ c = b THEN Visible(Put(d, s, r)) ELSE Content(u, c)
           /\ Saved(u, c)' = Saved(u, c)
    BY <2>2, <2>4, <2>5, EnterShows
  <2> QED BY <2>1, <2>3, <2>6, OneWritten
<1>2. CASE WriteHit(t, b, s, r)
  BY <1>2, WriteHitShows, OneWritten
<1>3. CASE WriteRoom(t, b, s, r)
  <2> DEFINE d == IF s = 0 THEN FillBlock ELSE disk[t][b]
             f == Frame(t, b, Put(d, s, r))
  <2>1. d \in Contents
    BY FillIsContents DEF PoolInv, TypeOK
  <2>2. ~Resident(t, b) /\ Enter(f) /\ UNCHANGED files
    BY <1>3 DEF WriteRoom
  <2>3. Visible(d) = Content(t, b) \/ (s = 0 /\ d = FillBlock)
    BY <2>2 DEF Content, Raw
  <2> HIDE DEF d
  <2>4. f \in Frames /\ f.table = t /\ f.block = b /\ f.data = Put(d, s, r)
    BY <2>1, PutIsContents DEF Frame, Frames
  <2> HIDE DEF f
  <2>5. \A u \in Tables, c \in Blocks :
           /\ Content(u, c)' = IF u = t /\ c = b THEN Visible(Put(d, s, r)) ELSE Content(u, c)
           /\ Saved(u, c)' = Saved(u, c)
    BY <2>2, <2>4, EnterShows
  <2> QED BY <2>1, <2>3, <2>5, OneWritten
<1>4. CASE WriteEvict(t, b, s, r)
  <2> DEFINE d == IF s = 0 THEN FillBlock ELSE disk'[t][b]
             f == Frame(t, b, Put(d, s, r))
  <2>1. d \in Contents
    BY FillIsContents DEF PoolInv, TypeOK
  <2>2. ~Resident(t, b) /\ ~HasRoom /\ WriteDisk(Head(pool)) /\ Replace(f)
    BY <1>4 DEF WriteEvict
  <2>3. Visible(d) = Content(t, b) \/ (s = 0 /\ d = FillBlock)
    <3>1. Head(pool) \in Frames /\ ~(t = Head(pool).table /\ b = Head(pool).block)
      BY <2>2, HeadIsFrame DEF Resident, Holds
    <3>2. Visible(disk'[t][b]) = Visible(disk[t][b])
      BY <2>2, <3>1, WriteDiskShows
    <3> QED BY <2>2, <3>2 DEF Content, Raw
  <2> HIDE DEF d
  <2>4. f \in Frames /\ f.table = t /\ f.block = b /\ f.data = Put(d, s, r)
    BY <2>1, PutIsContents DEF Frame, Frames
  <2> HIDE DEF f
  <2>5. \A u \in Tables, c \in Blocks :
           /\ Content(u, c)' = IF u = t /\ c = b THEN Visible(Put(d, s, r)) ELSE Content(u, c)
           /\ Saved(u, c)' = Saved(u, c) \/ Saved(u, c)' = Content(u, c)
    BY <2>2, <2>4, ReplaceShows
  <2> QED BY <2>1, <2>3, <2>5, OneWritten
<1> QED BY <1>1, <1>2, <1>3, <1>4 DEF Write

LEMMA CommitRefines ==
    ASSUME FilesEnd, NEW live \in SUBSET Tables, Commit(live)
    PROVE  BS!Commit(live)
<1>1. \A u \in Tables, c \in Blocks :
         Saved(u, c)' = IF u \in live THEN Content(u, c) ELSE Saved(u, c)
  BY CommittedShows DEF Commit, CommitFiles, Saved
<1>2. ASSUME NEW u \in Tables, NEW c \in Blocks PROVE Content(u, c)' = Content(u, c)
  <2>1. pool' = pool
    BY DEF Commit
  <2>2. CASE Resident(u, c)
    BY <2>1, <2>2 DEF Content, Raw, Resident, Buffered, FirstHit, Holds
  <2>3. CASE ~Resident(u, c)
    <3>1. Content(u, c) = Saved(u, c)
      BY <2>3 DEF Content, Raw, Saved
    <3>2. Content(u, c)' = Saved(u, c)'
      BY <2>1, <2>3 DEF Content, Raw, Saved, Resident, Holds
    <3> QED BY <1>1, <3>1, <3>2
  <2> QED BY <2>2, <2>3
<1>3. Store' = Store
  BY <1>2 DEF Store
<1>4. Durable' = [u \in Tables |-> IF u \in live THEN Store[u] ELSE Durable[u]]
  BY <1>1 DEF Durable, Store, Saved
<1> QED BY <1>3, <1>4 DEF BS!Commit

\* Blocks of the deleted table that are buffered stay readable.
LEMMA DeleteRefines ==
    ASSUME PoolInv, NEW t \in Tables, DeleteFile(t)
    PROVE  BS!DeleteFile(t)
<1> DEFINE kept == {c \in Blocks : Resident(t, c)}
<1>1. pool' = pool /\ disk' = [disk EXCEPT ![t] = [c \in Blocks |-> FillBlock]]
  BY DEF DeleteFile
<1>2. \A u \in Tables, c \in Blocks :
         Saved(u, c)' = IF u = t THEN BS!BlankBlock ELSE Saved(u, c)
  BY <1>1, FillShows DEF Saved, PoolInv, TypeOK
<1>3. ASSUME NEW u \in Tables, NEW c \in Blocks
      PROVE  Content(u, c)' = IF u # t \/ c \in kept THEN Content(u, c) ELSE BS!BlankBlock
  <2>1. CASE Resident(u, c)
    BY <1>1, <2>1 DEF Content, Raw, Resident, Buffered, FirstHit, Holds
  <2>2. CASE ~Resident(u, c)
    <3>1. Content(u, c) = Saved(u, c)
      BY <2>2 DEF Content, Raw, Saved
    <3>2. Content(u, c)' = Saved(u, c)'
      BY <1>1, <2>2 DEF Content, Raw, Saved, Resident, Holds
    <3> QED BY <1>2, <2>2, <3>1, <3>2
  <2> QED BY <2>1, <2>2
<1>4. Durable' = [Durable EXCEPT ![t] = [c \in Blocks |-> BS!BlankBlock]]
  BY <1>2 DEF Durable, Saved
<1>5. Store' = [Store EXCEPT ![t] =
                  [c \in Blocks |-> IF c \in kept THEN Store[t][c] ELSE BS!BlankBlock]]
  BY <1>3 DEF Store
<1>6. kept \in SUBSET Blocks
  OBVIOUS
<1> HIDE DEF kept
<1> QED BY <1>4, <1>5, <1>6 DEF BS!DeleteFile

LEMMA RestartRefines ==
    ASSUME Restart
    PROVE  BS!Restart
<1>1. DOMAIN pool' = {} /\ disk' = disk
  BY DEF Restart, files
<1>2. \A u \in Tables, c \in Blocks : Content(u, c)' = Saved(u, c)
  BY <1>1, ShowsFileNext DEF Saved
<1>3. Store' = Durable /\ Durable' = Durable
  BY <1>1, <1>2 DEF Store, Durable, Saved
<1> QED BY <1>3 DEF BS!Restart

-------------------------------------------------------------------------------

LEMMA InitRefines == Init => BS!Init
<1> SUFFICES ASSUME Init PROVE BS!Init
  OBVIOUS
<1>1. DOMAIN pool = {} /\ \A u \in Tables, c \in Blocks : disk[u][c] = FillBlock
  BY DEF Init
<1>2. \A u \in Tables, c \in Blocks :
         Content(u, c) = BS!BlankBlock /\ Visible(disk[u][c]) = BS!BlankBlock
  BY <1>1, FillShows DEF Content, Raw, Resident
<1> QED BY <1>2 DEF BS!Init, BS!Empty, Store, Durable

LEMMA NextRefines == FullInv /\ FullInv' /\ [Next]_vars => [BS!Next]_(BS!vars)
<1> SUFFICES ASSUME FullInv, FullInv', [Next]_vars PROVE [BS!Next]_(BS!vars)
  OBVIOUS
<1> USE DEF FullInv
<1>1. ASSUME NEW t \in Tables, NEW b \in Blocks, Get(t, b) PROVE BS!Next
  BY <1>1, GetRefines DEF BS!Next
<1>2. ASSUME NEW t \in Tables, NEW b \in Blocks, NEW s \in Slots, NEW r \in Recs,
             Write(t, b, s, r)
      PROVE  BS!Next
  BY <1>2, WriteRefines DEF BS!Next
<1>3. ASSUME NEW live \in SUBSET Tables, Commit(live) PROVE BS!Next
  BY <1>3, CommitRefines DEF BS!Next
<1>4. ASSUME NEW t \in Tables, DeleteFile(t) PROVE BS!Next
  BY <1>4, DeleteRefines DEF BS!Next
<1>5. CASE Restart
  BY <1>5, RestartRefines DEF BS!Next
<1>6. CASE UNCHANGED vars
  <2>1. pool' = pool /\ disk' = disk
    BY <1>6 DEF vars
  <2>2. Store' = Store /\ Durable' = Durable
    BY <2>1 DEF Store, Durable, Content, Raw, Resident, Buffered, FirstHit, Holds
  <2> QED BY <2>2 DEF BS!vars
<1> QED BY <1>1, <1>2, <1>3, <1>4, <1>5, <1>6 DEF Next

\* Every behaviour of the buffer manager is one of the block store: hits, loads,
\* evictions and commits only save blocks, and a write adds one record.
THEOREM PoolIsBlockStore == Spec => Refinement
<1>1. Init => BS!Init
  BY InitRefines
<1>2. FullInv /\ FullInv' /\ [Next]_vars => [BS!Next]_(BS!vars)
  BY NextRefines
<1> QED
  BY <1>1, <1>2, FullInvariant, PTL DEF Spec, Refinement, BS!Spec
===============================================================================
