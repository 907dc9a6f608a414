---------------------------- MODULE TableRowsProofs ----------------------------
(***************************************************************************)
(* The tables over the buffer manager, for any number of tables, blocks,   *)
(* records in a block, frames and rows.  The invariant says of each block  *)
(* that has rows that it is in a frame or inside its file, with its rows   *)
(* and then filling; of one without rows, that it is neither.              *)
(***************************************************************************)
EXTENDS TableRows, BufferPoolProofs

\* Rows of a table, none of one the catalog does not know.
N(t) == IF count[t] = NoTable THEN 0 ELSE count[t]

HasRows(t, b) == b * PerBlock < N(t)

\* The rows of block b and then filling.
RightBlock(t, b, d) ==
    \A s \in Slots : IF b * PerBlock + s < N(t) THEN d[s] \in Recs ELSE d[s] = Fill

\* The frames of the pool, in no order.
Buffers == {pool[i] : i \in DOMAIN pool}

CountOK == count \in [Tables -> (0 .. MaxRows) \cup {NoTable}]

FramesRight ==
    \A f \in Buffers :
       HasRows(f.table, f.block) /\ RightBlock(f.table, f.block, f.data)

\* What the file has for a block is right, and within the file just if it has rows.
FileRight(t, b) ==
    RightBlock(t, b, disk[t][b]) /\ (b < size[t] <=> HasRows(t, b))

FilesRight ==
    \A t \in Tables, b \in Blocks : ~Resident(t, b) => FileRight(t, b)

TableInv == PoolInv /\ CountOK /\ FramesRight /\ FilesRight

-------------------------------------------------------------------------------
(* Positions. *)

LEMMA PerBlockIs == PerBlock \in Nat \ {0} /\ Slots = 0 .. PerBlock - 1
  BY PoolAssumption DEF PerBlock, Slots

\* Multiplication by the records of a block is monotone.
LEMMA BlocksApart ==
    ASSUME NEW b \in Nat, NEW c \in Nat
    PROVE  /\ b * PerBlock \in Nat
           /\ c < b => c * PerBlock + PerBlock <= b * PerBlock
<1> DEFINE P == PerBlock
<1>1. P \in Nat
  BY PerBlockIs
<1> HIDE DEF P
<1>2. b * P \in Nat /\ c * P \in Nat
  BY <1>1
<1>3. ASSUME c < b PROVE c * P + P <= b * P
  <2>1. PICK k \in Nat : b = c + 1 + k
    <3>1. b - c - 1 \in Nat /\ b = c + 1 + (b - c - 1)
      BY <1>3
    <3> QED BY <3>1
  <2>2. b * P = c * P + P + k * P /\ k * P \in Nat
    BY <1>1, <2>1
  <2> QED BY <1>1, <1>2, <2>2
<1> QED
  BY <1>2, <1>3 DEF P

\* A position is a block and a slot.
LEMMA Position ==
    ASSUME NEW n \in Nat
    PROVE  /\ BlockOf(n) \in Nat /\ SlotOf(n) \in Slots
           /\ n = BlockOf(n) * PerBlock + SlotOf(n)
  BY PerBlockIs DEF BlockOf, SlotOf

\* Each block and slot is one position.
LEMMA PositionIsUnique ==
    ASSUME NEW n \in Nat, NEW b \in Nat, NEW s \in Slots, n = b * PerBlock + s
    PROVE  b = BlockOf(n) /\ s = SlotOf(n)
<1> DEFINE c == BlockOf(n)
           u == SlotOf(n)
<1>1. c \in Nat /\ u \in 0 .. PerBlock - 1 /\ n = c * PerBlock + u
  BY Position, PerBlockIs
<1>2. s \in 0 .. PerBlock - 1 /\ PerBlock \in Nat
  BY PerBlockIs
<1>3. /\ b * PerBlock \in Nat /\ c * PerBlock \in Nat
      /\ c < b => c * PerBlock + PerBlock <= b * PerBlock
      /\ b < c => b * PerBlock + PerBlock <= c * PerBlock
  BY <1>1, BlocksApart
<1> HIDE DEF c, u
<1>4. b = c
  BY <1>1, <1>2, <1>3
<1>5. s = u
  BY <1>1, <1>2, <1>3, <1>4
<1> QED
  BY <1>4, <1>5 DEF c, u

\* A row fits when there are fewer rows than the bound.
LEMMA PlaceExists ==
    ASSUME NEW n \in Nat, n < MaxRows
    PROVE  BlockOf(n) \in Blocks /\ SlotOf(n) \in Slots
<1> DEFINE b == BlockOf(n)
           B == MaxBlock + 1
<1>1. b \in Nat /\ SlotOf(n) \in Slots /\ n = b * PerBlock + SlotOf(n)
  BY Position
<1>2. n < B * PerBlock /\ B \in Nat /\ B * PerBlock \in Nat
  BY RowsAssumption, PoolAssumption DEF PerBlock
<1>3. B * PerBlock + PerBlock <= b * PerBlock \/ b <= B
  BY <1>1, <1>2, BlocksApart
<1>4. SlotOf(n) \in 0 .. PerBlock - 1 /\ PerBlock \in Nat /\ b * PerBlock \in Nat
  BY <1>1, PerBlockIs, BlocksApart
<1> HIDE DEF b, B
<1>5. b < B
  BY <1>1, <1>2, <1>3, <1>4
<1> QED
  BY <1>1, <1>5, PoolAssumption DEF Blocks, b, B

-------------------------------------------------------------------------------
(* What the operations do to the set of frames. *)

LEMMA BuffersFacts ==
    ASSUME PoolInv
    PROVE  /\ Buffers \subseteq Frames
           /\ \A f, g \in Buffers : f.table = g.table /\ f.block = g.block => f = g
           /\ \A t, b : Resident(t, b) <=> \E f \in Buffers : f.table = t /\ f.block = b
<1>1. Buffers \subseteq Frames
  BY DEF PoolInv, TypeOK, Buffers
<1>2. \A f, g \in Buffers : f.table = g.table /\ f.block = g.block => f = g
  BY DEF PoolInv, UniqueFrames, Buffers
<1>3. \A t, b : Resident(t, b) <=> \E f \in Buffers : f.table = t /\ f.block = b
  BY DEF Resident, Holds, Buffers
<1> QED
  BY <1>1, <1>2, <1>3

\* A hit only reorders the frames.
LEMMA HitBuffers ==
    ASSUME PoolInv, NEW t \in Tables, NEW b \in Blocks, GetHit(t, b)
    PROVE  Buffers' = Buffers
<1>1. PICK i \in DOMAIN pool : pool' = Append(RemoveAt(pool, i), pool[i])
  BY DEF GetHit
<1>2. pool \in Seq(Frames)
  BY DEF PoolInv, TypeOK
<1>3. /\ pool' \in Seq(Frames) /\ Len(pool') = Len(pool)
      /\ \A j \in DOMAIN pool : Source(i, j) \in DOMAIN pool /\ pool'[j] = pool[Source(i, j)]
  BY <1>1, <1>2, MoveToBack
<1>4. DOMAIN pool' = DOMAIN pool
  BY <1>2, <1>3
<1>5. \A k \in DOMAIN pool : \E j \in DOMAIN pool : Source(i, j) = k
  <2> SUFFICES ASSUME NEW k \in DOMAIN pool PROVE \E j \in DOMAIN pool : Source(i, j) = k
    OBVIOUS
  <2>1. i \in 1 .. Len(pool) /\ k \in 1 .. Len(pool) /\ Len(pool) \in Nat
        /\ DOMAIN pool = 1 .. Len(pool)
    BY <1>2
  <2>2. CASE k = i
    BY <2>1, <2>2 DEF Source
  <2>3. CASE k < i
    BY <2>1, <2>3 DEF Source
  <2>4. CASE k > i
    <3>1. k - 1 \in DOMAIN pool /\ Source(i, k - 1) = k
      BY <2>1, <2>4 DEF Source
    <3> QED BY <3>1
  <2> QED BY <2>1, <2>2, <2>3, <2>4
<1>6. Buffers' \subseteq Buffers
  BY <1>3, <1>4 DEF Buffers
<1>7. Buffers \subseteq Buffers'
  <2> SUFFICES ASSUME NEW k \in DOMAIN pool PROVE pool[k] \in Buffers'
    BY DEF Buffers
  <2>1. PICK j \in DOMAIN pool : Source(i, j) = k
    BY <1>5
  <2>2. pool[k] = pool'[j] /\ j \in DOMAIN pool'
    BY <1>3, <1>4, <2>1
  <2> QED BY <2>2 DEF Buffers
<1> QED
  BY <1>6, <1>7

LEMMA EnterBuffers ==
    ASSUME PoolInv, NEW f \in Frames, Enter(f)
    PROVE  Buffers' = Buffers \cup {f}
<1>1. pool \in Seq(Frames)
  BY DEF PoolInv, TypeOK
<1>2. /\ \A j \in DOMAIN pool : pool'[j] = pool[j]
      /\ pool'[Len(pool) + 1] = f
      /\ DOMAIN pool' = DOMAIN pool \cup {Len(pool) + 1}
  BY <1>1 DEF Enter
<1> QED
  BY <1>2 DEF Buffers

LEMMA ReplaceBuffers ==
    ASSUME PoolInv, NEW f \in Frames, ~HasRoom, Replace(f)
    PROVE  Buffers' = (Buffers \ {Head(pool)}) \cup {f} /\ Head(pool) \in Buffers
<1>1. pool \in Seq(Frames) /\ pool # <<>> /\ Head(pool) = pool[1] /\ 1 \in DOMAIN pool
  BY HeadIsFrame DEF PoolInv, TypeOK
<1>2. /\ Tail(pool) \in Seq(Frames) /\ Len(Tail(pool)) = Len(pool) - 1
      /\ \A j \in 1 .. Len(pool) - 1 : Tail(pool)[j] = pool[j + 1]
  BY <1>1, HeadTailProperties
<1>3. /\ DOMAIN pool' = 1 .. Len(pool) /\ DOMAIN pool = 1 .. Len(pool) /\ Len(pool) \in Nat
      /\ \A j \in 1 .. Len(pool) - 1 : pool'[j] = pool[j + 1]
      /\ pool'[Len(pool)] = f
  BY <1>1, <1>2 DEF Replace
<1>4. \A j \in 2 .. Len(pool) : pool[j] # pool[1]
  BY <1>1, <1>3 DEF PoolInv, UniqueFrames
<1>5. ASSUME NEW j \in DOMAIN pool' PROVE pool'[j] \in (Buffers \ {Head(pool)}) \cup {f}
  <2>1. CASE j = Len(pool)
    BY <1>3, <2>1
  <2>2. CASE j # Len(pool)
    <3>1. j \in 1 .. Len(pool) - 1 /\ j + 1 \in 2 .. Len(pool) /\ j + 1 \in DOMAIN pool
      BY <1>3, <2>2
    <3> QED BY <1>1, <1>3, <1>4, <3>1 DEF Buffers
  <2> QED BY <2>1, <2>2
<1>6. ASSUME NEW j \in DOMAIN pool, pool[j] # Head(pool) PROVE pool[j] \in Buffers'
  <2>1. j - 1 \in 1 .. Len(pool) - 1 /\ j - 1 \in DOMAIN pool' /\ (j - 1) + 1 = j
    BY <1>1, <1>3, <1>6
  <2> QED BY <1>3, <2>1 DEF Buffers
<1>7. f \in Buffers'
  BY <1>1, <1>3 DEF Buffers
<1>8. Head(pool) \in Buffers
  BY <1>1 DEF Buffers
<1> QED
  BY <1>5, <1>6, <1>7, <1>8 DEF Buffers

\* A write to a buffered block replaces its frame.
LEMMA WriteHitBuffers ==
    ASSUME PoolInv, NEW t \in Tables, NEW b \in Blocks, NEW s \in Slots, NEW r \in Recs,
           WriteHit(t, b, s, r)
    PROVE  \E g \in Buffers :
              /\ g.table = t /\ g.block = b
              /\ Buffers' = (Buffers \ {g}) \cup {Frame(t, b, Put(g.data, s, r))}
<1>1. PICK i \in DOMAIN pool :
         /\ pool[i].table = t /\ pool[i].block = b
         /\ pool' = ReplaceAt(pool, i, Frame(t, b, Put(pool[i].data, s, r)))
  BY DEF WriteHit, FirstHit, Holds
<1> DEFINE g == pool[i]
           f == Frame(t, b, Put(g.data, s, r))
<1>2. pool \in Seq(Frames) /\ g \in Buffers
  BY DEF PoolInv, TypeOK, Buffers
<1> HIDE DEF f
<1>3. /\ DOMAIN pool' = DOMAIN pool
      /\ pool'[i] = f
      /\ \A j \in DOMAIN pool \ {i} : pool'[j] = pool[j]
  BY <1>1, <1>2 DEF ReplaceAt, f
<1>4. \A j \in DOMAIN pool \ {i} : pool[j] # g
  BY DEF PoolInv, UniqueFrames
<1>5. Buffers' = (Buffers \ {g}) \cup {f}
  BY <1>3, <1>4 DEF Buffers
<1> QED
  BY <1>1, <1>2, <1>5 DEF f

-------------------------------------------------------------------------------
(* Rows and blocks. *)

LEMMA CountFacts ==
    ASSUME CountOK, NEW t \in Tables
    PROVE  N(t) \in Nat /\ (t \in Live => N(t) = count[t] /\ count[t] \in Nat)
  BY RowsAssumption DEF CountOK, N, Live

\* The blocks with rows are the first ones.
LEMMA RowsBelow ==
    ASSUME CountOK, NEW t \in Tables, NEW b \in Nat, NEW c \in Nat, c <= b, HasRows(t, b)
    PROVE  HasRows(t, c)
<1>1. N(t) \in Nat /\ b * PerBlock \in Nat /\ c * PerBlock \in Nat /\ b * PerBlock < N(t)
  BY CountFacts, BlocksApart DEF HasRows
<1>2. c = b \/ c * PerBlock + PerBlock <= b * PerBlock
  BY BlocksApart
<1>3. c * PerBlock <= b * PerBlock
  BY <1>1, <1>2, PerBlockIs
<1> QED
  BY <1>1, <1>3 DEF HasRows

\* A block without rows is right just when it is filling.
LEMMA EmptyBlock ==
    ASSUME CountOK, NEW t \in Tables, NEW b \in Blocks, ~HasRows(t, b)
    PROVE  /\ RightBlock(t, b, FillBlock)
           /\ \A d \in Contents : RightBlock(t, b, d) => d = FillBlock
<1>1. b \in Nat /\ N(t) \in Nat /\ b * PerBlock \in Nat /\ ~(b * PerBlock < N(t))
  BY CountFacts, BlocksApart, PoolAssumption DEF HasRows, Blocks
<1>2. \A s \in Slots : ~(b * PerBlock + s < N(t))
  BY <1>1, PerBlockIs
<1>3. RightBlock(t, b, FillBlock)
  BY <1>2 DEF RightBlock, FillBlock
<1>4. ASSUME NEW d \in Contents, RightBlock(t, b, d) PROVE d = FillBlock
  BY <1>2, <1>4 DEF RightBlock, FillBlock, Contents
<1> QED
  BY <1>3, <1>4

\* What the next row changes: its own block gets it, the other blocks stay right.
LEMMA RowsAfterInsert ==
    ASSUME CountOK, NEW t \in Live, count[t] < MaxRows,
           NEW b \in Blocks, b = BlockOf(count[t]), NEW s \in Slots, s = SlotOf(count[t]),
           count' = [count EXCEPT ![t] = @ + 1]
    PROVE  /\ \A u \in Tables, c \in Blocks : ~(u = t /\ c = b) =>
                 /\ HasRows(u, c)' <=> HasRows(u, c)
                 /\ \A d : RightBlock(u, c, d)' <=> RightBlock(u, c, d)
           /\ HasRows(t, b)'
           /\ \A d \in Contents, r \in Recs :
                 RightBlock(t, b, d) => RightBlock(t, b, Put(d, s, r))'
<1> DEFINE n == count[t]
<1>1. t \in Tables /\ n \in Nat /\ N(t) = n
  BY CountFacts DEF Live
<1>2. b \in Nat /\ n = b * PerBlock + s /\ b * PerBlock \in Nat /\ s \in Nat
  <2>1. b \in Nat /\ n = b * PerBlock + s
    BY <1>1, Position
  <2>2. b * PerBlock \in Nat /\ s \in Nat
    BY <2>1, BlocksApart, PerBlockIs
  <2> QED BY <2>1, <2>2
<1>3. /\ N(t)' = n + 1
      /\ \A u \in Tables : u # t => N(u)' = N(u)
  BY <1>1, RowsAssumption DEF N, CountOK
<1>4. 0 \in Slots /\ \A c \in Blocks : c \in Nat
  BY PerBlockIs, PoolAssumption DEF Blocks
<1> HIDE DEF n
<1>5. ASSUME NEW u \in Tables, NEW c \in Blocks, ~(u = t /\ c = b)
      PROVE  /\ HasRows(u, c)' <=> HasRows(u, c)
             /\ \A d : RightBlock(u, c, d)' <=> RightBlock(u, c, d)
  <2>1. CASE u # t
    BY <1>3, <2>1 DEF HasRows, RightBlock
  <2>2. CASE u = t
    <3>1. \A x \in Slots : c * PerBlock + x # n
      BY <1>1, <1>4, <1>5, <2>2, PositionIsUnique DEF n
    <3>2. c * PerBlock \in Nat /\ \A x \in Slots : x \in Nat /\ c * PerBlock + x \in Nat
      BY <1>4, BlocksApart, PerBlockIs
    <3>3. \A x \in Slots : (c * PerBlock + x < n + 1) <=> (c * PerBlock + x < n)
      BY <1>1, <3>1, <3>2
    <3>4. HasRows(u, c)' <=> HasRows(u, c)
      <4>1. (c * PerBlock < n + 1) <=> (c * PerBlock < n)
        BY <1>1, <1>4, <3>1, <3>2
      <4> QED BY <1>1, <1>3, <2>2, <4>1 DEF HasRows
    <3>5. ASSUME NEW d PROVE RightBlock(u, c, d)' <=> RightBlock(u, c, d)
      BY <1>1, <1>3, <2>2, <3>3 DEF RightBlock
    <3> QED BY <3>4, <3>5
  <2> QED BY <2>1, <2>2
<1>6. HasRows(t, b)'
  BY <1>1, <1>2, <1>3 DEF HasRows
<1>7. ASSUME NEW d \in Contents, NEW r \in Recs, RightBlock(t, b, d)
      PROVE  RightBlock(t, b, Put(d, s, r))'
  <2>1. Put(d, s, r)[s] = r /\ \A x \in Slots : x # s => Put(d, s, r)[x] = d[x]
    BY <1>2 DEF Put, Contents
  <2>2. ASSUME NEW x \in Slots
        PROVE  IF b * PerBlock + x < n + 1 THEN Put(d, s, r)[x] \in Recs
               ELSE Put(d, s, r)[x] = Fill
    <3>1. CASE x = s
      BY <1>1, <1>2, <2>1, <3>1
    <3>2. CASE x # s
      <4>1. (b * PerBlock + x < n + 1) <=> (b * PerBlock + x < n)
        <5>1. x \in Nat
          BY PerBlockIs
        <5> DEFINE m == b * PerBlock
        <5>2. m \in Nat /\ n = m + s /\ n \in Nat /\ s \in Nat
          BY <1>1, <1>2
        <5> HIDE DEF m
        <5>3. (m + x < n + 1) <=> (m + x < n)
          BY <3>2, <5>1, <5>2
        <5> QED BY <5>3 DEF m
      <4>2. IF b * PerBlock + x < n THEN d[x] \in Recs ELSE d[x] = Fill
        BY <1>1, <1>7 DEF RightBlock
      <4> QED BY <2>1, <3>2, <4>1, <4>2
    <3> QED BY <3>1, <3>2
  <2> QED BY <1>3, <2>2 DEF RightBlock
<1> QED
  BY <1>5, <1>6, <1>7

\* Where the number of rows stays, so does what is right.
LEMMA SameRows ==
    ASSUME UNCHANGED count
    PROVE  /\ CountOK => CountOK'
           /\ \A u, c : HasRows(u, c)' <=> HasRows(u, c)
           /\ \A u, c, d : RightBlock(u, c, d)' <=> RightBlock(u, c, d)
  BY DEF CountOK, HasRows, RightBlock, N

-------------------------------------------------------------------------------
(* Steps. *)

\* The file is right for a block after the step, with the rows before it.
FileNext(t, b) ==
    RightBlock(t, b, disk'[t][b]) /\ (b < size'[t] <=> HasRows(t, b))

OneOf(S, t, b) == \E f \in S : f.table = t /\ f.block = b

\* A victim's file is right for the victim's block, and for every other block
\* that stays outside the pool: the blocks it skips have rows, so they are in
\* frames.
LEMMA EvictNext ==
    ASSUME TableInv, ~HasRoom, WriteDisk(Head(pool)),
           NEW t \in Tables, NEW b \in Blocks, ~OneOf(Buffers \ {Head(pool)}, t, b)
    PROVE  FileNext(t, b)
<1> DEFINE v == Head(pool)
<1>1. v \in Frames /\ v \in Buffers
  BY HeadIsFrame DEF TableInv, Buffers
<1>2. v.table \in Tables /\ v.block \in Nat /\ v.block \in Blocks /\ b \in Nat
  BY <1>1, PoolAssumption DEF Frames, Blocks
<1>3. HasRows(v.table, v.block) /\ RightBlock(v.table, v.block, v.data)
  BY <1>1 DEF TableInv, FramesRight
<1>4. size \in [Tables -> Nat] /\ disk \in [Tables -> [Blocks -> Contents]]
  BY DEF TableInv, PoolInv, TypeOK
<1>5. /\ disk' = DiskAfter(v.table, v.block, v.data)
      /\ size' = SizeAfter(v.table, v.block)
  BY DEF WriteDisk
<1> HIDE DEF v
<1>6. /\ size'[v.table] = IF v.block < size[v.table] THEN size[v.table] ELSE v.block + 1
      /\ t # v.table => size'[t] = size[t] /\ disk'[t] = disk[t]
      /\ t = v.table => disk'[t][b] = IF b = v.block THEN v.data
                                      ELSE IF size[t] <= b /\ b < v.block THEN ZeroBlock
                                      ELSE disk[t][b]
  BY <1>2, <1>4, <1>5 DEF DiskAfter, SizeAfter
<1>7. CASE t = v.table /\ b = v.block
  BY <1>2, <1>3, <1>4, <1>6, <1>7 DEF FileNext
<1>8. CASE ~(t = v.table /\ b = v.block)
  <2>1. ~Resident(t, b)
    BY <1>8, BuffersFacts DEF OneOf, TableInv, v
  <2>2. RightBlock(t, b, disk[t][b]) /\ (b < size[t] <=> HasRows(t, b))
    BY <2>1 DEF TableInv, FilesRight, FileRight
  <2>3. CASE t # v.table
    BY <1>6, <2>2, <2>3 DEF FileNext
  <2>4. CASE t = v.table
    <3>1. b < v.block => HasRows(t, b)
      BY <1>2, <1>3, <2>4, RowsBelow DEF TableInv
    <3>2. b # v.block
      BY <1>8, <2>4
    <3>3. disk'[t][b] = disk[t][b]
      BY <1>2, <1>4, <1>6, <2>2, <2>4, <3>1, <3>2
    <3>4. size[t] \in Nat /\ size'[t] = IF v.block < size[t] THEN size[t] ELSE v.block + 1
      BY <1>4, <1>6, <2>4
    <3>5. b < size'[t] <=> b < size[t]
      BY <1>2, <2>2, <3>1, <3>2, <3>4
    <3> QED BY <2>2, <3>3, <3>5 DEF FileNext
  <2> QED BY <2>3, <2>4
<1> QED
  BY <1>7, <1>8

LEMMA StayNext ==
    ASSUME TableInv, UNCHANGED files,
           NEW t \in Tables, NEW b \in Blocks, ~OneOf(Buffers, t, b)
    PROVE  FileNext(t, b)
<1>1. FileRight(t, b)
  BY BuffersFacts DEF TableInv, FilesRight, OneOf
<1> QED
  BY <1>1 DEF FileRight, FileNext, files

\* A right frame takes its place in the pool, among frames that were there.
LEMMA NewFrame ==
    ASSUME TableInv, PoolInv', NEW S \in SUBSET Buffers,
           NEW t \in Tables, NEW b \in Blocks, NEW d,
           ~OneOf(S, t, b), Buffers' = S \cup {Frame(t, b, d)},
           \A u \in Tables, c \in Blocks : ~(u = t /\ c = b) =>
              /\ HasRows(u, c)' <=> HasRows(u, c)
              /\ \A e : RightBlock(u, c, e)' <=> RightBlock(u, c, e),
           HasRows(t, b)', RightBlock(t, b, d)',
           \A u \in Tables, c \in Blocks :
              ~OneOf(S, u, c) /\ ~(u = t /\ c = b) => FileNext(u, c)
    PROVE  FramesRight' /\ FilesRight'
<1> DEFINE g == Frame(t, b, d)
<1>1. g.table = t /\ g.block = b /\ g.data = d
  BY DEF Frame
<1> HIDE DEF g
<1>2. ASSUME NEW f \in Buffers'
      PROVE  HasRows(f.table, f.block)' /\ RightBlock(f.table, f.block, f.data)'
  <2>1. CASE f = g
    BY <1>1, <2>1
  <2>2. CASE f \in S
    <3>1. HasRows(f.table, f.block) /\ RightBlock(f.table, f.block, f.data)
      BY <2>2 DEF TableInv, FramesRight
    <3>2. f.table \in Tables /\ f.block \in Blocks
      BY <2>2, BuffersFacts DEF TableInv, Frames
    <3>3. ~(f.table = t /\ f.block = b)
      BY <2>2 DEF OneOf
    <3> QED BY <3>1, <3>2, <3>3
  <2> QED BY <2>1, <2>2 DEF g
<1>3. FramesRight'
  BY <1>2 DEF FramesRight
<1>4. ASSUME NEW u \in Tables, NEW c \in Blocks, ~Resident(u, c)'
      PROVE  FileRight(u, c)'
  <2>1. ~(\E f \in Buffers' : f.table = u /\ f.block = c)
    BY <1>4 DEF Resident, Holds, Buffers
  <2>2. ~OneOf(S, u, c) /\ ~(u = t /\ c = b)
    BY <1>1, <2>1 DEF OneOf, g
  <2>3. FileNext(u, c)
    BY <2>2
  <2> QED BY <2>2, <2>3 DEF FileNext, FileRight
<1>5. FilesRight'
  BY <1>4 DEF FilesRight
<1> QED
  BY <1>3, <1>5

\* A block with rows is read: what get_buf_block brings in is right, and so is
\* what it writes back.
LEMMA GetRight ==
    ASSUME TableInv, NEW t \in Tables, NEW b \in Blocks, HasRows(t, b),
           Get(t, b), UNCHANGED count
    PROVE  TableInv'
<1>1. PoolInv'
  BY GetKeeps DEF TableInv
<1>2. /\ CountOK'
      /\ \A u, c : HasRows(u, c)' <=> HasRows(u, c)
      /\ \A u, c, d : RightBlock(u, c, d)' <=> RightBlock(u, c, d)
  BY SameRows DEF TableInv
<1>3. CASE GetHit(t, b)
  <2>1. Buffers' = Buffers /\ UNCHANGED files
    BY <1>3, HitBuffers DEF TableInv, GetHit
  <2>2. FramesRight'
    BY <1>2, <2>1 DEF FramesRight, TableInv
  <2>3. ASSUME NEW u \in Tables, NEW c \in Blocks, ~Resident(u, c)' PROVE FileRight(u, c)'
    <3>1. ~(\E f \in Buffers' : f.table = u /\ f.block = c)
      BY <2>3 DEF Resident, Holds, Buffers
    <3>2. ~OneOf(Buffers, u, c)
      BY <2>1, <3>1 DEF OneOf
    <3>3. FileNext(u, c)
      BY <2>1, <3>2, StayNext
    <3> QED BY <1>2, <3>3 DEF FileNext, FileRight
  <2>4. FilesRight'
    BY <2>3 DEF FilesRight
  <2> QED BY <1>1, <1>2, <2>2, <2>4 DEF TableInv
<1>4. CASE GetRoom(t, b)
  <2>1. ~OneOf(Buffers, t, b) /\ UNCHANGED files /\ Enter(Frame(t, b, disk[t][b]))
    BY <1>4, BuffersFacts DEF GetRoom, OneOf, TableInv
  <2>2. RightBlock(t, b, disk[t][b])
    BY <1>4 DEF GetRoom, TableInv, FilesRight, FileRight
  <2>3. Frame(t, b, disk[t][b]) \in Frames
    BY DEF TableInv, PoolInv, TypeOK, Frame, Frames
  <2> DEFINE d == disk[t][b]
  <2>4. Buffers' = Buffers \cup {Frame(t, b, d)}
    BY <2>1, <2>3, EnterBuffers DEF TableInv
  <2>5. PICK e : e = d
    OBVIOUS
  <2> HIDE DEF d
  <2>6. RightBlock(t, b, e)' /\ HasRows(t, b)' /\ Buffers' = Buffers \cup {Frame(t, b, e)}
    BY <1>2, <2>2, <2>4, <2>5 DEF d
  <2>7. \A u \in Tables, c \in Blocks : ~OneOf(Buffers, u, c) => FileNext(u, c)
    BY <2>1, StayNext
  <2>8. FramesRight' /\ FilesRight'
    BY <1>1, <1>2, <2>1, <2>6, <2>7, NewFrame
  <2> QED BY <1>1, <1>2, <2>8 DEF TableInv
<1>5. CASE GetEvict(t, b)
  <2> DEFINE S == Buffers \ {Head(pool)}
  <2>1. /\ ~OneOf(Buffers, t, b) /\ ~HasRoom /\ WriteDisk(Head(pool))
        /\ Replace(Frame(t, b, disk'[t][b]))
    BY <1>5, BuffersFacts DEF GetEvict, OneOf, TableInv
  <2>2. \A u \in Tables, c \in Blocks : ~OneOf(S, u, c) => FileNext(u, c)
    BY <2>1, EvictNext
  <2>3. ~OneOf(S, t, b)
    BY <2>1 DEF OneOf
  <2>4. PICK e : e = disk'[t][b]
    OBVIOUS
  <2>5. Frame(t, b, e) \in Frames
    BY <1>1, <2>4 DEF PoolInv, TypeOK, Frame, Frames
  <2>6. Buffers' = S \cup {Frame(t, b, e)}
    BY <2>1, <2>4, <2>5, ReplaceBuffers DEF TableInv
  <2>7. RightBlock(t, b, e)' /\ HasRows(t, b)'
    BY <1>2, <2>2, <2>3, <2>4 DEF FileNext
  <2>8. S \in SUBSET Buffers
    OBVIOUS
  <2> HIDE DEF S
  <2>9. FramesRight' /\ FilesRight'
    BY <1>1, <1>2, <2>2, <2>3, <2>6, <2>7, <2>8, NewFrame
  <2> QED BY <1>1, <1>2, <2>9 DEF TableInv
<1> QED
  BY <1>3, <1>4, <1>5 DEF Get

\* The next row of a table is written: at the first byte of a block without
\* rows, which is nowhere and right as filling, and elsewhere into the right
\* block, wherever it is.
LEMMA InsertRight ==
    ASSUME TableInv, NEW t \in Tables, NEW r \in Recs, InsertRow(t, r)
    PROVE  TableInv'
<1>1. /\ t \in Live /\ count[t] \in Nat /\ N(t) = count[t] /\ count[t] < MaxRows
      /\ count' = [count EXCEPT ![t] = @ + 1]
  BY CountFacts DEF InsertRow, TableInv
<1>2. PICK b \in Blocks, s \in Slots : b = BlockOf(count[t]) /\ s = SlotOf(count[t])
  BY <1>1, PlaceExists
<1>3. Write(t, b, s, r)
  BY <1>2 DEF InsertRow
<1>4. PoolInv'
  BY <1>3, WriteKeeps DEF TableInv
<1>5. CountOK'
  BY <1>1, RowsAssumption DEF TableInv, CountOK
<1>6. /\ \A u \in Tables, c \in Blocks : ~(u = t /\ c = b) =>
            /\ HasRows(u, c)' <=> HasRows(u, c)
            /\ \A d : RightBlock(u, c, d)' <=> RightBlock(u, c, d)
      /\ HasRows(t, b)'
      /\ \A d \in Contents : RightBlock(t, b, d) => RightBlock(t, b, Put(d, s, r))'
  BY <1>1, <1>2, RowsAfterInsert DEF TableInv
<1>7. s = 0 => ~HasRows(t, b) /\ ~Resident(t, b)
  <2>1. s = 0 => ~HasRows(t, b)
    <3>1. count[t] = b * PerBlock + s
      BY <1>1, <1>2, Position
    <3>2. b * PerBlock \in Nat
      BY <1>1, <1>2, Position, BlocksApart
    <3>3. s = 0 => b * PerBlock = count[t]
      BY <3>1, <3>2
    <3> QED BY <1>1, <3>2, <3>3 DEF HasRows
  <2>2. Resident(t, b) => HasRows(t, b)
    BY BuffersFacts DEF TableInv, FramesRight
  <2> QED BY <2>1, <2>2
<1>8. s = 0 => RightBlock(t, b, FillBlock)
  BY <1>7, EmptyBlock DEF TableInv
<1>9. ASSUME NEW S \in SUBSET Buffers, NEW d \in Contents, RightBlock(t, b, d),
             ~OneOf(S, t, b), Buffers' = S \cup {Frame(t, b, Put(d, s, r))},
             \A u \in Tables, c \in Blocks :
                ~OneOf(S, u, c) /\ ~(u = t /\ c = b) => FileNext(u, c)
      PROVE  TableInv'
  <2>1. PICK e : e = Put(d, s, r)
    OBVIOUS
  <2>2. RightBlock(t, b, e)' /\ Buffers' = S \cup {Frame(t, b, e)}
    BY <1>6, <1>9, <2>1
  <2>3. FramesRight' /\ FilesRight'
    BY <1>4, <1>6, <1>9, <2>2, NewFrame
  <2> QED BY <1>4, <1>5, <2>3 DEF TableInv
<1>10. disk \in [Tables -> [Blocks -> Contents]] /\ disk' \in [Tables -> [Blocks -> Contents]]
  BY <1>4 DEF TableInv, PoolInv, TypeOK
<1>11. ASSUME NEW d \in Contents, RightBlock(t, b, d), ~Resident(t, b), UNCHANGED files,
              Enter(Frame(t, b, Put(d, s, r)))
       PROVE  TableInv'
  <2>1. Frame(t, b, Put(d, s, r)) \in Frames
    BY PutIsContents DEF Frame, Frames
  <2>2. Buffers' = Buffers \cup {Frame(t, b, Put(d, s, r))}
    BY <1>11, <2>1, EnterBuffers DEF TableInv
  <2>3. ~OneOf(Buffers, t, b)
    BY <1>11, BuffersFacts DEF OneOf, TableInv
  <2>4. \A u \in Tables, c \in Blocks : ~OneOf(Buffers, u, c) => FileNext(u, c)
    BY <1>11, StayNext
  <2> QED BY <1>9, <1>11, <2>2, <2>3, <2>4
<1>12. CASE WriteFirst(t, b, s, r)
  <2> DEFINE d == IF b = 0 /\ s = 0 THEN FillBlock ELSE disk[t][b]
  <2>1. ~Resident(t, b)
    <3>1. pool \in Seq(Frames) /\ Len(pool) = 0
      BY <1>12 DEF WriteFirst, TableInv, PoolInv, TypeOK, PoolBound
    <3> QED BY <3>1 DEF Resident
  <2>2. d \in Contents /\ RightBlock(t, b, d)
    BY <1>8, <1>10, <2>1, FillIsContents DEF TableInv, FilesRight, FileRight
  <2>3. Enter(Frame(t, b, Put(d, s, r))) /\ UNCHANGED files
    BY <1>12 DEF WriteFirst
  <2> HIDE DEF d
  <2> QED BY <1>11, <2>1, <2>2, <2>3
<1>13. CASE WriteHit(t, b, s, r)
  <2>1. PICK g \in Buffers :
           /\ g.table = t /\ g.block = b
           /\ Buffers' = (Buffers \ {g}) \cup {Frame(t, b, Put(g.data, s, r))}
    BY <1>13, WriteHitBuffers DEF TableInv
  <2> DEFINE S == Buffers \ {g}
  <2>2. g.data \in Contents /\ RightBlock(t, b, g.data)
    BY <2>1, BuffersFacts DEF TableInv, FramesRight, Frames
  <2>3. ~OneOf(S, t, b)
    BY <2>1, BuffersFacts DEF OneOf, TableInv
  <2>4. UNCHANGED files
    BY <1>13 DEF WriteHit
  <2>5. ASSUME NEW u \in Tables, NEW c \in Blocks, ~OneOf(S, u, c), ~(u = t /\ c = b)
        PROVE  FileNext(u, c)
    <3>1. ~OneOf(Buffers, u, c)
      BY <2>1, <2>5 DEF OneOf
    <3> QED BY <2>4, <3>1, StayNext
  <2>6. S \in SUBSET Buffers /\ Buffers' = S \cup {Frame(t, b, Put(g.data, s, r))}
    BY <2>1
  <2> HIDE DEF S
  <2> QED BY <1>9, <2>2, <2>3, <2>5, <2>6
<1>14. CASE WriteRoom(t, b, s, r)
  <2> DEFINE d == IF s = 0 THEN FillBlock ELSE disk[t][b]
  <2>1. ~Resident(t, b) /\ Enter(Frame(t, b, Put(d, s, r))) /\ UNCHANGED files
    BY <1>14 DEF WriteRoom
  <2>2. d \in Contents /\ RightBlock(t, b, d)
    BY <1>8, <1>10, <2>1, FillIsContents DEF TableInv, FilesRight, FileRight
  <2> HIDE DEF d
  <2> QED BY <1>11, <2>1, <2>2
<1>15. CASE WriteEvict(t, b, s, r)
  <2> DEFINE d == IF s = 0 THEN FillBlock ELSE disk'[t][b]
             S == Buffers \ {Head(pool)}
  <2>1. /\ ~Resident(t, b) /\ ~HasRoom /\ WriteDisk(Head(pool))
        /\ Replace(Frame(t, b, Put(d, s, r)))
    BY <1>15 DEF WriteEvict
  <2>2. \A u \in Tables, c \in Blocks : ~OneOf(S, u, c) => FileNext(u, c)
    BY <2>1, EvictNext
  <2>3. ~OneOf(S, t, b)
    BY <2>1, BuffersFacts DEF OneOf, TableInv
  <2>4. d \in Contents /\ RightBlock(t, b, d)
    BY <1>8, <1>10, <2>2, <2>3, FillIsContents DEF FileNext
  <2>5. S \in SUBSET Buffers
    OBVIOUS
  <2> HIDE DEF d
  <2>6. Frame(t, b, Put(d, s, r)) \in Frames
    BY <2>4, PutIsContents DEF Frame, Frames
  <2>7. Buffers' = S \cup {Frame(t, b, Put(d, s, r))}
    BY <2>1, <2>6, ReplaceBuffers DEF TableInv
  <2> HIDE DEF S
  <2>8. PICK e \in Contents : e = d
    BY <2>4
  <2> QED BY <1>9, <2>2, <2>3, <2>4, <2>5, <2>7, <2>8
<1> QED
  BY <1>3, <1>12, <1>13, <1>14, <1>15 DEF Write

-------------------------------------------------------------------------------
(* COMMIT and EXIT *)

\* After a commit of the tables the catalog knows, every file is right: a block
\* is in its file or in a frame, and there is no hole that no frame fills.
LEMMA CommitNext ==
    ASSUME TableInv, CommitFiles(Live), NEW t \in Tables, NEW b \in Blocks
    PROVE  FileNext(t, b)
<1>1. /\ size \in [Tables -> Nat] /\ b \in Nat /\ N(t) \in Nat
      /\ pool \in Seq(Frames)
  BY CountFacts, PoolAssumption DEF TableInv, PoolInv, TypeOK, Blocks
<1>2. \A i \in DOMAIN pool : /\ pool[i].table \in Tables /\ pool[i].block \in Nat
                             /\ HasRows(pool[i].table, pool[i].block)
                             /\ RightBlock(pool[i].table, pool[i].block, pool[i].data)
  <2>1. \A i \in DOMAIN pool : pool[i] \in Frames /\ pool[i] \in Buffers
    BY <1>1 DEF Buffers
  <2> QED BY <2>1, PoolAssumption DEF Frames, Blocks, TableInv, FramesRight
<1>3. CASE t \notin Live
  <2>1. N(t) = 0
    BY <1>3 DEF N, Live
  <2>2. ~HasRows(t, b)
    BY <1>1, <2>1, BlocksApart DEF HasRows
  <2>3. ~Resident(t, b)
    BY <1>2, <2>2 DEF Resident, Holds
  <2>4. FileRight(t, b)
    BY <2>3 DEF TableInv, FilesRight
  <2>5. disk'[t] = disk[t] /\ size'[t] = size[t]
    BY <1>3 DEF CommitFiles
  <2> QED BY <2>4, <2>5 DEF FileRight, FileNext
<1>4. CASE t \in Live
  <2>1. disk'[t][b] = Committed(t, b) /\ size'[t] = CommittedSize(t)
    BY <1>4 DEF CommitFiles
  <2>2. /\ CommittedSize(t) \in Nat
        /\ size[t] <= CommittedSize(t)
        /\ \A i \in DOMAIN pool : pool[i].table = t => pool[i].block < CommittedSize(t)
        /\ \/ CommittedSize(t) = size[t]
           \/ \E i \in DOMAIN pool : pool[i].table = t /\ CommittedSize(t) = pool[i].block + 1
    BY CommittedSizeFacts DEF TableInv
  <2>3. CASE Resident(t, b)
    <3>1. PICK i \in DOMAIN pool : Holds(i, t, b)
      BY <2>3 DEF Resident
    <3>2. Buffered(t, b) = pool[i].data
      BY <1>1, <3>1, TheFrame DEF TableInv, PoolInv
    <3>3. disk'[t][b] = pool[i].data
      BY <2>1, <2>3, <3>2 DEF Committed
    <3>4. RightBlock(t, b, pool[i].data) /\ HasRows(t, b) /\ b < CommittedSize(t)
      BY <1>2, <2>2, <3>1 DEF Holds
    <3> QED BY <2>1, <3>3, <3>4 DEF FileNext
  <2>4. CASE ~Resident(t, b)
    <3>1. RightBlock(t, b, disk[t][b]) /\ (b < size[t] <=> HasRows(t, b))
      BY <2>4 DEF TableInv, FilesRight, FileRight
    <3>2. \A i \in DOMAIN pool : pool[i].table = t /\ b <= pool[i].block => HasRows(t, b)
      BY <1>1, <1>2, RowsBelow DEF TableInv
    <3>3. Reaches(t, b) => HasRows(t, b)
      BY <1>1, <1>2, <3>2 DEF Reaches
    <3>4. size[t] \in Nat
      BY <1>1
    <3>5. ~(size[t] <= b /\ Reaches(t, b))
      BY <1>1, <3>1, <3>3, <3>4
    <3>6. Committed(t, b) = disk[t][b]
      BY <2>4, <3>5 DEF Committed
    <3>7. b < CommittedSize(t) => HasRows(t, b)
      <4>1. CASE CommittedSize(t) = size[t]
        BY <3>1, <4>1
      <4>2. ASSUME NEW i \in DOMAIN pool, pool[i].table = t,
                   CommittedSize(t) = pool[i].block + 1
            PROVE  b < CommittedSize(t) => HasRows(t, b)
        BY <1>1, <1>2, <3>2, <4>2
      <4> QED BY <2>2, <4>1, <4>2
    <3>8. b < size[t] => b < CommittedSize(t)
      BY <1>1, <2>2, <3>4
    <3> QED BY <2>1, <3>1, <3>6, <3>7, <3>8 DEF FileNext
  <2> QED BY <2>3, <2>4
<1> QED
  BY <1>3, <1>4

\* Wherever the pool goes, right files stay right without it.
LEMMA CommitRight ==
    ASSUME TableInv, CommitFiles(Live), UNCHANGED count, PoolInv',
           Buffers' \subseteq Buffers
    PROVE  TableInv'
<1>1. /\ CountOK'
      /\ \A u, c : HasRows(u, c)' <=> HasRows(u, c)
      /\ \A u, c, d : RightBlock(u, c, d)' <=> RightBlock(u, c, d)
  BY SameRows DEF TableInv
<1>2. FramesRight'
  BY <1>1 DEF FramesRight, TableInv
<1>3. FilesRight'
  BY <1>1, CommitNext DEF FilesRight, FileRight, FileNext
<1> QED
  BY <1>1, <1>2, <1>3 DEF TableInv

-------------------------------------------------------------------------------
(* The invariant. *)

LEMMA TableInitInv == TableInit => TableInv
<1> SUFFICES ASSUME TableInit PROVE TableInv
  OBVIOUS
<1>1. PoolInv
  BY InitInv DEF TableInit
<1>2. CountOK /\ \A t \in Tables : N(t) = 0
  BY DEF TableInit, CountOK, N
<1>3. FramesRight
  BY DEF TableInit, Init, FramesRight, Buffers
<1>4. ASSUME NEW t \in Tables, NEW b \in Blocks PROVE FileRight(t, b)
  <2>1. b \in Nat /\ b * PerBlock \in Nat
    BY BlocksApart, PoolAssumption DEF Blocks
  <2>2. ~HasRows(t, b)
    BY <1>2, <2>1 DEF HasRows
  <2>3. disk[t][b] = FillBlock /\ size[t] = 0
    BY DEF TableInit, Init
  <2> QED BY <1>2, <2>1, <2>2, <2>3, EmptyBlock DEF FileRight
<1> QED
  BY <1>1, <1>2, <1>3, <1>4 DEF TableInv, FilesRight

LEMMA TableStep == TableInv /\ [Work]_tableVars => TableInv'
<1> SUFFICES ASSUME TableInv, [Work]_tableVars PROVE TableInv'
  OBVIOUS
<1>1. ASSUME NEW t \in Tables, Create(t) PROVE TableInv'
  <2>1. /\ UNCHANGED vars /\ CountOK'
        /\ \A u \in Tables : N(u)' = N(u)
    BY <1>1, RowsAssumption DEF Create, TableInv, CountOK, N, Live
  <2>2. UNCHANGED <<pool, inUse, disk, size>>
    BY <2>1 DEF vars
  <2>3. PoolInv' /\ Buffers' = Buffers /\ \A u, c : Resident(u, c)' <=> Resident(u, c)
    BY <2>2 DEF TableInv, PoolInv, TypeOK, UniqueFrames, PoolBound, Buffers, Resident, Holds
  <2>4. /\ \A u \in Tables : \A c : HasRows(u, c)' <=> HasRows(u, c)
        /\ \A u \in Tables : \A c, d : RightBlock(u, c, d)' <=> RightBlock(u, c, d)
    BY <2>1 DEF HasRows, RightBlock
  <2>5. \A f \in Buffers : f.table \in Tables
    BY BuffersFacts DEF TableInv, Frames
  <2>6. FramesRight'
    BY <2>3, <2>4, <2>5 DEF FramesRight, TableInv
  <2>7. FilesRight'
    BY <2>2, <2>3, <2>4 DEF FilesRight, FileRight, TableInv
  <2> QED BY <2>1, <2>3, <2>6, <2>7 DEF TableInv
<1>2. ASSUME NEW t \in Tables, NEW b \in Blocks, ReadBlock(t, b) PROVE TableInv'
  <2>1. count[t] \in Nat /\ count[t] > 0 /\ N(t) = count[t] /\ b \in Nat
    BY <1>2, CountFacts, PoolAssumption DEF ReadBlock, TableInv, Blocks
  <2> DEFINE m == count[t] - 1
             k == BlockOf(m)
  <2>2. m \in Nat /\ b <= k
    BY <1>2, <2>1 DEF ReadBlock
  <2>3. k \in Nat /\ SlotOf(m) \in Nat /\ m = k * PerBlock + SlotOf(m)
    <3>1. k \in Nat /\ SlotOf(m) \in Slots /\ m = k * PerBlock + SlotOf(m)
      BY <2>2, Position
    <3>2. \A x \in Slots : x \in Nat
      BY PerBlockIs
    <3> QED BY <3>1, <3>2
  <2> HIDE DEF k
  <2>4. k * PerBlock \in Nat
    BY <2>3, BlocksApart
  <2>5. HasRows(t, k)
    BY <2>1, <2>2, <2>3, <2>4 DEF HasRows
  <2>6. HasRows(t, b)
    BY <2>1, <2>2, <2>3, <2>5, RowsBelow DEF TableInv
  <2> QED BY <1>2, <2>6, GetRight DEF ReadBlock
<1>3. ASSUME NEW t \in Tables, NEW r \in Recs, InsertRow(t, r) PROVE TableInv'
  BY <1>3, InsertRight
<1>4. Live \in SUBSET Tables
  BY DEF Live
<1>5. CASE CommitTables
  <2>1. PoolInv' /\ UNCHANGED count /\ CommitFiles(Live) /\ pool' = pool
    BY <1>4, <1>5, CommitKeeps DEF CommitTables, Commit, TableInv
  <2>2. Buffers' \subseteq Buffers
    BY <2>1 DEF Buffers
  <2> QED BY <2>1, <2>2, CommitRight
<1>6. CASE NextSession
  <2>1. pool' = <<>> /\ inUse' = 0 /\ UNCHANGED count /\ CommitFiles(Live)
    BY <1>6 DEF NextSession
  <2>2. disk' \in [Tables -> [Blocks -> Contents]] /\ size' \in [Tables -> Nat]
    BY <1>4, <2>1, CommitFilesTyped DEF TableInv
  <2>3. pool' \in Seq(Frames) /\ Len(pool') = 0 /\ DOMAIN pool' = {}
    BY <2>1
  <2>4. PoolInv'
    BY <2>1, <2>2, <2>3, PoolAssumption DEF PoolInv, TypeOK, UniqueFrames, PoolBound
  <2>5. Buffers' \subseteq Buffers
    BY <2>3 DEF Buffers
  <2> QED BY <2>1, <2>4, <2>5, CommitRight
<1>7. CASE UNCHANGED tableVars
  <2>1. UNCHANGED <<pool, inUse, disk, size, count>>
    BY <1>7 DEF tableVars, vars
  <2>2. PoolInv'
    BY <2>1 DEF TableInv, PoolInv, TypeOK, UniqueFrames, PoolBound
  <2>3. CountOK' /\ FramesRight'
    BY <2>1 DEF TableInv, CountOK, FramesRight, Buffers, HasRows, RightBlock, N
  <2>4. FilesRight'
    BY <2>1 DEF TableInv, FilesRight, FileRight, Resident, Holds, HasRows, RightBlock, N
  <2> QED BY <2>2, <2>3, <2>4 DEF TableInv
<1> QED
  BY <1>1, <1>2, <1>3, <1>5, <1>6, <1>7 DEF Work

LEMMA TableInvariant == TableSpec => []TableInv
  BY TableInitInv, TableStep, PTL DEF TableSpec

\* Whatever was inserted, read, evicted, committed and restarted, a scan meets
\* the rows of a table and then filling: no hole and no lost row.
THEOREM ScansMeetRows == TableSpec => []BlocksAreRows
<1>1. TableInv => BlocksAreRows
  <2> SUFFICES ASSUME TableInv, NEW t \in Live, NEW b \in Blocks, NEW s \in Slots
      PROVE  /\ b * PerBlock + s < count[t] => Raw(t, b)[s] \in Recs
             /\ /\ b * PerBlock <= count[t] - 1
                /\ b * PerBlock + s >= count[t]
                => Raw(t, b)[s] = Fill
    BY DEF BlocksAreRows
  <2>1. t \in Tables /\ count[t] \in Nat /\ N(t) = count[t]
    BY CountFacts DEF TableInv, Live
  <2>2. RightBlock(t, b, Raw(t, b))
    <3>1. CASE Resident(t, b)
      <4>1. PICK i \in DOMAIN pool : Holds(i, t, b)
        BY <3>1 DEF Resident
      <4>2. pool \in Seq(Frames) /\ pool[i] \in Buffers
        BY DEF TableInv, PoolInv, TypeOK, Buffers
      <4>3. Raw(t, b) = pool[i].data
        BY <3>1, <4>1, <4>2, TheFrame DEF TableInv, PoolInv, Raw
      <4> QED BY <4>1, <4>2, <4>3 DEF TableInv, FramesRight, Holds
    <3>2. CASE ~Resident(t, b)
      BY <2>1, <3>2 DEF Raw, TableInv, FilesRight, FileRight
    <3> QED BY <3>1, <3>2
  <2>3. b * PerBlock + s \in Nat
    BY BlocksApart, PerBlockIs, PoolAssumption DEF Blocks
  <2> QED BY <2>1, <2>2, <2>3 DEF RightBlock
<1> QED
  BY <1>1, TableInvariant, PTL

\* "inBufSize==0 means needs a new block" is true of every table that is not
\* dropped: no frame and no file has anything for the block a row begins.
THEOREM NewBlocksAreNew == TableSpec => FirstByteIsNewBlock
<1>1. ASSUME TableInv, NEW t \in Tables, NEW r \in Recs,
             InsertRow(t, r), SlotOf(count[t]) = 0
      PROVE  \E i \in DOMAIN pool' :
                /\ pool'[i].table = t /\ pool'[i].block = BlockOf(count[t])
                /\ pool'[i].data = Put(FillBlock, 0, r)
  <2>1. count[t] \in Nat /\ N(t) = count[t] /\ count[t] < MaxRows
    BY <1>1, CountFacts DEF InsertRow, TableInv
  <2>2. PICK b \in Blocks : b = BlockOf(count[t]) /\ 0 \in Slots
    BY <1>1, <2>1, PlaceExists
  <2>3. Write(t, b, 0, r)
    BY <1>1, <2>2 DEF InsertRow
  <2>4. ~HasRows(t, b)
    <3>1. count[t] = b * PerBlock + 0 /\ b \in Nat
      BY <1>1, <2>1, <2>2, Position
    <3>2. b * PerBlock \in Nat
      BY <3>1, BlocksApart
    <3> QED BY <2>1, <3>1, <3>2 DEF HasRows
  <2>5. ~Resident(t, b)
    BY <1>1, <2>4, BuffersFacts DEF TableInv, FramesRight
  <2>6. disk[t][b] = FillBlock
    <3>1. RightBlock(t, b, disk[t][b]) /\ disk[t][b] \in Contents
      BY <1>1, <2>5 DEF TableInv, FilesRight, FileRight, PoolInv, TypeOK
    <3> QED BY <1>1, <2>4, <3>1, EmptyBlock DEF TableInv
  <2> DEFINE f == Frame(t, b, Put(FillBlock, 0, r))
  <2>7. f \in Frames
    BY <2>2, FillIsContents, PutIsContents DEF Frame, Frames
  <2>8. f \in Buffers'
    <3> HIDE DEF f
    <3>1. CASE Enter(f)
      BY <1>1, <2>7, <3>1, EnterBuffers DEF TableInv
    <3>2. CASE ~HasRoom /\ Replace(f)
      BY <1>1, <2>7, <3>2, ReplaceBuffers DEF TableInv
    <3>3. CASE WriteFirst(t, b, 0, r)
      BY <2>6, <3>1, <3>3 DEF WriteFirst, f
    <3>4. CASE WriteHit(t, b, 0, r)
      BY <2>5, <3>4 DEF WriteHit, FirstHit, Resident
    <3>5. CASE WriteRoom(t, b, 0, r)
      BY <3>1, <3>5 DEF WriteRoom, f
    <3>6. CASE WriteEvict(t, b, 0, r)
      BY <3>2, <3>6 DEF WriteEvict, f
    <3> QED BY <2>3, <3>3, <3>4, <3>5, <3>6 DEF Write
  <2>9. f.table = t /\ f.block = b /\ f.data = Put(FillBlock, 0, r)
    BY DEF Frame
  <2> HIDE DEF f
  <2> QED BY <2>2, <2>8, <2>9 DEF Buffers
<1>2. TableInv => [\A t \in Tables, r \in Recs :
          InsertRow(t, r) /\ SlotOf(count[t]) = 0 =>
            \E i \in DOMAIN pool' :
               /\ pool'[i].table = t /\ pool'[i].block = BlockOf(count[t])
               /\ pool'[i].data = Put(FillBlock, 0, r)]_tableVars
  BY <1>1
<1> QED
  BY <1>2, TableInvariant, PTL DEF FirstByteIsNewBlock

===============================================================================
