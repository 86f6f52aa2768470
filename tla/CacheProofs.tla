---------------------------- MODULE CacheProofs -----------------------------
(***************************************************************************)
(* Proofs about Cache for any sets, tags, numbers of blocks and accesses:  *)
(* the index and the dirty flags, the refinement of AbstractCache, and     *)
(* what the cycles are made of.                                            *)
(***************************************************************************)
EXTENDS CacheProps, CommonLemmas, FiniteSetTheorems

CacheInv == TypeOK /\ IndexAgrees /\ DirtyBlocks
-----------------------------------------------------------------------------
(* Victim *)

\* A miss replaces one of the blocks of the set, an invalid one if there is
\* any, else one with a smallest timestamp.
LEMMA VictimInWay ==
  ASSUME CacheInv, NEW s \in SetIndex
  PROVE  /\ Victim(s) \in Way
         /\ (\E i \in Way : ~blocks[s][i].valid)
              => ~blocks[s][Victim(s)].valid
         /\ (\A i \in Way : blocks[s][i].valid)
              => \A j \in Way :
                   blocks[s][Victim(s)].timeStamp <= blocks[s][j].timeStamp
<1> DEFINE b == blocks[s]
           free == {i \in Way : ~b[i].valid}
           stamps == {b[i].timeStamp : i \in Way}
<1>1. /\ Way \subseteq Nat
      /\ 1 \in Way
      /\ \A i \in Way : b[i].timeStamp \in Nat
  <2>1. Ways \in Nat \ {0} /\ CounterMod \in Nat \ {0}
    BY CacheAssumption
  <2>2. \A i \in Way : b[i] \in Blocks
    BY DEF CacheInv, TypeOK
  <2> QED
    BY <2>1, <2>2 DEF Way, Blocks
<1>2. CASE free # {}
  <2>1. \E i \in free : \A j \in free : i <= j
    BY <1>1, <1>2, LeastNat
  <2>2. Victim(s) = CHOOSE i \in free : \A j \in free : i <= j
    BY <1>2 DEF Victim
  <2>3. Victim(s) \in free
    BY <2>1, <2>2
  <2> QED
    BY <1>2, <2>3
<1>3. CASE free = {}
  <2>1. PICK m \in stamps : \A n \in stamps : m <= n
    BY <1>1, LeastNat
  <2> DEFINE oldest == {i \in Way : b[i].timeStamp = m}
  <2>2. PICK i \in oldest : \A j \in oldest : i <= j
    BY <1>1, <2>1, LeastNat
  <2> DEFINE First(k) == \A j \in Way :
                           \/ b[k].timeStamp < b[j].timeStamp
                           \/ b[k].timeStamp = b[j].timeStamp /\ k <= j
  <2>3. \A j \in Way : m <= b[j].timeStamp
    BY <2>1
  <2>4. First(i)
    BY <1>1, <2>2, <2>3
  <2>5. Victim(s) = CHOOSE k \in Way : First(k)
    BY <1>3 DEF Victim
  <2>6. Victim(s) \in Way /\ First(Victim(s))
    BY <2>2, <2>4, <2>5
  <2>7. \A j \in Way : b[Victim(s)].timeStamp <= b[j].timeStamp
    <3>1. \A x, y \in Nat : x < y \/ x = y => x <= y
      OBVIOUS
    <3> QED
      BY <1>1, <2>6, <3>1
  <2> QED
    BY <1>3, <2>6, <2>7
<1> QED
  BY <1>2, <1>3
-----------------------------------------------------------------------------
(* Hits and misses *)

\* The counter stays a word of its width.
LEMMA TicksType ==
  ASSUME counter \in 0..(CounterMod - 1), NEW n \in Nat, Ticks(n)
  PROVE  counter' \in 0..(CounterMod - 1)
<1>1. CounterMod \in Nat \ {0}
  BY CacheAssumption
<1> QED
  BY <1>1 DEF Ticks

\* What a valid block is in the index, and what is in the index valid.
LEMMA IndexFinds ==
  ASSUME CacheInv, NEW s \in SetIndex, NEW t \in Tag, index[s][t] # 0
  PROVE  /\ index[s][t] \in Way
         /\ blocks[s][index[s][t]].valid
         /\ blocks[s][index[s][t]].tag = t
<1>1. index[s][t] \in 0..Ways /\ Ways \in Nat
  BY CacheAssumption DEF CacheInv, TypeOK
<1>2. index[s][t] \in Way
  BY <1>1 DEF Way
<1> QED
  BY <1>2 DEF CacheInv, IndexAgrees

\* Replacing a block of a set replaces nothing else.
LEMMA WithBlockResult ==
  ASSUME blocks \in [SetIndex -> [Way -> Blocks]],
         NEW s \in SetIndex, NEW i \in Way, NEW new \in Blocks
  PROVE  /\ WithBlock(s, i, new) \in [SetIndex -> [Way -> Blocks]]
         /\ \A u \in SetIndex, j \in Way :
              WithBlock(s, i, new)[u][j]
                = IF u = s /\ j = i THEN new ELSE blocks[u][j]
BY DEF WithBlock

\* A hit keeps the blocks in agreement with the index: it changes neither a
\* tag nor a valid bit.
LEMMA HitKeeps ==
  ASSUME CacheInv, NEW s \in SetIndex, NEW t \in Tag, index[s][t] # 0,
         NEW d \in BOOLEAN, d => ~writeThrough,
         blocks' = WithBlock(s, index[s][t],
                             Touched(blocks[s][index[s][t]], d)),
         UNCHANGED <<policyVars, index>>
  PROVE  /\ blocks' \in [SetIndex -> [Way -> Blocks]]
         /\ IndexAgrees' /\ DirtyBlocks'
<1> DEFINE i == index[s][t]
           old == blocks[s][i]
           new == Touched(old, d)
<1>1. i \in Way /\ old.valid
  BY IndexFinds
<1>2. /\ blocks \in [SetIndex -> [Way -> Blocks]]
      /\ counter \in 0..(CounterMod - 1)
      /\ old \in Blocks
  BY <1>1 DEF CacheInv, TypeOK
<1>3. /\ new \in Blocks
      /\ new.tag = old.tag /\ new.valid = old.valid /\ new.isDirty = d
  BY <1>2 DEF Touched, Block, Blocks
<1>4. /\ blocks' \in [SetIndex -> [Way -> Blocks]]
      /\ \A u \in SetIndex, j \in Way :
           blocks'[u][j] = IF u = s /\ j = i THEN new ELSE blocks[u][j]
  <2>1. blocks' = WithBlock(s, i, new)
    OBVIOUS
  <2> HIDE DEF i, new
  <2> QED
    BY <1>1, <1>2, <1>3, <2>1, WithBlockResult
<1>5. index' = index /\ writeThrough' = writeThrough
  BY DEF policyVars
<1>6. \A u \in SetIndex, j \in Way :
        \/ blocks'[u][j] = blocks[u][j]
        \/ /\ blocks'[u][j].tag = blocks[u][j].tag
           /\ blocks'[u][j].valid = blocks[u][j].valid
           /\ blocks'[u][j].valid
           /\ blocks'[u][j].isDirty => ~writeThrough
  <2> SUFFICES ASSUME NEW u \in SetIndex, NEW j \in Way,
                      blocks'[u][j] # blocks[u][j]
               PROVE  /\ blocks'[u][j].tag = blocks[u][j].tag
                      /\ blocks'[u][j].valid = blocks[u][j].valid
                      /\ blocks'[u][j].valid
                      /\ blocks'[u][j].isDirty => ~writeThrough
    BY Zenon
  <2>1. blocks'[u][j] = new /\ blocks[u][j] = old
    BY <1>4
  <2> HIDE DEF i, old, new
  <2> QED
    BY <1>1, <1>3, <2>1
<1>7. IndexAgrees'
  <2> SUFFICES ASSUME NEW u \in SetIndex, NEW w \in Tag, NEW j \in Way
               PROVE  index'[u][w] = j
                        <=> blocks'[u][j].valid /\ blocks'[u][j].tag = w
    BY DEF IndexAgrees
  <2>1. index[u][w] = j <=> blocks[u][j].valid /\ blocks[u][j].tag = w
    BY DEF CacheInv, IndexAgrees
  <2> QED
    BY <1>5, <1>6, <2>1
<1>8. DirtyBlocks'
  <2> SUFFICES ASSUME NEW u \in SetIndex, NEW j \in Way
               PROVE  blocks'[u][j].isDirty
                        => blocks'[u][j].valid /\ ~writeThrough'
    BY DEF DirtyBlocks
  <2>1. blocks[u][j].isDirty => blocks[u][j].valid /\ ~writeThrough
    BY DEF CacheInv, DirtyBlocks
  <2> QED
    BY <1>5, <1>6, <2>1
<1> QED
  BY <1>4, <1>7, <1>8

\* A miss keeps them in agreement: the tag of the block it replaces leaves
\* the index, and no other block has the tag it brings in.
LEMMA MissKeeps ==
  ASSUME CacheInv, NEW s \in SetIndex, NEW t \in Tag, index[s][t] = 0,
         NEW d \in BOOLEAN, d => ~writeThrough, NEW cycles \in Nat,
         handleMiss(s, t, d, cycles), UNCHANGED policyVars
  PROVE  /\ blocks' \in [SetIndex -> [Way -> Blocks]]
         /\ index' \in [SetIndex -> [Tag -> 0..Ways]]
         /\ totalCycles' \in Nat
         /\ IndexAgrees' /\ DirtyBlocks'
<1> DEFINE i == Victim(s)
           old == blocks[s][i]
           new == Block(t, TRUE, d, counter)
<1>1. i \in Way
  BY VictimInWay
<1>2. /\ blocks \in [SetIndex -> [Way -> Blocks]]
      /\ index \in [SetIndex -> [Tag -> 0..Ways]]
      /\ counter \in 0..(CounterMod - 1)
      /\ totalCycles \in Nat
      /\ Ways \in Nat /\ BlockCycles \in Nat
  BY CacheAssumption DEF CacheInv, TypeOK, StatType
<1>3. /\ new \in Blocks
      /\ new.tag = t /\ new.valid = TRUE /\ new.isDirty = d
  BY <1>2 DEF Block, Blocks
<1>4. /\ blocks' = WithBlock(s, i, new)
      /\ index' = Reindexed(s, i, t)
      /\ totalCycles' \in Nat
  BY <1>2 DEF handleMiss
<1>5. /\ blocks' \in [SetIndex -> [Way -> Blocks]]
      /\ \A u \in SetIndex, j \in Way :
           blocks'[u][j] = IF u = s /\ j = i THEN new ELSE blocks[u][j]
  <2> HIDE DEF i, new
  <2> QED
    BY <1>1, <1>2, <1>3, <1>4, WithBlockResult
<1>6. \A u \in SetIndex, w \in Tag :
        index'[u][w] = IF u # s THEN index[u][w]
                       ELSE IF w = t THEN i
                       ELSE IF old.valid /\ w = old.tag THEN 0
                       ELSE index[u][w]
  BY <1>2, <1>4 DEF Reindexed
<1>7. index' \in [SetIndex -> [Tag -> 0..Ways]]
  <2>1. i \in 0..Ways
    BY <1>1, <1>2 DEF Way
  <2> HIDE DEF i
  <2> QED
    BY <1>2, <1>4, <2>1 DEF Reindexed
<1>8. IndexAgrees'
  <2>1. \A w \in Tag, j \in Way :
          index[s][w] = j <=> blocks[s][j].valid /\ blocks[s][j].tag = w
    BY DEF CacheInv, IndexAgrees
  <2>2. 0 \notin Way
    BY <1>2 DEF Way
  <2> SUFFICES ASSUME NEW u \in SetIndex, NEW w \in Tag, NEW j \in Way
               PROVE  index'[u][w] = j
                        <=> blocks'[u][j].valid /\ blocks'[u][j].tag = w
    BY DEF IndexAgrees
  <2>3. CASE u # s
    <3>1. index'[u][w] = index[u][w] /\ blocks'[u][j] = blocks[u][j]
      BY <1>5, <1>6, <2>3
    <3> QED
      BY <3>1 DEF CacheInv, IndexAgrees
  <2>4. CASE u = s /\ j = i
    <3>1. blocks'[u][j].valid /\ blocks'[u][j].tag = t
      BY <1>3, <1>5, <2>4
    <3>2. index[s][w] = i <=> old.valid /\ old.tag = w
      BY <1>1, <2>1
    <3>3. index'[s][w] = i <=> w = t
      <4> HIDE DEF i, old
      <4> QED
        BY <1>1, <1>6, <2>2, <3>2
    <3> QED
      BY <2>4, <3>1, <3>3
  <2>5. CASE u = s /\ j # i
    <3>1. blocks'[u][j] = blocks[s][j]
      BY <1>5, <2>5
    <3>2. old.valid /\ w = old.tag => index[s][w] = i
      BY <1>1, <2>1
    <3>3. w = t => ~(blocks[s][j].valid /\ blocks[s][j].tag = w)
      BY <2>1, <2>2
    <3>4. index'[s][w] = j <=> w # t /\ index[s][w] = j
      <4> HIDE DEF i, old
      <4> QED
        BY <1>6, <2>2, <2>5, <3>2
    <3> QED
      BY <2>1, <2>5, <3>1, <3>3, <3>4
  <2> QED
    BY <2>3, <2>4, <2>5
<1>9. DirtyBlocks'
  <2>1. \A u \in SetIndex, j \in Way :
          blocks[u][j].isDirty => blocks[u][j].valid /\ ~writeThrough
    BY DEF CacheInv, DirtyBlocks
  <2>2. writeThrough' = writeThrough
    BY DEF policyVars
  <2> SUFFICES ASSUME NEW u \in SetIndex, NEW j \in Way
               PROVE  blocks'[u][j].isDirty
                        => blocks'[u][j].valid /\ ~writeThrough'
    BY DEF DirtyBlocks
  <2>3. blocks'[u][j] = new \/ blocks'[u][j] = blocks[u][j]
    BY <1>5
  <2> HIDE DEF new
  <2> QED
    BY <1>3, <2>1, <2>2, <2>3
<1> QED
  BY <1>4, <1>5, <1>7, <1>8, <1>9
-----------------------------------------------------------------------------
(* The invariant *)

LEMMA CacheInit == Init => CacheInv
<1> SUFFICES ASSUME Init PROVE CacheInv
  OBVIOUS
<1>1. /\ Ways \in Nat \ {0} /\ CounterMod \in Nat \ {0}
      /\ ZeroTag \in Tag
  BY CacheAssumption
<1>2. Block(ZeroTag, FALSE, FALSE, 0) \in Blocks
  BY <1>1 DEF Block, Blocks
<1>3. TypeOK
  <2>1. blocks \in [SetIndex -> [Way -> Blocks]]
    BY <1>2 DEF Init
  <2>2. index \in [SetIndex -> [Tag -> 0..Ways]]
    BY <1>1 DEF Init
  <2>3. counter \in 0..(CounterMod - 1) /\ StatType
    BY <1>1 DEF Init, StatType
  <2>4. PolicyType
    BY DEF Init, PolicyType
  <2> QED
    BY <2>1, <2>2, <2>3, <2>4 DEF TypeOK
<1>4. IndexAgrees
  BY <1>1 DEF Init, IndexAgrees, Way, Block
<1>5. DirtyBlocks
  BY DEF Init, DirtyBlocks, Block
<1> QED
  BY <1>3, <1>4, <1>5 DEF CacheInv

LEMMA CacheStep == CacheInv /\ [Next]_vars => CacheInv'
<1> SUFFICES ASSUME CacheInv, [Next]_vars PROVE CacheInv'
  OBVIOUS
<1>1. /\ PolicyType /\ StatType
      /\ blocks \in [SetIndex -> [Way -> Blocks]]
      /\ counter \in 0..(CounterMod - 1)
      /\ BlockCycles \in Nat
  BY CacheAssumption DEF CacheInv, TypeOK
<1>2. ASSUME NEW s \in SetIndex, NEW t \in Tag, LoadHit(s, t)
      PROVE  CacheInv'
  <2> DEFINE d == blocks[s][index[s][t]].isDirty
  <2>1. d \in BOOLEAN /\ (d => ~writeThrough)
    BY <1>1, <1>2, IndexFinds DEF LoadHit, CacheInv, DirtyBlocks, Blocks
  <2>2. /\ blocks' \in [SetIndex -> [Way -> Blocks]]
        /\ IndexAgrees' /\ DirtyBlocks'
    BY <1>2, <2>1, HitKeeps DEF LoadHit
  <2>3. counter' \in 0..(CounterMod - 1)
    BY <1>1, <1>2, TicksType DEF LoadHit
  <2>4. PolicyType' /\ StatType'
    BY <1>1, <1>2 DEF LoadHit, PolicyType, StatType, policyVars
  <2> QED
    BY <1>2, <2>2, <2>3, <2>4 DEF LoadHit, CacheInv, TypeOK
<1>3. ASSUME NEW s \in SetIndex, NEW t \in Tag, LoadMiss(s, t)
      PROVE  CacheInv'
  <2>1. /\ blocks' \in [SetIndex -> [Way -> Blocks]]
        /\ index' \in [SetIndex -> [Tag -> 0..Ways]]
        /\ totalCycles' \in Nat
        /\ IndexAgrees' /\ DirtyBlocks'
    BY <1>1, <1>3, MissKeeps DEF LoadMiss
  <2>2. counter' \in 0..(CounterMod - 1)
    BY <1>1, <1>3, TicksType DEF LoadMiss
  <2>3. PolicyType' /\ StatType'
    BY <1>1, <1>3, <2>1 DEF LoadMiss, PolicyType, StatType, policyVars
  <2> QED
    BY <2>1, <2>2, <2>3 DEF CacheInv, TypeOK
<1>4. ASSUME NEW s \in SetIndex, NEW t \in Tag, StoreHit(s, t)
      PROVE  CacheInv'
  <2> DEFINE d == blocks[s][index[s][t]].isDirty \/ ~writeThrough
  <2>1. d \in BOOLEAN /\ (d => ~writeThrough)
    BY <1>1, <1>4, IndexFinds DEF StoreHit, CacheInv, DirtyBlocks, Blocks
  <2>2. /\ blocks' \in [SetIndex -> [Way -> Blocks]]
        /\ IndexAgrees' /\ DirtyBlocks'
    BY <1>4, <2>1, HitKeeps DEF StoreHit
  <2>3. counter' \in 0..(CounterMod - 1)
    BY <1>1, <1>4, TicksType DEF StoreHit
  <2>4. PolicyType' /\ StatType'
    BY <1>1, <1>4 DEF StoreHit, PolicyType, StatType, policyVars
  <2> QED
    BY <1>4, <2>2, <2>3, <2>4 DEF StoreHit, CacheInv, TypeOK
<1>5. ASSUME NEW s \in SetIndex, NEW t \in Tag, StoreMiss(s, t)
      PROVE  CacheInv'
  <2>1. CASE /\ handleMiss(s, t, ~writeThrough, BlockCycles + 1)
             /\ Ticks(2)
    <3> DEFINE d == ~writeThrough
    <3>1. /\ d \in BOOLEAN
          /\ index[s][t] = 0 /\ UNCHANGED policyVars
          /\ handleMiss(s, t, d, BlockCycles + 1)
      BY <1>5, <2>1, Zenon DEF StoreMiss
    <3>2. /\ blocks' \in [SetIndex -> [Way -> Blocks]]
          /\ index' \in [SetIndex -> [Tag -> 0..Ways]]
          /\ totalCycles' \in Nat
          /\ IndexAgrees' /\ DirtyBlocks'
      <4>1. BlockCycles + 1 \in Nat /\ (d => ~writeThrough)
        BY <1>1
      <4> HIDE DEF d
      <4> QED
        BY <3>1, <4>1, MissKeeps
    <3>3. counter' \in 0..(CounterMod - 1)
      BY <1>1, <2>1, TicksType
    <3>4. PolicyType' /\ StatType'
      BY <1>1, <1>5, <3>2 DEF StoreMiss, PolicyType, StatType, policyVars
    <3> QED
      BY <3>2, <3>3, <3>4 DEF CacheInv, TypeOK
  <2>2. CASE /\ totalCycles' = totalCycles + 101
             /\ Ticks(1)
             /\ UNCHANGED <<blocks, index>>
    <3>1. counter' \in 0..(CounterMod - 1)
      BY <1>1, <2>2, TicksType
    <3>2. PolicyType' /\ StatType'
      BY <1>1, <1>5, <2>2 DEF StoreMiss, PolicyType, StatType, policyVars
    <3>3. IndexAgrees' /\ DirtyBlocks'
      BY <1>5, <2>2
      DEF StoreMiss, CacheInv, IndexAgrees, DirtyBlocks, policyVars
    <3> QED
      BY <2>2, <3>1, <3>2, <3>3 DEF CacheInv, TypeOK
  <2> QED
    BY <1>5, <2>1, <2>2 DEF StoreMiss
<1>6. CASE UNCHANGED vars
  BY <1>6 DEF vars, policyVars, statVars, CacheInv, TypeOK, PolicyType,
              StatType, IndexAgrees, DirtyBlocks
<1> QED
  BY <1>2, <1>3, <1>4, <1>5, <1>6 DEF Next, Load, Store

LEMMA CacheAlways == Spec => []CacheInv
BY CacheInit, CacheStep, PTL DEF Spec

\* Every member keeps its type and the counter its width, for any number of
\* sets, blocks and accesses.
THEOREM CacheTypes == Spec => []TypeOK
<1>1. CacheInv => TypeOK
  BY DEF CacheInv
<1> QED
  BY <1>1, CacheAlways, PTL

\* The index of each set finds exactly its valid blocks after any sequence of
\* loads, stores and evictions.
THEOREM IndexAlwaysAgrees == Spec => []IndexAgrees
<1>1. CacheInv => IndexAgrees
  BY DEF CacheInv
<1> QED
  BY <1>1, CacheAlways, PTL

\* Only a write-back cache ever has dirty blocks, and they are valid.
THEOREM DirtyBlocksAlways == Spec => []DirtyBlocks
<1>1. CacheInv => DirtyBlocks
  BY DEF CacheInv
<1> QED
  BY <1>1, CacheAlways, PTL
-----------------------------------------------------------------------------
(* Timestamps *)

\* The counter has not wrapped, so the blocks of a set were stamped at
\* different times, all in the past.
StampInv ==
  /\ counter <= 2 * Accesses /\ Accesses <= MaxAccesses
  /\ \A s \in SetIndex, i \in Way :
       blocks[s][i].valid => blocks[s][i].timeStamp < counter
  /\ \A s \in SetIndex : \A i, j \in Way :
       blocks[s][i].valid /\ blocks[s][j].valid
         /\ blocks[s][i].timeStamp = blocks[s][j].timeStamp => i = j

\* A step that hits and one that replaces a block, as the set sees them.
Hits(s, t, d) ==
  /\ index[s][t] # 0
  /\ blocks' = WithBlock(s, index[s][t], Touched(blocks[s][index[s][t]], d))
  /\ UNCHANGED <<policyVars, index>>

Misses(s, t, d, cycles) ==
  /\ index[s][t] = 0
  /\ handleMiss(s, t, d, cycles)
  /\ UNCHANGED policyVars

\* The block after a hit, and the one that a miss puts in.
Renewed(s, t, d) ==
  Block(t, TRUE, d, IF isLRU THEN counter ELSE blocks[s][index[s][t]].timeStamp)

Fresh(t, d) == Block(t, TRUE, d, counter)

\* Block i of set s becomes b, and nothing else changes.
Replaced(s, i, b) ==
  \A u \in SetIndex, j \in Way :
    blocks'[u][j] = IF u = s /\ j = i THEN b ELSE blocks[u][j]

\* The fields of these blocks.
LEMMA NewBlockFields ==
  ASSUME NEW s, NEW t, NEW d \in BOOLEAN
  PROVE  /\ Renewed(s, t, d).tag = t /\ Renewed(s, t, d).valid
         /\ Renewed(s, t, d).isDirty = d
         /\ Renewed(s, t, d).timeStamp =
              IF isLRU THEN counter ELSE blocks[s][index[s][t]].timeStamp
         /\ Fresh(t, d).tag = t /\ Fresh(t, d).valid
         /\ Fresh(t, d).isDirty = d /\ Fresh(t, d).timeStamp = counter
BY DEF Renewed, Fresh, Block

\* What a hit does to each block.
LEMMA HitResult ==
  ASSUME CacheInv, NEW s \in SetIndex, NEW t \in Tag, NEW d \in BOOLEAN,
         Hits(s, t, d)
  PROVE  /\ index[s][t] \in Way /\ blocks[s][index[s][t]] \in Blocks
         /\ blocks[s][index[s][t]].valid /\ blocks[s][index[s][t]].tag = t
         /\ Replaced(s, index[s][t], Renewed(s, t, d))
<1> DEFINE i == index[s][t]
           old == blocks[s][i]
           new == Renewed(s, t, d)
<1>1. /\ i \in Way /\ old.valid /\ old.tag = t
      /\ blocks \in [SetIndex -> [Way -> Blocks]]
      /\ counter \in 0..(CounterMod - 1)
  BY IndexFinds DEF Hits, CacheInv, TypeOK
<1>2. old \in Blocks
  BY <1>1
<1>3. new = Touched(old, d)
  BY <1>1, <1>2 DEF Touched, Blocks, Renewed
<1>4. new \in Blocks
  BY <1>1, <1>2 DEF Renewed, Block, Blocks
<1>5. blocks' = WithBlock(s, i, new)
  BY <1>3 DEF Hits
<1>6. Replaced(s, i, new)
  <2> HIDE DEF i, new
  <2> QED
    BY <1>1, <1>4, <1>5, WithBlockResult DEF Replaced
<1> QED
  BY <1>1, <1>2, <1>6

\* What a miss does to each block and to the index.
LEMMA MissResult ==
  ASSUME CacheInv, NEW s \in SetIndex, NEW t \in Tag, NEW d \in BOOLEAN,
         NEW cycles \in Nat, Misses(s, t, d, cycles)
  PROVE  /\ Victim(s) \in Way /\ blocks[s][Victim(s)] \in Blocks
         /\ Replaced(s, Victim(s), Fresh(t, d))
         /\ \A u \in SetIndex, w \in Tag :
              index'[u][w] = IF u # s THEN index[u][w]
                             ELSE IF w = t THEN Victim(s)
                             ELSE IF /\ blocks[s][Victim(s)].valid
                                     /\ w = blocks[s][Victim(s)].tag THEN 0
                             ELSE index[u][w]
         /\ totalCycles' = totalCycles + cycles
              + (IF blocks[s][Victim(s)].isDirty THEN BlockCycles ELSE 0)
<1> DEFINE i == Victim(s)
           old == blocks[s][i]
           new == Fresh(t, d)
<1>1. /\ i \in Way
      /\ blocks \in [SetIndex -> [Way -> Blocks]]
      /\ index \in [SetIndex -> [Tag -> 0..Ways]]
      /\ counter \in 0..(CounterMod - 1)
  BY VictimInWay DEF CacheInv, TypeOK
<1>2. old \in Blocks /\ new \in Blocks
  BY <1>1 DEF Fresh, Block, Blocks
<1>3. /\ blocks' = WithBlock(s, i, new)
      /\ index' = Reindexed(s, i, t)
      /\ totalCycles' = totalCycles + cycles
                          + (IF old.isDirty THEN BlockCycles ELSE 0)
  BY DEF Misses, handleMiss, Fresh
<1>4. Replaced(s, i, new)
  <2> HIDE DEF i, new
  <2> QED
    BY <1>1, <1>2, <1>3, WithBlockResult DEF Replaced
<1>5. \A u \in SetIndex, w \in Tag :
        index'[u][w] = IF u # s THEN index[u][w]
                       ELSE IF w = t THEN i
                       ELSE IF old.valid /\ w = old.tag THEN 0
                       ELSE index[u][w]
  BY <1>1, <1>3 DEF Reindexed
<1> QED
  BY <1>1, <1>2, <1>3, <1>4, <1>5

\* Each access is a hit that renews its block under LRU, a miss that replaces
\* one, or a store that passes the cache by; the counter moves on past every
\* stamp given.
LEMMA AccessKinds ==
  ASSUME CacheInv, NEW s \in SetIndex, NEW t \in Tag, Load(s, t) \/ Store(s, t)
  PROVE  \E d \in BOOLEAN, n \in 0..2 :
           /\ Ticks(n) /\ Accesses' = Accesses + 1 /\ Accesses < MaxAccesses
           /\ \/ Hits(s, t, d) /\ (isLRU => n # 0)
              \/ (\E cycles \in Nat : Misses(s, t, d, cycles)) /\ n # 0
              \/ UNCHANGED <<blocks, index>>
<1>1. /\ PolicyType /\ StatType /\ BlockCycles \in Nat
      /\ blocks \in [SetIndex -> [Way -> Blocks]]
      /\ index[s][t] # 0 => index[s][t] \in Way
  BY CacheAssumption, IndexFinds DEF CacheInv, TypeOK
<1>0. Accesses < MaxAccesses
  BY DEF Load, Store
<1>2. CASE LoadHit(s, t)
  <2> DEFINE d == blocks[s][index[s][t]].isDirty
  <2>1. d \in BOOLEAN
    BY <1>1, <1>2 DEF LoadHit, Blocks
  <2>2. Hits(s, t, d)
    BY <1>2 DEF LoadHit, Hits
  <2>3. Accesses' = Accesses + 1
    BY <1>1, <1>2 DEF LoadHit, Accesses, StatType
  <2>4. PICK n \in 0..1 : Ticks(n) /\ (isLRU => n # 0)
    BY <1>2 DEF LoadHit
  <2> HIDE DEF d
  <2> QED
    BY <1>0, <2>1, <2>2, <2>3, <2>4
<1>3. CASE LoadMiss(s, t)
  <2> DEFINE d == FALSE
  <2>1. Misses(s, t, d, BlockCycles) /\ Ticks(1) /\ d \in BOOLEAN
    BY <1>3 DEF LoadMiss, Misses
  <2>2. Accesses' = Accesses + 1
    BY <1>1, <1>3 DEF LoadMiss, Accesses, StatType
  <2> HIDE DEF d
  <2> QED
    BY <1>0, <1>1, <2>1, <2>2
<1>4. CASE StoreHit(s, t)
  <2> DEFINE d == blocks[s][index[s][t]].isDirty \/ ~writeThrough
  <2>1. d \in BOOLEAN
    BY <1>1, <1>4 DEF StoreHit, Blocks
  <2>2. Hits(s, t, d)
    BY <1>4 DEF StoreHit, Hits
  <2>3. Accesses' = Accesses + 1
    BY <1>1, <1>4 DEF StoreHit, Accesses, StatType
  <2>4. PICK n \in 1..2 : Ticks(n)
    BY <1>4 DEF StoreHit
  <2> HIDE DEF d
  <2> QED
    BY <1>0, <2>1, <2>2, <2>3, <2>4
<1>5. CASE StoreMiss(s, t)
  <2>1. Accesses' = Accesses + 1
    BY <1>1, <1>5 DEF StoreMiss, Accesses, StatType
  <2>2. CASE /\ handleMiss(s, t, ~writeThrough, BlockCycles + 1)
             /\ Ticks(2)
    <3> DEFINE d == ~writeThrough
    <3>1. Misses(s, t, d, BlockCycles + 1)
      BY <1>5, <2>2, Zenon DEF StoreMiss, Misses
    <3>2. d \in BOOLEAN /\ BlockCycles + 1 \in Nat /\ 2 \in 0..2
      BY <1>1
    <3>3. Ticks(2)
      BY <2>2
    <3> HIDE DEF d
    <3> QED
      BY <1>0, <2>1, <3>1, <3>2, <3>3
  <2>3. CASE Ticks(1) /\ UNCHANGED <<blocks, index>>
    <3> DEFINE d == FALSE
    <3>1. d \in BOOLEAN
      OBVIOUS
    <3> HIDE DEF d
    <3> QED
      BY <1>0, <2>1, <2>3, <3>1
  <2> QED
    BY <1>5, <2>2, <2>3 DEF StoreMiss
<1> QED
  BY <1>2, <1>3, <1>4, <1>5 DEF Load, Store

\* A number below the modulus is its own remainder.
LEMMA SmallMod ==
  ASSUME NEW m \in Nat \ {0}, NEW a \in 0..(m - 1)
  PROVE  a % m = a
OBVIOUS

\* The stamps and the counter of a cache that is used at most MaxAccesses
\* times, fewer than half the values of the counter.
LEMMA StampStep ==
  ASSUME CounterMod > 2 * MaxAccesses, CacheInv, StampInv, [Next]_vars
  PROVE  StampInv'
<1>1. CASE UNCHANGED vars
  BY <1>1 DEF vars, statVars, StampInv, Accesses
<1>2. ASSUME NEW s \in SetIndex, NEW t \in Tag, Load(s, t) \/ Store(s, t)
      PROVE  StampInv'
  <2>1. PICK d \in BOOLEAN, n \in 0..2 :
           /\ Ticks(n) /\ Accesses' = Accesses + 1 /\ Accesses < MaxAccesses
           /\ \/ Hits(s, t, d) /\ (isLRU => n # 0)
              \/ (\E cycles \in Nat : Misses(s, t, d, cycles)) /\ n # 0
              \/ UNCHANGED <<blocks, index>>
    BY <1>2, AccessKinds
  <2>2. /\ counter \in 0..(CounterMod - 1) /\ CounterMod \in Nat /\ MaxAccesses \in Nat
        /\ Accesses \in Nat
        /\ blocks \in [SetIndex -> [Way -> Blocks]]
    BY CacheAssumption DEF CacheInv, TypeOK, StatType, Accesses
  <2>3. counter' = counter + n /\ counter' <= 2 * Accesses' /\ Accesses' <= MaxAccesses
    <3>1. counter + n \in 0..(CounterMod - 1)
      BY <2>1, <2>2 DEF StampInv
    <3>2. (counter + n) % CounterMod = counter + n
      BY <2>2, <3>1, SmallMod
    <3>3. counter' = counter + n
      BY <2>1, <3>2 DEF Ticks
    <3>4. counter <= 2 * Accesses /\ n <= 2
      BY <2>1 DEF StampInv
    <3> QED
      BY <2>1, <2>2, <3>3, <3>4
  \* each block keeps its stamp or is the one that gets the counter's
  <2> DEFINE Keeps(u, j) == /\ blocks'[u][j].valid <=> blocks[u][j].valid
                            /\ blocks'[u][j].timeStamp = blocks[u][j].timeStamp
             Renews(u, j) == n # 0 /\ blocks'[u][j].timeStamp = counter
  <2>4. \E i \in Way : \A u \in SetIndex, j \in Way :
          Keeps(u, j) \/ (u = s /\ j = i /\ Renews(u, j))
    <3>1. CASE Hits(s, t, d) /\ (isLRU => n # 0)
      <4> DEFINE i == index[s][t]
      <4>1. i \in Way /\ blocks[s][i].valid /\ Replaced(s, i, Renewed(s, t, d))
        BY <2>1, <3>1, HitResult
      <4>2. ASSUME NEW u \in SetIndex, NEW j \in Way
            PROVE  Keeps(u, j) \/ (u = s /\ j = i /\ Renews(u, j))
        BY <3>1, <4>1, NewBlockFields DEF Replaced
      <4> HIDE DEF i, Keeps, Renews
      <4> QED
        BY <4>1, <4>2
    <3>2. CASE (\E cycles \in Nat : Misses(s, t, d, cycles)) /\ n # 0
      <4> DEFINE i == Victim(s)
      <4>1. i \in Way /\ Replaced(s, i, Fresh(t, d))
        BY <3>2, MissResult
      <4>2. ASSUME NEW u \in SetIndex, NEW j \in Way
            PROVE  Keeps(u, j) \/ (u = s /\ j = i /\ Renews(u, j))
        <5>1. Fresh(t, d).timeStamp = counter
          BY NewBlockFields
        <5> HIDE DEF i
        <5> QED
          BY <3>2, <4>1, <5>1 DEF Replaced
      <4> HIDE DEF i, Keeps, Renews
      <4> QED
        BY <4>1, <4>2
    <3>3. CASE UNCHANGED <<blocks, index>>
      <4>1. 1 \in Way
        BY CacheAssumption DEF Way
      <4>2. \A u \in SetIndex, j \in Way : Keeps(u, j)
        BY <3>3
      <4> QED
        BY <4>1, <4>2
    <3> QED
      BY <2>1, <3>1, <3>2, <3>3
  <2>5. PICK i \in Way : \A u \in SetIndex, j \in Way :
          Keeps(u, j) \/ (u = s /\ j = i /\ Renews(u, j))
    BY <2>4
  <2>6. \A u \in SetIndex, j \in Way : blocks[u][j].timeStamp \in Nat
    BY <2>2 DEF Blocks
  <2>7. \A u \in SetIndex, j \in Way :
          blocks'[u][j].valid => blocks'[u][j].timeStamp < counter'
    BY <2>1, <2>2, <2>3, <2>5, <2>6 DEF StampInv
  <2>8. \A u \in SetIndex : \A j, k \in Way :
          blocks'[u][j].valid /\ blocks'[u][k].valid
            /\ blocks'[u][j].timeStamp = blocks'[u][k].timeStamp => j = k
    BY <2>2, <2>5, <2>6 DEF StampInv
  <2> QED
    BY <2>3, <2>7, <2>8 DEF StampInv
<1> QED
  BY <1>1, <1>2 DEF Next
-----------------------------------------------------------------------------
(* What the abstract cache sees of a step *)

\* The blocks of the cached tags of a set.
LEMMA CachedBlocks ==
  ASSUME CacheInv, NEW s \in SetIndex, NEW t \in cachedBar[s]
  PROVE  /\ t \in Tag /\ index[s][t] \in Way
         /\ blocks[s][index[s][t]] \in Blocks
         /\ blocks[s][index[s][t]].valid /\ blocks[s][index[s][t]].tag = t
         /\ \A w \in Tag : index[s][w] = index[s][t] => w = t
<1>1. t \in Tag /\ index[s][t] # 0
  BY DEF cachedBar
<1>2. index[s][t] \in Way /\ blocks[s][index[s][t]].valid
      /\ blocks[s][index[s][t]].tag = t
  BY <1>1, IndexFinds
<1>3. blocks[s][index[s][t]] \in Blocks
  BY <1>2 DEF CacheInv, TypeOK
<1>4. \A w \in Tag : index[s][w] = index[s][t] => w = t
  BY <1>2 DEF CacheInv, IndexAgrees
<1> QED
  BY <1>1, <1>2, <1>3, <1>4

\* A hit shows in the order of evictions, under LRU, and in what is dirty.
LEMMA HitView ==
  ASSUME CacheInv, StampInv, NEW s \in SetIndex, NEW t \in Tag,
         NEW d \in BOOLEAN, Hits(s, t, d)
  PROVE  /\ t \in cachedBar[s] /\ UNCHANGED <<cachedBar, roomBar>>
         /\ beforeBar' =
              IF isLRU
                THEN [beforeBar EXCEPT ![s] = Abstract!WithLast(@, cachedBar[s], t)]
                ELSE beforeBar
         /\ dirtyBar' = [dirtyBar EXCEPT ![s] = IF d THEN @ \cup {t} ELSE @ \ {t}]
<1> DEFINE i == index[s][t]
           new == Renewed(s, t, d)
<1>1. /\ i \in Way /\ blocks[s][i].valid /\ Replaced(s, i, new)
      /\ index' = index /\ t \in cachedBar[s]
  BY HitResult DEF Hits, cachedBar
<1>2. /\ new.valid /\ new.isDirty = d
      /\ new.timeStamp = IF isLRU THEN counter ELSE Stamp(s, t)
  BY NewBlockFields DEF Stamp
<1>3. cachedBar' = cachedBar
  BY <1>1 DEF cachedBar
<1>4. roomBar' = roomBar
  <2>1. \A u \in SetIndex, j \in Way : blocks'[u][j].valid <=> blocks[u][j].valid
    <3> HIDE DEF i, new
    <3> QED
      BY <1>1, <1>2 DEF Replaced
  <2>2. \A u \in SetIndex : {j \in Way : ~blocks'[u][j].valid}
                              = {j \in Way : ~blocks[u][j].valid}
    BY <2>1
  <2> QED
    BY <2>2 DEF roomBar
<1>5. \A u \in SetIndex : \A w \in cachedBar[u] :
        /\ Stamp(u, w)' = IF isLRU /\ u = s /\ w = t THEN counter ELSE Stamp(u, w)
        /\ Stamp(u, w) \in Nat /\ Stamp(u, w) < counter
        /\ blocks'[u][index'[u][w]].isDirty
             <=> IF u = s /\ w = t THEN d ELSE blocks[u][index[u][w]].isDirty
  <2> SUFFICES ASSUME NEW u \in SetIndex, NEW w \in cachedBar[u]
      PROVE  /\ Stamp(u, w)' = IF isLRU /\ u = s /\ w = t THEN counter ELSE Stamp(u, w)
             /\ Stamp(u, w) \in Nat /\ Stamp(u, w) < counter
             /\ blocks'[u][index'[u][w]].isDirty
                  <=> IF u = s /\ w = t THEN d ELSE blocks[u][index[u][w]].isDirty
    OBVIOUS
  <2>1. /\ w \in Tag /\ index[u][w] \in Way
        /\ blocks[u][index[u][w]] \in Blocks /\ blocks[u][index[u][w]].valid
    BY CachedBlocks
  <2>2. u = s /\ index[u][w] = i <=> u = s /\ w = t
    BY <1>1, <2>1, CachedBlocks
  <2>3. blocks'[u][index'[u][w]] = IF u = s /\ w = t THEN new
                                                  ELSE blocks[u][index[u][w]]
    <3> HIDE DEF i, new
    <3> QED
      BY <1>1, <2>1, <2>2 DEF Replaced
  <2>4. Stamp(u, w) \in Nat /\ Stamp(u, w) < counter
    BY <2>1 DEF Stamp, Blocks, StampInv
  <2> HIDE DEF i, new
  <2>5. Stamp(u, w)' = IF isLRU /\ u = s /\ w = t THEN counter ELSE Stamp(u, w)
    BY <1>2, <2>3 DEF Stamp
  <2>6. blocks'[u][index'[u][w]].isDirty
          <=> IF u = s /\ w = t THEN d ELSE blocks[u][index[u][w]].isDirty
    BY <1>2, <2>3
  <2> QED
    BY <2>4, <2>5, <2>6
<1> HIDE DEF i, new
<1>6. \A u \in SetIndex :
        dirtyBar'[u] = IF u # s THEN dirtyBar[u]
                       ELSE IF d THEN dirtyBar[u] \cup {t} ELSE dirtyBar[u] \ {t}
  BY <1>1, <1>3, <1>5 DEF dirtyBar
<1>7. dirtyBar' = [dirtyBar EXCEPT ![s] = IF d THEN @ \cup {t} ELSE @ \ {t}]
  BY <1>6 DEF dirtyBar
<1>8. counter \in Nat
  BY CacheAssumption DEF CacheInv, TypeOK
<1>9. ASSUME isLRU, NEW u \in SetIndex
      PROVE  beforeBar'[u] = IF u = s
                               THEN Abstract!WithLast(beforeBar[s], cachedBar[s], t)
                               ELSE beforeBar[u]
  <2>1. \A v, w \in cachedBar[u] :
          <<v, w>> \in beforeBar'[u]
            <=> IF u = s /\ (v = t \/ w = t) THEN v # t /\ w = t
                                             ELSE <<v, w>> \in beforeBar[u]
    BY <1>3, <1>5, <1>8, <1>9 DEF beforeBar
  <2>2. /\ beforeBar'[u] \subseteq cachedBar[u] \X cachedBar[u]
        /\ beforeBar[u] \subseteq cachedBar[u] \X cachedBar[u]
    BY <1>3 DEF beforeBar
  <2>3. CASE u # s
    BY <2>1, <2>2, <2>3, SMTT(30)
  <2>4. CASE u = s
    <3> DEFINE last == Abstract!WithLast(beforeBar[s], cachedBar[s], t)
    <3>1. last \subseteq cachedBar[s] \X cachedBar[s]
      BY <1>1, <2>2, <2>4 DEF Abstract!WithLast
    <3>2. \A v, w \in cachedBar[s] :
            <<v, w>> \in last <=> IF v = t \/ w = t THEN v # t /\ w = t
                                                   ELSE <<v, w>> \in beforeBar[s]
      BY <1>1, <2>2 DEF Abstract!WithLast
    <3> HIDE DEF last
    <3>3. \A v, w \in cachedBar[s] : <<v, w>> \in beforeBar'[s] <=> <<v, w>> \in last
      BY <2>1, <2>4, <3>2
    <3>4. /\ beforeBar'[s] \in SUBSET (cachedBar[s] \X cachedBar[s])
          /\ last \in SUBSET (cachedBar[s] \X cachedBar[s])
      BY <2>2, <2>4, <3>1
    <3>5. \A p \in cachedBar[s] \X cachedBar[s] : p \in beforeBar'[s] <=> p \in last
      BY <3>3
    <3>6. beforeBar'[s] = last
      BY <3>4, <3>5
    <3> QED
      BY <2>4, <3>6 DEF last
  <2> QED
    BY <2>3, <2>4
<1>10. ASSUME ~isLRU, NEW u \in SetIndex
       PROVE  beforeBar'[u] = beforeBar[u]
  BY <1>3, <1>5, <1>10 DEF beforeBar
<1>11. /\ beforeBar = [u \in SetIndex |-> beforeBar[u]]
       /\ beforeBar' = [u \in SetIndex |-> beforeBar'[u]]
  BY DEF beforeBar
<1>12. beforeBar' =
         IF isLRU
           THEN [beforeBar EXCEPT ![s] = Abstract!WithLast(@, cachedBar[s], t)]
           ELSE beforeBar
  BY <1>9, <1>10, <1>11
<1> QED
  BY <1>1, <1>3, <1>4, <1>7, <1>12

\* What is left in a set once its victim is gone.
Rest(s) ==
  {w \in cachedBar[s] : index[s][w] # Victim(s)}

\* The victim is invalid, or the oldest block of a set that is full.
LEMMA VictimGoes ==
  ASSUME CacheInv, StampInv, NEW s \in SetIndex
  PROVE  /\ Rest(s) = IF blocks[s][Victim(s)].valid
                        THEN cachedBar[s] \ {blocks[s][Victim(s)].tag}
                        ELSE cachedBar[s]
         /\ Abstract!Keeps(s, Rest(s))
         /\ blocks[s][Victim(s)].isDirty <=> ~(dirtyBar[s] \subseteq Rest(s))
         /\ roomBar[s] \in Nat
<1> DEFINE i == Victim(s)
           old == blocks[s][i]
           free == {j \in Way : ~blocks[s][j].valid}
<1>1. /\ i \in Way /\ old \in Blocks
      /\ free # {} => ~old.valid
      /\ free = {} => \A j \in Way : old.timeStamp <= blocks[s][j].timeStamp
  BY VictimInWay DEF CacheInv, TypeOK
<1>2. IsFiniteSet(free) /\ roomBar[s] = Cardinality(free)
  <2>1. IsFiniteSet(Way)
    BY CacheAssumption, FS_Interval DEF Way
  <2> QED
    BY <2>1, FS_Subset DEF roomBar
<1>3. roomBar[s] \in Nat /\ (roomBar[s] = 0 <=> free = {})
  BY <1>2, FS_CardinalityType, FS_EmptySet
<1> HIDE DEF i
<1>4. old.valid => old.tag \in cachedBar[s] /\ index[s][old.tag] = i
  <2>1. 0 \notin Way
    BY DEF Way
  <2> QED
    BY <1>1, <2>1 DEF CacheInv, IndexAgrees, cachedBar, Blocks
<1>5. ~old.valid => \A w \in cachedBar[s] : index[s][w] # i
  BY CachedBlocks
<1>6. Rest(s) = {w \in cachedBar[s] : index[s][w] # i}
  BY DEF Rest, i
<1>7. Rest(s) = IF old.valid THEN cachedBar[s] \ {old.tag} ELSE cachedBar[s]
  <2>1. CASE old.valid
    <3>1. \A w \in cachedBar[s] : index[s][w] = i => w = old.tag
      BY <2>1, <1>4, CachedBlocks
    <3> QED
      BY <1>4, <1>6, <2>1, <3>1
  <2>2. CASE ~old.valid
    BY <1>5, <1>6, <2>2
  <2> QED
    BY <2>1, <2>2
<1>8. Abstract!Keeps(s, Rest(s))
  <2>1. CASE free # {}
    BY <1>1, <1>3, <1>7, <2>1 DEF Abstract!Keeps
  <2>2. CASE free = {}
    <3>1. old.valid
      BY <1>1, <2>2
    <3>2. \A u \in Rest(s) : <<old.tag, u>> \in beforeBar[s]
      <4> SUFFICES ASSUME NEW u \in Rest(s)
                   PROVE  <<old.tag, u>> \in beforeBar[s]
        OBVIOUS
      <4> DEFINE j == index[s][u]
      <4>1. u \in cachedBar[s] /\ j # i
        BY <1>6
      <4>2. j \in Way /\ blocks[s][j] \in Blocks /\ blocks[s][j].valid
        BY <4>1, CachedBlocks
      <4> HIDE DEF j
      <4>3. old.timeStamp # blocks[s][j].timeStamp
        BY <1>1, <3>1, <4>1, <4>2 DEF StampInv
      <4>4. /\ old.timeStamp <= blocks[s][j].timeStamp
            /\ old.timeStamp \in Int /\ blocks[s][j].timeStamp \in Int
        BY <1>1, <2>2, <4>2 DEF Blocks
      <4>5. old.timeStamp < blocks[s][j].timeStamp
        BY <4>3, <4>4
      <4> QED
        BY <1>4, <3>1, <4>1, <4>5 DEF beforeBar, Stamp, j
    <3> QED
      BY <1>3, <1>4, <1>7, <2>2, <3>1, <3>2 DEF Abstract!Keeps
  <2> QED
    BY <2>1, <2>2
<1>9. old.isDirty <=> ~(dirtyBar[s] \subseteq Rest(s))
  <2>1. old.isDirty => old.valid
    BY <1>1 DEF CacheInv, DirtyBlocks
  <2>2. dirtyBar[s] = {w \in cachedBar[s] : blocks[s][index[s][w]].isDirty}
    BY DEF dirtyBar
  <2> QED
    BY <1>4, <1>6, <2>1, <2>2
<1> QED
  BY <1>3, <1>7, <1>8, <1>9 DEF i

\* A miss of the cache is the entry of a tag.
LEMMA MissView ==
  ASSUME CacheInv, StampInv, NEW s \in SetIndex, NEW t \in Tag,
         NEW d \in BOOLEAN, NEW cycles \in Nat, NEW cost \in Nat,
         cycles = cost + BlockCycles, Misses(s, t, d, cycles)
  PROVE  Abstract!Enter(s, t, d, cost)
<1> DEFINE i == Victim(s)
           old == blocks[s][i]
           new == Fresh(t, d)
           rest == Rest(s)
<1>1. /\ i \in Way /\ Replaced(s, i, new)
      /\ \A u \in SetIndex, w \in Tag :
           index'[u][w] = IF u # s THEN index[u][w]
                          ELSE IF w = t THEN i
                          ELSE IF old.valid /\ w = old.tag THEN 0
                          ELSE index[u][w]
      /\ totalCycles' = totalCycles + cycles
                          + (IF old.isDirty THEN BlockCycles ELSE 0)
  BY MissResult
<1>2. new.valid /\ (new.isDirty <=> d) /\ new.timeStamp = counter
  BY NewBlockFields
<1>3. /\ rest = IF old.valid THEN cachedBar[s] \ {old.tag} ELSE cachedBar[s]
      /\ rest = {w \in cachedBar[s] : index[s][w] # i}
      /\ Abstract!Keeps(s, rest)
      /\ old.isDirty <=> ~(dirtyBar[s] \subseteq rest)
  BY VictimGoes DEF Rest
<1>4. /\ counter \in Nat /\ totalCycles \in Nat /\ BlockCycles \in Nat
      /\ 0 \notin Way
      /\ \A w \in Tag : w \in cachedBar[s] <=> index[s][w] # 0
      /\ t \notin cachedBar[s]
  BY CacheAssumption DEF CacheInv, TypeOK, StatType, Way, cachedBar, Misses
<1> HIDE DEF i, new, rest
<1>5. /\ rest \subseteq cachedBar[s] /\ t \notin rest
      /\ cachedBar'[s] = rest \cup {t}
      /\ \A u \in SetIndex \ {s} : cachedBar'[u] = cachedBar[u]
  <2>1. rest \subseteq cachedBar[s] /\ t \notin rest
    BY <1>3, <1>4
  <2>2. \A w \in Tag : index'[s][w] # 0 <=> w = t \/ w \in rest
    BY <1>1, <1>3, <1>4
  <2>3. cachedBar'[s] = {w \in Tag : index'[s][w] # 0} /\ cachedBar[s] \subseteq Tag
    BY DEF cachedBar
  <2>4. \A u \in SetIndex \ {s} : cachedBar'[u] = cachedBar[u]
    BY <1>1 DEF cachedBar
  <2> QED
    BY <2>1, <2>2, <2>3, <2>4
<1>6. cachedBar' = [cachedBar EXCEPT ![s] = rest \cup {t}]
  BY <1>5 DEF cachedBar
\* what stays has the block it had
<1>7. /\ \A w \in rest : blocks'[s][index'[s][w]] = blocks[s][index[s][w]]
      /\ blocks'[s][index'[s][t]] = new
      /\ \A u \in SetIndex \ {s} : \A w \in cachedBar[u] :
           blocks'[u][index'[u][w]] = blocks[u][index[u][w]]
  <2>1. ASSUME NEW w \in rest
        PROVE  blocks'[s][index'[s][w]] = blocks[s][index[s][w]]
    <3>1. w \in Tag /\ index[s][w] \in Way /\ index[s][w] # i
      BY <1>3, <1>5, CachedBlocks
    <3>2. index'[s][w] = index[s][w]
      BY <1>1, <1>3, <1>5, <3>1
    <3> QED
      BY <1>1, <3>1, <3>2 DEF Replaced
  <2>2. blocks'[s][index'[s][t]] = new
    BY <1>1 DEF Replaced
  <2>3. ASSUME NEW u \in SetIndex \ {s}, NEW w \in cachedBar[u]
        PROVE  blocks'[u][index'[u][w]] = blocks[u][index[u][w]]
    BY <1>1, CachedBlocks DEF Replaced
  <2> QED
    BY <2>1, <2>2, <2>3
<1>8. dirtyBar' = [dirtyBar EXCEPT ![s] =
                     (@ \cap rest) \cup (IF d THEN {t} ELSE {})]
  <2>1. \A u \in SetIndex : dirtyBar'[u] =
          IF u = s THEN (dirtyBar[s] \cap rest) \cup (IF d THEN {t} ELSE {})
                   ELSE dirtyBar[u]
    BY <1>2, <1>5, <1>7 DEF dirtyBar
  <2> QED
    BY <2>1 DEF dirtyBar
<1>9. beforeBar' = [beforeBar EXCEPT ![s] = Abstract!WithLast(@, rest \cup {t}, t)]
  <2> DEFINE all == rest \cup {t}
             last == Abstract!WithLast(beforeBar[s], all, t)
  <2>1. \A w \in cachedBar[s] : Stamp(s, w) \in Nat /\ Stamp(s, w) < counter
    BY CachedBlocks DEF Stamp, Blocks, StampInv
  <2>2. /\ \A w \in rest : Stamp(s, w)' = Stamp(s, w)
        /\ Stamp(s, t)' = counter
        /\ \A u \in SetIndex \ {s} : \A w \in cachedBar[u] :
             Stamp(u, w)' = Stamp(u, w)
    BY <1>2, <1>7 DEF Stamp
  <2>3. \A u \in SetIndex \ {s} : beforeBar'[u] = beforeBar[u]
    BY <1>5, <2>2 DEF beforeBar
  <2>4. /\ \A v, w \in all : <<v, w>> \in beforeBar'[s]
                               <=> Stamp(s, v)' < Stamp(s, w)'
        /\ \A v, w \in rest : <<v, w>> \in beforeBar[s] <=> Stamp(s, v) < Stamp(s, w)
        /\ beforeBar'[s] \subseteq all \X all
    BY <1>5 DEF beforeBar
  <2>5. \A v, w \in all : <<v, w>> \in beforeBar'[s]
          <=> IF v = t \/ w = t THEN v # t /\ w = t ELSE <<v, w>> \in beforeBar[s]
    <3>1. \A w \in all : w = t \/ (w \in rest /\ w # t /\ w \in cachedBar[s])
      BY <1>5
    <3> HIDE DEF all
    <3> SUFFICES ASSUME NEW v \in all, NEW w \in all
                 PROVE  <<v, w>> \in beforeBar'[s]
                          <=> IF v = t \/ w = t THEN v # t /\ w = t
                                               ELSE <<v, w>> \in beforeBar[s]
      OBVIOUS
    <3>2. <<v, w>> \in beforeBar'[s] <=> Stamp(s, v)' < Stamp(s, w)'
      BY <2>4
    <3>3. CASE v = t \/ w = t
      BY <1>4, <2>1, <2>2, <3>1, <3>2, <3>3
    <3>4. CASE v # t /\ w # t
      BY <2>2, <2>4, <3>1, <3>2, <3>4
    <3> QED
      BY <3>3, <3>4
  <2>6. last \subseteq all \X all
    <3>1. beforeBar[s] \subseteq cachedBar[s] \X cachedBar[s]
      BY DEF beforeBar
    <3> QED
      BY <1>5, <3>1 DEF Abstract!WithLast
  <2>7. \A v, w \in all : <<v, w>> \in last
          <=> IF v = t \/ w = t THEN v # t /\ w = t ELSE <<v, w>> \in beforeBar[s]
    BY <1>5 DEF Abstract!WithLast
  <2> HIDE DEF last, all
  <2>8. \A p \in all \X all : p \in beforeBar'[s] <=> p \in last
    BY <2>5, <2>7
  <2>9. beforeBar'[s] = last
    BY <2>4, <2>6, <2>8
  <2>10. /\ beforeBar = [u \in SetIndex |-> beforeBar[u]]
         /\ beforeBar' = [u \in SetIndex |-> beforeBar'[u]]
    BY DEF beforeBar
  <2> QED
    BY <2>3, <2>9, <2>10 DEF last, all
<1>10. roomBar' = [roomBar EXCEPT ![s] = IF @ > 0 THEN @ - 1 ELSE @]
  <2> DEFINE free(u) == {j \in Way : ~blocks[u][j].valid}
  <2>1. IsFiniteSet(free(s))
    <3>1. IsFiniteSet(Way)
      BY CacheAssumption, FS_Interval DEF Way
    <3> QED
      BY <3>1, FS_Subset
  <2>2. free(s)' = free(s) \ {i} /\ \A u \in SetIndex \ {s} : free(u)' = free(u)
    BY <1>1, <1>2 DEF Replaced
  <2>3. free(s) # {} => i \in free(s)
    BY VictimInWay DEF i
  <2>4. roomBar[s] = Cardinality(free(s)) /\ roomBar'[s] = Cardinality(free(s)')
    BY DEF roomBar
  <2>5. /\ Cardinality(free(s)) \in Nat
        /\ Cardinality(free(s)) = 0 <=> free(s) = {}
        /\ Cardinality(free(s) \ {i}) = IF i \in free(s) THEN Cardinality(free(s)) - 1
                                                         ELSE Cardinality(free(s))
    BY <2>1, FS_CardinalityType, FS_EmptySet, FS_RemoveElement
  <2>6. roomBar'[s] = IF roomBar[s] > 0 THEN roomBar[s] - 1 ELSE roomBar[s]
    <3> HIDE DEF free
    <3> QED
      BY <2>2, <2>3, <2>4, <2>5
  <2>7. \A u \in SetIndex \ {s} : roomBar'[u] = roomBar[u]
    BY <2>2 DEF roomBar
  <2> QED
    BY <2>6, <2>7 DEF roomBar
<1>11. totalCycles' = totalCycles + cost + BlockCycles
                        + (IF dirtyBar[s] \subseteq rest THEN 0 ELSE BlockCycles)
  BY <1>1, <1>3, <1>4
<1> QED
  BY <1>3, <1>4, <1>5, <1>6, <1>8, <1>9, <1>10, <1>11 DEF Abstract!Enter

\* A load of the cache is a load of the abstract one.
LEMMA LoadView ==
  ASSUME CacheInv, StampInv, NEW s \in SetIndex, NEW t \in Tag, Load(s, t)
  PROVE  Abstract!Load(s, t)
<1>1. /\ StatType /\ BlockCycles \in Nat
      /\ blocks \in [SetIndex -> [Way -> Blocks]]
  BY CacheAssumption DEF CacheInv, TypeOK
<1>2. CASE LoadHit(s, t)
  <2> DEFINE d == blocks[s][index[s][t]].isDirty
  <2>1. d \in BOOLEAN
    BY <1>1, <1>2, IndexFinds DEF LoadHit, Blocks
  <2>2. Hits(s, t, d)
    BY <1>2 DEF LoadHit, Hits
  <2>3. /\ Abstract!Use(s, t)
        /\ dirtyBar' = [dirtyBar EXCEPT ![s] = IF d THEN @ \cup {t} ELSE @ \ {t}]
    <3> HIDE DEF d
    <3> QED
      BY <2>1, <2>2, HitView DEF Abstract!Use
  <2>4. t \in dirtyBar[s] <=> d
    BY <2>3 DEF dirtyBar, Abstract!Use
  <2>5. dirtyBar' = dirtyBar
    <3> HIDE DEF d
    <3>1. (IF d THEN dirtyBar[s] \cup {t} ELSE dirtyBar[s] \ {t}) = dirtyBar[s]
      BY <2>4
    <3> QED
      BY <2>3, <3>1 DEF dirtyBar
  <2> QED
    BY <1>2, <2>3, <2>5 DEF LoadHit, policyVars, Abstract!Load, Abstract!policyVars
<1>3. CASE LoadMiss(s, t)
  <2> DEFINE d == FALSE
             cycles == BlockCycles
  <2>1. Misses(s, t, d, cycles) /\ d \in BOOLEAN
    BY <1>3, Zenon DEF LoadMiss, Misses
  <2>2. cycles \in Nat /\ cycles = 0 + BlockCycles /\ 0 \in Nat
    BY <1>1
  <2>3. Abstract!Enter(s, t, d, 0)
    <3> HIDE DEF d, cycles
    <3> QED
      BY <2>1, <2>2, MissView
  <2> QED
    BY <1>3, <2>3 DEF LoadMiss, policyVars, Abstract!Load, Abstract!policyVars
<1> QED
  BY <1>2, <1>3 DEF Load

\* A store of the cache is a store of the abstract one.
LEMMA StoreView ==
  ASSUME CacheInv, StampInv, NEW s \in SetIndex, NEW t \in Tag, Store(s, t)
  PROVE  Abstract!Store(s, t)
<1>1. /\ StatType /\ PolicyType /\ BlockCycles \in Nat
      /\ blocks \in [SetIndex -> [Way -> Blocks]]
  BY CacheAssumption DEF CacheInv, TypeOK
<1>2. CASE StoreHit(s, t)
  <2> DEFINE old == blocks[s][index[s][t]].isDirty
             d == old \/ ~writeThrough
  <2>1. d \in BOOLEAN
    BY <1>1, <1>2, IndexFinds DEF StoreHit, Blocks
  <2>2. Hits(s, t, d)
    BY <1>2 DEF StoreHit, Hits
  <2>3. /\ Abstract!Use(s, t)
        /\ dirtyBar' = [dirtyBar EXCEPT ![s] = IF d THEN @ \cup {t} ELSE @ \ {t}]
    <3> HIDE DEF d
    <3> QED
      BY <2>1, <2>2, HitView DEF Abstract!Use
  <2>4. t \in dirtyBar[s] <=> old
    BY <2>3 DEF dirtyBar, Abstract!Use
  <2> HIDE DEF old
  <2>5. CASE writeThrough
    <3>1. (IF d THEN dirtyBar[s] \cup {t} ELSE dirtyBar[s] \ {t}) = dirtyBar[s]
      BY <2>4, <2>5
    <3>2. dirtyBar' = dirtyBar
      <4> HIDE DEF d
      <4> QED
        BY <2>3, <3>1 DEF dirtyBar
    <3> QED
      BY <1>2, <2>3, <2>5, <3>2
      DEF StoreHit, policyVars, Abstract!Store, Abstract!policyVars
  <2>6. CASE ~writeThrough
    <3>1. dirtyBar' = [dirtyBar EXCEPT ![s] = @ \cup {t}] /\ totalCycles' = totalCycles
      BY <1>1, <1>2, <2>3, <2>6 DEF StoreHit, StatType
    <3> QED
      BY <1>2, <2>3, <2>6, <3>1
      DEF StoreHit, policyVars, Abstract!Store, Abstract!policyVars
  <2> QED
    BY <2>5, <2>6
<1>3. CASE StoreMiss(s, t)
  <2>1. CASE writeAllocate /\ handleMiss(s, t, ~writeThrough, BlockCycles + 1)
    <3> DEFINE d == ~writeThrough
               cycles == BlockCycles + 1
    <3>1. Misses(s, t, d, cycles)
      BY <1>3, <2>1, Zenon DEF StoreMiss, Misses
    <3>2. d \in BOOLEAN /\ cycles \in Nat /\ cycles = 1 + BlockCycles /\ 1 \in Nat
      BY <1>1
    <3>3. Abstract!Enter(s, t, d, 1)
      <4> HIDE DEF d, cycles
      <4> QED
        BY <3>1, <3>2, MissView
    <3> QED
      BY <1>3, <2>1, <3>3
      DEF StoreMiss, policyVars, Abstract!Store, Abstract!policyVars
  <2>2. CASE /\ ~writeAllocate /\ totalCycles' = totalCycles + 101
             /\ UNCHANGED <<blocks, index>>
    <3>1. UNCHANGED <<cachedBar, beforeBar, dirtyBar, roomBar>>
      BY <2>2 DEF cachedBar, beforeBar, dirtyBar, roomBar, Stamp
    <3>2. t \notin cachedBar[s]
      BY <1>3 DEF StoreMiss, cachedBar
    <3> QED
      BY <1>3, <2>2, <3>1, <3>2 DEF StoreMiss, policyVars, Abstract!Store,
         Abstract!policyVars, Abstract!setVars
  <2> QED
    BY <1>3, <2>1, <2>2 DEF StoreMiss
<1> QED
  BY <1>2, <1>3 DEF Store

\* An empty cache is an empty abstract one.
LEMMA AbstractInit == Init => Abstract!Init
<1> SUFFICES ASSUME Init PROVE Abstract!Init
  OBVIOUS
<1>1. \A s \in SetIndex : cachedBar[s] = {}
  BY DEF Init, cachedBar
<1>2. \A s \in SetIndex : roomBar[s] = Ways
  <2>1. Cardinality(Way) = Ways
    BY CacheAssumption, FS_Interval DEF Way
  <2>2. \A s \in SetIndex : {i \in Way : ~blocks[s][i].valid} = Way
    BY DEF Init, Block
  <2> QED
    BY <2>1, <2>2 DEF roomBar
<1> QED
  BY <1>1, <1>2 DEF Init, Abstract!Init, cachedBar, beforeBar, dirtyBar, roomBar

\* Hits, misses, evictions, write-backs and cycles are those of the LRU or
\* FIFO policy it was made for, for any trace that is too short for the
\* counter to wrap: a store that hits under LRU takes two of its values.
THEOREM CacheFollowsPolicy ==
  ASSUME CounterMod > 2 * MaxAccesses
  PROVE  Spec => AbstractCacheSpec
<1>1. Init => StampInv
  BY CacheAssumption DEF Init, StampInv, Accesses, Block
<1>2. CacheInv /\ StampInv /\ [Next]_vars => StampInv'
  BY StampStep
<1>3. CacheInv /\ StampInv /\ [Next]_vars => [Abstract!Next]_(Abstract!vars)
  <2> SUFFICES ASSUME CacheInv, StampInv, [Next]_vars
               PROVE  [Abstract!Next]_(Abstract!vars)
    OBVIOUS
  <2>1. CASE UNCHANGED vars
    BY <2>1 DEF vars, policyVars, statVars, Abstract!vars, Abstract!policyVars,
         Abstract!setVars, Abstract!statVars, cachedBar, beforeBar, dirtyBar,
         roomBar, Stamp
  <2>2. CASE Next
    BY <2>2, LoadView, StoreView DEF Next, Abstract!Next
  <2> QED
    BY <2>1, <2>2
<1> QED
  BY <1>1, <1>2, <1>3, AbstractInit, CacheAlways, PTL
  DEF Spec, AbstractCacheSpec, Abstract!Spec
-----------------------------------------------------------------------------
(* Cycles *)

\* One more of a.
LEMMA OneMore ==
  ASSUME NEW a \in Nat, NEW b \in Nat
  PROVE  a * (b + 1) = a * b + a /\ (b + 1) * a = b * a + a
OBVIOUS

\* Replacing a block changes the number of dirty ones by what it was and is.
LEMMA DirtyReplaced ==
  ASSUME CacheInv, IsFiniteSet(Dirty), NEW s \in SetIndex, NEW i \in Way, NEW b,
         Replaced(s, i, b)
  PROVE  /\ IsFiniteSet(Dirty')
         /\ Cardinality(Dirty) \in Nat /\ Cardinality(Dirty') \in Nat
         /\ Cardinality(Dirty') = Cardinality(Dirty)
              - (IF blocks[s][i].isDirty THEN 1 ELSE 0) + (IF b.isDirty THEN 1 ELSE 0)
<1> DEFINE p == <<s, i>>
           kept == Dirty \ {p}
<1>1. p \in Dirty <=> blocks[s][i].isDirty
  BY DEF Dirty
<1>2. Dirty' = IF b.isDirty THEN kept \cup {p} ELSE kept
  <2>1. \A u \in SetIndex, j \in Way :
          <<u, j>> \in Dirty' <=> IF u = s /\ j = i THEN b.isDirty
                                                   ELSE <<u, j>> \in Dirty
    BY DEF Dirty, Replaced
  <2>2. Dirty \subseteq SetIndex \X Way /\ Dirty' \subseteq SetIndex \X Way
    BY DEF Dirty
  <2>3. \A q \in SetIndex \X Way :
          q \in Dirty' <=> IF q = p THEN b.isDirty ELSE q \in Dirty
    BY <2>1
  <2> QED
    BY <2>2, <2>3
<1>3. /\ IsFiniteSet(kept) /\ p \notin kept
      /\ Cardinality(kept) = IF p \in Dirty THEN Cardinality(Dirty) - 1
                                            ELSE Cardinality(Dirty)
  BY FS_RemoveElement
<1>4. IsFiniteSet(kept \cup {p}) /\ Cardinality(kept \cup {p}) = Cardinality(kept) + 1
  BY <1>3, FS_AddElement
<1>5. IsFiniteSet(Dirty')
  BY <1>2, <1>3, <1>4
<1>6. Cardinality(Dirty) \in Nat /\ Cardinality(kept) \in Nat /\ Cardinality(Dirty') \in Nat
  BY <1>3, <1>5, FS_CardinalityType
<1> HIDE DEF kept, p
<1> QED
  BY <1>1, <1>2, <1>3, <1>4, <1>5, <1>6

\* The parts of CyclesExplained.
Fetched == loadMisses + (IF writeAllocate THEN saveMisses ELSE 0)
Stored == IF writeThrough THEN 101 * saveHits ELSE 0
Missed == (IF writeAllocate THEN 1 ELSE 101) * saveMisses

\* k blocks have been written back.
WrittenBack(k) ==
  /\ totalCycles = BlockCycles * Fetched + Stored + Missed + k * BlockCycles
  /\ k + Cardinality(Dirty) <= saveHits + saveMisses
  /\ writeThrough => k = 0

CyclesInv == IsFiniteSet(Dirty) /\ \E k \in Nat : WrittenBack(k)

\* That is what CyclesExplained says.
LEMMA CyclesFollow ==
  ASSUME CacheInv, CyclesInv
  PROVE  CyclesExplained
<1>1. /\ StatType /\ PolicyType /\ BlockCycles \in Nat /\ Cardinality(Dirty) \in Nat
  BY CacheAssumption, FS_CardinalityType DEF CacheInv, TypeOK, CyclesInv
<1>2. PICK k \in Nat : WrittenBack(k)
  BY DEF CyclesInv
<1>3. k \in 0..(saveHits + saveMisses)
  BY <1>1, <1>2 DEF WrittenBack, StatType
<1> DEFINE fetched == BlockCycles * Fetched
           written == k * BlockCycles
<1>4. /\ fetched \in Int /\ written \in Int /\ Stored \in Int /\ Missed \in Int
      /\ totalCycles \in Int
  BY <1>1 DEF Fetched, Stored, Missed, StatType
<1>5. totalCycles - fetched - Stored - Missed = written
  <2> HIDE DEF fetched, written
  <2>1. totalCycles = fetched + Stored + Missed + written
    BY <1>2 DEF WrittenBack, fetched, written
  <2> QED
    BY <1>4, <2>1
<1> QED
  BY <1>2, <1>3, <1>5 DEF WrittenBack, CyclesExplained, Fetched, Stored, Missed

\* A block is fetched, n is written back, and m words are stored.
LEMMA WrittenMore ==
  ASSUME StatType, PolicyType, BlockCycles \in Nat, Cardinality(Dirty) \in Nat,
         NEW k \in Nat, WrittenBack(k), NEW n \in {0, 1}, NEW m \in {0, 1},
         writeThrough' = writeThrough, writeThrough => n = 0,
         Fetched' = Fetched + 1, Stored' = Stored, Missed' = Missed + m,
         saveHits' = saveHits, saveMisses' = saveMisses + m,
         Cardinality(Dirty') \in Nat,
         Cardinality(Dirty') <= Cardinality(Dirty) - n + m,
         totalCycles' = totalCycles + (BlockCycles + m)
                          + (IF n = 1 THEN BlockCycles ELSE 0)
  PROVE  WrittenBack(k + n)'
<1> DEFINE fetched  == BlockCycles * Fetched
           written  == k * BlockCycles
           fetched2 == BlockCycles * (Fetched + 1)
           written2 == (k + n) * BlockCycles
<1>1. /\ Fetched \in Nat /\ Stored \in Nat /\ Missed \in Nat /\ totalCycles \in Nat
      /\ saveHits \in Nat /\ saveMisses \in Nat
  BY DEF Fetched, Stored, Missed, StatType
<1>2. fetched \in Nat /\ written \in Nat
  BY <1>1
<1>3. fetched2 = fetched + BlockCycles
  BY <1>1, OneMore
<1>4. CASE n = 0
  <2>1. written2 = written
    BY <1>4
  <2> HIDE DEF fetched, written, fetched2, written2
  <2>2. totalCycles = fetched + Stored + Missed + written
    BY DEF WrittenBack, fetched, written
  <2>3. totalCycles' = fetched2 + Stored + (Missed + m) + written2
    BY <1>1, <1>2, <1>3, <1>4, <2>1, <2>2
  <2>4. totalCycles' = BlockCycles * Fetched' + Stored' + Missed' + (k + n) * BlockCycles
    BY <2>3 DEF fetched2, written2
  <2> QED
    BY <1>1, <1>4, <2>4 DEF WrittenBack
<1>5. CASE n = 1
  <2>1. written2 = written + BlockCycles
    BY <1>5, OneMore
  <2> HIDE DEF fetched, written, fetched2, written2
  <2>2. totalCycles = fetched + Stored + Missed + written
    BY DEF WrittenBack, fetched, written
  <2>3. totalCycles' = fetched2 + Stored + (Missed + m) + written2
    BY <1>1, <1>2, <1>3, <1>5, <2>1, <2>2
  <2>4. totalCycles' = BlockCycles * Fetched' + Stored' + Missed' + (k + n) * BlockCycles
    BY <2>3 DEF fetched2, written2
  <2> QED
    BY <1>1, <1>5, <2>4 DEF WrittenBack
<1> QED
  BY <1>4, <1>5

\* Each access adds to the cycles what it adds to their causes.
LEMMA CyclesStep ==
  ASSUME CacheInv, CyclesInv, [Next]_vars
  PROVE  CyclesInv'
<1>1. /\ StatType /\ PolicyType /\ BlockCycles \in Nat
      /\ blocks \in [SetIndex -> [Way -> Blocks]]
      /\ Cardinality(Dirty) \in Nat /\ IsFiniteSet(Dirty)
  BY CacheAssumption, FS_CardinalityType DEF CacheInv, TypeOK, CyclesInv
<1>2. PICK k \in Nat : WrittenBack(k)
  BY DEF CyclesInv
<1>3. /\ Fetched \in Nat /\ Stored \in Nat /\ Missed \in Nat
      /\ BlockCycles * Fetched \in Nat /\ k * BlockCycles \in Nat
      /\ (k + 1) * BlockCycles = k * BlockCycles + BlockCycles
      /\ BlockCycles * (Fetched + 1) = BlockCycles * Fetched + BlockCycles
  BY <1>1, OneMore DEF Fetched, Stored, Missed, StatType
<1> DEFINE Back(s) == IF blocks[s][Victim(s)].isDirty THEN 1 ELSE 0
<1>4. ASSUME NEW s \in SetIndex, NEW t \in Tag, NEW d \in BOOLEAN,
             NEW cycles \in Nat, Misses(s, t, d, cycles)
      PROVE  /\ IsFiniteSet(Dirty') /\ Cardinality(Dirty') \in Nat
             /\ Cardinality(Dirty') = Cardinality(Dirty) - Back(s) + (IF d THEN 1 ELSE 0)
             /\ (k + Back(s)) * BlockCycles
                  = k * BlockCycles + (IF blocks[s][Victim(s)].isDirty THEN BlockCycles ELSE 0)
             /\ totalCycles' = totalCycles + cycles
                  + (IF blocks[s][Victim(s)].isDirty THEN BlockCycles ELSE 0)
             /\ Back(s) \in {0, 1} /\ (writeThrough => Back(s) = 0)
  <2>1. /\ Victim(s) \in Way /\ Replaced(s, Victim(s), Fresh(t, d))
        /\ totalCycles' = totalCycles + cycles
                  + (IF blocks[s][Victim(s)].isDirty THEN BlockCycles ELSE 0)
    BY <1>4, MissResult
  <2>2. Fresh(t, d).isDirty = d
    BY NewBlockFields
  <2>3. blocks[s][Victim(s)].isDirty => ~writeThrough
    BY <2>1 DEF CacheInv, DirtyBlocks
  <2>4. /\ IsFiniteSet(Dirty') /\ Cardinality(Dirty') \in Nat
        /\ Cardinality(Dirty') = Cardinality(Dirty) - Back(s) + (IF d THEN 1 ELSE 0)
    BY <1>1, <2>1, <2>2, DirtyReplaced
  <2>5. (k + 0) * BlockCycles = k * BlockCycles
    BY <1>1
  <2> QED
    BY <1>3, <2>1, <2>3, <2>4, <2>5
<1>5. ASSUME NEW s \in SetIndex, NEW t \in Tag, NEW d \in BOOLEAN, Hits(s, t, d)
      PROVE  /\ IsFiniteSet(Dirty') /\ Cardinality(Dirty') \in Nat
             /\ Cardinality(Dirty') <= Cardinality(Dirty) + 1
             /\ (d => blocks[s][index[s][t]].isDirty)
                  => Cardinality(Dirty') <= Cardinality(Dirty)
  <2>1. index[s][t] \in Way /\ Replaced(s, index[s][t], Renewed(s, t, d))
    BY <1>5, HitResult
  <2>2. Renewed(s, t, d).isDirty = d
    BY NewBlockFields
  <2> QED
    BY <1>1, <2>1, <2>2, DirtyReplaced
<1>6. ASSUME NEW s \in SetIndex, NEW t \in Tag, LoadHit(s, t)
      PROVE  CyclesInv'
  <2> DEFINE d == blocks[s][index[s][t]].isDirty
  <2>1. d \in BOOLEAN /\ Hits(s, t, d)
    BY <1>1, <1>6, IndexFinds DEF LoadHit, Hits, Blocks
  <2>2. /\ IsFiniteSet(Dirty') /\ Cardinality(Dirty') \in Nat
        /\ Cardinality(Dirty') <= Cardinality(Dirty)
    BY <1>5, <2>1
  <2>3. /\ Fetched' = Fetched /\ Stored' = Stored /\ Missed' = Missed
        /\ totalCycles' = totalCycles /\ writeThrough' = writeThrough
        /\ saveHits' = saveHits /\ saveMisses' = saveMisses
    BY <1>6 DEF LoadHit, policyVars, Fetched, Stored, Missed
  <2>4. WrittenBack(k)'
    BY <1>1, <1>2, <2>2, <2>3 DEF WrittenBack, StatType
  <2> QED
    BY <2>2, <2>4 DEF CyclesInv
<1>7. ASSUME NEW s \in SetIndex, NEW t \in Tag, LoadMiss(s, t)
      PROVE  CyclesInv'
  <2> DEFINE d == FALSE
  <2>1. d \in BOOLEAN /\ Misses(s, t, d, BlockCycles) /\ ~d
    BY <1>7 DEF LoadMiss, Misses
  <2> HIDE DEF d
  <2>2. /\ IsFiniteSet(Dirty') /\ Cardinality(Dirty') \in Nat
        /\ Cardinality(Dirty') = Cardinality(Dirty) - Back(s)
        /\ (k + Back(s)) * BlockCycles
             = k * BlockCycles + (IF blocks[s][Victim(s)].isDirty THEN BlockCycles ELSE 0)
        /\ totalCycles' = totalCycles + BlockCycles
             + (IF blocks[s][Victim(s)].isDirty THEN BlockCycles ELSE 0)
        /\ Back(s) \in {0, 1} /\ (writeThrough => Back(s) = 0)
    BY <1>1, <1>4, <2>1
  <2>3. /\ Fetched' = Fetched + 1 /\ Stored' = Stored /\ Missed' = Missed
        /\ writeThrough' = writeThrough
        /\ saveHits' = saveHits /\ saveMisses' = saveMisses
    BY <1>1, <1>7 DEF LoadMiss, policyVars, Fetched, Stored, Missed, StatType
  <2>4. PICK n \in {0, 1} : n = Back(s)
    BY <2>2
  <2>5. /\ Missed' = Missed + 0 /\ saveMisses' = saveMisses + 0
        /\ totalCycles' = totalCycles + (BlockCycles + 0)
                            + (IF n = 1 THEN BlockCycles ELSE 0)
        /\ Cardinality(Dirty') <= Cardinality(Dirty) - n + 0
        /\ writeThrough => n = 0
    BY <1>1, <1>3, <2>2, <2>3, <2>4 DEF StatType
  <2>6. WrittenBack(k + n)' /\ k + n \in Nat
    BY <1>1, <1>2, <2>2, <2>3, <2>5, WrittenMore
  <2> QED
    BY <2>2, <2>6 DEF CyclesInv
<1>8. ASSUME NEW s \in SetIndex, NEW t \in Tag, StoreHit(s, t)
      PROVE  CyclesInv'
  <2> DEFINE d == blocks[s][index[s][t]].isDirty \/ ~writeThrough
  <2>1. d \in BOOLEAN /\ Hits(s, t, d)
    BY <1>1, <1>8, IndexFinds DEF StoreHit, Hits, Blocks
  <2>2. /\ IsFiniteSet(Dirty') /\ Cardinality(Dirty') \in Nat
        /\ Cardinality(Dirty') <= Cardinality(Dirty) + 1
    BY <1>5, <2>1
  <2>3. /\ Fetched' = Fetched /\ Missed' = Missed
        /\ Stored' = Stored + (IF writeThrough THEN 101 ELSE 0)
        /\ totalCycles' = totalCycles + (IF writeThrough THEN 101 ELSE 0)
        /\ writeThrough' = writeThrough
        /\ saveHits' = saveHits + 1 /\ saveMisses' = saveMisses
    BY <1>1, <1>8 DEF StoreHit, policyVars, Fetched, Stored, Missed, StatType
  <2>4. WrittenBack(k)'
    BY <1>1, <1>2, <1>3, <2>2, <2>3 DEF WrittenBack, StatType
  <2> QED
    BY <2>2, <2>4 DEF CyclesInv
<1>9. ASSUME NEW s \in SetIndex, NEW t \in Tag, StoreMiss(s, t)
      PROVE  CyclesInv'
  <2>1. CASE writeAllocate /\ handleMiss(s, t, ~writeThrough, BlockCycles + 1)
    <3> DEFINE d == ~writeThrough
    <3>1. Misses(s, t, d, BlockCycles + 1)
      BY <1>9, <2>1, Zenon DEF StoreMiss, Misses
    <3>2. d \in BOOLEAN /\ BlockCycles + 1 \in Nat
      BY <1>1
    <3> HIDE DEF d
    <3>3. /\ IsFiniteSet(Dirty') /\ Cardinality(Dirty') \in Nat
          /\ Cardinality(Dirty') <= Cardinality(Dirty) - Back(s) + 1
          /\ (k + Back(s)) * BlockCycles
               = k * BlockCycles + (IF blocks[s][Victim(s)].isDirty THEN BlockCycles ELSE 0)
          /\ totalCycles' = totalCycles + (BlockCycles + 1)
               + (IF blocks[s][Victim(s)].isDirty THEN BlockCycles ELSE 0)
          /\ Back(s) \in {0, 1} /\ (writeThrough => Back(s) = 0)
      BY <1>1, <1>4, <3>1, <3>2
    <3>4. /\ Fetched' = Fetched + 1 /\ Stored' = Stored /\ Missed' = Missed + 1
          /\ writeThrough' = writeThrough
          /\ saveHits' = saveHits /\ saveMisses' = saveMisses + 1
      BY <1>1, <1>9, <2>1 DEF StoreMiss, policyVars, Fetched, Stored, Missed, StatType
    <3>5. PICK n \in {0, 1} : n = Back(s)
      BY <3>3
    <3>6. /\ totalCycles' = totalCycles + (BlockCycles + 1)
                              + (IF n = 1 THEN BlockCycles ELSE 0)
          /\ Cardinality(Dirty') <= Cardinality(Dirty) - n + 1
          /\ writeThrough => n = 0
      BY <1>1, <1>3, <3>3, <3>5 DEF StatType
    <3>7. WrittenBack(k + n)' /\ k + n \in Nat
      BY <1>1, <1>2, <3>3, <3>4, <3>6, WrittenMore
    <3> QED
      BY <3>3, <3>7 DEF CyclesInv
  <2>2. CASE /\ ~writeAllocate /\ totalCycles' = totalCycles + 101
             /\ UNCHANGED <<blocks, index>>
    <3>1. /\ Fetched' = Fetched /\ Stored' = Stored /\ Missed' = Missed + 101
          /\ writeThrough' = writeThrough
          /\ saveHits' = saveHits /\ saveMisses' = saveMisses + 1
      BY <1>1, <1>9, <2>2 DEF StoreMiss, policyVars, Fetched, Stored, Missed, StatType
    <3>2. Dirty' = Dirty
      BY <2>2 DEF Dirty
    <3>3. WrittenBack(k)'
      BY <1>1, <1>2, <1>3, <2>2, <3>1, <3>2 DEF WrittenBack, StatType
    <3> QED
      BY <1>1, <3>2, <3>3 DEF CyclesInv
  <2> QED
    BY <1>9, <2>1, <2>2 DEF StoreMiss
<1>10. CASE UNCHANGED vars
  BY <1>10 DEF vars, policyVars, statVars, CyclesInv, WrittenBack, Fetched, Stored,
               Missed, Dirty
<1> QED
  BY <1>6, <1>7, <1>8, <1>9, <1>10 DEF Next, Load, Store

\* The cycles reported are those of the blocks fetched, the words written
\* through and the blocks written back, each of which a store had made dirty;
\* that does not depend on the counter.
THEOREM CyclesAlwaysExplained == Spec => []CyclesExplained
<1>1. Init => CyclesInv
  <2> SUFFICES ASSUME Init PROVE CyclesInv
    OBVIOUS
  <2>1. Dirty = {}
    BY DEF Init, Dirty, Block
  <2>2. BlockCycles \in Nat
    BY CacheAssumption
  <2>3. WrittenBack(0)
    BY <2>1, <2>2, FS_EmptySet DEF Init, WrittenBack, Fetched, Stored, Missed
  <2> QED
    BY <2>1, <2>3, FS_EmptySet DEF CyclesInv
<1>2. CacheInv /\ CyclesInv /\ [Next]_vars => CyclesInv'
  BY CyclesStep
<1>3. CacheInv /\ CyclesInv => CyclesExplained
  BY CyclesFollow
<1> QED
  BY <1>1, <1>2, <1>3, CacheAlways, PTL DEF Spec
=============================================================================
