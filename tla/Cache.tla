------------------------------- MODULE Cache --------------------------------
(***************************************************************************)
(* The set-associative cache of csf_assign03 (cache.h, cache.cpp): sets of *)
(* blocks, an index from tags to blocks, timestamps drawn from one counter *)
(* for all sets, hit and miss counts and simulated cycles.                 *)
(*                                                                         *)
(* Block numbers are 1..Ways; 0 in the index stands for a tag that is not  *)
(* in the unordered_map.                                                   *)
(***************************************************************************)
EXTENDS Integers

CONSTANTS
  SetIndex,     \* the sets
  Tag,          \* the tags of the addresses accessed
  ZeroTag,      \* the tag 0, which a new block has
  Ways,         \* blocksPerSet
  BlockCycles,  \* blockSize / 4 * 100
  CounterMod,   \* the values of a uint32_t: 2^32 in the code
  MaxAccesses   \* bound: loads and stores

ASSUME CacheAssumption ==
  /\ ZeroTag \in Tag
  /\ Ways \in Nat \ {0}
  /\ BlockCycles \in Nat
  /\ CounterMod \in Nat \ {0}
  /\ MaxAccesses \in Nat

Way == 1..Ways

Block(t, v, d, n) == [tag |-> t, valid |-> v, isDirty |-> d, timeStamp |-> n]

VARIABLES
  writeAllocate, writeThrough, isLRU,  \* set by the constructor
  blocks,       \* Set::blocks of every set
  index,        \* Set::index of every set
  counter,      \* the timestamp the next access uses
  loadHits, loadMisses, saveHits, saveMisses, totalCycles

policyVars == <<writeAllocate, writeThrough, isLRU>>
statVars == <<loadHits, loadMisses, saveHits, saveMisses, totalCycles>>
vars == <<policyVars, blocks, index, counter, statVars>>

\* Mutant: the policies are not checked together.
Init_AnyPolicy ==
  /\ writeAllocate \in BOOLEAN
  /\ writeThrough \in BOOLEAN
  /\ isLRU \in BOOLEAN
  /\ blocks = [s \in SetIndex |->
                 [i \in Way |-> Block(ZeroTag, FALSE, FALSE, 0)]]
  /\ index = [s \in SetIndex |-> [t \in Tag |-> 0]]
  /\ counter = 0
  /\ loadHits = 0 /\ loadMisses = 0 /\ saveHits = 0 /\ saveMisses = 0
  /\ totalCycles = 0

\* Any policies that checkArgValidity lets through.
Init ==
  /\ writeAllocate \in BOOLEAN
  /\ writeThrough \in BOOLEAN
  /\ isLRU \in BOOLEAN
  /\ writeAllocate \/ writeThrough
  /\ blocks = [s \in SetIndex |->
                 [i \in Way |-> Block(ZeroTag, FALSE, FALSE, 0)]]
  /\ index = [s \in SetIndex |-> [t \in Tag |-> 0]]
  /\ counter = 0
  /\ loadHits = 0 /\ loadMisses = 0 /\ saveHits = 0 /\ saveMisses = 0
  /\ totalCycles = 0
-----------------------------------------------------------------------------
Accesses == loadHits + loadMisses + saveHits + saveMisses

\* n increments of the counter.
Ticks(n) == counter' = (counter + n) % CounterMod

\* Mutant: the newest block.
Victim_Newest(s) ==
  CHOOSE i \in Way :
    \A j \in Way : blocks[s][j].timeStamp <= blocks[s][i].timeStamp

\* The block a miss replaces: the first invalid one, or else the first of
\* those with the smallest timestamp.
Victim(s) ==
  LET b == blocks[s]
      free == {i \in Way : ~b[i].valid}
  IN IF free # {}
       THEN CHOOSE i \in free : \A j \in free : i <= j
       ELSE CHOOSE i \in Way :
              \A j \in Way : \/ b[i].timeStamp < b[j].timeStamp
                             \/ b[i].timeStamp = b[j].timeStamp /\ i <= j

\* A block that was hit: LRU renews its timestamp, FIFO does not.
Touched(b, dirty) ==
  Block(b.tag, b.valid, dirty, IF isLRU THEN counter ELSE b.timeStamp)

WithBlock(s, i, b) == [blocks EXCEPT ![s] = [@ EXCEPT ![i] = b]]

\* Mutant: the evicted tag stays in the index.
Reindexed_NoErase(s, i, t) == [index EXCEPT ![s] = [@ EXCEPT ![t] = i]]

\* The index after block i of set s has been given to t.
Reindexed(s, i, t) ==
  [index EXCEPT ![s] =
     [u \in Tag |-> IF u = t THEN i
                    ELSE IF blocks[s][i].valid /\ u = blocks[s][i].tag THEN 0
                    ELSE index[s][u]]]

\* Mutant: the new block keeps the old one's dirty bit.
handleMiss_KeepsDirty(s, t, dirty, cycles) ==
  LET i == Victim(s)
      old == blocks[s][i]
  IN /\ blocks' = WithBlock(s, i, Block(t, TRUE, dirty \/ old.isDirty,
                                        counter))
     /\ index' = Reindexed(s, i, t)
     /\ totalCycles' = totalCycles + cycles
                         + (IF old.isDirty THEN BlockCycles ELSE 0)

(***************************************************************************)
(* handleMiss and replaceBlock: choose the victim, write it back if it is  *)
(* dirty, and put t in its place.                                          *)
(***************************************************************************)
handleMiss(s, t, dirty, cycles) ==
  LET i == Victim(s)
      old == blocks[s][i]
  IN /\ blocks' = WithBlock(s, i, Block(t, TRUE, dirty, counter))
     /\ index' = Reindexed(s, i, t)
     /\ totalCycles' = totalCycles + cycles
                         + (IF old.isDirty THEN BlockCycles ELSE 0)

\* load finds the tag, or not.
LoadHit(s, t) ==
  /\ index[s][t] # 0
  /\ LET i == index[s][t]
     IN blocks' = WithBlock(s, i, Touched(blocks[s][i], blocks[s][i].isDirty))
  /\ Ticks(IF isLRU THEN 1 ELSE 0)
  /\ loadHits' = loadHits + 1
  /\ UNCHANGED <<policyVars, index, loadMisses, saveHits, saveMisses,
                 totalCycles>>

LoadMiss(s, t) ==
  /\ index[s][t] = 0
  /\ handleMiss(s, t, FALSE, BlockCycles)
  /\ Ticks(1)
  /\ loadMisses' = loadMisses + 1
  /\ UNCHANGED <<policyVars, loadHits, saveHits, saveMisses>>

\* Mutant: every store marks its block.
StoreHit_AlwaysDirty(s, t) ==
  /\ index[s][t] # 0
  /\ blocks' = WithBlock(s, index[s][t], Touched(blocks[s][index[s][t]], TRUE))
  /\ Ticks(IF isLRU THEN 2 ELSE 1)
  /\ saveHits' = saveHits + 1
  /\ totalCycles' = totalCycles + (IF writeThrough THEN 101 ELSE 0)
  /\ UNCHANGED <<policyVars, index, loadHits, loadMisses, saveMisses>>

\* store counts once more than load.  With write-through it writes the word
\* to memory, else it marks the block.
StoreHit(s, t) ==
  /\ index[s][t] # 0
  /\ LET i == index[s][t]
     IN blocks' = WithBlock(s, i, Touched(blocks[s][i],
                              blocks[s][i].isDirty \/ ~writeThrough))
  /\ Ticks(IF isLRU THEN 2 ELSE 1)
  /\ saveHits' = saveHits + 1
  /\ totalCycles' = totalCycles + (IF writeThrough THEN 101 ELSE 0)
  /\ UNCHANGED <<policyVars, index, loadHits, loadMisses, saveMisses>>

StoreMiss(s, t) ==
  /\ index[s][t] = 0
  /\ saveMisses' = saveMisses + 1
  /\ \/ /\ writeAllocate
        /\ handleMiss(s, t, ~writeThrough, BlockCycles + 1)
        /\ Ticks(2)
     \/ /\ ~writeAllocate
        /\ totalCycles' = totalCycles + 101
        /\ Ticks(1)
        /\ UNCHANGED <<blocks, index>>
  /\ UNCHANGED <<policyVars, loadHits, loadMisses, saveHits>>

Load(s, t) == Accesses < MaxAccesses /\ (LoadHit(s, t) \/ LoadMiss(s, t))
Store(s, t) == Accesses < MaxAccesses /\ (StoreHit(s, t) \/ StoreMiss(s, t))

Next == \E s \in SetIndex, t \in Tag : Load(s, t) \/ Store(s, t)

Spec == Init /\ [][Next]_vars
=============================================================================
