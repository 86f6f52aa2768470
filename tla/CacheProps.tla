----------------------------- MODULE CacheProps -----------------------------
(* What is true of Cache, and of what it reports.                          *)
EXTENDS Cache, FiniteSets

Blocks == [tag : Tag, valid : BOOLEAN, isDirty : BOOLEAN,
           timeStamp : 0..(CounterMod - 1)]

PolicyType ==
  /\ writeAllocate \in BOOLEAN
  /\ writeThrough \in BOOLEAN
  /\ isLRU \in BOOLEAN
  /\ writeAllocate \/ writeThrough

StatType ==
  /\ loadHits \in Nat /\ loadMisses \in Nat
  /\ saveHits \in Nat /\ saveMisses \in Nat
  /\ totalCycles \in Nat

\* Every member keeps its type (cache.h), the counter its width.
TypeOK ==
  /\ PolicyType
  /\ blocks \in [SetIndex -> [Way -> Blocks]]
  /\ index \in [SetIndex -> [Tag -> 0..Ways]]
  /\ counter \in 0..(CounterMod - 1)
  /\ StatType

\* The index of a set finds exactly its valid blocks, each by its tag, so no
\* tag is in two blocks, whatever has been evicted (cache.cpp:83, 100).
IndexAgrees ==
  \A s \in SetIndex, t \in Tag, i \in Way :
    index[s][t] = i <=> blocks[s][i].valid /\ blocks[s][i].tag = t

\* Only a write-back cache has blocks that memory has not seen, and only
\* among the valid ones.
DirtyBlocks ==
  \A s \in SetIndex, i \in Way :
    blocks[s][i].isDirty => blocks[s][i].valid /\ ~writeThrough

Dirty == {p \in SetIndex \X Way : blocks[p[1]][p[2]].isDirty}

\* Where the cycles come from.  A write-through cache pays for each block it
\* loads and each word it stores; a write-back cache pays for the blocks it
\* writes back instead, each of which some store has made dirty since.
CyclesExplained ==
  LET fetched == loadMisses + (IF writeAllocate THEN saveMisses ELSE 0)
      stored == IF writeThrough THEN 101 * saveHits ELSE 0
      missed == (IF writeAllocate THEN 1 ELSE 101) * saveMisses
      rest == totalCycles - BlockCycles * fetched - stored - missed
  IN \E k \in 0..(saveHits + saveMisses) :
       /\ rest = k * BlockCycles
       /\ k + Cardinality(Dirty) <= saveHits + saveMisses
       /\ writeThrough => k = 0
-----------------------------------------------------------------------------
(***************************************************************************)
(* Cache implements AbstractCache: the timestamps order the blocks of a    *)
(* set as their evictions will be ordered.                                 *)
(***************************************************************************)
cachedBar == [s \in SetIndex |-> {t \in Tag : index[s][t] # 0}]

Stamp(s, t) == blocks[s][index[s][t]].timeStamp

beforeBar ==
  [s \in SetIndex |-> {p \in cachedBar[s] \X cachedBar[s] :
                         Stamp(s, p[1]) < Stamp(s, p[2])}]

dirtyBar ==
  [s \in SetIndex |-> {t \in cachedBar[s] : blocks[s][index[s][t]].isDirty}]

roomBar == [s \in SetIndex |-> Cardinality({i \in Way : ~blocks[s][i].valid})]

Abstract == INSTANCE AbstractCache
              WITH cached <- cachedBar, before <- beforeBar,
                   dirty <- dirtyBar, room <- roomBar, cycles <- totalCycles

\* Hits, misses, evictions and cycles are those of the policy: "replace LRU
\* or FIFO block" (cache.cpp:81), each dirty block written back once.
AbstractCacheSpec == Abstract!Spec
=============================================================================
