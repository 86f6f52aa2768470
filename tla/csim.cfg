CONSTANTS
  SetIndex = {0, 1}
  Tag = {0, 1, 2, 3}
  ZeroTag = 0
  Ways = 2
  BlockCycles = 100
  CounterMod = 64
  MaxAccesses = 4
  AddrBits = 4
  MaxLogSets = 1
  LogBlock = 2
SPECIFICATION TraceSpec
INVARIANTS
  TypeOK
  IndexAgrees
  DirtyBlocks
  CyclesExplained
  CachedWasAccessed
PROPERTIES
  SecondAccessHits
  AbstractCacheSpec
CHECK_DEADLOCK FALSE
