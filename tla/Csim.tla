-------------------------------- MODULE Csim --------------------------------
(***************************************************************************)
(* The simulator of csf_assign03 (csim.cpp): main reads a trace, splits    *)
(* each address into tag and set index with shifts of 32-bit words, and    *)
(* lets the cache load or store.                                           *)
(***************************************************************************)
EXTENDS Cache

CONSTANTS
  AddrBits,    \* the bits of an address: 32 in the code
  MaxLogSets,  \* bound: the largest logBase2(numSets)
  LogBlock     \* logBase2(blockSize)

\* 1 shifted left by n.
Pow2[n \in 0..AddrBits] == IF n = 0 THEN 1 ELSE 2 * Pow2[n - 1]

Addr == 0..(Pow2[AddrBits] - 1)

\* What checkArgValidity lets through, short of a cache as large as memory.
ASSUME CsimAssumption ==
  /\ AddrBits \in Nat /\ MaxLogSets \in Nat
  /\ LogBlock \in Nat /\ LogBlock >= 2
  /\ MaxLogSets + LogBlock < AddrBits
  /\ SetIndex = 0..(Pow2[MaxLogSets] - 1)
  /\ Tag = 0..(Pow2[AddrBits - LogBlock] - 1)
  /\ ZeroTag = 0
  /\ BlockCycles = (Pow2[LogBlock] \div 4) * 100

VARIABLES
  logSets,  \* logBase2(numSets); sets 0 to numSets - 1 are those in use
  addr,     \* history: the address of the last line, or -1
  op,       \* history: "s" if it was a store, else "l"
  seen      \* history: the memory blocks the trace has named

traceVars == <<logSets, addr, op, seen>>

\* Shifts of a 32-bit word, by less than its width.
LeftShift(x, n) == (x * Pow2[n]) % Pow2[AddrBits]
RightShift(x, n) == x \div Pow2[n]

\* Mutant: a bit of the tag is dropped.
tagOf_OneBitLess(a) == RightShift(a, LogBlock + logSets + 1)

tagOf(a) == RightShift(a, LogBlock + logSets)

\* Mutant: one bit too many is shifted out.
setOf_OneBitMore(a) ==
  IF logSets = 0 THEN 0
  ELSE RightShift(LeftShift(a, AddrBits - (LogBlock + logSets) + 1),
                  AddrBits - logSets)

\* The set index: shift the tag out, then the rest down.  With one set the
\* code shifts by the whole width, which may give any word, and then sets the
\* index to 0 all the same.
setOf(a) ==
  IF logSets = 0 THEN 0
  ELSE RightShift(LeftShift(a, AddrBits - (LogBlock + logSets)),
                  AddrBits - logSets)

MemBlock(a) == a \div Pow2[LogBlock]

\* One line of the trace: any letter but s is a load.
Line(a, letter) ==
  /\ IF letter = "s" THEN Store(setOf(a), tagOf(a))
                     ELSE Load(setOf(a), tagOf(a))
  /\ addr' = a
  /\ op' = letter
  /\ seen' = seen \cup {MemBlock(a)}
  /\ UNCHANGED logSets

TraceInit ==
  /\ Init
  /\ logSets \in 0..MaxLogSets
  /\ addr = -1 /\ op = "l" /\ seen = {}

TraceNext == \E a \in Addr, letter \in {"s", "l"} : Line(a, letter)

TraceSpec == TraceInit /\ [][TraceNext]_<<vars, traceVars>>
-----------------------------------------------------------------------------
\* What is cached is what was accessed: the set of a block is one of those in
\* use, and with its tag it gives back the number of a memory block that the
\* trace has named, so the split loses no bit of an address and mixes none.
CachedWasAccessed ==
  \A s \in SetIndex, i \in Way :
    blocks[s][i].valid => /\ s < Pow2[logSets]
                          /\ blocks[s][i].tag * Pow2[logSets] + s \in seen

\* A second access to the memory block just loaded hits, wherever in the
\* block it is, and whatever the policies and the rest of the cache.
SecondAccessHits ==
  [][/\ addr # -1 /\ op = "l"
     /\ MemBlock(addr') = MemBlock(addr)
     => UNCHANGED <<loadMisses, saveMisses>>]_<<vars, traceVars>>
=============================================================================
