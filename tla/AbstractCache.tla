--------------------------- MODULE AbstractCache ----------------------------
(***************************************************************************)
(* What a cache promises to whoever reads its statistics, without blocks,  *)
(* index or timestamps: which tags are cached, in which order they will be *)
(* evicted, which of them memory has an old copy of, and what each access  *)
(* costs.                                                                  *)
(***************************************************************************)
EXTENDS Integers

CONSTANTS SetIndex, Tag, Ways, BlockCycles

VARIABLES
  writeAllocate, writeThrough, isLRU,
  cached,   \* the tags in each set
  before,   \* the pairs of cached tags <<t, u>> with t to be evicted first
  dirty,    \* the cached tags that memory has an old copy of
  room,     \* the blocks of each set not yet used
  loadHits, loadMisses, saveHits, saveMisses, cycles

policyVars == <<writeAllocate, writeThrough, isLRU>>
setVars == <<cached, before, dirty, room>>
statVars == <<loadHits, loadMisses, saveHits, saveMisses, cycles>>
vars == <<policyVars, setVars, statVars>>

Init ==
  /\ writeAllocate \in BOOLEAN /\ writeThrough \in BOOLEAN
  /\ isLRU \in BOOLEAN
  /\ cached = [s \in SetIndex |-> {}]
  /\ before = [s \in SetIndex |-> {}]
  /\ dirty = [s \in SetIndex |-> {}]
  /\ room = [s \in SetIndex |-> Ways]
  /\ loadHits = 0 /\ loadMisses = 0 /\ saveHits = 0 /\ saveMisses = 0
  /\ cycles = 0

\* The order of the tags ts in which t, the last of them, comes last.
WithLast(order, ts, t) ==
  {p \in order : p[1] \in ts \ {t} /\ p[2] \in ts \ {t}}
    \cup {<<u, t>> : u \in ts \ {t}}

\* A hit makes t the last to go if the policy is LRU.
Use(s, t) ==
  /\ t \in cached[s]
  /\ before' = IF isLRU
                 THEN [before EXCEPT ![s] = WithLast(@, cached[s], t)]
                 ELSE before
  /\ UNCHANGED <<cached, room>>

\* What is left of set s once there is a block for another tag: all of it if
\* there was room, else all but the tag that was before all others.
Keeps(s, rest) ==
  \/ room[s] > 0 /\ rest = cached[s]
  \/ /\ room[s] = 0
     /\ \E v \in cached[s] :
          /\ rest = cached[s] \ {v}
          /\ \A u \in rest : <<v, u>> \in before[s]

\* A miss brings t into the set; what makes room is written to memory first.
Enter(s, t, isDirty, cost) ==
  /\ t \notin cached[s]
  /\ \E rest \in SUBSET cached[s] :
       /\ Keeps(s, rest)
       /\ cached' = [cached EXCEPT ![s] = rest \cup {t}]
       /\ before' = [before EXCEPT ![s] = WithLast(@, rest \cup {t}, t)]
       /\ dirty' = [dirty EXCEPT ![s] =
                      (@ \cap rest) \cup (IF isDirty THEN {t} ELSE {})]
       /\ cycles' = cycles + cost + BlockCycles
                      + (IF dirty[s] \subseteq rest THEN 0 ELSE BlockCycles)
  /\ room' = [room EXCEPT ![s] = IF @ > 0 THEN @ - 1 ELSE @]

Load(s, t) ==
  /\ \/ /\ Use(s, t)
        /\ loadHits' = loadHits + 1
        /\ UNCHANGED <<loadMisses, dirty, cycles>>
     \/ /\ Enter(s, t, FALSE, 0)
        /\ loadMisses' = loadMisses + 1
        /\ UNCHANGED loadHits
  /\ UNCHANGED <<policyVars, saveHits, saveMisses>>

\* A store reaches memory at once, for the cost of a word, or leaves the
\* block dirty; one that misses brings the block in if the policy says so.
Store(s, t) ==
  /\ \/ /\ Use(s, t)
        /\ saveHits' = saveHits + 1
        /\ IF writeThrough
             THEN cycles' = cycles + 101 /\ UNCHANGED dirty
             ELSE /\ dirty' = [dirty EXCEPT ![s] = @ \cup {t}]
                  /\ UNCHANGED cycles
        /\ UNCHANGED saveMisses
     \/ /\ writeAllocate
        /\ Enter(s, t, ~writeThrough, 1)
        /\ saveMisses' = saveMisses + 1
        /\ UNCHANGED saveHits
     \/ /\ ~writeAllocate
        /\ t \notin cached[s]
        /\ saveMisses' = saveMisses + 1
        /\ cycles' = cycles + 101
        /\ UNCHANGED <<setVars, saveHits>>
  /\ UNCHANGED <<policyVars, loadHits, loadMisses>>

Next == \E s \in SetIndex, t \in Tag : Load(s, t) \/ Store(s, t)

Spec == Init /\ [][Next]_vars
=============================================================================
