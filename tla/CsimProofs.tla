----------------------------- MODULE CsimProofs -----------------------------
(***************************************************************************)
(* Proofs about the simulator, for words, sets and blocks of any number of *)
(* bits: the split of an address into tag and set index loses nothing, and *)
(* what was just loaded is found.                                          *)
(***************************************************************************)
EXTENDS Csim, CacheProofs

-----------------------------------------------------------------------------
(* Powers of two *)

\* f has the first n powers.
Powers(f, n) == f = [i \in 0..n |-> IF i = 0 THEN 1 ELSE 2 * f[i - 1]]

\* For any n there is such an f.
LEMMA PowersExist ==
  ASSUME NEW n \in Nat
  PROVE  \E f : Powers(f, n)
<1> DEFINE P(k) == \E f : Powers(f, k)
           Bad == {k \in Nat : ~P(k)}
<1>1. ASSUME NEW k \in Nat, k = 0 \/ P(k - 1)
      PROVE  P(k)
  <2>1. PICK f : k # 0 => Powers(f, k - 1)
    BY <1>1
  <2> DEFINE g == [i \in 0..k |-> IF i = 0 THEN 1 ELSE 2 * f[i - 1]]
  <2>2. ASSUME NEW i \in 0..k, i # 0
        PROVE  g[i - 1] = f[i - 1]
    <3>1. i - 1 \in 0..k /\ i - 1 \in 0..k - 1 /\ k # 0
      BY <2>2
    <3>2. g[i - 1] = IF i - 1 = 0 THEN 1 ELSE 2 * f[(i - 1) - 1]
      BY <3>1
    <3>3. f[i - 1] = IF i - 1 = 0 THEN 1 ELSE 2 * f[(i - 1) - 1]
      BY <2>1, <3>1 DEF Powers
    <3> QED
      BY <3>2, <3>3
  <2>3. Powers(g, k)
    BY <2>2 DEF Powers
  <2> QED
    BY <2>3
<1>2. Bad = {}
  <2> SUFFICES ASSUME Bad # {}
               PROVE  FALSE
    OBVIOUS
  <2> HIDE DEF P
  <2>1. PICK k \in Bad : \A i \in Bad : k <= i
    <3>1. Bad \in SUBSET Nat
      OBVIOUS
    <3> HIDE DEF Bad
    <3> QED
      BY <3>1, LeastNat
  <2>2. k = 0 \/ P(k - 1)
    BY <2>1
  <2>3. P(k)
    BY <1>1, <2>2
  <2> QED
    BY <2>3
<1> QED
  BY <1>2

\* So Pow2 is what it says.
LEMMA Pow2Def ==
  \A n \in 0..AddrBits : Pow2[n] = IF n = 0 THEN 1 ELSE 2 * Pow2[n - 1]
<1> DEFINE Is(f) == f = [n \in 0..AddrBits |-> IF n = 0 THEN 1 ELSE 2 * f[n - 1]]
           pow == CHOOSE f : Is(f)
<1>1. \E f : Is(f)
  BY PowersExist, CsimAssumption DEF Powers
<1>2. Is(pow)
  BY <1>1
<1>3. Pow2 = pow
  BY DEF Pow2
<1> HIDE DEF pow
<1> QED
  BY <1>2, <1>3

LEMMA Pow2Type ==
  \A n \in 0..AddrBits : Pow2[n] \in Nat \ {0}
<1> DEFINE Bad == {n \in 0..AddrBits : Pow2[n] \notin Nat \ {0}}
<1>1. Bad = {}
  <2> SUFFICES ASSUME Bad # {}
               PROVE  FALSE
    OBVIOUS
  <2>1. PICK k \in Bad : \A i \in Bad : k <= i
    <3>1. Bad \in SUBSET Nat
      BY CsimAssumption
    <3> HIDE DEF Bad
    <3> QED
      BY <3>1, LeastNat
  <2>2. k \in 0..AddrBits /\ Pow2[k] \notin Nat \ {0} /\ AddrBits \in Nat
    BY CsimAssumption
  <2>3. k # 0 => Pow2[k - 1] \in Nat \ {0}
    <3>1. k # 0 => k - 1 \in 0..AddrBits /\ k - 1 < k
      BY <2>2
    <3> QED
      BY <2>1, <3>1
  <2>4. Pow2[k] = IF k = 0 THEN 1 ELSE 2 * Pow2[k - 1]
    BY <2>2, Pow2Def
  <2> QED
    BY <2>2, <2>3, <2>4
<1> QED
  BY <1>1

\* Shifts add up.
LEMMA Pow2Sum ==
  ASSUME NEW m \in Nat, NEW n \in Nat, m + n <= AddrBits
  PROVE  Pow2[m + n] = Pow2[m] * Pow2[n]
<1>0. AddrBits \in Nat
  BY CsimAssumption
<1> DEFINE Bad == {k \in 0..n : Pow2[m + k] # Pow2[m] * Pow2[k]}
<1>1. Bad = {}
  <2> SUFFICES ASSUME Bad # {}
               PROVE  FALSE
    OBVIOUS
  <2>1. PICK k \in Bad : \A i \in Bad : k <= i
    <3>1. Bad \in SUBSET Nat
      OBVIOUS
    <3> HIDE DEF Bad
    <3> QED
      BY <3>1, LeastNat
  <2>2. k \in 0..n /\ Pow2[m + k] # Pow2[m] * Pow2[k]
    OBVIOUS
  <2>3. /\ m + k \in 0..AddrBits /\ k \in 0..AddrBits /\ m \in 0..AddrBits
        /\ k # 0 => m + k # 0 /\ (m + k) - 1 = m + (k - 1)
                    /\ k - 1 \in 0..n /\ k - 1 \in 0..AddrBits
    BY <1>0, <2>2
  <2>4. k # 0 => Pow2[m + (k - 1)] = Pow2[m] * Pow2[k - 1]
    <3> SUFFICES ASSUME k # 0
                 PROVE  Pow2[m + (k - 1)] = Pow2[m] * Pow2[k - 1]
      OBVIOUS
    <3>1. k - 1 \notin Bad
      BY <2>1, <2>2
    <3> QED
      BY <2>3, <3>1
  <2>5. /\ Pow2[m] \in Nat
        /\ Pow2[k] = IF k = 0 THEN 1 ELSE 2 * Pow2[k - 1]
        /\ k # 0 => /\ Pow2[k - 1] \in Nat
                    /\ Pow2[m + k] = 2 * Pow2[m + (k - 1)]
    BY <2>3, Pow2Def, Pow2Type
  <2>6. CASE k = 0
    BY <2>2, <2>5, <2>6
  <2>7. CASE k # 0
    <3>1. \A x, y \in Nat : 2 * (x * y) = x * (2 * y)
      OBVIOUS
    <3>2. Pow2[m + k] = 2 * (Pow2[m] * Pow2[k - 1])
      BY <2>4, <2>5, <2>7
    <3> QED
      BY <2>2, <2>5, <2>7, <3>1, <3>2
  <2> QED
    BY <2>6, <2>7
<1> QED
  BY <1>1

-----------------------------------------------------------------------------
(* Quotients and rests *)

\* A number is a multiple of another and a rest in one way only.
LEMMA DivModUnique ==
  ASSUME NEW x \in Nat, NEW m \in Nat \ {0}, NEW q \in Nat, NEW r \in 0..m - 1,
         x = m * q + r
  PROVE  x \div m = q /\ x % m = r
<1>1. PICK p \in Nat : p = x \div m
  BY DivMod
<1>2. PICK s \in 0..m - 1 : s = x % m
  BY DivMod
<1>3. m * p + s = m * q + r
  BY <1>1, <1>2, DivMod
<1>4. \A i, j \in Nat : i < j => m * i + m <= m * j
  <2> SUFFICES ASSUME NEW i \in Nat, NEW j \in Nat, i < j
               PROVE  m * i + m <= m * j
    OBVIOUS
  <2>1. PICK k \in Nat : j = i + 1 + k
    <3>1. j - i - 1 \in Nat /\ j = i + 1 + (j - i - 1)
      OBVIOUS
    <3> QED
      BY <3>1
  <2>2. m * (i + 1 + k) = m * i + m + m * k /\ m * k \in Nat /\ m * i \in Nat
    OBVIOUS
  <2> QED
    BY <2>1, <2>2
<1>5. m * p \in Nat /\ m * q \in Nat
  OBVIOUS
<1>6. ~(p < q) /\ ~(q < p)
  BY <1>3, <1>4, <1>5
<1> QED
  BY <1>1, <1>2, <1>3, <1>5, <1>6

\* An address is a tag, a set index and an offset, each cut off by shifts.
LEMMA SplitNumber ==
  ASSUME NEW b \in Nat \ {0}, NEW c \in Nat \ {0}, NEW d \in Nat \ {0},
         NEW a \in Nat, a < (b * c) * d
  PROVE  /\ a \div (b * c) = (a \div b) \div c
         /\ ((a * d) % ((b * c) * d)) \div (b * d) = (a \div b) % c
         /\ a \div b < c * d
<1>1. PICK y \in Nat : y = a \div b
  BY DivMod
<1>2. PICK r \in 0..b - 1 : r = a % b
  BY DivMod
<1>3. PICK t \in Nat : t = y \div c
  BY DivMod
<1>4. PICK s \in 0..c - 1 : s = y % c
  BY DivMod
<1>5. a = b * y + r /\ y = c * t + s
  BY <1>1, <1>2, <1>3, <1>4, DivMod
<1>6. /\ b * c \in Nat \ {0} /\ b * d \in Nat \ {0} /\ (b * c) * d \in Nat \ {0}
      /\ r \in Nat /\ s \in Nat
  OBVIOUS
<1> DEFINE low == b * s + r
<1>7. low \in Nat /\ low < b * c
  <2>1. PICK u \in Nat : c = s + 1 + u
    <3>1. c - s - 1 \in Nat /\ c = s + 1 + (c - s - 1)
      BY <1>4
    <3> QED
      BY <3>1
  <2>2. b * (s + 1 + u) = b * s + b + b * u /\ b * s \in Nat /\ b * u \in Nat
    BY <1>6
  <2>3. r < b
    BY <1>2
  <2> QED
    BY <1>6, <2>1, <2>2, <2>3
<1>8. a = (b * c) * t + low
  <2>1. b * (c * t + s) = (b * c) * t + b * s
    BY <1>6
  <2> QED
    BY <1>5, <1>6, <2>1
<1>9. a \div (b * c) = t
  <2> DEFINE m == b * c
  <2>1. low \in 0..m - 1 /\ m \in Nat \ {0}
    BY <1>6, <1>7
  <2>2. a = m * t + low
    BY <1>8
  <2> HIDE DEF m, low
  <2>3. a \div m = t
    BY <2>1, <2>2, DivModUnique
  <2> QED
    BY <2>3 DEF m
<1>10. (a * d) % ((b * c) * d) = low * d
  <2> DEFINE m == b * c
  <2>1. m \in Nat \ {0} /\ m * d \in Nat \ {0} /\ low \in Nat /\ low < m
    BY <1>6, <1>7
  <2>2. a * d \in Nat /\ a = m * t + low
    BY <1>8
  <2> HIDE DEF m, low
  <2>3. a * d = (m * d) * t + low * d
    BY <2>1, <2>2
  <2>4. low * d \in Nat /\ low * d < m * d
    <3>1. PICK u \in Nat : m = low + 1 + u
      <4>1. m - low - 1 \in Nat /\ m = low + 1 + (m - low - 1)
        BY <2>1
      <4> QED
        BY <4>1
    <3>2. (low + 1 + u) * d = low * d + d + u * d /\ low * d \in Nat /\ u * d \in Nat
      BY <2>1
    <3> QED
      BY <3>1, <3>2
  <2> DEFINE md == m * d
             x == a * d
             z == low * d
  <2>5. md \in Nat \ {0} /\ x \in Nat /\ z \in 0..md - 1 /\ x = md * t + z
    BY <2>1, <2>2, <2>3, <2>4
  <2> HIDE DEF md, x, z
  <2>6. x % md = z
    BY <2>5, DivModUnique
  <2> QED
    BY <2>6 DEF md, x, z, m
<1>11. (low * d) \div (b * d) = s
  <2> DEFINE m == b * d
             x == low * d
             z == r * d
  <2>1. x = m * s + z
    BY <1>6
  <2>2. z \in 0..m - 1
    <3>1. PICK u \in Nat : b = r + 1 + u
      <4>1. b - r - 1 \in Nat /\ b = r + 1 + (b - r - 1)
        BY <1>2
      <4> QED
        BY <4>1
    <3>2. (r + 1 + u) * d = r * d + d + u * d /\ r * d \in Nat /\ u * d \in Nat
      BY <1>6
    <3> QED
      BY <3>1, <3>2
  <2>3. x \in Nat /\ m \in Nat \ {0}
    BY <1>6, <1>7
  <2> HIDE DEF m, x, z
  <2>4. x \div m = s
    BY <1>6, <2>1, <2>2, <2>3, DivModUnique
  <2> QED
    BY <2>4 DEF m, x
<1>12. y < c * d
  <2> SUFFICES ASSUME ~(y < c * d)
               PROVE  FALSE
    OBVIOUS
  <2> DEFINE n == c * d
  <2>1. PICK u \in Nat : y = n + u
    <3>1. n \in Nat /\ ~(y < n)
      OBVIOUS
    <3> HIDE DEF n
    <3>2. y - n \in Nat /\ y = n + (y - n)
      BY <3>1
    <3> QED
      BY <3>2
  <2>2. b * (n + u) = b * n + b * u /\ b * u \in Nat /\ b * n \in Nat
    OBVIOUS
  <2>3. b * n = (b * c) * d
    OBVIOUS
  <2> HIDE DEF n
  <2> QED
    BY <1>5, <1>6, <2>1, <2>2, <2>3
<1> QED
  BY <1>1, <1>3, <1>4, <1>9, <1>10, <1>11, <1>12

-----------------------------------------------------------------------------
(* The split of an address *)

\* Tag and set index are the quotient and the rest of the number of the memory
\* block, and give that number back.
LEMMA SplitAddress ==
  ASSUME logSets \in 0..MaxLogSets, NEW a \in Addr
  PROVE  /\ tagOf(a) = MemBlock(a) \div Pow2[logSets]
         /\ setOf(a) = MemBlock(a) % Pow2[logSets]
         /\ tagOf(a) \in Tag /\ setOf(a) \in SetIndex
         /\ setOf(a) < Pow2[logSets]
         /\ tagOf(a) * Pow2[logSets] + setOf(a) = MemBlock(a)
<1> DEFINE k == logSets
           rest == AddrBits - (LogBlock + k)
<1>1. /\ k \in Nat /\ LogBlock \in Nat /\ AddrBits \in Nat /\ MaxLogSets \in Nat
      /\ rest \in Nat /\ MaxLogSets - k \in Nat /\ k <= AddrBits
      /\ MaxLogSets <= AddrBits /\ LogBlock <= AddrBits
      /\ LogBlock + k \in Nat /\ LogBlock + k <= AddrBits
      /\ rest <= AddrBits /\ AddrBits - k \in Nat /\ AddrBits - LogBlock \in Nat
  BY CsimAssumption
<1>2. PICK b, c, d : b = Pow2[LogBlock] /\ c = Pow2[k] /\ d = Pow2[rest]
  OBVIOUS
<1>3. b \in Nat \ {0} /\ c \in Nat \ {0} /\ d \in Nat \ {0}
  BY <1>1, <1>2, Pow2Type
<1>4. Pow2[LogBlock + k] = b * c
  BY <1>1, <1>2, Pow2Sum
<1>5. Pow2[AddrBits] = (b * c) * d
  <2>1. (LogBlock + k) + rest = AddrBits
    BY <1>1
  <2> HIDE DEF rest, k
  <2> QED
    BY <1>1, <1>2, <1>4, <2>1, Pow2Sum
<1>6. Pow2[AddrBits - k] = b * d
  <2>1. LogBlock + rest = AddrBits - k /\ LogBlock + rest <= AddrBits
    BY <1>1
  <2> HIDE DEF rest, k
  <2> QED
    BY <1>1, <1>2, <2>1, Pow2Sum
<1>7. Pow2[AddrBits - LogBlock] = c * d
  <2>1. k + rest = AddrBits - LogBlock /\ k + rest <= AddrBits
    BY <1>1
  <2> HIDE DEF rest, k
  <2> QED
    BY <1>1, <1>2, <2>1, Pow2Sum
<1>8. Pow2[MaxLogSets] \in Nat /\ c <= Pow2[MaxLogSets]
  <2>1. k + (MaxLogSets - k) = MaxLogSets
    BY <1>1
  <2>2. PICK e \in Nat \ {0} : e = Pow2[MaxLogSets - k]
    BY <1>1, Pow2Type
  <2>3. Pow2[MaxLogSets] = c * e
    <3> DEFINE n == MaxLogSets - k
    <3> HIDE DEF n, k
    <3> QED
      BY <1>1, <1>2, <2>1, <2>2, Pow2Sum DEF n
  <2>4. c * e \in Nat /\ c <= c * e
    <3>1. PICK u \in Nat : e = 1 + u
      <4>1. e - 1 \in Nat /\ e = 1 + (e - 1)
        OBVIOUS
      <4> QED
        BY <4>1
    <3>2. c * (1 + u) = c + c * u /\ c * u \in Nat
      BY <1>3
    <3> QED
      BY <1>3, <3>1, <3>2
  <2> QED
    BY <2>3, <2>4
<1>9. a \in Nat /\ a < (b * c) * d
  <2>1. (b * c) * d \in Nat
    BY <1>3
  <2> QED
    BY <1>5, <2>1 DEF Addr
<1>10. PICK y \in Nat : y = a \div b
  BY <1>3, <1>9, DivMod
<1>11. MemBlock(a) = y
  BY <1>2, <1>10 DEF MemBlock
<1>12. /\ a \div (b * c) = y \div c /\ y < c * d
       /\ ((a * d) % ((b * c) * d)) \div (b * d) = y % c
  <2>1. /\ a \div (b * c) = (a \div b) \div c
        /\ ((a * d) % ((b * c) * d)) \div (b * d) = (a \div b) % c
        /\ a \div b < c * d
    BY <1>3, <1>9, SplitNumber, Zenon
  <2> QED
    BY <1>10, <2>1, Zenon
<1>13. PICK t \in Nat, s \in 0..c - 1 : t = y \div c /\ s = y % c /\ y = c * t + s
  BY <1>3, DivMod
<1>14. tagOf(a) = t
  BY <1>4, <1>12, <1>13 DEF tagOf, RightShift
<1>15. setOf(a) = s
  <2>1. CASE k = 0
    <3>1. c = 1
      BY <1>1, <1>2, <2>1, Pow2Def
    <3>2. s = 0
      BY <1>13, <3>1
    <3> QED
      BY <2>1, <3>2 DEF setOf
  <2>2. CASE k # 0
    <3>1. setOf(a) = ((a * d) % ((b * c) * d)) \div (b * d)
      BY <1>2, <1>5, <1>6, <2>2 DEF setOf, RightShift, LeftShift
    <3> QED
      BY <1>12, <1>13, <3>1
  <2> QED
    BY <2>1, <2>2
<1>16. t \in Tag
  <2>1. t <= y
    <3>1. PICK u \in Nat : c = 1 + u
      <4>1. c - 1 \in Nat /\ c = 1 + (c - 1)
        BY <1>3
      <4> QED
        BY <4>1
    <3>2. (1 + u) * t = t + u * t /\ u * t \in Nat
      OBVIOUS
    <3> QED
      BY <1>13, <3>1, <3>2
  <2>2. c * d \in Nat
    BY <1>3
  <2>3. t \in 0..c * d - 1
    BY <1>12, <2>1, <2>2
  <2>4. Tag = 0..Pow2[AddrBits - LogBlock] - 1
    BY CsimAssumption
  <2> QED
    BY <1>7, <2>3, <2>4
<1>17. s \in SetIndex /\ s < c
  <2>1. SetIndex = 0..Pow2[MaxLogSets] - 1
    BY CsimAssumption
  <2> QED
    BY <1>3, <1>8, <1>13, <2>1
<1>18. t * c + s = y
  BY <1>3, <1>13
<1> QED
  BY <1>2, <1>11, <1>13, <1>14, <1>15, <1>16, <1>17, <1>18

-----------------------------------------------------------------------------
(* What is cached *)

\* Only the tag of the access enters the index, and after a load it is there.
LEMMA IndexGrows ==
  ASSUME CacheInv, NEW s \in SetIndex, NEW t \in Tag, Load(s, t) \/ Store(s, t)
  PROVE  /\ \A u \in SetIndex, w \in Tag :
              index'[u][w] # 0 => index[u][w] # 0 \/ (u = s /\ w = t)
         /\ Load(s, t) => index'[s][t] # 0
<1>1. index \in [SetIndex -> [Tag -> 0..Ways]]
  BY DEF CacheInv, TypeOK
<1>2. Victim(s) \in Way /\ 0 \notin Way
  BY VictimInWay DEF Way
<1>3. \/ index' = index /\ (Load(s, t) => index[s][t] # 0)
      \/ index' = Reindexed(s, Victim(s), t)
  <2>1. LoadHit(s, t) \/ StoreHit(s, t) => index' = index /\ index[s][t] # 0
    BY DEF LoadHit, StoreHit
  <2>2. LoadMiss(s, t) => index' = Reindexed(s, Victim(s), t)
    BY DEF LoadMiss, handleMiss
  <2>3. StoreMiss(s, t) => \/ index' = Reindexed(s, Victim(s), t)
                           \/ index' = index /\ index[s][t] = 0 /\ saveMisses' = saveMisses + 1
    BY DEF StoreMiss, handleMiss
  <2>4. Load(s, t) => saveMisses' = saveMisses /\ (LoadHit(s, t) \/ LoadMiss(s, t))
    BY DEF Load, LoadHit, LoadMiss
  <2>5. saveMisses \in Nat
    BY DEF CacheInv, TypeOK, StatType
  <2>6. Store(s, t) => StoreHit(s, t) \/ StoreMiss(s, t)
    BY DEF Store
  <2>7. saveMisses + 1 # saveMisses
    BY <2>5
  <2> QED
    BY <2>1, <2>2, <2>3, <2>4, <2>6, <2>7
<1>4. CASE index' = Reindexed(s, Victim(s), t)
  <2>1. \A u \in SetIndex, w \in Tag :
          index'[u][w] = IF u # s THEN index[u][w]
                         ELSE IF w = t THEN Victim(s)
                         ELSE IF blocks[s][Victim(s)].valid
                                 /\ w = blocks[s][Victim(s)].tag THEN 0
                         ELSE index[u][w]
    BY <1>1, <1>4 DEF Reindexed
  <2> QED
    BY <1>2, <2>1
<1> QED
  BY <1>3, <1>4

TraceType ==
  /\ logSets \in 0..MaxLogSets
  /\ addr \in Addr \cup {-1}

\* The index leads only to sets in use and memory blocks named by the trace,
\* and after a load to the block of its address.
TraceInv ==
  /\ CacheInv /\ TraceType
  /\ \A s \in SetIndex, t \in Tag :
       index[s][t] # 0 => /\ s < Pow2[logSets]
                          /\ t * Pow2[logSets] + s \in seen
  /\ addr # -1 /\ op = "l" => index[setOf(addr)][tagOf(addr)] # 0

LEMMA TraceStarts == ASSUME TraceInit PROVE TraceInv
<1>1. CacheInv
  BY CacheInit DEF TraceInit
<1>2. /\ index = [s \in SetIndex |-> [t \in Tag |-> 0]]
      /\ logSets \in 0..MaxLogSets /\ addr = -1
  BY DEF TraceInit, Init
<1> QED
  BY <1>1, <1>2 DEF TraceInv, TraceType

LEMMA LineKeeps ==
  ASSUME TraceInv, NEW a \in Addr, NEW letter \in {"s", "l"}, Line(a, letter)
  PROVE  TraceInv'
<1> DEFINE s == setOf(a)
           t == tagOf(a)
<1>1. /\ logSets \in 0..MaxLogSets /\ CacheInv
      /\ logSets' = logSets /\ addr' = a /\ op' = letter
      /\ seen' = seen \cup {MemBlock(a)}
  BY DEF TraceInv, TraceType, Line
<1>2. /\ s \in SetIndex /\ t \in Tag /\ s < Pow2[logSets]
      /\ t * Pow2[logSets] + s = MemBlock(a)
  BY <1>1, SplitAddress
<1>3. /\ Load(s, t) \/ Store(s, t)
      /\ letter = "l" => Load(s, t)
  BY DEF Line
<1>4. CacheInv'
  <2>1. Next
    BY <1>2, <1>3 DEF Next
  <2> QED
    BY <1>1, <2>1, CacheStep
<1>5. setOf(a)' = s /\ tagOf(a)' = t
  BY <1>1 DEF setOf, tagOf
<1> HIDE DEF s, t
<1>6. /\ \A u \in SetIndex, w \in Tag :
           index'[u][w] # 0 => index[u][w] # 0 \/ (u = s /\ w = t)
      /\ Load(s, t) => index'[s][t] # 0
  BY <1>1, <1>2, <1>3, IndexGrows
<1>7. ASSUME NEW u \in SetIndex, NEW w \in Tag, index'[u][w] # 0
      PROVE  u < Pow2[logSets'] /\ w * Pow2[logSets'] + u \in seen'
  BY <1>1, <1>2, <1>6, <1>7 DEF TraceInv
<1>8. op' = "l" => index'[s][t] # 0
  BY <1>1, <1>3, <1>6
<1>9. setOf(addr)' = s /\ tagOf(addr)' = t
  BY <1>1, <1>5 DEF setOf, tagOf
<1> QED
  BY <1>1, <1>4, <1>7, <1>8, <1>9 DEF TraceInv, TraceType

LEMMA TraceStep ==
  ASSUME TraceInv, [TraceNext]_<<vars, traceVars>>
  PROVE  TraceInv'
<1>1. CASE UNCHANGED <<vars, traceVars>>
  <2>1. CacheInv'
    BY <1>1, CacheStep DEF TraceInv
  <2>2. UNCHANGED <<index, logSets, addr, op, seen>>
    BY <1>1 DEF vars, traceVars
  <2> QED
    BY <2>1, <2>2 DEF TraceInv, TraceType, setOf, tagOf
<1> QED
  BY <1>1, LineKeeps DEF TraceNext

LEMMA TraceAlways == TraceSpec => []TraceInv
BY TraceStarts, TraceStep, PTL DEF TraceSpec

\* What is cached is what was accessed, for addresses, sets and blocks of any
\* number of bits: the split loses no bit of an address and mixes none.
THEOREM CachedWasAlwaysAccessed == TraceSpec => []CachedWasAccessed
<1>1. TraceInv => CachedWasAccessed
  <2> SUFFICES ASSUME TraceInv, NEW s \in SetIndex, NEW i \in Way, blocks[s][i].valid
               PROVE  /\ s < Pow2[logSets]
                      /\ blocks[s][i].tag * Pow2[logSets] + s \in seen
    BY DEF CachedWasAccessed
  <2>1. PICK t : t = blocks[s][i].tag
    OBVIOUS
  <2>2. t \in Tag
    BY <2>1 DEF TraceInv, CacheInv, TypeOK, Blocks
  <2>3. index[s][t] = i
    BY <2>1, <2>2 DEF TraceInv, CacheInv, IndexAgrees
  <2>4. i # 0
    BY DEF Way
  <2> QED
    BY <2>1, <2>2, <2>3, <2>4 DEF TraceInv
<1> QED
  BY <1>1, TraceAlways, PTL

\* An access to the memory block just loaded hits, whatever part of the block
\* its address names and whatever the rest of the cache holds.
THEOREM SecondAccessAlwaysHits == TraceSpec => SecondAccessHits
<1>1. TraceInv /\ [TraceNext]_<<vars, traceVars>> =>
        (/\ addr # -1 /\ op = "l" /\ MemBlock(addr') = MemBlock(addr)
         => UNCHANGED <<loadMisses, saveMisses>>)
  <2> SUFFICES ASSUME TraceInv, NEW a \in Addr, NEW letter \in {"s", "l"},
                      Line(a, letter), addr # -1, op = "l",
                      MemBlock(addr') = MemBlock(addr)
               PROVE  UNCHANGED <<loadMisses, saveMisses>>
    BY DEF TraceNext, vars, statVars
  <2>1. addr \in Addr /\ addr' = a /\ logSets \in 0..MaxLogSets
    BY DEF TraceInv, TraceType, Line
  <2>2. setOf(a) = setOf(addr) /\ tagOf(a) = tagOf(addr)
    BY <2>1, SplitAddress
  <2>3. index[setOf(a)][tagOf(a)] # 0
    BY <2>2 DEF TraceInv
  <2>4. LoadHit(setOf(a), tagOf(a)) \/ StoreHit(setOf(a), tagOf(a))
    BY <2>3 DEF Line, Load, LoadMiss, Store, StoreMiss
  <2> QED
    BY <2>4 DEF LoadHit, StoreHit
<1> QED
  BY <1>1, TraceAlways, PTL DEF TraceSpec, SecondAccessHits
=============================================================================
