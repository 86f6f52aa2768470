--------------------------- MODULE CommonLemmas ----------------------------
(***************************************************************************)
(* Lemmas that several proofs use.  What recursive definitions yield, by   *)
(* taking a least counterexample: FlattenSeq joins any number of sequences,*)
(* and functions that go on from earlier values are defined throughout.    *)
(* What division yields, and where a picture's pixels lie.                 *)
(***************************************************************************)
EXTENDS Integers, Sequences, SequencesExt, SequenceTheorems, WellFoundedInduction, TLAPS

\* A nonempty set of naturals has a least member.
LEMMA LeastNat ==
  ASSUME NEW S \in SUBSET Nat, S # {}
  PROVE  \E m \in S : \A n \in S : m <= n
<1>1. \E m \in S : \A n \in S : ~(<<n, m>> \in OpToRel(<, Nat))
  BY NatLessThanWellFounded, WFMin, Zenon
<1>2. PICK m \in S : \A n \in S : ~(<<n, m>> \in OpToRel(<, Nat))
  BY <1>1
<1>3. \A n \in S : ~(n < m)
  BY <1>2 DEF OpToRel
<1> QED
  BY <1>3

-----------------------------------------------------------------------------
(* FlattenSeq *)

\* f joins the first n of seqs one by one.
Flattens(f, seqs, n) ==
  f = [i \in 1..n |-> IF i = 1 THEN seqs[i] ELSE f[i - 1] \o seqs[i]]

\* For any number of sequences there is such an f.
LEMMA FlattenExists ==
  ASSUME NEW seqs, NEW n \in Nat
  PROVE  \E f : Flattens(f, seqs, n)
<1> DEFINE P(k) == \E f : Flattens(f, seqs, k)
           Bad == {k \in Nat : ~P(k)}
<1>1. ASSUME NEW k \in Nat, k = 0 \/ P(k - 1)
      PROVE  P(k)
  <2>1. PICK f : k # 0 => Flattens(f, seqs, k - 1)
    BY <1>1
  <2> DEFINE g == [i \in 1..k |-> IF i = 1 THEN seqs[i] ELSE f[i - 1] \o seqs[i]]
  <2>2. ASSUME NEW i \in 1..k, i # 1
        PROVE  g[i - 1] = f[i - 1]
    <3>1. i - 1 \in 1..k /\ i - 1 \in 1..k - 1 /\ k # 0
      BY <2>2
    <3>2. g[i - 1] = IF i - 1 = 1 THEN seqs[i - 1] ELSE f[(i - 1) - 1] \o seqs[i - 1]
      BY <3>1
    <3>3. f[i - 1] = IF i - 1 = 1 THEN seqs[i - 1] ELSE f[(i - 1) - 1] \o seqs[i - 1]
      BY <2>1, <3>1 DEF Flattens
    <3> QED
      BY <3>2, <3>3
  <2>3. Flattens(g, seqs, k)
    BY <2>2 DEF Flattens
  <2> QED
    BY <2>3
<1>2. Bad = {}
  <2> SUFFICES ASSUME Bad # {}
               PROVE  FALSE
    OBVIOUS
  <2> HIDE DEF P
  <2>1. PICK k \in Bad : \A i \in Bad : k <= i
    <3>1. Bad \subseteq Nat
      OBVIOUS
    <3> HIDE DEF Bad
    <3> QED
      BY <3>1, LeastNat
  <2>2. k = 0 \/ P(k - 1)
    BY <2>1
  <2>3. P(k)
    BY <1>1, <2>2
  <2> QED
    BY <2>3
<1> QED
  BY <1>2

\* FlattenSeq ends with all of them.
LEMMA Flattened ==
  ASSUME NEW seqs, Len(seqs) \in Nat \ {0}
  PROVE  \E f : Flattens(f, seqs, Len(seqs)) /\ FlattenSeq(seqs) = f[Len(seqs)]
<1> DEFINE Is(f) == f = [i \in 1..Len(seqs) |-> IF i = 1 THEN seqs[i]
                                                ELSE f[i - 1] \o seqs[i]]
           flatten == CHOOSE f : Is(f)
<1>1. \E f : Is(f)
  BY FlattenExists DEF Flattens
<1>2. Is(flatten)
  BY <1>1
<1>3. FlattenSeq(seqs) = flatten[Len(seqs)]
  BY DEF FlattenSeq
<1> HIDE DEF flatten
<1> QED
  BY <1>2, <1>3 DEF Flattens

\* What is in a sequence of sequences is what they are made of.
LEMMA FlattenType ==
  ASSUME NEW S, NEW seqs \in Seq(Seq(S))
  PROVE  FlattenSeq(seqs) \in Seq(S)
<1>1. CASE Len(seqs) = 0
  BY <1>1 DEF FlattenSeq
<1>2. CASE Len(seqs) # 0
  <2> DEFINE n == Len(seqs)
  <2>1. n \in Nat \ {0} /\ \A i \in 1..n : seqs[i] \in Seq(S)
    BY <1>2
  <2>2. PICK f : Flattens(f, seqs, n) /\ FlattenSeq(seqs) = f[n]
    BY <2>1, Flattened
  <2> HIDE DEF n
  <2> DEFINE Bad == {i \in 1..n : f[i] \notin Seq(S)}
  <2>3. Bad = {}
    <3> SUFFICES ASSUME Bad # {}
                 PROVE  FALSE
      OBVIOUS
    <3>1. PICK k \in Bad : \A i \in Bad : k <= i
      <4>1. Bad \subseteq Nat
        BY <2>1
      <4> HIDE DEF Bad
      <4> QED
        BY <4>1, LeastNat
    <3>2. k \in 1..n /\ f[k] \notin Seq(S)
      OBVIOUS
    <3>3. k # 1 => f[k - 1] \in Seq(S)
      BY <2>1, <3>1
    <3>4. f[k] = IF k = 1 THEN seqs[k] ELSE f[k - 1] \o seqs[k]
      BY <2>2, <3>2 DEF Flattens
    <3>5. seqs[k] \in Seq(S)
      BY <2>1, <3>2
    <3> QED
      BY <3>2, <3>3, <3>4, <3>5, ConcatProperties
  <2> QED
    BY <2>1, <2>2, <2>3
<1> QED
  BY <1>1, <1>2

\* A subsequence of one element.
LEMMA OneUnit ==
  ASSUME NEW S, NEW s \in Seq(S), NEW k \in 1..Len(s)
  PROVE  SubSeq(s, k, k) = <<s[k]>>
<1>1. SubSeq(s, k, k) = [i \in 1..1 |-> s[k]]
  <2>1. SubSeq(s, k, k) = [i \in 1..(1 + k - k) |-> s[i + k - 1]]
    BY SubSeqProperties
  <2>2. 1 + k - k = 1 /\ \A i \in 1..1 : i + k - 1 = k
    OBVIOUS
  <2> QED
    BY <2>1, <2>2
<1>2. <<s[k]>> = [i \in 1..1 |-> s[k]]
  OBVIOUS
<1> QED
  BY <1>1, <1>2

\* Sequences of one element each give the sequence of these elements.
LEMMA FlattenOnes ==
  ASSUME NEW S, NEW s \in Seq(S)
  PROVE  FlattenSeq([i \in DOMAIN s |-> <<s[i]>>]) = s
<1> DEFINE n == Len(s)
           ones == [i \in DOMAIN s |-> <<s[i]>>]
<1>1. DOMAIN s = 1..n /\ n \in Nat /\ ones \in Seq(Seq(S)) /\ Len(ones) = n
  <2>1. DOMAIN s = 1..n /\ n \in Nat
    OBVIOUS
  <2>2. \A i \in 1..n : <<s[i]>> \in Seq(S)
    OBVIOUS
  <2>3. ones = [i \in 1..n |-> <<s[i]>>]
    BY <2>1
  <2> QED
    BY <2>1, <2>2, <2>3
<1>2. CASE n = 0
  BY <1>1, <1>2 DEF FlattenSeq
<1>3. CASE n # 0
  <2>1. PICK f : Flattens(f, ones, n) /\ FlattenSeq(ones) = f[n]
    BY <1>1, <1>3, Flattened
  <2> DEFINE Bad == {i \in 1..n : f[i] # SubSeq(s, 1, i)}
  <2>2. Bad = {}
    <3> SUFFICES ASSUME Bad # {}
                 PROVE  FALSE
      OBVIOUS
    <3>1. PICK k \in Bad : \A i \in Bad : k <= i
      <4>1. Bad \subseteq Nat
        OBVIOUS
      <4> HIDE DEF Bad
      <4> QED
        BY <4>1, LeastNat
    <3>2. k \in 1..n /\ f[k] # SubSeq(s, 1, k)
      OBVIOUS
    <3>3. k # 1 => f[k - 1] = SubSeq(s, 1, k - 1)
      BY <1>1, <3>1
    <3>4. f[k] = IF k = 1 THEN ones[k] ELSE f[k - 1] \o ones[k]
      BY <2>1, <3>2 DEF Flattens
    <3>5. ones[k] = <<s[k]>>
      BY <1>1, <3>2
    <3>6. SubSeq(s, 1, 1) = <<s[1]>>
      BY <1>1, <1>3, OneUnit
    <3>7. k # 1 => SubSeq(s, 1, k - 1) \o <<s[k]>> = SubSeq(s, 1, k)
      <4> SUFFICES ASSUME k # 1
                   PROVE  SubSeq(s, 1, k - 1) \o <<s[k]>> = SubSeq(s, 1, k)
        OBVIOUS
      <4>1. k \in Nat /\ 1 <= k /\ k <= Len(s) /\ 1 <= k - 1 /\ Len(s) \in Nat
        BY <1>1, <3>2
      <4>2. SubSeq(s, k, k) = <<s[k]>>
        BY <4>1, OneUnit
      <4>3. SubSeq(s, 1, k - 1) \o SubSeq(s, (k - 1) + 1, k) = SubSeq(s, 1, k)
        <5>1. /\ 1 \in 1..Len(s) + 1 /\ k - 1 \in 1 - 1..Len(s) /\ k \in k - 1..Len(s)
          BY <4>1
        <5> QED
          BY <5>1, ConcatAdjacentSubSeq
      <4>4. (k - 1) + 1 = k
        BY <4>1
      <4> QED
        BY <4>2, <4>3, <4>4
    <3> HIDE DEF Bad, ones, n
    <3> QED
      BY <3>2, <3>3, <3>4, <3>5, <3>6, <3>7
  <2>3. f[n] = SubSeq(s, 1, n)
    BY <1>1, <1>3, <2>2
  <2>4. SubSeq(s, 1, n) = s
    BY <1>1, SubSeqFull
  <2> QED
    BY <2>1, <2>3, <2>4
<1> QED
  BY <1>2, <1>3

\* What is where in two sequences joined.
LEMMA Concatenated ==
  ASSUME NEW S, NEW u \in Seq(S), NEW v \in Seq(S)
  PROVE  /\ u \o v \in Seq(S) /\ Len(u \o v) = Len(u) + Len(v)
         /\ \A k \in 1..Len(u) : (u \o v)[k] = u[k]
         /\ \A k \in 1..Len(v) : (u \o v)[Len(u) + k] = v[k]
<1>1. PICK q \in Nat, m \in Nat : q = Len(u) /\ m = Len(v)
  OBVIOUS
<1>2. PICK w \in Seq(S) :
        /\ w = u \o v /\ Len(w) = q + m
        /\ \A i \in 1..q + m : w[i] = IF i <= q THEN u[i] ELSE v[i - q]
  <2>1. /\ u \o v \in Seq(S) /\ Len(u \o v) = Len(u) + Len(v)
        /\ \A i \in 1..Len(u) + Len(v) :
             (u \o v)[i] = IF i <= Len(u) THEN u[i] ELSE v[i - Len(u)]
    BY ConcatProperties, Zenon
  <2>2. PICK w : w = u \o v
    OBVIOUS
  <2> QED
    BY <1>1, <2>1, <2>2
<1>3. \A k \in 1..q : k \in 1..q + m /\ k <= q
  OBVIOUS
<1>4. \A k \in 1..m : q + k \in 1..q + m /\ ~(q + k <= q) /\ (q + k) - q = k
  OBVIOUS
<1>5. \A k \in 1..q : w[k] = u[k]
  BY <1>2, <1>3
<1>6. \A k \in 1..m : w[q + k] = v[k]
  BY <1>2, <1>4
<1> QED
  BY <1>1, <1>2, <1>5, <1>6

\* Multiples follow each other, and grow.
LEMMA Multiples ==
  ASSUME NEW m \in Nat, NEW i \in Nat \ {0}, NEW j \in Nat, i < j
  PROVE  /\ (i - 1) * m \in Nat /\ (j - 1) * m \in Nat
         /\ (i - 1) * m + m <= (j - 1) * m
         /\ (j - 1) * m + m = j * m
<1>1. PICK a \in Nat, d \in Nat : a = i - 1 /\ d = j - 1 - i /\ j - 1 = a + 1 + d
  <2>1. i - 1 \in Nat /\ j - 1 - i \in Nat /\ j - 1 = (i - 1) + 1 + (j - 1 - i)
    OBVIOUS
  <2> QED
    BY <2>1
<1>2. a * m \in Nat /\ d * m \in Nat
  BY <1>1
<1>3. (a + 1 + d) * m = a * m + m + d * m
  BY <1>1
<1>4. ((a + 1 + d) + 1) * m = (a + 1 + d) * m + m
  BY <1>1
<1>5. j = (a + 1 + d) + 1
  BY <1>1
<1>6. (i - 1) * m = a * m /\ (j - 1) * m = (a + 1 + d) * m
  BY <1>1
<1>7. j * m = (a + 1 + d) * m + m
  BY <1>4, <1>5
<1> QED
  BY <1>2, <1>3, <1>6, <1>7

\* n sequences over S of length m each.
Pieces(seqs, S, n, m) ==
  /\ seqs = [i \in 1..n |-> seqs[i]]
  /\ \A i \in 1..n : seqs[i] \in Seq(S) /\ Len(seqs[i]) = m

\* joined consists of the first n of them, side by side.
SideBySide(joined, seqs, S, n, m) ==
  /\ joined \in Seq(S) /\ Len(joined) = n * m
  /\ \A i \in 1..n, k \in 1..m : joined[(i - 1) * m + k] = seqs[i][k]

\* FlattenSeq puts sequences of one length side by side.
LEMMA FlattenEqual ==
  ASSUME NEW S, NEW m \in Nat, NEW n \in Nat, NEW seqs, Pieces(seqs, S, n, m)
  PROVE  SideBySide(FlattenSeq(seqs), seqs, S, n, m)
<1> DEFINE Side(f, j) == SideBySide(f, seqs, S, j, m)
<1>0. /\ seqs = [i \in 1..n |-> seqs[i]]
      /\ \A i \in 1..n : seqs[i] \in Seq(S) /\ Len(seqs[i]) = m
  BY DEF Pieces
<1>1. seqs \in Seq(Seq(S)) /\ Len(seqs) = n
  BY <1>0, SMTT(30)
<1> HIDE DEF Side
<1>2. CASE n = 0
  <2>1. FlattenSeq(seqs) = seqs /\ Len(seqs) = 0 /\ seqs \in Seq(S)
    BY <1>1, <1>2 DEF FlattenSeq
  <2>2. n * m = 0 /\ 1..n = {}
    BY <1>2
  <2>3. FlattenSeq(seqs) \in Seq(S) /\ Len(FlattenSeq(seqs)) = n * m
    BY <2>1, <2>2
  <2> QED
    BY <2>2, <2>3 DEF SideBySide
<1>3. CASE n # 0
  <2>1. PICK f : Flattens(f, seqs, n) /\ FlattenSeq(seqs) = f[n]
    BY <1>1, <1>3, Flattened
  <2> DEFINE Bad == {j \in 1..n : ~Side(f[j], j)}
  <2>2. Bad = {}
    <3> SUFFICES ASSUME Bad # {}
                 PROVE  FALSE
      OBVIOUS
    <3>1. PICK j \in Bad : \A i \in Bad : j <= i
      <4>1. Bad \in SUBSET Nat
        OBVIOUS
      <4> HIDE DEF Bad
      <4> QED
        BY <4>1, LeastNat
    <3>2. j \in 1..n /\ ~Side(f[j], j)
      OBVIOUS
    <3>3. j # 1 => Side(f[j - 1], j - 1)
      BY <3>1
    <3>4. f[j] = IF j = 1 THEN seqs[j] ELSE f[j - 1] \o seqs[j]
      BY <2>1, <3>2 DEF Flattens
    <3>5. j = 1 => Side(f[j], j)
      <4> SUFFICES ASSUME j = 1
                   PROVE  Side(f[1], 1)
        OBVIOUS
      <4>1. f[1] = seqs[1] /\ 1 * m = m /\ (1 - 1) * m = 0
        BY <3>4
      <4>2. \A i \in 1..1, k \in 1..m : i = 1 /\ (i - 1) * m + k = k
        BY <4>1
      <4> QED
        BY <1>0, <3>2, <4>1, <4>2 DEF Side, SideBySide
    <3>6. j # 1 => Side(f[j], j)
      <4> SUFFICES ASSUME j # 1
                   PROVE  Side(f[j], j)
        OBVIOUS
      <4>1. PICK q \in Nat : q = (j - 1) * m
        BY <3>2
      <4>2. j * m = q + m
        <5>1. 1 \in Nat \ {0} /\ j \in Nat /\ 1 < j
          BY <3>2
        <5> QED
          BY <4>1, <5>1, Multiples
      <4>3. PICK u \in Seq(S), v \in Seq(S) :
              u = f[j - 1] /\ v = seqs[j] /\ Len(u) = q /\ Len(v) = m
        BY <1>0, <3>2, <3>3, <4>1 DEF Side, SideBySide
      <4>4. f[j] = u \o v
        BY <3>2, <3>4, <4>3
      <4>5. /\ f[j] \in Seq(S) /\ Len(f[j]) = q + m
            /\ \A k \in 1..q : f[j][k] = u[k]
            /\ \A k \in 1..m : f[j][q + k] = v[k]
        <5>1. u \o v \in Seq(S) /\ Len(u \o v) = Len(u) + Len(v)
          BY Concatenated
        <5>2. \A k \in 1..Len(u) : (u \o v)[k] = u[k]
          BY Concatenated
        <5>3. \A k \in 1..Len(v) : (u \o v)[Len(u) + k] = v[k]
          BY Concatenated
        <5>4. Len(u) = q /\ Len(v) = m
          BY <4>3
        <5> QED
          BY <4>4, <5>1, <5>2, <5>3, <5>4
      <4>6. ASSUME NEW i \in 1..j, NEW k \in 1..m
            PROVE  f[j][(i - 1) * m + k] = seqs[i][k]
        <5>1. CASE i = j
          <6>1. (i - 1) * m + k = q + k
            BY <4>1, <5>1
          <6> QED
            BY <4>3, <4>5, <5>1, <6>1
        <5>2. CASE i # j
          <6>1. i \in 1..j - 1
            BY <3>2, <5>2
          <6>2. u[(i - 1) * m + k] = seqs[i][k]
            BY <3>3, <4>3, <6>1 DEF Side, SideBySide
          <6>3. (i - 1) * m + k \in 1..q
            <7>1. i \in Nat \ {0} /\ j \in Nat /\ i < j
              BY <3>2, <6>1
            <7>2. (i - 1) * m \in Nat /\ (i - 1) * m + m <= q
              BY <4>1, <7>1, Multiples
            <7> HIDE DEF Bad
            <7> QED
              BY <4>1, <7>2
          <6>4. PICK a \in 1..q : a = (i - 1) * m + k
            BY <6>3
          <6>5. f[j][a] = u[a]
            BY <4>5
          <6> QED
            BY <6>2, <6>4, <6>5
        <5> QED
          BY <5>1, <5>2
      <4> QED
        BY <4>2, <4>5, <4>6 DEF Side, SideBySide
    <3> QED
      BY <3>2, <3>5, <3>6
  <2>3. Side(f[n], n)
    <3>1. n \in 1..n /\ n \notin Bad
      BY <1>3, <2>2
    <3> QED
      BY <3>1
  <2> QED
    BY <2>1, <2>3 DEF Side
<1> QED
  BY <1>2, <1>3

\* Reversed twice, a sequence is what it was.
LEMMA ReversedTwice ==
  ASSUME NEW n \in Nat, NEW s, s = [k \in 1..n |-> s[k]]
  PROVE  /\ Reverse(s) = [k \in 1..n |-> s[n + 1 - k]]
         /\ Reverse(Reverse(s)) = s
<1>1. ASSUME NEW t, t = [k \in 1..n |-> t[k]]
      PROVE  Reverse(t) = [k \in 1..n |-> t[n + 1 - k]]
  <2>1. t \in Seq({t[k] : k \in 1..n}) /\ Len(t) = n
    BY <1>1
  <2>2. \A k \in 1..n : (n - k) + 1 = n + 1 - k
    OBVIOUS
  <2> QED
    BY <2>1, <2>2 DEF Reverse
<1> DEFINE r == [k \in 1..n |-> s[n + 1 - k]]
<1>2. Reverse(s) = r
  BY <1>1
<1>3. Reverse(r) = [k \in 1..n |-> r[n + 1 - k]]
  <2>1. r = [k \in 1..n |-> r[k]]
    OBVIOUS
  <2> HIDE DEF r
  <2> QED
    BY <1>1, <2>1
<1>4. \A k \in 1..n : r[n + 1 - k] = s[k]
  <2>1. \A k \in 1..n : n + 1 - k \in 1..n /\ n + 1 - (n + 1 - k) = k
    OBVIOUS
  <2> QED
    BY <2>1
<1> QED
  BY <1>2, <1>3, <1>4

\* One more sequence is joined at the end.
LEMMA FlattenAppend ==
  ASSUME NEW n \in Nat \ {0}, NEW p, NEW q, q = [i \in 1..n + 1 |-> q[i]],
         p = [i \in 1..n |-> q[i]]
  PROVE  FlattenSeq(q) = FlattenSeq(p) \o q[n + 1]
<1>1. Len(p) = n /\ Len(q) = n + 1
  OBVIOUS
<1>2. PICK f : Flattens(f, p, n) /\ FlattenSeq(p) = f[n]
  BY <1>1, Flattened
<1>3. PICK g : Flattens(g, q, n + 1) /\ FlattenSeq(q) = g[n + 1]
  <2>1. PICK m \in Nat \ {0} : m = n + 1
    OBVIOUS
  <2>2. Len(q) = m
    BY <1>1, <2>1
  <2>3. \E g : Flattens(g, q, m) /\ FlattenSeq(q) = g[m]
    BY <2>2, Flattened
  <2> QED
    BY <2>1, <2>3
<1> DEFINE Bad == {i \in 1..n : f[i] # g[i]}
<1>4. Bad = {}
  <2> SUFFICES ASSUME Bad # {}
               PROVE  FALSE
    OBVIOUS
  <2>1. PICK k \in Bad : \A i \in Bad : k <= i
    <3>1. Bad \in SUBSET Nat
      OBVIOUS
    <3> HIDE DEF Bad
    <3> QED
      BY <3>1, LeastNat
  <2>2. k \in 1..n /\ k \in 1..n + 1 /\ f[k] # g[k]
    OBVIOUS
  <2>3. k # 1 => f[k - 1] = g[k - 1]
    BY <2>1
  <2>4. f[k] = IF k = 1 THEN p[k] ELSE f[k - 1] \o p[k]
    BY <1>2, <2>2 DEF Flattens
  <2>5. g[k] = IF k = 1 THEN q[k] ELSE g[k - 1] \o q[k]
    BY <1>3, <2>2 DEF Flattens
  <2> QED
    BY <2>2, <2>3, <2>4, <2>5
<1>5. g[n + 1] = g[n] \o q[n + 1]
  <2>1. n + 1 \in 1..n + 1 /\ n + 1 # 1 /\ (n + 1) - 1 = n
    OBVIOUS
  <2> QED
    BY <1>3, <2>1 DEF Flattens
<1>6. f[n] = g[n]
  <2>1. n \in 1..n /\ n \notin Bad
    BY <1>4
  <2> QED
    BY <2>1
<1> QED
  BY <1>2, <1>3, <1>5, <1>6

-----------------------------------------------------------------------------
(* Recursive functions *)

\* Each value of f is what g makes of the one s places before, or of z.
Recurs(f, g, n, s, z) ==
  f = [i \in 1..n |-> g[i][IF i > s THEN f[i - s] ELSE z]]

\* There is such an f, and its values are where those of g are.
LEMMA RecursionExists ==
  ASSUME NEW V, NEW z \in V, NEW n \in Nat, NEW s \in Nat \ {0},
         NEW g, \A i \in 1..n, v \in V : g[i][v] \in V
  PROVE  \E f \in [1..n -> V] : Recurs(f, g, n, s, z)
<1> DEFINE P(m) == \E f \in [1..m -> V] : Recurs(f, g, m, s, z)
           Bad == {m \in 0..n : ~P(m)}
<1>1. ASSUME NEW m \in 0..n, m = 0 \/ P(m - 1)
      PROVE  P(m)
  <2>1. CASE m = 0
    <3>1. Recurs([i \in 1..0 |-> z], g, 0, s, z)
      BY DEF Recurs
    <3>2. [i \in 1..0 |-> z] \in [1..0 -> V]
      OBVIOUS
    <3> QED
      BY <2>1, <3>1, <3>2
  <2>2. CASE m # 0
    <3>1. PICK f \in [1..m - 1 -> V] : Recurs(f, g, m - 1, s, z)
      BY <1>1, <2>2
    <3> DEFINE h == [i \in 1..m |-> g[i][IF i > s THEN f[i - s] ELSE z]]
    <3>2. ASSUME NEW i \in 1..m
          PROVE  /\ i > s => i - s \in 1..m - 1 /\ i - s \in 1..m
                 /\ (IF i > s THEN f[i - s] ELSE z) \in V
                 /\ i \in 1..n
      BY <3>1, <2>2
    <3>3. h \in [1..m -> V]
      BY <3>2
    <3>4. \A i \in 1..m - 1 : h[i] = f[i]
      BY <3>1, SMTT(30) DEF Recurs
    <3>5. \A i \in 1..m : i > s => h[i - s] = f[i - s]
      BY <3>2, <3>4
    <3>6. \A i \in 1..m : (IF i > s THEN h[i - s] ELSE z) = (IF i > s THEN f[i - s] ELSE z)
      BY <3>5
    <3>7. h = [i \in 1..m |-> g[i][IF i > s THEN h[i - s] ELSE z]]
      BY <3>6
    <3> HIDE DEF h
    <3>8. Recurs(h, g, m, s, z)
      BY <3>7 DEF Recurs
    <3> QED
      BY <3>3, <3>8
  <2> QED
    BY <2>1, <2>2
<1>2. Bad = {}
  <2> SUFFICES ASSUME Bad # {}
               PROVE  FALSE
    OBVIOUS
  <2> HIDE DEF P
  <2>1. PICK m \in Bad : \A i \in Bad : m <= i
    <3>1. Bad \in SUBSET Nat
      OBVIOUS
    <3> HIDE DEF Bad
    <3> QED
      BY <3>1, LeastNat
  <2>2. m = 0 \/ P(m - 1)
    BY <2>1
  <2>3. P(m)
    BY <1>1, <2>2
  <2> QED
    BY <2>3
<1> QED
  BY <1>2

-----------------------------------------------------------------------------
(* Quotients and rests *)

\* A number is a multiple of another and a rest.
LEMMA Division ==
  ASSUME NEW M \in Nat \ {0}, NEW x \in Int
  PROVE  /\ x \div M \in Int /\ x % M \in 0 .. M - 1
         /\ x = M * (x \div M) + (x % M)
<1>1. x = M * (x \div M) + (x % M)
  BY SMT
<1>2. x % M \in 0 .. M - 1
  BY SMT
<1>3. x \div M \in Int
  BY SMT
<1> QED
  BY <1>1, <1>2, <1>3

\* So is a natural number, and both are naturals.
LEMMA DivMod ==
  ASSUME NEW x \in Nat, NEW m \in Nat \ {0}
  PROVE  x \div m \in Nat /\ x % m \in 0..m - 1 /\ x = m * (x \div m) + (x % m)
<1>1. x \div m \in Int /\ x % m \in 0..m - 1 /\ x = m * (x \div m) + (x % m)
  BY Division
<1>2. x \div m >= 0
  BY SMT
<1> QED
  BY <1>1, <1>2

\* A quotient and a rest can be read off.
LEMMA Quotients ==
  ASSUME NEW M \in Nat \ {0}, NEW k \in Int, NEW r \in 0 .. M - 1
  PROVE  (M * k + r) % M = r /\ (M * k + r) \div M = k
BY SMT

\* A column and a row give a place of their own in data.
LEMMA PlaceOfPixel ==
  ASSUME NEW w \in Nat, NEW h \in Nat, NEW x \in Nat, NEW y \in Nat, x < w, y < h
  PROVE  /\ y * w + x \in 0 .. w * h - 1
         /\ (y * w + x) % w = x /\ (y * w + x) \div w = y
<1>1. y * w + x \in 0 .. w * h - 1
  BY SMT
<1>2. y * w + x = w * y + x
  BY SMT
<1>3. (w * y + x) % w = x /\ (w * y + x) \div w = y
  BY Quotients
<1> QED
  BY <1>1, <1>2, <1>3

\* A place in data has a column and a row.
LEMMA PixelOfPlace ==
  ASSUME NEW w \in Nat, NEW h \in Nat, NEW j \in 1 .. w * h
  PROVE  /\ (j - 1) % w \in 0 .. w - 1 /\ (j - 1) \div w \in 0 .. h - 1
         /\ j - 1 = ((j - 1) \div w) * w + ((j - 1) % w)
<1> DEFINE x == (j - 1) % w
           y == (j - 1) \div w
<1>1. w \in Nat \ {0}
  <2>1. w = 0 => w * h = 0
    OBVIOUS
  <2> QED
    BY <2>1
<1>2. y \in Int /\ x \in 0 .. w - 1 /\ j - 1 = w * y + x
  BY <1>1, Division
<1> HIDE DEF x, y
<1>3. y >= 0
  <2>1. y < 0 => w * y <= - w
    BY <1>1, <1>2
  <2> QED
    BY <1>1, <1>2, <2>1
<1>4. y < h
  <2>1. y >= h => w * y >= w * h
    BY <1>1, <1>2
  <2> QED
    BY <1>1, <1>2, <2>1
<1>5. x \in 0 .. w - 1 /\ y \in 0 .. h - 1 /\ j - 1 = y * w + x
  BY <1>1, <1>2, <1>3, <1>4
<1> QED
  BY <1>5 DEF x, y
=============================================================================
