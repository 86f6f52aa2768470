----------------------------- MODULE PngProofs ------------------------------
(***************************************************************************)
(* Proofs about the images that are loaded, for any files and pictures:    *)
(* png_unfilter undoes each filter of the PNG format, the chunks give the  *)
(* data of the file and nothing else, and nothing damaged gets through.    *)
(***************************************************************************)
EXTENDS DriverProofs

-----------------------------------------------------------------------------
(* One line *)

\* What the library predicts.
Guess(filter, a, b, c) ==
  CASE filter = 1 -> a
    [] filter = 2 -> b
    [] filter = 3 -> IF Undef \in {a, b} THEN Undef ELSE (a + b) \div 2
    [] filter = 4 -> png_paeth(a, b, c)

Left(line, i, stride) == IF i > stride THEN line[i - stride] ELSE 0

Above(prev, i) == IF i \in DOMAIN prev THEN prev[i] ELSE 0

\* line is what such a line becomes, byte by byte.
Reconstructs(line, filter, stride, in, prev) ==
  line = [i \in 1..Len(in) |->
          Plus(in[i], Guess(filter, Left(line, i, stride), Above(prev, i),
                            Above(prev, i - stride)))]

\* What is predicted and added is a number.
LEMMA GuessType ==
  ASSUME NEW filter \in 1..4, NEW a \in Int, NEW b \in Int, NEW c \in Int, NEW d \in Int
  PROVE  Plus(d, Guess(filter, a, b, c)) \in Int
<1>1. png_paeth(a, b, c) \in Int
  BY DEF png_paeth, Undef
<1>2. Guess(filter, a, b, c) \in Int
  BY <1>1 DEF Guess, Undef
<1> QED
  BY <1>2 DEF Plus, Undef

\* There is such a line.
LEMMA ReconstructsExists ==
  ASSUME NEW filter \in 1..4, NEW stride \in Nat \ {0}, NEW in \in Seq(Int),
         NEW prev \in Seq(Int)
  PROVE  \E line \in [1..Len(in) -> Int] : Reconstructs(line, filter, stride, in, prev)
<1> DEFINE g == [i \in 1..Len(in) |-> [v \in Int |->
                  Plus(in[i], Guess(filter, v, Above(prev, i), Above(prev, i - stride)))]]
<1>1. \A i \in 1..Len(in), v \in Int : g[i][v] \in Int
  <2> TAKE i \in 1..Len(in), v \in Int
  <2>1. in[i] \in Int /\ Above(prev, i) \in Int /\ Above(prev, i - stride) \in Int
    BY DEF Above
  <2>2. Plus(in[i], Guess(filter, v, Above(prev, i), Above(prev, i - stride))) \in Int
    BY <2>1, GuessType
  <2> QED
    BY <2>2
<1>2. Len(in) \in Nat /\ 0 \in Int
  OBVIOUS
<1>3. PICK line \in [1..Len(in) -> Int] : Recurs(line, g, Len(in), stride, 0)
  <2> HIDE DEF g
  <2> QED
    BY <1>1, <1>2, RecursionExists
<1>4. \A i \in 1..Len(in) : Left(line, i, stride) \in Int
  <2> HIDE DEF g
  <2> TAKE i \in 1..Len(in)
  <2>1. i > stride => i - stride \in 1..Len(in)
    OBVIOUS
  <2>2. i > stride => line[i - stride] \in Int
    BY <1>3, <2>1
  <2> QED
    BY <2>2 DEF Left
<1>5. \A i \in 1..Len(in) :
        g[i][Left(line, i, stride)] =
          Plus(in[i], Guess(filter, Left(line, i, stride), Above(prev, i),
                            Above(prev, i - stride)))
  BY <1>4
<1>6. line = [i \in 1..Len(in) |-> g[i][Left(line, i, stride)]]
  <2> HIDE DEF g
  <2> QED
    BY <1>3 DEF Recurs, Left
<1>7. line = [i \in 1..Len(in) |->
              Plus(in[i], Guess(filter, Left(line, i, stride), Above(prev, i),
                                Above(prev, i - stride)))]
  <2> HIDE DEF g
  <2> QED
    BY <1>5, <1>6
<1> QED
  BY <1>7 DEF Reconstructs

\* There is one such line.
LEMMA ReconstructsType ==
  ASSUME NEW filter \in 1..4, NEW stride \in Nat \ {0}, NEW in \in Seq(Int),
         NEW prev \in Seq(Int), NEW line, Reconstructs(line, filter, stride, in, prev)
  PROVE  line \in [1..Len(in) -> Int]
<1>1. PICK f \in [1..Len(in) -> Int] : Reconstructs(f, filter, stride, in, prev)
  BY ReconstructsExists
<1> DEFINE Bad == {i \in 1..Len(in) : line[i] # f[i]}
<1>2. Bad = {}
  <2> SUFFICES ASSUME Bad # {}
               PROVE  FALSE
    OBVIOUS
  <2>1. PICK k \in Bad : \A i \in Bad : k <= i
    <3>1. Bad \in SUBSET Nat
      OBVIOUS
    <3> HIDE DEF Bad
    <3> QED
      BY <3>1, LeastNat
  <2>2. k \in 1..Len(in) /\ line[k] # f[k]
    OBVIOUS
  <2>3. k > stride => k - stride \in 1..Len(in) /\ k - stride < k
    BY <2>2
  <2>4. Left(line, k, stride) = Left(f, k, stride)
    BY <2>1, <2>3 DEF Left
  <2> HIDE DEF Bad
  <2> QED
    BY <1>1, <2>2, <2>4 DEF Reconstructs
<1>3. line = [i \in 1..Len(in) |-> line[i]]
  BY DEF Reconstructs
<1> QED
  BY <1>2, <1>3

\* A function on 1..n is a sequence of n elements.
LEMMA FunctionIsSeq ==
  ASSUME NEW S, NEW n \in Nat, NEW f \in [1..n -> S]
  PROVE  f \in Seq(S) /\ Len(f) = n
OBVIOUS

\* Each function of the library is one.
LEMMA SubLine ==
  ASSUME NEW stride \in Nat \ {0}, NEW in \in Seq(Int), NEW prev \in Seq(Int)
  PROVE  Reconstructs(png_filter_sub(stride, in), 1, stride, in, prev)
<1> DEFINE Is(f) == f = [i \in 1..Len(in) |->
                           Plus(in[i], IF i > stride THEN f[i - stride] ELSE 0)]
           line == CHOOSE f : Is(f)
<1>1. \E f : Is(f)
  BY ReconstructsExists, 1 \in 1..4 DEF Reconstructs, Guess, Left
<1>2. Is(line)
  BY <1>1
<1>3. png_filter_sub(stride, in) = [i \in 1..Len(in) |-> line[i]]
  BY DEF png_filter_sub, Reconstruct
<1> HIDE DEF line
<1>4. png_filter_sub(stride, in) = line
  BY <1>2, <1>3
<1> QED
  BY <1>2, <1>4, SMTT(30) DEF Reconstructs, Guess, Left

\* The second filter reads the line above.
LEMMA UpLine ==
  ASSUME NEW stride, NEW in \in Seq(Int), NEW prev \in Seq(Int)
  PROVE  Reconstructs(png_filter_up(in, prev), 2, stride, in, prev)
<1> DEFINE Is(f) == f = [i \in 1..Len(in) |-> Plus(in[i], Above(prev, i))]
           line == CHOOSE f : Is(f)
<1>1. Is(line)
  OBVIOUS
<1>2. png_filter_up(in, prev) = [i \in 1..Len(in) |-> line[i]]
  BY DEF png_filter_up, Reconstruct, Above
<1> HIDE DEF line
<1>3. png_filter_up(in, prev) = line
  BY <1>1, <1>2
<1> QED
  BY <1>1, <1>3 DEF Reconstructs, Guess

\* The third one takes the mean of the two.
LEMMA AverageLine ==
  ASSUME NEW stride \in Nat \ {0}, NEW in \in Seq(Int), NEW prev \in Seq(Int)
  PROVE  Reconstructs(png_filter_average(stride, in, prev), 3, stride, in, prev)
<1> DEFINE Mean(f, i) ==
             IF Undef \in {IF i > stride THEN f[i - stride] ELSE 0,
                           IF i \in DOMAIN prev THEN prev[i] ELSE 0}
               THEN Undef
             ELSE ((IF i > stride THEN f[i - stride] ELSE 0) +
                   (IF i \in DOMAIN prev THEN prev[i] ELSE 0)) \div 2
           Is(f) == f = [i \in 1..Len(in) |->
                          Plus(in[i], Mean(f, i))]
           line == CHOOSE f : Is(f)
<1>1. ASSUME NEW f
      PROVE  Is(f) <=> Reconstructs(f, 3, stride, in, prev)
  <2>1. ASSUME NEW i \in 1..Len(in)
        PROVE  Mean(f, i) =
               Guess(3, Left(f, i, stride), Above(prev, i), Above(prev, i - stride))
    BY DEF Guess, Left, Above
  <2>2. Is(f) <=> f = [i \in 1..Len(in) |-> Plus(in[i], Mean(f, i))]
    OBVIOUS
  <2> HIDE DEF Mean, Is
  <2> QED
    BY <2>1, <2>2 DEF Reconstructs
<1>2. \E f : Is(f)
  <2>1. \E f : Reconstructs(f, 3, stride, in, prev)
    BY ReconstructsExists, 3 \in 1..4
  <2> HIDE DEF Is
  <2> QED
    BY <1>1, <2>1
<1>3. Is(line)
  BY <1>2
<1>4. png_filter_average(stride, in, prev) = [i \in 1..Len(in) |-> line[i]]
  BY DEF png_filter_average, Reconstruct
<1> HIDE DEF line
<1>5. png_filter_average(stride, in, prev) = line
  BY <1>3, <1>4
<1> QED
  BY <1>1, <1>3, <1>5

\* The fourth one picks one of the three.
LEMMA PaethLine ==
  ASSUME NEW stride \in Nat \ {0}, NEW in \in Seq(Int), NEW prev \in Seq(Int)
  PROVE  Reconstructs(png_filter_paeth(stride, in, prev), 4, stride, in, prev)
<1> DEFINE Paeth(f, i) ==
             png_paeth(IF i > stride THEN f[i - stride] ELSE 0,
                       IF i \in DOMAIN prev THEN prev[i] ELSE 0,
                       IF i - stride \in DOMAIN prev THEN prev[i - stride] ELSE 0)
           Is(f) == f = [i \in 1..Len(in) |->
                          Plus(in[i], Paeth(f, i))]
           line == CHOOSE f : Is(f)
<1>1. ASSUME NEW f
      PROVE  Is(f) <=> Reconstructs(f, 4, stride, in, prev)
  <2>1. ASSUME NEW i \in 1..Len(in)
        PROVE  Paeth(f, i) =
               Guess(4, Left(f, i, stride), Above(prev, i), Above(prev, i - stride))
    BY DEF Guess, Left, Above
  <2>2. Is(f) <=> f = [i \in 1..Len(in) |-> Plus(in[i], Paeth(f, i))]
    OBVIOUS
  <2> HIDE DEF Paeth, Is
  <2> QED
    BY <2>1, <2>2 DEF Reconstructs
<1>2. \E f : Is(f)
  <2>1. \E f : Reconstructs(f, 4, stride, in, prev)
    BY ReconstructsExists, 4 \in 1..4
  <2> HIDE DEF Is
  <2> QED
    BY <1>1, <2>1
<1>3. Is(line)
  BY <1>2
<1>4. png_filter_paeth(stride, in, prev) = [i \in 1..Len(in) |-> line[i]]
  BY DEF png_filter_paeth, Reconstruct
<1> HIDE DEF line
<1>5. png_filter_paeth(stride, in, prev) = line
  BY <1>3, <1>4
<1> QED
  BY <1>1, <1>3, <1>5

\* What any filter makes of a line.
Undone(line, filter, stride, in, prev) ==
  /\ line \in Seq(Int) /\ Len(line) = Len(in)
  /\ filter = 0 => line = in
  /\ filter \in 1..4 => Reconstructs(line, filter, stride, in, prev)
  /\ filter \notin 0..4 => line = [i \in 1..Len(in) |-> Undef]

LEMMA UnfilteredLine ==
  ASSUME NEW stride \in Nat \ {0}, NEW in \in Seq(Int), NEW prev \in Seq(Int), NEW filter
  PROVE  Undone(Unfiltered(filter, stride, in, prev), filter, stride, in, prev)
<1>1. PICK line : line = Unfiltered(filter, stride, in, prev)
  OBVIOUS
<1>2. filter = 0 => line = in
  BY <1>1 DEF Unfiltered
<1>3. filter \in 1..4 => Reconstructs(line, filter, stride, in, prev)
  <2>1. filter = 1 => Reconstructs(line, 1, stride, in, prev)
    BY <1>1, SubLine DEF Unfiltered
  <2>2. filter = 2 => Reconstructs(line, 2, stride, in, prev)
    BY <1>1, UpLine DEF Unfiltered
  <2>3. filter = 3 => Reconstructs(line, 3, stride, in, prev)
    BY <1>1, AverageLine DEF Unfiltered
  <2>4. filter = 4 => Reconstructs(line, 4, stride, in, prev)
    BY <1>1, PaethLine DEF Unfiltered
  <2> QED
    BY <2>1, <2>2, <2>3, <2>4
<1>4. filter \notin 0..4 => line = [i \in 1..Len(in) |-> Undef]
  <2>1. DOMAIN in = 1..Len(in)
    OBVIOUS
  <2> QED
    BY <1>1, <2>1 DEF Unfiltered
<1>5. line \in Seq(Int) /\ Len(line) = Len(in)
  <2>1. CASE filter = 0
    BY <1>2, <2>1
  <2>2. CASE filter \in 1..4
    <3>1. line \in [1..Len(in) -> Int]
      BY <1>3, <2>2, ReconstructsType
    <3> QED
      BY <3>1, Len(in) \in Nat, FunctionIsSeq
  <2>3. CASE filter \notin 0..4
    <3>1. line \in [1..Len(in) -> Int]
      BY <1>4, <2>3 DEF Undef
    <3> QED
      BY <3>1, Len(in) \in Nat, FunctionIsSeq
  <2> QED
    BY <2>1, <2>2, <2>3
<1> QED
  BY <1>1, <1>2, <1>3, <1>4, <1>5 DEF Undone

-----------------------------------------------------------------------------
(* One byte *)

\* png_paeth takes the nearest of the three, as the format says.
LEMMA PaethIsNearest ==
  ASSUME NEW a \in 0..255, NEW b \in 0..255, NEW c \in 0..255
  PROVE  png_paeth(a, b, c) = Predicted(4, a, b, c)
<1> DEFINE far(v) == Distance(a + b - c, v)
           nearest == {v \in {a, b, c} : \A w \in {a, b, c} : far(v) <= far(w)}
<1>1. far(a) \in Int /\ far(b) \in Int /\ far(c) \in Int
  BY DEF Distance
<1>2. Undef \notin {a, b, c}
  BY DEF Undef
<1>3. png_paeth(a, b, c) = IF far(a) <= far(b) /\ far(a) <= far(c) THEN a
                           ELSE IF far(b) <= far(c) THEN b ELSE c
  BY <1>2 DEF png_paeth
<1>4. a \in nearest <=> far(a) <= far(b) /\ far(a) <= far(c)
  <2> HIDE DEF far
  <2> QED
    BY <1>1
<1>5. a \notin nearest => (b \in nearest <=> far(b) <= far(c))
  <2> HIDE DEF far
  <2> QED
    BY <1>1
<1>6. Predicted(4, a, b, c) = IF a \in nearest THEN a ELSE IF b \in nearest THEN b ELSE c
  BY DEF Predicted
<1> HIDE DEF nearest, far
<1> QED
  BY <1>3, <1>4, <1>5, <1>6

\* The format predicts bytes.
LEMMA PredictedType ==
  ASSUME NEW filter \in 0..4, NEW a \in 0..255, NEW b \in 0..255, NEW c \in 0..255
  PROVE  Predicted(filter, a, b, c) \in 0..255
<1>1. filter = 0 => Predicted(filter, a, b, c) = 0
  BY DEF Predicted
<1>2. filter = 1 => Predicted(filter, a, b, c) = a
  BY DEF Predicted
<1>3. filter = 2 => Predicted(filter, a, b, c) = b
  BY DEF Predicted
<1>4. filter = 3 => Predicted(filter, a, b, c) = (a + b) \div 2
  BY DEF Predicted
<1>5. filter = 4 => Predicted(filter, a, b, c) \in {a, b, c}
  BY DEF Predicted
<1> QED
  BY <1>1, <1>2, <1>3, <1>4, <1>5

\* A byte is that of the picture, or unknown where data may be missing.
Decoded(byte, original, complete) ==
  byte = original \/ (byte = Undef /\ ~complete)

\* Adding what was subtracted gives the byte again.
LEMMA PlusPredicted ==
  ASSUME NEW p \in 0..255, NEW q \in 0..255
  PROVE  Plus((p - q) % 256, q) = p
<1>1. (p - q) % 256 = IF p >= q THEN p - q ELSE p - q + 256
  OBVIOUS
<1> QED
  BY <1>1 DEF Plus, Undef

\* A byte comes out right if those that it is predicted from have.
LEMMA ByteDecoded ==
  ASSUME NEW filter \in 1..4, NEW complete, NEW p \in 0..255,
         NEW a \in 0..255, NEW b \in 0..255, NEW c \in 0..255,
         NEW a1, NEW b1, NEW c1, NEW d,
         Decoded(a1, a, complete), Decoded(b1, b, complete), Decoded(c1, c, complete),
         Decoded(d, (p - Predicted(filter, a, b, c)) % 256, complete)
  PROVE  Decoded(Plus(d, Guess(filter, a1, b1, c1)), p, complete)
<1>1. d = Undef \/ Guess(filter, a1, b1, c1) = Undef
        => Plus(d, Guess(filter, a1, b1, c1)) = Undef
  BY DEF Plus
<1>2. \/ Guess(filter, a1, b1, c1) = Predicted(filter, a, b, c)
      \/ Guess(filter, a1, b1, c1) = Undef /\ ~complete
  <2>1. CASE filter = 1
    BY <2>1 DEF Guess, Predicted, Decoded
  <2>2. CASE filter = 2
    BY <2>2 DEF Guess, Predicted, Decoded
  <2>3. CASE filter = 3
    <3>1. Guess(3, a1, b1, c1) = IF Undef \in {a1, b1} THEN Undef ELSE (a1 + b1) \div 2
      BY DEF Guess
    <3>2. Predicted(3, a, b, c) = (a + b) \div 2
      BY DEF Predicted
    <3> QED
      BY <2>3, <3>1, <3>2 DEF Decoded, Undef
  <2>4. CASE filter = 4
    <3>1. Guess(4, a1, b1, c1) = png_paeth(a1, b1, c1)
      BY DEF Guess
    <3>2. Undef \in {a1, b1, c1} => png_paeth(a1, b1, c1) = Undef
      BY DEF png_paeth
    <3>3. Undef \notin {a1, b1, c1} => a1 = a /\ b1 = b /\ c1 = c
      BY DEF Decoded
    <3>4. Undef \in {a1, b1, c1} => ~complete
      BY DEF Decoded, Undef
    <3>5. png_paeth(a, b, c) = Predicted(4, a, b, c)
      BY PaethIsNearest
    <3>6. CASE Undef \in {a1, b1, c1}
      BY <2>4, <3>1, <3>2, <3>4, <3>6
    <3>7. CASE Undef \notin {a1, b1, c1}
      BY <2>4, <3>1, <3>3, <3>5, <3>7
    <3> QED
      BY <3>6, <3>7
  <2> QED
    BY <2>1, <2>2, <2>3, <2>4
<1>3. PICK q \in 0..255 : q = Predicted(filter, a, b, c)
  <2>1. Predicted(filter, a, b, c) \in 0..255
    BY filter \in 0..4, PredictedType
  <2> QED
    BY <2>1
<1>4. Plus((p - q) % 256, q) = p
  BY PlusPredicted
<1> QED
  BY <1>1, <1>2, <1>3, <1>4 DEF Decoded

-----------------------------------------------------------------------------
(* All lines *)

\* The lines of png_data: how many there are, their filters and their bytes.
Lines == Len(png.png_data) \div (png.width * png.bpp + 1)

Start(l) == (l - 1) * (png.width * png.bpp + 1) + 1

FilterOf(l) == png.png_data[Start(l)]

LineBytes(l) == SubSeq(png.png_data, Start(l) + 1, Start(l) + png.width * png.bpp)

\* line is what they become, one after the other.
Unfilters(line) ==
  line = [l \in 0..Lines |->
           IF l = 0 THEN <<>>
           ELSE Unfiltered(FilterOf(l), png.bpp, LineBytes(l), line[l - 1])]

\* A size and data that png_unfilter can work on.
Unfilterable ==
  png.width \in Nat /\ png.bpp \in Nat \ {0} /\ png.png_data \in Seq(Int)

\* Each line lies in png_data.
LEMMA LineInside ==
  ASSUME Unfilterable, NEW l \in 1..Lines
  PROVE  /\ Lines \in Nat /\ png.width * png.bpp \in Nat
         /\ Start(l) \in 1..Len(png.png_data)
         /\ LineBytes(l) \in Seq(Int) /\ Len(LineBytes(l)) = png.width * png.bpp
         /\ \A j \in 1 .. png.width * png.bpp : LineBytes(l)[j] = png.png_data[Start(l) + j]
<1>1. PICK len \in Nat : len = png.width * png.bpp
  BY DEF Unfilterable
<1>2. PICK data \in Seq(Int) : data = png.png_data
  BY DEF Unfilterable
<1>3. PICK n \in Nat : n = Lines /\ n * (len + 1) <= Len(data)
  <2>1. PICK m \in Nat : m = Len(data)
    OBVIOUS
  <2>2. m \div (len + 1) \in Nat /\ (m \div (len + 1)) * (len + 1) <= m
    <3>1. PICK k \in Nat \ {0} : k = len + 1
      OBVIOUS
    <3>2. m \div k \in Nat /\ m % k \in 0..k - 1 /\ m = k * (m \div k) + (m % k)
      BY DivMod
    <3>3. PICK q \in Nat : q = m \div k
      BY <3>2
    <3>4. m = k * q + (m % k) /\ k * q = q * k
      BY <3>2, <3>3
    <3> QED
      BY <3>1, <3>2, <3>3, <3>4
  <2> QED
    BY <1>1, <1>2, <2>1, <2>2 DEF Lines
<1>4. l \in Nat \ {0} /\ l <= n
  BY <1>3
<1>5. PICK a \in Nat : a = (l - 1) * (len + 1) /\ a + (len + 1) <= n * (len + 1)
  <2>1. n + 1 \in Nat /\ l < n + 1 /\ (n + 1) - 1 = n /\ len + 1 \in Nat
    BY <1>3, <1>4
  <2>2. /\ (l - 1) * (len + 1) \in Nat
        /\ (l - 1) * (len + 1) + (len + 1) <= ((n + 1) - 1) * (len + 1)
    BY <1>4, <2>1, Multiples
  <2> QED
    BY <2>1, <2>2
<1>6. PICK m \in Nat : m = Len(data) /\ a + len + 1 <= m
  <2>1. n * (len + 1) \in Nat
    BY <1>3
  <2> QED
    BY <1>3, <1>5, <2>1
<1>7. Start(l) = a + 1
  BY <1>1, <1>5 DEF Start
<1>8. /\ SubSeq(data, a + 2, a + 1 + len) \in Seq(Int)
      /\ Len(SubSeq(data, a + 2, a + 1 + len)) = len
      /\ \A j \in 1..len : SubSeq(data, a + 2, a + 1 + len)[j] = data[a + 1 + j]
  <2>1. /\ SubSeq(data, a + 2, a + 1 + len) = [j \in 1..len |-> data[a + 1 + j]]
    <3>1. SubSeq(data, a + 2, a + 1 + len) =
            [j \in 1..(1 + (a + 1 + len) - (a + 2)) |-> data[j + (a + 2) - 1]]
      BY SubSeqProperties
    <3>2. 1 + (a + 1 + len) - (a + 2) = len /\ \A j \in 1..len : j + (a + 2) - 1 = a + 1 + j
      OBVIOUS
    <3> QED
      BY <3>1, <3>2
  <2>2. \A j \in 1..len : data[a + 1 + j] \in Int
    <3>1. \A j \in 1..len : a + 1 + j \in 1..m
      BY <1>6
    <3> QED
      BY <1>6, <3>1
  <2>3. SubSeq(data, a + 2, a + 1 + len) \in [1..len -> Int]
    BY <2>1, <2>2
  <2> QED
    BY <2>1, <2>3, FunctionIsSeq
<1>9. LineBytes(l) = SubSeq(data, a + 2, a + 1 + len)
  <2>1. Start(l) + 1 = a + 2 /\ Start(l) + png.width * png.bpp = a + 1 + len
    BY <1>1, <1>7
  <2> QED
    BY <1>2, <2>1 DEF LineBytes
<1>10. Start(l) \in 1..Len(png.png_data)
  BY <1>2, <1>6, <1>7
<1>11. PICK bytes \in Seq(Int) : /\ bytes = LineBytes(l) /\ Len(bytes) = len
                                 /\ \A j \in 1..len : bytes[j] = data[a + 1 + j]
  BY <1>8, <1>9
<1>12. \A j \in 1..png.width * png.bpp : LineBytes(l)[j] = png.png_data[Start(l) + j]
  BY <1>1, <1>2, <1>7, <1>11
<1> QED
  BY <1>1, <1>3, <1>10, <1>11, <1>12

\* There are such lines.
LEMMA UnfiltersExists ==
  ASSUME Unfilterable
  PROVE  \E line : Unfilters(line)
<1>1. PICK n \in Nat : n = Lines
  <2>1. Len(png.png_data) \in Nat /\ png.width * png.bpp \in Nat
    BY DEF Unfilterable
  <2> QED
    BY <2>1 DEF Lines
<1> DEFINE g == [l \in 1..n |-> [v \in Seq(Int) |->
                  Unfiltered(FilterOf(l), png.bpp, LineBytes(l), v)]]
<1>2. \A l \in 1..n, v \in Seq(Int) :
        g[l][v] = Unfiltered(FilterOf(l), png.bpp, LineBytes(l), v)
  OBVIOUS
<1>3. \A l \in 1..n, v \in Seq(Int) : g[l][v] \in Seq(Int)
  <2> TAKE l \in 1..n, v \in Seq(Int)
  <2>1. LineBytes(l) \in Seq(Int) /\ png.bpp \in Nat \ {0}
    BY <1>1, LineInside DEF Unfilterable
  <2>2. Unfiltered(FilterOf(l), png.bpp, LineBytes(l), v) \in Seq(Int)
    BY <2>1, UnfilteredLine DEF Undone
  <2> QED
    BY <2>2
<1>4. PICK f \in [1..n -> Seq(Int)] : Recurs(f, g, n, 1, <<>>)
  <2>1. <<>> \in Seq(Int) /\ 1 \in Nat \ {0}
    OBVIOUS
  <2> HIDE DEF g
  <2> QED
    BY <1>3, <2>1, RecursionExists
<1> DEFINE line == [l \in 0..n |-> IF l = 0 THEN <<>> ELSE f[l]]
<1> HIDE DEF g
<1>5. ASSUME NEW l \in 1..n
      PROVE  f[l] = Unfiltered(FilterOf(l), png.bpp, LineBytes(l), line[l - 1])
  <2>1. f[l] = g[l][IF l > 1 THEN f[l - 1] ELSE <<>>]
    <3> HIDE DEF g
    <3> QED
      BY <1>4 DEF Recurs
  <2>2. line[l - 1] = IF l > 1 THEN f[l - 1] ELSE <<>>
    OBVIOUS
  <2>3. line[l - 1] \in Seq(Int)
    <3>1. l > 1 => l - 1 \in 1..n
      OBVIOUS
    <3> HIDE DEF g
    <3> QED
      BY <1>4, <2>2, <3>1
  <2>4. f[l] = g[l][line[l - 1]]
    BY <2>1, <2>2
  <2> HIDE DEF line
  <2> QED
    BY <1>2, <2>3, <2>4
<1>6. /\ line = [l \in 0..n |-> line[l]] /\ line[0] = <<>>
      /\ \A l \in 1..n : line[l] = f[l]
  OBVIOUS
<1> HIDE DEF line
<1>7. \A l \in 0..n : l # 0 => l \in 1..n
  OBVIOUS
<1>8. line = [l \in 0..n |->
               IF l = 0 THEN <<>>
               ELSE Unfiltered(FilterOf(l), png.bpp, LineBytes(l), line[l - 1])]
  BY <1>5, <1>6, <1>7
<1> QED
  BY <1>1, <1>8 DEF Unfilters

\* The filters that png_unfilter takes, and the bytes that it writes.
LEMMA UnfilterResult ==
  ASSUME Unfilterable, NEW r \in png_unfilter
  PROVE  /\ r.result = "PNG_NO_ERROR" =>
               \A l \in 1..Lines : FilterOf(l) \in 0..4 \cup {Undef}
         /\ \E line : Unfilters(line) /\ r.bytes = FlattenSeq([l \in 1..Lines |-> line[l]])
<1> DEFINE Is(f) == Unfilters(f)
           line == CHOOSE f : Is(f)
           filters == {FilterOf(l) : l \in 1..Lines}
<1>1. Unfilters(line)
  BY UnfiltersExists
<1> DEFINE results == CASE filters \subseteq 0..4 -> {"PNG_NO_ERROR"}
                        [] filters \subseteq 0..4 \cup {Undef} /\ Undef \in filters
                             -> {"PNG_NO_ERROR", "PNG_UNKNOWN_FILTER"}
                        [] OTHER -> {"PNG_UNKNOWN_FILTER"}
<1>2. r \in {[result |-> s, bytes |-> FlattenSeq([l \in 1..Lines |-> line[l]])] :
              s \in results}
  BY DEF png_unfilter, Unfilters, Lines, FilterOf, LineBytes, Start
<1> HIDE DEF line, filters, results
<1>3. r.bytes = FlattenSeq([l \in 1..Lines |-> line[l]]) /\ r.result \in results
  BY <1>2
<1>4. r.result = "PNG_NO_ERROR" => filters \subseteq 0..4 \cup {Undef}
  <2>1. r.result \in CASE filters \subseteq 0..4 -> {"PNG_NO_ERROR"}
                        [] filters \subseteq 0..4 \cup {Undef} /\ Undef \in filters
                             -> {"PNG_NO_ERROR", "PNG_UNKNOWN_FILTER"}
                        [] OTHER -> {"PNG_UNKNOWN_FILTER"}
    BY <1>3 DEF results
  <2>2. CASE filters \subseteq 0..4
    BY <2>2
  <2>3. CASE ~(filters \subseteq 0..4) /\ ~(filters \subseteq 0..4 \cup {Undef})
    BY <2>1, <2>3
  <2> QED
    BY <2>2, <2>3
<1>5. r.result = "PNG_NO_ERROR" => \A l \in 1..Lines : FilterOf(l) \in 0..4 \cup {Undef}
  BY <1>4 DEF filters
<1> QED
  BY <1>1, <1>3, <1>5

\* What the lines are, one by one.
LEMMA LinesType ==
  ASSUME Unfilterable, NEW line, Unfilters(line)
  PROVE  /\ line[0] = <<>>
         /\ \A l \in 1..Lines :
              /\ line[l] = Unfiltered(FilterOf(l), png.bpp, LineBytes(l), line[l - 1])
              /\ line[l - 1] \in Seq(Int)
              /\ line[l] \in Seq(Int) /\ Len(line[l]) = png.width * png.bpp
<1>1. PICK n \in Nat : n = Lines
  <2>1. Len(png.png_data) \in Nat /\ png.width * png.bpp \in Nat
    BY DEF Unfilterable
  <2> QED
    BY <2>1 DEF Lines
<1>2. /\ line[0] = <<>>
      /\ \A l \in 1..n :
           line[l] = Unfiltered(FilterOf(l), png.bpp, LineBytes(l), line[l - 1])
  BY <1>1 DEF Unfilters
<1>3. ASSUME NEW l \in 1..n, line[l - 1] \in Seq(Int)
      PROVE  line[l] \in Seq(Int) /\ Len(line[l]) = png.width * png.bpp
  <2>1. /\ LineBytes(l) \in Seq(Int) /\ Len(LineBytes(l)) = png.width * png.bpp
        /\ png.bpp \in Nat \ {0}
    BY <1>1, LineInside DEF Unfilterable
  <2>2. /\ Unfiltered(FilterOf(l), png.bpp, LineBytes(l), line[l - 1]) \in Seq(Int)
        /\ Len(Unfiltered(FilterOf(l), png.bpp, LineBytes(l), line[l - 1])) =
             Len(LineBytes(l))
    BY <1>3, <2>1, UnfilteredLine DEF Undone
  <2> QED
    BY <1>2, <2>1, <2>2
<1> DEFINE Bad == {l \in 0..n : line[l] \notin Seq(Int)}
<1>4. Bad = {}
  <2> SUFFICES ASSUME Bad # {}
               PROVE  FALSE
    OBVIOUS
  <2>1. PICK l \in Bad : \A i \in Bad : l <= i
    <3>1. Bad \in SUBSET Nat
      OBVIOUS
    <3> HIDE DEF Bad
    <3> QED
      BY <3>1, LeastNat
  <2>2. l # 0
    <3>1. <<>> \in Seq(Int)
      OBVIOUS
    <3> QED
      BY <1>2, <3>1
  <2>3. l \in 1..n /\ l - 1 \in 0..n /\ line[l - 1] \in Seq(Int)
    BY <2>1, <2>2
  <2>4. line[l] \in Seq(Int)
    BY <1>3, <2>3
  <2> QED
    BY <2>4
<1>5. \A l \in 1..n : line[l - 1] \in Seq(Int)
  <2>1. \A l \in 1..n : l - 1 \in 0..n
    OBVIOUS
  <2> QED
    BY <1>4, <2>1
<1> QED
  BY <1>1, <1>2, <1>3, <1>5

-----------------------------------------------------------------------------
(* The picture *)

\* The header of the file, and its data as far as the chunk before e.
Header(file) ==
  /\ png.width = Ihdr(file).width /\ png.width \in Nat
  /\ png.height = Ihdr(file).height /\ png.height \in Nat
  /\ png.bpp = BytesPerPixel(file)

\* size bytes, the first of which are data.
Filled(data, size) == [i \in 1..size |-> IF i \in 1..Len(data) THEN data[i] ELSE Undef]

Holds(file, e) ==
  /\ Stored(file, e) \in Seq(Nat) /\ Len(Stored(file, e)) <= Datalen(png)
  /\ png.png_data = Filled(Stored(file, e), Datalen(png))

AllThere(file, e) == Len(Stored(file, e)) = Ihdr(file).height * LineSize(file)

\* The sizes that png_get_data, png_unfilter and the format compute agree.
LEMMA Sizes ==
  ASSUME NEW file, Header(file)
  PROVE  /\ png.bpp \in 3..4 /\ LineSize(file) = png.width * png.bpp + 1
         /\ LineSize(file) \in Nat \ {0} /\ png.height * LineSize(file) \in Nat
         /\ Datalen(png) = U(png.height * LineSize(file)) /\ Datalen(png) \in Nat
         /\ Datalen(png) <= png.height * LineSize(file)
<1>1. PICK w \in Nat, h \in Nat, b \in 3..4 : w = png.width /\ h = png.height /\ b = png.bpp
  BY DEF Header, BytesPerPixel
<1>2. LineSize(file) = w * b + 1
  BY <1>1 DEF Header, LineSize
<1>3. PICK m \in Nat : m = w * b
  OBVIOUS
<1>4. w * h * b + h = h * (m + 1) /\ h * (m + 1) \in Nat
  <2>1. w * h * b = h * m
    BY <1>3
  <2> QED
    BY <2>1
<1>5. PICK s \in Nat : s = h * (m + 1)
  BY <1>4
<1>6. U(s) \in Nat /\ U(s) <= s
  <2>1. /\ s % UintSize \in 0..UintSize - 1 /\ s \div UintSize \in Nat
        /\ s = UintSize * (s \div UintSize) + (s % UintSize)
    BY DivMod, DrawingAssumption
  <2>2. UintSize * (s \div UintSize) \in Nat
    BY <2>1, DrawingAssumption
  <2> QED
    BY <2>1, <2>2, DrawingAssumption DEF U
<1>7. Datalen(png) = U(s)
  BY <1>1, <1>4, <1>5 DEF Datalen
<1> QED
  BY <1>1, <1>2, <1>3, <1>4, <1>5, <1>6, <1>7

\* So there is png_data to work on, and as many lines as there is room for.
LEMMA HeldLines ==
  ASSUME NEW file, NEW e, Header(file), Holds(file, e)
  PROVE  /\ Unfilterable /\ Len(png.png_data) = Datalen(png)
         /\ Lines = StoredRows(file) /\ Lines \in Nat
<1>1. Datalen(png) \in Nat /\ png.bpp \in 3..4
  BY Sizes
<1>2. png.png_data \in [1..Datalen(png) -> Int]
  <2>1. PICK data \in Seq(Nat) : data = Stored(file, e)
    BY DEF Holds
  <2>2. \A i \in 1..Len(data) : data[i] \in Int
    BY <2>1
  <2> QED
    BY <2>1, <2>2 DEF Holds, Filled, Undef
<1>3. png.png_data \in Seq(Int) /\ Len(png.png_data) = Datalen(png)
  BY <1>1, <1>2, FunctionIsSeq
<1>4. Unfilterable
  BY <1>1, <1>3 DEF Unfilterable, Header
<1>5. Lines = StoredRows(file)
  <2>1. StoredRows(file) = U(png.height * LineSize(file)) \div LineSize(file)
    BY DEF StoredRows, Header
  <2> QED
    BY <1>3, <2>1, Sizes DEF Lines
<1>6. Lines \in Nat
  <2>1. PICK d \in Nat, m \in Nat \ {0} : d = Datalen(png) /\ m = LineSize(file)
    BY Sizes
  <2>2. d \div m \in Nat
    BY DivMod
  <2> QED
    BY <1>3, <2>1, <2>2, Sizes DEF Lines
<1> QED
  BY <1>3, <1>4, <1>5, <1>6

\* When nothing is missing, there is room for every line.
LEMMA AllLines ==
  ASSUME NEW file, NEW e, Header(file), Holds(file, e), AllThere(file, e)
  PROVE  Len(Stored(file, e)) = Datalen(png) /\ Lines = png.height
<1>1. PICK d \in Nat, m \in Nat \ {0}, h \in Nat :
        d = Datalen(png) /\ m = LineSize(file) /\ h = png.height /\ d <= h * m
  BY Sizes DEF Header
<1>2. PICK s \in Nat : s = Len(Stored(file, e))
  BY DEF Holds
<1>3. s = h * m /\ s <= d
  BY <1>1, <1>2 DEF AllThere, Header, Holds
<1>4. s = d
  BY <1>1, <1>3
<1>5. d \div m = h
  <2>1. h \in Int /\ 0 \in 0..m - 1
    OBVIOUS
  <2>2. (m * h + 0) \div m = h
    BY <2>1, Quotients
  <2>3. d = m * h + 0
    BY <1>3, <1>4
  <2> QED
    BY <2>2, <2>3
<1>6. Lines = d \div m
  BY <1>1, Sizes, HeldLines DEF Lines
<1> QED
  BY <1>1, <1>2, <1>4, <1>5, <1>6

\* A picture's pixel in column x and row y.
Nr(x, y) == y * png.width + x + 1

\* It gives its place, and those of the pixels next to it.
Placed(x, y) ==
  /\ Nr(x, y) \in Nat \ {0}
  /\ (Nr(x, y) - 1) % png.width = x /\ (Nr(x, y) - 1) \div png.width = y
  /\ Nr(x, y) - 1 = Nr(x - 1, y)
  /\ Nr(x, y) - png.width = Nr(x, y - 1)
  /\ Nr(x, y) - png.width - 1 = Nr(x - 1, y - 1)

\* A pixel's number gives its place back.
LEMMA NrPlace ==
  ASSUME png.width \in Nat, NEW x \in 0..png.width - 1, NEW y \in Nat
  PROVE  Placed(x, y)
<1>1. PICK w \in Nat \ {0} : w = png.width /\ x \in 0..w - 1
  OBVIOUS
<1>2. PICK z \in Nat : z = y * w /\ (y - 1) * w = z - w
  <2>1. (y - 1) * w = y * w - w /\ y * w \in Nat
    OBVIOUS
  <2> QED
    BY <2>1
<1>3. Nr(x, y) = z + x + 1 /\ Nr(x, y - 1) = z - w + x + 1
  BY <1>1, <1>2 DEF Nr
<1>4. Nr(x - 1, y) = z + x /\ Nr(x - 1, y - 1) = z - w + x
  BY <1>1, <1>2 DEF Nr
<1>5. (z + x) % w = x /\ (z + x) \div w = y
  <2>1. y \in Int /\ x \in 0..w - 1
    BY <1>1
  <2>2. (w * y + x) % w = x /\ (w * y + x) \div w = y
    BY <2>1, Quotients
  <2>3. z + x = w * y + x
    BY <1>2
  <2> QED
    BY <2>2, <2>3
<1>6. Nr(x, y) - 1 = z + x
  BY <1>1, <1>2, <1>3
<1>7. (Nr(x, y) - 1) % png.width = x /\ (Nr(x, y) - 1) \div png.width = y
  BY <1>1, <1>5, <1>6
<1>8. Nr(x, y) \in Nat \ {0} /\ Nr(x, y) - 1 = Nr(x - 1, y)
  BY <1>1, <1>2, <1>3, <1>4
<1>9. /\ Nr(x, y) - png.width = Nr(x, y - 1)
      /\ Nr(x, y) - png.width - 1 = Nr(x - 1, y - 1)
  BY <1>1, <1>2, <1>3, <1>4
<1> QED
  BY <1>7, <1>8, <1>9 DEF Placed

\* The filter of its line, and each of its bytes, are there or not yet known.
LEMMA DataByte ==
  ASSUME NEW file, NEW e, Header(file), Holds(file, e), Undamaged(file, e),
         NEW picture, Stores(file, e, picture),
         NEW y \in 0..Lines - 1, NEW x \in 0..png.width - 1, NEW k \in 1..png.bpp,
         Nr(x, y) \in 1..Len(picture)
  PROVE  \/ FilterOf(y + 1) = Undef /\ ~AllThere(file, e)
         \/ /\ FilterOf(y + 1) \in 0..4
            /\ Decoded(LineBytes(y + 1)[x * png.bpp + k],
                       Encoded(file, picture, Nr(x, y), k, FilterOf(y + 1)),
                       AllThere(file, e))
<1>1. PICK w \in Nat, h \in Nat, b \in 3..4, n \in Nat, d \in Nat :
        w = png.width /\ h = png.height /\ b = png.bpp /\ n = Lines /\ d = Datalen(png)
  BY Sizes, HeldLines DEF Header
<1>2. PICK data \in Seq(Int), s \in Nat : data = Stored(file, e) /\ s = Len(data)
  BY DEF Holds
<1>3. y \in Nat /\ y < n /\ x \in Nat /\ x < w /\ k \in 1..b
  BY <1>1
<1>4. PICK j \in 1..w * b : j = x * b + k
  <2>1. PICK z \in Nat : z = x * b
    BY <1>3
  <2>2. z + b <= w * b
    <3>1. PICK v \in Nat : w = x + 1 + v
      <4>1. w - x - 1 \in Nat /\ w = x + 1 + (w - x - 1)
        BY <1>3
      <4> QED
        BY <4>1
    <3>2. w * b = z + b + v * b /\ v * b \in Nat
      BY <2>1, <3>1
    <3> QED
      BY <3>2
  <2>3. z + k \in 1..w * b
    BY <1>3, <2>1, <2>2
  <2> QED
    BY <2>1, <2>3
<1>5. PICK at \in Nat : at = y * LineSize(file)
  BY <1>3, Sizes
<1>6. Start(y + 1) = at + 1
  <2>1. (y + 1) - 1 = y
    BY <1>3
  <2> QED
    BY <1>5, <2>1, Sizes DEF Start
<1>7. /\ at + 1 \in 1..d /\ at + 1 + j \in 1..d
      /\ FilterOf(y + 1) = png.png_data[at + 1]
      /\ LineBytes(y + 1)[j] = png.png_data[at + 1 + j]
  <2>1. y + 1 \in 1..Lines
    BY <1>1, <1>3
  <2>2. Unfilterable /\ Len(png.png_data) = d
    BY <1>1, HeldLines
  <2>3. /\ Start(y + 1) \in 1..Len(png.png_data)
        /\ \A i \in 1..png.width * png.bpp :
             LineBytes(y + 1)[i] = png.png_data[Start(y + 1) + i]
    BY <2>1, <2>2, LineInside
  <2>4. at + 1 + j \in 1..d
    <3>1. PICK m \in Nat : m = w * b /\ LineSize(file) = m + 1
      BY <1>1, Sizes, SMTT(30)
    <3>2. n * (m + 1) <= d
      <4>1. n = d \div (m + 1)
        BY <1>1, <2>2, <3>1 DEF Lines
      <4>2. PICK q \in Nat \ {0} : q = m + 1
        OBVIOUS
      <4>3. d = q * (d \div q) + (d % q) /\ d % q \in 0..q - 1
        BY DivMod
      <4>4. n = d \div q
        BY <4>1, <4>2
      <4>5. d = q * n + (d % q)
        BY <4>3, <4>4
      <4>6. q * n = n * q /\ q * n \in Nat
        OBVIOUS
      <4>7. n * q <= d
        BY <4>3, <4>5, <4>6, SMTT(30)
      <4> QED
        BY <4>2, <4>7
    <3>3. at + (m + 1) <= n * (m + 1)
      <4>1. y + 1 \in Nat \ {0} /\ n + 1 \in Nat /\ y + 1 < n + 1 /\ m + 1 \in Nat
        BY <1>3
      <4>2. ((y + 1) - 1) * (m + 1) + (m + 1) <= ((n + 1) - 1) * (m + 1)
        BY <4>1, Multiples
      <4>3. (y + 1) - 1 = y /\ (n + 1) - 1 = n
        BY <1>3
      <4> QED
        BY <1>5, <3>1, <4>2, <4>3
    <3> QED
      <4>1. n * (m + 1) \in Nat
        OBVIOUS
      <4>2. j <= m
        BY <1>4, <3>1
      <4> QED
        BY <3>2, <3>3, <4>1, <4>2
  <2> QED
    BY <1>1, <1>4, <1>6, <2>2, <2>3, <2>4 DEF FilterOf
<1>8. \A i \in 1..d : png.png_data[i] = IF i \in 1..s THEN data[i] ELSE Undef
  BY <1>1, <1>2 DEF Holds, Filled
<1>9. AllThere(file, e) => s = d
  BY <1>1, <1>2, AllLines
<1>10. CASE at + 1 > s
  <2>1. FilterOf(y + 1) = Undef
    BY <1>7, <1>8, <1>10, SMTT(30)
  <2>2. ~AllThere(file, e)
    BY <1>7, <1>9, <1>10
  <2> QED
    BY <2>1, <2>2
<1>11. CASE at + 1 <= s
  <2>1. FilterOf(y + 1) = data[at + 1]
    BY <1>7, <1>8, <1>11
  <2>2. FilterOf(y + 1) \in 0..4
    <3>1. y \in 0..StoredRows(file) - 1
      BY <1>1, <1>3, HeldLines
    <3> QED
      BY <1>2, <1>5, <1>11, <2>1, <3>1 DEF Undamaged
  <2>3. PICK i \in 1..Len(picture) : i = Nr(x, y)
    OBVIOUS
  <2>4. (i - 1) \div w = y /\ (i - 1) % w = x
    BY <1>1, <1>3, <2>3, NrPlace DEF Placed
  <2>5. at + 1 + j <= s =>
          data[at + 1 + j] = Encoded(file, picture, i, k, data[at + 1])
    <3>1. y < StoredRows(file) /\ k \in 1..BytesPerPixel(file) /\ Ihdr(file).width = w
      BY <1>1, <1>3, HeldLines DEF Header
    <3>2. LET line == ((i - 1) \div w) * LineSize(file)
              place == line + 1 + ((i - 1) % w) * BytesPerPixel(file) + k
          IN place <= Len(data) /\ (i - 1) \div w < StoredRows(file) =>
               data[place] = Encoded(file, picture, i, k, data[line + 1])
      BY <1>2, <2>3, <3>1 DEF Stores
    <3>3. at + 1 + x * BytesPerPixel(file) + k = at + 1 + j
      BY <1>1, <1>3, <1>4, <1>5, SMTT(30) DEF Header
    <3> QED
      BY <1>2, <1>5, <2>4, <3>1, <3>2, <3>3
  <2>6. Decoded(LineBytes(y + 1)[j], Encoded(file, picture, i, k, FilterOf(y + 1)),
                AllThere(file, e))
    <3>1. CASE at + 1 + j <= s
      BY <1>7, <1>8, <2>1, <2>5, <3>1 DEF Decoded
    <3>2. CASE at + 1 + j > s
      BY <1>7, <1>8, <1>9, <3>2, SMTT(30) DEF Decoded
    <3> QED
      BY <3>1, <3>2
  <2> QED
    BY <1>1, <1>4, <2>2, <2>3, <2>6
<1> QED
  BY <1>10, <1>11

\* What the format stores for a byte, by column and row.
LEMMA EncodedAt ==
  ASSUME NEW file, Header(file), NEW picture, NEW k, NEW filter,
         NEW x \in 0..png.width - 1, NEW y \in Nat
  PROVE  Encoded(file, picture, Nr(x, y), k, filter) =
           (picture[Nr(x, y)][k] -
              Predicted(filter, IF x > 0 THEN picture[Nr(x - 1, y)][k] ELSE 0,
                                IF y > 0 THEN picture[Nr(x, y - 1)][k] ELSE 0,
                                IF x > 0 /\ y > 0 THEN picture[Nr(x - 1, y - 1)][k] ELSE 0))
             % 256
<1>1. png.width \in Nat /\ Ihdr(file).width = png.width
  BY DEF Header
<1>2. /\ (Nr(x, y) - 1) % png.width = x /\ (Nr(x, y) - 1) \div png.width = y
      /\ Nr(x, y) - 1 = Nr(x - 1, y)
      /\ Nr(x, y) - png.width = Nr(x, y - 1)
      /\ Nr(x, y) - png.width - 1 = Nr(x - 1, y - 1)
  <2>1. Placed(x, y)
    BY <1>1, NrPlace
  <2> QED
    BY <2>1, Zenon DEF Placed
<1> QED
  BY <1>1, <1>2 DEF Encoded

\* Byte k of the pixel has come out of the lines as it is in the picture.
ComesOut(line, picture, x, y, k, complete) ==
  Decoded(line[y + 1][x * png.bpp + k], picture[Nr(x, y)][k], complete)

\* It does so once those that it is predicted from have.
LEMMA ByteShows ==
  ASSUME NEW file, NEW e, Header(file), Holds(file, e), Undamaged(file, e),
         NEW picture, Stores(file, e, picture), NEW line, Unfilters(line),
         NEW y \in 0..Lines - 1, NEW x \in 0..png.width - 1, NEW k \in 1..png.bpp,
         Nr(x, y) \in 1..Len(picture), NEW complete, complete = AllThere(file, e),
         x > 0 => ComesOut(line, picture, x - 1, y, k, complete),
         y > 0 => ComesOut(line, picture, x, y - 1, k, complete),
         x > 0 /\ y > 0 => ComesOut(line, picture, x - 1, y - 1, k, complete)
  PROVE  ComesOut(line, picture, x, y, k, complete)
<1>1. PICK w \in Nat, b \in 3..4, n \in Nat :
        w = png.width /\ b = png.bpp /\ n = Lines
  BY Sizes, HeldLines DEF Header
<1>2. y \in Nat /\ y < n /\ x \in Nat /\ x < w /\ k \in 1..b
  BY <1>1
<1>3. \A i \in 1..Len(picture) : picture[i][k] \in 0..255
  <2>1. k \in 1..4
    BY <1>1, <1>2
  <2>2. \A i \in 1..Len(picture) : picture[i] \in [1..4 -> 0..255]
    BY DEF Stores
  <2> QED
    BY <2>1, <2>2, ZenonT(30)
<1> DEFINE a == IF x > 0 THEN picture[Nr(x - 1, y)][k] ELSE 0
           u == IF y > 0 THEN picture[Nr(x, y - 1)][k] ELSE 0
           c == IF x > 0 /\ y > 0 THEN picture[Nr(x - 1, y - 1)][k] ELSE 0
           p == picture[Nr(x, y)][k]
<1>4. a \in 0..255 /\ u \in 0..255 /\ c \in 0..255 /\ p \in 0..255
  <2>1. png.width \in Nat
    BY <1>1
  <2>2. /\ Nr(x, y) - 1 = Nr(x - 1, y)
        /\ Nr(x, y) - png.width = Nr(x, y - 1)
        /\ Nr(x, y) - png.width - 1 = Nr(x - 1, y - 1)
    BY <1>2, <2>1, NrPlace DEF Placed
  <2>3. x > 0 => Nr(x - 1, y) \in Nat \ {0}
    <3>1. x > 0 => x - 1 \in 0..png.width - 1
      BY <1>1, <1>2
    <3> QED
      BY <1>2, <2>1, <3>1, NrPlace DEF Placed
  <2>4. y > 0 => Nr(x, y - 1) \in Nat \ {0}
    <3>1. y > 0 => y - 1 \in Nat
      BY <1>2
    <3> QED
      BY <2>1, <3>1, NrPlace DEF Placed
  <2>5. x > 0 /\ y > 0 => Nr(x - 1, y - 1) \in Nat \ {0}
    <3>1. x > 0 => x - 1 \in 0..png.width - 1
      BY <1>1, <1>2
    <3>2. y > 0 => y - 1 \in Nat
      BY <1>2
    <3> QED
      BY <2>1, <3>1, <3>2, NrPlace DEF Placed
  <2>6. Len(picture) \in Int /\ Nr(x, y) \in Int
    <3>1. Len(picture) = U(png.width * png.height)
      BY DEF Stores, Header
    <3>2. png.width * png.height \in Nat
      BY DEF Header
    <3> QED
      BY <3>1, <3>2, DrawingAssumption DEF U
  <2>7. /\ x > 0 => Nr(x - 1, y) \in 1..Len(picture)
        /\ y > 0 => Nr(x, y - 1) \in 1..Len(picture)
        /\ x > 0 /\ y > 0 => Nr(x - 1, y - 1) \in 1..Len(picture)
    <3>1. ASSUME NEW i \in Nat \ {0}, i <= Nr(x, y)
          PROVE  i \in 1..Len(picture)
      BY <2>6, <3>1
    <3>2. /\ Nr(x - 1, y) <= Nr(x, y) /\ Nr(x, y - 1) <= Nr(x, y)
          /\ Nr(x - 1, y - 1) <= Nr(x, y)
      BY <2>1, <2>2, <2>6
    <3> QED
      BY <2>3, <2>4, <2>5, <3>1, <3>2
  <2>8. x > 0 => a \in 0..255
    BY <1>3, <2>7
  <2>9. y > 0 => u \in 0..255
    BY <1>3, <2>7
  <2>10. x > 0 /\ y > 0 => c \in 0..255
    BY <1>3, <2>7
  <2>11. p \in 0..255
    BY <1>3
  <2>12. (~(x > 0) => a = 0) /\ (~(y > 0) => u = 0) /\ (~(x > 0 /\ y > 0) => c = 0)
    OBVIOUS
  <2> HIDE DEF a, u, c, p
  <2> QED
    BY <2>8, <2>9, <2>10, <2>11, <2>12
<1> DEFINE filter == FilterOf(y + 1)
           in == LineBytes(y + 1)
           j == x * b + k
           here == line[y + 1]
           above == line[y]
<1>5. y + 1 \in 1..n /\ (y + 1) - 1 = y
  BY <1>2
<1>6. Unfilterable
  BY HeldLines
<1>7. /\ here = Unfiltered(filter, b, in, above)
      /\ above \in Seq(Int) /\ (y = 0 => above = <<>>)
      /\ here \in Seq(Int) /\ Len(here) = w * b
      /\ (y > 0 => Len(above) = w * b)
  <2>1. /\ line[y + 1] = Unfiltered(FilterOf(y + 1), png.bpp, LineBytes(y + 1), line[y])
        /\ line[y] \in Seq(Int)
        /\ line[y + 1] \in Seq(Int) /\ Len(line[y + 1]) = png.width * png.bpp
    BY <1>1, <1>5, <1>6, LinesType
  <2>2. y = 0 => line[y] = <<>>
    BY <1>6, LinesType
  <2>3. y > 0 => Len(line[y]) = png.width * png.bpp
    <3>1. y > 0 => y \in 1..n
      BY <1>2
    <3> QED
      BY <1>1, <1>6, <3>1, LinesType
  <2> QED
    BY <1>1, <2>1, <2>2, <2>3
<1>8. in \in Seq(Int) /\ Len(in) = w * b
  BY <1>1, <1>5, <1>6, LineInside
<1>9. /\ j \in 1..w * b
      /\ (x > 0) = (j > b) /\ (x > 0 => j - b = (x - 1) * b + k)
      /\ (x > 0 => j - b \in 1..w * b) /\ (x = 0 => j - b \notin 1..w * b)
  <2>1. PICK z \in Nat :
          z = x * b /\ (x - 1) * b = z - b /\ (x > 0 => z >= b) /\ (x = 0 => z = 0)
    <3>1. x * b \in Nat /\ (x - 1) * b = x * b - b
      BY <1>2
    <3>2. x > 0 => x * b >= b
      <4>1. x > 0 => x - 1 \in Nat
        BY <1>2
      <4>2. x > 0 => (x - 1) * b \in Nat
        BY <4>1
      <4> QED
        BY <3>1, <4>2
    <3>3. x = 0 => x * b = 0
      BY <1>1
    <3> QED
      BY <3>1, <3>2, <3>3
  <2>2. PICK m \in Nat : m = w * b /\ z + b <= m
    <3>1. x + 1 \in Nat \ {0} /\ w + 1 \in Nat /\ x + 1 < w + 1 /\ b \in Nat
      BY <1>2
    <3>2. ((x + 1) - 1) * b + b <= ((w + 1) - 1) * b
      BY <3>1, Multiples
    <3>3. (x + 1) - 1 = x /\ (w + 1) - 1 = w /\ w * b \in Nat
      BY <1>2
    <3> QED
      BY <2>1, <3>2, <3>3
  <2> QED
    BY <1>2, <2>1, <2>2
<1>10. \/ filter = Undef /\ ~complete
       \/ /\ filter \in 0..4
          /\ Decoded(in[j], (p - Predicted(filter, a, u, c)) % 256, complete)
  <2>1. Encoded(file, picture, Nr(x, y), k, filter) = (p - Predicted(filter, a, u, c)) % 256
    BY <1>2, EncodedAt
  <2>2. \/ FilterOf(y + 1) = Undef /\ ~AllThere(file, e)
        \/ /\ FilterOf(y + 1) \in 0..4
           /\ Decoded(LineBytes(y + 1)[x * png.bpp + k],
                      Encoded(file, picture, Nr(x, y), k, FilterOf(y + 1)),
                      AllThere(file, e))
    BY DataByte
  <2> HIDE DEF p, a, u, c
  <2> QED
    BY <1>1, <2>1, <2>2
<1>11. Decoded(Left(here, j, b), a, complete)
  <2>1. CASE x > 0
    <3>1. Left(here, j, b) = line[y + 1][(x - 1) * b + k]
      BY <1>9, <2>1 DEF Left
    <3> QED
      BY <1>1, <2>1, <3>1 DEF ComesOut
  <2>2. CASE ~(x > 0)
    <3>1. Left(here, j, b) = 0 /\ a = 0
      BY <1>9, <2>2 DEF Left
    <3> QED
      BY <3>1 DEF Decoded
  <2> QED
    BY <2>1, <2>2
<1>12. Decoded(Above(above, j), u, complete)
  <2>1. CASE y > 0
    <3>1. j \in DOMAIN above
      BY <1>7, <1>9, <2>1, SMTT(30)
    <3>2. Above(above, j) = line[(y - 1) + 1][x * b + k]
      BY <1>2, <3>1 DEF Above
    <3> QED
      BY <1>1, <2>1, <3>2 DEF ComesOut
  <2>2. CASE ~(y > 0)
    <3>1. above = <<>> /\ u = 0
      BY <1>2, <1>7, <2>2
    <3>2. Above(<<>>, j) = 0
      BY DEF Above
    <3> QED
      BY <3>1, <3>2 DEF Decoded
  <2> QED
    BY <2>1, <2>2
<1>13. Decoded(Above(above, j - b), c, complete)
  <2>1. CASE x > 0 /\ y > 0
    <3>1. j - b \in DOMAIN above
      BY <1>7, <1>9, <2>1, SMTT(30)
    <3>2. Above(above, j - b) = line[(y - 1) + 1][(x - 1) * b + k]
      BY <1>2, <1>9, <2>1, <3>1 DEF Above
    <3> QED
      BY <1>1, <2>1, <3>2 DEF ComesOut
  <2>2. CASE ~(y > 0)
    <3>1. above = <<>> /\ c = 0
      BY <1>2, <1>7, <2>2
    <3>2. Above(<<>>, j - b) = 0
      BY DEF Above
    <3> QED
      BY <3>1, <3>2 DEF Decoded
  <2>3. CASE ~(x > 0) /\ y > 0
    <3>1. j - b \notin DOMAIN above
      BY <1>2, <1>7, <1>9, <2>3, SMTT(30)
    <3>2. Above(above, j - b) = 0 /\ c = 0
      BY <2>3, <3>1 DEF Above
    <3> QED
      BY <3>2 DEF Decoded
  <2> QED
    BY <2>1, <2>2, <2>3
<1>14. Decoded(here[j], p, complete)
  <2> HIDE DEF p, a, u, c, in, here, above, filter, j
  <2>0. Undone(here, filter, b, in, above)
    <3>1. in \in Seq(Int) /\ above \in Seq(Int)
      BY <1>7, <1>8, Zenon
    <3>3. b \in Nat \ {0}
      BY <1>1
    <3>2. Undone(Unfiltered(filter, b, in, above), filter, b, in, above)
      BY <3>1, <3>3, UnfilteredLine
    <3> QED
      BY <1>7, <3>2
  <2>1. CASE filter = Undef /\ ~complete
    <3>1. filter \notin 0..4
      BY <2>1 DEF Undef
    <3>2. here = [i \in 1..Len(in) |-> Undef]
      BY <2>0, <3>1 DEF Undone
    <3>3. here[j] = Undef
      BY <1>8, <1>9, <3>2
    <3> QED
      BY <2>1, <3>3 DEF Decoded
  <2>2. CASE filter = 0 /\ Decoded(in[j], (p - Predicted(filter, a, u, c)) % 256, complete)
    <3>1. here = in
      BY <2>0, <2>2 DEF Undone
    <3>2. Predicted(0, a, u, c) = 0
      BY DEF Predicted
    <3>3. (p - 0) % 256 = p
      BY <1>4
    <3> QED
      BY <2>2, <3>1, <3>2, <3>3
  <2>3. CASE /\ filter \in 1..4
             /\ Decoded(in[j], (p - Predicted(filter, a, u, c)) % 256, complete)
    <3>1. Reconstructs(here, filter, b, in, above)
      BY <2>0, <2>3 DEF Undone
    <3>2. here[j] = Plus(in[j], Guess(filter, Left(here, j, b), Above(above, j),
                                      Above(above, j - b)))
      BY <1>8, <1>9, <3>1 DEF Reconstructs
    <3>3. PICK a1, b1, c1 : a1 = Left(here, j, b) /\ b1 = Above(above, j)
                            /\ c1 = Above(above, j - b)
      OBVIOUS
    <3>4. /\ Decoded(a1, a, complete) /\ Decoded(b1, u, complete)
          /\ Decoded(c1, c, complete)
          /\ Decoded(in[j], (p - Predicted(filter, a, u, c)) % 256, complete)
      BY <1>11, <1>12, <1>13, <2>3, <3>3
    <3>5. Decoded(Plus(in[j], Guess(filter, a1, b1, c1)), p, complete)
      BY <1>4, <2>3, <3>4, ByteDecoded, ZenonT(30)
    <3> QED
      BY <3>2, <3>3, <3>5
  <2> QED
    BY <1>10, <2>1, <2>2, <2>3
<1> QED
  BY <1>1, <1>14 DEF ComesOut

\* Where the pixels of a picture are.
Column0(i) == (i - 1) % png.width
Row0(i) == (i - 1) \div png.width

\* And its place the number.
LEMMA PixelPlace ==
  ASSUME NEW file, NEW e, Header(file), NEW picture, Stores(file, e, picture),
         NEW i \in 1..Len(picture)
  PROVE  /\ Column0(i) \in 0..png.width - 1 /\ Row0(i) \in 0..png.height - 1
         /\ Nr(Column0(i), Row0(i)) = i
         /\ Len(picture) = U(png.width * png.height) /\ Len(picture) \in Nat
<1>1. PICK w \in Nat, h \in Nat : w = png.width /\ h = png.height
  BY DEF Header
<1>2. PICK s \in Nat : s = w * h
  OBVIOUS
<1>3. Len(picture) = U(s)
  BY <1>1, <1>2 DEF Stores, Header
<1>4. U(s) \in Nat /\ U(s) <= s
  <2>1. /\ s % UintSize \in 0..UintSize - 1 /\ s \div UintSize \in Nat
        /\ s = UintSize * (s \div UintSize) + (s % UintSize)
    BY DivMod, DrawingAssumption
  <2>2. UintSize * (s \div UintSize) \in Nat
    BY <2>1, DrawingAssumption
  <2> QED
    BY <2>1, <2>2, DrawingAssumption DEF U
<1>5. i \in 1..w * h
  BY <1>2, <1>3, <1>4
<1>6. /\ (i - 1) % w \in 0..w - 1 /\ (i - 1) \div w \in 0..h - 1
      /\ i - 1 = ((i - 1) \div w) * w + ((i - 1) % w)
  BY <1>5, PixelOfPlace
<1>7. PICK x \in 0..w - 1, y \in 0..h - 1 :
        x = Column0(i) /\ y = Row0(i) /\ i - 1 = y * w + x
  BY <1>1, <1>6 DEF Column0, Row0
<1>8. Nr(x, y) = i
  <2>1. PICK z \in Nat : z = y * w
    BY <1>7
  <2> QED
    BY <1>1, <1>5, <1>7, <2>1 DEF Nr
<1> QED
  BY <1>1, <1>2, <1>3, <1>4, <1>7, <1>8

\* All the bytes in the lines that there are come out.
LEMMA LinesComeOut ==
  ASSUME NEW file, NEW e, Header(file), Holds(file, e), Undamaged(file, e),
         NEW picture, Stores(file, e, picture), NEW line, Unfilters(line),
         NEW k \in 1..png.bpp, NEW complete, complete = AllThere(file, e)
  PROVE  \A i \in 1..Len(picture) :
           Row0(i) < Lines => ComesOut(line, picture, Column0(i), Row0(i), k, complete)
<1> DEFINE Good(i) == ComesOut(line, picture, Column0(i), Row0(i), k, complete)
           Bad == {i \in 1..Len(picture) : Row0(i) < Lines /\ ~Good(i)}
<1>1. Bad = {}
  <2> SUFFICES ASSUME Bad # {}
               PROVE  FALSE
    OBVIOUS
  <2>1. PICK i \in Bad : \A q \in Bad : i <= q
    <3>1. Bad \in SUBSET Nat
      OBVIOUS
    <3> HIDE DEF Bad
    <3> QED
      BY <3>1, LeastNat
  <2>2. i \in 1..Len(picture) /\ Row0(i) < Lines /\ ~Good(i)
    OBVIOUS
  <2>3. PICK x \in 0..png.width - 1, y \in 0..png.height - 1 :
          x = Column0(i) /\ y = Row0(i) /\ Nr(x, y) = i
    BY <2>2, PixelPlace
  <2>4. png.width \in Nat /\ Lines \in Nat /\ Len(picture) \in Nat
    BY <2>2, HeldLines, PixelPlace DEF Header
  <2>5. y \in 0..Lines - 1 /\ y \in Nat
    BY <2>2, <2>3, <2>4
  <2>6. ASSUME NEW u \in 0..png.width - 1, NEW v \in 0..Lines - 1, Nr(u, v) < i
        PROVE  ComesOut(line, picture, u, v, k, complete)
    <3>1. Placed(u, v)
      BY <2>4, <2>6, NrPlace
    <3>2. PICK q : q = Nr(u, v)
      OBVIOUS
    <3>3. q \in Nat \ {0} /\ Column0(q) = u /\ Row0(q) = v
      BY <3>1, <3>2 DEF Placed, Column0, Row0
    <3>4. q \in 1..Len(picture) /\ q < i
      BY <2>2, <2>4, <2>6, <3>2, <3>3
    <3>5. Row0(q) < Lines
      BY <2>4, <2>6, <3>3
    <3>6. q \notin Bad
      BY <2>1, <2>2, <3>3, <3>4
    <3> QED
      BY <3>3, <3>4, <3>5, <3>6
  <2>7. Placed(x, y)
    BY <2>3, <2>4, <2>5, NrPlace
  <2>8. x > 0 => ComesOut(line, picture, x - 1, y, k, complete)
    <3>1. x > 0 => x - 1 \in 0..png.width - 1
      BY <2>3, <2>4
    <3>2. Nr(x - 1, y) < i
      BY <2>2, <2>3, <2>4, <2>7 DEF Placed
    <3> QED
      BY <2>5, <2>6, <3>1, <3>2
  <2>9. y > 0 => ComesOut(line, picture, x, y - 1, k, complete)
    <3>1. y > 0 => y - 1 \in 0..Lines - 1
      BY <2>4, <2>5
    <3>2. Nr(x, y - 1) < i
      BY <2>2, <2>3, <2>4, <2>7, SMTT(30) DEF Placed
    <3> QED
      BY <2>3, <2>6, <3>1, <3>2
  <2>10. x > 0 /\ y > 0 => ComesOut(line, picture, x - 1, y - 1, k, complete)
    <3>1. y > 0 => y - 1 \in 0..Lines - 1
      BY <2>4, <2>5
    <3>2. x > 0 => x - 1 \in 0..png.width - 1
      BY <2>3, <2>4
    <3>3. Nr(x - 1, y - 1) < i
      BY <2>2, <2>3, <2>4, <2>7, SMTT(30) DEF Placed
    <3> QED
      BY <2>6, <3>1, <3>2, <3>3
  <2>11. ComesOut(line, picture, x, y, k, complete)
    <3> HIDE DEF Bad, Good
    <3> QED
      BY <2>2, <2>3, <2>5, <2>8, <2>9, <2>10, ByteShows
  <2> QED
    BY <2>2, <2>3, <2>11
<1> QED
  BY <1>1

\* The bytes of each pixel are those of the picture, as far as they are there.
LEMMA RawPixels ==
  ASSUME NEW file, NEW e, Header(file), Holds(file, e), Undamaged(file, e),
         NEW picture, Stores(file, e, picture), NEW line, Unfilters(line),
         NEW bytes, bytes = FlattenSeq([l \in 1..Lines |-> line[l]]),
         NEW i \in 1..Len(picture), NEW k \in 1..png.bpp
  PROVE  Decoded(Raw(bytes, i)[k], picture[i][k], AllThere(file, e))
<1>1. PICK w \in Nat, h \in Nat, b \in 3..4, n \in Nat :
        w = png.width /\ h = png.height /\ b = png.bpp /\ n = Lines
  BY Sizes, HeldLines DEF Header
<1>2. PICK m \in Nat : m = w * b
  BY <1>1
<1> DEFINE seqs == [l \in 1..n |-> line[l]]
<1>3. SideBySide(bytes, seqs, Int, n, m)
  <2>1. Unfilterable
    BY HeldLines
  <2>2. \A l \in 1..n : line[l] \in Seq(Int) /\ Len(line[l]) = m
    BY <1>1, <1>2, <2>1, LinesType
  <2>3. Pieces(seqs, Int, n, m)
    BY <2>2 DEF Pieces
  <2> HIDE DEF seqs
  <2>4. SideBySide(FlattenSeq(seqs), seqs, Int, n, m)
    BY <2>3, FlattenEqual
  <2> QED
    BY <1>1, <2>4 DEF seqs
<1>4. PICK x \in 0..w - 1, y \in 0..h - 1 :
        x = Column0(i) /\ y = Row0(i) /\ Nr(x, y) = i
  BY <1>1, PixelPlace
<1>5. PICK j \in 1..m : j = x * b + k
  <2>1. PICK z \in Nat : z = x * b
    BY <1>4
  <2>2. x + 1 \in Nat \ {0} /\ w + 1 \in Nat /\ x + 1 < w + 1 /\ b \in Nat
    BY <1>4
  <2>3. ((x + 1) - 1) * b + b <= ((w + 1) - 1) * b
    BY <2>2, Multiples
  <2>4. (x + 1) - 1 = x /\ (w + 1) - 1 = w
    BY <1>4
  <2>5. z + b <= m
    BY <1>2, <2>1, <2>3, <2>4
  <2> QED
    BY <1>1, <2>1, <2>5, SMTT(30)
<1>6. PICK at \in Nat : at = y * m + j /\ at = (i - 1) * b + k
  <2>1. PICK v \in Nat : v = y * w /\ i = v + x + 1
    <3>1. y * w \in Nat
      BY <1>4
    <3> QED
      BY <1>1, <1>4, <3>1 DEF Nr
  <2>2. y * m = v * b
    <3>1. y * (w * b) = (y * w) * b
      BY <1>4
    <3> QED
      BY <1>2, <2>1, <3>1
  <2>3. (v + x) * b = v * b + x * b /\ v * b \in Nat
    BY <1>4, SMTT(30)
  <2>4. i - 1 = v + x
    BY <1>4, <2>1
  <2>5. (i - 1) * b = v * b + x * b
    BY <2>3, <2>4
  <2> QED
    BY <1>5, <2>2, <2>3, <2>5
<1>7. Raw(bytes, i)[k] = IF at \in DOMAIN bytes THEN bytes[at] ELSE Undef
  BY <1>1, <1>6 DEF Raw
<1>8. DOMAIN bytes = 1..n * m /\ n * m \in Nat
  <2>1. bytes \in Seq(Int) /\ Len(bytes) = n * m
    BY <1>3 DEF SideBySide
  <2> QED
    BY <2>1
<1>9. CASE y < n
  <2>1. y + 1 \in 1..n /\ (y + 1) - 1 = y
    BY <1>4, <1>9
  <2>2. bytes[at] = line[y + 1][j]
    <3>1. bytes[((y + 1) - 1) * m + j] = seqs[y + 1][j]
      BY <1>3, <1>5, <2>1 DEF SideBySide
    <3> QED
      BY <1>6, <2>1, <3>1
  <2>3. at \in 1..n * m
    <3>1. y + 1 \in Nat \ {0} /\ n + 1 \in Nat /\ y + 1 < n + 1
      BY <1>4, <1>9
    <3>2. ((y + 1) - 1) * m + m <= ((n + 1) - 1) * m
      BY <3>1, Multiples
    <3>3. (n + 1) - 1 = n
      OBVIOUS
    <3>4. PICK v \in Nat : v = y * m
      BY <1>4
    <3>5. v + m <= n * m
      BY <2>1, <3>2, <3>3, <3>4
    <3> QED
      BY <1>5, <1>6, <1>8, <3>4, <3>5
  <2>4. ComesOut(line, picture, x, y, k, AllThere(file, e))
    BY <1>1, <1>4, <1>9, LinesComeOut
  <2> QED
    BY <1>1, <1>4, <1>5, <1>7, <1>8, <2>2, <2>3, <2>4 DEF ComesOut
<1>10. CASE y >= n
  <2>1. at \notin 1..n * m
    <3>1. PICK v \in Nat : y = n + v
      <4>1. y - n \in Nat /\ y = n + (y - n)
        BY <1>4, <1>10
      <4> QED
        BY <4>1
    <3>2. y * m = n * m + v * m /\ v * m \in Nat
      BY <3>1
    <3> QED
      BY <1>5, <1>6, <1>8, <3>2
  <2>2. ~AllThere(file, e)
    <3>1. AllThere(file, e) => n = h
      BY <1>1, AllLines
    <3> QED
      BY <1>4, <1>10, <3>1
  <2> QED
    BY <1>7, <1>8, <2>1, <2>2 DEF Decoded
<1> QED
  <2>1. y \in Int
    BY <1>4
  <2> QED
    BY <1>9, <1>10, <2>1

-----------------------------------------------------------------------------
(* The chunks *)

Fields ==
  {"width", "height", "color_type", "bpp", "chunks", "result", "png_data", "inflated"}

\* What read_image knows of a file that it goes on with.
Opening(file) ==
  /\ Fields \subseteq DOMAIN png
  /\ file.signature = "png" /\ file.chunks # <<>>
  /\ file.chunks[1].type = "IHDR" /\ file.chunks[1].state \notin {"bad", "cut"}
  /\ Ihdr(file).depth = 8 /\ ~Ihdr(file).interlace
  /\ Ihdr(file).color_type \in {TRUECOLOR, TRUECOLOR_ALPHA}
  /\ png.color_type = Ihdr(file).color_type
  /\ Header(file)

\* A chunk that png_process_chunk goes on after.
Passed(chunk) ==
  \/ chunk.type \notin {"IDAT", "IEND"}
  \/ /\ chunk.type = "IDAT" /\ chunk.state \notin {"bad", "cut"}
     /\ ToSet(Data(chunk.body)) \subseteq 0..255

\* Nothing is wrong with the chunks before e, and their data is in png_data,
\* which is there once there is an IDAT.
ReadTo(file, e) ==
  /\ e \in 2 .. Len(file.chunks) + 1
  /\ png.chunks = SubSeq(file.chunks, e, Len(file.chunks))
  /\ \A k \in 2 .. e - 1 : Passed(file.chunks[k])
  /\ png.inflated = Len(Stored(file, e))
  /\ Holds(file, e) \/ (png.png_data = <<>> /\ Stored(file, e) = <<>>)

\* The results that leave something to read, or to show.
GoesOn(f) ==
  png.result \in {"PNG_NO_ERROR", "PNG_DONE"} =>
    \E e \in 2 .. Len(Files[f].chunks) + 1 :
      /\ ReadTo(Files[f], e)
      /\ png.result = "PNG_DONE" =>
           e <= Len(Files[f].chunks) /\ Files[f].chunks[e].type = "IEND"

\* The file that is being read, as far as it has been.
ReadInv ==
  call.status = "reading" =>
    \E f \in DOMAIN Files : f = cmd.filename /\ Opening(Files[f]) /\ GoesOn(f)

\* The image has the pixels of the picture that the file shows.
IsPicture(image, f) ==
  /\ f \in DOMAIN Picture
  /\ Len(image.data) = Len(Picture[f])
  /\ \A i \in DOMAIN image.data :
       image.data[i] = Picture[f][i] \/ Undef \in ToSet(image.data[i])
  /\ Complete(Files[f]) => \A i \in DOMAIN image.data : image.data[i] = Picture[f][i]

\* The image that is returned, and those that are kept.
PictureInv ==
  /\ call.status = "IMG_SUCCESS" /\ cmd # Nothing => IsPicture(call.image, cmd.filename)
  /\ DOMAIN source = Slots
  /\ \A n \in Slots : ~loaded_images[n].null => IsPicture(loaded_images[n], source[n])

LoadInv == ReadInv /\ PictureInv

\* Bytes, or symbols, that the chunks before e hold.
LEMMA DataType ==
  ASSUME NEW body \in Seq(0..Garbage)
  PROVE  Data(body) \in Seq(0..Garbage)
<1>1. CASE body # <<>>
  <2>1. PICK n \in Nat : n = Len(body) /\ n >= 1
    BY <1>1
  <2>2. Front(body) = [i \in 1..n - 1 |-> body[i]]
    <3>1. Front(body) = SubSeq(body, 1, n - 1)
      BY <2>1 DEF Front
    <3>2. SubSeq(body, 1, n - 1) = [i \in 1..(1 + (n - 1) - 1) |-> body[i + 1 - 1]]
      BY SubSeqProperties
    <3>3. 1 + (n - 1) - 1 = n - 1 /\ \A i \in 1..n - 1 : i + 1 - 1 = i
      BY <2>1
    <3> QED
      BY <3>1, <3>2, <3>3
  <2>3. [i \in 1..n - 1 |-> body[i]] \in Seq(0..Garbage)
    <3>1. \A i \in 1..n - 1 : body[i] \in 0..Garbage
      <4>1. PICK S : S = 0..Garbage
        OBVIOUS
      <4>2. body \in Seq(S)
        BY <4>1
      <4>3. \A i \in 1..n : body[i] \in S
        BY <2>1, <4>2
      <4> QED
        BY <2>1, <4>1, <4>3
    <3>2. n - 1 \in Nat
      BY <2>1
    <3> QED
      BY <3>1, <3>2
  <2> QED
    BY <2>2, <2>3 DEF Data
<1>2. CASE body = <<>>
  BY <1>2 DEF Data
<1> QED
  BY <1>1, <1>2

\* The data before a chunk consists of symbols.
LEMMA StoredType ==
  ASSUME NEW f \in DOMAIN Files, Files[f].signature = "png",
         NEW e \in 2 .. Len(Files[f].chunks) + 1
  PROVE  Stored(Files[f], e) \in Seq(0..Garbage)
<1> DEFINE file == Files[f]
           pieces == [k \in 1..e - 1 |-> DataIn(file.chunks[k])]
<1>1. PICK n \in Nat : n = Len(file.chunks) /\ DOMAIN file.chunks = 1..n
  <2>1. file.chunks \in Seq(ToSet(file.chunks))
    BY FilesAssumption
  <2>2. \E S : file.chunks \in Seq(S)
    BY <2>1
  <2> HIDE DEF file
  <2> QED
    BY <2>2
<1>2. \A k \in 1..n :
        file.chunks[k].type = "IDAT" => file.chunks[k].body \in Seq(0..Garbage)
  BY <1>1, FilesAssumption
<1>3. ASSUME NEW k \in 1..e - 1
      PROVE  DataIn(file.chunks[k]) \in Seq(0..Garbage)
  <2>1. k \in 1..n
    BY <1>1
  <2>2. CASE file.chunks[k].type = "IDAT"
    BY <1>2, <2>1, <2>2, DataType DEF DataIn
  <2>3. CASE file.chunks[k].type # "IDAT"
    BY <2>3 DEF DataIn
  <2> QED
    BY <2>2, <2>3
<1>4. e - 1 \in Nat
  BY <1>1
<1>5. pieces \in Seq(Seq(0..Garbage))
  BY <1>3, <1>4
<1> HIDE DEF pieces
<1>6. FlattenSeq(pieces) \in Seq(0..Garbage)
  BY <1>5, FlattenType
<1> QED
  BY <1>6 DEF pieces, Stored

\* Nothing before the second chunk.
LEMMA StoredFirst ==
  ASSUME NEW file, file.chunks[1].type = "IHDR"
  PROVE  Stored(file, 2) = <<>>
<1> DEFINE pieces == [k \in 1..2 - 1 |-> DataIn(file.chunks[k])]
<1>1. pieces = [k \in 1..1 |-> <<>>]
  <2>1. 2 - 1 = 1 /\ DataIn(file.chunks[1]) = <<>>
    BY DEF DataIn
  <2> QED
    BY <2>1
<1>2. Pieces(pieces, Int, 1, 0)
  <2>1. <<>> \in Seq(Int) /\ Len(<<>>) = 0
    OBVIOUS
  <2> QED
    BY <1>1, <2>1 DEF Pieces
<1> HIDE DEF pieces
<1>3. SideBySide(FlattenSeq(pieces), pieces, Int, 1, 0)
  BY <1>2, FlattenEqual, 0 \in Nat, 1 \in Nat
<1>4. FlattenSeq(pieces) \in Seq(Int) /\ Len(FlattenSeq(pieces)) = 0
  <2>1. 1 * 0 = 0
    OBVIOUS
  <2> QED
    BY <1>3, <2>1 DEF SideBySide
<1>5. FlattenSeq(pieces) = <<>>
  BY <1>4
<1> QED
  BY <1>5 DEF pieces, Stored

\* One more chunk adds its data.
LEMMA StoredNext ==
  ASSUME NEW file, NEW e \in Nat, e >= 2
  PROVE  Stored(file, e + 1) = Stored(file, e) \o DataIn(file.chunks[e])
<1>1. PICK n \in Nat \ {0} : n = e - 1
  <2>1. e - 1 \in Nat \ {0}
    OBVIOUS
  <2> QED
    BY <2>1
<1> DEFINE p == [k \in 1..n |-> DataIn(file.chunks[k])]
           q == [k \in 1..n + 1 |-> DataIn(file.chunks[k])]
<1>2. q = [k \in 1..n + 1 |-> q[k]] /\ p = [k \in 1..n |-> q[k]]
  OBVIOUS
<1>3. q[n + 1] = DataIn(file.chunks[e])
  BY <1>1
<1>4. Stored(file, e) = FlattenSeq(p)
  BY <1>1 DEF Stored
<1>5. Stored(file, e + 1) = FlattenSeq(q)
  <2>1. (e + 1) - 1 = n + 1
    BY <1>1
  <2> QED
    BY <2>1 DEF Stored
<1> HIDE DEF p, q
<1>6. FlattenSeq(q) = FlattenSeq(p) \o q[n + 1]
  BY <1>2, FlattenAppend
<1> QED
  BY <1>3, <1>4, <1>5, <1>6

\* png_open_read accepts the header.
LEMMA OpensWell ==
  ASSUME NEW f \in DOMAIN Files, ReadOpens(Files[f])
  PROVE  Opening(Files[f])' /\ ReadTo(Files[f], 2)' /\ png'.result = "PNG_NO_ERROR"
<1> DEFINE file == Files[f]
           c == Head(file.chunks)
<1>1. /\ png' = Opened(file) /\ TrueColor(Opened(file))
      /\ file # NoFile /\ "PNG_NO_ERROR" \in png_open_read(file)
  BY DEF ReadOpens, Opens
<1>2. file.signature = "png" /\ "PNG_NO_ERROR" \in png_read_ihdr(file.chunks)
  <2>1. file.signature \in {"short", "other", "png"}
    BY FilesAssumption
  <2> HIDE DEF file
  <2> QED
    BY <1>1, <2>1 DEF png_open_read
<1>3. /\ file.chunks # <<>> /\ c.type = "IHDR" /\ c.state \notin {"bad", "cut"}
      /\ Supported(c.body) = "PNG_NO_ERROR"
      /\ c = file.chunks[1] /\ Len(file.chunks) \in Nat \ {0}
      /\ Tail(file.chunks) = SubSeq(file.chunks, 2, Len(file.chunks))
  <2>1. \E S : file.chunks \in Seq(S)
    BY <1>2, FilesAssumption
  <2>2. file.chunks # <<>>
    <3> HIDE DEF file
    <3> QED
      BY <1>2 DEF png_read_ihdr
  <2>3. PICK chunks : chunks = file.chunks
    OBVIOUS
  <2>4. /\ c = chunks[1] /\ Len(chunks) \in Nat \ {0} /\ 1 \in DOMAIN chunks
        /\ Tail(chunks) = SubSeq(chunks, 2, Len(chunks))
    <3>1. PICK S : chunks \in Seq(S)
      BY <2>1, <2>3
    <3>2. chunks # <<>> /\ c = Head(chunks)
      BY <2>2, <2>3
    <3> HIDE DEF c, file
    <3> QED
      BY <3>1, <3>2
  <2>5. c.state \in {"good", "bad", "no crc", "cut"}
    BY <1>2, <2>3, <2>4, FilesAssumption
  <2>6. /\ c.type = "IHDR" /\ c.state \notin {"bad", "cut"}
        /\ Supported(c.body) = "PNG_NO_ERROR"
    <3>1. "PNG_NO_ERROR" \in
            CASE c.type # "IHDR"    -> {"PNG_CRC_ERROR"}
              [] c.type = "IHDR" /\ c.state = "cut"    -> {"PNG_EOF_ERROR"}
              [] c.type = "IHDR" /\ c.state = "bad"    -> {"PNG_CRC_ERROR"}
              [] c.type = "IHDR" /\ c.state = "no crc"
                   -> {"PNG_CRC_ERROR", Supported(c.body)}
              [] c.type = "IHDR" /\ c.state = "good"   -> {Supported(c.body)}
      BY <1>2, <2>2 DEF png_read_ihdr
    <3> HIDE DEF c
    <3> QED
      BY <2>5, <3>1
  <2> QED
    BY <2>2, <2>3, <2>4, <2>6
<1>4. /\ Ihdr(file) = c.body /\ c.body.depth = 8 /\ ~c.body.interlace
      /\ c.body.color_type \in {TRUECOLOR, TRUECOLOR_ALPHA}
      /\ png_get_bpp(c.body.color_type, c.body.depth) = BytesPerPixel(file)
  <2>1. c.body.depth \in {8, 16} /\ ~c.body.interlace
    BY <1>3 DEF Supported
  <2>2. <<c.body.color_type, png_get_bpp(c.body.color_type, c.body.depth)>> \in
          {<<TRUECOLOR, 3>>, <<TRUECOLOR_ALPHA, 4>>}
    BY <1>1 DEF TrueColor, Opened
  <2>3. PICK t, d : t = c.body.color_type /\ d = c.body.depth
    OBVIOUS
  <2>4. \/ t = 2 /\ png_get_bpp(t, d) = 3
        \/ t = 6 /\ png_get_bpp(t, d) = 4
    BY <2>2, <2>3 DEF TRUECOLOR, TRUECOLOR_ALPHA
  <2>5. /\ png_get_bpp(2, d) = 3 * (d \div 8)
        /\ png_get_bpp(6, d) = 4 * (d \div 8)
    BY DEF png_get_bpp, GREYSCALE, INDEXED, GREYSCALE_ALPHA, TRUECOLOR, TRUECOLOR_ALPHA
  <2>6. d = 8
    <3>1. 16 \div 8 = 2
      OBVIOUS
    <3> QED
      BY <2>1, <2>3, <2>4, <2>5, <3>1
  <2>7. Ihdr(file) = c.body
    BY <1>3 DEF Ihdr
  <2> QED
    BY <2>1, <2>3, <2>4, <2>6, <2>7 DEF BytesPerPixel, TRUECOLOR, TRUECOLOR_ALPHA
<1>5. c.body.width \in Nat /\ c.body.height \in Nat
  <2>1. 1 \in DOMAIN file.chunks
    <3>1. \E S : file.chunks \in Seq(S)
      BY <1>2, FilesAssumption
    <3> HIDE DEF file
    <3> QED
      BY <1>3, <3>1
  <2>2. c.body.width \in 0..UintSize - 1 /\ c.body.height \in 0..UintSize - 1
    BY <1>2, <1>3, <2>1, FilesAssumption
  <2> QED
    BY <2>2, DrawingAssumption
<1>6. /\ Fields \subseteq DOMAIN png'
      /\ png'.width = c.body.width /\ png'.height = c.body.height
      /\ png'.color_type = c.body.color_type
      /\ png'.bpp = png_get_bpp(c.body.color_type, c.body.depth)
      /\ png'.chunks = Tail(file.chunks) /\ png'.result = "PNG_NO_ERROR"
      /\ png'.png_data = <<>> /\ png'.inflated = 0
  BY <1>1 DEF Opened, Fields
<1>7. Header(file)'
  BY <1>4, <1>5, <1>6 DEF Header
<1>8. Opening(file)'
  BY <1>2, <1>3, <1>4, <1>6, <1>7 DEF Opening
<1>9. ReadTo(file, 2)'
  <2>1. Stored(file, 2) = <<>>
    BY <1>3, StoredFirst
  <2>2. 2 \in 2..Len(file.chunks) + 1
    BY <1>3
  <2>3. 2..2 - 1 = {} /\ Len(<<>>) = 0
    OBVIOUS
  <2> HIDE DEF file, c
  <2> QED
    BY <1>3, <1>6, <2>1, <2>2, <2>3 DEF ReadTo
<1> QED
  BY <1>6, <1>8, <1>9

\* The next chunk is the one after those that have been read.
LEMMA NextChunk ==
  ASSUME NEW f \in DOMAIN Files, Files[f].signature = "png",
         NEW e \in 2 .. Len(Files[f].chunks) + 1,
         png.chunks = SubSeq(Files[f].chunks, e, Len(Files[f].chunks)), png.chunks # <<>>
  PROVE  /\ e \in 2 .. Len(Files[f].chunks) /\ Len(Files[f].chunks) \in Nat
         /\ Chunk = Files[f].chunks[e] /\ e \in DOMAIN Files[f].chunks
         /\ Tail(png.chunks) = SubSeq(Files[f].chunks, e + 1, Len(Files[f].chunks))
<1>1. PICK S : Files[f].chunks \in Seq(S)
  BY FilesAssumption
<1>2. PICK chunks \in Seq(S) : chunks = Files[f].chunks
  BY <1>1
<1>3. PICK n \in Nat : n = Len(chunks) /\ DOMAIN chunks = 1..n
  OBVIOUS
<1>4. e \in 2..n
  <2>1. e = n + 1 => SubSeq(chunks, e, n) = <<>>
    BY SubSeqEmpty
  <2> QED
    BY <1>2, <1>3, <2>1
<1>5. /\ Head(SubSeq(chunks, e, n)) = chunks[e]
      /\ Tail(SubSeq(chunks, e, n)) = SubSeq(chunks, e + 1, n)
  <2>1. e \in 1..Len(chunks) /\ n \in e..Len(chunks)
    BY <1>3, <1>4
  <2> QED
    BY <2>1, HeadTailOfSubSeq
<1> QED
  BY <1>2, <1>3, <1>4, <1>5, SMTT(30) DEF Chunk

\* A chunk that has no data moves on to the next.
LEMMA SkipsChunk ==
  ASSUME NEW f \in DOMAIN Files, Opening(Files[f]), NEW e, ReadTo(Files[f], e),
         png.chunks # <<>>, Chunk.type \notin {"IDAT", "IEND"},
         png' = [png EXCEPT !.chunks = Tail(@)]
  PROVE  ReadTo(Files[f], e + 1)' /\ e + 1 \in 2 .. Len(Files[f].chunks) + 1
<1>1. /\ e \in 2 .. Len(Files[f].chunks) /\ Len(Files[f].chunks) \in Nat
      /\ Chunk = Files[f].chunks[e]
      /\ Tail(png.chunks) = SubSeq(Files[f].chunks, e + 1, Len(Files[f].chunks))
  BY NextChunk DEF Opening, ReadTo
<1>2. PICK file : file = Files[f]
  OBVIOUS
<1>3. /\ png'.chunks = Tail(png.chunks) /\ png'.inflated = png.inflated
      /\ png'.png_data = png.png_data /\ png'.width = png.width
      /\ png'.height = png.height /\ png'.bpp = png.bpp
  BY DEF Opening, Fields
<1>4. Stored(file, e + 1) = Stored(file, e)
  <2>1. Stored(file, e + 1) = Stored(file, e) \o <<>>
    <3>1. DataIn(file.chunks[e]) = <<>>
      BY <1>1, <1>2 DEF DataIn
    <3>2. e \in Nat /\ e >= 2
      BY <1>1
    <3> QED
      BY <3>1, <3>2, StoredNext
  <2>2. Stored(file, e) \in Seq(0..Garbage)
    BY <1>2, StoredType DEF Opening, ReadTo
  <2>3. Stored(file, e) \o <<>> = Stored(file, e)
    BY <2>2
  <2> QED
    BY <2>1, <2>3
<1>5. ASSUME NEW k \in 2..(e + 1) - 1
      PROVE  Passed(file.chunks[k])
  <2>1. k \in 2..e - 1 \/ k = e
    BY <1>1
  <2> QED
    BY <1>1, <1>2, <2>1 DEF ReadTo, Passed
<1>6. Datalen(png)' = Datalen(png)
  BY <1>3 DEF Datalen
<1>7. Holds(file, e) => Holds(file, e + 1)'
  BY <1>3, <1>4, <1>6 DEF Holds
<1>8. e + 1 \in 2 .. Len(file.chunks) + 1
  BY <1>1, <1>2
<1>9. ReadTo(file, e + 1)'
  BY <1>1, <1>2, <1>3, <1>4, <1>5, <1>7, <1>8 DEF ReadTo
<1> QED
  BY <1>2, <1>8, <1>9

\* What png_data is, or will be when it is allocated.
LEMMA BeforeChunk ==
  ASSUME NEW file, NEW e, Header(file), ReadTo(file, e)
  PROVE  Before = Filled(Stored(file, e), Datalen(png))
<1>1. CASE png.png_data # <<>>
  BY <1>1 DEF ReadTo, Holds, Before
<1>2. CASE png.png_data = <<>>
  <2>1. PICK d \in Nat : d = Datalen(png)
    BY Sizes
  <2>2. Before = [i \in 1..d |-> Undef]
    BY <1>2, <2>1 DEF Before
  <2>3. CASE Stored(file, e) = <<>>
    <3>1. Len(<<>>) = 0 /\ 1..0 = {}
      OBVIOUS
    <3> QED
      BY <2>1, <2>2, <2>3, <3>1 DEF Filled
  <2>4. CASE Stored(file, e) # <<>>
    <3>1. <<>> = Filled(Stored(file, e), d)
      BY <1>2, <2>1, <2>4 DEF ReadTo, Holds
    <3>2. DOMAIN Filled(Stored(file, e), d) = 1..d
      BY DEF Filled
    <3>3. d = 0
      <4>1. DOMAIN <<>> = {} /\ (d # 0 => 1 \in 1..d)
        OBVIOUS
      <4> QED
        BY <3>1, <3>2, <4>1
    <3>4. [i \in 1..0 |-> Undef] = <<>>
      OBVIOUS
    <3> QED
      BY <2>1, <2>2, <3>1, <3>3, <3>4
  <2> QED
    BY <2>3, <2>4
<1> QED
  BY <1>1, <1>2

\* Inflating a chunk appends its data.
Extended(before, at, data) ==
  [i \in DOMAIN before |-> IF i - at \in DOMAIN data THEN data[i - at] ELSE before[i]]

\* Data that is inflated after what there is lands in its place.
Appends(old, data, d) ==
  /\ old \o data \in Seq(Nat) /\ Len(old \o data) = Len(old) + Len(data)
  /\ Extended(Filled(old, d), Len(old), data) = Filled(old \o data, d)

LEMMA Appended ==
  ASSUME NEW old \in Seq(Nat), NEW data \in Seq(Nat), NEW d \in Nat
  PROVE  Appends(old, data, d)
<1> DEFINE new == old \o data
<1>1. PICK s \in Nat, t \in Nat : s = Len(old) /\ t = Len(data) /\ DOMAIN data = 1..t
  OBVIOUS
<1>2. new \in Seq(Nat) /\ Len(new) = s + t
  <2>1. old \o data \in Seq(Nat) /\ Len(old \o data) = Len(old) + Len(data)
    BY Concatenated
  <2> QED
    BY <1>1, <2>1
<1>3. \A k \in 1..s : new[k] = old[k]
  <2>1. \A k \in 1..Len(old) : (old \o data)[k] = old[k]
    BY Concatenated
  <2> QED
    BY <1>1, <2>1
<1>4. \A k \in 1..t : new[s + k] = data[k]
  <2>1. \A k \in 1..Len(data) : (old \o data)[Len(old) + k] = data[k]
    BY Concatenated
  <2> QED
    BY <1>1, <2>1
<1> HIDE DEF new
<1>5. ASSUME NEW i \in 1..d
      PROVE  (IF i - s \in 1..t THEN data[i - s] ELSE IF i \in 1..s THEN old[i] ELSE Undef) =
             (IF i \in 1..s + t THEN new[i] ELSE Undef)
  <2>1. CASE i \in 1..s
    <3>1. i - s \notin 1..t /\ i \in 1..s + t
      BY <2>1
    <3> QED
      BY <1>3, <2>1, <3>1
  <2>2. CASE i > s /\ i <= s + t
    <3>1. i - s \in 1..t /\ i \in 1..s + t /\ s + (i - s) = i
      BY <2>2
    <3>2. new[s + (i - s)] = data[i - s]
      BY <1>4, <3>1
    <3> QED
      BY <3>1, <3>2
  <2>3. CASE i > s + t
    <3>1. i - s \notin 1..t /\ i \notin 1..s + t /\ i \notin 1..s
      BY <2>3
    <3> QED
      BY <3>1
  <2> QED
    BY <1>1, <2>1, <2>2, <2>3
<1>6. /\ DOMAIN Filled(old, d) = 1..d
      /\ \A i \in 1..d : Filled(old, d)[i] = IF i \in 1..s THEN old[i] ELSE Undef
  BY <1>1 DEF Filled
<1>7. Filled(new, d) = [i \in 1..d |-> IF i \in 1..s + t THEN new[i] ELSE Undef]
  BY <1>2 DEF Filled
<1>8. Extended(Filled(old, d), Len(old), data) = Filled(new, d)
  BY <1>1, <1>5, <1>6, <1>7 DEF Extended
<1> QED
  BY <1>1, <1>2, <1>8 DEF Appends, new

\* Symbols are numbers.
LEMMA SymbolsAreNat ==
  ASSUME NEW s \in Seq(0..Garbage)
  PROVE  s \in Seq(Nat)
<1>1. PICK S : S = 0..Garbage
  OBVIOUS
<1>2. S \subseteq Nat
  BY <1>1 DEF Garbage
<1>3. PICK n \in Nat : n = Len(s)
  OBVIOUS
<1>4. s \in Seq(S)
  BY <1>1
<1>5. s \in [1..n -> S]
  BY <1>3, <1>4
<1>6. s \in [1..n -> Nat]
  BY <1>2, <1>5
<1> QED
  BY <1>6, FunctionIsSeq

\* What is not refused stands for bytes.
LEMMA DataBytes ==
  ASSUME NEW body \in Seq(0..Garbage), Garbage \notin ToSet(body),
         End \notin ToSet(Front(body))
  PROVE  ToSet(Data(body)) \subseteq 0..255
<1> SUFFICES \A i \in DOMAIN Data(body) : Data(body)[i] \in 0..255
  <2>1. PICK data : data = Data(body)
    OBVIOUS
  <2>2. (\A i \in DOMAIN data : data[i] \in 0..255) => ToSet(data) \subseteq 0..255
    BY DEF ToSet
  <2> QED
    BY <2>1, <2>2
<1>1. PICK n \in Nat : n = Len(body) /\ DOMAIN body = 1..n
  OBVIOUS
<1>2. ASSUME NEW i \in 1..n
      PROVE  body[i] \in 0..256
  <2>1. PICK S : S = 0..Garbage
    OBVIOUS
  <2>2. body \in Seq(S)
    BY <2>1
  <2>3. body[i] \in S
    BY <1>1, <2>2
  <2>4. body[i] # Garbage
    BY <1>1 DEF ToSet
  <2> QED
    BY <2>1, <2>3, <2>4 DEF Garbage
<1>3. CASE body = <<>>
  <2>1. Data(body) = <<>> /\ DOMAIN <<>> = {}
    BY <1>3 DEF Data
  <2> QED
    BY <2>1
<1>4. CASE body # <<>>
  <2>1. n >= 1 /\ Last(body) = body[n]
    BY <1>1, <1>4 DEF Last
  <2>2. DOMAIN Front(body) = 1..n - 1 /\ \A i \in 1..n - 1 : Front(body)[i] = body[i]
    <3>1. Front(body) = SubSeq(body, 1, n - 1)
      BY <1>1 DEF Front
    <3>2. SubSeq(body, 1, n - 1) = [i \in 1..(1 + (n - 1) - 1) |-> body[i + 1 - 1]]
      BY SubSeqProperties
    <3>3. 1 + (n - 1) - 1 = n - 1 /\ \A i \in 1..n - 1 : i + 1 - 1 = i
      BY <1>1
    <3> QED
      BY <3>1, <3>2, <3>3
  <2>3. ASSUME NEW i \in 1..n - 1
        PROVE  body[i] \in 0..255
    <3>1. i \in 1..n /\ body[i] # End
      BY <1>1, <2>2 DEF ToSet
    <3>2. body[i] \in 0..256
      BY <1>2, <3>1
    <3> QED
      BY <3>1, <3>2 DEF End
  <2>4. CASE Last(body) = End
    <3>1. Data(body) = Front(body)
      BY <1>4, <2>4 DEF Data
    <3> QED
      BY <2>2, <2>3, <3>1
  <2>5. CASE Last(body) # End
    <3>1. Data(body) = body
      BY <2>5 DEF Data
    <3>2. body[n] \in 0..255
      <4>1. n \in 1..n
        BY <2>1
      <4>2. body[n] \in 0..256 /\ body[n] # End
        BY <1>2, <2>1, <2>5, <4>1
      <4> QED
        BY <4>2 DEF End
    <3>3. \A i \in 1..n : body[i] \in 0..255
      <4>1. \A i \in 1..n : i \in 1..n - 1 \/ i = n
        BY <2>1
      <4> QED
        BY <2>3, <3>2, <4>1
    <3> QED
      BY <1>1, <3>1, <3>3
  <2> QED
    BY <2>4, <2>5
<1> QED
  BY <1>3, <1>4

\* A chunk of data whose checksum is right, or could not be read, and whose
\* data fits is appended to what has been inflated.
LEMMA InflatesChunk ==
  ASSUME NEW f \in DOMAIN Files, Opening(Files[f]), NEW e, ReadTo(Files[f], e),
         DataChunk, png'.result = "PNG_NO_ERROR"
  PROVE  ReadTo(Files[f], e + 1)' /\ e + 1 \in 2 .. Len(Files[f].chunks) + 1
<1>1. /\ e \in 2 .. Len(Files[f].chunks) /\ Len(Files[f].chunks) \in Nat
      /\ Chunk = Files[f].chunks[e] /\ e \in DOMAIN Files[f].chunks
      /\ Tail(png.chunks) = SubSeq(Files[f].chunks, e + 1, Len(Files[f].chunks))
  BY NextChunk DEF Opening, ReadTo, DataChunk, Reading
<1>2. PICK file : file = Files[f]
  OBVIOUS
<1>3. PICK chunk : chunk = Chunk
  OBVIOUS
<1>4. chunk.type = "IDAT" /\ chunk = file.chunks[e]
  BY <1>1, <1>2, <1>3 DEF DataChunk, Reading
<1>5. chunk.body \in Seq(0..Garbage) /\ chunk.state \in {"good", "bad", "no crc", "cut"}
  BY <1>1, <1>2, <1>4, FilesAssumption DEF Opening
<1>6. PICK data : data = Data(chunk.body)
  OBVIOUS
<1>7. PICK result \in IdatResults(Datalen(png) - png.inflated) :
        /\ png'.result = result /\ png'.chunks = Tail(png.chunks)
        /\ result = "PNG_NO_ERROR" =>
             /\ png'.png_data = Extended(Before, png.inflated, data)
             /\ png'.inflated = png.inflated + Len(data)
        /\ png'.width = png.width /\ png'.height = png.height /\ png'.bpp = png.bpp
  BY <1>3, <1>6 DEF DataChunk, Opening, Fields, Extended
<1>8. ~Refuses(chunk.body, Datalen(png) - png.inflated) /\ chunk.state \notin {"bad", "cut"}
  <2>1. "PNG_NO_ERROR" \in IdatResults(Datalen(png) - png.inflated)
    BY <1>7
  <2>2. PICK inflate :
          /\ inflate = IF Refuses(chunk.body, Datalen(png) - png.inflated) THEN "PNG_ZLIB_ERROR"
                                                                         ELSE "PNG_NO_ERROR"
          /\ "PNG_NO_ERROR" \in CASE chunk.state = "cut"    -> {"PNG_FILE_ERROR"}
                                 [] chunk.state = "bad"    -> {"PNG_CRC_ERROR"}
                                 [] chunk.state = "no crc" -> {"PNG_CRC_ERROR", inflate}
                                 [] chunk.state = "good"   -> {inflate}
    BY <1>3, <2>1 DEF IdatResults
  <2> QED
    BY <1>5, <2>2
<1>9. ToSet(data) \subseteq 0..255 /\ ~(Len(data) > Datalen(png) - png.inflated)
  <2>1. Garbage \notin ToSet(chunk.body) /\ End \notin ToSet(Front(chunk.body))
    BY <1>8 DEF Refuses
  <2>2. ToSet(data) \subseteq 0..255
    BY <1>5, <1>6, <2>1, DataBytes
  <2> QED
    BY <1>6, <1>8, <2>2 DEF Refuses
<1>10. PICK old \in Seq(Nat), d \in Nat, s \in Nat :
         /\ old = Stored(file, e) /\ d = Datalen(png) /\ s = Len(old) /\ s = png.inflated
  <2>1. Stored(file, e) \in Seq(0..Garbage) /\ Datalen(png) \in Nat
    BY <1>2, StoredType, Sizes DEF Opening, ReadTo
  <2>2. Stored(file, e) \in Seq(Nat)
    BY <2>1, SymbolsAreNat
  <2> QED
    BY <1>2, <2>1, <2>2 DEF ReadTo
<1>11. PICK t \in Nat : data \in Seq(Nat) /\ t = Len(data) /\ s + t <= d
  <2>1. data \in Seq(0..Garbage)
    BY <1>5, <1>6, DataType
  <2>2. data \in Seq(Nat)
    BY <2>1, SymbolsAreNat
  <2>3. Len(data) \in Nat
    BY <2>2
  <2> QED
    BY <1>9, <1>10, <2>2, <2>3
<1>12. PICK new : new = Stored(file, e + 1) /\ new = old \o data
  <2>1. e \in Nat /\ e >= 2 /\ DataIn(file.chunks[e]) = data
    BY <1>1, <1>4, <1>6 DEF DataIn
  <2> QED
    BY <1>10, <2>1, StoredNext
<1>13. /\ new \in Seq(Nat) /\ Len(new) = Len(old) + Len(data)
       /\ Extended(Filled(old, d), Len(old), data) = Filled(new, d)
  <2>1. Appends(old, data, d)
    BY <1>11, Appended
  <2> QED
    BY <1>12, <2>1 DEF Appends
<1>14. Before = Filled(old, d)
  <2>1. Header(file) /\ ReadTo(file, e)
    BY <1>2 DEF Opening
  <2> QED
    BY <1>10, <2>1, BeforeChunk
<1>15. png'.png_data = Filled(new, d)
  BY <1>7, <1>10, <1>13, <1>14
<1>16. Datalen(png)' = d
  BY <1>7, <1>10 DEF Datalen
<1>17. Holds(file, e + 1)'
  BY <1>10, <1>11, <1>12, <1>13, <1>15, <1>16 DEF Holds
<1>18. ASSUME NEW k \in 2..(e + 1) - 1
       PROVE  Passed(file.chunks[k])
  <2>1. k \in 2..e - 1 \/ k = e
    BY <1>1
  <2>2. CASE k = e
    BY <1>4, <1>6, <1>8, <1>9, <2>2 DEF Passed
  <2>3. CASE k \in 2..e - 1
    BY <1>2, <2>3 DEF ReadTo
  <2> QED
    BY <2>1, <2>2, <2>3
<1>19. e + 1 \in 2 .. Len(file.chunks) + 1
  BY <1>1, <1>2
<1>20. png'.inflated = Len(Stored(file, e + 1)) /\ png'.chunks = Tail(png.chunks)
  BY <1>7, <1>10, <1>12, <1>13
<1>21. ReadTo(file, e + 1)'
  BY <1>1, <1>2, <1>17, <1>18, <1>19, <1>20 DEF ReadTo
<1> QED
  BY <1>2, <1>19, <1>21

\* Reading a chunk goes on as far as the chunks are good.
LEMMA ChunkReads ==
  ASSUME NEW f \in DOMAIN Files, Opening(Files[f]), GoesOn(f),
         png.result = "PNG_NO_ERROR", png_process_chunk
  PROVE  Opening(Files[f])' /\ GoesOn(f)'
<1>1. PICK e \in 2 .. Len(Files[f].chunks) + 1 : ReadTo(Files[f], e)
  BY DEF GoesOn
<1>2. PICK file : file = Files[f]
  OBVIOUS
<1>3. SUFFICES ASSUME /\ DOMAIN png' = DOMAIN png
                      /\ png'.width = png.width /\ png'.height = png.height
                      /\ png'.bpp = png.bpp /\ png'.color_type = png.color_type
               PROVE  GoesOn(f)'
  <2>1. /\ DOMAIN png' = DOMAIN png
        /\ png'.width = png.width /\ png'.height = png.height
        /\ png'.bpp = png.bpp /\ png'.color_type = png.color_type
    <3>1. Fields \subseteq DOMAIN png
      BY DEF Opening
    <3>2. CASE NextChunkMissing
      BY <3>1, <3>2 DEF NextChunkMissing, Returns, Fields
    <3>3. CASE EndChunk
      BY <3>1, <3>3 DEF EndChunk, Returns, Fields
    <3>4. CASE UnknownChunk
      BY <3>1, <3>4 DEF UnknownChunk, Fields
    <3>5. CASE DataChunk
      BY <3>1, <3>5 DEF DataChunk, Fields
    <3>6. CASE DataChunkNoMemory
      BY <3>1, <3>6 DEF DataChunkNoMemory, Returns, Fields
    <3> QED
      BY <3>2, <3>3, <3>4, <3>5, <3>6 DEF png_process_chunk
  <2>2. Header(file)'
    BY <1>2, <2>1 DEF Opening, Header
  <2>3. Opening(file)'
    BY <1>2, <2>1, <2>2 DEF Opening
  <2> QED
    BY <1>2, <2>1, <2>3
<1>4. Fields \subseteq DOMAIN png
  BY DEF Opening
<1>5. CASE NextChunkMissing
  <2>1. png'.result = "PNG_FILE_ERROR"
    BY <1>4, <1>5 DEF NextChunkMissing, Returns, Fields
  <2> QED
    BY <2>1 DEF GoesOn
<1>6. CASE EndChunk
  <2>1. /\ png.chunks # <<>> /\ Chunk.type = "IEND"
        /\ png'.result = "PNG_DONE" /\ png'.chunks = png.chunks
        /\ png'.inflated = png.inflated /\ png'.png_data = png.png_data
    BY <1>4, <1>6 DEF EndChunk, Reading, Returns, Fields
  <2>2. e <= Len(Files[f].chunks) /\ Files[f].chunks[e].type = "IEND"
    <3>1. /\ e \in 2 .. Len(Files[f].chunks) /\ Len(Files[f].chunks) \in Nat
          /\ Chunk = Files[f].chunks[e]
      BY <1>1, <2>1, NextChunk DEF Opening, ReadTo
    <3> QED
      BY <2>1, <3>1
  <2>3. ReadTo(file, e)'
    <3>1. Datalen(png)' = Datalen(png)
      BY <1>3 DEF Datalen
    <3>2. Holds(file, e)' = Holds(file, e)
      BY <2>1, <3>1 DEF Holds
    <3> QED
      BY <1>1, <1>2, <2>1, <3>2 DEF ReadTo
  <2> QED
    BY <1>2, <2>1, <2>2, <2>3 DEF GoesOn
<1>7. CASE UnknownChunk
  <2>1. /\ png.chunks # <<>> /\ Chunk.type \notin {"IDAT", "IEND"}
        /\ png' = [png EXCEPT !.chunks = Tail(@)]
    BY <1>7 DEF UnknownChunk
  <2>2. ReadTo(Files[f], e + 1)' /\ e + 1 \in 2 .. Len(Files[f].chunks) + 1
    BY <1>1, <2>1, SkipsChunk
  <2>3. png'.result = "PNG_NO_ERROR"
    BY <1>4, <2>1 DEF Fields
  <2> QED
    BY <2>2, <2>3 DEF GoesOn
<1>8. CASE DataChunk
  <2>1. PICK result \in IdatResults(Datalen(png) - png.inflated) : png'.result = result
    BY <1>4, <1>8 DEF DataChunk, Fields
  <2>2. CASE result = "PNG_NO_ERROR"
    <3>1. ReadTo(Files[f], e + 1)' /\ e + 1 \in 2 .. Len(Files[f].chunks) + 1
      BY <1>1, <1>8, <2>1, <2>2, InflatesChunk
    <3> QED
      BY <2>1, <2>2, <3>1 DEF GoesOn
  <2>3. CASE result # "PNG_NO_ERROR"
    <3>1. Chunk.state \in {"good", "bad", "no crc", "cut"}
      <4>1. png.chunks # <<>>
        BY <1>8 DEF DataChunk, Reading
      <4>2. Chunk = Files[f].chunks[e] /\ e \in DOMAIN Files[f].chunks
        BY <1>1, <4>1, NextChunk DEF Opening, ReadTo
      <4> QED
        BY <4>2, FilesAssumption DEF Opening
    <3>2. PICK state, inflate :
            /\ state = Chunk.state
            /\ inflate \in {"PNG_ZLIB_ERROR", "PNG_NO_ERROR"}
            /\ result \in CASE state = "cut"    -> {"PNG_FILE_ERROR"}
                            [] state = "bad"    -> {"PNG_CRC_ERROR"}
                            [] state = "no crc" -> {"PNG_CRC_ERROR", inflate}
                            [] state = "good"   -> {inflate}
      BY <2>1 DEF IdatResults
    <3>3. result # "PNG_DONE"
      BY <3>1, <3>2
    <3> QED
      BY <2>1, <2>3, <3>3 DEF GoesOn
  <2> QED
    BY <2>2, <2>3
<1>9. CASE DataChunkNoMemory
  <2>1. png'.result \in {"PNG_MEMORY_ERROR", "PNG_ZLIB_ERROR"}
    BY <1>4, <1>9 DEF DataChunkNoMemory, Returns, Fields
  <2> QED
    BY <2>1 DEF GoesOn
<1> QED
  BY <1>5, <1>6, <1>7, <1>8, <1>9 DEF png_process_chunk

-----------------------------------------------------------------------------
(* The image *)

\* A file that png_get_data reads to its end, and whose filters png_unfilter
\* knows, has nothing wrong with it.
LEMMA EndsUndamaged ==
  ASSUME NEW f \in DOMAIN Files, Opening(Files[f]), NEW e, ReadTo(Files[f], e),
         e <= Len(Files[f].chunks), Files[f].chunks[e].type = "IEND",
         NEW r \in png_unfilter, r.result = "PNG_NO_ERROR"
  PROVE  e \in EndOf(Files[f]) /\ Undamaged(Files[f], e)
<1>1. PICK file : file = Files[f]
  OBVIOUS
<1>2. PICK n \in Nat : n = Len(file.chunks) /\ DOMAIN file.chunks = 1..n
  <2>1. PICK S : Files[f].chunks \in Seq(S)
    BY FilesAssumption DEF Opening
  <2> QED
    BY <1>1, <2>1
<1>3. e \in 2..n
  BY <1>1, <1>2 DEF ReadTo
<1>4. e \in EndOf(file)
  BY <1>1, <1>2, <1>3 DEF EndOf, Opening, ReadTo, Passed
<1>5. ASSUME NEW k \in 1..e - 1, k = 1 \/ file.chunks[k].type = "IDAT"
      PROVE  /\ file.chunks[k].state = "good"
             /\ k # 1 => ToSet(Data(file.chunks[k].body)) \subseteq 0..255
  <2>1. k \in 1..n /\ k # n
    BY <1>3
  <2>2. file.chunks[k].state \in {"good", "bad"} \/ file.chunks[k].state = "cut"
    BY <1>1, <1>2, <2>1, FilesAssumption DEF Opening
  <2>3. CASE k = 1
    BY <1>1, <2>2, <2>3 DEF Opening
  <2>4. CASE k # 1
    <3>1. k \in 2..e - 1
      BY <1>3, <2>4
    <3>2. Passed(file.chunks[k])
      BY <1>1, <3>1 DEF ReadTo
    <3>3. file.chunks[k].type = "IDAT"
      BY <1>5, <2>4
    <3> QED
      BY <2>2, <3>2, <3>3 DEF Passed
  <2> QED
    BY <2>3, <2>4
<1>6. PICK d \in Nat, m \in Nat \ {0} :
        /\ d = Datalen(png) /\ d = U(Ihdr(file).height * LineSize(file))
        /\ m = LineSize(file) /\ m = png.width * png.bpp + 1
  BY <1>1, Sizes DEF Opening, Header
<1>7. PICK data \in Seq(Nat), s \in Nat : data = Stored(file, e) /\ s = Len(data)
  <2>1. e \in 2 .. Len(Files[f].chunks) + 1
    BY <1>1, <1>2, <1>3
  <2>2. Stored(file, e) \in Seq(0..Garbage)
    BY <1>1, <2>1, StoredType DEF Opening
  <2>3. Stored(file, e) \in Seq(Nat)
    BY <2>2, SymbolsAreNat
  <2> QED
    BY <2>3
<1>8. s <= d
  <2>1. Stored(file, e) = <<>> => s = 0
    BY <1>7
  <2> QED
    BY <1>1, <1>6, <1>7, <2>1 DEF ReadTo, Holds
<1>9. ASSUME NEW y \in 0 .. StoredRows(file) - 1, y * m + 1 <= s
      PROVE  data[y * m + 1] \in 0..4
  <2>1. PICK at \in Nat \ {0} : at = y * m + 1
    <3>1. y * m \in Nat
      BY <1>6
    <3> QED
      BY <3>1
  <2>2. Holds(file, e)
    <3>1. Stored(file, e) # <<>>
      BY <1>7, <1>9, <2>1
    <3> QED
      BY <1>1, <3>1 DEF ReadTo
  <2>3. Unfilterable /\ Lines = StoredRows(file) /\ Lines \in Nat
    BY <1>1, <2>2, HeldLines DEF Opening
  <2>4. y + 1 \in 1..Lines /\ (y + 1) - 1 = y
    BY <2>3
  <2>5. FilterOf(y + 1) \in 0..4 \cup {Undef}
    BY <2>3, <2>4, UnfilterResult
  <2>6. FilterOf(y + 1) = png.png_data[at]
    BY <1>6, <2>1, <2>4 DEF FilterOf, Start
  <2>7. png.png_data = Filled(data, d)
    BY <1>6, <1>7, <2>2 DEF Holds
  <2>8. png.png_data[at] = data[at] /\ data[at] \in Nat
    BY <1>7, <1>8, <1>9, <2>1, <2>7 DEF Filled
  <2> QED
    BY <2>1, <2>5, <2>6, <2>8 DEF Undef
<1>10. Undamaged(file, e)
  <2>1. \A k \in 2..e - 1 : file.chunks[k].type = "IDAT" =>
          /\ file.chunks[k].state = "good"
          /\ ToSet(Data(file.chunks[k].body)) \subseteq 0..255
    <3>1. \A k \in 2..e - 1 : k \in 1..e - 1 /\ k # 1
      BY <1>3
    <3> QED
      BY <1>5, <3>1
  <2>4. file.chunks[1].state = "good"
    BY <1>3, <1>5
  <2>2. Len(Stored(file, e)) <= U(Ihdr(file).height * LineSize(file))
    BY <1>6, <1>7, <1>8
  <2>3. \A y \in 0 .. StoredRows(file) - 1 :
          y * LineSize(file) + 1 <= Len(Stored(file, e)) =>
            Stored(file, e)[y * LineSize(file) + 1] \in 0..4
    BY <1>6, <1>7, <1>9
  <2> QED
    BY <1>1, <2>1, <2>2, <2>3, <2>4 DEF Undamaged, Opening
<1> QED
  BY <1>1, <1>4, <1>10

\* Three bytes, and the same with 255 after them.
Three(raw) == raw = [k \in 1..3 |-> raw[k]]

Four(a, raw) ==
  a = [k \in 1..4 |-> a[k]] /\ (\A k \in 1..3 : a[k] = raw[k]) /\ a[4] = 255

\* The fourth byte of a pixel that has three.
WithFourth(raw) == Append(raw, 255)

LEMMA FourthByte ==
  ASSUME NEW raw, Three(raw)
  PROVE  Four(WithFourth(raw), raw)
<1> DEFINE a == WithFourth(raw)
<1>0. raw = [k \in 1..3 |-> raw[k]]
  BY DEF Three
<1>1. Len(raw) = 3
  BY <1>0, LengthOf, 3 \in Nat
<1>2. PICK V : raw \in Seq(V) /\ 255 \in V
  <2> DEFINE W == {raw[k] : k \in 1..3} \cup {255}
  <2>1. 255 \in W /\ \A k \in 1..3 : raw[k] \in W
    OBVIOUS
  <2> HIDE DEF W
  <2>2. raw \in Seq(W)
    BY <1>0, <2>1
  <2> QED
    BY <2>1, <2>2
<1>3. a \in Seq(V)
  BY <1>2, AppendProperties DEF WithFourth
<1>4. Len(a) = Len(raw) + 1
  BY <1>2, AppendProperties DEF WithFourth
<1>5. \A k \in 1..Len(raw) : a[k] = raw[k]
  BY <1>2, AppendProperties DEF WithFourth
<1>6. a[Len(raw) + 1] = 255
  BY <1>2, AppendProperties DEF WithFourth
<1> HIDE DEF a
<1>7. Len(a) = 4
  BY <1>1, <1>4
<1>8. a = [k \in 1..4 |-> a[k]]
  BY <1>3, <1>7
<1> QED
  BY <1>1, <1>5, <1>6, <1>8 DEF a, Four

\* A pixel of n bytes, of which those of the picture that are known are right.
Agrees(a, n, p, complete) ==
  a = [k \in 1..n |-> a[k]] /\ \A k \in 1..n : Decoded(a[k], p[k], complete)

\* It is the picture's, or has an unknown byte where data may be missing.
Known(a, p, complete) ==
  (a = p \/ Undef \in ToSet(a)) /\ (complete => a = p)

\* A pixel whose bytes are all known is the one of the picture.
LEMMA PixelKnown ==
  ASSUME NEW p \in [1..4 -> 0..255], NEW complete, NEW a, Agrees(a, 4, p, complete)
  PROVE  Known(a, p, complete)
<1>1. p = [k \in 1..4 |-> p[k]] /\ a = [k \in 1..4 |-> a[k]]
  BY DEF Agrees
<1>2. CASE \A k \in 1..4 : a[k] = p[k]
  <2>1. [k \in 1..4 |-> a[k]] = [k \in 1..4 |-> p[k]]
    BY <1>2
  <2>2. a = p
    BY <1>1, <2>1
  <2> QED
    BY <2>2 DEF Known
<1>3. CASE \E k \in 1..4 : a[k] # p[k]
  <2>1. PICK k \in 1..4 : a[k] = Undef /\ ~complete
    BY <1>3 DEF Agrees, Decoded
  <2>2. DOMAIN a = 1..4
    BY <1>1
  <2>3. Undef \in ToSet(a)
    <3>1. ToSet(a) = {a[j] : j \in 1..4}
      BY <2>2 DEF ToSet
    <3> QED
      BY <2>1, <3>1
  <2> QED
    BY <2>1, <2>3 DEF Known
<1> QED
  BY <1>2, <1>3

\* What Pixels makes of the bytes of a pixel.
Made(raw) == IF png.color_type = TRUECOLOR THEN WithFourth(raw) ELSE byteswap(Word(raw))

\* The bytes of a pixel become the pixel, with the fourth added if need be.
LEMMA PixelDecoded ==
  ASSUME TrueColor(png), NEW p \in [1..4 -> 0..255], png.bpp = 3 => p[4] = 255,
         NEW raw, NEW complete, Agrees(raw, png.bpp, p, complete)
  PROVE  Agrees(Made(raw), 4, p, complete)
<1>0. PICK a : a = Made(raw)
  OBVIOUS
<1>1. CASE png.color_type = TRUECOLOR
  <2>1. png.bpp = 3
    BY <1>1 DEF TrueColor, TRUECOLOR, TRUECOLOR_ALPHA
  <2>2. raw = [k \in 1..3 |-> raw[k]] /\ \A k \in 1..3 : Decoded(raw[k], p[k], complete)
    BY <2>1 DEF Agrees
  <2>3. a = WithFourth(raw)
    BY <1>0, <1>1 DEF Made
  <2>4. a = [k \in 1..4 |-> a[k]] /\ (\A k \in 1..3 : a[k] = raw[k]) /\ a[4] = 255
    <3>1. Three(raw)
      BY <2>2 DEF Three
    <3>2. Four(a, raw)
      BY <2>3, <3>1, FourthByte
    <3> QED
      BY <3>2 DEF Four
  <2>5. ASSUME NEW k \in 1..4
        PROVE  Decoded(a[k], p[k], complete)
    <3>1. CASE k = 4
      BY <2>1, <2>4, <3>1 DEF Decoded
    <3>2. CASE k # 4
      <4>1. k \in 1..3
        BY <3>2
      <4> QED
        BY <2>2, <2>4, <4>1
    <3> QED
      BY <3>1, <3>2
  <2> QED
    BY <1>0, <2>4, <2>5 DEF Agrees
<1>2. CASE png.color_type # TRUECOLOR
  <2>1. png.bpp = 4
    BY <1>2 DEF TrueColor, TRUECOLOR, TRUECOLOR_ALPHA
  <2>2. Agrees(raw, 4, p, complete)
    BY <2>1
  <2>3. Reverse(Reverse(raw)) = raw
    BY <2>2, ReversedTwice, 4 \in Nat, ZenonT(30) DEF Agrees
  <2>4. a = byteswap(Word(raw))
    BY <1>0, <1>2 DEF Made
  <2>5. a = raw
    BY <2>3, <2>4 DEF byteswap, Memory, Word
  <2> QED
    BY <1>0, <2>2, <2>5
<1> QED
  BY <1>1, <1>2

\* So read_image returns the picture that the file shows.
LEMMA PictureRead ==
  ASSUME NEW f \in DOMAIN Files, Opening(Files[f]), NEW e, ReadTo(Files[f], e),
         e <= Len(Files[f].chunks), Files[f].chunks[e].type = "IEND",
         NEW r \in png_unfilter, r.result = "PNG_NO_ERROR"
  PROVE  IsPicture(Image(png.width, png.height, Pixels(r.bytes)), f)
<1>1. PICK file : file = Files[f]
  OBVIOUS
<1>2. e \in EndOf(file) /\ Undamaged(file, e)
  BY <1>1, EndsUndamaged
<1>3. PICK picture : /\ f \in DOMAIN Picture /\ picture = Picture[f]
                     /\ Stores(file, e, picture)
  BY <1>1, <1>2, PictureAssumption
<1>4. Header(file) /\ TrueColor(png)
  BY <1>1 DEF Opening, Header, TrueColor, BytesPerPixel, TRUECOLOR, TRUECOLOR_ALPHA
<1>5. PICK w \in Nat, h \in Nat, b \in 3..4 : w = png.width /\ h = png.height /\ b = png.bpp
  BY <1>4, Sizes DEF Header
<1>6. PICK n \in Nat : n = U(w * h) /\ n = Len(picture)
  <2>1. U(w * h) \in Nat
    BY DrawingAssumption DEF U
  <2> QED
    BY <1>3, <1>4, <1>5, <2>1 DEF Stores, Header
<1>7. ASSUME NEW i \in 1..n, NEW k \in 1..b
      PROVE  Decoded(Raw(r.bytes, i)[k], picture[i][k], AllThere(file, e))
  <2>1. i \in 1..Len(picture) /\ k \in 1..png.bpp
    BY <1>5, <1>6
  <2>2. CASE Holds(file, e)
    <3>1. Unfilterable
      BY <1>4, <2>2, HeldLines
    <3>2. PICK line : Unfilters(line) /\ r.bytes = FlattenSeq([l \in 1..Lines |-> line[l]])
      BY <3>1, UnfilterResult
    <3> QED
      BY <1>2, <1>3, <1>4, <2>1, <2>2, <3>2, RawPixels
  <2>3. CASE ~Holds(file, e)
    <3>1. png.png_data = <<>> /\ Stored(file, e) = <<>>
      BY <1>1, <2>3 DEF ReadTo
    <3>2. Unfilterable
      <4>1. <<>> \in Seq(Int)
        OBVIOUS
      <4> QED
        BY <1>4, <1>5, <3>1, <4>1 DEF Unfilterable
    <3>3. Lines = 0
      <4>1. PICK m \in Nat : m = w * b
        BY <1>5
      <4>2. Len(<<>>) = 0 /\ 0 \div (m + 1) = 0
        OBVIOUS
      <4> QED
        BY <1>5, <3>1, <4>1, <4>2 DEF Lines
    <3>4. PICK line : r.bytes = FlattenSeq([l \in 1..0 |-> line[l]])
      BY <3>2, <3>3, UnfilterResult
    <3>5. r.bytes = <<>>
      <4>1. PICK seqs : seqs = [l \in 1..0 |-> line[l]]
        OBVIOUS
      <4>2. seqs = <<>>
        BY <4>1
      <4>3. Pieces(seqs, Int, 0, 0)
        BY <4>2 DEF Pieces
      <4>4. SideBySide(FlattenSeq(seqs), seqs, Int, 0, 0)
        BY <4>3, FlattenEqual, 0 \in Nat
      <4>5. FlattenSeq(seqs) \in Seq(Int) /\ Len(FlattenSeq(seqs)) = 0
        BY <4>4 DEF SideBySide
      <4>6. FlattenSeq(seqs) = <<>>
        BY <4>5
      <4> QED
        BY <3>4, <4>1, <4>6
    <3>6. Raw(r.bytes, i)[k] = Undef
      <4>1. DOMAIN r.bytes = {}
        BY <3>5
      <4> QED
        BY <2>1, <4>1 DEF Raw
    <3>7. ~AllThere(file, e)
      <4>1. h \in Nat \ {0}
        <5>1. Row0(i) \in 0..png.height - 1
          BY <1>3, <1>4, <2>1, PixelPlace
        <5> QED
          BY <1>5, <5>1
      <4>2. PICK m \in Nat \ {0} : m = LineSize(file)
        BY <1>4, Sizes
      <4>3. h * m # 0
        BY <4>1, <4>2
      <4>4. Len(Stored(file, e)) = 0
        BY <3>1
      <4> QED
        BY <1>4, <1>5, <4>2, <4>3, <4>4 DEF AllThere, Header
    <3> QED
      BY <3>6, <3>7 DEF Decoded
  <2> QED
    BY <2>2, <2>3
<1>8. PICK data : data = Pixels(r.bytes)
  OBVIOUS
<1>9. data = [i \in 1..n |-> Made(Raw(r.bytes, i))]
  BY <1>5, <1>6, <1>8 DEF Pixels, Made, WithFourth
<1>10. ASSUME NEW i \in 1..n
       PROVE  /\ data[i] = picture[i] \/ Undef \in ToSet(data[i])
              /\ AllThere(file, e) => data[i] = picture[i]
  <2>1. PICK raw, p, complete :
          raw = Raw(r.bytes, i) /\ p = picture[i] /\ complete = AllThere(file, e)
    OBVIOUS
  <2>2. raw = [k \in 1..b |-> raw[k]]
    BY <1>5, <2>1 DEF Raw
  <2>3. Agrees(raw, png.bpp, p, complete)
    BY <1>5, <1>7, <2>1, <2>2 DEF Agrees
  <2>4. p \in [1..4 -> 0..255] /\ (png.bpp = 3 => p[4] = 255)
    <3>1. picture[i] \in [1..4 -> 0..255] /\ (png.bpp = 3 => picture[i][4] = 255)
      BY <1>3, <1>4, <1>6, SMTT(30) DEF Stores, Header
    <3> QED
      BY <2>1, <3>1
  <2>5. PICK a : a = Made(raw) /\ Agrees(a, 4, p, complete)
    BY <1>4, <2>3, <2>4, PixelDecoded
  <2>6. data[i] = a
    BY <1>9, <2>1, <2>5
  <2>7. Known(a, p, complete)
    BY <2>4, <2>5, PixelKnown
  <2> QED
    BY <2>1, <2>6, <2>7 DEF Known
<1>11. Complete(file) => AllThere(file, e)
  BY <1>2 DEF Complete, AllThere
<1>12. DOMAIN data = 1..n /\ Len(data) = n
  <2>1. data = [i \in 1..n |-> data[i]]
    BY <1>9
  <2> QED
    BY <2>1, LengthOf
<1>13. PICK image : image = Image(png.width, png.height, data)
  OBVIOUS
<1>14. image.data = data
  BY <1>13 DEF Image
<1>15. IsPicture(image, f)
  BY <1>1, <1>3, <1>6, <1>10, <1>11, <1>12, <1>14 DEF IsPicture
<1> QED
  BY <1>8, <1>13, <1>15

-----------------------------------------------------------------------------
(* The driver *)

\* No other command runs while a file is read.
LEMMA NotReading ==
  ASSUME DrawInv, [Next]_vars, ~UNCHANGED vars, ~Reads, ~Load
  PROVE  call'.status # "reading"
<1>1. call.status = "reading" => cmd.op = "L"
  BY DEF DrawInv, LibraryInv, Underway
<1>2. NoCall.status # "reading" /\ Nothing.op # "L"
  BY DEF NoCall, Nothing
<1>3. CASE ReadCommand
  BY <1>2, <1>3 DEF ReadCommand, files
<1>4. CASE Unreadable \/ Size \/ SizeNoMemory \/ NoCanvas
  BY <1>1, <1>4 DEF Unreadable, Size, SizeNoMemory, NoCanvas, Running, files
<1>5. CASE Rectangle \/ Circle \/ Tile \/ Sprite
  BY <1>1, <1>5 DEF Rectangle, Circle, Tile, Sprite, Draw, Running, files
<1>6. CASE NoSlot
  BY <1>2, <1>6 DEF NoSlot, files
<1>7. CASE Loaded
  <2>1. call' = NoCall
    BY <1>7 DEF Loaded
  <2> QED
    BY <1>2, <2>1
<1>8. CASE Write
  BY <1>8, WriteReturns
<1>9. CASE Leave
  BY <1>2, <1>9 DEF Leave
<1> QED
  BY <1>3, <1>4, <1>5, <1>6, <1>7, <1>8, <1>9 DEF Next

\* The reading goes on as the lemmas on chunks say.
LEMMA ReadStep ==
  ASSUME DrawInv, ReadInv, [Next]_vars
  PROVE  ReadInv'
<1>1. CASE UNCHANGED vars
  BY <1>1 DEF vars, files, ReadInv, Opening, GoesOn, Header, ReadTo, Holds, Datalen
<1>2. CASE Reads
  <2>1. call.status = "reading" /\ UNCHANGED cmd
    BY <1>2 DEF Reads, ReadChunk, ReadFails, ReadSucceeds, Ends
  <2>2. PICK f \in DOMAIN Files : f = cmd.filename /\ Opening(Files[f]) /\ GoesOn(f)
    BY <2>1 DEF ReadInv
  <2>3. CASE ReadChunk
    <3>1. png_process_chunk /\ png.result = "PNG_NO_ERROR"
      BY <2>3 DEF ReadChunk, png_process_chunk, NextChunkMissing, EndChunk, UnknownChunk,
         DataChunk, DataChunkNoMemory, Reading
    <3>2. Opening(Files[f])' /\ GoesOn(f)'
      BY <2>2, <3>1, ChunkReads
    <3> QED
      BY <2>1, <2>2, <3>2 DEF ReadInv
  <2>4. CASE ReadFails \/ ReadSucceeds
    BY <2>4 DEF ReadFails, ReadSucceeds, Return, ReadInv
  <2> QED
    BY <1>2, <2>3, <2>4 DEF Reads
<1>3. CASE Load
  <2>1. PICK file :
          /\ file = IF cmd.filename \in DOMAIN Files THEN Files[cmd.filename] ELSE NoFile
          /\ read_image(file) /\ UNCHANGED cmd
    BY <1>3 DEF Load
  <2>2. CASE ReadCannotOpen(file) \/ ReadNotTrueColor(file)
    BY <2>2 DEF ReadCannotOpen, ReadNotTrueColor, Return, ReadInv
  <2>3. CASE ReadOpens(file)
    <3>1. file # NoFile
      BY <2>3 DEF ReadOpens, Opens
    <3>2. PICK f \in DOMAIN Files : f = cmd.filename /\ file = Files[f]
      BY <2>1, <3>1
    <3>3. Opening(Files[f])' /\ ReadTo(Files[f], 2)' /\ png'.result = "PNG_NO_ERROR"
      BY <2>3, <3>2, OpensWell
    <3>4. 2 \in 2 .. Len(Files[f].chunks) + 1
      BY <3>3 DEF ReadTo
    <3>5. GoesOn(f)'
      BY <3>3, <3>4 DEF GoesOn
    <3> QED
      BY <2>1, <3>2, <3>3, <3>5 DEF ReadInv
  <2> QED
    BY <2>1, <2>2, <2>3 DEF read_image
<1>4. CASE ~UNCHANGED vars /\ ~Reads /\ ~Load
  BY <1>4, NotReading DEF ReadInv
<1> QED
  BY <1>1, <1>2, <1>3, <1>4

\* The image that is returned is kept; no other one changes.
LEMMA PictureStep ==
  ASSUME DrawInv, ReadInv, PictureInv, [Next]_vars
  PROVE  PictureInv'
<1>1. CASE UNCHANGED <<call, cmd, loaded_images, source>>
  BY <1>1 DEF PictureInv
<1>2. CASE Reads
  <2>1. call.status = "reading" /\ UNCHANGED <<cmd, loaded_images, source>>
    BY <1>2 DEF Reads, ReadChunk, ReadFails, ReadSucceeds, Ends
  <2>2. CASE ReadChunk
    BY <1>1, <2>1, <2>2 DEF ReadChunk
  <2>3. CASE ReadFails
    <3>1. call'.status # "IMG_SUCCESS"
      BY <2>3 DEF ReadFails, Return
    <3> QED
      BY <2>1, <3>1 DEF PictureInv
  <2>4. CASE ReadSucceeds
    <3>1. PICK f \in DOMAIN Files : f = cmd.filename /\ Opening(Files[f]) /\ GoesOn(f)
      BY <2>1 DEF ReadInv
    <3>2. png.result = "PNG_DONE"
      BY <2>4 DEF ReadSucceeds
    <3>3. PICK e : /\ ReadTo(Files[f], e)
                   /\ e <= Len(Files[f].chunks) /\ Files[f].chunks[e].type = "IEND"
      BY <3>1, <3>2 DEF GoesOn
    <3>4. PICK r \in png_unfilter :
            /\ r.result = "PNG_NO_ERROR"
            /\ Return("IMG_SUCCESS", Image(png.width, png.height, Pixels(r.bytes)))
      BY <2>4 DEF ReadSucceeds
    <3>5. PICK image : image = Image(png.width, png.height, Pixels(r.bytes))
      OBVIOUS
    <3>6. IsPicture(image, f)
      BY <3>1, <3>3, <3>4, <3>5, PictureRead
    <3>7. call'.image = image
      BY <3>4, <3>5 DEF Return
    <3> QED
      BY <2>1, <3>1, <3>6, <3>7 DEF PictureInv
  <2> QED
    BY <1>2, <2>2, <2>3, <2>4 DEF Reads
<1>3. CASE Load
  <2>1. PICK file : read_image(file) /\ UNCHANGED <<cmd, loaded_images, source>>
    BY <1>3 DEF Load
  <2>2. call'.status # "IMG_SUCCESS"
    BY <2>1 DEF read_image, ReadCannotOpen, ReadNotTrueColor, ReadOpens, Return
  <2> QED
    BY <2>1, <2>2 DEF PictureInv
<1>4. CASE Loaded
  <2>1. cmd.op = "L" /\ cmd' = Nothing /\ cmd # Nothing
    BY <1>4 DEF Loaded, Running, Done, Error, Nothing
  <2>2. CASE call.status = "IMG_SUCCESS"
    <3>1. /\ loaded_images' = [loaded_images EXCEPT ![cmd.n] = call.image]
          /\ source' = [source EXCEPT ![cmd.n] = cmd.filename]
      BY <1>4, <2>2 DEF Loaded
    <3>2. IsPicture(call.image, cmd.filename)
      BY <2>1, <2>2 DEF PictureInv
    <3>3. DOMAIN loaded_images = Slots /\ DOMAIN source = Slots
      BY DEF DrawInv, PictureInv
    <3>4. ASSUME NEW n \in Slots, ~loaded_images'[n].null
          PROVE  IsPicture(loaded_images'[n], source'[n])
      <4>1. CASE n = cmd.n
        BY <3>1, <3>2, <3>3, <4>1
      <4>2. CASE n # cmd.n
        <5>1. loaded_images'[n] = loaded_images[n] /\ source'[n] = source[n]
          BY <3>1, <3>3, <4>2
        <5> QED
          BY <3>4, <5>1 DEF PictureInv
      <4> QED
        BY <4>1, <4>2
    <3>5. DOMAIN source' = Slots
      BY <3>1, <3>3
    <3> QED
      BY <2>1, <3>4, <3>5 DEF PictureInv
  <2>3. CASE call.status # "IMG_SUCCESS"
    <3>1. UNCHANGED <<loaded_images, source>>
      BY <1>4, <2>3 DEF Loaded
    <3> QED
      BY <2>1, <3>1 DEF PictureInv
  <2> QED
    BY <2>2, <2>3
<1>5. CASE ReadCommand
  <2>1. call' = NoCall /\ UNCHANGED <<loaded_images, source>>
    BY <1>5 DEF ReadCommand, files
  <2> QED
    BY <2>1 DEF PictureInv, NoCall
<1>6. CASE Write \/ Leave
  <2>1. cmd' = Nothing /\ UNCHANGED <<loaded_images, source>>
    BY <1>6 DEF Write, Leave
  <2> QED
    BY <2>1 DEF PictureInv
<1>7. CASE Unreadable \/ Size \/ SizeNoMemory \/ NoCanvas \/ NoSlot
  <2>1. cmd' = Nothing /\ UNCHANGED <<loaded_images, source>>
    BY <1>7 DEF Unreadable, Size, SizeNoMemory, NoCanvas, NoSlot, Done, Error
  <2> QED
    BY <2>1 DEF PictureInv
<1>8. CASE Rectangle \/ Circle \/ Tile \/ Sprite
  <2>1. cmd' = Nothing /\ UNCHANGED <<loaded_images, source>>
    BY <1>8 DEF Rectangle, Circle, Tile, Sprite, Draw, Done
  <2> QED
    BY <2>1 DEF PictureInv
<1>9. CASE UNCHANGED vars
  BY <1>1, <1>9 DEF vars, files
<1> QED
  BY <1>2, <1>3, <1>4, <1>5, <1>6, <1>7, <1>8, <1>9 DEF Next

\* Every image that has been loaded has the pixels of the picture that its file
\* shows, whatever its size, the number and the size of its chunks and the
\* filters of its lines; what a file with too little data does not hold is the
\* only thing that may be anything.
THEOREM LoadsAlwaysThePicture == Spec => []LoadsThePicture
<1>1. Init => LoadInv
  <2> SUFFICES ASSUME Init
               PROVE  LoadInv
    OBVIOUS
  <2>1. /\ call = NoCall /\ cmd = Nothing /\ source = [n \in Slots |-> ""]
        /\ loaded_images = [n \in Slots |-> Null]
    BY DEF Init
  <2>2. call.status = "none" /\ DOMAIN source = Slots
    BY <2>1 DEF NoCall
  <2>3. \A n \in Slots : loaded_images[n].null = TRUE
    BY <2>1 DEF Null
  <2> QED
    BY <2>2, <2>3 DEF LoadInv, ReadInv, PictureInv
<1>2. DrawInv /\ LoadInv /\ [Next]_vars => LoadInv'
  BY ReadStep, PictureStep DEF LoadInv
<1>3. LoadInv => LoadsThePicture
  BY DEF LoadInv, PictureInv, IsPicture, LoadsThePicture
<1> QED
  BY <1>1, <1>2, <1>3, DrawInvAlways, PTL DEF Spec
=============================================================================
