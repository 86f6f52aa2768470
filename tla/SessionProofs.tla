--------------------------- MODULE SessionProofs ----------------------------
(***************************************************************************)
(* Proofs about one session, for any buffers, widths, texts and streams:   *)
(* lines are executed in order and whole, each gets one reply, an OK means *)
(* what it says, a failed operation keeps what it could not use, and what  *)
(* can be encoded is decoded again.                                        *)
(***************************************************************************)
EXTENDS SessionProps, CommonLemmas, FiniteSetTheorems

\* No newline but the last unit.
OneLine(s) == \A i \in 1..Len(s) - 1 : s[i] # NL

ReadType ==
  /\ wire \in Seq(STRING) /\ rio_buf \in Seq(STRING) /\ usrbuf \in Seq(STRING)
  /\ executed \in Seq(STRING) /\ buf \in Seq(STRING)

\* What the client has sent is what was executed, what the two buffers hold,
\* and what the kernel holds; no buffer holds more than one line.
LinesInv ==
  /\ ReadType
  /\ executed \o usrbuf \o rio_buf \o wire = sent
  /\ OneLine(usrbuf) /\ OneLine(buf)

readState == <<wire, rio_buf, usrbuf, executed, buf, sent>>

\* Before anything is read, all is where the client put it.
LEMMA LinesInit == ASSUME Init PROVE LinesInv
<1>1. sent \in Seq(STRING)
  BY SessionAssumption DEF Init
<1>2. /\ wire = sent /\ rio_buf = <<>> /\ usrbuf = <<>>
      /\ executed = <<>> /\ buf \in Seq(STRING) /\ OneLine(buf)
  BY SessionAssumption DEF Init, rio_readinitb, OneLine
<1>3. ReadType
  BY <1>1, <1>2 DEF ReadType
<1>4. executed \o usrbuf \o rio_buf \o wire = sent
  BY <1>1, <1>2, ConcatEmptySeq
<1> QED
  BY <1>2, <1>3, <1>4 DEF LinesInv, OneLine

\* What leaves the buffers, the line and the histories alone keeps it.
LEMMA LinesKept == ASSUME LinesInv, UNCHANGED readState PROVE LinesInv'
  BY DEF LinesInv, ReadType, OneLine, readState

\* Joining is associative.
LEMMA Regroup ==
  ASSUME NEW r \in Seq(STRING), NEW s \in Seq(STRING), NEW t \in Seq(STRING)
  PROVE  (r \o s) \o t = r \o (s \o t)
BY ConcatAssociative

\* Moving the first unit of one buffer to the end of another keeps both joined.
LEMMA MoveUnit ==
  ASSUME NEW to \in Seq(STRING), NEW from \in Seq(STRING), from # <<>>
  PROVE  Append(to, Head(from)) \o Tail(from) = to \o from
OBVIOUS

\* Refill cuts what the kernel holds in two.
LEMMA FillKeeps == ASSUME LinesInv, FillBuffer PROVE LinesInv'
<1>1. PICK k \in 1..Smaller(RIO_BUFSIZE, Len(wire)) :
        /\ rio_buf' = SubSeq(wire, 1, k)
        /\ wire' = SubSeq(wire, k + 1, Len(wire))
  BY DEF FillBuffer, Refill
<1>2. /\ rio_buf = <<>>
      /\ UNCHANGED <<usrbuf, executed, buf, sent>>
  BY DEF FillBuffer, Refill, histVars
<1>3. wire \in Seq(STRING) /\ Len(wire) \in Nat
  BY DEF LinesInv, ReadType
<1>4. k \in Nat /\ 1 <= k /\ k <= Len(wire)
  BY <1>1, <1>3, RioAssumption DEF Smaller
<1>5. rio_buf' \in Seq(STRING) /\ wire' \in Seq(STRING)
  BY <1>1, <1>3, <1>4, SubSeqProperties
<1>6. rio_buf' \o wire' = wire
  BY <1>1, <1>3, <1>4, ConcatAdjacentSubSeq, SubSeqFull
<1>7. PICK read \in Seq(STRING) : read = executed \o usrbuf
  BY ConcatProperties DEF LinesInv, ReadType
<1>8. (read \o rio_buf') \o wire' = read \o (rio_buf' \o wire')
  BY <1>5, Regroup
<1>9. read \o rio_buf = read
  BY <1>2, ConcatEmptySeq
<1>10. executed' \o usrbuf' \o rio_buf' \o wire' = sent'
  BY <1>2, <1>6, <1>7, <1>8, <1>9 DEF LinesInv
<1> QED
  BY <1>2, <1>5, <1>10 DEF LinesInv, ReadType, OneLine

\* rio_read moves one unit from the buffer to the line, which has not ended.
LEMMA TakeKeeps == ASSUME LinesInv, TakeUnit PROVE LinesInv'
<1> DEFINE unit == Head(rio_buf)
<1>1. /\ rio_buf # <<>> /\ ~LineRead
      /\ usrbuf' = Append(usrbuf, unit) /\ rio_buf' = Tail(rio_buf)
      /\ UNCHANGED <<wire, executed, buf, sent>>
  BY DEF TakeUnit, rio_read, histVars
<1>2. /\ rio_buf \in Seq(STRING) /\ usrbuf \in Seq(STRING)
      /\ wire \in Seq(STRING) /\ executed \in Seq(STRING)
  BY DEF LinesInv, ReadType
<1>3. unit \in STRING /\ Tail(rio_buf) \in Seq(STRING)
  BY <1>1, <1>2
<1>4. usrbuf' \in Seq(STRING) /\ rio_buf' \in Seq(STRING)
  BY <1>1, <1>2, <1>3
<1>5. usrbuf' \o rio_buf' = usrbuf \o rio_buf
  BY <1>1, <1>2, MoveUnit
<1>6. executed' \o usrbuf' \o rio_buf' \o wire' = sent'
  <2>1. (executed \o usrbuf') \o rio_buf' = executed \o (usrbuf' \o rio_buf')
    BY <1>2, <1>4, Regroup
  <2>2. (executed \o usrbuf) \o rio_buf = executed \o (usrbuf \o rio_buf)
    BY <1>2, Regroup
  <2> QED
    BY <1>1, <1>5, <2>1, <2>2 DEF LinesInv
<1>7. OneLine(usrbuf')
  <2>1. \A i \in 1..Len(usrbuf) : usrbuf[i] # NL
    BY <1>1, <1>2, SessionAssumption DEF LinesInv, OneLine, LineRead, Last
  <2> QED
    BY <1>1, <1>2, <1>3, <2>1, AppendProperties DEF OneLine
<1> QED
  BY <1>1, <1>2, <1>4, <1>6, <1>7 DEF LinesInv, ReadType, OneLine

\* A line moves from the buffers to the history.
LEMMA LineKeeps == ASSUME LinesInv, LineArrives PROVE LinesInv'
<1>1. /\ buf' = usrbuf /\ usrbuf' = <<>> /\ executed' = executed \o usrbuf
      /\ UNCHANGED <<wire, rio_buf, sent>>
  BY DEF LineArrives, Arrives
<1>2. /\ executed \in Seq(STRING) /\ usrbuf \in Seq(STRING)
      /\ executed' \in Seq(STRING)
  BY <1>1, ConcatProperties DEF LinesInv, ReadType
<1>3. executed' \o usrbuf' = executed \o usrbuf
  BY <1>1, <1>2, ConcatEmptySeq
<1> QED
  BY <1>1, <1>2, <1>3 DEF LinesInv, ReadType, OneLine

\* At the end of the file the last line stays in the buffer.
LEMMA EofKeeps == ASSUME LinesInv, EofArrives PROVE LinesInv'
<1>1. UNCHANGED readState
  BY DEF EofArrives, Arrives, readState
<1> QED
  BY <1>1, LinesKept

\* Everything but reading leaves the buffers and the line as they are.
LEMMA RestKeeps ==
  ASSUME LinesInv, Next, ~FillBuffer, ~TakeUnit, ~LineArrives
  PROVE  LinesInv'
<1> USE DEF readState, rioVars, readVars, writeVars, histVars
<1>1. CASE EofArrives
  BY <1>1, EofKeeps
<1>2. CASE RejectLine \/ RejectStranger \/ HandleLogin \/ HandleBye \/ HandleUnsupported
  BY <1>2, LinesKept DEF RejectLine, RejectStranger, HandleLogin, HandleBye,
       HandleUnsupported, Plain, Reply
<1>3. CASE HandlePush \/ HandlePop \/ HandleTop
  BY <1>3, LinesKept DEF HandlePush, HandlePop, HandleTop, Caught, Try, Plain, Reply
<1>4. ASSUME NEW op \in ArithmeticOps,
             HandleArithmetic(op) \/ ArithmeticFails(op) \/ ArithmeticTraps(op)
      PROVE  LinesInv'
  BY <1>4, LinesKept DEF HandleArithmetic, ArithmeticFails, ArithmeticTraps, Caught,
       Try, Plain, Reply
<1>5. CASE WriteReply \/ Replied \/ SendThrows \/ SendKilled \/ Close \/ ReadError
  BY <1>5, LinesKept DEF WriteReply, rio_writen, Replied, SendThrows, SendKilled,
       Close, ReadError
<1>6. CASE ClientLeaves
  BY <1>6, LinesKept DEF ClientLeaves, Disconnect
<1> QED
  BY <1>1, <1>2, <1>3, <1>4, <1>5, <1>6 DEF Next, Step

\* Each step keeps the lines in order.
LEMMA LinesStep == ASSUME LinesInv, [Next]_vars PROVE LinesInv'
<1>1. CASE UNCHANGED vars
  BY <1>1, LinesKept DEF vars, rioVars, histVars, readState
<1> QED
  BY <1>1, FillKeeps, TakeKeeps, LineKeeps, RestKeeps

\* A client's lines are executed in order, each once and whole, for any sizes
\* of the buffers and wherever the reads are cut.
THEOREM LinesAlwaysInOrder == Spec => []LinesInOrder
<1>1. Init => LinesInv
  BY LinesInit
<1>2. LinesInv /\ [Next]_vars => LinesInv'
  BY LinesStep
<1>3. LinesInv => LinesInOrder
  BY DEF LinesInv, LinesInOrder, OneLine
<1> QED
  BY <1>1, <1>2, <1>3, PTL DEF Spec
-----------------------------------------------------------------------------
(* What a failed operation keeps. *)

\* The start of a sequence stays when more is appended.
LEMMA HeadKept ==
  ASSUME NEW S, NEW s \in Seq(S), NEW t \in Seq(S), Len(s) >= 1
  PROVE  s \o t \in Seq(S) /\ Len(s \o t) >= 1 /\ (s \o t)[1] = s[1]
BY ConcatProperties

\* encode throws or joins the units of its message.
LEMMA EncodeJoins ==
  ASSUME NEW m, encode(m) # <<>>
  PROVE  encode(m) = Joined(m)
BY DEF encode

\* A reply begins with its type.
LEMMA ReplyStarts ==
  ASSUME NEW type \in {"OK", "FAILED", "ERROR", "DATA"}, NEW text,
         encode(Message(type, <<text>>)) # <<>>
  PROVE  encode(Message(type, <<text>>))[1] = type
<1>0. encode(Message(type, <<text>>)) = Joined(Message(type, <<text>>))
  BY EncodeJoins
<1>1. encode(Message(type, <<text>>)) = <<type>> \o <<text>> \o <<>> \o <<NL>>
  BY <1>0 DEF Joined, Message
<1>2. PICK Units : Units = {type, text, NL}
  OBVIOUS
<1>3. /\ <<type>> \in Seq(Units) /\ <<text>> \in Seq(Units)
      /\ <<>> \in Seq(Units) /\ <<NL>> \in Seq(Units)
  BY <1>2
<1>4. /\ Len(<<type>>) >= 1 /\ <<type>>[1] = type
  OBVIOUS
<1>5. PICK s \in Seq(Units) : s = <<type>> /\ Len(s) >= 1 /\ s[1] = type
  BY <1>3, <1>4
<1>6. PICK t \in Seq(Units) : t = s \o <<text>> /\ Len(t) >= 1 /\ t[1] = type
  BY <1>3, <1>5, HeadKept
<1>7. PICK u \in Seq(Units) : u = t \o <<>> /\ Len(u) >= 1 /\ u[1] = type
  BY <1>3, <1>6, HeadKept
<1>8. (u \o <<NL>>)[1] = type
  BY <1>3, <1>7, HeadKept
<1> QED
  BY <1>1, <1>5, <1>6, <1>7, <1>8

\* An operation that does not fail says OK.
LEMMA DoneSaysOk ==
  ASSUME NEW op \in ArithmeticOps, HandleArithmetic(op)
  PROVE  unsent'[1] = "OK"
  BY ReplyStarts, RepliesFit DEF HandleArithmetic, Try, Reply

\* One that fails loses at most the operands it had accepted.
LEMMA FailureLoses ==
  ASSUME NEW op \in ArithmeticOps, ArithmeticFails(op)
  PROVE  \E k \in 0..2 :
           /\ stack' = SubSeq(stack, k + 1, Len(stack))
           /\ \A i \in 1..k : isNumeric(stack[i])
           /\ k = 2 => \E i \in 1..2 : stoiThrows(stack[i])
           /\ k >= 1 /\ op = "DIV" => stoi(stack[1]) # 0
<1>1. Popped(op) \in 0..2
  BY DEF Popped
<1>2. stack' = SubSeq(stack, Popped(op) + 1, Len(stack))
  BY DEF ArithmeticFails
<1>3. \A i \in 1..Popped(op) : isNumeric(stack[i])
  BY <1>1 DEF Popped, FirstValid
<1>4. Popped(op) = 2 => \E i \in 1..2 : stoiThrows(stack[i])
  BY DEF ArithmeticFails, Readable
<1>5. Popped(op) >= 1 /\ op = "DIV" => stoi(stack[1]) # 0
  BY DEF Popped, FirstValid
<1> QED
  BY <1>1, <1>2, <1>3, <1>4, <1>5

\* Only these two actions answer an operation.
LEMMA PerformedBy ==
  ASSUME Next, NEW op \in ArithmeticOps, Performs(op), unsent'[1] # "ERROR"
  PROVE  HandleArithmetic(op) \/ ArithmeticFails(op)
<1> USE DEF Performs, ArithmeticOps
<1>1. ~FillBuffer /\ ~TakeUnit /\ ~LineArrives /\ ~EofArrives /\ ~ReadError
  BY DEF FillBuffer, TakeUnit, LineArrives, EofArrives, ReadError, Reading
<1>2. ~WriteReply /\ ~Replied /\ ~SendThrows /\ ~SendKilled /\ ~Close
  BY DEF WriteReply, Replied, SendThrows, SendKilled, Close, Writing
<1>3. ~ClientLeaves
  BY DEF ClientLeaves
<1>4. ~RejectLine
  BY DEF RejectLine, Invalid, Message
<1>5. ~RejectStranger
  <2>1. SUFFICES ASSUME RejectStranger PROVE FALSE
    OBVIOUS
  <2>2. unsent'[1] = "ERROR"
    BY <2>1, ReplyStarts, RepliesFit DEF RejectStranger, Plain, Reply
  <2> QED
    BY <2>2
<1>6. ~HandleLogin /\ ~HandleBye /\ ~HandleUnsupported
  BY DEF HandleLogin, HandleBye, HandleUnsupported, Executes
<1>7. ~HandlePush /\ ~HandlePop /\ ~HandleTop
  BY DEF HandlePush, HandlePop, HandleTop, Executes
<1>8. ASSUME NEW other \in ArithmeticOps
      PROVE  /\ ~ArithmeticTraps(other)
             /\ HandleArithmetic(other) \/ ArithmeticFails(other) => other = op
  BY DEF ArithmeticTraps, HandleArithmetic, ArithmeticFails, Executes
<1> QED
  BY <1>1, <1>2, <1>3, <1>4, <1>5, <1>6, <1>7, <1>8 DEF Next, Step

\* The only action that answers FAILED to an operation is ArithmeticFails.
LEMMA FailedIsFailure ==
  ASSUME Next, NEW op \in ArithmeticOps, Performs(op), unsent'[1] = "FAILED"
  PROVE  ArithmeticFails(op)
BY PerformedBy, DoneSaysOk

\* A FAILED operation loses no operand that it could not use, whatever is on
\* the stack and whatever the width of an int.
THEOREM FailedAlwaysKeeps == Spec => FailedKeeps
<1>1. Next =>
        \A op \in ArithmeticOps :
          Performs(op) /\ unsent'[1] = "FAILED" =>
            \E k \in 0..2 :
              /\ stack' = SubSeq(stack, k + 1, Len(stack))
              /\ \A i \in 1..k : isNumeric(stack[i])
              /\ k = 2 => \E i \in 1..2 : stoiThrows(stack[i])
              /\ k >= 1 /\ op = "DIV" => stoi(stack[1]) # 0
  BY FailedIsFailure, FailureLoses
<1> QED
  BY <1>1, PTL DEF Spec, FailedKeeps
-----------------------------------------------------------------------------
(* The results of operations *)

\* Multiples leave no rest.
LEMMA NoRest ==
  ASSUME NEW m \in Nat \ {0}, NEW k \in Int
  PROVE  (m * k) % m = 0
BY SMT

\* The operands of an operation that is carried out are ints.
LEMMA OperandsRead ==
  ASSUME NEW op \in ArithmeticOps, HandleArithmetic(op)
  PROVE  /\ Len(stack) >= 2 \/ Len(stack) \notin Int
         /\ stoi(stack[1]) \in Int32 /\ stoi(stack[2]) \in Int32
         /\ op = "DIV" => stoi(stack[1]) # 0
<1>1. Readable(op)
  BY DEF HandleArithmetic
<1>2. /\ FirstValid(op) /\ isNumeric(stack[1]) /\ isNumeric(stack[2])
      /\ ~(Len(stack) < 2)
      /\ ~stoiThrows(stack[1]) /\ ~stoiThrows(stack[2])
  <2>1. FirstValid(op) /\ ~(Len(stack) < 2) /\ isNumeric(stack[2])
    BY <1>1 DEF Readable, Popped
  <2> QED
    BY <1>1, <2>1 DEF Readable, FirstValid
<1>3. ASSUME NEW text, isNumeric(text), ~stoiThrows(text)
      PROVE  stoi(text) \in Int32
  <2>1. \E n \in Int32 : text \in {to_string(n), to_string(n) \o "-"}
    BY <1>3 DEF isNumeric, stoiThrows, Numerals, Cut
  <2> QED
    BY <2>1 DEF stoi
<1> QED
  BY <1>2, <1>3 DEF FirstValid

\* The result of ADD, SUB and MUL is the int that is the same modulo their
\* number.
LEMMA Wrapped ==
  ASSUME NEW n \in Int
  PROVE  Wrap(n) \in Int32 /\ (Wrap(n) - n) % (IntMax - IntMin + 1) = 0
<1> DEFINE m == IntMax - IntMin + 1
           q == (n - IntMin) \div m
           r == (n - IntMin) % m
<1>1. m \in Nat \ {0} /\ IntMin \in Int /\ IntMax \in Int
  BY SessionAssumption DEF IntMin
<1>2. q \in Int /\ r \in 0..m - 1 /\ n - IntMin = m * q + r
  <2> DEFINE x == n - IntMin
  <2>1. x \in Int
    BY <1>1
  <2> HIDE DEF x, m
  <2>2. x \div m \in Int /\ x % m \in 0..m - 1 /\ x = m * (x \div m) + (x % m)
    BY <1>1, <2>1, Division
  <2> QED
    BY <2>2 DEF x
<1>3. Wrap(n) = r + IntMin
  BY DEF Wrap
<1>4. Wrap(n) \in Int32
  <2>1. r + IntMin \in IntMin..IntMax
    <3> HIDE DEF r
    <3> QED
      BY <1>1, <1>2
  <2> QED
    BY <1>3, <2>1 DEF Int32
<1>5. Wrap(n) - n = m * (-q)
  <2>1. m * (-q) = -(m * q) /\ m * q \in Int
    <3>1. \A i, j \in Int : i * (-j) = -(i * j) /\ i * j \in Int
      OBVIOUS
    <3> HIDE DEF m, q
    <3> QED
      BY <1>1, <1>2, <3>1
  <2> HIDE DEF m, q, r
  <2> QED
    BY <1>1, <1>2, <1>3, <2>1
<1>6. (m * (-q)) % m = 0
  <2> HIDE DEF m, q
  <2>1. -q \in Int
    BY <1>2
  <2> QED
    BY <1>1, <2>1, NoRest
<1> QED
  BY <1>4, <1>5, <1>6

\* The result of DIV is rounded towards zero, and an int unless it traps.
LEMMA Divided ==
  ASSUME NEW n \in Int32, NEW d \in Int32, d # 0, ~(n = IntMin /\ d = -1)
  PROVE  Quotient(n, d) \in Int32 /\ Means("DIV", n, d, Quotient(n, d))
<1> DEFINE a == IF n < 0 THEN -n ELSE n
           b == IF d < 0 THEN -d ELSE d
           q == a \div b
           r == a % b
<1>1. IntMax \in Nat /\ IntMin = -IntMax - 1
  BY SessionAssumption DEF IntMin
<1>2. n \in Int /\ d \in Int /\ IntMin <= n /\ n <= IntMax
  BY <1>1 DEF Int32
<1>3. a \in Nat /\ b \in Nat \ {0} /\ a <= IntMax + 1
  BY <1>1, <1>2
<1>4. q \in Int /\ r \in 0..b - 1 /\ a = b * q + r
  <2> HIDE DEF a, b
  <2> QED
    BY <1>3, Division
<1>5. q >= 0
  <2> SUFFICES ASSUME q <= -1
               PROVE  FALSE
    BY <1>4
  <2>1. b * q <= -b
    <3> HIDE DEF q, b
    <3> QED
      BY <1>3, <1>4
  <2>2. b * q \in Int
    <3> HIDE DEF q, b
    <3> QED
      BY <1>3, <1>4
  <2> HIDE DEF q, b, a, r
  <2> QED
    BY <1>3, <1>4, <2>1, <2>2
<1>6. b * q \in Nat /\ q <= b * q /\ (b >= 2 => 2 * q <= b * q)
  <2> HIDE DEF q, b
  <2> QED
    BY <1>3, <1>4, <1>5
<1>7. Quotient(n, d) = IF (n < 0) = (d < 0) THEN q ELSE -q
  BY DEF Quotient
<1>8. Quotient(n, d) \in Int32
  <2>1. CASE b >= 2
    <3>1. q <= IntMax
      <4> HIDE DEF a, b, q, r
      <4> QED
        BY <1>1, <1>3, <1>4, <1>6, <2>1
    <3> HIDE DEF q
    <3> QED
      BY <1>1, <1>4, <1>5, <1>7, <3>1 DEF Int32
  <2>2. CASE b = 1
    <3>1. q = a
      <4> HIDE DEF q, a, r
      <4> QED
        BY <1>3, <1>4, <2>2
    <3>2. d = 1 \/ d = -1
      BY <1>2, <2>2
    <3> HIDE DEF q
    <3> QED
      BY <1>1, <1>2, <1>7, <3>1, <3>2 DEF Int32
  <2> QED
    BY <1>3, <2>1, <2>2
<1>9. ASSUME NEW k, k = Quotient(n, d)
      PROVE  LET rest == n - k * d
                 abs(i) == IF i < 0 THEN -i ELSE i
             IN abs(rest) < abs(d) /\ rest * n >= 0
  <2>1. n - k * d = IF n < 0 THEN -r ELSE r
    <3>1. k * d = IF n < 0 THEN -(b * q) ELSE b * q
      <4>1. /\ q * d = IF d < 0 THEN -(b * q) ELSE b * q
            /\ (-q) * d = IF d < 0 THEN b * q ELSE -(b * q)
        <5> HIDE DEF q
        <5>1. d < 0 => b = -d
          BY <1>2
        <5>2. ~(d < 0) => b = d
          BY <1>2
        <5> HIDE DEF b
        <5> QED
          BY <1>2, <1>4, <5>1, <5>2
      <4> HIDE DEF q, b
      <4> QED
        BY <1>7, <1>9, <4>1
    <3>2. b * q \in Int /\ r \in Int /\ a = b * q + r
      BY <1>4, <1>6
    <3>3. n = IF n < 0 THEN -a ELSE a
      BY <1>2
    <3> HIDE DEF a, b, q, r
    <3> QED
      BY <1>2, <3>1, <3>2, <3>3
  <2>2. r \in Nat /\ r < b
    <3> HIDE DEF r, b
    <3> QED
      BY <1>3, <1>4
  <2>3. (n - k * d) * n >= 0
    <3> DEFINE s == n - k * d
    <3>1. n < 0 => s \in Int /\ s <= 0
      BY <2>1, <2>2
    <3>2. ~(n < 0) => s \in Int /\ s >= 0
      BY <2>1, <2>2
    <3> HIDE DEF s
    <3>3. s * n >= 0
      BY <1>2, <3>1, <3>2
    <3> QED
      BY <3>3 DEF s
  <2> HIDE DEF r
  <2> QED
    BY <1>2, <2>1, <2>2, <2>3
<1> QED
  BY <1>8, <1>9 DEF Means

\* What an operation that is carried out puts on the stack.
LEMMA ResultMeans ==
  ASSUME NEW op \in ArithmeticOps, HandleArithmetic(op)
  PROVE  LET n == Result(op, stoi(stack[2]), stoi(stack[1]))
         IN n \in Int32 /\ Means(op, stoi(stack[2]), stoi(stack[1]), n)
<1>1. PICK left, right : left = stoi(stack[2]) /\ right = stoi(stack[1])
  OBVIOUS
<1> SUFFICES LET n == Result(op, left, right)
             IN n \in Int32 /\ Means(op, left, right, n)
  BY <1>1
<1>2. left \in Int32 /\ right \in Int32 /\ (op = "DIV" => right # 0)
  BY <1>1, OperandsRead
<1>3. left \in Int /\ right \in Int
  BY <1>2, SessionAssumption DEF Int32, IntMin
<1>4. CASE op = "ADD"
  <2>1. PICK x \in Int : x = left + right
    BY <1>3
  <2>2. Result(op, left, right) = Wrap(x)
    BY <1>4, <2>1 DEF Result
  <2>3. Means(op, left, right, Wrap(x)) <=> (Wrap(x) - x) % (IntMax - IntMin + 1) = 0
    BY <1>4, <2>1 DEF Means
  <2> QED
    BY <2>2, <2>3, Wrapped
<1>5. CASE op = "SUB"
  <2>1. PICK x \in Int : x = left - right
    BY <1>3
  <2>2. Result(op, left, right) = Wrap(x)
    BY <1>5, <2>1 DEF Result
  <2>3. Means(op, left, right, Wrap(x)) <=> (Wrap(x) - x) % (IntMax - IntMin + 1) = 0
    BY <1>5, <2>1 DEF Means
  <2> QED
    BY <2>2, <2>3, Wrapped
<1>6. CASE op = "MUL"
  <2>1. PICK x \in Int : x = left * right
    BY <1>3
  <2>2. Result(op, left, right) = Wrap(x)
    BY <1>6, <2>1 DEF Result
  <2>3. Means(op, left, right, Wrap(x)) <=> (Wrap(x) - x) % (IntMax - IntMin + 1) = 0
    BY <1>6, <2>1 DEF Means
  <2> QED
    BY <2>2, <2>3, Wrapped
<1>7. CASE op = "DIV"
  <2>1. ~(left = IntMin /\ right = -1)
    BY <1>1, <1>7 DEF HandleArithmetic, Traps
  <2>2. Result(op, left, right) = Quotient(left, right)
    BY <1>7 DEF Result
  <2> QED
    BY <1>2, <1>7, <2>1, <2>2, Divided
<1> QED
  BY <1>4, <1>5, <1>6, <1>7 DEF ArithmeticOps

\* What a line is made of, but for its end.
Unit == STRING \ {NL}

\* A sequence without its first two elements.
LEMMA TwoOff ==
  ASSUME NEW S, NEW s \in Seq(S), Len(s) >= 2
  PROVE  /\ Tail(Tail(s)) \in Seq(S) /\ Len(Tail(Tail(s))) = Len(s) - 2
         /\ \A i \in 1..Len(s) - 2 : Tail(Tail(s))[i] = s[i + 2]
<1>1. PICK n \in Nat : n = Len(s)
  OBVIOUS
<1>2. s # <<>> /\ n >= 2
  BY <1>1
<1>3. /\ Tail(s) \in Seq(S) /\ Len(Tail(s)) = n - 1
      /\ \A i \in 1..n - 1 : Tail(s)[i] = s[i + 1]
  BY <1>1, <1>2, HeadTailProperties
<1>4. PICK t : t = Tail(s)
  OBVIOUS
<1>0. t \in Seq(S) /\ Len(t) = n - 1 /\ t # <<>>
  <2>1. t \in Seq(S) /\ Len(t) = n - 1
    BY <1>3, <1>4
  <2> QED
    BY <1>2, <2>1
<1>5. /\ Tail(t) \in Seq(S) /\ Len(Tail(t)) = n - 1 - 1
      /\ \A i \in 1..n - 1 - 1 : Tail(t)[i] = t[i + 1]
  BY <1>0, HeadTailProperties
<1>6. ASSUME NEW i \in 1..n - 2
      PROVE  Tail(t)[i] = s[i + 2]
  <2>1. i \in 1..n - 1 - 1 /\ i + 1 \in 1..n - 1 /\ i + 1 + 1 = i + 2
    BY <1>2
  <2> QED
    BY <1>3, <1>4, <1>5, <2>1
<1> QED
  BY <1>1, <1>4, <1>5, <1>6

\* The result takes the place of the two operands.
LEMMA ResultReplaces ==
  ASSUME stack \in Seq(Unit), NEW op \in ArithmeticOps, HandleArithmetic(op)
  PROVE  /\ stack' \in Seq(Unit) /\ Len(stack') = Len(stack) - 1
         /\ SubSeq(stack', 2, Len(stack')) = SubSeq(stack, 3, Len(stack))
         /\ stack'[1] = to_string(Result(op, stoi(stack[2]), stoi(stack[1])))
<1>1. PICK text : text = to_string(Result(op, stoi(stack[2]), stoi(stack[1])))
  OBVIOUS
<1>2. text \in Unit
  BY <1>1, ResultMeans, SessionAssumption DEF Unit
<1>3. PICK s \in Seq(Unit) : s = stack
  OBVIOUS
<1>4. PICK n \in Nat : n = Len(s) /\ n >= 2
  BY <1>3, OperandsRead
<1>5. PICK t \in Seq(Unit) : /\ t = Tail(Tail(s)) /\ Len(t) = n - 2
                             /\ \A i \in 1..n - 2 : t[i] = s[i + 2]
  <2>1. /\ Tail(Tail(s)) \in Seq(Unit) /\ Len(Tail(Tail(s))) = Len(s) - 2
        /\ \A i \in 1..Len(s) - 2 : Tail(Tail(s))[i] = s[i + 2]
    BY <1>4, TwoOff
  <2> QED
    BY <1>4, <2>1
<1>6. stack' = <<text>> \o t
  BY <1>1, <1>3, <1>5 DEF HandleArithmetic
<1>7. PICK u \in Seq(Unit) : u = <<text>> /\ Len(u) = 1 /\ u[1] = text
  <2>1. <<text>> \in Seq(Unit) /\ Len(<<text>>) = 1 /\ <<text>>[1] = text
    BY <1>2
  <2> QED
    BY <2>1
<1>8. /\ u \o t \in Seq(Unit) /\ Len(u \o t) = 1 + (n - 2)
      /\ \A i \in 1..1 + (n - 2) : (u \o t)[i] = IF i <= 1 THEN u[i] ELSE t[i - 1]
  BY <1>5, <1>7, ConcatProperties
<1>9. PICK r \in Seq(Unit) : /\ r = stack' /\ Len(r) = n - 1 /\ r[1] = text
                             /\ \A i \in 2..n - 1 : r[i] = s[i + 1]
  <2>1. n - 1 = 1 + (n - 2) /\ 1 \in 1..n - 1
    BY <1>4
  <2>2. (u \o t)[1] = text
    BY <1>7, <1>8, <2>1
  <2>3. ASSUME NEW i \in 2..n - 1
        PROVE  (u \o t)[i] = s[i + 1]
    <3>1. i \in 1..1 + (n - 2) /\ ~(i <= 1) /\ i - 1 \in 1..n - 2 /\ (i - 1) + 2 = i + 1
      BY <1>4
    <3> QED
      BY <1>5, <1>8, <3>1
  <2> QED
    BY <1>6, <1>7, <1>8, <2>1, <2>2, <2>3
<1>10. SubSeq(r, 2, n - 1) = SubSeq(s, 3, n)
  <2>1. /\ SubSeq(r, 2, n - 1) \in Seq(Unit)
        /\ Len(SubSeq(r, 2, n - 1)) = IF 2 <= n - 1 THEN (n - 1) - 2 + 1 ELSE 0
        /\ \A i \in 1..(n - 1) - 2 + 1 : SubSeq(r, 2, n - 1)[i] = r[2 + i - 1]
    BY <1>4, <1>9, SubSeqProperties
  <2>2. /\ SubSeq(s, 3, n) \in Seq(Unit)
        /\ Len(SubSeq(s, 3, n)) = IF 3 <= n THEN n - 3 + 1 ELSE 0
        /\ \A i \in 1..n - 3 + 1 : SubSeq(s, 3, n)[i] = s[3 + i - 1]
    BY <1>4, SubSeqProperties
  <2>3. Len(SubSeq(r, 2, n - 1)) = n - 2 /\ Len(SubSeq(s, 3, n)) = n - 2
    BY <1>4, <2>1, <2>2
  <2>4. ASSUME NEW i \in 1..n - 2
        PROVE  SubSeq(r, 2, n - 1)[i] = SubSeq(s, 3, n)[i]
    <3>1. /\ i \in 1..(n - 1) - 2 + 1 /\ i \in 1..n - 3 + 1
          /\ 2 + i - 1 = i + 1 /\ 3 + i - 1 = i + 2
          /\ i + 1 \in 2..n - 1 /\ (i + 1) + 1 = i + 2
      BY <1>4
    <3> QED
      BY <1>9, <2>1, <2>2, <3>1
  <2>5. PICK p \in Seq(Unit) : p = SubSeq(r, 2, n - 1)
    BY <2>1
  <2>6. PICK q \in Seq(Unit) : q = SubSeq(s, 3, n)
    BY <2>2
  <2> QED
    BY <2>3, <2>4, <2>5, <2>6, SeqEqual
<1> QED
  BY <1>1, <1>3, <1>4, <1>9, <1>10

\* The only action that answers OK to an operation is HandleArithmetic.
LEMMA OkIsDone ==
  ASSUME Next, NEW op \in ArithmeticOps, Performs(op), unsent'[1] = "OK"
  PROVE  HandleArithmetic(op)
<1>1. HandleArithmetic(op) \/ ArithmeticFails(op)
  BY PerformedBy
<1>2. ~ArithmeticFails(op)
  BY ReplyStarts, RepliesFit DEF ArithmeticFails, Caught, Plain, Reply
<1> QED
  BY <1>1, <1>2
-----------------------------------------------------------------------------
(* One reply for each line *)

\* No text is a newline.
LEMMA TextsAreUnits == Text \subseteq Unit /\ Inner \subseteq Unit
BY ProtocolAssumption DEF Unit, Text

\* All of a sequence but its last element.
LEMMA FrontUnits ==
  ASSUME NEW S, NEW s \in Seq(S), s # <<>>
  PROVE  /\ Len(s) \in Nat /\ 1 <= Len(s)
         /\ DOMAIN Front(s) = 1..Len(s) - 1 /\ Len(Front(s)) = Len(s) - 1
         /\ \A k \in 1..Len(s) - 1 : Front(s)[k] = s[k]
<1>1. PICK n \in Nat : n = Len(s) - 1
  OBVIOUS
<1>2. \A k \in 1..n : s[k] \in S
  BY <1>1
<1>3. /\ SubSeq(s, 1, n) \in Seq(S)
      /\ Len(SubSeq(s, 1, n)) = IF 1 <= n THEN n - 1 + 1 ELSE 0
      /\ \A k \in 1..n - 1 + 1 : SubSeq(s, 1, n)[k] = s[1 + k - 1]
  BY <1>2, SubSeqProperties
<1>4. \A k \in 1..n : SubSeq(s, 1, n)[k] = s[k]
  <2>1. \A k \in 1..n : k \in 1..n - 1 + 1 /\ 1 + k - 1 = k
    OBVIOUS
  <2> QED
    BY <1>3, <2>1
<1>5. Len(SubSeq(s, 1, n)) = n /\ DOMAIN SubSeq(s, 1, n) = 1..n
  BY <1>3
<1>6. Front(s) = SubSeq(s, 1, n)
  BY <1>1 DEF Front
<1> QED
  BY <1>1, <1>4, <1>5, <1>6

\* What decode makes of a line has no newline.
LEMMA DecodedUnits ==
  ASSUME NEW line \in Seq(STRING), OneLine(line)
  PROVE  decode(line).args \in Seq(Unit)
<1>0. SUFFICES ASSUME line # <<>>, Last(line) = NL
               PROVE  decode(line).args \in Seq(Unit)
  BY DEF decode, Invalid, Message
<1> DEFINE front == Front(line)
           words == FlattenSeq([k \in DOMAIN front |-> Words(line[k])])
           args == [k \in 1..Len(words) - 1 |-> Unquote(words[k + 1])]
<1>2. DOMAIN front = 1..Len(line) - 1 /\ Len(line) - 1 \in Nat
  BY <1>0, FrontUnits
<1>3. \A k \in DOMAIN front : line[k] \in Unit
  BY <1>0, <1>2 DEF OneLine, Unit
<1>5. words \in Seq(Unit)
  <2>1. \A u \in Unit : Words(u) \in Seq(Unit)
    <3> SUFFICES ASSUME NEW u \in Unit
                 PROVE  Words(u) \in Seq(Unit)
      OBVIOUS
    <3>1. <<>> \in Seq(Unit) /\ <<u>> \in Seq(Unit) /\ <<u, u>> \in Seq(Unit)
      OBVIOUS
    <3> QED
      BY <3>1, Zenon DEF Words
  <2>2. [k \in DOMAIN front |-> Words(line[k])] \in Seq(Seq(Unit))
    <3> HIDE DEF front
    <3> QED
      BY <1>2, <1>3, <2>1
  <2> QED
    BY <2>2, FlattenType
<1>6. \A u \in Unit : Unquote(u) \in Unit
  BY TextsAreUnits DEF Unquote, Quoted
<1>7. \/ decode(line) = Invalid
      \/ decode(line) = Message("NONE", <<>>)
      \/ words # <<>> /\ decode(line) = Message(string_to_message_type(words[1]), args)
  BY <1>0, Zenon DEF decode
<1>8. decode(line).args = <<>> \/ (words # <<>> /\ decode(line).args = args)
  <2> HIDE DEF words, args
  <2>1. Invalid.args = <<>> /\ Message("NONE", <<>>).args = <<>>
    BY DEF Invalid, Message
  <2>2. Message(string_to_message_type(words[1]), args).args = args
    BY DEF Message
  <2> QED
    BY <1>7, <2>1, <2>2, Zenon
<1>9. words # <<>> => args \in Seq(Unit)
  <2> SUFFICES ASSUME words # <<>>
               PROVE  args \in Seq(Unit)
    OBVIOUS
  <2> HIDE DEF words
  <2>1. PICK n \in Nat : n = Len(words) - 1
    BY <1>5
  <2>2. \A k \in 1..n : k + 1 \in 1..Len(words)
    BY <1>5, <2>1
  <2>3. \A k \in 1..n : words[k + 1] \in Unit
    BY <1>5, <2>2
  <2>4. \A k \in 1..n : Unquote(words[k + 1]) \in Unit
    BY <1>6, <2>3
  <2> QED
    BY <2>1, <2>4
<1>10. <<>> \in Seq(Unit)
  OBVIOUS
<1> HIDE DEF words, args
<1> QED
  BY <1>8, <1>9, <1>10, Zenon

\* What PUSH puts on the stack is one unit of a line.
LEMMA PushedUnit ==
  ASSUME LinesInv, HandlePush
  PROVE  decode(buf).args[1] \in Unit
<1>1. buf \in Seq(STRING) /\ OneLine(buf)
  BY DEF LinesInv, ReadType
<1>2. decode(buf).type = "PUSH"
  BY DEF HandlePush, Executes
<1>3. is_valid(decode(buf))
  BY <1>2 DEF decode, Invalid, Message
<1>4. decode(buf).args \in Seq(Unit) /\ Len(decode(buf).args) = 1
  BY <1>1, <1>2, <1>3, DecodedUnits DEF is_valid
<1> QED
  BY <1>4

\* Appending units without a newline counts no newline more.
LEMMA NewlinesKept ==
  ASSUME NEW S, NEW r \in Seq(S), NEW s \in Seq(S), \A i \in 1..Len(s) : s[i] # NL
  PROVE  Newlines(r \o s) = Newlines(r)
<1>1. /\ DOMAIN (r \o s) = 1..(Len(r) + Len(s)) /\ DOMAIN r = 1..Len(r)
      /\ Len(r) \in Nat /\ Len(s) \in Nat
      /\ \A i \in 1..(Len(r) + Len(s)) :
           (r \o s)[i] = IF i <= Len(r) THEN r[i] ELSE s[i - Len(r)]
  BY ConcatProperties
<1>2. {i \in DOMAIN (r \o s) : (r \o s)[i] = NL} = {i \in DOMAIN r : r[i] = NL}
  <2>1. ASSUME NEW i \in 1..(Len(r) + Len(s)), ~(i <= Len(r))
        PROVE  (r \o s)[i] # NL
    BY <1>1, <2>1
  <2> QED
    BY <1>1, <2>1
<1> QED
  BY <1>2 DEF Newlines

\* Appending one line counts one newline more.
LEMMA NewlineAdded ==
  ASSUME NEW S, NEW r \in Seq(S), NEW s \in Seq(S), s # <<>>, OneLine(s), Last(s) = NL
  PROVE  Newlines(r) \in Nat /\ Newlines(r \o s) = Newlines(r) + 1 /\ Last(r \o s) = NL
<1> DEFINE n == Len(r) + Len(s)
           A == {i \in DOMAIN r : r[i] = NL}
<1>1. /\ DOMAIN (r \o s) = 1..n /\ DOMAIN r = 1..Len(r) /\ Len(r \o s) = n
      /\ Len(r) \in Nat /\ Len(s) \in Nat /\ 1 <= Len(s) /\ n \in Nat
      /\ \A i \in 1..n : (r \o s)[i] = IF i <= Len(r) THEN r[i] ELSE s[i - Len(r)]
  BY ConcatProperties
<1>2. (r \o s)[n] = NL
  BY <1>1 DEF Last
<1>3. ASSUME NEW i \in 1..n, ~(i <= Len(r)), i # n
      PROVE  (r \o s)[i] # NL
  <2>1. i - Len(r) \in 1..Len(s) - 1
    BY <1>1, <1>3
  <2> QED
    BY <1>1, <1>3, <2>1 DEF OneLine
<1>4. {i \in DOMAIN (r \o s) : (r \o s)[i] = NL} = A \cup {n}
  <2> HIDE DEF n
  <2>1. n \in 1..n /\ ~(n <= Len(r))
    BY <1>1 DEF n
  <2>2. \A i \in 1..Len(r) : i \in 1..n
    BY <1>1 DEF n
  <2> QED
    BY <1>1, <1>2, <1>3, <2>1, <2>2
<1>5. n \notin A
  BY <1>1
<1>6. IsFiniteSet(A)
  <2>1. IsFiniteSet(1..Len(r))
    BY <1>1, FS_Interval
  <2> QED
    BY <1>1, <2>1, FS_Subset
<1>7. Cardinality(A) \in Nat /\ Cardinality(A \cup {n}) = Cardinality(A) + 1
  BY <1>5, <1>6, FS_AddElement, FS_CardinalityType
<1> QED
  BY <1>1, <1>2, <1>4, <1>7 DEF Newlines, Last

\* Lines of two, three and four units, as encode joins them.
LEMMA LineUnits ==
  ASSUME NEW S, NEW a \in S, NEW b \in S, NEW c \in S, NEW d \in S
  PROVE  /\ <<a>> \o <<>> \o <<>> \o <<d>> = <<a, d>>
         /\ <<a>> \o <<b>> \o <<>> \o <<d>> = <<a, b, d>>
         /\ <<a>> \o <<b>> \o <<c>> \o <<d>> = <<a, b, c, d>>
<1>1. /\ <<a>> \in Seq(S) /\ <<b>> \in Seq(S) /\ <<c>> \in Seq(S) /\ <<d>> \in Seq(S)
      /\ <<a, b>> \in Seq(S) /\ <<a, b, c>> \in Seq(S)
  OBVIOUS
<1>2. <<a>> \o <<>> = <<a>> /\ <<a, b>> \o <<>> = <<a, b>>
  BY <1>1, ConcatEmptySeq
<1>3. ASSUME NEW u \in S, NEW v \in S
      PROVE  <<u>> \o <<v>> = <<u, v>>
  <2>1. <<u>> \in Seq(S) /\ <<v>> \in Seq(S) /\ <<u, v>> \in Seq(S)
    OBVIOUS
  <2>2. <<u>> \o <<v>> \in Seq(S) /\ Len(<<u>> \o <<v>>) = 2
    BY <2>1, ConcatProperties
  <2>3. \A i \in 1..2 : (<<u>> \o <<v>>)[i] = <<u, v>>[i]
    BY <2>1, ConcatProperties
  <2> QED
    BY <2>1, <2>2, <2>3, SeqEqual
<1>4. ASSUME NEW v \in S
      PROVE  <<a, b>> \o <<v>> = <<a, b, v>>
  <2>1. <<v>> \in Seq(S) /\ <<a, b, v>> \in Seq(S)
    OBVIOUS
  <2>2. <<a, b>> \o <<v>> \in Seq(S) /\ Len(<<a, b>> \o <<v>>) = 3
    BY <1>1, <2>1, ConcatProperties
  <2>3. \A i \in 1..3 : (<<a, b>> \o <<v>>)[i] = <<a, b, v>>[i]
    BY <1>1, <2>1, ConcatProperties
  <2> QED
    BY <2>1, <2>2, <2>3, SeqEqual
<1>5. <<a, b, c>> \o <<d>> = <<a, b, c, d>>
  <2>1. <<a, b, c, d>> \in Seq(S)
    OBVIOUS
  <2>2. <<a, b, c>> \o <<d>> \in Seq(S) /\ Len(<<a, b, c>> \o <<d>>) = 4
    BY <1>1, ConcatProperties
  <2>3. \A i \in 1..4 : (<<a, b, c>> \o <<d>>)[i] = <<a, b, c, d>>[i]
    BY <1>1, ConcatProperties
  <2> QED
    BY <2>1, <2>2, <2>3, SeqEqual
<1> QED
  BY <1>2, <1>3, <1>4, <1>5

\* What replies are made of, all of it strings, and what of it is no newline.
ReplyTypes == {"OK", "FAILED", "ERROR", "DATA"}
ReplyTexts == Unit \cup {"", "why"}
ReplyUnits == ReplyTypes \cup ReplyTexts \cup {NL}

\* Nothing in a reply but its end is a newline.
LEMMA OnlyNewline == NL \notin ReplyTypes /\ NL \notin ReplyTexts
<1>1. "\n" \notin ReplyTypes /\ "\n" \notin {"", "why"}
  BY DEF ReplyTypes
<1> QED
  BY <1>1 DEF ReplyTexts, Unit, NL

\* A reply that is encoded is one line.
LEMMA ReplyIsLine ==
  ASSUME NEW type \in ReplyTypes, NEW text \in ReplyTexts,
         encode(Message(type, <<text>>)) # <<>>
  PROVE  LET line == encode(Message(type, <<text>>))
         IN line \in Seq(ReplyUnits) /\ line # <<>> /\ OneLine(line) /\ Last(line) = NL
<1>0. encode(Message(type, <<text>>)) = Joined(Message(type, <<text>>))
  BY EncodeJoins
<1>1. encode(Message(type, <<text>>)) = <<type>> \o <<text>> \o <<>> \o <<NL>>
  BY <1>0 DEF Joined, Message, ReplyTypes
<1>2. /\ type \in ReplyUnits /\ text \in ReplyUnits /\ NL \in ReplyUnits
      /\ type # NL /\ text # NL
  BY OnlyNewline DEF ReplyUnits
<1>3. <<type>> \o <<text>> \o <<>> \o <<NL>> = <<type, text, NL>>
  BY <1>2, LineUnits
<1> DEFINE line == <<type, text, NL>>
<1>4. line \in Seq(ReplyUnits) /\ Len(line) = 3
  BY <1>2
<1>5. line[1] = type /\ line[2] = text /\ line[3] = NL
  OBVIOUS
<1>6. line # <<>> /\ OneLine(line) /\ Last(line) = NL
  <2> HIDE DEF line
  <2> QED
    BY <1>2, <1>4, <1>5 DEF OneLine, Last
<1> HIDE DEF line
<1> QED
  BY <1>1, <1>3, <1>4, <1>6 DEF line

\* All lines read so far have been answered.
Answered ==
  /\ Newlines(received) = lines /\ replies = lines
  /\ received # <<>> => Last(received) = NL

\* A line that is executed, and one whose reply is begun, are the only ones
\* without a reply.
OneOpen ==
  /\ pc = "read" => Answered
  /\ pc = "exec" => Newlines(received) + 1 = lines /\ replies + 1 = lines
  /\ pc = "reply" =>
       /\ replies = lines /\ OneLine(unsent)
       /\ IF unsent = <<>> THEN Answered
          ELSE Newlines(received) + 1 = lines /\ Last(unsent) = NL

RepliesInv ==
  /\ stack \in Seq(Unit)
  /\ received \in Seq(ReplyUnits) /\ unsent \in Seq(ReplyUnits)
  /\ lines \in Nat /\ replies \in Nat /\ next \in {"read", "exiting"}
  /\ link # "dead" => OneOpen

\* Before the first line there is no reply.
LEMMA RepliesInit == ASSUME Init PROVE RepliesInv
<1>1. Newlines(<<>>) = 0
  <2>1. {i \in DOMAIN <<>> : <<>>[i] = NL} = {}
    OBVIOUS
  <2> QED
    BY <2>1, FS_EmptySet DEF Newlines
<1>2. /\ stack = <<>> /\ received = <<>> /\ unsent = <<>> /\ lines = 0 /\ replies = 0
      /\ next = "read" /\ pc = "read"
  BY DEF Init, rio_readinitb
<1> QED
  BY <1>1, <1>2 DEF RepliesInv, OneOpen, Answered

\* A line is read while no reply is open.
LEMMA ReadStep ==
  ASSUME RepliesInv,
         FillBuffer \/ TakeUnit \/ LineArrives \/ EofArrives \/ ReadError
  PROVE  RepliesInv'
<1>1. /\ UNCHANGED <<stack, received, unsent, replies, next, link>>
      /\ pc = "read"
      /\ \/ UNCHANGED <<pc, lines>>
         \/ pc' = "exec" /\ lines' = lines + 1
  BY DEF FillBuffer, TakeUnit, LineArrives, EofArrives, ReadError, Refill, rio_read,
     Arrives, Reading, sessionVars, histVars, writeVars, rioVars
<1> QED
  BY <1>1 DEF RepliesInv, OneOpen, Answered

\* Its reply is begun.
LEMMA ReplyBegun ==
  ASSUME RepliesInv, pc = "exec", NEW type \in ReplyTypes, NEW text \in ReplyTexts,
         NEW after \in {"read", "exiting"}, Reply(type, text, after),
         encode(Message(type, <<text>>)) # <<>>, stack' \in Seq(Unit)
  PROVE  RepliesInv'
<1>1. /\ unsent' = encode(Message(type, <<text>>)) /\ replies' = replies + 1
      /\ next' = after /\ pc' = "reply"
      /\ UNCHANGED <<received, link, lines>>
  BY DEF Reply
<1>2. unsent' \in Seq(ReplyUnits) /\ unsent' # <<>> /\ OneLine(unsent') /\ Last(unsent') = NL
  BY <1>1, ReplyIsLine
<1>3. OneLine(unsent)' /\ Newlines(received)' = Newlines(received)
  BY <1>1, <1>2 DEF OneLine, Newlines
<1>4. link # "dead" => /\ Newlines(received) + 1 = lines /\ replies + 1 = lines
  BY DEF RepliesInv, OneOpen
<1> QED
  BY <1>1, <1>2, <1>3, <1>4 DEF RepliesInv, OneOpen

\* Each handler begins one, of texts that it has or finds on the stack.
LEMMA HandleStep ==
  ASSUME LinesInv, RepliesInv,
         \/ RejectLine \/ RejectStranger \/ HandleLogin \/ HandleBye
         \/ HandleUnsupported \/ HandlePush \/ HandlePop \/ HandleTop
         \/ \E op \in ArithmeticOps :
              HandleArithmetic(op) \/ ArithmeticFails(op) \/ ArithmeticTraps(op)
  PROVE  RepliesInv'
<1>1. /\ {"OK", "FAILED", "ERROR", "DATA"} \subseteq ReplyTypes
      /\ {"", "why"} \subseteq ReplyTexts /\ Unit \subseteq ReplyTexts
  BY DEF ReplyTypes, ReplyTexts
<1>2. stack \in Seq(Unit)
  BY DEF RepliesInv
<1>20. /\ encode(Message("OK", <<"">>)) # <<>>
       /\ encode(Message("FAILED", <<"why">>)) # <<>>
       /\ encode(Message("ERROR", <<"why">>)) # <<>>
  BY RepliesFit
<1>3. CASE RejectLine \/ RejectStranger \/ HandleLogin \/ HandleBye \/ HandleUnsupported
  <2>1. pc = "exec" /\ stack' = stack
    BY <1>3 DEF RejectLine, RejectStranger, HandleLogin, HandleBye, HandleUnsupported,
       Executes, sessionVars
  <2>2. \/ Reply("OK", "", "read") \/ Reply("OK", "", "exiting")
        \/ Reply("ERROR", "why", "read") \/ Reply("ERROR", "why", "exiting")
    BY <1>3 DEF RejectLine, RejectStranger, HandleLogin, HandleBye, HandleUnsupported, Plain
  <2> QED
    BY <1>1, <1>2, <2>1, <2>2, <1>20, ReplyBegun
<1>4. CASE HandlePush
  <2>1. pc = "exec" /\ Reply("OK", "", "read") /\ stack' = <<decode(buf).args[1]>> \o stack
    BY <1>4 DEF HandlePush, Executes, Plain
  <2>2. decode(buf).args[1] \in Unit
    BY <1>4, PushedUnit
  <2>3. <<decode(buf).args[1]>> \in Seq(Unit)
    BY <2>2
  <2>4. stack' \in Seq(Unit)
    BY <1>2, <2>1, <2>3, ConcatProperties
  <2> QED
    BY <1>1, <2>1, <2>4, <1>20, ReplyBegun
<1>5. CASE HandlePop
  <2>1. pc = "exec" /\ (Reply("FAILED", "why", "read") \/ Reply("OK", "", "read"))
    BY <1>5 DEF HandlePop, Executes, Caught, Plain, Try
  <2>2. stack' = stack \/ (stack # <<>> /\ stack' = Tail(stack))
    BY <1>5 DEF HandlePop
  <2>3. stack' \in Seq(Unit)
    BY <1>2, <2>2, HeadTailProperties
  <2> QED
    BY <1>1, <2>1, <2>3, <1>20, ReplyBegun
<1>6. CASE HandleTop
  <2>1. pc = "exec" /\ stack' = stack
    BY <1>6 DEF HandleTop, Executes, sessionVars
  <2>2. \/ Reply("FAILED", "why", "read")
        \/ /\ stack # <<>> /\ Reply("DATA", Head(stack), "read")
           /\ encode(Message("DATA", <<Head(stack)>>)) # <<>>
    BY <1>6 DEF HandleTop, Caught, Plain, Try
  <2>3. stack # <<>> => Head(stack) \in Unit
    BY <1>2
  <2> QED
    BY <1>1, <1>2, <2>1, <2>2, <2>3, <1>20, ReplyBegun
<1>7. ASSUME NEW op \in ArithmeticOps, HandleArithmetic(op)
      PROVE  RepliesInv'
  <2>1. pc = "exec" /\ Reply("OK", "", "read")
    BY <1>7 DEF HandleArithmetic, Executes, Try
  <2>2. stack' \in Seq(Unit)
    BY <1>2, <1>7, ResultReplaces
  <2> QED
    BY <1>1, <2>1, <2>2, <1>20, ReplyBegun
<1>8. ASSUME NEW op \in ArithmeticOps, ArithmeticFails(op)
      PROVE  RepliesInv'
  <2>1. pc = "exec" /\ Reply("FAILED", "why", "read")
    BY <1>8 DEF ArithmeticFails, Executes, Caught, Plain
  <2>2. PICK k \in 0..2 : stack' = SubSeq(stack, k + 1, Len(stack))
    BY <1>8, FailureLoses
  <2>3. stack' \in Seq(Unit)
    <3>1. \A i \in k + 1..Len(stack) : stack[i] \in Unit
      BY <1>2
    <3> QED
      BY <1>2, <2>2, <3>1, SubSeqProperties
  <2> QED
    BY <1>1, <2>1, <2>3, <1>20, ReplyBegun
<1>9. ASSUME NEW op \in ArithmeticOps, ArithmeticTraps(op)
      PROVE  RepliesInv'
  BY <1>9 DEF ArithmeticTraps, rioVars, sessionVars, histVars, RepliesInv, OneOpen, Answered
<1> QED
  BY <1>3, <1>4, <1>5, <1>6, <1>7, <1>8, <1>9

\* Some of the reply is written.  The newline is the last of it.
LEMMA WriteStep == ASSUME RepliesInv, WriteReply PROVE RepliesInv'
<1>1. PICK k \in 1..Len(unsent) : /\ received' = received \o SubSeq(unsent, 1, k)
                                  /\ unsent' = SubSeq(unsent, k + 1, Len(unsent))
  BY DEF WriteReply, rio_writen
<1>2. /\ pc = "reply" /\ unsent # <<>> /\ link # "dead"
      /\ UNCHANGED <<pc, stack, replies, lines, next>>
  BY DEF WriteReply, Writing, rio_writen, sessionVars, histVars
<1>3. PICK s \in Seq(ReplyUnits) : s = unsent
  BY DEF RepliesInv
<1>4. PICK r \in Seq(ReplyUnits) : r = received
  BY DEF RepliesInv
<1>5. PICK n \in Nat : n = Len(s) /\ k \in 1..n /\ s # <<>> /\ n >= 1
  BY <1>1, <1>2, <1>3
<1>6. /\ OneLine(s) /\ s[n] = NL /\ Newlines(r) + 1 = lines /\ replies = lines
  BY <1>2, <1>3, <1>4, <1>5 DEF RepliesInv, OneOpen, Last
<1>7. PICK t \in Seq(ReplyUnits) : /\ t = SubSeq(s, 1, k) /\ Len(t) = k
                                   /\ \A i \in 1..k : t[i] = s[i]
  <2>1. /\ SubSeq(s, 1, k) \in Seq(ReplyUnits)
        /\ Len(SubSeq(s, 1, k)) = IF 1 <= k THEN k - 1 + 1 ELSE 0
        /\ \A i \in 1..k - 1 + 1 : SubSeq(s, 1, k)[i] = s[1 + i - 1]
    BY <1>5, SubSeqProperties
  <2>2. Len(SubSeq(s, 1, k)) = k /\ \A i \in 1..k : SubSeq(s, 1, k)[i] = s[i]
    <3>1. \A i \in 1..k : i \in 1..k - 1 + 1 /\ 1 + i - 1 = i
      OBVIOUS
    <3>2. k >= 1 /\ k - 1 + 1 = k
      BY <1>5
    <3> QED
      BY <2>1, <3>1, <3>2
  <2> QED
    BY <2>1, <2>2
<1>8. PICK u \in Seq(ReplyUnits) : /\ u = SubSeq(s, k + 1, n) /\ Len(u) = n - k
                                   /\ \A i \in 1..n - k : u[i] = s[k + i]
  <2>1. \A i \in k + 1..n : s[i] \in ReplyUnits
    BY <1>5
  <2>2. /\ SubSeq(s, k + 1, n) \in Seq(ReplyUnits)
        /\ Len(SubSeq(s, k + 1, n)) = IF k + 1 <= n THEN n - (k + 1) + 1 ELSE 0
        /\ \A i \in 1..n - (k + 1) + 1 : SubSeq(s, k + 1, n)[i] = s[k + 1 + i - 1]
    BY <1>5, <2>1, SubSeqProperties
  <2>3. Len(SubSeq(s, k + 1, n)) = n - k
    BY <1>5, <2>2
  <2>4. \A i \in 1..n - k : i \in 1..n - (k + 1) + 1 /\ k + 1 + i - 1 = k + i
    BY <1>5
  <2> QED
    BY <2>2, <2>3, <2>4
<1>9. received' = r \o t /\ unsent' = u
  BY <1>1, <1>3, <1>4, <1>5, <1>7, <1>8
<1>10. r \o t \in Seq(ReplyUnits)
  BY ConcatProperties
<1>11. OneLine(u)
  <2>1. \A i \in 1..Len(u) - 1 : k + i \in 1..Len(s) - 1 /\ u[i] = s[k + i]
    BY <1>5, <1>8
  <2> QED
    BY <1>6, <2>1 DEF OneLine
<1>12. CASE k = n
  <2>1. u = <<>>
    BY <1>8, <1>12
  <2>2. t # <<>> /\ OneLine(t) /\ Last(t) = NL
    BY <1>5, <1>6, <1>7, <1>12 DEF OneLine, Last
  <2>3. Newlines(r \o t) = Newlines(r) + 1 /\ Last(r \o t) = NL
    BY <2>2, NewlineAdded
  <2>4. OneOpen'
    BY <1>2, <1>6, <1>9, <1>11, <2>1, <2>3 DEF OneOpen, Answered, OneLine, Newlines
  <2> QED
    BY <1>2, <1>8, <1>9, <1>10, <2>4 DEF RepliesInv
<1>13. CASE k # n
  <2>1. u # <<>> /\ Last(u) = NL
    <3>1. n - k \in 1..n - k /\ k + (n - k) = n /\ n - k >= 1
      BY <1>5, <1>13
    <3>2. u[n - k] = NL /\ Len(u) = n - k
      BY <1>6, <1>8, <3>1
    <3>3. u # <<>>
      BY <3>1, <3>2
    <3> QED
      BY <3>2, <3>3 DEF Last
  <2>2. \A i \in 1..Len(t) : t[i] # NL
    <3>1. \A i \in 1..k : i \in 1..Len(s) - 1
      BY <1>5, <1>13
    <3> QED
      BY <1>6, <1>7, <3>1 DEF OneLine
  <2>3. Newlines(r \o t) = Newlines(r)
    BY <2>2, NewlinesKept
  <2>4. OneOpen'
    BY <1>2, <1>6, <1>9, <1>11, <2>1, <2>3 DEF OneOpen, Answered, OneLine, Newlines, Last
  <2> QED
    BY <1>2, <1>8, <1>9, <1>10, <2>4 DEF RepliesInv
<1> QED
  BY <1>12, <1>13

\* When a send has thrown, another reply takes the place of the first, or none
\* is read any more; the link is dead either way.
LEMMA SendStep ==
  ASSUME RepliesInv, Replied \/ SendThrows \/ SendKilled \/ Close \/ ClientLeaves
  PROVE  RepliesInv'
<1>1. CASE Replied
  BY <1>1 DEF Replied, Writing, rioVars, sessionVars, histVars, RepliesInv, OneOpen,
     Answered, Newlines, Last
<1>2. CASE SendThrows
  <2>1. /\ link' = "dead" /\ UNCHANGED <<stack, received, lines, replies, next>>
        /\ unsent' = encode(Message("FAILED", <<"why">>)) \/ unsent' = <<>>
    BY <1>2 DEF SendThrows, sessionVars, histVars
  <2>2. "FAILED" \in ReplyTypes /\ "why" \in ReplyTexts
    BY DEF ReplyTypes, ReplyTexts
  <2>3. unsent' \in Seq(ReplyUnits)
    <3>1. <<>> \in Seq(ReplyUnits)
      OBVIOUS
    <3> QED
      BY <2>1, <2>2, <3>1, ReplyIsLine, RepliesFit
  <2> QED
    BY <2>1, <2>3 DEF RepliesInv
<1>3. CASE SendKilled \/ Close
  <2>1. /\ UNCHANGED <<stack, received, unsent, lines, replies, next, link>>
        /\ UNCHANGED pc \/ pc' = "closed"
    BY <1>3 DEF SendKilled, Close, rioVars, sessionVars, histVars
  <2> QED
    BY <2>1 DEF RepliesInv, OneOpen, Answered, Newlines, Last, OneLine
<1>4. CASE ClientLeaves
  <2>1. /\ UNCHANGED <<stack, received, unsent, lines, replies, next, pc>>
        /\ link = "open"
    BY <1>4 DEF ClientLeaves, Disconnect, writeVars, sessionVars, histVars
  <2> QED
    BY <2>1 DEF RepliesInv, OneOpen, Answered, Newlines, Last, OneLine
<1> QED
  BY <1>1, <1>2, <1>3, <1>4

\* Each step keeps the count of replies.
LEMMA RepliesStep ==
  ASSUME LinesInv, RepliesInv, [Next]_vars
  PROVE  RepliesInv'
<1>1. CASE UNCHANGED vars
  BY <1>1 DEF vars, rioVars, sessionVars, histVars, RepliesInv, OneOpen, Answered,
     Newlines, Last, OneLine
<1> QED
  BY <1>1, ReadStep, HandleStep, WriteStep, SendStep DEF Next, Step

\* Each line is answered by one complete reply before the next one is read,
\* however the writes are cut and whatever the handlers throw, as long as the
\* client is there.
THEOREM RepliesAlwaysComplete == Spec => []OneReply
<1>1. Init => LinesInv /\ RepliesInv
  BY LinesInit, RepliesInit
<1>2. LinesInv /\ RepliesInv /\ [Next]_vars => LinesInv' /\ RepliesInv'
  BY LinesStep, RepliesStep
<1>3. RepliesInv => OneReply
  BY DEF RepliesInv, OneOpen, Answered, OneReply
<1> QED
  BY <1>1, <1>2, <1>3, PTL DEF Spec

\* An OK means what it says: the operands are replaced by their result, for
\* any width of an int.
THEOREM OkAlwaysMeans == Spec => OkMeans
<1>1. RepliesInv /\ Next =>
        \A op \in ArithmeticOps :
          Performs(op) /\ unsent'[1] = "OK" =>
            /\ Len(stack') = Len(stack) - 1
            /\ SubSeq(stack', 2, Len(stack')) = SubSeq(stack, 3, Len(stack))
            /\ \E n \in Int32 : /\ stack'[1] = to_string(n)
                                /\ Means(op, stoi(stack[2]), stoi(stack[1]), n)
  <2> SUFFICES ASSUME RepliesInv, Next, NEW op \in ArithmeticOps,
                      Performs(op), unsent'[1] = "OK"
               PROVE  /\ Len(stack') = Len(stack) - 1
                      /\ SubSeq(stack', 2, Len(stack')) = SubSeq(stack, 3, Len(stack))
                      /\ \E n \in Int32 :
                           /\ stack'[1] = to_string(n)
                           /\ Means(op, stoi(stack[2]), stoi(stack[1]), n)
    OBVIOUS
  <2>1. HandleArithmetic(op) /\ stack \in Seq(Unit)
    BY OkIsDone DEF RepliesInv
  <2> QED
    BY <2>1, ResultReplaces, ResultMeans
<1>2. Init => LinesInv /\ RepliesInv
  BY LinesInit, RepliesInit
<1>3. LinesInv /\ RepliesInv /\ [Next]_vars => LinesInv' /\ RepliesInv'
  BY LinesStep, RepliesStep
<1> QED
  BY <1>1, <1>2, <1>3, PTL DEF Spec, OkMeans
-----------------------------------------------------------------------------
(* Encoding and decoding *)

\* What a message is made of, on a line that has no empty and no cut texts.
LineUnit == Text \cup MessageTypes

Whole(u) == \A i \in 1..Len(u) : u[i] \notin Sentence \cup {""}

\* A line that consists of u and a newline.
LineOf(line, u) ==
  /\ line \in Seq(LineUnit \cup {NL})
  /\ Len(line) = Len(u) + 1 /\ line[Len(line)] = NL
  /\ \A i \in 1..Len(u) : line[i] = u[i]

\* decode finds the type and the arguments again.
LEMMA DecodeWhole ==
  ASSUME NEW u \in Seq(LineUnit), u # <<>>, Whole(u), u[1] \in MessageTypes,
         NEW line, LineOf(line, u)
  PROVE  LET m == Message(u[1], [i \in 1..Len(u) - 1 |-> Unquote(u[i + 1])])
         IN decode(line) = IF is_valid(m) THEN m ELSE Invalid
<1>1. PICK n \in Nat : n = Len(u) /\ n >= 1
  OBVIOUS
<1>2. line # <<>> /\ Last(line) = NL
  BY <1>1 DEF LineOf, Last
<1>3. DOMAIN Front(line) = 1..n
  <2>1. DOMAIN Front(line) = 1..Len(line) - 1
    BY <1>2, FrontUnits DEF LineOf
  <2>2. Len(line) - 1 = n
    BY <1>1 DEF LineOf
  <2> QED
    BY <2>1, <2>2
<1>4. [i \in DOMAIN Front(line) |-> Words(line[i])] = [i \in DOMAIN u |-> <<u[i]>>]
  <2>1. DOMAIN u = 1..n
    BY <1>1
  <2>2. \A i \in 1..n : Words(line[i]) = <<u[i]>>
    BY <1>1 DEF LineOf, Whole, Words
  <2> QED
    BY <1>3, <2>1, <2>2
<1>5. FlattenSeq([i \in DOMAIN Front(line) |-> Words(line[i])]) = u
  BY <1>4, FlattenOnes
<1>6. string_to_message_type(u[1]) = u[1]
  BY DEF string_to_message_type
<1> QED
  BY <1>2, <1>5, <1>6 DEF decode

\* Quotes are taken off once; what was between them is no sentence.
LEMMA UnquotedValue ==
  ASSUME NEW text \in Text, checkValue(text)
  PROVE  checkValue(Unquote(text))
<1>1. CASE text \in Quoted
  <2>1. \E inner \in Inner : text = Quote(inner)
    BY <1>1 DEF Quoted
  <2>2. PICK inner \in Inner : inner = Unquote(text) /\ text = Quote(inner)
    BY <1>1, <2>1 DEF Unquote
  <2>3. inner \notin Sentence
    BY <2>2 DEF checkValue
  <2>4. inner \notin Quoted
    BY ProtocolAssumption
  <2> QED
    BY <2>2, <2>3, <2>4 DEF checkValue, Quoted
<1>2. CASE text \notin Quoted
  BY <1>2 DEF Unquote
<1> QED
  BY <1>1, <1>2

\* Identifiers have no quotes.
LEMMA UnquotedIdentifier ==
  ASSUME NEW text, checkIdentifier(text)
  PROVE  Unquote(text) = text
BY ProtocolAssumption DEF checkIdentifier, Unquote

\* A message of a valid type and number of arguments.
LEMMA UnquotedValid ==
  ASSUME NEW type, NEW args \in Seq(Text), is_valid(Message(type, args))
  PROVE  is_valid(Message(type, [i \in DOMAIN args |-> Unquote(args[i])]))
<1> DEFINE plain == [i \in DOMAIN args |-> Unquote(args[i])]
<1>1. DOMAIN args = 1..Len(args) /\ Len(args) \in Nat
  OBVIOUS
<1>2. Len(plain) = Len(args) /\ \A i \in 1..Len(args) : plain[i] = Unquote(args[i])
  BY <1>1
<1>3. /\ Message(type, args).type = type /\ Message(type, args).args = args
      /\ Message(type, plain).type = type /\ Message(type, plain).args = plain
  BY DEF Message
<1> HIDE DEF plain
<1>4. CASE type \in {"LOGIN", "CREATE"} /\ Len(args) = 1 /\ checkIdentifier(args[1])
  <2>1. plain[1] = args[1]
    BY <1>2, <1>4, UnquotedIdentifier
  <2> QED
    BY <1>2, <1>3, <1>4, <2>1 DEF is_valid, plain
<1>5. CASE /\ type \in {"SET", "GET"} /\ Len(args) = 2
           /\ checkIdentifier(args[1]) /\ checkIdentifier(args[2])
  <2>1. plain[1] = args[1] /\ plain[2] = args[2]
    BY <1>2, <1>5, UnquotedIdentifier
  <2> QED
    BY <1>2, <1>3, <1>5, <2>1 DEF is_valid, plain
<1>6. CASE type \in {"PUSH", "DATA"} /\ Len(args) = 1 /\ checkValue(args[1])
  <2>1. args[1] \in Text
    <3>1. 1 \in 1..Len(args)
      BY <1>6
    <3> QED
      BY <3>1
  <2>2. checkValue(plain[1])
    BY <1>2, <1>6, <2>1, UnquotedValue
  <2> QED
    BY <1>2, <1>3, <1>6, <2>2 DEF is_valid, plain
<1>7. CASE type \in {"FAILED", "ERROR"} /\ Len(args) = 1
  BY <1>2, <1>3, <1>7 DEF is_valid, plain
<1>8. CASE /\ type \in {"NONE", "POP", "TOP", "ADD", "SUB", "MUL", "DIV",
                        "BEGIN", "COMMIT", "BYE", "OK"}
           /\ Len(args) = 0
  BY <1>2, <1>3, <1>8 DEF is_valid, plain
<1> QED
  BY <1>3, <1>4, <1>5, <1>6, <1>7, <1>8, Zenon DEF is_valid

\* The line of a message is its type, its arguments and a newline.
LEMMA EncodedLine ==
  ASSUME NEW type \in MessageTypes, NEW args \in Seq(Text), is_valid(Message(type, args))
  PROVE  LineOf(Joined(Message(type, args)), <<type>> \o args)
<1> DEFINE m == Message(type, args)
           S == LineUnit \cup {NL}
<1>1. m.type = type /\ m.args = args
  BY DEF Message
<1>2. /\ Joined(m) = <<type>> \o (IF args = <<>> THEN <<>> ELSE <<args[1]>>)
                     \o (IF type \in {"SET", "GET"} THEN <<args[2]>> ELSE <<>>)
                     \o <<NL>>
  BY <1>1 DEF Joined
<1>3. type \in S /\ NL \in S /\ Text \subseteq S
  BY DEF LineUnit
<1>4. /\ <<type>> \in Seq(S) /\ Len(<<type>>) = 1 /\ <<type>>[1] = type
      /\ args \in Seq(S) /\ Len(args) \in Nat
  BY <1>3
<1>5. /\ Len(<<type>> \o args) = 1 + Len(args)
      /\ \A i \in 1..1 + Len(args) :
           (<<type>> \o args)[i] = IF i <= 1 THEN <<type>>[i] ELSE args[i - 1]
  BY <1>4, ConcatProperties
<1>6. \/ Len(args) = 0 /\ type \notin {"SET", "GET"}
      \/ Len(args) = 1 /\ type \notin {"SET", "GET"}
      \/ Len(args) = 2 /\ type \in {"SET", "GET"}
  BY <1>1 DEF is_valid
<1>7. CASE Len(args) = 0 /\ type \notin {"SET", "GET"}
  <2>1. Joined(m) = <<type, NL>>
    <3>1. args = <<>>
      BY <1>7
    <3>2. Joined(m) = <<type>> \o <<>> \o <<>> \o <<NL>>
      BY <1>2, <1>7, <3>1
    <3> QED
      BY <1>3, <3>2, LineUnits
  <2>2. (<<type>> \o args)[1] = type /\ Len(<<type>> \o args) = 1
    BY <1>4, <1>5, <1>7
  <2>3. LineOf(<<type, NL>>, <<type>> \o args)
    BY <1>3, <2>2 DEF LineOf
  <2> QED
    BY <2>1, <2>3
<1>8. CASE Len(args) = 1 /\ type \notin {"SET", "GET"}
  <2>0. args # <<>> /\ args[1] \in S
    <3>1. 1 \in 1..Len(args)
      BY <1>8
    <3> QED
      BY <1>4, <3>1
  <2>1. Joined(m) = <<type, args[1], NL>>
    <3>1. Joined(m) = <<type>> \o <<args[1]>> \o <<>> \o <<NL>>
      BY <1>2, <1>8, <2>0, Zenon
    <3> HIDE DEF S
    <3> QED
      BY <1>3, <2>0, <3>1, LineUnits, ZenonT(30)
  <2>2. /\ Len(<<type>> \o args) = 2
        /\ (<<type>> \o args)[1] = type /\ (<<type>> \o args)[2] = args[1]
    BY <1>4, <1>5, <1>8
  <2>3. LineOf(<<type, args[1], NL>>, <<type>> \o args)
    BY <1>3, <2>0, <2>2 DEF LineOf
  <2> QED
    BY <2>1, <2>3
<1>9. CASE Len(args) = 2 /\ type \in {"SET", "GET"}
  <2>0. args # <<>> /\ args[1] \in S /\ args[2] \in S
    <3>1. 1 \in 1..Len(args) /\ 2 \in 1..Len(args)
      BY <1>9
    <3> QED
      BY <1>4, <3>1
  <2>1. Joined(m) = <<type, args[1], args[2], NL>>
    <3>1. Joined(m) = <<type>> \o <<args[1]>> \o <<args[2]>> \o <<NL>>
      <4>1. args = <<>> <=> FALSE
        BY <2>0
      <4>2. type \in {"SET", "GET"} <=> TRUE
        BY <1>9
      <4> HIDE DEF m
      <4> QED
        BY <1>2, <4>1, <4>2, Zenon
    <3> HIDE DEF S, m
    <3>2. PICK a, b : a = args[1] /\ b = args[2]
      OBVIOUS
    <3>3. a \in S /\ b \in S
      BY <2>0, <3>2
    <3>4. <<type>> \o <<a>> \o <<b>> \o <<NL>> = <<type, a, b, NL>>
      BY <1>3, <3>3, LineUnits
    <3> QED
      BY <3>1, <3>2, <3>4
  <2>2. /\ Len(<<type>> \o args) = 3
        /\ (<<type>> \o args)[1] = type
        /\ (<<type>> \o args)[2] = args[1] /\ (<<type>> \o args)[3] = args[2]
    BY <1>4, <1>5, <1>9
  <2>3. LineOf(<<type, args[1], args[2], NL>>, <<type>> \o args)
    BY <1>3, <2>0, <2>2 DEF LineOf
  <2> QED
    BY <2>1, <2>3
<1> QED
  BY <1>6, <1>7, <1>8, <1>9

\* Decoding gives an encoded message back without its quotes.
LEMMA Decoded ==
  ASSUME NEW type \in MessageTypes, NEW args \in Seq(Text),
         is_valid(Message(type, args)), Whole(args)
  PROVE  decode(Joined(Message(type, args)))
           = Message(type, [i \in DOMAIN args |-> Unquote(args[i])])
<1>1. PICK n \in Nat : n = Len(args) /\ DOMAIN args = 1..n
  OBVIOUS
<1>2. /\ <<type>> \in Seq(LineUnit) /\ Len(<<type>>) = 1 /\ <<type>>[1] = type
      /\ args \in Seq(LineUnit)
  BY DEF LineUnit
<1>3. PICK u \in Seq(LineUnit) : /\ u = <<type>> \o args /\ Len(u) = 1 + n /\ u[1] = type
                                 /\ \A i \in 1..n : u[i + 1] = args[i]
  <2>1. /\ <<type>> \o args \in Seq(LineUnit) /\ Len(<<type>> \o args) = 1 + n
        /\ \A i \in 1..1 + n :
             (<<type>> \o args)[i] = IF i <= 1 THEN <<type>>[i] ELSE args[i - 1]
    BY <1>1, <1>2, ConcatProperties
  <2>2. (<<type>> \o args)[1] = type
    BY <1>2, <2>1
  <2>3. \A i \in 1..n : (<<type>> \o args)[i + 1] = args[i]
    <3>1. \A i \in 1..n : i + 1 \in 1..1 + n /\ ~(i + 1 <= 1) /\ (i + 1) - 1 = i
      OBVIOUS
    <3> QED
      BY <2>1, <3>1
  <2> QED
    BY <2>1, <2>2, <2>3
<1>4. u # <<>> /\ Whole(u)
  <2>1. type \notin Sentence \cup {""}
    BY ProtocolAssumption DEF MessageTypes
  <2>2. ASSUME NEW i \in 1..Len(u)
        PROVE  u[i] \notin Sentence \cup {""}
    <3>1. CASE i = 1
      BY <1>3, <2>1, <3>1
    <3>2. CASE i # 1
      <4>1. i - 1 \in 1..n /\ (i - 1) + 1 = i
        BY <1>3, <3>2
      <4>2. u[i] = args[i - 1]
        BY <1>3, <4>1
      <4> QED
        BY <1>1, <4>1, <4>2 DEF Whole
    <3> QED
      BY <3>1, <3>2
  <2>3. u # <<>>
    BY <1>3
  <2> QED
    BY <2>2, <2>3 DEF Whole
<1>5. LineOf(Joined(Message(type, args)), u)
  BY <1>3, EncodedLine
<1> DEFINE plain == [i \in DOMAIN args |-> Unquote(args[i])]
<1>6. [i \in 1..Len(u) - 1 |-> Unquote(u[i + 1])] = plain
  <2>1. 1..Len(u) - 1 = 1..n
    BY <1>3
  <2> QED
    BY <1>1, <1>3, <2>1
<1>7. is_valid(Message(type, plain))
  BY UnquotedValid
<1> HIDE DEF plain
<1>8. decode(Joined(Message(type, args)))
        = IF is_valid(Message(type, plain)) THEN Message(type, plain) ELSE Invalid
  BY <1>3, <1>4, <1>5, <1>6, DecodeWhole
<1> QED
  BY <1>7, <1>8 DEF plain

\* The arguments of a message of the property are a sequence.
LEMMA ArgsAreTexts ==
  ASSUME NEW S, NEW args, \E n \in 0..2 : args \in [1..n -> Text \cap S]
  PROVE  args \in Seq(Text)
<1>1. PICK n \in 0..2 : args \in [1..n -> Text \cap S]
  OBVIOUS
<1>2. PICK T : T = Text
  OBVIOUS
<1> QED
  BY <1>1, <1>2

\* A message with other arguments.
LEMMA NewArgs ==
  ASSUME NEW type, NEW args, NEW plain
  PROVE  [Message(type, args) EXCEPT !.args = plain] = Message(type, plain)
<1>1. PICK T : T = {args, plain}
  OBVIOUS
<1>2. PICK r : r = Message(type, args)
  OBVIOUS
<1>3. r \in [type : {type}, args : T] /\ plain \in T /\ r.type = type
  BY <1>1, <1>2 DEF Message
<1>4. [r EXCEPT !.args = plain] = [type |-> r.type, args |-> plain]
  BY <1>3
<1> QED
  BY <1>2, <1>3, <1>4 DEF Message

\* Encoding a valid message throws if its line is longer than MAX_ENCODED_LEN,
\* whatever that is; else decoding gives the message back, whatever texts there
\* are, but for empty ones and sentences.
THEOREM RoundTripAlways == Spec => []RoundTrip
<1>1. RoundTrip
  <2> SUFFICES ASSUME NEW m \in Messages, is_valid(m),
                      \A i \in DOMAIN m.args : m.args[i] \notin Sentence \cup {""}
               PROVE  decode(Joined(m)) =
                        [m EXCEPT !.args = [i \in DOMAIN m.args |-> Unquote(m.args[i])]]
    BY DEF RoundTrip, encode
  <2>1. PICK type, args : type = m.type /\ args = m.args
    OBVIOUS
  <2>2. /\ type \in MessageTypes
        /\ \E n \in 0..2 : args \in [1..n -> Text \cap ToSet(buf)]
        /\ m = Message(type, args)
    BY <2>1 DEF Messages, Message
  <2>3. args \in Seq(Text)
    BY <2>2, ArgsAreTexts
  <2>5. Whole(args)
    <3>1. \A i \in DOMAIN args : args[i] \notin Sentence \cup {""}
      BY <2>1
    <3>2. \A i \in 1..Len(args) : i \in DOMAIN args
      BY <2>3, LenProperties
    <3> QED
      BY <3>1, <3>2 DEF Whole
  <2>6. decode(Joined(m)) = Message(type, [i \in DOMAIN args |-> Unquote(args[i])])
    BY <2>2, <2>3, <2>5, Decoded
  <2>7. [m EXCEPT !.args = [i \in DOMAIN m.args |-> Unquote(m.args[i])]]
          = Message(type, [i \in DOMAIN args |-> Unquote(args[i])])
    <3>1. PICK plain : plain = [i \in DOMAIN args |-> Unquote(args[i])]
      OBVIOUS
    <3>2. [Message(type, args) EXCEPT !.args = plain] = Message(type, plain)
      BY NewArgs
    <3> QED
      BY <2>1, <2>2, <3>1, <3>2
  <2> QED
    BY <2>6, <2>7
<1> QED
  BY <1>1, PTL
=============================================================================
