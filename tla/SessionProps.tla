---------------------------- MODULE SessionProps ----------------------------
(* What a client of a session may rely on.                                 *)
EXTENDS Session

Newlines(s) == Cardinality({i \in DOMAIN s : s[i] = NL})

\* Whatever the reads of the kernel cut and the two buffers hold, the session
\* executes what the client has sent, in order, without loss and repetition
\* (up to the end of the file, where it repeats the last line), and never two
\* lines as one.
LinesInOrder ==
  /\ executed \o usrbuf \o rio_buf \o wire = sent
  /\ \A i \in 1..Len(buf) - 1 : buf[i] # NL

\* As long as the client is there to read, each line is answered by one
\* complete reply before the next one is read, however short the writes are
\* and whatever the handler throws.
OneReply ==
  pc = "read" /\ link # "dead" =>
    /\ Newlines(received) = lines /\ replies = lines
    /\ received # <<>> => Last(received) = NL

\* Every message that can be made of the texts on the line.
Messages ==
  [type : MessageTypes, args : UNION {[1..n -> Text \cap ToSet(buf)] : n \in 0..2}]

\* Encoding such a message throws exactly if its line is too long; decoding the
\* line gives it back if it was valid: types are told apart, no argument is
\* lost, and quoted texts come back without their quotes.  The exceptions are
\* the empty text, which vanishes, and sentences, which fall apart.
RoundTrip ==
  pc = "exec" => \A m \in Messages :
    /\ is_valid(m)
    /\ \A i \in DOMAIN m.args : m.args[i] \notin Sentence \cup {""}
    => IF Length(Joined(m)) > MAX_ENCODED_LEN
         THEN encode(m) = <<>>
         ELSE decode(encode(m)) =
                [m EXCEPT !.args = [i \in DOMAIN m.args |-> Unquote(m.args[i])]]

Performs(op) == pc = "exec" /\ pc' = "reply" /\ decode(buf).type = op

\* An OK to an operation means that the two operands on top have been replaced
\* by its result, left operand below right, up to the width of an int; a
\* quotient is rounded towards zero.
Means(op, left, right, n) ==
  LET same(i, j) == (i - j) % (IntMax - IntMin + 1) = 0
      rest == left - n * right
      abs(i) == IF i < 0 THEN -i ELSE i
  IN CASE op = "ADD" -> same(n, left + right)
       [] op = "SUB" -> same(n, left - right)
       [] op = "MUL" -> same(n, left * right)
       [] op = "DIV" -> abs(rest) < abs(right) /\ rest * left >= 0

OkMeans ==
  [][\A op \in ArithmeticOps :
       Performs(op) /\ unsent'[1] = "OK" =>
         /\ Len(stack') = Len(stack) - 1
         /\ SubSeq(stack', 2, Len(stack')) = SubSeq(stack, 3, Len(stack))
         /\ \E n \in Int32 : /\ stack'[1] = to_string(n)
                             /\ Means(op, stoi(stack[2]), stoi(stack[1]), n)]_vars

\* A FAILED operation adds nothing and loses no operand that it could not use:
\* one if there was no valid second one (DIV keeps a zero), both only if stoi
\* then fails to find a number in one of them.
FailedKeeps ==
  [][\A op \in ArithmeticOps :
       Performs(op) /\ unsent'[1] = "FAILED" =>
         \E k \in 0..2 :
           /\ stack' = SubSeq(stack, k + 1, Len(stack))
           /\ \A i \in 1..k : isNumeric(stack[i])
           /\ k = 2 => \E i \in 1..2 : stoiThrows(stack[i])
           /\ k >= 1 /\ op = "DIV" => stoi(stack[1]) # 0]_vars

\* A client that leaves without BYE is not served for ever: the last line it
\* sent is repeated until a write fails or ends the server.
LeavingEnds == link # "open" ~> (pc = "closed" \/ process = "down")
=============================================================================
