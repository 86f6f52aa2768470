------------------------------ MODULE Session -------------------------------
(***************************************************************************)
(* One session of the server on its own: the lines of one client, through  *)
(* the read buffer, to the operand stack and back as replies               *)
(* (client_connection.cpp, value_stack.cpp).  What sessions do to each     *)
(* other, in the handlers of tables and transactions, is in KVServer.      *)
(***************************************************************************)
EXTENDS Protocol, Rio, TLC

CONSTANTS
  IntMax,          \* INT_MAX: 2^31 - 1 in the code
  Dashes,          \* texts of digits and dashes in which stoi finds no number
  Huge,            \* numerals out of the range of an int
  Streams,         \* what a client may send, as sequences of lines
  Leftovers        \* what may lie where buf will be, as units up to its end

IntMin == -IntMax - 1
Int32 == IntMin..IntMax

to_string(n) == ToString(n)

ASSUME SessionAssumption ==
  /\ Newline = NL
  /\ \A s \in Streams : FlattenSeq(s) \in Seq(STRING)
  /\ Leftovers \subseteq Seq(STRING)
  /\ \A s \in Leftovers : \A i \in 1..Len(s) - 1 : s[i] # NL
  /\ IntMax \in Nat
  /\ \A n \in Int32 : to_string(n) \in STRING \ {NL}

\* The texts that the handlers send on their own fit into a line.
ASSUME RepliesFit ==
  /\ encode(Message("OK", <<"">>)) # <<>>
  /\ \A type \in {"FAILED", "ERROR"} : encode(Message(type, <<"why">>)) # <<>>

Numerals == {to_string(n) : n \in Int32}

\* Texts of digits and dashes of which stoi reads the start.
Cut == {to_string(n) \o "-" : n \in Int32}

VARIABLES
  pc,            \* where chat_with_client is
  process,       \* "up", or "down" after exit or a signal
  is_logged_in,
  stack,         \* the top is first
  buf,           \* the buffer of chat_with_client: the last line
  next,          \* where the handler goes when its reply is written
  guarded,       \* the send is inside the handler's try
  sent,          \* history: the units that the client sends in all
  executed,      \* history: the units of the lines read so far
  replies,       \* history: replies begun
  lines          \* history: lines executed, repetitions included

sessionVars == <<is_logged_in, stack>>
histVars == <<sent, executed, replies, lines>>
vars == <<rioVars, pc, process, sessionVars, buf, next, guarded, histVars>>

\* buf is not initialised: its memory may hold the last line of a thread that
\* has ended.
Init ==
  /\ rio_readinitb
  /\ \E s \in Streams : sent = FlattenSeq(s)
  /\ wire = sent
  /\ pc = "read" /\ process = "up"
  /\ is_logged_in = FALSE /\ stack = <<>>
  /\ buf \in Leftovers /\ next = "read" /\ guarded = FALSE
  /\ executed = <<>> /\ replies = 0 /\ lines = 0
-----------------------------------------------------------------------------
(* Reading a line. *)

Reading == process = "up" /\ pc = "read"

FillBuffer ==
  /\ Reading /\ ~LineRead
  /\ Refill
  /\ UNCHANGED <<pc, process, sessionVars, buf, next, guarded, histVars>>

TakeUnit ==
  /\ Reading /\ ~LineRead
  /\ rio_read
  /\ UNCHANGED <<pc, process, sessionVars, buf, next, guarded, histVars>>

Arrives(line) ==
  /\ buf' = line /\ usrbuf' = <<>>
  /\ pc' = "exec"
  /\ lines' = lines + 1

\* A line, a full buffer, or what was left before the end of the file.
LineArrives ==
  /\ Reading
  /\ LineRead \/ (AtEof /\ usrbuf # <<>>)
  /\ Arrives(usrbuf)
  /\ executed' = executed \o usrbuf
  /\ UNCHANGED <<wire, link, rio_buf, writeVars, process, sessionVars, next,
                 guarded, sent, replies>>

\* At end of file the wrapper returns 0, which is not negative: the loop goes
\* on with what the buffer still holds.
EofArrives ==
  /\ Reading /\ AtEof /\ usrbuf = <<>>
  /\ Arrives(buf)
  /\ UNCHANGED <<wire, link, rio_buf, writeVars, process, sessionVars, next,
                 guarded, sent, executed, replies>>

\* Rio_readlineb ends the process when a read fails.
ReadError ==
  /\ Reading /\ ReadFails
  /\ process' = "down"
  /\ UNCHANGED <<rioVars, pc, sessionVars, buf, next, guarded, histVars>>
-----------------------------------------------------------------------------
(* Executing it. *)

Executes(type) ==
  /\ process = "up" /\ pc = "exec"
  /\ decode(buf).type = type
  /\ is_logged_in \/ type = "LOGIN"

\* send_response gives its message one argument, which may be empty.
Reply(type, text, after) ==
  /\ unsent' = encode(Message(type, <<text>>))
  /\ replies' = replies + 1
  /\ next' = after
  /\ pc' = "reply"
  /\ UNCHANGED <<readVars, link, received, process, buf, sent, executed, lines>>

\* Replies from inside the try of a handler, and from outside it.
Try(type, text) == Reply(type, text, "read") /\ guarded' = TRUE
Plain(type, text, after) == Reply(type, text, after) /\ guarded' = FALSE

\* What a catch sends.
Caught == Plain("FAILED", "why", "read")

RejectLine ==
  /\ process = "up" /\ pc = "exec" /\ decode(buf) = Invalid
  /\ Plain("ERROR", "why", "exiting")
  /\ UNCHANGED sessionVars

RejectStranger ==
  /\ process = "up" /\ pc = "exec" /\ ~is_logged_in
  /\ decode(buf).type \notin {"LOGIN", "invalid"}
  /\ Plain("ERROR", "why", "exiting")
  /\ UNCHANGED sessionVars

HandleLogin ==
  /\ Executes("LOGIN")
  /\ IF is_logged_in THEN Plain("ERROR", "why", "read")
                     ELSE Plain("OK", "", "read")
  /\ is_logged_in' = TRUE
  /\ UNCHANGED stack

HandleBye ==
  /\ Executes("BYE")
  /\ Plain("OK", "", "exiting")
  /\ UNCHANGED sessionVars

HandleUnsupported ==
  /\ \E type \in {"NONE", "OK", "FAILED", "ERROR", "DATA"} : Executes(type)
  /\ Plain("ERROR", "why", "read")
  /\ UNCHANGED sessionVars

HandlePush ==
  /\ Executes("PUSH")
  /\ stack' = <<decode(buf).args[1]>> \o stack
  /\ Plain("OK", "", "read")
  /\ UNCHANGED is_logged_in

HandlePop ==
  /\ Executes("POP")
  /\ IF stack = <<>> THEN Caught /\ UNCHANGED stack
                     ELSE Try("OK", "") /\ stack' = Tail(stack)
  /\ UNCHANGED is_logged_in

\* A value that could be pushed may be too long to encode with DATA: the
\* InvalidMessage is caught like an empty stack.
HandleTop ==
  /\ Executes("TOP")
  /\ IF stack # <<>> /\ encode(Message("DATA", <<Head(stack)>>)) # <<>>
       THEN Try("DATA", Head(stack)) ELSE Caught
  /\ UNCHANGED sessionVars
-----------------------------------------------------------------------------
(* Arithmetic. *)

isNumeric(text) == text \in Numerals \cup Dashes \cup Cut \cup Huge

\* std::stoi: the number a text starts with, or an exception.
stoiThrows(text) == text \in Dashes \cup Huge

stoi(text) == 
  CHOOSE n \in Int32 : text \in {to_string(n), to_string(n) \o "-"}

\* An int in two's complement, as the build without optimisation gives it.
Wrap(n) == ((n - IntMin) % (IntMax - IntMin + 1)) + IntMin

\* C++ rounds quotients towards zero.
Quotient(n, d) ==
  LET abs(i) == IF i < 0 THEN -i ELSE i
      q == abs(n) \div abs(d)
  IN IF (n < 0) = (d < 0) THEN q ELSE -q

\* Mutant: the operands of SUB and DIV are taken in the wrong order.
Result_Swapped(op, second, first) ==
  CASE op = "ADD" -> Wrap(second + first)
    [] op = "SUB" -> Wrap(first - second)
    [] op = "MUL" -> Wrap(second * first)
    [] op = "DIV" -> Quotient(second, first)

\* first was on top of second.
Result(op, second, first) ==
  CASE op = "ADD" -> Wrap(second + first)
    [] op = "SUB" -> Wrap(second - first)
    [] op = "MUL" -> Wrap(second * first)
    [] op = "DIV" -> Quotient(second, first)

\* The top, which DIV also compares with 0, may be popped.
FirstValid(op) ==
  /\ stack # <<>> /\ isNumeric(stack[1])
  /\ op = "DIV" => ~stoiThrows(stack[1]) /\ stoi(stack[1]) # 0

\* Mutant: the second operand is popped before it is looked at.
Popped_Early(op) == IF ~FirstValid(op) THEN 0 ELSE Smaller(2, Len(stack))

\* The operands that have been found valid, and popped, before the numbers
\* are read or the handler throws.
Popped(op) ==
  IF ~FirstValid(op) THEN 0
  ELSE IF Len(stack) < 2 \/ ~isNumeric(stack[2]) THEN 1 ELSE 2

Readable(op) == Popped(op) = 2 /\ ~stoiThrows(stack[1]) /\ ~stoiThrows(stack[2])

\* IntMin / -1 traps: SIGFPE ends the process.
Traps(op) ==
  op = "DIV" /\ stoi(stack[2]) = IntMin /\ stoi(stack[1]) = -1

ArithmeticOps == {"ADD", "SUB", "MUL", "DIV"}

HandleArithmetic(op) ==
  /\ Executes(op)
  /\ Readable(op) /\ ~Traps(op)
  /\ stack' = <<to_string(Result(op, stoi(stack[2]), stoi(stack[1])))>>
                \o Tail(Tail(stack))
  /\ Try("OK", "")
  /\ UNCHANGED is_logged_in

ArithmeticFails(op) ==
  /\ Executes(op)
  /\ ~Readable(op)
  /\ stack' = SubSeq(stack, Popped(op) + 1, Len(stack))
  /\ Caught
  /\ UNCHANGED is_logged_in

ArithmeticTraps(op) ==
  /\ Executes(op)
  /\ Readable(op) /\ Traps(op)
  /\ process' = "down"
  /\ UNCHANGED <<rioVars, pc, sessionVars, buf, next, guarded, histVars>>
-----------------------------------------------------------------------------
(* Writing the reply. *)

Writing == process = "up" /\ pc = "reply"

WriteReply ==
  /\ Writing /\ unsent # <<>>
  /\ rio_writen
  /\ UNCHANGED <<pc, process, sessionVars, buf, next, guarded, histVars>>

Replied ==
  /\ Writing /\ unsent = <<>>
  /\ pc' = next
  /\ UNCHANGED <<rioVars, process, sessionVars, buf, next, guarded, histVars>>

\* writen fails once after a reset: the CommException is caught by the
\* handler, which replies FAILED, or ends the thread in client_worker.
SendThrows ==
  /\ Writing /\ unsent # <<>> /\ link = "rst"
  /\ link' = "dead"
  /\ guarded' = FALSE
  /\ IF guarded
       THEN /\ unsent' = encode(Message("FAILED", <<"why">>))
            /\ UNCHANGED pc
       ELSE unsent' = <<>> /\ pc' = "exiting"
  /\ UNCHANGED <<readVars, received, process, sessionVars, buf, next, histVars>>

\* Nobody has ignored SIGPIPE.
SendKilled ==
  /\ Writing /\ unsent # <<>> /\ link = "dead"
  /\ process' = "down"
  /\ UNCHANGED <<rioVars, pc, sessionVars, buf, next, guarded, histVars>>

\* The destructor closes the socket and deletes the stack.
Close ==
  /\ process = "up" /\ pc = "exiting"
  /\ pc' = "closed"
  /\ UNCHANGED <<rioVars, process, sessionVars, buf, next, guarded, histVars>>

ClientLeaves ==
  /\ process = "up" /\ pc # "closed"
  /\ Disconnect
  /\ UNCHANGED <<pc, process, sessionVars, buf, next, guarded, histVars>>
-----------------------------------------------------------------------------
Step ==
  \/ FillBuffer \/ TakeUnit \/ LineArrives \/ EofArrives \/ ReadError
  \/ RejectLine \/ RejectStranger \/ HandleLogin \/ HandleBye
  \/ HandleUnsupported \/ HandlePush \/ HandlePop \/ HandleTop
  \/ \E op \in ArithmeticOps :
       HandleArithmetic(op) \/ ArithmeticFails(op) \/ ArithmeticTraps(op)
  \/ WriteReply \/ Replied \/ SendThrows \/ SendKilled \/ Close

Next == Step \/ ClientLeaves

Spec == Init /\ [][Next]_vars

\* The thread runs as long as it can; the client may do nothing for ever.
FairSpec == Spec /\ WF_vars(Step)
=============================================================================
