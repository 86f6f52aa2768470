------------------------------ MODULE Clients -------------------------------
(***************************************************************************)
(* The command line clients of csf_assign05 (get_value.cpp, set_value.cpp, *)
(* incr_value.cpp) and the server they talk to: the handlers of            *)
(* client_connection.cpp on one key of one table, each request in one      *)
(* step (KVServer has their steps).  No client accepts the OK of that      *)
(* server, which has an empty argument (OkArgument); without OkArgument    *)
(* that one fault is mended, so that a dialogue gets past its LOGIN.       *)
(***************************************************************************)
EXTENDS Protocol, FiniteSets, TLC

CONSTANTS
  Client,
  OkArgument, \* whether an OK has the empty argument that send_response gives it
  MayCrash,   \* whether the server and the clients may be killed
  MaxValue    \* bound: the numbers that the key can have

None == -1

\* The requests of each program, up to its BYE.
get_value == <<"LOGIN", "GET", "TOP">>

set_value == <<"LOGIN", "PUSH", "SET">>

\* Mutant: the transaction is never committed.
incr_value_NoCommit(transaction) ==
  IF transaction
    THEN <<"LOGIN", "BEGIN", "GET", "PUSH", "ADD", "SET">>
    ELSE <<"LOGIN", "GET", "PUSH", "ADD", "SET">>

incr_value(transaction) ==
  IF transaction
    THEN <<"LOGIN", "BEGIN", "GET", "PUSH", "ADD", "SET", "COMMIT">>
    ELSE <<"LOGIN", "GET", "PUSH", "ADD", "SET">>

Dialogue ==
  [get |-> get_value, set |-> set_value,
   incr |-> incr_value(FALSE), incr_t |-> incr_value(TRUE)]

Programs == DOMAIN Dialogue

VARIABLES
  prog,      \* the program each client runs
  pc,        \* "connect", "send", "serve", "read", "bye", or "over"
  step,      \* the request of the dialogue it is at
  heard,     \* what read_response last left on the stack
  exit,      \* exit status: None while it runs, 3 if a signal ended it
  printed,   \* get_value: the value it has printed; set_value: its success
  answer,    \* the server's reply on its way
  up,        \* the server runs
  store,     \* the committed value of the key; None if there is none
  staged,    \* the value that the transaction of the holder has set
  holder,    \* the client, if any, whose transaction has the table locked
  txn,       \* the sessions in a transaction
  stack,     \* the operand stack of each session
  applied,   \* history: the clients whose SET has become part of the store
  refused    \* history: the clients that were sent FAILED or ERROR

clientVars == <<prog, pc, step, heard, exit, printed>>
serverVars == <<up, store, staged, holder, txn, stack>>
vars == <<clientVars, serverVars, answer, applied, refused>>

Init ==
  /\ prog \in [Client -> Programs]
  /\ pc = [c \in Client |-> "connect"]
  /\ step = [c \in Client |-> 1]
  /\ heard = [c \in Client |-> <<>>]
  /\ exit = [c \in Client |-> None]
  /\ printed = [c \in Client |-> <<>>]
  /\ answer = [c \in Client |-> <<>>]
  /\ up = TRUE
  /\ store \in {None, 0} /\ staged = None
  /\ holder = {} /\ txn = {}
  /\ stack = [c \in Client |-> <<>>]
  /\ applied = {} /\ refused = {}

Request(c) == Dialogue[prog[c]][step[c]]
-----------------------------------------------------------------------------
(* The clients. *)

Goto(c, label) == pc' = [pc EXCEPT ![c] = label]

Exit(c, status) ==
  /\ Goto(c, "over")
  /\ exit' = [exit EXCEPT ![c] = status]

\* open_clientfd: getaddrinfo and each of its addresses may fail.
Connect(c) ==
  /\ pc[c] = "connect"
  /\ \/ up /\ Goto(c, "send") /\ UNCHANGED exit
     \/ ~up /\ Exit(c, 2)
  /\ UNCHANGED <<prog, step, heard, printed, serverVars, answer, applied, refused>>

\* send_message.  To a server that has ended the first write may succeed.
SendMessage(c) ==
  /\ pc[c] = "send"
  /\ Goto(c, IF up THEN "serve" ELSE "read")
  /\ UNCHANGED <<prog, step, heard, exit, printed, serverVars, answer, applied,
                 refused>>

\* Nobody has ignored SIGPIPE; what send_message throws in a catch nobody
\* catches.
SendKilled(c) ==
  /\ pc[c] \in {"send", "bye", "bye after error"} /\ ~up
  /\ Exit(c, 3)
  /\ UNCHANGED <<prog, step, heard, printed, serverVars, answer, applied, refused>>

\* get_value and set_value say BYE from their catch too.
Fails(c) ==
  IF prog[c] \in {"get", "set"}
    THEN Goto(c, "bye after error") /\ UNCHANGED exit
    ELSE Exit(c, 2)

\* The connection has been reset: send_message throws.
SendFails(c) ==
  /\ pc[c] \in {"send", "bye"} /\ ~up
  /\ Fails(c)
  /\ UNCHANGED <<prog, step, heard, printed, serverVars, answer, applied, refused>>

\* Mutant: the answer to TOP must be DATA and nothing else.
Accepts_Bare(request, line) ==
  line # <<>> /\ Front(line) = IF request = "TOP" THEN <<"DATA">> ELSE <<"OK">>

\* What each program takes for success: "OK" and nothing else, but any text
\* that starts with DATA.
Accepts(request, line) ==
  line # <<>> /\ IF request = "TOP" THEN line[1] = "DATA" ELSE Front(line) = <<"OK">>

Prints == {<<"get", "TOP">>, <<"set", "SET">>}

Proceeds(c, line) ==
  /\ step' = [step EXCEPT ![c] = @ + 1]
  /\ Goto(c, IF step[c] = Len(Dialogue[prog[c]]) THEN "bye" ELSE "send")
  /\ printed' = IF <<prog[c], Request(c)>> \in Prints
                  THEN [printed EXCEPT ![c] = line] ELSE printed
  /\ UNCHANGED exit

\* The reply is in line: go on, or throw.
Hears(c, line) ==
  /\ heard' = [heard EXCEPT ![c] = line]
  /\ \/ Accepts(Request(c), line) /\ Proceeds(c, line)
     \/ /\ ~Accepts(Request(c), line)
        /\ Fails(c)
        /\ UNCHANGED <<step, printed>>

ReadResponse(c) ==
  /\ pc[c] = "read" /\ answer[c] # <<>>
  /\ Hears(c, answer[c])
  /\ answer' = [answer EXCEPT ![c] = <<>>]
  /\ UNCHANGED <<prog, serverVars, applied, refused>>

\* Mutant: a client that reads nothing reads again.
ReadEof_Again(c) ==
  /\ pc[c] = "read" /\ ~up
  /\ UNCHANGED vars

\* At end of file (an answer may be lost with the server) rio_readlineb
\* returns 0 and does not write to the array, which holds what the call before
\* left on the stack, or anything that does not end in a newline.  An error
\* gives a CommException.
ReadEof(c) ==
  /\ pc[c] = "read" /\ ~up
  /\ \E line \in {heard[c], <<>>} : Hears(c, line)
  /\ answer' = [answer EXCEPT ![c] = <<>>]
  /\ UNCHANGED <<prog, serverVars, applied, refused>>

\* The user ends the client.  While a request is served this is as before the
\* request or after its answer.
Killed(c) ==
  /\ MayCrash /\ pc[c] \in {"send", "read", "bye"}
  /\ Exit(c, 3)
  /\ UNCHANGED <<prog, step, heard, printed, serverVars, answer, applied, refused>>

\* BYE, close and the exit status; nobody waits for the reply.
SayBye(c) ==
  /\ pc[c] \in {"bye", "bye after error"}
  /\ Exit(c, IF pc[c] = "bye" THEN 0 ELSE 2)
  /\ UNCHANGED <<prog, step, heard, printed, serverVars, answer, applied, refused>>
-----------------------------------------------------------------------------
(* The server. *)

\* send_response gives an OK an empty argument.
Ok == encode(Message("OK", IF OkArgument THEN <<"">> ELSE <<>>))

Failed == encode(Message("FAILED", <<Quote("why")>>))

\* The texts that the handlers send on their own fit into a line.
ASSUME RepliesFit == Ok # <<>> /\ Failed # <<>>

Answers(c, line) ==
  /\ answer' = [answer EXCEPT ![c] = line]
  /\ refused' = IF line[1] \in {"FAILED", "ERROR"} THEN refused \cup {c} ELSE refused
  /\ Goto(c, "read")
  /\ UNCHANGED <<prog, step, heard, exit, printed, up>>

Serving(c, requests) == up /\ pc[c] = "serve" /\ Request(c) \in requests

ServeLogin(c) ==
  /\ Serving(c, {"LOGIN"})
  /\ Answers(c, Ok)
  /\ UNCHANGED <<store, staged, holder, txn, stack, applied>>

ServeBegin(c) ==
  /\ Serving(c, {"BEGIN"})
  /\ txn' = txn \cup {c}
  /\ Answers(c, Ok)
  /\ UNCHANGED <<store, staged, holder, stack, applied>>

\* set_value pushes its argument, here MaxValue, and incr_value 1.
ServePush(c) ==
  /\ Serving(c, {"PUSH"})
  /\ stack' = [stack EXCEPT ![c] =
                 <<IF prog[c] = "set" THEN MaxValue ELSE 1>> \o @]
  /\ Answers(c, Ok)
  /\ UNCHANGED <<store, staged, holder, txn, applied>>

\* A value that does not fit into a line makes encode throw: FAILED.
ServeTop(c) ==
  LET line == encode(Message("DATA", <<ToString(Head(stack[c]))>>))
  IN /\ Serving(c, {"TOP"})
     /\ Answers(c, IF line = <<>> THEN Failed ELSE line)
     /\ UNCHANGED <<store, staged, holder, txn, stack, applied>>

ServeAdd(c) ==
  /\ Serving(c, {"ADD"})
  /\ stack' = [stack EXCEPT ![c] = <<(@[1] + @[2]) % (MaxValue + 1)>>]
  /\ Answers(c, Ok)
  /\ UNCHANGED <<store, staged, holder, txn, applied>>

\* lock, get, push and unlock, in a transaction too.  A transaction whose GET
\* finds no value goes on.
ServeGet(c) ==
  LET value == IF c \in txn /\ staged # None THEN staged ELSE store
  IN /\ Serving(c, {"GET"}) /\ holder = {}
     /\ \/ value = None /\ Answers(c, Failed) /\ UNCHANGED stack
        \/ /\ value # None /\ Answers(c, Ok)
           /\ stack' = [stack EXCEPT ![c] = <<value>> \o @]
     /\ UNCHANGED <<store, staged, holder, txn, applied>>

\* The line that the thread of a client that has gone executes last.
LastLine(c) ==
  Dialogue[prog[c]][IF exit[c] = 3 /\ answer[c] = <<>> THEN step[c] - 1 ELSE step[c]]

\* c has gone without a BYE, and its thread has executed some line.
Left(c) ==
  \/ exit[c] = 2 /\ prog[c] \in {"incr", "incr_t"}
  \/ exit[c] = 3 /\ (step[c] > 1 \/ answer[c] # <<>>)

\* The thread of c may have the table for a moment.
Passes(c) ==
  \/ pc[c] = "serve" /\ Request(c) = "GET"
  \/ pc[c] = "serve" /\ Request(c) = "SET" /\ c \notin txn
  \/ Left(c) /\ LastLine(c) = "GET"

\* Mutant: a transaction writes at once.
ServeSet_Unstaged(c) ==
  /\ Serving(c, {"SET"})
  /\ stack' = [stack EXCEPT ![c] = Tail(@)]
  /\ holder \subseteq {c} /\ Answers(c, Ok)
  /\ store' = Head(stack[c]) /\ UNCHANGED staged
  /\ holder' = holder \cup ({c} \cap txn)
  /\ applied' = applied \cup ({c} \ txn)
  /\ UNCHANGED txn

\* Outside a transaction SET waits for the table; inside it fails without the
\* table, and the transaction goes on, its value popped.
ServeSet(c) ==
  /\ Serving(c, {"SET"})
  /\ stack' = [stack EXCEPT ![c] = Tail(@)]
  /\ \/ /\ c \notin txn /\ holder = {} /\ Answers(c, Ok)
        /\ store' = Head(stack[c]) /\ applied' = applied \cup {c}
        /\ UNCHANGED <<holder, staged>>
     \/ /\ c \in txn /\ holder \subseteq {c} /\ Answers(c, Ok)
        /\ holder' = {c} /\ staged' = Head(stack[c])
        /\ UNCHANGED <<store, applied>>
     \/ /\ c \in txn /\ c \notin holder
        /\ holder # {} \/ \E d \in Client \ {c} : Passes(d)
        /\ Answers(c, Failed)
        /\ UNCHANGED <<store, staged, holder, applied>>
  /\ UNCHANGED txn

\* What was staged is stored if the transaction has the table.
ServeCommit(c) ==
  /\ Serving(c, {"COMMIT"})
  /\ \/ /\ c \in holder
        /\ store' = staged /\ staged' = None
        /\ applied' = applied \cup {c}
     \/ c \notin holder /\ UNCHANGED <<store, staged, applied>>
  /\ holder' = holder \ {c} /\ txn' = txn \ {c}
  /\ Answers(c, Ok)
  /\ UNCHANGED stack

\* The server's process ends; requests on their way are lost.
Ends ==
  /\ up /\ up' = FALSE
  /\ pc' = [c \in Client |-> IF pc[c] = "serve" THEN "read" ELSE pc[c]]
  /\ UNCHANGED <<prog, step, heard, exit, printed, store, staged, holder, txn,
                 stack, answer, applied, refused>>

Crash == MayCrash /\ Ends

(***************************************************************************)
(* At the end of the file of a client that has gone its thread executes    *)
(* the last line again and again (see Session).  None of these lines       *)
(* changes what others see: a SET finds the stack empty, a COMMIT no       *)
(* transaction.  Each is answered, until SIGPIPE ends the server.  If the  *)
(* client has not read a reply its thread meets an error instead: in a     *)
(* read, which ends the server too, or in a write, which ends the thread;  *)
(* the table stays locked if it was.                                       *)
(***************************************************************************)
Hangup(c) == Left(c) /\ Ends
-----------------------------------------------------------------------------
ClientStep(c) ==
  Connect(c) \/ SendMessage(c) \/ SendKilled(c) \/ SendFails(c) \/ ReadResponse(c)
    \/ ReadEof(c) \/ SayBye(c)

ServerStep(c) ==
  ServeLogin(c) \/ ServeBegin(c) \/ ServePush(c) \/ ServeTop(c) \/ ServeAdd(c)
    \/ ServeGet(c) \/ ServeSet(c) \/ ServeCommit(c)

Next ==
  Crash \/ \E c \in Client : Killed(c) \/ ClientStep(c) \/ ServerStep(c) \/ Hangup(c)

\* Clients and threads run as long as they can.
Spec ==
  /\ Init /\ [][Next]_vars
  /\ \A c \in Client :
       /\ WF_vars(ClientStep(c)) /\ WF_vars(ServerStep(c))
       /\ WF_vars(Hangup(c) /\ answer[c] = <<>>)
-----------------------------------------------------------------------------
\* A client that reports success (exit status 0, or set_value's "Value set
\* successfully.", set_value.cpp:93) has written what it was asked to, unless
\* the server has ended: at the end of the file the OK heard before counts
\* again (ReadEof), and the success may be false.
SuccessIsReal ==
  up => \A c \in Client :
    (exit[c] = 0 \/ printed[c] # <<>>) /\ prog[c] # "get" => c \in applied

\* Nobody but increments at work: a counter is one more than it was.
Incrementing ==
  (\A c \in Client : prog[c] \in {"incr", "incr_t", "get"}) /\ store # None

\* "effectively preventing race conditions" (README:12), "all or nothing"
\* (README:17): increments in transactions are not lost, whatever their
\* interleaving.  (They are: a GET keeps no lock.)
NoLostIncrement ==
  Incrementing /\ (\A c \in Client : prog[c] # "incr") => store = Cardinality(applied)

\* The counter is never ahead of the increments that were applied, whatever
\* their interleaving and whoever is killed in between, and none that was
\* applied leaves it where it began.
NoExtraIncrement ==
  Incrementing =>
    store \in IF applied = {} THEN {0} ELSE 1..Cardinality(applied)

\* Every client ends, also when others fail, are killed or wait for the table;
\* unless one was killed whose transaction has the table and whose thread met
\* an error instead of the end of the file: nobody unlocks the table then.
ClientsEnd ==
  <>(\/ \A c \in Client : exit[c] # None
     \/ \E c \in holder : exit[c] = 3 /\ answer[c] # <<>>)

\* A client gives up only if it was refused: "Exception to indicate that a
\* message was invalid" (exceptions.h:6) is what "Failed to login" is.
GivesUpIfRefused ==
  up => \A c \in Client : exit[c] = 2 => c \in refused
=============================================================================
