---------------------------- MODULE ClientsProofs ----------------------------
(***************************************************************************)
(* Proofs about the command line clients, for any number of them: what a   *)
(* client that ends tells its user is true, as long as the server runs.    *)
(***************************************************************************)
EXTENDS Clients, FiniteSetTheorems, SequenceTheorems, TLAPS

Labels ==
  {"connect", "send", "serve", "read", "bye", "bye after error", "over"}

TypeOK ==
  /\ prog \in [Client -> Programs] /\ pc \in [Client -> Labels]
  /\ step \in [Client -> Nat] /\ exit \in [Client -> {None, 0, 2, 3}]
  /\ DOMAIN heard = Client /\ DOMAIN printed = Client
  /\ DOMAIN answer = Client /\ DOMAIN stack = Client
  /\ up \in BOOLEAN
  /\ holder \subseteq Client /\ txn \subseteq Client /\ applied \subseteq Client

\* c still has a request to send, or to hear the reply of.
Asking(c) == pc[c] \in {"connect", "send", "serve", "read"}

\* The request is one of the dialogue, and only incr_value -t says BEGIN.
StepInv ==
  /\ TypeOK
  /\ \A c \in Client : Asking(c) => step[c] \in 1..Len(Dialogue[prog[c]])
  /\ \A c \in txn : prog[c] = "incr_t"

LEMMA Dialogues ==
  /\ Programs = {"get", "set", "incr", "incr_t"}
  /\ Dialogue["get"] = <<"LOGIN", "GET", "TOP">>
  /\ Dialogue["set"] = <<"LOGIN", "PUSH", "SET">>
  /\ Dialogue["incr"] = <<"LOGIN", "GET", "PUSH", "ADD", "SET">>
  /\ Dialogue["incr_t"] = <<"LOGIN", "BEGIN", "GET", "PUSH", "ADD", "SET", "COMMIT">>
BY DEF Programs, Dialogue, get_value, set_value, incr_value

Datum(value) == encode(Message("DATA", <<value>>))

LEMMA Pair ==
  ASSUME NEW S, NEW a \in S, NEW b \in S
  PROVE  <<a>> \o <<b>> = <<a, b>>
<1>1. <<a>> \in Seq(S) /\ <<b>> \in Seq(S) /\ <<a, b>> \in Seq(S)
  OBVIOUS
<1>2. <<a>> \o <<b>> \in Seq(S) /\ Len(<<a>> \o <<b>>) = 2
  BY <1>1, ConcatProperties
<1>3. \A i \in 1..2 : (<<a>> \o <<b>>)[i] = <<a, b>>[i]
  BY <1>1, ConcatProperties
<1> QED
  BY <1>1, <1>2, <1>3, SeqEqual

\* A line is its units one after the other.
LEMMA Lines ==
  ASSUME NEW S, NEW a \in S, NEW b \in S, NEW c \in S
  PROVE  /\ <<a>> \o <<>> \o <<>> \o <<c>> = <<a, c>>
         /\ <<a>> \o <<b>> \o <<>> \o <<c>> = <<a, b, c>>
<1>1. /\ <<>> \in Seq(S) /\ <<a>> \in Seq(S) /\ <<b>> \in Seq(S) /\ <<c>> \in Seq(S)
      /\ <<a, b>> \in Seq(S) /\ <<a, c>> \in Seq(S) /\ <<a, b, c>> \in Seq(S)
  OBVIOUS
<1>2. <<a>> \o <<>> = <<a>> /\ <<a, b>> \o <<>> = <<a, b>>
  BY <1>1, ConcatEmptySeq
<1>3. <<a>> \o <<b>> = <<a, b>> /\ <<a>> \o <<c>> = <<a, c>>
  BY Pair
<1>4. <<a, b>> \o <<c>> = <<a, b, c>>
  <2>1. <<a, b>> \o <<c>> \in Seq(S) /\ Len(<<a, b>> \o <<c>>) = 3
    BY <1>1, ConcatProperties
  <2>2. \A i \in 1..3 : (<<a, b>> \o <<c>>)[i] = <<a, b, c>>[i]
    BY <1>1, ConcatProperties
  <2> QED
    BY <1>1, <2>1, <2>2, SeqEqual
<1> QED
  BY <1>2, <1>3, <1>4

LEMMA Fronts ==
  ASSUME NEW S, NEW a \in S, NEW b \in S, NEW c \in S
  PROVE  Front(<<a, c>>) = <<a>> /\ Front(<<a, b, c>>) = <<a, b>>
<1>1. /\ <<a, c>> \in Seq(S) /\ <<a, b, c>> \in Seq(S)
      /\ <<a>> \in Seq(S) /\ <<a, b>> \in Seq(S)
  OBVIOUS
<1>2. SubSeq(<<a, c>>, 1, 1) = <<a>>
  <2>1. SubSeq(<<a, c>>, 1, 1) \in Seq(S) /\ Len(SubSeq(<<a, c>>, 1, 1)) = 1
    BY <1>1, SubSeqProperties
  <2>2. \A i \in 1..1 : (SubSeq(<<a, c>>, 1, 1))[i] = <<a>>[i]
    BY <1>1, SubSeqProperties
  <2> QED
    BY <1>1, <2>1, <2>2, SeqEqual
<1>3. SubSeq(<<a, b, c>>, 1, 2) = <<a, b>>
  <2>1. SubSeq(<<a, b, c>>, 1, 2) \in Seq(S) /\ Len(SubSeq(<<a, b, c>>, 1, 2)) = 2
    BY <1>1, SubSeqProperties
  <2>2. \A i \in 1..2 : (SubSeq(<<a, b, c>>, 1, 2))[i] = <<a, b>>[i]
    BY <1>1, SubSeqProperties
  <2> QED
    BY <1>1, <2>1, <2>2, SeqEqual
<1> QED
  BY <1>2, <1>3 DEF Front

LEMMA EncodeJoins ==
  ASSUME NEW m, encode(m) # <<>>
  PROVE  encode(m) = Joined(m)
BY DEF encode

LEMMA PlainJoined ==
  ASSUME NEW type \in {"OK", "FAILED", "DATA"}, NEW text
  PROVE  /\ Joined(Message(type, <<>>)) = <<type>> \o <<>> \o <<>> \o <<NL>>
         /\ Joined(Message(type, <<text>>)) = <<type>> \o <<text>> \o <<>> \o <<NL>>
<1>1. type \notin {"SET", "GET"}
  OBVIOUS
<1>2. <<text>> # <<>> /\ <<text>>[1] = text
  OBVIOUS
<1> QED
  BY <1>1, <1>2 DEF Joined, Message

\* Which replies a client takes for success.
LEMMA Replies ==
  ASSUME NEW value
  PROVE  /\ Ok # <<>> /\ Ok[1] = "OK"
         /\ Front(Ok) = <<"OK">> <=> ~OkArgument
         /\ Failed # <<>> /\ Failed[1] = "FAILED" /\ Front(Failed) # <<"OK">>
         /\ Datum(value) # <<>> => Datum(value)[1] = "DATA"
<1> DEFINE why == Quote("why")
           S == {"OK", "FAILED", "DATA", "", why, NL, value}
<1> HIDE DEF why
<1>0. /\ ~OkArgument => Ok = encode(Message("OK", <<>>))
      /\ OkArgument => Ok = encode(Message("OK", <<"">>))
      /\ Failed = encode(Message("FAILED", <<why>>))
      /\ Ok # <<>> /\ Failed # <<>>
  BY RepliesFit DEF Ok, Failed, why
<1>1. ~OkArgument => Ok = <<"OK">> \o <<>> \o <<>> \o <<NL>>
  BY <1>0, EncodeJoins, PlainJoined
<1>2. OkArgument => Ok = <<"OK">> \o <<"">> \o <<>> \o <<NL>>
  BY <1>0, EncodeJoins, PlainJoined
<1>3. Failed = <<"FAILED">> \o <<why>> \o <<>> \o <<NL>>
  BY <1>0, EncodeJoins, PlainJoined
<1>4. Datum(value) # <<>> => Datum(value) = <<"DATA">> \o <<value>> \o <<>> \o <<NL>>
  BY EncodeJoins, PlainJoined DEF Datum
<1>5. /\ "OK" \in S /\ "FAILED" \in S /\ "DATA" \in S /\ "" \in S /\ why \in S
      /\ NL \in S /\ value \in S
  OBVIOUS
<1> HIDE DEF S
<1>6. Ok = IF OkArgument THEN <<"OK", "", NL>> ELSE <<"OK", NL>>
  BY <1>1, <1>2, <1>5, Lines DEF Ok
<1>7. Failed = <<"FAILED", why, NL>>
  BY <1>3, <1>5, Lines
<1>8. Datum(value) # <<>> => Datum(value) = <<"DATA", value, NL>>
  BY <1>4, <1>5, Lines, ZenonT(30)
<1>9. /\ OkArgument => Front(Ok) = <<"OK", "">>
      /\ ~OkArgument => Front(Ok) = <<"OK">>
  BY <1>5, <1>6, Fronts
<1>10. Front(Failed) = <<"FAILED", why>>
  BY <1>5, <1>7, Fronts
<1>11. \A x, y : <<x, y>> # <<"OK">>
  <2> TAKE x, y
  <2>1. Len(<<x, y>>) = 2 /\ Len(<<"OK">>) = 1
    OBVIOUS
  <2> QED
    BY <2>1
<1>12. Ok # <<>> /\ Ok[1] = "OK"
  BY <1>6
<1>13. Failed # <<>> /\ Failed[1] = "FAILED"
  BY <1>7
<1>14. Datum(value) # <<>> => Datum(value)[1] = "DATA"
  BY <1>8
<1>15. Front(Failed) # <<"OK">>
  BY <1>10, <1>11
<1>16. Front(Ok) = <<"OK">> <=> ~OkArgument
  BY <1>9, <1>11
<1> QED
  BY <1>12, <1>13, <1>14, <1>15, <1>16

LEMMA StepInit == ASSUME Init PROVE StepInv
BY Dialogues, SMTT(30) DEF Init, StepInv, TypeOK, Labels, None, Asking

LEMMA Lengths == ASSUME NEW p \in Programs PROVE Len(Dialogue[p]) \in Nat
<1>1. /\ Len(Dialogue["get"]) = 3 /\ Len(Dialogue["set"]) = 3
      /\ Len(Dialogue["incr"]) = 5 /\ Len(Dialogue["incr_t"]) = 7
  BY Dialogues
<1>2. p = "get" \/ p = "set" \/ p = "incr" \/ p = "incr_t"
  BY Dialogues
<1> QED
  BY <1>1, <1>2

\* Only the dialogue of incr_value -t has BEGIN and COMMIT, and SET comes last
\* in the others.
LEMMA LastRequest ==
  ASSUME NEW p \in Programs, NEW n \in 1..Len(Dialogue[p])
  PROVE  /\ Dialogue[p][n] \in {"BEGIN", "COMMIT"} => p = "incr_t"
         /\ Dialogue[p][n] = "COMMIT" => n = Len(Dialogue[p])
         /\ p \in {"set", "incr"} /\ n = Len(Dialogue[p]) => Dialogue[p][n] = "SET"
         /\ p = "incr_t" /\ n = Len(Dialogue[p]) => Dialogue[p][n] = "COMMIT"
         /\ Dialogue[p][n] = "TOP" => p = "get"
<1>1. CASE p = "get"
  BY <1>1, Dialogues
<1>2. CASE p = "set"
  BY <1>2, Dialogues
<1>3. CASE p = "incr"
  BY <1>3, Dialogues
<1>4. CASE p = "incr_t"
  BY <1>4, Dialogues
<1> QED
  BY <1>1, <1>2, <1>3, <1>4, Dialogues

LEMMA StepKept == ASSUME StepInv, [Next]_vars PROVE StepInv'
<1> USE DEF StepInv, TypeOK, Asking, Labels
<1>1. CASE UNCHANGED vars
  BY <1>1 DEF vars, clientVars, serverVars
<1>2. CASE Ends
  BY <1>2 DEF Ends
<1>3. ASSUME NEW c \in Client, Connect(c) \/ SendMessage(c) \/ SendKilled(c) \/ SayBye(c)
                                 \/ Killed(c) \/ SendFails(c)
      PROVE  StepInv'
  BY <1>3, ZenonT(30)
     DEF Connect, SendMessage, SendKilled, SendFails, Fails, SayBye, Killed, Exit, Goto,
         serverVars
<1>4. ASSUME NEW c \in Client, NEW line, Asking(c), Hears(c, line),
             UNCHANGED <<prog, serverVars, applied>>, DOMAIN answer' = Client
      PROVE  StepInv'
  <2>1. prog[c] \in Programs /\ Len(Dialogue[prog[c]]) \in Nat
    BY Lengths
  <2>2. step[c] \in 1..Len(Dialogue[prog[c]])
    BY <1>4
  <2>3. CASE Proceeds(c, line)
    <3>1. /\ step' = [step EXCEPT ![c] = @ + 1] /\ UNCHANGED exit
          /\ pc' = [pc EXCEPT ![c] = IF step[c] = Len(Dialogue[prog[c]]) THEN "bye" ELSE "send"]
          /\ DOMAIN printed' = Client /\ DOMAIN heard' = Client
      BY <1>4, <2>3 DEF Hears, Proceeds, Goto
    <3> HIDE DEF Labels
    <3>2. "bye" \in Labels /\ "send" \in Labels
      BY DEF Labels
    <3>3. step' \in [Client -> Nat] /\ pc' \in [Client -> Labels]
      BY <2>2, <3>1, <3>2
    <3>4. \A d \in Client : d # c => step'[d] = step[d] /\ pc'[d] = pc[d]
      BY <3>1
    <3>5. /\ step'[c] = step[c] + 1
          /\ pc'[c] = IF step[c] = Len(Dialogue[prog[c]]) THEN "bye" ELSE "send"
      BY <3>1
    <3>6. pc'[c] # "bye" => step'[c] \in 1..Len(Dialogue[prog[c]])
      <4> HIDE DEF StepInv, TypeOK, Asking
      <4> QED
        BY <2>1, <2>2, <3>5
    <3>7. (\A d \in Client : Asking(d) => step[d] \in 1..Len(Dialogue[prog[d]]))'
      BY <1>4, <3>4, <3>5, <3>6
    <3>8. TypeOK'
      BY <1>4, <3>1, <3>3 DEF serverVars
    <3> QED
      BY <1>4, <3>7, <3>8 DEF serverVars
  <2>4. CASE Fails(c) /\ UNCHANGED <<step, printed>>
    <3>1. /\ pc' = [pc EXCEPT ![c] = pc'[c]] /\ pc'[c] \in {"over", "bye after error"}
          /\ exit' \in [Client -> {None, 0, 2, 3}]
          /\ DOMAIN heard' = Client
      BY <1>4, <2>4 DEF Hears, Fails, Exit, Goto
    <3> QED
      BY <1>4, <2>4, <3>1, ZenonT(30) DEF serverVars
  <2> QED
    BY <1>4, <2>3, <2>4 DEF Hears
<1>5. ASSUME NEW c \in Client, ReadResponse(c) \/ ReadEof(c)
      PROVE  StepInv'
  <2>1. Asking(c) /\ UNCHANGED <<prog, serverVars, applied>> /\ DOMAIN answer' = Client
    BY <1>5 DEF ReadResponse, ReadEof
  <2>2. \E line : Hears(c, line)
    BY <1>5 DEF ReadResponse, ReadEof
  <2> HIDE DEF StepInv, TypeOK, Asking, Labels
  <2> QED
    BY <1>4, <2>1, <2>2
<1>6. ASSUME NEW c \in Client, NEW line, NEW requests, Serving(c, requests),
             Answers(c, line), DOMAIN stack' = Client,
             holder' \subseteq Client, txn' \subseteq Client, applied' \subseteq Client,
             \A d \in txn' : d \in txn \/ prog[d] = "incr_t"
      PROVE  StepInv'
  BY <1>6 DEF Serving, Answers, Goto
<1>7. ASSUME NEW c \in Client, ServeLogin(c) \/ ServePush(c) \/ ServeTop(c) \/ ServeAdd(c)
      PROVE  StepInv'
  <2>1. /\ \E requests : Serving(c, requests)
        /\ \E line : Answers(c, line)
        /\ DOMAIN stack' = Client /\ UNCHANGED <<holder, txn, applied>>
    BY <1>7 DEF ServeLogin, ServePush, ServeTop, ServeAdd
  <2> QED
    BY <1>6, <2>1
<1>8. ASSUME NEW c \in Client, ServeBegin(c)
      PROVE  StepInv'
  <2>1. Serving(c, {"BEGIN"}) /\ Answers(c, Ok) /\ txn' = txn \cup {c}
        /\ UNCHANGED <<holder, stack, applied>>
    BY <1>8 DEF ServeBegin
  <2>2. prog[c] = "incr_t"
    BY <2>1, LastRequest DEF Serving, Request
  <2> QED
    BY <1>6, <2>1, <2>2
<1>9. ASSUME NEW c \in Client, ServeGet(c) \/ ServeSet(c) \/ ServeCommit(c)
      PROVE  StepInv'
  <2>1. (\E requests : Serving(c, requests)) /\ \E line : Answers(c, line)
    BY <1>9 DEF ServeGet, ServeSet, ServeCommit
  <2>2. DOMAIN stack' = Client
    BY <1>9 DEF ServeGet, ServeSet, ServeCommit
  <2>3. holder' \subseteq Client /\ txn' \subseteq txn /\ applied' \subseteq Client
    BY <1>9 DEF ServeGet, ServeSet, ServeCommit
  <2> QED
    BY <1>6, <2>1, <2>2, <2>3
<1> QED
  BY <1>1, <1>2, <1>3, <1>5, <1>7, <1>8, <1>9 DEF Next, ClientStep, ServerStep, Crash, Hangup

Pleased(c) == Accepts(Request(c), answer[c])

\* A reply that is not the one its client waits for is FAILED or ERROR, if
\* the server's OK is bare; the last OK comes once the change is made.
LEMMA ReplySent ==
  ASSUME StepInv, NEW c \in Client, ServerStep(c)
  PROVE  /\ pc[c] = "serve" /\ pc' = [pc EXCEPT ![c] = "read"]
         /\ UNCHANGED <<prog, step, heard, exit, printed, up>>
         /\ \A d \in Client : d # c => answer'[d] = answer[d]
         /\ applied \subseteq applied' /\ refused \subseteq refused'
         /\ answer'[c] # <<>>
         /\ c \in refused' \/ OkArgument \/ Pleased(c)'
         /\ prog[c] # "get" /\ step[c] = Len(Dialogue[prog[c]]) /\ Pleased(c)'
              => c \in applied' \/ (prog[c] = "incr_t" /\ c \notin holder)
<1>1. PICK line : Answers(c, line)
  BY DEF ServerStep, ServeLogin, ServeBegin, ServePush, ServeTop, ServeAdd, ServeGet,
         ServeSet, ServeCommit
<1>2. /\ answer' = [answer EXCEPT ![c] = line]
      /\ refused' = IF line[1] \in {"FAILED", "ERROR"} THEN refused \cup {c} ELSE refused
      /\ pc' = [pc EXCEPT ![c] = "read"]
      /\ UNCHANGED <<prog, step, heard, exit, printed, up>>
  BY <1>1 DEF Answers, Goto
<1>3. answer'[c] = line /\ Request(c)' = Request(c)
  BY <1>2 DEF StepInv, TypeOK, Request
<1> DEFINE Sent(reply) == Answers(c, reply)
<1>4. ASSUME NEW reply, Sent(reply)
      PROVE  line = reply
  BY <1>3, <1>4 DEF Answers, StepInv, TypeOK
<1>5. pc[c] = "serve"
  BY DEF ServerStep, ServeLogin, ServeBegin, ServePush, ServeTop, ServeAdd, ServeGet,
         ServeSet, ServeCommit, Serving
<1>6. applied \subseteq applied'
  BY DEF ServerStep, ServeLogin, ServeBegin, ServePush, ServeTop, ServeAdd, ServeGet,
         ServeSet, ServeCommit
<1>7. \/ /\ Request(c) \in {"LOGIN", "BEGIN", "PUSH", "ADD", "GET", "SET", "COMMIT"}
         /\ line = Ok \/ line = Failed
      \/ /\ Request(c) = "TOP"
         /\ line = Failed \/ \E value : line = Datum(value) /\ line # <<>>
  <2>1. CASE ServeTop(c)
    <3> DEFINE value == ToString(Head(stack[c]))
    <3> HIDE DEF value
    <3>1. Request(c) = "TOP"
      BY <2>1 DEF ServeTop, Serving
    <3>2. Sent(IF Datum(value) = <<>> THEN Failed ELSE Datum(value))
      BY <2>1 DEF ServeTop, Datum, value
    <3> HIDE DEF Sent
    <3> QED
      BY <1>4, <3>1, <3>2
  <2>2. CASE ~ServeTop(c)
    <3>1. /\ Sent(Ok) \/ Sent(Failed)
          /\ Request(c) \in {"LOGIN", "BEGIN", "PUSH", "ADD", "GET", "SET", "COMMIT"}
      BY <2>2 DEF ServerStep, ServeLogin, ServeBegin, ServePush, ServeAdd, ServeGet,
                  ServeSet, ServeCommit, Serving
    <3> HIDE DEF Sent
    <3> QED
      BY <1>4, <3>1
  <2> QED
    BY <2>1, <2>2
<1>8. answer'[c] # <<>> /\ (c \in refused' \/ OkArgument \/ Pleased(c)')
  <2>1. CASE line = Ok
    BY <1>2, <1>3, <1>7, <2>1, Replies DEF Pleased, Accepts
  <2>2. CASE line = Failed
    BY <1>2, <1>3, <2>2, Replies DEF Pleased
  <2>3. CASE Request(c) = "TOP" /\ \E value : line = Datum(value) /\ line # <<>>
    BY <1>2, <1>3, <2>3, Replies DEF Pleased, Accepts
  <2> QED
    BY <1>7, <2>1, <2>2, <2>3
<1>9. ASSUME prog[c] # "get", step[c] = Len(Dialogue[prog[c]]), Pleased(c)'
      PROVE  c \in applied' \/ (prog[c] = "incr_t" /\ c \notin holder)
  <2>1. step[c] \in 1..Len(Dialogue[prog[c]]) /\ prog[c] \in Programs
    BY <1>5 DEF StepInv, TypeOK, Asking
  <2>2. Request(c) = IF prog[c] = "incr_t" THEN "COMMIT" ELSE "SET"
    BY <1>9, <2>1, LastRequest, Dialogues DEF Request
  <2>3. line # Failed
    BY <1>3, <1>9, <2>2, Replies DEF Pleased, Accepts
  <2>4. ServeSet(c) \/ ServeCommit(c)
    <3> QED
      BY <2>2 DEF ServerStep, ServeLogin, ServeBegin, ServePush, ServeTop, ServeAdd,
         ServeGet, Serving
  <2>5. c \in txn => prog[c] = "incr_t"
    BY DEF StepInv
  <2>6. ServeSet(c) => c \in applied'
    <3>1. ~Sent(Failed)
      BY <1>4, <2>3
    <3> QED
      BY <2>2, <2>5, <3>1 DEF ServeSet, Serving
  <2> QED
    BY <2>2, <2>4, <2>6 DEF ServeSet, ServeCommit, Serving
<1> QED
  BY <1>2, <1>5, <1>6, <1>8, <1>9

\* While the server runs, a client that reads is sent something, and the first
\* reply that does not please it is a refusal.
RefusedInv ==
  up => \A c \in Client :
    /\ exit[c] = 2 \/ pc[c] = "bye after error" => c \in refused
    /\ pc[c] = "read" => answer[c] # <<>> /\ (Pleased(c) \/ c \in refused)

\* While the server runs, a client whose last reply is or was an OK has
\* written; set_value prints nothing before.
SuccessInv ==
  up => \A c \in Client : prog[c] # "get" =>
    /\ exit[c] = 0 \/ pc[c] = "bye" \/ printed[c] # <<>> => c \in applied
    /\ pc[c] = "read" /\ step[c] = Len(Dialogue[prog[c]]) /\ Pleased(c)
         => c \in applied

\* What the other clients see of a step of c.
Apart(c) ==
  \A d \in Client : d # c =>
    UNCHANGED <<prog[d], pc[d], step[d], exit[d], printed[d], answer[d], stack[d]>>

Advances(c) ==
  /\ step'[c] = step[c]
  /\ \/ pc[c] = "connect" /\ pc'[c] = "send"
     \/ pc[c] = "send" /\ pc'[c] = "serve"

Hearkens(c) ==
  /\ step'[c] = step[c] + 1
  /\ pc'[c] = IF step[c] = Len(Dialogue[prog[c]]) THEN "bye" ELSE "send"
  /\ exit'[c] = exit[c]
  /\ printed'[c] = printed[c] \/ <<prog[c], Request(c)>> \in Prints

Stops(c, status) == pc'[c] = "over" /\ exit'[c] = status

Silent(c) == printed'[c] = printed[c]

\* The steps of a client while the server runs.
Moves(c) ==
  \/ Advances(c) /\ exit'[c] = exit[c] /\ Silent(c)
  \/ Stops(c, 3) /\ Silent(c)
  \/ pc[c] = "bye" /\ Stops(c, 0) /\ Silent(c)
  \/ pc[c] = "bye after error" /\ Stops(c, 2) /\ Silent(c)
  \/ /\ pc[c] = "read" /\ ~Pleased(c) /\ Silent(c)
     /\ \/ pc'[c] = "bye after error" /\ exit'[c] = exit[c]
        \/ Stops(c, 2)
  \/ pc[c] = "read" /\ Pleased(c) /\ Hearkens(c)

LEMMA ClientSteps ==
  ASSUME StepInv, up, NEW c \in Client, Killed(c) \/ ClientStep(c)
  PROVE  Apart(c) /\ Moves(c) /\ UNCHANGED <<prog, serverVars, applied, refused>>
<1> USE DEF StepInv, TypeOK, Apart, Moves, Advances, Hearkens, Stops, Silent, serverVars
<1>1. CASE Connect(c) \/ SendMessage(c)
  BY <1>1 DEF Connect, SendMessage, Goto, Exit
<1>2. CASE Killed(c) \/ SendKilled(c) \/ SendFails(c) \/ SayBye(c)
  BY <1>2 DEF Killed, SendKilled, SendFails, SayBye, Goto, Exit
<1>3. CASE ReadResponse(c)
  BY <1>3 DEF ReadResponse, Hears, Pleased, Proceeds, Fails, Goto, Exit
<1> QED
  BY <1>1, <1>2, <1>3 DEF ClientStep, ReadEof

\* The server does not start again.
LEMMA Steps ==
  ASSUME Next, up'
  PROVE  up /\ \E c \in Client : Killed(c) \/ ClientStep(c) \/ ServerStep(c)
<1>1. ~Ends
  BY DEF Ends
<1>2. PICK c \in Client : Killed(c) \/ ClientStep(c) \/ ServerStep(c)
  BY <1>1 DEF Next, Crash, Hangup
<1>3. up' = up
  BY <1>2 DEF ClientStep, Killed, Connect, SendMessage, SendKilled, SendFails, ReadResponse,
     ReadEof, SayBye, ServerStep, ServeLogin, ServeBegin, ServePush, ServeTop, ServeAdd,
     ServeGet, ServeSet, ServeCommit, Answers, serverVars
<1> QED
  BY <1>2, <1>3

LEMMA RefusedStep ==
  ASSUME StepInv, RefusedInv, [Next]_vars, ~OkArgument
  PROVE  RefusedInv'
<1>1. CASE UNCHANGED vars
  BY <1>1 DEF vars, clientVars, serverVars, RefusedInv, Pleased, Request
<1>2. CASE Next /\ up'
  <2>1. PICK c \in Client : Killed(c) \/ ClientStep(c) \/ ServerStep(c)
    BY <1>2, Steps
  <2>2. up
    BY <1>2, Steps
  <2> DEFINE Good(d) == /\ exit[d] = 2 \/ pc[d] = "bye after error" => d \in refused
                        /\ pc[d] = "read" => answer[d] # <<>> /\ (Pleased(d) \/ d \in refused)
  <2>3. \A d \in Client : Good(d)
    BY <2>2 DEF RefusedInv
  <2>4. ASSUME NEW d \in Client, refused \subseteq refused',
               UNCHANGED <<prog[d], pc[d], step[d], exit[d], answer[d]>>
        PROVE  Good(d)'
    BY <2>3, <2>4 DEF Pleased, Request
  <2>5. CASE Killed(c) \/ ClientStep(c)
    <3>1. \A d \in Client : d # c => Good(d)'
      BY <2>2, <2>4, <2>5, ClientSteps DEF Apart
    <3>2. Good(c)'
      <4>1. Moves(c) /\ UNCHANGED refused
        BY <2>2, <2>5, ClientSteps
      <4>2. pc'[c] # "read"
        BY <4>1 DEF Moves, Advances, Hearkens, Stops, Silent
      <4>3. exit'[c] = 2 \/ pc'[c] = "bye after error" => c \in refused
        <5>1. 0 # 2 /\ 3 # 2
          OBVIOUS
        <5> QED
          BY <2>3, <4>1, <5>1, Zenon DEF Moves, Advances, Hearkens, Stops
      <4> QED
        BY <4>1, <4>2, <4>3
    <3> QED
      BY <3>1, <3>2 DEF RefusedInv
  <2>6. CASE ServerStep(c)
    <3>1. \A d \in Client : d # c => Good(d)'
      BY <2>4, <2>6, ReplySent DEF StepInv, TypeOK
    <3>2. Good(c)'
      BY <2>3, <2>6, ReplySent DEF StepInv, TypeOK
    <3> QED
      BY <3>1, <3>2 DEF RefusedInv
  <2> QED
    BY <2>1, <2>5, <2>6
<1> QED
  BY <1>1, <1>2 DEF RefusedInv

\* A client gives up only if the server has refused something.
THEOREM GivesUpOnlyIfRefused ==
  ASSUME ~OkArgument
  PROVE  Spec => []GivesUpIfRefused
<1>1. Init => StepInv
  BY StepInit
<1>2. Init => RefusedInv
  BY DEF Init, RefusedInv, None
<1>3. StepInv /\ [Next]_vars => StepInv'
  BY StepKept
<1>4. StepInv /\ RefusedInv /\ [Next]_vars => RefusedInv'
  BY RefusedStep
<1>5. RefusedInv => GivesUpIfRefused
  BY DEF RefusedInv, GivesUpIfRefused
<1> QED
  BY <1>1, <1>2, <1>3, <1>4, <1>5, PTL DEF Spec

-----------------------------------------------------------------------------
(* The table and the transactions. *)

\* c may still go on with its dialogue.
Going(c) == pc[c] \in {"connect", "send", "serve"} \/ (pc[c] = "read" /\ Pleased(c))

\* How many of its requests have been served.
Past(c) == IF pc[c] = "read" THEN step[c] ELSE step[c] - 1

\* From BEGIN on c is in a transaction, which has the table once its SET was
\* answered with OK.
Progress(c) ==
  prog[c] = "incr_t" /\ Going(c) =>
    /\ Past(c) \in 2..6 => c \in txn
    /\ Past(c) = 6 => c \in holder

TableInv ==
  /\ \A c, d \in holder : c = d
  /\ holder = {} => staged = None
  /\ up => \A c \in Client : Progress(c)

LEMMA TableInit == ASSUME Init PROVE TableInv
<1>1. \A c \in Client : Past(c) = 0
  BY DEF Init, Past
<1> QED
  BY <1>1 DEF Init, TableInv, Progress

\* Where each request is in the dialogue of incr_value -t.
LEMMA Positions ==
  ASSUME NEW c \in Client, StepInv, prog[c] = "incr_t", pc[c] = "serve"
  PROVE  /\ step[c] \in 1..7
         /\ (Request(c) = "LOGIN") <=> (step[c] = 1)
         /\ (Request(c) = "BEGIN") <=> (step[c] = 2)
         /\ (Request(c) = "GET") <=> (step[c] = 3)
         /\ (Request(c) = "PUSH") <=> (step[c] = 4)
         /\ (Request(c) = "ADD") <=> (step[c] = 5)
         /\ (Request(c) = "SET") <=> (step[c] = 6)
         /\ (Request(c) = "COMMIT") <=> (step[c] = 7)
         /\ Request(c) # "TOP"
<1>1. Len(Dialogue["incr_t"]) = 7
  BY Dialogues
<1>2. step[c] \in 1..7
  BY <1>1 DEF StepInv, Asking
<1>3. Request(c) = <<"LOGIN", "BEGIN", "GET", "PUSH", "ADD", "SET", "COMMIT">>[step[c]]
  BY Dialogues DEF Request
<1> QED
  BY <1>2, <1>3

\* Where c is in its dialogue once a request has been served.
LEMMA OneMorePast ==
  ASSUME StepInv, NEW c \in Client, ServerStep(c)
  PROVE  /\ Going(c) /\ Past(c) = step[c] - 1
         /\ (Going(c)' <=> Pleased(c)') /\ Past(c)' = step[c]
         /\ pc[c] = "serve"
<1>1. /\ pc[c] = "serve" /\ pc'[c] = "read" /\ step'[c] = step[c]
  BY ReplySent DEF StepInv, TypeOK
<1> QED
  BY <1>1 DEF Going, Past

\* A refused request ends the dialogue.
LEMMA RefusalEnds ==
  ASSUME StepInv, NEW c \in Client, Answers(c, Failed), Request(c) # "TOP"
  PROVE  ~Pleased(c)'
<1>1. answer'[c] = Failed /\ Request(c)' = Request(c)
  BY DEF Answers, Request, StepInv, TypeOK
<1> QED
  BY <1>1, Replies DEF Pleased, Accepts

\* What the others see of a request of c.
LEMMA ServedApart ==
  ASSUME StepInv, NEW c \in Client, ServerStep(c)
  PROVE  Apart(c) /\ UNCHANGED <<prog, step>>
<1>1. /\ pc' = [pc EXCEPT ![c] = "read"]
      /\ UNCHANGED <<prog, step, exit, printed>>
      /\ \A d \in Client : d # c => answer'[d] = answer[d]
  BY ReplySent
<1>2. \A d \in Client : d # c => pc'[d] = pc[d]
  BY <1>1 DEF StepInv, TypeOK
<1>3. \A d \in Client : d # c => stack'[d] = stack[d]
  <2>1. DOMAIN stack = Client
    BY DEF StepInv, TypeOK
  <2>2. \/ UNCHANGED stack
        \/ \E t : stack' = [stack EXCEPT ![c] = t]
    BY DEF ServerStep, ServeLogin, ServeBegin, ServePush, ServeTop, ServeAdd, ServeGet,
       ServeSet, ServeCommit
  <2> QED
    BY <2>1, <2>2
<1> QED
  BY <1>1, <1>2, <1>3 DEF Apart

\* What c does once its requests have been served takes it no step further.
LEMMA ClientKeepsPlace ==
  ASSUME StepInv, up, NEW c \in Client, Killed(c) \/ ClientStep(c), Going(c)'
  PROVE  Going(c) /\ Past(c)' = Past(c)
<1>1. Moves(c)
  BY ClientSteps
<1>2. pc'[c] # "read"
  BY <1>1 DEF Moves, Advances, Hearkens, Stops
<1>3. CASE Advances(c)
  BY <1>3 DEF Advances, Going, Past
<1>4. CASE pc[c] = "read" /\ Pleased(c) /\ Hearkens(c)
  <2>1. Past(c)' = step[c] + 1 - 1 /\ Past(c) = step[c] /\ step[c] \in Int
    BY <1>2, <1>4 DEF Hearkens, Past, StepInv, TypeOK
  <2> QED
    BY <1>4, <2>1 DEF Going
<1>5. CASE pc'[c] \in {"over", "bye after error"}
  BY <1>5 DEF Going
<1> QED
  BY <1>1, <1>3, <1>4, <1>5 DEF Moves, Stops

LEMMA SamePlace ==
  ASSUME NEW d, UNCHANGED <<prog[d], pc[d], step[d], answer[d]>>
  PROVE  (Going(d)' <=> Going(d)) /\ Past(d)' = Past(d)
BY DEF Going, Past, Pleased, Request

\* Only a COMMIT takes the table from a transaction, its own.
LEMMA HolderKept ==
  ASSUME StepInv, TableInv, NEW c \in Client, ServerStep(c)
  PROVE  /\ \A d, e \in holder' : d = e
         /\ holder' = {} => staged' = None
         /\ \A d \in Client : d # c => (d \in txn' <=> d \in txn) /\ (d \in holder => d \in holder')
         /\ \A d \in holder : d # c => staged' = staged /\ store' = store
<1>1. CASE UNCHANGED <<holder, staged>>
  BY <1>1 DEF ServerStep, ServeLogin, ServeBegin, ServePush, ServeTop, ServeAdd, ServeGet,
     ServeSet, ServeCommit, TableInv
<1>2. CASE ServeSet(c)
  BY <1>2 DEF ServeSet, TableInv, StepInv, TypeOK
<1>3. CASE ServeCommit(c)
  BY <1>3 DEF ServeCommit, TableInv
<1> QED
  BY <1>1, <1>2, <1>3 DEF ServerStep, ServeLogin, ServeBegin, ServePush, ServeTop, ServeAdd,
     ServeGet

LEMMA ProgressServed ==
  ASSUME StepInv, NEW c \in Client, Progress(c), ServerStep(c), prog[c] = "incr_t"
  PROVE  Progress(c)'
<1>1. /\ Going(c) /\ Past(c) = step[c] - 1 /\ (Going(c)' <=> Pleased(c)')
      /\ Past(c)' = step[c] /\ pc[c] = "serve"
  BY OneMorePast
<1>2. ServeCommit(c) => Past(c)' = 7
  BY <1>1, Positions DEF ServeCommit, Serving
<1>3. ServeBegin(c) <=> Past(c)' = 2
  BY <1>1, Positions DEF ServerStep, ServeLogin, ServeBegin, ServePush, ServeTop, ServeAdd,
     ServeGet, ServeSet, ServeCommit, Serving
<1>4. ServeBegin(c) => c \in txn'
  BY DEF ServeBegin
<1>5. ~ServeBegin(c) /\ ~ServeCommit(c) => txn' = txn
  BY DEF ServerStep, ServeLogin, ServePush, ServeTop, ServeAdd, ServeGet, ServeSet
<1>6. Past(c)' = 6 => ServeSet(c)
  BY <1>1, Positions DEF ServerStep, ServeLogin, ServeBegin, ServePush, ServeTop, ServeAdd,
     ServeGet, ServeSet, ServeCommit, Serving
<1>7. Past(c)' = 6 /\ Going(c)' => c \in holder'
  <2> SUFFICES ASSUME Past(c)' = 6, Going(c)'
               PROVE  c \in holder'
    OBVIOUS
  <2>1. ServeSet(c) /\ Request(c) = "SET"
    BY <1>6 DEF ServeSet, Serving
  <2>2. c \in txn
    BY <1>1 DEF Progress
  <2>3. ~Answers(c, Failed)
    BY <1>1, <2>1, RefusalEnds
  <2> QED
    BY <2>1, <2>2, <2>3 DEF ServeSet
<1>8. Past(c)' \in 3..6 => c \in txn
  BY <1>1 DEF Progress
<1>9. 3..6 = (2..6) \ {2}
  OBVIOUS
<1> QED
  BY <1>2, <1>3, <1>4, <1>5, <1>7, <1>8, <1>9 DEF Progress

LEMMA TableKept == ASSUME StepInv, TableInv, [Next]_vars PROVE TableInv'
<1>1. CASE UNCHANGED vars
  BY <1>1 DEF vars, clientVars, serverVars, TableInv, Progress, Going, Past, Pleased, Request
<1>2. CASE Next /\ ~up'
  <2>1. CASE Ends
    BY <1>2, <2>1 DEF Ends, TableInv
  <2>2. ASSUME NEW c \in Client, Killed(c) \/ ClientStep(c)
        PROVE  UNCHANGED <<holder, staged>>
    BY <2>2 DEF ClientStep, Killed, Connect, SendMessage, SendKilled, SendFails, ReadResponse,
                ReadEof, SayBye, serverVars
  <2>3. ASSUME NEW c \in Client, ServerStep(c)
        PROVE  FALSE
    BY <1>2, <2>3, ReplySent DEF ServerStep, ServeLogin, ServeBegin, ServePush, ServeTop,
       ServeAdd, ServeGet, ServeSet, ServeCommit, Serving
  <2> QED
    BY <1>2, <2>1, <2>2, <2>3 DEF Next, Crash, Hangup, TableInv
<1>3. CASE Next /\ up'
  <2>1. PICK c \in Client : Killed(c) \/ ClientStep(c) \/ ServerStep(c)
    BY <1>3, Steps
  <2>2. up
    BY <1>3, Steps
  <2>3. CASE Killed(c) \/ ClientStep(c)
    <3>1. Apart(c) /\ UNCHANGED <<prog, serverVars>>
      BY <2>2, <2>3, ClientSteps
    <3>2. ASSUME NEW d \in Client PROVE Progress(d)'
      <4>1. CASE d = c
        BY <2>2, <2>3, <3>1, <4>1, ClientKeepsPlace DEF TableInv, Progress, serverVars
      <4>2. CASE d # c
        BY <2>2, <3>1, <4>2, SamePlace DEF TableInv, Progress, serverVars, Apart
      <4> QED
        BY <4>1, <4>2
    <3> QED
      BY <3>1, <3>2 DEF TableInv, serverVars
  <2>4. CASE ServerStep(c)
    <3>1. ASSUME NEW d \in Client PROVE Progress(d)'
      <4>1. CASE d = c
        <5>1. CASE prog[c] = "incr_t"
          BY <2>2, <2>4, <4>1, <5>1, ProgressServed DEF TableInv
        <5>2. CASE prog[c] # "incr_t"
          BY <2>4, <4>1, <5>2, ServedApart DEF Progress
        <5> QED
          BY <5>1, <5>2
      <4>2. CASE d # c
        <5>1. Apart(c) /\ prog' = prog
          BY <2>4, ServedApart
        <5>2. (d \in txn' <=> d \in txn) /\ (d \in holder => d \in holder')
          BY <2>4, <4>2, HolderKept
        <5> QED
          BY <2>2, <4>2, <5>1, <5>2, SamePlace DEF TableInv, Progress, Apart
      <4> QED
        BY <4>1, <4>2
    <3> QED
      BY <2>4, <3>1, HolderKept DEF TableInv
  <2> QED
    BY <2>1, <2>3, <2>4
<1> QED
  BY <1>1, <1>2, <1>3
-----------------------------------------------------------------------------
LEMMA SuccessStep ==
  ASSUME StepInv, TableInv, SuccessInv, [Next]_vars
  PROVE  SuccessInv'
<1>1. CASE UNCHANGED vars
  BY <1>1 DEF vars, clientVars, serverVars, SuccessInv, Pleased, Request
<1>2. CASE Next /\ up'
  <2>1. PICK c \in Client : Killed(c) \/ ClientStep(c) \/ ServerStep(c)
    BY <1>2, Steps
  <2>2. up
    BY <1>2, Steps
  <2> DEFINE Wrote(d) ==
        prog[d] # "get" =>
          /\ exit[d] = 0 \/ pc[d] = "bye" \/ printed[d] # <<>> => d \in applied
          /\ pc[d] = "read" /\ step[d] = Len(Dialogue[prog[d]]) /\ Pleased(d)
               => d \in applied
  <2>3. \A d \in Client : Wrote(d)
    BY <2>2 DEF SuccessInv
  <2>4. ASSUME NEW d \in Client, applied \subseteq applied',
               UNCHANGED <<prog[d], pc[d], step[d], exit[d], printed[d], answer[d]>>
        PROVE  Wrote(d)'
    BY <2>3, <2>4 DEF Pleased, Request
  <2>5. CASE Killed(c) \/ ClientStep(c)
    <3>1. \A d \in Client : d # c => Wrote(d)'
      BY <2>2, <2>4, <2>5, ClientSteps DEF Apart
    <3>2. <<prog[c], Request(c)>> \in Prints /\ prog[c] # "get" /\ pc[c] = "read"
            => step[c] = Len(Dialogue[prog[c]])
      <4> SUFFICES ASSUME <<prog[c], Request(c)>> \in Prints, prog[c] # "get", pc[c] = "read"
                   PROVE  step[c] = Len(Dialogue[prog[c]])
        OBVIOUS
      <4>1. prog[c] = "set" /\ Request(c) = "SET"
        BY DEF Prints
      <4>2. Len(Dialogue["set"]) = 3
        BY Dialogues
      <4>3. step[c] \in 1..3
        BY <4>1, <4>2 DEF StepInv, Asking
      <4>4. Dialogue["set"][1] = "LOGIN" /\ Dialogue["set"][2] = "PUSH"
        BY Dialogues
      <4> QED
        BY <4>1, <4>2, <4>3, <4>4 DEF Request
    <3>3. Wrote(c)'
      <4>1. Moves(c) /\ UNCHANGED <<prog, applied>>
        BY <2>2, <2>5, ClientSteps
      <4>2. pc'[c] # "read"
        BY <4>1 DEF Moves, Advances, Hearkens, Stops
      <4>3. 2 # 0 /\ 3 # 0
        OBVIOUS
      <4>4. Wrote(c)
        BY <2>3
      <4>5. ASSUME prog[c] # "get", exit'[c] = 0 \/ pc'[c] = "bye" \/ printed'[c] # <<>>
            PROVE  c \in applied
        BY <3>2, <4>1, <4>3, <4>4, <4>5, Zenon DEF Moves, Advances, Hearkens, Stops, Silent
      <4> QED
        BY <4>1, <4>2, <4>5
    <3> QED
      BY <3>1, <3>3 DEF SuccessInv
  <2>6. CASE ServerStep(c)
    <3>1. \A d \in Client : d # c => Wrote(d)'
      BY <2>4, <2>6, ReplySent DEF StepInv, TypeOK
    <3>2. prog[c] = "incr_t" /\ step[c] = Len(Dialogue[prog[c]]) => c \in holder
      <4> SUFFICES ASSUME prog[c] = "incr_t", step[c] = Len(Dialogue[prog[c]])
                   PROVE  c \in holder
        OBVIOUS
      <4>1. step[c] = 7 /\ pc[c] = "serve"
        BY <2>6, Dialogues, ReplySent
      <4> QED
        BY <2>2, <4>1 DEF TableInv, Progress, Going, Past
    <3>3. Wrote(c)'
      BY <2>3, <2>6, <3>2, ReplySent DEF StepInv, TypeOK
    <3> QED
      BY <3>1, <3>3 DEF SuccessInv
  <2> QED
    BY <2>1, <2>5, <2>6
<1> QED
  BY <1>1, <1>2 DEF SuccessInv

\* A client that reports success has written what it was asked to.
THEOREM SuccessIsAlwaysReal == Spec => []SuccessIsReal
<1>1. Init => StepInv
  BY StepInit
<1>2. Init => SuccessInv
  BY DEF Init, SuccessInv, None
<1>3. StepInv /\ [Next]_vars => StepInv'
  BY StepKept
<1>4. StepInv /\ TableInv /\ SuccessInv /\ [Next]_vars => SuccessInv'
  BY SuccessStep
<1>5. SuccessInv => SuccessIsReal
  BY DEF SuccessInv, SuccessIsReal
<1>6. Init => TableInv
  BY TableInit
<1>7. StepInv /\ TableInv /\ [Next]_vars => TableInv'
  BY TableKept
<1> QED
  BY <1>1, <1>2, <1>3, <1>4, <1>5, <1>6, <1>7, PTL DEF Spec
-----------------------------------------------------------------------------
(* Increments. *)

Counting == \A c \in Client : prog[c] \in {"incr", "incr_t", "get"}

\* How many requests have been served since those that come before GET.
Turn(c) == Past(c) - (IF prog[c] = "incr_t" THEN 1 ELSE 0)

\* What an increment has on its stack, then staged, was read before: it is
\* bounded by the increments applied by now, among which c is not.
Sums(c) ==
  prog[c] \in {"incr", "incr_t"} /\ Going(c) =>
    /\ Turn(c) <= (IF prog[c] = "incr_t" THEN 5 ELSE 4) => c \notin applied
    /\ Turn(c) <= 1 => stack[c] = <<>>
    /\ Turn(c) = 2 => \E v \in 0..Cardinality(applied) : stack[c] = <<v>>
    /\ Turn(c) = 3 => \E v \in 0..Cardinality(applied) : stack[c] = <<1, v>>
    /\ Turn(c) = 4 => \E v \in 1..Cardinality(applied) + 1 : stack[c] = <<v>>
    /\ Turn(c) = 5 /\ prog[c] = "incr_t" => staged \in 1..Cardinality(applied) + 1

Bounded ==
  store # None =>
    store \in IF applied = {} THEN {0} ELSE 1..Cardinality(applied)

CountInv == Counting => Bounded /\ (up => \A c \in Client : Sums(c))

\* Where each request is in the dialogues of incr_value.
LEMMA Turns ==
  ASSUME NEW c \in Client, StepInv, prog[c] \in {"incr", "incr_t"}, ServerStep(c)
  PROVE  /\ Turn(c) \in Int /\ Turn(c)' = Turn(c) + 1
         /\ Going(c) /\ (Going(c)' <=> Pleased(c)')
         /\ Request(c) \in {"LOGIN", "BEGIN"} => Turn(c) <= 0
         /\ Request(c) = "GET" => Turn(c) = 1
         /\ Request(c) = "PUSH" => Turn(c) = 2
         /\ Request(c) = "ADD" => Turn(c) = 3
         /\ Request(c) = "SET" => Turn(c) = 4
         /\ Request(c) = "COMMIT" => Turn(c) = 5 /\ prog[c] = "incr_t"
         /\ Request(c) # "TOP"
         /\ Turn(c) = 4 /\ prog[c] = "incr_t" => c \in txn \/ ~Progress(c)
<1>1. /\ Going(c) /\ Past(c) = step[c] - 1 /\ (Going(c)' <=> Pleased(c)')
      /\ Past(c)' = step[c] /\ pc[c] = "serve" /\ prog' = prog
  BY OneMorePast, ServedApart
<1>2. CASE prog[c] = "incr_t"
  <2>1. Turn(c) = step[c] - 1 - 1 /\ Turn(c)' = step[c] - 1
    BY <1>1, <1>2 DEF Turn
  <2>2. Turn(c) = 4 /\ Progress(c) => c \in txn
    <3>1. Past(c) = Turn(c) + 1
      BY <1>1, <2>1, <1>2, Positions
    <3> QED
      BY <1>1, <1>2, <3>1 DEF Progress
  <2> QED
    BY <1>1, <1>2, <2>1, <2>2, Positions
<1>3. CASE prog[c] = "incr"
  <2>1. Turn(c) = step[c] - 1 - 0 /\ Turn(c)' = step[c] - 0
    BY <1>1, <1>3 DEF Turn
  <2>2. Len(Dialogue["incr"]) = 5
    BY Dialogues
  <2>3. step[c] \in 1..5
    BY <1>1, <1>3, <2>2 DEF StepInv, Asking
  <2>4. Request(c) = <<"LOGIN", "GET", "PUSH", "ADD", "SET">>[step[c]]
    BY <1>3, Dialogues DEF Request
  <2>5. /\ Request(c) = "LOGIN" => step[c] = 1
        /\ Request(c) = "GET" => step[c] = 2
        /\ Request(c) = "PUSH" => step[c] = 3
        /\ Request(c) = "ADD" => step[c] = 4
        /\ Request(c) = "SET" => step[c] = 5
        /\ Request(c) \notin {"BEGIN", "TOP", "COMMIT"}
    BY <2>3, <2>4
  <2> QED
    BY <1>1, <1>3, <2>1, <2>3, <2>5
<1> QED
  BY <1>2, <1>3

LEMMA GetsSetNothing ==
  ASSUME NEW c \in Client, StepInv, prog[c] = "get", ServerStep(c)
  PROVE  ~ServeSet(c) /\ ~ServeCommit(c)
<1>1. Len(Dialogue["get"]) = 3
  BY Dialogues
<1>2. step[c] \in 1..3
  BY <1>1, OneMorePast DEF StepInv, Asking
<1>3. Request(c) = <<"LOGIN", "GET", "TOP">>[step[c]]
  BY Dialogues DEF Request
<1> QED
  BY <1>2, <1>3 DEF ServeSet, ServeCommit, Serving

\* A request adds its own client to the increments applied, or nobody.
LEMMA AppliedGrows ==
  ASSUME StepInv, NEW c \in Client, ServerStep(c), IsFiniteSet(Client)
  PROVE  /\ applied' = applied \/ applied' = applied \cup {c}
         /\ IsFiniteSet(applied) /\ Cardinality(applied) \in Nat
         /\ Cardinality(applied') \in Nat /\ Cardinality(applied) <= Cardinality(applied')
         /\ c \notin applied => Cardinality(applied \cup {c}) = Cardinality(applied) + 1
         /\ applied # {} => Cardinality(applied) >= 1
<1>1. applied' = applied \/ applied' = applied \cup {c}
  BY DEF ServerStep, ServeLogin, ServeBegin, ServePush, ServeTop, ServeAdd, ServeGet,
     ServeSet, ServeCommit
<1>2. IsFiniteSet(applied) /\ Cardinality(applied) \in Nat
  BY FS_Subset, FS_CardinalityType DEF StepInv, TypeOK
<1>3. c \notin applied => Cardinality(applied \cup {c}) = Cardinality(applied) + 1
  BY <1>2, FS_AddElement
<1>4. c \in applied => applied \cup {c} = applied
  OBVIOUS
<1>5. applied # {} => Cardinality(applied) >= 1
  BY <1>2, FS_EmptySet
<1> QED
  BY <1>1, <1>2, <1>3, <1>4, <1>5

\* The sum of an increment stays bounded while others are served.
LEMMA SumsKept ==
  ASSUME StepInv, NEW d \in Client, Sums(d), Progress(d),
         UNCHANGED <<prog[d], pc[d], step[d], answer[d], stack[d]>>,
         d \in applied' <=> d \in applied,
         Cardinality(applied) \in Nat, Cardinality(applied') \in Nat,
         Cardinality(applied) <= Cardinality(applied'),
         d \in holder => staged' = staged
  PROVE  Sums(d)'
<1>1. (Going(d)' <=> Going(d)) /\ Past(d)' = Past(d)
  BY SamePlace
<1>2. Turn(d)' = Turn(d)
  BY <1>1 DEF Turn
<1>3. SUFFICES ASSUME prog[d] \in {"incr", "incr_t"}, Going(d)
               PROVE  Sums(d)'
  BY <1>1 DEF Sums
<1>4. Turn(d) = 5 /\ prog[d] = "incr_t" => d \in holder
  <2> SUFFICES ASSUME Turn(d) = 5, prog[d] = "incr_t" PROVE d \in holder
    OBVIOUS
  <2>1. Past(d) - 1 = 5
    BY DEF Turn
  <2>2. Past(d) = 6
    BY <2>1 DEF Past, StepInv, TypeOK
  <2> QED
    BY <1>3, <2>2 DEF Progress
<1>5. /\ 0..Cardinality(applied) \subseteq 0..Cardinality(applied')
      /\ 1..Cardinality(applied) + 1 \subseteq 1..Cardinality(applied') + 1
  OBVIOUS
<1> HIDE DEF Turn
<1>6. Turn(d) = 5 /\ prog[d] = "incr_t" => staged' \in 1..Cardinality(applied') + 1
  BY <1>3, <1>4, <1>5 DEF Sums
<1>7. Turn(d) = 2 => \E v \in 0..Cardinality(applied') : stack[d] = <<v>>
  BY <1>3, <1>5 DEF Sums
<1>8. Turn(d) = 3 => \E v \in 0..Cardinality(applied') : stack[d] = <<1, v>>
  BY <1>3, <1>5 DEF Sums
<1>9. Turn(d) = 4 => \E v \in 1..Cardinality(applied') + 1 : stack[d] = <<v>>
  BY <1>3, <1>5 DEF Sums
<1>10. /\ Turn(d) <= (IF prog[d] = "incr_t" THEN 5 ELSE 4) => d \notin applied
       /\ Turn(d) <= 1 => stack[d] = <<>>
  BY <1>3 DEF Sums
<1> QED
  BY <1>1, <1>2, <1>6, <1>7, <1>8, <1>9, <1>10 DEF Sums

LEMMA SmallModulus ==
  ASSUME NEW a \in Nat, NEW b \in Nat, a < b
  PROVE  (1 + a) % (b + 1) = a + 1
OBVIOUS

\* The sum of the increment whose request is served.
LEMMA SumsServed ==
  ASSUME StepInv, TableInv, NEW c \in Client, ServerStep(c), Sums(c), Progress(c), Bounded,
         prog[c] \in {"incr", "incr_t"}, IsFiniteSet(Client), MaxValue \in Nat,
         Cardinality(Client) <= MaxValue
  PROVE  Sums(c)'
<1> DEFINE n == Cardinality(applied)
<1>1. prog' = prog /\ DOMAIN stack = Client
  BY ServedApart DEF StepInv, TypeOK
<1>2. /\ Turn(c) \in Int /\ Turn(c)' = Turn(c) + 1 /\ Going(c)
      /\ (Going(c)' <=> Pleased(c)')
  BY Turns
<1>3. n \in Nat /\ (applied # {} => n >= 1)
  BY AppliedGrows
<1> SUFFICES ASSUME Going(c)'
             PROVE  Sums(c)'
  BY DEF Sums
<1> HIDE DEF n
<1>4. CASE ServeLogin(c) \/ ServeBegin(c)
  <2>1. /\ Request(c) \in {"LOGIN", "BEGIN"} /\ UNCHANGED <<stack, applied>>
    BY <1>4 DEF ServeLogin, ServeBegin, Serving
  <2>2. Turn(c) <= 0
    BY <2>1, Turns
  <2> QED
    BY <1>1, <1>2, <2>1, <2>2 DEF Sums
<1>5. CASE ServeGet(c)
  <2>1. Request(c) = "GET" /\ holder = {} /\ UNCHANGED applied
    BY <1>5 DEF ServeGet, Serving
  <2>2. ~Answers(c, Failed)
    BY <1>2, <2>1, RefusalEnds
  <2>3. staged = None
    BY <2>1 DEF TableInv
  <2>4. store # None /\ stack'[c] = <<store>> \o stack[c]
    BY <1>1, <1>5, <2>2, <2>3 DEF ServeGet
  <2>5. Turn(c) = 1 /\ stack[c] = <<>> /\ c \notin applied
    BY <1>2, <2>1, Turns DEF Sums
  <2>6. stack'[c] = <<store>>
    <3>1. <<store>> \in Seq({store})
      OBVIOUS
    <3> QED
      BY <2>4, <2>5, <3>1, ConcatEmptySeq
  <2>7. store \in 0..n
    BY <1>3, <2>4 DEF Bounded, n
  <2> QED
    BY <1>1, <1>2, <2>1, <2>5, <2>6, <2>7 DEF Sums, n
<1>6. CASE ServePush(c)
  <2>1. /\ Request(c) = "PUSH" /\ UNCHANGED applied
        /\ stack'[c] = <<1>> \o stack[c]
    BY <1>1, <1>6 DEF ServePush, Serving
  <2>2. Turn(c) = 2 /\ c \notin applied
    BY <1>2, <2>1, Turns DEF Sums
  <2>3. PICK v \in 0..n : stack[c] = <<v>>
    BY <1>2, <2>2 DEF Sums, n
  <2>4. stack'[c] = <<1, v>>
    <3> DEFINE S == {1, v}
    <3>1. 1 \in S /\ v \in S
      OBVIOUS
    <3> HIDE DEF S
    <3> QED
      BY <2>1, <2>3, <3>1, Pair
  <2>5. (Turn(c)' = 3) /\ (n' = n)
    BY <1>2, <2>1, <2>2 DEF n
  <2>6. (\E w \in 0..n : stack[c] = <<1, w>>)'
    BY <2>4, <2>5
  <2>7. c \notin applied'
    BY <2>1, <2>2
  <2> HIDE DEF Turn
  <2> QED
    BY <2>5, <2>6, <2>7 DEF Sums, n
<1>7. CASE ServeAdd(c)
  <2>1. /\ Request(c) = "ADD" /\ UNCHANGED applied
        /\ stack'[c] = <<(stack[c][1] + stack[c][2]) % (MaxValue + 1)>>
    BY <1>1, <1>7 DEF ServeAdd, Serving
  <2>2. Turn(c) = 3 /\ c \notin applied
    BY <1>2, <2>1, Turns DEF Sums
  <2>3. PICK v \in 0..n : stack[c] = <<1, v>>
    BY <1>2, <2>2 DEF Sums, n
  <2>4. n < MaxValue
    <3>1. /\ applied \subseteq Client \ {c} /\ IsFiniteSet(Client \ {c})
          /\ Cardinality(Client \ {c}) = Cardinality(Client) - 1
      BY <2>2, FS_RemoveElement DEF StepInv, TypeOK
    <3>2. n <= Cardinality(Client \ {c}) /\ Cardinality(Client) \in Nat
      BY <3>1, FS_Subset, FS_CardinalityType DEF n
    <3> QED
      BY <1>3, <3>1, <3>2
  <2>5. (1 + v) % (MaxValue + 1) = v + 1
    BY <1>3, <2>4, SmallModulus
  <2>6. stack'[c] = <<v + 1>> /\ v + 1 \in 1..n + 1
    BY <1>3, <2>1, <2>3, <2>5
  <2> QED
    BY <1>1, <1>2, <2>1, <2>2, <2>6 DEF Sums, n
<1>8. CASE ServeSet(c)
  <2>1. Request(c) = "SET"
    BY <1>8 DEF ServeSet, Serving
  <2>2. Turn(c) = 4 /\ c \notin applied
    BY <1>2, <2>1, Turns DEF Sums
  <2>3. PICK v \in 1..n + 1 : stack[c] = <<v>>
    BY <1>2, <2>2 DEF Sums, n
  <2>4. CASE prog[c] = "incr"
    BY <1>1, <1>2, <2>2, <2>4 DEF Sums
  <2>5. CASE prog[c] = "incr_t"
    <3>1. c \in txn
      BY <2>2, <2>5, Turns
    <3>2. ~Answers(c, Failed)
      BY <1>2, <2>1, RefusalEnds
    <3>3. staged' = v /\ UNCHANGED applied
      BY <1>8, <2>3, <3>1, <3>2 DEF ServeSet
    <3> QED
      BY <1>1, <1>2, <2>2, <2>3, <3>3 DEF Sums, n
  <2> QED
    BY <2>4, <2>5
<1>9. CASE ServeCommit(c)
  <2>1. Turn(c) = 5 /\ prog[c] = "incr_t"
    BY <1>9, Turns DEF ServeCommit, Serving
  <2> QED
    BY <1>1, <1>2, <2>1 DEF Sums
<1>10. ~ServeTop(c)
  BY Turns DEF ServeTop, Serving
<1> QED
  BY <1>4, <1>5, <1>6, <1>7, <1>8, <1>9, <1>10 DEF ServerStep

\* What is stored is such a sum.
LEMMA BoundedServed ==
  ASSUME StepInv, TableInv, NEW c \in Client, ServerStep(c), Sums(c), Progress(c), Bounded,
         prog[c] \in {"incr", "incr_t", "get"}, IsFiniteSet(Client), up
  PROVE  Bounded'
<1> DEFINE n == Cardinality(applied)
<1>1. n \in Nat /\ (c \notin applied => Cardinality(applied \cup {c}) = n + 1)
  BY AppliedGrows
<1>2. CASE UNCHANGED <<store, applied>>
  BY <1>2 DEF Bounded
<1>3. ASSUME store' \in 1..n + 1, applied' = applied \cup {c}, c \notin applied
      PROVE  Bounded'
  BY <1>1, <1>3 DEF Bounded
<1> HIDE DEF n
<1>4. CASE ServeSet(c) /\ c \notin txn
  <2>1. prog[c] \in {"incr", "incr_t"} /\ Request(c) = "SET"
    BY <1>4, GetsSetNothing DEF ServeSet, Serving
  <2>2. Turn(c) = 4 /\ Going(c)
    BY <2>1, Turns
  <2>3. c \notin applied
    BY <2>1, <2>2 DEF Sums
  <2>4. PICK v \in 1..n + 1 : stack[c] = <<v>>
    BY <2>1, <2>2 DEF Sums, n
  <2> QED
    BY <1>3, <1>4, <2>3, <2>4 DEF ServeSet
<1>5. CASE ServeCommit(c) /\ c \in holder
  <2>1. prog[c] \in {"incr", "incr_t"} /\ Request(c) = "COMMIT"
    BY <1>5, GetsSetNothing DEF ServeCommit, Serving
  <2>2. Turn(c) = 5 /\ prog[c] = "incr_t" /\ Going(c)
    BY <2>1, Turns
  <2>3. c \notin applied /\ staged \in 1..n + 1
    BY <2>2 DEF Sums, n
  <2> QED
    BY <1>3, <1>5, <2>3 DEF ServeCommit
<1> QED
  BY <1>2, <1>4, <1>5 DEF ServerStep, ServeLogin, ServeBegin, ServePush, ServeTop, ServeAdd,
     ServeGet, ServeSet, ServeCommit

LEMMA CountStep ==
  ASSUME StepInv, TableInv, CountInv, [Next]_vars, IsFiniteSet(Client), MaxValue \in Nat,
         Cardinality(Client) <= MaxValue
  PROVE  CountInv'
<1>1. CASE UNCHANGED vars
  BY <1>1 DEF vars, clientVars, serverVars, CountInv, Bounded, Counting, Sums, Turn, Going,
              Past, Pleased, Request
<1>2. CASE Next /\ ~up'
  <2>1. CASE Ends
    BY <1>2, <2>1 DEF Ends, CountInv, Bounded, Counting
  <2>2. ASSUME NEW c \in Client, Killed(c) \/ ClientStep(c)
        PROVE  UNCHANGED <<prog, store, applied>>
    BY <2>2 DEF ClientStep, Killed, Connect, SendMessage, SendKilled, SendFails, ReadResponse,
                ReadEof, SayBye, serverVars
  <2>3. ASSUME NEW c \in Client, ServerStep(c)
        PROVE  FALSE
    BY <1>2, <2>3, ReplySent DEF ServerStep, ServeLogin, ServeBegin, ServePush, ServeTop,
       ServeAdd, ServeGet, ServeSet, ServeCommit, Serving
  <2> QED
    BY <1>2, <2>1, <2>2, <2>3 DEF Next, Crash, Hangup, CountInv, Bounded, Counting
<1>3. CASE Next /\ up'
  <2>1. PICK c \in Client : Killed(c) \/ ClientStep(c) \/ ServerStep(c)
    BY <1>3, Steps
  <2>2. up
    BY <1>3, Steps
  <2>3. Apart(c) /\ prog' = prog
    BY <2>1, <2>2, ClientSteps, ServedApart
  <2> SUFFICES ASSUME Counting
               PROVE  Bounded' /\ \A d \in Client : Sums(d)'
    BY <2>3 DEF CountInv, Counting
  <2>4. Bounded /\ \A d \in Client : Sums(d) /\ Progress(d)
    BY <2>2 DEF CountInv, TableInv
  <2>5. Cardinality(applied) \in Nat
    BY FS_Subset, FS_CardinalityType DEF StepInv, TypeOK
  <2>6. CASE Killed(c) \/ ClientStep(c)
    <3>1. UNCHANGED <<prog, serverVars, applied>>
      BY <2>2, <2>6, ClientSteps
    <3>2. Sums(c)'
      <4> SUFFICES ASSUME Going(c)' PROVE Sums(c)'
        BY DEF Sums
      <4>1. Going(c) /\ Past(c)' = Past(c)
        BY <2>2, <2>6, ClientKeepsPlace
      <4>2. Turn(c)' = Turn(c)
        BY <3>1, <4>1 DEF Turn
      <4> QED
        BY <2>4, <3>1, <4>1, <4>2 DEF Sums, serverVars
    <3>3. ASSUME NEW d \in Client, d # c PROVE Sums(d)'
      BY <2>3, <2>4, <2>5, <3>1, <3>3, SumsKept DEF Apart, serverVars
    <3> QED
      BY <2>4, <3>1, <3>2, <3>3 DEF Bounded, serverVars
  <2>7. CASE ServerStep(c)
    <3>1. Bounded'
      BY <2>2, <2>4, <2>7, BoundedServed DEF Counting
    <3>2. Sums(c)'
      <4>1. CASE prog[c] = "get"
        BY <2>3, <4>1 DEF Sums
      <4>2. CASE prog[c] # "get"
        BY <2>4, <2>7, <4>2, SumsServed DEF Counting
      <4> QED
        BY <4>1, <4>2
    <3>3. ASSUME NEW d \in Client, d # c PROVE Sums(d)'
      <4>1. d \in holder => staged' = staged
        BY <2>7, <3>3, HolderKept
      <4>2. d \in applied' <=> d \in applied
        BY <2>7, <3>3, AppliedGrows
      <4>3. Cardinality(applied') \in Nat /\ Cardinality(applied) <= Cardinality(applied')
        BY <2>7, AppliedGrows
      <4> QED
        BY <2>3, <2>4, <2>5, <3>3, <4>1, <4>2, <4>3, SumsKept DEF Apart
    <3> QED
      BY <3>1, <3>2, <3>3
  <2> QED
    BY <2>1, <2>6, <2>7
<1> QED
  BY <1>1, <1>2, <1>3

\* Increments, in transactions or not, never add more than one each, and one
\* at least is seen, whatever the clients' number and their interleaving.
THEOREM NothingIsCountedTwice ==
  ASSUME IsFiniteSet(Client), MaxValue \in Nat, Cardinality(Client) <= MaxValue
  PROVE  Spec => []NoExtraIncrement
<1>1. Init => StepInv
  BY StepInit
<1>2. Init => CountInv
  <2> SUFFICES ASSUME Init PROVE CountInv
    OBVIOUS
  <2>1. store \in {None, 0} /\ applied = {}
    BY DEF Init
  <2>2. ASSUME NEW c \in Client
        PROVE  Sums(c)
    <3>1. step[c] = 1 /\ pc[c] = "connect" /\ stack[c] = <<>>
      BY DEF Init
    <3>2. Past(c) = 0
      BY <3>1 DEF Past
    <3>3. Turn(c) = 0 \/ Turn(c) = -1
      <4>1. CASE prog[c] = "incr_t"
        <5>1. Turn(c) = 0 - 1
          BY <3>2, <4>1 DEF Turn
        <5> QED
          BY <5>1
      <4>2. CASE prog[c] # "incr_t"
        <5>1. Turn(c) = 0 - 0
          BY <3>2, <4>2 DEF Turn
        <5> QED
          BY <5>1
      <4> QED
        BY <4>1, <4>2
    <3>4. Turn(c) # 2 /\ Turn(c) # 3 /\ Turn(c) # 4 /\ Turn(c) # 5
      BY <3>3
    <3> HIDE DEF Turn
    <3> QED
      BY <2>1, <3>1, <3>4 DEF Sums
  <2> QED
    BY <2>1, <2>2 DEF CountInv, Bounded
<1>3. StepInv /\ [Next]_vars => StepInv'
  BY StepKept
<1>4. StepInv /\ TableInv /\ CountInv /\ [Next]_vars => CountInv'
  BY CountStep
<1>5. CountInv => NoExtraIncrement
  BY DEF CountInv, Bounded, Counting, NoExtraIncrement, Incrementing
<1>6. Init => TableInv
  BY TableInit
<1>7. StepInv /\ TableInv /\ [Next]_vars => TableInv'
  BY TableKept
<1> QED
  BY <1>1, <1>2, <1>3, <1>4, <1>5, <1>6, <1>7, PTL DEF Spec
=============================================================================
