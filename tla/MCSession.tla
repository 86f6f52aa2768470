----------------------------- MODULE MCSession ------------------------------
(* Session on small instances: the streams that clients send.              *)
EXTENDS SessionProps

MCIdentifier == {"me"}
MCDashes == {"", "-"}
MCHuge == {"9"}
MCInner == {"", "1", "a b"}
MCWord == MCIdentifier \cup {"", "-", "1-", "9", "1", "-4", "x", "toolong"}

Line(words) == words \o <<NL>>
Login == Line(<<"LOGIN", "me">>)
Push(text) == Line(<<"PUSH", text>>)

Operands == {"3", "-4", "-1", "0", "-", "1-", "9", "x", Quote("")}

Calculations ==
  {<<Login, Push(left), Push(right), Line(<<op>>)>> :
     left \in Operands, right \in Operands, op \in {"ADD", "SUB", "MUL", "DIV"}}

Others ==
  {Login, Push("toolong"), Push(Quote("a b")), Push(Quote("1")),
   Line(<<"PUSH">>), Line(<<"PUSH", "1", "2", "3">>)}
  \cup {Line(<<word>>) : word \in {"POP", "TOP", "ADD", "BYE", "OK", "FOO"}}

\* The last line may lack its newline.
Talks ==
  {<<Login>> \o talk : talk \in SeqOf(Others, 2)} \cup SeqOf(Others, 1)
    \cup {<<Login, <<"TOP">>>>, <<<<"LOGIN", "me">>>>, <<Login, Push("1"), <<"POP">>>>}

\* Nothing, or the last line of an earlier session.
MCLeftovers == {<<>>, Login, Push("1"), <<"TOP">>}

MCStreams == Calculations \cup Talks
=============================================================================
