------------------------------ MODULE Protocol ------------------------------
(***************************************************************************)
(* The text protocol of csf_assign05 (message.cpp,                         *)
(* message_serialization.cpp).  A line is a sequence of units: words,      *)
(* quoted texts, sentences (texts of several words without quotes) and the *)
(* newline; between two units there is a space.  A line does not begin     *)
(* with a quoted text of several words.                                     *)
(***************************************************************************)
EXTENDS Integers, Sequences, SequencesExt

CONSTANTS
  Identifier,  \* words that begin with a letter and go on with [A-Za-z0-9_]
  Word,        \* texts without spaces and quotes, identifiers and "" among them
  Sentence,    \* texts with spaces, without quotes
  Inner,       \* the texts that also occur between quotes
  MAX_ENCODED_LEN  \* characters of a line, its newline among them

NL == "\n"

Quote(text) == "\"" \o text \o "\""

Quoted == {Quote(text) : text \in Inner}

Text == Word \cup Sentence \cup Quoted

MessageTypes ==
  {"NONE", "LOGIN", "CREATE", "PUSH", "POP", "TOP", "SET", "GET", "ADD", "SUB",
   "MUL", "DIV", "BEGIN", "COMMIT", "BYE", "OK", "FAILED", "ERROR", "DATA"}

ASSUME ProtocolAssumption ==
  /\ Identifier \subseteq Word \ {""}
  /\ Inner \subseteq Word \cup Sentence
  /\ MAX_ENCODED_LEN \in Nat
  /\ NL \notin Text /\ Text \subseteq STRING
  /\ Quoted \cap (Word \cup Sentence) = {}
  /\ (MessageTypes \cup {""}) \cap Sentence = {}

\* Any other word is a NONE, which no client sends and every server refuses.
string_to_message_type(word) == IF word \in MessageTypes THEN word ELSE "NONE"

Message(type, args) == [type |-> type, args |-> args]

\* The InvalidMessage that decode throws.
Invalid == Message("invalid", <<>>)

\* "" has no first character: isalpha sees the terminating 0.
checkIdentifier(text) == text \in Identifier

checkValue(text) ==
  text \notin Sentence \cup {Quote(inner) : inner \in Inner \cap Sentence}

is_valid(m) ==
  LET num_args == Len(m.args)
  IN \/ /\ m.type \in {"LOGIN", "CREATE"}
        /\ num_args = 1 /\ checkIdentifier(m.args[1])
     \/ /\ m.type \in {"SET", "GET"}
        /\ num_args = 2
        /\ checkIdentifier(m.args[1]) /\ checkIdentifier(m.args[2])
     \/ /\ m.type \in {"PUSH", "DATA"}
        /\ num_args = 1 /\ checkValue(m.args[1])
     \/ m.type \in {"FAILED", "ERROR"} /\ num_args = 1
     \/ /\ m.type \in {"NONE", "POP", "TOP", "ADD", "SUB", "MUL", "DIV",
                       "BEGIN", "COMMIT", "BYE", "OK"}
        /\ num_args = 0

\* Mutant: only SET has a second argument.
Joined_NoKeyInGet(m) ==
  <<m.type>> \o (IF m.args = <<>> THEN <<>> ELSE <<m.args[1]>>)
             \o (IF m.type = "SET" THEN <<m.args[2]>> ELSE <<>>)
             \o <<NL>>

\* The line that encode puts together.  The first argument goes out as it is,
\* quotes included, whether or not is_quoted_text; an empty one leaves its
\* space behind.
Joined(m) ==
  <<m.type>> \o (IF m.args = <<>> THEN <<>> ELSE <<m.args[1]>>)
             \o (IF m.type \in {"SET", "GET"} THEN <<m.args[2]>> ELSE <<>>)
             \o <<NL>>

\* The characters of a line: a space or the newline follows each other unit.
Length(line) ==
  FoldLeft(LAMBDA n, unit : n + Len(unit) + 1, 0, Front(line))

\* <<>>, which is no line, is the InvalidMessage that encode throws for a line
\* that is too long.  (decode checks no length.)
encode(m) ==
  IF Length(Joined(m)) > MAX_ENCODED_LEN THEN <<>> ELSE Joined(m)

\* What operator>> makes of a unit: nothing of "", a sentence falls apart.
Words(unit) ==
  IF unit = "" THEN <<>> ELSE IF unit \in Sentence THEN <<unit, unit>>
                                                   ELSE <<unit>>

\* getline reads up to the next quote.
Unquote(text) ==
  IF text \in Quoted THEN CHOOSE inner \in Inner : text = Quote(inner) ELSE text

decode(line) ==
  IF line = <<>> \/ Last(line) # NL THEN Invalid
  ELSE LET words == FlattenSeq([i \in DOMAIN Front(line) |-> Words(line[i])])
           m == IF words = <<>> THEN Message("NONE", <<>>)
                ELSE Message(string_to_message_type(words[1]),
                             [i \in 1..Len(words) - 1 |-> Unquote(words[i + 1])])
       IN IF is_valid(m) THEN m ELSE Invalid
=============================================================================
