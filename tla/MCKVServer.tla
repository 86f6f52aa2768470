----------------------------- MODULE MCKVServer -----------------------------
(* KVServer on small instances: the constants of the .cfg files.           *)
EXTENDS KVServerProps, TLC

\* Connections and table names are interchangeable, and so are the long keys,
\* the other keys, the long values and the other values.
Symm == Permutations(Conn) \cup Permutations(TableName)
          \cup Permutations(Key \cap Long) \cup Permutations(Key \ Long)
          \cup Permutations(Val \cap Long) \cup Permutations(Val \ Long)

(***************************************************************************)
(* The states the server reaches once every client has logged in and one   *)
(* of them has created each table: runs that start there spend no states   *)
(* on the prelude.                                                         *)
(***************************************************************************)
WarmInit ==
  \E names \in [1..Cardinality(TableName) -> TableName] :
    /\ \A n \in TableName : \E i \in DOMAIN names : names[i] = n
    /\ InitWith(names, TRUE)

WarmSpec == WarmInit /\ [][Next]_vars

WarmFairSpec == WarmSpec /\ \A c \in Conn : WF_vars(Step(c))
=============================================================================
