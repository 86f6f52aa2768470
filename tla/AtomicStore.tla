----------------------------- MODULE AtomicStore ----------------------------
(***************************************************************************)
(* What the tables of the server promise to sessions, without locks or     *)
(* threads: a write outside a transaction is one step; the writes of a     *)
(* transaction stay private to it and reach all of its tables in one step, *)
(* its commit; a table with private writes of one session can be neither   *)
(* read nor written by anyone else; nothing is ever rolled back.           *)
(***************************************************************************)
EXTENDS Table

CONSTANTS Session, Obj

VARIABLES
  store,    \* the committed contents of every table
  pending,  \* the private writes of every session to every table
  answer    \* the value a session is about to be handed, or Nil

vars == <<store, pending, answer>>

Init ==
  /\ store = [o \in Obj |-> EmptyMap]
  /\ pending = [c \in Session |-> [o \in Obj |-> EmptyMap]]
  /\ answer = [c \in Session |-> Nil]

\* No session of S has private writes to o.
NoPending(S, o) == \A d \in S : IsEmpty(pending[d][o])

\* A SET outside a transaction.
Write(o, k, v) ==
  /\ NoPending(Session, o)
  /\ store' = [store EXCEPT ![o] = Put(@, k, v)]
  /\ UNCHANGED <<pending, answer>>

\* A SET inside the transaction of c.
Stage(c, o, k, v) ==
  /\ NoPending(Session \ {c}, o)
  /\ pending' = [pending EXCEPT ![c][o] = Put(@, k, v)]
  /\ UNCHANGED <<store, answer>>

\* A GET finds the committed value of a table nobody is changing.
Read(c, o, k) ==
  /\ NoPending(Session, o)
  /\ store[o][k] # Nil
  /\ answer' = [answer EXCEPT ![c] = store[o][k]]
  /\ UNCHANGED <<store, pending>>

\* The value has been handed over.
Handed(c) ==
  /\ answer' = [answer EXCEPT ![c] = Nil]
  /\ UNCHANGED <<store, pending>>

Commit(c) ==
  /\ store' = [o \in Obj |-> Merge(store[o], pending[c][o])]
  /\ pending' = [pending EXCEPT ![c] = [o \in Obj |-> EmptyMap]]
  /\ UNCHANGED answer

Next ==
  \/ \E o \in Obj, k \in Key, v \in Val :
       \/ Write(o, k, v)
       \/ \E c \in Session : Stage(c, o, k, v)
  \/ \E c \in Session, o \in Obj, k \in Key : Read(c, o, k)
  \/ \E c \in Session : Handed(c) \/ Commit(c)

Spec == Init /\ [][Next]_vars
=============================================================================
