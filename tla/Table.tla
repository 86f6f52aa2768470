------------------------------- MODULE Table --------------------------------
(***************************************************************************)
(* The two std::map members of class Table (csf_assign05/table.h, table.cpp) *)
(* as functions: data and staged_data map every key to a value or to Nil,  *)
(* and Nil stands for "find() returns end()".  The mutex and the flag      *)
(* is_locked belong to the threads that use the table: see KVServer.       *)
(***************************************************************************)
CONSTANTS
  Key,   \* the keys clients use
  Val,   \* the values clients use
  Nil    \* no value, no owner, no table name

KVMap == [Key -> Val \cup {Nil}]

\* Both maps as the constructor of Table leaves them.
EmptyMap == [k \in Key |-> Nil]

IsEmpty(m) == m = EmptyMap

\* table->set(key, value, stage) on the map that the flag selects.
Put(m, key, value) == [m EXCEPT ![key] = value]

\* commit_changes: every staged pair overwrites the pair of its key in data.
Merge(data, staged) ==
  [k \in Key |-> IF staged[k] = Nil THEN data[k] ELSE staged[k]]

\* get: the staged value if checkStaged asks for it and there is one, else
\* the committed one; Nil is the std::out_of_range of a missing key.
Lookup(data, staged, key, checkStaged) ==
  IF checkStaged /\ staged[key] # Nil THEN staged[key] ELSE data[key]
=============================================================================
