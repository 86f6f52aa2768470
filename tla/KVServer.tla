------------------------------ MODULE KVServer ------------------------------
(***************************************************************************)
(* The key/value server of csf_assign05: one detached thread per accepted  *)
(* connection (server.cpp) running chat_with_client (client_connection.cpp) *)
(* against tables that all threads share (table.cpp).  A thread is its     *)
(* program counter pc[c]; between two of its labels it reads or writes at  *)
(* most one piece of shared state, so TLC interleaves the threads at every *)
(* lock operation, table access, table lookup and send.                    *)
(*                                                                         *)
(* Tables are the objects 1..MaxTables, numbered in creation order.        *)
(***************************************************************************)
EXTENDS Table, Integers, Sequences, FiniteSets

CONSTANTS
  Conn,        \* the connections that are ever accepted, one thread each
  TableName,   \* the table names clients use
  MaxTables,   \* bound: tables created
  MaxStack,    \* bound: values on one operand stack
  Long,        \* the keys and values too long for the text of a reply
  Commands,    \* the commands clients send, a subset of AllCommands
  Disconnects  \* the ways clients drop a connection: "fin", "rst"

\* The message types a request can have.  "INVALID" is a line that decode
\* rejects, "NONE" a valid message that is no request (OK, DATA...).
AllCommands == {"LOGIN", "CREATE", "PUSH", "POP", "TOP", "SET", "GET",
                "BEGIN", "COMMIT", "BYE", "INVALID", "NONE"}

ASSUME ConstantsAssumption ==
  /\ MaxTables \in Nat
  /\ MaxStack \in Nat
  /\ Long \subseteq Key \cup Val
  /\ Commands \subseteq AllCommands
  /\ Disconnects \subseteq {"fin", "rst"}
  /\ Nil \notin Conn \cup TableName \cup Key \cup Val

Obj == 1..MaxTables

\* The local variables of a handler: tableName, key, table and value.
Locals(n, k, o, v) == [name |-> n, key |-> k, obj |-> o, val |-> v]

NoCur == Locals(Nil, Nil, 0, Nil)

\* Labels of the calls of send_response, by what surrounds the call: nothing
\* ("send"), the end of the loop, the try of a handler, the catch of
\* handle_set, or rollback_transaction called from a catch.
SendSites == {"send", "send_end", "send_stack", "send_set", "send_get",
              "send_commit", "catch_set", "rolled_set", "rolled_commit"}

Labels == SendSites \cup
  {"none", "idle", "create", "set_trylock", "set_staged", "set_lock",
   "set_write", "set_unlock", "get_lock", "get_read", "get_unlock",
   "get_catch", "get_recatch", "commit", "rollback_set", "rollback_commit",
   "exiting", "closed"}

\* A reply's type; "too_long" is one whose text holds a key or a value of Long.
Replies == {"none", "ok", "data", "failed", "error", "too_long"}

VARIABLES
  process,       \* "up", or "down" once the whole server has ended
  tables,        \* Server::tables: the names, in push_back order
  data,          \* Table::data of every object
  staged_data,   \* Table::staged_data
  mutex,         \* Table::mutex: the thread that locked it, or Nil
  is_locked,     \* Table::is_locked
  is_logged_in,  \* ClientConnection::is_logged_in
  in_transaction,\* ClientConnection::in_transaction
  locked_tables, \* ClientConnection::locked_tables
  stack,         \* ClientConnection::stack, its top first
  pc,            \* where the thread is
  cur,           \* the running handler's local variables
  todo,          \* locked_tables a commit or rollback loop has yet to visit
  resp,          \* the reply about to be sent
  link,          \* the socket, as the kernel presents it to the server
  owed,          \* history: replies owed to the client
  overreleased   \* history: some thread has unlocked a table twice

serverVars == <<process, tables>>
tableVars == <<data, staged_data, mutex, is_locked, overreleased>>
sessionVars == <<is_logged_in, in_transaction, locked_tables, stack>>
threadVars == <<pc, cur, todo, resp>>
linkVars == <<link, owed>>
vars == <<serverVars, tableVars, sessionVars, threadVars, linkVars>>

\* The tables named, in order, and every connection accepted and logged in or
\* none accepted yet; nothing stored, locked or under way.
InitWith(names, connected) ==
  /\ process = "up"
  /\ tables = names
  /\ data = [o \in Obj |-> EmptyMap]
  /\ staged_data = [o \in Obj |-> EmptyMap]
  /\ mutex = [o \in Obj |-> Nil]
  /\ is_locked = [o \in Obj |-> FALSE]
  /\ is_logged_in = [c \in Conn |-> connected]
  /\ in_transaction = [c \in Conn |-> FALSE]
  /\ locked_tables = [c \in Conn |-> {}]
  /\ stack = [c \in Conn |-> <<>>]
  /\ pc = [c \in Conn |-> IF connected THEN "idle" ELSE "none"]
  /\ cur = [c \in Conn |-> NoCur]
  /\ todo = [c \in Conn |-> {}]
  /\ resp = [c \in Conn |-> "none"]
  /\ link = [c \in Conn |-> "open"]
  /\ owed = [c \in Conn |-> 0]
  /\ overreleased = FALSE

Init == InitWith(<<>>, FALSE)
-----------------------------------------------------------------------------
\* find_table: the first table of that name, 0 for the null pointer.
find_table(n) ==
  LET first == {i \in 1..Len(tables) :
                  tables[i] = n /\ \A j \in 1..(i - 1) : tables[j] # n}
  IN IF first = {} THEN 0 ELSE CHOOSE i \in first : TRUE

At(c, label) == process = "up" /\ pc[c] = label

Goto(c, label) == pc' = [pc EXCEPT ![c] = label]

\* The handler reaches a send_response of that type.
Respond(c, site, type) ==
  /\ Goto(c, site)
  /\ resp' = [resp EXCEPT ![c] = type]

\* Mutants: the lock does not wait; the flag is not set.
Lock_NoWait(c, o) ==
  /\ mutex' = [mutex EXCEPT ![o] = c]
  /\ is_locked' = [is_locked EXCEPT ![o] = TRUE]

Lock_NoFlag(c, o) ==
  /\ mutex[o] = Nil
  /\ mutex' = [mutex EXCEPT ![o] = c]
  /\ UNCHANGED is_locked

\* Table::lock waits for the mutex, Table::trylock fails without it.
Lock(c, o) ==
  /\ mutex[o] = Nil
  /\ mutex' = [mutex EXCEPT ![o] = c]
  /\ is_locked' = [is_locked EXCEPT ![o] = TRUE]

\* Mutant: the mutex stays locked.
Unlock_FlagOnly(o) ==
  /\ is_locked' = [is_locked EXCEPT ![o] = FALSE]
  /\ UNCHANGED mutex

Unlock(o) ==
  /\ mutex' = [mutex EXCEPT ![o] = Nil]
  /\ is_locked' = [is_locked EXCEPT ![o] = FALSE]

(***************************************************************************)
(* chat_with_client reads and decodes a line: the client's next one, one   *)
(* it had sent before it dropped the connection, or, at the end of file,   *)
(* the last one once more (rio_readlineb then returns 0 and leaves buf     *)
(* alone).  Clients may send lines ahead, so any command can be next.      *)
(***************************************************************************)
Reads(c, op) ==
  /\ At(c, "idle")
  /\ op \in Commands
  /\ owed' = [owed EXCEPT ![c] = 1]
  /\ UNCHANGED link
-----------------------------------------------------------------------------
\* server_loop accepts a connection and starts its thread.
Accept(c) ==
  /\ At(c, "none")
  /\ Goto(c, "idle")
  /\ UNCHANGED <<serverVars, tableVars, sessionVars, cur, todo, resp, linkVars>>

\* The line does not decode: ERROR, and the loop ends.
RejectLine(c) ==
  /\ Reads(c, "INVALID")
  /\ Respond(c, "send_end", "error")
  /\ UNCHANGED <<serverVars, tableVars, sessionVars, cur, todo>>

\* Anything but LOGIN before the login: ERROR, and the loop ends.
RejectStranger(c) ==
  /\ ~is_logged_in[c]
  /\ \E op \in Commands \ {"LOGIN", "INVALID"} : Reads(c, op)
  /\ Respond(c, "send_end", "error")
  /\ UNCHANGED <<serverVars, tableVars, sessionVars, cur, todo>>

HandleLogin(c) ==
  /\ Reads(c, "LOGIN")
  /\ Respond(c, "send", IF is_logged_in[c] THEN "error" ELSE "ok")
  /\ is_logged_in' = [is_logged_in EXCEPT ![c] = TRUE]
  /\ UNCHANGED <<serverVars, tableVars, in_transaction, locked_tables, stack,
                 cur, todo>>

\* BYE: OK, and the loop ends.
HandleBye(c) ==
  /\ is_logged_in[c]
  /\ Reads(c, "BYE")
  /\ Respond(c, "send_end", "ok")
  /\ UNCHANGED <<serverVars, tableVars, sessionVars, cur, todo>>

\* The default branch of the switch.
HandleUnsupported(c) ==
  /\ is_logged_in[c]
  /\ Reads(c, "NONE")
  /\ Respond(c, "send", "error")
  /\ UNCHANGED <<serverVars, tableVars, sessionVars, cur, todo>>

HandlePush(c) ==
  /\ is_logged_in[c]
  /\ Len(stack[c]) < MaxStack
  /\ Reads(c, "PUSH")
  /\ \E v \in Val : stack' = [stack EXCEPT ![c] = <<v>> \o @]
  /\ Respond(c, "send", "ok")
  /\ UNCHANGED <<serverVars, tableVars, is_logged_in, in_transaction,
                 locked_tables, cur, todo>>

\* An empty stack throws OperationException inside the try.
HandlePop(c) ==
  /\ is_logged_in[c]
  /\ Reads(c, "POP")
  /\ \/ /\ stack[c] = <<>>
        /\ Respond(c, "send", "failed")
        /\ UNCHANGED stack
     \/ /\ stack[c] # <<>>
        /\ stack' = [stack EXCEPT ![c] = Tail(@)]
        /\ Respond(c, "send_stack", "ok")
  /\ UNCHANGED <<serverVars, tableVars, is_logged_in, in_transaction,
                 locked_tables, cur, todo>>

HandleTop(c) ==
  /\ is_logged_in[c]
  /\ Reads(c, "TOP")
  /\ IF stack[c] = <<>>
       THEN Respond(c, "send", "failed")
       ELSE Respond(c, "send_stack", IF Head(stack[c]) \in Long
                                       THEN "too_long" ELSE "data")
  /\ UNCHANGED <<serverVars, tableVars, sessionVars, cur, todo>>

\* handle_create looks the name up ...
HandleCreate(c) ==
  /\ is_logged_in[c]
  /\ Reads(c, "CREATE")
  /\ \E n \in TableName :
       /\ \/ /\ find_table(n) # 0
             /\ Respond(c, "send", "failed")
             /\ UNCHANGED cur
          \/ /\ find_table(n) = 0
             \* bound: every create under way finds room
             /\ Len(tables) + Cardinality({d \in Conn : pc[d] = "create"})
                  < MaxTables
             /\ cur' = [cur EXCEPT ![c] = Locals(n, Nil, 0, Nil)]
             /\ Goto(c, "create")
             /\ UNCHANGED resp
  /\ UNCHANGED <<serverVars, tableVars, sessionVars, todo>>

\* Mutant: the new table goes to the front.
WithTable_Front(n) == <<n>> \o tables

\* create_table's push_back.
WithTable(n) == Append(tables, n)

\* ... and later, if there was none, adds the new table.
CreateTable(c) ==
  /\ At(c, "create")
  /\ Len(tables) < MaxTables
  /\ tables' = WithTable(cur[c].name)
  /\ Respond(c, "send", "ok")
  /\ UNCHANGED <<process, tableVars, sessionVars, cur, todo, linkVars>>

\* Mutant: a transaction waits for its locks.
SetPath_Waits(c, n) ==
  IF n \in locked_tables[c] THEN "set_staged" ELSE "set_lock"

\* How handle_set gets its table: autocommit, already locked, or trylock.
SetPath(c, n) ==
  IF ~in_transaction[c] THEN "set_lock"
  ELSE IF n \in locked_tables[c] THEN "set_staged" ELSE "set_trylock"

(***************************************************************************)
(* handle_set: an empty stack fails; otherwise the value is popped before  *)
(* the table is looked up, and stays popped if there is no such table.     *)
(***************************************************************************)
HandleSet(c) ==
  /\ is_logged_in[c]
  /\ Reads(c, "SET")
  /\ \E n \in TableName, k \in Key :
       /\ \/ /\ stack[c] = <<>>
             /\ Respond(c, "send", "failed")
             /\ UNCHANGED <<stack, cur>>
          \/ /\ stack[c] # <<>>
             /\ find_table(n) = 0
             /\ stack' = [stack EXCEPT ![c] = Tail(@)]
             /\ Respond(c, "send", "error")
             /\ UNCHANGED cur
          \/ /\ stack[c] # <<>>
             /\ find_table(n) # 0
             /\ stack' = [stack EXCEPT ![c] = Tail(@)]
             /\ cur' = [cur EXCEPT ![c] =
                          Locals(n, k, find_table(n), Head(stack[c]))]
             /\ Goto(c, SetPath(c, n))
             /\ UNCHANGED resp
  /\ UNCHANGED <<serverVars, tableVars, is_logged_in, in_transaction,
                 locked_tables, todo>>

\* In a transaction: the first SET on a table tries its lock once, and leaves
\* the handler with the transaction as it was if another thread has it.
SetTrylock(c) ==
  /\ At(c, "set_trylock")
  /\ LET o == cur[c].obj
     IN \/ /\ mutex[o] # Nil
           /\ Respond(c, "send", "failed")
           /\ UNCHANGED <<mutex, is_locked, locked_tables>>
        \/ /\ Lock(c, o)
           /\ locked_tables' = [locked_tables EXCEPT ![c] =
                                  @ \cup {cur[c].name}]
           /\ Goto(c, "set_staged")
           /\ UNCHANGED resp
  /\ UNCHANGED <<serverVars, data, staged_data, overreleased, is_logged_in,
                 in_transaction, stack, cur, todo, linkVars>>

\* table->set(key, value, true); std::logic_error if is_locked is false.
SetStaged(c) ==
  /\ At(c, "set_staged")
  /\ LET o == cur[c].obj
     IN \/ /\ is_locked[o]
           /\ staged_data' = [staged_data EXCEPT ![o] =
                                Put(@, cur[c].key, cur[c].val)]
           /\ Respond(c, "send_set", "ok")
        \/ /\ ~is_locked[o]
           /\ Respond(c, "catch_set", "failed")
           /\ UNCHANGED staged_data
  /\ UNCHANGED <<serverVars, data, mutex, is_locked, overreleased,
                 sessionVars, cur, todo, linkVars>>

\* Outside a transaction: lock, set, unlock.  A set that throws leaves the
\* table locked: the catch of handle_set does not unlock it.
SetLock(c) ==
  /\ At(c, "set_lock")
  /\ Lock(c, cur[c].obj)
  /\ Goto(c, "set_write")
  /\ UNCHANGED <<serverVars, data, staged_data, overreleased, sessionVars,
                 cur, todo, resp, linkVars>>

SetWrite(c) ==
  /\ At(c, "set_write")
  /\ LET o == cur[c].obj
     IN \/ /\ is_locked[o]
           /\ data' = [data EXCEPT ![o] = Put(@, cur[c].key, cur[c].val)]
           /\ Goto(c, "set_unlock")
           /\ UNCHANGED resp
        \/ /\ ~is_locked[o]
           /\ Respond(c, "catch_set", "failed")
           /\ UNCHANGED data
  /\ UNCHANGED <<serverVars, staged_data, mutex, is_locked, overreleased,
                 sessionVars, cur, todo, linkVars>>

SetUnlock(c) ==
  /\ At(c, "set_unlock")
  /\ Unlock(cur[c].obj)
  /\ Respond(c, "send_set", "ok")
  /\ UNCHANGED <<serverVars, data, staged_data, overreleased, sessionVars,
                 cur, todo, linkVars>>
-----------------------------------------------------------------------------
(***************************************************************************)
(* handle_get locks the table whatever the session: a thread that already  *)
(* holds it, because its transaction wrote there, waits for itself.        *)
(***************************************************************************)
HandleGet(c) ==
  /\ is_logged_in[c]
  /\ Len(stack[c]) < MaxStack
  /\ Reads(c, "GET")
  /\ \E n \in TableName, k \in Key :
       /\ \/ /\ find_table(n) = 0
             /\ Respond(c, "send", "error")
             /\ UNCHANGED cur
          \/ /\ find_table(n) # 0
             /\ cur' = [cur EXCEPT ![c] =
                          Locals(n, k, find_table(n), Nil)]
             /\ Goto(c, "get_lock")
             /\ UNCHANGED resp
  /\ UNCHANGED <<serverVars, tableVars, sessionVars, todo>>

\* Mutant: a transaction reads without locking.
GetLock_NotInTxn(c) ==
  /\ At(c, "get_lock")
  /\ IF in_transaction[c] THEN UNCHANGED <<mutex, is_locked>>
                          ELSE Lock(c, cur[c].obj)
  /\ Goto(c, "get_read")
  /\ UNCHANGED <<serverVars, data, staged_data, overreleased, sessionVars,
                 cur, todo, resp, linkVars>>

GetLock(c) ==
  /\ At(c, "get_lock")
  /\ Lock(c, cur[c].obj)
  /\ Goto(c, "get_read")
  /\ UNCHANGED <<serverVars, data, staged_data, overreleased, sessionVars,
                 cur, todo, resp, linkVars>>

\* Mutant: a missing key does not throw.
GetRead_NoThrow(c) ==
  /\ At(c, "get_read")
  /\ LET v == Lookup(data[cur[c].obj], staged_data[cur[c].obj], cur[c].key,
                     in_transaction[c])
     IN /\ cur' = [cur EXCEPT ![c] =
                     Locals(cur[c].name, cur[c].key, cur[c].obj, v)]
        /\ stack' = [stack EXCEPT ![c] = <<v>> \o @]
  /\ Goto(c, "get_unlock")
  /\ UNCHANGED <<serverVars, tableVars, is_logged_in, in_transaction,
                 locked_tables, todo, resp, linkVars>>

\* table->get, then the push.  A missing key throws, and so does a false
\* is_locked; the catch will send the text, which holds the missing key.
GetRead(c) ==
  /\ At(c, "get_read")
  /\ LET o == cur[c].obj
         v == Lookup(data[o], staged_data[o], cur[c].key, in_transaction[c])
     IN \/ /\ is_locked[o] /\ v # Nil
           /\ cur' = [cur EXCEPT ![c] =
                        Locals(cur[c].name, cur[c].key, o, v)]
           /\ stack' = [stack EXCEPT ![c] = <<v>> \o @]
           /\ Goto(c, "get_unlock")
           /\ UNCHANGED resp
        \/ /\ ~is_locked[o] \/ v = Nil
           /\ Respond(c, "get_catch",
                      IF is_locked[o] /\ cur[c].key \in Long
                        THEN "too_long" ELSE "failed")
           /\ UNCHANGED <<cur, stack>>
  /\ UNCHANGED <<serverVars, tableVars, is_logged_in, in_transaction,
                 locked_tables, todo, linkVars>>

GetUnlock(c) ==
  /\ At(c, "get_unlock")
  /\ Unlock(cur[c].obj)
  /\ Respond(c, "send_get", "ok")
  /\ UNCHANGED <<serverVars, data, staged_data, overreleased, sessionVars,
                 cur, todo, linkVars>>

\* Mutant: the catch does not reply.
GetCatch_Silent(c) ==
  /\ At(c, "get_catch")
  /\ Unlock(cur[c].obj)
  /\ Respond(c, "idle", "none")
  /\ cur' = [cur EXCEPT ![c] = NoCur]
  /\ UNCHANGED <<serverVars, data, staged_data, overreleased, sessionVars,
                 todo, linkVars>>

\* The catch after a failed get: the table is still locked.  It sends the
\* text of the exception.
GetCatch(c) ==
  /\ At(c, "get_catch")
  /\ Unlock(cur[c].obj)
  /\ Goto(c, "send")
  /\ UNCHANGED <<serverVars, data, staged_data, overreleased, sessionVars,
                 cur, todo, resp, linkVars>>

(***************************************************************************)
(* The same catch after a failed send of the OK: the table was unlocked    *)
(* already, and another thread may hold it now.  Unlocking a mutex one     *)
(* does not hold is undefined; glibc frees it.  is_locked is written       *)
(* outside any lock here, so a concurrent Table::lock may overwrite it.    *)
(***************************************************************************)
GetRecatch(c) ==
  /\ At(c, "get_recatch")
  /\ LET o == cur[c].obj
     IN /\ mutex' = [mutex EXCEPT ![o] = Nil]
        /\ \E b \in {FALSE, is_locked[o]} :
             is_locked' = [is_locked EXCEPT ![o] = b]
  /\ overreleased' = TRUE
  /\ Respond(c, "send", "failed")
  /\ UNCHANGED <<serverVars, data, staged_data, sessionVars, cur, todo,
                 linkVars>>
-----------------------------------------------------------------------------
HandleBegin(c) ==
  /\ is_logged_in[c]
  /\ Reads(c, "BEGIN")
  /\ IF in_transaction[c]
       THEN /\ Respond(c, "send", "failed")
            /\ UNCHANGED <<in_transaction, locked_tables>>
       ELSE /\ in_transaction' = [in_transaction EXCEPT ![c] = TRUE]
            /\ locked_tables' = [locked_tables EXCEPT ![c] = {}]
            /\ Respond(c, "send", "ok")
  /\ UNCHANGED <<serverVars, tableVars, is_logged_in, stack, cur, todo>>

HandleCommit(c) ==
  /\ is_logged_in[c]
  /\ Reads(c, "COMMIT")
  /\ IF in_transaction[c]
       THEN /\ Goto(c, "commit")
            /\ todo' = [todo EXCEPT ![c] = locked_tables[c]]
            /\ UNCHANGED resp
       ELSE /\ Respond(c, "send", "failed")
            /\ UNCHANGED todo
  /\ UNCHANGED <<serverVars, tableVars, sessionVars, cur>>

\* Mutants: the pairs stay staged; they are cleared before they are copied.
CommitChanges_NoClear(o) ==
  /\ data' = [data EXCEPT ![o] = Merge(@, staged_data[o])]
  /\ UNCHANGED staged_data

CommitChanges_Loses(o) ==
  /\ staged_data' = [staged_data EXCEPT ![o] = EmptyMap]
  /\ UNCHANGED data

CommitChanges(o) ==
  /\ data' = [data EXCEPT ![o] = Merge(@, staged_data[o])]
  /\ staged_data' = [staged_data EXCEPT ![o] = EmptyMap]

(***************************************************************************)
(* One iteration of the loop of handle_commit: commit_changes and unlock   *)
(* of the next table, skipped if the name is not found.  (std::set visits  *)
(* the names in order; here any order.)                                    *)
(***************************************************************************)
CommitTable(c) ==
  /\ At(c, "commit")
  /\ \E n \in todo[c] :
       LET o == find_table(n)
       IN /\ o \in Obj => is_locked[o]
          /\ CommitChanges(o)
          /\ Unlock(o)
          /\ todo' = [todo EXCEPT ![c] = @ \ {n}]
  /\ UNCHANGED <<serverVars, overreleased, sessionVars, pc, cur, resp,
                 linkVars>>

\* commit_changes throws std::logic_error: rollback_transaction starts over
\* on all of locked_tables.
CommitThrows(c) ==
  /\ At(c, "commit")
  /\ \E n \in todo[c] : find_table(n) \in Obj /\ ~is_locked[find_table(n)]
  /\ todo' = [todo EXCEPT ![c] = locked_tables[c]]
  /\ Goto(c, "rollback_commit")
  /\ UNCHANGED <<serverVars, tableVars, sessionVars, cur, resp, linkVars>>

\* Mutant: locked_tables is not cleared.
EndTransaction_NoClear(c) ==
  /\ in_transaction' = [in_transaction EXCEPT ![c] = FALSE]
  /\ UNCHANGED locked_tables

\* The session's transaction is over.
EndTransaction(c) ==
  /\ locked_tables' = [locked_tables EXCEPT ![c] = {}]
  /\ in_transaction' = [in_transaction EXCEPT ![c] = FALSE]

CommitDone(c) ==
  /\ At(c, "commit")
  /\ todo[c] = {}
  /\ EndTransaction(c)
  /\ Respond(c, "send_commit", "ok")
  /\ UNCHANGED <<serverVars, tableVars, is_logged_in, stack, cur, todo,
                 linkVars>>

RollingBack(c) == At(c, "rollback_set") \/ At(c, "rollback_commit")

\* One iteration of rollback_transaction.
RollbackTable(c) ==
  /\ RollingBack(c)
  /\ \E n \in todo[c] :
       LET o == find_table(n)
       IN /\ o \in Obj => is_locked[o]
          /\ staged_data' = [staged_data EXCEPT ![o] = EmptyMap]
          /\ Unlock(o)
          /\ todo' = [todo EXCEPT ![c] = @ \ {n}]
  /\ UNCHANGED <<serverVars, data, overreleased, sessionVars, pc, cur, resp,
                 linkVars>>

\* rollback_changes throws inside a catch; client_worker catches only
\* CommException, so std::terminate ends the server.
RollbackThrows(c) ==
  /\ RollingBack(c)
  /\ \E n \in todo[c] : find_table(n) \in Obj /\ ~is_locked[find_table(n)]
  /\ process' = "down"
  /\ UNCHANGED <<tables, tableVars, sessionVars, threadVars, linkVars>>

RollbackDone(c) ==
  /\ RollingBack(c)
  /\ todo[c] = {}
  /\ EndTransaction(c)
  /\ Respond(c, IF pc[c] = "rollback_set" THEN "rolled_set"
                                          ELSE "rolled_commit", "ok")
  /\ UNCHANGED <<serverVars, tableVars, is_logged_in, stack, cur, todo,
                 linkVars>>
-----------------------------------------------------------------------------
(***************************************************************************)
(* send_response encodes the reply first: encode throws InvalidMessage if  *)
(* it is too long.  In the try of handle_top that is caught and answered;  *)
(* in the catch of handle_get it leaves the thread, where client_worker    *)
(* catches only CommException, so that std::terminate ends the server.     *)
(***************************************************************************)
EncodeThrows(c) ==
  /\ process = "up"
  /\ pc[c] \in SendSites
  /\ resp[c] = "too_long"
  /\ \/ /\ pc[c] = "send_stack"
        /\ Respond(c, "send", "failed")
        /\ UNCHANGED process
     \/ /\ pc[c] # "send_stack"
        /\ process' = "down"
        /\ UNCHANGED <<pc, resp>>
  /\ UNCHANGED <<tables, tableVars, sessionVars, cur, todo, linkVars>>

(***************************************************************************)
(* Then it writes.  Towards an open socket, and once towards a client that  *)
(* has closed its side, the write succeeds; the answer of the latter's     *)
(* kernel makes the socket dead.  After a reset the first write fails,     *)
(* which send_response turns into a CommException.  A write to a dead      *)
(* socket raises SIGPIPE, which nothing ignores or handles: it ends the    *)
(* server.                                                                 *)
(***************************************************************************)
Sends(c) ==
  /\ process = "up"
  /\ resp[c] # "too_long"
  /\ link[c] \in {"open", "fin"}
  /\ link' = [link EXCEPT ![c] = IF @ = "fin" THEN "dead" ELSE @]
  /\ owed' = [owed EXCEPT ![c] = @ - 1]

\* The handler returns, and the loop goes on.
Returns(c) ==
  /\ Respond(c, "idle", "none")
  /\ cur' = [cur EXCEPT ![c] = NoCur]

SendReply(c) ==
  /\ pc[c] \in {"send", "send_stack", "send_set", "send_get", "send_commit",
                "rolled_set"}
  /\ Sends(c)
  /\ Returns(c)
  /\ UNCHANGED <<serverVars, tableVars, sessionVars, todo>>

\* The reply after which the loop ends.
SendLast(c) ==
  /\ pc[c] = "send_end"
  /\ Sends(c)
  /\ Respond(c, "exiting", "none")
  /\ UNCHANGED <<serverVars, tableVars, sessionVars, cur, todo>>

\* The FAILED of handle_set's catch, which then rolls a transaction back.
SendCaught(c) ==
  /\ pc[c] = "catch_set"
  /\ Sends(c)
  /\ \/ /\ in_transaction[c]
        /\ Respond(c, "rollback_set", "none")
        /\ todo' = [todo EXCEPT ![c] = locked_tables[c]]
        /\ UNCHANGED cur
     \/ /\ ~in_transaction[c]
        /\ Returns(c)
        /\ UNCHANGED todo
  /\ UNCHANGED <<serverVars, tableVars, sessionVars>>

\* rollback_transaction's OK, after which handle_commit sends its FAILED.
SendRolledBack(c) ==
  /\ pc[c] = "rolled_commit"
  /\ Sends(c)
  /\ Respond(c, "send", "failed")
  /\ UNCHANGED <<serverVars, tableVars, sessionVars, cur, todo>>

\* Mutant: the catches ignore a failed send.
AfterThrow_Ignored(site) ==
  IF site \in {"send_stack", "send_set", "send_get", "send_commit"}
    THEN "idle" ELSE "exiting"

\* CommException is a std::exception: the try around a send catches it.  Any
\* other one leaves chat_with_client, and client_worker catches it.
AfterThrow(site) ==
  CASE site = "send_stack"  -> "send"
    [] site = "send_set"    -> "catch_set"
    [] site = "send_get"    -> "get_recatch"
    [] site = "send_commit" -> "rollback_commit"
    [] OTHER                -> "exiting"

SendThrows(c) ==
  /\ process = "up"
  /\ pc[c] \in SendSites
  /\ resp[c] # "too_long"
  /\ link[c] = "rst"
  /\ link' = [link EXCEPT ![c] = "dead"]
  /\ Respond(c, AfterThrow(pc[c]),
             IF pc[c] \in {"send_stack", "send_set"} THEN "failed" ELSE "none")
  /\ todo' = [todo EXCEPT ![c] =
                IF pc[c] = "send_commit" THEN locked_tables[c] ELSE @]
  /\ UNCHANGED <<serverVars, tableVars, sessionVars, cur, owed>>

SendKilled(c) ==
  /\ process = "up"
  /\ pc[c] \in SendSites
  /\ resp[c] # "too_long"
  /\ link[c] = "dead"
  /\ process' = "down"
  /\ UNCHANGED <<tables, tableVars, sessionVars, threadVars, linkVars>>

\* Rio_readlineb exits the server when a read fails.
ReadError(c) ==
  /\ At(c, "idle")
  /\ link[c] = "rst"
  /\ process' = "down"
  /\ UNCHANGED <<tables, tableVars, sessionVars, threadVars, linkVars>>

\* ~ClientConnection: closes the socket and deletes the stack, no more.  The
\* other members are kept here only to say what the dead session held.
Close(c) ==
  /\ At(c, "exiting")
  /\ Goto(c, "closed")
  /\ stack' = [stack EXCEPT ![c] = <<>>]
  /\ cur' = [cur EXCEPT ![c] = NoCur]
  /\ UNCHANGED <<serverVars, tableVars, is_logged_in, in_transaction,
                 locked_tables, todo, resp, linkVars>>

\* A client closes or resets its connection.
Disconnect(c) ==
  /\ process = "up"
  /\ pc[c] \notin {"none", "closed"}
  /\ link[c] = "open"
  /\ \E d \in Disconnects : link' = [link EXCEPT ![c] = d]
  /\ UNCHANGED <<serverVars, tableVars, sessionVars, threadVars, owed>>
-----------------------------------------------------------------------------
\* What a thread does on its own between reading a line and the next read.
Step(c) ==
  \/ CreateTable(c)
  \/ SetTrylock(c) \/ SetStaged(c)
  \/ SetLock(c) \/ SetWrite(c) \/ SetUnlock(c)
  \/ GetLock(c) \/ GetRead(c) \/ GetUnlock(c) \/ GetCatch(c) \/ GetRecatch(c)
  \/ CommitTable(c) \/ CommitThrows(c) \/ CommitDone(c)
  \/ RollbackTable(c) \/ RollbackThrows(c) \/ RollbackDone(c)
  \/ EncodeThrows(c)
  \/ SendReply(c) \/ SendLast(c) \/ SendCaught(c) \/ SendRolledBack(c)
  \/ SendThrows(c) \/ SendKilled(c) \/ ReadError(c) \/ Close(c)

\* What needs a client: a new connection, a line.
Receive(c) ==
  \/ Accept(c)
  \/ RejectLine(c) \/ RejectStranger(c)
  \/ HandleLogin(c) \/ HandleBye(c) \/ HandleUnsupported(c)
  \/ HandlePush(c) \/ HandlePop(c) \/ HandleTop(c)
  \/ HandleCreate(c) \/ HandleSet(c) \/ HandleGet(c)
  \/ HandleBegin(c) \/ HandleCommit(c)

Next == \E c \in Conn : Step(c) \/ Receive(c) \/ Disconnect(c)

Spec == Init /\ [][Next]_vars

\* Every thread runs when it can, each blocked one is woken while its mutex
\* stays free; pthread mutexes promise no more than that to a waiter.
FairSpec == Spec /\ \A c \in Conn : WF_vars(Step(c))
=============================================================================
