--------------------------- MODULE KVServerProps ----------------------------
(***************************************************************************)
(* What is true of KVServer, and what the repository says of it that is    *)
(* not.  Unlocking a table twice is undefined behaviour, so the invariants *)
(* about locks are stated up to the first time that happens                *)
(* (overreleased); the run kv_double_unlock shows what becomes of them     *)
(* afterwards.                                                             *)
(***************************************************************************)
EXTENDS KVServer

Cur == [name : TableName \cup {Nil}, key : Key \cup {Nil},
        obj : 0..MaxTables, val : Val \cup {Nil}]

ServerType ==
  /\ process \in {"up", "down"}
  /\ tables \in Seq(TableName)
  /\ Len(tables) <= MaxTables

TableType ==
  /\ data \in [Obj -> KVMap]
  /\ staged_data \in [Obj -> KVMap]
  /\ mutex \in [Obj -> Conn \cup {Nil}]
  /\ is_locked \in [Obj -> BOOLEAN]
  /\ overreleased \in BOOLEAN

SessionType ==
  /\ is_logged_in \in [Conn -> BOOLEAN]
  /\ in_transaction \in [Conn -> BOOLEAN]
  /\ locked_tables \in [Conn -> SUBSET TableName]
  /\ stack \in [Conn -> Seq(Val)]

ThreadType ==
  /\ pc \in [Conn -> Labels]
  /\ cur \in [Conn -> Cur]
  /\ todo \in [Conn -> SUBSET TableName]
  /\ resp \in [Conn -> Replies]

LinkType ==
  /\ link \in [Conn -> {"open", "fin", "rst", "dead"}]
  /\ owed \in [Conn -> Int]

\* Every variable keeps its type (members declared in server.h, table.h and
\* client_connection.h); the vector of tables stays within its bound.
TypeOK == ServerType /\ TableType /\ SessionType /\ ThreadType /\ LinkType
-----------------------------------------------------------------------------
\* The thread has locked its cur.obj for one handler and will unlock it.
Inside(c) ==
  pc[c] \in {"set_write", "set_unlock", "get_read", "get_unlock", "get_catch"}

\* The names whose tables the transaction of c has locked and not released.
TxnNames(c) ==
  IF pc[c] \in {"commit", "rollback_set", "rollback_commit"}
    THEN todo[c] ELSE locked_tables[c]

TxnTables(c) == {find_table(n) : n \in TxnNames(c)}

\* What the control flow of c has locked and not unlocked.
Locks(c) == TxnTables(c) \cup (IF Inside(c) THEN {cur[c].obj} ELSE {})

\* "The mutex ensures that only one thread can perform operations on the
\* table data at a time" (README:12): no two threads are, by their control
\* flow, both entitled to use the maps of one table.
MutualExclusion ==
  \A o \in Obj : \A c, d \in Conn :
    o \in Locks(c) /\ o \in Locks(d) => c = d

\* The locks a transaction or a handler believes it holds (locked_tables is
\* kept by name, in the session) are the mutexes its thread owns, through
\* every interleaving of lock, trylock, unlock, commit and a lost connection;
\* and is_locked, which Table checks instead of the owner, agrees.
LocksAgree ==
  ~overreleased =>
    \A o \in Obj :
      /\ \A c \in Conn : mutex[o] = c <=> o \in Locks(c)
      /\ is_locked[o] <=> mutex[o] # Nil

\* staged_data is one map per table, shared by all sessions: whatever it
\* holds belongs to the one transaction that has the table locked.
StagedHasOwner ==
  ~overreleased =>
    \A o \in Obj : IsEmpty(staged_data[o]) \/
      \E c \in Conn : in_transaction[c] /\ o \in TxnTables(c)

\* A GET that reaches table->get sees no uncommitted write, not even one of
\* its own transaction: the branch of get for checkStaged never runs.
NoUncommittedRead ==
  ~overreleased =>
    \A c \in Conn : pc[c] = "get_read" => IsEmpty(staged_data[cur[c].obj])

\* A session outside a transaction holds no table: a COMMIT, or the rollback
\* after it failed, releases all that the transaction locked.
TxnScope ==
  \A c \in Conn : ~in_transaction[c] => locked_tables[c] = {}

\* None of the "Attempt to ... without lock being held" of table.cpp is ever
\* thrown, so no transaction that has written is ever rolled back.
NoLogicError ==
  ~overreleased =>
    \A c \in Conn :
      /\ pc[c] \in {"set_staged", "set_write", "get_read"}
           => is_locked[cur[c].obj]
      /\ pc[c] \in {"commit", "rollback_set", "rollback_commit"}
           => \A n \in todo[c] : is_locked[find_table(n)]

\* A client gets one reply for each line, whichever path its handler takes,
\* exceptions included; once a table has been unlocked twice a line may get
\* two, the FAILED of a catch and the OK of rollback_transaction, and never
\* more than two or none.
OneReplyPerLine ==
  \A c \in Conn :
    pc[c] = "idle" => owed[c] = 0 \/ (overreleased /\ owed[c] = -1)

\* A thread that waits for a lock while its session holds others is in a GET
\* of a transaction: no SET takes part in a deadlock.
OnlyGetHoldsAndWaits ==
  \A c \in Conn : pc[c] = "set_lock" => Locks(c) = {}

\* Once a name has been resolved, every later find_table of it gives the same
\* table, even when two clients created it at once: COMMIT unlocks what SET
\* locked.
StableLookup ==
  [][\A n \in TableName : find_table(n) # 0
                            => find_table(n)' = find_table(n)]_vars

\* The server has ended in front of a reply that encode refused to write.
Unencodable ==
  process = "down" /\ \E c \in Conn : pc[c] = "send" /\ resp[c] = "too_long"

\* Every command of a transaction is answered, unless it is a GET that waits
\* for its table, or a GET of a missing long key ends the server: SET only
\* tries locks, and COMMIT waits for none.
Waiting(c) == pc[c] \in {"idle", "get_lock"}

TxnAnswered ==
  \A c \in Conn :
    (in_transaction[c] /\ ~Waiting(c)) ~> (Waiting(c) \/ Unencodable)

\* A lock that is not one of a transaction is released, or the server ends in
\* front of an unencodable reply: no handler returns, normally or through its
\* catch, with the table locked, whoever else waits for it or keeps others
\* locked.
LocksReleased ==
  \A o \in Obj, c \in Conn :
    (mutex[o] = c /\ o \notin TxnTables(c))
      ~> (mutex[o] # c \/ o \in TxnTables(c) \/ Unencodable)
-----------------------------------------------------------------------------
(***************************************************************************)
(* The tables implement AtomicStore.  A transaction takes effect when      *)
(* handle_commit starts: what its loop has yet to merge nobody else can    *)
(* see.                                                                    *)
(***************************************************************************)
Committing(o) == \E c \in Conn : pc[c] = "commit" /\ o \in TxnTables(c)

storeBar ==
  [o \in Obj |-> IF Committing(o) THEN Merge(data[o], staged_data[o])
                                  ELSE data[o]]

pendingBar ==
  [c \in Conn |-> [o \in Obj |->
     IF pc[c] # "commit" /\ o \in TxnTables(c) THEN staged_data[o]
                                               ELSE EmptyMap]]

answerBar ==
  [c \in Conn |-> IF pc[c] \in {"get_unlock", "send_get", "get_recatch"}
                    THEN cur[c].val ELSE Nil]

Store == INSTANCE AtomicStore
           WITH Session <- Conn, store <- storeBar, pending <- pendingBar,
                answer <- answerBar

\* Each step of the server is a step of the abstract store or leaves it as
\* it is, until a table is unlocked twice: commits of several tables are
\* atomic, reads see committed data, a lost connection undoes nothing.
AtomicStoreSpec ==
  Store!Init /\ [][overreleased' \/ Store!Next]_(Store!vars)
-----------------------------------------------------------------------------
(* What the repository says and the code does not do. *)

\* A trylock that fails aborts the transaction "to prevent deadlocks"
\* (README:14, 17): no set of threads waits for each other, or for itself.
WaitsFor(c) ==
  IF pc[c] \in {"set_lock", "get_lock"} THEN {mutex[cur[c].obj]} ELSE {}

NoDeadlock ==
  ~\E S \in SUBSET Conn :
     S # {} /\ \A c \in S : WaitsFor(c) \cap S # {}
=============================================================================
