--------------------------- MODULE KVServerProofs ---------------------------
(***************************************************************************)
(* Proofs about KVServer for any connections, tables, keys, values and     *)
(* bounds: types and control flow, locks, staged data and replies, and     *)
(* that the tables implement AtomicStore.                                  *)
(***************************************************************************)
EXTENDS KVServerProps, TLAPS

-----------------------------------------------------------------------------
(* find_table *)

\* find_table returns 0 or a table of that name, the first one.
LEMMA FindResult ==
  ASSUME tables \in Seq(TableName), NEW n
  PROVE  /\ find_table(n) \in 0..Len(tables)
         /\ find_table(n) # 0 => tables[find_table(n)] = n
<1> DEFINE first == {i \in 1..Len(tables) :
                       tables[i] = n /\ \A j \in 1..(i - 1) : tables[j] # n}
<1>1. CASE first = {}
  BY <1>1 DEF find_table
<1>2. CASE first # {}
  <2>1. find_table(n) = CHOOSE i \in first : TRUE
    BY <1>2 DEF find_table
  <2>2. find_table(n) \in first
    BY <1>2, <2>1
  <2> QED
    BY <2>2
<1> QED
  BY <1>1, <1>2

\* Two names never resolve to one table.
LEMMA FindInjective ==
  ASSUME tables \in Seq(TableName), NEW m, NEW n,
         find_table(m) = find_table(n), find_table(m) # 0
  PROVE  m = n
BY FindResult

\* An unchanged vector of tables resolves every name as before.
LEMMA FindSame ==
  ASSUME tables' = tables
  PROVE  \A n : find_table(n)' = find_table(n)
BY DEF find_table

\* push_back leaves every name that was resolved where it was.
LEMMA FindAppend ==
  ASSUME tables \in Seq(TableName), NEW m \in TableName,
         tables' = Append(tables, m), NEW n, find_table(n) # 0
  PROVE  find_table(n)' = find_table(n)
<1> DEFINE IsFirst(s, i) == s[i] = n /\ \A j \in 1..(i - 1) : s[j] # n
           first == {i \in 1..Len(tables) : IsFirst(tables, i)}
           firstNew == {i \in 1..Len(tables') : IsFirst(tables', i)}
<1>1. /\ Len(tables') = Len(tables) + 1
      /\ \A i \in 1..Len(tables) : tables'[i] = tables[i]
      /\ Len(tables) \in Nat
  OBVIOUS
<1>2. first # {}
  BY DEF find_table
<1>3. firstNew = first
  <2>1. PICK i \in first : TRUE
    BY <1>2
  <2>2. i \in firstNew
    BY <1>1, <2>1
  <2>3. ASSUME NEW k \in firstNew
        PROVE  k = i
    BY <1>1, <2>1, <2>2, <2>3
  <2>4. ASSUME NEW k \in first
        PROVE  k = i
    BY <2>1, <2>4
  <2> QED
    BY <2>1, <2>2, <2>3, <2>4
<1>4. find_table(n) = CHOOSE i \in first : TRUE
  BY <1>2 DEF find_table
<1>5. find_table(n)' = CHOOSE i \in firstNew : TRUE
  BY <1>2, <1>3 DEF find_table
<1> QED
  BY <1>3, <1>4, <1>5
-----------------------------------------------------------------------------
(* What the control flow knows *)

\* The labels at which a handler has a table that find_table returned.
Busy == {"set_trylock", "set_staged", "set_lock", "set_write", "set_unlock",
         "get_lock", "get_read", "get_unlock", "get_catch"}

\* Where a handler uses its local variables they are what the lookup gave it.
CurValid(c) ==
  /\ pc[c] = "create" => cur[c].name \in TableName
  /\ pc[c] \in Busy =>
       /\ cur[c].name \in TableName
       /\ cur[c].key \in Key
       /\ cur[c].obj = find_table(cur[c].name)
       /\ cur[c].obj # 0

\* What each label knows of the session's transaction.
TxnValid(c) ==
  /\ \A n \in locked_tables[c] : find_table(n) # 0
  /\ todo[c] \subseteq locked_tables[c]
  /\ ~in_transaction[c] => locked_tables[c] = {}
  /\ pc[c] \in {"set_trylock", "set_staged", "commit", "rollback_set"}
       => in_transaction[c]
  /\ pc[c] = "set_staged" => cur[c].name \in locked_tables[c]
  /\ pc[c] \in {"set_lock", "set_write", "set_unlock", "send_commit"}
       => ~in_transaction[c]

\* The types and the control flow, inductive together: a handler's table has
\* a type because the lookup found it.
FlowInv == TypeOK /\ \A c \in Conn : CurValid(c) /\ TxnValid(c)

\* A step keeps every name that resolves where it is.
Stable ==
  \A n \in TableName : find_table(n) # 0 => find_table(n)' = find_table(n)

\* A step of c moves no other thread and changes no other session.
OnlyMoves(c) ==
  \A d \in Conn \ {c} :
    /\ pc'[d] = pc[d] /\ cur'[d] = cur[d] /\ todo'[d] = todo[d]
    /\ locked_tables'[d] = locked_tables[d]
    /\ in_transaction'[d] = in_transaction[d]
-----------------------------------------------------------------------------
(* Types *)

\* The labels and reply types the actions name are in their sets.
LEMMA LabelFacts ==
  /\ "send" \in Labels /\ "send_end" \in Labels /\ "send_stack" \in Labels
  /\ "send_set" \in Labels /\ "send_get" \in Labels
  /\ "send_commit" \in Labels /\ "catch_set" \in Labels
  /\ "rolled_set" \in Labels /\ "rolled_commit" \in Labels
  /\ "none" \in Labels /\ "idle" \in Labels /\ "create" \in Labels
  /\ "set_trylock" \in Labels /\ "set_staged" \in Labels
  /\ "set_lock" \in Labels /\ "set_write" \in Labels
  /\ "set_unlock" \in Labels /\ "get_lock" \in Labels
  /\ "get_read" \in Labels /\ "get_unlock" \in Labels
  /\ "get_catch" \in Labels /\ "get_recatch" \in Labels
  /\ "commit" \in Labels /\ "rollback_set" \in Labels
  /\ "rollback_commit" \in Labels /\ "exiting" \in Labels
  /\ "closed" \in Labels
BY DEF Labels, SendSites

\* The same for the types of replies.
LEMMA ReplyFacts ==
  /\ "none" \in Replies /\ "ok" \in Replies /\ "data" \in Replies
  /\ "failed" \in Replies /\ "error" \in Replies
  /\ "too_long" \in Replies
BY DEF Replies

\* A handler's local variables have the type of cur.
LEMMA LocalsType ==
  ASSUME NEW n \in TableName \cup {Nil}, NEW k \in Key \cup {Nil},
         NEW o \in 0..MaxTables, NEW v \in Val \cup {Nil}
  PROVE  Locals(n, k, o, v) \in Cur
BY DEF Locals, Cur

\* So has the record of an idle thread.
LEMMA NoCurType == NoCur \in Cur
BY ConstantsAssumption, LocalsType DEF NoCur

\* The fields of cur have the types cur declares.
LEMMA CurFields ==
  \A x \in Cur : /\ x.name \in TableName \cup {Nil}
                 /\ x.key \in Key \cup {Nil}
                 /\ x.obj \in 0..MaxTables
                 /\ x.val \in Val \cup {Nil}
BY DEF Cur

\* The operations of Table keep its maps maps from keys to values.
LEMMA MapType ==
  /\ EmptyMap \in KVMap
  /\ \A m \in KVMap, k \in Key \cup {Nil}, v \in Val \cup {Nil} :
       Put(m, k, v) \in KVMap
  /\ \A m, s \in KVMap : Merge(m, s) \in KVMap
BY DEF EmptyMap, KVMap, Put, Merge

\* Every action keeps every variable in its type.
LEMMA TypeAction ==
  ASSUME TypeOK, NEW c \in Conn, CurValid(c),
         Step(c) \/ Receive(c) \/ Disconnect(c)
  PROVE  TypeOK'
<1> USE DEF At, Goto, Respond, Reads, Sends, Returns, Lock, Unlock,
            EndTransaction, serverVars, tableVars, sessionVars, threadVars,
            linkVars
<1>1. CASE Accept(c)
  BY <1>1, LabelFacts, ReplyFacts
     DEF Accept, TypeOK, ServerType, TableType, SessionType,
         ThreadType, LinkType
<1>2. CASE RejectLine(c)
  BY <1>2, LabelFacts, ReplyFacts
     DEF RejectLine, TypeOK, ServerType, TableType, SessionType,
         ThreadType, LinkType
<1>3. CASE RejectStranger(c)
  BY <1>3, LabelFacts, ReplyFacts
     DEF RejectStranger, TypeOK, ServerType, TableType, SessionType,
         ThreadType, LinkType
<1>4. CASE HandleLogin(c)
  BY <1>4, LabelFacts, ReplyFacts
     DEF HandleLogin, TypeOK, ServerType, TableType, SessionType,
         ThreadType, LinkType
<1>5. CASE HandleBye(c)
  BY <1>5, LabelFacts, ReplyFacts
     DEF HandleBye, TypeOK, ServerType, TableType, SessionType,
         ThreadType, LinkType
<1>6. CASE HandleUnsupported(c)
  BY <1>6, LabelFacts, ReplyFacts
     DEF HandleUnsupported, TypeOK, ServerType, TableType, SessionType,
         ThreadType, LinkType
<1>7. CASE HandlePush(c)
  BY <1>7, LabelFacts, ReplyFacts
     DEF HandlePush, TypeOK, ServerType, TableType, SessionType,
         ThreadType, LinkType
<1>8. CASE HandlePop(c)
  <2>1. stack' \in [Conn -> Seq(Val)]
    <3>1. stack \in [Conn -> Seq(Val)]
      BY DEF TypeOK, SessionType
    <3>2. stack[c] # <<>> => Tail(stack[c]) \in Seq(Val)
      BY <3>1
    <3> QED
      BY <1>8, <3>1, <3>2 DEF HandlePop
  <2>2. pc' \in [Conn -> Labels] /\ resp' \in [Conn -> Replies]
    BY <1>8, LabelFacts, ReplyFacts DEF HandlePop, TypeOK, ThreadType
  <2>3. LinkType'
    BY <1>8 DEF HandlePop, TypeOK, LinkType
  <2> QED
    BY <1>8, <2>1, <2>2, <2>3
       DEF HandlePop, TypeOK, ServerType, TableType, SessionType, ThreadType
<1>9. CASE HandleTop(c)
  <2>1. pc' \in [Conn -> Labels] /\ resp' \in [Conn -> Replies]
    BY <1>9, LabelFacts, ReplyFacts DEF HandleTop, TypeOK, ThreadType
  <2>2. LinkType'
    BY <1>9 DEF HandleTop, TypeOK, LinkType
  <2>3. UNCHANGED <<serverVars, tableVars, sessionVars, cur, todo>>
    BY <1>9 DEF HandleTop
  <2> QED
    BY <2>1, <2>2, <2>3
       DEF TypeOK, ServerType, TableType, SessionType, ThreadType
<1>10. CASE HandleCreate(c)
  <2>1. pc' \in [Conn -> Labels] /\ resp' \in [Conn -> Replies]
    BY <1>10, LabelFacts, ReplyFacts DEF HandleCreate, TypeOK, ThreadType
  <2>2. cur' \in [Conn -> Cur]
    <3>1. cur \in [Conn -> Cur] /\ 0 \in 0..MaxTables
      BY ConstantsAssumption DEF TypeOK, ThreadType
    <3>2. \/ cur' = cur
          \/ \E n \in TableName :
               cur' = [cur EXCEPT ![c] = Locals(n, Nil, 0, Nil)]
      BY <1>10 DEF HandleCreate
    <3> QED
      BY <3>1, <3>2, LocalsType
  <2> QED
    BY <1>10, <2>1, <2>2
       DEF HandleCreate, TypeOK, ServerType, TableType, SessionType,
           ThreadType, LinkType
<1>11. CASE HandleSet(c)
  <2>1. stack \in [Conn -> Seq(Val)] /\ cur \in [Conn -> Cur]
    BY DEF TypeOK, SessionType, ThreadType
  <2>2. stack[c] # <<>> => Tail(stack[c]) \in Seq(Val) /\ Head(stack[c]) \in Val
    BY <2>1
  <2>3. stack' \in [Conn -> Seq(Val)]
    BY <1>11, <2>1, <2>2 DEF HandleSet
  <2>4. pc' \in [Conn -> Labels] /\ resp' \in [Conn -> Replies]
    BY <1>11, LabelFacts, ReplyFacts DEF HandleSet, SetPath, TypeOK, ThreadType
  <2>5. \A n \in TableName : find_table(n) \in 0..MaxTables
    BY FindResult, ConstantsAssumption DEF TypeOK, ServerType
  <2>6. cur' \in [Conn -> Cur]
    <3>1. \/ cur' = cur
          \/ \E n \in TableName, k \in Key :
               /\ stack[c] # <<>>
               /\ cur' = [cur EXCEPT ![c] =
                            Locals(n, k, find_table(n), Head(stack[c]))]
      BY <1>11 DEF HandleSet
    <3>2. ASSUME NEW n \in TableName, NEW k \in Key, stack[c] # <<>>
          PROVE  Locals(n, k, find_table(n), Head(stack[c])) \in Cur
      <4>1. find_table(n) \in 0..MaxTables
        BY <2>5
      <4>2. Head(stack[c]) \in Val \cup {Nil}
        BY <2>2, <3>2
      <4> QED
        BY <4>1, <4>2, LocalsType
    <3> QED
      BY <2>1, <3>1, <3>2
  <2> QED
    BY <1>11, <2>3, <2>4, <2>6
       DEF HandleSet, TypeOK, ServerType, TableType, SessionType, ThreadType,
           LinkType
<1>12. CASE HandleGet(c)
  <2>1. pc' \in [Conn -> Labels] /\ resp' \in [Conn -> Replies]
    BY <1>12, LabelFacts, ReplyFacts DEF HandleGet, TypeOK, ThreadType
  <2>2. \A n \in TableName : find_table(n) \in 0..MaxTables
    BY FindResult, ConstantsAssumption DEF TypeOK, ServerType
  <2>3. cur' \in [Conn -> Cur]
    <3>1. cur \in [Conn -> Cur]
      BY DEF TypeOK, ThreadType
    <3>2. \/ cur' = cur
          \/ \E n \in TableName, k \in Key :
               cur' = [cur EXCEPT ![c] = Locals(n, k, find_table(n), Nil)]
      BY <1>12 DEF HandleGet
    <3> QED
      BY <2>2, <3>1, <3>2, LocalsType
  <2> QED
    BY <1>12, <2>1, <2>3
       DEF HandleGet, TypeOK, ServerType, TableType, SessionType, ThreadType,
           LinkType
<1>13. CASE HandleBegin(c) \/ HandleCommit(c)
  <2>1. pc' \in [Conn -> Labels] /\ resp' \in [Conn -> Replies]
    BY <1>13, LabelFacts, ReplyFacts
       DEF HandleBegin, HandleCommit, TypeOK, ThreadType
  <2>2. todo' \in [Conn -> SUBSET TableName]
    BY <1>13 DEF HandleBegin, HandleCommit, TypeOK, ThreadType, SessionType
  <2>3. SessionType'
    BY <1>13 DEF HandleBegin, HandleCommit, TypeOK, SessionType
  <2> QED
    BY <1>13, <2>1, <2>2, <2>3
       DEF HandleBegin, HandleCommit, TypeOK, ServerType, TableType,
           ThreadType, LinkType
<1>14. CASE CreateTable(c)
  <2>1. ServerType'
    <3>1. /\ process \in {"up", "down"} /\ tables \in Seq(TableName)
          /\ cur[c].name \in TableName
      BY <1>14 DEF TypeOK, ServerType, CurValid, CreateTable
    <3>2. /\ tables' = Append(tables, cur[c].name)
          /\ Len(tables) < MaxTables /\ process' = process
      BY <1>14 DEF CreateTable, WithTable
    <3> QED
      BY <3>1, <3>2, ConstantsAssumption DEF ServerType
  <2>2. pc' \in [Conn -> Labels] /\ resp' \in [Conn -> Replies]
    BY <1>14, LabelFacts, ReplyFacts DEF CreateTable, TypeOK, ThreadType
  <2> QED
    BY <1>14, <2>1, <2>2
       DEF CreateTable, TypeOK, TableType, SessionType, ThreadType, LinkType
<1>15. CASE SetTrylock(c)
  <2>1. /\ mutex' \in [Obj -> Conn \cup {Nil}]
        /\ is_locked' \in [Obj -> BOOLEAN]
    <3>1. /\ mutex \in [Obj -> Conn \cup {Nil}]
          /\ is_locked \in [Obj -> BOOLEAN]
      BY DEF TypeOK, TableType
    <3>2. \/ UNCHANGED <<mutex, is_locked>>
          \/ /\ mutex' = [mutex EXCEPT ![cur[c].obj] = c]
             /\ is_locked' = [is_locked EXCEPT ![cur[c].obj] = TRUE]
      BY <1>15 DEF SetTrylock
    <3> QED
      BY <3>1, <3>2
  <2>2. locked_tables' \in [Conn -> SUBSET TableName]
    <3>1. /\ locked_tables \in [Conn -> SUBSET TableName]
          /\ cur[c].name \in TableName
      BY <1>15 DEF SetTrylock, TypeOK, SessionType, CurValid, Busy
    <3> QED
      BY <1>15, <3>1 DEF SetTrylock
  <2>3. pc' \in [Conn -> Labels] /\ resp' \in [Conn -> Replies]
    BY <1>15, LabelFacts, ReplyFacts DEF SetTrylock, TypeOK, ThreadType
  <2> QED
    BY <1>15, <2>1, <2>2, <2>3
       DEF SetTrylock, TypeOK, ServerType, TableType, SessionType, ThreadType,
           LinkType
<1>16. CASE SetStaged(c)
  <2>1. staged_data' \in [Obj -> KVMap]
    <3>1. staged_data \in [Obj -> KVMap] /\ cur[c] \in Cur
      BY DEF TypeOK, TableType, ThreadType
    <3>2. \A m \in KVMap : Put(m, cur[c].key, cur[c].val) \in KVMap
      BY <3>1, CurFields, MapType
    <3> QED
      BY <1>16, <3>1, <3>2 DEF SetStaged
  <2>2. pc' \in [Conn -> Labels] /\ resp' \in [Conn -> Replies]
    BY <1>16, LabelFacts, ReplyFacts DEF SetStaged, TypeOK, ThreadType
  <2> QED
    BY <1>16, <2>1, <2>2
       DEF SetStaged, TypeOK, ServerType, TableType, SessionType, ThreadType,
           LinkType
<1>17. CASE SetWrite(c)
  <2>1. data' \in [Obj -> KVMap]
    <3>1. data \in [Obj -> KVMap] /\ cur[c] \in Cur
      BY DEF TypeOK, TableType, ThreadType
    <3>2. \A m \in KVMap : Put(m, cur[c].key, cur[c].val) \in KVMap
      BY <3>1, CurFields, MapType
    <3> QED
      BY <1>17, <3>1, <3>2 DEF SetWrite
  <2>2. pc' \in [Conn -> Labels] /\ resp' \in [Conn -> Replies]
    BY <1>17, LabelFacts, ReplyFacts DEF SetWrite, TypeOK, ThreadType
  <2> QED
    BY <1>17, <2>1, <2>2
       DEF SetWrite, TypeOK, ServerType, TableType, SessionType, ThreadType,
           LinkType
<1>18. CASE SetLock(c)
  BY <1>18, LabelFacts, ReplyFacts
     DEF SetLock, TypeOK, ServerType, TableType, SessionType,
         ThreadType, LinkType
<1>19. CASE SetUnlock(c)
  BY <1>19, LabelFacts, ReplyFacts
     DEF SetUnlock, TypeOK, ServerType, TableType, SessionType,
         ThreadType, LinkType
<1>20. CASE GetLock(c)
  BY <1>20, LabelFacts, ReplyFacts
     DEF GetLock, TypeOK, ServerType, TableType, SessionType,
         ThreadType, LinkType
<1>21. CASE GetUnlock(c)
  BY <1>21, LabelFacts, ReplyFacts
     DEF GetUnlock, TypeOK, ServerType, TableType, SessionType,
         ThreadType, LinkType
<1>22. CASE GetCatch(c)
  BY <1>22, LabelFacts, ReplyFacts
     DEF GetCatch, TypeOK, ServerType, TableType, SessionType,
         ThreadType, LinkType
<1>23. CASE GetRecatch(c)
  BY <1>23, LabelFacts, ReplyFacts
     DEF GetRecatch, TypeOK, ServerType, TableType, SessionType,
         ThreadType, LinkType
<1>24. CASE GetRead(c)
  <2>1. PICK v : /\ \/ v \in Val
                    \/ cur' = cur /\ stack' = stack
                 /\ \/ cur' = cur /\ stack' = stack
                    \/ /\ cur' = [cur EXCEPT ![c] = Locals(cur[c].name,
                                          cur[c].key, cur[c].obj, v)]
                       /\ stack' = [stack EXCEPT ![c] = <<v>> \o @]
    <3> DEFINE o == cur[c].obj
               v == Lookup(data[o], staged_data[o], cur[c].key,
                           in_transaction[c])
    <3>1. cur[c].obj \in Obj /\ cur[c].key \in Key
      BY <1>24, FindResult, ConstantsAssumption
         DEF GetRead, CurValid, Busy, TypeOK, ServerType, Obj
    <3>2. data[o] \in KVMap /\ staged_data[o] \in KVMap
      BY <3>1 DEF TypeOK, TableType
    <3>3. v \in Val \cup {Nil}
      BY <3>1, <3>2 DEF Lookup, KVMap
    <3> QED
      BY <1>24, <3>3 DEF GetRead
  <2>2. cur' \in [Conn -> Cur]
    <3>1. cur \in [Conn -> Cur] /\ cur[c] \in Cur
      BY DEF TypeOK, ThreadType
    <3>2. v \in Val => Locals(cur[c].name, cur[c].key, cur[c].obj, v) \in Cur
      BY <3>1, CurFields, LocalsType
    <3> QED
      BY <2>1, <3>1, <3>2
  <2>3. stack' \in [Conn -> Seq(Val)]
    <3>1. stack \in [Conn -> Seq(Val)]
      BY DEF TypeOK, SessionType
    <3>2. v \in Val => <<v>> \o stack[c] \in Seq(Val)
      BY <3>1
    <3> QED
      BY <2>1, <3>1, <3>2
  <2>4. pc' \in [Conn -> Labels] /\ resp' \in [Conn -> Replies]
    BY <1>24, LabelFacts, ReplyFacts DEF GetRead, TypeOK, ThreadType
  <2> QED
    BY <1>24, <2>2, <2>3, <2>4
       DEF GetRead, TypeOK, ServerType, TableType, SessionType, ThreadType,
           LinkType
<1>25. CASE CommitTable(c)
  <2>1. PICK n \in todo[c] :
          /\ CommitChanges(find_table(n))
          /\ Unlock(find_table(n))
          /\ todo' = [todo EXCEPT ![c] = @ \ {n}]
    BY <1>25 DEF CommitTable
  <2>2. data \in [Obj -> KVMap] /\ staged_data \in [Obj -> KVMap]
    BY DEF TypeOK, TableType
  <2>3. data' \in [Obj -> KVMap] /\ staged_data' \in [Obj -> KVMap]
    BY <2>1, <2>2, MapType DEF CommitChanges
  <2>4. TableType'
    BY <1>25, <2>1, <2>3 DEF CommitTable, TypeOK, TableType
  <2> QED
    BY <1>25, <2>1, <2>4
       DEF CommitTable, TypeOK, ServerType, SessionType, ThreadType, LinkType
<1>26. CASE RollbackTable(c)
  <2>1. PICK n \in todo[c] :
          /\ staged_data' = [staged_data EXCEPT ![find_table(n)] = EmptyMap]
          /\ Unlock(find_table(n))
          /\ todo' = [todo EXCEPT ![c] = @ \ {n}]
    BY <1>26 DEF RollbackTable
  <2>2. staged_data' \in [Obj -> KVMap]
    BY <2>1, MapType DEF TypeOK, TableType
  <2>3. TableType'
    BY <1>26, <2>1, <2>2 DEF RollbackTable, TypeOK, TableType
  <2> QED
    BY <1>26, <2>1, <2>3
       DEF RollbackTable, TypeOK, ServerType, SessionType, ThreadType, LinkType
<1>27. CASE CommitThrows(c)
  BY <1>27, LabelFacts, ReplyFacts
     DEF CommitThrows, TypeOK, ServerType, TableType, SessionType,
         ThreadType, LinkType
<1>28. CASE CommitDone(c)
  BY <1>28, LabelFacts, ReplyFacts
     DEF CommitDone, TypeOK, ServerType, TableType, SessionType,
         ThreadType, LinkType
<1>29. CASE RollbackThrows(c)
  BY <1>29
     DEF RollbackThrows, TypeOK, ServerType, TableType, SessionType,
         ThreadType, LinkType
<1>30. CASE RollbackDone(c)
  BY <1>30, LabelFacts, ReplyFacts
     DEF RollbackDone, TypeOK, ServerType, TableType, SessionType,
         ThreadType, LinkType
<1>31. CASE SendReply(c)
  BY <1>31, LabelFacts, ReplyFacts, NoCurType
     DEF SendReply, TypeOK, ServerType, TableType, SessionType,
         ThreadType, LinkType
<1>32. CASE SendLast(c)
  BY <1>32, LabelFacts, ReplyFacts
     DEF SendLast, TypeOK, ServerType, TableType, SessionType,
         ThreadType, LinkType
<1>33. CASE SendCaught(c)
  <2>1. pc' \in [Conn -> Labels] /\ resp' \in [Conn -> Replies]
    BY <1>33, LabelFacts, ReplyFacts DEF SendCaught, TypeOK, ThreadType
  <2>2. cur' \in [Conn -> Cur]
    BY <1>33, NoCurType DEF SendCaught, TypeOK, ThreadType
  <2>3. todo' \in [Conn -> SUBSET TableName]
    BY <1>33 DEF SendCaught, TypeOK, ThreadType, SessionType
  <2> QED
    BY <1>33, <2>1, <2>2, <2>3
       DEF SendCaught, TypeOK, ServerType, TableType, SessionType, ThreadType,
           LinkType
<1>34. CASE SendRolledBack(c)
  BY <1>34, LabelFacts, ReplyFacts
     DEF SendRolledBack, TypeOK, ServerType, TableType, SessionType,
         ThreadType, LinkType
<1>35. CASE SendThrows(c)
  BY <1>35, LabelFacts, ReplyFacts
     DEF SendThrows, TypeOK, ServerType, TableType, SessionType,
         ThreadType, LinkType, AfterThrow
<1>36. CASE SendKilled(c)
  BY <1>36
     DEF SendKilled, TypeOK, ServerType, TableType, SessionType,
         ThreadType, LinkType
<1>37. CASE ReadError(c)
  BY <1>37
     DEF ReadError, TypeOK, ServerType, TableType, SessionType,
         ThreadType, LinkType
<1>38. CASE Close(c)
  BY <1>38, LabelFacts, NoCurType
     DEF Close, TypeOK, ServerType, TableType, SessionType,
         ThreadType, LinkType
<1>39. CASE Disconnect(c)
  <2>1. LinkType'
    BY <1>39, ConstantsAssumption DEF Disconnect, TypeOK, LinkType
  <2> QED
    BY <1>39, <2>1
       DEF Disconnect, TypeOK, ServerType, TableType, SessionType, ThreadType
<1>40. CASE EncodeThrows(c)
  <2>1. ThreadType'
    BY <1>40, LabelFacts, ReplyFacts DEF EncodeThrows, TypeOK, ThreadType
  <2>2. ServerType'
    BY <1>40 DEF EncodeThrows, TypeOK, ServerType
  <2> QED
    BY <1>40, <2>1, <2>2
       DEF EncodeThrows, TypeOK, TableType, SessionType, LinkType
<1> QED
  BY <1>1, <1>2, <1>3, <1>4, <1>5, <1>6, <1>7, <1>8, <1>9, <1>10, <1>11,
     <1>12, <1>13, <1>14, <1>15, <1>16, <1>17, <1>18, <1>19, <1>20, <1>21,
     <1>22, <1>23, <1>24, <1>25, <1>26, <1>27, <1>28, <1>29, <1>30, <1>31,
     <1>32, <1>33, <1>34, <1>35, <1>36, <1>37, <1>38, <1>39, <1>40
     DEF Step, Receive
-----------------------------------------------------------------------------
(* Control flow *)

\* Every action keeps its thread's local variables and transaction valid and
\* leaves the other threads alone.
LEMMA FlowAction ==
  ASSUME ThreadType, SessionType, Stable, NEW c \in Conn,
         CurValid(c), TxnValid(c), Step(c) \/ Receive(c) \/ Disconnect(c)
  PROVE  OnlyMoves(c) /\ CurValid(c)' /\ TxnValid(c)'
<1> USE DEF At, Goto, Respond, Reads, Sends, Returns, EndTransaction,
            ThreadType, SessionType, OnlyMoves, CurValid, TxnValid, Busy,
            Stable, serverVars, tableVars, sessionVars, threadVars, linkVars
<1>1. CASE Accept(c)
  BY <1>1 DEF Accept
<1>2. CASE RejectLine(c)
  BY <1>2 DEF RejectLine
<1>3. CASE RejectStranger(c)
  BY <1>3 DEF RejectStranger
<1>4. CASE HandleLogin(c)
  BY <1>4 DEF HandleLogin
<1>5. CASE HandleBye(c)
  BY <1>5 DEF HandleBye
<1>6. CASE HandleUnsupported(c)
  BY <1>6 DEF HandleUnsupported
<1>7. CASE HandlePush(c)
  BY <1>7 DEF HandlePush
<1>8. CASE HandlePop(c)
  BY <1>8 DEF HandlePop
<1>9. CASE HandleTop(c)
  BY <1>9 DEF HandleTop
<1>10. CASE HandleCreate(c)
  BY <1>10 DEF HandleCreate, Locals
<1>11. CASE HandleSet(c)
  BY <1>11 DEF HandleSet, SetPath, Locals
<1>12. CASE HandleGet(c)
  BY <1>12 DEF HandleGet, Locals
<1>13. CASE HandleBegin(c)
  BY <1>13 DEF HandleBegin
<1>14. CASE HandleCommit(c)
  BY <1>14 DEF HandleCommit
<1>15. CASE CreateTable(c)
  BY <1>15 DEF CreateTable
<1>16. CASE SetTrylock(c)
  <2>1. OnlyMoves(c) /\ CurValid(c)'
    BY <1>16 DEF SetTrylock
  <2>2. TxnValid(c)'
    BY <1>16 DEF SetTrylock
  <2> QED
    BY <2>1, <2>2
<1>17. CASE SetStaged(c)
  BY <1>17 DEF SetStaged
<1>18. CASE SetLock(c)
  BY <1>18 DEF SetLock
<1>19. CASE SetWrite(c)
  BY <1>19 DEF SetWrite
<1>20. CASE SetUnlock(c)
  BY <1>20 DEF SetUnlock
<1>21. CASE GetLock(c)
  BY <1>21 DEF GetLock
<1>22. CASE GetRead(c)
  BY <1>22 DEF GetRead, Locals
<1>23. CASE GetUnlock(c)
  BY <1>23 DEF GetUnlock
<1>24. CASE GetCatch(c)
  BY <1>24 DEF GetCatch
<1>25. CASE GetRecatch(c)
  BY <1>25 DEF GetRecatch
<1>26. CASE CommitTable(c)
  BY <1>26 DEF CommitTable
<1>27. CASE CommitThrows(c)
  BY <1>27 DEF CommitThrows
<1>28. CASE CommitDone(c)
  BY <1>28 DEF CommitDone
<1>29. CASE RollbackTable(c)
  BY <1>29 DEF RollbackTable, RollingBack
<1>30. CASE RollbackThrows(c)
  BY <1>30 DEF RollbackThrows, RollingBack
<1>31. CASE RollbackDone(c)
  BY <1>31 DEF RollbackDone, RollingBack
<1>32. CASE SendReply(c)
  BY <1>32 DEF SendReply
<1>33. CASE SendLast(c)
  BY <1>33 DEF SendLast
<1>34. CASE SendCaught(c)
  BY <1>34 DEF SendCaught
<1>35. CASE SendRolledBack(c)
  BY <1>35 DEF SendRolledBack
<1>36. CASE SendThrows(c)
  BY <1>36 DEF SendThrows, AfterThrow
<1>37. CASE SendKilled(c)
  BY <1>37 DEF SendKilled
<1>38. CASE ReadError(c)
  BY <1>38 DEF ReadError
<1>39. CASE Close(c)
  BY <1>39 DEF Close
<1>40. CASE Disconnect(c)
  BY <1>40 DEF Disconnect
<1>41. CASE EncodeThrows(c)
  BY <1>41 DEF EncodeThrows
<1> QED
  BY <1>1, <1>2, <1>3, <1>4, <1>5, <1>6, <1>7, <1>8, <1>9, <1>10, <1>11,
     <1>12, <1>13, <1>14, <1>15, <1>16, <1>17, <1>18, <1>19, <1>20, <1>21,
     <1>22, <1>23, <1>24, <1>25, <1>26, <1>27, <1>28, <1>29, <1>30, <1>31,
     <1>32, <1>33, <1>34, <1>35, <1>36, <1>37, <1>38, <1>39, <1>40, <1>41
     DEF Step, Receive

\* push_back is the only change to the vector of tables.
LEMMA NextStable ==
  ASSUME TypeOK, \A c \in Conn : CurValid(c), [Next]_vars
  PROVE  Stable
<1>1. tables' = tables \/ \E c \in Conn : CreateTable(c)
  <2>1. CASE UNCHANGED vars
    BY <2>1 DEF vars, serverVars
  <2>2. ASSUME NEW c \in Conn, Receive(c) \/ Disconnect(c)
        PROVE  tables' = tables
    BY <2>2
       DEF Receive, Accept, RejectLine, RejectStranger, HandleLogin,
           HandleBye, HandleUnsupported, HandlePush, HandlePop, HandleTop,
           HandleCreate, HandleSet, HandleGet, HandleBegin, HandleCommit,
           Disconnect, serverVars
  <2>3. ASSUME NEW c \in Conn, Step(c)
        PROVE  tables' = tables \/ CreateTable(c)
    BY <2>3
       DEF Step, SetTrylock, SetStaged, SetLock, SetWrite, SetUnlock, GetLock,
           GetRead, GetUnlock, GetCatch, GetRecatch, CommitTable,
           CommitThrows, CommitDone, RollbackTable, RollbackThrows,
           RollbackDone, EncodeThrows, SendReply, SendLast, SendCaught,
           SendRolledBack, SendThrows, SendKilled, ReadError, Close, serverVars
  <2> QED
    BY <2>1, <2>2, <2>3 DEF Next
<1>2. CASE tables' = tables
  BY <1>2, FindSame DEF Stable
<1>3. ASSUME NEW c \in Conn, CreateTable(c)
      PROVE  Stable
  <2>1. tables \in Seq(TableName) /\ cur[c].name \in TableName
    BY <1>3 DEF CreateTable, At, CurValid, TypeOK, ServerType
  <2>2. tables' = Append(tables, cur[c].name)
    BY <1>3 DEF CreateTable, WithTable
  <2> QED
    BY <2>1, <2>2, FindAppend DEF Stable
<1> QED
  BY <1>1, <1>2, <1>3

\* FlowInv holds before any connection, and when all are logged in.
LEMMA FlowInit ==
  ASSUME NEW names \in Seq(TableName), Len(names) <= MaxTables,
         NEW connected \in BOOLEAN, InitWith(names, connected)
  PROVE  FlowInv
<1>1. ServerType
  BY DEF InitWith, ServerType
<1>2. TableType
  BY MapType DEF InitWith, TableType
<1>3. SessionType
  BY DEF InitWith, SessionType
<1>4. ThreadType
  BY LabelFacts, ReplyFacts, NoCurType DEF InitWith, ThreadType
<1>5. LinkType
  BY DEF InitWith, LinkType
<1>6. ASSUME NEW c \in Conn
      PROVE  CurValid(c) /\ TxnValid(c)
  BY DEF InitWith, CurValid, TxnValid, Busy
<1> QED
  BY <1>1, <1>2, <1>3, <1>4, <1>5, <1>6 DEF FlowInv, TypeOK

\* FlowInv is inductive.
LEMMA FlowStep ==
  ASSUME FlowInv, [Next]_vars
  PROVE  FlowInv'
<1>1. Stable
  BY NextStable DEF FlowInv
<1>2. CASE UNCHANGED vars
  BY <1>2, FindSame
     DEF FlowInv, TypeOK, ServerType, TableType, SessionType,
         ThreadType, LinkType, CurValid, TxnValid, vars, serverVars, tableVars,
         sessionVars, threadVars, linkVars
<1>3. ASSUME NEW c \in Conn, Step(c) \/ Receive(c) \/ Disconnect(c)
      PROVE  FlowInv'
  <2>1. TypeOK'
    BY <1>3, TypeAction DEF FlowInv
  <2>2. OnlyMoves(c) /\ CurValid(c)' /\ TxnValid(c)'
    BY <1>1, <1>3, FlowAction DEF FlowInv, TypeOK
  <2>3. ASSUME NEW d \in Conn \ {c}
        PROVE  CurValid(d)' /\ TxnValid(d)'
    <3>1. CurValid(d) /\ TxnValid(d) /\ locked_tables[d] \subseteq TableName
      BY DEF FlowInv, TypeOK, SessionType
    <3> QED
      BY <1>1, <2>2, <3>1 DEF OnlyMoves, CurValid, TxnValid, Stable
  <2> QED
    BY <2>1, <2>2, <2>3 DEF FlowInv
<1> QED
  BY <1>2, <1>3 DEF Next

\* FlowInv holds in every reachable state.
LEMMA FlowAlways == Spec => []FlowInv
<1>1. Init => FlowInv
  <2>1. <<>> \in Seq(TableName) /\ Len(<<>>) <= MaxTables
    BY ConstantsAssumption
  <2> QED
    BY <2>1, FlowInit DEF Init
<1>2. FlowInv /\ [Next]_vars => FlowInv'
  BY FlowStep
<1> QED
  BY <1>1, <1>2, PTL DEF Spec

\* Every reachable state has the types TypeOK declares, and no more tables,
\* for any number of clients sending any commands.
THEOREM TypesCorrect == Spec => []TypeOK
<1>1. FlowInv => TypeOK
  BY DEF FlowInv
<1> QED
  BY <1>1, FlowAlways, PTL

\* No interleaving of COMMIT, SET and a failed send leaves a session outside
\* a transaction with locked tables.
THEOREM NoLocksOutsideTxn == Spec => []TxnScope
<1>1. FlowInv => TxnScope
  BY DEF FlowInv, TxnValid, TxnScope
<1> QED
  BY <1>1, FlowAlways, PTL

\* A thread that waits for a lock in SET holds none: with no GET inside a
\* transaction no thread waits for one that waits.
THEOREM SetNeverHoldsAndWaits == Spec => []OnlyGetHoldsAndWaits
<1>1. FlowInv => OnlyGetHoldsAndWaits
  BY DEF FlowInv, TxnValid, OnlyGetHoldsAndWaits, Locks, TxnTables, TxnNames,
         Inside
<1> QED
  BY <1>1, FlowAlways, PTL

\* A name that resolves keeps its table for ever, although two clients may
\* create it twice.
THEOREM LookupsAreStable == Spec => StableLookup
<1>1. FlowInv /\ [Next]_vars =>
        [\A n \in TableName : find_table(n) # 0
                                => find_table(n)' = find_table(n)]_vars
  BY NextStable DEF FlowInv, Stable
<1> QED
  BY <1>1, FlowAlways, PTL DEF Spec, StableLookup

-----------------------------------------------------------------------------
(* The threads share the tables safely: the locks the sessions keep account *)
(* of are the mutexes their threads own, so a table has one user at a time  *)
(* and staged data one owner.  LockInv is what the threads maintain.  It    *)
(* mentions the locks and the staged data only object by object, so an      *)
(* action is described by what it does to each object (Kept, Acquired,      *)
(* Released); LockStep shows that such a step keeps LockInv, and what       *)
(* follows it that each action is one.                                      *)

\* The locks are those the control flow accounts for; a handler never holds
\* a table that the transaction of its own session holds; staged data has an
\* owner.
LockInv ==
  /\ \A o \in Obj :
       /\ \A c \in Conn : mutex[o] = c <=> o \in Locks(c)
       /\ is_locked[o] <=> mutex[o] # Nil
  /\ \A c \in Conn : Inside(c) => cur[c].obj \notin TxnTables(c)
  /\ \A o \in Obj : IsEmpty(staged_data[o]) \/
       \E c \in Conn : in_transaction[c] /\ o \in TxnTables(c)

\* What a step of c can do to an object.
Kept(c, o) ==
  /\ mutex'[o] = mutex[o]
  /\ is_locked'[o] = is_locked[o]
  /\ o \in Locks(c)' <=> o \in Locks(c)

Acquired(c, o) ==
  /\ mutex[o] = Nil /\ mutex'[o] = c /\ is_locked'[o] = TRUE
  /\ o \in Locks(c)'

Released(c, o) ==
  /\ o \in Locks(c) /\ o \notin Locks(c)'
  /\ mutex'[o] = Nil /\ is_locked'[o] = FALSE

\* What it can do to what is staged there.
Owned(c, o) == in_transaction[c] /\ o \in TxnTables(c)

Staged(c, o) ==
  \/ IsEmpty(staged_data'[o])
  \/ Owned(c, o)'
  \/ staged_data'[o] = staged_data[o] /\ ~Owned(c, o)

LocalStep(c) ==
  /\ \A o \in Obj :
       /\ Kept(c, o) \/ Acquired(c, o) \/ Released(c, o)
       /\ Staged(c, o)
  /\ Inside(c)' => cur'[c].obj \notin TxnTables(c)'

\* The steps that leave the locks and the staged data alone.
Quiet(c) ==
  /\ UNCHANGED <<mutex, is_locked, staged_data>>
  /\ TxnNames(c)' = TxnNames(c)
  /\ Inside(c)' <=> Inside(c)
  /\ Inside(c) => cur'[c].obj = cur[c].obj
  /\ TxnNames(c) # {} => in_transaction'[c] = in_transaction[c]
-----------------------------------------------------------------------------
\* The names of a transaction all resolve.
LEMMA TxnResolves ==
  ASSUME FlowInv, NEW c \in Conn
  PROVE  /\ TxnNames(c) \subseteq TableName
         /\ \A n \in TxnNames(c) : find_table(n) \in Obj
<1>1. /\ locked_tables[c] \subseteq TableName
      /\ todo[c] \subseteq locked_tables[c]
      /\ \A n \in locked_tables[c] : find_table(n) # 0
  BY DEF FlowInv, TypeOK, SessionType, TxnValid
<1>2. tables \in Seq(TableName) /\ Len(tables) \in 0..MaxTables
  BY DEF FlowInv, TypeOK, ServerType
<1>3. \A n \in TableName : find_table(n) # 0 => find_table(n) \in Obj
  BY <1>2, FindResult, ConstantsAssumption DEF Obj
<1> QED
  BY <1>1, <1>3 DEF TxnNames

\* A step that keeps a transaction's names keeps its tables.
LEMMA SameTables ==
  ASSUME FlowInv, Stable, NEW c \in Conn, TxnNames(c)' = TxnNames(c)
  PROVE  TxnTables(c)' = TxnTables(c)
<1>1. \A n \in TxnNames(c) : find_table(n)' = find_table(n)
  BY TxnResolves DEF Stable, Obj
<1> QED
  BY <1>1 DEF TxnTables

\* A step of c changes nothing that other threads hold.
LEMMA OtherLocks ==
  ASSUME FlowInv, Stable, NEW c \in Conn, OnlyMoves(c), NEW d \in Conn \ {c}
  PROVE  /\ Locks(d)' = Locks(d)
         /\ TxnTables(d)' = TxnTables(d)
         /\ Inside(d)' <=> Inside(d)
         /\ cur'[d] = cur[d]
         /\ in_transaction'[d] = in_transaction[d]
<1>1. TxnNames(d)' = TxnNames(d)
  BY DEF OnlyMoves, TxnNames
<1>2. TxnTables(d)' = TxnTables(d)
  BY <1>1, SameTables
<1>3. (Inside(d)' <=> Inside(d)) /\ cur'[d] = cur[d]
  BY DEF OnlyMoves, Inside
<1> QED
  BY <1>2, <1>3 DEF OnlyMoves, Locks

\* A step that only acquires or releases for its own thread keeps LockInv.
LEMMA LockStep ==
  ASSUME FlowInv, LockInv, Stable, NEW c \in Conn, OnlyMoves(c), LocalStep(c)
  PROVE  LockInv'
<1>1. Nil \notin Conn
  BY ConstantsAssumption
<1>2. ASSUME NEW o \in Obj
      PROVE  /\ \A d \in Conn : mutex'[o] = d <=> o \in Locks(d)'
             /\ is_locked'[o] <=> mutex'[o] # Nil
  <2>1. /\ \A d \in Conn : mutex[o] = d <=> o \in Locks(d)
        /\ is_locked[o] <=> mutex[o] # Nil
    BY DEF LockInv
  <2>2. \A d \in Conn \ {c} : o \in Locks(d)' <=> o \in Locks(d)
    BY OtherLocks
  <2>3. CASE Kept(c, o)
    BY <2>1, <2>2, <2>3 DEF Kept
  <2>4. CASE Acquired(c, o)
    BY <1>1, <2>1, <2>2, <2>4 DEF Acquired
  <2>5. CASE Released(c, o)
    BY <1>1, <2>1, <2>2, <2>5 DEF Released
  <2> QED
    BY <2>3, <2>4, <2>5 DEF LocalStep
<1>3. ASSUME NEW d \in Conn
      PROVE  Inside(d)' => cur'[d].obj \notin TxnTables(d)'
  BY OtherLocks DEF LockInv, LocalStep
<1>4. ASSUME NEW o \in Obj
      PROVE  \/ IsEmpty(staged_data'[o])
             \/ \E d \in Conn : in_transaction'[d] /\ o \in TxnTables(d)'
  <2>1. CASE IsEmpty(staged_data'[o]) \/ Owned(c, o)'
    BY <2>1 DEF Owned
  <2>2. CASE staged_data'[o] = staged_data[o] /\ ~Owned(c, o)
    <3>1. \/ IsEmpty(staged_data[o])
          \/ \E d \in Conn \ {c} : in_transaction[d] /\ o \in TxnTables(d)
      BY <2>2 DEF LockInv, Owned
    <3> QED
      BY <2>2, <3>1, OtherLocks DEF IsEmpty
  <2> QED
    BY <2>1, <2>2 DEF LocalStep, Staged
<1> QED
  BY <1>2, <1>3, <1>4 DEF LockInv

\* A quiet step is a local step.
LEMMA QuietStep ==
  ASSUME FlowInv, LockInv, Stable, NEW c \in Conn, Quiet(c)
  PROVE  LocalStep(c)
<1>1. TxnTables(c)' = TxnTables(c)
  BY SameTables DEF Quiet
<1>2. Locks(c)' = Locks(c)
  BY <1>1 DEF Quiet, Locks
<1>3. ASSUME NEW o \in Obj
      PROVE  Staged(c, o)
  <2>1. Owned(c, o) => Owned(c, o)'
    BY <1>1 DEF Quiet, Owned, TxnTables
  <2> QED
    BY <2>1 DEF Quiet, Staged
<1> QED
  BY <1>1, <1>2, <1>3 DEF LocalStep, Kept, Quiet, LockInv
-----------------------------------------------------------------------------
(* The actions *)

\* A handler that has resolved its table has an object.
LEMMA BusyObj ==
  ASSUME FlowInv, NEW c \in Conn, pc[c] \in Busy
  PROVE  cur[c].obj \in Obj
<1>1. tables \in Seq(TableName) /\ Len(tables) \in 0..MaxTables
  BY DEF FlowInv, TypeOK, ServerType
<1>2. cur[c].obj = find_table(cur[c].name) /\ cur[c].obj # 0
  BY DEF FlowInv, CurValid
<1> QED
  BY <1>1, <1>2, FindResult, ConstantsAssumption DEF Obj

\* A commit or rollback loop holds every table it has yet to visit.
LEMMA CommitHolds ==
  ASSUME FlowInv, LockInv, NEW c \in Conn,
         pc[c] \in {"commit", "rollback_set", "rollback_commit"}
  PROVE  \A n \in todo[c] :
           /\ find_table(n) \in Obj /\ find_table(n) \in Locks(c)
           /\ is_locked[find_table(n)]
<1>1. ASSUME NEW n \in todo[c]
      PROVE  find_table(n) \in Obj /\ find_table(n) \in Locks(c)
  BY <1>1, TxnResolves DEF TxnNames, TxnTables, Locks
<1> QED
  BY <1>1, ConstantsAssumption DEF LockInv

\* The actions that neither lock, unlock nor stage are quiet; the two that
\* follow a std::logic_error cannot happen.
LEMMA QuietActions ==
  ASSUME FlowInv, LockInv, NEW c \in Conn,
         Accept(c) \/ RejectLine(c) \/ RejectStranger(c) \/ HandleLogin(c)
         \/ HandleBye(c) \/ HandleUnsupported(c) \/ HandlePush(c) \/
         HandlePop(c) \/ HandleTop(c) \/ HandleCreate(c) \/ HandleSet(c) \/
         HandleGet(c) \/ HandleBegin(c) \/ HandleCommit(c) \/
         CreateTable(c) \/ SetWrite(c) \/ GetRead(c) \/ CommitThrows(c) \/
         CommitDone(c) \/ RollbackThrows(c) \/ RollbackDone(c) \/
         SendReply(c) \/ SendLast(c) \/ SendCaught(c) \/ SendRolledBack(c)
         \/ SendThrows(c) \/ SendKilled(c) \/ ReadError(c) \/ Close(c) \/
         Disconnect(c) \/ EncodeThrows(c)
  PROVE  Quiet(c)
<1>1. ThreadType /\ SessionType /\ CurValid(c) /\ TxnValid(c)
  BY DEF FlowInv, TypeOK
<1>2. pc[c] = "set_write" => is_locked[cur[c].obj]
  <2>1. pc[c] = "set_write" => cur[c].obj \in Obj /\ cur[c].obj \in Locks(c)
    BY BusyObj DEF Locks, Inside, Busy
  <2> QED
    BY <2>1, ConstantsAssumption DEF LockInv
<1>3. pc[c] = "commit" => \A n \in todo[c] : is_locked[find_table(n)]
  BY CommitHolds
<1> USE DEF At, Goto, Respond, Reads, Sends, Returns, EndTransaction, Busy,
            ThreadType, SessionType, CurValid, TxnValid, Quiet, Inside,
            TxnNames, serverVars, tableVars, sessionVars, threadVars, linkVars
<1>4. CASE Accept(c)
  BY <1>1, <1>4 DEF Accept
<1>5. CASE RejectLine(c)
  BY <1>1, <1>5 DEF RejectLine
<1>6. CASE RejectStranger(c)
  BY <1>1, <1>6 DEF RejectStranger
<1>7. CASE HandleLogin(c)
  BY <1>1, <1>7 DEF HandleLogin
<1>8. CASE HandleBye(c)
  BY <1>1, <1>8 DEF HandleBye
<1>9. CASE HandleUnsupported(c)
  BY <1>1, <1>9 DEF HandleUnsupported
<1>10. CASE HandlePush(c)
  BY <1>1, <1>10 DEF HandlePush
<1>11. CASE HandlePop(c)
  BY <1>1, <1>11 DEF HandlePop
<1>12. CASE HandleTop(c)
  BY <1>1, <1>12 DEF HandleTop
<1>13. CASE HandleCreate(c)
  BY <1>1, <1>13 DEF HandleCreate, Locals
<1>14. CASE HandleSet(c)
  BY <1>1, <1>14 DEF HandleSet, SetPath, Locals
<1>15. CASE HandleGet(c)
  BY <1>1, <1>15 DEF HandleGet, Locals
<1>16. CASE HandleBegin(c)
  <2>1. pc'[c] = "send" /\ pc[c] = "idle" /\ UNCHANGED tableVars
    BY <1>1, <1>16 DEF HandleBegin
  <2>2. /\ locked_tables[c] = {} => locked_tables'[c] = {}
        /\ locked_tables[c] # {} =>
             /\ locked_tables'[c] = locked_tables[c]
             /\ in_transaction'[c] = in_transaction[c]
    BY <1>1, <1>16 DEF HandleBegin
  <2> QED
    BY <2>1, <2>2
<1>17. CASE HandleCommit(c)
  BY <1>1, <1>17 DEF HandleCommit
<1>18. CASE CreateTable(c)
  BY <1>1, <1>18 DEF CreateTable
<1>19. CASE SetWrite(c)
  BY <1>1, <1>2, <1>19 DEF SetWrite
<1>20. CASE GetRead(c)
  <2>1. /\ pc[c] = "get_read" /\ pc'[c] \in {"get_unlock", "get_catch"}
        /\ UNCHANGED <<tableVars, locked_tables, in_transaction, todo>>
    BY <1>1, <1>20 DEF GetRead
  <2>2. cur'[c].obj = cur[c].obj
    <3>1. \/ cur' = cur
          \/ \E v : cur' = [cur EXCEPT ![c] = Locals(cur[c].name, cur[c].key,
                                                  cur[c].obj, v)]
      BY <1>20 DEF GetRead
    <3>2. \A n, k, o, v : Locals(n, k, o, v).obj = o
      BY DEF Locals
    <3> QED
      BY <1>1, <3>1, <3>2
  <2> QED
    BY <2>1, <2>2
<1>21. CASE CommitThrows(c)
  BY <1>1, <1>3, <1>21 DEF CommitThrows
<1>22. CASE CommitDone(c)
  BY <1>1, <1>22 DEF CommitDone
<1>23. CASE RollbackThrows(c)
  BY <1>1, <1>23 DEF RollbackThrows, RollingBack
<1>24. CASE RollbackDone(c)
  BY <1>1, <1>24 DEF RollbackDone, RollingBack
<1>25. CASE SendReply(c)
  BY <1>1, <1>25 DEF SendReply
<1>26. CASE SendLast(c)
  BY <1>1, <1>26 DEF SendLast
<1>27. CASE SendCaught(c)
  BY <1>1, <1>27 DEF SendCaught
<1>28. CASE SendRolledBack(c)
  BY <1>1, <1>28 DEF SendRolledBack
<1>29. CASE SendThrows(c)
  BY <1>1, <1>29 DEF SendThrows, SendSites, AfterThrow
<1>30. CASE SendKilled(c)
  BY <1>1, <1>30 DEF SendKilled
<1>31. CASE ReadError(c)
  BY <1>1, <1>31 DEF ReadError
<1>32. CASE Close(c)
  BY <1>1, <1>32 DEF Close
<1>33. CASE Disconnect(c)
  BY <1>1, <1>33 DEF Disconnect
<1>34. CASE EncodeThrows(c)
  BY <1>1, <1>34 DEF EncodeThrows
<1> QED
  BY <1>4, <1>5, <1>6, <1>7, <1>8, <1>9, <1>10, <1>11, <1>12, <1>13, <1>14,
     <1>15, <1>16, <1>17, <1>18, <1>19, <1>20, <1>21, <1>22, <1>23, <1>24,
     <1>25, <1>26, <1>27, <1>28, <1>29, <1>30, <1>31, <1>32, <1>33, <1>34

\* A handler that locks its table, by lock or by get, acquires it.
LEMMA LockActions ==
  ASSUME FlowInv, LockInv, Stable, NEW c \in Conn, SetLock(c) \/ GetLock(c)
  PROVE  LocalStep(c)
<1> DEFINE o == cur[c].obj
<1>1. o \in Obj /\ Lock(c, o) /\ UNCHANGED <<staged_data, cur, todo>>
      /\ UNCHANGED <<locked_tables, in_transaction>>
  <2>1. pc[c] \in Busy
    BY DEF SetLock, GetLock, At, Busy
  <2> QED
    BY <2>1, BusyObj
       DEF SetLock, GetLock, sessionVars
<1>2. pc'[c] \in {"set_write", "get_read"} /\ pc[c] \in {"set_lock", "get_lock"}
  BY DEF SetLock, GetLock, At, Goto, FlowInv, TypeOK, ThreadType
<1>3. TxnTables(c)' = TxnTables(c)
  BY <1>1, <1>2, SameTables DEF TxnNames
<1>4. Inside(c)' /\ ~Inside(c)
  BY <1>2 DEF Inside
<1>5. o \notin Locks(c)
  BY <1>1, ConstantsAssumption DEF LockInv, Lock
<1>6. Locks(c)' = Locks(c) \cup {o} /\ o \notin TxnTables(c)
  BY <1>1, <1>3, <1>4, <1>5 DEF Locks
<1>7. mutex \in [Obj -> Conn \cup {Nil}] /\ is_locked \in [Obj -> BOOLEAN]
  BY DEF FlowInv, TypeOK, TableType
<1>8. \A p \in Obj : Kept(c, p) \/ Acquired(c, p)
  BY <1>1, <1>6, <1>7 DEF Lock, Kept, Acquired
<1>9. \A p \in Obj : Staged(c, p)
  BY <1>1, <1>3 DEF Staged, Owned
<1> QED
  BY <1>1, <1>3, <1>6, <1>8, <1>9 DEF LocalStep

\* A handler that unlocks its table, normally or in the catch, releases it.
LEMMA UnlockActions ==
  ASSUME FlowInv, LockInv, Stable, NEW c \in Conn,
         SetUnlock(c) \/ GetUnlock(c) \/ GetCatch(c)
  PROVE  LocalStep(c)
<1> DEFINE o == cur[c].obj
<1>1. /\ o \in Obj /\ Unlock(o) /\ UNCHANGED <<staged_data, cur, todo>>
      /\ UNCHANGED <<locked_tables, in_transaction>>
  <2>1. pc[c] \in Busy
    BY DEF SetUnlock, GetUnlock, GetCatch, At, Busy
  <2> QED
    BY <2>1, BusyObj
       DEF SetUnlock, GetUnlock, GetCatch, sessionVars
<1>2. /\ pc'[c] \in {"send_set", "send_get", "send"}
      /\ pc[c] \in {"set_unlock", "get_unlock", "get_catch"}
  BY DEF SetUnlock, GetUnlock, GetCatch, At, Goto, Respond, FlowInv, TypeOK,
         ThreadType
<1>3. TxnTables(c)' = TxnTables(c)
  BY <1>1, <1>2, SameTables DEF TxnNames
<1>4. ~Inside(c)' /\ Inside(c)
  BY <1>2 DEF Inside
<1>5. Locks(c) = Locks(c)' \cup {o} /\ o \notin Locks(c)'
  BY <1>3, <1>4 DEF Locks, LockInv
<1>6. mutex \in [Obj -> Conn \cup {Nil}] /\ is_locked \in [Obj -> BOOLEAN]
  BY DEF FlowInv, TypeOK, TableType
<1>7. \A p \in Obj : Kept(c, p) \/ Released(c, p)
  BY <1>1, <1>5, <1>6 DEF Unlock, Kept, Released
<1>8. \A p \in Obj : Staged(c, p)
  BY <1>1, <1>3 DEF Staged, Owned
<1> QED
  BY <1>4, <1>7, <1>8 DEF LocalStep

\* A trylock fails quietly or acquires the table for the transaction.
LEMMA TrylockAction ==
  ASSUME FlowInv, LockInv, Stable, NEW c \in Conn, SetTrylock(c)
  PROVE  LocalStep(c)
<1> DEFINE o == cur[c].obj
<1>1. /\ pc[c] = "set_trylock" /\ pc \in [Conn -> Labels]
      /\ UNCHANGED <<staged_data, cur, todo, in_transaction>>
  BY DEF SetTrylock, At, FlowInv, TypeOK, ThreadType
<1>2. o \in Obj /\ o = find_table(cur[c].name) /\ cur[c].name \in TableName
  BY <1>1, BusyObj DEF Busy, FlowInv, CurValid
<1>3. CASE mutex[o] # Nil
  <2>1. Quiet(c)
    BY <1>1, <1>3
       DEF SetTrylock, Lock, Respond, Goto, Quiet, TxnNames, Inside
  <2> QED
    BY <2>1, QuietStep
<1>4. CASE mutex[o] = Nil
  <2>1. /\ Lock(c, o) /\ pc'[c] = "set_staged"
        /\ locked_tables' = [locked_tables EXCEPT ![c] = @ \cup {cur[c].name}]
    BY <1>1, <1>4 DEF SetTrylock, Goto
  <2>2. locked_tables \in [Conn -> SUBSET TableName]
    BY DEF FlowInv, TypeOK, SessionType
  <2>3. TxnNames(c)' = TxnNames(c) \cup {cur[c].name}
    BY <1>1, <2>1, <2>2 DEF TxnNames
  <2>4. \A n \in TxnNames(c)' : find_table(n)' = find_table(n)
    BY <1>2, <2>3, TxnResolves DEF Stable, Obj
  <2>5. TxnTables(c)' = TxnTables(c) \cup {o}
    BY <1>2, <2>3, <2>4 DEF TxnTables
  <2>6. ~Inside(c) /\ ~Inside(c)'
    BY <1>1, <2>1 DEF Inside
  <2>7. Locks(c)' = Locks(c) \cup {o}
    BY <2>5, <2>6 DEF Locks
  <2>8. mutex \in [Obj -> Conn \cup {Nil}] /\ is_locked \in [Obj -> BOOLEAN]
    BY DEF FlowInv, TypeOK, TableType
  <2>9. \A p \in Obj : Kept(c, p) \/ Acquired(c, p)
    BY <1>2, <2>1, <2>7, <2>8 DEF Lock, Kept, Acquired
  <2>10. \A p \in Obj : Staged(c, p)
    BY <1>1, <2>5 DEF Staged, Owned
  <2> QED
    BY <2>6, <2>9, <2>10 DEF LocalStep
<1> QED
  BY <1>3, <1>4

\* What a transaction stages is in a table it holds.
LEMMA StageAction ==
  ASSUME FlowInv, LockInv, Stable, NEW c \in Conn, SetStaged(c)
  PROVE  LocalStep(c)
<1> DEFINE o == cur[c].obj
<1>1. /\ pc[c] = "set_staged" /\ pc'[c] \in {"send_set", "catch_set"}
      /\ UNCHANGED <<mutex, is_locked, cur, todo>>
      /\ UNCHANGED <<in_transaction, locked_tables>>
  BY DEF SetStaged, At, Respond, Goto, sessionVars, FlowInv, TypeOK, ThreadType
<1>2. /\ o \in Obj /\ o = find_table(cur[c].name)
      /\ cur[c].name \in locked_tables[c] /\ in_transaction[c]
  BY <1>1, BusyObj DEF Busy, FlowInv, CurValid, TxnValid
<1>3. TxnTables(c)' = TxnTables(c)
  BY <1>1, SameTables DEF TxnNames
<1>4. Owned(c, o)'
  BY <1>1, <1>2, <1>3 DEF Owned, TxnTables, TxnNames
<1>5. ~Inside(c) /\ ~Inside(c)'
  BY <1>1 DEF Inside
<1>6. Locks(c)' = Locks(c)
  BY <1>3, <1>5 DEF Locks
<1>7. \A p \in Obj : Kept(c, p)
  BY <1>1, <1>6 DEF Kept
<1>8. \A p \in Obj \ {o} : staged_data'[p] = staged_data[p]
  BY DEF SetStaged, FlowInv, TypeOK, TableType
<1>9. \A p \in Obj : Staged(c, p)
  BY <1>1, <1>3, <1>4, <1>8 DEF Staged, Owned
<1> QED
  BY <1>5, <1>7, <1>9 DEF LocalStep

\* An iteration of commit or rollback empties a table's staged data and
\* releases it.
LEMMA LoopActions ==
  ASSUME FlowInv, LockInv, Stable, NEW c \in Conn,
         CommitTable(c) \/ RollbackTable(c)
  PROVE  LocalStep(c)
<1>1. /\ pc[c] \in {"commit", "rollback_set", "rollback_commit"}
      /\ UNCHANGED <<pc, in_transaction>>
  BY DEF CommitTable, RollbackTable, RollingBack, At, sessionVars
<1>2. PICK n \in todo[c] :
        /\ Unlock(find_table(n))
        /\ staged_data' = [staged_data EXCEPT ![find_table(n)] = EmptyMap]
        /\ todo' = [todo EXCEPT ![c] = @ \ {n}]
  BY DEF CommitTable, RollbackTable, CommitChanges
<1> DEFINE o == find_table(n)
<1>3. /\ TxnNames(c) = todo[c] /\ TxnNames(c)' = todo[c] \ {n}
      /\ ~Inside(c) /\ ~Inside(c)'
  BY <1>1, <1>2 DEF TxnNames, Inside, FlowInv, TypeOK, ThreadType
<1>4. o \in Obj /\ \A m \in todo[c] : find_table(m) \in Obj /\ m \in TableName
  BY <1>3, TxnResolves
<1>5. \A m \in todo[c] : find_table(m)' = find_table(m)
  BY <1>4 DEF Stable, Obj
<1>6. \A m \in todo[c] \ {n} : find_table(m) # o
  BY <1>4, FindInjective DEF FlowInv, TypeOK, ServerType, Obj
<1>7. TxnTables(c) = TxnTables(c)' \cup {o} /\ o \notin TxnTables(c)'
  BY <1>3, <1>5, <1>6 DEF TxnTables
<1>8. Locks(c) = Locks(c)' \cup {o} /\ o \notin Locks(c)'
  BY <1>3, <1>7 DEF Locks
<1>9. /\ mutex \in [Obj -> Conn \cup {Nil}] /\ is_locked \in [Obj -> BOOLEAN]
      /\ staged_data \in [Obj -> KVMap]
  BY DEF FlowInv, TypeOK, TableType
<1>10. \A p \in Obj : Kept(c, p) \/ Released(c, p)
  BY <1>2, <1>8, <1>9 DEF Unlock, Kept, Released
<1>11. \A p \in Obj : Staged(c, p)
  <2>1. IsEmpty(staged_data'[o])
    BY <1>2, <1>4, <1>9 DEF IsEmpty
  <2>2. ASSUME NEW p \in Obj, p # o
        PROVE  staged_data'[p] = staged_data[p] /\ (Owned(c, p) => Owned(c, p)')
    BY <1>1, <1>2, <1>7, <1>9, <2>2 DEF Owned
  <2> QED
    BY <2>1, <2>2 DEF Staged
<1> QED
  BY <1>3, <1>10, <1>11 DEF LocalStep
-----------------------------------------------------------------------------
(* The theorems *)

\* The invariant: LockInv until a table is unlocked twice.
IInv == FlowInv /\ (~overreleased => LockInv)

\* Initially nothing is locked or staged.
LEMMA LockInit == Init => LockInv
<1> SUFFICES ASSUME Init PROVE LockInv
  OBVIOUS
<1>1. \A c \in Conn : Locks(c) = {} /\ TxnTables(c) = {} /\ ~Inside(c)
  BY DEF Init, InitWith, Locks, TxnTables, TxnNames, Inside
<1>2. \A o \in Obj : mutex[o] = Nil /\ is_locked[o] = FALSE
  BY DEF Init, InitWith
<1>3. \A o \in Obj : IsEmpty(staged_data[o])
  BY DEF Init, InitWith, IsEmpty
<1> QED
  BY <1>1, <1>2, <1>3, ConstantsAssumption DEF LockInv

\* Only GetRecatch unlocks a table twice.
LEMMA OverreleasedBy ==
  ASSUME NEW c \in Conn, Step(c) \/ Receive(c) \/ Disconnect(c), ~GetRecatch(c)
  PROVE  overreleased' = overreleased
BY DEF Step, Receive,
       Accept, RejectLine, RejectStranger, HandleLogin, HandleBye,
       HandleUnsupported, HandlePush, HandlePop, HandleTop,
       HandleCreate, HandleSet, HandleGet, HandleBegin, HandleCommit,
       CreateTable, SetWrite, GetRead, CommitThrows, CommitDone,
       RollbackThrows, RollbackDone, EncodeThrows, SendReply, SendLast,
       SendCaught, SendRolledBack, SendThrows, SendKilled, ReadError, Close,
       Disconnect, SetLock, GetLock, SetUnlock, GetUnlock, GetCatch,
       SetTrylock, SetStaged, CommitTable, RollbackTable, serverVars,
       tableVars

\* What has been unlocked twice remains so.
LEMMA OverreleasedStays ==
  ASSUME NEW c \in Conn, Step(c) \/ Receive(c) \/ Disconnect(c), ~overreleased'
  PROVE  ~overreleased /\ ~GetRecatch(c)
<1>1. ~GetRecatch(c)
  BY DEF GetRecatch
<1> QED
  BY <1>1, OverreleasedBy

\* Every action but the second unlock of GetRecatch keeps LockInv.
LEMMA LockNext ==
  ASSUME IInv, [Next]_vars
  PROVE  ~overreleased' => LockInv'
<1>1. FlowInv /\ FlowInv' /\ Stable
  BY FlowStep, NextStable DEF IInv, FlowInv
<1>2. CASE UNCHANGED vars
  BY <1>2, FindSame
     DEF IInv, LockInv, Locks, TxnTables, TxnNames, Inside, vars, serverVars,
         tableVars, sessionVars, threadVars
<1>3. ASSUME NEW c \in Conn, Step(c) \/ Receive(c) \/ Disconnect(c),
             ~overreleased'
      PROVE  LockInv'
  <2>1. ~GetRecatch(c) /\ ~overreleased
    BY <1>3, OverreleasedStays
  <2>2. LockInv
    BY <2>1 DEF IInv
  <2>3. LocalStep(c)
    <3>1. CASE SetLock(c) \/ GetLock(c)
      BY <1>1, <2>2, <3>1, LockActions
    <3>2. CASE SetUnlock(c) \/ GetUnlock(c) \/ GetCatch(c)
      BY <1>1, <2>2, <3>2, UnlockActions
    <3>3. CASE SetTrylock(c)
      BY <1>1, <2>2, <3>3, TrylockAction
    <3>4. CASE SetStaged(c)
      BY <1>1, <2>2, <3>4, StageAction
    <3>5. CASE CommitTable(c) \/ RollbackTable(c)
      BY <1>1, <2>2, <3>5, LoopActions
    <3>6. CASE \/ ~(Step(c))
               \/ ~(\/ SetLock(c) \/ GetLock(c) \/ SetUnlock(c) \/ GetUnlock(c)
                    \/ GetCatch(c) \/ SetTrylock(c) \/ SetStaged(c)
                    \/ CommitTable(c) \/ RollbackTable(c))
      <4>1. Quiet(c)
        BY <1>1, <1>3, <2>1, <2>2, <3>6, QuietActions DEF Step, Receive
      <4> QED
        BY <1>1, <2>2, <4>1, QuietStep
    <3> QED
      BY <3>1, <3>2, <3>3, <3>4, <3>5, <3>6
  <2>4. OnlyMoves(c)
    BY <1>1, <1>3, FlowAction DEF FlowInv, TypeOK
  <2> QED
    BY <1>1, <2>2, <2>3, <2>4, LockStep
<1> QED
  BY <1>2, <1>3 DEF Next

\* IInv holds in every reachable state.
LEMMA LockAlways == Spec => []IInv
<1>1. Init => IInv
  <2>1. <<>> \in Seq(TableName) /\ Len(<<>>) <= MaxTables
    BY ConstantsAssumption
  <2> QED
    BY <2>1, FlowInit, LockInit DEF Init, IInv
<1>2. IInv /\ [Next]_vars => IInv'
  BY FlowStep, LockNext DEF IInv
<1> QED
  BY <1>1, <1>2, PTL DEF Spec

\* locked_tables and the handlers' locals account for exactly the mutexes a
\* thread owns, and is_locked says which are owned: no path of handle_set,
\* handle_get, commit or rollback loses or keeps a lock too many.
THEOREM LocksAlwaysAgree == Spec => []LocksAgree
<1>1. IInv => LocksAgree
  BY DEF IInv, LockInv, LocksAgree
<1> QED
  BY <1>1, LockAlways, PTL

\* Two threads never use one table at a time.
THEOREM OneUserPerTable == Spec => [](~overreleased => MutualExclusion)
<1>1. IInv => (~overreleased => MutualExclusion)
  BY DEF IInv, LockInv, MutualExclusion
<1> QED
  BY <1>1, LockAlways, PTL

\* Staged data belongs to a transaction that holds its table.
THEOREM StagedDataHasOwner == Spec => []StagedHasOwner
<1>1. IInv => StagedHasOwner
  BY DEF IInv, LockInv, StagedHasOwner
<1> QED
  BY <1>1, LockAlways, PTL

\* A GET reads committed data only: whoever has staged data in the table
\* would hold it, and the reader does.
THEOREM ReadsAreCommitted == Spec => []NoUncommittedRead
<1>1. ASSUME IInv, ~overreleased, NEW c \in Conn, pc[c] = "get_read"
      PROVE  IsEmpty(staged_data[cur[c].obj])
  <2> DEFINE o == cur[c].obj
  <2>1. FlowInv /\ LockInv
    BY <1>1 DEF IInv
  <2>2. o \in Obj
    BY <1>1, <2>1, BusyObj DEF Busy
  <2>3. Inside(c) /\ o \in Locks(c) /\ o \notin TxnTables(c)
    BY <1>1, <2>1 DEF Inside, Locks, LockInv
  <2>4. ASSUME NEW d \in Conn, o \in TxnTables(d)
        PROVE  FALSE
    <3>1. o \in Locks(d)
      BY <2>4 DEF Locks
    <3> QED
      BY <2>1, <2>2, <2>3, <2>4, <3>1 DEF LockInv
  <2> QED
    BY <2>1, <2>2, <2>4 DEF LockInv
<1>2. IInv => NoUncommittedRead
  BY <1>1 DEF NoUncommittedRead
<1> QED
  BY <1>2, LockAlways, PTL

\* Every table that an operation is about to use is locked.
LEMMA LockedWhenUsed ==
  ASSUME FlowInv, LockInv, NEW c \in Conn
  PROVE  /\ pc[c] \in {"set_staged", "set_write", "get_read"}
              => is_locked[cur[c].obj]
         /\ pc[c] \in {"commit", "rollback_set", "rollback_commit"}
              => \A n \in todo[c] : is_locked[find_table(n)]
<1>1. ASSUME pc[c] \in {"set_staged", "set_write", "get_read"}
      PROVE  is_locked[cur[c].obj]
  <2>1. cur[c].obj \in Obj /\ cur[c].obj = find_table(cur[c].name)
    BY <1>1, BusyObj DEF Busy, FlowInv, CurValid
  <2>2. pc[c] = "set_staged" => cur[c].name \in TxnNames(c)
    BY <1>1 DEF FlowInv, TxnValid, TxnNames
  <2>3. cur[c].obj \in Locks(c)
    BY <1>1, <2>1, <2>2 DEF Locks, TxnTables, Inside
  <2> QED
    BY <2>1, <2>3, ConstantsAssumption DEF LockInv
<1> QED
  BY <1>1, CommitHolds

\* No operation of Table throws std::logic_error.
THEOREM LogicErrorNever == Spec => []NoLogicError
<1>1. IInv => NoLogicError
  BY LockedWhenUsed DEF IInv, NoLogicError
<1> QED
  BY <1>1, LockAlways, PTL
-----------------------------------------------------------------------------
(* Replies *)

\* A handler owes its client the reply that it is about to send.  Where a
\* failed send has led, the next one kills; after a std::logic_error, which
\* takes a table unlocked twice, one reply more is written.
OwesReply(c) ==
  /\ pc[c] = "none" => owed[c] = 0
  /\ pc[c] = "idle" => owed[c] = 0 \/ (overreleased /\ owed[c] = -1)
  /\ pc[c] \notin {"none", "idle", "exiting", "closed", "send",
                  "rollback_set", "rolled_set"}
       => owed[c] = 1 \/ link[c] = "dead"
  /\ pc[c] = "send"
       => owed[c] = 1 \/ link[c] = "dead" \/ (overreleased /\ owed[c] = 0)
  /\ pc[c] \in {"rollback_set", "rolled_set"}
       => link[c] = "dead" \/ (overreleased /\ owed[c] = 0)
  /\ pc[c] \in {"catch_set", "rollback_commit", "rolled_commit"}
       => link[c] = "dead" \/ overreleased
  /\ pc[c] = "get_recatch" => link[c] = "dead"

ReplyInv == \A c \in Conn : OwesReply(c)

\* A step of c keeps what the others owe.
LEMMA RepliesOfOthers ==
  ASSUME TypeOK, NEW c \in Conn, Step(c) \/ Receive(c) \/ Disconnect(c),
         NEW d \in Conn \ {c}
  PROVE  pc'[d] = pc[d] /\ owed'[d] = owed[d] /\ link'[d] = link[d]
<1>1. /\ pc \in [Conn -> Labels] /\ owed \in [Conn -> Int]
      /\ link \in [Conn -> {"open", "fin", "rst", "dead"}]
  BY DEF TypeOK, ThreadType, LinkType
<1> USE DEF Goto, Respond, Reads, Sends, Returns, linkVars, threadVars
<1>2. CASE Receive(c)
  BY <1>1, <1>2 DEF Receive, Accept, RejectLine, RejectStranger, HandleLogin,
       HandleBye, HandleUnsupported, HandlePush, HandlePop, HandleTop,
       HandleCreate, HandleSet, HandleGet, HandleBegin, HandleCommit
<1>3. CASE Step(c)
  BY <1>1, <1>3 DEF Step, CreateTable, SetTrylock, SetStaged, SetLock, SetWrite,
       SetUnlock, GetLock, GetRead, GetUnlock, GetCatch, GetRecatch,
       CommitTable, CommitThrows, CommitDone, RollbackTable, RollbackThrows,
       RollbackDone, EncodeThrows, SendReply, SendLast, SendCaught,
       SendRolledBack, SendThrows, SendKilled, ReadError, Close
<1>4. CASE Disconnect(c)
  BY <1>1, <1>4 DEF Disconnect
<1> QED
  BY <1>2, <1>3, <1>4

\* What has been unlocked twice stays so.
LEMMA OverreleasedKept ==
  ASSUME NEW c \in Conn, Step(c) \/ Receive(c) \/ Disconnect(c), overreleased
  PROVE  overreleased'
<1>1. CASE GetRecatch(c)
  BY <1>1 DEF GetRecatch
<1>2. CASE ~GetRecatch(c)
  BY <1>2, OverreleasedBy
<1> QED
  BY <1>1, <1>2

\* A step of c owes what it should: only the catch of a std::logic_error gets
\* to a second reply, and there is none before a table is unlocked twice.
LEMMA ReplyOfStep ==
  ASSUME IInv, NEW c \in Conn, OwesReply(c),
         Step(c) \/ Receive(c) \/ Disconnect(c)
  PROVE  OwesReply(c)'
<1>1. /\ pc \in [Conn -> Labels] /\ owed \in [Conn -> Int]
      /\ link \in [Conn -> {"open", "fin", "rst", "dead"}]
  BY DEF IInv, FlowInv, TypeOK, ThreadType, LinkType
<1>2. ~overreleased =>
        /\ pc[c] \in {"set_staged", "set_write"} => is_locked[cur[c].obj]
        /\ pc[c] = "commit" => \A n \in todo[c] : is_locked[find_table(n)]
  BY LockedWhenUsed DEF IInv
<1>20. overreleased => overreleased'
  BY OverreleasedKept
<1> USE <1>20 DEF At, Goto, Respond, Reads, Sends, Returns, linkVars, threadVars,
            OwesReply
<1>3. CASE Receive(c)
  BY <1>1, <1>3 DEF Receive, Accept, RejectLine, RejectStranger, HandleLogin,
       HandleBye, HandleUnsupported, HandlePush, HandlePop, HandleTop,
       HandleCreate, HandleSet, SetPath, HandleGet, HandleBegin, HandleCommit
<1>4. CASE \/ CreateTable(c) \/ SetTrylock(c) \/ SetLock(c) \/ SetUnlock(c)
           \/ GetLock(c) \/ GetRead(c) \/ GetUnlock(c) \/ GetCatch(c)
           \/ GetRecatch(c) \/ CommitTable(c) \/ CommitDone(c)
  BY <1>1, <1>4 DEF CreateTable, SetTrylock, SetLock, SetUnlock, GetLock,
       GetRead, GetUnlock, GetCatch, GetRecatch, CommitTable, CommitDone
<1>5. CASE SetStaged(c) \/ SetWrite(c)
  BY <1>1, <1>2, <1>5 DEF SetStaged, SetWrite
<1>6. CASE CommitThrows(c)
  BY <1>1, <1>2, <1>6 DEF CommitThrows
<1>10. CASE EncodeThrows(c)
  BY <1>1, <1>10 DEF EncodeThrows
<1>7. CASE RollbackTable(c) \/ RollbackThrows(c) \/ RollbackDone(c)
  BY <1>1, <1>7 DEF RollingBack, RollbackTable, RollbackThrows, RollbackDone
<1>8. CASE \/ SendReply(c) \/ SendLast(c) \/ SendCaught(c) \/ SendRolledBack(c)
           \/ SendKilled(c) \/ ReadError(c) \/ Close(c) \/ Disconnect(c)
  BY <1>1, <1>8 DEF SendReply, SendLast, SendCaught, SendRolledBack, SendKilled,
       ReadError, Close, Disconnect
<1>9. CASE SendThrows(c)
  BY <1>1, <1>9 DEF SendThrows, SendSites, AfterThrow
<1> QED
  BY <1>3, <1>4, <1>5, <1>6, <1>7, <1>8, <1>9, <1>10 DEF Step

\* What is owed is inductive.
LEMMA RepliesAlways == Spec => []ReplyInv
<1>1. Init => ReplyInv
  BY DEF Init, InitWith, ReplyInv, OwesReply
<1>2. IInv /\ ReplyInv /\ [Next]_vars => ReplyInv'
  <2>1. ASSUME IInv, ReplyInv, NEW c \in Conn,
               Step(c) \/ Receive(c) \/ Disconnect(c)
        PROVE  ReplyInv'
    <3>1. OwesReply(c)'
      BY <2>1, ReplyOfStep DEF ReplyInv
    <3>2. \A d \in Conn \ {c} : OwesReply(d)'
      BY <2>1, RepliesOfOthers, OverreleasedKept
         DEF IInv, FlowInv, ReplyInv, OwesReply
    <3> QED
      BY <3>1, <3>2 DEF ReplyInv
  <2>2. CASE UNCHANGED vars
    BY <2>2 DEF vars, threadVars, linkVars, tableVars, ReplyInv, OwesReply
  <2> QED
    BY <2>1, <2>2 DEF Next
<1> QED
  BY <1>1, <1>2, LockAlways, PTL DEF Spec

\* A client gets one reply for each line it sends, whichever path its handler
\* takes and whatever is thrown there; at most one more, and never one less,
\* once a table has been unlocked twice.
THEOREM OneReplyAlways == Spec => []OneReplyPerLine
<1>1. ReplyInv => OneReplyPerLine
  BY DEF ReplyInv, OwesReply, OneReplyPerLine
<1> QED
  BY <1>1, RepliesAlways, PTL

-----------------------------------------------------------------------------
(***************************************************************************)
(* The tables of KVServer implement AtomicStore: each step of a thread is  *)
(* one step of the abstract store or changes nothing there, until a table  *)
(* is unlocked twice.                                                      *)
(***************************************************************************)

\* Nothing is left to roll back where a rollback begins: handle_set has no
\* std::logic_error to catch, and a COMMIT that was carried out but could not
\* be answered has cleared locked_tables.
NothingToRollBack(c) ==
  /\ pc[c] # "rollback_set"
  /\ pc[c] = "rollback_commit" => todo[c] = {}

\* A handler of SET has the value that it popped.
HasValue(c) ==
  pc[c] \in {"set_trylock", "set_staged", "set_lock", "set_write"}
    => cur[c].val \in Val

StoreInv ==
  ReplyInv /\ \A c \in Conn : NothingToRollBack(c) /\ HasValue(c)

\* A step of c leaves other threads where they are.
LEMMA OthersStay ==
  ASSUME FlowInv, NEW c \in Conn, Step(c) \/ Receive(c) \/ Disconnect(c)
  PROVE  Stable /\ OnlyMoves(c)
<1>1. Stable
  BY NextStable DEF FlowInv, Next
<1> QED
  BY <1>1, FlowAction DEF FlowInv, TypeOK

\* A step of c begins no rollback of anything.
LEMMA RollbackOfStep ==
  ASSUME FlowInv, LockInv, ~overreleased, NEW c \in Conn, OwesReply(c),
         NothingToRollBack(c),
         Step(c) \/ Receive(c) \/ Disconnect(c)
  PROVE  NothingToRollBack(c)'
<1>1. /\ pc \in [Conn -> Labels] /\ todo \in [Conn -> SUBSET TableName]
      /\ pc[c] = "send_commit" => locked_tables[c] = {}
  BY DEF FlowInv, TypeOK, ThreadType, TxnValid
<1>2. /\ ~CommitThrows(c)
      /\ ~SendCaught(c)
  BY LockedWhenUsed DEF CommitThrows, At, SendCaught, Sends, OwesReply
<1> USE DEF At, Goto, Respond, Reads, Sends, Returns, threadVars, NothingToRollBack
<1>3. CASE Receive(c) \/ Disconnect(c)
  BY <1>1, <1>3 DEF Receive, Accept, RejectLine, RejectStranger, HandleLogin,
       HandleBye, HandleUnsupported, HandlePush, HandlePop, HandleTop,
       HandleCreate, HandleSet, SetPath, HandleGet, HandleBegin, HandleCommit,
       Disconnect
<1>4. CASE \/ CreateTable(c) \/ SetTrylock(c) \/ SetStaged(c) \/ SetLock(c)
           \/ SetWrite(c) \/ SetUnlock(c) \/ GetLock(c) \/ GetRead(c)
           \/ GetUnlock(c) \/ GetCatch(c) \/ GetRecatch(c) \/ CommitTable(c)
           \/ CommitDone(c)
  BY <1>1, <1>4 DEF CreateTable, SetTrylock, SetStaged, SetLock, SetWrite,
       SetUnlock, GetLock, GetRead, GetUnlock, GetCatch, GetRecatch,
       CommitTable, CommitDone
<1>5. CASE RollbackTable(c) \/ RollbackThrows(c) \/ RollbackDone(c)
  BY <1>1, <1>5 DEF RollingBack, RollbackTable, RollbackThrows, RollbackDone
<1>6. CASE SendThrows(c)
  BY <1>1, <1>6 DEF SendThrows, SendSites, AfterThrow
<1>7. CASE \/ SendReply(c) \/ SendLast(c) \/ SendRolledBack(c) \/ SendKilled(c)
           \/ EncodeThrows(c) \/ ReadError(c) \/ Close(c)
  BY <1>1, <1>7 DEF SendReply, SendLast, SendRolledBack, SendKilled,
       EncodeThrows, ReadError, Close
<1> QED
  BY <1>2, <1>3, <1>4, <1>5, <1>6, <1>7 DEF Step

\* A handler of SET pops a value, and keeps it as long as it needs it.
LEMMA ValueOfStep ==
  ASSUME FlowInv, NEW c \in Conn, HasValue(c), Step(c) \/ Receive(c) \/ Disconnect(c)
  PROVE  HasValue(c)'
<1>1. /\ pc \in [Conn -> Labels] /\ cur \in [Conn -> Cur]
      /\ stack \in [Conn -> Seq(Val)]
  BY DEF FlowInv, TypeOK, ThreadType, SessionType
<1> USE DEF At, Goto, Respond, Reads, Sends, Returns, threadVars, HasValue
<1>2. CASE HandleSet(c)
  <2>1. CASE pc'[c] = "send"
    BY <2>1
  <2>2. CASE pc'[c] # "send"
    <3>1. stack[c] # <<>> /\ pc[c] = "idle"
      BY <1>1, <1>2, <2>2 DEF HandleSet
    <3>2. PICK n \in TableName, k \in Key :
            cur' = [cur EXCEPT ![c] = Locals(n, k, find_table(n), Head(stack[c]))]
      BY <1>1, <1>2, <2>2 DEF HandleSet
    <3>3. cur'[c].val = Head(stack[c])
      BY <1>1, <3>2 DEF Locals
    <3>4. Head(stack[c]) \in Val
      BY <1>1, <3>1
    <3> QED
      BY <3>3, <3>4
  <2> QED
    BY <2>1, <2>2
<1>3. CASE Receive(c) /\ ~HandleSet(c)
  BY <1>1, <1>3 DEF Receive, Accept, RejectLine, RejectStranger, HandleLogin,
       HandleBye, HandleUnsupported, HandlePush, HandlePop, HandleTop,
       HandleCreate, HandleGet, HandleBegin, HandleCommit
<1>4. CASE Step(c)
  BY <1>1, <1>4 DEF Step, CreateTable, SetTrylock, SetStaged, SetLock, SetWrite,
       SetUnlock, GetLock, GetRead, GetUnlock, GetCatch, GetRecatch,
       CommitTable, CommitThrows, CommitDone, RollingBack, RollbackTable,
       RollbackThrows, RollbackDone, SendReply, SendLast, SendCaught,
       SendRolledBack, SendThrows, SendSites, AfterThrow, SendKilled,
       EncodeThrows, ReadError, Close
<1>5. CASE Disconnect(c)
  BY <1>5 DEF Disconnect
<1> QED
  BY <1>2, <1>3, <1>4, <1>5

\* A step of a thread that unlocks nothing twice keeps StoreInv.
LEMMA StoreInvStep ==
  ASSUME IInv, StoreInv, ~overreleased, NEW c \in Conn,
         Step(c) \/ Receive(c) \/ Disconnect(c)
  PROVE  StoreInv'
<1>1. FlowInv /\ LockInv /\ TypeOK
  BY DEF IInv, FlowInv
<1>2. OwesReply(c)' /\ NothingToRollBack(c)' /\ HasValue(c)'
  BY <1>1, ReplyOfStep, RollbackOfStep, ValueOfStep DEF StoreInv, ReplyInv
<1>3. \A d \in Conn \ {c} : OwesReply(d)'
  BY <1>1, RepliesOfOthers, OverreleasedKept DEF StoreInv, ReplyInv, OwesReply
<1>4. \A d \in Conn \ {c} : NothingToRollBack(d)' /\ HasValue(d)'
  BY <1>1, OthersStay DEF StoreInv, OnlyMoves, NothingToRollBack, HasValue
<1> QED
  BY <1>2, <1>3, <1>4 DEF StoreInv, ReplyInv
-----------------------------------------------------------------------------
(* What a step of one thread shows of the others *)

\* What the transaction of c has staged in o and not begun to commit.
Pending(c, o) ==
  IF pc[c] # "commit" /\ o \in TxnTables(c) THEN staged_data[o] ELSE EmptyMap

\* The committed contents of o if only c can be committing it.
Stored(c, o) ==
  IF pc[c] = "commit" /\ o \in TxnTables(c) THEN Merge(data[o], staged_data[o])
                                             ELSE data[o]

\* A step of c touches only the tables that c has locked, and begins to commit
\* none but those.
Local(c) ==
  /\ \A o \in Obj \ Locks(c) :
       data'[o] = data[o] /\ staged_data'[o] = staged_data[o]
  /\ pc'[c] = "commit" => TxnTables(c)' \subseteq TxnTables(c)

\* A table that c has locked is in no other transaction.
LEMMA LockedByOne ==
  ASSUME LockInv, NEW c \in Conn, NEW o \in Obj, o \in Locks(c),
         NEW d \in Conn, o \in Locks(d)
  PROVE  d = c
BY DEF LockInv

\* What a step of c does not touch is pending and stored as before.
LEMMA OthersView ==
  ASSUME FlowInv, LockInv, Stable, NEW c \in Conn, OnlyMoves(c), Local(c)
  PROVE  /\ \A d \in Conn \ {c} : pendingBar'[d] = pendingBar[d]
         /\ \A d \in Conn \ {c} : answerBar'[d] = answerBar[d]
         /\ \A o \in Obj \ Locks(c) : storeBar'[o] = storeBar[o]
         /\ \A o \in Locks(c) \cap Obj :
              storeBar[o] = Stored(c, o) /\ storeBar'[o] = Stored(c, o)'
<1>1. ASSUME NEW d \in Conn \ {c}
      PROVE  /\ TxnTables(d)' = TxnTables(d)
             /\ pc'[d] = pc[d] /\ cur'[d] = cur[d]
             /\ \A o \in Obj \cap TxnTables(d) :
                  /\ o \notin Locks(c)
                  /\ data'[o] = data[o] /\ staged_data'[o] = staged_data[o]
  <2>1. TxnTables(d)' = TxnTables(d) /\ cur'[d] = cur[d]
    BY OtherLocks
  <2>2. \A o \in Obj \cap TxnTables(d) : o \notin Locks(c)
    BY LockedByOne DEF Locks
  <2> QED
    BY <2>1, <2>2 DEF OnlyMoves, Local
<1>2. ASSUME NEW d \in Conn \ {c}
      PROVE  pendingBar'[d] = pendingBar[d] /\ answerBar'[d] = answerBar[d]
  BY <1>1 DEF pendingBar, answerBar
<1>3. ASSUME NEW o \in Obj \ Locks(c)
      PROVE  storeBar'[o] = storeBar[o]
  <2>1. o \notin TxnTables(c)
    BY DEF Locks
  <2>2. ~(pc'[c] = "commit" /\ o \in TxnTables(c)')
    BY <2>1 DEF Local
  <2>3. Committing(o)' <=> Committing(o)
    BY <1>1, <2>1, <2>2 DEF Committing
  <2>4. data'[o] = data[o] /\ staged_data'[o] = staged_data[o]
    BY DEF Local
  <2> QED
    BY <2>3, <2>4 DEF storeBar
<1>4. ASSUME NEW o \in Locks(c) \cap Obj
      PROVE  storeBar[o] = Stored(c, o) /\ storeBar'[o] = Stored(c, o)'
  <2>1. \A d \in Conn \ {c} : o \notin TxnTables(d) /\ o \notin TxnTables(d)'
    BY <1>1
  <2>2. /\ Committing(o) <=> pc[c] = "commit" /\ o \in TxnTables(c)
        /\ Committing(o)' <=> pc'[c] = "commit" /\ o \in TxnTables(c)'
    BY <2>1 DEF Committing
  <2> QED
    BY <2>2 DEF storeBar, Stored
<1> QED
  BY <1>2, <1>3, <1>4

\* A step that leaves what c has pending, stored and answered leaves the
\* abstract store as it is.
LEMMA StoreStutters ==
  ASSUME FlowInv, LockInv, Stable, NEW c \in Conn, OnlyMoves(c), Local(c),
         \A o \in Obj : Pending(c, o)' = Pending(c, o),
         \A o \in Locks(c) \cap Obj : Stored(c, o)' = Stored(c, o),
         answerBar'[c] = answerBar[c]
  PROVE  UNCHANGED <<storeBar, pendingBar, answerBar>>
<1>1. pendingBar'[c] = pendingBar[c]
  BY DEF pendingBar, Pending
<1>2. pendingBar' = pendingBar
  BY <1>1, OthersView DEF pendingBar
<1>3. answerBar' = answerBar
  BY OthersView DEF answerBar
<1>4. \A o \in Obj : storeBar'[o] = storeBar[o]
  BY OthersView
<1>5. storeBar' = storeBar
  BY <1>4 DEF storeBar
<1> QED
  BY <1>2, <1>3, <1>5
-----------------------------------------------------------------------------
(* The steps that the abstract store does not see *)

\* A step that stages and merges nothing, keeps the tables of the transaction
\* and begins no commit shows nothing but, possibly, an answer.
LEMMA NothingShown ==
  ASSUME FlowInv, LockInv, Stable, NEW c \in Conn, OnlyMoves(c),
         UNCHANGED <<data, staged_data>>, TxnNames(c)' = TxnNames(c),
         (pc'[c] = "commit" <=> pc[c] = "commit") \/ TxnNames(c) = {}
  PROVE  UNCHANGED <<storeBar, pendingBar>>
<1>1. TxnTables(c)' = TxnTables(c) /\ (TxnNames(c) = {} => TxnTables(c) = {})
  BY SameTables DEF TxnTables
<1>2. Local(c)
  BY <1>1 DEF Local
<1>3. \A o \in Obj : Pending(c, o)' = Pending(c, o) /\ Stored(c, o)' = Stored(c, o)
  BY <1>1 DEF Pending, Stored
<1>4. pendingBar'[c] = pendingBar[c]
  BY <1>3 DEF pendingBar, Pending
<1>5. pendingBar' = pendingBar
  BY <1>2, <1>4, OthersView DEF pendingBar
<1>6. \A o \in Obj : storeBar'[o] = storeBar[o]
  BY <1>2, <1>3, OthersView
<1> QED
  BY <1>5, <1>6 DEF storeBar

\* Only a get that succeeds and the send of its OK change an answer.
LEMMA AnswerKept ==
  ASSUME FlowInv, LockInv, NEW c \in Conn, Step(c) \/ Receive(c) \/ Disconnect(c),
         ~GetRecatch(c), ~GetRead(c), ~(SendReply(c) /\ pc[c] = "send_get")
  PROVE  answerBar' = answerBar
<1>1. pc \in [Conn -> Labels] /\ cur \in [Conn -> Cur]
  BY DEF FlowInv, TypeOK, ThreadType
<1> DEFINE Answers == {"get_unlock", "send_get", "get_recatch"}
           Same == /\ pc'[c] \in Answers <=> pc[c] \in Answers
                   /\ pc[c] \in Answers => cur'[c] = cur[c]
<1>2. Same
  <2> USE DEF At, Goto, Respond, Reads, Sends, Returns, threadVars
  <2>1. CASE Receive(c)
    BY <1>1, <2>1 DEF Receive, Accept, RejectLine, RejectStranger, HandleLogin,
         HandleBye, HandleUnsupported, HandlePush, HandlePop, HandleTop,
         HandleCreate, HandleSet, SetPath, HandleGet, HandleBegin, HandleCommit
  <2>2. CASE Step(c)
    BY <1>1, <2>2 DEF Step, CreateTable, SetTrylock, SetStaged, SetLock, SetWrite,
         SetUnlock, GetLock, GetUnlock, GetCatch, CommitTable, CommitThrows,
         CommitDone, RollingBack, RollbackTable, RollbackThrows, RollbackDone,
         SendReply, SendLast, SendCaught, SendRolledBack, SendThrows, SendSites,
         AfterThrow, SendKilled, EncodeThrows, ReadError, Close
  <2>3. CASE Disconnect(c)
    BY <2>3 DEF Disconnect
  <2> QED
    BY <2>1, <2>2, <2>3
<1>3. \A d \in Conn \ {c} : pc'[d] = pc[d] /\ cur'[d] = cur[d]
  BY OthersStay DEF OnlyMoves
<1> QED
  BY <1>2, <1>3 DEF answerBar

\* A COMMIT of a transaction: from here on its writes count as committed.
Commits(c) == HandleCommit(c) /\ in_transaction[c]

\* Most steps store, stage and commit nothing.
LEMMA QuietUnseen ==
  ASSUME FlowInv, LockInv, NEW c \in Conn, NothingToRollBack(c),
         Step(c) \/ Receive(c) \/ Disconnect(c), ~GetRecatch(c), ~Commits(c),
         ~(SetTrylock(c) \/ SetStaged(c) \/ SetWrite(c) \/ CommitTable(c))
  PROVE  UNCHANGED <<storeBar, pendingBar>>
<1>1. Stable /\ OnlyMoves(c)
  BY OthersStay
<1>2. pc \in [Conn -> Labels]
  BY DEF FlowInv, TypeOK, ThreadType
<1>3. ~RollbackTable(c) /\ ~CommitThrows(c)
  BY LockedWhenUsed DEF NothingToRollBack, RollbackTable, RollingBack, At,
                        CommitThrows
<1> DEFINE Hidden == /\ UNCHANGED <<data, staged_data>>
                     /\ TxnNames(c)' = TxnNames(c)
                     /\ \/ pc'[c] = "commit" <=> pc[c] = "commit"
                        \/ TxnNames(c) = {}
<1> USE DEF At, Goto, Respond, Reads, Sends, Returns, threadVars, tableVars,
            sessionVars
<1>4. CASE Receive(c) \/ Disconnect(c)
  <2>1. Quiet(c)
    BY <1>4, QuietActions DEF Receive
  <2>2. data' = data /\ (pc'[c] = "commit" <=> pc[c] = "commit")
    BY <1>2, <1>4 DEF Receive, Commits, Accept, RejectLine, RejectStranger,
         HandleLogin, HandleBye, HandleUnsupported, HandlePush, HandlePop,
         HandleTop, HandleCreate, HandleSet, SetPath, HandleGet, HandleBegin,
         HandleCommit, Disconnect
  <2> QED
    BY <1>1, <2>1, <2>2, NothingShown DEF Quiet
<1>5. CASE \/ CreateTable(c) \/ GetRead(c) \/ CommitDone(c) \/ RollbackThrows(c)
           \/ RollbackDone(c) \/ SendReply(c) \/ SendLast(c) \/ SendCaught(c)
           \/ SendRolledBack(c) \/ SendThrows(c) \/ SendKilled(c)
           \/ EncodeThrows(c) \/ ReadError(c) \/ Close(c)
  <2>1. Quiet(c)
    BY <1>5, QuietActions
  <2>2. data' = data /\ ((pc'[c] = "commit" <=> pc[c] = "commit") \/ TxnNames(c) = {})
    BY <1>2, <1>5 DEF CreateTable, GetRead, CommitDone, RollbackThrows,
         RollingBack, RollbackDone, SendReply, SendLast, SendCaught,
         SendRolledBack, SendThrows, SendSites, AfterThrow, SendKilled,
         EncodeThrows, ReadError, Close, TxnNames
  <2> QED
    BY <1>1, <2>1, <2>2, NothingShown DEF Quiet
<1>6. CASE SetLock(c) \/ SetUnlock(c) \/ GetLock(c) \/ GetUnlock(c) \/ GetCatch(c)
  <2>1. /\ UNCHANGED <<data, staged_data, locked_tables, todo>>
        /\ pc'[c] \notin {"commit", "rollback_set", "rollback_commit"}
        /\ pc[c] \notin {"commit", "rollback_set", "rollback_commit"}
    BY <1>2, <1>6 DEF SetLock, SetUnlock, GetLock, GetUnlock, GetCatch
  <2> QED
    BY <1>1, <2>1, NothingShown DEF TxnNames
<1> QED
  BY <1>3, <1>4, <1>5, <1>6 DEF Step

\* A trylock shows nothing: nothing is staged in a table that was free.
LEMMA TrylockUnseen ==
  ASSUME FlowInv, LockInv, NEW c \in Conn, SetTrylock(c)
  PROVE  UNCHANGED <<storeBar, pendingBar>>
<1> DEFINE o == cur[c].obj
<1>1. Stable /\ OnlyMoves(c)
  BY OthersStay DEF Step
<1>2. /\ pc[c] = "set_trylock" /\ pc'[c] \in {"send", "set_staged"}
      /\ UNCHANGED <<data, staged_data, todo>>
  BY DEF SetTrylock, At, Goto, Respond, FlowInv, TypeOK, ThreadType
<1>3. o \in Obj /\ o = find_table(cur[c].name) /\ cur[c].name \in TableName
  BY <1>2, BusyObj DEF Busy, FlowInv, CurValid
<1>4. CASE UNCHANGED locked_tables
  BY <1>1, <1>2, <1>4, NothingShown DEF TxnNames
<1>5. CASE ~UNCHANGED locked_tables
  <2>1. /\ mutex[o] = Nil
        /\ locked_tables' = [locked_tables EXCEPT ![c] = @ \cup {cur[c].name}]
    BY <1>5 DEF SetTrylock, Lock
  <2>2. TxnNames(c)' = TxnNames(c) \cup {cur[c].name}
    BY <1>2, <2>1 DEF TxnNames, FlowInv, TypeOK, SessionType
  <2>3. \A n \in TxnNames(c)' : find_table(n)' = find_table(n)
    BY <1>1, <1>3, <2>2, TxnResolves DEF Stable, Obj
  <2>4. TxnTables(c)' = TxnTables(c) \cup {o}
    BY <1>3, <2>2, <2>3 DEF TxnTables
  <2>5. IsEmpty(staged_data[o])
    BY <1>3, <2>1, ConstantsAssumption DEF LockInv, Locks
  <2>6. \A p \in Obj : Pending(c, p)' = Pending(c, p)
    BY <1>2, <2>4, <2>5 DEF Pending, IsEmpty
  <2>7. \A p \in Obj : Stored(c, p)' = Stored(c, p)
    BY <1>2, <2>4 DEF Stored
  <2>8. Local(c)
    BY <1>2 DEF Local
  <2>9. answerBar' = answerBar
    BY AnswerKept DEF Step, At, SetTrylock, GetRecatch, GetRead
  <2> QED
    BY <1>1, <2>6, <2>7, <2>8, <2>9, StoreStutters
<1> QED
  BY <1>4, <1>5

\* An iteration of the commit loop shows nothing: what it merges was stored
\* since the COMMIT began.
LEMMA CommitUnseen ==
  ASSUME FlowInv, LockInv, NEW c \in Conn, CommitTable(c)
  PROVE  UNCHANGED <<storeBar, pendingBar>>
<1>1. Stable /\ OnlyMoves(c)
  BY OthersStay DEF Step
<1>2. pc[c] = "commit" /\ UNCHANGED pc
  BY DEF CommitTable, At
<1>3. PICK n \in todo[c] :
        CommitChanges(find_table(n)) /\ todo' = [todo EXCEPT ![c] = @ \ {n}]
  BY DEF CommitTable
<1> DEFINE o == find_table(n)
<1>4. TxnNames(c) = todo[c] /\ TxnNames(c)' = todo[c] \ {n}
  BY <1>2, <1>3 DEF TxnNames, FlowInv, TypeOK, ThreadType
<1>5. /\ o \in Obj /\ o \in Locks(c)
      /\ \A m \in todo[c] : find_table(m) \in Obj /\ m \in TableName
  BY <1>2, <1>4, TxnResolves, CommitHolds
<1>6. \A m \in todo[c] : find_table(m)' = find_table(m)
  BY <1>1, <1>5 DEF Stable, Obj
<1>7. \A m \in todo[c] \ {n} : find_table(m) # o
  BY <1>5, FindInjective DEF FlowInv, TypeOK, ServerType, Obj
<1>8. TxnTables(c) = TxnTables(c)' \cup {o} /\ o \notin TxnTables(c)'
  BY <1>4, <1>6, <1>7 DEF TxnTables
<1>9. /\ data'[o] = Merge(data[o], staged_data[o])
      /\ \A p \in Obj \ {o} : data'[p] = data[p] /\ staged_data'[p] = staged_data[p]
  BY <1>3, <1>5 DEF CommitChanges, FlowInv, TypeOK, TableType
<1>10. \A p \in Obj : Pending(c, p)' = Pending(c, p)
  BY <1>2 DEF Pending
<1>11. \A p \in Obj : Stored(c, p)' = Stored(c, p)
  BY <1>2, <1>8, <1>9 DEF Stored
<1>12. Local(c)
  BY <1>5, <1>8, <1>9 DEF Local
<1>13. answerBar' = answerBar
  BY <1>2, AnswerKept DEF Step, GetRecatch, GetRead, At
<1> QED
  BY <1>1, <1>10, <1>11, <1>12, <1>13, StoreStutters
-----------------------------------------------------------------------------
(* The steps of the abstract store *)

\* A table that c has locked for one handler is in no transaction: nothing is
\* pending in it and nobody is committing it.
LEMMA InsideAlone ==
  ASSUME FlowInv, LockInv, NEW c \in Conn, Inside(c)
  PROVE  /\ cur[c].obj \in Obj /\ cur[c].obj \in Locks(c)
         /\ \A d \in Conn : cur[c].obj \notin TxnTables(d)
         /\ IsEmpty(staged_data[cur[c].obj])
         /\ Store!NoPending(Conn, cur[c].obj)
         /\ storeBar[cur[c].obj] = data[cur[c].obj]
<1> DEFINE o == cur[c].obj
<1>1. o \in Obj /\ o \in Locks(c)
  BY BusyObj DEF Inside, Busy, Locks
<1>2. \A d \in Conn : o \notin TxnTables(d)
  BY <1>1, LockedByOne DEF Locks, LockInv
<1>3. IsEmpty(staged_data[o])
  BY <1>1, <1>2 DEF LockInv
<1>4. Store!NoPending(Conn, o)
  BY <1>1, <1>2 DEF Store!NoPending, Store!IsEmpty, Store!EmptyMap, EmptyMap,
                    pendingBar
<1>5. storeBar[o] = data[o]
  BY <1>1, <1>2 DEF storeBar, Committing
<1> QED
  BY <1>1, <1>2, <1>3, <1>4, <1>5

\* A SET outside a transaction takes effect when it writes the table.
LEMMA WriteStep ==
  ASSUME FlowInv, LockInv, NEW c \in Conn, HasValue(c), SetWrite(c)
  PROVE  \E o \in Obj, k \in Key, v \in Val : Store!Write(o, k, v)
<1> DEFINE o == cur[c].obj
           k == cur[c].key
           v == cur[c].val
<1>1. Stable /\ OnlyMoves(c) /\ pc[c] = "set_write"
  BY OthersStay DEF Step, SetWrite, At
<1>2. /\ o \in Obj /\ o \in Locks(c) /\ Store!NoPending(Conn, o)
      /\ \A d \in Conn : o \notin TxnTables(d)
  BY <1>1, InsideAlone DEF Inside
<1>3. k \in Key /\ v \in Val /\ is_locked[o]
  BY <1>1, LockedWhenUsed DEF HasValue, FlowInv, CurValid, Busy
<1>4. /\ data' = [data EXCEPT ![o] = Put(@, k, v)]
      /\ UNCHANGED <<staged_data, locked_tables, cur>> /\ pc'[c] = "set_unlock"
  BY <1>3 DEF SetWrite, Goto, sessionVars, FlowInv, TypeOK, ThreadType
<1>5. TxnTables(c)' = TxnTables(c)
  BY <1>1, <1>4, SameTables DEF TxnNames
<1>6. data \in [Obj -> KVMap]
  BY DEF FlowInv, TypeOK, TableType
<1>7. Local(c)
  BY <1>2, <1>4, <1>6 DEF Local
<1>8. \A p \in Obj : Pending(c, p)' = Pending(c, p)
  BY <1>1, <1>4, <1>5 DEF Pending
<1>9. pendingBar' = pendingBar
  BY <1>1, <1>7, <1>8, OthersView DEF pendingBar, Pending
<1>10. \A p \in Obj : storeBar'[p] = IF p = o THEN Put(storeBar[o], k, v)
                                             ELSE storeBar[p]
  <2>1. \A p \in Obj \cap Locks(c) : storeBar[p] = data[p] /\ storeBar'[p] = data'[p]
    BY <1>1, <1>4, <1>7, OthersView DEF Stored
  <2> QED
    BY <1>1, <1>2, <1>4, <1>6, <1>7, <2>1, OthersView
<1>11. storeBar' = [storeBar EXCEPT ![o] = Store!Put(@, k, v)]
  BY <1>2, <1>10 DEF storeBar, Put, Store!Put
<1>12. answerBar' = answerBar
  BY <1>1, AnswerKept DEF Step, GetRecatch, GetRead, At
<1>13. Store!Write(o, k, v)
  BY <1>2, <1>9, <1>11, <1>12 DEF Store!Write
<1> QED
  BY <1>2, <1>3, <1>13

\* A SET of a transaction is private to it.
LEMMA StageStep ==
  ASSUME FlowInv, LockInv, NEW c \in Conn, HasValue(c), SetStaged(c)
  PROVE  \E o \in Obj, k \in Key, v \in Val : Store!Stage(c, o, k, v)
<1> DEFINE o == cur[c].obj
           k == cur[c].key
           v == cur[c].val
<1>1. Stable /\ OnlyMoves(c) /\ pc[c] = "set_staged"
  BY OthersStay DEF Step, SetStaged, At
<1>2. /\ o \in Obj /\ o = find_table(cur[c].name)
      /\ cur[c].name \in locked_tables[c]
  BY <1>1, BusyObj DEF Busy, FlowInv, CurValid, TxnValid
<1>3. k \in Key /\ v \in Val /\ is_locked[o]
  BY <1>1, LockedWhenUsed DEF HasValue, FlowInv, CurValid, Busy
<1>4. /\ staged_data' = [staged_data EXCEPT ![o] = Put(@, k, v)]
      /\ UNCHANGED <<data, locked_tables, cur>> /\ pc'[c] = "send_set"
  BY <1>3 DEF SetStaged, Goto, Respond, sessionVars, FlowInv, TypeOK, ThreadType
<1>5. TxnTables(c)' = TxnTables(c)
  BY <1>1, <1>4, SameTables DEF TxnNames
<1>6. o \in TxnTables(c) /\ o \in Locks(c)
  BY <1>1, <1>2 DEF TxnTables, TxnNames, Locks
<1>7. staged_data \in [Obj -> KVMap]
  BY DEF FlowInv, TypeOK, TableType
<1>8. Local(c)
  BY <1>4, <1>6, <1>7 DEF Local
<1>9. \A p \in Obj : Pending(c, p)' = IF p = o THEN Put(Pending(c, o), k, v)
                                              ELSE Pending(c, p)
  BY <1>1, <1>2, <1>4, <1>5, <1>6, <1>7 DEF Pending
<1>10. pendingBar' = [pendingBar EXCEPT ![c][o] = Store!Put(@, k, v)]
  <2>1. \A d \in Conn \ {c} : pendingBar'[d] = pendingBar[d]
    BY <1>1, <1>8, OthersView
  <2>2. pendingBar'[c] = [pendingBar[c] EXCEPT ![o] = Store!Put(@, k, v)]
    BY <1>2, <1>9 DEF pendingBar, Pending, Put, Store!Put
  <2>3. pendingBar = [d \in Conn |-> pendingBar[d]]
        /\ pendingBar' = [d \in Conn |-> pendingBar'[d]]
    BY DEF pendingBar
  <2> QED
    BY <2>1, <2>2, <2>3
<1>11. \A p \in Obj : Stored(c, p)' = Stored(c, p)
  BY <1>1, <1>4 DEF Stored
<1>12. \A p \in Obj : storeBar'[p] = storeBar[p]
  BY <1>1, <1>8, <1>11, OthersView
<1>13. storeBar' = storeBar
  BY <1>12 DEF storeBar
<1>14. answerBar' = answerBar
  BY <1>1, AnswerKept DEF Step, GetRecatch, GetRead, At
<1>15. Store!NoPending(Conn \ {c}, o)
  <2>1. \A d \in Conn \ {c} : o \notin TxnTables(d)
    BY <1>2, <1>6, LockedByOne DEF Locks
  <2> QED
    BY <1>2, <2>1 DEF Store!NoPending, Store!IsEmpty, Store!EmptyMap, EmptyMap,
                      pendingBar
<1>16. Store!Stage(c, o, k, v)
  BY <1>10, <1>13, <1>14, <1>15 DEF Store!Stage
<1> QED
  BY <1>2, <1>3, <1>16

\* A GET takes its answer from the committed contents.
LEMMA ReadStep ==
  ASSUME FlowInv, LockInv, NEW c \in Conn, GetRead(c)
  PROVE  \/ \E o \in Obj, k \in Key : Store!Read(c, o, k)
         \/ UNCHANGED <<storeBar, pendingBar, answerBar>>
<1> DEFINE o == cur[c].obj
           k == cur[c].key
<1>1. OnlyMoves(c) /\ pc[c] = "get_read" /\ pc'[c] \in {"get_unlock", "get_catch"}
  BY OthersStay DEF Step, GetRead, At, Goto, Respond, FlowInv, TypeOK, ThreadType
<1>2. /\ o \in Obj /\ Store!NoPending(Conn, o)
      /\ IsEmpty(staged_data[o]) /\ storeBar[o] = data[o]
  BY <1>1, InsideAlone DEF Inside
<1>3. k \in Key /\ is_locked[o]
  BY <1>1, LockedWhenUsed DEF FlowInv, CurValid, Busy
<1>4. Lookup(data[o], staged_data[o], k, in_transaction[c]) = data[o][k]
  BY <1>2, <1>3 DEF Lookup, IsEmpty, EmptyMap
<1>5. UNCHANGED <<storeBar, pendingBar>>
  BY <1>1, QuietUnseen DEF Step, At, GetRecatch, Commits, HandleCommit, Reads,
     NothingToRollBack, SetTrylock, SetStaged, SetWrite, CommitTable, GetRead
<1>6. \A d \in Conn \ {c} : answerBar'[d] = answerBar[d]
  BY <1>1 DEF answerBar, OnlyMoves
<1>7. CASE pc'[c] = "get_catch"
  BY <1>1, <1>5, <1>6, <1>7 DEF answerBar
<1>8. CASE pc'[c] = "get_unlock"
  <2>1. /\ data[o][k] # Nil
        /\ cur' = [cur EXCEPT ![c] = Locals(cur[c].name, k, o, data[o][k])]
    BY <1>3, <1>4, <1>8 DEF GetRead, Goto, Respond, FlowInv, TypeOK, ThreadType
  <2>2. cur'[c].val = data[o][k]
    BY <2>1 DEF Locals, FlowInv, TypeOK, ThreadType
  <2>3. answerBar' = [answerBar EXCEPT ![c] = storeBar[o][k]]
    BY <1>2, <1>6, <1>8, <2>2 DEF answerBar
  <2>4. Store!Read(c, o, k)
    BY <1>2, <1>5, <2>1, <2>3 DEF Store!Read
  <2> QED
    BY <1>2, <1>3, <2>4
<1> QED
  BY <1>1, <1>7, <1>8

\* The send of its OK hands the answer over.
LEMMA HandedStep ==
  ASSUME FlowInv, LockInv, NEW c \in Conn, SendReply(c), pc[c] = "send_get"
  PROVE  Store!Handed(c)
<1>1. OnlyMoves(c) /\ pc'[c] = "idle"
  BY OthersStay DEF Step, SendReply, Returns, Respond, Goto, FlowInv, TypeOK,
                    ThreadType
<1>2. UNCHANGED <<storeBar, pendingBar>>
  BY QuietUnseen DEF Step, At, GetRecatch, Commits, HandleCommit, Reads,
     NothingToRollBack, SetTrylock, SetStaged, SetWrite, CommitTable
<1>3. answerBar' = [answerBar EXCEPT ![c] = Nil]
  BY <1>1 DEF answerBar, OnlyMoves
<1> QED
  BY <1>2, <1>3 DEF Store!Handed

\* The committed contents of a table are a map.
LEMMA StoreType ==
  ASSUME FlowInv
  PROVE  \A o \in Obj : storeBar[o] \in KVMap
BY MapType DEF storeBar, FlowInv, TypeOK, TableType

\* A transaction takes effect, in all of its tables, when its COMMIT begins.
LEMMA CommitStep ==
  ASSUME FlowInv, LockInv, NEW c \in Conn, Commits(c)
  PROVE  Store!Commit(c)
<1>1. Stable /\ OnlyMoves(c) /\ pc[c] = "idle" /\ pc'[c] = "commit"
  BY OthersStay DEF Receive, Commits, HandleCommit, Reads, At, Goto, FlowInv,
                    TypeOK, ThreadType
<1>2. /\ UNCHANGED <<data, staged_data, locked_tables, cur>>
      /\ todo'[c] = locked_tables[c]
  BY DEF Commits, HandleCommit, tableVars, sessionVars, FlowInv, TypeOK,
         ThreadType
<1>3. TxnTables(c)' = TxnTables(c)
  BY <1>1, <1>2, SameTables DEF TxnNames
<1>4. Local(c)
  BY <1>2, <1>3 DEF Local
<1>5. \A p \in Obj : /\ Pending(c, p) = IF p \in TxnTables(c) THEN staged_data[p]
                                                              ELSE EmptyMap
                     /\ Pending(c, p)' = EmptyMap
  BY <1>1 DEF Pending
<1>6. pendingBar' = [pendingBar EXCEPT ![c] = [p \in Obj |-> EmptyMap]]
  <2>1. pendingBar'[c] = [p \in Obj |-> EmptyMap]
    BY <1>5 DEF pendingBar, Pending
  <2>2. \A d \in Conn \ {c} : pendingBar'[d] = pendingBar[d]
    BY <1>1, <1>4, OthersView
  <2>3. /\ pendingBar = [d \in Conn |-> pendingBar[d]]
        /\ pendingBar' = [d \in Conn |-> pendingBar'[d]]
    BY DEF pendingBar
  <2> QED
    BY <2>1, <2>2, <2>3
<1>7. \A p \in Obj : storeBar'[p] = Merge(storeBar[p], Pending(c, p))
  <2>1. ASSUME NEW p \in Obj, p \in TxnTables(c)
        PROVE  storeBar'[p] = Merge(storeBar[p], Pending(c, p))
    <3>1. p \in Locks(c) /\ storeBar[p] = Stored(c, p) /\ storeBar'[p] = Stored(c, p)'
      BY <1>1, <1>4, <2>1, OthersView DEF Locks
    <3> QED
      BY <1>1, <1>2, <1>3, <1>5, <2>1, <3>1 DEF Stored
  <2>2. ASSUME NEW p \in Obj, p \notin TxnTables(c)
        PROVE  storeBar'[p] = Merge(storeBar[p], Pending(c, p))
    <3>1. storeBar'[p] = storeBar[p]
      <4>1. p \notin Locks(c)
        BY <1>1, <2>2 DEF Locks, Inside
      <4> QED
        BY <1>1, <1>4, <2>2, <4>1, OthersView
    <3>2. Pending(c, p) = EmptyMap /\ storeBar[p] \in KVMap
      BY <1>5, <2>2, StoreType
    <3> QED
      BY <3>1, <3>2 DEF Merge, EmptyMap, KVMap
  <2> QED
    BY <2>1, <2>2
<1>8. storeBar' = [p \in Obj |-> Store!Merge(storeBar[p], pendingBar[c][p])]
  BY <1>7 DEF storeBar, pendingBar, Pending, Merge, Store!Merge
<1>9. answerBar' = answerBar
  BY <1>1, AnswerKept DEF Commits, Receive, GetRecatch, GetRead, At
<1> QED
  BY <1>6, <1>8, <1>9 DEF Store!Commit, EmptyMap, Store!EmptyMap
-----------------------------------------------------------------------------
(* The theorem *)

\* StoreInv, too, holds until a table is unlocked twice.
LEMMA StoreInvAlways == Spec => [](~overreleased => StoreInv)
<1>1. Init => StoreInv
  BY DEF Init, InitWith, StoreInv, ReplyInv, OwesReply, NothingToRollBack, HasValue
<1>2. IInv /\ (~overreleased => StoreInv) /\ [Next]_vars
        => (~overreleased => StoreInv)'
  <2>1. CASE UNCHANGED vars
    BY <2>1 DEF vars, threadVars, linkVars, tableVars, StoreInv, ReplyInv,
                OwesReply, NothingToRollBack, HasValue
  <2> QED
    BY <2>1, StoreInvStep, OverreleasedStays DEF Next
<1> QED
  BY <1>1, <1>2, LockAlways, PTL DEF Spec

\* Nothing is stored, pending or answered before the first connection.
LEMMA StoreInit == Init => Store!Init
<1> SUFFICES ASSUME Init PROVE Store!Init
  OBVIOUS
<1>1. \A c \in Conn : TxnTables(c) = {} /\ pc[c] = "none"
  BY DEF Init, InitWith, TxnTables, TxnNames
<1>2. \A o \in Obj : data[o] = EmptyMap
  BY DEF Init, InitWith
<1> QED
  BY <1>1, <1>2 DEF Store!Init, storeBar, pendingBar, answerBar, Committing,
                    Store!EmptyMap, EmptyMap

\* Every step of a thread is at most one step of the abstract store.
LEMMA StoreStep ==
  ASSUME IInv, StoreInv, NEW c \in Conn, Step(c) \/ Receive(c) \/ Disconnect(c),
         ~overreleased'
  PROVE  [Store!Next]_(Store!vars)
<1>1. FlowInv /\ LockInv /\ ~GetRecatch(c)
  BY OverreleasedStays DEF IInv
<1>2. NothingToRollBack(c) /\ HasValue(c)
  BY DEF StoreInv
<1>3. CASE SetWrite(c)
  BY <1>1, <1>2, <1>3, WriteStep DEF Store!Next
<1>4. CASE SetStaged(c)
  BY <1>1, <1>2, <1>4, StageStep DEF Store!Next
<1>5. CASE GetRead(c)
  BY <1>1, <1>5, ReadStep DEF Store!Next, Store!vars
<1>6. CASE SendReply(c) /\ pc[c] = "send_get"
  BY <1>1, <1>6, HandedStep DEF Store!Next
<1>7. CASE Commits(c)
  BY <1>1, <1>7, CommitStep DEF Store!Next
<1>8. CASE ~(\/ SetWrite(c) \/ SetStaged(c) \/ GetRead(c) \/ Commits(c)
             \/ SendReply(c) /\ pc[c] = "send_get")
  <2>1. answerBar' = answerBar
    BY <1>1, <1>8, AnswerKept
  <2>2. UNCHANGED <<storeBar, pendingBar>>
    BY <1>1, <1>2, <1>8, TrylockUnseen, CommitUnseen, QuietUnseen
  <2> QED
    BY <2>1, <2>2 DEF Store!vars
<1> QED
  BY <1>3, <1>4, <1>5, <1>6, <1>7, <1>8

\* The tables implement AtomicStore: a write outside a transaction is one
\* step, the writes of a transaction stay private until its COMMIT and then
\* appear in all of its tables at once, a read sees committed data of a table
\* that nobody is changing, and a lost connection undoes nothing - with
\* locks, trylocks, exceptions and threads in between.
THEOREM TablesAreAtomic == Spec => AtomicStoreSpec
<1>1. ASSUME IInv, ~overreleased => StoreInv, [Next]_vars
      PROVE  [overreleased' \/ Store!Next]_(Store!vars)
  <2>1. CASE UNCHANGED vars
    <3>1. \A n : find_table(n)' = find_table(n)
      BY <2>1, FindSame DEF vars, serverVars
    <3> QED
      BY <2>1, <3>1 DEF Store!vars, storeBar, pendingBar, answerBar, Committing,
         TxnTables, TxnNames, vars, serverVars, tableVars, sessionVars, threadVars
  <2>2. ASSUME NEW c \in Conn, Step(c) \/ Receive(c) \/ Disconnect(c),
               ~overreleased'
        PROVE  [Store!Next]_(Store!vars)
    BY <1>1, <2>2, OverreleasedStays, StoreStep
  <2> QED
    BY <1>1, <2>1, <2>2 DEF Next
<1> QED
  BY <1>1, StoreInit, LockAlways, StoreInvAlways, PTL DEF Spec, AtomicStoreSpec
=============================================================================
