CONSTANTS
  Conn = {c1, c2}
  TableName = {t1, t2}
  Key = {k1}
  Val = {v1}
  Nil = Nil
  MaxTables = 2
  MaxStack = 1
  Long = {k1}
  Commands = {"PUSH", "SET", "GET", "BEGIN", "COMMIT"}
  Disconnects = {}
SPECIFICATION WarmFairSpec
PROPERTIES
  TxnAnswered
  LocksReleased
CHECK_DEADLOCK FALSE
