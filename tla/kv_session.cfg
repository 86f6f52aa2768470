CONSTANTS
  Conn = {c1, c2}
  TableName = {t1}
  Key = {k1}
  Val = {v1, v2}
  Nil = Nil
  MaxTables = 1
  MaxStack = 1
  Long = {v1}
  Commands = {"LOGIN", "CREATE", "POP", "TOP", "BYE", "INVALID", "NONE", "PUSH", "SET", "GET", "BEGIN", "COMMIT"}
  Disconnects = {"fin", "rst"}
SPECIFICATION Spec
SYMMETRY Symm
INVARIANTS
  OneReplyPerLine
PROPERTIES
  AtomicStoreSpec
CHECK_DEADLOCK FALSE
