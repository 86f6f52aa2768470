CONSTANTS
  Conn = {c1, c2, c3}
  TableName = {t1}
  Key = {k1}
  Val = {v1}
  Nil = Nil
  MaxTables = 1
  MaxStack = 1
  Long = {}
  Commands = {"PUSH", "SET", "GET", "BEGIN", "COMMIT"}
  Disconnects = {"rst"}
SPECIFICATION WarmSpec
SYMMETRY Symm
INVARIANTS
  LocksAgree
  StagedHasOwner
  NoLogicError
CHECK_DEADLOCK FALSE
