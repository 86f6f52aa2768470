CONSTANTS
  Conn = {c1, c2}
  TableName = {t1, t2}
  Key = {k1}
  Val = {v1, v2}
  Nil = Nil
  MaxTables = 2
  MaxStack = 1
  Long = {}
  Commands = {"LOGIN", "CREATE", "PUSH", "SET", "GET", "BEGIN", "COMMIT"}
  Disconnects = {}
SPECIFICATION Spec
SYMMETRY Symm
INVARIANTS
  TypeOK
  MutualExclusion
  LocksAgree
  StagedHasOwner
  NoUncommittedRead
  TxnScope
  NoLogicError
  OneReplyPerLine
  OnlyGetHoldsAndWaits
PROPERTIES
  StableLookup
  AtomicStoreSpec
CHECK_DEADLOCK FALSE
