CONSTANTS
  Identifier = {"me"}
  Word = {"me", "why", "", "0", "1", "2", "3", "4"}
  Sentence = {}
  Inner = {"why"}
  MAX_ENCODED_LEN = 16
  Client = {1, 2}
  OkArgument = FALSE
  MayCrash = FALSE
  MaxValue = 4
SPECIFICATION Spec
INVARIANT
  NoLostIncrement
CHECK_DEADLOCK FALSE
