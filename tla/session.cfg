CONSTANTS
  Identifier <- MCIdentifier
  Word <- MCWord
  Sentence = {"a b"}
  Inner <- MCInner
  MAX_ENCODED_LEN = 12
  RIO_BUFSIZE = 2
  MAXLINE = 5
  Newline <- NL
  IntMax = 3
  Dashes <- MCDashes
  Huge <- MCHuge
  Streams <- MCStreams
  Leftovers <- MCLeftovers
SPECIFICATION FairSpec
INVARIANTS
  LinesInOrder
  OneReply
  RoundTrip
PROPERTIES
  OkMeans
  FailedKeeps
  LeavingEnds
CHECK_DEADLOCK FALSE
