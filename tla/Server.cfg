SPECIFICATION ConnectionSpec
CONSTANTS
  Scripts <- MCScripts
  Ids <- MCIds
  Streams = {"stdout", "stderr"}
  MaxSeq = 2
  MAX_OUTSTANDING_FOLLOWS = 1
  MAX_PENDING_EARLY_CANCELLATIONS = 1
  Bytes = {"nl", "cr", "lead", "cont"}
  MaxLineBytes = 2
  MaxBufferBytes = 2
  MaxBufferLines = 2
  MaxUtf8Backtrack = 1
  MarkerBytes = 1
  MaxInput = 6
INVARIANTS LinesAreWhole LossIsDisclosed FollowsAreSound WireIsSound
PROPERTIES CancelledIsCancelled RequestsAreAnswered
CHECK_DEADLOCK FALSE
