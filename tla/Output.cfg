SPECIFICATION OutputSpec
CONSTANTS
  Streams = {"stdout", "stderr"}
  Readers = {"both", "stdout"}
  Selection <- TheSelection
  Limits = {1, 4}
  MaxSeq = 4
  MaxFragments = 1
  DEFAULT_TAIL_LINES = 2
  MAX_TIMEOUT_MS = 2
  DEFAULT_TIMEOUT_MS = 1
  MaxViewed = 3
INVARIANTS PagesInOrder GapsAreDisclosed CallsAreHonest
CHECK_DEADLOCK FALSE
