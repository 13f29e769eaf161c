SPECIFICATION AllSpec
CONSTANTS
  MAX_LABEL_LENGTH = 2
  MAX_TIMER_DELAY_MS = 2
  Changes = 1
  POSIX_DEFAULT_PATH <- PathAB
  TRUSTED_SERVER_PATH <- PathAB
  TRUSTED_SERVER_CWD <- ServerCwd
  SHELL <- ShellPath
  Requests <- MCRequests
  Disks <- MCDisks
  Policies <- MCPolicies
  Roots <- MCRoots
  MAX_PLAUSIBLE_ETIME_DAYS = 2
  START_FIELD = 3
  Pids = {1, 2}
  MaxLife = 3
  Texts <- MCTexts
  ReadTimeout = 3
  SettleGrace = 1
  RetryBound = 2
  PollInterval = 1
  PgrepTimeout = 1
  ConfirmTimeout = 2
  Streams = {"stdout", "stderr"}
  MaxWrites = 3
  WatchedStreams = {"stdout", "stderr"}
  WAKE_COALESCE_WINDOW = 1
  FIREHOSE_LINES_PER_TICK = 1
  FIREHOSE_SUSTAINED = 2
  MaxLines = 3
  MaxNow = 5
INVARIANTS RunsAreJudged ObserversAreRight MarkedOnceAfterOutput ToldAsItHappened
PROPERTIES FirehoseIsSustained EndsAndLinesGoOut
CHECK_DEADLOCK FALSE
