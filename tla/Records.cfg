SPECIFICATION JobsSpec
CONSTANTS
  MaxJobs = 2
  MaxTime = 2
  MaxChunks = 1
  Detailed = {1}
  RETENTION_MS = 2
  MAX_RETAINED_JOBS = 1
  TASK_TTL_MS = 2
INVARIANTS RecordsAreKept
PROPERTIES AnswersOutliveRecords
CHECK_DEADLOCK FALSE
