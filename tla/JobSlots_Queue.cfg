SPECIFICATION Spec
CONSTANTS
  Jobs = {j1, j2, j3}
  KillCalls = {}
  Caps = {1, 2}
  MaxQueueDepth = 2
  MaxStrandedSlotAttempts = 1
  SpawnOutcomes = {"preflight", "throws", "doomed", "spawns"}
  CustomSignals = {}
  DeadlineJobs = {}
  ForkingJobs = {}
  PurgeableJobs = {}
  MayShutDown = TRUE
INVARIANTS WorkConserving QueueSound
PROPERTIES NoStartInShutdown ImplementsSemaphore
SYMMETRY AnyJob
CHECK_DEADLOCK FALSE
