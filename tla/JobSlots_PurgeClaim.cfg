SPECIFICATION Spec
CONSTANTS
  Jobs = {j1, j2}
  KillCalls = {k1}
  Caps = {1}
  MaxQueueDepth = 1
  MaxStrandedSlotAttempts = 2
  SpawnOutcomes = {"spawns"}
  CustomSignals = {}
  DeadlineJobs = {}
  ForkingJobs = {}
  PurgeableJobs = {j1, j2}
  MayShutDown = FALSE
INVARIANTS PurgeNeverStrandsASlot
SYMMETRY AnyJob
CHECK_DEADLOCK FALSE
