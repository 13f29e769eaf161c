SPECIFICATION FairSpec
CONSTANTS
  Jobs = {j1}
  KillCalls = {k1, k2}
  Caps = {1}
  MaxQueueDepth = 1
  MaxStrandedSlotAttempts = 3
  SpawnOutcomes = {"preflight", "throws", "doomed", "spawns"}
  CustomSignals = {"SIGKILL", "other"}
  DeadlineJobs = {j1}
  ForkingJobs = {j1}
  PurgeableJobs = {j1}
  MayShutDown = TRUE
INVARIANTS LiveGroupsHoldSlots ConfirmedMeansGone SlotAccounting
PROPERTIES SlotSettles NoLateSignal TerminalIsFinal
CHECK_DEADLOCK FALSE
