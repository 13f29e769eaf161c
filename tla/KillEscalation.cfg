SPECIFICATION Spec
INVARIANTS KillsAreRecorded
PROPERTIES NewcomersAreSpared GateKnowsTheLeader
CONSTANTS
  CaptureTimeout = 2
  SettleGrace = 1
  RetryBound = 2
  PollInterval = 1
  Signallers = {"one"}
  Roles = {"kill", "deadline", "shutdown"}
  CustomSignals = {"SIGKILL"}
  MaxActive = 2
CHECK_DEADLOCK FALSE
