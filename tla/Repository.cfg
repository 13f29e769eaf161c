SPECIFICATION Spec
CONSTANTS
  INDEPENDENT_REQUIRED_JOB_IDS = {"build", "test"}
  INDEPENDENT_EXPECTED_LEGS <- Legs
  FORBIDDEN_JOB_IDS = {"dependabot"}
  Expressions <- MCExpressions
  Odd = {"docs", "dependabot"}
  OddOS = {"ubuntu", "macos"}
  OddNode = {"22", "24"}
  MaxEdits = 2
  ExactSpecs = {"2.0.0", "2.0.1"}
  LooseSpecs = {"^2.0.0"}
  REQUIRED_MCP_SDK_VERSION = "2.0.0"
  UnknownPackage = "other"
  PEER_RANGE_PACKAGES_TO_CHECK = {"typescript-eslint", "typescript-estree"}
  NewPeer = "new"
  Triples <- MCTriples
  MaxPinEdits = 2
  TestFiles = {"serial", "left", "right"}
  SERIAL_ONLY_TEST_FILES = {"serial"}
  CriticalTests = {"left"}
  Sanctioned = {"right"}
  Defaults <- MCDefaults
  CommandLines <- MCCommandLines
  Repositories <- MCRepositories
  Unreadable <- MCUnreadable
  MaxTime = 6
  Lists <- MCLists
  Repeats = 2
  Capacities = {2}
INVARIANTS GreenMeansGreen VerdictsAreEarned
PROPERTIES ProgramsComeToAnEnd
CHECK_DEADLOCK FALSE
