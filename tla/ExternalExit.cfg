SPECIFICATION ExternalSpec
INVARIANTS AFireIsNoFailure
CHECK_DEADLOCK FALSE
