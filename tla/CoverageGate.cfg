SPECIFICATION Spec
CONSTANTS
  Workers = {w1, w2}
  Floors = {f1, f2}
  Heads = {h1, h2}
  NoOne = NoOne
  MaxMishaps = 2
  Batches = 1
PROPERTIES VerdictIsEarned LockIsSound
SYMMETRY AnyInvocation
CHECK_DEADLOCK FALSE
