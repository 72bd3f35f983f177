SPECIFICATION Spec
CONSTANTS
  MaxRun = 1
  MaxAttempt = 2
  Contents = {c1, c2}
  NoImage = NoImage
  MaxFaults = 1
  Dockerfiles <- MCDockerfiles
  MaxMoves = 2
SYMMETRY MCSymmetry
INVARIANTS
  PublishedIsCertified
  LockIsCertified
  BuildUsesLock
CHECK_DEADLOCK FALSE
