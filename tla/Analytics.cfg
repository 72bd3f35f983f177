SPECIFICATION FairSpec
CONSTANTS
  x = x
  y = y
  z = z
  Workers = {w1, w2}
  Tasks <- MCTasks
  MaxTrouble = 2
  Runs = {p1, p2}
  N = 2
  PutAttempts = 2
  MaxFaults = 2
  MaxChanges = 1
  S = 3
  Ddl = {1}
  MaxMishaps = 2
INVARIANTS
  CompleteMeansWhole
  ArtifactIngestedOnce
  RoundIsSequential
  JournalKnows
PROPERTIES
  ImplementsPromise
  PublishCompletes
  RoundSettles
CHECK_DEADLOCK FALSE
