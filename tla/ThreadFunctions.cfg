SPECIFICATION TFSpec
CONSTANTS
  AdderOrder <- MCAdders
  SpawnOrder <- MCSpawn
  JoinOrder <- MCJoin
  Producer = "producer0"
  NoThread = "none"
  LOOPS_PER_THREAD = 2
  BUFFER_SIZE = 2
  TCSNum = 3
INVARIANTS
  AssertHolds AbortOnlyIfLost CleanReturn
PROPERTIES
  TFTermination
