CONSTANTS
  s1 = s1
  s2 = s2
  s3 = s3
  Nil = Nil
  Shards <- MCShards
  ViewLimit = 2
  MaxLoss = 0
  StartRace = TRUE
SPECIFICATION Spec
CHECK_DEADLOCK FALSE
INVARIANT NoCrash
