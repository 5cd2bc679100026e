SPECIFICATION FairSpec
CONSTANTS
  a = a
  b = b
  NULL = NULL
  Sources = {b}
  Shards <- MCShards
  SplitsOf <- MCSplitsOf
  Curators = {c1, c2}
  Trainers = {r1}
  Tokenizers = {t1}
  MaxAttempts = 2
  EvictBatch = 1
INVARIANTS
  SingleFinisher
  HeldOutFilesKept
PROPERTIES
  ClaimsEnd
