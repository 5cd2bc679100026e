SPECIFICATION Spec
CONSTANTS
  a = a
  b = b
  NULL = NULL
  Sources = {a}
  Shards <- MCShards
  SplitsOf <- MCSplitsOf
  Curators = {c1, c2}
  Trainers = {r1, r2}
  Tokenizers = {t1, t2}
  MaxAttempts = 2
  EvictBatch = 0
SYMMETRY Symmetry
INVARIANTS
  RawSafe
  PackedSafe
  NoForgottenClaim
PROPERTIES
  OnlyHolderAdvances
  ImplementsManifest
