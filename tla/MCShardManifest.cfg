SPECIFICATION MSpec
CONSTANTS
  Shards = {s1, s2}
  Curators = {c1, c2}
  Trainers = {r1}
  Tokenizers = {t1, t2}
  MaxAttempts = 2
  NULL = NULL
SYMMETRY Symmetry
INVARIANTS
  TypeOK
  HeldOutTerminal
  TrainedOnFrozen
PROPERTIES
  LegalMoves
  HeldOutKept
