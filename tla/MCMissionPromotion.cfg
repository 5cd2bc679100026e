SPECIFICATION Spec
CONSTANTS
  m1 = m1
  p1 = p1
  p2 = p2
  p3 = p3
  ann = ann
  bob = bob
  NULL = NULL
  Missions = {m1}
  Capacity <- MCCapacity
  MaxAttempts = 2
  Workers = {}
  Promotions = {p1, p2}
  Actors = {ann, bob}
  Fold <- MCFold
  NOutputs = 2
  MaxCrashes = 1
  Overlap = FALSE
SYMMETRY Symmetry
INVARIANTS PublishedWhenPromoted NothingLeftBehind StagesGone
PROPERTIES ForeignKept ImplementsLedger
