SPECIFICATION Spec
CONSTANTS
  m1 = m1
  p1 = p1
  p2 = p2
  p3 = p3
  ann = ann
  bob = bob
  NULL = NULL
  Missions = {m1}
  Capacity <- MCCapacity
  MaxAttempts = 1
  Workers = {}
  Promotions = {p1, p2}
  Actors = {ann, bob}
  Fold <- MCFold
  NOutputs = 1
  MaxCrashes = 0
  Overlap = TRUE
SYMMETRY Symmetry
INVARIANTS PublishedWhenPromoted
