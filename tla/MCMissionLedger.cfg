SPECIFICATION LSpec
CONSTANTS
  m1 = m1
  m2 = m2
  t1 = t1
  t2 = t2
  ann = ann
  ANN = ANN
  bob = bob
  NULL = NULL
  Missions = {m1, m2}
  Capacity <- MCCapacity
  MaxAttempts = 2
  Workers = {"w1"}
  Promotions = {t1, t2}
  Actors = {ann, ANN, bob}
  Fold <- MCFold
SYMMETRY Symmetry
INVARIANTS LTypeOK CapacityKept PromotedOnEvidence ApprovedIsPromoted
PROPERTIES ResumeIsFresh
