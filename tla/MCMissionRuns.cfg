SPECIFICATION FairSpec
CONSTANTS
  m1 = m1
  w1 = w1
  w2 = w2
  w3 = w3
  NULL = NULL
  Missions = {m1}
  Capacity <- MCCapacity
  MaxAttempts = 2
  Workers = {w1, w2, w3}
  Promotions = {}
  Actors = {}
  Fold <- MCFold
  MaxCrashes = 1
INVARIANTS PassedIfUnhurried ProcessHasSlot EvaluatedOnce RefusedOnlyAfterKill
PROPERTIES ImplementsLedger CancelledStops SlotFreed
