SPECIFICATION FairSpec
CONSTANTS
  p1 = p1
  p2 = p2
  ann = ann
  bob = bob
  cat = cat
  NULL = NULL
  Procs = {p1, p2}
  OwnersOf <- MCOwnersOf
  Jobs = {1, 2}
  ResourceOf <- MCResourceOf
  ProposerOf <- MCProposerOf
  Watching = TRUE
  Ttl = 2
  MaxPause = 1
  MaxLag = 1
  MaxCrashes = 1
INVARIANTS UserHoldsLease
PROPERTIES ImplementsMutex OutcomeLands DeadReclaimed
