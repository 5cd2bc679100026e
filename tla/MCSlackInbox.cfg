SPECIFICATION FairSpec
CONSTANTS
  d1 = d1
  d2 = d2
  NULL = NULL
  Drains = {d1, d2}
  Files = {1, 2, 3, 4}
  Ts = {1, 2}
  TsOf <- MCTsOf
  MaxSeen = 1
  MaxDeaths = 2
  MaxStuck = 1
INVARIANTS NoMessageLost
PROPERTIES ImplementsOpenOnce EveryMessageHandled
