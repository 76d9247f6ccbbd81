SPECIFICATION FairSpec
CONSTANTS
  r1 = r1
  r2 = r2
  Requests <- MCRequests
  Caps <- MCCaps
  Workers = 2
  Budget = 3
  MinAttempt = 1
  MaxRetries = 1
  Fallback = 1
  Grace = 0
  MaxWait = 3
  JitterPercent = 50
  JitterCap = 1
  Hints <- MCHints
  NoHint = NoHint
  MaxClock = 4
CHECK_DEADLOCK FALSE
INVARIANTS
  TypeOK
  NoSleepInVain
  WaitsInBudget
PROPERTIES
  AttemptInBudget
  EveryRequestAnswered
  PoolRecovers
