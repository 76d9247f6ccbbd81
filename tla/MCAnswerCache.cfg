SPECIFICATION FairSpec
CONSTANTS
  id = id
  p = p
  blank_p = blank_p
  q = q
  s = s
  NumRequests = 3
  Qids <- MCQids
  Questions <- MCQuestions
  Stripped <- MCStripped
  Sensitive <- MCSensitive
  Threads = 3
  MaxEntries = 1
  TTL = 1
  MaxClock = 2
INVARIANTS
  TypeOK
  CacheBounded
  OwnQuestion
PROPERTIES
  FreshWhenChosen
  EveryRequestReplied
CHECK_DEADLOCK FALSE
