SPECIFICATION FairSpec
CONSTANTS
  None = None
  A = A
  B = B
  a1 = a1
  a2 = a2
  b1 = b1
  s1 = s1
  s2 = s2
  s3 = s3
  old = old
  new = new
  m = m
  n = n
  Docs = {a1, a2, b1}
  Corps = {A, B}
  CorpOf <- MCCorpOf
  Annual = {a1, a2, b1}
  Rank <- MCRank
  Sections = {s1, s2, s3}
  DocOf <- MCDocOf
  RegistryTables = {}
  Texts = {old, new}
  Databases <- MCDatabases
  GoldCorps = {A}
  Models = {m, n}
  Errors <- MCErrors
  Limits = {0, 1}
  Attempts = 2
  MaxFail = 2
  SaveEvery = 2
  MaxJobs = 2
  MaxBuilds = 1
  TopK = 2
  ArmK = 2
  RrfK = 5
  VecWeight = 3
  YearOf <- MCYearOf
  EmptyTexts = {s2}
  ServerModel = m
  Setups <- MCSetups
  Questions <- MCQuestions
INVARIANTS
  TypeOK
  DoneIsCovered
  AnswersKept
  HopelessJobStops
  TopSurvives
  RepliesCurrent
  RepliesFit
PROPERTIES
  NothingPaidTwice
  JobEnds
CHECK_DEADLOCK FALSE
