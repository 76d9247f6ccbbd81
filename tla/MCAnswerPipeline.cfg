SPECIFICATION Spec
CONSTANTS
  SectionRows = 40
  EventRows = 200
  Content <- MCContent
  Hedges <- MCHedges
  Critical <- MCCritical
  Risky <- MCRisky
  Meta <- MCMeta
  Forbidden <- MCForbidden
  Assertions <- MCAssertions
  Slots <- MCSlots
  Incidental <- MCIncidental
  Orders <- MCOrders
  StrangeNums <- MCStrangeNums
  StrangeWords <- MCStrangeWords
  Catalog <- MCCatalog
  Period <- MCPeriod
  DefaultYears <- MCDefaultYears
  Questions <- MCQuestions
  Databases <- MCDatabases
  EventsCited = 2
  SectionsCited = 1
  TopK = 1
  Scale = 10
CHECK_DEADLOCK FALSE
INVARIANTS
  TypeOK
  HighMeansVerified
  EveryNumberSupported
  MeaningKept
  OnlyFailuresRemoved
