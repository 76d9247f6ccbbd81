SPECIFICATION Spec
CONSTANTS
  None = None
  o = o
  c = c
  f = f
  g = g
  h = h
  k = k
  l = l
  a = a
  b = b
  A = A
  B = B
  Docs <- MCDocs
  Files <- MCFiles
  Keys <- MCKeys
  Parsed <- MCParsed
  Original <- MCOriginal
  Names <- MCNames
  Corps <- MCCorps
  CorpOf <- MCCorpOf
  Modes = {"kiwi", "ngram"}
  BatchRows = 2
  Manifest <- MCManifest
  Groups = {"major", "exchange"}
  GroupOf <- MCGroupOf
  Corpora <- MCCorpora
  Unparsable = {h}
  Universes <- MCUniverses
  Manual <- MCManual
  Choices <- MCChoices
  BuilderMode = "kiwi"
  ServerModes = {"kiwi", "ngram"}
  MaxRuns = 2
  MaxInodes = 2
  MaxStarts = 1
INVARIANTS
  TypeOK
  DocumentWhole
  FinishedIsConsistent
  HitsAreHonest
  StartRepairs
PROPERTIES
  NamesKeepOwners
CHECK_DEADLOCK FALSE
