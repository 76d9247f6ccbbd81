SPECIFICATION Spec
CONSTANTS
  d1 = d1
  d2 = d2
  d3 = d3
  NoDoc = NoDoc
  Docs <- MCDocs
  Contents <- MCContents
  Window = 1
  Ratio <- MCRatio
  MaxWalk = 4
INVARIANT
  OnlyLatestCounted
