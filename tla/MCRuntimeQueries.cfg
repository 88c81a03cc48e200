SPECIFICATION FairSpec
CONSTANTS
  Id <- MCId
  Contents <- MCContents
  MaxSizes <- MCMaxSizes
  FixedSize = 1
  Reports = {"written", "total"}
INVARIANTS
  TypeOK
  NoOverrun
  ReturnsWhatThereIs
  MapsKeepReal
  DiesOnlyOfUncheckedNames
PROPERTIES
  CallsReturn
