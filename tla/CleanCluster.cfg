SPECIFICATION FairSpec
CONSTANTS
  NMaster = 1
  NVolume = 2
  NFiler = 1
  MaxFailures = 2
INVARIANTS
  TypeOK
  SuccessMeansCleanAndUp
PROPERTIES
  NeverEmptiesRunning
  NothingStartsOnOldData
  RepeatedCleanRecovers
