SPECIFICATION FairSpec
CONSTANTS
  NMaster = 2
  NVolume = 2
  NFiler = 1
  NGo <- VolumesAndFilers
  NEnvoy = 2
  MaxFailures = 3
INVARIANTS
  TypeOK
  RInv
  PhaseOrder
  WaitCoversGoroutines
  ReportedErrorIsGenuine
  SingleFailureReported
PROPERTIES
  ImplementsRollout
  EveryServerContacted
  Terminates
