SPECIFICATION Spec
CONSTANTS
  NMaster = 1
  NVolume = 1
  NFiler = 1
  MaxFailures = 0
INVARIANTS
  StorageIsEmpty
