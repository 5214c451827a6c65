SPECIFICATION Spec
CONSTANTS
  NMaster = 1
  NVolume = 1
  NFiler = 1
  NGo <- VolumesAndFilers
  NEnvoy = 1
  MaxFailures = 2
INVARIANTS
  SuccessMeansDeployed
