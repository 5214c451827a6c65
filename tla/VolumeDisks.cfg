SPECIFICATION Spec
CONSTANTS
  sda = sda
  sdb = sdb
  sdaa = sdaa
  Disk <- ThreeDisks
  Prefix <- SdaOfSdaa
  VolumeServer = {v, w}
  LastMount = 2
  MaxRuns = 2
  MaxFailures = 1
INVARIANTS
  TypeOK
  MountsAreInFstab
  MountsAreDisjoint
  EveryDiskMounted
  RebootKeepsMounts
PROPERTIES
  NeverFormatsData
