SPECIFICATION FairSpec
CONSTANTS
  m = m
  v = v
  w = w
  Instance <- MasterAndVolumes
  Component <- BothComponents
  Master = {m}
  Version = {v1, v2}
  Config = {c1}
  None = None
  MaxRollouts = 2
  MaxFailures = 1
INVARIANTS
  TypeOK
  InstalledOnSuccess
PROPERTIES
  NoNeedlessRestart
  RolloutConverges
  RebootBringsUp
