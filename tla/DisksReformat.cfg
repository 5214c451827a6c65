SPECIFICATION Spec
CONSTANTS
  sda = sda
  sdb = sdb
  sdaa = sdaa
  Disk = {sda}
  Prefix = {}
  VolumeServer = {v, w}
  LastMount = 1
  MaxRuns = 1
  MaxFailures = 0
PROPERTIES
  FormatsOnlyBlank
