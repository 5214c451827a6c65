SPECIFICATION Spec
CONSTANTS
  Ip       <- MCIp
  Session  <- MCSession
  Files    <- MCFiles
  LocalIp  = "local"
  ColonIps <- MCColonIps
  Starts   <- MCStarts
INVARIANT WebdavReachesFilers
