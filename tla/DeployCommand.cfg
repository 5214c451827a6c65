\* Two sessions of one phase, four cluster files, every kind of key and agent;
\* any command may fail, the link break before or after it took effect.
SPECIFICATION FairSpec
CONSTANTS
  Ip       <- MCIp
  Session  <- MCSession
  Files    <- MCFiles
  LocalIp  = "local"
  ColonIps <- MCColonIps
  Starts   <- MCStarts
INVARIANTS
  TypeOK
  PassphraseHidden
  NothingLeftBehind
  InstalledAsWritten
  DefaultPortsFree
  RoutesReachFilers
PROPERTY SessionsEnd
