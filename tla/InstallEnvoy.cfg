\* Two proxies on a host, two versions, two configurations, three rollouts and
\* a failure.
SPECIFICATION Spec
CONSTANTS
  NProxy = 2
  Version = {v1, v2}
  Config = {c1, c2}
  None = None
  Damaged = Damaged
  MaxRollouts = 3
  MaxFailures = 1
INVARIANTS
  TypeOK
  ForcedRolloutConverges
  FirstProxyFollows
PROPERTY NoNeedlessRestart
