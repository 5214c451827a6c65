SPECIFICATION Spec
CONSTANTS
  Run = {a, b}
  Release = {v1, v2}
  Upload = {u1, u2}
  Damaged = Damaged
  PageSize = 1
  None = None
  MaxFailures = 2
INVARIANTS
  TypeOK
  TargetIsWhole
  StaysExecutable
