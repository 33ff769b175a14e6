SPECIFICATION FairSpec
CONSTANTS
  a = a
  b = b
  c = c
  Names = {a, c}
  Parents <- Composed
  Recoverable = {a}
  Workers = 2
INVARIANTS TypeOK NoStrandedRefetch ForceKept RecoveredFirst NoLostWakeUp
PROPERTIES InputsFirst Served
