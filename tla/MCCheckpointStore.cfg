CONSTANTS
  x = x
  y = y
  SessionId = {s1, s2, s3}
  Byte = {x, y}
  Payload <- Payloads
  Garbage = Garbage
  NULL = NULL
  FirstItems = 2
  FirstBytes = 1
  MaxUsed = 2
  AllocMayFail = TRUE
SPECIFICATION Spec
INVARIANT AppendsKept
INVARIANT MigratesBounded
PROPERTY FailuresForgetOnlyDestination
SYMMETRY Symmetry
