CONSTANTS
  SessionId = {s1, s2}
  PeerId = {p1}
  Chunk = {c1}
  NoChunk = NoChunk
  Addr = {a1, a2}
  Free = Free
  MaxUpdates = 1
  AllocMayFail = TRUE
  FirstCapacity = 1
  MaxSnapshots = 2
SPECIFICATION LogSpec
INVARIANT SnapshotsHold
INVARIANT SnapshotsWhole
SYMMETRY Symmetry
