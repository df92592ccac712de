CONSTANTS
  SessionId = {s1, s2, s3}
  PeerId = {p1, p2}
  Chunk = {c1, c2}
  NoChunk = NoChunk
  Addr = {a1, a2, a3}
  Free = Free
  MaxUpdates = 2
  AllocMayFail = TRUE
SPECIFICATION Spec
INVARIANT ChainOwnsHeap
PROPERTY EntriesOnlyGrow
PROPERTY ImplementsMap
SYMMETRY Symmetry
