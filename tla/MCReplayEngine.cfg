CONSTANTS
  SessionId = {s1, s2}
  PeerId = {p1}
  Chunk = {c1}
  NoChunk = NoChunk
  Addr = {a1, a2}
  Free = Free
  Garbage = Garbage
  MaxUpdates = 5
  AllocMayFail = TRUE
  FirstCapacity = 1
  MaxSnapshots = 5
  MaxRecords = 5
  Record <- Records
SPECIFICATION ReplaySpec
INVARIANT SummaryFollowsJournal
INVARIANT NothingLeft
INVARIANT BadReadsExplained
SYMMETRY Symmetry
