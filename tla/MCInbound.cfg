CONSTANTS
  MessageLength <- MCMessageLengths
  FrameCount = {0, 1, 2, 3}
  FrameType = {0}
  PayloadLength <- MCPayloads
  MaxFrames = 2
  MaxPayload = 30
  PointCount = {0, 1, 2, 3}
  NameLength = {0, 4}
  ValueLength = {0, 20}
  MaxPoints = 2
  ExtraHeader = {0, 2}
  FieldCount = {0, 1, 2, 3}
  FieldOffset = {0, 20}
  FieldLength = {0, 2, 11}
  MaxFields = 2
  TotalSize = {0, 3, 4}
  FragmentCount = {0, 1, 2, 3}
  FragOffset <- MCOffsets
  FragLength = {0, 1, 2}
  MaxTotal = 3
  MaxFragments = 2
  Word = 64
  JournalLength = {7, 8, 19, 30, 40}
  RecordCount = {0, 1, 2, 3}
  RecordLength = {0, 4}
  MaxJournal = 2
  NULL = NULL
  AllocMayFail = TRUE
SPECIFICATION Spec
INVARIANT MessageWhole
INVARIANT OverreadBounded
INVARIANT FragmentsPlaced
INVARIANT OverflowExplained
INVARIANT NothingLeft
PROPERTY AllOrNothingParsed
