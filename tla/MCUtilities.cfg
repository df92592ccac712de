CONSTANTS
  MaxRun = 3
  FirstCap = 1
  RleData <- MCData
  RleWire <- MCRleWire
  RleMayFail = TRUE
  Half = 4
  DeltaWire <- MCDeltaWire
  DeltaCount = {0, 1, 2, 3, 4}
  MaxCount = 3
  DeltaMayFail = TRUE
  Group = 4
  Width = 32
  MaxGroups = 3
  Room = {0, 1, 2, 3}
  VarintWire <- MCVarintWire
  ByteBits = 3
  MaxBits = 4
  BitData <- MCBitData
  u = u
  v = v
  Value = {u, v}
  Lost = Lost
  MaxPush = 3
  SampleFirst = 1
  SeriesFirst = 1
  StorageFirst = 2
  MaxLen = 5
  StoreMayFail = TRUE
  Buckets = {0, 2, 3, 4}
  MaxBuckets = 3
  Offsets = {0, 1, 7}
  Indexes = {0, 1, 2}
  IndexWidth = 8
  CountWidth = 2
  MaxSamples = 2
  HistMayFail = TRUE
  Blank = {" "}
  MaxTokens = 2
  MaxToken = 2
  RuleText <- MCText
  SentByte <- MCSent
  Change <- MCChange
  Burst = 2
  MaxBlock = 3
  SchemaRows = 4499
  SpecRows = 900
  CodeWidth = 65536
  PresetRows = 260
  FieldIdWanted <- MCWanted
  CatalogIndex = {0, 259, 260, 899, 900, 1000000}
SPECIFICATION Spec
INVARIANT RleRoundTrip
INVARIANT DeltaMeaning
INVARIANT VarintFaithful
INVARIANT BitsInOrder
INVARIANT SamplesCounted
INVARIANT WordsInOrder
INVARIANT CrcIsRemainder
INVARIANT DamageFound
INVARIANT LookupExact
PROPERTY ImplementsAppendOnly
CHECK_DEADLOCK FALSE
