CONSTANTS
  FileSize = {0, 1, 2}
SPECIFICATION DriversSpec
INVARIANT OwnsWhatItUses
INVARIANT ReadsFit
