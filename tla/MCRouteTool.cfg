CONSTANTS
  Byte = {0}
  Half = 4
  Literal = {0}
  Frames <- MCFrames
  IntBytes = 4
  StackSize = 4
  MaxLen = 15
  Text <- Texts
  MaxRuleCode = 4096
  Number <- Tokens
  AllocMayFail = TRUE
SPECIFICATION ToolSpec
INVARIANT DecidesAsWritten
