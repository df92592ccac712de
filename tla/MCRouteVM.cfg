CONSTANTS
  Byte <- MCBytes
  Half = 4
  Literal <- MCLiterals
  Frames <- MCFrames
  IntBytes = 2
  StackSize = 4
  MaxLen = 12
SPECIFICATION FairSpec
INVARIANT StaysInside
INVARIANT AnswersAtEnd
PROPERTY Terminates
