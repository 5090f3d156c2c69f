CONSTANTS
  MaxShort = 3
  MaxLong = 5
  Text <- MCText
  BufferSize = 2
SPECIFICATION Spec
INVARIANTS
  TypeOK
  TokensAreLongestMatches
  ErrorsAreDeserved
PROPERTY FileIsFinished
CHECK_DEADLOCK FALSE
