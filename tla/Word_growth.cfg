\* A second character that makes the array grow.
SPECIFICATION Spec
CONSTANTS
  Code <- MCCode
  Symbol <- MCSymbol
  Letter <- MCLetter
  Library <- MCLibrary
  Conjugations <- MCConjugations
  IntRange = 16
  Char <- MCChar
  CharInvalid = "CHAR_INVALID"
  Combine <- char_combine
  Garbage = {"CHAR_INVALID", "ka"}
  Behind <- MCBehind
  INITIAL_SEGMENT_SIZE = 2
  SHRT_MAX = 8
  MaxKana = 2
  MaxJamo = 1
  Other <- MCOther
  Beyond = {0}
  Typable <- MCTypable
INVARIANT LooksUpInput
CHECK_DEADLOCK FALSE
