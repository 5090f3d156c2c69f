\* Inputs that outgrow a small array, with three choices of dictionaries.
SPECIFICATION Spec
CONSTANTS
  Code <- MCCode
  Symbol <- MCSymbol
  Letter <- MCLetter
  Library <- MCLibrary
  Conjugations <- MCConjugations
  IntRange = 16
  Char <- MCChar
  CharInvalid = "CHAR_INVALID"
  Combine <- char_combine
  Garbage = {"ka"}
  Behind <- MCBehind
  INITIAL_SEGMENT_SIZE = 4
  SHRT_MAX = 8
  MaxKana = 3
  MaxJamo = 4
  Other <- MCOther
  Beyond = {0}
  Typable <- MCTypable
INVARIANTS
  TypeOK
  OffersEveryWord
  BestFirst
  KeyBeginsWithInput
  ReadsBack
  SyllablesAreWhole
PROPERTY Answered
CHECK_DEADLOCK FALSE
