\* Two contexts that share the on/off flag, two languages; in one of them up to
\* three segments, empty ones included, of up to one character.
SPECIFICATION Spec
CONSTANTS
  a = a  ka = ka  dakuten = dakuten  ga = ga  none = none
  v1 = v1  v2 = v2  en = en  ja = ja  k1 = k1  k2 = k2  k3 = k3
  Char <- MCChar
  CharInvalid <- none
  Combine <- MCCombine
  SameSet <- MCSameSet
  Value <- MCValue
  Suggest <- MCSuggest
  MaxLen = 1
  MaxSegments <- MCThreeOne
  c1 = c1  c2 = c2  IC = {c1, c2}
  Lang = {en, ja}  DefaultLang = en  Key = {k1, k2}  Keymap <- MCKeymapEnJa  Position = {0, 1}
INVARIANTS
  CursorInBounds
  ArrowsMoveByOne
  BackspaceConsumed
PROPERTIES
  ReturnedKeepsText
  NothingLost
  EditsOneSegment
  OffFreezesAll
