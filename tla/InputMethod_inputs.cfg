\* One context, inputs of up to two characters that may combine, two segments.
SPECIFICATION Spec
CONSTANTS
  a = a  ka = ka  dakuten = dakuten  ga = ga  none = none
  v1 = v1  v2 = v2  en = en  ja = ja  k1 = k1  k2 = k2  k3 = k3
  Char <- MCChar
  CharInvalid <- none
  Combine <- MCCombine
  SameSet <- MCSameSet
  Value <- MCValue
  Suggest <- MCSuggest
  MaxLen = 2
  MaxSegments <- MCTwo
  c1 = c1  c2 = c2  IC = {c1}
  Lang = {ja}  DefaultLang = ja  Key = {k1, k2, k3}  Keymap <- MCKeymapJa  Position = {0, 1, 2}
INVARIANTS
  TypeOK
  CandidatesFresh
PROPERTIES
  SelectionOnlyByUser
  ImplementsLineEditor
