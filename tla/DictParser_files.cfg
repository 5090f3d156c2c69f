CONSTANTS
  Slip = {"blank", "error", "comma", "rbrace", "lbrace", "identifier"}
  File <- MCFile
  Tree <- MCTree
  Levels = 48
SPECIFICATION Spec
INVARIANTS
  RoundTrip
  WellFormedParses
  EntriesStayApart
  OnlyFirstEntryDiscards
PROPERTY LoadingEnds
CHECK_DEADLOCK FALSE
