\* Two methods, two contexts, two messages on their way in each direction.
SPECIFICATION FairSpec
CONSTANTS
  CLIENT_IM_MAX = 2  CLIENT_IC_MAX = 2  MaxInFlight = 2  MaxSerial = 2
INVARIANTS
  TablesAgree
  InTypedOrder
  SyncSettles
PROPERTIES
  IdsFresh
  RequestsAnswered
