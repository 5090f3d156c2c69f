SPECIFICATION Spec
CONSTANTS
  Client = {c1}  Listener = listener  NoClient = noClient
  Messages <- MCEncodings
  Replies = {}  Rooms = {}
  RxSize = 24  MaxEvents = 2  Chunk = {1, 24}  MaxSent = 2
INVARIANTS
  RemovesParsedMessage
CHECK_DEADLOCK FALSE
