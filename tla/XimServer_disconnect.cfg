SPECIFICATION Spec
CONSTANTS
  Client = {c1}  Listener = listener  NoClient = noClient
  Messages <- MCDisconnect
  Replies = {}  Rooms = {}
  RxSize = 16  MaxEvents = 2  Chunk = {1, 16}  MaxSent = 2
INVARIANTS
  RemovesParsedMessage
CHECK_DEADLOCK FALSE
