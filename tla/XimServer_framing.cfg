SPECIFICATION Spec
CONSTANTS
  Client = {c1}  Listener = listener  NoClient = noClient
  Messages <- MCMixed
  Replies <- MCReplies  Rooms <- MCRooms
  RxSize = 16  MaxEvents = 2  Chunk = {1, 2, 3, 5, 8, 13}  MaxSent = 3
INVARIANTS
  ClientsKeepStep
  TypeOK
  RemovesParsedMessage
PROPERTIES
  DroppedOnlyIfGone
  ImplementsMailbox
CHECK_DEADLOCK FALSE
