SPECIFICATION FairSpec
CONSTANTS
  Client = {c1, c2}  Listener = listener  NoClient = noClient
  Messages <- MCDisconnect
  Replies = {}  Rooms = {}
  RxSize = 16  MaxEvents = 1  Chunk = {5, 16}  MaxSent = 2
PROPERTIES
  DiesOnlyOfCulprits
  EverythingHandled
  LeaversReleased
CHECK_DEADLOCK FALSE
