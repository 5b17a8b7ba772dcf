SPECIFICATION FairSpec
CONSTANTS
  general = general  ops = ops  p = p  q = q
  Rooms = {general, ops}
  DefaultRoom = general
  InviteRooms = {general}
  SendCap = 1  UpdateCap = 5
  Peers = {p, q}  NoOne = NoOne  PendingMax = 1
  MaxConns = 3  MaxInputs = 3
CHECK_DEADLOCK FALSE
INVARIANTS TypeOK SentOnce OneSession ShownInOrder
PROPERTY ComesBack
