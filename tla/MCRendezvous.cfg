CONSTANTS
  d1 = d1 d2 = d2
  r1 = r1 r2 = r2 r3 = r3
  Devices = {d1, d2}
  Rooms = {r1, r2, r3}
  Requests = {j1, j2}
  Codes = {c1, c2}
  RoomHost <- MCRoomHost
  JoinHost <- MCJoinHost
  MaxRooms = 2
  NoJoin = NoJoin
  NoRoom = NoRoom
  NoCode = NoCode
SPECIFICATION ServiceSpec
SYMMETRY Symmetry
INVARIANTS
  RoomsServeOne
  PeersAgree
  CodesUnique
CHECK_DEADLOCK FALSE
