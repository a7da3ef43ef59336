SPECIFICATION Spec
CONSTANTS
  c1 = c1
  c2 = c2
  u1 = u1
  r1 = r1
  Base = Base
  None = None
  Clients <- TwoClients
  Users <- OneUser
  Rooms <- OneRoom
  UserOf <- UserOfClient
  RoomOf <- RoomOfClient
  Editors = {c1}
  PerIp = 2
  PerUser = 2
  MaxRooms = 1
  OtherRooms = {0, 1}
CHECK_DEADLOCK FALSE
PROPERTIES
  DraftKeepsEdits
