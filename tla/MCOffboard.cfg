SPECIFICATION Spec
CONSTANTS
  r1 = r1
  r2 = r2
  i1 = i1
  i2 = i2
  i3 = i3
  c1 = c1
  o1 = o1
  o2 = o2
  space = space
  room = room
  group = group
  None = None
  Req = {r1, r2}
  Kinds <- OffboardAndAny
  Ids = {i1, i2}
  Compat = {c1}
  OAuth2 = {}
  Page = 1
  Rooms <- MCRooms
  Bound = {space}
  Children <- MCChildren
  Grants = {}
  HasSynapse = TRUE
  MaxFaults = 1
INVARIANTS
  TypeOK
  CleanOffboard
  SuccessEntriesHold
SYMMETRY TwoIds
CHECK_DEADLOCK FALSE
