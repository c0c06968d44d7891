SPECIFICATION Spec
CONSTANTS
  r1 = r1
  r2 = r2
  i1 = i1
  i2 = i2
  i3 = i3
  k1 = k1
  k2 = k2
  plain = plain
  strong = strong
  a = a
  b = b
  c = c
  None = None
  Req = {r1, r2}
  Kinds <- MCKinds
  Key = {k1, k2}
  Id = {i1, i2, i3}
  Setting = {plain, strong}
  Plain = plain
  Mappings <- MCMappings
  Rooms = {a, b, c}
  Spaces = {b}
  Listed <- MCListed
  Page = 1
  HasSynapse = TRUE
  MaxStarts = 2
  MaxFaults = 1
  MaxMoves = 1
INVARIANTS
  TypeOK
  TableTraced
  ImportComplete
  RefreshSeesAll
PROPERTIES
  DatabaseIsTruth
SYMMETRY RowIds
CHECK_DEADLOCK FALSE
