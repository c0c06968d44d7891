SPECIFICATION Spec
CONSTANTS
  u1 = u1
  u2 = u2
  u3 = u3
  Touched = {u1}
  Older <- TwoEntries
  None = None
  User = {u1, u2, u3}
  Action <- Actions
  Order <- ThreeUsers
  Kinds = {"list", "search", "export", "detail", "dashboard"}
  Filters <- SomeFilters
  Parts = 2
  Start <- LeapDays
  StartDate <- LeapStart
  PageSize = 2
  History = 1
  Windows = {1, 2}
  MaxTicks = 2
  MaxSteps = 2
  MaxMoves = 1
  MaxPage = 2
  MaxFaults = 1
INVARIANTS
  TypeOK
  WalkSeesAll
  FilterByDay
  DetailTrue
  CountersTrue
CHECK_DEADLOCK FALSE
