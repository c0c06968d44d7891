SPECIFICATION Spec
CONSTANTS
  r1 = r1
  r2 = r2
  r3 = r3
  r4 = r4
  a = a
  b = b
  plain = plain
  staff = staff
  None = None
  Req = {r1, r2, r3, r4}
  Kinds <- MCKinds
  Name = {a, b}
  Grants = {plain, staff}
  MaxFaults = 1
  MaxCrashes = 1
INVARIANTS
  TypeOK
  NamesUnique
  FileIsWanted
  TemplatesTraced
PROPERTIES
  BrokenKept
SYMMETRY Alike
CHECK_DEADLOCK FALSE
