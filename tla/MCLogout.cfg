SPECIFICATION Spec
CONSTANTS
  t1 = t1
  t2 = t2
  ann = ann
  bob = bob
  eve = eve
  None = None
  Tab = {t1, t2}
  Person = {ann, bob, eve}
  Admins = {ann, bob}
  MaxFlows = 3
  MaxAgain = 1
  MaxFaults = 1
INVARIANT
  LogoutEnds
SYMMETRY Alike
CHECK_DEADLOCK FALSE
