SPECIFICATION FairSpec
CONSTANTS
  r1 = r1
  r2 = r2
  None = None
  Req = {r1, r2}
  Attempts = 2
  Lives = {2, 4}
  Margin = 3
  Timeout = 1
  MaxTokens = 3
  MaxRevoked = 1
INVARIANTS
  TypeOK
  OneFetch
  ExpiredOnlyIfShort
PROPERTIES
  CallsKept
  EveryCallEnds
CHECK_DEADLOCK FALSE
