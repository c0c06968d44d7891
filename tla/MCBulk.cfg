\* A bulk run over three users in pages of two, while others change their roles
\* and disable or enable them.
SPECIFICATION FairSpec
CONSTANTS
    j1 = j1  j2 = j2  p1 = p1  p2 = p2  p3 = p3
    space = space  lobby = lobby  g = g  role = role
    Jobs = {j1}
    Kinds <- KindsAll
    Order <- ThreeUsers
    PageSize = 2
    Limit = 3
    Rooms = {lobby}
    Children <- Flat
    None = None
    Groups = {}
    Roles = {role}
    Levels = {0, 50}
    Tables <- OneTable
    Statuses = {"enabled", "disabled"}
    MaxStirs = 1
    Changes = {"status", "subjects"}
    MaxFaults = 1
INVARIANT BulkReachesAll
PROPERTIES CallsAreDue Ends
CHECK_DEADLOCK FALSE
