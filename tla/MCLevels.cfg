\* Two admins reconcile two users; nothing fails and nobody moves.
SPECIFICATION Spec
CONSTANTS
    j1 = j1  j2 = j2  p1 = p1  p2 = p2  p3 = p3
    space = space  lobby = lobby  g = g  role = role
    Jobs = {j1, j2}
    Kinds <- KindsBoth
    Order <- TwoUsers
    PageSize = 1
    Limit = 2
    Rooms = {lobby}
    Children <- Flat
    None = None
    Groups = {}
    Roles = {role}
    Levels = {0, 50}
    Tables <- OneTable
    Statuses = {"enabled"}
    MaxStirs = 0
    Changes = {}
    MaxFaults = 0
INVARIANT GrantedLevelHolds
CHECK_DEADLOCK FALSE
