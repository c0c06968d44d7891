\* Two admins reconcile or preview one user, who moves about or is deleted
\* meanwhile.  A bulk run is refused at once: there are more users than Limit.
SPECIFICATION Spec
CONSTANTS
    j1 = j1  j2 = j2  p1 = p1  p2 = p2  p3 = p3
    space = space  lobby = lobby  g = g  role = role
    Jobs = {j1, j2}
    Kinds <- KindsOne
    Order <- OneUser
    PageSize = 1
    Limit = 0
    Rooms = {space, lobby}
    Children <- Inside
    None = None
    Groups = {g}
    Roles = {role}
    Levels = {0, 50}
    Tables <- SomeTables
    Statuses = {"enabled"}
    MaxStirs = 1
    Changes = {"rooms", "users"}
    MaxFaults = 1
INVARIANTS TypeOK LastClaimWins AuditTrail PreviewAgrees
PROPERTY CallsAreDue
CHECK_DEADLOCK FALSE
