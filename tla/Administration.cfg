SPECIFICATION Spec
CONSTANTS
  User = {p1, p2}
  Boot = p1
  Request = {r1, r2}
SYMMETRY Symmetry
INVARIANTS TypeOK LogoutReachesAll
PROPERTIES KeepsAnAdmin SessionRoleFromRow SuspendedStaysOut
CHECK_DEADLOCK FALSE
