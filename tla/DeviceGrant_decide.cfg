CONSTANTS
  Code = {c1}
  User = {u1, u2}
  Service = {s1}
  Request = {r1, r2}
  NONE = NONE
  Interval = 0
  Lifetime = 0
  MaxTime = 1
SPECIFICATION Spec
SYMMETRY Symmetry
INVARIANTS DecidedOnce
