SPECIFICATION Spec
CONSTANTS
  Code = {c1}
  User = {u1}
  Service = {s1, s2}
  Public = {s2}
  Redirect = {bff, app}
  Callback = {bff}
  Verifier = {v1}
  Generation = {g1, g2}
  Request = {r1, r2}
  NONE = NONE
  Lifetime = 0
  MaxTime = 1
SYMMETRY Symmetry
PROPERTIES BarredGetsNothing GrantOnce PairFitsLogin ResourceBound
CONSTRAINT Scope
