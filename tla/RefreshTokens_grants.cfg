SPECIFICATION Spec
CONSTANTS
  Token = {t1, t2}
  Family = {f1}
  User = {u1}
  Service = {s1, s2}
  Resource = {x1}
  Request = {r1, r2}
  NONE = NONE
  Kind = {"login", "refresh", "grant"}
  Admin = {"ban", "registry", "delete_service"}
  Fault = {}
  Grace = 1
  TTL = 0
  MaxTime = 0
  MaxGen = 2
SYMMETRY Symmetry
INVARIANTS FamilyUniform
PROPERTIES ResourceBound BarredGetsNothing
