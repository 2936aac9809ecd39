CONSTANTS
  Token = {t1, t2}
  Family = {f1}
  User = {u1}
  Service = {}
  Resource = {}
  Request = {r1}
  NONE = NONE
  Kind = {"login", "refresh", "logout"}
  Admin = {}
  Fault = {}
  Grace = 1
  TTL = 1
  MaxTime = 1
  MaxGen = 1
SPECIFICATION Spec
INVARIANTS LogoutEndsFamily
