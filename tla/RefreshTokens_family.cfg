SPECIFICATION Spec
CONSTANTS
  Token = {t1, t2, t3}
  Family = {f1}
  User = {u1}
  Service = {}
  Resource = {}
  Request = {r1, r2}
  NONE = NONE
  Kind = {"login", "refresh", "logout"}
  Admin = {"sweep", "delete_user", "cron"}
  Fault = {"abort", "insert_lost", "insert_applied", "unrevoke_lost"}
  Grace = 1
  TTL = 0
  MaxTime = 1
  MaxGen = 1
SYMMETRY Symmetry
INVARIANTS TypeOK SingleUsable RotateOnce
PROPERTIES ExhaustedIsFinal RevocationIsFinal
