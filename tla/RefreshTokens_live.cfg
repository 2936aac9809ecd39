CONSTANTS
  Token = {t1, t2}
  Family = {f1}
  User = {u1}
  Service = {s1}
  Resource = {}
  Request = {r1, r2}
  NONE = NONE
  Kind = {"login", "grant", "revoke"}
  Admin = {}
  Fault = {"abort", "insert_lost", "insert_applied", "unrevoke_lost", "unrevoke_applied"}
  Grace = 1
  TTL = 0
  MaxTime = 1
  MaxGen = 1
SPECIFICATION FairSpec
PROPERTIES Answered
