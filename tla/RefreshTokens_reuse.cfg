CONSTANTS
  Token = {t1, t2, t3}
  Family = {f1}
  User = {u1}
  Service = {}
  Resource = {}
  Request = {r1, r2}
  NONE = NONE
  Kind = {"login", "refresh"}
  Admin = {}
  Fault = {}
  Grace = 1
  TTL = 1
  MaxTime = 1
  MaxGen = 1
SPECIFICATION Spec
INVARIANTS ReuseEndsFamily
ACTION_CONSTRAINT PromptHandlers
