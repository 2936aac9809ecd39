SPECIFICATION SessionsSpec
CONSTANTS
  Session = {s1, s2}
  User = {u1}
  Origin = {o1, o2}
  Key = {k1, k2}
  Nonce = {n1}
  Request = {r1, r2}
  NONE = NONE
  Enforce = TRUE
  SessionLife = 1
  NonceLife = 1
  MaxTime = 1
  MaxGeneration = 2
  HistoryPage = 1
  MaxLogins = 3
  AuditPage = 1
  MaxEntries = 1
  TTL = 2
  MaxVersion = 2
  CacheTime = 3
  MaxId = 6
SYMMETRY Symmetry
INVARIANTS SessionsTypeOK NonceOnce ConfirmedKeyHolds CookieFollows ShowsFilter ShowsInvestigation GoneHasNoSession CacheServesNothingOld SettledIsWhatIsThere
PROPERTIES OverIsOver EnforcedMeansBound ProofFitsSession ReuseForCause StaysForCause
CONSTRAINT Scope
CHECK_DEADLOCK FALSE
