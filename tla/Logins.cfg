SPECIFICATION LoginsSpec
CONSTANTS
  Code = {c1}
  User = {u1}
  Service = {s1, s2}
  Request = {r1, r2}
  NONE = NONE
  Interval = 1
  Lifetime = 1
  MaxTime = 2
  Holder = {s1, s2}
  Provider = {google, line}
  Updating = {google}
  Mailless = {}
  Account = {g1, g2, k1}
  HostOf <- Hosts
  Email = {e1}
  Link = {l1}
  g1 = g1
  g2 = g2
  k1 = k1
  google = google
  line = line
SYMMETRY Symmetry
INVARIANTS IdentitiesTypeOK OpensOwnAccount
PROPERTIES BarredGetsNothing GrantOnce RefusedStaysRefused KeepsAWayIn DisplacesNothing AttachedForCause
