CONSTANTS
  Browsers = {b1, b2}
  Users = {u1}
  SessionIds = {s1, s2}
  Requests = {w1, w2}
  RowLifetime = 1
  JwtLifetime = 3
  MaxTime = 3
  None = None
SPECIFICATION Spec
SYMMETRY Interchangeable
INVARIANTS TypeOK CookieGood
PROPERTIES EndedForGood RefreshesInTime
\* The sessions run out and the clock stops.
CHECK_DEADLOCK FALSE
