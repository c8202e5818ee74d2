CONSTANTS
  Seeds = {s1, s2}
  Tenants = {t1, t2}
  Writes <- Orders
  None = None
SPECIFICATION FairSpec
INVARIANTS TypeOK AloneSucceeds DoneWhole
PROPERTIES WipedWhole RunsEnd
\* The ids run out.
CHECK_DEADLOCK FALSE
