\* Two requests at a time, on one block, with the fairness of the runtime and of the
\* database's row locks.  No symmetry: one of the properties is about behaviours.
CONSTANTS
  Blocks = {b1}
  Customers = {c1, c2}
  Measurements = {}
  Requests = {w1, w2}
  None = None
SPECIFICATION FairSpec
INVARIANTS AssignmentsAsSaved SavedCustomersAssigned OneDefaultAlone
PROPERTIES RequestsFinish
\* The ids run out.
CHECK_DEADLOCK FALSE
