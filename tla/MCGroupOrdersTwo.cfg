\* Two requests at a time that meet on one order and its groups, with the fairness
\* of the runtime and of the database's row locks.  No symmetry: two of the properties
\* are about behaviours.
CONSTANTS
  Orders = {o1}
  Groups = {g1, g2}
  Customers = {c1}
  Requests = {w1, w2}
  Amounts = {1}
  PaidGroups = {}
  NoOrder = NoOrder
  NoGroup = NoGroup
SPECIFICATION FairSpec
INVARIANTS TotalsAnswered MarkedRowsHeld
PROPERTIES KeepsLedger RequestsFinish
\* The ids run out: nothing is left to do once every group is deleted.
CHECK_DEADLOCK FALSE
