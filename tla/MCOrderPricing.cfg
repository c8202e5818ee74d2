CONSTANTS
  Orders = {o1}
  Requests = {w1, w2}
  Worths = {1, 2}
  Totals = {3}
  Advances = {2}
  Charges = {}
  Balances = {0}
  Statuses = {}
  None = None
  Empty = Empty
SPECIFICATION Spec
SYMMETRY Interchangeable
INVARIANTS TypeOK TotalsOfItems PaymentAgrees AdvanceKept
\* The ids run out: nothing is left to do once every order is deleted.
CHECK_DEADLOCK FALSE
