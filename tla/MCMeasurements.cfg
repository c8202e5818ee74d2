CONSTANTS
  Fields = {f1}
  Measurements = {m1}
  Items = {i1}
  Customers = {c1, c2}
  Categories = {k1, k2}
  Requests = {w1, w2}
  None = None
SPECIFICATION Spec
SYMMETRY Interchangeable
INVARIANTS TypeOK  ItemsMeasured
PROPERTIES CountedItemsKept
\* The ids run out: nothing is left to do once every category is deleted.
CHECK_DEADLOCK FALSE
