\* Two replacements by updateBlockCustomers of one block.
CONSTANTS
  Blocks = {b1}
  Customers = {c1, c2}
  Measurements = {}
  Requests = {w1, w2}
  None = None
SPECIFICATION Spec
INVARIANTS OneDefault
\* The ids run out.
CHECK_DEADLOCK FALSE
