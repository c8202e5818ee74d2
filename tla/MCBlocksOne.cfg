\* One request at a time.
CONSTANTS
  Blocks = {b1, b2}
  Customers = {c1, c2}
  Measurements = {m1}
  Requests = {w1}
  None = None
SPECIFICATION Spec
SYMMETRY Interchangeable
INVARIANTS TypeOK OneDefault
PROPERTIES MeasurementsOutliveBlocks
\* The ids run out.
CHECK_DEADLOCK FALSE
