\* A block that is measured between deleteBlock's count and its delete.
CONSTANTS
  Blocks = {b1}
  Customers = {c1}
  Measurements = {m1}
  Requests = {w1, w2}
  None = None
SPECIFICATION Spec
PROPERTIES MeasurementsOutliveBlocks
\* The ids run out.
CHECK_DEADLOCK FALSE
