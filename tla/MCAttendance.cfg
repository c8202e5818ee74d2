CONSTANTS
  BiometricIds = {x}
  Times = {32370, 32460, 63000}
  Employees = {e1, e2}
  Requests = {w1, w2}
  None = None
SPECIFICATION Spec
SYMMETRY Interchangeable
INVARIANTS TypeOK RecordsSupported
PROPERTIES RecordsWiden
