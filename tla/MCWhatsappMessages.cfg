CONSTANTS
  Accounts = {a1, a2}
  Messages = {m1, m2}
  Sends = {s1, s2}
  Inbounds = {i1}
  Notices = {"sent", "delivered", "read"}
  Requests = {w1, w2}
  None = None
SPECIFICATION Spec
SYMMETRY Interchangeable
INVARIANTS TypeOK NoticesKept RowsOfSends OneActiveAccount
