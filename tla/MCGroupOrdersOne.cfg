\* One request at a time: what the handlers promise when they do not overlap.
CONSTANTS
  Orders = {o1, o2}
  Groups = {g1, g2}
  Customers = {c1, c2}
  Requests = {w1}
  Amounts = {1, 2}
  PaidGroups = {g2}
  NoOrder = NoOrder
  NoGroup = NoGroup
SPECIFICATION Spec
SYMMETRY Interchangeable
INVARIANTS TypeOK TotalsExact GroupMembersHaveGroup
PROPERTIES OnlyEmptyGroupsDeleted DeliveredTogether
\* The ids run out: nothing is left to do once every group is deleted.
CHECK_DEADLOCK FALSE
