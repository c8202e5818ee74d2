--------------------------- MODULE MCGroupOrders ---------------------------
(***************************************************************************)
(* GroupOrders on small sets: one request at a time, which is what a test  *)
(* would run, and two at a time.  Orders, customers and requests are       *)
(* interchangeable, and so are the groups that have no payments.           *)
(***************************************************************************)
EXTENDS GroupOrders, TLC

Interchangeable ==
  Permutations(Orders) \cup Permutations(Customers) \cup Permutations(Requests)
    \cup Permutations(Groups \ PaidGroups)
=============================================================================
