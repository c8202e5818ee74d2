--------------------------- MODULE MCOrderPricing ---------------------------
(***************************************************************************)
(* The instance of OrderPricing that TLC checks.                           *)
(***************************************************************************)
EXTENDS OrderPricing, TLC

Interchangeable == Permutations(Requests)
=============================================================================
