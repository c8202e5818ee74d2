--------------------------- MODULE MCMeasurements ---------------------------
(***************************************************************************)
(* The instance of Measurements that TLC checks.                           *)
(***************************************************************************)
EXTENDS Measurements, TLC

Interchangeable ==
  Permutations(Fields) \cup Permutations(Customers) \cup Permutations(Categories)
  \cup Permutations(Requests)
=============================================================================
