------------------------------ MODULE MCBlocks ------------------------------
(***************************************************************************)
(* Blocks on small sets.  One block is enough for replacements, which      *)
(* touch no other, and two for deletes of customers and moved              *)
(* measurements.                                                           *)
(***************************************************************************)
EXTENDS Blocks, TLC

Interchangeable ==
  Permutations(Blocks) \cup Permutations(Customers) \cup Permutations(Measurements)
    \cup Permutations(Requests)
=============================================================================
