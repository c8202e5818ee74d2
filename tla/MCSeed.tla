------------------------------- MODULE MCSeed -------------------------------
(***************************************************************************)
(* Seed with two runs at a time that create the tenant twice at most.      *)
(* Orders are what the application adds: their items keep a category from  *)
(* being deleted, as blocks and measurements do, and they take a number.   *)
(***************************************************************************)
EXTENDS Seed

Orders == {data \in Additions : "newOrder" \in DOMAIN data}
=============================================================================
