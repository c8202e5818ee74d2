----------------------------- MODULE MCSessions -----------------------------
(***************************************************************************)
(* Sessions with two browsers of one user and two requests at a time, over *)
(* a clock long enough for a token to be replaced, for a row to reach its  *)
(* deadline while the token is good, and for a token to expire.            *)
(***************************************************************************)
EXTENDS Sessions, TLC

Interchangeable ==
  Permutations(Browsers) \cup Permutations(Users) \cup Permutations(SessionIds)
    \cup Permutations(Requests)
=============================================================================
