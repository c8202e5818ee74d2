------------------------- MODULE MCWhatsappMessages -------------------------
(***************************************************************************)
(* Two messages sent, one received, and two requests at a time, so that    *)
(* notices of one message overlap, come twice and come in any order.       *)
(***************************************************************************)
EXTENDS WhatsappMessages, TLC

Interchangeable ==
  Permutations(Accounts) \cup Permutations(Messages) \cup Permutations(Sends)
    \cup Permutations(Requests)
=============================================================================
