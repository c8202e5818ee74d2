---------------------------- MODULE GroupLedger ----------------------------
(***************************************************************************)
(* What the application promises of the totals of group orders, without    *)
(* requests, orders or statements: an account for each group, with the     *)
(* totals that are right and the totals that are shown.  An account is due *)
(* while the two may differ.  GroupOrders implements it.                   *)
(***************************************************************************)
CONSTANTS Groups,
          Values,   \* what totals can be
          Zero      \* one of them: the totals of a group that has no orders

VARIABLE accounts

Account == [row : {"unborn", "stored", "deleted"}, right : Values, shown : Values,
            due : BOOLEAN]
Empty(row) == [row |-> row, right |-> Zero, shown |-> Zero, due |-> FALSE]

Init == accounts = [g \in Groups |-> Empty("unborn")]

\* A group order is created without orders, and its totals say so.
Open(a, b) == a.row = "unborn" /\ b = Empty("stored")

Close(a, b) == a.row = "stored" /\ b = Empty("deleted")

\* The orders of a group may change at any time, which makes its account due; the totals
\* shown may change only while it is due.
Change(a, b) ==
  /\ a.row = "stored" /\ b.row = "stored"
  /\ b.due /\ (a.due \/ b.shown = a.shown)

\* An account is due until the totals of the orders there are, are shown.
Settle(a, b) ==
  /\ a.row = "stored" /\ b.row = "stored"
  /\ a.due /\ ~b.due /\ b.right = a.right /\ b.shown = b.right

\* One step may concern several groups: an order moves, a customer's orders go.
Next ==
  /\ accounts' \in [Groups -> Account]
  /\ \A g \in Groups :
       LET a == accounts[g]
           b == accounts'[g]
       IN a = b \/ Open(a, b) \/ Close(a, b) \/ Change(a, b) \/ Settle(a, b)

Spec == Init /\ [][Next]_accounts
=============================================================================
