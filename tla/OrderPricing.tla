---------------------------- MODULE OrderPricing ----------------------------
(***************************************************************************)
(* What an order costs and what is paid of it: createOrder, updateOrder    *)
(* and deleteOrder of orders.service.ts on the items of an order and the   *)
(* amounts in its row.                                                     *)
(*                                                                         *)
(* updateOrder reads the order, then its items, computes every amount from *)
(* what the request names or else from what it read, and writes the row    *)
(* and, if the request names items, the items in one transaction, whose    *)
(* first statement locks the row.  Nothing it read is checked again.       *)
(*                                                                         *)
(* Abstractions.  Amounts are in cents, the scale of the columns: what a   *)
(* request names, and each line of its items, has no fraction of one.  The *)
(* code adds and subtracts doubles.  Over the range of the columns their   *)
(* error is far below half a cent, so that what is stored is exact, but    *)
(* the payment status is decided before anything is rounded: 0.1 + 0.2 and *)
(* an advance of 0.3 leave 5.55e-17.  See Remains.  A list of items is     *)
(* what it is worth, the sum of its line totals, with the empty list       *)
(* apart; totalQty is computed and written like totalAmount.  The columns  *)
(* that no amount depends on, the customer's and the group's included, are *)
(* left out (see GroupOrders and Measurements), and so is the audit.       *)
(***************************************************************************)
EXTENDS Integers

CONSTANTS Orders, Requests,
          Worths,    \* what a list of items can be worth
          Totals, Advances, Charges, Balances, Statuses,  \* what a request can name
          None,      \* a parameter that is not given
          Empty      \* the list without items

Payments == {"PAID", "ADVANCE_PAID", "PARTIALLY_PAID", "UNPAID", "REFUNDED"}

ASSUME PricingAssumption ==
  /\ Worths \subseteq Nat /\ Totals \subseteq Nat /\ Advances \subseteq Nat
  /\ Charges \subseteq Nat /\ Balances \subseteq Nat
  /\ Statuses \subseteq Payments
  /\ None \notin Int /\ None \notin Orders /\ None # Empty /\ Empty \notin Int
  /\ None \notin Payments

VARIABLES orders,      \* the orders table, with the items of each order
          req,         \* where each updateOrder being served stands
          recorded,    \* history: the advance last named for each order
          adrift,      \* history: orders whose total is not the sum of their items
          balanced,    \* history: orders whose balance was last written as named
          declared,    \* history: orders whose payment status was last written as named
          overwritten  \* history: orders whose advance was written back as it was before

named == <<balanced, declared>>
vars == <<orders, req, recorded, adrift, named, overwritten>>

Lists == Worths \cup {Empty}
Opt(S) == S \cup {None}
Worth(list) == IF list = Empty THEN 0 ELSE list

Order ==
  [row : {"unborn", "stored", "deleted"}, items : Lists, total : Nat, advance : Nat,
   courier : Nat, balance : Nat, payment : Payments]
UnbornOrder ==
  [row |-> "unborn", items |-> Empty, total |-> 0, advance |-> 0, courier |-> 0,
   balance |-> 0, payment |-> "UNPAID"]
Stored == {o \in Orders : orders[o].row = "stored"}

(***************************************************************************)
(* An updateOrder being served.                                            *)
(*   row      it has read the order's row: advance and courier are settled *)
(*   write    it has read the items too: the amounts are computed          *)
(* items, total, balance and payment are what the request names until the  *)
(* last three are computed.  For the history variables only: pays, sums,   *)
(* balances and declares, that it names an advance, no total, a balance, a *)
(* status; oldItems and oldAdvance, that what it read of them has been     *)
(* changed by another request since.                                       *)
(***************************************************************************)
Idle == [pc |-> "idle", order |-> None, items |-> None, total |-> None, advance |-> 0,
         courier |-> 0, balance |-> None, payment |-> None, pays |-> FALSE,
         sums |-> FALSE, balances |-> FALSE, declares |-> FALSE,
         oldItems |-> FALSE, oldAdvance |-> FALSE]
Request ==
  [pc : {"idle", "row", "write"}, order : Opt(Orders), items : Opt(Lists), total : Opt(Nat),
   advance : Nat, courier : Nat, balance : Opt(Nat), payment : Opt(Payments),
   pays : BOOLEAN, sums : BOOLEAN, balances : BOOLEAN, declares : BOOLEAN,
   oldItems : BOOLEAN, oldAdvance : BOOLEAN]

TypeOK ==
  /\ orders \in [Orders -> Order]
  /\ req \in [Requests -> Request]
  /\ \A w \in Requests :
       /\ req[w].pc # "idle" => req[w].order \in Orders
       /\ req[w].pc = "write" =>
            req[w].total \in Nat /\ req[w].balance \in Nat /\ req[w].payment \in Payments
  /\ recorded \in [Orders -> Nat]
  /\ adrift \in SUBSET Orders /\ overwritten \in SUBSET Orders
  /\ balanced \in SUBSET Orders /\ declared \in SUBSET Orders

Init ==
  /\ orders = [o \in Orders |-> UnbornOrder]
  /\ req = [w \in Requests |-> Idle]
  /\ recorded = [o \in Orders |-> 0]
  /\ adrift = {} /\ balanced = {} /\ declared = {} /\ overwritten = {}

----------------------------------------------------------------------------
(* The amounts. *)

Given(value, otherwise) == IF value = None THEN otherwise ELSE value

\* What is left to pay.  (Difference is a mistake: an advance can be more than the total.)
Difference(total, courier, advance) == total + courier - advance
Balance(total, courier, advance) ==
  IF total + courier > advance THEN total + courier - advance ELSE 0

\* Whether the balance that was computed is above zero, as the code tests it, with sum the
\* total it computed or was given.  When the advance is exactly what is due the doubles may
\* leave a residue, on either side of zero, unless they only take a number from itself.
Remains(total, balance, sum, courier, advance) ==
  IF balance # None THEN {balance > 0}
  ELSE IF sum + courier = advance /\ sum > 0 /\ (total = None \/ courier > 0)
       THEN BOOLEAN
       ELSE {sum + courier > advance}

\* resolvePaymentStatus.  (AdvanceFirst is a mistake: the order of its tests swapped.)
AdvanceFirst(advance, remains) ==
  IF advance > 0 THEN "ADVANCE_PAID" ELSE IF remains THEN "UNPAID" ELSE "PAID"
ResolvePaymentStatus(advance, remains) ==
  IF ~remains THEN "PAID" ELSE IF advance > 0 THEN "ADVANCE_PAID" ELSE "UNPAID"

\* The items the total is summed over: those of the request, if it names any at all, or
\* those that were read.  (SourceRead is a mistake.)
SourceRead(asked, read) == read
SourceItems(asked, read) == IF asked \in Worths THEN asked ELSE read

\* The advance that is written.  (AdvanceAnew is a mistake, createOrder's default.)
AdvanceAnew(asked, read) == Given(asked, 0)
NextAdvance(asked, read) == Given(asked, read)

Add(S, o, cond) == IF cond THEN S \cup {o} ELSE S \ {o}

----------------------------------------------------------------------------

CreateOrder(o, items, total, advance, courier, balance, payment) ==
  LET sum == Given(total, Worth(items))
      paid == Given(advance, 0)
      charge == Given(courier, 0)
      left == Given(balance, Balance(sum, charge, paid))
  IN /\ orders[o].row = "unborn" /\ items # Empty
     /\ \E remains \in Remains(total, balance, sum, charge, paid) :
          orders' = [orders EXCEPT ![o] =
            [row |-> "stored", items |-> items, total |-> sum, advance |-> paid,
             courier |-> charge, balance |-> left,
             payment |-> Given(payment, ResolvePaymentStatus(paid, remains))]]
     /\ recorded' = [recorded EXCEPT ![o] = paid]
     /\ adrift' = Add(adrift, o, total # None)
     /\ balanced' = Add(balanced, o, balance # None)
     /\ declared' = Add(declared, o, payment # None)
     /\ UNCHANGED <<req, overwritten>>

UpdateOrderRow(w, o, items, total, advance, courier, balance, payment) ==
  /\ req[w].pc = "idle" /\ o \in Stored
  /\ req' = [req EXCEPT ![w] =
       [pc |-> "row", order |-> o, items |-> items, total |-> total,
        advance |-> NextAdvance(advance, orders[o].advance),
        courier |-> Given(courier, orders[o].courier),
        balance |-> balance, payment |-> payment, pays |-> advance # None,
        sums |-> total = None, balances |-> balance # None, declares |-> payment # None,
        oldItems |-> FALSE, oldAdvance |-> FALSE]]
  /\ UNCHANGED <<orders, recorded, adrift, named, overwritten>>

UpdateOrderItems(w) ==
  LET r == req[w]
      sum == Given(r.total, Worth(SourceItems(r.items, orders[r.order].items)))
      left == Given(r.balance, Balance(sum, r.courier, r.advance))
  IN /\ r.pc = "row"
     /\ \E remains \in Remains(r.total, r.balance, sum, r.courier, r.advance) :
          req' = [req EXCEPT ![w] =
            [r EXCEPT !.pc = "write", !.total = sum, !.balance = left,
                      !.payment = Given(r.payment, ResolvePaymentStatus(r.advance, remains)),
                      !.oldItems = FALSE]]
     /\ UNCHANGED <<orders, recorded, adrift, named, overwritten>>

UpdateOrderSave(w) ==
  LET r == req[w]
      o == r.order
      items == Given(r.items, orders[o].items)
  IN /\ r.pc = "write" /\ o \in Stored
     /\ orders' = [orders EXCEPT ![o] =
          [row |-> "stored", items |-> items, total |-> r.total, advance |-> r.advance,
           courier |-> r.courier, balance |-> r.balance, payment |-> r.payment]]
     /\ req' = [v \in Requests |->
          IF v = w THEN Idle
          ELSE IF req[v].order # o THEN req[v]
          ELSE [req[v] EXCEPT !.oldItems = @ \/ r.items # None, !.oldAdvance = @ \/ r.pays]]
     /\ recorded' = IF r.pays THEN [recorded EXCEPT ![o] = r.advance] ELSE recorded
     \* The total is another list's if it was named, if the request's list is empty, or if
     \* the request names no items and those it read have been replaced.
     /\ adrift' = Add(adrift, o, \/ ~r.sums \/ r.items = Empty
                                 \/ r.items = None /\ r.oldItems)
     /\ balanced' = Add(balanced, o, r.balances)
     /\ declared' = Add(declared, o, r.declares)
     \* An advance read before another request's was recorded is written over that one;
     \* what is read after that is no better until one is named again.
     /\ overwritten' = IF r.pays THEN overwritten \ {o}
                       ELSE IF r.oldAdvance THEN overwritten \cup {o} ELSE overwritten

DeleteOrder(o) ==
  /\ o \in Stored
  /\ orders' = [orders EXCEPT ![o] = [UnbornOrder EXCEPT !.row = "deleted"]]
  /\ UNCHANGED <<req, recorded, adrift, named, overwritten>>

\* A statement fails, the order's own delete among the reasons, or the process stops.
Abort(w) ==
  /\ req[w].pc # "idle"
  /\ req' = [req EXCEPT ![w] = Idle]
  /\ UNCHANGED <<orders, recorded, adrift, named, overwritten>>

Next ==
  \/ \E o \in Orders, total \in Opt(Totals), advance \in Opt(Advances),
        courier \in Opt(Charges), balance \in Opt(Balances), payment \in Opt(Statuses) :
       \/ \E items \in Lists :
            CreateOrder(o, items, total, advance, courier, balance, payment)
       \/ \E w \in Requests, items \in Opt(Lists) :
            UpdateOrderRow(w, o, items, total, advance, courier, balance, payment)
  \/ \E w \in Requests : UpdateOrderItems(w) \/ UpdateOrderSave(w) \/ Abort(w)
  \/ \E o \in Orders : DeleteOrder(o)

Spec == Init /\ [][Next]_vars

----------------------------------------------------------------------------
(* Properties. *)

\* The total of an order is the sum of its items.  adrift are the orders whose total the
\* request named, whose items were replaced by none ("items: []", which createOrder refuses
\* and updateOrder does not), and those whose items were replaced between an update's read
\* and its write.
TotalsOfItems == \A o \in Stored \ adrift : orders[o].total = Worth(orders[o].items)

\* The amounts and the status of an order agree with one another, though an update mixes
\* those its request names with those it read, and updates overlap.  The balance is what the
\* advance leaves of total and courier charges.  PAID says that nothing is left, UNPAID that
\* nothing was paid, ADVANCE_PAID that something was and something is left; but it may also
\* stand beside a balance of 0.00 if the advance is just what was due, when a residue of the
\* doubles remained (updateOrder, resolvePaymentStatus).  balanced and declared are the
\* orders whose balance and whose status are as a request named them.
PaymentAgrees ==
  \A o \in Stored :
    LET r == orders[o]
        due == r.total + r.courier
    IN /\ o \notin balanced =>
            r.balance + r.advance = due \/ (r.balance = 0 /\ r.advance > due)
       /\ o \notin declared =>
            \/ r.payment = "PAID" /\ r.balance = 0
            \/ r.payment = "UNPAID" /\ r.balance > 0 /\ r.advance = 0
            \/ /\ r.payment = "ADVANCE_PAID" /\ r.advance > 0
               /\ r.balance > 0 \/ (o \notin balanced /\ r.advance = due)

\* An advance that was recorded stays recorded until a request names another: updateOrder
\* writes the column in every call, with what it read when it names none.  overwritten are
\* the orders in which that was an advance from before the one recorded.
AdvanceKept == \A o \in Stored \ overwritten : orders[o].advance = recorded[o]
=============================================================================
