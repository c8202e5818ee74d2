------------------------- MODULE OrderPricingProofs -------------------------
(***************************************************************************)
(* What holds of OrderPricing for any orders, amounts and number of        *)
(* requests at a time.                                                     *)
(***************************************************************************)
EXTENDS OrderPricing, TLAPS

USE PricingAssumption

LEMMA NoneApart == None \notin Worths
<1>1. \A n \in Worths : n \in Nat
  OBVIOUS
<1>2. \A n \in Nat : n \in Int
  OBVIOUS
<1>3. QED BY <1>1, <1>2

LEMMA WorthType == ASSUME NEW list \in Lists PROVE Worth(list) \in Nat
  BY DEF Lists, Worth

LEMMA BalanceType ==
  ASSUME NEW total \in Nat, NEW courier \in Nat, NEW advance \in Nat
  PROVE  Balance(total, courier, advance) \in Nat
  BY DEF Balance

LEMMA PaymentType ==
  ASSUME NEW advance, NEW remains PROVE ResolvePaymentStatus(advance, remains) \in Payments
  BY DEF ResolvePaymentStatus, Payments

\* What PaymentAgrees says of one row's amounts: due is total and courier, and given says
\* that the balance was named.
BalanceTrue(balance, advance, due) ==
  balance + advance = due \/ (balance = 0 /\ advance > due)
StatusTrue(payment, balance, advance, due, given) ==
  \/ payment = "PAID" /\ balance = 0
  \/ payment = "UNPAID" /\ balance > 0 /\ advance = 0
  \/ /\ payment = "ADVANCE_PAID" /\ advance > 0
     /\ balance > 0 \/ (~given /\ advance = due)

\* What is left, and what resolvePaymentStatus says of it, whatever residue remained.
LEMMA PaymentTrue ==
  ASSUME NEW total, NEW balance, NEW sum \in Nat, NEW courier \in Nat, NEW advance \in Nat,
         NEW remains \in Remains(total, balance, sum, courier, advance),
         balance # None => balance \in Nat
  PROVE  LET left == Given(balance, Balance(sum, courier, advance))
         IN /\ balance = None => BalanceTrue(left, advance, sum + courier)
            /\ StatusTrue(ResolvePaymentStatus(advance, remains), left, advance,
                          sum + courier, balance # None)
<1> DEFINE left == Given(balance, Balance(sum, courier, advance))
           payment == ResolvePaymentStatus(advance, remains)
<1>1. /\ payment = "PAID" \/ payment = "UNPAID" \/ payment = "ADVANCE_PAID"
      /\ payment = "PAID" => ~remains
      /\ payment = "UNPAID" => remains /\ ~(advance > 0)
      /\ payment = "ADVANCE_PAID" => remains /\ advance > 0
  BY DEF ResolvePaymentStatus
<1> HIDE DEF payment
<1>2. CASE balance # None
  <2>1. left = balance /\ (remains <=> balance > 0)
    BY <1>2 DEF Given, Remains
  <2>2. QED BY <1>1, <1>2, <2>1 DEF StatusTrue, payment
<1>3. CASE balance = None
  <2>1. left = IF sum + courier > advance THEN sum + courier - advance ELSE 0
    BY <1>3 DEF Given, Balance
  <2>2. sum + courier # advance => (remains <=> sum + courier > advance)
    BY <1>3 DEF Remains
  <2>3. sum + courier = advance /\ remains => advance > 0
    <3>1. CASE sum > 0
      BY <3>1
    <3>2. CASE ~(sum > 0)
      <4>1. remains <=> sum + courier > advance
        BY <1>3, <3>2 DEF Remains
      <4>2. QED BY <4>1
    <3>3. QED BY <3>1, <3>2
  <2> HIDE DEF left
  <2>4. BalanceTrue(left, advance, sum + courier)
    BY <2>1 DEF BalanceTrue
  <2>5. StatusTrue(payment, left, advance, sum + courier, FALSE)
    <3>1. CASE sum + courier = advance
      BY <1>1, <2>1, <2>3, <3>1 DEF StatusTrue
    <3>2. CASE sum + courier # advance
      BY <1>1, <2>1, <2>2, <3>2 DEF StatusTrue
    <3>3. QED BY <3>1, <3>2
  <2>6. QED BY <1>3, <2>4, <2>5 DEF left, payment
<1>4. QED BY <1>2, <1>3

RequestOK(q) ==
  /\ q \in Request
  /\ q.pc # "idle" => q.order \in Orders
  /\ q.pc = "write" => q.total \in Nat /\ q.balance \in Nat /\ q.payment \in Payments

LEMMA IdleOK == RequestOK(Idle) /\ Idle.pc = "idle"
  BY DEF RequestOK, Request, Idle, Opt

LEMMA TypeParts ==
  TypeOK <=> /\ orders \in [Orders -> Order] /\ req \in [Requests -> Request]
             /\ \A w \in Requests : RequestOK(req[w])
             /\ recorded \in [Orders -> Nat]
             /\ adrift \in SUBSET Orders /\ overwritten \in SUBSET Orders
             /\ balanced \in SUBSET Orders /\ declared \in SUBSET Orders
  BY Zenon DEF TypeOK, RequestOK

LEMMA TypePartsNext ==
  TypeOK' <=> /\ orders' \in [Orders -> Order] /\ req' \in [Requests -> Request]
              /\ \A w \in Requests : RequestOK(req'[w])
              /\ recorded' \in [Orders -> Nat]
              /\ adrift' \in SUBSET Orders /\ overwritten' \in SUBSET Orders
              /\ balanced' \in SUBSET Orders /\ declared' \in SUBSET Orders
  BY Zenon DEF TypeOK, RequestOK

LEMMA RequestMoves ==
  ASSUME TypeOK, NEW w \in Requests, NEW q, RequestOK(q), req' = [req EXCEPT ![w] = q],
         UNCHANGED <<orders, recorded, adrift, balanced, declared, overwritten>>
  PROVE  TypeOK'
<1>1. req' \in [Requests -> Request] /\ \A v \in Requests : RequestOK(req'[v])
  BY TypeParts DEF RequestOK
<1>2. QED BY <1>1, TypeParts, TypePartsNext

LEMMA GivenType ==
  ASSUME NEW S, NEW value \in Opt(S), NEW otherwise \in S PROVE Given(value, otherwise) \in S
  BY DEF Given, Opt

LEMMA AddType ==
  ASSUME NEW S \in SUBSET Orders, NEW o \in Orders, NEW c \in BOOLEAN
  PROVE  Add(S, o, c) \in SUBSET Orders /\ (o \in Add(S, o, c) <=> c)
         /\ \A p \in Orders : p # o => (p \in Add(S, o, c) <=> p \in S)
  BY DEF Add

\* The amounts createOrder and updateOrder compute.
LEMMA Amounts ==
  ASSUME NEW list \in Lists, NEW total \in Opt(Nat), NEW courier \in Nat, NEW advance \in Nat,
         NEW balance \in Opt(Nat), NEW payment \in Opt(Payments), NEW remains
  PROVE  LET sum == Given(total, Worth(list))
             left == Given(balance, Balance(sum, courier, advance))
             paid == Given(payment, ResolvePaymentStatus(advance, remains))
         IN sum \in Nat /\ left \in Nat /\ paid \in Payments
<1> DEFINE sum == Given(total, Worth(list))
           left == Given(balance, Balance(sum, courier, advance))
<1>1. sum \in Nat
  BY WorthType, GivenType
<1>2. left \in Nat
  <2> HIDE DEF sum
  <2>1. Balance(sum, courier, advance) \in Nat
    BY <1>1, BalanceType
  <2>2. QED BY <2>1, GivenType
<1>3. Given(payment, ResolvePaymentStatus(advance, remains)) \in Payments
  BY PaymentType, GivenType
<1>4. QED BY <1>1, <1>2, <1>3

\* The inductive invariant.  Of a request that is about to write and names no total, the
\* total is what the list it will leave is worth, unless that list was replaced since it
\* was read; its balance and its status, unless it names them, are what its own amounts call
\* for; and of one that names no advance, what it writes is the last one recorded,
\* unless another was recorded since it read, or the one it read was not.
Sums(q, table) ==
  q.pc = "write" /\ q.sums =>
    \/ q.items \in Worths /\ q.total = Worth(q.items)
    \/ q.items = Empty
    \/ q.items = None /\ (q.oldItems \/ table[q.order].row # "stored"
                          \/ q.total = Worth(table[q.order].items))
Agrees(q) ==
  q.pc = "write" =>
    /\ ~q.balances => BalanceTrue(q.balance, q.advance, q.total + q.courier)
    /\ ~q.declares =>
         StatusTrue(q.payment, q.balance, q.advance, q.total + q.courier, q.balances)
Carries(q, table, last, over) ==
  q.pc # "idle" /\ ~q.pays =>
    \/ q.oldAdvance \/ q.order \in over \/ table[q.order].row # "stored"
    \/ q.advance = last[q.order]
Names(q, table) ==
  /\ q.pc # "idle" => table[q.order].row # "unborn"
  /\ q.pc = "row" => /\ q.sums <=> q.total = None
                     /\ q.balances <=> q.balance # None
                     /\ q.declares <=> q.payment # None

Good(q, table, last, over) ==
  Sums(q, table) /\ Agrees(q) /\ Carries(q, table, last, over) /\ Names(q, table)

\* What the properties say of one order.
RowGood(r, last, a, b, d, v) ==
  r.row = "stored" =>
    /\ ~a => r.total = Worth(r.items)
    /\ ~b => BalanceTrue(r.balance, r.advance, r.total + r.courier)
    /\ ~d => StatusTrue(r.payment, r.balance, r.advance, r.total + r.courier, b)
    /\ ~v => r.advance = last

\* The order p, with what the history says of it.
OrderGood(p) ==
  RowGood(orders[p], recorded[p], p \in adrift, p \in balanced, p \in declared,
          p \in overwritten)

PricingInv ==
  /\ \A o \in Orders : OrderGood(o)
  /\ \A w \in Requests : Good(req[w], orders, recorded, overwritten)

LEMMA InvImplies == PricingInv => TotalsOfItems /\ PaymentAgrees /\ AdvanceKept
<1> SUFFICES ASSUME PricingInv PROVE TotalsOfItems /\ PaymentAgrees /\ AdvanceKept
  OBVIOUS
<1>1. TotalsOfItems /\ AdvanceKept
  BY DEF PricingInv, OrderGood, RowGood, TotalsOfItems, AdvanceKept, Stored
<1>2. PaymentAgrees
  BY DEF PricingInv, OrderGood, RowGood, BalanceTrue, StatusTrue, PaymentAgrees, Stored
<1>3. QED BY <1>1, <1>2

LEMMA IdleGood ==
  ASSUME NEW table, NEW last, NEW over PROVE Good(Idle, table, last, over)
  BY DEF Good, Sums, Agrees, Carries, Names, Idle

LEMMA UnbornGood ==
  UnbornOrder \in Order /\ [UnbornOrder EXCEPT !.row = "deleted"] \in Order
  /\ UnbornOrder.row = "unborn" /\ [UnbornOrder EXCEPT !.row = "deleted"].row = "deleted"
  BY DEF UnbornOrder, Order, Lists, Payments

LEMMA InitHolds == Init => TypeOK /\ PricingInv
<1> SUFFICES ASSUME Init PROVE TypeOK /\ PricingInv
  OBVIOUS
<1>1. TypeOK
  BY UnbornGood, IdleOK, TypeParts DEF Init, RequestOK
<1>2. PricingInv
  BY UnbornGood, IdleGood DEF Init, PricingInv, OrderGood, RowGood
<1>3. QED BY <1>1, <1>2

\* A step that moves one request only.
LEMMA InvRequestMoves ==
  ASSUME TypeOK, PricingInv, NEW w \in Requests, NEW q,
         RequestOK(q), Good(q, orders, recorded, overwritten),
         req' = [req EXCEPT ![w] = q],
         UNCHANGED <<orders, recorded, adrift, balanced, declared, overwritten>>
  PROVE  TypeOK' /\ PricingInv'
<1>1. \A v \in Requests : Good(req'[v], orders, recorded, overwritten)
  BY TypeParts DEF PricingInv
<1>2. QED BY <1>1, RequestMoves DEF PricingInv, OrderGood

LEMMA CreateOrderStep ==
  ASSUME TypeOK, PricingInv, NEW o \in Orders, NEW items \in Lists,
         NEW total \in Opt(Totals), NEW advance \in Opt(Advances),
         NEW courier \in Opt(Charges), NEW balance \in Opt(Balances),
         NEW payment \in Opt(Statuses),
         CreateOrder(o, items, total, advance, courier, balance, payment)
  PROVE  TypeOK' /\ PricingInv'
<1> DEFINE sum == Given(total, Worth(items))
           paid == Given(advance, 0)
           charge == Given(courier, 0)
           left == Given(balance, Balance(sum, charge, paid))
<1>0. PICK remains \in Remains(total, balance, sum, charge, paid) :
        orders' = [orders EXCEPT ![o] =
          [row |-> "stored", items |-> items, total |-> sum, advance |-> paid,
           courier |-> charge, balance |-> left,
           payment |-> Given(payment, ResolvePaymentStatus(paid, remains))]]
  BY DEF CreateOrder
<1> DEFINE status == Given(payment, ResolvePaymentStatus(paid, remains))
           row == [row |-> "stored", items |-> items, total |-> sum, advance |-> paid,
                   courier |-> charge, balance |-> left, payment |-> status]
<1>1. /\ orders[o].row = "unborn" /\ orders' = [orders EXCEPT ![o] = row]
      /\ recorded' = [recorded EXCEPT ![o] = paid]
      /\ adrift' = Add(adrift, o, total # None)
      /\ balanced' = Add(balanced, o, balance # None)
      /\ declared' = Add(declared, o, payment # None)
      /\ UNCHANGED <<req, overwritten>>
  BY <1>0 DEF CreateOrder
<1>2. /\ total \in Opt(Nat) /\ advance \in Opt(Nat) /\ courier \in Opt(Nat)
      /\ balance \in Opt(Nat) /\ payment \in Opt(Payments)
  BY DEF Opt, Payments
<1>3. paid \in Nat /\ charge \in Nat
  BY <1>2, GivenType
<1>4. sum \in Nat /\ left \in Nat /\ status \in Payments
  <2> HIDE DEF paid, charge
  <2>1. QED BY <1>2, <1>3, Amounts
<1>5. total = None => sum = Worth(items)
  BY DEF Given
<1>6. /\ balance = None => BalanceTrue(left, paid, sum + charge)
      /\ payment = None => StatusTrue(status, left, paid, sum + charge, balance # None)
  <2>1. remains \in Remains(total, balance, sum, charge, paid)
    BY <1>0
  <2>2. balance # None => balance \in Nat
    BY <1>2 DEF Opt
  <2>3. payment = None => status = ResolvePaymentStatus(paid, remains)
    BY DEF Given
  <2> HIDE DEF sum, charge, paid, status
  <2>4. QED BY <1>3, <1>4, <2>1, <2>2, <2>3, PaymentTrue
<1> HIDE DEF sum, paid, charge, left, status
<1>7. row \in Order /\ row.row = "stored" /\ row.items = items /\ row.total = sum
      /\ row.advance = paid /\ row.courier = charge /\ row.balance = left
      /\ row.payment = status
  BY <1>3, <1>4 DEF Order
<1>8. RowGood(row, paid, total # None, balance # None, payment # None, o \in overwritten)
  BY <1>5, <1>6, <1>7 DEF RowGood
<1> HIDE DEF row
<1>9. TypeOK'
  BY <1>1, <1>3, <1>7, AddType, TypeParts, TypePartsNext
<1>10. ASSUME NEW p \in Orders PROVE OrderGood(p)'
  <2>1. CASE p = o
    <3>1. orders'[p] = row /\ recorded'[p] = paid
          /\ (p \in adrift' <=> total # None)
          /\ (p \in balanced' <=> balance # None) /\ (p \in declared' <=> payment # None)
      BY <1>1, <2>1, TypeParts DEF Add
    <3>2. QED BY <1>1, <1>8, <2>1, <3>1 DEF OrderGood, RowGood, StatusTrue
  <2>2. CASE p # o
    <3>1. orders'[p] = orders[p] /\ recorded'[p] = recorded[p]
          /\ (p \in adrift' <=> p \in adrift) /\ (p \in balanced' <=> p \in balanced)
          /\ (p \in declared' <=> p \in declared)
      BY <1>1, <2>2, AddType, TypeParts
    <3>2. QED BY <1>1, <3>1 DEF PricingInv, OrderGood, RowGood
  <2>3. QED BY <2>1, <2>2
<1>11. ASSUME NEW v \in Requests PROVE Good(req'[v], orders', recorded', overwritten')
  <2>1. Good(req[v], orders, recorded, overwritten) /\ RequestOK(req[v])
    BY TypeParts DEF PricingInv
  <2>2. CASE req[v].pc = "idle"
    BY <1>1, <2>2 DEF Good, Sums, Agrees, Carries, Names
  <2>3. CASE req[v].pc # "idle"
    <3>1. req[v].order # o /\ req[v].order \in Orders
      BY <1>1, <2>1, <2>3 DEF Good, Names, RequestOK
    <3>2. orders'[req[v].order] = orders[req[v].order]
          /\ recorded'[req[v].order] = recorded[req[v].order]
      BY <1>1, <3>1, TypeParts
    <3>3. QED BY <1>1, <2>1, <3>2 DEF Good, Sums, Agrees, Carries, Names
  <2>4. QED BY <2>2, <2>3
<1>12. QED BY <1>9, <1>10, <1>11 DEF PricingInv

LEMMA UpdateOrderRowStep ==
  ASSUME TypeOK, PricingInv, NEW w \in Requests, NEW o \in Orders, NEW items \in Opt(Lists),
         NEW total \in Opt(Totals), NEW advance \in Opt(Advances),
         NEW courier \in Opt(Charges), NEW balance \in Opt(Balances),
         NEW payment \in Opt(Statuses),
         UpdateOrderRow(w, o, items, total, advance, courier, balance, payment)
  PROVE  TypeOK' /\ PricingInv'
<1> DEFINE paid == NextAdvance(advance, orders[o].advance)
           charge == Given(courier, orders[o].courier)
           q == [pc |-> "row", order |-> o, items |-> items, total |-> total,
                 advance |-> paid, courier |-> charge, balance |-> balance,
                 payment |-> payment, pays |-> advance # None, sums |-> total = None,
                 balances |-> balance # None, declares |-> payment # None,
                 oldItems |-> FALSE, oldAdvance |-> FALSE]
<1>1. /\ orders[o].row = "stored" /\ req' = [req EXCEPT ![w] = q]
      /\ UNCHANGED <<orders, recorded, adrift, balanced, declared, overwritten>>
  BY DEF UpdateOrderRow, Stored, named
<1>2. /\ total \in Opt(Nat) /\ advance \in Opt(Nat) /\ courier \in Opt(Nat)
      /\ balance \in Opt(Nat) /\ payment \in Opt(Payments)
      /\ orders[o].advance \in Nat /\ orders[o].courier \in Nat
  BY TypeParts DEF Opt, Payments, Order
<1>3. paid \in Nat /\ charge \in Nat
  BY <1>2, GivenType DEF NextAdvance
<1>4. advance = None => paid = orders[o].advance
  BY DEF NextAdvance, Given
<1> HIDE DEF paid, charge
<1>5. RequestOK(q)
  BY <1>2, <1>3 DEF RequestOK, Request, Opt
<1>6. advance = None => o \in overwritten \/ paid = recorded[o]
  BY <1>1, <1>4 DEF PricingInv, OrderGood, RowGood
<1>7. Good(q, orders, recorded, overwritten)
  BY <1>1, <1>6 DEF Good, Sums, Agrees, Carries, Names
<1> HIDE DEF q
<1>8. QED BY <1>1, <1>5, <1>7, InvRequestMoves

LEMMA UpdateOrderItemsStep ==
  ASSUME TypeOK, PricingInv, NEW w \in Requests, UpdateOrderItems(w)
  PROVE  TypeOK' /\ PricingInv'
<1> DEFINE r == req[w]
           list == SourceItems(r.items, orders[r.order].items)
           sum == Given(r.total, Worth(list))
           left == Given(r.balance, Balance(sum, r.courier, r.advance))
<1>0. PICK remains \in Remains(r.total, r.balance, sum, r.courier, r.advance) :
        req' = [req EXCEPT ![w] =
          [r EXCEPT !.pc = "write", !.total = sum, !.balance = left,
                    !.payment = Given(r.payment, ResolvePaymentStatus(r.advance, remains)),
                    !.oldItems = FALSE]]
  BY DEF UpdateOrderItems
<1> DEFINE status == Given(r.payment, ResolvePaymentStatus(r.advance, remains))
           q == [r EXCEPT !.pc = "write", !.total = sum, !.balance = left,
                          !.payment = status, !.oldItems = FALSE]
<1>1. /\ r.pc = "row" /\ req' = [req EXCEPT ![w] = q]
      /\ UNCHANGED <<orders, recorded, adrift, balanced, declared, overwritten>>
  BY <1>0 DEF UpdateOrderItems, named
<1>2. /\ RequestOK(r) /\ r \in Request /\ r.order \in Orders
      /\ Good(r, orders, recorded, overwritten)
  BY <1>1, TypeParts DEF RequestOK, PricingInv
<1>3. orders[r.order].items \in Lists
  BY <1>2, TypeParts DEF Order
<1>4. list \in Lists
  BY <1>2, <1>3 DEF SourceItems, Request, Lists
<1>5. sum \in Nat /\ left \in Nat /\ status \in Payments
  <2> HIDE DEF list
  <2>1. r.total \in Opt(Nat) /\ r.courier \in Nat /\ r.advance \in Nat
        /\ r.balance \in Opt(Nat) /\ r.payment \in Opt(Payments)
    BY <1>2 DEF Request
  <2>2. QED BY <1>4, <2>1, Amounts
<1>6. r.sums => sum = Worth(list)
  BY <1>1, <1>2 DEF Given, Good, Names
<1>7. /\ ~r.balances => BalanceTrue(left, r.advance, sum + r.courier)
      /\ ~r.declares => StatusTrue(status, left, r.advance, sum + r.courier, r.balances)
  <2>1. /\ remains \in Remains(r.total, r.balance, sum, r.courier, r.advance)
        /\ r.courier \in Nat /\ r.advance \in Nat
        /\ r.balance # None => r.balance \in Nat
    BY <1>0, <1>2 DEF Request, Opt
  <2>2. (r.balances <=> r.balance # None) /\ (r.declares <=> r.payment # None)
    BY <1>1, <1>2 DEF Good, Names
  <2>3. r.payment = None => status = ResolvePaymentStatus(r.advance, remains)
    BY DEF Given
  <2> DEFINE held == r.balance # None
  <2>4. /\ ~held => BalanceTrue(left, r.advance, sum + r.courier)
        /\ StatusTrue(ResolvePaymentStatus(r.advance, remains), left, r.advance,
                      sum + r.courier, held)
    <3> HIDE DEF sum
    <3>1. QED BY <1>5, <2>1, PaymentTrue
  <2>5. held <=> r.balances
    BY <2>2
  <2> HIDE DEF sum, left, status, held
  <2>6. QED BY <2>2, <2>3, <2>4, <2>5 DEF StatusTrue
<1>8. \/ r.items \in Worths /\ list = r.items
      \/ r.items = Empty
      \/ r.items = None /\ list = orders[r.order].items
  BY <1>2 DEF SourceItems, Request, Opt, Lists
<1> HIDE DEF list, sum, left, status
<1>9. RequestOK(q) /\ q.pc = "write" /\ q.total = sum /\ q.balance = left
      /\ q.payment = status /\ q.items = r.items /\ q.order = r.order /\ q.sums = r.sums
      /\ q.balances = r.balances /\ q.declares = r.declares
      /\ q.advance = r.advance /\ q.courier = r.courier /\ q.pays = r.pays
      /\ q.oldAdvance = r.oldAdvance
  BY <1>2, <1>5 DEF RequestOK, Request, Opt
<1> HIDE DEF q, r
<1>10. Good(q, orders, recorded, overwritten)
  BY <1>1, <1>2, <1>6, <1>7, <1>8, <1>9 DEF Good, Sums, Agrees, Carries, Names
<1>11. QED BY <1>1, <1>9, <1>10, InvRequestMoves

LEMMA UpdateOrderSaveStep ==
  ASSUME TypeOK, PricingInv, NEW w \in Requests, UpdateOrderSave(w)
  PROVE  TypeOK' /\ PricingInv'
<1> DEFINE r == req[w]
           o == r.order
           items == Given(r.items, orders[o].items)
           row == [row |-> "stored", items |-> items, total |-> r.total,
                   advance |-> r.advance, courier |-> r.courier, balance |-> r.balance,
                   payment |-> r.payment]
           loose == \/ ~r.sums \/ r.items = Empty
                    \/ r.items = None /\ r.oldItems
<1>1. /\ r.pc = "write" /\ RequestOK(r) /\ r \in Request /\ o \in Orders
      /\ orders[o].row = "stored" /\ orders[o] \in Order
      /\ Good(r, orders, recorded, overwritten)
  BY TypeParts DEF UpdateOrderSave, RequestOK, Stored, PricingInv
<1>2. /\ orders' = [orders EXCEPT ![o] = row]
      /\ req' = [v \in Requests |->
           IF v = w THEN Idle
           ELSE IF req[v].order # o THEN req[v]
           ELSE [req[v] EXCEPT !.oldItems = @ \/ r.items # None,
                               !.oldAdvance = @ \/ r.pays]]
      /\ recorded' = IF r.pays THEN [recorded EXCEPT ![o] = r.advance] ELSE recorded
      /\ adrift' = Add(adrift, o, loose)
      /\ balanced' = Add(balanced, o, r.balances)
      /\ declared' = Add(declared, o, r.declares)
      /\ overwritten' = IF r.pays THEN overwritten \ {o}
                        ELSE IF r.oldAdvance THEN overwritten \cup {o} ELSE overwritten
  BY DEF UpdateOrderSave
<1>3. /\ r.total \in Nat /\ r.balance \in Nat /\ r.payment \in Payments
      /\ r.advance \in Nat /\ r.courier \in Nat /\ r.items \in Opt(Lists)
      /\ r.pays \in BOOLEAN /\ r.balances \in BOOLEAN /\ r.declares \in BOOLEAN
  BY <1>1 DEF RequestOK, Request
<1>4. items \in Lists /\ (r.items = None => items = orders[o].items)
      /\ (r.items # None => items = r.items)
  <2>1. orders[o].items \in Lists
    BY <1>1 DEF Order
  <2>2. QED BY <1>3, <2>1, GivenType DEF Given
<1> HIDE DEF items
<1>5. /\ row \in Order /\ row.row = "stored" /\ row.items = items /\ row.total = r.total
      /\ row.advance = r.advance /\ row.courier = r.courier /\ row.balance = r.balance
      /\ row.payment = r.payment
  BY <1>3, <1>4 DEF Order
<1>6. ~loose => r.total = Worth(items)
  <2> SUFFICES ASSUME ~loose PROVE r.total = Worth(items)
    OBVIOUS
  <2>1. r.sums /\ r.items # Empty /\ (r.items = None => ~r.oldItems)
    OBVIOUS
  <2>2. Sums(r, orders)
    BY <1>1 DEF Good
  <2>3. CASE r.items = None
    <3>1. r.items \notin Worths
      BY <2>3, NoneApart
    <3>2. QED BY <1>1, <1>4, <2>1, <2>2, <2>3, <3>1 DEF Sums
  <2>4. CASE r.items # None
    BY <1>1, <1>4, <2>1, <2>2, <2>4 DEF Sums
  <2>5. QED BY <2>3, <2>4
<1>7. /\ ~r.balances => BalanceTrue(r.balance, r.advance, r.total + r.courier)
      /\ ~r.declares =>
           StatusTrue(r.payment, r.balance, r.advance, r.total + r.courier, r.balances)
  BY <1>1 DEF Good, Agrees
<1>8. o \notin overwritten' => r.advance = recorded'[o]
  <2>1. CASE r.pays
    BY <1>1, <1>2, <2>1, TypeParts
  <2>2. CASE ~r.pays
    BY <1>1, <1>2, <2>2 DEF Good, Carries
  <2>3. QED BY <2>1, <2>2
<1> HIDE DEF loose, row
<1>9. RowGood(row, recorded'[o], loose, r.balances, r.declares, o \in overwritten')
  BY <1>5, <1>6, <1>7, <1>8 DEF RowGood
<1>10. /\ loose \in BOOLEAN
       /\ recorded' \in [Orders -> Nat] /\ overwritten' \in SUBSET Orders
  BY <1>1, <1>2, <1>3, TypeParts DEF loose
<1>11. /\ adrift' \in SUBSET Orders
       /\ \A p \in Orders : p \in adrift' <=> IF p = o THEN loose ELSE p \in adrift
  <2>1. adrift' = IF loose THEN adrift \cup {o} ELSE adrift \ {o}
    BY <1>2 DEF Add
  <2>2. QED BY <1>1, <2>1, TypeParts
<1>12. /\ balanced' \in SUBSET Orders /\ declared' \in SUBSET Orders
       /\ \A p \in Orders : p \in balanced' <=> IF p = o THEN r.balances ELSE p \in balanced
       /\ \A p \in Orders : p \in declared' <=> IF p = o THEN r.declares ELSE p \in declared
  <2>1. /\ balanced' = IF r.balances THEN balanced \cup {o} ELSE balanced \ {o}
        /\ declared' = IF r.declares THEN declared \cup {o} ELSE declared \ {o}
    BY <1>2 DEF Add
  <2>2. QED BY <1>1, <2>1, TypeParts
<1>13. ASSUME NEW v \in Requests
       PROVE  req'[v] \in Request /\ RequestOK(req'[v])
  <2>1. RequestOK(req[v])
    BY TypeParts
  <2>2. RequestOK([req[v] EXCEPT !.oldItems = @ \/ r.items # None, !.oldAdvance = @ \/ r.pays])
    BY <2>1 DEF RequestOK, Request
  <2>3. RequestOK(req'[v])
    BY <1>2, <2>1, <2>2, IdleOK
  <2>4. QED BY <2>3 DEF RequestOK
<1>14. TypeOK'
  <2>1. /\ adrift' \in SUBSET Orders
        /\ balanced' \in SUBSET Orders /\ declared' \in SUBSET Orders
    BY <1>11, <1>12
  <2>2. orders' \in [Orders -> Order]
    BY <1>1, <1>2, <1>5, TypeParts
  <2>3. req' \in [Requests -> Request]
    BY <1>2, <1>13
  <2>4. QED BY <1>10, <1>13, <2>1, <2>2, <2>3, TypePartsNext
<1>15. ASSUME NEW p \in Orders PROVE OrderGood(p)'
  <2>1. CASE p = o
    <3>1. orders'[p] = row /\ (p \in adrift' <=> loose)
          /\ (p \in balanced' <=> r.balances) /\ (p \in declared' <=> r.declares)
      BY <1>1, <1>2, <1>11, <1>12, <2>1, TypeParts
    <3>2. QED BY <1>9, <2>1, <3>1 DEF OrderGood, RowGood, StatusTrue
  <2>2. CASE p # o
    <3>1. orders'[p] = orders[p] /\ recorded'[p] = recorded[p]
          /\ (p \in adrift' <=> p \in adrift) /\ (p \in balanced' <=> p \in balanced)
          /\ (p \in declared' <=> p \in declared)
          /\ (p \in overwritten' <=> p \in overwritten)
      BY <1>1, <1>2, <1>11, <1>12, <2>2, TypeParts
    <3>2. QED BY <3>1 DEF PricingInv, OrderGood, RowGood
  <2>3. QED BY <2>1, <2>2
<1>16. ASSUME NEW v \in Requests PROVE Good(req'[v], orders', recorded', overwritten')
  <2>1. Good(req[v], orders, recorded, overwritten) /\ RequestOK(req[v]) /\ req[v] \in Request
    BY TypeParts DEF PricingInv, RequestOK
  <2>2. CASE v = w
    BY <1>2, <2>2, IdleGood
  <2>3. CASE v # w /\ req[v].order # o
    <3>1. req'[v] = req[v]
      BY <1>2, <2>3
    <3>2. CASE req[v].pc = "idle"
      BY <3>1, <3>2 DEF Good, Sums, Agrees, Carries, Names
    <3>3. CASE req[v].pc # "idle"
      <4>1. /\ orders'[req[v].order] = orders[req[v].order]
            /\ recorded'[req[v].order] = recorded[req[v].order]
            /\ req[v].order \in overwritten' <=> req[v].order \in overwritten
        BY <1>1, <1>2, <2>1, <2>3, <3>3, TypeParts DEF RequestOK
      <4>2. QED BY <2>1, <3>1, <4>1 DEF Good, Sums, Agrees, Carries, Names
    <3>4. QED BY <3>2, <3>3
  <2>4. CASE v # w /\ req[v].order = o
    <3> DEFINE q == req'[v]
    <3>1. /\ q.pc = req[v].pc /\ q.order = o /\ q.items = req[v].items
          /\ q.total = req[v].total /\ q.advance = req[v].advance
          /\ q.courier = req[v].courier /\ q.balance = req[v].balance
          /\ q.payment = req[v].payment /\ q.pays = req[v].pays /\ q.sums = req[v].sums
          /\ q.balances = req[v].balances /\ q.declares = req[v].declares
          /\ q.oldItems <=> req[v].oldItems \/ r.items # None
          /\ q.oldAdvance <=> req[v].oldAdvance \/ r.pays
      BY <1>2, <2>1, <2>4 DEF Request
    <3> HIDE DEF q
    <3>2. orders'[o] = row
      BY <1>1, <1>2, TypeParts
    <3>3. Sums(q, orders')
      BY <1>1, <1>4, <1>5, <2>1, <2>4, <3>1, <3>2 DEF Good, Sums
    <3>4. Agrees(q)
      BY <2>1, <3>1 DEF Good, Agrees
    <3>5. Carries(q, orders', recorded', overwritten')
      <4>1. CASE r.pays
        BY <3>1, <4>1 DEF Carries
      <4>2. CASE ~r.pays
        <5>1. recorded' = recorded /\ overwritten \subseteq overwritten'
          BY <1>2, <4>2
        <5>2. QED BY <1>1, <2>1, <2>4, <3>1, <5>1 DEF Good, Carries
      <4>3. QED BY <4>1, <4>2
    <3>6. Names(q, orders')
      BY <1>5, <2>1, <3>1, <3>2 DEF Good, Names
    <3>7. QED BY <3>3, <3>4, <3>5, <3>6 DEF Good, q
  <2>5. QED BY <2>2, <2>3, <2>4
<1>17. QED BY <1>14, <1>15, <1>16 DEF PricingInv

LEMMA DeleteOrderStep ==
  ASSUME TypeOK, PricingInv, NEW o \in Orders, DeleteOrder(o) PROVE TypeOK' /\ PricingInv'
<1> DEFINE row == [UnbornOrder EXCEPT !.row = "deleted"]
<1>1. /\ orders' = [orders EXCEPT ![o] = row] /\ row \in Order /\ row.row = "deleted"
      /\ UNCHANGED <<req, recorded, adrift, balanced, declared, overwritten>>
  BY UnbornGood DEF DeleteOrder, named
<1> HIDE DEF row
<1>2. TypeOK'
  BY <1>1, TypeParts, TypePartsNext
<1>3. orders'[o].row = "deleted" /\ \A p \in Orders : p # o => orders'[p] = orders[p]
  BY <1>1, TypeParts
<1>4. ASSUME NEW p \in Orders PROVE OrderGood(p)'
  BY <1>1, <1>3 DEF PricingInv, OrderGood, RowGood
<1>5. ASSUME NEW v \in Requests PROVE Good(req'[v], orders', recorded', overwritten')
  <2>1. Good(req[v], orders, recorded, overwritten) /\ RequestOK(req[v])
    BY TypeParts DEF PricingInv
  <2>2. req[v].pc # "idle" => req[v].order \in Orders
    BY <2>1 DEF RequestOK
  <2>3. req[v].pc = "idle" \/ orders'[req[v].order].row = "deleted"
        \/ orders'[req[v].order] = orders[req[v].order]
    BY <1>3, <2>2
  <2>4. req'[v] = req[v] /\ recorded' = recorded /\ overwritten' = overwritten
    BY <1>1
  <2>5. QED BY <2>1, <2>3, <2>4 DEF Good, Sums, Agrees, Carries, Names
<1>6. QED BY <1>2, <1>4, <1>5 DEF PricingInv

LEMMA NextHolds == TypeOK /\ PricingInv /\ [Next]_vars => (TypeOK /\ PricingInv)'
<1> SUFFICES ASSUME TypeOK, PricingInv, [Next]_vars PROVE TypeOK' /\ PricingInv'
  OBVIOUS
<1>1. CASE UNCHANGED vars
  BY <1>1, TypeParts, TypePartsNext DEF vars, named, PricingInv, OrderGood
<1>2. ASSUME NEW o \in Orders, NEW total \in Opt(Totals), NEW advance \in Opt(Advances),
             NEW courier \in Opt(Charges), NEW balance \in Opt(Balances),
             NEW payment \in Opt(Statuses)
      PROVE  /\ \A items \in Lists :
                  CreateOrder(o, items, total, advance, courier, balance, payment)
                  => TypeOK' /\ PricingInv'
             /\ \A w \in Requests, items \in Opt(Lists) :
                  UpdateOrderRow(w, o, items, total, advance, courier, balance, payment)
                  => TypeOK' /\ PricingInv'
  BY CreateOrderStep, UpdateOrderRowStep
<1>3. ASSUME NEW w \in Requests, UpdateOrderItems(w) \/ UpdateOrderSave(w) \/ Abort(w)
      PROVE  TypeOK' /\ PricingInv'
  <2>1. CASE Abort(w)
    BY <2>1, IdleOK, IdleGood, InvRequestMoves DEF Abort, named
  <2>2. QED BY <1>3, <2>1, UpdateOrderItemsStep, UpdateOrderSaveStep
<1>4. ASSUME NEW o \in Orders, DeleteOrder(o) PROVE TypeOK' /\ PricingInv'
  BY <1>4, DeleteOrderStep
<1>5. QED BY <1>1, <1>2, <1>3, <1>4, Zenon DEF Next

\* Whatever updates of an order overlap, its amounts stay numbers and its requests what
\* updateOrder can make of them.
THEOREM TypeCorrect == Spec => []TypeOK
BY InitHolds, NextHolds, PTL DEF Spec

\* The total of an order is the sum of its items, adrift orders excepted (updateOrder's
\* sourceItems).
THEOREM TotalsAlwaysOfItems == Spec => []TotalsOfItems
BY InitHolds, NextHolds, InvImplies, PTL DEF Spec

\* However updates overlap, the balance and the payment status of an order are what its
\* total, courier charges and advance call for, except those a request named: paid in full
\* and ADVANCE_PAID may meet only where a residue of the doubles can remain
\* (updateOrder, resolvePaymentStatus).
THEOREM PaymentAlwaysAgrees == Spec => []PaymentAgrees
BY InitHolds, NextHolds, InvImplies, PTL DEF Spec

\* An advance stays recorded until another is named, unless an update that read the row
\* before it was recorded wrote the older one back.
THEOREM AdvanceAlwaysKept == Spec => []AdvanceKept
BY InitHolds, NextHolds, InvImplies, PTL DEF Spec
=============================================================================
