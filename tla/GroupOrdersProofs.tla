------------------------- MODULE GroupOrdersProofs -------------------------
(***************************************************************************)
(* What holds of GroupOrders for any sets of orders, groups, customers and *)
(* requests.  The sums themselves are opaque here: all that matters is     *)
(* that the same lines have the same totals.                               *)
(***************************************************************************)
EXTENDS GroupOrders, TLAPS

USE GroupOrdersAssumption

\* The columns of a group order always hold the sums of some set of lines.
LEMMA SumsAreTotals ==
  /\ EmptyTotals \in Totals
  /\ \A lines \in SUBSET Line : GroupTotals(lines) \in Totals
  BY DEF Totals, EmptyTotals

LEMMA LinesAreLines ==
  ASSUME TypeOK, NEW g
  PROVE  LiveLines(g) \subseteq Line
  BY DEF TypeOK, LiveLines, LiveMembers, Members, StoredOrders, Line

\* The types of the tables and of the requests, one by one.
OrderRow == [row : Rows, customer : Customers \cup {"none"}, group : GroupIdOrNone,
             type : {"INDIVIDUAL", "GROUP_MEMBER"}, status : Statuses,
             amount : Amounts \cup {0}]
GroupRow == [row : Rows, status : {"DRAFT", "DELIVERED"}, totals : Totals]
Request  == [pc : {"idle", "save", "remove", "groupRemove", "marked", "read", "write"},
             order : Orders \cup {NoOrder}, group : GroupIdOrNone, next : GroupIdOrNone,
             marked : SUBSET Orders, snap : Totals]
Owing    == {r \in Request : r.pc \in {"read", "write"} => r.group \in Groups}

WellTyped == /\ orders \in [Orders -> OrderRow]
             /\ groups \in [Groups -> GroupRow]
             /\ customers \in SUBSET Customers
             /\ req \in [Requests -> Owing]
             /\ disturbed \in SUBSET Groups

LEMMA TypeByTable == (TypeOK <=> WellTyped) /\ (TypeOK' <=> WellTyped')
<1>1. req \in [Requests -> Owing] <=>
        /\ req \in [Requests -> Request]
        /\ \A w \in Requests : req[w].pc \in {"read", "write"} => req[w].group \in Groups
  BY DEF Owing
<1>2. req' \in [Requests -> Owing] <=>
        /\ req' \in [Requests -> Request]
        /\ \A w \in Requests : req'[w].pc \in {"read", "write"} => req'[w].group \in Groups
  BY DEF Owing
<1>3. QED BY <1>1, <1>2 DEF TypeOK, WellTyped, OrderRow, GroupRow, Request

LEMMA IdleType == Idle \in Owing
  BY SumsAreTotals DEF Owing, Request, Idle, GroupIdOrNone

\* What the loop over the affected groups leaves to do: nothing but reads of the
\* groups named, and each of them that is a group.
LEMMA RecalculateOwes ==
  ASSUME NEW first \in GroupIdOrNone, NEW second \in GroupIdOrNone
  PROVE  LET r == Recalculate(first, second)
         IN /\ r \in Owing
            /\ r.pc \in {"idle", "read"}
            /\ {r.group, r.next} \subseteq {first, second, NoGroup}
            /\ \A g \in {first, second} \ {NoGroup} :
                 r.pc = "read" /\ g \in {r.group, r.next}
  BY SumsAreTotals DEF Recalculate, Idle, GroupIdOrNone, Owing, Request

----------------------------------------------------------------------------
(* Types. *)

LEMMA InitType == Init => TypeOK
  BY SumsAreTotals
  DEF Init, TypeOK, UnbornOrder, UnbornGroup, Rows, Statuses, GroupIdOrNone, Idle

LEMMA NextType == TypeOK /\ [Next]_vars => TypeOK'
<1> SUFFICES ASSUME TypeOK, [Next]_vars PROVE TypeOK'
  OBVIOUS
<1>0. WellTyped
  BY TypeByTable
<1>a. SUFFICES WellTyped'
  BY TypeByTable
<1> USE DEF WellTyped
<1>b. ASSUME NEW w \in Requests, NEW r \in Owing, req' = [req EXCEPT ![w] = r]
      PROVE  req' \in [Requests -> Owing]
  BY <1>0, <1>b
<1>c. \A w \in Requests : req[w] \in Owing /\ req[w] \in Request
  BY <1>0 DEF Owing
<1>1. CASE UNCHANGED vars
  BY <1>0, <1>1 DEF vars
<1>2. ASSUME NEW w \in Requests, NEW o \in Orders, NEW c \in Customers,
             NEW g \in GroupIdOrNone, CreateOrder(w, o, c, g)
      PROVE  WellTyped'
  <2>1. req' \in [Requests -> Owing]
    BY <1>2, <1>b, RecalculateOwes DEF CreateOrder, GroupIdOrNone
  <2>2. orders' \in [Orders -> OrderRow]
    BY <1>0, <1>2 DEF CreateOrder, OrderRow, Rows, Statuses
  <2>3. QED BY <1>0, <1>2, <2>1, <2>2 DEF CreateOrder
<1>3. ASSUME NEW w \in Requests, NEW o \in Orders, NEW g \in GroupIdOrNone,
             UpdateOrderRead(w, o, g)
      PROVE  WellTyped'
  <2>1. [Idle EXCEPT !.pc = "save", !.order = o, !.group = orders[o].group, !.next = g]
          \in Owing
    BY <1>0, IdleType DEF OrderRow, Owing, Request
  <2>2. QED BY <1>0, <1>b, <1>3, <2>1 DEF UpdateOrderRead
<1>4. ASSUME NEW w \in Requests, NEW o \in Orders, DeleteOrderRead(w, o)
      PROVE  WellTyped'
  <2>1. [Idle EXCEPT !.pc = "remove", !.order = o, !.group = orders[o].group] \in Owing
    BY <1>0, IdleType DEF OrderRow, Owing, Request
  <2>2. QED BY <1>0, <1>b, <1>4, <2>1 DEF DeleteOrderRead
<1>5. ASSUME NEW w \in Requests, NEW g \in Groups, CreateGroupOrder(w, g)
      PROVE  WellTyped'
  <2>1. PICK s \in {"DRAFT", "DELIVERED"} :
          groups' = [groups EXCEPT ![g] = [groups[g] EXCEPT !.row = "stored", !.status = s]]
    BY <1>0, <1>5 DEF CreateGroupOrder
  <2>2. [groups[g] EXCEPT !.row = "stored", !.status = s] \in GroupRow
    BY <1>0 DEF GroupRow, Rows
  <2>3. QED BY <1>0, <1>5, <2>1, <2>2 DEF CreateGroupOrder
<1>6. ASSUME NEW w \in Requests, NEW g \in Groups, UpdateGroupOrder(w, g)
      PROVE  WellTyped'
  <2>1. req' \in [Requests -> Owing]
    BY <1>6, <1>b, RecalculateOwes DEF UpdateGroupOrder, GroupIdOrNone
  <2>2. groups' \in [Groups -> GroupRow]
    BY <1>0, <1>6 DEF UpdateGroupOrder, GroupRow
  <2>3. QED BY <1>0, <1>6, <2>1, <2>2 DEF UpdateGroupOrder
<1>7. ASSUME NEW w \in Requests, NEW g \in Groups, DeleteGroupOrderRead(w, g)
      PROVE  WellTyped'
  <2>1. [Idle EXCEPT !.pc = "groupRemove", !.group = g] \in Owing
    BY IdleType DEF Owing, Request, GroupIdOrNone
  <2>2. QED BY <1>0, <1>b, <1>7, <2>1 DEF DeleteGroupOrderRead
<1>8. ASSUME NEW w \in Requests, NEW g \in Groups, MarkDeliveredOrders(w, g)
      PROVE  WellTyped'
  <2>1. [Idle EXCEPT !.pc = "marked", !.group = g, !.marked = ToDeliver(g)] \in Owing
    BY IdleType DEF Owing, Request, GroupIdOrNone, ToDeliver, Members, StoredOrders
  <2>2. QED BY <1>0, <1>b, <1>8, <2>1 DEF MarkDeliveredOrders
<1>9. ASSUME NEW w \in Requests, NEW c \in Customers, DeleteCustomer(w, c)
      PROVE  WellTyped'
  <2>1. DeletedOrder \in OrderRow
    BY DEF DeletedOrder, UnbornOrder, OrderRow, Rows, Statuses, GroupIdOrNone
  <2>2. QED BY <1>0, <1>9, <2>1 DEF DeleteCustomer
<1>10. ASSUME NEW w \in Requests, UpdateOrderSave(w)
       PROVE  WellTyped'
  <2> DEFINE o == req[w].order
             written == IF req[w].next = NoGroup THEN orders[o].group ELSE req[w].next
  <2>1. /\ o \in Orders /\ orders[o].group \in GroupIdOrNone
        /\ written \in GroupIdOrNone /\ req[w].group \in GroupIdOrNone
    BY <1>0, <1>c, <1>10 DEF UpdateOrderSave, StoredOrders, OrderRow, Request
  <2>2. req' = [req EXCEPT ![w] = Recalculate(req[w].group, written)]
    BY <1>10 DEF UpdateOrderSave, RecalculateAffected
  <2>3. PICK c \in customers, s \in Statuses, a \in Amounts :
          orders' = [orders EXCEPT ![o] =
            [row |-> "stored", customer |-> c, group |-> written,
             type |-> IF req[w].next = NoGroup THEN "INDIVIDUAL" ELSE "GROUP_MEMBER",
             status |-> s, amount |-> a]]
    BY <1>10 DEF UpdateOrderSave
  <2>4. disturbed' \in SUBSET Groups
    BY <1>0, <1>10, <2>1 DEF UpdateOrderSave, Unanswered, GroupIdOrNone
  <2>5. UNCHANGED <<groups, customers>>
    BY <1>10 DEF UpdateOrderSave
  <2> HIDE DEF o, written
  <2>6. req' \in [Requests -> Owing]
    BY <1>b, <2>1, <2>2, RecalculateOwes
  <2>7. orders' \in [Orders -> OrderRow]
    BY <1>0, <2>1, <2>3 DEF OrderRow, Rows
  <2>8. QED BY <1>0, <2>4, <2>5, <2>6, <2>7
<1>11. ASSUME NEW w \in Requests, DeleteOrderCommit(w)
       PROVE  WellTyped'
  <2>1. req' \in [Requests -> Owing]
    BY <1>11, <1>b, <1>c, RecalculateOwes DEF DeleteOrderCommit, Request, GroupIdOrNone
  <2>2. DeletedOrder \in OrderRow
    BY DEF DeletedOrder, UnbornOrder, OrderRow, Rows, Statuses, GroupIdOrNone
  <2>3. disturbed' \in SUBSET Groups
    BY <1>0, <1>c, <1>11 DEF DeleteOrderCommit, Unanswered, OrderRow, GroupIdOrNone, StoredOrders
  <2>4. QED BY <1>0, <1>11, <2>1, <2>2, <2>3 DEF DeleteOrderCommit
<1>12. ASSUME NEW w \in Requests, DeleteGroupOrderCommit(w)
       PROVE  WellTyped'
  <2>1. DeletedGroup \in GroupRow
    BY SumsAreTotals DEF DeletedGroup, UnbornGroup, GroupRow, Rows
  <2>2. \A o \in Orders : [orders[o] EXCEPT !.group = NoGroup] \in OrderRow
    BY <1>0 DEF OrderRow, GroupIdOrNone
  <2>3. QED BY <1>0, <1>b, <1>12, <2>1, <2>2, IdleType DEF DeleteGroupOrderCommit
<1>13. ASSUME NEW w \in Requests, MarkDeliveredCommit(w)
       PROVE  WellTyped'
  <2>1. \A g \in Groups : [groups[g] EXCEPT !.status = "DELIVERED"] \in GroupRow
    BY <1>0 DEF GroupRow
  <2>2. \A o \in Orders : [orders[o] EXCEPT !.status = "DELIVERED"] \in OrderRow
    BY <1>0 DEF OrderRow, Statuses
  <2>3. QED BY <1>0, <1>b, <1>13, <2>1, <2>2, IdleType DEF MarkDeliveredCommit
<1>14. ASSUME NEW w \in Requests, RecalculateRead(w)
       PROVE  WellTyped'
  <2>1. GroupTotals(LiveLines(req[w].group)) \in Totals
    BY LinesAreLines, SumsAreTotals
  <2>2. [req[w] EXCEPT !.pc = "write", !.snap = GroupTotals(LiveLines(req[w].group))] \in Owing
    BY <1>c, <1>14, <2>1 DEF RecalculateRead, Owing, Request
  <2>3. req' = [req EXCEPT ![w] = [req[w] EXCEPT !.pc = "write",
                                                 !.snap = GroupTotals(LiveLines(req[w].group))]]
    BY <1>0, <1>14 DEF RecalculateRead
  <2>4. req' \in [Requests -> Owing]
    BY <1>b, <2>2, <2>3
  <2>5. disturbed' \in SUBSET Groups
    BY <1>0, <1>c, <1>14 DEF RecalculateRead, Owing
  <2>6. QED BY <1>0, <1>14, <2>4, <2>5 DEF RecalculateRead
<1>15. ASSUME NEW w \in Requests, RecalculateWrite(w)
       PROVE  WellTyped'
  <2>1. req' \in [Requests -> Owing]
    BY <1>b, <1>c, <1>15, RecalculateOwes DEF RecalculateWrite, Request, GroupIdOrNone
  <2>2. \A g \in Groups : [groups[g] EXCEPT !.totals = req[w].snap] \in GroupRow
    BY <1>0, <1>c DEF GroupRow, Request
  <2>3. QED BY <1>0, <1>15, <2>1, <2>2 DEF RecalculateWrite
<1>16. ASSUME NEW w \in Requests, Abort(w)
       PROVE  WellTyped'
  <2>1. disturbed' \in SUBSET Groups
    BY <1>0, <1>c, <1>16 DEF Abort, Request, GroupIdOrNone
  <2>2. QED BY <1>0, <1>b, <1>16, <2>1, IdleType DEF Abort
<1>17. QED
  BY <1>1, <1>2, <1>3, <1>4, <1>5, <1>6, <1>7, <1>8, <1>9, <1>10, <1>11, <1>12, <1>13,
     <1>14, <1>15, <1>16
  DEF Next, Begin, WaitForRows, RunOn, Fail

\* Every table and every request keeps to its columns' types.
THEOREM TypeCorrect == Spec => []TypeOK
<1>1. Init => TypeOK
  BY InitType
<1>2. TypeOK /\ [Next]_vars => TypeOK'
  BY NextType
<1>3. QED BY <1>1, <1>2, PTL DEF Spec

----------------------------------------------------------------------------
(* The orders markDelivered holds. *)

\* A request other than the marking one cannot touch a marked row, and what the
\* marking request wrote there is undone or committed in one step.
LEMMA InitMarked == Init => MarkedRowsHeld
  BY DEF Init, MarkedRowsHeld, Idle

LEMMA NextMarked == TypeOK /\ MarkedRowsHeld /\ [Next]_vars => MarkedRowsHeld'
<1> SUFFICES ASSUME TypeOK, MarkedRowsHeld, [Next]_vars PROVE MarkedRowsHeld'
  OBVIOUS
<1>0. WellTyped
  BY TypeByTable
<1>a. ASSUME NEW v \in Requests, req[v].pc = "marked"
      PROVE  req[v].marked \subseteq Locked
  BY <1>a DEF Locked
<1>b. \A v \in Requests : req[v].marked \subseteq Orders
  BY <1>0 DEF WellTyped, Owing, Request
\* A step that leaves marked orders as they are and starts no marking.
<1>c. ASSUME NEW w \in Requests, NEW r, req' = [req EXCEPT ![w] = r], r.pc # "marked",
             \A o \in Locked \cap Orders :
               /\ orders'[o].row = orders[o].row /\ orders'[o].group = orders[o].group
               /\ orders[o].status # "CANCELLED" => orders'[o].status # "CANCELLED"
      PROVE  MarkedRowsHeld'
  <2> SUFFICES ASSUME NEW v \in Requests, req'[v].pc = "marked", NEW o \in req'[v].marked
               PROVE  /\ o \in Orders /\ orders'[o].row = "stored"
                      /\ orders'[o].group = req'[v].group
                      /\ orders'[o].status # "CANCELLED"
    BY DEF MarkedRowsHeld, Members, StoredOrders
  <2>1. v # w /\ req'[v] = req[v]
    BY <1>0, <1>c DEF WellTyped
  <2>2. o \in Members(req[v].group) /\ orders[o].status # "CANCELLED"
    BY <2>1 DEF MarkedRowsHeld
  <2>3. o \in Locked \cap Orders
    BY <1>a, <1>b, <2>1
  <2>4. /\ orders'[o].row = orders[o].row /\ orders'[o].group = orders[o].group
        /\ orders'[o].status # "CANCELLED"
    BY <1>c, <2>2, <2>3
  <2>5. QED BY <2>1, <2>2, <2>3, <2>4 DEF Members, StoredOrders
<1>e. Idle.pc # "marked"
  BY DEF Idle
<1>d. \A w \in Requests : req = [req EXCEPT ![w] = req[w]]
  BY <1>0 DEF WellTyped
<1>1. CASE UNCHANGED vars
  BY <1>1 DEF vars, MarkedRowsHeld, Members, StoredOrders
<1>2. ASSUME NEW w \in Requests, NEW o \in Orders, NEW c \in Customers,
             NEW g \in GroupIdOrNone, CreateOrder(w, o, c, g)
      PROVE  MarkedRowsHeld'
  <2>1. o \notin Locked
    BY <1>2 DEF CreateOrder, Locked, MarkedRowsHeld, Members, StoredOrders
  <2>2. Recalculate(g, NoGroup).pc # "marked"
    BY RecalculateOwes DEF GroupIdOrNone
  <2>3. \A p \in Locked \cap Orders : orders'[p] = orders[p]
    BY <1>0, <1>2, <2>1 DEF CreateOrder, WellTyped
  <2>4. QED BY <1>2, <1>c, <2>2, <2>3 DEF CreateOrder
<1>3. ASSUME NEW w \in Requests, NEW o \in Orders, NEW g \in GroupIdOrNone,
             UpdateOrderRead(w, o, g)
      PROVE  MarkedRowsHeld'
  <2>1. [Idle EXCEPT !.pc = "save", !.order = o, !.group = orders[o].group,
                     !.next = g].pc # "marked"
    BY DEF Idle
  <2>2. QED BY <1>3, <1>c, <2>1 DEF UpdateOrderRead
<1>4. ASSUME NEW w \in Requests, NEW o \in Orders, DeleteOrderRead(w, o)
      PROVE  MarkedRowsHeld'
  <2>1. [Idle EXCEPT !.pc = "remove", !.order = o, !.group = orders[o].group].pc # "marked"
    BY DEF Idle
  <2>2. QED BY <1>4, <1>c, <2>1 DEF DeleteOrderRead
<1>5. ASSUME NEW w \in Requests, NEW g \in Groups, CreateGroupOrder(w, g)
      PROVE  MarkedRowsHeld'
  BY <1>5 DEF CreateGroupOrder, MarkedRowsHeld, Members, StoredOrders
<1>6. ASSUME NEW w \in Requests, NEW g \in Groups, UpdateGroupOrder(w, g)
      PROVE  MarkedRowsHeld'
  BY <1>6, <1>c, RecalculateOwes DEF UpdateGroupOrder, GroupIdOrNone
<1>7. ASSUME NEW w \in Requests, NEW g \in Groups, DeleteGroupOrderRead(w, g)
      PROVE  MarkedRowsHeld'
  <2>1. [Idle EXCEPT !.pc = "groupRemove", !.group = g].pc # "marked"
    BY DEF Idle
  <2>2. QED BY <1>7, <1>c, <2>1 DEF DeleteGroupOrderRead
<1>8. ASSUME NEW w \in Requests, NEW g \in Groups, MarkDeliveredOrders(w, g)
      PROVE  MarkedRowsHeld'
  <2> SUFFICES ASSUME NEW v \in Requests, req'[v].pc = "marked", NEW o \in req'[v].marked
               PROVE  /\ o \in Orders /\ orders'[o].row = "stored"
                      /\ orders'[o].group = req'[v].group
                      /\ orders'[o].status # "CANCELLED"
    BY DEF MarkedRowsHeld, Members, StoredOrders
  <2>1. CASE v = w
    BY <1>0, <1>8, <2>1
    DEF MarkDeliveredOrders, WellTyped, Idle, ToDeliver, Members, StoredOrders
  <2>2. CASE v # w
    BY <1>0, <1>8, <2>2
    DEF MarkDeliveredOrders, WellTyped, MarkedRowsHeld, Members, StoredOrders
  <2>3. QED BY <2>1, <2>2
<1>9. ASSUME NEW w \in Requests, NEW c \in Customers, DeleteCustomer(w, c)
      PROVE  MarkedRowsHeld'
  <2>1. \A p \in Locked \cap Orders : orders'[p] = orders[p]
    BY <1>9 DEF DeleteCustomer
  <2>2. req' = [req EXCEPT ![w] = req[w]] /\ req[w].pc # "marked"
    BY <1>9, <1>d DEF DeleteCustomer
  <2>3. QED BY <1>c, <2>1, <2>2
<1>10. ASSUME NEW w \in Requests, UpdateOrderSave(w)
       PROVE  MarkedRowsHeld'
  <2> DEFINE written == IF req[w].next = NoGroup THEN orders[req[w].order].group
                                                 ELSE req[w].next
  <2>1. \A p \in Locked \cap Orders : orders'[p] = orders[p]
    BY <1>0, <1>10 DEF UpdateOrderSave, WellTyped
  <2>2. req' = [req EXCEPT ![w] = Recalculate(req[w].group, written)]
    BY <1>10 DEF UpdateOrderSave, RecalculateAffected
  <2>3. written \in GroupIdOrNone /\ req[w].group \in GroupIdOrNone
    BY <1>0, <1>10 DEF UpdateOrderSave, StoredOrders, WellTyped, OrderRow, Owing, Request
  <2>4. Recalculate(req[w].group, written).pc # "marked"
    BY <2>3, RecalculateOwes
  <2>5. QED BY <1>c, <2>1, <2>2, <2>4
<1>11. ASSUME NEW w \in Requests, DeleteOrderCommit(w)
       PROVE  MarkedRowsHeld'
  <2>1. \A p \in Locked \cap Orders : orders'[p] = orders[p]
    BY <1>0, <1>11 DEF DeleteOrderCommit, WellTyped
  <2>2. Recalculate(req[w].group, NoGroup).pc # "marked"
    BY <1>0, RecalculateOwes DEF WellTyped, Owing, Request, GroupIdOrNone
  <2>3. QED BY <1>11, <1>c, <2>1, <2>2 DEF DeleteOrderCommit
<1>12. ASSUME NEW w \in Requests, DeleteGroupOrderCommit(w)
       PROVE  MarkedRowsHeld'
  <2>1. \A p \in Locked \cap Orders : orders'[p] = orders[p]
    BY <1>12 DEF DeleteGroupOrderCommit
  <2>2. QED BY <1>12, <1>c, <1>e, <2>1 DEF DeleteGroupOrderCommit
<1>13. ASSUME NEW w \in Requests, MarkDeliveredCommit(w)
       PROVE  MarkedRowsHeld'
  <2>1. \A o \in Orders :
          /\ orders'[o].row = orders[o].row /\ orders'[o].group = orders[o].group
          /\ orders[o].status # "CANCELLED" => orders'[o].status # "CANCELLED"
    BY <1>0, <1>13 DEF MarkDeliveredCommit, WellTyped, OrderRow
  <2>2. QED BY <1>13, <1>c, <1>e, <2>1 DEF MarkDeliveredCommit
<1>14. ASSUME NEW w \in Requests, RecalculateRead(w)
       PROVE  MarkedRowsHeld'
  <2> DEFINE r == [req[w] EXCEPT !.pc = "write", !.snap = GroupTotals(LiveLines(req[w].group))]
  <2>1. req' = [req EXCEPT ![w] = r]
    BY <1>0, <1>14 DEF RecalculateRead, WellTyped
  <2>2. r.pc # "marked"
    BY <1>0 DEF WellTyped, Owing, Request
  <2>3. QED BY <1>14, <1>c, <2>1, <2>2 DEF RecalculateRead
<1>15. ASSUME NEW w \in Requests, RecalculateWrite(w)
       PROVE  MarkedRowsHeld'
  <2>1. Recalculate(req[w].next, NoGroup).pc # "marked"
    BY <1>0, RecalculateOwes DEF WellTyped, Owing, Request, GroupIdOrNone
  <2>2. QED BY <1>15, <1>c, <2>1 DEF RecalculateWrite
<1>16. ASSUME NEW w \in Requests, Abort(w)
       PROVE  MarkedRowsHeld'
  BY <1>16, <1>c, <1>e DEF Abort
<1>17. QED
  BY <1>1, <1>2, <1>3, <1>4, <1>5, <1>6, <1>7, <1>8, <1>9, <1>10, <1>11, <1>12, <1>13,
     <1>14, <1>15, <1>16
  DEF Next, Begin, WaitForRows, RunOn, Fail

\* While markDelivered's transaction is open the orders it updated stay in the
\* group and are not cancelled: no other request changes a row it holds.
THEOREM MarkedRowsAlwaysHeld == Spec => []MarkedRowsHeld
<1>1. Init => TypeOK /\ MarkedRowsHeld
  BY InitType, InitMarked
<1>2. TypeOK /\ MarkedRowsHeld /\ [Next]_vars => TypeOK' /\ MarkedRowsHeld'
  BY NextType, NextMarked
<1>3. QED BY <1>1, <1>2, PTL DEF Spec

----------------------------------------------------------------------------
(* The totals.  TotalsExact is not inductive: between the commit of a handler *)
(* and the write of its recalculation the totals are behind.  TotalsAnswered  *)
(* says who will bring them up to date; it needs that orders and requests     *)
(* name only groups that exist or existed, and that a group starts at zero.   *)

Known(g) == g = NoGroup \/ (g \in Groups /\ groups[g].row # "unborn")

LinksStored   == \A o \in StoredOrders : orders[o].group \in Linkable
RequestsKnown == \A w \in Requests : Known(req[w].group) /\ Known(req[w].next)
UnbornEmpty   == \A g \in Groups : groups[g].row = "unborn" => groups[g].totals = EmptyTotals

TotalsInv == /\ TypeOK /\ MarkedRowsHeld
             /\ LinksStored /\ RequestsKnown /\ UnbornEmpty /\ TotalsAnswered

\* The lines of a group depend only on which orders are live in it and their amounts.
LEMMA SameLines ==
  ASSUME NEW g,
         \A o \in Orders :
           /\ (o \in LiveMembers(g)) <=> (o \in LiveMembers(g))'
           /\ o \in LiveMembers(g) => orders'[o].amount = orders[o].amount
  PROVE  LiveLines(g)' = LiveLines(g)
<1>1. LiveMembers(g) \subseteq Orders /\ LiveMembers(g)' \subseteq Orders
  BY DEF LiveMembers, Members, StoredOrders
<1>2. LiveMembers(g)' = LiveMembers(g)
  BY <1>1
<1>3. QED BY <1>1, <1>2 DEF LiveLines

\* An order that is untouched, or in g neither before nor after, does not matter to g.
LEMMA OtherOrders ==
  ASSUME NEW g,
         \A o \in Orders :
           \/ orders'[o] = orders[o]
           \/ o \notin Members(g) /\ ~(orders'[o].row = "stored" /\ orders'[o].group = g)
  PROVE  LiveLines(g)' = LiveLines(g)
<1>1. ASSUME NEW o \in Orders
      PROVE  /\ (o \in LiveMembers(g)) <=> (o \in LiveMembers(g))'
             /\ o \in LiveMembers(g) => orders'[o].amount = orders[o].amount
  BY DEF LiveMembers, Members, StoredOrders
<1>2. QED BY <1>1, SameLines

\* What one request does when it neither had to do with g nor will.
LEMMA StillAnswered ==
  ASSUME TypeOK, NEW w \in Requests, NEW g \in Groups, NEW r,
         req' = [req EXCEPT ![w] = r],
         ~OwesRead(w, g), w \notin OpenOn(g), ~(r.pc = "write" /\ r.group = g),
         LiveLines(g)' = LiveLines(g), groups'[g].totals = groups[g].totals,
         Answered(g)
  PROVE  Answered(g)'
<1>1. req \in [Requests -> Owing]
  BY TypeByTable DEF WellTyped
<1>2. /\ \A v \in Requests \ {w} : req'[v] = req[v]
      /\ req'[w] = r
  BY <1>1
<1>3. OpenOn(g)' = OpenOn(g)
  BY <1>2 DEF OpenOn
<1>4. \A v \in Requests : OwesRead(v, g) => OwesRead(v, g)'
  BY <1>2 DEF OwesRead
<1>5. \A v \in OpenOn(g) : req'[v] = req[v]
  BY <1>2 DEF OpenOn
<1>6. CASE \E v \in Requests : OwesRead(v, g)
  BY <1>3, <1>4, <1>6 DEF Answered
<1>7. CASE \E v \in OpenOn(g) : req[v].snap = GroupTotals(LiveLines(g))
  <2>1. PICK v \in OpenOn(g) : req[v].snap = GroupTotals(LiveLines(g))
    BY <1>7
  <2>2. v \in OpenOn(g)' /\ req'[v].snap = GroupTotals(LiveLines(g)')
    BY <1>3, <1>5, <2>1
  <2>3. QED BY <1>3, <2>2 DEF Answered
<1>8. CASE OpenOn(g) = {} /\ groups[g].totals = GroupTotals(LiveLines(g))
  BY <1>3, <1>8 DEF Answered
<1>9. QED BY <1>6, <1>7, <1>8 DEF Answered

\* A request that comes to owe a read of g answers for whatever it did to g.
LEMMA NewlyAnswered ==
  ASSUME TypeOK, NEW w \in Requests, NEW g \in Groups, NEW r,
         req' = [req EXCEPT ![w] = r],
         r.pc = "read", g \in {r.group, r.next},
         \A u, v \in OpenOn(g) : u = v
  PROVE  Answered(g)'
<1>1. req \in [Requests -> Owing]
  BY TypeByTable DEF WellTyped
<1>2. /\ \A v \in Requests \ {w} : req'[v] = req[v]
      /\ req'[w] = r
  BY <1>1
<1>3. OpenOn(g)' \subseteq OpenOn(g)
  BY <1>2 DEF OpenOn
<1>4. OwesRead(w, g)'
  BY <1>2 DEF OwesRead
<1>5. QED BY <1>3, <1>4 DEF Answered

\* Ids are never reused: a group that was stored stays known.
LEMMA NextKnown ==
  TypeOK /\ LinksStored /\ RequestsKnown /\ [Next]_vars => \A g : Known(g) => Known(g)'
<1> SUFFICES ASSUME TypeOK, [Next]_vars, NEW g \in Groups, groups[g].row # "unborn"
             PROVE  groups'[g].row # "unborn"
  BY DEF Known
<1>0. groups \in [Groups -> GroupRow]
  BY TypeByTable DEF WellTyped
<1>1. CASE UNCHANGED vars
  BY <1>1 DEF vars
<1>2. ASSUME NEW w \in Requests, NEW h \in Groups, CreateGroupOrder(w, h)
      PROVE  groups'[g].row # "unborn"
  BY <1>0, <1>2 DEF CreateGroupOrder
<1>3. ASSUME NEW w \in Requests, NEW h \in Groups, UpdateGroupOrder(w, h)
      PROVE  groups'[g].row # "unborn"
  BY <1>0, <1>3 DEF UpdateGroupOrder, GroupRow
<1>4. ASSUME NEW w \in Requests, DeleteGroupOrderCommit(w)
      PROVE  groups'[g].row # "unborn"
  BY <1>0, <1>4 DEF DeleteGroupOrderCommit, DeletedGroup, UnbornGroup
<1>5. ASSUME NEW w \in Requests, MarkDeliveredCommit(w)
      PROVE  groups'[g].row # "unborn"
  BY <1>0, <1>5 DEF MarkDeliveredCommit, GroupRow
<1>6. ASSUME NEW w \in Requests, RecalculateWrite(w)
      PROVE  groups'[g].row # "unborn"
  BY <1>0, <1>6 DEF RecalculateWrite, GroupRow
<1>7. QED
  BY <1>1, <1>2, <1>3, <1>4, <1>5, <1>6
  DEF Next, Begin, WaitForRows, RunOn, Fail, CreateOrder, UpdateOrderRead, DeleteOrderRead,
      DeleteGroupOrderRead, MarkDeliveredOrders, DeleteCustomer, UpdateOrderSave,
      DeleteOrderCommit, RecalculateRead, Abort

LEMMA NextUnborn == TypeOK /\ UnbornEmpty /\ [Next]_vars => UnbornEmpty'
<1> SUFFICES ASSUME TypeOK, UnbornEmpty, [Next]_vars, NEW g \in Groups,
                    groups'[g].row = "unborn"
             PROVE  groups'[g].totals = EmptyTotals
  BY DEF UnbornEmpty
<1>0. groups \in [Groups -> GroupRow]
  BY TypeByTable DEF WellTyped
<1>1. CASE UNCHANGED vars
  BY <1>1 DEF vars, UnbornEmpty
<1>2. ASSUME NEW w \in Requests, NEW h \in Groups, CreateGroupOrder(w, h)
      PROVE  groups'[g].totals = EmptyTotals
  BY <1>0, <1>2 DEF CreateGroupOrder, GroupRow, UnbornEmpty
<1>3. ASSUME NEW w \in Requests, NEW h \in Groups, UpdateGroupOrder(w, h)
      PROVE  groups'[g].totals = EmptyTotals
  BY <1>0, <1>3 DEF UpdateGroupOrder, GroupRow, UnbornEmpty
<1>4. ASSUME NEW w \in Requests, DeleteGroupOrderCommit(w)
      PROVE  groups'[g].totals = EmptyTotals
  BY <1>0, <1>4 DEF DeleteGroupOrderCommit, DeletedGroup, UnbornGroup, UnbornEmpty
<1>5. ASSUME NEW w \in Requests, MarkDeliveredCommit(w)
      PROVE  groups'[g].totals = EmptyTotals
  BY <1>0, <1>5 DEF MarkDeliveredCommit, GroupRow, UnbornEmpty
<1>6. ASSUME NEW w \in Requests, RecalculateWrite(w)
      PROVE  groups'[g].totals = EmptyTotals
  BY <1>0, <1>6 DEF RecalculateWrite, GroupRow, StoredGroups, UnbornEmpty
<1>7. QED
  BY <1>1, <1>2, <1>3, <1>4, <1>5, <1>6
  DEF Next, Begin, WaitForRows, RunOn, Fail, CreateOrder, UpdateOrderRead, DeleteOrderRead,
      DeleteGroupOrderRead, MarkDeliveredOrders, DeleteCustomer, UpdateOrderSave,
      DeleteOrderCommit, RecalculateRead, Abort, UnbornEmpty

\* The foreign key from orders to group_orders.
LEMMA NextLinks ==
  TypeOK /\ LinksStored /\ [Next]_vars => LinksStored'
<1> SUFFICES ASSUME TypeOK, LinksStored, [Next]_vars, NEW o \in Orders,
                    orders'[o].row = "stored", orders'[o].group # NoGroup
             PROVE  orders'[o].group \in Groups /\ groups'[orders'[o].group].row = "stored"
  BY DEF LinksStored, StoredOrders, Linkable, StoredGroups
<1>0. WellTyped
  BY TypeByTable
<1>a. ASSUME groups' = groups, orders'[o].group = orders[o].group, orders[o].row = "stored"
      PROVE  orders'[o].group \in Groups /\ groups'[orders'[o].group].row = "stored"
  BY <1>a DEF LinksStored, StoredOrders, Linkable, StoredGroups
<1>b. ASSUME orders' = orders,
             \A g \in Groups : groups[g].row = "stored" => groups'[g].row = "stored"
      PROVE  orders'[o].group \in Groups /\ groups'[orders'[o].group].row = "stored"
  BY <1>b DEF LinksStored, StoredOrders, Linkable, StoredGroups
<1> DEFINE Goal == orders'[o].group \in Groups /\ groups'[orders'[o].group].row = "stored"
<1>1. CASE UNCHANGED vars
  BY <1>1, <1>b DEF vars
<1>2. ASSUME NEW w \in Requests, NEW p \in Orders, NEW c \in Customers,
             NEW g \in GroupIdOrNone, CreateOrder(w, p, c, g)
      PROVE  Goal
  BY <1>0, <1>2, <1>a DEF CreateOrder, WellTyped, Linkable, StoredGroups
<1>3. ASSUME NEW w \in Requests, NEW g \in Groups, CreateGroupOrder(w, g)
      PROVE  Goal
  BY <1>0, <1>3, <1>b DEF CreateGroupOrder, WellTyped
<1>4. ASSUME NEW w \in Requests, NEW g \in Groups, UpdateGroupOrder(w, g)
      PROVE  Goal
  BY <1>0, <1>4, <1>b DEF UpdateGroupOrder, WellTyped, GroupRow
<1>5. ASSUME NEW w \in Requests, NEW c \in Customers, DeleteCustomer(w, c)
      PROVE  Goal
  BY <1>5, <1>a DEF DeleteCustomer, DeletedOrder, UnbornOrder, StoredOrders
<1>6. ASSUME NEW w \in Requests, UpdateOrderSave(w)
      PROVE  Goal
  BY <1>0, <1>6, <1>a DEF UpdateOrderSave, WellTyped, Linkable, StoredGroups
<1>7. ASSUME NEW w \in Requests, DeleteOrderCommit(w)
      PROVE  Goal
  BY <1>0, <1>7, <1>a DEF DeleteOrderCommit, WellTyped, DeletedOrder, UnbornOrder
<1>8. ASSUME NEW w \in Requests, DeleteGroupOrderCommit(w)
      PROVE  Goal
  <2>1. o \notin Members(req[w].group) /\ orders'[o] = orders[o]
    BY <1>0, <1>8 DEF DeleteGroupOrderCommit, WellTyped, OrderRow
  <2>2. orders[o].group # req[w].group /\ orders[o].row = "stored"
    BY <2>1 DEF Members, StoredOrders
  <2>3. QED BY <1>0, <1>8, <2>1, <2>2
        DEF DeleteGroupOrderCommit, WellTyped, LinksStored, StoredOrders, Linkable, StoredGroups
<1>9. ASSUME NEW w \in Requests, MarkDeliveredCommit(w)
      PROVE  Goal
  <2>1. orders'[o].group = orders[o].group /\ orders'[o].row = orders[o].row
    BY <1>0, <1>9 DEF MarkDeliveredCommit, WellTyped, OrderRow
  <2>2. \A g \in Groups : groups'[g].row = groups[g].row
    BY <1>0, <1>9 DEF MarkDeliveredCommit, WellTyped, GroupRow
  <2>3. QED BY <2>1, <2>2 DEF LinksStored, StoredOrders, Linkable, StoredGroups
<1>10. ASSUME NEW w \in Requests, RecalculateWrite(w)
       PROVE  Goal
  BY <1>0, <1>10, <1>b DEF RecalculateWrite, WellTyped, GroupRow
<1>11. QED
  BY <1>1, <1>2, <1>3, <1>4, <1>5, <1>6, <1>7, <1>8, <1>9, <1>10, <1>b
  DEF Next, Begin, WaitForRows, RunOn, Fail, UpdateOrderRead, DeleteOrderRead,
      DeleteGroupOrderRead, MarkDeliveredOrders, RecalculateRead, Abort

\* A request only ever holds ids it has read or that passed a foreign key.
LEMMA NextRequests ==
  TypeOK /\ LinksStored /\ RequestsKnown /\ [Next]_vars => RequestsKnown'
<1> SUFFICES ASSUME TypeOK, LinksStored, RequestsKnown, [Next]_vars PROVE RequestsKnown'
  OBVIOUS
<1>0. WellTyped
  BY TypeByTable
<1>k. \A g : Known(g) => Known(g)'
  BY NextKnown
<1>a. ASSUME NEW w \in Requests, NEW r, req' = [req EXCEPT ![w] = r],
             Known(r.group), Known(r.next)
      PROVE  RequestsKnown'
  <2> SUFFICES ASSUME NEW v \in Requests
               PROVE  Known(req[v].group)' /\ Known(req[v].next)'
    BY DEF RequestsKnown
  <2>1. /\ Known(r.group)' /\ Known(r.next)'
        /\ v # w => Known(req[v].group) /\ Known(req[v].next)
    BY <1>k, <1>a DEF RequestsKnown
  <2>2. req'[v] = IF v = w THEN r ELSE req[v]
    BY <1>0, <1>a DEF WellTyped
  <2>3. \A g : Known(g)' <=> (g = NoGroup \/ (g \in Groups /\ groups'[g].row # "unborn"))
    BY DEF Known
  <2>4. \A g : Known(g) => (g = NoGroup \/ (g \in Groups /\ groups'[g].row # "unborn"))
    BY <1>k, <2>3
  <2>5. QED BY <1>a, <2>1, <2>2, <2>4 DEF Known
<1>b. ASSUME req' = req PROVE RequestsKnown'
  <2>1. \A g : Known(g) => (g = NoGroup \/ (g \in Groups /\ groups'[g].row # "unborn"))
    BY <1>k DEF Known
  <2>2. QED BY <1>b, <2>1 DEF RequestsKnown, Known
<1>c. \A g \in Linkable : Known(g)
  BY DEF Linkable, StoredGroups, Known
<1>d. Known(Idle.group) /\ Known(Idle.next) /\ Known(NoGroup)
  BY DEF Idle, Known
<1>e. ASSUME NEW w \in Requests, NEW first \in GroupIdOrNone, NEW second \in GroupIdOrNone,
             req' = [req EXCEPT ![w] = Recalculate(first, second)],
             Known(first), Known(second)
      PROVE  RequestsKnown'
  <2>1. Known(Recalculate(first, second).group) /\ Known(Recalculate(first, second).next)
    BY <1>d, <1>e, RecalculateOwes
  <2>2. QED BY <1>a, <1>e, <2>1
<1>f. \A w \in Requests : /\ Known(req[w].group) /\ Known(req[w].next)
                          /\ req[w].group \in GroupIdOrNone /\ req[w].next \in GroupIdOrNone
  BY <1>0 DEF RequestsKnown, WellTyped, Owing, Request
<1>g. NoGroup \in GroupIdOrNone
  BY DEF GroupIdOrNone
<1>h. \A o \in StoredOrders : Known(orders[o].group)
  BY <1>c DEF LinksStored
<1>1. CASE UNCHANGED vars
  BY <1>1, <1>b DEF vars
<1>2. ASSUME NEW w \in Requests, NEW o \in Orders, NEW c \in Customers,
             NEW g \in GroupIdOrNone, CreateOrder(w, o, c, g)
      PROVE  RequestsKnown'
  BY <1>2, <1>c, <1>d, <1>e, <1>g DEF CreateOrder
<1>3. ASSUME NEW w \in Requests, NEW o \in Orders, NEW g \in GroupIdOrNone,
             UpdateOrderRead(w, o, g)
      PROVE  RequestsKnown'
  <2>1. Known(orders[o].group) /\ Known(g)
    BY <1>3, <1>c, <1>h DEF UpdateOrderRead
  <2> DEFINE r == [Idle EXCEPT !.pc = "save", !.order = o, !.group = orders[o].group,
                               !.next = g]
  <2>2. r.group = orders[o].group /\ r.next = g
    BY DEF Idle
  <2>3. req' = [req EXCEPT ![w] = r]
    BY <1>3 DEF UpdateOrderRead
  <2> HIDE DEF r
  <2>4. QED BY <1>a, <2>1, <2>2, <2>3
<1>4. ASSUME NEW w \in Requests, NEW o \in Orders, DeleteOrderRead(w, o)
      PROVE  RequestsKnown'
  <2> DEFINE r == [Idle EXCEPT !.pc = "remove", !.order = o, !.group = orders[o].group]
  <2>1. Known(orders[o].group)
    BY <1>4, <1>h DEF DeleteOrderRead
  <2>2. r.group = orders[o].group /\ r.next = NoGroup
    BY DEF Idle
  <2>3. req' = [req EXCEPT ![w] = r]
    BY <1>4 DEF DeleteOrderRead
  <2> HIDE DEF r
  <2>4. QED BY <1>a, <1>d, <2>1, <2>2, <2>3
<1>5. ASSUME NEW w \in Requests, NEW g \in Groups, UpdateGroupOrder(w, g)
      PROVE  RequestsKnown'
  BY <1>5, <1>c, <1>d, <1>e, <1>g DEF UpdateGroupOrder, Linkable, GroupIdOrNone
<1>6. ASSUME NEW w \in Requests, NEW g \in Groups, DeleteGroupOrderRead(w, g)
      PROVE  RequestsKnown'
  <2> DEFINE r == [Idle EXCEPT !.pc = "groupRemove", !.group = g]
  <2>1. Known(g)
    BY <1>6, <1>c DEF DeleteGroupOrderRead, Linkable
  <2>2. r.group = g /\ r.next = NoGroup
    BY DEF Idle
  <2>3. req' = [req EXCEPT ![w] = r]
    BY <1>6 DEF DeleteGroupOrderRead
  <2> HIDE DEF r
  <2>4. QED BY <1>a, <1>d, <2>1, <2>2, <2>3
<1>7. ASSUME NEW w \in Requests, NEW g \in Groups, MarkDeliveredOrders(w, g)
      PROVE  RequestsKnown'
  <2> DEFINE r == [Idle EXCEPT !.pc = "marked", !.group = g, !.marked = ToDeliver(g)]
  <2>1. Known(g)
    BY <1>7, <1>c DEF MarkDeliveredOrders, Linkable
  <2>2. r.group = g /\ r.next = NoGroup
    BY DEF Idle
  <2>3. req' = [req EXCEPT ![w] = r]
    BY <1>7 DEF MarkDeliveredOrders
  <2> HIDE DEF r
  <2>4. QED BY <1>a, <1>d, <2>1, <2>2, <2>3
<1>8. ASSUME NEW w \in Requests, UpdateOrderSave(w)
      PROVE  RequestsKnown'
  <2> DEFINE written == IF req[w].next = NoGroup THEN orders[req[w].order].group
                                                 ELSE req[w].next
  <2>1. written \in Linkable
    BY <1>8 DEF UpdateOrderSave
  <2>2. Known(written) /\ written \in GroupIdOrNone
    BY <1>c, <2>1 DEF Linkable, StoredGroups, GroupIdOrNone
  <2>3. req' = [req EXCEPT ![w] = Recalculate(req[w].group, written)]
    BY <1>8 DEF UpdateOrderSave, RecalculateAffected
  <2> HIDE DEF written
  <2>4. QED BY <1>e, <1>f, <2>2, <2>3
<1>9. ASSUME NEW w \in Requests, DeleteOrderCommit(w)
      PROVE  RequestsKnown'
  BY <1>9, <1>d, <1>e, <1>f, <1>g DEF DeleteOrderCommit
<1>10. ASSUME NEW w \in Requests, DeleteGroupOrderCommit(w) \/ MarkDeliveredCommit(w) \/ Abort(w)
       PROVE  RequestsKnown'
  BY <1>10, <1>a, <1>d DEF DeleteGroupOrderCommit, MarkDeliveredCommit, Abort
<1>11. ASSUME NEW w \in Requests, RecalculateRead(w)
       PROVE  RequestsKnown'
  <2> DEFINE r == [req[w] EXCEPT !.pc = "write", !.snap = GroupTotals(LiveLines(req[w].group))]
  <2>1. req' = [req EXCEPT ![w] = r]
    BY <1>0, <1>11 DEF RecalculateRead, WellTyped
  <2>2. r.group = req[w].group /\ r.next = req[w].next
    BY <1>0 DEF WellTyped, Owing, Request
  <2> HIDE DEF r
  <2>3. QED BY <1>a, <1>f, <2>1, <2>2
<1>12. ASSUME NEW w \in Requests, RecalculateWrite(w)
       PROVE  RequestsKnown'
  BY <1>12, <1>d, <1>e, <1>f, <1>g DEF RecalculateWrite
<1>13. QED
  BY <1>1, <1>2, <1>3, <1>4, <1>5, <1>6, <1>7, <1>8, <1>9, <1>10, <1>11, <1>12, <1>b
  DEF Next, Begin, WaitForRows, RunOn, Fail, CreateGroupOrder, DeleteCustomer

\* Every step keeps the totals of every undisturbed group answered for.
LEMMA NextAnswered == TotalsInv /\ [Next]_vars => TotalsAnswered'
<1> SUFFICES ASSUME TotalsInv, [Next]_vars, NEW g \in Groups,
                    groups'[g].row = "stored", g \notin disturbed'
             PROVE  Answered(g)'
  BY DEF TotalsAnswered, StoredGroups
<1> USE DEF TotalsInv
<1>0. WellTyped
  BY TypeByTable
<1>t. \A w \in Requests :
        /\ req[w] \in Owing /\ req[w].group \in GroupIdOrNone /\ req[w].next \in GroupIdOrNone
        /\ req[w].order \in Orders => orders[req[w].order].group \in GroupIdOrNone
  BY <1>0 DEF WellTyped, Owing, Request, OrderRow
<1>n. NoGroup \in GroupIdOrNone /\ g # NoGroup
  BY DEF GroupIdOrNone
\* A group that was stored and undisturbed before the step.
<1>a. groups[g].row = "stored" /\ g \notin disturbed => Answered(g)
  BY DEF TotalsAnswered, StoredGroups
<1>b. Answered(g) => \A u, v \in OpenOn(g) : u = v
  BY DEF Answered
\* The request is elsewhere before and after, and g's orders and totals are untouched.
<1>c. ASSUME NEW w \in Requests, NEW r, req' = [req EXCEPT ![w] = r],
             req[w].pc \notin {"read", "write"}, r.pc # "write",
             groups[g].row = "stored", g \notin disturbed,
             LiveLines(g)' = LiveLines(g), groups'[g].totals = groups[g].totals
      PROVE  Answered(g)'
  <2>1. ~OwesRead(w, g) /\ w \notin OpenOn(g)
    BY <1>c DEF OwesRead, OpenOn
  <2>2. QED BY <1>a, <1>c, <2>1, StillAnswered
<1>d. ASSUME orders' = orders PROVE LiveLines(g)' = LiveLines(g)
  BY <1>d, OtherOrders
\* The request has just committed and owes g a recalculation.
<1>e. ASSUME NEW w \in Requests, NEW first \in GroupIdOrNone, NEW second \in GroupIdOrNone,
             req' = [req EXCEPT ![w] = Recalculate(first, second)],
             g \in {first, second}, groups[g].row = "stored", g \notin disturbed
      PROVE  Answered(g)'
  <2>1. /\ Recalculate(first, second).pc = "read"
        /\ g \in {Recalculate(first, second).group, Recalculate(first, second).next}
    BY <1>e, <1>n, RecalculateOwes
  <2>2. QED BY <1>a, <1>b, <1>e, <2>1, NewlyAnswered
<1>i. Idle.pc = "idle"
  BY DEF Idle
<1>r. \A first, second \in GroupIdOrNone : Recalculate(first, second).pc \in {"idle", "read"}
  BY RecalculateOwes
<1>1. CASE UNCHANGED vars
  BY <1>1, <1>a
  DEF vars, Answered, OpenOn, OwesRead, LiveLines, LiveMembers, Members, StoredOrders
<1>2. ASSUME NEW w \in Requests, NEW o \in Orders, NEW c \in Customers,
             NEW h \in GroupIdOrNone, CreateOrder(w, o, c, h)
      PROVE  Answered(g)'
  <2>1. groups' = groups /\ disturbed' = disturbed
        /\ req' = [req EXCEPT ![w] = Recalculate(h, NoGroup)] /\ req[w].pc = "idle"
    BY <1>2 DEF CreateOrder
  <2>2. CASE h = g
    BY <1>e, <1>n, <2>1, <2>2
  <2>3. CASE h # g
    <3>1. \A p \in Orders :
            \/ orders'[p] = orders[p]
            \/ p \notin Members(g) /\ ~(orders'[p].row = "stored" /\ orders'[p].group = g)
      BY <1>0, <1>2, <2>3 DEF CreateOrder, WellTyped, Members, StoredOrders
    <3>2. QED BY <1>c, <1>n, <1>r, <2>1, <3>1, OtherOrders
  <2>4. QED BY <2>2, <2>3
<1>3. ASSUME NEW w \in Requests, NEW o \in Orders, NEW h \in GroupIdOrNone,
             UpdateOrderRead(w, o, h)
      PROVE  Answered(g)'
  <2> DEFINE r == [Idle EXCEPT !.pc = "save", !.order = o, !.group = orders[o].group,
                               !.next = h]
  <2>1. r.pc = "save"
    BY DEF Idle
  <2>2. req' = [req EXCEPT ![w] = r]
    BY <1>3 DEF UpdateOrderRead
  <2> HIDE DEF r
  <2>3. QED BY <1>3, <1>c, <1>d, <2>1, <2>2 DEF UpdateOrderRead
<1>4. ASSUME NEW w \in Requests, NEW o \in Orders, DeleteOrderRead(w, o)
      PROVE  Answered(g)'
  <2> DEFINE r == [Idle EXCEPT !.pc = "remove", !.order = o, !.group = orders[o].group]
  <2>1. r.pc = "remove"
    BY DEF Idle
  <2>2. req' = [req EXCEPT ![w] = r]
    BY <1>4 DEF DeleteOrderRead
  <2> HIDE DEF r
  <2>3. QED BY <1>4, <1>c, <1>d, <2>1, <2>2 DEF DeleteOrderRead
<1>5. ASSUME NEW w \in Requests, NEW h \in Groups, CreateGroupOrder(w, h)
      PROVE  Answered(g)'
  <2>1. orders' = orders /\ req' = req /\ disturbed' = disturbed
    BY <1>5 DEF CreateGroupOrder
  <2>2. CASE h = g
    <3>1. groups[g].row = "unborn" /\ groups'[g].totals = groups[g].totals
      BY <1>0, <1>5, <2>2 DEF CreateGroupOrder, WellTyped, GroupRow
    <3>2. groups'[g].totals = EmptyTotals
      BY <3>1 DEF UnbornEmpty
    <3>3. LiveLines(g) = {}
      BY <1>n, <3>1
      DEF LinksStored, Linkable, StoredGroups, LiveLines, LiveMembers, Members
    <3>4. OpenOn(g) = {}
      BY <1>n, <3>1 DEF OpenOn, RequestsKnown, Known
    <3>5. OpenOn(g)' = {} /\ LiveLines(g)' = {}
      BY <1>d, <2>1, <3>3, <3>4 DEF OpenOn
    <3>6. QED BY <3>2, <3>5 DEF Answered, EmptyTotals
  <2>3. CASE h # g
    <3>1. groups'[g] = groups[g]
      BY <1>0, <1>5, <2>3 DEF CreateGroupOrder, WellTyped
    <3>2. Answered(g)
      BY <1>a, <2>1, <3>1
    <3>3. OpenOn(g)' = OpenOn(g) /\ LiveLines(g)' = LiveLines(g)
      BY <1>d, <2>1 DEF OpenOn
    <3>4. QED BY <2>1, <3>1, <3>2, <3>3 DEF Answered, OwesRead
  <2>4. QED BY <2>2, <2>3
<1>6. ASSUME NEW w \in Requests, NEW h \in Groups, UpdateGroupOrder(w, h)
      PROVE  Answered(g)'
  <2>1. req' = [req EXCEPT ![w] = Recalculate(h, NoGroup)] /\ req[w].pc = "idle"
        /\ orders' = orders /\ disturbed' = disturbed /\ h \in GroupIdOrNone
        /\ h \in StoredGroups
    BY <1>6 DEF UpdateGroupOrder, GroupIdOrNone
  <2>2. groups'[g].totals = groups[g].totals /\ groups[g].row = groups'[g].row
    BY <1>0, <1>6 DEF UpdateGroupOrder, WellTyped, GroupRow
  <2>3. CASE h = g
    BY <1>e, <1>n, <2>1, <2>2, <2>3
  <2>4. CASE h # g
    BY <1>c, <1>d, <1>n, <1>r, <2>1, <2>2
  <2>5. QED BY <2>3, <2>4
<1>7. ASSUME NEW w \in Requests, NEW h \in Groups, DeleteGroupOrderRead(w, h)
      PROVE  Answered(g)'
  <2> DEFINE r == [Idle EXCEPT !.pc = "groupRemove", !.group = h]
  <2>1. r.pc = "groupRemove"
    BY DEF Idle
  <2>2. req' = [req EXCEPT ![w] = r]
    BY <1>7 DEF DeleteGroupOrderRead
  <2> HIDE DEF r
  <2>3. QED BY <1>7, <1>c, <1>d, <2>1, <2>2 DEF DeleteGroupOrderRead
<1>8. ASSUME NEW w \in Requests, NEW h \in Groups, MarkDeliveredOrders(w, h)
      PROVE  Answered(g)'
  <2> DEFINE r == [Idle EXCEPT !.pc = "marked", !.group = h, !.marked = ToDeliver(h)]
  <2>1. r.pc = "marked"
    BY DEF Idle
  <2>2. req' = [req EXCEPT ![w] = r]
    BY <1>8 DEF MarkDeliveredOrders
  <2> HIDE DEF r
  <2>3. QED BY <1>8, <1>c, <1>d, <2>1, <2>2 DEF MarkDeliveredOrders
<1>9. ASSUME NEW w \in Requests, NEW c \in Customers, DeleteCustomer(w, c)
      PROVE  Answered(g)'
  <2>1. req' = [req EXCEPT ![w] = req[w]] /\ req[w].pc = "idle" /\ groups' = groups
        /\ g \notin disturbed
    BY <1>0, <1>9 DEF DeleteCustomer, WellTyped
  <2>2. \A p \in Orders :
          \/ orders'[p] = orders[p]
          \/ p \notin Members(g) /\ ~(orders'[p].row = "stored" /\ orders'[p].group = g)
    BY <1>9 DEF DeleteCustomer, DeletedOrder, UnbornOrder
  <2>3. QED BY <1>c, <2>1, <2>2, OtherOrders
<1>10. ASSUME NEW w \in Requests, UpdateOrderSave(w)
       PROVE  Answered(g)'
  <2> DEFINE o == req[w].order
             current == orders[o].group
             written == IF req[w].next = NoGroup THEN current ELSE req[w].next
  <2>1. /\ req[w].pc = "save" /\ o \in Orders /\ groups' = groups
        /\ req' = [req EXCEPT ![w] = Recalculate(req[w].group, written)]
        /\ g \notin disturbed
        /\ current = g => g \in {req[w].group, written}
    BY <1>10, <1>n DEF UpdateOrderSave, RecalculateAffected, StoredOrders, Unanswered
  <2>2. written \in GroupIdOrNone /\ req[w].group \in GroupIdOrNone
    BY <1>t, <2>1
  <2>3. CASE g \in {req[w].group, written}
    <3> HIDE DEF o, current, written
    <3>1. QED BY <1>e, <2>1, <2>2, <2>3
  <2>4. CASE g \notin {req[w].group, written}
    <3>1. \A p \in Orders \ {o} : orders'[p] = orders[p]
      BY <1>0, <1>10 DEF UpdateOrderSave, WellTyped
    <3>2. orders'[o].group = written
      BY <1>0, <1>10, <2>1 DEF UpdateOrderSave, WellTyped
    <3>3. o \notin Members(g) /\ orders'[o].group # g
      BY <2>1, <2>4, <3>2 DEF Members
    <3> HIDE DEF o, current, written
    <3>4. LiveLines(g)' = LiveLines(g)
      BY <3>1, <3>3, OtherOrders
    <3>5. QED BY <1>c, <1>r, <2>1, <2>2, <3>4
  <2>5. QED BY <2>3, <2>4
<1>11. ASSUME NEW w \in Requests, DeleteOrderCommit(w)
       PROVE  Answered(g)'
  <2>1. /\ req[w].pc = "remove" /\ req[w].order \in Orders /\ groups' = groups
        /\ req' = [req EXCEPT ![w] = Recalculate(req[w].group, NoGroup)]
        /\ g \notin disturbed
        /\ orders[req[w].order].group = g => g = req[w].group
    BY <1>11, <1>n DEF DeleteOrderCommit, StoredOrders, Unanswered
  <2>2. CASE g = req[w].group
    BY <1>e, <1>n, <1>t, <2>1, <2>2
  <2>3. CASE g # req[w].group
    <3>1. \A p \in Orders :
            \/ orders'[p] = orders[p]
            \/ p \notin Members(g) /\ ~(orders'[p].row = "stored" /\ orders'[p].group = g)
      BY <1>0, <1>11, <2>1, <2>3
      DEF DeleteOrderCommit, WellTyped, Members, DeletedOrder, UnbornOrder
    <3>2. QED BY <1>c, <1>n, <1>r, <1>t, <2>1, <3>1, OtherOrders
  <2>4. QED BY <2>2, <2>3
<1>12. ASSUME NEW w \in Requests, DeleteGroupOrderCommit(w)
       PROVE  Answered(g)'
  <2>1. g # req[w].group /\ groups'[g] = groups[g] /\ g \notin disturbed
    BY <1>0, <1>12
    DEF DeleteGroupOrderCommit, WellTyped, DeletedGroup, UnbornGroup
  <2>2. \A p \in Orders :
          \/ orders'[p] = orders[p]
          \/ p \notin Members(g) /\ ~(orders'[p].row = "stored" /\ orders'[p].group = g)
    BY <1>0, <1>12, <1>n, <2>1 DEF DeleteGroupOrderCommit, WellTyped, Members, OrderRow
  <2>3. QED BY <1>12, <1>c, <1>i, <2>1, <2>2, OtherOrders DEF DeleteGroupOrderCommit
<1>13. ASSUME NEW w \in Requests, MarkDeliveredCommit(w)
       PROVE  Answered(g)'
  <2>1. groups'[g].totals = groups[g].totals /\ groups[g].row = groups'[g].row
    BY <1>0, <1>13 DEF MarkDeliveredCommit, WellTyped, GroupRow
  <2>2. \A p \in req[w].marked : p \in Orders => orders[p].status # "CANCELLED"
    BY <1>13 DEF MarkDeliveredCommit, MarkedRowsHeld
  <2>3. ASSUME NEW p \in Orders
        PROVE  /\ (p \in LiveMembers(g)) <=> (p \in LiveMembers(g))'
               /\ p \in LiveMembers(g) => orders'[p].amount = orders[p].amount
    BY <1>0, <1>13, <2>2
    DEF MarkDeliveredCommit, WellTyped, OrderRow, LiveMembers, Members, StoredOrders
  <2>4. LiveLines(g)' = LiveLines(g)
    BY <2>3, SameLines
  <2>5. QED BY <1>13, <1>c, <1>i, <2>1, <2>4 DEF MarkDeliveredCommit
<1>14. ASSUME NEW w \in Requests, RecalculateRead(w)
       PROVE  Answered(g)'
  <2> DEFINE r == [req[w] EXCEPT !.pc = "write", !.snap = GroupTotals(LiveLines(req[w].group))]
  <2>1. /\ req[w].pc = "read" /\ req' = [req EXCEPT ![w] = r]
        /\ groups' = groups /\ orders' = orders
    BY <1>0, <1>14 DEF RecalculateRead, WellTyped
  <2>2. /\ r.pc = "write" /\ r.group = req[w].group /\ r.next = req[w].next
        /\ r.snap = GroupTotals(LiveLines(req[w].group))
    BY <1>0 DEF WellTyped, Owing, Request
  <2>3. \A v \in Requests : req'[v] = IF v = w THEN r ELSE req[v]
    BY <1>0, <2>1 DEF WellTyped
  <2>4. LiveLines(g)' = LiveLines(g)
    BY <1>d, <2>1
  <2> HIDE DEF r
  <2>5. CASE g = req[w].group
    <3>1. OpenOn(g) = {}
      BY <1>14, <2>5 DEF RecalculateRead
    <3>2. OpenOn(g)' = {w}
      BY <2>2, <2>3, <2>5, <3>1 DEF OpenOn
    <3>3. req'[w].snap = GroupTotals(LiveLines(g)')
      BY <2>2, <2>3, <2>4, <2>5
    <3>4. QED BY <3>2, <3>3 DEF Answered
  <2>6. CASE g # req[w].group
    <3>1. Answered(g)
      BY <1>14, <1>a, <2>1, <2>6 DEF RecalculateRead
    <3>2. CASE g = req[w].next
      <4>1. OwesRead(w, g)'
        BY <2>2, <2>3, <3>2 DEF OwesRead
      <4>2. OpenOn(g)' = OpenOn(g)
        BY <2>1, <2>2, <2>3, <2>6 DEF OpenOn
      <4>3. QED BY <1>b, <3>1, <4>1, <4>2 DEF Answered
    <3>3. CASE g # req[w].next
      <4>1. ~OwesRead(w, g) /\ w \notin OpenOn(g)
        BY <2>6, <3>3 DEF OwesRead, OpenOn
      <4>2. QED BY <2>1, <2>2, <2>4, <2>6, <3>1, <4>1, StillAnswered
    <3>4. QED BY <3>2, <3>3
  <2>7. QED BY <2>5, <2>6
<1>15. ASSUME NEW w \in Requests, RecalculateWrite(w)
       PROVE  Answered(g)'
  <2> DEFINE r == Recalculate(req[w].next, NoGroup)
  <2>1. /\ req[w].pc = "write" /\ req' = [req EXCEPT ![w] = r]
        /\ orders' = orders /\ disturbed' = disturbed
    BY <1>15 DEF RecalculateWrite
  <2>2. \A v \in Requests : req'[v] = IF v = w THEN r ELSE req[v]
    BY <1>0, <2>1 DEF WellTyped
  <2>3. LiveLines(g)' = LiveLines(g)
    BY <1>d, <2>1
  <2>4. groups[g].row = "stored"
    BY <1>0, <1>15 DEF RecalculateWrite, WellTyped, GroupRow
  <2>5. Answered(g)
    BY <1>a, <2>1, <2>4
  <2>6. CASE g = req[w].next
    BY <1>e, <1>n, <1>t, <2>1, <2>4, <2>6
  <2>7. CASE g # req[w].next /\ g # req[w].group
    <3>1. ~OwesRead(w, g) /\ w \notin OpenOn(g)
      BY <2>7 DEF OwesRead, OpenOn
    <3>2. r.pc # "write"
      BY <1>n, <1>r, <1>t
    <3>3. groups'[g].totals = groups[g].totals
      BY <1>0, <1>15, <2>7 DEF RecalculateWrite, WellTyped
    <3> HIDE DEF r
    <3>4. QED BY <2>1, <2>3, <2>5, <3>1, <3>2, <3>3, StillAnswered
  <2>8. CASE g # req[w].next /\ g = req[w].group
    <3>1. w \in OpenOn(g) /\ OpenOn(g) = {w}
      BY <1>b, <2>1, <2>5, <2>8 DEF OpenOn
    <3>2. r.pc # "write"
      BY <1>n, <1>r, <1>t
    <3> HIDE DEF r
    <3>3. OpenOn(g)' = {}
      BY <2>2, <3>1, <3>2 DEF OpenOn
    <3>4. groups'[g].totals = req[w].snap
      BY <1>0, <1>15, <2>8 DEF RecalculateWrite, WellTyped, GroupRow
    <3>5. CASE \E v \in Requests : OwesRead(v, g)
      <4>1. PICK v \in Requests : OwesRead(v, g)
        BY <3>5
      <4>2. v # w
        BY <2>1, <2>8, <4>1 DEF OwesRead
      <4>3. OwesRead(v, g)'
        BY <2>2, <4>1, <4>2 DEF OwesRead
      <4>4. QED BY <3>3, <4>3 DEF Answered
    <3>6. CASE req[w].snap = GroupTotals(LiveLines(g))
      BY <2>3, <3>3, <3>4, <3>6 DEF Answered
    <3>7. QED BY <2>5, <3>1, <3>5, <3>6 DEF Answered
  <2>9. QED BY <2>6, <2>7, <2>8
<1>16. ASSUME NEW w \in Requests, Abort(w)
       PROVE  Answered(g)'
  <2>1. /\ req' = [req EXCEPT ![w] = Idle] /\ orders' = orders /\ groups' = groups
        /\ g \notin disturbed
        /\ req[w].pc \in {"read", "write"} => g \notin {req[w].group, req[w].next}
    BY <1>16, <1>n DEF Abort
  <2>2. ~OwesRead(w, g) /\ w \notin OpenOn(g)
    BY <2>1 DEF OwesRead, OpenOn
  <2>3. Idle.pc # "write"
    BY <1>i
  <2>4. QED BY <1>a, <1>d, <2>1, <2>2, <2>3, StillAnswered
<1>17. QED
  BY <1>1, <1>2, <1>3, <1>4, <1>5, <1>6, <1>7, <1>8, <1>9, <1>10, <1>11, <1>12, <1>13,
     <1>14, <1>15, <1>16
  DEF Next, Begin, WaitForRows, RunOn, Fail

LEMMA InitTotals == Init => TotalsInv
<1> SUFFICES ASSUME Init PROVE TotalsInv
  OBVIOUS
<1>1. TypeOK /\ MarkedRowsHeld
  BY InitType, InitMarked
<1>2. LinksStored
  BY DEF Init, LinksStored, StoredOrders, UnbornOrder
<1>3. RequestsKnown
  BY DEF Init, RequestsKnown, Known, Idle
<1>4. UnbornEmpty
  BY DEF Init, UnbornEmpty, UnbornGroup
<1>5. TotalsAnswered
  BY DEF Init, TotalsAnswered, StoredGroups, UnbornGroup
<1>6. QED BY <1>1, <1>2, <1>3, <1>4, <1>5 DEF TotalsInv

LEMMA NextTotals == TotalsInv /\ [Next]_vars => TotalsInv'
  BY NextType, NextMarked, NextLinks, NextRequests, NextUnborn, NextAnswered
  DEF TotalsInv

\* The totals of an undisturbed group are always answered for.
THEOREM TotalsAlwaysAnswered == Spec => []TotalsAnswered
<1>1. Init => TotalsInv
  BY InitTotals
<1>2. TotalsInv /\ [Next]_vars => TotalsInv'
  BY NextTotals
<1>3. TotalsInv => TotalsAnswered
  BY DEF TotalsInv
<1>4. QED BY <1>1, <1>2, <1>3, PTL DEF Spec

\* A group order nobody disturbed shows exact totals whenever no recalculation of
\* it is under way: what orders.service.ts is after when it recalculates each
\* affected group.
THEOREM TotalsAlwaysExact == Spec => []TotalsExact
<1>1. TypeOK /\ TotalsAnswered => TotalsExact
  <2> SUFFICES ASSUME TypeOK, TotalsAnswered, NEW g \in StoredGroups \ disturbed, Settled(g)
               PROVE  groups[g].totals = GroupTotals(LiveLines(g))
    BY DEF TotalsExact
  <2>1. \A w \in Requests : ~OwesRead(w, g)
    BY DEF Settled, OwesRead
  <2>2. OpenOn(g) = {}
    BY DEF Settled, OpenOn
  <2>3. QED BY <2>1, <2>2 DEF TotalsAnswered, Answered
<1>2. QED BY <1>1, TypeCorrect, TotalsAlwaysAnswered, PTL

----------------------------------------------------------------------------
(* The ledger. *)

\* What makes an account due.
Due(g) == ~Settled(g) \/ g \in disturbed

\* A group order that was never created has not been disturbed.
DisturbedKnown == \A g \in disturbed : groups[g].row # "unborn"

LedgerInv == TotalsInv /\ TotalsExact /\ DisturbedKnown

LEMMA AccountsAre ==
  /\ \A g \in Groups :
       Accounts[g] =
         IF groups[g].row = "stored"
         THEN [row |-> "stored", right |-> GroupTotals(LiveLines(g)),
               shown |-> groups[g].totals, due |-> Due(g)]
         ELSE [row |-> groups[g].row, right |-> EmptyTotals, shown |-> EmptyTotals,
               due |-> FALSE]
  /\ \A g \in Groups :
       (Accounts[g])' =
         IF groups'[g].row = "stored"
         THEN [row |-> "stored", right |-> GroupTotals(LiveLines(g)'),
               shown |-> groups'[g].totals, due |-> Due(g)']
         ELSE [row |-> groups'[g].row, right |-> EmptyTotals, shown |-> EmptyTotals,
               due |-> FALSE]
  BY DEF Accounts, Due

\* A request that comes to owe a recalculation of g makes its account due.
LEMMA OwedIsDue ==
  ASSUME TypeOK, NEW g \in Groups, NEW w \in Requests,
         NEW first \in GroupIdOrNone, NEW second \in GroupIdOrNone,
         req' = [req EXCEPT ![w] = Recalculate(first, second)], g \in {first, second}
  PROVE  Due(g)'
<1>1. req \in [Requests -> Owing]
  BY TypeByTable DEF WellTyped
<1>2. req'[w] = Recalculate(first, second)
  BY <1>1
<1>3. /\ Recalculate(first, second).pc = "read"
      /\ g \in {Recalculate(first, second).group, Recalculate(first, second).next}
  BY RecalculateOwes
<1>4. QED BY <1>2, <1>3 DEF Due, Settled

\* The lines of a group change only in steps that leave its account due.
LEMMA ChangedIsDue ==
  ASSUME TypeOK, MarkedRowsHeld, [Next]_vars, NEW g \in Groups,
         groups'[g].row = "stored", ~Due(g)'
  PROVE  LiveLines(g)' = LiveLines(g)
<1>0. WellTyped
  BY TypeByTable
<1>t. \A w \in Requests : req[w].group \in GroupIdOrNone /\ req[w].next \in GroupIdOrNone
  BY <1>0 DEF WellTyped, Owing, Request
<1>n. NoGroup \in GroupIdOrNone /\ g # NoGroup
  BY DEF GroupIdOrNone
<1>u. g \notin disturbed'
  BY DEF Due
<1>d. ASSUME orders' = orders PROVE LiveLines(g)' = LiveLines(g)
  BY <1>d, OtherOrders
<1>1. CASE UNCHANGED vars
  BY <1>1, <1>d DEF vars
<1>2. ASSUME NEW w \in Requests, NEW o \in Orders, NEW c \in Customers,
             NEW h \in GroupIdOrNone, CreateOrder(w, o, c, h)
      PROVE  LiveLines(g)' = LiveLines(g)
  <2>1. h # g
    BY <1>2, <1>n, OwedIsDue DEF CreateOrder
  <2>2. \A p \in Orders :
          \/ orders'[p] = orders[p]
          \/ p \notin Members(g) /\ ~(orders'[p].row = "stored" /\ orders'[p].group = g)
    BY <1>0, <1>2, <2>1 DEF CreateOrder, WellTyped, Members, StoredOrders
  <2>3. QED BY <2>2, OtherOrders
<1>3. ASSUME NEW w \in Requests, NEW c \in Customers, DeleteCustomer(w, c)
      PROVE  LiveLines(g)' = LiveLines(g)
  <2>1. \A p \in Orders :
          \/ orders'[p] = orders[p]
          \/ p \notin Members(g) /\ ~(orders'[p].row = "stored" /\ orders'[p].group = g)
    BY <1>3, <1>u DEF DeleteCustomer, DeletedOrder, UnbornOrder
  <2>2. QED BY <2>1, OtherOrders
<1>4. ASSUME NEW w \in Requests, UpdateOrderSave(w)
      PROVE  LiveLines(g)' = LiveLines(g)
  <2> DEFINE o == req[w].order
             current == orders[o].group
             written == IF req[w].next = NoGroup THEN current ELSE req[w].next
  <2>1. /\ o \in Orders /\ written \in GroupIdOrNone
        /\ req' = [req EXCEPT ![w] = Recalculate(req[w].group, written)]
        /\ current = g => g \in {req[w].group, written}
    BY <1>4, <1>n, <1>u
    DEF UpdateOrderSave, RecalculateAffected, StoredOrders, Unanswered, Linkable,
        StoredGroups, GroupIdOrNone
  <2>2. \A p \in Orders \ {o} : orders'[p] = orders[p]
    BY <1>0, <1>4 DEF UpdateOrderSave, WellTyped
  <2>3. orders'[o].group = written
    BY <1>0, <1>4, <2>1 DEF UpdateOrderSave, WellTyped
  <2>4. current # g => o \notin Members(g)
    BY DEF Members
  <2> HIDE DEF o, current, written
  <2>5. g \notin {req[w].group, written}
    BY <1>t, <2>1, OwedIsDue
  <2>6. o \notin Members(g) /\ orders'[o].group # g
    BY <2>1, <2>3, <2>4, <2>5
  <2>7. QED BY <2>2, <2>6, OtherOrders
<1>5. ASSUME NEW w \in Requests, DeleteOrderCommit(w)
      PROVE  LiveLines(g)' = LiveLines(g)
  <2>1. /\ req[w].order \in Orders
        /\ req' = [req EXCEPT ![w] = Recalculate(req[w].group, NoGroup)]
        /\ orders[req[w].order].group = g => g = req[w].group
    BY <1>5, <1>n, <1>u DEF DeleteOrderCommit, StoredOrders, Unanswered
  <2>2. g # req[w].group
    BY <1>n, <1>t, <2>1, OwedIsDue
  <2>3. \A p \in Orders :
          \/ orders'[p] = orders[p]
          \/ p \notin Members(g) /\ ~(orders'[p].row = "stored" /\ orders'[p].group = g)
    BY <1>0, <1>5, <2>1, <2>2
    DEF DeleteOrderCommit, WellTyped, Members, DeletedOrder, UnbornOrder
  <2>4. QED BY <2>3, OtherOrders
<1>6. ASSUME NEW w \in Requests, DeleteGroupOrderCommit(w)
      PROVE  LiveLines(g)' = LiveLines(g)
  <2>1. g # req[w].group
    BY <1>0, <1>6 DEF DeleteGroupOrderCommit, WellTyped, DeletedGroup, UnbornGroup
  <2>2. \A p \in Orders :
          \/ orders'[p] = orders[p]
          \/ p \notin Members(g) /\ ~(orders'[p].row = "stored" /\ orders'[p].group = g)
    BY <1>0, <1>6, <1>n, <2>1 DEF DeleteGroupOrderCommit, WellTyped, Members, OrderRow
  <2>3. QED BY <2>2, OtherOrders
<1>7. ASSUME NEW w \in Requests, MarkDeliveredCommit(w)
      PROVE  LiveLines(g)' = LiveLines(g)
  <2>1. \A p \in req[w].marked : p \in Orders => orders[p].status # "CANCELLED"
    BY <1>7 DEF MarkDeliveredCommit, MarkedRowsHeld
  <2>2. ASSUME NEW p \in Orders
        PROVE  /\ (p \in LiveMembers(g)) <=> (p \in LiveMembers(g))'
               /\ p \in LiveMembers(g) => orders'[p].amount = orders[p].amount
    BY <1>0, <1>7, <2>1
    DEF MarkDeliveredCommit, WellTyped, OrderRow, LiveMembers, Members, StoredOrders
  <2>3. QED BY <2>2, SameLines
<1>8. QED
  BY <1>1, <1>2, <1>3, <1>4, <1>5, <1>6, <1>7, <1>d
  DEF Next, Begin, WaitForRows, RunOn, Fail, UpdateOrderRead, DeleteOrderRead,
      CreateGroupOrder, UpdateGroupOrder, DeleteGroupOrderRead, MarkDeliveredOrders,
      RecalculateRead, RecalculateWrite, Abort

\* What becomes of a group's row and of the totals in it: it is created without orders,
\* with nothing to recalculate; it is deleted; or it keeps its totals unless its account
\* is due.
LEMMA RowSteps ==
  ASSUME LedgerInv, [Next]_vars, NEW g \in Groups
  PROVE  \/ /\ groups'[g].row = groups[g].row
            /\ Due(g) \/ groups'[g].totals = groups[g].totals
         \/ /\ groups[g].row = "unborn" /\ groups'[g].row = "stored"
            /\ LiveLines(g)' = {} /\ groups'[g].totals = EmptyTotals /\ ~Due(g)'
         \/ groups[g].row = "stored" /\ groups'[g].row = "deleted"
<1> USE DEF LedgerInv, TotalsInv
<1>0. WellTyped
  BY TypeByTable
<1> DEFINE Kept == /\ groups'[g].row = groups[g].row
                   /\ Due(g) \/ groups'[g].totals = groups[g].totals
           Born == /\ groups[g].row = "unborn" /\ groups'[g].row = "stored"
                   /\ LiveLines(g)' = {} /\ groups'[g].totals = EmptyTotals /\ ~Due(g)'
           Gone == groups[g].row = "stored" /\ groups'[g].row = "deleted"
<1>2. ASSUME NEW w \in Requests, NEW h \in Groups, CreateGroupOrder(w, h)
      PROVE  Kept \/ Born
  <2>1. orders' = orders /\ req' = req /\ disturbed' = disturbed
    BY <1>2 DEF CreateGroupOrder
  <2>2. CASE h # g
    BY <1>0, <1>2, <2>2 DEF CreateGroupOrder, WellTyped
  <2>3. CASE h = g
    <3>1. /\ groups[g].row = "unborn" /\ groups'[g].row = "stored"
          /\ groups'[g].totals = groups[g].totals
      BY <1>0, <1>2, <2>3 DEF CreateGroupOrder, WellTyped, GroupRow
    <3>2. LiveLines(g) = {}
      BY <3>1 DEF LinksStored, Linkable, StoredGroups, LiveLines, LiveMembers, Members
    <3>3. LiveLines(g)' = LiveLines(g)
      BY <2>1, OtherOrders
    <3>4. g \notin disturbed /\ g # NoGroup
      BY <3>1 DEF DisturbedKnown
    <3>5. \A v \in Requests : g \notin {req[v].group, req[v].next}
      BY <3>1, <3>4 DEF RequestsKnown, Known
    <3>6. ~Due(g)'
      BY <2>1, <3>4, <3>5 DEF Due, Settled
    <3>7. QED BY <3>1, <3>2, <3>3, <3>6 DEF UnbornEmpty
  <2>4. QED BY <2>2, <2>3
<1>3. ASSUME NEW w \in Requests, NEW h \in Groups, UpdateGroupOrder(w, h)
      PROVE  Kept
  BY <1>0, <1>3 DEF UpdateGroupOrder, WellTyped, GroupRow
<1>4. ASSUME NEW w \in Requests, DeleteGroupOrderCommit(w)
      PROVE  Kept \/ Gone
  BY <1>0, <1>4
  DEF DeleteGroupOrderCommit, WellTyped, DeletedGroup, UnbornGroup, StoredGroups
<1>5. ASSUME NEW w \in Requests, MarkDeliveredCommit(w)
      PROVE  Kept
  BY <1>0, <1>5 DEF MarkDeliveredCommit, WellTyped, GroupRow
<1>6. ASSUME NEW w \in Requests, RecalculateWrite(w)
      PROVE  Kept
  <2>1. groups'[g].row = groups[g].row
    BY <1>0, <1>6 DEF RecalculateWrite, WellTyped, GroupRow
  <2>2. CASE req[w].group = g
    BY <1>6, <2>1, <2>2 DEF RecalculateWrite, Due, Settled
  <2>3. CASE req[w].group # g
    BY <1>0, <1>6, <2>1, <2>3 DEF RecalculateWrite, WellTyped
  <2>4. QED BY <2>2, <2>3
<1> HIDE DEF Kept, Born, Gone
<1>7. Kept \/ Born \/ Gone
  <2>1. CASE groups' = groups
    BY <2>1 DEF Kept
  <2>2. CASE groups' # groups
    BY <2>2, <1>2, <1>3, <1>4, <1>5, <1>6
    DEF vars, Next, Begin, WaitForRows, RunOn, Fail, CreateOrder, UpdateOrderRead,
        DeleteOrderRead, DeleteGroupOrderRead, MarkDeliveredOrders, DeleteCustomer,
        UpdateOrderSave, DeleteOrderCommit, RecalculateRead, Abort
  <2>3. QED BY <2>1, <2>2
<1>8. QED BY <1>7 DEF Kept, Born, Gone

LEMMA InitLedger == Init => LedgerInv /\ Ledger!Init
<1> SUFFICES ASSUME Init PROVE LedgerInv /\ Ledger!Init
  OBVIOUS
<1>1. TotalsInv
  BY InitTotals
<1>2. TotalsExact
  BY DEF Init, TotalsExact, StoredGroups, UnbornGroup
<1>3. DisturbedKnown
  BY DEF Init, DisturbedKnown
<1>4. \A g \in Groups : groups[g].row = "unborn"
  BY DEF Init, UnbornGroup
<1>5. Ledger!Init
  BY <1>4 DEF Ledger!Init, Ledger!Empty, Accounts
<1>6. QED BY <1>1, <1>2, <1>3, <1>5 DEF LedgerInv

LEMMA ExactWhenSettled == TypeOK /\ TotalsAnswered => TotalsExact
<1> SUFFICES ASSUME TypeOK, TotalsAnswered, NEW g \in StoredGroups \ disturbed, Settled(g)
             PROVE  groups[g].totals = GroupTotals(LiveLines(g))
  BY DEF TotalsExact
<1>1. \A w \in Requests : ~OwesRead(w, g)
  BY DEF Settled, OwesRead
<1>2. OpenOn(g) = {}
  BY DEF Settled, OpenOn
<1>3. QED BY <1>1, <1>2 DEF TotalsAnswered, Answered

\* Only groups that a request knows, or that have orders, are disturbed.
LEMMA NextDisturbed == TotalsInv /\ DisturbedKnown /\ [Next]_vars => DisturbedKnown'
<1> SUFFICES ASSUME TotalsInv, DisturbedKnown, [Next]_vars, NEW g \in disturbed'
             PROVE  groups'[g].row # "unborn"
  BY DEF DisturbedKnown
<1> USE DEF TotalsInv
<1>0. WellTyped
  BY TypeByTable
<1>k. Known(g) => Known(g)'
  BY NextKnown
<1>l. \A o \in StoredOrders : Known(orders[o].group)
  BY DEF LinksStored, Linkable, StoredGroups, Known
<1>m. \A w \in Requests : Known(req[w].group) /\ Known(req[w].next)
  BY DEF RequestsKnown
<1>s. g # NoGroup
  <2>1. TypeOK'
    BY NextType
  <2>2. QED BY <2>1 DEF TypeOK
<1>a. Known(g)
  <2>1. g \in disturbed => Known(g)
    BY <1>0 DEF DisturbedKnown, Known, WellTyped
  <2>2. CASE UNCHANGED disturbed
    BY <2>1, <2>2
  <2>3. ASSUME NEW w \in Requests, NEW c \in Customers, DeleteCustomer(w, c)
        PROVE  Known(g)
    BY <1>l, <2>1, <2>3 DEF DeleteCustomer, Members
  <2>4. ASSUME NEW w \in Requests, UpdateOrderSave(w)
        PROVE  Known(g)
    BY <1>l, <2>1, <2>4 DEF UpdateOrderSave, Unanswered
  <2>5. ASSUME NEW w \in Requests, DeleteOrderCommit(w)
        PROVE  Known(g)
    BY <1>l, <2>1, <2>5 DEF DeleteOrderCommit, Unanswered
  <2>6. ASSUME NEW w \in Requests, DeleteGroupOrderCommit(w)
        PROVE  Known(g)
    BY <2>1, <2>6 DEF DeleteGroupOrderCommit
  <2>7. ASSUME NEW w \in Requests, RecalculateRead(w)
        PROVE  Known(g)
    BY <1>m, <2>1, <2>7 DEF RecalculateRead
  <2>8. ASSUME NEW w \in Requests, Abort(w)
        PROVE  Known(g)
    BY <1>m, <2>1, <2>8 DEF Abort
  <2>9. QED
    BY <2>2, <2>3, <2>4, <2>5, <2>6, <2>7, <2>8
    DEF vars, Next, Begin, WaitForRows, RunOn, Fail, CreateOrder, UpdateOrderRead,
        DeleteOrderRead, CreateGroupOrder, UpdateGroupOrder, DeleteGroupOrderRead,
        MarkDeliveredOrders, MarkDeliveredCommit, RecalculateWrite
<1>b. QED BY <1>a, <1>k, <1>s DEF Known

LEMMA OpensOrCloses ==
  ASSUME NEW a, NEW b, NEW row,
         b = [row |-> row, right |-> EmptyTotals, shown |-> EmptyTotals, due |-> FALSE]
  PROVE  /\ a.row = "unborn" /\ row = "stored" => Ledger!Open(a, b)
         /\ a.row = "stored" /\ row = "deleted" => Ledger!Close(a, b)
  BY DEF Ledger!Open, Ledger!Close, Ledger!Empty

LEMMA AccountFields ==
  ASSUME NEW row \in Rows, NEW right \in Totals, NEW shown \in Totals, NEW due \in BOOLEAN
  PROVE  [row |-> row, right |-> right, shown |-> shown, due |-> due] \in Ledger!Account
  BY DEF Ledger!Account, Rows

LEMMA AccountType == (TypeOK => Accounts \in [Groups -> Ledger!Account])
                     /\ (TypeOK' => Accounts' \in [Groups -> Ledger!Account])
<1>1. ASSUME NEW g PROVE /\ TypeOK => LiveLines(g) \subseteq Line
                         /\ TypeOK' => LiveLines(g)' \subseteq Line
  BY DEF TypeOK, LiveLines, LiveMembers, Members, StoredOrders, Line
<1>2. ASSUME NEW g PROVE /\ TypeOK => GroupTotals(LiveLines(g)) \in Totals
                         /\ TypeOK' => GroupTotals(LiveLines(g)') \in Totals
  BY <1>1, SumsAreTotals
<1>3. \A g : Due(g) \in BOOLEAN /\ Due(g)' \in BOOLEAN
  BY DEF Due, Settled
<1>4. ASSUME TypeOK PROVE Accounts \in [Groups -> Ledger!Account]
  <2>1. ASSUME NEW g \in Groups PROVE Accounts[g] \in Ledger!Account
    <3>1. groups[g].row \in Rows /\ groups[g].totals \in Totals
      BY <1>4 DEF TypeOK
    <3>2. CASE groups[g].row = "stored"
      BY <1>2, <1>3, <1>4, <3>1, <3>2, AccountsAre, AccountFields
    <3>3. CASE groups[g].row # "stored"
      BY <3>1, <3>3, AccountsAre, AccountFields, SumsAreTotals
    <3>4. QED BY <3>2, <3>3
  <2>2. QED BY <2>1 DEF Accounts
<1>5. ASSUME TypeOK' PROVE Accounts' \in [Groups -> Ledger!Account]
  <2>1. ASSUME NEW g \in Groups PROVE (Accounts[g])' \in Ledger!Account
    <3>1. groups'[g].row \in Rows /\ groups'[g].totals \in Totals
      BY <1>5 DEF TypeOK
    <3>2. CASE groups'[g].row = "stored"
      BY <1>2, <1>3, <1>5, <3>1, <3>2, AccountsAre, AccountFields
    <3>3. CASE groups'[g].row # "stored"
      BY <3>1, <3>3, AccountsAre, AccountFields, SumsAreTotals
    <3>4. QED BY <3>2, <3>3
  <2>2. QED BY <2>1 DEF Accounts
<1>6. QED BY <1>4, <1>5

\* Every step of the handlers is a step of the ledger or leaves it as it is.
LEMMA NextLedger == LedgerInv /\ [Next]_vars => LedgerInv' /\ [Ledger!Next]_Accounts
<1> SUFFICES ASSUME LedgerInv, [Next]_vars PROVE LedgerInv' /\ Ledger!Next
  OBVIOUS
<1> USE DEF LedgerInv, TotalsInv
<1>1. TotalsInv'
  BY NextTotals
<1>2. TotalsExact'
  BY <1>1, ExactWhenSettled, PTL
<1>3. DisturbedKnown'
  BY NextDisturbed
<1>4. Accounts' \in [Groups -> Ledger!Account]
  BY <1>1, AccountType
<1>5. ASSUME NEW g \in Groups
      PROVE  LET a == Accounts[g]
                 b == Accounts'[g]
             IN a = b \/ Ledger!Open(a, b) \/ Ledger!Close(a, b) \/ Ledger!Change(a, b)
                \/ Ledger!Settle(a, b)
  <2> DEFINE a == Accounts[g]
             b == Accounts'[g]
  <2>1. CASE groups[g].row = "stored" /\ groups'[g].row = "stored"
    <3>1. /\ a = [row |-> "stored", right |-> GroupTotals(LiveLines(g)),
                  shown |-> groups[g].totals, due |-> Due(g)]
          /\ b = [row |-> "stored", right |-> GroupTotals(LiveLines(g)'),
                  shown |-> groups'[g].totals, due |-> Due(g)']
      BY <2>1, AccountsAre
    <3>2. Due(g) \/ groups'[g].totals = groups[g].totals
      BY <2>1, RowSteps
    <3>3. ~Due(g)' => LiveLines(g)' = LiveLines(g)
      BY <2>1, ChangedIsDue
    <3>4. ~Due(g)' => groups'[g].totals = GroupTotals(LiveLines(g)')
      BY <1>2, <2>1 DEF TotalsExact, Due, StoredGroups
    <3>5. CASE Due(g)'
      BY <3>1, <3>2, <3>5 DEF Ledger!Change
    <3>6. CASE ~Due(g)' /\ Due(g)
      BY <3>1, <3>3, <3>4, <3>6 DEF Ledger!Settle
    <3>7. CASE ~Due(g)' /\ ~Due(g)
      <4>1. Due(g) = FALSE /\ Due(g)' = FALSE
        BY <3>7 DEF Due, Settled
      <4>2. QED BY <3>1, <3>2, <3>3, <3>7, <4>1
    <3>8. QED BY <3>5, <3>6, <3>7
  <2>2. CASE groups[g].row # "stored" /\ groups'[g].row = groups[g].row
    BY <2>2, AccountsAre
  <2>3. CASE /\ groups[g].row = "unborn" /\ groups'[g].row = "stored"
             /\ LiveLines(g)' = {} /\ groups'[g].totals = EmptyTotals /\ ~Due(g)'
    <3> DEFINE before == [row |-> "unborn", right |-> EmptyTotals,
                          shown |-> EmptyTotals, due |-> FALSE]
    <3>a. a = before /\ before.row = "unborn"
      BY <2>3, AccountsAre
    <3>1. a.row = "unborn"
      BY <3>a
    <3>2. b = [row |-> "stored", right |-> EmptyTotals, shown |-> EmptyTotals, due |-> FALSE]
      <4>1. Due(g)' = FALSE
        BY <2>3 DEF Due, Settled
      <4>2. QED BY <2>3, <4>1, AccountsAre DEF EmptyTotals
    <3>3. Ledger!Open(a, b)
      BY <3>1, <3>2, OpensOrCloses
    <3>4. QED BY <3>3
  <2>4. CASE groups[g].row = "stored" /\ groups'[g].row = "deleted"
    <3> DEFINE before == [row |-> "stored", right |-> GroupTotals(LiveLines(g)),
                          shown |-> groups[g].totals, due |-> Due(g)]
    <3>a. a = before /\ before.row = "stored"
      BY <2>4, AccountsAre
    <3>1. a.row = "stored"
      BY <3>a
    <3>2. b = [row |-> "deleted", right |-> EmptyTotals, shown |-> EmptyTotals, due |-> FALSE]
      BY <2>4, AccountsAre
    <3>3. Ledger!Close(a, b)
      BY <3>1, <3>2, OpensOrCloses
    <3>4. QED BY <3>3
  <2>5. QED BY <2>1, <2>2, <2>3, <2>4, RowSteps
<1>6. QED BY <1>1, <1>2, <1>3, <1>4, <1>5 DEF Ledger!Next

\* The handlers keep the ledger of GroupLedger: an order changes only if its group's
\* account is due from then on, only recalculations of a due account change the totals
\* shown, and an account stops being due only with the right totals shown.
THEOREM LedgerAlwaysKept == Spec => KeepsLedger
<1>1. Init => LedgerInv /\ Ledger!Init
  BY InitLedger
<1>2. LedgerInv /\ [Next]_vars => LedgerInv' /\ [Ledger!Next]_Accounts
  BY NextLedger
<1>3. QED BY <1>1, <1>2, PTL DEF Spec, KeepsLedger, Ledger!Spec

\* Totals that are not due are right.
LedgerRight == \A g \in Groups : ~Accounts[g].due => Accounts[g].shown = Accounts[g].right

\* What the ledger is worth: whoever keeps it shows the right totals of every group whose
\* account is not due.  Of the handlers nothing is used but that they keep it.
THEOREM KeptLedgerIsRight == KeepsLedger => []LedgerRight
<1>1. Ledger!Init => LedgerRight
  BY DEF Ledger!Init, Ledger!Empty, LedgerRight
<1>2. LedgerRight /\ [Ledger!Next]_Accounts => LedgerRight'
  <2> SUFFICES ASSUME LedgerRight, [Ledger!Next]_Accounts, NEW g \in Groups,
                      ~Accounts'[g].due
               PROVE  Accounts'[g].shown = Accounts'[g].right
    BY DEF LedgerRight
  <2> DEFINE a == Accounts[g]
             b == Accounts'[g]
  <2>1. ~a.due => a.shown = a.right
    BY DEF LedgerRight
  <2>2. \/ a = b \/ Ledger!Open(a, b) \/ Ledger!Close(a, b) \/ Ledger!Change(a, b)
        \/ Ledger!Settle(a, b)
    BY DEF Ledger!Next
  <2> HIDE DEF a, b
  <2>3. QED
    BY <2>1, <2>2
    DEF a, b, Ledger!Open, Ledger!Close, Ledger!Change, Ledger!Settle, Ledger!Empty
<1>3. QED BY <1>1, <1>2, PTL DEF KeepsLedger, Ledger!Spec

----------------------------------------------------------------------------
(* What deleteGroupOrder and markDelivered read before they write.  Nothing *)
(* holds it there but that no other request runs in between: the three      *)
(* properties below are false of two requests, as long as both may be       *)
(* between two of their statements at once.                                 *)

\* Never are two requests in service between two of their statements.  A request of
\* one statement may still be served while another is.
OneAtATime ==
  \A v, w \in Requests : req[v].pc # "idle" /\ req[w].pc # "idle" => v = w

\* What deleteGroupOrder has counted is still so when it deletes, and markDelivered has
\* all of the group's orders to deliver in hand when it commits.
StillAsRead ==
  \A w \in Requests :
    /\ req[w].pc \in {"groupRemove", "marked"} => req[w].group # NoGroup
    /\ req[w].pc = "groupRemove" => ~InUse(req[w].group)
    /\ req[w].pc = "marked" => ToDeliver(req[w].group) \subseteq req[w].marked

AloneInv == TypeOK /\ LinksStored /\ StillAsRead

\* While another request stands between two statements, one that is answered at once
\* takes no order into a group.
LEMMA OneStatementSteps ==
  ASSUME TypeOK, OneAtATime, OneAtATime',
         NEW v \in Requests, req[v].pc # "idle",
         NEW w \in Requests, w # v, Begin(w)
  PROVE  /\ req'[v] = req[v] /\ req'[w].pc = "idle"
         /\ \A u \in Requests \ {w} : req'[u] = req[u]
         /\ \A o \in Orders : \/ orders'[o] = orders[o]
                              \/ orders'[o].row = "deleted"
                              \/ orders'[o].group = NoGroup
<1>0. WellTyped
  BY TypeByTable
<1>1. req[w].pc = "idle"
  BY DEF OneAtATime
<1>a. ASSUME NEW r, req' = [req EXCEPT ![w] = r]
      PROVE  r.pc = "idle" /\ req'[v] = req[v] /\ req'[w] = r
  <2>1. req'[w] = r /\ req'[v] = req[v]
    BY <1>0, <1>a DEF WellTyped
  <2>2. QED BY <2>1 DEF OneAtATime
<1>b. \A g \in Groups : Recalculate(g, NoGroup).pc # "idle"
  BY DEF Recalculate, Idle
<1>2. ASSUME NEW o \in Orders, NEW c \in Customers, NEW g \in GroupIdOrNone,
             CreateOrder(w, o, c, g)
      PROVE  \A p \in Orders : orders'[p] = orders[p] \/ orders'[p].group = NoGroup
  <2>1. g = NoGroup
    BY <1>2, <1>a, <1>b DEF CreateOrder, GroupIdOrNone
  <2>2. QED BY <1>0, <1>2, <2>1 DEF CreateOrder, WellTyped
<1>3. ASSUME NEW o \in Orders, NEW g \in GroupIdOrNone, UpdateOrderRead(w, o, g)
      PROVE  FALSE
  BY <1>3, <1>a DEF UpdateOrderRead, Idle
<1>4. ASSUME NEW o \in Orders, DeleteOrderRead(w, o)
      PROVE  FALSE
  BY <1>4, <1>a DEF DeleteOrderRead, Idle
<1>5. ASSUME NEW g \in Groups, UpdateGroupOrder(w, g)
      PROVE  FALSE
  BY <1>5, <1>a, <1>b DEF UpdateGroupOrder
<1>6. ASSUME NEW g \in Groups, DeleteGroupOrderRead(w, g)
      PROVE  FALSE
  BY <1>6, <1>a DEF DeleteGroupOrderRead, Idle
<1>7. ASSUME NEW g \in Groups, MarkDeliveredOrders(w, g)
      PROVE  FALSE
  BY <1>7, <1>a DEF MarkDeliveredOrders, Idle
<1>8. ASSUME NEW c \in Customers, DeleteCustomer(w, c)
      PROVE  \A p \in Orders : orders'[p] = orders[p] \/ orders'[p].row = "deleted"
  BY <1>0, <1>8 DEF DeleteCustomer, WellTyped, DeletedOrder, UnbornOrder
<1>9. \E r : req' = [req EXCEPT ![w] = r]
  <2>1. req = [req EXCEPT ![w] = req[w]]
    BY <1>0 DEF WellTyped
  <2>2. QED
    BY <2>1, <1>3, <1>4, <1>5, <1>6, <1>7 DEF Begin, CreateOrder, CreateGroupOrder, DeleteCustomer
<1>10. QED
  BY <1>0, <1>2, <1>3, <1>4, <1>5, <1>6, <1>7, <1>8, <1>9, <1>a
  DEF Begin, WellTyped, CreateGroupOrder

LEMMA NextStillAsRead ==
  ASSUME AloneInv, OneAtATime, OneAtATime', [Next]_vars
  PROVE  StillAsRead'
<1> DEFINE Kept(r, g) == /\ g # NoGroup
                         /\ r.pc = "groupRemove" => ~InUse(g)'
                         /\ r.pc = "marked" => ToDeliver(g)' \subseteq r.marked
<1> SUFFICES ASSUME NEW v \in Requests, NEW g, g = req'[v].group,
                    req'[v].pc \in {"groupRemove", "marked"}
             PROVE  Kept(req'[v], g)
  BY DEF StillAsRead, InUse, ToDeliver, Members, StoredOrders
<1> USE DEF AloneInv
<1>0. WellTyped
  BY TypeByTable
<1>a. ASSUME NEW w \in Requests, NEW r, req' = [req EXCEPT ![w] = r]
      PROVE  req'[w] = r
  BY <1>0, <1>a DEF WellTyped
\* Neither more orders in the group nor a change to those it has.
<1>b. ASSUME req'[v] = req[v],
             \A o \in Orders : \/ orders'[o] = orders[o]
                               \/ orders'[o].row = "deleted"
                               \/ orders'[o].group = NoGroup
      PROVE  Kept(req'[v], g)
  <2>1. /\ g # NoGroup
        /\ req[v].pc = "groupRemove" => ~InUse(g)
        /\ req[v].pc = "marked" => ToDeliver(g) \subseteq req[v].marked
    BY <1>b DEF StillAsRead
  <2>2. \A o \in Members(g)' : o \in Members(g) /\ orders'[o] = orders[o]
    BY <1>b, <2>1 DEF Members, StoredOrders
  <2>3. ~InUse(g) => ~InUse(g)'
    BY <2>2 DEF InUse
  <2>4. ToDeliver(g)' \subseteq ToDeliver(g)
    BY <2>2 DEF ToDeliver
  <2>5. QED BY <1>b, <2>1, <2>3, <2>4
<1>1. CASE UNCHANGED vars
  BY <1>1, <1>b DEF vars
<1>2. ASSUME NEW w \in Requests, w # v, Begin(w) \/ WaitForRows(w) \/ RunOn(w) \/ Abort(w)
      PROVE  Kept(req'[v], g)
  <2>1. CASE req[v].pc # "idle"
    <3>1. req[w].pc = "idle"
      BY <1>2, <2>1 DEF OneAtATime
    <3>2. Begin(w)
      BY <1>2, <3>1
      DEF WaitForRows, RunOn, Fail, Abort, UpdateOrderSave, DeleteOrderCommit,
          DeleteGroupOrderCommit, MarkDeliveredCommit, RecalculateRead, RecalculateWrite
    <3>3. QED BY <1>2, <2>1, <3>2, <1>b, OneStatementSteps
  <2>2. CASE req[v].pc = "idle"
    <3>1. req'[v] = req[v]
      BY <1>0, <1>2
      DEF Begin, WaitForRows, RunOn, Fail, Abort, CreateOrder, UpdateOrderRead, DeleteOrderRead,
          CreateGroupOrder, UpdateGroupOrder, DeleteGroupOrderRead, MarkDeliveredOrders,
          DeleteCustomer, UpdateOrderSave, DeleteOrderCommit, DeleteGroupOrderCommit,
          MarkDeliveredCommit, RecalculateRead, RecalculateWrite, WellTyped
    <3>2. QED BY <2>2, <3>1
  <2>3. QED BY <2>1, <2>2
<1>3. ASSUME NEW h \in Groups, DeleteGroupOrderRead(v, h)
      PROVE  Kept(req'[v], g)
  <2>1. req'[v] = [Idle EXCEPT !.pc = "groupRemove", !.group = h]
    BY <1>3, <1>a DEF DeleteGroupOrderRead
  <2>2. g = h /\ req'[v].pc = "groupRemove"
    BY <2>1 DEF Idle
  <2>3. QED BY <1>3, <2>2 DEF DeleteGroupOrderRead, InUse, Members, StoredOrders
<1>4. ASSUME NEW h \in Groups, MarkDeliveredOrders(v, h)
      PROVE  Kept(req'[v], g)
  <2>1. req'[v] = [Idle EXCEPT !.pc = "marked", !.group = h, !.marked = ToDeliver(h)]
    BY <1>4, <1>a DEF MarkDeliveredOrders
  <2>2. g = h /\ req'[v].pc = "marked" /\ req'[v].marked = ToDeliver(h)
    BY <2>1 DEF Idle
  <2>3. QED BY <1>4, <2>2 DEF MarkDeliveredOrders, ToDeliver, Members, StoredOrders
\* Any other step of v leaves it at neither place.
<1>5. ASSUME Begin(v) \/ WaitForRows(v) \/ RunOn(v) \/ Abort(v),
             \A h \in Groups : ~DeleteGroupOrderRead(v, h) /\ ~MarkDeliveredOrders(v, h)
      PROVE  req'[v].pc \notin {"groupRemove", "marked"}
  <2>1. \A first, second : Recalculate(first, second).pc \notin {"groupRemove", "marked"}
    BY DEF Recalculate, Idle
  <2>2. ASSUME NEW r, req' = [req EXCEPT ![v] = r], r.pc \notin {"groupRemove", "marked"}
        PROVE  req'[v].pc \notin {"groupRemove", "marked"}
    BY <1>a, <2>2
  <2>3. CASE Begin(v)
    BY <1>5, <2>1, <2>2, <2>3
    DEF Begin, CreateOrder, UpdateOrderRead, DeleteOrderRead, CreateGroupOrder,
        UpdateGroupOrder, DeleteCustomer, Idle
  <2>4. CASE WaitForRows(v)
    BY <2>1, <2>2, <2>4
    DEF WaitForRows, UpdateOrderSave, RecalculateAffected, DeleteOrderCommit,
        DeleteGroupOrderCommit, Idle
  <2>5. CASE MarkDeliveredCommit(v) \/ RecalculateWrite(v) \/ Abort(v)
    BY <2>1, <2>2, <2>5 DEF MarkDeliveredCommit, RecalculateWrite, Abort, Idle
  <2>6. CASE RecalculateRead(v)
    BY <1>0, <2>6 DEF RecalculateRead, WellTyped, Owing, Request
  <2>7. QED BY <1>5, <2>3, <2>4, <2>5, <2>6 DEF RunOn, Fail
<1>6. QED BY <1>1, <1>2, <1>3, <1>4, <1>5 DEF Next

LEMMA InitAlone == Init => AloneInv
<1> SUFFICES ASSUME Init PROVE AloneInv
  OBVIOUS
<1>1. TypeOK
  BY InitType
<1>2. QED BY <1>1 DEF Init, AloneInv, LinksStored, StillAsRead, StoredOrders, UnbornOrder, Idle

LEMMA NextAlone == AloneInv /\ OneAtATime /\ OneAtATime' /\ [Next]_vars => AloneInv'
  BY NextType, NextLinks, NextStillAsRead DEF AloneInv

\* A group order is stored until deleteGroupOrder deletes it.
LEMMA OnlyDeleteRemoves ==
  ASSUME TypeOK, [Next]_vars, NEW g \in StoredGroups, groups'[g].row # "stored"
  PROVE  \E w \in Requests : DeleteGroupOrderCommit(w) /\ g = req[w].group
<1>0. WellTyped
  BY TypeByTable
<1>g. g \in Groups /\ groups[g].row = "stored"
  BY DEF StoredGroups
<1>1. ASSUME NEW w \in Requests, NEW h \in Groups, CreateGroupOrder(w, h)
      PROVE  FALSE
  BY <1>0, <1>g, <1>1 DEF CreateGroupOrder, WellTyped
<1>2. ASSUME NEW w \in Requests, NEW h \in Groups, UpdateGroupOrder(w, h)
      PROVE  FALSE
  BY <1>0, <1>g, <1>2 DEF UpdateGroupOrder, WellTyped, GroupRow
<1>3. ASSUME NEW w \in Requests, MarkDeliveredCommit(w) \/ RecalculateWrite(w)
      PROVE  FALSE
  BY <1>0, <1>g, <1>3 DEF MarkDeliveredCommit, RecalculateWrite, WellTyped, GroupRow
<1>4. ASSUME NEW w \in Requests, DeleteGroupOrderCommit(w)
      PROVE  g = req[w].group
  BY <1>0, <1>g, <1>4 DEF DeleteGroupOrderCommit, WellTyped
<1>5. groups' # groups
  BY <1>g
<1>6. QED
  BY <1>1, <1>2, <1>3, <1>4, <1>5
  DEF vars, Next, Begin, WaitForRows, RunOn, Fail, CreateOrder, UpdateOrderRead,
      DeleteOrderRead, DeleteGroupOrderRead, MarkDeliveredOrders, DeleteCustomer,
      UpdateOrderSave, DeleteOrderCommit, RecalculateRead, Abort

\* A group order is removed only when it has neither orders nor payments, as long as no
\* two requests stand between two statements at once: deleteGroupOrder counts in one
\* statement and deletes in another.
THEOREM DeletesOnlyEmptyGroups == Spec /\ []OneAtATime => OnlyEmptyGroupsDeleted
<1>1. Init => AloneInv
  BY InitAlone
<1>2. AloneInv /\ OneAtATime /\ OneAtATime' /\ [Next]_vars => AloneInv'
  BY NextAlone
<1>3. AloneInv /\ [Next]_vars =>
        [\A g \in StoredGroups :
           groups'[g].row # "stored" => Members(g) = {} /\ g \notin PaidGroups]_vars
  <2> SUFFICES ASSUME AloneInv, [Next]_vars, NEW g \in StoredGroups, groups'[g].row # "stored"
               PROVE  Members(g) = {} /\ g \notin PaidGroups
    OBVIOUS
  <2>1. PICK w \in Requests : DeleteGroupOrderCommit(w) /\ g = req[w].group
    BY OnlyDeleteRemoves DEF AloneInv
  <2>2. QED BY <2>1 DEF AloneInv, StillAsRead, DeleteGroupOrderCommit, InUse
<1>4. QED BY <1>1, <1>2, <1>3, PTL DEF Spec, OnlyEmptyGroupsDeleted

\* When markDelivered commits, every order of the group is delivered or cancelled, as
\* long as no two requests stand between two statements at once: the transaction's rows
\* are locked, but an order may join the group while it is open.
THEOREM DeliversTogether == Spec /\ []OneAtATime => DeliveredTogether
<1>1. Init => AloneInv
  BY InitAlone
<1>2. AloneInv /\ OneAtATime /\ OneAtATime' /\ [Next]_vars => AloneInv'
  BY NextAlone
<1>3. ASSUME AloneInv, NEW w \in Requests, req[w].pc = "marked", MarkDeliveredCommit(w),
             NEW o \in Members(req[w].group)
      PROVE  orders'[o].status \in {"DELIVERED", "CANCELLED"}
  <2>1. WellTyped /\ o \in Orders
    BY <1>3, TypeByTable DEF AloneInv, Members, StoredOrders
  <2>2. CASE o \in req[w].marked
    BY <1>3, <2>1, <2>2 DEF MarkDeliveredCommit, WellTyped, OrderRow
  <2>3. CASE o \notin req[w].marked
    <3>1. orders[o].status = "CANCELLED"
      BY <1>3, <2>3 DEF AloneInv, StillAsRead, ToDeliver
    <3>2. QED BY <1>3, <2>1, <2>3, <3>1 DEF MarkDeliveredCommit
  <2>4. QED BY <2>2, <2>3
<1>4. AloneInv =>
        [\A w \in Requests : req[w].pc = "marked" /\ MarkDeliveredCommit(w) =>
           \A o \in Members(req[w].group) : orders'[o].status \in {"DELIVERED", "CANCELLED"}]_vars
  BY <1>3
<1>5. QED BY <1>1, <1>2, <1>4, PTL DEF Spec, DeliveredTogether

\* An order's mark and its group part only when a group with orders is deleted.
LEMMA NextMembers ==
  ASSUME TypeOK, GroupMembersHaveGroup, [Next]_vars,
         \A g \in StoredGroups : groups'[g].row # "stored" => Members(g) = {} /\ g \notin PaidGroups
  PROVE  GroupMembersHaveGroup'
<1> SUFFICES ASSUME NEW o \in Orders, orders'[o].row = "stored",
                    orders'[o].type = "GROUP_MEMBER"
             PROVE  orders'[o].group \in Groups /\ groups'[orders'[o].group].row = "stored"
  BY DEF GroupMembersHaveGroup, StoredOrders, StoredGroups
<1>0. WellTyped
  BY TypeByTable
<1> DEFINE Goal == orders'[o].group \in Groups /\ groups'[orders'[o].group].row = "stored"
<1>a. ASSUME orders'[o].group = orders[o].group, orders[o].type = "GROUP_MEMBER",
             orders[o].row = "stored"
      PROVE  Goal
  BY <1>a DEF GroupMembersHaveGroup, StoredOrders, StoredGroups, Members
<1>1. CASE orders' = orders
  BY <1>1, <1>a
<1>2. ASSUME NEW w \in Requests, NEW p \in Orders, NEW c \in Customers,
             NEW g \in GroupIdOrNone, CreateOrder(w, p, c, g)
      PROVE  Goal
  BY <1>0, <1>2, <1>a DEF CreateOrder, WellTyped, Linkable, StoredGroups
<1>3. ASSUME NEW w \in Requests, NEW c \in Customers, DeleteCustomer(w, c)
      PROVE  Goal
  BY <1>3, <1>a DEF DeleteCustomer, DeletedOrder, UnbornOrder
<1>4. ASSUME NEW w \in Requests, UpdateOrderSave(w)
      PROVE  Goal
  BY <1>0, <1>4, <1>a DEF UpdateOrderSave, WellTyped, Linkable, StoredGroups
<1>5. ASSUME NEW w \in Requests, DeleteOrderCommit(w)
      PROVE  Goal
  BY <1>0, <1>5, <1>a DEF DeleteOrderCommit, WellTyped, DeletedOrder, UnbornOrder
<1>6. ASSUME NEW w \in Requests, DeleteGroupOrderCommit(w)
      PROVE  Goal
  <2>1. groups'[req[w].group].row # "stored" /\ req[w].group \in StoredGroups
    BY <1>0, <1>6 DEF DeleteGroupOrderCommit, WellTyped, DeletedGroup, UnbornGroup, StoredGroups
  <2>2. orders' = orders
    BY <1>0, <1>6, <2>1 DEF DeleteGroupOrderCommit, WellTyped
  <2>3. QED BY <2>2, <1>1
<1>7. ASSUME NEW w \in Requests, MarkDeliveredCommit(w)
      PROVE  Goal
  BY <1>0, <1>7, <1>a DEF MarkDeliveredCommit, WellTyped, OrderRow
<1>8. QED
  BY <1>1, <1>2, <1>3, <1>4, <1>5, <1>6, <1>7
  DEF vars, Next, Begin, WaitForRows, RunOn, Fail, UpdateOrderRead, DeleteOrderRead,
      CreateGroupOrder, UpdateGroupOrder, DeleteGroupOrderRead, MarkDeliveredOrders,
      RecalculateRead, RecalculateWrite, Abort

\* Whatever the requests in service, an order stays marked GROUP_MEMBER without a group
\* only by the delete of a group that has orders: that race is the one way.
THEOREM MembersLoseGroupsByDeletes == Spec /\ OnlyEmptyGroupsDeleted => []GroupMembersHaveGroup
<1>1. Init => TypeOK /\ GroupMembersHaveGroup
  <2>1. Init => TypeOK
    BY InitType
  <2>2. QED BY <2>1 DEF Init, GroupMembersHaveGroup, StoredOrders, UnbornOrder
<1>2. TypeOK /\ GroupMembersHaveGroup /\ [Next]_vars
      /\ [\A g \in StoredGroups :
            groups'[g].row # "stored" => Members(g) = {} /\ g \notin PaidGroups]_vars
      => TypeOK' /\ GroupMembersHaveGroup'
  <2>1. ASSUME GroupMembersHaveGroup, UNCHANGED vars PROVE GroupMembersHaveGroup'
    BY <2>1 DEF vars, GroupMembersHaveGroup, StoredOrders, StoredGroups
  <2>2. QED BY <2>1, NextType, NextMembers
<1>3. QED BY <1>1, <1>2, PTL DEF Spec, OnlyEmptyGroupsDeleted

\* An order marked GROUP_MEMBER belongs to a stored group order, as long as no two
\* requests stand between two statements at once.
THEOREM MembersAlwaysHaveGroup == Spec /\ []OneAtATime => []GroupMembersHaveGroup
  BY DeletesOnlyEmptyGroups, MembersLoseGroupsByDeletes, PTL
=============================================================================
