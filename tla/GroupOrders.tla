---------------------------- MODULE GroupOrders ----------------------------
(***************************************************************************)
(* Orders, the group orders they belong to and the totals a group order    *)
(* stores about its orders (orders.service.ts, group-orders.service.ts).   *)
(*                                                                         *)
(* A group order keeps a copy of sums over its orders.  Every handler that *)
(* changes an order commits its own transaction first and then calls       *)
(* recalculateGroupOrderTotals for the groups it affected; that call reads *)
(* the orders in one statement and writes the sums in another, outside any *)
(* transaction.  Requests run concurrently on PostgreSQL at READ COMMITTED,*)
(* so a request is cut here at every point where others can run between    *)
(* two of its reads and writes.                                            *)
(*                                                                         *)
(* Abstractions.  "amount" stands for any one of the five columns that are *)
(* summed the same way.  "PENDING" stands for every order status but       *)
(* DELIVERED and CANCELLED, "DRAFT" for every group status but DELIVERED.  *)
(* Existence checks whose only effect is the error they answer with are    *)
(* one step with the statement that repeats them as a foreign key or a     *)
(* row lookup.  Order items and audit rows are not represented.            *)
(***************************************************************************)
EXTENDS Naturals, FiniteSets, FiniteSetsExt

CONSTANTS Orders,      \* order ids; a bound on how many are ever created
          Groups,      \* group order ids; a bound likewise
          Customers,   \* the customers stored at the start
          Requests,    \* requests being served at the same time
          Amounts,     \* values an order's summed column can take
          PaidGroups,  \* the groups that have rows in the payments table
          NoOrder, NoGroup

ASSUME GroupOrdersAssumption ==
  /\ IsFiniteSet(Orders) /\ Amounts \subseteq Nat /\ PaidGroups \subseteq Groups
  /\ NoOrder \notin Orders /\ NoGroup \notin Groups

VARIABLES orders,     \* the orders table
          groups,     \* the group_orders table
          customers,  \* the ids in the customers table
          req,        \* where each request being served stands
          disturbed   \* history: groups whose totals no request answers for

vars == <<orders, groups, customers, req, disturbed>>

Rows     == {"unborn", "stored", "deleted"}  \* ids are cuids, never reused
Statuses == {"PENDING", "DELIVERED", "CANCELLED"}

UnbornOrder == [row |-> "unborn", customer |-> "none", group |-> NoGroup,
                type |-> "INDIVIDUAL", status |-> "PENDING", amount |-> 0]
DeletedOrder == [UnbornOrder EXCEPT !.row = "deleted"]

StoredOrders == {o \in Orders : orders[o].row = "stored"}
StoredGroups == {g \in Groups : groups[g].row = "stored"}
GroupIdOrNone == Groups \cup {NoGroup}
Members(g)   == {o \in StoredOrders : orders[o].group = g}

(***************************************************************************)
(* The sums.  A line is what recalculateGroupOrderTotals selects of one    *)
(* order that is not cancelled, and the totals are the count and the sum.  *)
(***************************************************************************)
Line == [order : Orders, amount : Amounts \cup {0}]

GroupTotals(lines) ==
  [totalOrders |-> Cardinality(lines),
   totalAmount |-> MapThenSumSet(LAMBDA l : l.amount, lines)]

Totals == {GroupTotals(lines) : lines \in SUBSET Line}
EmptyTotals == GroupTotals({})

UnbornGroup == [row |-> "unborn", status |-> "DRAFT", totals |-> EmptyTotals]
DeletedGroup == [UnbornGroup EXCEPT !.row = "deleted"]

LiveMembers(g) == {o \in Members(g) : orders[o].status # "CANCELLED"}
LiveLines(g) == {[order |-> o, amount |-> orders[o].amount] : o \in LiveMembers(g)}

(***************************************************************************)
(* A request being served.                                                 *)
(*   save, remove     updateOrder, deleteOrder have read order; group is   *)
(*                    the groupOrderId they read, next the one to write    *)
(*   groupRemove      deleteGroupOrder has counted orders and payments     *)
(*   marked           markDelivered's transaction has updated the orders   *)
(*                    in marked, whose rows it locks until it commits      *)
(*   read, write      recalculateGroupOrderTotals(group) is about to read, *)
(*                    has read snap and is about to write; next is the     *)
(*                    group to recalculate after it                        *)
(***************************************************************************)
Idle == [pc |-> "idle", order |-> NoOrder, group |-> NoGroup, next |-> NoGroup,
         marked |-> {}, snap |-> EmptyTotals]

\* The loop over affectedGroupOrderIds: no id twice, null left out, in this order.
\* (RecalculateNulls is a mistake: null is not left out.)
RecalculateNulls(first, second) ==
  [Idle EXCEPT !.pc = "read", !.group = first,
               !.next = IF second = first THEN NoGroup ELSE second]
Recalculate(first, second) ==
  IF first = NoGroup
  THEN IF second = NoGroup THEN Idle ELSE [Idle EXCEPT !.pc = "read", !.group = second]
  ELSE [Idle EXCEPT !.pc = "read", !.group = first,
                    !.next = IF second = first THEN NoGroup ELSE second]

\* updateOrder's affectedGroupOrderIds: the group it read, then the group it wrote.
\* (RecalculateWritten is a mistake to test the properties with.)
RecalculateWritten(read, written) == Recalculate(NoGroup, written)
RecalculateAffected(read, written) == Recalculate(read, written)

\* Rows updated by a transaction that has not committed.
Locked == UNION {req[v].marked : v \in {u \in Requests : req[u].pc = "marked"}}

TypeOK ==
  /\ orders \in [Orders -> [row : Rows, customer : Customers \cup {"none"},
                            group : GroupIdOrNone,
                            type : {"INDIVIDUAL", "GROUP_MEMBER"},
                            status : Statuses, amount : Amounts \cup {0}]]
  /\ groups \in [Groups -> [row : Rows, status : {"DRAFT", "DELIVERED"}, totals : Totals]]
  /\ customers \in SUBSET Customers
  /\ req \in [Requests -> [pc : {"idle", "save", "remove", "groupRemove", "marked",
                                 "read", "write"},
                           order : Orders \cup {NoOrder},
                           group : GroupIdOrNone, next : GroupIdOrNone,
                           marked : SUBSET Orders, snap : Totals]]
  /\ \A w \in Requests : req[w].pc \in {"read", "write"} => req[w].group \in Groups
  /\ disturbed \in SUBSET Groups

Init ==
  /\ orders = [o \in Orders |-> UnbornOrder]
  /\ groups = [g \in Groups |-> UnbornGroup]
  /\ customers = Customers
  /\ req = [w \in Requests |-> Idle]
  /\ disturbed = {}

----------------------------------------------------------------------------
(* Orders. *)

\* What groupOrderId may be written: null or, by the foreign key, a stored group.
Linkable == StoredGroups \cup {NoGroup}

CreateOrder(w, o, c, g) ==
  /\ req[w].pc = "idle"
  /\ orders[o].row = "unborn" /\ c \in customers /\ g \in Linkable
  /\ \E s \in Statuses, a \in Amounts :
       orders' = [orders EXCEPT ![o] =
         [row |-> "stored", customer |-> c, group |-> g,
          type |-> IF g = NoGroup THEN "INDIVIDUAL" ELSE "GROUP_MEMBER",
          status |-> s, amount |-> a]]
  /\ req' = [req EXCEPT ![w] = Recalculate(g, NoGroup)]
  /\ UNCHANGED <<groups, customers, disturbed>>

\* nextGroupOrderId: the id in the request, null, or else the one just read.
UpdateOrderRead(w, o, next) ==
  /\ req[w].pc = "idle" /\ o \in StoredOrders /\ next \in Linkable \cup {orders[o].group}
  /\ req' = [req EXCEPT ![w] = [Idle EXCEPT !.pc = "save", !.order = o,
                                            !.group = orders[o].group, !.next = next]]
  /\ UNCHANGED <<orders, groups, customers, disturbed>>

\* A group whose order was changed by a request that will not recalculate it.
Unanswered(current, answered) ==
  IF current \in answered \cup {NoGroup} THEN disturbed ELSE disturbed \cup {current}

\* groupOrderId: null is passed on as undefined, which leaves the column alone,
\* while orderType follows the null.  A status or customer the request does not
\* name is written back as it was read, so any may be written.
UpdateOrderSave(w) ==
  LET o == req[w].order
      current == orders[o].group
      written == IF req[w].next = NoGroup THEN current ELSE req[w].next
  IN /\ req[w].pc = "save" /\ o \in StoredOrders \ Locked /\ written \in Linkable
     /\ \E c \in customers, s \in Statuses, a \in Amounts :
          orders' = [orders EXCEPT ![o] =
            [row |-> "stored", customer |-> c, group |-> written,
             type |-> IF req[w].next = NoGroup THEN "INDIVIDUAL" ELSE "GROUP_MEMBER",
             status |-> s, amount |-> a]]
     /\ req' = [req EXCEPT ![w] = RecalculateAffected(req[w].group, written)]
     /\ disturbed' = Unanswered(current, {req[w].group, written})
     /\ UNCHANGED <<groups, customers>>

DeleteOrderRead(w, o) ==
  /\ req[w].pc = "idle" /\ o \in StoredOrders
  /\ req' = [req EXCEPT ![w] = [Idle EXCEPT !.pc = "remove", !.order = o,
                                            !.group = orders[o].group]]
  /\ UNCHANGED <<orders, groups, customers, disturbed>>

DeleteOrderCommit(w) ==
  LET o == req[w].order
  IN /\ req[w].pc = "remove" /\ o \in StoredOrders \ Locked
     /\ orders' = [orders EXCEPT ![o] = DeletedOrder]
     /\ req' = [req EXCEPT ![w] = Recalculate(req[w].group, NoGroup)]
     /\ disturbed' = Unanswered(orders[o].group, {req[w].group})
     /\ UNCHANGED <<groups, customers>>

----------------------------------------------------------------------------
(* Group orders. *)

CreateGroupOrder(w, g) ==
  /\ req[w].pc = "idle" /\ groups[g].row = "unborn"
  /\ \E s \in {"DRAFT", "DELIVERED"} :
       groups' = [groups EXCEPT ![g].row = "stored", ![g].status = s]
  /\ UNCHANGED <<orders, customers, req, disturbed>>

UpdateGroupOrder(w, g) ==
  /\ req[w].pc = "idle" /\ g \in StoredGroups
  /\ \E s \in {"DRAFT", "DELIVERED"} : groups' = [groups EXCEPT ![g].status = s]
  /\ req' = [req EXCEPT ![w] = Recalculate(g, NoGroup)]
  /\ UNCHANGED <<orders, customers, disturbed>>

\* What deleteGroupOrder counts before it refuses.  (CountsPayments: a mistake.)
CountsPayments(g) == g \in PaidGroups
InUse(g) == Members(g) # {} \/ g \in PaidGroups

DeleteGroupOrderRead(w, g) ==
  /\ req[w].pc = "idle" /\ g \in StoredGroups /\ ~InUse(g)
  /\ req' = [req EXCEPT ![w] = [Idle EXCEPT !.pc = "groupRemove", !.group = g]]
  /\ UNCHANGED <<orders, groups, customers, disturbed>>

\* The foreign key clears groupOrderId in the orders of the group.
DeleteGroupOrderCommit(w) ==
  LET g == req[w].group
  IN /\ req[w].pc = "groupRemove" /\ g \in StoredGroups /\ Members(g) \cap Locked = {}
     /\ groups' = [groups EXCEPT ![g] = DeletedGroup]
     /\ orders' = [o \in Orders |-> IF o \in Members(g)
                                    THEN [orders[o] EXCEPT !.group = NoGroup]
                                    ELSE orders[o]]
     /\ req' = [req EXCEPT ![w] = Idle]
     /\ disturbed' = disturbed \ {g}
     /\ UNCHANGED customers

\* The rows the first statement of markDelivered's transaction updates.
\* (DeliverAll and DeliverPending are mistakes.)
DeliverAll(g) == Members(g)
DeliverPending(g) == {o \in Members(g) : orders[o].status = "DELIVERED"}
ToDeliver(g) == {o \in Members(g) : orders[o].status # "CANCELLED"}

MarkDeliveredOrders(w, g) ==
  /\ req[w].pc = "idle" /\ g \in StoredGroups /\ ToDeliver(g) \cap Locked = {}
  /\ req' = [req EXCEPT ![w] = [Idle EXCEPT !.pc = "marked", !.group = g,
                                            !.marked = ToDeliver(g)]]
  /\ UNCHANGED <<orders, groups, customers, disturbed>>

MarkDeliveredCommit(w) ==
  LET g == req[w].group
  IN /\ req[w].pc = "marked" /\ g \in StoredGroups
     /\ orders' = [o \in Orders |-> IF o \in req[w].marked
                                    THEN [orders[o] EXCEPT !.status = "DELIVERED"]
                                    ELSE orders[o]]
     /\ groups' = [groups EXCEPT ![g].status = "DELIVERED"]
     /\ req' = [req EXCEPT ![w] = Idle]
     /\ UNCHANGED <<customers, disturbed>>

----------------------------------------------------------------------------
(* recalculateGroupOrderTotals. *)

\* Requests that have read the orders of g and not yet written its totals.
OpenOn(g) == {v \in Requests : req[v].pc = "write" /\ req[v].group = g}

RecalculateRead(w) ==
  LET g == req[w].group
  IN /\ req[w].pc = "read"
     /\ req' = [req EXCEPT ![w].pc = "write", ![w].snap = GroupTotals(LiveLines(g))]
     /\ disturbed' = IF OpenOn(g) = {} THEN disturbed \ {g} ELSE disturbed \cup {g}
     /\ UNCHANGED <<orders, groups, customers>>

RecalculateWrite(w) ==
  LET g == req[w].group
  IN /\ req[w].pc = "write" /\ g \in StoredGroups
     /\ groups' = [groups EXCEPT ![g].totals = req[w].snap]
     /\ req' = [req EXCEPT ![w] = Recalculate(req[w].next, NoGroup)]
     /\ UNCHANGED <<orders, customers, disturbed>>

----------------------------------------------------------------------------
(* Around them. *)

\* deleteCustomer: the foreign key removes the customer's orders, and no group is
\* recalculated.
DeleteCustomer(w, c) ==
  LET gone == {o \in StoredOrders : orders[o].customer = c}
  IN /\ req[w].pc = "idle" /\ c \in customers /\ gone \cap Locked = {}
     /\ customers' = customers \ {c}
     /\ orders' = [o \in Orders |-> IF o \in gone THEN DeletedOrder ELSE orders[o]]
     /\ disturbed' = disturbed \cup {g \in Groups : gone \cap Members(g) # {}}
     /\ UNCHANGED <<groups, req>>

\* An error in the statement the request stands before: the row is gone (P2025),
\* a foreign key is (P2003), the database picks it as a deadlock's victim or the
\* process stops.  Its open transaction is rolled back; what it committed stays,
\* and the recalculations it still owed are not done.
Abort(w) ==
  /\ req[w].pc # "idle"
  /\ req' = [req EXCEPT ![w] = Idle]
  /\ disturbed' = IF req[w].pc \in {"read", "write"}
                  THEN disturbed \cup ({req[w].group, req[w].next} \ {NoGroup})
                  ELSE disturbed
  /\ UNCHANGED <<orders, groups, customers>>

\* The statement the request stands before can only fail.  (MustFailButRecalculate:
\* a mistake, a recalculation is tried again when its group is gone.)
MustFailButRecalculate(w) ==
  \/ req[w].pc \in {"save", "remove"} /\ req[w].order \notin StoredOrders
  \/ req[w].pc = "save" /\ req[w].next \notin Linkable
  \/ req[w].pc \in {"groupRemove", "marked"} /\ req[w].group \notin StoredGroups
MustFail(w) ==
  \/ req[w].pc \in {"save", "remove"} /\ req[w].order \notin StoredOrders
  \/ req[w].pc = "save" /\ req[w].next \notin Linkable
  \/ req[w].pc \in {"groupRemove", "marked", "write"} /\ req[w].group \notin StoredGroups

Fail(w) == MustFail(w) /\ Abort(w)

Begin(w) ==
  \/ \E o \in Orders, c \in Customers, g \in GroupIdOrNone : CreateOrder(w, o, c, g)
  \/ \E o \in Orders, g \in GroupIdOrNone : UpdateOrderRead(w, o, g)
  \/ \E o \in Orders : DeleteOrderRead(w, o)
  \/ \E g \in Groups : CreateGroupOrder(w, g)
  \/ \E g \in Groups : UpdateGroupOrder(w, g)
  \/ \E g \in Groups : DeleteGroupOrderRead(w, g)
  \/ \E g \in Groups : MarkDeliveredOrders(w, g)
  \/ \E c \in Customers : DeleteCustomer(w, c)

WaitForRows(w) == UpdateOrderSave(w) \/ DeleteOrderCommit(w) \/ DeleteGroupOrderCommit(w)
RunOn(w) == MarkDeliveredCommit(w) \/ RecalculateRead(w) \/ RecalculateWrite(w) \/ Fail(w)

Next == \E w \in Requests : Begin(w) \/ WaitForRows(w) \/ RunOn(w) \/ Abort(w)

Spec == Init /\ [][Next]_vars

\* Node.js runs every ready continuation and PostgreSQL every statement: weak
\* fairness.  A statement that waits for a row waits in that row's lock queue,
\* which is served in order, so it is not overtaken for ever: strong fairness.
Fairness == \A w \in Requests : WF_vars(RunOn(w)) /\ SF_vars(WaitForRows(w))
FairSpec == Spec /\ Fairness

----------------------------------------------------------------------------
(* Properties. *)

\* No request is recalculating g or has g next in its loop.
Settled(g) ==
  \A w \in Requests : req[w].pc \in {"read", "write"} => g \notin {req[w].group, req[w].next}

\* The totals stored in a group order are the sums over its orders that are not
\* cancelled once no recalculation of it is under way: every handler in
\* orders.service.ts recalculates each group it affected.  The exceptions, all of
\* them in disturbed, are what the code does not protect against: two overlapping
\* recalculations, a request cut short before its recalculation, an order moved by
\* another request since it was read, and a deleted customer's orders.  The next
\* recalculation that runs alone repairs the totals.
TotalsExact ==
  \A g \in StoredGroups \ disturbed :
    Settled(g) => groups[g].totals = GroupTotals(LiveLines(g))

\* What makes the totals come out exact: at any time one request at most stands
\* between the read and the write of a recalculation of g, and the present orders
\* of g are in its totals, in what that request is about to write, or still to be
\* read by a recalculation that some request owes.
OwesRead(w, g) ==
  \/ req[w].pc = "read" /\ req[w].group = g
  \/ req[w].pc \in {"read", "write"} /\ req[w].next = g

Answered(g) ==
  /\ \A v, w \in OpenOn(g) : v = w
  /\ \/ \E w \in Requests : OwesRead(w, g)
     \/ \E w \in OpenOn(g) : req[w].snap = GroupTotals(LiveLines(g))
     \/ OpenOn(g) = {} /\ groups[g].totals = GroupTotals(LiveLines(g))

TotalsAnswered == \A g \in StoredGroups \ disturbed : Answered(g)

\* Between the two statements of markDelivered's transaction the orders it has
\* updated stay in the group and are not cancelled under it: the commit delivers
\* no cancelled order and none that has left the group.
MarkedRowsHeld ==
  \A w \in Requests : req[w].pc = "marked" =>
    \A o \in req[w].marked :
      o \in Members(req[w].group) /\ orders[o].status # "CANCELLED"

\* When markDelivered commits, no order of the group is left undelivered but the
\* cancelled ones.  (Of one request at a time: an order may join the group while
\* the transaction is open.)
DeliveredTogether ==
  [][\A w \in Requests : req[w].pc = "marked" /\ MarkDeliveredCommit(w) =>
       \A o \in Members(req[w].group) : orders'[o].status \in {"DELIVERED", "CANCELLED"}]_vars

\* deleteGroupOrder "Cannot delete a group order that already has orders or
\* payments.": a group order is removed only when it has none.
OnlyEmptyGroupsDeleted ==
  [][\A g \in StoredGroups : groups'[g].row # "stored" => Members(g) = {} /\ g \notin PaidGroups]_vars

\* An order marked GROUP_MEMBER belongs to a stored group order.  (Of one request
\* at a time: a group deleted between the count and the delete leaves the mark.)
GroupMembersHaveGroup ==
  \A o \in StoredOrders : orders[o].type = "GROUP_MEMBER" => orders[o].group \in StoredGroups

\* Every request is answered: no wait for a row lock and no loop over the affected
\* groups goes on for ever.
RequestsFinish == \A w \in Requests : req[w].pc # "idle" ~> req[w].pc = "idle"

\* The ledger of GroupLedger: a stored group's account is right in the sums over its orders,
\* shows the stored totals, and is due while a recalculation of it is under way or nobody
\* answers for it.
Accounts ==
  [g \in Groups |->
     IF groups[g].row = "stored"
     THEN [row |-> "stored", right |-> GroupTotals(LiveLines(g)), shown |-> groups[g].totals,
           due |-> ~Settled(g) \/ g \in disturbed]
     ELSE [row |-> groups[g].row, right |-> EmptyTotals, shown |-> EmptyTotals,
           due |-> FALSE]]

Ledger == INSTANCE GroupLedger
            WITH accounts <- Accounts, Values <- Totals, Zero <- EmptyTotals

\* The handlers keep the ledger: an order changes only if its group's account is due from
\* then on, only recalculations of a due account change what is shown, and the last of
\* them shows what is right.
KeepsLedger == Ledger!Spec
=============================================================================
