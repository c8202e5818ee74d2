------------------------------- MODULE Blocks -------------------------------
(***************************************************************************)
(* Blocks (the patterns garments are cut from), the customers assigned to  *)
(* them and the measurements and order items that use them                 *)
(* (blocks.service.ts).                                                    *)
(*                                                                         *)
(* A block's customers are replaced by a transaction that deletes the      *)
(* block's rows in customer_blocks and inserts the new ones, on PostgreSQL *)
(* at READ COMMITTED: the delete sees the rows that were committed when it *)
(* started and waits for those that another transaction has deleted.       *)
(* updateBlock has updated the block's row before, and so locks it;        *)
(* updateBlockCustomers has not.  Deletes of a block or of a customer lock *)
(* their row and then the rows that go with it.                            *)
(*                                                                         *)
(* Abstractions.  The descriptive columns of a block, its category and its *)
(* chain of versions are not represented, nor an updateBlock that names no *)
(* customers.  A measurement is its customer and its block; of order items *)
(* only which blocks they use is kept.                                     *)
(***************************************************************************)
EXTENDS FiniteSets

CONSTANTS Blocks, Customers, Measurements,   \* ids; bounds on how many are created
          Requests,                          \* requests being served at the same time
          None

ASSUME BlocksAssumption ==
  /\ IsFiniteSet(Customers)
  /\ None \notin Blocks \cup Customers \cup Measurements

VARIABLES blocks,        \* the blocks table: whether each is stored
          assigned,      \* customer_blocks, by block
          customers,     \* the ids in the customers table
          measurements,  \* the measurements table
          ordered,       \* the blocks that order items use
          req,           \* where each request being served stands
          saved,         \* history: the customers last saved for each block
          overlapped     \* history: blocks whose replacements overlapped unlocked

vars == <<blocks, assigned, customers, measurements, ordered, req, saved, overlapped>>

Rows == {"unborn", "stored", "deleted"}  \* ids are cuids, never reused
Assignment == [customer : Customers, isDefault : BOOLEAN]

StoredBlocks == {b \in Blocks : blocks[b] = "stored"}
StoredMeasurements == {m \in Measurements : measurements[m].row = "stored"}
CustomersOf(rows) == {r.customer : r \in rows}
DefaultsIn(rows) == {r \in rows : r.isDefault}

\* What validateCustomerAssignments lets pass: some customers, none twice, one default
\* at most.
Lists ==
  {rows \in (SUBSET Assignment) \ {{}} :
     /\ \A q, r \in rows : q.customer = r.customer => q = r
     /\ \A q, r \in DefaultsIn(rows) : q = r}

(***************************************************************************)
(* A request being served.                                                 *)
(*   create        createBlock has validated list                          *)
(*   lock          updateBlock has, and is about to update block's row     *)
(*   clear         the replacement is about to start its deleteMany        *)
(*   clearing      deleteMany has found the rows in gone                   *)
(*   insert        deleteMany is done, createMany comes next               *)
(*   remove        deleteBlock has counted what uses block                 *)
(*   cascade       deleteBlock holds block's row, customer_blocks is next  *)
(*   erase         deleteCustomer holds customer's row, likewise           *)
(* holds is the lock a replacement has on its block's row: none, that of   *)
(* an update, or that of an update of the columns in its unique key.       *)
(***************************************************************************)
Idle == [pc |-> "idle", block |-> None, customer |-> None, list |-> {}, gone |-> {},
         holds |-> "none"]

Replacing == {"clear", "clearing", "insert"}
Open(b) == {w \in Requests : req[w].pc \in {"clearing", "insert"} /\ req[w].block = b}
HoldsRow(v, b) ==
  /\ req[v].block = b
  /\ \/ req[v].pc = "cascade"
     \/ req[v].pc \in Replacing /\ req[v].holds # "none"
HoldsKey(v, b) == HoldsRow(v, b) /\ (req[v].pc = "cascade" \/ req[v].holds = "key")

TypeOK ==
  /\ blocks \in [Blocks -> Rows]
  /\ assigned \in [Blocks -> SUBSET Assignment]
  /\ customers \in SUBSET Customers
  /\ measurements \in [Measurements -> [row : Rows, customer : Customers \cup {None},
                                        block : Blocks \cup {None}]]
  /\ ordered \in SUBSET Blocks
  /\ req \in [Requests -> [pc : {"idle", "create", "lock", "remove", "cascade", "erase"}
                                  \cup Replacing,
                           block : Blocks \cup {None}, customer : Customers \cup {None},
                           list : SUBSET Assignment, gone : SUBSET Assignment,
                           holds : {"none", "row", "key"}]]
  /\ \A w \in Requests :
       /\ req[w].pc \notin {"idle", "erase"} => req[w].block \in Blocks
       /\ req[w].pc \in {"create", "lock"} \cup Replacing => req[w].list \in Lists
  /\ saved \in [Blocks -> SUBSET Assignment]
  /\ overlapped \in SUBSET Blocks

Init ==
  /\ blocks = [b \in Blocks |-> "unborn"]
  /\ assigned = [b \in Blocks |-> {}]
  /\ customers = Customers
  /\ measurements = [m \in Measurements |-> [row |-> "unborn", customer |-> None, block |-> None]]
  /\ ordered = {}
  /\ req = [w \in Requests |-> Idle]
  /\ saved = [b \in Blocks |-> {}]
  /\ overlapped = {}

----------------------------------------------------------------------------
(* Waiting.  w's next statement waits for a row that v's transaction holds. *)

WaitsForBlock(w, v) ==
  req[w].pc \in {"lock", "remove"} /\ HoldsRow(v, req[w].block)
WaitsForDeleted(w, v) ==
  /\ req[v].pc = "insert"
  /\ \/ req[w].pc = "clearing" /\ req[v].block = req[w].block /\ req[v].gone \cap req[w].gone # {}
     \/ req[w].pc = "cascade" /\ req[v].block = req[w].block /\ req[v].gone # {}
     \/ req[w].pc = "erase" /\ req[w].customer \in CustomersOf(req[v].gone)
WaitsForKey(w, v) ==
  /\ req[w].pc \in {"create", "insert"}
  /\ \/ HoldsKey(v, req[w].block)
     \/ req[v].pc = "erase" /\ req[v].customer \in CustomersOf(req[w].list)
     \/ /\ req[v].pc = "insert" /\ req[v].block = req[w].block
        /\ CustomersOf(req[v].gone) \cap CustomersOf(req[w].list) # {}

WaitsFor(w, v) == v # w /\ (WaitsForBlock(w, v) \/ WaitsForDeleted(w, v) \/ WaitsForKey(w, v))
Waiting(w) == \E v \in Requests : WaitsFor(w, v)

----------------------------------------------------------------------------
(* Blocks and their customers. *)

\* (ValidUnchecked is a mistake: only the customers are looked up.)
ValidUnchecked(list) == CustomersOf(list) \subseteq customers
Valid(list) == list \in Lists /\ CustomersOf(list) \subseteq customers

CreateBlockBegin(w, b, list) ==
  /\ req[w].pc = "idle" /\ blocks[b] = "unborn" /\ Valid(list)
  /\ req' = [req EXCEPT ![w] = [Idle EXCEPT !.pc = "create", !.block = b, !.list = list]]
  /\ UNCHANGED <<blocks, assigned, customers, measurements, ordered, saved, overlapped>>

CreateBlockCommit(w) ==
  LET b == req[w].block
  IN /\ req[w].pc = "create" /\ ~Waiting(w)
     /\ blocks[b] = "unborn" /\ CustomersOf(req[w].list) \subseteq customers
     /\ blocks' = [blocks EXCEPT ![b] = "stored"]
     /\ assigned' = [assigned EXCEPT ![b] = req[w].list]
     /\ saved' = [saved EXCEPT ![b] = req[w].list]
     /\ req' = [req EXCEPT ![w] = Idle]
     /\ UNCHANGED <<customers, measurements, ordered, overlapped>>

UpdateBlockBegin(w, b, list) ==
  /\ req[w].pc = "idle" /\ b \in StoredBlocks /\ Valid(list)
  /\ req' = [req EXCEPT ![w] = [Idle EXCEPT !.pc = "lock", !.block = b, !.list = list]]
  /\ UNCHANGED <<blocks, assigned, customers, measurements, ordered, saved, overlapped>>

\* block.update; a new number or category changes the row's unique key.
\* (UpdateBlockUnlocked is a mistake: the block is not updated in the transaction.)
UpdateBlockUnlocked(w, lock) ==
  /\ req[w].pc = "lock"
  /\ req' = [req EXCEPT ![w] = [req[w] EXCEPT !.pc = "clear", !.holds = lock]]
  /\ UNCHANGED <<blocks, assigned, customers, measurements, ordered, saved, overlapped>>
UpdateBlockLock(w, lock) ==
  /\ req[w].pc = "lock" /\ ~Waiting(w) /\ req[w].block \in StoredBlocks
  /\ req' = [req EXCEPT ![w] = [req[w] EXCEPT !.pc = "clear", !.holds = lock]]
  /\ UNCHANGED <<blocks, assigned, customers, measurements, ordered, saved, overlapped>>

UpdateBlockCustomersBegin(w, b, list) ==
  /\ req[w].pc = "idle" /\ b \in StoredBlocks /\ Valid(list)
  /\ req' = [req EXCEPT ![w] = [Idle EXCEPT !.pc = "clear", !.block = b, !.list = list]]
  /\ UNCHANGED <<blocks, assigned, customers, measurements, ordered, saved, overlapped>>

\* deleteMany starts: it will delete the rows it sees now.
ReplaceClear(w) ==
  LET b == req[w].block
      unlocked == \E v \in Open(b) : req[v].holds = "none" \/ req[w].holds = "none"
  IN /\ req[w].pc = "clear"
     /\ req' = [req EXCEPT ![w] = [req[w] EXCEPT !.pc = "clearing", !.gone = assigned[b]]]
     /\ overlapped' = IF unlocked THEN overlapped \cup {b} ELSE overlapped
     /\ UNCHANGED <<blocks, assigned, customers, measurements, ordered, saved>>

\* deleteMany ends: it has the rows that nobody deleted since.
ReplaceCleared(w) ==
  /\ req[w].pc = "clearing" /\ ~Waiting(w)
  /\ req' = [req EXCEPT ![w] = [req[w] EXCEPT !.pc = "insert"]]
  /\ UNCHANGED <<blocks, assigned, customers, measurements, ordered, saved, overlapped>>

\* Rows that are committed as deleted drop out of what other deletes have found.
Without(q, rows) == [q EXCEPT !.gone = @ \ rows]

\* createMany leaves out what the unique key (customer, block) has already, then the
\* transaction commits.  (InsertedFirst is a mistake: createMany before deleteMany.)
InsertedFirst(rows, gone, list) ==
  (rows \cup {r \in list : r.customer \notin CustomersOf(rows)}) \ gone
Replaced(rows, gone, list) ==
  (rows \ gone) \cup {r \in list : r.customer \notin CustomersOf(rows \ gone)}

ReplaceInsert(w) ==
  LET b == req[w].block
      gone == req[w].gone
      list == req[w].list
  IN /\ req[w].pc = "insert" /\ ~Waiting(w)
     /\ b \in StoredBlocks /\ CustomersOf(list) \subseteq customers
     /\ assigned' = [assigned EXCEPT ![b] = Replaced(assigned[b], gone, list)]
     /\ saved' = [saved EXCEPT ![b] = list]
     /\ req' = [v \in Requests |->
          IF v = w THEN Idle
          ELSE IF v \in Open(b) THEN Without(req[v], gone) ELSE req[v]]
     /\ overlapped' = IF Open(b) = {w} /\ assigned[b] = gone THEN overlapped \ {b}
                                                             ELSE overlapped
     /\ UNCHANGED <<blocks, customers, measurements, ordered>>

----------------------------------------------------------------------------
(* Deletes. *)

\* What deleteBlock counts before it refuses.  (CountsOrderItems: a mistake.)
CountsOrderItems(b) == b \in ordered
InUse(b) == b \in ordered \/ \E m \in StoredMeasurements : measurements[m].block = b

DeleteBlockRead(w, b) ==
  /\ req[w].pc = "idle" /\ b \in StoredBlocks /\ ~InUse(b)
  /\ req' = [req EXCEPT ![w] = [Idle EXCEPT !.pc = "remove", !.block = b]]
  /\ UNCHANGED <<blocks, assigned, customers, measurements, ordered, saved, overlapped>>

DeleteBlockLock(w) ==
  /\ req[w].pc = "remove" /\ ~Waiting(w) /\ req[w].block \in StoredBlocks
  /\ req' = [req EXCEPT ![w] = [req[w] EXCEPT !.pc = "cascade"]]
  /\ UNCHANGED <<blocks, assigned, customers, measurements, ordered, saved, overlapped>>

Gone(m) == [measurements[m] EXCEPT !.row = "deleted"]

\* The foreign keys delete the block's assignments and measurements, and clear
\* blockId in order items.
DeleteBlockCommit(w) ==
  LET b == req[w].block
  IN /\ req[w].pc = "cascade" /\ ~Waiting(w)
     /\ blocks' = [blocks EXCEPT ![b] = "deleted"]
     /\ assigned' = [assigned EXCEPT ![b] = {}]
     /\ measurements' = [m \in Measurements |->
          IF m \in StoredMeasurements /\ measurements[m].block = b THEN Gone(m)
                                                                   ELSE measurements[m]]
     /\ ordered' = ordered \ {b}
     /\ req' = [v \in Requests |->
          IF v = w THEN Idle
          ELSE IF v \in Open(b) THEN Without(req[v], assigned[b]) ELSE req[v]]
     /\ UNCHANGED <<customers, saved, overlapped>>

DeleteCustomerLock(w, c) ==
  /\ req[w].pc = "idle" /\ c \in customers
  /\ \A v \in Requests : req[v].pc = "erase" => req[v].customer # c
  /\ req' = [req EXCEPT ![w] = [Idle EXCEPT !.pc = "erase", !.customer = c]]
  /\ UNCHANGED <<blocks, assigned, customers, measurements, ordered, saved, overlapped>>

RowsOf(c) == [customer : {c}, isDefault : BOOLEAN]

DeleteCustomerCommit(w) ==
  LET c == req[w].customer
  IN /\ req[w].pc = "erase" /\ ~Waiting(w)
     /\ customers' = customers \ {c}
     /\ assigned' = [b \in Blocks |-> assigned[b] \ RowsOf(c)]
     /\ measurements' = [m \in Measurements |->
          IF m \in StoredMeasurements /\ measurements[m].customer = c THEN Gone(m)
                                                                      ELSE measurements[m]]
     /\ req' = [v \in Requests |-> IF v = w THEN Idle ELSE Without(req[v], RowsOf(c))]
     /\ UNCHANGED <<blocks, ordered, saved, overlapped>>

----------------------------------------------------------------------------
(* What uses blocks.  A row that names a block or a customer waits for a       *)
(* transaction that is about to delete it or to change its key.                *)

Linkable(b) == b \in StoredBlocks /\ \A v \in Requests : ~HoldsKey(v, b)
Attributable(c) ==
  c \in customers /\ \A v \in Requests : req[v].pc = "erase" => req[v].customer # c

CreateMeasurement(w, m, c, b) ==
  /\ req[w].pc = "idle" /\ measurements[m].row = "unborn"
  /\ Attributable(c) /\ (b = None \/ Linkable(b))
  /\ measurements' = [measurements EXCEPT ![m] = [row |-> "stored", customer |-> c, block |-> b]]
  /\ UNCHANGED <<blocks, assigned, customers, ordered, req, saved, overlapped>>

\* A customer or block the request does not name is left as it is.
UpdateMeasurement(w, m, c, b) ==
  /\ req[w].pc = "idle" /\ m \in StoredMeasurements
  /\ c = measurements[m].customer \/ Attributable(c)
  /\ b = measurements[m].block \/ Linkable(b)
  /\ measurements' = [measurements EXCEPT ![m] = [row |-> "stored", customer |-> c, block |-> b]]
  /\ UNCHANGED <<blocks, assigned, customers, ordered, req, saved, overlapped>>

DeleteMeasurement(w, m) ==
  /\ req[w].pc = "idle" /\ m \in StoredMeasurements
  /\ measurements' = [measurements EXCEPT ![m] = Gone(m)]
  /\ UNCHANGED <<blocks, assigned, customers, ordered, req, saved, overlapped>>

\* Order items are stored with a block, and go with their order or are replaced.
OrderBlock(w, b) ==
  /\ req[w].pc = "idle" /\ Linkable(b)
  /\ ordered' = ordered \cup {b}
  /\ UNCHANGED <<blocks, assigned, customers, measurements, req, saved, overlapped>>

UnorderBlock(w, b) ==
  /\ req[w].pc = "idle" /\ b \in ordered
  /\ ordered' = ordered \ {b}
  /\ UNCHANGED <<blocks, assigned, customers, measurements, req, saved, overlapped>>

----------------------------------------------------------------------------
(* Around them. *)

\* The statement the request stands before fails, or the process stops; its
\* transaction is rolled back.
Abort(w) ==
  /\ req[w].pc # "idle"
  /\ req' = [req EXCEPT ![w] = Idle]
  /\ UNCHANGED <<blocks, assigned, customers, measurements, ordered, saved, overlapped>>

\* The row the statement needs is gone (P2025), a foreign key is (P2003), or the id.
\* (MustFailButUpdate is a mistake: an update whose block is gone is tried again.)
MustFailButUpdate(w) ==
  \/ req[w].pc \in {"insert", "remove"} /\ req[w].block \notin StoredBlocks
  \/ req[w].pc \in {"create", "insert"} /\ ~(CustomersOf(req[w].list) \subseteq customers)
  \/ req[w].pc = "create" /\ blocks[req[w].block] # "unborn"
MustFail(w) ==
  \/ req[w].pc \in {"lock", "insert", "remove"} /\ req[w].block \notin StoredBlocks
  \/ req[w].pc \in {"create", "insert"} /\ ~(CustomersOf(req[w].list) \subseteq customers)
  \/ req[w].pc = "create" /\ blocks[req[w].block] # "unborn"

\* PostgreSQL ends one of two transactions that wait for each other.
Deadlocked(w) == \E v \in Requests : WaitsFor(w, v) /\ WaitsFor(v, w)

Fail(w) == (MustFail(w) \/ Deadlocked(w)) /\ Abort(w)

Begin(w) ==
  \/ \E b \in Blocks, list \in SUBSET Assignment :
       \/ CreateBlockBegin(w, b, list)
       \/ UpdateBlockBegin(w, b, list)
       \/ UpdateBlockCustomersBegin(w, b, list)
  \/ \E b \in Blocks : DeleteBlockRead(w, b)
  \/ \E c \in Customers : DeleteCustomerLock(w, c)
  \/ \E m \in Measurements, c \in Customers, b \in Blocks \cup {None} :
       CreateMeasurement(w, m, c, b) \/ UpdateMeasurement(w, m, c, b)
  \/ \E m \in Measurements : DeleteMeasurement(w, m)
  \/ \E b \in Blocks : OrderBlock(w, b) \/ UnorderBlock(w, b)

RunOn(w) ==
  \/ CreateBlockCommit(w)
  \/ \E lock \in {"row", "key"} : UpdateBlockLock(w, lock)
  \/ ReplaceClear(w) \/ ReplaceCleared(w) \/ ReplaceInsert(w)
  \/ DeleteBlockLock(w) \/ DeleteBlockCommit(w)
  \/ DeleteCustomerCommit(w)
  \/ Fail(w)

Next == \E w \in Requests : Begin(w) \/ RunOn(w) \/ Abort(w)

Spec == Init /\ [][Next]_vars

\* The runtime goes on with every request whose statement has ended, and a statement
\* that waits for a row is served in the order of that row's queue.
Fairness == \A w \in Requests : SF_vars(RunOn(w))
FairSpec == Spec /\ Fairness

----------------------------------------------------------------------------
(* Properties. *)

\* A block is assigned to the customers that were last saved for it, less those
\* deleted since: a replacement leaves nothing of the list before it, and no row of
\* its own out.  The exception is a block where a replacement by updateBlockCustomers,
\* which takes no lock on the block, overlapped another; the next one that runs alone
\* repairs it.
AssignmentsAsSaved ==
  \A b \in StoredBlocks \ overlapped :
    assigned[b] = {r \in saved[b] : r.customer \in customers}

\* validateCustomerAssignments "Only one default customer assignment is allowed.": a
\* stored block has one default customer at most.  (Of one request at a time.)
OneDefault ==
  \A b \in StoredBlocks : \A q, r \in assigned[b] : q.isDefault /\ r.isDefault => q = r

\* The same of any number of requests: it takes a replacement that overlapped another
\* unlocked to give a block two defaults.
OneDefaultAlone ==
  \A b \in StoredBlocks \ overlapped : \A q, r \in DefaultsIn(assigned[b]) : q = r

\* deleteBlock "Cannot delete this block because it is already used in orders or
\* measurements.": no measurement goes because its block does.
MeasurementsOutliveBlocks ==
  [][\A m \in StoredMeasurements :
       measurements[m].block # None /\ measurements'[m].row = "deleted" =>
         blocks'[measurements[m].block] = blocks[measurements[m].block]]_vars

\* However replacements overlap, the customers of the one that committed last are all
\* assigned: skipDuplicates leaves out only rows that are there, and a deleteMany that
\* started earlier does not take the new rows away.  (Their isDefault may be lost, and
\* rows of other replacements may be there too.)
SavedCustomersAssigned ==
  \A b \in StoredBlocks : CustomersOf(saved[b]) \cap customers \subseteq CustomersOf(assigned[b])

\* Every request is answered, though replacements and deletes may wait for each other
\* in a circle.
RequestsFinish == \A w \in Requests : req[w].pc # "idle" ~> req[w].pc = "idle"
=============================================================================
