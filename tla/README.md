# A formal model of the Helora backend

TLA+ modules that model the state-changing core of the Helora backend (NestJS,
Prisma, PostgreSQL), TLC configurations that check them on small instances, and
theorems about them checked by TLAPS. `PROJECT.json` lists components, runs,
mutants, findings, hazards and theorems, and maps every definition to the lines it
models.

    tlc -workers 2 -config MCBlocksTwo.cfg MCBlocks.tla     # one run
    tlapm BlocksProofs.tla                                  # one proof module

## 1. The system

A modular monolith for a maker of made-to-measure garments. HTTP controllers hand
each request to a CQRS command handler, which calls a service; services talk to one
PostgreSQL database through Prisma. There is no other shared state: components
interact by calling each other's services within a request, and through rows that
other requests read and write. Any number of requests are in progress at once, each
suspended at its `await`s. Prisma's `$transaction` runs at READ COMMITTED. Nothing is
retried, nothing is queued, and there is no background job, so what a request leaves
undone stays undone.

| Component | State | Operations that change it | Interacts with | Hard behaviours | What makes it correct |
|---|---|---|---|---|---|
| orders | orders, order_items | createOrder, updateOrder, deleteOrder (updateOrderStatus has no caller) | recalculates group orders; checks customers, blocks, measurements | validation, transaction and recalculation are separate steps; a stale read decides which groups are recalculated and what amounts are written back | every group an order leaves or joins is recalculated; the total is that of the items, a recorded advance stays; an item is made to a measurement of its customer |
| group-orders | group_orders with totals copied from their orders | create, update, delete, markDelivered, recalculateGroupOrderTotals | reads and writes orders | read-then-write recalculation; count-then-delete; two-statement transaction | totals equal the sums; only empty groups are deleted; a group is delivered whole |
| customers | customers | create, update, delete | cascades to orders, measurements, block assignments | cascades no service knows of | nothing dangles, totals follow |
| blocks | blocks, customer_blocks | createBlock, updateBlock, updateBlockCustomers, deleteBlock | customers; measurements and order items use blocks | delete-and-insert replacement with and without a lock; count-then-delete; deadlocks | the assignment is the one last saved; one default; nothing that is used is deleted |
| measurements | fields, measurements, values | create/update field, create/update/verify/delete measurement | customers, blocks, order items | validated against fields, category and customer that may change before the write; count-then-delete | stored values are of the category's fields, one each, filled in where required; an item that was counted keeps its measurement |
| auth, sessions | sessions with a token hash; the browser's cookie | login, refresh, logout, logout-all, (register) | users, roles | two copies of a token; verify-then-rotate; lost answers; two clocks | ended sessions stay ended; the cookie and the hash agree |
| attendance | devices, logs, records | importLogs, upsertManualRecord, processAttendanceDate, device create/update | employees | import during processing, repeated processing, manual corrections | a record accounts for the logs marked processed |
| whatsapp | accounts, messages | send order confirmation / receipt, webhook, create account (free text has no caller) | orders, customers; the provider's API | unordered and repeated webhooks, partial failure around the API call | a row says what the provider said of its message, and loses none of it; one active account |
| categories | categories | create, update, delete | blocks, measurements, fields | count-then-delete against RESTRICT | a category in use stays; its fields go with it and nothing else |
| seed | roles, permissions and users, which all tenants share; the demo tenant with its rows | one run of the script | every table; the application, if it is running | a wipe in one transaction, a creation in none; runs that stop, are repeated or overlap | a run can always be repeated; one that ends well leaves all its data; a tenant is wiped whole or not at all |
| users, roles, guards | users, memberships | creation of a user | auth | none of their own | - |
| audit | audit_logs | log | called last by every service | an append after the fact | - |
| payments, employees | tables that only the seed writes | none | read by others | - | - |

The hazards this gives rise to, each at its line, are in `PROJECT.json` ("hazards")
with the properties that would catch them. A note says what no property would catch, most
often because the code lets it happen: such cases are steps of the models, and a history
variable (`disturbed`, `astray`, `blurred`, `adrift` and so on) excepts from the property
exactly the rows they leave behind.

## 2. The plan

In order of importance, each module with its MC module, its runs and its proofs; all of
them are there:

1. `GroupOrders` - orders, group orders and the totals.
2. `Sessions` - refresh tokens.
3. `Blocks` - replacement of assignments, deletes and cascades.
4. `Attendance` - import, processing and manual records.
5. `WhatsappMessages` - accounts, sending and the webhook, with an external provider
   that delays, repeats and reorders notices.
6. `GroupLedger` - the abstract specification of the totals of group orders, implemented
   by `GroupOrders`.
7. `Measurements` - fields, values, categories and the measurement an order item is
   made to.
8. `OrderPricing` - totals, advance, balance and payment status of an order.
9. `Seed` - the demo data: repeated, interrupted and overlapping runs.

What could still be added, and why it is not there:

- Numbers (count plus one against the unique keys): two requests at a time, or a
  creation after a delete, get a number that exists and the insert fails. That is one of
  the reasons of `Abort` in every module; the code promises no more, so there is no
  property to state of it.
- Inline measurement values of an order item (`orders.service.ts:872-1039`): the insert
  names columns that `measurement_values` does not have (`orders.service.ts:1025`), so that
  the transaction always fails. In the models such an order is an aborted one.
- One module of all components. The components meet in few rows, and each module has
  the steps of the others that change those rows: `GroupOrders` and `Blocks` the delete of a
  customer, `Blocks` the measurements and orders that use a block, `Measurements` the
  items of orders and the delete of a category.

## 3. What is modelled

In all modules a request is a record in `req[w]`, for `w` in `Requests`; its `pc` says
which statement it stands before, and its other fields are the local variables of the
handler that are still needed. `Begin(w)` is a request arriving at a free `w`. A step
is what the database does atomically: one statement outside a transaction; inside a
transaction, one statement if others can come between, or several where locks make
the difference invisible. Checks whose only effect is an error answer are guards: a
request they refuse changes nothing. `Abort(w)` is any failure at any point: the open
transaction is rolled back and what was committed before stays.

### GroupOrders

| Model | Code |
|---|---|
| `orders`, `groups`, `customers` | tables Order, GroupOrder, Customer; rows are unborn, stored or deleted |
| `CreateOrder` | `createOrder`: transaction, then the recalculation is owed |
| `UpdateOrderRead`, `UpdateOrderSave` | `updateOrder`: the read that decides what is recalculated; the transaction, and `affectedGroupOrderIds` |
| `DeleteOrderRead`, `DeleteOrderCommit` | `deleteOrder` |
| `CreateGroupOrder`, `UpdateGroupOrder` | the same; an update owes a recalculation |
| `DeleteGroupOrderRead`, `DeleteGroupOrderCommit` | `deleteGroupOrder`: `_count` and refusal; delete with ON DELETE SET NULL |
| `MarkDeliveredOrders`, `MarkDeliveredCommit` | the two statements of `markDelivered`'s transaction; `marked` are the rows it locks |
| `RecalculateRead`, `RecalculateWrite` | the `findMany` and the `update` of `recalculateGroupOrderTotals`; `next` is the rest of the caller's loop |
| `DeleteCustomer` | `deleteCustomer` and its cascade to orders |

A group order's five summed columns are summed alike; one, `amount`, stands for them
next to the count. `disturbed` is a history variable: the groups whose totals nothing
in the code keeps right, because two recalculations of the group overlapped, one was
cut short, an order was moved by another request since `updateOrder` read it, or a
customer's orders were deleted. A recalculation that runs alone takes the group out
again. Nothing in the actions' guards reads it.

Two quirks of the code are kept: `groupOrderId: null` leaves the order in its group
while its type becomes INDIVIDUAL (`|| undefined`), and an update that names no status
writes back the one it read.

`GroupLedger` knows nothing of requests and statements: each group has an account with
the totals that are right, the totals that are shown, and whether it is due. The
right totals of a stored account may change in a step only if it is due afterwards, what is
shown may change only while it is due, and it stops being due only when what
is shown is right. `Accounts` maps the tables to it: right are the sums over the
group's orders, shown the stored totals, and due is a group with a recalculation
under way or owed, or in `disturbed`. `KeepsLedger` says that `GroupOrders` implements it.

### Sessions

| Model | Code |
|---|---|
| `sessions` | table Session: status, hash, deadline |
| `jar`, `access` | the browser's `refresh_token` cookie; the session of its access token |
| `LoginBegin`, `LoginCreate` | `issueSession`: deadline; `createSession` with a temporary token, then the signing of the real one |
| `RefreshVerify`, `RefreshFindsExpired`, `MarkExpired` | `verifyRefreshToken`, which writes EXPIRED in a second statement |
| `RefreshSign`, `Rotate`, `Respond` | `refreshSession`: expiry and sign; `rotateRefreshToken`; the answer with its cookie |
| `Logout`, `LogoutAll`, `RespondClear` | `revokeSession`, `revokeAllForUser`; the cleared cookie |
| `DropCookie`, `Tick` | the browser, the clock |

A token is a JWT whose only varying part is the second it was signed in, so that
second stands for it. Three history variables: `undelivered`, the request that wrote a
session's stored token and has not answered with it; `astray`, sessions whose stored token
never reached the browser, because its answer was lost or was overtaken by that of an
earlier write; `renewed`, sessions whose row was last written by a refresh. That two
refreshes overlap puts no session in `astray` by itself.

### Blocks

| Model | Code |
|---|---|
| `blocks`, `assigned`, `measurements`, `ordered` | tables Block, CustomerBlock (by block), Measurement (customer and block); blocks that order items use |
| `CreateBlockBegin`, `CreateBlockCommit` | `createBlock`: validation; transaction |
| `UpdateBlockBegin`, `UpdateBlockLock` | `updateBlock` with `customers`: validation; `block.update`, which locks the row |
| `UpdateBlockCustomersBegin` | `updateBlockCustomers`: validation; no lock |
| `ReplaceClear`, `ReplaceCleared`, `ReplaceInsert` | `deleteMany` starting (its snapshot) and ending (after waiting for rows others delete); `createMany` with `skipDuplicates` and the commit |
| `DeleteBlockRead`, `DeleteBlockLock`, `DeleteBlockCommit` | `deleteBlock`: count and refusal; the delete's lock of the row, then its cascades |
| `DeleteCustomerLock`, `DeleteCustomerCommit` | `deleteCustomer` likewise |
| `CreateMeasurement`, `UpdateMeasurement`, `DeleteMeasurement`, `OrderBlock`, `UnorderBlock` | what refers to blocks |
| `WaitsFor`, `Deadlocked`, `MustFail` | PostgreSQL: row lock waits, its deadlock detector, foreign and unique keys (external) |

`saved` (the list last committed) and `overlapped` (blocks where replacements
overlapped and at least one held no lock on the block) are history variables.

### Attendance

| Model | Code |
|---|---|
| `logs`, `records` | tables AttendanceLog, by biometric id and time, its unique key; AttendanceRecord, by employee, of one day |
| `req[w].found`, `req[w].employee` | `logsByEmployee`, less the employees done; the `employeeId` of the loop |
| `ImportLog` | one turn of the loop of `importLogs`: the employee found or not, the upsert |
| `UpsertManualRecord` | `upsertManualRecord`; a record edited by hand is the one value `ByHand` |
| `ProcessRead`, `ProcessUpsert`, `ProcessMark` | the `findMany`, the `upsert` and the `updateMany` of `processAttendanceDate` |
| `Late`, `Overtime`, `DeviceRecord`, `RecordOf` | `calculateLateMinutes` and the arithmetic of `processAttendanceDate`, in seconds and rounded minutes |

An import of several punches is several `ImportLog` steps: its statements are in no
transaction, and one that fails half-way leaves the ones before. Two history variables:
`clean`, the run that no other run and no moved punch has interfered with, and
`disturbed`, the employees whose record was edited by hand, written by a run that was not
clean, or who lost or gained a punch to or from another employee. A clean run's
upsert takes the employee out of `disturbed` again.

### WhatsappMessages

| Model | Code |
|---|---|
| `accounts`, `messages` | tables WhatsappAccount (unborn, active, inactive) and WhatsappMessage; `times` are the dates among deliveredAt, readAt and failedAt that are set |
| `accepted`, `reported` | the provider (external): the messages it took, the notices it has of each |
| `CreateAccountFind`, `CreateAccountCommit` | `CreateWhatsappAccountHandler`: the rows `updateMany` finds; the insert and the commit |
| `SendBegin`, `CallAccepted`, `CallFails` | both send handlers up to the call; `sendTemplateMessage`, answered, refused or with its answer lost |
| `StoreSent`, `StoreFails`, `StoreFailed` | the row of the message; the insert failing; the `catch` of the order confirmation, which the receipt does not have (`Caught`) |
| `StatusFind`, `StatusUpdate` | the `findFirst` and the `update` of `processStatuses`, which writes back the times it found |
| `Receive`, `ReceiveStore` | `processIncomingMessages`: an active account found; the row |
| `Report` | the provider learning something of a message; its notices can then be delivered at any time, any number of times, in any order |

Each item of a webhook is a request of its own, since the handler treats them one after
the other and keeps nothing between them. A notice that finds no row changes nothing, so
it is no step. History variables: `handled`, the notices answered after an update;
`origin`, the send each row was written for, if the provider took it, also for a row that
says FAILED; `broken`, sends whose answer was lost or whose insert failed;
`blurred`, messages of which two notices were in progress at once; `alone` and `crowded`,
whether the creation of the last active account overlapped another.

### Measurements

| Model | Code |
|---|---|
| `categories`, `fields`, `measurements`, `values`, `items` | tables Category, MeasurementField, Measurement (customer and category), MeasurementValue (by measurement), OrderItem with the customer of its order |
| `CreateMeasurementField`, `UpdateMeasurementField` | the same; a field may move to another category or become required |
| `DeleteCategory`, `Restricts` | `deleteCategory` with the foreign keys: items, measurements and values restrict, fields go along |
| `CreateMeasurementBegin`, `CreateMeasurementCommit` | `createMeasurement`: `validateMeasurementOwnerData` and `validateMeasurementValues`; the row with its values |
| `UpdateMeasurementBegin`, `UpdateMeasurementCommit` | `updateMeasurement`: the read and the validation for the category named or else read; the transaction, whose first statement locks the row |
| `DeleteMeasurementBegin`, `DeleteMeasurementCommit` | `deleteMeasurement`: `_count` and refusal; the delete, which clears the items' measurementId |
| `SaveItemBegin`, `SaveItemCommit` | an item in the transaction of an order: `resolveMeasurementIdForOrderItem`; the insert |
| `MoveItem`, `RemoveItem` | `updateOrder` with another customer and no items; an order deleted or its items replaced |

A value is its field and whether anything was filled in, which is all that the validation
looks at. History variables: `blurred`, measurements whose values were written under, or
survived, a change that nothing checks them against (an update of the category without
values, another update between validation and write, a field moved or made
required); `astray`, items whose order or measurement was given to another customer or
category; `late`, items saved while their measurement was being deleted. Values that are
written anew from a good validation take the measurement out of `blurred`.

### OrderPricing

| Model | Code |
|---|---|
| `orders` | table Order, the columns with amounts, and what the order's items are worth |
| `CreateOrder` | `createOrder`: what is not named is computed; the transaction |
| `UpdateOrderRow`, `UpdateOrderItems` | `updateOrder`: `findFirst` is two statements, the row and (`include`) its items; then the amounts are computed |
| `UpdateOrderSave` | its transaction: the row, then the items if the request has the key `items` |
| `Balance`, `ResolvePaymentStatus`, `SourceItems`, `NextAdvance` | `Math.max(.., 0)`; `resolvePaymentStatus`; the choice of the list to sum, where `items: []` counts as none; the advance written |

Every amount of a request is optional. History variables: `recorded`, the advance
last named; `adrift`, orders whose total was named, or whose items were replaced by none or
by another request between read and write; `balanced` and `declared`, orders whose balance
and whose status are as a request named them; `overwritten`, orders whose advance was
written back as it was before another request recorded one. Nothing in the code notices any
of these.

Amounts are natural numbers of cents, the scale of the `Decimal(12, 2)` columns. The code
adds and subtracts JavaScript doubles and `CreateOrderDto` sets no limit on decimals, so
two things have to be said:

- Sums and differences of whole cents come out with an error far below half a cent over
  the range of the columns, so what PostgreSQL stores, rounded, is exact. But
  `resolvePaymentStatus` tests the balance before it is rounded. When the advance is
  exactly what is due a residue may remain, on either side of zero: items of 0.10 and 0.20
  with an advance of 0.30 leave 5.55e-17, and the order is stored as ADVANCE_PAID with a
  balance of 0.00. `Remains` is the set of outcomes of that test, both of them in
  this case, unless only a number was taken from itself.
- What a request names, and each line of its items, is assumed to have no fraction of a
  cent. The code does not refuse one: a unit price of 0.005 is stored as 0.01, and a total
  of such lines may differ from the sum of the stored lines. No property covers that.

The sums of `recalculateGroupOrderTotals` in `GroupOrders` are doubles too; they are stored
and compared with nothing, so that only the first point applies, and exact numbers are
right there.

### Seed

| Model | Code |
|---|---|
| `tenants`, `rows`, `shared` | tenants with the demo slug; their rows by name, each with its table and the rows it names; the upserts done |
| `Statements` | what `main` creates, in its order |
| `WipeOrder`, `Restricting`, `Clearing`, `FallsWith` | the tables the wipe empties, in its order; the foreign keys' actions in `schema.prisma` |
| `Start`, `Share`, `Find` | a run; the upserts of roles, permissions, grants and users; `findUnique` |
| `WipeRead`, `WipeTable`, `WipeCommit` | the transaction: measurement ids, one `deleteMany` after the other, the tenant and the commit |
| `CreateTenant`, `CreateRows` | the creation, a statement at a time, each committed by itself |
| `Fail`, `Stop` | a foreign or unique key, a missing row or a deadlock; a stopped process |
| `Add` | a request of the application that adds rows to the tenant meanwhile |

`disturbed` is a history variable: the runs that overlapped another run or an addition.
No code retries a run: a repeated run is a new `Start`, as a person would do it. The last
statement of the wipe, the delete of the tenant, always succeeds here: one that failed
would roll the transaction back and end the run as `Stop` does at that point.

## 4. What is checked

| Run | Bounds | Shows |
|---|---|---|
| group_one | 2 orders, 2 groups, 2 customers, 1 request | totals exact after every request, also when customers are deleted or a request is cut short (then in `disturbed`); groups deleted only when empty; a group delivered whole; GROUP_MEMBER orders have a group |
| group_two | 1 order, 2 groups, 1 customer, 2 requests, with fairness | under overlap an order's lines are in the totals, about to be written or owed a read; the ledger is kept; marked rows held; every request is answered |
| sessions | 2 browsers, 2 sessions, 2 requests, clock 0..3 | the cookie is the stored token, overlapping refreshes included, unless an answer was lost or overtaken; ended sessions stay ended; a refresh is granted for as long as the token presented allows and no longer |
| blocks_one | 2 blocks, 2 customers, 1 measurement, 1 request | one default; measurements outlive blocks |
| blocks_two | 1 block, 2 customers, 2 requests, with fairness | assignments as saved; saved customers assigned; one default unless unlocked replacements overlap; every request is answered, deadlocks included |
| blocks_defaults | 1 block, 2 customers, 2 requests | **violated**: two default customers |
| blocks_measured | 1 block, 1 measurement, 2 requests | **violated**: a measurement deleted with its block |
| attendance | 1 biometric id, 3 times, 2 employees, 2 requests | a processed punch is in its employee's record; processing again only widens a record |
| whatsapp | 2 accounts, 2 rows, 2 provider ids, 1 inbound id, 3 kinds of notice, 2 requests | no answered notice is lost from its row; one row at most for a message the provider took, which says what its notices said or, after a failure, FAILED; one active account |
| measurements | 1 field, 1 measurement, 1 item, 2 customers, 2 categories, 2 requests | values fit the category; items fit their measurement; counted items keep it |
| order_pricing | 1 order, lists worth 1 and 2 and the empty list, advance, total and balance named or not, 2 requests | the total of the items; balance and payment status agree with the amounts beside them, residues included; the advance |
| seed | 2 runs at a time, the tenant created twice, orders added meanwhile | a run alone succeeds; data complete; wiped whole or not at all; every run ends |

Why these bounds are enough to be of interest: two requests give every overlap of two
handlers, which is where all the read-then-write hazards lie; two groups let an order
move; two customers give two lists that differ; the clock reaches past a row's deadline
(1 second) while its token is good (3 seconds), and past a token's expiry;
the punches are 30 seconds before nine, a minute after it and at 17:30, so that
records are on time, late, with and without overtime, and are processed, added to
and processed again; a message with three notices can have them swapped, repeated and
handled at once with each other and with those of a second message, while one of the two
messages may be stored as FAILED or be an inbound one. The fourth notice, failed, is treated
like delivered and read and is left to the proofs. One measurement with one
field meets every pair of handlers on the same row, and two categories and customers let
field, measurement and item each move away from the other; the advance of 2 is below the
total of 3 a request can name, exactly what the list worth 2 costs and above the one worth
1, so that balances are positive, zero with and without a residue, and cut off at zero; courier charges and named payment statuses are left to the proofs. The
seed's data is the script's own; of the application's additions the run has the orders,
whose items restrict categories as blocks and measurements do. What the bounds do
not show, three requests at a time above all, the theorems cover for the properties
proved. Every ID is used once, as the database's cuids are; `MaxTime` and the finite
sets of IDs are the only bounds on behaviours, so deadlock checking is off where the
system may run out of IDs.

Each property has a mutant in `PROJECT.json`: a mistaken version of one definition, kept
next to it in the module, under which the run finds the property violated.

The two violations are described under "findings". Both have the same shape: a check in
one statement, the write in another, and no lock, version or serializable isolation in
between. `deleteGroupOrder` has it too (`group-orders.service.ts:391`): an order that
joins between the count and the delete loses its group, so `OnlyEmptyGroupsDeleted` and
`GroupMembersHaveGroup` are checked of one request at a time.

**Fairness.** Safety is checked, and proved, without it. `RequestsFinish` in `group_two` and `blocks_two` assumes that a
request that can go on does: Node.js runs every ready continuation and PostgreSQL every
statement (weak fairness), and a statement that waits for a row waits in that row's
queue, which PostgreSQL serves in order, so that it is not overtaken for ever (strong
fairness). A transaction waiting in a circle is ended by the deadlock detector, which is
part of the fair step as `Fail`. `RunsEnd` of the seed needs weak fairness only: a run that
waits for another one's rows waits until that one commits, fails or is
ended with it as a deadlock. No fairness is assumed of arrivals, of aborts, of a
stopped process or of the clock.

## 5. What is proved

All theorems hold for any values of the constants that satisfy the modules' `ASSUME`s: any
number of orders, groups, customers, sessions, blocks and concurrent requests.

**GroupOrdersProofs** (assumes finitely many order ids, needed for sums, and natural
amounts). `TotalsExact` alone is not inductive: it says nothing while recalculations are
under way. The inductive invariant `TotalsInv` adds `TotalsAnswered`: of a group that is
not disturbed, one request at most has read and not written, and the present orders are in
the stored totals, in what that request will write, or a read is still owed. A step that
changes a group's orders either owes a read afterwards or disturbs the group;
`RecalculateRead` exchanges an owed read for an exact snapshot; `RecalculateWrite`
exchanges the snapshot for exact totals. When no recalculation is under way the first two
cases are gone, which gives `TotalsAlwaysExact`. `LedgerAlwaysKept` is the refinement, for
any number of orders and requests: a step that changes a group's lines leaves its account
due (a read is owed, or the group is disturbed), the totals change only in
`RecalculateWrite`, where a recalculation was under way, and an account that stops being
due is exact by the same invariant. `KeptLedgerIsRight` says what the ledger is worth by
itself: whoever keeps it shows the right totals of every account that is not due.
`MarkedRowsAlwaysHeld` rests on the row locks: every action that changes an order requires
it unlocked.

Three properties of the module are not true of overlapping requests, since
`deleteGroupOrder` and `markDelivered` decide on what an earlier statement saw. They are
proved under a hypothesis on the behaviour, `[]OneAtATime`: no two requests stand between
two of their statements at once (requests of one statement may still come in between). Any
number of requests may be made, one after the other. Under it the invariant `AloneInv`
says that what `deleteGroupOrder` counted and the rows `markDelivered` has in hand are
still all there is, which gives `DeletesOnlyEmptyGroups` and `DeliversTogether`.
`MembersLoseGroupsByDeletes` needs no such hypothesis: however requests overlap, a
GROUP_MEMBER order is left without its group only in a behaviour in which a group with
orders or payments was deleted, so this race is the one cause. `MembersAlwaysHaveGroup`
puts the two together.

**SessionsProofs** (assumes natural lifetimes and that `None` is no request). `SessionInv`
adds to `CookieGood` whose a session is (`Owned`) and that the request in `undelivered` is
about to answer with the very token that is stored (`Pending`); outside `astray`, once
that answer is given, the cookies are the stored token. Nothing is assumed of how many
refreshes of a session are under way. `SessionsEndForGood` is a fact about every step: the only
writer of ACTIVE is `LoginCreate`, on a row that does not exist yet. `RefreshesComeInTime`
needs more, because token and deadline are computed in one statement and stored in a later
one: `LifetimeInv` adds that the two a request is about to store belong together
(`DatesTogether`) and that the two columns of a row do (`ColumnsTogether`), whichever
request wrote last. It has no exception for overlaps or lost answers.

**BlocksProofs** (assumes finitely many customers, and that `None` is no id). For
`AssignmentsAsSaved` the inductive `BlocksInv` adds that the lock of a block's row has one
holder at most, that a block not in `overlapped` has one open replacement at most, and
that what this one has found to delete is all there is. `SavedCustomersAlwaysAssigned`
needs no lock: it holds under every overlap. `OneDefaultAlways` follows: outside
`overlapped` the assignments are a part of the list last saved, which
`validateCustomerAssignments` let pass. `BlocksKeepOneDefault` turns that into the plain
promise: as long as no two replacements of one block's customers are under way at once
(`OneReplacement`), whatever other requests are, every stored block has one default at
most.

`MeasurementsStayWhileCountStands` isolates the gap of `deleteBlock`: however requests
overlap, no measurement goes with its block if what it counted still stands when it locks
the block's row (`CountStands`). From the lock to the commit nothing more is needed: the
foreign key keeps every other row from naming the block. The violated run is the case left
out. `MeasurementsStayAlone` shows that with one request `CountStands` holds.

**AttendanceProofs** (assumes that times are naturals and `None` is no employee).
`RecordsSupported` says nothing of what a run holds, which the table and the record are
about to depend on. The inductive invariant `SheetInv` adds: a clean run runs alone, what
it holds is still attributed as it was when read, and of each employee it still has to do
it holds every processed punch; what any run holds is still so or its employees are
disturbed; a run about to mark an undisturbed employee has just written the record of the
punches it will mark, and is the only one about to.

`RecordsOnlyWiden` needs of a record that is there from before which punches it was made
of: `WidenInv` adds that the punches of an undisturbed record are still the employee's and
within what any clean run has found for that employee (`RecordsHeld`), and that the
punches read so far are finitely many, which imports, one at a time, make them. A record
is made of the first and the last punch; that a larger set has a first no later and a last
no earlier rests on the lemma `Extremes`: a finite set of numbers that is not empty has a
least and a greatest. It is proved without induction, by a smallest counterexample: the
library's theorem that strict inclusion of finite sets is well-founded gives a smallest
set with no extremes, and a number less in it contradicts that.

**WhatsappMessagesProofs** (assumes the kinds of notices, that sent and inbound ids
differ, and that `None` is neither). `NoticesKept` and `RowsOfSends` are proved
together with what makes them inductive, `NoticeInv`: the row with a send's id is the row
written for it, and a send with a row yet to be stored has none and belongs to one
request; an answered notice has a row; what a request found is within the answered notices
of that message, and outside `blurred` it is what the row still has, with no other request
at that message.
`OneActiveAccount` follows from `AccountInv`: a creation that none has overlapped found
every account that is active until it commits.

**MeasurementsProofs** (assumes that `None` is no id). `ValuesFit` looks at the tables
only; `FitInv` adds that the list of every request that is not stale fits the category it
was validated for. `ItemInv` does the same for the measurement an item's transaction has
found, and `LateInv` says that while a measurement is being deleted every item that uses
it is in `late`, so that `CountedItemsAlwaysKept` is a fact about each step.

**OrderPricingProofs** (assumes natural amounts and that `None` and the empty list are
neither). `PricingInv` adds to the three properties what they need of an update that has
computed its amounts and not written them: the total is the sum of the list it will leave
behind unless that was replaced meanwhile, the balance and the status are right for them,
and its advance is the one recorded unless another was since. `PaymentTrue` shows the
second of these for either outcome of the test in `Remains`. The theorems cover courier
charges and named payment statuses, which the run leaves out.

**SeedProofs** (assumes that `None` is no tenant and that additions are those of the
model). `CreatedKept` says, for a run at its i-th statement whose tenant is stored, that
the rows of the statements before are there; `WipedWhole` is what keeps them there, and a
fact about each step, since the only step that takes rows is the commit that takes the
tenant. Those proofs use nothing of the data but that every statement's rows have names.

`AloneAlwaysSucceeds` depends on the whole of the data. Its invariant `AloneInv` says that
a run not in `disturbed` is the only one running; that its wipe has left nothing, of the
tables it has emptied, in what its transaction still sees; and that the tenant it creates
has exactly the rows of the statements behind it. Three facts about the script then make
every statement succeed, and they are proved from `Statements`, `Additions`, `WipeOrder`
and the foreign keys as the module has them: a statement names rows of earlier ones only
(`NeededBefore`); orders are created by one statement (`OneStatementOfOrders`), so that
their numbers cannot collide; and a row that keeps another from being deleted has itself
been deleted by then, or goes with it (`KeepersFall`). The last one holds for a tenant
with any part of the data in it, which is what stopped runs leave. The values are the
exception it makes: the wipe takes only those of the measurements it has read, and the
others go with their measurement.

**What is only model-checked.** The liveness properties, `RequestsFinish` of `group_two`
and `blocks_two` and `RunsEnd` of `seed`: fairness and ENABLED are outside the prover.
Every other property of a passing run is stated by a theorem, for any values of the
constants; the five that need requests not to overlap say so in their statement. The two
violated properties are the same two, `OneDefault` and `MeasurementsOutliveBlocks`,
without that condition. Of sums the proofs use only that equal sets of lines have equal
sums: what a fold over a set adds up to is left to TLC, since the library's induction
theorems take an operator as a parameter, which the provers cannot instantiate.

## 6. What is not modelled

Reads, lists and lookups; audit rows; formatting; users, roles, guards, health and
configuration, which have no state that requests race for; attendance devices; creating
and renaming categories and customers; `verifyMeasurement`, whose columns no
other handler reads. Numbers and inline measurement values: see section 2. Of the seed,
the contents of the columns, the grants among them, are left out; so are migrations, which
are applied before the program runs.
Tenants are left out, and each module is one tenant (`Seed` is about the demo tenant's
successive rows): queries filter by tenant, with the exception of the webhook, which looks
up rows by the provider's ids, `whatsappMessageId`
(`process-whatsapp-webhook.handler.ts:40`) and the account's phone number id. `Sends` are
unique at the provider, so that such a row is the message's own in whatever tenant. A
process crash is `Abort` of the requests it served; the only recovery the repository has
is to run the seed again, which `Seed` models.
