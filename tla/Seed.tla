-------------------------------- MODULE Seed --------------------------------
(***************************************************************************)
(* The demo data (prisma/seed.ts).  A run of the seed first brings what    *)
(* all tenants share up to date with upserts, then deletes the demo tenant *)
(* with everything in it, if there is one, in one transaction, and creates *)
(* it anew statement by statement in none.  A run that stops half-way      *)
(* leaves a partial tenant, which the next run has to get rid of.          *)
(*                                                                         *)
(* The transaction is at READ COMMITTED: each deleteMany takes the rows    *)
(* that are committed when it starts, and waits for those that another     *)
(* transaction is deleting.  A row that names another waits for a          *)
(* transaction that is deleting that one.                                  *)
(*                                                                         *)
(* Abstractions.  A row is its table and the rows of the tenant it names;  *)
(* columns, the user and role rows named, and the tenant, which every row  *)
(* names, are not spelled out.  Rows that successive statements add to one *)
(* table are one step: a run stopped between two of them is as one stopped *)
(* before.  Rows of one statement that name the same rows are one row.     *)
(* The application, meanwhile, only adds rows.                             *)
(***************************************************************************)
EXTENDS Naturals, Sequences, FiniteSets

CONSTANTS Seeds,      \* runs of the seed at the same time
          Tenants,    \* ids of the demo tenant; a bound on how often it is created
          Writes,     \* what the application may add to it, among Additions
          None

ASSUME NoneAssumption == None \notin Tenants

VARIABLES tenants,    \* whether each id is unborn, stored or deleted
          rows,       \* the rows of each tenant, by name
          shared,     \* what all tenants share: the upserts done so far
          run,        \* where each run of the seed stands
          disturbed   \* history: runs that overlapped another or an addition

vars == <<tenants, rows, shared, run, disturbed>>

----------------------------------------------------------------------------
(* The data. *)

\* A set of rows is a function from their names.
New(table, refs, names) == [n \in names |-> [table |-> table, refs |-> refs]]
Together(data) == [n \in UNION {DOMAIN d : d \in data} |-> (CHOOSE d \in data : n \in DOMAIN d)[n]]

Catalogue ==
  << New("membership", {}, {"memberships"}),
     New("category", {}, {"sareeCategory", "uniformCategory", "otherCategory"}),
     Together({New("measurementField", {"sareeCategory"}, {"sareeFields"}),
               New("measurementField", {"uniformCategory"}, {"uniformFields"}),
               New("measurementField", {"otherCategory"}, {"otherField"})}) >>

CustomersAndBlocks ==
  << New("customer", {}, {"dinesha", "kaveesha", "nimali", "chamari"}),
     Together({New("block", {"sareeCategory"}, {"sareeBlockDinesha"}),
               New("block", {"uniformCategory"},
                   {"uniformBlockDinesha", "uniformBlockKaveesha", "uniformBlockNimali"})}),
     Together({New("customerBlock", {"dinesha", "sareeBlockDinesha"}, {"dineshasSaree"}),
               New("customerBlock", {"dinesha", "uniformBlockDinesha"}, {"dineshasUniform"}),
               New("customerBlock", {"kaveesha", "uniformBlockKaveesha"}, {"kaveeshasUniform"}),
               New("customerBlock", {"nimali", "uniformBlockNimali"}, {"nimalisUniform"})}) >>

MeasurementsTaken ==
  << New("measurement", {"dinesha", "uniformBlockDinesha", "uniformCategory"},
         {"dineshaUniformMeasurement"}),
     New("measurementValue", {"dineshaUniformMeasurement", "uniformFields"}, {"values1"}),
     New("measurement", {"dinesha", "sareeBlockDinesha", "sareeCategory"},
         {"dineshaSareeMeasurement"}),
     New("measurementValue", {"dineshaSareeMeasurement", "sareeFields"}, {"values2"}),
     New("measurement", {"kaveesha", "uniformBlockKaveesha", "uniformCategory"},
         {"kaveeshaUniformMeasurement"}),
     New("measurementValue", {"kaveeshaUniformMeasurement", "uniformFields"}, {"values3"}),
     New("measurement", {"nimali", "uniformBlockNimali", "uniformCategory"},
         {"nimaliUniformMeasurement"}),
     New("measurementValue", {"nimaliUniformMeasurement", "uniformFields"}, {"values4"}) >>

OrdersPlaced ==
  << New("groupOrder", {"dinesha"}, {"groupOrder"}),
     Together({New("order", {"dinesha"}, {"individualOrder"}),
               New("orderItem", {"individualOrder", "uniformCategory", "uniformBlockDinesha",
                                 "dineshaUniformMeasurement"}, {"item1"}),
               New("order", {"kaveesha", "groupOrder"}, {"groupMemberOrderOne"}),
               New("orderItem", {"groupMemberOrderOne", "uniformCategory",
                                 "uniformBlockKaveesha", "kaveeshaUniformMeasurement"}, {"item2"}),
               New("order", {"nimali", "groupOrder"}, {"groupMemberOrderTwo"}),
               New("orderItem", {"groupMemberOrderTwo", "uniformCategory",
                                 "uniformBlockNimali", "nimaliUniformMeasurement"}, {"item3"}),
               New("order", {"chamari"}, {"sareeOrder"}),
               New("orderItem", {"sareeOrder", "sareeCategory"}, {"item4"})}) >>

PaymentsMade ==
  << Together({New("payment", {"individualOrder", "dinesha"}, {"paymentOne"}),
               New("payment", {"groupMemberOrderOne", "groupOrder", "kaveesha"}, {"paymentTwo"}),
               New("payment", {"groupOrder", "dinesha"}, {"paymentThree"})}) >>

AttendanceKept ==
  << New("employee", {}, {"tailorOne", "tailorTwo"}),
     New("attendanceDevice", {}, {"attendanceDevice"}),
     Together({New("attendanceLog", {"tailorOne", "attendanceDevice"}, {"logsOne"}),
               New("attendanceLog", {"tailorTwo", "attendanceDevice"}, {"logsTwo"})}),
     Together({New("attendanceRecord", {"tailorOne"}, {"recordOne"}),
               New("attendanceRecord", {"tailorTwo"}, {"recordTwo"})}) >>

WhatsappSent ==
  << New("whatsappAccount", {}, {"whatsappAccount"}),
     New("whatsappTemplate", {"whatsappAccount"}, {"orderReadyTemplate", "paymentTemplate"}),
     Together({New("whatsappMessage",
                   {"whatsappAccount", "dinesha", "individualOrder", "paymentOne"}, {"message1"}),
               New("whatsappMessage", {"whatsappAccount", "kaveesha", "groupMemberOrderOne",
                                       "groupOrder", "paymentTwo"}, {"message2"}),
               New("whatsappMessage", {"whatsappAccount", "dinesha", "groupOrder"},
                   {"message3"})}),
     New("auditLog", {}, {"auditLogs"}) >>

\* What main adds to the tenant, in its order.
Statements ==
  Catalogue \o CustomersAndBlocks \o MeasurementsTaken \o OrdersPlaced \o PaymentsMade
    \o AttendanceKept \o WhatsappSent

\* What requests of the application may add: a measurement with its values, a block, an
\* order with its item, a customer.
Additions ==
  { Together({New("measurement", {"dinesha", "uniformCategory"}, {"newMeasurement"}),
              New("measurementValue", {"newMeasurement", "uniformFields"}, {"newValues"})}),
    New("block", {"uniformCategory"}, {"newBlock"}),
    Together({New("order", {"dinesha"}, {"newOrder"}),
              New("orderItem", {"newOrder", "uniformCategory"}, {"newItem"})}),
    New("customer", {}, {"newCustomer"}) }

ASSUME WritesAssumption == Writes \subseteq Additions

Data == {Statements[i] : i \in DOMAIN Statements} \cup Additions
Seeded == UNION {DOMAIN Statements[i] : i \in DOMAIN Statements}
Names == UNION {DOMAIN data : data \in Data}
RowOf == Together(Data)
TableOf(n) == RowOf[n].table

----------------------------------------------------------------------------
(* What goes with a row that is deleted, and what keeps it. *)

Restricting ==
  {<<"block", "category">>, <<"measurement", "category">>, <<"orderItem", "category">>,
   <<"measurementValue", "measurementField">>}
Clearing ==
  {<<"orderItem", "block">>, <<"orderItem", "measurement">>, <<"groupOrder", "customer">>,
   <<"order", "groupOrder">>, <<"attendanceLog", "employee">>,
   <<"attendanceLog", "attendanceDevice">>}
    \cup {"payment", "whatsappMessage"} \X {"customer", "order", "groupOrder", "payment"}

\* The rows that a delete of rows of a table takes: those rows and what cascades from them.
\* No chain of cascades in a tenant is longer than that of a customer, its measurement and
\* the values.
Parents(n) ==
  {p \in RowOf[n].refs : <<TableOf(n), TableOf(p)>> \notin Restricting \cup Clearing}
Above(n) == {n} \cup Parents(n) \cup UNION {Parents(p) : p \in Parents(n)}
FallsWith == UNION {{<<n, TableOf(p)>> : p \in Above(n)} : n \in Names}
\* The rows that keep others from being deleted.
Keeps ==
  UNION {{<<n, p>> : p \in {p \in RowOf[n].refs : <<TableOf(n), TableOf(p)>> \in Restricting}}
           : n \in Names}

\* The tables in the order in which main empties them.  (CatalogueFirst is a mistake:
\* blocks and measurements come after their categories.)
CatalogueFirst ==
  << "measurementField", "category", "measurement", "customerBlock", "block" >>
WipeCatalogue ==
  << "measurement", "customerBlock", "block", "measurementField", "category" >>
WipeOrder ==
  << "measurementValue", "whatsappMessage", "whatsappTemplate", "whatsappAccount", "auditLog",
     "attendanceRecord", "attendanceLog", "attendanceDevice", "payment", "order",
     "groupOrder" >> \o WipeCatalogue \o << "employee", "customer", "membership" >>

\* What seedRolesAndPermissions and seedUsers upsert.
Upserts == << "roles", "permissions", "grants", "users" >>

----------------------------------------------------------------------------
(* A run of the seed.  at is the statement it stands before, tenant the one    *)
(* it deletes or creates, ids the measurements its wipe has read, gone the     *)
(* rows its open transaction has deleted.                                      *)

Idle == [pc |-> "idle", at |-> 1, tenant |-> None, ids |-> {}, gone |-> {}]
Ends == {"idle", "done", "failed", "stopped"}
Running(s) == run[s].pc \notin Ends
Stored == {t \in Tenants : tenants[t] = "stored"}
Unborn == {t \in Tenants : tenants[t] = "unborn"}

TypeOK ==
  /\ tenants \in [Tenants -> {"unborn", "stored", "deleted"}]
  /\ \A t, u \in Stored : t = u
  /\ rows \in [Tenants -> SUBSET Names]
  /\ \A t \in Tenants : rows[t] # {} => t \in Stored
  /\ shared \in SUBSET {Upserts[i] : i \in DOMAIN Upserts}
  /\ run \in [Seeds -> [pc : Ends \cup {"share", "find", "read", "wipe", "create"}, at : Nat,
                        tenant : Tenants \cup {None}, ids : SUBSET Names, gone : SUBSET Names]]
  /\ \A s \in Seeds :
       /\ run[s].pc = "share" => run[s].at \in DOMAIN Upserts
       /\ run[s].pc = "create" => run[s].at \in DOMAIN Statements
       /\ run[s].pc \in {"read", "wipe", "done"} => run[s].tenant \in Tenants
  /\ disturbed \in SUBSET Seeds

Init ==
  /\ tenants = [t \in Tenants |-> "unborn"]
  /\ rows = [t \in Tenants |-> {}]
  /\ shared = {}
  /\ run = [s \in Seeds |-> Idle]
  /\ disturbed = {}

Goto(s, r) == run' = [run EXCEPT ![s] = r]
\* The rows of tenant t that transactions other than s's are deleting.
Held(s, t) == UNION {run[v].gone : v \in {v \in Seeds \ {s} : run[v].tenant = t}}

\* A tenant is left for every run, which bounds how many are started.
Start(s) ==
  /\ ~Running(s)
  /\ Cardinality({v \in Seeds : Running(v)}) < Cardinality(Unborn)
  /\ Goto(s, [Idle EXCEPT !.pc = "share"])
  /\ LET others == {v \in Seeds : v # s /\ Running(v)}
     IN disturbed' = IF others = {} THEN disturbed \ {s} ELSE disturbed \cup others \cup {s}
  /\ UNCHANGED <<tenants, rows, shared>>

Share(s) ==
  LET r == run[s]
  IN /\ r.pc = "share"
     /\ shared' = shared \cup {Upserts[r.at]}
     /\ Goto(s, IF r.at = Len(Upserts) THEN [Idle EXCEPT !.pc = "find"]
                                       ELSE [r EXCEPT !.at = @ + 1])
     /\ UNCHANGED <<tenants, rows, disturbed>>

Find(s) ==
  /\ run[s].pc = "find"
  /\ \/ \E t \in Stored : Goto(s, [Idle EXCEPT !.pc = "read", !.tenant = t])
     \/ Stored = {} /\ Goto(s, [Idle EXCEPT !.pc = "create"])
  /\ UNCHANGED <<tenants, rows, shared, disturbed>>

----------------------------------------------------------------------------
(* The wipe. *)

WipeRead(s) ==
  /\ run[s].pc = "read"
  /\ Goto(s, [run[s] EXCEPT !.pc = "wipe",
                !.ids = {n \in rows[run[s].tenant] : TableOf(n) = "measurement"}])
  /\ UNCHANGED <<tenants, rows, shared, disturbed>>

\* What the transaction still finds in the tenant, and what its next statement takes from
\* there: a table's rows, of the values only those of the measurements read, with the rows
\* below them, and in the end all that is left.
Left(s) == rows[run[s].tenant] \ run[s].gone
Falls(s, n) ==
  \/ run[s].at > Len(WipeOrder)
  \/ /\ <<n, WipeOrder[run[s].at]>> \in FallsWith
     /\ WipeOrder[run[s].at] = "measurementValue" => RowOf[n].refs \cap run[s].ids # {}
Taken(s) == {n \in Left(s) : Falls(s, n)}
\* The rows that the statement does not take and that keep rows it would take.
Keeping(s) ==
  LET Matters(q) == Falls(s, q[2]) /\ ~Falls(s, q[1]) /\ {q[1], q[2]} \subseteq Left(s)
  IN {q[1] : q \in {q \in Keeps : Matters(q)}}

\* (WipeTableAlone is a mistake: the statement is not the transaction's.)
WipeTableAlone(s) ==
  /\ run[s].pc = "wipe" /\ run[s].at <= Len(WipeOrder)
  /\ Taken(s) \cap Held(s, run[s].tenant) = {} /\ Keeping(s) = {}
  /\ rows' = [rows EXCEPT ![run[s].tenant] = @ \ Taken(s)]
  /\ Goto(s, [run[s] EXCEPT !.at = @ + 1])
  /\ UNCHANGED <<tenants, shared, disturbed>>
WipeTable(s) ==
  /\ run[s].pc = "wipe" /\ run[s].at <= Len(WipeOrder)
  /\ Taken(s) \cap Held(s, run[s].tenant) = {} /\ Keeping(s) = {}
  /\ Goto(s, [run[s] EXCEPT !.at = @ + 1, !.gone = @ \cup Taken(s)])
  /\ UNCHANGED <<tenants, rows, shared, disturbed>>

\* tenant.delete, whose cascades take what is left, and the commit.
WipeCommit(s) ==
  LET t == run[s].tenant
  IN /\ run[s].pc = "wipe" /\ run[s].at > Len(WipeOrder)
     /\ t \in Stored /\ Taken(s) \cap Held(s, t) = {}
     /\ tenants' = [tenants EXCEPT ![t] = "deleted"]
     /\ rows' = [rows EXCEPT ![t] = {}]
     /\ Goto(s, [Idle EXCEPT !.pc = "create"])
     /\ UNCHANGED <<shared, disturbed>>

----------------------------------------------------------------------------
(* The creation. *)

\* No two tenants have the same slug.
CreateTenant(s) ==
  /\ run[s].pc = "create" /\ run[s].tenant = None /\ Stored = {}
  /\ \E t \in Unborn : /\ tenants' = [tenants EXCEPT ![t] = "stored"]
                       /\ Goto(s, [run[s] EXCEPT !.tenant = t])
  /\ UNCHANGED <<rows, shared, disturbed>>

\* The rows that data names, unless they are created with it.
Needed(data) == (UNION {data[n].refs : n \in DOMAIN data}) \ DOMAIN data

\* The tenant is there to be named by the rows.  (Created is a mistake: it was there once.)
Created(s) == run[s].pc = "create" /\ run[s].tenant # None
Present(s) == run[s].pc = "create" /\ run[s].tenant \in Stored

CreateRows(s) ==
  LET r == run[s]
      data == Statements[r.at]
  IN /\ Present(s)
     /\ Needed(data) \subseteq rows[r.tenant] \ Held(s, r.tenant)
     /\ rows' = [rows EXCEPT ![r.tenant] = @ \cup DOMAIN data]
     /\ Goto(s, IF r.at = Len(Statements) THEN [r EXCEPT !.pc = "done"]
                                          ELSE [r EXCEPT !.at = @ + 1])
     /\ UNCHANGED <<tenants, shared, disturbed>>

----------------------------------------------------------------------------
(* Failures. *)

\* s and another transaction wait for rows of each other: PostgreSQL ends one of them.
Wanted(s) == IF run[s].pc = "wipe" THEN Taken(s) \cup Keeping(s) ELSE {}
Deadlocked(s) ==
  \E v \in Seeds \ {s} : /\ run[v].tenant = run[s].tenant
                         /\ Wanted(s) \cap run[v].gone # {} /\ Wanted(v) \cap run[s].gone # {}

\* A restricting key, a tenant or a row that is gone, a slug or a row's parent that is
\* not there.  (MustFailButCreate is a mistake: missing parents are not reported.)
WipeFails(s) ==
  /\ run[s].pc = "wipe"
  /\ \/ Keeping(s) \ Held(s, run[s].tenant) # {}
     \/ run[s].at > Len(WipeOrder) /\ run[s].tenant \notin Stored
MustFailButCreate(s) == WipeFails(s) \/ Deadlocked(s)
MustFail(s) ==
  \/ WipeFails(s) \/ Deadlocked(s)
  \/ /\ run[s].pc = "create"
     /\ IF run[s].tenant = None THEN Stored # {}
        ELSE \/ run[s].tenant \notin Stored
             \/ ~(Needed(Statements[run[s].at]) \subseteq rows[run[s].tenant])

\* An order of the application may have the number of one of the seed's.
Collides(s) ==
  /\ Present(s)
  /\ \E n \in DOMAIN Statements[run[s].at] : TableOf(n) = "order"
  /\ \E n \in rows[run[s].tenant] : TableOf(n) = "order"

\* The transaction is rolled back; what was created stays.
Fail(s) ==
  /\ MustFail(s) \/ Collides(s)
  /\ Goto(s, [Idle EXCEPT !.pc = "failed"])
  /\ UNCHANGED <<tenants, rows, shared, disturbed>>

Stop(s) ==
  /\ Running(s)
  /\ Goto(s, [Idle EXCEPT !.pc = "stopped"])
  /\ UNCHANGED <<tenants, rows, shared, disturbed>>

----------------------------------------------------------------------------
(* The application. *)

Add(t, data) ==
  /\ t \in Stored /\ DOMAIN data \cap rows[t] = {}
  /\ Needed(data) \subseteq rows[t] \ Held(None, t)
  /\ rows' = [rows EXCEPT ![t] = @ \cup DOMAIN data]
  /\ disturbed' = disturbed \cup {s \in Seeds : Running(s)}
  /\ UNCHANGED <<tenants, shared, run>>

----------------------------------------------------------------------------
Progress(s) ==
  \/ Share(s) \/ Find(s) \/ WipeRead(s) \/ WipeTable(s) \/ WipeCommit(s)
  \/ CreateTenant(s) \/ CreateRows(s) \/ Fail(s)

Next ==
  \/ \E s \in Seeds : Start(s) \/ Progress(s) \/ Stop(s)
  \/ \E t \in Tenants, data \in Writes : Add(t, data)

Spec == Init /\ [][Next]_vars

\* Node.js goes on with a run whose statement is answered, and PostgreSQL answers a
\* statement that need not wait.
FairSpec == Spec /\ \A s \in Seeds : WF_vars(Progress(s))

----------------------------------------------------------------------------
(* Properties. *)

\* A run that overlaps no other and no request of the application never meets a statement
\* that fails, whatever a stopped run has left and the application has added before: the
\* wipe deletes in an order the foreign keys allow, the creation names only rows there are.
AloneSucceeds == \A s \in Seeds \ disturbed : run[s].pc # "failed"

\* A run that has ended well leaves its tenant with all the data, however it overlapped
\* others: a tenant deleted under it makes it fail, and the wipe of a later run shows
\* nothing before it has deleted the tenant.
DoneWhole ==
  \A s \in Seeds : run[s].pc = "done" /\ run[s].tenant \in Stored =>
    Seeded \subseteq rows[run[s].tenant]

\* No wipe takes rows from a tenant that stays.
WipedWhole == [][\A t \in Stored : t \in Stored' => rows[t] \subseteq rows'[t]]_vars

\* Every run comes to an end, also when two wait for each other.
RunsEnd == \A s \in Seeds : Running(s) ~> ~Running(s)
=============================================================================
