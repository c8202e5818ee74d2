---------------------------- MODULE Measurements ----------------------------
(***************************************************************************)
(* Measurement fields, measurements with their values, and the order items *)
(* made to them (measurements.service.ts, the items of orders.service.ts,  *)
(* the delete of categories.service.ts).                                   *)
(*                                                                         *)
(* A value belongs to a field, and the fields belong to a category, as the *)
(* measurement does.  Every handler reads and validates first and writes   *)
(* afterwards; what it validated against may have changed by then, and an  *)
(* update that names a category but no values leaves the values of the old *)
(* category behind.  The database is PostgreSQL at READ COMMITTED; an      *)
(* update's transaction locks the measurement's row with its first         *)
(* statement, so what it does after that is one step here.                 *)
(*                                                                         *)
(* Abstractions.  A value is its field and whether anything was filled in. *)
(* Numbers, versions, notes, blocks and isActive flags are not represented:*)
(* a validation that also looks at them accepts less than the one here.    *)
(* verifyMeasurement, which writes the verification columns that no other  *)
(* handler reads, leaves everything that is represented as it is.          *)
(* An order item is its category, its measurement and the customer of its  *)
(* order.  An item with inline values is not represented: the row it       *)
(* creates names columns that measurement_values does not have, so that    *)
(* its transaction is always rolled back.                                  *)
(***************************************************************************)
EXTENDS FiniteSets

CONSTANTS Fields, Measurements, Items,  \* ids; bounds on how many are created
          Customers,                    \* all of them stored
          Categories,                   \* those stored at the start
          Requests,                     \* requests being served at the same time
          None

ASSUME MeasurementsAssumption ==
  None \notin Fields \cup Measurements \cup Items \cup Customers \cup Categories

VARIABLES categories,    \* the ids in the categories table
          fields,        \* the measurement_fields table
          measurements,  \* the measurements table
          values,        \* measurement_values, by measurement
          items,         \* the order_items table
          req,           \* where each request being served stands
          blurred,       \* history: measurements whose values nobody vouches for
          astray,        \* history: items whose measurement nobody vouches for
          late           \* history: items saved while their measurement was being deleted

vars == <<categories, fields, measurements, values, items, req, blurred, astray, late>>

Rows == {"unborn", "stored", "deleted"}  \* ids are cuids, never reused
Value == [field : Fields, filled : BOOLEAN]

FieldRow == [row : Rows, category : Categories \cup {None}, required : BOOLEAN]
MeasurementRow == [row : Rows, customer : Customers \cup {None}, category : Categories \cup {None}]
ItemRow == [row : Rows, customer : Customers \cup {None}, category : Categories \cup {None},
            measurement : Measurements \cup {None}]
UnbornField == [row |-> "unborn", category |-> None, required |-> FALSE]
UnbornMeasurement == [row |-> "unborn", customer |-> None, category |-> None]
UnbornItem == [row |-> "unborn", customer |-> None, category |-> None, measurement |-> None]
Gone(row) == [row EXCEPT !.row = "deleted"]

StoredFields == {f \in Fields : fields[f].row = "stored"}
StoredMeasurements == {m \in Measurements : measurements[m].row = "stored"}
StoredItems == {i \in Items : items[i].row = "stored"}
FieldsOf(k) == {f \in StoredFields : fields[f].category = k}
FieldsIn(list) == {v.field : v \in list}
ItemsOf(m) == {i \in StoredItems : items[i].measurement = m}

(***************************************************************************)
(* A request being served.                                                 *)
(*   create    createMeasurement has validated the list of category        *)
(*   update    updateMeasurement has validated the list, if it is not      *)
(*             empty, for the category in checked; customer and category   *)
(*             are what it names, or None                                  *)
(*   remove    deleteMeasurement has counted the items of measurement      *)
(*   attach    the transaction of an order has found measurement for the   *)
(*             customer and category of item                               *)
(* stale is set, for the history variables only, when what the request has *)
(* validated against changes.                                              *)
(***************************************************************************)
Request ==
  [pc : {"idle", "create", "update", "remove", "attach"},
   measurement : Measurements \cup {None}, item : Items \cup {None},
   customer : Customers \cup {None}, category : Categories \cup {None},
   checked : Categories \cup {None}, list : SUBSET Value, stale : BOOLEAN]
Idle == [pc |-> "idle", measurement |-> None, item |-> None, customer |-> None,
         category |-> None, checked |-> None, list |-> {}, stale |-> FALSE]

\* Besides types, TypeOK says what the foreign keys keep: what a stored row refers to is
\* stored, and a measurement that is not stored has no values.
TypeOK ==
  /\ categories \in SUBSET Categories
  /\ fields \in [Fields -> FieldRow]
  /\ measurements \in [Measurements -> MeasurementRow]
  /\ values \in [Measurements -> SUBSET Value]
  /\ items \in [Items -> ItemRow]
  /\ req \in [Requests -> Request]
  /\ \A f \in StoredFields : fields[f].category \in categories
  /\ \A m \in Measurements :
       IF m \in StoredMeasurements
       THEN measurements[m].category \in categories /\ FieldsIn(values[m]) \subseteq StoredFields
       ELSE values[m] = {}
  /\ \A i \in StoredItems :
       /\ items[i].category \in categories
       /\ items[i].measurement \in StoredMeasurements \cup {None}
  /\ \A w \in Requests :
       /\ req[w].pc \in {"create", "update", "remove"} => req[w].measurement \in Measurements
       /\ req[w].pc = "attach" => req[w].item \in Items
  /\ blurred \in SUBSET Measurements /\ astray \in SUBSET Items /\ late \in SUBSET Items

Init ==
  /\ categories = Categories
  /\ fields = [f \in Fields |-> UnbornField]
  /\ measurements = [m \in Measurements |-> UnbornMeasurement]
  /\ values = [m \in Measurements |-> {}]
  /\ items = [i \in Items |-> UnbornItem]
  /\ req = [w \in Requests |-> Idle]
  /\ blurred = {} /\ astray = {} /\ late = {}

----------------------------------------------------------------------------
(* Fields. *)

\* Requests that hold a list in which a value of f is now out of place.
StaleFor(f) ==
  [w \in Requests |-> IF f \in FieldsIn(req[w].list) THEN [req[w] EXCEPT !.stale = TRUE]
                                                      ELSE req[w]]

CreateMeasurementField(w, f, k, required) ==
  /\ req[w].pc = "idle" /\ fields[f].row = "unborn" /\ k \in categories
  /\ fields' = [fields EXCEPT ![f] = [row |-> "stored", category |-> k, required |-> required]]
  /\ UNCHANGED <<categories, measurements, values, items, req, blurred, astray, late>>

\* A field moves to another category, or becomes required, under the values it has.
UpdateMeasurementField(w, f, k, required) ==
  LET moved == k # fields[f].category \/ (required /\ ~fields[f].required)
  IN /\ req[w].pc = "idle" /\ f \in StoredFields
     /\ k \in categories
     /\ fields' = [fields EXCEPT ![f] = [row |-> "stored", category |-> k, required |-> required]]
     /\ req' = IF moved THEN StaleFor(f) ELSE req
     /\ blurred' = IF moved THEN blurred \cup {m \in Measurements : f \in FieldsIn(values[m])}
                            ELSE blurred
     /\ UNCHANGED <<categories, measurements, values, items, astray, late>>

\* The delete of a category: order items, measurements and the values of its fields
\* stop it, and its fields go with it.  (RestrictsRows is a mistake.)
RestrictsRows(k) ==
  \/ \E i \in StoredItems : items[i].category = k
  \/ \E m \in StoredMeasurements : measurements[m].category = k
Restricts(k) ==
  \/ \E i \in StoredItems : items[i].category = k
  \/ \E m \in StoredMeasurements : measurements[m].category = k
  \/ \E m \in Measurements : FieldsIn(values[m]) \cap FieldsOf(k) # {}

DeleteCategory(w, k) ==
  /\ req[w].pc = "idle" /\ k \in categories /\ ~Restricts(k)
  /\ categories' = categories \ {k}
  /\ fields' = [f \in Fields |-> IF f \in FieldsOf(k) THEN Gone(fields[f]) ELSE fields[f]]
  /\ UNCHANGED <<measurements, values, items, req, blurred, astray, late>>

----------------------------------------------------------------------------
(* Measurements. *)

\* What validateMeasurementValues lets pass: no field twice, all of the category, and
\* those of them that are required filled in.  (ValidAnywhere is a mistake: a field of
\* any category will do.)
Once(list) == \A u, v \in list : u.field = v.field => u = v
RequiredFilled(list) == \A v \in list : fields[v.field].required => v.filled
ValidAnywhere(list, k) ==
  Once(list) /\ FieldsIn(list) \subseteq StoredFields /\ RequiredFilled(list)
Valid(list, k) ==
  Once(list) /\ FieldsIn(list) \subseteq FieldsOf(k) /\ RequiredFilled(list)

CreateMeasurementBegin(w, m, c, k, list) ==
  /\ req[w].pc = "idle" /\ measurements[m].row = "unborn"
  /\ k \in categories /\ list # {} /\ Valid(list, k)
  /\ req' = [req EXCEPT ![w] =
       [Idle EXCEPT !.pc = "create", !.measurement = m, !.customer = c, !.category = k,
                    !.list = list]]
  /\ UNCHANGED <<categories, fields, measurements, values, items, blurred, astray, late>>

\* The row and its values, in one statement.
CreateMeasurementCommit(w) ==
  LET m == req[w].measurement
      r == req[w]
  IN /\ r.pc = "create" /\ measurements[m].row = "unborn"
     /\ r.category \in categories /\ FieldsIn(r.list) \subseteq StoredFields
     /\ measurements' = [measurements EXCEPT ![m] =
          [row |-> "stored", customer |-> r.customer, category |-> r.category]]
     /\ values' = [values EXCEPT ![m] = r.list]
     /\ req' = [req EXCEPT ![w] = Idle]
     /\ blurred' = IF r.stale THEN blurred \cup {m} ELSE blurred
     /\ UNCHANGED <<categories, fields, items, astray, late>>

\* The category that updateMeasurement validates the values for.
Checked(named, stored) == IF named = None THEN stored ELSE named

UpdateMeasurementBegin(w, m, c, k, list) ==
  LET checked == Checked(k, measurements[m].category)
  IN /\ req[w].pc = "idle" /\ m \in StoredMeasurements
     /\ checked \in categories
     /\ list = {} \/ Valid(list, checked)
     /\ req' = [req EXCEPT ![w] =
          [Idle EXCEPT !.pc = "update", !.measurement = m, !.customer = c, !.category = k,
                       !.checked = checked, !.list = list]]
     /\ UNCHANGED <<categories, fields, measurements, values, items, blurred, astray, late>>

\* A column the request does not name is left as it is.
Named(new, old) == IF new = None THEN old ELSE new
UpdatedRow(row, r) ==
  [row EXCEPT !.customer = Named(r.customer, @), !.category = Named(r.category, @)]

\* deleteMany and createMany.
UpdatedValues(old, list) == IF list = {} THEN old ELSE list

\* The reasons why the values may not fit: they were validated for a category that
\* the measurement has no longer, a field changed since, or there are none in an
\* update that changes the category.
Misfits(m, r, row) ==
  IF r.list = {} THEN m \in blurred \/ (row.category # measurements[m].category /\ values[m] # {})
                 ELSE r.stale \/ row.category # r.checked

UpdateMeasurementCommit(w) ==
  LET m == req[w].measurement
      r == req[w]
      row == UpdatedRow(measurements[m], r)
      moved == row.customer # measurements[m].customer \/ row.category # measurements[m].category
  IN /\ r.pc = "update" /\ m \in StoredMeasurements
     /\ r.category \in categories \cup {None} /\ FieldsIn(r.list) \subseteq StoredFields
     /\ measurements' = [measurements EXCEPT ![m] = row]
     /\ values' = [values EXCEPT ![m] = UpdatedValues(values[m], r.list)]
     /\ req' = [v \in Requests |->
          IF v = w THEN Idle
          ELSE IF moved /\ req[v].pc = "attach" /\ req[v].measurement = m
          THEN [req[v] EXCEPT !.stale = TRUE] ELSE req[v]]
     /\ blurred' = IF Misfits(m, r, row) THEN blurred \cup {m} ELSE blurred \ {m}
     /\ astray' = IF moved THEN astray \cup ItemsOf(m) ELSE astray
     /\ UNCHANGED <<categories, fields, items, late>>

\* What deleteMeasurement counts before it refuses.  (CountsNothing: a mistake.)
CountsNothing(m) == FALSE
InUse(m) == ItemsOf(m) # {}

DeleteMeasurementBegin(w, m) ==
  /\ req[w].pc = "idle" /\ m \in StoredMeasurements /\ ~InUse(m)
  /\ req' = [req EXCEPT ![w] = [Idle EXCEPT !.pc = "remove", !.measurement = m]]
  /\ UNCHANGED <<categories, fields, measurements, values, items, blurred, astray, late>>

\* The foreign keys delete the values and clear measurementId in the items.
DeleteMeasurementCommit(w) ==
  LET m == req[w].measurement
  IN /\ req[w].pc = "remove" /\ m \in StoredMeasurements
     /\ measurements' = [measurements EXCEPT ![m] = Gone(@)]
     /\ values' = [values EXCEPT ![m] = {}]
     /\ items' = [i \in Items |-> IF i \in ItemsOf(m) THEN [items[i] EXCEPT !.measurement = None]
                                                      ELSE items[i]]
     /\ req' = [req EXCEPT ![w] = Idle]
     /\ UNCHANGED <<categories, fields, blurred, astray, late>>

----------------------------------------------------------------------------
(* The items of orders. *)

\* resolveMeasurementIdForOrderItem, for the customer of the order and the category of
\* the item.  (ResolvesAny is a mistake: the customer is not looked at.)
ResolvesAny(m, c, k) == m \in StoredMeasurements /\ measurements[m].category = k
Resolves(m, c, k) ==
  m \in StoredMeasurements /\ measurements[m].customer = c /\ measurements[m].category = k

SaveItemBegin(w, i, c, k, m) ==
  /\ req[w].pc = "idle" /\ items[i].row = "unborn" /\ k \in categories
  /\ m = None \/ Resolves(m, c, k)
  /\ req' = [req EXCEPT ![w] =
       [Idle EXCEPT !.pc = "attach", !.item = i, !.customer = c, !.category = k,
                    !.measurement = m]]
  /\ UNCHANGED <<categories, fields, measurements, values, items, blurred, astray, late>>

BeingDeleted(m) == \E v \in Requests : req[v].pc = "remove" /\ req[v].measurement = m

SaveItemCommit(w) ==
  LET i == req[w].item
      r == req[w]
  IN /\ r.pc = "attach" /\ items[i].row = "unborn" /\ r.category \in categories
     /\ r.measurement \in StoredMeasurements \cup {None}
     /\ items' = [items EXCEPT ![i] =
          [row |-> "stored", customer |-> r.customer, category |-> r.category,
           measurement |-> r.measurement]]
     /\ req' = [req EXCEPT ![w] = Idle]
     /\ astray' = IF r.stale THEN astray \cup {i} ELSE astray
     /\ late' = IF BeingDeleted(r.measurement) THEN late \cup {i} ELSE late
     /\ UNCHANGED <<categories, fields, measurements, values, blurred>>

\* updateOrder that names another customer and no items: they are not looked at.
MoveItem(w, i, c) ==
  /\ req[w].pc = "idle" /\ i \in StoredItems
  /\ items' = [items EXCEPT ![i].customer = c]
  /\ astray' = IF c # items[i].customer THEN astray \cup {i} ELSE astray
  /\ UNCHANGED <<categories, fields, measurements, values, req, blurred, late>>

\* The order is deleted, or its items are replaced.
RemoveItem(w, i) ==
  /\ req[w].pc = "idle" /\ i \in StoredItems
  /\ items' = [items EXCEPT ![i] = [UnbornItem EXCEPT !.row = "deleted"]]
  /\ UNCHANGED <<categories, fields, measurements, values, req, blurred, astray, late>>

----------------------------------------------------------------------------

\* The statement the request stands before fails (a row or a foreign key is gone, an id
\* is taken) or the process stops.
Abort(w) ==
  /\ req[w].pc # "idle"
  /\ req' = [req EXCEPT ![w] = Idle]
  /\ UNCHANGED <<categories, fields, measurements, values, items, blurred, astray, late>>

Begin(w) ==
  \/ \E f \in Fields, k \in Categories, required \in BOOLEAN :
       \/ CreateMeasurementField(w, f, k, required)
       \/ UpdateMeasurementField(w, f, k, required)
  \/ \E k \in Categories : DeleteCategory(w, k)
  \/ \E m \in Measurements, list \in SUBSET Value :
       \/ \E c \in Customers, k \in Categories :
            CreateMeasurementBegin(w, m, c, k, list)
       \/ \E c \in Customers \cup {None}, k \in Categories \cup {None} :
            UpdateMeasurementBegin(w, m, c, k, list)
  \/ \E m \in Measurements : DeleteMeasurementBegin(w, m)
  \/ \E i \in Items, c \in Customers :
       \/ \E k \in Categories, m \in Measurements \cup {None} : SaveItemBegin(w, i, c, k, m)
       \/ MoveItem(w, i, c)
  \/ \E i \in Items : RemoveItem(w, i)

RunOn(w) ==
  \/ CreateMeasurementCommit(w) \/ UpdateMeasurementCommit(w) \/ DeleteMeasurementCommit(w)
  \/ SaveItemCommit(w)

Next == \E w \in Requests : Begin(w) \/ RunOn(w) \/ Abort(w)

Spec == Init /\ [][Next]_vars

----------------------------------------------------------------------------
(* Properties. *)

\* The values of a measurement belong to the fields of its category, no field has two,
\* and those of required fields are filled in: validateMeasurementValues looks at the
\* request and at what is stored before anything is written, and this says it of what is
\* stored afterwards.  blurred are the measurements that the code lets go wrong: see
\* Misfits and UpdateMeasurementField.
ValuesFit ==
  \A m \in StoredMeasurements \ blurred :
    /\ FieldsIn(values[m]) \subseteq FieldsOf(measurements[m].category)
    /\ \A v \in values[m] : fields[v.field].required => v.filled
    /\ \A u, v \in values[m] : u.field = v.field => u = v

\* An item made to measure is of the customer and of the category of its measurement
\* (resolveMeasurementIdForOrderItem), which the garment would not fit otherwise.  astray
\* are the items whose order or measurement was given to another customer or category
\* by an update that looks at only one of the two.
ItemsMeasured ==
  \A i \in StoredItems \ astray :
    items[i].measurement # None =>
      /\ items[i].measurement \in StoredMeasurements
      /\ measurements[items[i].measurement].customer = items[i].customer
      /\ measurements[items[i].measurement].category = items[i].category

\* An item that stays keeps its measurement: deleteMeasurement refuses while items use it
\* ("Mark it inactive instead."), and only the items saved between its count and its
\* delete lose theirs.
CountedItemsKept ==
  [][\A i \in StoredItems \ late :
       items'[i].row = "stored" => items'[i].measurement = items[i].measurement]_vars
=============================================================================
