------------------------- MODULE MeasurementsProofs -------------------------
(***************************************************************************)
(* What holds of Measurements for any fields, measurements and items and   *)
(* any number of requests at a time.                                       *)
(***************************************************************************)
EXTENDS Measurements, TLAPS

USE MeasurementsAssumption

\* What TypeOK says of the tables and of one request.
TablesOK ==
  /\ categories \in SUBSET Categories
  /\ fields \in [Fields -> FieldRow]
  /\ measurements \in [Measurements -> MeasurementRow]
  /\ values \in [Measurements -> SUBSET Value]
  /\ items \in [Items -> ItemRow]
  /\ \A f \in StoredFields : fields[f].category \in categories
  /\ \A m \in Measurements :
       IF m \in StoredMeasurements
       THEN measurements[m].category \in categories /\ FieldsIn(values[m]) \subseteq StoredFields
       ELSE values[m] = {}
  /\ \A i \in StoredItems :
       /\ items[i].category \in categories
       /\ items[i].measurement \in StoredMeasurements \cup {None}

RequestOK(q) ==
  /\ q \in Request
  /\ q.pc \in {"create", "update", "remove"} => q.measurement \in Measurements
  /\ q.pc = "attach" => q.item \in Items

LEMMA TypeParts ==
  TypeOK <=> /\ TablesOK
             /\ req \in [Requests -> Request] /\ \A w \in Requests : RequestOK(req[w])
             /\ blurred \in SUBSET Measurements /\ astray \in SUBSET Items
             /\ late \in SUBSET Items
  BY Zenon DEF TypeOK, TablesOK, RequestOK

LEMMA TypePartsNext ==
  TypeOK' <=> /\ TablesOK'
              /\ req' \in [Requests -> Request] /\ \A w \in Requests : RequestOK(req'[w])
              /\ blurred' \in SUBSET Measurements /\ astray' \in SUBSET Items
              /\ late' \in SUBSET Items
  BY Zenon DEF TypeOK, TablesOK, RequestOK

LEMMA IdleOK == RequestOK(Idle) /\ Idle.pc = "idle" /\ Idle.list = {}
  BY DEF RequestOK, Idle, Request, Value

LEMMA MarkedOK ==
  ASSUME NEW q, RequestOK(q)
  PROVE  RequestOK([q EXCEPT !.stale = TRUE]) /\ q \in Request
         /\ [q EXCEPT !.stale = TRUE] \in Request
  BY DEF RequestOK, Request

LEMMA InitType == Init => TypeOK
<1> SUFFICES ASSUME Init PROVE TypeOK
  OBVIOUS
<1>1. UnbornField \in FieldRow /\ UnbornMeasurement \in MeasurementRow /\ UnbornItem \in ItemRow
  BY DEF UnbornField, UnbornMeasurement, UnbornItem, FieldRow, MeasurementRow, ItemRow, Rows
<1>2. StoredFields = {} /\ StoredMeasurements = {} /\ StoredItems = {}
  BY DEF Init, StoredFields, StoredMeasurements, StoredItems, UnbornField, UnbornMeasurement,
         UnbornItem
<1>3. TablesOK
  BY <1>1, <1>2 DEF Init, TablesOK
<1>4. QED BY <1>3, IdleOK, TypeParts DEF Init, RequestOK

\* A step that leaves the tables as they are.
LEMMA RequestMoves ==
  ASSUME TypeOK, NEW w \in Requests, NEW q, RequestOK(q), req' = [req EXCEPT ![w] = q],
         UNCHANGED <<categories, fields, measurements, values, items, blurred, astray, late>>
  PROVE  TypeOK'
<1>1. TablesOK'
  BY TypeParts DEF TablesOK, StoredFields, StoredMeasurements, StoredItems, FieldsIn
<1>2. req' \in [Requests -> Request] /\ \A v \in Requests : RequestOK(req'[v])
  BY TypeParts DEF RequestOK
<1>3. QED BY <1>1, <1>2, TypeParts, TypePartsNext

LEMMA IdleInRequests ==
  ASSUME TypeOK, NEW w \in Requests, req' = [req EXCEPT ![w] = Idle]
  PROVE  req' \in [Requests -> Request] /\ \A v \in Requests : RequestOK(req'[v])
  BY TypeParts, IdleOK DEF RequestOK

LEMMA FieldStepsType ==
  ASSUME TypeOK, NEW w \in Requests, NEW f \in Fields, NEW k \in Categories,
         NEW required \in BOOLEAN,
         \/ CreateMeasurementField(w, f, k, required) \/ UpdateMeasurementField(w, f, k, required)
  PROVE  TypeOK'
<1> DEFINE row == [row |-> "stored", category |-> k, required |-> required]
<1>1. /\ row \in FieldRow /\ row.row = "stored" /\ row.category = k
      /\ k \in categories /\ fields' = [fields EXCEPT ![f] = row]
      /\ UNCHANGED <<categories, measurements, values, items, astray, late>>
  BY DEF CreateMeasurementField, UpdateMeasurementField, FieldRow, Rows
<1> HIDE DEF row
<1>2. /\ fields' \in [Fields -> FieldRow]
      /\ StoredFields' = StoredFields \cup {f}
      /\ \A g \in StoredFields' : fields'[g].category \in categories
  BY <1>1, TypeParts DEF TablesOK, StoredFields
<1>3. TablesOK'
  BY <1>1, <1>2, TypeParts DEF TablesOK, StoredMeasurements, StoredItems, FieldsIn
<1>4. req' \in [Requests -> Request] /\ \A v \in Requests : RequestOK(req'[v])
  <2>1. CASE req' = req
    BY <2>1, TypeParts
  <2>2. CASE req' = StaleFor(f)
    BY <2>2, TypeParts, MarkedOK DEF StaleFor
  <2>3. QED BY <2>1, <2>2 DEF CreateMeasurementField, UpdateMeasurementField
<1>5. blurred' \in SUBSET Measurements
  BY TypeParts DEF CreateMeasurementField, UpdateMeasurementField
<1>6. QED BY <1>1, <1>3, <1>4, <1>5, TypeParts, TypePartsNext

LEMMA DeleteCategoryType ==
  ASSUME TypeOK, NEW w \in Requests, NEW k \in Categories, DeleteCategory(w, k)
  PROVE  TypeOK'
<1>1. /\ ~Restricts(k) /\ categories' = categories \ {k}
      /\ fields' = [f \in Fields |-> IF f \in FieldsOf(k) THEN Gone(fields[f]) ELSE fields[f]]
      /\ UNCHANGED <<measurements, values, items, req, blurred, astray, late>>
  BY DEF DeleteCategory
<1>2. \A f \in Fields : fields[f] \in FieldRow
                        /\ Gone(fields[f]) \in FieldRow /\ Gone(fields[f]).row = "deleted"
  BY TypeParts DEF TablesOK, Gone, FieldRow, Rows
<1>3. /\ fields' \in [Fields -> FieldRow]
      /\ StoredFields' = StoredFields \ FieldsOf(k)
      /\ \A f \in StoredFields' : fields'[f] = fields[f]
  BY <1>1, <1>2, TypeParts DEF TablesOK, StoredFields, FieldsOf
<1>4. \A f \in StoredFields' : fields'[f].category \in categories'
  BY <1>1, <1>3, TypeParts DEF TablesOK, FieldsOf
<1>5. \A m \in Measurements : FieldsIn(values[m]) \cap FieldsOf(k) = {}
  BY <1>1 DEF Restricts
<1>6. \A m \in StoredMeasurements : measurements[m].category # k
  BY <1>1 DEF Restricts
<1>7. \A i \in StoredItems : items[i].category # k
  BY <1>1 DEF Restricts
<1>8. StoredMeasurements' = StoredMeasurements /\ StoredItems' = StoredItems
      /\ \A m \in Measurements : FieldsIn(values'[m]) = FieldsIn(values[m])
  BY <1>1 DEF StoredMeasurements, StoredItems, FieldsIn
<1>9. \A m \in Measurements :
        IF m \in StoredMeasurements'
        THEN measurements'[m].category \in categories' /\ FieldsIn(values'[m]) \subseteq StoredFields'
        ELSE values'[m] = {}
  BY <1>1, <1>3, <1>5, <1>6, <1>8, TypeParts DEF TablesOK
<1>10. \A i \in StoredItems' :
         items'[i].category \in categories'
         /\ items'[i].measurement \in StoredMeasurements' \cup {None}
  BY <1>1, <1>7, <1>8, TypeParts DEF TablesOK
<1>11. TablesOK'
  BY <1>1, <1>3, <1>4, <1>9, <1>10, TypeParts DEF TablesOK
<1>12. QED BY <1>1, <1>11, TypeParts, TypePartsNext

\* A measurement is written, with values of stored fields and a stored category.
LEMMA MeasurementWritten ==
  ASSUME TypeOK, NEW m \in Measurements, NEW row \in MeasurementRow, NEW list \in SUBSET Value,
         row.row = "stored", row.category \in categories, FieldsIn(list) \subseteq StoredFields,
         measurements' = [measurements EXCEPT ![m] = row],
         values' = [values EXCEPT ![m] = list],
         UNCHANGED <<categories, fields, items>>
  PROVE  TablesOK' /\ StoredMeasurements' = StoredMeasurements \cup {m}
<1>1. /\ measurements' \in [Measurements -> MeasurementRow]
      /\ values' \in [Measurements -> SUBSET Value]
      /\ StoredMeasurements' = StoredMeasurements \cup {m}
      /\ StoredFields' = StoredFields /\ StoredItems' = StoredItems
  BY TypeParts DEF TablesOK, StoredMeasurements, StoredFields, StoredItems
<1>2. \A n \in Measurements :
        IF n \in StoredMeasurements'
        THEN /\ measurements'[n].category \in categories
             /\ FieldsIn(values'[n]) \subseteq StoredFields
        ELSE values'[n] = {}
  BY <1>1, TypeParts DEF TablesOK
<1>3. \A i \in StoredItems : items[i].measurement \in StoredMeasurements' \cup {None}
  BY <1>1, TypeParts DEF TablesOK
<1>4. QED BY <1>1, <1>2, <1>3, TypeParts DEF TablesOK

\* An item is written.
LEMMA ItemWritten ==
  ASSUME TypeOK, NEW i \in Items, NEW row \in ItemRow, items' = [items EXCEPT ![i] = row],
         row.row = "stored" =>
           row.category \in categories /\ row.measurement \in StoredMeasurements \cup {None},
         UNCHANGED <<categories, fields, measurements, values>>
  PROVE  TablesOK'
<1>1. /\ items' \in [Items -> ItemRow]
      /\ StoredMeasurements' = StoredMeasurements /\ StoredFields' = StoredFields
      /\ \A m \in Measurements : FieldsIn(values'[m]) = FieldsIn(values[m])
  BY TypeParts DEF TablesOK, StoredMeasurements, StoredFields
<1>2. \A j \in StoredItems' :
        /\ items'[j].category \in categories
        /\ items'[j].measurement \in StoredMeasurements \cup {None}
  BY TypeParts DEF TablesOK, StoredItems
<1>3. QED BY <1>1, <1>2, TypeParts DEF TablesOK

LEMMA CreateCommitType ==
  ASSUME TypeOK, NEW w \in Requests, CreateMeasurementCommit(w) PROVE TypeOK'
<1> DEFINE m == req[w].measurement
           row == [row |-> "stored", customer |-> req[w].customer, category |-> req[w].category]
<1>1. RequestOK(req[w]) /\ m \in Measurements
  BY TypeParts DEF CreateMeasurementCommit, RequestOK
<1>2. row \in MeasurementRow /\ row.row = "stored" /\ row.category \in categories
      /\ req[w].list \in SUBSET Value
  BY <1>1 DEF CreateMeasurementCommit, RequestOK, Request, MeasurementRow, Rows
<1>3. /\ measurements' = [measurements EXCEPT ![m] = row]
      /\ values' = [values EXCEPT ![m] = req[w].list]
      /\ FieldsIn(req[w].list) \subseteq StoredFields
      /\ req' = [req EXCEPT ![w] = Idle]
      /\ UNCHANGED <<categories, fields, items, astray, late>>
  BY DEF CreateMeasurementCommit
<1> HIDE DEF row
<1>4. TablesOK'
  BY <1>1, <1>2, <1>3, MeasurementWritten
<1>5. blurred' \in SUBSET Measurements
  BY <1>1, TypeParts DEF CreateMeasurementCommit
<1>6. QED BY <1>3, <1>4, <1>5, IdleInRequests, TypeParts, TypePartsNext

\* The row and the values that UpdateMeasurementCommit writes.
LEMMA UpdatedOK ==
  ASSUME TypeOK, NEW m \in StoredMeasurements, NEW q, RequestOK(q),
         q.category \in categories \cup {None}, FieldsIn(q.list) \subseteq StoredFields
  PROVE  /\ UpdatedRow(measurements[m], q) \in MeasurementRow
         /\ UpdatedRow(measurements[m], q).row = "stored"
         /\ UpdatedRow(measurements[m], q).category \in categories
         /\ UpdatedValues(values[m], q.list) \in SUBSET Value
         /\ FieldsIn(UpdatedValues(values[m], q.list)) \subseteq StoredFields
<1>1. /\ measurements[m] \in MeasurementRow /\ measurements[m].row = "stored"
      /\ measurements[m].category \in categories /\ categories \subseteq Categories
      /\ values[m] \in SUBSET Value /\ FieldsIn(values[m]) \subseteq StoredFields
  BY TypeParts DEF TablesOK, StoredMeasurements
<1>2. q.customer \in Customers \cup {None} /\ q.list \in SUBSET Value
  BY DEF RequestOK, Request
<1>3. /\ Named(q.customer, measurements[m].customer) \in Customers \cup {None}
      /\ Named(q.category, measurements[m].category) \in categories
  BY <1>1, <1>2 DEF Named, MeasurementRow
<1>4. /\ UpdatedRow(measurements[m], q) \in MeasurementRow
      /\ UpdatedRow(measurements[m], q).row = "stored"
      /\ UpdatedRow(measurements[m], q).category \in categories
  BY <1>1, <1>3 DEF UpdatedRow, MeasurementRow
<1>5. QED BY <1>1, <1>2, <1>4 DEF UpdatedValues

LEMMA UpdateCommitType ==
  ASSUME TypeOK, NEW w \in Requests, UpdateMeasurementCommit(w) PROVE TypeOK'
<1> DEFINE m == req[w].measurement
           row == UpdatedRow(measurements[m], req[w])
           list == UpdatedValues(values[m], req[w].list)
<1>1. /\ m \in StoredMeasurements /\ m \in Measurements /\ RequestOK(req[w])
      /\ req[w].category \in categories \cup {None}
      /\ FieldsIn(req[w].list) \subseteq StoredFields
      /\ measurements' = [measurements EXCEPT ![m] = row]
      /\ values' = [values EXCEPT ![m] = list]
      /\ UNCHANGED <<categories, fields, items, late>>
  BY TypeParts DEF UpdateMeasurementCommit, StoredMeasurements
<1>2. /\ row \in MeasurementRow /\ row.row = "stored" /\ row.category \in categories
      /\ list \in SUBSET Value /\ FieldsIn(list) \subseteq StoredFields
  BY <1>1, UpdatedOK
<1>3. TablesOK'
  <2> HIDE DEF row, list
  <2>1. QED BY <1>1, <1>2, MeasurementWritten
<1>4. req' \in [Requests -> Request] /\ \A v \in Requests : RequestOK(req'[v])
  BY TypeParts, IdleOK, MarkedOK DEF UpdateMeasurementCommit
<1>5. blurred' \in SUBSET Measurements
  BY <1>1, TypeParts DEF UpdateMeasurementCommit
<1>6. astray' \in SUBSET Items
  BY TypeParts DEF UpdateMeasurementCommit, ItemsOf, StoredItems
<1>7. QED BY <1>1, <1>3, <1>4, <1>5, <1>6, TypeParts, TypePartsNext

LEMMA DeleteCommitType ==
  ASSUME TypeOK, NEW w \in Requests, DeleteMeasurementCommit(w) PROVE TypeOK'
<1> DEFINE m == req[w].measurement
<1>1. /\ m \in StoredMeasurements /\ m \in Measurements
      /\ measurements' = [measurements EXCEPT ![m] = Gone(measurements[m])]
      /\ values' = [values EXCEPT ![m] = {}]
      /\ items' = [i \in Items |->
           IF i \in ItemsOf(m) THEN [items[i] EXCEPT !.measurement = None] ELSE items[i]]
      /\ req' = [req EXCEPT ![w] = Idle]
      /\ UNCHANGED <<categories, fields, blurred, astray, late>>
  BY DEF DeleteMeasurementCommit, StoredMeasurements
<1>2. Gone(measurements[m]) \in MeasurementRow /\ Gone(measurements[m]).row = "deleted"
  BY <1>1, TypeParts DEF TablesOK, Gone, MeasurementRow, Rows
<1>3. \A i \in Items : /\ items[i] \in ItemRow
                       /\ [items[i] EXCEPT !.measurement = None] \in ItemRow
                       /\ [items[i] EXCEPT !.measurement = None].row = items[i].row
                       /\ [items[i] EXCEPT !.measurement = None].category = items[i].category
                       /\ [items[i] EXCEPT !.measurement = None].measurement = None
  BY TypeParts DEF TablesOK, ItemRow
<1>4. /\ measurements' \in [Measurements -> MeasurementRow]
      /\ values' \in [Measurements -> SUBSET Value]
      /\ items' \in [Items -> ItemRow]
      /\ StoredMeasurements' = StoredMeasurements \ {m} /\ StoredFields' = StoredFields
      /\ StoredItems' = StoredItems
  BY <1>1, <1>2, <1>3, TypeParts DEF TablesOK, StoredMeasurements, StoredFields, StoredItems
<1>5. \A n \in Measurements :
        IF n \in StoredMeasurements'
        THEN /\ measurements'[n].category \in categories
             /\ FieldsIn(values'[n]) \subseteq StoredFields
        ELSE values'[n] = {}
  BY <1>1, <1>4, TypeParts DEF TablesOK
<1>6. \A i \in StoredItems :
        /\ items'[i].category \in categories
        /\ items'[i].measurement \in StoredMeasurements' \cup {None}
  BY <1>1, <1>3, <1>4, TypeParts DEF TablesOK, ItemsOf, StoredItems
<1>7. /\ categories' \in SUBSET Categories /\ fields' \in [Fields -> FieldRow]
      /\ \A f \in StoredFields' : fields'[f].category \in categories'
  BY <1>1, <1>4, TypeParts DEF TablesOK
<1>8. TablesOK'
  <2>1. categories' = categories /\ StoredFields' = StoredFields /\ StoredItems' = StoredItems
    BY <1>1, <1>4
  <2>2. QED BY <1>4, <1>5, <1>6, <1>7, <2>1, Zenon DEF TablesOK
<1>9. QED BY <1>1, <1>8, IdleInRequests, TypeParts, TypePartsNext

LEMMA SaveItemCommitType ==
  ASSUME TypeOK, NEW w \in Requests, SaveItemCommit(w) PROVE TypeOK'
<1> DEFINE j == req[w].item
           row == [row |-> "stored", customer |-> req[w].customer,
                   category |-> req[w].category, measurement |-> req[w].measurement]
<1>1. RequestOK(req[w]) /\ j \in Items
  BY TypeParts DEF SaveItemCommit, RequestOK
<1>2. row \in ItemRow
  BY <1>1 DEF RequestOK, Request, ItemRow, Rows
<1>3. /\ items' = [items EXCEPT ![j] = row]
      /\ row.category \in categories /\ row.measurement \in StoredMeasurements \cup {None}
      /\ req' = [req EXCEPT ![w] = Idle]
      /\ UNCHANGED <<categories, fields, measurements, values, blurred>>
  BY DEF SaveItemCommit
<1>4. TablesOK'
  <2> HIDE DEF row
  <2>1. QED BY <1>1, <1>2, <1>3, ItemWritten
<1>5. astray' \in SUBSET Items /\ late' \in SUBSET Items
  BY <1>1, TypeParts DEF SaveItemCommit
<1>6. QED BY <1>3, <1>4, <1>5, IdleInRequests, TypeParts, TypePartsNext

LEMMA MoveItemType ==
  ASSUME TypeOK, NEW w \in Requests, NEW i \in Items, NEW c \in Customers, MoveItem(w, i, c)
  PROVE  TypeOK'
<1> DEFINE row == [items[i] EXCEPT !.customer = c]
<1>1. /\ row \in ItemRow /\ row.category = items[i].category
      /\ row.measurement = items[i].measurement /\ i \in StoredItems
  BY TypeParts DEF MoveItem, TablesOK, ItemRow, StoredItems
<1>2. /\ items' = [items EXCEPT ![i] = row] /\ astray' \in SUBSET Items
      /\ UNCHANGED <<categories, fields, measurements, values, req, blurred, late>>
  BY TypeParts DEF MoveItem
<1>3. row.category \in categories /\ row.measurement \in StoredMeasurements \cup {None}
  BY <1>1, TypeParts DEF TablesOK
<1>4. TablesOK'
  <2> HIDE DEF row
  <2>1. QED BY <1>1, <1>2, <1>3, ItemWritten
<1>5. QED BY <1>2, <1>4, TypeParts, TypePartsNext

LEMMA RemoveItemType ==
  ASSUME TypeOK, NEW w \in Requests, NEW i \in Items, RemoveItem(w, i) PROVE TypeOK'
<1>1. [UnbornItem EXCEPT !.row = "deleted"] \in ItemRow
      /\ [UnbornItem EXCEPT !.row = "deleted"].row = "deleted"
  BY DEF UnbornItem, ItemRow, Rows
<1>2. TablesOK'
  BY <1>1, ItemWritten DEF RemoveItem
<1>3. QED BY <1>2, TypeParts, TypePartsNext DEF RemoveItem

\* The steps that only move a request.
LEMMA CreateBeginType ==
  ASSUME TypeOK, NEW w \in Requests, NEW m \in Measurements, NEW list \in SUBSET Value,
         NEW c \in Customers, NEW k \in Categories, CreateMeasurementBegin(w, m, c, k, list)
  PROVE  TypeOK'
<1>1. RequestOK([Idle EXCEPT !.pc = "create", !.measurement = m, !.customer = c,
                             !.category = k, !.list = list])
  BY DEF RequestOK, Request, Idle
<1>2. QED BY <1>1, RequestMoves DEF CreateMeasurementBegin

LEMMA UpdateBeginType ==
  ASSUME TypeOK, NEW w \in Requests, NEW m \in Measurements, NEW list \in SUBSET Value,
         NEW c \in Customers \cup {None}, NEW k \in Categories \cup {None},
         UpdateMeasurementBegin(w, m, c, k, list)
  PROVE  TypeOK'
<1> DEFINE checked == Checked(k, measurements[m].category)
<1>1. checked \in Categories
  BY TypeParts DEF UpdateMeasurementBegin, TablesOK
<1>2. RequestOK([Idle EXCEPT !.pc = "update", !.measurement = m, !.customer = c,
                             !.category = k, !.checked = checked, !.list = list])
  <2> HIDE DEF checked
  <2>1. QED BY <1>1 DEF RequestOK, Request, Idle
<1>3. QED BY <1>2, RequestMoves DEF UpdateMeasurementBegin

LEMMA DeleteBeginType ==
  ASSUME TypeOK, NEW w \in Requests, NEW m \in Measurements, DeleteMeasurementBegin(w, m)
  PROVE  TypeOK'
<1>1. RequestOK([Idle EXCEPT !.pc = "remove", !.measurement = m])
  BY DEF RequestOK, Request, Idle, Value
<1>2. QED BY <1>1, RequestMoves DEF DeleteMeasurementBegin

LEMMA SaveItemBeginType ==
  ASSUME TypeOK, NEW w \in Requests, NEW i \in Items, NEW c \in Customers,
         NEW k \in Categories, NEW n \in Measurements \cup {None}, SaveItemBegin(w, i, c, k, n)
  PROVE  TypeOK'
<1>1. RequestOK([Idle EXCEPT !.pc = "attach", !.item = i, !.customer = c,
                             !.category = k, !.measurement = n])
  BY DEF RequestOK, Request, Idle, Value
<1>2. QED BY <1>1, RequestMoves DEF SaveItemBegin

LEMMA NextType == TypeOK /\ [Next]_vars => TypeOK'
<1> SUFFICES ASSUME TypeOK, [Next]_vars PROVE TypeOK'
  OBVIOUS
<1>1. CASE UNCHANGED vars
  BY <1>1 DEF vars, TypeOK, StoredFields, StoredMeasurements, StoredItems, FieldsIn
<1>2. ASSUME NEW w \in Requests, Begin(w) PROVE TypeOK'
  <2>1. ASSUME NEW f \in Fields, NEW k \in Categories, NEW required \in BOOLEAN,
               \/ CreateMeasurementField(w, f, k, required)
               \/ UpdateMeasurementField(w, f, k, required)
        PROVE  TypeOK'
    BY <2>1, FieldStepsType
  <2>2. ASSUME NEW k \in Categories, DeleteCategory(w, k) PROVE TypeOK'
    BY <2>2, DeleteCategoryType
  <2>3. ASSUME NEW m \in Measurements, NEW list \in SUBSET Value, NEW c \in Customers,
               NEW k \in Categories, CreateMeasurementBegin(w, m, c, k, list)
        PROVE  TypeOK'
    BY <2>3, CreateBeginType
  <2>4. ASSUME NEW m \in Measurements, NEW list \in SUBSET Value,
               NEW c \in Customers \cup {None}, NEW k \in Categories \cup {None},
               UpdateMeasurementBegin(w, m, c, k, list)
        PROVE  TypeOK'
    BY <2>4, UpdateBeginType
  <2>5. ASSUME NEW m \in Measurements, DeleteMeasurementBegin(w, m) PROVE TypeOK'
    BY <2>5, DeleteBeginType
  <2>6. ASSUME NEW i \in Items, NEW c \in Customers, NEW k \in Categories,
               NEW n \in Measurements \cup {None}, SaveItemBegin(w, i, c, k, n)
        PROVE  TypeOK'
    BY <2>6, SaveItemBeginType
  <2>7. ASSUME NEW i \in Items, NEW c \in Customers, MoveItem(w, i, c) PROVE TypeOK'
    BY <2>7, MoveItemType
  <2>8. ASSUME NEW i \in Items, RemoveItem(w, i) PROVE TypeOK'
    BY <2>8, RemoveItemType
  <2>9. QED BY <1>2, <2>1, <2>2, <2>3, <2>4, <2>5, <2>6, <2>7, <2>8 DEF Begin
<1>3. ASSUME NEW w \in Requests, RunOn(w) PROVE TypeOK'
  BY <1>3, CreateCommitType, UpdateCommitType, DeleteCommitType, SaveItemCommitType DEF RunOn
<1>4. ASSUME NEW w \in Requests, Abort(w) PROVE TypeOK'
  BY <1>4, IdleOK, RequestMoves DEF Abort
<1>5. QED BY <1>1, <1>2, <1>3, <1>4 DEF Next

\* The tables and the requests of Measurements keep their types, whatever requests overlap,
\* and what a stored row refers to is stored (schema.prisma's foreign keys with the code's
\* order of deletes).
THEOREM TypeCorrect == Spec => []TypeOK
<1>1. Init => TypeOK
  BY InitType
<1>2. TypeOK /\ [Next]_vars => TypeOK'
  BY NextType
<1>3. QED BY <1>1, <1>2, PTL DEF Spec

----------------------------------------------------------------------------
(* Values and categories. *)

\* The list is good for category k as far as its fields are still there: that a field was
\* there once is what keeps its id from coming back as another field.
FitsIn(table, list, k) ==
  /\ Once(list)
  /\ \A v \in list :
       /\ table[v.field].row # "unborn"
       /\ table[v.field].row = "stored" =>
            table[v.field].category = k /\ (table[v.field].required => v.filled)

\* A request that is not stale holds a list that is good for the category it checked.
HoldsFit(q, table) ==
  /\ q.pc = "create" /\ ~q.stale => FitsIn(table, q.list, q.category)
  /\ q.pc = "update" /\ ~q.stale => FitsIn(table, q.list, q.checked)

FitInv ==
  /\ \A w \in Requests : HoldsFit(req[w], fields)
  /\ \A m \in StoredMeasurements \ blurred :
       FitsIn(fields, values[m], measurements[m].category)

LEMMA FitInvImplies == TypeOK /\ FitInv => ValuesFit
<1> SUFFICES ASSUME TypeOK, FitInv, NEW m \in StoredMeasurements \ blurred
             PROVE  /\ FieldsIn(values[m]) \subseteq FieldsOf(measurements[m].category)
                    /\ \A v \in values[m] : fields[v.field].required => v.filled
                    /\ \A u, v \in values[m] : u.field = v.field => u = v
  BY DEF ValuesFit
<1>1. FitsIn(fields, values[m], measurements[m].category) /\ m \in Measurements
  BY DEF FitInv, StoredMeasurements
<1>2. FieldsIn(values[m]) \subseteq StoredFields
  BY <1>1, TypeParts DEF TablesOK
<1>3. \A v \in values[m] : fields[v.field].row = "stored"
  BY <1>2 DEF FieldsIn, StoredFields
<1>4. QED BY <1>1, <1>2, <1>3 DEF FitsIn, FieldsOf, FieldsIn, Once

LEMMA ValidFits ==
  ASSUME TypeOK, NEW list \in SUBSET Value, NEW k \in Categories, Valid(list, k)
  PROVE  FitsIn(fields, list, k)
<1>1. \A v \in list : v.field \in FieldsOf(k)
  BY DEF Valid, FieldsIn
<1>2. QED BY <1>1 DEF FitsIn, Valid, RequiredFilled, FieldsOf, StoredFields

LEMMA EmptyFits == \A k : FitsIn(fields, {}, k)
  BY DEF FitsIn, Once

LEMMA IdleHolds == ASSUME NEW table PROVE HoldsFit(Idle, table)
  BY IdleOK DEF HoldsFit

\* A step that moves one request and writes no value.
LEMMA FitRequestMoves ==
  ASSUME TypeOK, FitInv, NEW w \in Requests, NEW q, HoldsFit(q, fields),
         req' = [req EXCEPT ![w] = q], UNCHANGED <<fields, values, blurred>>,
         StoredMeasurements' \subseteq StoredMeasurements,
         \A m \in StoredMeasurements' : measurements'[m] = measurements[m]
  PROVE  FitInv'
<1>1. \A v \in Requests : HoldsFit(req'[v], fields)
  BY TypeParts DEF FitInv
<1>2. QED BY <1>1 DEF FitInv

\* Fields change, and what no longer fits is marked.
LEMMA FitFieldsChange ==
  ASSUME TypeOK, FitInv, NEW moved \in SUBSET Fields,
         \A f \in Fields \ moved :
           \/ fields[f].row = "unborn"
           \/ /\ fields'[f].row # "unborn"
              /\ fields'[f].row = "stored" =>
                   /\ fields[f].row = "stored" /\ fields'[f].category = fields[f].category
                   /\ fields'[f].required => fields[f].required,
         \A w \in Requests :
           \/ req'[w] = req[w] /\ FieldsIn(req[w].list) \cap moved = {}
           \/ req'[w].stale,
         {m \in Measurements : FieldsIn(values[m]) \cap moved # {}} \subseteq blurred',
         blurred \subseteq blurred', UNCHANGED <<measurements, values>>
  PROVE  FitInv'
<1>1. ASSUME NEW list \in SUBSET Value, NEW k, FitsIn(fields, list, k),
             FieldsIn(list) \cap moved = {}
      PROVE  FitsIn(fields', list, k)
  <2>1. \A v \in list : v.field \in Fields \ moved
    BY <1>1 DEF FieldsIn, Value
  <2>2. QED BY <1>1, <2>1 DEF FitsIn
<1>2. ASSUME NEW w \in Requests PROVE HoldsFit(req'[w], fields')
  <2>1. CASE req'[w].stale
    BY <2>1 DEF HoldsFit
  <2>2. CASE req'[w] = req[w] /\ FieldsIn(req[w].list) \cap moved = {}
    <3>1. req[w].list \in SUBSET Value
      BY TypeParts DEF RequestOK, Request
    <3>2. QED BY <1>1, <2>2, <3>1 DEF HoldsFit, FitInv
  <2>3. QED BY <2>1, <2>2
<1>3. ASSUME NEW m \in StoredMeasurements' \ blurred'
      PROVE  FitsIn(fields', values'[m], measurements'[m].category)
  <2>1. m \in StoredMeasurements \ blurred /\ m \in Measurements
    BY <1>3 DEF StoredMeasurements
  <2>2. FieldsIn(values[m]) \cap moved = {} /\ values[m] \in SUBSET Value
    BY <1>3, <2>1, TypeParts DEF TablesOK
  <2>3. QED BY <1>1, <2>1, <2>2 DEF FitInv
<1>4. QED BY <1>2, <1>3 DEF FitInv

\* The same for a change after which everything still fits.
LEMMA FitFieldsKept ==
  ASSUME TypeOK, FitInv,
         \A f \in Fields :
           \/ fields[f].row = "unborn"
           \/ /\ fields'[f].row # "unborn"
              /\ fields'[f].row = "stored" =>
                   /\ fields[f].row = "stored" /\ fields'[f].category = fields[f].category
                   /\ fields'[f].required => fields[f].required,
         UNCHANGED <<measurements, values, req, blurred>>
  PROVE  FitInv'
<1> DEFINE moved == {}
<1>1. /\ moved \in SUBSET Fields
      /\ \A w \in Requests : req'[w] = req[w] /\ FieldsIn(req[w].list) \cap moved = {}
      /\ {m \in Measurements : FieldsIn(values[m]) \cap moved # {}} \subseteq blurred'
      /\ \A f \in Fields \ moved : f \in Fields
  OBVIOUS
<1> HIDE DEF moved
<1>2. QED BY <1>1, FitFieldsChange

LEMMA FitFieldSteps ==
  ASSUME TypeOK, FitInv, NEW w \in Requests, NEW f \in Fields, NEW k \in Categories,
         NEW required \in BOOLEAN,
         \/ CreateMeasurementField(w, f, k, required) \/ UpdateMeasurementField(w, f, k, required)
  PROVE  FitInv'
<1>1. CASE CreateMeasurementField(w, f, k, required)
  <2>1. \A g \in Fields : g # f => fields'[g] = fields[g]
    BY <1>1, TypeParts DEF CreateMeasurementField, TablesOK
  <2>2. fields[f].row = "unborn"
    BY <1>1 DEF CreateMeasurementField
  <2>3. UNCHANGED <<measurements, values, req, blurred>>
    BY <1>1 DEF CreateMeasurementField
  <2>4. \A g \in Fields :
          \/ fields[g].row = "unborn"
          \/ /\ fields'[g].row # "unborn"
             /\ fields'[g].row = "stored" =>
                  /\ fields[g].row = "stored" /\ fields'[g].category = fields[g].category
                  /\ fields'[g].required => fields[g].required
    <3> TAKE g \in Fields
    <3>1. fields[g].row \in {"unborn", "stored", "deleted"}
      BY TypeParts DEF TablesOK, FieldRow, Rows
    <3>2. QED BY <2>1, <2>2, <3>1
  <2>5. QED BY <2>3, <2>4, FitFieldsKept
<1>2. CASE UpdateMeasurementField(w, f, k, required)
  <2> DEFINE moves == k # fields[f].category \/ (required /\ ~fields[f].required)
             moved == IF moves THEN {f} ELSE {}
  <2>1. /\ f \in StoredFields
        /\ fields' = [fields EXCEPT ![f] = [row |-> "stored", category |-> k,
                                            required |-> required]]
        /\ req' = IF moves THEN StaleFor(f) ELSE req
        /\ blurred' = IF moves THEN blurred \cup {m \in Measurements : f \in FieldsIn(values[m])}
                               ELSE blurred
        /\ UNCHANGED <<measurements, values>>
    BY <1>2 DEF UpdateMeasurementField
  <2>2. \A g \in Fields \ moved :
          \/ fields[g].row = "unborn"
          \/ /\ fields'[g].row # "unborn"
             /\ fields'[g].row = "stored" =>
                  /\ fields[g].row = "stored" /\ fields'[g].category = fields[g].category
                  /\ fields'[g].required => fields[g].required
    BY <2>1, TypeParts DEF TablesOK, StoredFields
  <2>3. \A v \in Requests :
          \/ req'[v] = req[v] /\ FieldsIn(req[v].list) \cap moved = {}
          \/ req'[v].stale
    <3>1. CASE ~moves
      BY <2>1, <3>1
    <3>2. CASE moves
      <4>1. \A v \in Requests : [req[v] EXCEPT !.stale = TRUE].stale
        BY TypeParts DEF RequestOK, Request
      <4>2. QED BY <2>1, <3>2, <4>1 DEF StaleFor
    <3>3. QED BY <3>1, <3>2
  <2>4. {m \in Measurements : FieldsIn(values[m]) \cap moved # {}} \subseteq blurred'
        /\ blurred \subseteq blurred'
    BY <2>1
  <2> HIDE DEF moved
  <2>5. moved \in SUBSET Fields
    BY DEF moved
  <2>6. QED BY <2>1, <2>2, <2>3, <2>4, <2>5, FitFieldsChange
<1>3. QED BY <1>1, <1>2

LEMMA FitDeleteCategory ==
  ASSUME TypeOK, FitInv, NEW w \in Requests, NEW k \in Categories, DeleteCategory(w, k)
  PROVE  FitInv'
<1>1. \A f \in Fields :
        \/ fields'[f] = fields[f]
        \/ fields'[f].row = "deleted"
  <2>1. \A f \in Fields : Gone(fields[f]).row = "deleted"
    BY TypeParts DEF TablesOK, FieldRow, Gone
  <2>2. QED BY <2>1 DEF DeleteCategory
<1>2. UNCHANGED <<measurements, values, req, blurred>>
  BY DEF DeleteCategory
<1>3. \A f \in Fields :
        \/ fields[f].row = "unborn"
        \/ /\ fields'[f].row # "unborn"
           /\ fields'[f].row = "stored" =>
                /\ fields[f].row = "stored" /\ fields'[f].category = fields[f].category
                /\ fields'[f].required => fields[f].required
  BY <1>1
<1>4. QED BY <1>2, <1>3, FitFieldsKept

\* The values of m are written, and those of the others stay.
LEMMA FitMeasurementWritten ==
  ASSUME TypeOK, FitInv, NEW m \in Measurements, NEW row, NEW list,
         measurements' = [measurements EXCEPT ![m] = row], values' = [values EXCEPT ![m] = list],
         m \notin blurred' => FitsIn(fields, list, row.category),
         \A n \in Measurements : n \in blurred /\ n # m => n \in blurred',
         \A w \in Requests : HoldsFit(req'[w], fields), UNCHANGED fields
  PROVE  FitInv'
<1>1. /\ measurements'[m] = row /\ values'[m] = list
      /\ \A n \in Measurements : n # m => measurements'[n] = measurements[n]
                                         /\ values'[n] = values[n]
  BY TypeParts DEF TablesOK
<1>2. ASSUME NEW n \in StoredMeasurements' \ blurred'
      PROVE  FitsIn(fields, values'[n], measurements'[n].category)
  <2>1. CASE n = m
    BY <1>1, <1>2, <2>1
  <2>2. CASE n # m
    BY <1>1, <1>2, <2>2 DEF FitInv, StoredMeasurements
  <2>3. QED BY <2>1, <2>2
<1>3. QED BY <1>2 DEF FitInv

LEMMA FitCommits ==
  ASSUME TypeOK, FitInv, NEW w \in Requests,
         CreateMeasurementCommit(w) \/ UpdateMeasurementCommit(w)
  PROVE  FitInv'
<1> DEFINE m == req[w].measurement
<1>1. req[w] \in Request /\ m \in Measurements /\ HoldsFit(req[w], fields)
  BY TypeParts DEF RequestOK, FitInv, CreateMeasurementCommit, UpdateMeasurementCommit
<1>2. CASE CreateMeasurementCommit(w)
  <2>1. \A v \in Requests : HoldsFit(req'[v], fields)
    BY <1>2, IdleHolds, TypeParts DEF FitInv, CreateMeasurementCommit
  <2>2. m \notin blurred' => FitsIn(fields, req[w].list, req[w].category)
    BY <1>1, <1>2 DEF HoldsFit, CreateMeasurementCommit
  <2>3. QED BY <1>1, <1>2, <2>1, <2>2, FitMeasurementWritten DEF CreateMeasurementCommit
<1>3. CASE UpdateMeasurementCommit(w)
  <2> DEFINE row == UpdatedRow(measurements[m], req[w])
             list == UpdatedValues(values[m], req[w].list)
  <2>1. /\ req[w].pc = "update" /\ m \in StoredMeasurements
        /\ measurements' = [measurements EXCEPT ![m] = row]
        /\ values' = [values EXCEPT ![m] = list]
        /\ blurred' = IF Misfits(m, req[w], row) THEN blurred \cup {m} ELSE blurred \ {m}
        /\ UNCHANGED fields
    BY <1>3 DEF UpdateMeasurementCommit
  <2>2. ASSUME NEW v \in Requests PROVE HoldsFit(req'[v], fields)
    <3>1. CASE req'[v] = Idle
      BY <3>1, IdleHolds
    <3>2. CASE req'[v] = req[v]
      BY <3>2 DEF FitInv
    <3>3. CASE req[v].pc = "attach" /\ req'[v] = [req[v] EXCEPT !.stale = TRUE]
      BY <3>3, TypeParts DEF HoldsFit, RequestOK, Request
    <3>4. QED BY <1>3, <3>1, <3>2, <3>3 DEF UpdateMeasurementCommit
  <2>3. ASSUME m \notin blurred' PROVE FitsIn(fields, list, row.category)
    <3>1. ~Misfits(m, req[w], row)
      BY <2>1, <2>3
    <3>2. CASE req[w].list = {}
      <4>1. list = values[m] /\ m \notin blurred
            /\ (row.category = measurements[m].category \/ values[m] = {})
        BY <3>1, <3>2 DEF Misfits, UpdatedValues
      <4>2. QED BY <2>1, <4>1, EmptyFits DEF FitInv
    <3>3. CASE req[w].list # {}
      <4>1. list = req[w].list /\ ~req[w].stale /\ row.category = req[w].checked
        BY <3>1, <3>3 DEF Misfits, UpdatedValues
      <4>2. QED BY <1>1, <2>1, <4>1 DEF HoldsFit
    <3>4. QED BY <3>2, <3>3
  <2> HIDE DEF row, list
  <2>4. \A n \in Measurements : n \in blurred /\ n # m => n \in blurred'
    BY <2>1
  <2>5. QED BY <1>1, <2>1, <2>2, <2>3, <2>4, FitMeasurementWritten
<1>4. QED BY <1>2, <1>3

LEMMA FitDeleteCommit ==
  ASSUME TypeOK, FitInv, NEW w \in Requests, DeleteMeasurementCommit(w) PROVE FitInv'
<1> DEFINE m == req[w].measurement
<1>1. \A v \in Requests : HoldsFit(req'[v], fields)
  BY IdleHolds, TypeParts DEF FitInv, DeleteMeasurementCommit
<1>2. m \in Measurements
  BY DEF DeleteMeasurementCommit, StoredMeasurements
<1>3. QED BY <1>1, <1>2, EmptyFits, FitMeasurementWritten DEF DeleteMeasurementCommit

LEMMA FitNext == TypeOK /\ FitInv /\ [Next]_vars => FitInv'
<1> SUFFICES ASSUME TypeOK, FitInv, [Next]_vars PROVE FitInv'
  OBVIOUS
<1>1. CASE UNCHANGED vars
  BY <1>1 DEF vars, FitInv, StoredMeasurements
<1>2. ASSUME NEW w \in Requests, Begin(w) PROVE FitInv'
  <2>1. ASSUME NEW f \in Fields, NEW k \in Categories, NEW required \in BOOLEAN,
               \/ CreateMeasurementField(w, f, k, required)
               \/ UpdateMeasurementField(w, f, k, required)
        PROVE  FitInv'
    BY <2>1, FitFieldSteps
  <2>2. ASSUME NEW k \in Categories, DeleteCategory(w, k) PROVE FitInv'
    BY <2>2, FitDeleteCategory
  <2>3. ASSUME NEW m \in Measurements, NEW list \in SUBSET Value, NEW c \in Customers,
               NEW k \in Categories, CreateMeasurementBegin(w, m, c, k, list)
        PROVE  FitInv'
    <3> DEFINE q == [Idle EXCEPT !.pc = "create", !.measurement = m, !.customer = c,
                                 !.category = k, !.list = list]
    <3>1. FitsIn(fields, list, k)
      BY <2>3, ValidFits DEF CreateMeasurementBegin
    <3>2. HoldsFit(q, fields)
      BY <3>1 DEF HoldsFit, Idle
    <3>3. QED BY <2>3, <3>2, FitRequestMoves DEF CreateMeasurementBegin, StoredMeasurements
  <2>4. ASSUME NEW m \in Measurements, NEW list \in SUBSET Value,
               NEW c \in Customers \cup {None}, NEW k \in Categories \cup {None},
               UpdateMeasurementBegin(w, m, c, k, list)
        PROVE  FitInv'
    <3> DEFINE checked == Checked(k, measurements[m].category)
               q == [Idle EXCEPT !.pc = "update", !.measurement = m, !.customer = c,
                                 !.category = k, !.checked = checked, !.list = list]
    <3>1. checked \in Categories /\ (list = {} \/ Valid(list, checked))
      BY <2>4, TypeParts DEF UpdateMeasurementBegin, TablesOK
    <3> HIDE DEF checked
    <3>2. FitsIn(fields, list, checked)
      BY <3>1, EmptyFits, ValidFits
    <3>3. HoldsFit(q, fields)
      BY <3>2 DEF HoldsFit, Idle
    <3> USE DEF checked
    <3>4. QED BY <2>4, <3>3, FitRequestMoves DEF UpdateMeasurementBegin, StoredMeasurements
  <2>5. ASSUME NEW m \in Measurements, DeleteMeasurementBegin(w, m) PROVE FitInv'
    <3>1. HoldsFit([Idle EXCEPT !.pc = "remove", !.measurement = m], fields)
      BY DEF HoldsFit, Idle
    <3>2. QED BY <2>5, <3>1, FitRequestMoves DEF DeleteMeasurementBegin, StoredMeasurements
  <2>6. ASSUME NEW i \in Items, NEW c \in Customers, NEW k \in Categories,
               NEW n \in Measurements \cup {None}, SaveItemBegin(w, i, c, k, n)
        PROVE  FitInv'
    <3>1. HoldsFit([Idle EXCEPT !.pc = "attach", !.item = i, !.customer = c,
                                !.category = k, !.measurement = n], fields)
      BY DEF HoldsFit, Idle
    <3>2. QED BY <2>6, <3>1, FitRequestMoves DEF SaveItemBegin, StoredMeasurements
  <2>7. ASSUME NEW i \in Items, NEW c \in Customers, MoveItem(w, i, c) \/ RemoveItem(w, i)
        PROVE  FitInv'
    BY <2>7 DEF MoveItem, RemoveItem, FitInv, StoredMeasurements
  <2>8. ASSUME NEW i \in Items, RemoveItem(w, i) PROVE FitInv'
    BY <2>8 DEF RemoveItem, FitInv, StoredMeasurements
  <2>9. QED BY <1>2, <2>1, <2>2, <2>3, <2>4, <2>5, <2>6, <2>7, <2>8 DEF Begin
<1>3. ASSUME NEW w \in Requests, RunOn(w) PROVE FitInv'
  <2>1. CASE SaveItemCommit(w)
    BY <2>1, IdleHolds, FitRequestMoves DEF SaveItemCommit, StoredMeasurements
  <2>2. QED BY <1>3, <2>1, FitCommits, FitDeleteCommit DEF RunOn
<1>4. ASSUME NEW w \in Requests, Abort(w) PROVE FitInv'
  BY <1>4, IdleHolds, FitRequestMoves DEF Abort, StoredMeasurements
<1>5. QED BY <1>1, <1>2, <1>3, <1>4 DEF Next

\* Whatever creations, updates and changes of fields overlap, the values of a measurement
\* fit its category, blurred ones excepted (validateMeasurementValues).
THEOREM ValuesAlwaysFit == Spec => []ValuesFit
<1>1. Init => TypeOK /\ FitInv
  <2> SUFFICES ASSUME Init PROVE FitInv
    BY InitType
  <2>1. \A w \in Requests : HoldsFit(req[w], fields)
    BY IdleHolds DEF Init
  <2>2. StoredMeasurements = {}
    BY DEF Init, StoredMeasurements, UnbornMeasurement
  <2>3. QED BY <2>1, <2>2 DEF FitInv
<1>2. TypeOK /\ FitInv /\ [Next]_vars => (TypeOK /\ FitInv)'
  BY NextType, FitNext
<1>3. QED BY <1>1, <1>2, FitInvImplies, PTL DEF Spec

----------------------------------------------------------------------------
(* Items and measurements. *)

\* A request that is not stale is about to attach a measurement that is its customer's
\* and its category's as long as it is stored.
HoldsMeasured(q, table) ==
  q.pc = "attach" /\ ~q.stale /\ q.measurement # None =>
    /\ table[q.measurement].row # "unborn"
    /\ table[q.measurement].row = "stored" =>
         /\ table[q.measurement].customer = q.customer
         /\ table[q.measurement].category = q.category

ItemInv ==
  /\ ItemsMeasured
  /\ \A w \in Requests : HoldsMeasured(req[w], measurements)

\* Items saved under a delete of their measurement are in late.
LateInv ==
  \A w \in Requests : req[w].pc = "remove" => ItemsOf(req[w].measurement) \subseteq late

LEMMA IdleMeasured == ASSUME NEW table PROVE HoldsMeasured(Idle, table)
  BY IdleOK DEF HoldsMeasured

\* A step that moves one request and leaves the items and what they refer to.
LEMMA ItemRequestMoves ==
  ASSUME TypeOK, ItemInv, NEW w \in Requests, NEW q, HoldsMeasured(q, measurements),
         req' = [req EXCEPT ![w] = q], UNCHANGED <<measurements, items, astray>>
  PROVE  ItemInv'
<1>1. \A v \in Requests : HoldsMeasured(req'[v], measurements)
  BY TypeParts DEF ItemInv
<1>2. QED BY <1>1 DEF ItemInv, ItemsMeasured, StoredItems, StoredMeasurements

LEMMA ItemCreateCommit ==
  ASSUME TypeOK, ItemInv, NEW w \in Requests, CreateMeasurementCommit(w) PROVE ItemInv'
<1> DEFINE m == req[w].measurement
<1>1. /\ m \in Measurements /\ measurements[m].row = "unborn"
      /\ req' = [req EXCEPT ![w] = Idle] /\ UNCHANGED <<items, astray>>
      /\ \A n \in Measurements : n # m => measurements'[n] = measurements[n]
  BY TypeParts DEF CreateMeasurementCommit, RequestOK, TablesOK
<1>2. ASSUME NEW v \in Requests PROVE HoldsMeasured(req'[v], measurements')
  <2>1. CASE req'[v] = Idle
    BY <2>1, IdleMeasured
  <2>2. CASE req'[v] = req[v]
    <3>1. req[v].measurement \in Measurements \cup {None}
      BY TypeParts DEF RequestOK, Request
    <3>2. QED BY <1>1, <2>2, <3>1 DEF HoldsMeasured, ItemInv
  <2>3. QED BY <1>1, <2>1, <2>2, TypeParts
<1>3. ItemsMeasured'
  BY <1>1, TypeParts DEF ItemInv, ItemsMeasured, StoredItems, StoredMeasurements
<1>4. QED BY <1>2, <1>3 DEF ItemInv

LEMMA ItemUpdateCommit ==
  ASSUME TypeOK, ItemInv, NEW w \in Requests, UpdateMeasurementCommit(w) PROVE ItemInv'
<1> DEFINE m == req[w].measurement
           row == UpdatedRow(measurements[m], req[w])
           moved == \/ row.customer # measurements[m].customer
                    \/ row.category # measurements[m].category
<1>1. /\ m \in StoredMeasurements /\ m \in Measurements
      /\ measurements' = [measurements EXCEPT ![m] = row]
      /\ astray' = IF moved THEN astray \cup ItemsOf(m) ELSE astray
      /\ req' = [v \in Requests |->
           IF v = w THEN Idle
           ELSE IF moved /\ req[v].pc = "attach" /\ req[v].measurement = m
           THEN [req[v] EXCEPT !.stale = TRUE] ELSE req[v]]
      /\ UNCHANGED items
  BY DEF UpdateMeasurementCommit, StoredMeasurements
<1>2. row.row = "stored"
  <2>1. measurements[m].row = "stored" /\ measurements[m] \in MeasurementRow
    BY <1>1, TypeParts DEF TablesOK, StoredMeasurements
  <2>2. QED BY <2>1 DEF UpdatedRow, MeasurementRow
<1> HIDE DEF row
<1>3. /\ measurements'[m] = row
      /\ \A n \in Measurements : n # m => measurements'[n] = measurements[n]
      /\ StoredMeasurements' = StoredMeasurements
  BY <1>1, <1>2, TypeParts DEF TablesOK, StoredMeasurements
<1>4. ASSUME NEW v \in Requests PROVE HoldsMeasured(req'[v], measurements')
  <2>1. CASE v = w
    BY <1>1, <2>1, IdleMeasured
  <2>2. CASE v # w /\ req'[v] = req[v]
    <3>1. /\ req[v].measurement \in Measurements \cup {None}
          /\ HoldsMeasured(req[v], measurements)
      BY TypeParts DEF RequestOK, Request, ItemInv
    <3>2. CASE req[v].pc = "attach" /\ req[v].measurement = m /\ moved
      <4>1. req'[v] = [req[v] EXCEPT !.stale = TRUE] /\ req[v] \in Request
        BY <1>1, <2>2, <3>2, TypeParts DEF RequestOK
      <4>2. req'[v].stale
        BY <4>1 DEF Request
      <4>3. QED BY <4>2 DEF HoldsMeasured
    <3>3. CASE req[v].measurement = m /\ ~moved
      <4>1. measurements[m].row = "stored"
        BY <1>1 DEF StoredMeasurements
      <4>2. QED BY <1>2, <1>3, <2>2, <3>1, <3>3, <4>1 DEF HoldsMeasured
    <3>4. CASE req[v].pc # "attach"
      BY <2>2, <3>4 DEF HoldsMeasured
    <3>5. CASE req[v].measurement # m
      BY <1>3, <2>2, <3>1, <3>5 DEF HoldsMeasured
    <3>6. QED BY <3>2, <3>3, <3>4, <3>5
  <2>3. CASE req'[v] = [req[v] EXCEPT !.stale = TRUE]
    <3>1. req'[v].stale
      BY <2>3, TypeParts DEF RequestOK, Request
    <3>2. QED BY <3>1 DEF HoldsMeasured
  <2>4. QED BY <1>1, <2>1, <2>2, <2>3
<1>5. ASSUME NEW i \in StoredItems' \ astray', items'[i].measurement # None
      PROVE  /\ items'[i].measurement \in StoredMeasurements'
             /\ measurements'[items'[i].measurement].customer = items'[i].customer
             /\ measurements'[items'[i].measurement].category = items'[i].category
  <2>1. i \in StoredItems \ astray /\ items'[i] = items[i]
    BY <1>1, <1>5 DEF StoredItems
  <2>2. /\ items[i].measurement \in StoredMeasurements
        /\ measurements[items[i].measurement].customer = items[i].customer
        /\ measurements[items[i].measurement].category = items[i].category
    BY <1>5, <2>1 DEF ItemInv, ItemsMeasured
  <2>3. CASE items[i].measurement = m
    <3>1. ~moved
      BY <1>1, <1>5, <2>1, <2>3 DEF ItemsOf
    <3>2. QED BY <1>3, <2>1, <2>2, <2>3, <3>1
  <2>4. CASE items[i].measurement # m
    BY <1>3, <2>1, <2>2, <2>4 DEF StoredMeasurements
  <2>5. QED BY <2>3, <2>4
<1>6. QED BY <1>4, <1>5 DEF ItemInv, ItemsMeasured

LEMMA ItemDeleteCommit ==
  ASSUME TypeOK, ItemInv, NEW w \in Requests, DeleteMeasurementCommit(w) PROVE ItemInv'
<1> DEFINE m == req[w].measurement
<1>1. /\ m \in StoredMeasurements /\ m \in Measurements
      /\ measurements' = [measurements EXCEPT ![m] = Gone(measurements[m])]
      /\ items' = [i \in Items |->
           IF i \in ItemsOf(m) THEN [items[i] EXCEPT !.measurement = None] ELSE items[i]]
      /\ req' = [req EXCEPT ![w] = Idle] /\ UNCHANGED astray
  BY DEF DeleteMeasurementCommit, StoredMeasurements
<1>2. Gone(measurements[m]).row = "deleted"
  BY <1>1, TypeParts DEF TablesOK, MeasurementRow, Gone
<1>3. /\ measurements'[m].row = "deleted"
      /\ \A n \in Measurements : n # m => measurements'[n] = measurements[n]
  BY <1>1, <1>2, TypeParts DEF TablesOK
<1>4. ASSUME NEW v \in Requests PROVE HoldsMeasured(req'[v], measurements')
  <2>1. CASE req'[v] = Idle
    BY <2>1, IdleMeasured
  <2>2. CASE req'[v] = req[v]
    <3>1. req[v].measurement \in Measurements \cup {None}
          /\ HoldsMeasured(req[v], measurements)
      BY TypeParts DEF RequestOK, Request, ItemInv
    <3>2. QED BY <1>3, <2>2, <3>1 DEF HoldsMeasured
  <2>3. QED BY <1>1, <2>1, <2>2, TypeParts
<1>5. ASSUME NEW i \in StoredItems' \ astray', items'[i].measurement # None
      PROVE  /\ items'[i].measurement \in StoredMeasurements'
             /\ measurements'[items'[i].measurement].customer = items'[i].customer
             /\ measurements'[items'[i].measurement].category = items'[i].category
  <2>1. i \in Items /\ items[i] \in ItemRow
    BY <1>5, TypeParts DEF StoredItems, TablesOK
  <2>2. i \notin ItemsOf(m) /\ items'[i] = items[i]
    BY <1>1, <1>5, <2>1 DEF ItemRow
  <2>3. i \in StoredItems \ astray /\ items[i].measurement # m
    BY <1>1, <1>5, <2>1, <2>2 DEF StoredItems, ItemsOf
  <2>4. QED BY <1>3, <1>5, <2>2, <2>3 DEF ItemInv, ItemsMeasured, StoredMeasurements
<1>6. QED BY <1>4, <1>5 DEF ItemInv, ItemsMeasured

LEMMA ItemSaveCommit ==
  ASSUME TypeOK, ItemInv, NEW w \in Requests, SaveItemCommit(w) PROVE ItemInv'
<1> DEFINE j == req[w].item
           row == [row |-> "stored", customer |-> req[w].customer,
                   category |-> req[w].category, measurement |-> req[w].measurement]
<1>1. /\ j \in Items /\ req[w].pc = "attach"
      /\ req[w].measurement \in StoredMeasurements \cup {None}
      /\ items' = [items EXCEPT ![j] = row] /\ req' = [req EXCEPT ![w] = Idle]
      /\ astray' = IF req[w].stale THEN astray \cup {j} ELSE astray
      /\ UNCHANGED measurements
  BY TypeParts DEF SaveItemCommit, RequestOK
<1>2. \A v \in Requests : HoldsMeasured(req'[v], measurements)
  BY <1>1, IdleMeasured, TypeParts DEF ItemInv
<1>3. HoldsMeasured(req[w], measurements)
  BY DEF ItemInv
<1>4. ASSUME NEW i \in StoredItems' \ astray', items'[i].measurement # None
      PROVE  /\ items'[i].measurement \in StoredMeasurements
             /\ measurements[items'[i].measurement].customer = items'[i].customer
             /\ measurements[items'[i].measurement].category = items'[i].category
  <2>1. CASE i = j
    <3>1. items'[i] = row /\ ~req[w].stale
      BY <1>1, <1>4, <2>1, TypeParts DEF TablesOK
    <3>2. req[w].measurement \in StoredMeasurements
      BY <1>1, <1>4, <3>1
    <3>3. measurements[req[w].measurement].row = "stored" /\ req[w].measurement # None
      BY <3>2 DEF StoredMeasurements
    <3>4. QED BY <1>1, <1>3, <3>1, <3>2, <3>3 DEF HoldsMeasured
  <2>2. CASE i # j
    <3>1. i \in StoredItems \ astray /\ items'[i] = items[i]
      BY <1>1, <1>4, <2>2, TypeParts DEF StoredItems, TablesOK
    <3>2. QED BY <1>4, <3>1 DEF ItemInv, ItemsMeasured
  <2>3. QED BY <2>1, <2>2
<1>5. ItemsMeasured'
  BY <1>1, <1>4 DEF ItemsMeasured, StoredMeasurements
<1>6. QED BY <1>1, <1>2, <1>5 DEF ItemInv

LEMMA ItemMove ==
  ASSUME TypeOK, ItemInv, NEW w \in Requests, NEW i \in Items, NEW c \in Customers,
         MoveItem(w, i, c)
  PROVE  ItemInv'
<1>1. /\ UNCHANGED <<measurements, req>> /\ astray \subseteq astray' /\ i \in StoredItems
      /\ i \notin astray' => c = items[i].customer
      /\ items' = [items EXCEPT ![i] = [items[i] EXCEPT !.customer = c]]
  BY DEF MoveItem
<1>2. ASSUME NEW j \in StoredItems' \ astray' PROVE j \in StoredItems \ astray /\ items'[j] = items[j]
  <2>1. j \in Items /\ items[j] \in ItemRow /\ items[i] \in ItemRow
    BY <1>2, TypeParts DEF TablesOK, StoredItems
  <2>2. CASE j = i
    <3>1. [items[i] EXCEPT !.customer = c] = items[i]
      BY <1>1, <1>2, <2>1, <2>2 DEF ItemRow
    <3>2. QED BY <1>1, <1>2, <2>2, <3>1, TypeParts DEF TablesOK
  <2>3. CASE j # i
    BY <1>1, <1>2, <2>3, TypeParts DEF TablesOK, StoredItems
  <2>4. QED BY <2>2, <2>3
<1>3. ItemsMeasured'
  BY <1>1, <1>2 DEF ItemInv, ItemsMeasured, StoredMeasurements
<1>4. QED BY <1>1, <1>3 DEF ItemInv

LEMMA ItemRemove ==
  ASSUME TypeOK, ItemInv, NEW w \in Requests, NEW i \in Items, RemoveItem(w, i)
  PROVE  ItemInv'
<1>1. UNCHANGED <<measurements, req, astray>>
  BY DEF RemoveItem
<1>2. [UnbornItem EXCEPT !.row = "deleted"].row = "deleted"
  BY DEF UnbornItem
<1>3. ASSUME NEW j \in StoredItems' PROVE j \in StoredItems /\ items'[j] = items[j]
  BY <1>2, <1>3, TypeParts DEF RemoveItem, TablesOK, StoredItems
<1>4. ItemsMeasured'
  BY <1>1, <1>3 DEF ItemInv, ItemsMeasured, StoredMeasurements
<1>5. QED BY <1>1, <1>4 DEF ItemInv

LEMMA ItemNext == TypeOK /\ ItemInv /\ [Next]_vars => ItemInv'
<1> SUFFICES ASSUME TypeOK, ItemInv, [Next]_vars PROVE ItemInv'
  OBVIOUS
<1>1. CASE UNCHANGED vars
  BY <1>1 DEF vars, ItemInv, ItemsMeasured, StoredItems, StoredMeasurements
<1>2. ASSUME NEW w \in Requests, Begin(w) PROVE ItemInv'
  <2>1. ASSUME NEW f \in Fields, NEW k \in Categories, NEW required \in BOOLEAN,
               \/ CreateMeasurementField(w, f, k, required)
               \/ UpdateMeasurementField(w, f, k, required)
        PROVE  ItemInv'
    <3>1. UNCHANGED <<measurements, items, astray>>
      BY <2>1 DEF CreateMeasurementField, UpdateMeasurementField
    <3>2. ASSUME NEW v \in Requests PROVE HoldsMeasured(req'[v], measurements)
      <4>1. CASE req'[v] = req[v]
        BY <4>1 DEF ItemInv
      <4>2. CASE req'[v] = [req[v] EXCEPT !.stale = TRUE]
        <5>1. req'[v].stale
          BY <4>2, TypeParts DEF RequestOK, Request
        <5>2. QED BY <5>1 DEF HoldsMeasured
      <4>3. QED BY <2>1, <4>1, <4>2
            DEF CreateMeasurementField, UpdateMeasurementField, StaleFor
    <3>3. QED BY <3>1, <3>2 DEF ItemInv, ItemsMeasured, StoredItems, StoredMeasurements
  <2>2. ASSUME NEW k \in Categories, DeleteCategory(w, k) PROVE ItemInv'
    BY <2>2 DEF DeleteCategory, ItemInv, ItemsMeasured, StoredItems, StoredMeasurements
  <2>3. ASSUME NEW m \in Measurements, NEW list \in SUBSET Value, NEW c \in Customers,
               NEW k \in Categories, CreateMeasurementBegin(w, m, c, k, list)
        PROVE  ItemInv'
    <3>1. HoldsMeasured([Idle EXCEPT !.pc = "create", !.measurement = m, !.customer = c,
                                     !.category = k, !.list = list], measurements)
      BY DEF HoldsMeasured, Idle
    <3>2. QED BY <2>3, <3>1, ItemRequestMoves DEF CreateMeasurementBegin
  <2>4. ASSUME NEW m \in Measurements, NEW list \in SUBSET Value,
               NEW c \in Customers \cup {None}, NEW k \in Categories \cup {None},
               UpdateMeasurementBegin(w, m, c, k, list)
        PROVE  ItemInv'
    <3>1. HoldsMeasured([Idle EXCEPT !.pc = "update", !.measurement = m, !.customer = c,
                                     !.category = k,
                                     !.checked = Checked(k, measurements[m].category),
                                     !.list = list], measurements)
      BY DEF HoldsMeasured, Idle
    <3>2. QED BY <2>4, <3>1, ItemRequestMoves DEF UpdateMeasurementBegin
  <2>5. ASSUME NEW m \in Measurements, DeleteMeasurementBegin(w, m) PROVE ItemInv'
    <3>1. HoldsMeasured([Idle EXCEPT !.pc = "remove", !.measurement = m], measurements)
      BY DEF HoldsMeasured, Idle
    <3>2. QED BY <2>5, <3>1, ItemRequestMoves DEF DeleteMeasurementBegin
  <2>6. ASSUME NEW i \in Items, NEW c \in Customers, NEW k \in Categories,
               NEW n \in Measurements \cup {None}, SaveItemBegin(w, i, c, k, n)
        PROVE  ItemInv'
    <3> DEFINE q == [Idle EXCEPT !.pc = "attach", !.item = i, !.customer = c,
                                 !.category = k, !.measurement = n]
    <3>1. n # None => /\ measurements[n].row = "stored" /\ measurements[n].customer = c
                      /\ measurements[n].category = k
      BY <2>6 DEF SaveItemBegin, Resolves, StoredMeasurements
    <3>2. HoldsMeasured(q, measurements)
      BY <3>1 DEF HoldsMeasured, Idle
    <3>3. QED BY <2>6, <3>2, ItemRequestMoves DEF SaveItemBegin
  <2>7. ASSUME NEW i \in Items, NEW c \in Customers, MoveItem(w, i, c) PROVE ItemInv'
    BY <2>7, ItemMove
  <2>8. ASSUME NEW i \in Items, RemoveItem(w, i) PROVE ItemInv'
    BY <2>8, ItemRemove
  <2>9. QED BY <1>2, <2>1, <2>2, <2>3, <2>4, <2>5, <2>6, <2>7, <2>8 DEF Begin
<1>3. ASSUME NEW w \in Requests, RunOn(w) PROVE ItemInv'
  BY <1>3, ItemCreateCommit, ItemUpdateCommit, ItemDeleteCommit, ItemSaveCommit DEF RunOn
<1>4. ASSUME NEW w \in Requests, Abort(w) PROVE ItemInv'
  BY <1>4, IdleMeasured, ItemRequestMoves DEF Abort
<1>5. QED BY <1>1, <1>2, <1>3, <1>4 DEF Next

\* However orders, measurements and deletes overlap, an item with a measurement has one of
\* its own customer and category, astray ones excepted (resolveMeasurementIdForOrderItem).
THEOREM ItemsAlwaysMeasured == Spec => []ItemsMeasured
<1>1. Init => TypeOK /\ ItemInv
  <2> SUFFICES ASSUME Init PROVE ItemInv
    BY InitType
  <2>1. \A w \in Requests : HoldsMeasured(req[w], measurements)
    BY IdleMeasured DEF Init
  <2>2. StoredItems = {}
    BY DEF Init, StoredItems, UnbornItem
  <2>3. QED BY <2>1, <2>2 DEF ItemInv, ItemsMeasured
<1>2. TypeOK /\ ItemInv /\ [Next]_vars => (TypeOK /\ ItemInv)'
  BY NextType, ItemNext
<1>3. ItemInv => ItemsMeasured
  BY DEF ItemInv
<1>4. QED BY <1>1, <1>2, <1>3, PTL DEF Spec

----------------------------------------------------------------------------
(* Items that keep their measurement. *)

\* A step other than an item's saving brings no item into ItemsOf.
LEMMA KeptItems ==
  ASSUME TypeOK, NEW w \in Requests, Begin(w) \/ RunOn(w) \/ Abort(w), ~SaveItemCommit(w)
  PROVE  \A i \in StoredItems' :
           i \in StoredItems /\ items'[i].measurement \in {items[i].measurement, None}
<1>1. CASE items' = items
  BY <1>1 DEF StoredItems
<1>2. CASE DeleteMeasurementCommit(w)
  BY <1>2, TypeParts DEF DeleteMeasurementCommit, StoredItems, TablesOK, ItemRow
<1>3. ASSUME NEW i \in Items, NEW c \in Customers, MoveItem(w, i, c)
      PROVE  \A j \in StoredItems' :
               j \in StoredItems /\ items'[j].measurement = items[j].measurement
  BY <1>3, TypeParts DEF MoveItem, StoredItems, TablesOK, ItemRow
<1>4. ASSUME NEW i \in Items, RemoveItem(w, i)
      PROVE  \A j \in StoredItems' :
               j \in StoredItems /\ items'[j].measurement = items[j].measurement
  <2>1. [UnbornItem EXCEPT !.row = "deleted"].row = "deleted"
    BY DEF UnbornItem
  <2>2. QED BY <1>4, <2>1, TypeParts DEF RemoveItem, StoredItems, TablesOK
<1>5. QED BY <1>1, <1>2, <1>3, <1>4 DEF Begin, RunOn, Abort, CreateMeasurementField,
      UpdateMeasurementField, DeleteCategory, CreateMeasurementBegin, UpdateMeasurementBegin,
      DeleteMeasurementBegin, SaveItemBegin, CreateMeasurementCommit, UpdateMeasurementCommit

\* Only deleteMeasurement makes a request that is about to delete.
LEMMA RemovesKept ==
  ASSUME TypeOK, NEW w \in Requests, Begin(w) \/ RunOn(w) \/ Abort(w),
         \A n \in Measurements : ~DeleteMeasurementBegin(w, n),
         NEW v \in Requests, req'[v].pc = "remove"
  PROVE  req'[v] = req[v] \/ req'[v] = [req[v] EXCEPT !.stale = TRUE]
<1>1. \A q : req' = [req EXCEPT ![w] = q] => req'[v] = req[v] \/ req'[v] = q
  BY TypeParts
<1>2. CASE Abort(w)
  BY <1>1, <1>2, IdleOK DEF Abort
<1>3. CASE RunOn(w)
  <2>1. CASE UpdateMeasurementCommit(w)
    BY <2>1, IdleOK DEF UpdateMeasurementCommit
  <2>2. QED BY <1>1, <1>3, <2>1, IdleOK DEF RunOn, CreateMeasurementCommit,
        DeleteMeasurementCommit, SaveItemCommit
<1>4. CASE Begin(w)
  <2>1. ASSUME NEW f \in Fields, NEW k \in Categories, NEW required \in BOOLEAN,
               \/ CreateMeasurementField(w, f, k, required)
               \/ UpdateMeasurementField(w, f, k, required)
        PROVE  req'[v] = req[v] \/ req'[v] = [req[v] EXCEPT !.stale = TRUE]
    BY <2>1 DEF CreateMeasurementField, UpdateMeasurementField, StaleFor
  <2>2. ASSUME NEW m \in Measurements, NEW list, NEW c, NEW k,
               CreateMeasurementBegin(w, m, c, k, list)
        PROVE  req'[v] = req[v]
    BY <1>1, <2>2 DEF CreateMeasurementBegin, Idle
  <2>3. ASSUME NEW m \in Measurements, NEW list, NEW c, NEW k,
               UpdateMeasurementBegin(w, m, c, k, list)
        PROVE  req'[v] = req[v]
    BY <1>1, <2>3 DEF UpdateMeasurementBegin, Idle
  <2>4. ASSUME NEW i \in Items, NEW c, NEW k, NEW n, SaveItemBegin(w, i, c, k, n)
        PROVE  req'[v] = req[v]
    BY <1>1, <2>4 DEF SaveItemBegin, Idle
  <2>5. ASSUME NEW k \in Categories, DeleteCategory(w, k) PROVE req'[v] = req[v]
    BY <2>5 DEF DeleteCategory
  <2>6. ASSUME NEW i \in Items, NEW c, MoveItem(w, i, c) \/ RemoveItem(w, i)
        PROVE  req'[v] = req[v]
    BY <2>6 DEF MoveItem, RemoveItem
  <2>7. QED BY <1>4, <2>1, <2>2, <2>3, <2>4, <2>5, <2>6 DEF Begin
<1>5. QED BY <1>2, <1>3, <1>4

LEMMA LateNext == TypeOK /\ LateInv /\ [Next]_vars => LateInv'
<1> SUFFICES ASSUME TypeOK, LateInv, [Next]_vars,
                    NEW v \in Requests, req'[v].pc = "remove",
                    NEW m, m = req'[v].measurement
             PROVE  ItemsOf(m)' \subseteq late'
  BY DEF LateInv, ItemsOf
<1>1. CASE UNCHANGED vars
  BY <1>1 DEF vars, LateInv, ItemsOf, StoredItems
<1>2. ASSUME NEW w \in Requests, Begin(w) \/ RunOn(w) \/ Abort(w)
      PROVE  ItemsOf(m)' \subseteq late'
  <2>1. CASE SaveItemCommit(w)
    <3>1. v # w /\ req'[v] = req[v]
      BY <2>1, IdleOK, TypeParts DEF SaveItemCommit
    <3>2. ItemsOf(m) \subseteq late /\ late \subseteq late'
      BY <2>1, <3>1 DEF LateInv, SaveItemCommit
    <3>3. \A i \in Items : i # req[w].item => items'[i] = items[i]
      BY <2>1, TypeParts DEF SaveItemCommit, TablesOK
    <3>4. req[w].item \in ItemsOf(m)' => req[w].item \in late'
      <4>1. req[w].item \in Items
        BY <2>1, TypeParts DEF SaveItemCommit, RequestOK
      <4>2. items'[req[w].item].measurement = req[w].measurement
        BY <2>1, <4>1, TypeParts DEF SaveItemCommit, TablesOK
      <4>3. req[w].measurement = m => BeingDeleted(req[w].measurement)
        BY <3>1 DEF BeingDeleted
      <4>4. QED BY <2>1, <4>2, <4>3 DEF SaveItemCommit, ItemsOf
    <3>5. QED BY <3>2, <3>3, <3>4 DEF ItemsOf, StoredItems
  <2>2. CASE \E n \in Measurements : DeleteMeasurementBegin(w, n)
    <3>1. PICK n \in Measurements : DeleteMeasurementBegin(w, n)
      BY <2>2
    <3>2. CASE v = w
      <4>1. m = n
        BY <3>1, <3>2, TypeParts DEF DeleteMeasurementBegin, Idle
      <4>2. QED BY <3>1, <4>1 DEF DeleteMeasurementBegin, InUse, ItemsOf, StoredItems
    <3>3. CASE v # w
      BY <3>1, <3>3, TypeParts DEF DeleteMeasurementBegin, LateInv, ItemsOf, StoredItems
    <3>4. QED BY <3>2, <3>3
  <2>3. ASSUME \A n \in Measurements : ~DeleteMeasurementBegin(w, n), ~SaveItemCommit(w)
        PROVE  ItemsOf(m)' \subseteq late'
    <3>1. req[v].pc = "remove" /\ req[v].measurement = m
      <4>1. req'[v] = req[v] \/ req'[v] = [req[v] EXCEPT !.stale = TRUE]
        BY <1>2, <2>3, RemovesKept
      <4>2. req[v] \in Request
        BY TypeParts DEF RequestOK
      <4>3. QED BY <4>1, <4>2 DEF Request
    <3>2. late' = late
      BY <1>2, <2>3 DEF Begin, RunOn, Abort, CreateMeasurementField, UpdateMeasurementField,
         DeleteCategory, CreateMeasurementBegin, UpdateMeasurementBegin, SaveItemBegin,
         MoveItem, RemoveItem, CreateMeasurementCommit, UpdateMeasurementCommit,
         DeleteMeasurementCommit
    <3>3. \A i \in StoredItems' :
            i \in StoredItems /\ items'[i].measurement \in {items[i].measurement, None}
      BY <1>2, <2>3, KeptItems
    <3>4. m \in Measurements
      BY <3>1, TypeParts DEF RequestOK
    <3>5. QED BY <3>1, <3>2, <3>3, <3>4 DEF LateInv, ItemsOf
  <2>4. QED BY <2>1, <2>2, <2>3
<1>3. QED BY <1>1, <1>2 DEF Next

LEMMA CountedKeptNext ==
  ASSUME TypeOK, LateInv, [Next]_vars, NEW i \in StoredItems \ late, items'[i].row = "stored"
  PROVE  items'[i].measurement = items[i].measurement
<1>0. i \in Items /\ items[i].row = "stored" /\ \A j \in Items : items[j] \in ItemRow
  BY TypeParts DEF StoredItems, TablesOK
<1>1. CASE UNCHANGED vars
  BY <1>1 DEF vars
<1>2. ASSUME NEW w \in Requests, Begin(w) \/ RunOn(w) \/ Abort(w)
      PROVE  items'[i].measurement = items[i].measurement
  <2>1. CASE items' = items
    BY <2>1
  <2>2. CASE DeleteMeasurementCommit(w)
    <3>1. i \notin ItemsOf(req[w].measurement)
      BY <2>2 DEF DeleteMeasurementCommit, LateInv
    <3>2. QED BY <1>0, <2>2, <3>1 DEF DeleteMeasurementCommit
  <2>3. CASE SaveItemCommit(w)
    BY <1>0, <2>3, TypeParts DEF SaveItemCommit, TablesOK
  <2>4. ASSUME NEW j \in Items, NEW c \in Customers, MoveItem(w, j, c)
        PROVE  items'[i].measurement = items[i].measurement
    BY <1>0, <2>4, TypeParts DEF MoveItem, TablesOK, ItemRow
  <2>5. ASSUME NEW j \in Items, RemoveItem(w, j)
        PROVE  items'[i].measurement = items[i].measurement
    <3>1. [UnbornItem EXCEPT !.row = "deleted"].row = "deleted"
      BY DEF UnbornItem
    <3>2. QED BY <1>0, <2>5, <3>1, TypeParts DEF RemoveItem, TablesOK
  <2>6. QED BY <1>2, <2>1, <2>2, <2>3, <2>4, <2>5 DEF Begin, RunOn, Abort,
        CreateMeasurementField, UpdateMeasurementField, DeleteCategory, CreateMeasurementBegin,
        UpdateMeasurementBegin, DeleteMeasurementBegin, SaveItemBegin,
        CreateMeasurementCommit, UpdateMeasurementCommit
<1>3. QED BY <1>1, <1>2 DEF Next

\* An item that stays keeps its measurement, unless it was saved while that was being
\* deleted (deleteMeasurement's count).
THEOREM CountedItemsAlwaysKept == Spec => CountedItemsKept
<1>1. Init => TypeOK /\ LateInv
  <2> SUFFICES ASSUME Init PROVE LateInv
    BY InitType
  <2>1. QED BY IdleOK DEF Init, LateInv
<1>2. TypeOK /\ LateInv /\ [Next]_vars => (TypeOK /\ LateInv)'
  BY NextType, LateNext
<1>3. TypeOK /\ LateInv /\ [Next]_vars
      => [\A i \in StoredItems \ late :
            items'[i].row = "stored" => items'[i].measurement = items[i].measurement]_vars
  BY CountedKeptNext
<1>4. QED BY <1>1, <1>2, <1>3, PTL DEF Spec, CountedItemsKept
=============================================================================
