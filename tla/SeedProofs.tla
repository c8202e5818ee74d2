----------------------------- MODULE SeedProofs -----------------------------
(***************************************************************************)
(* Proofs about Seed, for any number of runs at a time.  The types and the *)
(* data of a run that ended well need of the data only that main has at    *)
(* least one statement and that every statement and every addition makes   *)
(* rows of Names.  That a run by itself succeeds needs the order of main's *)
(* statements and of its wipe: what it uses of them is proved first, from  *)
(* the data as it stands.                                                  *)
(***************************************************************************)
EXTENDS Seed, SequenceTheorems, TLAPS

----------------------------------------------------------------------------
(* The sequences of the data, whose members are read through Len.             *)

IsSequence(q) == \E S : q \in Seq(S)
Sized(q, n) == IsSequence(q) /\ Len(q) = n

LEMMA Tuples ==
  ASSUME NEW a, NEW b, NEW c, NEW d, NEW e, NEW f, NEW g, NEW h, NEW i, NEW j, NEW k
  PROVE  /\ Sized(<<a>>, 1)
         /\ Sized(<<a, b>>, 2)
         /\ Sized(<<a, b, c>>, 3)
         /\ Sized(<<a, b, c, d>>, 4)
         /\ Sized(<<a, b, c, d, e>>, 5)
         /\ Sized(<<a, b, c, d, e, f, g, h>>, 8)
         /\ Sized(<<a, b, c, d, e, f, g, h, i, j, k>>, 11)
<1>1. Sized(<<a>>, 1)
  <2>1. <<a>> \in Seq({a})
    OBVIOUS
  <2> QED BY <2>1 DEF Sized, IsSequence
<1>2. Sized(<<a, b>>, 2)
  <2>1. <<a, b>> \in Seq({a, b})
    OBVIOUS
  <2> QED BY <2>1 DEF Sized, IsSequence
<1>3. Sized(<<a, b, c>>, 3)
  <2>1. <<a, b, c>> \in Seq({a, b, c})
    OBVIOUS
  <2> QED BY <2>1 DEF Sized, IsSequence
<1>4. Sized(<<a, b, c, d>>, 4)
  <2>1. <<a, b, c, d>> \in Seq({a, b, c, d})
    OBVIOUS
  <2> QED BY <2>1 DEF Sized, IsSequence
<1>5. Sized(<<a, b, c, d, e>>, 5)
  <2>1. <<a, b, c, d, e>> \in Seq({a, b, c, d, e})
    OBVIOUS
  <2> QED BY <2>1 DEF Sized, IsSequence
<1>6. Sized(<<a, b, c, d, e, f, g, h>>, 8)
  <2>1. <<a, b, c, d, e, f, g, h>> \in Seq({a, b, c, d, e, f, g, h})
    OBVIOUS
  <2> QED BY <2>1 DEF Sized, IsSequence
<1>7. Sized(<<a, b, c, d, e, f, g, h, i, j, k>>, 11)
  <2>1. <<a, b, c, d, e, f, g, h, i, j, k>> \in Seq({a, b, c, d, e, f, g, h, i, j, k})
    OBVIOUS
  <2> QED BY <2>1 DEF Sized, IsSequence
<1> QED BY <1>1, <1>2, <1>3, <1>4, <1>5, <1>6, <1>7

\* p begins with the m members of q, and the n members of r follow.
Joined(p, q, m, r, n) ==
  /\ \A x \in 1 .. m : p[x] = q[x]
  /\ \A x \in 1 .. n : p[m + x] = r[x]

LEMMA Concatenation ==
  ASSUME NEW q, NEW m, Sized(q, m), NEW r, NEW n, Sized(r, n)
  PROVE  Sized(q \o r, m + n) /\ Joined(q \o r, q, m, r, n)
<1>1. PICK Q : q \in Seq(Q)
  BY DEF Sized, IsSequence
<1>2. PICK R : r \in Seq(R)
  BY DEF Sized, IsSequence
<1>3. q \in Seq(Q \cup R) /\ r \in Seq(Q \cup R) /\ Len(q) = m /\ Len(r) = n
  BY <1>1, <1>2 DEF Sized
<1>4. q \o r \in Seq(Q \cup R) /\ Len(q \o r) = m + n /\ m \in Nat /\ n \in Nat
  BY <1>3
<1>5. \A x \in 1 .. m : (q \o r)[x] = q[x]
  BY <1>3, <1>4
<1>6. \A x \in 1 .. n : (q \o r)[m + x] = r[x]
  BY <1>3, <1>4
<1> QED BY <1>4, <1>5, <1>6 DEF Sized, IsSequence, Joined

LEMMA PieceCounts ==
  /\ Sized(Catalogue, 3)
  /\ Sized(CustomersAndBlocks, 3)
  /\ Sized(MeasurementsTaken, 8)
  /\ Sized(OrdersPlaced, 2)
  /\ Sized(PaymentsMade, 1)
  /\ Sized(AttendanceKept, 4)
  /\ Sized(WhatsappSent, 4)
<1>1. Sized(Catalogue, 3)
  BY Tuples DEF Catalogue
<1>2. Sized(CustomersAndBlocks, 3)
  BY Tuples DEF CustomersAndBlocks
<1>3. Sized(MeasurementsTaken, 8)
  BY Tuples DEF MeasurementsTaken
<1>4. Sized(OrdersPlaced, 2)
  BY Tuples DEF OrdersPlaced
<1>5. Sized(PaymentsMade, 1)
  BY Tuples DEF PaymentsMade
<1>6. Sized(AttendanceKept, 4)
  BY Tuples DEF AttendanceKept
<1>7. Sized(WhatsappSent, 4)
  BY Tuples DEF WhatsappSent
<1> QED BY <1>1, <1>2, <1>3, <1>4, <1>5, <1>6, <1>7

\* Which statements of main are which.
LEMMA Pieces ==
  /\ DOMAIN Statements = 1 .. 25 /\ Len(Statements) = 25
  /\ \A i \in 1 .. 3 : Statements[i] = Catalogue[i]
  /\ \A i \in 1 .. 3 : Statements[3 + i] = CustomersAndBlocks[i]
  /\ \A i \in 1 .. 8 : Statements[6 + i] = MeasurementsTaken[i]
  /\ \A i \in 1 .. 2 : Statements[14 + i] = OrdersPlaced[i]
  /\ Statements[17] = PaymentsMade[1]
  /\ \A i \in 1 .. 4 : Statements[17 + i] = AttendanceKept[i]
  /\ \A i \in 1 .. 4 : Statements[21 + i] = WhatsappSent[i]
<1> DEFINE people == Catalogue \o CustomersAndBlocks
           measured == people \o MeasurementsTaken
           ordered == measured \o OrdersPlaced
           paid == ordered \o PaymentsMade
           attended == paid \o AttendanceKept
           told == attended \o WhatsappSent
<1> HIDE DEF people, measured, ordered, paid, attended, told
<1>1. Sized(people, 6) /\ Joined(people, Catalogue, 3, CustomersAndBlocks, 3)
  <2>1. Sized(people, 3 + 3) /\ Joined(people, Catalogue, 3, CustomersAndBlocks, 3)
    BY PieceCounts, Concatenation DEF people
  <2> QED BY <2>1
<1>2. Sized(measured, 14) /\ Joined(measured, people, 6, MeasurementsTaken, 8)
  <2>1. Sized(measured, 6 + 8) /\ Joined(measured, people, 6, MeasurementsTaken, 8)
    BY <1>1, PieceCounts, Concatenation DEF measured
  <2> QED BY <2>1
<1>3. Sized(ordered, 16) /\ Joined(ordered, measured, 14, OrdersPlaced, 2)
  <2>1. Sized(ordered, 14 + 2) /\ Joined(ordered, measured, 14, OrdersPlaced, 2)
    BY <1>2, PieceCounts, Concatenation DEF ordered
  <2> QED BY <2>1
<1>4. Sized(paid, 17) /\ Joined(paid, ordered, 16, PaymentsMade, 1)
  <2>1. Sized(paid, 16 + 1) /\ Joined(paid, ordered, 16, PaymentsMade, 1)
    BY <1>3, PieceCounts, Concatenation DEF paid
  <2> QED BY <2>1
<1>5. Sized(attended, 21) /\ Joined(attended, paid, 17, AttendanceKept, 4)
  <2>1. Sized(attended, 17 + 4) /\ Joined(attended, paid, 17, AttendanceKept, 4)
    BY <1>4, PieceCounts, Concatenation DEF attended
  <2> QED BY <2>1
<1>6. Sized(told, 25) /\ Joined(told, attended, 21, WhatsappSent, 4)
  <2>1. Sized(told, 21 + 4) /\ Joined(told, attended, 21, WhatsappSent, 4)
    BY <1>5, PieceCounts, Concatenation DEF told
  <2> QED BY <2>1
<1>7. told = Statements
  BY DEF told, attended, paid, ordered, measured, people, Statements
<1>8. DOMAIN Statements = 1 .. 25 /\ Len(Statements) = 25
  <2>1. PICK S : Statements \in Seq(S)
    BY <1>6, <1>7 DEF Sized, IsSequence
  <2> QED BY <1>6, <1>7, <2>1 DEF Sized
<1> QED BY <1>1, <1>2, <1>3, <1>4, <1>5, <1>6, <1>7, <1>8 DEF Joined

LEMMA StatementsCount == Len(Statements) = 25 /\ DOMAIN Statements = 1 .. Len(Statements)
BY Pieces

LEMMA NamesOfData ==
  /\ \A i \in DOMAIN Statements : DOMAIN Statements[i] \subseteq Names
  /\ \A data \in Additions \cup Writes : DOMAIN data \subseteq Names
BY WritesAssumption DEF Names, Data

LEMMA UpsertsCount == DOMAIN Upserts = 1 .. 4 /\ Len(Upserts) = 4
BY DEF Upserts

----------------------------------------------------------------------------
(* The data, as far as the proof that a run by itself succeeds needs it: what *)
(* the rows of a few tables name, and which rows a statement names and makes. *)

CategoryNames == {"sareeCategory", "uniformCategory", "otherCategory"}
FieldNames == {"sareeFields", "uniformFields", "otherField"}
CustomerNames == {"dinesha", "kaveesha", "nimali", "chamari"}
BlockNames == {"sareeBlockDinesha", "uniformBlockDinesha", "uniformBlockKaveesha",
               "uniformBlockNimali"}
Described == CategoryNames \cup CustomerNames \cup BlockNames
MeasurementNames == {"dineshaUniformMeasurement", "dineshaSareeMeasurement",
                     "kaveeshaUniformMeasurement", "nimaliUniformMeasurement"}
OrderNames == {"individualOrder", "groupMemberOrderOne", "groupMemberOrderTwo", "sareeOrder"}
ItemNames == {"item1", "item2", "item3", "item4"}
Ordered == CustomerNames \cup {"groupOrder"} \cup OrderNames
PaymentNames == {"paymentOne", "paymentTwo", "paymentThree"}
EmployeeNames == {"tailorOne", "tailorTwo"}

\* The seed's rows of a table and the application's.
Orders == OrderNames \cup {"newOrder"}
Measurements == MeasurementNames \cup {"newMeasurement"}

RowShaped(n, row) ==
  /\ n \in CategoryNames <=> row.table = "category"
  /\ n \in Orders <=> row.table = "order"
  /\ n \in Measurements <=> row.table = "measurement"
  /\ row.table = "category" => row.refs = {}
  /\ row.table = "measurementField" => row.refs \subseteq CategoryNames
  /\ row.table = "orderItem" => row.refs \cap Orders # {}
  /\ row.table = "measurementValue" => row.refs \cap Measurements # {}

Shaped(data) == \A n \in DOMAIN data : RowShaped(n, data[n])
Named(data) == UNION {data[n].refs : n \in DOMAIN data}
\* data is of such rows, which name no others than these and are called so.
Fits(data, named, made) == Shaped(data) /\ Named(data) \subseteq named /\ DOMAIN data = made

\* Data put together of fitting parts fits.
LEMMA TogetherFits ==
  ASSUME NEW data, NEW named, \A d \in data : Fits(d, named, DOMAIN d)
  PROVE  Fits(Together(data), named, UNION {DOMAIN d : d \in data})
<1>1. DOMAIN Together(data) = UNION {DOMAIN d : d \in data}
  BY DEF Together
<1>2. ASSUME NEW n \in DOMAIN Together(data)
      PROVE  RowShaped(n, Together(data)[n]) /\ Together(data)[n].refs \subseteq named
  <2>1. Together(data)[n] = (CHOOSE d \in data : n \in DOMAIN d)[n]
    BY <1>1, <1>2 DEF Together
  <2>2. PICK d \in data : n \in DOMAIN d /\ d = CHOOSE e \in data : n \in DOMAIN e
    BY <1>1, <1>2
  <2>3. Fits(d, named, DOMAIN d) /\ Together(data)[n] = d[n]
    BY <2>1, <2>2
  <2> QED BY <2>2, <2>3 DEF Fits, Shaped, Named
<1> QED BY <1>1, <1>2 DEF Fits, Shaped, Named

USE DEF RowShaped, CategoryNames, FieldNames, CustomerNames, BlockNames, Described,
        MeasurementNames, OrderNames, ItemNames, Ordered, PaymentNames, EmployeeNames,
        Orders, Measurements

LEMMA CatalogueFits ==
  /\ Fits(Catalogue[1], {}, {"memberships"})
  /\ Fits(Catalogue[2], {}, CategoryNames)
  /\ Fits(Catalogue[3], CategoryNames, FieldNames)
<1>1. Fits(Catalogue[1], {}, {"memberships"})
  BY DEF Catalogue, New, Fits, Shaped, Named
<1>2. Fits(Catalogue[2], {}, CategoryNames)
  BY DEF Catalogue, New, Fits, Shaped, Named
<1>3. Fits(Catalogue[3], CategoryNames, FieldNames)
  <2> DEFINE named == CategoryNames
             parts ==
               {New("measurementField", {"sareeCategory"}, {"sareeFields"}),
                New("measurementField", {"uniformCategory"}, {"uniformFields"}),
                New("measurementField", {"otherCategory"}, {"otherField"})}
  <2>1. \A d \in parts : Fits(d, named, DOMAIN d)
    BY DEF New, Fits, Shaped, Named
  <2>2. UNION {DOMAIN d : d \in parts} = FieldNames
    BY DEF New
  <2>3. Catalogue[3] = Together(parts)
    BY DEF Catalogue
  <2> HIDE DEF parts
  <2> QED BY <2>1, <2>2, <2>3, TogetherFits
<1> QED BY <1>1, <1>2, <1>3

LEMMA CustomersAndBlocksFit ==
  /\ Fits(CustomersAndBlocks[1], {}, CustomerNames)
  /\ Fits(CustomersAndBlocks[2], CategoryNames, BlockNames)
  /\ Fits(CustomersAndBlocks[3], Described,
          {"dineshasSaree", "dineshasUniform", "kaveeshasUniform", "nimalisUniform"})
<1>1. Fits(CustomersAndBlocks[1], {}, CustomerNames)
  BY DEF CustomersAndBlocks, New, Fits, Shaped, Named
<1>2. Fits(CustomersAndBlocks[2], CategoryNames, BlockNames)
  <2> DEFINE named == CategoryNames
             parts ==
               {New("block", {"sareeCategory"}, {"sareeBlockDinesha"}),
                New("block", {"uniformCategory"},
                    {"uniformBlockDinesha", "uniformBlockKaveesha", "uniformBlockNimali"})}
  <2>1. \A d \in parts : Fits(d, named, DOMAIN d)
    BY DEF New, Fits, Shaped, Named
  <2>2. UNION {DOMAIN d : d \in parts} = BlockNames
    BY DEF New
  <2>3. CustomersAndBlocks[2] = Together(parts)
    BY DEF CustomersAndBlocks
  <2> HIDE DEF parts
  <2> QED BY <2>1, <2>2, <2>3, TogetherFits
<1>3. Fits(CustomersAndBlocks[3], Described,
           {"dineshasSaree", "dineshasUniform", "kaveeshasUniform", "nimalisUniform"})
  <2> DEFINE named == Described
             parts ==
               {New("customerBlock", {"dinesha", "sareeBlockDinesha"}, {"dineshasSaree"}),
                New("customerBlock", {"dinesha", "uniformBlockDinesha"}, {"dineshasUniform"}),
                New("customerBlock", {"kaveesha", "uniformBlockKaveesha"},
                    {"kaveeshasUniform"}),
                New("customerBlock", {"nimali", "uniformBlockNimali"}, {"nimalisUniform"})}
  <2>1. \A d \in parts : Fits(d, named, DOMAIN d)
    BY DEF New, Fits, Shaped, Named
  <2>2. UNION {DOMAIN d : d \in parts} =
          {"dineshasSaree", "dineshasUniform", "kaveeshasUniform", "nimalisUniform"}
    BY DEF New
  <2>3. CustomersAndBlocks[3] = Together(parts)
    BY DEF CustomersAndBlocks
  <2> HIDE DEF parts
  <2> QED BY <2>1, <2>2, <2>3, TogetherFits
<1> QED BY <1>1, <1>2, <1>3

LEMMA MeasurementsFit ==
  /\ Fits(MeasurementsTaken[1], Described, {"dineshaUniformMeasurement"})
  /\ Fits(MeasurementsTaken[2], {"dineshaUniformMeasurement", "uniformFields"}, {"values1"})
  /\ Fits(MeasurementsTaken[3], Described, {"dineshaSareeMeasurement"})
  /\ Fits(MeasurementsTaken[4], {"dineshaSareeMeasurement", "sareeFields"}, {"values2"})
  /\ Fits(MeasurementsTaken[5], Described, {"kaveeshaUniformMeasurement"})
  /\ Fits(MeasurementsTaken[6], {"kaveeshaUniformMeasurement", "uniformFields"}, {"values3"})
  /\ Fits(MeasurementsTaken[7], Described, {"nimaliUniformMeasurement"})
  /\ Fits(MeasurementsTaken[8], {"nimaliUniformMeasurement", "uniformFields"}, {"values4"})
BY DEF MeasurementsTaken, New, Fits, Shaped, Named

LEMMA OrdersFit ==
  /\ Fits(OrdersPlaced[1], CustomerNames, {"groupOrder"})
  /\ Fits(OrdersPlaced[2], Described \cup MeasurementNames \cup Ordered,
          OrderNames \cup ItemNames)
<1>1. Fits(OrdersPlaced[1], CustomerNames, {"groupOrder"})
  BY DEF OrdersPlaced, New, Fits, Shaped, Named
<1>2. Fits(OrdersPlaced[2], Described \cup MeasurementNames \cup Ordered,
           OrderNames \cup ItemNames)
  <2> DEFINE named == Described \cup MeasurementNames \cup Ordered
             parts ==
               {New("order", {"dinesha"}, {"individualOrder"}),
                New("orderItem", {"individualOrder", "uniformCategory",
                             "uniformBlockDinesha", "dineshaUniformMeasurement"}, {"item1"}),
                New("order", {"kaveesha", "groupOrder"}, {"groupMemberOrderOne"}),
                New("orderItem", {"groupMemberOrderOne", "uniformCategory",
                             "uniformBlockKaveesha", "kaveeshaUniformMeasurement"}, {"item2"}),
                New("order", {"nimali", "groupOrder"}, {"groupMemberOrderTwo"}),
                New("orderItem", {"groupMemberOrderTwo", "uniformCategory",
                             "uniformBlockNimali", "nimaliUniformMeasurement"}, {"item3"}),
                New("order", {"chamari"}, {"sareeOrder"}),
                New("orderItem", {"sareeOrder", "sareeCategory"}, {"item4"})}
  <2>1. \A d \in parts : Fits(d, named, DOMAIN d)
    BY DEF New, Fits, Shaped, Named
  <2>2. UNION {DOMAIN d : d \in parts} = OrderNames \cup ItemNames
    BY DEF New
  <2>3. OrdersPlaced[2] = Together(parts)
    BY DEF OrdersPlaced
  <2> HIDE DEF parts
  <2> QED BY <2>1, <2>2, <2>3, TogetherFits
<1> QED BY <1>1, <1>2

LEMMA PaymentsFit ==
  /\ Fits(PaymentsMade[1], Ordered, PaymentNames)
<1>1. Fits(PaymentsMade[1], Ordered, PaymentNames)
  <2> DEFINE named == Ordered
             parts ==
               {New("payment", {"individualOrder", "dinesha"}, {"paymentOne"}),
                New("payment", {"groupMemberOrderOne", "groupOrder", "kaveesha"},
                    {"paymentTwo"}),
                New("payment", {"groupOrder", "dinesha"}, {"paymentThree"})}
  <2>1. \A d \in parts : Fits(d, named, DOMAIN d)
    BY DEF New, Fits, Shaped, Named
  <2>2. UNION {DOMAIN d : d \in parts} = PaymentNames
    BY DEF New
  <2>3. PaymentsMade[1] = Together(parts)
    BY DEF PaymentsMade
  <2> HIDE DEF parts
  <2> QED BY <2>1, <2>2, <2>3, TogetherFits
<1> QED BY <1>1

LEMMA AttendanceFits ==
  /\ Fits(AttendanceKept[1], {}, EmployeeNames)
  /\ Fits(AttendanceKept[2], {}, {"attendanceDevice"})
  /\ Fits(AttendanceKept[3], EmployeeNames \cup {"attendanceDevice"}, {"logsOne", "logsTwo"})
  /\ Fits(AttendanceKept[4], EmployeeNames, {"recordOne", "recordTwo"})
<1>1. Fits(AttendanceKept[1], {}, EmployeeNames)
  BY DEF AttendanceKept, New, Fits, Shaped, Named
<1>2. Fits(AttendanceKept[2], {}, {"attendanceDevice"})
  BY DEF AttendanceKept, New, Fits, Shaped, Named
<1>3. Fits(AttendanceKept[3], EmployeeNames \cup {"attendanceDevice"}, {"logsOne", "logsTwo"})
  <2> DEFINE named == EmployeeNames \cup {"attendanceDevice"}
             parts ==
               {New("attendanceLog", {"tailorOne", "attendanceDevice"}, {"logsOne"}),
                New("attendanceLog", {"tailorTwo", "attendanceDevice"}, {"logsTwo"})}
  <2>1. \A d \in parts : Fits(d, named, DOMAIN d)
    BY DEF New, Fits, Shaped, Named
  <2>2. UNION {DOMAIN d : d \in parts} = {"logsOne", "logsTwo"}
    BY DEF New
  <2>3. AttendanceKept[3] = Together(parts)
    BY DEF AttendanceKept
  <2> HIDE DEF parts
  <2> QED BY <2>1, <2>2, <2>3, TogetherFits
<1>4. Fits(AttendanceKept[4], EmployeeNames, {"recordOne", "recordTwo"})
  <2> DEFINE named == EmployeeNames
             parts ==
               {New("attendanceRecord", {"tailorOne"}, {"recordOne"}),
                New("attendanceRecord", {"tailorTwo"}, {"recordTwo"})}
  <2>1. \A d \in parts : Fits(d, named, DOMAIN d)
    BY DEF New, Fits, Shaped, Named
  <2>2. UNION {DOMAIN d : d \in parts} = {"recordOne", "recordTwo"}
    BY DEF New
  <2>3. AttendanceKept[4] = Together(parts)
    BY DEF AttendanceKept
  <2> HIDE DEF parts
  <2> QED BY <2>1, <2>2, <2>3, TogetherFits
<1> QED BY <1>1, <1>2, <1>3, <1>4

LEMMA WhatsappFits ==
  /\ Fits(WhatsappSent[1], {}, {"whatsappAccount"})
  /\ Fits(WhatsappSent[2], {"whatsappAccount"}, {"orderReadyTemplate", "paymentTemplate"})
  /\ Fits(WhatsappSent[3], Ordered \cup PaymentNames \cup {"whatsappAccount"},
          {"message1", "message2", "message3"})
  /\ Fits(WhatsappSent[4], {}, {"auditLogs"})
<1>1. Fits(WhatsappSent[1], {}, {"whatsappAccount"})
  BY DEF WhatsappSent, New, Fits, Shaped, Named
<1>2. Fits(WhatsappSent[2], {"whatsappAccount"}, {"orderReadyTemplate", "paymentTemplate"})
  BY DEF WhatsappSent, New, Fits, Shaped, Named
<1>3. Fits(WhatsappSent[3], Ordered \cup PaymentNames \cup {"whatsappAccount"},
           {"message1", "message2", "message3"})
  <2> DEFINE named == Ordered \cup PaymentNames \cup {"whatsappAccount"}
             parts ==
               {New("whatsappMessage", {"whatsappAccount", "dinesha", "individualOrder",
                                   "paymentOne"}, {"message1"}),
                New("whatsappMessage", {"whatsappAccount", "kaveesha", "groupMemberOrderOne",
                                   "groupOrder", "paymentTwo"}, {"message2"}),
                New("whatsappMessage", {"whatsappAccount", "dinesha", "groupOrder"},
                    {"message3"})}
  <2>1. \A d \in parts : Fits(d, named, DOMAIN d)
    BY DEF New, Fits, Shaped, Named
  <2>2. UNION {DOMAIN d : d \in parts} = {"message1", "message2", "message3"}
    BY DEF New
  <2>3. WhatsappSent[3] = Together(parts)
    BY DEF WhatsappSent
  <2> HIDE DEF parts
  <2> QED BY <2>1, <2>2, <2>3, TogetherFits
<1>4. Fits(WhatsappSent[4], {}, {"auditLogs"})
  BY DEF WhatsappSent, New, Fits, Shaped, Named
<1> QED BY <1>1, <1>2, <1>3, <1>4
LEMMA AdditionsFit == \A data \in Additions : Shaped(data)
<1> DEFINE taken ==
             {New("measurement", {"dinesha", "uniformCategory"}, {"newMeasurement"}),
              New("measurementValue", {"newMeasurement", "uniformFields"}, {"newValues"})}
           placed ==
             {New("order", {"dinesha"}, {"newOrder"}),
              New("orderItem", {"newOrder", "uniformCategory"}, {"newItem"})}
           named == Described \cup {"newMeasurement", "uniformFields", "newOrder"}
<1>1. \A d \in taken \cup placed : Fits(d, named, DOMAIN d)
  BY DEF New, Fits, Shaped, Named
<1>2. Shaped(New("block", {"uniformCategory"}, {"newBlock"}))
  BY DEF New, Shaped
<1>3. Shaped(New("customer", {}, {"newCustomer"}))
  BY DEF New, Shaped
<1>4. Additions = {Together(taken), New("block", {"uniformCategory"}, {"newBlock"}),
                   Together(placed), New("customer", {}, {"newCustomer"})}
  BY DEF Additions
<1> HIDE DEF taken, placed
<1>5. Shaped(Together(taken)) /\ Shaped(Together(placed))
  BY <1>1, TogetherFits DEF Fits
<1> QED BY <1>2, <1>3, <1>4, <1>5


LEMMA AdditionsMade ==
  {"newOrder", "newMeasurement"} \subseteq UNION {DOMAIN data : data \in Additions}
BY DEF Additions, Together, New

HIDE DEF RowShaped, CategoryNames, FieldNames, CustomerNames, BlockNames, Described,
         MeasurementNames, OrderNames, ItemNames, Ordered, PaymentNames, EmployeeNames,
         Orders, Measurements

\* What the statements of main name and make.
LEMMA StatementsFit ==
  /\ Fits(Statements[1], {}, {"memberships"})
  /\ Fits(Statements[2], {}, CategoryNames)
  /\ Fits(Statements[3], CategoryNames, FieldNames)
  /\ Fits(Statements[4], {}, CustomerNames)
  /\ Fits(Statements[5], CategoryNames, BlockNames)
  /\ Fits(Statements[6], Described,
          {"dineshasSaree", "dineshasUniform", "kaveeshasUniform", "nimalisUniform"})
  /\ Fits(Statements[7], Described, {"dineshaUniformMeasurement"})
  /\ Fits(Statements[8], {"dineshaUniformMeasurement", "uniformFields"}, {"values1"})
  /\ Fits(Statements[9], Described, {"dineshaSareeMeasurement"})
  /\ Fits(Statements[10], {"dineshaSareeMeasurement", "sareeFields"}, {"values2"})
  /\ Fits(Statements[11], Described, {"kaveeshaUniformMeasurement"})
  /\ Fits(Statements[12], {"kaveeshaUniformMeasurement", "uniformFields"}, {"values3"})
  /\ Fits(Statements[13], Described, {"nimaliUniformMeasurement"})
  /\ Fits(Statements[14], {"nimaliUniformMeasurement", "uniformFields"}, {"values4"})
  /\ Fits(Statements[15], CustomerNames, {"groupOrder"})
  /\ Fits(Statements[16], Described \cup MeasurementNames \cup Ordered,
          OrderNames \cup ItemNames)
  /\ Fits(Statements[17], Ordered, PaymentNames)
  /\ Fits(Statements[18], {}, EmployeeNames)
  /\ Fits(Statements[19], {}, {"attendanceDevice"})
  /\ Fits(Statements[20], EmployeeNames \cup {"attendanceDevice"}, {"logsOne", "logsTwo"})
  /\ Fits(Statements[21], EmployeeNames, {"recordOne", "recordTwo"})
  /\ Fits(Statements[22], {}, {"whatsappAccount"})
  /\ Fits(Statements[23], {"whatsappAccount"}, {"orderReadyTemplate", "paymentTemplate"})
  /\ Fits(Statements[24], Ordered \cup PaymentNames \cup {"whatsappAccount"},
          {"message1", "message2", "message3"})
  /\ Fits(Statements[25], {}, {"auditLogs"})
<1>1. /\ Statements[1] = Catalogue[1]
      /\ Statements[2] = Catalogue[2]
      /\ Statements[3] = Catalogue[3]
  BY Pieces
<1>2. /\ Statements[4] = CustomersAndBlocks[1]
      /\ Statements[5] = CustomersAndBlocks[2]
      /\ Statements[6] = CustomersAndBlocks[3]
  BY Pieces
<1>3. /\ Statements[7] = MeasurementsTaken[1]
      /\ Statements[8] = MeasurementsTaken[2]
      /\ Statements[9] = MeasurementsTaken[3]
      /\ Statements[10] = MeasurementsTaken[4]
      /\ Statements[11] = MeasurementsTaken[5]
      /\ Statements[12] = MeasurementsTaken[6]
      /\ Statements[13] = MeasurementsTaken[7]
      /\ Statements[14] = MeasurementsTaken[8]
  BY Pieces
<1>4. /\ Statements[15] = OrdersPlaced[1]
      /\ Statements[16] = OrdersPlaced[2]
  BY Pieces
<1>5. Statements[17] = PaymentsMade[1]
  BY Pieces
<1>6. /\ Statements[18] = AttendanceKept[1]
      /\ Statements[19] = AttendanceKept[2]
      /\ Statements[20] = AttendanceKept[3]
      /\ Statements[21] = AttendanceKept[4]
  BY Pieces
<1>7. /\ Statements[22] = WhatsappSent[1]
      /\ Statements[23] = WhatsappSent[2]
      /\ Statements[24] = WhatsappSent[3]
      /\ Statements[25] = WhatsappSent[4]
  BY Pieces
<1> QED
  BY <1>1, <1>2, <1>3, <1>4, <1>5, <1>6, <1>7, CatalogueFits, CustomersAndBlocksFit,
     MeasurementsFit, OrdersFit, PaymentsFit, AttendanceFits, WhatsappFits

\* Every row is shaped as the tables say.
LEMMA RowsShaped == \A n \in Names : RowShaped(n, RowOf[n])
<1>1. \A i \in 1 .. 25 : Shaped(Statements[i])
  BY StatementsFit DEF Fits
<1>2. \A data \in Data : Fits(data, UNION {Named(d) : d \in Data}, DOMAIN data)
  BY <1>1, AdditionsFit, Pieces DEF Data, Fits
<1>3. Shaped(RowOf) /\ DOMAIN RowOf = Names
  BY <1>2, TogetherFits DEF RowOf, Names, Fits
<1> QED BY <1>3 DEF Shaped

MadeBefore(i) == UNION {DOMAIN Statements[j] : j \in 1 .. (i - 1)}

\* A statement names rows of the statements before it.
LEMMA NeededBefore ==
  \A i \in DOMAIN Statements : Needed(Statements[i]) \subseteq MadeBefore(i)
<1>1. \A i \in 1 .. 25 : \A j \in 1 .. 25 : j < i => DOMAIN Statements[j] \subseteq MadeBefore(i)
  BY DEF MadeBefore
<1>2. /\ \A i \in 3 .. 25 : CategoryNames \subseteq MadeBefore(i)
      /\ \A i \in 4 .. 25 : FieldNames \subseteq MadeBefore(i)
      /\ \A i \in 5 .. 25 : CustomerNames \subseteq MadeBefore(i)
      /\ \A i \in 6 .. 25 : BlockNames \subseteq MadeBefore(i)
      /\ \A i \in 8 .. 25 : "dineshaUniformMeasurement" \in MadeBefore(i)
      /\ \A i \in 10 .. 25 : "dineshaSareeMeasurement" \in MadeBefore(i)
      /\ \A i \in 12 .. 25 : "kaveeshaUniformMeasurement" \in MadeBefore(i)
      /\ \A i \in 14 .. 25 : "nimaliUniformMeasurement" \in MadeBefore(i)
      /\ \A i \in 16 .. 25 : "groupOrder" \in MadeBefore(i)
      /\ \A i \in 17 .. 25 : OrderNames \subseteq MadeBefore(i)
      /\ \A i \in 18 .. 25 : PaymentNames \subseteq MadeBefore(i)
      /\ \A i \in 19 .. 25 : EmployeeNames \subseteq MadeBefore(i)
      /\ \A i \in 20 .. 25 : "attendanceDevice" \in MadeBefore(i)
      /\ \A i \in 23 .. 25 : "whatsappAccount" \in MadeBefore(i)
  BY <1>1, StatementsFit DEF Fits
<1>3. /\ "uniformFields" \in FieldNames /\ "sareeFields" \in FieldNames
      /\ \A i \in 6 .. 25 : Described \subseteq MadeBefore(i)
      /\ \A i \in 14 .. 25 : MeasurementNames \subseteq MadeBefore(i)
      /\ \A i \in 17 .. 25 : Ordered \subseteq MadeBefore(i)
  BY <1>2 DEF FieldNames, Described, MeasurementNames, Ordered
<1>4. \A i \in 1 .. 14 : Named(Statements[i]) \subseteq MadeBefore(i)
  BY <1>2, <1>3, StatementsFit DEF Fits
<1>5. \A i \in {15} \cup 17 .. 25 : Named(Statements[i]) \subseteq MadeBefore(i)
  BY <1>2, <1>3, StatementsFit DEF Fits
<1>6. Named(Statements[16]) \ DOMAIN Statements[16] \subseteq MadeBefore(16)
  BY <1>2, <1>3, StatementsFit DEF Fits, Ordered
<1>7. ASSUME NEW i \in 1 .. 25
      PROVE  Needed(Statements[i]) = Named(Statements[i]) \ DOMAIN Statements[i]
  BY DEF Needed, Named
<1> QED BY <1>4, <1>5, <1>6, <1>7, Pieces

\* Orders are made by one statement.
LEMMA OneStatementOfOrders ==
  \A i, j \in DOMAIN Statements : \A m \in DOMAIN Statements[i], n \in DOMAIN Statements[j] :
    TableOf(m) = "order" /\ TableOf(n) = "order" => i = j
<1>1. ASSUME NEW i \in DOMAIN Statements, NEW n \in DOMAIN Statements[i], TableOf(n) = "order"
      PROVE  n \in Orders
  <2>1. n \in Names
    BY <1>1, NamesOfData
  <2> QED BY <1>1, <2>1, RowsShaped DEF TableOf, RowShaped
<1>2. \A i \in 1 .. 25 : i # 16 => DOMAIN Statements[i] \cap Orders = {}
  BY StatementsFit
  DEF Fits, CategoryNames, FieldNames, CustomerNames, BlockNames, OrderNames, PaymentNames,
      EmployeeNames, Orders
<1> QED BY <1>1, <1>2, Pieces

LEMMA WipePositions ==
  /\ DOMAIN WipeOrder = 1 .. 19 /\ Len(WipeOrder) = 19
  /\ WipeOrder[10] = "order" /\ WipeOrder[12] = "measurement" /\ WipeOrder[14] = "block"
  /\ \A k \in 1 .. 19 : WipeOrder[k] \in {"measurementField", "category"} => k \in {15, 16}
<1> DEFINE first ==
             << "measurementValue", "whatsappMessage", "whatsappTemplate", "whatsappAccount",
                "auditLog", "attendanceRecord", "attendanceLog", "attendanceDevice",
                "payment", "order", "groupOrder" >>
           last == << "employee", "customer", "membership" >>
           both == first \o WipeCatalogue
<1>1. Sized(first, 11) /\ Sized(WipeCatalogue, 5) /\ Sized(last, 3)
  BY Tuples DEF WipeCatalogue
<1>2. first[10] = "order" /\ \A k \in 1 .. 11 : first[k] \notin {"measurementField", "category"}
  OBVIOUS
<1>3. /\ WipeCatalogue[1] = "measurement" /\ WipeCatalogue[3] = "block"
      /\ \A k \in 1 .. 5 : WipeCatalogue[k] \in {"measurementField", "category"} => k \in {4, 5}
  BY DEF WipeCatalogue
<1>4. \A k \in 1 .. 3 : last[k] \notin {"measurementField", "category"}
  OBVIOUS
<1>5. WipeOrder = both \o last
  BY DEF WipeOrder
<1> HIDE DEF first, last, both
<1>6. Sized(both, 16) /\ Joined(both, first, 11, WipeCatalogue, 5)
  <2>1. Sized(both, 11 + 5) /\ Joined(both, first, 11, WipeCatalogue, 5)
    BY <1>1, Concatenation DEF both
  <2> QED BY <2>1
<1>7. Sized(WipeOrder, 19) /\ Joined(WipeOrder, both, 16, last, 3)
  <2>1. Sized(WipeOrder, 16 + 3) /\ Joined(WipeOrder, both, 16, last, 3)
    BY <1>1, <1>5, <1>6, Concatenation
  <2> QED BY <2>1
<1>8. DOMAIN WipeOrder = 1 .. 19 /\ Len(WipeOrder) = 19
  <2>1. PICK S : WipeOrder \in Seq(S)
    BY <1>7 DEF Sized, IsSequence
  <2> QED BY <1>7, <2>1 DEF Sized
<1>9. /\ \A k \in 1 .. 11 : WipeOrder[k] = first[k]
      /\ \A k \in 1 .. 5 : WipeOrder[11 + k] = WipeCatalogue[k]
      /\ \A k \in 1 .. 3 : WipeOrder[16 + k] = last[k]
  BY <1>6, <1>7 DEF Joined
<1>10. WipeOrder[12] = WipeCatalogue[1] /\ WipeOrder[14] = WipeCatalogue[3]
  BY <1>9
<1>11. ASSUME NEW k \in 1 .. 19, WipeOrder[k] \in {"measurementField", "category"}
       PROVE  k \in {15, 16}
  <2>1. CASE k \in 1 .. 11
    BY <1>2, <1>9, <1>11, <2>1
  <2>2. CASE k \in 12 .. 16
    <3>1. k - 11 \in 1 .. 5 /\ k = 11 + (k - 11)
      BY <2>2
    <3>2. k - 11 \in {4, 5}
      BY <1>3, <1>9, <1>11, <3>1
    <3> QED BY <3>2
  <2>3. CASE k \in 17 .. 19
    <3>1. k - 16 \in 1 .. 3 /\ k = 16 + (k - 16)
      BY <2>3
    <3> QED BY <1>4, <1>9, <1>11, <3>1
  <2> QED BY <2>1, <2>2, <2>3
<1> QED BY <1>2, <1>3, <1>8, <1>9, <1>10, <1>11

\* A row goes with its order, its measurement and itself.
LEMMA FallsTogether ==
  /\ \A n \in Names : <<n, TableOf(n)>> \in FallsWith
  /\ \A n \in Names : TableOf(n) = "orderItem" => <<n, "order">> \in FallsWith
  /\ \A n \in Names : TableOf(n) = "measurementValue" => <<n, "measurement">> \in FallsWith
<1>1. \A n \in Names : \A p \in {n} \cup Parents(n) : <<n, TableOf(p)>> \in FallsWith
  BY DEF FallsWith, Above
<1>2. ASSUME NEW n \in Names, TableOf(n) = "orderItem"
      PROVE  <<n, "order">> \in FallsWith
  <2>1. PICK p \in RowOf[n].refs \cap Orders : TRUE
    BY <1>2, RowsShaped DEF RowShaped, TableOf
  <2>2. p \in Names
    BY <2>1, StatementsFit, Pieces, NamesOfData, AdditionsMade DEF Fits, Orders
  <2>3. TableOf(p) = "order"
    BY <2>1, <2>2, RowsShaped DEF RowShaped, TableOf
  <2>4. p \in Parents(n)
    BY <1>2, <2>1, <2>3 DEF Parents, Restricting, Clearing
  <2> QED BY <1>1, <2>3, <2>4
<1>3. ASSUME NEW n \in Names, TableOf(n) = "measurementValue"
      PROVE  <<n, "measurement">> \in FallsWith
  <2>1. PICK p \in RowOf[n].refs \cap Measurements : TRUE
    BY <1>3, RowsShaped DEF RowShaped, TableOf
  <2>2. p \in Names
    BY <2>1, StatementsFit, Pieces, NamesOfData, AdditionsMade
    DEF Fits, Measurements, MeasurementNames
  <2>3. TableOf(p) = "measurement"
    BY <2>1, <2>2, RowsShaped DEF RowShaped, TableOf
  <2>4. p \in Parents(n)
    BY <1>3, <2>1, <2>3 DEF Parents, Restricting, Clearing
  <2> QED BY <1>1, <2>3, <2>4
<1> QED BY <1>1, <1>2, <1>3

\* Categories and fields fall with nothing but categories and fields.
LEMMA CatalogueFalls ==
  ASSUME NEW p \in Names, TableOf(p) \in {"category", "measurementField"},
         NEW table, <<p, table>> \in FallsWith
  PROVE  table \in {"category", "measurementField"}
<1>1. \A c \in CategoryNames : c \in Names /\ TableOf(c) = "category" /\ Parents(c) = {}
  <2>1. CategoryNames \subseteq Names
    BY StatementsFit, Pieces, NamesOfData DEF Fits
  <2> QED BY <2>1, RowsShaped DEF RowShaped, TableOf, Parents
<1>2. PICK x \in Above(p) : table = TableOf(x)
  BY DEF FallsWith
<1>3. x = p \/ x \in Parents(p) \/ \E c \in Parents(p) : x \in Parents(c)
  BY <1>2 DEF Above
<1>4. CASE TableOf(p) = "category"
  <2>1. p \in CategoryNames
    BY <1>4, RowsShaped DEF RowShaped, TableOf
  <2>2. Parents(p) = {}
    BY <1>1, <2>1
  <2>3. x = p
    BY <1>3, <2>2
  <2> QED BY <1>2, <1>4, <2>3
<1>5. CASE TableOf(p) = "measurementField"
  <2>1. Parents(p) \subseteq CategoryNames
    BY <1>5, RowsShaped DEF RowShaped, TableOf, Parents
  <2>2. x = p \/ x \in CategoryNames
    BY <1>1, <1>3, <2>1
  <2> QED BY <1>1, <1>2, <1>5, <2>2
<1> QED BY <1>4, <1>5

\* What keeps a row has fallen when a statement of the wipe takes the row, or falls with it,
\* and that does not depend on which measurements the wipe has read.
LEMMA KeepersFall ==
  \A q \in Keeps, k \in DOMAIN WipeOrder :
    <<q[2], WipeOrder[k]>> \in FallsWith =>
      \E j \in 1 .. k : /\ WipeOrder[j] # "measurementValue"
                        /\ <<q[1], WipeOrder[j]>> \in FallsWith
<1> SUFFICES ASSUME NEW q \in Keeps, NEW k \in DOMAIN WipeOrder,
                    <<q[2], WipeOrder[k]>> \in FallsWith
             PROVE  \E j \in 1 .. k : /\ WipeOrder[j] # "measurementValue"
                                      /\ <<q[1], WipeOrder[j]>> \in FallsWith
  OBVIOUS
<1>1. PICK n \in Names : \E p \in RowOf[n].refs :
        q = <<n, p>> /\ <<TableOf(n), TableOf(p)>> \in Restricting
  BY DEF Keeps
<1> DEFINE p == q[2]
<1>2. /\ q[1] = n /\ p \in Names /\ <<TableOf(n), TableOf(p)>> \in Restricting
      /\ <<p, WipeOrder[k]>> \in FallsWith
  BY <1>1 DEF FallsWith
<1> HIDE DEF p
<1>3. TableOf(p) \in {"category", "measurementField"}
  BY <1>2 DEF Restricting
<1>4. k \in {15, 16}
  BY <1>2, <1>3, CatalogueFalls, WipePositions
<1>5. TableOf(n) \in {"block", "measurement", "orderItem", "measurementValue"}
  BY <1>2 DEF Restricting
<1>6. \/ <<n, "block">> \in FallsWith
      \/ <<n, "measurement">> \in FallsWith
      \/ <<n, "order">> \in FallsWith
  BY <1>2, <1>5, FallsTogether
<1> QED BY <1>2, <1>4, <1>6, WipePositions

LEMMA WipeCount == DOMAIN WipeOrder = 1 .. Len(WipeOrder) /\ Len(WipeOrder) \in Nat
BY WipePositions

----------------------------------------------------------------------------
(* Types. *)

Resumes(r) ==
  /\ r \in [pc : Ends \cup {"share", "find", "read", "wipe", "create"}, at : Nat,
            tenant : Tenants \cup {None}, ids : SUBSET Names, gone : SUBSET Names]
  /\ r.pc = "share" => r.at \in DOMAIN Upserts
  /\ r.pc = "create" => r.at \in DOMAIN Statements
  /\ r.pc \in {"read", "wipe", "done"} => r.tenant \in Tenants

\* A run that goes on with a good record keeps the records good.
LEMMA GotoTyped ==
  ASSUME TypeOK, NEW s \in Seeds, NEW r, Goto(s, r), Resumes(r)
  PROVE  /\ run' \in [Seeds -> [pc : Ends \cup {"share", "find", "read", "wipe", "create"},
                               at : Nat, tenant : Tenants \cup {None},
                               ids : SUBSET Names, gone : SUBSET Names]]
         /\ \A v \in Seeds :
              /\ run'[v].pc = "share" => run'[v].at \in DOMAIN Upserts
              /\ run'[v].pc = "create" => run'[v].at \in DOMAIN Statements
              /\ run'[v].pc \in {"read", "wipe", "done"} => run'[v].tenant \in Tenants
BY DEF TypeOK, Goto, Resumes

LEMMA RecordsTyped == TypeOK => \A s \in Seeds : Resumes(run[s])
BY DEF TypeOK, Resumes

LEMMA IdleTyped == Resumes(Idle) /\ \A p \in Ends \ {"done"} : Resumes([Idle EXCEPT !.pc = p])
BY DEF Resumes, Idle, Ends

LEMMA StoredTyped == Stored \subseteq Tenants /\ Unborn \subseteq Tenants
BY DEF Stored, Unborn

LEMMA TypeInit == Init => TypeOK
BY IdleTyped DEF Init, TypeOK, Resumes, Idle, Ends, Stored

LEMMA TypeStep == TypeOK /\ [Next]_vars => TypeOK'
<1> SUFFICES ASSUME TypeOK, [Next]_vars PROVE TypeOK'
  OBVIOUS
<1> USE StoredTyped
<1>1. ASSUME NEW s \in Seeds, Start(s) PROVE TypeOK'
  <2>1. Resumes([Idle EXCEPT !.pc = "share"])
    BY UpsertsCount DEF Resumes, Idle, Ends
  <2>2. disturbed' \subseteq Seeds
    BY <1>1 DEF Start, TypeOK
  <2> QED BY <1>1, <2>1, <2>2, GotoTyped DEF Start, TypeOK, Stored
<1>2. ASSUME NEW s \in Seeds, Share(s) PROVE TypeOK'
  <2> DEFINE r == IF run[s].at = Len(Upserts) THEN [Idle EXCEPT !.pc = "find"]
                  ELSE [run[s] EXCEPT !.at = @ + 1]
  <2>1. run[s].at \in 1 .. 4
    BY <1>2, UpsertsCount DEF Share, TypeOK
  <2>2. Resumes(r)
    BY <1>2, <2>1, UpsertsCount DEF Resumes, Idle, Ends, Share, TypeOK
  <2>3. shared' \in SUBSET {Upserts[i] : i \in DOMAIN Upserts}
    BY <1>2, <2>1, UpsertsCount DEF Share, TypeOK
  <2>4. Goto(s, r)
    BY <1>2 DEF Share
  <2> QED BY <1>2, <2>2, <2>3, <2>4, GotoTyped DEF Share, TypeOK, Stored
<1>3. ASSUME NEW s \in Seeds, Find(s) PROVE TypeOK'
  <2>1. Resumes([Idle EXCEPT !.pc = "create"])
    BY StatementsCount DEF Resumes, Idle, Ends
  <2>2. \A t \in Stored : Resumes([Idle EXCEPT !.pc = "read", !.tenant = t])
    BY DEF Resumes, Idle, Ends
  <2> QED BY <1>3, <2>1, <2>2, GotoTyped DEF Find, TypeOK, Stored
<1>4. ASSUME NEW s \in Seeds, WipeRead(s) PROVE TypeOK'
  <2> DEFINE found == {n \in rows[run[s].tenant] : TableOf(n) = "measurement"}
  <2>1. Resumes(run[s]) /\ run[s].tenant \in Tenants /\ found \subseteq Names
    BY <1>4, RecordsTyped DEF WipeRead, TypeOK
  <2>2. Resumes([run[s] EXCEPT !.pc = "wipe", !.ids = found])
    <3> HIDE DEF found
    <3> QED BY <2>1 DEF Resumes, Ends
  <2> QED BY <1>4, <2>2, GotoTyped DEF WipeRead, TypeOK, Stored
<1>5. ASSUME NEW s \in Seeds, WipeTable(s) PROVE TypeOK'
  <2>1. Resumes(run[s]) /\ run[s].pc = "wipe" /\ Taken(s) \subseteq Names
    BY <1>5, RecordsTyped DEF WipeTable, TypeOK, Taken, Left
  <2>2. Resumes([run[s] EXCEPT !.at = @ + 1, !.gone = @ \cup Taken(s)])
    <3>1. run[s].at + 1 \in Nat /\ run[s].gone \cup Taken(s) \in SUBSET Names
      BY <2>1 DEF Resumes
    <3> QED BY <2>1, <3>1 DEF Resumes, Ends
  <2> QED BY <1>5, <2>2, GotoTyped DEF WipeTable, TypeOK, Stored
<1>6. ASSUME NEW s \in Seeds, WipeCommit(s) PROVE TypeOK'
  <2>1. Resumes([Idle EXCEPT !.pc = "create"])
    BY StatementsCount DEF Resumes, Idle, Ends
  <2>2. Stored' \subseteq Stored
    BY <1>6 DEF WipeCommit, Stored, TypeOK
  <2>3. \A t \in Tenants : rows'[t] # {} => t \in Stored'
    BY <1>6 DEF WipeCommit, Stored, TypeOK
  <2> QED BY <1>6, <2>1, <2>2, <2>3, GotoTyped DEF WipeCommit, TypeOK
<1>7. ASSUME NEW s \in Seeds, CreateTenant(s) PROVE TypeOK'
  <2>1. PICK t \in Unborn : /\ tenants' = [tenants EXCEPT ![t] = "stored"]
                            /\ Goto(s, [run[s] EXCEPT !.tenant = t])
    BY <1>7 DEF CreateTenant
  <2>2. Stored' = {t}
    BY <1>7, <2>1 DEF CreateTenant, Stored, TypeOK
  <2>3. Resumes([run[s] EXCEPT !.tenant = t])
    BY <1>7 DEF Resumes, CreateTenant, TypeOK
  <2>4. \A u \in Tenants : rows'[u] # {} => u \in Stored'
    BY <1>7 DEF CreateTenant, TypeOK
  <2> QED BY <1>7, <2>1, <2>2, <2>3, <2>4, GotoTyped DEF CreateTenant, TypeOK
<1>8. ASSUME NEW s \in Seeds, CreateRows(s) PROVE TypeOK'
  <2> DEFINE r == IF run[s].at = Len(Statements) THEN [run[s] EXCEPT !.pc = "done"]
                  ELSE [run[s] EXCEPT !.at = @ + 1]
  <2>1. run[s].at \in DOMAIN Statements /\ run[s].tenant \in Stored
    BY <1>8 DEF CreateRows, Present, TypeOK
  <2>2. Resumes(run[s]) /\ run[s].pc = "create"
    BY <1>8, RecordsTyped DEF CreateRows, Present
  <2>3. Resumes(r)
    <3>1. CASE run[s].at = Len(Statements)
      BY <2>1, <2>2, <3>1, StoredTyped DEF Resumes, Ends
    <3>2. CASE run[s].at # Len(Statements)
      BY <2>1, <2>2, <3>2, StatementsCount DEF Resumes, Ends
    <3> QED BY <3>1, <3>2
  <2>4. Goto(s, r)
    BY <1>8 DEF CreateRows
  <2>5. rows' \in [Tenants -> SUBSET Names]
    BY <1>8, <2>1, NamesOfData DEF CreateRows, TypeOK
  <2>6. \A t \in Tenants : rows'[t] # {} => t \in Stored
    BY <1>8, <2>1 DEF CreateRows, TypeOK
  <2> QED BY <1>8, <2>3, <2>4, <2>5, <2>6, GotoTyped DEF CreateRows, TypeOK, Stored
<1>9. ASSUME NEW s \in Seeds, Fail(s) PROVE TypeOK'
  <2>1. Resumes([Idle EXCEPT !.pc = "failed"])
    BY IdleTyped DEF Ends
  <2> QED BY <1>9, <2>1, GotoTyped DEF Fail, TypeOK, Stored
<1>10. ASSUME NEW s \in Seeds, Stop(s) PROVE TypeOK'
  <2>1. Resumes([Idle EXCEPT !.pc = "stopped"])
    BY IdleTyped DEF Ends
  <2> QED BY <1>10, <2>1, GotoTyped DEF Stop, TypeOK, Stored
<1>11. ASSUME NEW t \in Tenants, NEW data \in Writes, Add(t, data) PROVE TypeOK'
  <2>1. rows' \in [Tenants -> SUBSET Names]
    BY <1>11, NamesOfData DEF Add, TypeOK
  <2>2. \A u \in Tenants : rows'[u] # {} => u \in Stored
    BY <1>11 DEF Add, TypeOK
  <2> QED BY <1>11, <2>1, <2>2 DEF Add, TypeOK, Stored
<1>12. CASE UNCHANGED vars
  BY <1>12 DEF vars, TypeOK, Stored
<1> QED
  BY <1>1, <1>2, <1>3, <1>4, <1>5, <1>6, <1>7, <1>8, <1>9, <1>10, <1>11, <1>12
  DEF Next, Progress

\* The tables and the runs of seed.ts keep their types: one demo tenant at most is stored,
\* and rows belong to it.
THEOREM TypeCorrect == Spec => []TypeOK
<1> QED BY TypeInit, TypeStep, PTL DEF Spec

----------------------------------------------------------------------------
(* The data of a run that ended well. *)

\* How many statements of the creation are behind a run.
Behind(s) == IF run[s].pc = "done" THEN Len(Statements) ELSE run[s].at - 1
\* While its tenant is stored, what a run has created is all there.  The tenant of a run
\* has been created, by it or by the one whose tenant it deletes.
CreatedKept ==
  \A s \in Seeds :
    /\ run[s].pc \in {"create", "done"} /\ run[s].tenant \in Stored =>
         \A i \in 1 .. Behind(s) : DOMAIN Statements[i] \subseteq rows[run[s].tenant]
    /\ run[s].pc = "create" /\ run[s].tenant = None => run[s].at = 1
    /\ run[s].tenant # None => run[s].tenant \notin Unborn

\* No step takes rows from a tenant that stays.
LEMMA RowsStay ==
  ASSUME TypeOK, [Next]_vars, NEW t \in Stored, t \in Stored'
  PROVE  rows[t] \subseteq rows'[t]
<1>1. t \in Tenants
  BY DEF Stored
<1>2. ASSUME NEW s \in Seeds, WipeCommit(s) PROVE rows[t] \subseteq rows'[t]
  BY <1>1, <1>2 DEF WipeCommit, TypeOK, Stored
<1>3. ASSUME NEW s \in Seeds, CreateRows(s) PROVE rows[t] \subseteq rows'[t]
  BY <1>1, <1>3 DEF CreateRows, TypeOK
<1>4. ASSUME NEW u \in Tenants, NEW data \in Writes, Add(u, data)
      PROVE  rows[t] \subseteq rows'[t]
  BY <1>1, <1>4 DEF Add, TypeOK
<1>5. ASSUME UNCHANGED rows PROVE rows[t] \subseteq rows'[t]
  BY <1>5
<1> QED
  BY <1>2, <1>3, <1>4, <1>5
  DEF Next, Progress, Start, Share, Find, WipeRead, WipeTable, CreateTenant, Fail, Stop, vars

\* A tenant that is stored was stored before, or was unborn.
LEMMA TenantsBorn ==
  ASSUME TypeOK, [Next]_vars
  PROVE  /\ Unborn' \subseteq Unborn
         /\ \A t \in Stored' : t \in Stored \/ t \in Unborn
<1>1. CASE UNCHANGED tenants
  BY <1>1 DEF Stored, Unborn
<1>2. ASSUME NEW s \in Seeds, WipeCommit(s)
      PROVE  Unborn' \subseteq Unborn /\ Stored' \subseteq Stored
  BY <1>2 DEF WipeCommit, Stored, Unborn, TypeOK
<1>3. ASSUME NEW s \in Seeds, CreateTenant(s)
      PROVE  Unborn' \subseteq Unborn /\ Stored' \subseteq Unborn
  BY <1>3 DEF CreateTenant, Stored, Unborn, TypeOK
<1> QED
  BY <1>1, <1>2, <1>3
  DEF Next, Progress, Start, Share, Find, WipeRead, WipeTable, CreateRows, Fail, Stop, Add, vars

\* What a step makes of a run.
LEMMA RunsStep ==
  ASSUME TypeOK, [Next]_vars, NEW s \in Seeds
  PROVE  \/ run'[s] = run[s]
         \/ CreateTenant(s)
         \/ CreateRows(s)
         \/ run'[s].pc # "done" /\ run'[s].tenant = None /\ run'[s].at = 1
         \/ run'[s].pc = "share" /\ run'[s].tenant = run[s].tenant
         \/ run'[s].pc \in {"read", "wipe"}
              /\ (run'[s].tenant = run[s].tenant \/ run'[s].tenant \in Stored)
<1> DEFINE Known ==
      \/ run'[s] = run[s]
      \/ CreateTenant(s)
      \/ CreateRows(s)
      \/ run'[s].pc # "done" /\ run'[s].tenant = None /\ run'[s].at = 1
      \/ run'[s].pc = "share" /\ run'[s].tenant = run[s].tenant
      \/ run'[s].pc \in {"read", "wipe"}
           /\ (run'[s].tenant = run[s].tenant \/ run'[s].tenant \in Stored)
<1>1. ASSUME NEW v \in Seeds, v # s, Start(v) \/ Progress(v) \/ Stop(v) PROVE Known
  BY <1>1 DEF Start, Progress, Stop, Share, Find, WipeRead, WipeTable, WipeCommit, CreateTenant,
              CreateRows, Fail, Goto, TypeOK
<1>2. CASE Start(s)
  BY <1>2 DEF Start, Goto, Idle, TypeOK
<1>3. CASE Share(s)
  BY <1>3 DEF Share, Goto, Idle, TypeOK
<1>4. CASE Find(s)
  <2>1. CASE \E t \in Stored : Goto(s, [Idle EXCEPT !.pc = "read", !.tenant = t])
    BY <2>1 DEF Goto, Idle, TypeOK
  <2>2. CASE Goto(s, [Idle EXCEPT !.pc = "create"])
    BY <2>2 DEF Goto, Idle, TypeOK
  <2> QED BY <1>4, <2>1, <2>2 DEF Find
<1>5. CASE WipeRead(s)
  BY <1>5 DEF WipeRead, Goto, TypeOK
<1>6. CASE WipeTable(s)
  BY <1>6 DEF WipeTable, Goto, TypeOK
<1>7. CASE WipeCommit(s)
  BY <1>7 DEF WipeCommit, Goto, Idle, TypeOK
<1>8. CASE Fail(s) \/ Stop(s)
  BY <1>8 DEF Fail, Stop, Goto, Idle, TypeOK
<1>9. ASSUME NEW t \in Tenants, NEW data \in Writes, Add(t, data) PROVE Known
  BY <1>9 DEF Add
<1>10. CASE UNCHANGED vars
  BY <1>10 DEF vars
<1> QED
  BY <1>1, <1>2, <1>3, <1>4, <1>5, <1>6, <1>7, <1>8, <1>9, <1>10 DEF Next, Progress

LEMMA CreatedInit == Init => CreatedKept
BY DEF Init, CreatedKept, Idle, Stored

LEMMA CreatedStep == TypeOK /\ TypeOK' /\ CreatedKept /\ [Next]_vars => CreatedKept'
<1> SUFFICES ASSUME TypeOK, TypeOK', CreatedKept, [Next]_vars, NEW s \in Seeds
             PROVE  /\ run'[s].pc \in {"create", "done"} /\ run'[s].tenant \in Stored' =>
                         \A i \in 1 .. Behind(s)' :
                           DOMAIN Statements[i] \subseteq rows'[run'[s].tenant]
                    /\ run'[s].pc = "create" /\ run'[s].tenant = None => run'[s].at = 1
                    /\ run'[s].tenant # None => run'[s].tenant \notin Unborn'
  BY DEF CreatedKept
<1> DEFINE t == run'[s].tenant
<1>1. CASE run'[s] = run[s]
  <2>1. t # None => t \notin Unborn
    BY <1>1 DEF CreatedKept
  <2>2. ASSUME run'[s].pc \in {"create", "done"}, t \in Stored', NEW i \in 1 .. Behind(s)'
        PROVE  DOMAIN Statements[i] \subseteq rows'[t]
    <3>1. t \in Stored
      BY <2>1, <2>2, TenantsBorn, NoneAssumption DEF Stored, Unborn
    <3>2. DOMAIN Statements[i] \subseteq rows[t]
      BY <1>1, <2>2, <3>1 DEF CreatedKept, Behind
    <3> QED BY <2>2, <3>1, <3>2, RowsStay
  <2> QED BY <1>1, <2>1, <2>2, TenantsBorn DEF CreatedKept
<1>2. CASE CreateTenant(s)
  <2>1. run'[s].pc = "create" /\ run'[s].at = 1 /\ t \in Unborn /\ t \in Stored'
    BY <1>2 DEF CreateTenant, CreatedKept, Goto, TypeOK, Stored, Unborn
  <2>2. Behind(s)' = 0
    BY <2>1 DEF Behind
  <2>3. t \notin Unborn'
    BY <2>1 DEF Stored, Unborn
  <2> QED BY <2>1, <2>2, <2>3, NoneAssumption DEF Unborn
<1>3. CASE CreateRows(s)
  <2> DEFINE here == run[s].at
  <2>1. /\ t = run[s].tenant /\ t \in Stored /\ run[s].pc = "create"
        /\ here \in 1 .. Len(Statements)
        /\ rows' = [rows EXCEPT ![t] = @ \cup DOMAIN Statements[here]]
    BY <1>3, StatementsCount DEF CreateRows, Present, Goto, TypeOK
  <2>2. Behind(s)' = here
    BY <1>3, <2>1, StatementsCount DEF CreateRows, Goto, TypeOK, Behind
  <2>3. ASSUME NEW i \in 1 .. Behind(s)' PROVE DOMAIN Statements[i] \subseteq rows'[t]
    <3>1. t \in Tenants
      BY <2>1, StoredTyped
    <3>2. CASE i = here
      BY <2>1, <3>1, <3>2 DEF TypeOK
    <3>3. CASE i # here
      <4>1. i \in 1 .. Behind(s)
        BY <2>1, <2>2, <3>3 DEF Behind
      <4> QED BY <2>1, <3>1, <4>1 DEF CreatedKept, TypeOK
    <3> QED BY <3>2, <3>3
  <2>4. t # None /\ t \notin Unborn'
    BY <2>1, TenantsBorn, NoneAssumption DEF Stored, Unborn
  <2> QED BY <2>3, <2>4
<1>4. CASE run'[s].pc # "done" /\ t = None /\ run'[s].at = 1
  BY <1>4, NoneAssumption DEF Stored
<1>5. CASE run'[s].pc = "share" /\ t = run[s].tenant
  BY <1>5, TenantsBorn DEF CreatedKept
<1>6. CASE run'[s].pc \in {"read", "wipe"} /\ (t = run[s].tenant \/ t \in Stored)
  BY <1>6, TenantsBorn DEF CreatedKept, Stored, Unborn
<1> QED
  BY <1>1, <1>2, <1>3, <1>4, <1>5, <1>6, RunsStep

LEMMA Whole == TypeOK /\ CreatedKept => DoneWhole
<1> SUFFICES ASSUME TypeOK, CreatedKept, NEW s \in Seeds, run[s].pc = "done",
                    run[s].tenant \in Stored
             PROVE  Seeded \subseteq rows[run[s].tenant]
  BY DEF DoneWhole
<1>1. \A i \in 1 .. Len(Statements) : DOMAIN Statements[i] \subseteq rows[run[s].tenant]
  BY DEF CreatedKept, Behind
<1> QED BY <1>1, StatementsCount DEF Seeded

\* A run of main that has come to its end leaves all the demo data, unless its tenant has
\* been deleted since: however many runs overlap, no run takes anything from a tenant
\* without taking all of it, and no run ends well whose tenant was taken from under it.
THEOREM DoneAlwaysWhole == Spec => []DoneWhole
<1>1. Init => TypeOK /\ CreatedKept
  BY TypeInit, CreatedInit
<1>2. TypeOK /\ CreatedKept /\ [Next]_vars => TypeOK' /\ CreatedKept'
  BY TypeStep, CreatedStep
<1> QED BY <1>1, <1>2, Whole, PTL DEF Spec

\* The rows of a stored tenant are never deleted but with it: the wipe of main is seen
\* whole or not at all.
THEOREM AlwaysWipedWhole == Spec => WipedWhole
<1>1. TypeOK /\ [Next]_vars =>
        [\A t \in Stored : t \in Stored' => rows[t] \subseteq rows'[t]]_vars
  BY RowsStay
<1> QED BY <1>1, TypeInit, TypeStep, PTL DEF Spec, WipedWhole

----------------------------------------------------------------------------
(* A run that nothing else overlaps meets no statement that fails.            *)

\* What is left in a tenant of the tables that the wipe has emptied, but for the values,
\* of which it takes only those of the measurements it has read: nothing.
Emptied(s) ==
  \A n \in Left(s), j \in DOMAIN WipeOrder :
    j < run[s].at /\ WipeOrder[j] # "measurementValue" => <<n, WipeOrder[j]>> \notin FallsWith

\* Where a run that nothing overlaps stands: the tenant it deletes is stored, of the one it
\* creates there is what the statements behind it made, and nothing else.
Undisturbed(s) ==
  /\ run[s].pc = "read" => run[s].at = 1
  /\ run[s].pc \in {"read", "wipe"} => run[s].tenant \in Stored
  /\ run[s].pc = "wipe" => run[s].at > 0 /\ Emptied(s)
  /\ run[s].pc = "create" /\ run[s].tenant = None => Stored = {}
  /\ run[s].pc = "create" /\ run[s].tenant # None =>
       run[s].tenant \in Stored /\ rows[run[s].tenant] = MadeBefore(run[s].at)

Solitary(s) == \A v \in Seeds : Running(v) => v = s

AloneInv ==
  /\ \A s \in Seeds : run[s].pc # "wipe" => run[s].gone = {}
  /\ \A s \in Seeds \ disturbed :
       run[s].pc # "failed" /\ (Running(s) => Solitary(s) /\ Undisturbed(s))

LEMMA AloneInit == Init => AloneInv
BY DEF Init, AloneInv, Running, Idle, Ends

LEMMA ActorsRun ==
  ASSUME NEW s \in Seeds, Progress(s) \/ Stop(s)
  PROVE  Running(s) /\ disturbed' = disturbed
<1>1. CASE Fail(s)
  BY <1>1 DEF Fail, MustFail, WipeFails, Deadlocked, Wanted, Collides, Present, Running, Ends
<1> QED
  BY <1>1 DEF Progress, Stop, Share, Find, WipeRead, WipeTable, WipeCommit, CreateTenant,
              CreateRows, Fail, Present, Running, Ends

\* Nothing that it does fails.
LEMMA AloneNoFailure ==
  ASSUME TypeOK, AloneInv, CreatedKept, NEW s \in Seeds \ disturbed, Fail(s)
  PROVE  FALSE
<1>1. Solitary(s) /\ Undisturbed(s)
  BY ActorsRun DEF AloneInv, Progress
<1>2. \A v \in Seeds \ {s} : run[v].pc # "wipe" /\ run[v].gone = {}
  BY <1>1 DEF Solitary, AloneInv, Running, Ends
<1>3. ~Deadlocked(s)
  BY <1>2 DEF Deadlocked
<1>4. ASSUME WipeFails(s) PROVE FALSE
  <2>1. /\ run[s].pc = "wipe" /\ run[s].tenant \in Stored
        /\ Emptied(s) /\ run[s].at \in Nat \ {0}
    BY <1>1, <1>4 DEF WipeFails, Undisturbed, TypeOK
  <2>2. PICK q \in Keeps : /\ Falls(s, q[2]) /\ ~Falls(s, q[1])
                           /\ q[1] \in Left(s) /\ q[2] \in Left(s)
    BY <1>4, <2>1 DEF WipeFails, Keeping
  <2> DEFINE k == run[s].at
  <2>3. k <= Len(WipeOrder) /\ <<q[2], WipeOrder[k]>> \in FallsWith
    BY <2>1, <2>2 DEF Falls
  <2>4. k \in DOMAIN WipeOrder
    BY <2>1, <2>3, WipeCount
  <2>5. PICK j \in 1 .. k : WipeOrder[j] # "measurementValue"
                            /\ <<q[1], WipeOrder[j]>> \in FallsWith
    BY <2>2, <2>3, <2>4, KeepersFall
  <2>6. CASE j = k
    BY <2>2, <2>5, <2>6 DEF Falls
  <2>7. CASE j # k
    <3>1. j < k /\ j \in DOMAIN WipeOrder
      BY <2>1, <2>4, <2>7, WipeCount
    <3> QED BY <2>1, <2>2, <2>5, <3>1 DEF Emptied
  <2> QED BY <2>6, <2>7
<1>5. ASSUME run[s].pc = "create", run[s].tenant # None,
             ~(Needed(Statements[run[s].at]) \subseteq rows[run[s].tenant])
      PROVE  FALSE
  <2>1. run[s].at \in DOMAIN Statements /\ rows[run[s].tenant] = MadeBefore(run[s].at)
    BY <1>1, <1>5 DEF Undisturbed, TypeOK
  <2> QED BY <1>5, <2>1, NeededBefore
<1>6. ASSUME Collides(s) PROVE FALSE
  <2>1. /\ run[s].pc = "create" /\ run[s].at \in DOMAIN Statements
        /\ rows[run[s].tenant] = MadeBefore(run[s].at)
    BY <1>1, <1>6, NoneAssumption DEF Collides, Present, Undisturbed, TypeOK, Stored
  <2>2. PICK m \in DOMAIN Statements[run[s].at] : TableOf(m) = "order"
    BY <1>6 DEF Collides
  <2>3. PICK n \in MadeBefore(run[s].at) : TableOf(n) = "order"
    BY <1>6, <2>1 DEF Collides
  <2>4. PICK j \in 1 .. (run[s].at - 1) : n \in DOMAIN Statements[j]
    BY <2>3 DEF MadeBefore
  <2>5. j \in DOMAIN Statements /\ j # run[s].at
    BY <2>1, <2>4, StatementsCount
  <2> QED BY <2>1, <2>2, <2>3, <2>4, <2>5, OneStatementOfOrders
<1>7. ~MustFail(s)
  BY <1>1, <1>3, <1>4, <1>5 DEF MustFail, Undisturbed
<1> QED BY <1>6, <1>7 DEF Fail

\* What the run itself makes of its place.
LEMMA UndisturbedStep ==
  ASSUME TypeOK, CreatedKept, NEW s \in Seeds, Undisturbed(s), Running(s),
         run[s].pc # "wipe" => run[s].gone = {}, Progress(s) \/ Stop(s), ~Fail(s)
  PROVE  Undisturbed(s)' /\ run'[s].pc # "failed"
<1>1. CASE Share(s)
  <2>1. run'[s].pc \in {"share", "find"}
    BY <1>1 DEF Share, Goto, Idle, TypeOK
  <2> QED BY <2>1 DEF Undisturbed
<1>2. CASE Find(s)
  <2>1. tenants' = tenants /\ Stored' = Stored
    BY <1>2 DEF Find, Stored
  <2>2. \/ run'[s].pc = "read" /\ run'[s].at = 1 /\ run'[s].tenant \in Stored
        \/ run'[s].pc = "create" /\ run'[s].tenant = None /\ Stored = {}
    <3>1. ASSUME NEW t \in Stored, Goto(s, [Idle EXCEPT !.pc = "read", !.tenant = t])
          PROVE  run'[s].pc = "read" /\ run'[s].at = 1 /\ run'[s].tenant \in Stored
      BY <3>1 DEF Goto, Idle, TypeOK
    <3>2. ASSUME Goto(s, [Idle EXCEPT !.pc = "create"])
          PROVE  run'[s].pc = "create" /\ run'[s].tenant = None
      BY <3>2 DEF Goto, Idle, TypeOK
    <3> QED BY <1>2, <3>1, <3>2 DEF Find
  <2> QED BY <2>1, <2>2 DEF Undisturbed
<1>3. CASE WipeRead(s)
  <2>1. /\ run'[s].pc = "wipe" /\ run'[s].at = 1 /\ run'[s].tenant = run[s].tenant
        /\ run[s].tenant \in Stored /\ Stored' = Stored
    BY <1>3 DEF WipeRead, Goto, TypeOK, Undisturbed, Stored
  <2>2. Emptied(s)'
    BY <2>1, WipeCount DEF Emptied
  <2> QED BY <2>1, <2>2 DEF Undisturbed
<1>4. CASE WipeTable(s)
  <2>1. /\ run'[s].pc = "wipe" /\ run'[s].at = run[s].at + 1 /\ run[s].at \in Nat
        /\ run'[s].tenant = run[s].tenant /\ run'[s].gone = run[s].gone \cup Taken(s)
        /\ run[s].tenant \in Stored /\ Stored' = Stored /\ rows' = rows
        /\ run[s].at <= Len(WipeOrder) /\ run[s].at > 0 /\ Emptied(s)
    BY <1>4 DEF WipeTable, Goto, TypeOK, Undisturbed, Stored
  <2>2. Left(s)' = Left(s) \ Taken(s)
    BY <2>1 DEF Left
  <2>3. ASSUME NEW n \in Left(s)', NEW j \in DOMAIN WipeOrder, j < run'[s].at,
               WipeOrder[j] # "measurementValue"
        PROVE  <<n, WipeOrder[j]>> \notin FallsWith
    <3>1. CASE j < run[s].at
      BY <2>1, <2>2, <2>3, <3>1 DEF Emptied
    <3>2. CASE j = run[s].at
      <4>1. n \in Left(s) /\ ~Falls(s, n)
        BY <2>2, <2>3 DEF Taken
      <4> QED BY <2>3, <3>2, <4>1 DEF Falls
    <3> QED BY <2>1, <2>3, <3>1, <3>2, WipeCount
  <2>4. Emptied(s)'
    BY <2>3 DEF Emptied
  <2> QED BY <2>1, <2>4 DEF Undisturbed
<1>5. CASE WipeCommit(s)
  <2>1. run'[s].pc = "create" /\ run'[s].tenant = None
    BY <1>5 DEF WipeCommit, Goto, Idle, TypeOK
  <2>2. Stored' = {}
    BY <1>5 DEF WipeCommit, Stored, TypeOK
  <2> QED BY <2>1, <2>2 DEF Undisturbed
<1>6. CASE CreateTenant(s)
  <2>1. PICK t \in Unborn : /\ tenants' = [tenants EXCEPT ![t] = "stored"]
                            /\ Goto(s, [run[s] EXCEPT !.tenant = t])
    BY <1>6 DEF CreateTenant
  <2>2. /\ run'[s].pc = "create" /\ run'[s].tenant = t /\ run'[s].at = 1 /\ rows' = rows
        /\ t \in Tenants
    BY <1>6, <2>1 DEF CreateTenant, CreatedKept, Goto, TypeOK, Unborn
  <2>3. t \in Stored' /\ rows[t] = {} /\ t # None
    BY <2>1, <2>2, NoneAssumption DEF Stored, Unborn, TypeOK
  <2>4. MadeBefore(1) = {}
    BY DEF MadeBefore
  <2> QED BY <2>2, <2>3, <2>4 DEF Undisturbed
<1>7. CASE CreateRows(s)
  <2> DEFINE t == run[s].tenant
             here == run[s].at
  <2>1. /\ t \in Stored /\ t \in Tenants /\ t # None /\ Stored' = Stored
        /\ run[s].pc = "create" /\ here \in 1 .. Len(Statements)
        /\ rows'[t] = MadeBefore(here) \cup DOMAIN Statements[here]
        /\ run'[s].tenant = t
    BY <1>7, StatementsCount, NoneAssumption
    DEF CreateRows, Present, Goto, TypeOK, Undisturbed, Stored
  <2>2. \/ run'[s].pc = "done"
        \/ run'[s].pc = "create" /\ run'[s].at = here + 1
    BY <1>7, <2>1 DEF CreateRows, Goto, TypeOK
  <2>3. MadeBefore(here + 1) = MadeBefore(here) \cup DOMAIN Statements[here]
    <3>1. \A j : j \in 1 .. ((here + 1) - 1) <=> j \in 1 .. (here - 1) \/ j = here
      BY <2>1, StatementsCount
    <3> HIDE DEF here
    <3> QED BY <3>1 DEF MadeBefore
  <2> QED BY <2>1, <2>2, <2>3 DEF Undisturbed
<1>8. CASE Stop(s)
  <2>1. run'[s].pc = "stopped"
    BY <1>8 DEF Stop, Goto, Idle, TypeOK
  <2> QED BY <2>1 DEF Undisturbed
<1> QED BY <1>1, <1>2, <1>3, <1>4, <1>5, <1>6, <1>7, <1>8 DEF Progress

LEMMA AloneStep ==
  TypeOK /\ TypeOK' /\ CreatedKept /\ AloneInv /\ [Next]_vars => AloneInv'
<1> SUFFICES ASSUME TypeOK, CreatedKept, AloneInv, [Next]_vars PROVE AloneInv'
  OBVIOUS
<1>1. ASSUME NEW s \in Seeds, run'[s].pc # "wipe" PROVE run'[s].gone = {}
  <2>1. \/ run'[s] = run[s] \/ run'[s].gone = {} \/ run'[s].pc = "wipe"
        \/ run'[s].gone = run[s].gone /\ run[s].pc # "wipe"
    <3>1. ASSUME NEW v \in Seeds, v # s, Start(v) \/ Progress(v) \/ Stop(v)
          PROVE  run'[s] = run[s]
      BY <3>1 DEF Start, Progress, Stop, Share, Find, WipeRead, WipeTable, WipeCommit,
                  CreateTenant, CreateRows, Fail, Goto, TypeOK
    <3>2. CASE Start(s)
      BY <3>2 DEF Start, Goto, Idle, TypeOK
    <3>3. CASE Share(s)
      BY <3>3 DEF Share, Goto, Idle, TypeOK
    <3>4. CASE Find(s)
      <4>1. CASE \E t \in Stored : Goto(s, [Idle EXCEPT !.pc = "read", !.tenant = t])
        BY <4>1 DEF Goto, Idle, TypeOK
      <4>2. CASE Goto(s, [Idle EXCEPT !.pc = "create"])
        BY <4>2 DEF Goto, Idle, TypeOK
      <4> QED BY <3>4, <4>1, <4>2 DEF Find
    <3>5. CASE WipeRead(s)
      BY <3>5 DEF WipeRead, Goto, TypeOK
    <3>6. CASE WipeTable(s)
      BY <3>6 DEF WipeTable, Goto, TypeOK
    <3>7. CASE WipeCommit(s)
      BY <3>7 DEF WipeCommit, Goto, Idle, TypeOK
    <3>8. CASE CreateTenant(s)
      BY <3>8 DEF CreateTenant, Goto, TypeOK
    <3>9. CASE CreateRows(s)
      BY <3>9 DEF CreateRows, Present, Goto, TypeOK
    <3>10. CASE Fail(s) \/ Stop(s)
      BY <3>10 DEF Fail, Stop, Goto, Idle, TypeOK
    <3>11. CASE run' = run
      BY <3>11
    <3> QED
      BY <3>1, <3>2, <3>3, <3>4, <3>5, <3>6, <3>7, <3>8, <3>9, <3>10, <3>11
      DEF Next, Progress, Add, vars
  <2> QED BY <1>1, <2>1 DEF AloneInv
<1>2. ASSUME NEW s \in Seeds, s \notin disturbed'
      PROVE  run'[s].pc # "failed" /\ (Running(s)' => Solitary(s)' /\ Undisturbed(s)')
  \* A run that has ended, and another one goes on.
  <2>1. ASSUME s \notin disturbed, ~Running(s), run'[s] = run[s]
        PROVE  run'[s].pc # "failed" /\ ~Running(s)'
    BY <1>2, <2>1 DEF AloneInv, Running
  <2>2. ASSUME NEW v \in Seeds, Progress(v) \/ Stop(v)
        PROVE  run'[s].pc # "failed" /\ (Running(s)' => Solitary(s)' /\ Undisturbed(s)')
    <3>1. Running(v) /\ s \notin disturbed
      BY <1>2, <2>2, ActorsRun
    <3>2. \A u \in Seeds : u # v => run'[u] = run[u]
      BY <2>2 DEF Progress, Stop, Share, Find, WipeRead, WipeTable, WipeCommit,
                  CreateTenant, CreateRows, Fail, Goto, TypeOK
    <3>3. CASE v # s
      <4>1. ~Running(s)
        BY <3>1, <3>3 DEF AloneInv, Solitary
      <4> QED BY <2>1, <3>1, <3>2, <3>3, <4>1
    <3>4. CASE v = s
      <4>1. Solitary(s) /\ Undisturbed(s)
        BY <3>1, <3>4 DEF AloneInv
      <4>2. Solitary(s)'
        BY <3>2, <3>4, <4>1 DEF Solitary, Running
      <4>3. ~Fail(s)
        BY <3>1, AloneNoFailure
      <4>4. run[s].pc # "wipe" => run[s].gone = {}
        BY DEF AloneInv
      <4> QED BY <2>2, <3>1, <3>4, <4>1, <4>2, <4>3, <4>4, UndisturbedStep
    <3> QED BY <3>3, <3>4
  <2>3. ASSUME NEW v \in Seeds, Start(v)
        PROVE  run'[s].pc # "failed" /\ (Running(s)' => Solitary(s)' /\ Undisturbed(s)')
    <3> DEFINE others == {u \in Seeds : u # v /\ Running(u)}
    <3>1. /\ disturbed' = IF others = {} THEN disturbed \ {v}
                          ELSE disturbed \cup others \cup {v}
          /\ run'[v].pc = "share"
          /\ \A u \in Seeds : u # v => run'[u] = run[u]
      BY <2>3 DEF Start, Goto, Idle, TypeOK
    <3>2. CASE v # s
      <4>1. s \notin disturbed /\ ~Running(s)
        BY <1>2, <3>1, <3>2
      <4> QED BY <2>1, <3>1, <3>2, <4>1
    <3>3. CASE v = s
      <4>1. others = {}
        BY <1>2, <3>1, <3>3
      <4>2. Solitary(s)'
        BY <3>1, <3>3, <4>1 DEF Solitary, Running
      <4> QED BY <3>1, <3>3, <4>2 DEF Undisturbed
    <3> QED BY <3>2, <3>3
  <2>4. ASSUME NEW t \in Tenants, NEW data \in Writes, Add(t, data)
        PROVE  run'[s].pc # "failed" /\ (Running(s)' => Solitary(s)' /\ Undisturbed(s)')
    <3>1. s \notin disturbed /\ ~Running(s) /\ run'[s] = run[s]
      BY <1>2, <2>4 DEF Add
    <3> QED BY <2>1, <3>1
  <2>5. CASE UNCHANGED vars
    <3>1. UNCHANGED <<tenants, rows, run, disturbed>>
      BY <2>5 DEF vars
    <3>2. Undisturbed(s) => Undisturbed(s)'
      BY <3>1 DEF Undisturbed, Stored, Emptied, Left
    <3>3. Solitary(s)' = Solitary(s) /\ Running(s)' = Running(s)
      BY <3>1 DEF Solitary, Running
    <3> QED BY <1>2, <3>1, <3>2, <3>3 DEF AloneInv
  <2> QED BY <2>2, <2>3, <2>4, <2>5 DEF Next
<1> QED BY <1>1, <1>2 DEF AloneInv

\* A run of main that overlaps no other and no request of the application never meets a
\* statement that fails, whatever runs that were stopped have left behind and requests
\* have added before it: its wipe comes to a table only when nothing is left that keeps the
\* table's rows, and its creation names only rows it has made.
THEOREM AloneAlwaysSucceeds == Spec => []AloneSucceeds
<1>1. Init => TypeOK /\ CreatedKept /\ AloneInv
  BY TypeInit, CreatedInit, AloneInit
<1>2. TypeOK /\ CreatedKept /\ AloneInv /\ [Next]_vars => TypeOK' /\ CreatedKept' /\ AloneInv'
  BY TypeStep, CreatedStep, AloneStep
<1>3. AloneInv => AloneSucceeds
  BY DEF AloneInv, AloneSucceeds
<1> QED BY <1>1, <1>2, <1>3, PTL DEF Spec
=============================================================================
