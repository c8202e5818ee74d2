---------------------------- MODULE BlocksProofs ----------------------------
(***************************************************************************)
(* What holds of Blocks for any blocks, customers, measurements and        *)
(* requests.                                                               *)
(***************************************************************************)
EXTENDS Blocks, TLAPS

USE BlocksAssumption

Request == [pc : {"idle", "create", "lock", "remove", "cascade", "erase"} \cup Replacing,
            block : Blocks \cup {None}, customer : Customers \cup {None},
            list : SUBSET Assignment, gone : SUBSET Assignment,
            holds : {"none", "row", "key"}]

\* What TypeOK says of a request.
Fits(q) ==
  /\ q \in Request
  /\ q.pc \notin {"idle", "erase"} => q.block \in Blocks
  /\ q.pc \in {"create", "lock"} \cup Replacing => q.list \in Lists

LEMMA RequestsFit == TypeOK => \A w \in Requests : Fits(req[w])
  BY DEF TypeOK, Fits, Request

LEMMA FitsType ==
  ASSUME TypeOK, req' \in [Requests -> Request], \A v \in Requests : Fits(req'[v]),
         blocks' \in [Blocks -> Rows], assigned' \in [Blocks -> SUBSET Assignment],
         customers' \in SUBSET Customers,
         measurements' \in [Measurements -> [row : Rows, customer : Customers \cup {None},
                                             block : Blocks \cup {None}]],
         ordered' \in SUBSET Blocks, saved' \in [Blocks -> SUBSET Assignment],
         overlapped' \in SUBSET Blocks
  PROVE  TypeOK'
  BY DEF TypeOK, Fits, Request

\* One request moves to another record that fits.
LEMMA OneMoves ==
  ASSUME TypeOK, NEW w \in Requests, NEW q, Fits(q), req' = [req EXCEPT ![w] = q]
  PROVE  req' \in [Requests -> Request] /\ \A v \in Requests : Fits(req'[v])
<1>1. req \in [Requests -> Request]
  BY DEF TypeOK, Request
<1>2. q \in Request
  BY DEF Fits
<1>3. QED BY <1>1, <1>2, RequestsFit

LEMMA IdleFits == Fits(Idle)
  BY DEF Fits, Request, Idle, Replacing

LEMMA WithoutFits ==
  ASSUME NEW q, Fits(q), NEW rows PROVE Fits(Without(q, rows))
  BY DEF Fits, Request, Without

LEMMA ListsAreAssignments == Lists \subseteq SUBSET Assignment
  BY DEF Lists

LEMMA InitType == Init => TypeOK
<1>1. Idle \in Request
  BY IdleFits DEF Fits
<1>2. QED BY <1>1 DEF Init, TypeOK, Request, Idle, Rows, Replacing

LEMMA NextType == TypeOK /\ [Next]_vars => TypeOK'
<1> SUFFICES ASSUME TypeOK, [Next]_vars PROVE TypeOK'
  OBVIOUS
<1>t. /\ blocks \in [Blocks -> Rows] /\ assigned \in [Blocks -> SUBSET Assignment]
      /\ customers \in SUBSET Customers
      /\ measurements \in [Measurements -> [row : Rows, customer : Customers \cup {None},
                                            block : Blocks \cup {None}]]
      /\ ordered \in SUBSET Blocks /\ saved \in [Blocks -> SUBSET Assignment]
      /\ overlapped \in SUBSET Blocks /\ req \in [Requests -> Request]
      /\ \A w \in Requests : Fits(req[w])
  BY RequestsFit DEF TypeOK, Request
<1>r. Rows = {"unborn", "stored", "deleted"}
  BY DEF Rows
<1>i. Fits(Idle) /\ Idle = [pc |-> "idle", block |-> None, customer |-> None, list |-> {},
                            gone |-> {}, holds |-> "none"]
  BY IdleFits DEF Idle
\* The tables are left as they are and one request moves.
<1>a. ASSUME NEW w \in Requests, NEW q, Fits(q), req' = [req EXCEPT ![w] = q],
             UNCHANGED <<blocks, assigned, customers, measurements, ordered, saved>>,
             overlapped' \in SUBSET Blocks
      PROVE  TypeOK'
  BY <1>a, <1>t, OneMoves, FitsType
\* The requests are left as they are and the rows that use blocks change.
<1>b. ASSUME UNCHANGED <<blocks, assigned, customers, req, saved, overlapped>>,
             ordered' \in SUBSET Blocks,
             measurements' \in [Measurements -> [row : Rows, customer : Customers \cup {None},
                                                 block : Blocks \cup {None}]]
      PROVE  TypeOK'
  BY <1>b, <1>t, FitsType
<1>1. CASE UNCHANGED vars
  BY <1>1, <1>b, <1>t DEF vars
<1>2. ASSUME NEW w \in Requests, NEW b \in Blocks, NEW list \in SUBSET Assignment,
             \/ CreateBlockBegin(w, b, list) \/ UpdateBlockBegin(w, b, list)
             \/ UpdateBlockCustomersBegin(w, b, list)
      PROVE  TypeOK'
  <2>1. \A pc \in {"create", "lock", "clear"} : list \in Lists =>
          Fits([Idle EXCEPT !.pc = pc, !.block = b, !.list = list])
    BY <1>i DEF Fits, Request, Replacing
  <2>2. list \in Lists
    BY <1>2 DEF CreateBlockBegin, UpdateBlockBegin, UpdateBlockCustomersBegin, Valid
  <2>3. QED BY <1>2, <1>a, <1>t, <2>1, <2>2
            DEF CreateBlockBegin, UpdateBlockBegin, UpdateBlockCustomersBegin
<1>3. ASSUME NEW w \in Requests, CreateBlockCommit(w)
      PROVE  TypeOK'
  <2>1. req[w].block \in Blocks /\ req[w].list \in SUBSET Assignment
    BY <1>3, <1>t DEF CreateBlockCommit, Fits, Request
  <2>2. /\ blocks' \in [Blocks -> Rows] /\ assigned' \in [Blocks -> SUBSET Assignment]
        /\ saved' \in [Blocks -> SUBSET Assignment] /\ req' = [req EXCEPT ![w] = Idle]
        /\ UNCHANGED <<customers, measurements, ordered, overlapped>>
    BY <1>3, <1>t, <1>r, <2>1 DEF CreateBlockCommit
  <2>3. QED BY <1>t, <1>i, <2>2, OneMoves, FitsType
<1>4. ASSUME NEW w \in Requests, NEW lock \in {"row", "key"}, UpdateBlockLock(w, lock)
      PROVE  TypeOK'
  <2>1. Fits([req[w] EXCEPT !.pc = "clear", !.holds = lock])
    BY <1>4, <1>t DEF UpdateBlockLock, Fits, Request, Replacing
  <2>2. QED BY <1>4, <1>a, <1>t, <2>1 DEF UpdateBlockLock
<1>5. ASSUME NEW w \in Requests, ReplaceClear(w)
      PROVE  TypeOK'
  <2>1. req[w].block \in Blocks /\ assigned[req[w].block] \in SUBSET Assignment
    BY <1>5, <1>t DEF ReplaceClear, Fits, Replacing
  <2>2. Fits([req[w] EXCEPT !.pc = "clearing", !.gone = assigned[req[w].block]])
    BY <1>5, <1>t, <2>1 DEF ReplaceClear, Fits, Request, Replacing
  <2>3. overlapped' \in SUBSET Blocks
    BY <1>5, <1>t, <2>1 DEF ReplaceClear
  <2>4. QED BY <1>5, <1>a, <2>2, <2>3 DEF ReplaceClear
<1>6. ASSUME NEW w \in Requests, ReplaceCleared(w)
      PROVE  TypeOK'
  <2>1. Fits([req[w] EXCEPT !.pc = "insert"])
    BY <1>6, <1>t DEF ReplaceCleared, Fits, Request, Replacing
  <2>2. QED BY <1>6, <1>a, <1>t, <2>1 DEF ReplaceCleared
<1>7. ASSUME NEW w \in Requests, ReplaceInsert(w)
      PROVE  TypeOK'
  <2> DEFINE b == req[w].block
             gone == req[w].gone
             list == req[w].list
  <2>1. b \in Blocks /\ list \in SUBSET Assignment
    BY <1>7, <1>t DEF ReplaceInsert, Fits, Request, Replacing
  <2>2. Replaced(assigned[b], gone, list) \in SUBSET Assignment
    BY <1>t, <2>1 DEF Replaced
  <2>3. assigned' \in [Blocks -> SUBSET Assignment] /\ saved' \in [Blocks -> SUBSET Assignment]
    BY <1>7, <1>t, <2>1, <2>2 DEF ReplaceInsert
  <2>4. /\ req' = [v \in Requests |-> IF v = w THEN Idle
                     ELSE IF v \in Open(b) THEN Without(req[v], gone) ELSE req[v]]
        /\ overlapped' \in SUBSET Blocks /\ UNCHANGED <<blocks, customers, measurements, ordered>>
    BY <1>7, <1>t DEF ReplaceInsert
  <2>5. \A v \in Requests : Fits(req'[v])
    BY <1>t, <1>i, <2>4, WithoutFits
  <2>6. req' \in [Requests -> Request]
    BY <2>4, <2>5 DEF Fits
  <2>7. QED BY <1>t, <2>3, <2>4, <2>5, <2>6, FitsType
<1>8. ASSUME NEW w \in Requests, NEW b \in Blocks, DeleteBlockRead(w, b)
      PROVE  TypeOK'
  <2>1. Fits([Idle EXCEPT !.pc = "remove", !.block = b])
    BY <1>i DEF Fits, Request, Replacing
  <2>2. QED BY <1>8, <1>a, <1>t, <2>1 DEF DeleteBlockRead
<1>9. ASSUME NEW w \in Requests, DeleteBlockLock(w)
      PROVE  TypeOK'
  <2>1. Fits([req[w] EXCEPT !.pc = "cascade"])
    BY <1>9, <1>t DEF DeleteBlockLock, Fits, Request, Replacing
  <2>2. QED BY <1>9, <1>a, <1>t, <2>1 DEF DeleteBlockLock
<1>10. ASSUME NEW w \in Requests, DeleteBlockCommit(w)
       PROVE  TypeOK'
  <2> DEFINE b == req[w].block
  <2>1. /\ blocks' \in [Blocks -> Rows] /\ assigned' \in [Blocks -> SUBSET Assignment]
        /\ ordered' \in SUBSET Blocks /\ UNCHANGED <<customers, saved, overlapped>>
        /\ req' = [v \in Requests |-> IF v = w THEN Idle
                     ELSE IF v \in Open(b) THEN Without(req[v], assigned[b]) ELSE req[v]]
    BY <1>10, <1>t, <1>r DEF DeleteBlockCommit
  <2>2. measurements' \in [Measurements -> [row : Rows, customer : Customers \cup {None},
                                            block : Blocks \cup {None}]]
    BY <1>10, <1>t, <1>r DEF DeleteBlockCommit, Gone
  <2>3. \A v \in Requests : Fits(req'[v])
    BY <1>t, <1>i, <2>1, WithoutFits
  <2>4. req' \in [Requests -> Request]
    BY <2>1, <2>3 DEF Fits
  <2>5. QED BY <1>t, <2>1, <2>2, <2>3, <2>4, FitsType
<1>11. ASSUME NEW w \in Requests, NEW c \in Customers, DeleteCustomerLock(w, c)
       PROVE  TypeOK'
  <2>1. Fits([Idle EXCEPT !.pc = "erase", !.customer = c])
    BY <1>i DEF Fits, Request, Replacing
  <2>2. QED BY <1>11, <1>a, <1>t, <2>1 DEF DeleteCustomerLock
<1>12. ASSUME NEW w \in Requests, DeleteCustomerCommit(w)
       PROVE  TypeOK'
  <2> DEFINE c == req[w].customer
  <2>1. /\ assigned' \in [Blocks -> SUBSET Assignment]
        /\ customers' \in SUBSET Customers /\ UNCHANGED <<blocks, ordered, saved, overlapped>>
        /\ req' = [v \in Requests |-> IF v = w THEN Idle ELSE Without(req[v], RowsOf(c))]
    BY <1>12, <1>t DEF DeleteCustomerCommit
  <2>2. measurements' \in [Measurements -> [row : Rows, customer : Customers \cup {None},
                                            block : Blocks \cup {None}]]
    BY <1>12, <1>t, <1>r DEF DeleteCustomerCommit, Gone
  <2>3. \A v \in Requests : Fits(req'[v])
    BY <1>t, <1>i, <2>1, WithoutFits
  <2>4. req' \in [Requests -> Request]
    BY <2>1, <2>3 DEF Fits
  <2>5. QED BY <1>t, <2>1, <2>2, <2>3, <2>4, FitsType
<1>13. ASSUME NEW w \in Requests, NEW m \in Measurements, NEW c \in Customers,
              NEW b \in Blocks \cup {None},
              CreateMeasurement(w, m, c, b) \/ UpdateMeasurement(w, m, c, b)
       PROVE  TypeOK'
  BY <1>13, <1>b, <1>t, <1>r DEF CreateMeasurement, UpdateMeasurement
<1>14. ASSUME NEW w \in Requests, NEW m \in Measurements, DeleteMeasurement(w, m)
       PROVE  TypeOK'
  BY <1>14, <1>b, <1>t, <1>r DEF DeleteMeasurement, Gone
<1>15. ASSUME NEW w \in Requests, NEW b \in Blocks, OrderBlock(w, b) \/ UnorderBlock(w, b)
       PROVE  TypeOK'
  BY <1>15, <1>b, <1>t DEF OrderBlock, UnorderBlock
<1>16. ASSUME NEW w \in Requests, Abort(w)
       PROVE  TypeOK'
  BY <1>16, <1>a, <1>i, <1>t DEF Abort
<1>17. QED
  BY <1>1, <1>2, <1>3, <1>4, <1>5, <1>6, <1>7, <1>8, <1>9, <1>10, <1>11, <1>12, <1>13, <1>14,
     <1>15, <1>16
  DEF Next, Begin, RunOn, Fail

\* The tables and the requests keep to their columns' types, and a request that is
\* replacing a block's customers has a list that was validated.
THEOREM TypeCorrect == Spec => []TypeOK
<1>1. Init => TypeOK
  BY InitType
<1>2. TypeOK /\ [Next]_vars => TypeOK'
  BY NextType
<1>3. QED BY <1>1, <1>2, PTL DEF Spec

----------------------------------------------------------------------------
(* Replacements.  AssignmentsAsSaved says nothing of requests, so it is not    *)
(* inductive: what an open replacement will delete must be known to be all     *)
(* there is, and that it is alone, which rests on the lock of the block's row. *)

Begun ==
  \A w \in Requests : req[w].pc \in {"lock", "remove", "cascade"} \cup Replacing =>
    blocks[req[w].block] # "unborn"

LockedOnce == \A b \in Blocks, v, w \in Requests : HoldsRow(v, b) /\ HoldsRow(w, b) => v = w

Consistent(b) ==
  /\ assigned[b] = {r \in saved[b] : r.customer \in customers}
  /\ \A v, w \in Open(b) : v = w
  /\ \A w \in Open(b) : req[w].gone = assigned[b]

ReplaceInv ==
  /\ Begun /\ LockedOnce /\ SavedCustomersAssigned
  /\ \A b \in StoredBlocks \ overlapped : Consistent(b)

BlocksInv == TypeOK /\ ReplaceInv

\* A request moves to a step that is not inside a replacement's two statements, and
\* has the lock of a block's row only if nobody else does.
LEMMA MovesOutside ==
  ASSUME BlocksInv, NEW w \in Requests, NEW q, req' = [req EXCEPT ![w] = q],
         UNCHANGED <<blocks, assigned, customers, saved, overlapped>>,
         q.pc \notin {"clearing", "insert"},
         q.pc \in {"lock", "remove", "cascade"} \cup Replacing => blocks[q.block] # "unborn",
         (q.pc = "cascade" \/ (q.pc \in Replacing /\ q.holds # "none")) =>
           \A v \in Requests \ {w} : ~HoldsRow(v, q.block)
  PROVE  ReplaceInv'
<1>1. \A v \in Requests : req'[v] = IF v = w THEN q ELSE req[v]
  BY DEF BlocksInv, TypeOK
<1>2. Begun'
  BY <1>1 DEF BlocksInv, ReplaceInv, Begun
<1>3. LockedOnce'
  <2>1. \A b \in Blocks, v \in Requests \ {w} : HoldsRow(v, b)' <=> HoldsRow(v, b)
    BY <1>1 DEF HoldsRow
  <2>2. ASSUME NEW b \in Blocks, HoldsRow(w, b)' PROVE \A v \in Requests \ {w} : ~HoldsRow(v, b)
    <3>1. q.block = b /\ (q.pc = "cascade" \/ (q.pc \in Replacing /\ q.holds # "none"))
      BY <1>1, <2>2 DEF HoldsRow
    <3>2. QED BY <3>1
  <2>3. QED BY <2>1, <2>2 DEF BlocksInv, ReplaceInv, LockedOnce
<1>4. SavedCustomersAssigned'
  BY DEF BlocksInv, ReplaceInv, SavedCustomersAssigned, StoredBlocks
<1>6. \A b \in Blocks : Open(b)' \subseteq Open(b) /\ \A v \in Open(b)' : req'[v] = req[v]
  BY <1>1 DEF Open
<1>7. \A b \in StoredBlocks' \ overlapped' : Consistent(b)'
  BY <1>6 DEF BlocksInv, ReplaceInv, StoredBlocks, Consistent
<1>8. QED BY <1>2, <1>3, <1>4, <1>7 DEF ReplaceInv

LEMMA NextReplace == BlocksInv /\ [Next]_vars => ReplaceInv'
<1> SUFFICES ASSUME BlocksInv, [Next]_vars PROVE ReplaceInv'
  OBVIOUS
<1>t. /\ TypeOK /\ Begun /\ LockedOnce /\ SavedCustomersAssigned
      /\ \A b \in StoredBlocks \ overlapped : Consistent(b)
      /\ blocks \in [Blocks -> Rows] /\ assigned \in [Blocks -> SUBSET Assignment]
      /\ req \in [Requests -> Request] /\ saved \in [Blocks -> SUBSET Assignment]
      /\ \A w \in Requests : Fits(req[w])
  BY RequestsFit DEF BlocksInv, ReplaceInv, TypeOK, Request
<1>i. /\ Idle.pc = "idle" /\ "idle" \notin Replacing /\ "cascade" \notin Replacing
      /\ "lock" \notin Replacing /\ "remove" \notin Replacing /\ "create" \notin Replacing
      /\ "erase" \notin Replacing /\ Replacing = {"clear", "clearing", "insert"}
  BY DEF Idle, Replacing
\* Nothing the invariant speaks of changes.
<1>a. ASSUME UNCHANGED <<blocks, assigned, customers, req, saved, overlapped>>
      PROVE  ReplaceInv'
  BY <1>a, <1>t DEF ReplaceInv, Begun, LockedOnce, HoldsRow, SavedCustomersAssigned,
                    StoredBlocks, Consistent, Open
<1>1. CASE UNCHANGED vars
  BY <1>1, <1>a DEF vars
<1>2. ASSUME NEW w \in Requests, NEW b \in Blocks, NEW list \in SUBSET Assignment,
             \/ CreateBlockBegin(w, b, list) \/ UpdateBlockBegin(w, b, list)
             \/ UpdateBlockCustomersBegin(w, b, list)
      PROVE  ReplaceInv'
  <2>1. PICK pc \in {"create", "lock", "clear"} :
          /\ req' = [req EXCEPT ![w] = [Idle EXCEPT !.pc = pc, !.block = b, !.list = list]]
          /\ pc # "create" => b \in StoredBlocks
          /\ UNCHANGED <<blocks, assigned, customers, saved, overlapped>>
    BY <1>2 DEF CreateBlockBegin, UpdateBlockBegin, UpdateBlockCustomersBegin
  <2> DEFINE q == [Idle EXCEPT !.pc = pc, !.block = b, !.list = list]
  <2>2. q.pc = pc /\ q.block = b /\ q.holds = "none"
    BY DEF Idle
  <2> HIDE DEF q
  <2>3. pc # "create" => blocks[b] # "unborn"
    BY <2>1 DEF StoredBlocks
  <2>4. req' = [req EXCEPT ![w] = q]
    BY <2>1 DEF q
  <2>5. QED BY <1>i, <2>1, <2>2, <2>3, <2>4, MovesOutside
<1>3. ASSUME NEW w \in Requests, NEW lock \in {"row", "key"}, UpdateBlockLock(w, lock)
      PROVE  ReplaceInv'
  <2> DEFINE q == [req[w] EXCEPT !.pc = "clear", !.holds = lock]
  <2>1. q.pc = "clear" /\ q.block = req[w].block /\ req' = [req EXCEPT ![w] = q]
    BY <1>3, <1>t DEF UpdateBlockLock, Request
  <2>2. blocks[q.block] # "unborn" /\ \A v \in Requests \ {w} : ~HoldsRow(v, q.block)
    BY <1>3, <2>1 DEF UpdateBlockLock, Waiting, WaitsFor, WaitsForBlock, StoredBlocks
  <2>3. UNCHANGED <<blocks, assigned, customers, saved, overlapped>>
    BY <1>3 DEF UpdateBlockLock
  <2> HIDE DEF q
  <2>4. QED BY <2>1, <2>2, <2>3, MovesOutside
<1>4. ASSUME NEW w \in Requests, NEW b \in Blocks, DeleteBlockRead(w, b)
      PROVE  ReplaceInv'
  <2> DEFINE q == [Idle EXCEPT !.pc = "remove", !.block = b]
  <2>1. q.pc = "remove" /\ q.block = b /\ req' = [req EXCEPT ![w] = q]
    BY <1>4 DEF DeleteBlockRead, Idle
  <2>2. blocks[b] # "unborn" /\ UNCHANGED <<blocks, assigned, customers, saved, overlapped>>
    BY <1>4 DEF DeleteBlockRead, StoredBlocks
  <2> HIDE DEF q
  <2>3. QED BY <1>i, <2>1, <2>2, MovesOutside
<1>5. ASSUME NEW w \in Requests, DeleteBlockLock(w)
      PROVE  ReplaceInv'
  <2> DEFINE q == [req[w] EXCEPT !.pc = "cascade"]
  <2>1. q.pc = "cascade" /\ q.block = req[w].block /\ req' = [req EXCEPT ![w] = q]
    BY <1>5, <1>t DEF DeleteBlockLock, Request
  <2>2. blocks[q.block] # "unborn" /\ \A v \in Requests \ {w} : ~HoldsRow(v, q.block)
    BY <1>5, <2>1 DEF DeleteBlockLock, Waiting, WaitsFor, WaitsForBlock, StoredBlocks
  <2>3. UNCHANGED <<blocks, assigned, customers, saved, overlapped>>
    BY <1>5 DEF DeleteBlockLock
  <2> HIDE DEF q
  <2>4. QED BY <2>1, <2>2, <2>3, MovesOutside
<1>6. ASSUME NEW w \in Requests, NEW c \in Customers, DeleteCustomerLock(w, c)
      PROVE  ReplaceInv'
  <2> DEFINE q == [Idle EXCEPT !.pc = "erase", !.customer = c]
  <2>1. q.pc = "erase" /\ req' = [req EXCEPT ![w] = q]
    BY <1>6 DEF DeleteCustomerLock, Idle
  <2>2. UNCHANGED <<blocks, assigned, customers, saved, overlapped>>
    BY <1>6 DEF DeleteCustomerLock
  <2> HIDE DEF q
  <2>3. QED BY <1>i, <2>1, <2>2, MovesOutside
<1>7. ASSUME NEW w \in Requests, Abort(w)
      PROVE  ReplaceInv'
  BY <1>7, <1>i, MovesOutside DEF Abort
<1>8. ASSUME NEW w \in Requests, NEW m \in Measurements, NEW c \in Customers,
             NEW b \in Blocks \cup {None},
             CreateMeasurement(w, m, c, b) \/ UpdateMeasurement(w, m, c, b)
      PROVE  ReplaceInv'
  BY <1>8, <1>a DEF CreateMeasurement, UpdateMeasurement
<1>8a. ASSUME NEW w \in Requests, NEW m \in Measurements, DeleteMeasurement(w, m)
       PROVE  ReplaceInv'
  BY <1>8a, <1>a DEF DeleteMeasurement
<1>8b. ASSUME NEW w \in Requests, NEW b \in Blocks, OrderBlock(w, b) \/ UnorderBlock(w, b)
       PROVE  ReplaceInv'
  BY <1>8b, <1>a DEF OrderBlock, UnorderBlock
<1>9. ASSUME NEW w \in Requests, CreateBlockCommit(w)
      PROVE  ReplaceInv'
  <2>b. PICK b \in Blocks : b = req[w].block
    BY <1>9, <1>t DEF CreateBlockCommit, Fits
  <2>1. /\ b \in Blocks /\ blocks[b] = "unborn" /\ req[w].pc = "create"
        /\ CustomersOf(req[w].list) \subseteq customers
    BY <1>9, <2>b DEF CreateBlockCommit
  <2>2. /\ \A v \in Requests : req'[v] = IF v = w THEN Idle ELSE req[v]
        /\ \A c \in Blocks : c # b => /\ blocks'[c] = blocks[c] /\ assigned'[c] = assigned[c]
                                      /\ saved'[c] = saved[c]
        /\ blocks'[b] = "stored" /\ assigned'[b] = req[w].list /\ saved'[b] = req[w].list
        /\ customers' = customers /\ overlapped' = overlapped
    BY <1>9, <1>t, <2>b, <2>1 DEF CreateBlockCommit
  <2>3. \A v \in Requests : req[v].pc \in {"lock", "remove", "cascade"} \cup Replacing =>
          req[v].block # b /\ req[v].block \in Blocks
    BY <1>i, <1>t, <2>1 DEF Begun, Fits
  <2>4. Begun'
    BY <1>i, <1>t, <2>2, <2>3 DEF Begun
  <2>5. LockedOnce'
    BY <1>i, <1>t, <2>2 DEF LockedOnce, HoldsRow
  <2>6. SavedCustomersAssigned'
    BY <1>t, <2>2 DEF SavedCustomersAssigned, StoredBlocks
  <2>7. /\ Open(b)' = {}
        /\ \A c \in Blocks : c # b => /\ Open(c)' = Open(c)
                                      /\ \A v \in Open(c) : req'[v] = req[v]
    BY <1>i, <2>1, <2>2, <2>3 DEF Open
  <2>8. Consistent(b)'
    <3>1. \A r \in req[w].list : r.customer \in customers
      BY <2>1 DEF CustomersOf
    <3>2. QED BY <2>2, <2>7, <3>1 DEF Consistent
  <2>9. ASSUME NEW c \in StoredBlocks' \ overlapped', c # b PROVE Consistent(c)'
    <3>1. c \in StoredBlocks \ overlapped
      BY <2>2, <2>9 DEF StoredBlocks
    <3>2. QED BY <1>t, <2>2, <2>7, <2>9, <3>1 DEF Consistent, StoredBlocks
  <2>10. QED BY <2>4, <2>5, <2>6, <2>8, <2>9 DEF ReplaceInv
<1>10. ASSUME NEW w \in Requests, ReplaceClear(w)
       PROVE  ReplaceInv'
  <2> DEFINE b == req[w].block
             q == [req[w] EXCEPT !.pc = "clearing", !.gone = assigned[b]]
  <2>1. /\ b \in Blocks /\ req[w].pc = "clear" /\ q.pc = "clearing" /\ q.gone = assigned[b]
        /\ q.block = b /\ q.holds = req[w].holds
    BY <1>10, <1>i, <1>t DEF ReplaceClear, Fits, Request
  <2>2. /\ \A v \in Requests : req'[v] = IF v = w THEN q ELSE req[v]
        /\ overlapped \subseteq overlapped'
        /\ b \notin overlapped' =>
             \A v \in Open(b) : req[v].holds # "none" /\ req[w].holds # "none"
        /\ UNCHANGED <<blocks, assigned, customers, saved>>
    BY <1>10, <1>t DEF ReplaceClear
  <2> HIDE DEF q
  <2>3. Begun' /\ SavedCustomersAssigned'
    BY <1>i, <1>t, <2>1, <2>2 DEF Begun, SavedCustomersAssigned, StoredBlocks
  <2>4. \A c \in Blocks, v \in Requests : HoldsRow(v, c)' <=> HoldsRow(v, c)
    BY <1>i, <2>1, <2>2 DEF HoldsRow
  <2>5. LockedOnce'
    BY <1>t, <2>4 DEF LockedOnce
  <2>6. b \notin overlapped' => Open(b) = {}
    <3>1. ASSUME NEW v \in Open(b), b \notin overlapped' PROVE v = w
      BY <1>i, <1>t, <2>1, <2>2, <3>1 DEF Open, HoldsRow, LockedOnce
    <3>2. w \notin Open(b)
      BY <2>1 DEF Open
    <3>3. QED BY <3>1, <3>2
  <2>7. /\ Open(b)' = Open(b) \cup {w}
        /\ \A c \in Blocks : c # b => Open(c)' = Open(c) /\ \A v \in Open(c) : req'[v] = req[v]
    BY <2>1, <2>2 DEF Open
  <2>8. ASSUME NEW c \in StoredBlocks' \ overlapped' PROVE Consistent(c)'
    <3>1. c \in StoredBlocks \ overlapped /\ c \in Blocks /\ Consistent(c)
      BY <1>t, <2>2 DEF StoredBlocks
    <3>2. CASE c # b
      BY <2>2, <2>7, <3>1, <3>2 DEF Consistent
    <3>3. CASE c = b
      BY <2>1, <2>2, <2>6, <2>7, <3>1, <3>3 DEF Consistent
    <3>4. QED BY <3>2, <3>3
  <2>9. QED BY <2>3, <2>5, <2>8 DEF ReplaceInv
<1>11. ASSUME NEW w \in Requests, ReplaceCleared(w)
       PROVE  ReplaceInv'
  <2> DEFINE q == [req[w] EXCEPT !.pc = "insert"]
  <2>1. /\ req[w].pc = "clearing" /\ q.pc = "insert" /\ q.gone = req[w].gone
        /\ q.block = req[w].block /\ q.holds = req[w].holds
        /\ \A v \in Requests : req'[v] = IF v = w THEN q ELSE req[v]
        /\ UNCHANGED <<blocks, assigned, customers, saved, overlapped>>
    BY <1>11, <1>t DEF ReplaceCleared, Request
  <2> HIDE DEF q
  <2>3. Begun' /\ SavedCustomersAssigned'
    BY <1>i, <1>t, <2>1 DEF Begun, SavedCustomersAssigned, StoredBlocks
  <2>4. LockedOnce'
    BY <1>i, <1>t, <2>1 DEF LockedOnce, HoldsRow
  <2>6. \A c \in Blocks : Open(c)' = Open(c) /\ \A v \in Open(c) : req'[v].gone = req[v].gone
    BY <2>1 DEF Open
  <2>7. \A c \in StoredBlocks' \ overlapped' : Consistent(c)'
    BY <1>t, <2>1, <2>6 DEF StoredBlocks, Consistent
  <2>8. QED BY <2>3, <2>4, <2>7 DEF ReplaceInv
<1>12. ASSUME NEW w \in Requests, ReplaceInsert(w)
       PROVE  ReplaceInv'
  <2>b. PICK b \in Blocks : b = req[w].block
    BY <1>12, <1>i, <1>t DEF ReplaceInsert, Fits
  <2> DEFINE gone == req[w].gone
             list == req[w].list
  <2>1. /\ b \in Blocks /\ req[w].pc = "insert" /\ w \in Open(b)
        /\ CustomersOf(list) \subseteq customers
    BY <1>12, <2>b DEF ReplaceInsert, Open
  <2>2. /\ \A c \in Blocks : c # b => assigned'[c] = assigned[c] /\ saved'[c] = saved[c]
        /\ assigned'[b] = Replaced(assigned[b], gone, list) /\ saved'[b] = list
        /\ b \notin overlapped' =>
             b \notin overlapped \/ (Open(b) = {w} /\ assigned[b] = gone)
        /\ overlapped \ {b} \subseteq overlapped'
        /\ blocks' = blocks /\ customers' = customers /\ b \in StoredBlocks
    BY <1>12, <1>t, <2>b, <2>1 DEF ReplaceInsert
  <2>3. /\ req'[w] = Idle
        /\ \A v \in Requests \ {w} :
             /\ req'[v].pc = req[v].pc /\ req'[v].block = req[v].block
             /\ req'[v].holds = req[v].holds
             /\ req'[v].gone = IF v \in Open(b) THEN req[v].gone \ gone ELSE req[v].gone
    BY <1>12, <1>t, <2>b DEF ReplaceInsert, Without, Request
  <2> HIDE DEF gone, list
  <2>4. Begun'
    BY <1>i, <1>t, <2>2, <2>3 DEF Begun
  <2>5. LockedOnce'
    <3>1. \A c \in Blocks : ~HoldsRow(w, c)'
      BY <1>i, <2>3 DEF HoldsRow
    <3>2. \A c \in Blocks, v \in Requests \ {w} : HoldsRow(v, c)' <=> HoldsRow(v, c)
      BY <2>3 DEF HoldsRow
    <3>3. QED BY <1>t, <3>1, <3>2 DEF LockedOnce
  <2>6. CustomersOf(saved'[b]) \subseteq CustomersOf(assigned'[b])
    BY <2>2 DEF Replaced, CustomersOf
  <2>7. SavedCustomersAssigned'
    <3>1. ASSUME NEW c \in StoredBlocks'
          PROVE  CustomersOf(saved'[c]) \cap customers' \subseteq CustomersOf(assigned'[c])
      <4>1. CASE c = b
        BY <2>6, <4>1
      <4>2. CASE c # b
        BY <1>t, <2>2, <4>2 DEF SavedCustomersAssigned, StoredBlocks
      <4>3. QED BY <4>1, <4>2
    <3>2. QED BY <3>1 DEF SavedCustomersAssigned, CustomersOf
  <2>10. /\ Open(b)' = Open(b) \ {w}
         /\ \A c \in Blocks : c # b => /\ Open(c)' = Open(c)
                                       /\ \A v \in Open(c) : req'[v].gone = req[v].gone
    BY <1>i, <2>b, <2>1, <2>3 DEF Open
  <2>11. ASSUME b \notin overlapped' PROVE Consistent(b)'
    <3>1. Open(b) = {w} /\ assigned[b] = gone
      BY <1>t, <2>1, <2>2, <2>11 DEF Consistent, gone
    <3>2. assigned'[b] = list
      BY <2>2, <3>1 DEF Replaced, CustomersOf
    <3>3. Open(b)' = {} /\ \A r \in list : r.customer \in customers
      BY <2>1, <2>10, <3>1 DEF CustomersOf
    <3>4. QED BY <2>2, <3>2, <3>3 DEF Consistent
  <2>12. ASSUME NEW c \in StoredBlocks' \ overlapped', c # b PROVE Consistent(c)'
    <3>1. c \in Blocks /\ Consistent(c)
      BY <1>t, <2>2, <2>12 DEF StoredBlocks
    <3>2. /\ Open(c)' = Open(c) /\ \A v \in Open(c) : req'[v].gone = req[v].gone
          /\ assigned'[c] = assigned[c] /\ saved'[c] = saved[c] /\ customers' = customers
      BY <2>2, <2>10, <2>12, <3>1
    <3>3. QED BY <3>1, <3>2 DEF Consistent
  <2>13. QED BY <2>4, <2>5, <2>7, <2>11, <2>12 DEF ReplaceInv
<1>13. ASSUME NEW w \in Requests, DeleteBlockCommit(w)
       PROVE  ReplaceInv'
  <2>b. PICK b \in Blocks : b = req[w].block
    BY <1>13, <1>t DEF DeleteBlockCommit, Fits
  <2>1. req[w].pc = "cascade"
    BY <1>13 DEF DeleteBlockCommit
  <2>2. /\ \A c \in Blocks : c # b => blocks'[c] = blocks[c] /\ assigned'[c] = assigned[c]
        /\ blocks'[b] = "deleted" /\ assigned'[b] = {}
        /\ UNCHANGED <<customers, saved, overlapped>>
    BY <1>13, <1>t, <2>b DEF DeleteBlockCommit
  <2>3. /\ req'[w] = Idle
        /\ \A v \in Requests \ {w} :
             /\ req'[v].pc = req[v].pc /\ req'[v].block = req[v].block
             /\ req'[v].holds = req[v].holds
             /\ req'[v].gone = IF v \in Open(b) THEN req[v].gone \ assigned[b] ELSE req[v].gone
    BY <1>13, <1>t, <2>b DEF DeleteBlockCommit, Without, Request
  <2>4. Begun'
    BY <1>i, <1>t, <2>2, <2>3 DEF Begun, Fits
  <2>5. LockedOnce'
    <3>1. \A c \in Blocks : ~HoldsRow(w, c)'
      BY <1>i, <2>3 DEF HoldsRow
    <3>2. \A c \in Blocks, v \in Requests \ {w} : HoldsRow(v, c)' <=> HoldsRow(v, c)
      BY <2>3 DEF HoldsRow
    <3>3. QED BY <1>t, <3>1, <3>2 DEF LockedOnce
  <2>7. SavedCustomersAssigned'
    BY <1>t, <2>2 DEF SavedCustomersAssigned, StoredBlocks
  <2>9. ASSUME NEW c \in StoredBlocks' \ overlapped' PROVE Consistent(c)'
    <3>1. c # b /\ c \in Blocks /\ Consistent(c)
      BY <1>t, <2>2 DEF StoredBlocks
    <3>2. Open(c)' = Open(c) /\ \A v \in Open(c) : req'[v].gone = req[v].gone
      BY <1>i, <2>1, <2>3, <3>1 DEF Open
    <3>3. QED BY <2>2, <3>1, <3>2 DEF Consistent
  <2>10. QED BY <2>4, <2>5, <2>7, <2>9 DEF ReplaceInv
<1>14. ASSUME NEW w \in Requests, DeleteCustomerCommit(w)
       PROVE  ReplaceInv'
  <2> DEFINE rows == RowsOf(req[w].customer)
  <2>1. /\ req[w].pc = "erase" /\ customers' = customers \ {req[w].customer}
        /\ \A b \in Blocks : assigned'[b] = assigned[b] \ rows
        /\ UNCHANGED <<blocks, saved, overlapped>>
    BY <1>14, <1>t DEF DeleteCustomerCommit
  <2>2. \A b \in Blocks, r \in Assignment : r \in rows <=> r.customer = req[w].customer
    BY DEF RowsOf, Assignment
  <2>3. /\ req'[w] = Idle
        /\ \A v \in Requests \ {w} :
             /\ req'[v].pc = req[v].pc /\ req'[v].block = req[v].block
             /\ req'[v].holds = req[v].holds /\ req'[v].gone = req[v].gone \ rows
    BY <1>14, <1>t DEF DeleteCustomerCommit, Without, Request
  <2> HIDE DEF rows
  <2>4. Begun'
    BY <1>i, <1>t, <2>1, <2>3 DEF Begun
  <2>5. LockedOnce'
    <3>1. \A c \in Blocks : ~HoldsRow(w, c)'
      BY <1>i, <2>3 DEF HoldsRow
    <3>2. \A c \in Blocks, v \in Requests \ {w} : HoldsRow(v, c)' <=> HoldsRow(v, c)
      BY <2>3 DEF HoldsRow
    <3>3. QED BY <1>t, <3>1, <3>2 DEF LockedOnce
  <2>7. SavedCustomersAssigned'
    <3>1. ASSUME NEW b \in StoredBlocks', NEW c \in CustomersOf(saved[b]) \cap customers'
          PROVE  c \in CustomersOf(assigned'[b])
      <4>1. b \in StoredBlocks /\ b \in Blocks /\ c \in customers /\ c # req[w].customer
        BY <2>1, <3>1 DEF StoredBlocks
      <4>2. PICK r \in assigned[b] : r.customer = c
        BY <1>t, <3>1, <4>1 DEF SavedCustomersAssigned, CustomersOf
      <4>3. r \in assigned'[b]
        BY <2>1, <4>1, <4>2 DEF rows, RowsOf
      <4>4. QED BY <4>2, <4>3 DEF CustomersOf
    <3>2. QED BY <2>1, <3>1 DEF SavedCustomersAssigned, CustomersOf
  <2>8. ASSUME NEW b \in StoredBlocks' \ overlapped' PROVE Consistent(b)'
    <3>1. b \in Blocks /\ Consistent(b) /\ saved[b] \subseteq Assignment
      BY <1>t, <2>1 DEF StoredBlocks
    <3>2. Open(b)' = Open(b) /\ \A v \in Open(b) : req'[v].gone = req[v].gone \ rows
      BY <1>i, <2>1, <2>3 DEF Open
    <3>3. assigned'[b] = {r \in saved'[b] : r.customer \in customers'}
      BY <2>1, <2>2, <3>1 DEF Consistent
    <3>4. QED BY <2>1, <3>1, <3>2, <3>3 DEF Consistent
  <2>9. QED BY <2>4, <2>5, <2>7, <2>8 DEF ReplaceInv
<1>15. QED
  BY <1>1, <1>2, <1>3, <1>4, <1>5, <1>6, <1>7, <1>8, <1>8a, <1>8b, <1>9, <1>10, <1>11, <1>12,
     <1>13, <1>14
  DEF Next, Begin, RunOn, Fail

LEMMA BlocksSafe == Spec => []BlocksInv
<1>1. Init => BlocksInv
  BY InitType
  DEF BlocksInv, ReplaceInv, Init, Idle, Begun, LockedOnce, HoldsRow,
      SavedCustomersAssigned, StoredBlocks, Replacing
<1>2. BlocksInv /\ [Next]_vars => BlocksInv'
  BY NextType, NextReplace DEF BlocksInv
<1>3. QED BY <1>1, <1>2, PTL DEF Spec

\* A block is assigned to the customers last saved for it, however replacements of it
\* by updateBlock, deletes of customers and of the block overlap.
THEOREM AssignmentsAlwaysAsSaved == Spec => []AssignmentsAsSaved
<1>1. BlocksInv => AssignmentsAsSaved
  BY DEF BlocksInv, ReplaceInv, Consistent, AssignmentsAsSaved
<1>2. QED BY <1>1, BlocksSafe, PTL

\* However replacements overlap, every customer of the last one to commit is assigned.
THEOREM SavedCustomersAlwaysAssigned == Spec => []SavedCustomersAssigned
<1>1. BlocksInv => SavedCustomersAssigned
  BY DEF BlocksInv, ReplaceInv
<1>2. QED BY <1>1, BlocksSafe, PTL

\* A block's saved list has been validated, or nothing was saved yet.
SavedValid == \A b \in Blocks : saved[b] \in Lists \cup {{}}

LEMMA NextSaved == TypeOK /\ SavedValid /\ [Next]_vars => SavedValid'
<1> SUFFICES ASSUME TypeOK, SavedValid, [Next]_vars PROVE SavedValid'
  OBVIOUS
<1>t. saved \in [Blocks -> SUBSET Assignment] /\ \A w \in Requests : Fits(req[w])
  BY RequestsFit DEF TypeOK
<1>1. CASE UNCHANGED saved
  BY <1>1 DEF SavedValid
<1>2. ASSUME NEW w \in Requests, CreateBlockCommit(w) PROVE SavedValid'
  <2>1. req[w].list \in Lists
    BY <1>2 DEF CreateBlockCommit, TypeOK
  <2>2. QED BY <1>2, <1>t, <2>1 DEF CreateBlockCommit, SavedValid
<1>3. ASSUME NEW w \in Requests, ReplaceInsert(w) PROVE SavedValid'
  <2>1. req[w].list \in Lists
    BY <1>3 DEF ReplaceInsert, Replacing, TypeOK
  <2>2. QED BY <1>3, <1>t, <2>1 DEF ReplaceInsert, SavedValid
<1>4. QED
  BY <1>1, <1>2, <1>3
  DEF vars, Next, Begin, RunOn, Fail, CreateBlockBegin, UpdateBlockBegin,
      UpdateBlockCustomersBegin, DeleteBlockRead, DeleteCustomerLock, CreateMeasurement,
      UpdateMeasurement, DeleteMeasurement, OrderBlock, UnorderBlock, UpdateBlockLock,
      ReplaceClear, ReplaceCleared, DeleteBlockLock, DeleteBlockCommit,
      DeleteCustomerCommit, Abort

\* Only replacements that overlapped unlocked can give a block two default customers.
THEOREM OneDefaultAlways == Spec => []OneDefaultAlone
<1>1. Init => SavedValid
  BY DEF Init, SavedValid
<1>2. AssignmentsAsSaved /\ SavedValid => OneDefaultAlone
  <2> SUFFICES ASSUME AssignmentsAsSaved, SavedValid, NEW b \in StoredBlocks \ overlapped,
                      NEW q \in DefaultsIn(assigned[b]), NEW r \in DefaultsIn(assigned[b])
               PROVE  q = r
    BY DEF OneDefaultAlone
  <2>1. q \in DefaultsIn(saved[b]) /\ r \in DefaultsIn(saved[b])
    BY DEF AssignmentsAsSaved, DefaultsIn
  <2>2. saved[b] \in Lists \cup {{}}
    BY DEF SavedValid, StoredBlocks
  <2>3. QED BY <2>1, <2>2 DEF Lists, DefaultsIn
<1>3. QED BY <1>1, <1>2, NextSaved, TypeCorrect, AssignmentsAlwaysAsSaved, PTL DEF Spec

----------------------------------------------------------------------------
(* What the code does not protect against, and all that it takes to go wrong. *)

\* No two replacements of a block's customers are under way at once.
OneReplacement ==
  \A v, w \in Requests :
    req[v].pc \in Replacing /\ req[w].pc \in Replacing /\ req[v].block = req[w].block => v = w

NoneOverlapped == overlapped = {}

LEMMA NextOverlapped ==
  OneReplacement /\ NoneOverlapped /\ [Next]_vars => NoneOverlapped'
<1> SUFFICES ASSUME OneReplacement, overlapped = {}, [Next]_vars PROVE overlapped' = {}
  BY DEF NoneOverlapped
<1>1. ASSUME NEW w \in Requests, ReplaceClear(w) PROVE overlapped' = {}
  <2>1. ASSUME NEW v \in Open(req[w].block) PROVE FALSE
    <3>1. v \in Requests /\ req[v].pc \in Replacing /\ req[v].block = req[w].block
          /\ req[v].pc # "clear"
      BY DEF Open, Replacing
    <3>2. req[w].pc \in Replacing /\ req[w].pc = "clear"
      BY <1>1 DEF ReplaceClear, Replacing
    <3>3. QED BY <3>1, <3>2 DEF OneReplacement
  <2>2. QED BY <1>1, <2>1 DEF ReplaceClear
<1>2. ASSUME NEW w \in Requests, ReplaceInsert(w) PROVE overlapped' = {}
  BY <1>2 DEF ReplaceInsert
<1>3. QED
  BY <1>1, <1>2
  DEF vars, Next, Begin, RunOn, Fail, CreateBlockBegin, UpdateBlockBegin,
      UpdateBlockCustomersBegin, CreateBlockCommit, DeleteBlockRead, DeleteCustomerLock,
      CreateMeasurement, UpdateMeasurement, DeleteMeasurement, OrderBlock, UnorderBlock,
      UpdateBlockLock, ReplaceCleared, DeleteBlockLock, DeleteBlockCommit,
      DeleteCustomerCommit, Abort

\* A stored block has one default customer at most as long as no two replacements of its
\* customers are under way at once, whatever else is: what validateCustomerAssignments
\* asks of each list is then true of the table.
THEOREM BlocksKeepOneDefault == Spec /\ []OneReplacement => []OneDefault
<1>1. Init => NoneOverlapped
  BY DEF Init, NoneOverlapped
<1>2. NoneOverlapped /\ OneDefaultAlone => OneDefault
  BY DEF NoneOverlapped, OneDefaultAlone, OneDefault, DefaultsIn
<1>3. QED BY <1>1, <1>2, NextOverlapped, OneDefaultAlways, PTL DEF Spec

\* Between deleteBlock's count and its lock of the block's row the count stands.
CountStands == \A w \in Requests : req[w].pc = "remove" => ~InUse(req[w].block)

\* A block whose row deleteBlock has locked is in nobody's use.
UnusedWhenLocked == \A w \in Requests : req[w].pc = "cascade" => ~InUse(req[w].block)

\* Blocks come to be used only by rows that pass the foreign key.
LEMMA NextUse ==
  ASSUME TypeOK, [Next]_vars, NEW b \in Blocks, ~Linkable(b), ~InUse(b)
  PROVE  ~InUse(b)'
<1>t. measurements \in [Measurements -> [row : Rows, customer : Customers \cup {None},
                                         block : Blocks \cup {None}]]
  BY DEF TypeOK
<1>a. ASSUME ordered' = ordered, measurements' = measurements PROVE ~InUse(b)'
  BY <1>a DEF InUse, StoredMeasurements
<1>1. ASSUME NEW w \in Requests, NEW m \in Measurements, NEW c \in Customers,
             NEW d \in Blocks \cup {None}, CreateMeasurement(w, m, c, d)
      PROVE  ~InUse(b)'
  <2>1. d # b
    BY <1>1 DEF CreateMeasurement
  <2>2. QED BY <1>t, <1>1, <2>1 DEF CreateMeasurement, InUse, StoredMeasurements
<1>2. ASSUME NEW w \in Requests, NEW m \in Measurements, NEW c \in Customers,
             NEW d \in Blocks \cup {None}, UpdateMeasurement(w, m, c, d)
      PROVE  ~InUse(b)'
  <2>1. d # b
    BY <1>2 DEF UpdateMeasurement, InUse
  <2>2. QED BY <1>t, <1>2, <2>1 DEF UpdateMeasurement, InUse, StoredMeasurements
<1>3. ASSUME NEW w \in Requests, NEW m \in Measurements, DeleteMeasurement(w, m)
      PROVE  ~InUse(b)'
  BY <1>t, <1>3 DEF DeleteMeasurement, Gone, InUse, StoredMeasurements
<1>4. ASSUME NEW w \in Requests, NEW d \in Blocks, OrderBlock(w, d) \/ UnorderBlock(w, d)
      PROVE  ~InUse(b)'
  BY <1>4 DEF OrderBlock, UnorderBlock, InUse, StoredMeasurements
<1>5. ASSUME NEW w \in Requests, DeleteBlockCommit(w) \/ DeleteCustomerCommit(w)
      PROVE  ~InUse(b)'
  <2>1. \A m \in Measurements : measurements'[m] = measurements[m] \/ measurements'[m].row = "deleted"
    BY <1>t, <1>5 DEF DeleteBlockCommit, DeleteCustomerCommit, Gone
  <2>2. ordered' \subseteq ordered
    BY <1>5 DEF DeleteBlockCommit, DeleteCustomerCommit
  <2>3. QED BY <2>1, <2>2 DEF InUse, StoredMeasurements
<1>6. QED
  BY <1>1, <1>2, <1>3, <1>4, <1>5, <1>a
  DEF vars, Next, Begin, RunOn, Fail, CreateBlockBegin, UpdateBlockBegin,
      UpdateBlockCustomersBegin, CreateBlockCommit, DeleteBlockRead, DeleteCustomerLock,
      UpdateBlockLock, ReplaceClear, ReplaceCleared, ReplaceInsert, DeleteBlockLock, Abort

\* A request comes to hold a block's row for its delete only from its count.
LEMMA NextCascade ==
  ASSUME TypeOK, [Next]_vars, NEW w \in Requests, req'[w].pc = "cascade"
  PROVE  /\ req'[w].block = req[w].block
         /\ \/ req[w].pc = "cascade"
            \/ req[w].pc = "remove" /\ UNCHANGED <<measurements, ordered>>
<1>t. req \in [Requests -> Request] /\ \A v \in Requests : Fits(req[v])
  BY RequestsFit DEF TypeOK, Request
<1> DEFINE Goal == /\ req'[w].block = req[w].block
                   /\ \/ req[w].pc = "cascade"
                      \/ req[w].pc = "remove" /\ UNCHANGED <<measurements, ordered>>
<1>a. ASSUME req'[w].pc = req[w].pc, req'[w].block = req[w].block PROVE Goal
  BY <1>a
<1>b. ASSUME NEW v \in Requests, NEW q, req' = [req EXCEPT ![v] = q], q.pc # "cascade"
      PROVE  Goal
  BY <1>t, <1>b
<1>1. CASE UNCHANGED req
  BY <1>1
<1>2. ASSUME NEW v \in Requests, DeleteBlockLock(v) PROVE Goal
  BY <1>t, <1>2 DEF DeleteBlockLock, Request
<1>3. ASSUME NEW v \in Requests,
             ReplaceInsert(v) \/ DeleteBlockCommit(v) \/ DeleteCustomerCommit(v)
      PROVE  Goal
  <2>1. req'[w] = Idle \/ (req'[w].pc = req[w].pc /\ req'[w].block = req[w].block)
    BY <1>t, <1>3
    DEF ReplaceInsert, DeleteBlockCommit, DeleteCustomerCommit, Without, Request
  <2>2. QED BY <2>1 DEF Idle
<1>4. ASSUME NEW v \in Requests, NEW b \in Blocks, NEW list \in SUBSET Assignment,
             \/ CreateBlockBegin(v, b, list) \/ UpdateBlockBegin(v, b, list)
             \/ UpdateBlockCustomersBegin(v, b, list)
      PROVE  Goal
  <2>1. PICK pc \in {"create", "lock", "clear"} :
          req' = [req EXCEPT ![v] = [Idle EXCEPT !.pc = pc, !.block = b, !.list = list]]
    BY <1>4 DEF CreateBlockBegin, UpdateBlockBegin, UpdateBlockCustomersBegin
  <2>2. [Idle EXCEPT !.pc = pc, !.block = b, !.list = list].pc = pc
    BY DEF Idle
  <2>3. QED BY <1>b, <2>1, <2>2
<1>4a. ASSUME NEW v \in Requests, NEW b \in Blocks, DeleteBlockRead(v, b)
       PROVE  Goal
  BY <1>4a, <1>b DEF DeleteBlockRead, Idle
<1>4b. ASSUME NEW v \in Requests, NEW c \in Customers, DeleteCustomerLock(v, c)
       PROVE  Goal
  BY <1>4b, <1>b DEF DeleteCustomerLock, Idle
<1>5. ASSUME NEW v \in Requests,
             \/ CreateBlockCommit(v) \/ ReplaceClear(v) \/ ReplaceCleared(v) \/ Abort(v)
             \/ \E lock \in {"row", "key"} : UpdateBlockLock(v, lock)
      PROVE  Goal
  BY <1>t, <1>5, <1>b
  DEF CreateBlockCommit, ReplaceClear, ReplaceCleared, Abort, UpdateBlockLock, Idle, Request
<1>6. QED
  BY <1>1, <1>2, <1>3, <1>4, <1>4a, <1>4b, <1>5
  DEF vars, Next, Begin, RunOn, Fail, CreateMeasurement, UpdateMeasurement,
      DeleteMeasurement, OrderBlock, UnorderBlock

LEMMA NextUnused ==
  TypeOK /\ CountStands /\ UnusedWhenLocked /\ [Next]_vars => UnusedWhenLocked'
<1> SUFFICES ASSUME TypeOK, CountStands, UnusedWhenLocked, [Next]_vars,
                    NEW w \in Requests, req'[w].pc = "cascade", NEW b, b = req'[w].block
             PROVE  ~InUse(b)'
  BY DEF UnusedWhenLocked, InUse, StoredMeasurements
<1>1. b = req[w].block /\ b \in Blocks /\ ~InUse(b)
  BY NextCascade DEF TypeOK, CountStands, UnusedWhenLocked
<1>2. CASE req[w].pc = "cascade"
  <2>1. ~Linkable(b)
    BY <1>1, <1>2 DEF Linkable, HoldsKey, HoldsRow
  <2>2. QED BY <1>1, <2>1, NextUse
<1>3. CASE UNCHANGED <<measurements, ordered>>
  BY <1>1, <1>3 DEF InUse, StoredMeasurements
<1>4. QED BY <1>2, <1>3, NextCascade

\* Whatever requests are in service, no measurement goes because its block does as long
\* as what deleteBlock counted still stands when it locks the block's row: from then on
\* the foreign key keeps every other row away from the block.
THEOREM MeasurementsStayWhileCountStands == Spec /\ []CountStands => MeasurementsOutliveBlocks
<1>1. Init => UnusedWhenLocked
  BY DEF Init, UnusedWhenLocked, Idle
<1>2. TypeOK /\ UnusedWhenLocked /\ [Next]_vars =>
        [\A m \in StoredMeasurements :
           measurements[m].block # None /\ measurements'[m].row = "deleted" =>
             blocks'[measurements[m].block] = blocks[measurements[m].block]]_vars
  <2> SUFFICES ASSUME TypeOK, UnusedWhenLocked, [Next]_vars, NEW m \in StoredMeasurements,
                      measurements[m].block # None, measurements'[m].row = "deleted"
               PROVE  blocks'[measurements[m].block] = blocks[measurements[m].block]
    OBVIOUS
  <2>1. CASE blocks' = blocks
    BY <2>1
  <2>2. m \in Measurements /\ measurements'[m] # measurements[m]
    BY DEF StoredMeasurements
  <2>3. ASSUME NEW w \in Requests, DeleteBlockCommit(w)
        PROVE  blocks'[measurements[m].block] = blocks[measurements[m].block]
    <3>1. measurements[m].block = req[w].block
      BY <2>2, <2>3 DEF DeleteBlockCommit
    <3>2. QED BY <2>3, <3>1 DEF DeleteBlockCommit, UnusedWhenLocked, InUse
  <2>4. ASSUME NEW w \in Requests, CreateBlockCommit(w) PROVE FALSE
    BY <2>2, <2>4 DEF CreateBlockCommit
  <2>5. QED
    BY <2>1, <2>3, <2>4
    DEF vars, Next, Begin, RunOn, Fail, CreateBlockBegin, UpdateBlockBegin,
        UpdateBlockCustomersBegin, DeleteBlockRead, DeleteCustomerLock, CreateMeasurement,
        UpdateMeasurement, DeleteMeasurement, OrderBlock, UnorderBlock, UpdateBlockLock,
        ReplaceClear, ReplaceCleared, ReplaceInsert, DeleteBlockLock, DeleteCustomerCommit,
        Abort
<1>3. QED BY <1>1, <1>2, NextUnused, TypeCorrect, PTL DEF Spec, MeasurementsOutliveBlocks

\* With one request at a time the count stands.
OneRequest == \A v, w \in Requests : v = w

LEMMA NextCount ==
  ASSUME OneRequest, TypeOK, CountStands, [Next]_vars PROVE CountStands'
<1> SUFFICES ASSUME NEW w \in Requests, req'[w].pc = "remove", NEW b, b = req'[w].block
             PROVE  ~InUse(b)'
  BY DEF CountStands, InUse, StoredMeasurements
<1>t. req \in [Requests -> Request]
  BY DEF TypeOK, Request
<1>1. CASE UNCHANGED vars
  BY <1>1 DEF vars, CountStands, InUse, StoredMeasurements
<1>2. ASSUME NEW c \in Blocks, DeleteBlockRead(w, c) PROVE ~InUse(b)'
  <2>1. req'[w] = [Idle EXCEPT !.pc = "remove", !.block = c]
    BY <1>t, <1>2 DEF DeleteBlockRead
  <2>2. b = c
    BY <2>1 DEF Idle
  <2>3. QED BY <1>2, <2>2 DEF DeleteBlockRead, InUse, StoredMeasurements
\* Any other step of w leaves it elsewhere.
<1>a. ASSUME NEW q, req' = [req EXCEPT ![w] = q], q.pc # "remove" PROVE FALSE
  BY <1>t, <1>a
<1>3. ASSUME NEW c \in Blocks, NEW list \in SUBSET Assignment,
             \/ CreateBlockBegin(w, c, list) \/ UpdateBlockBegin(w, c, list)
             \/ UpdateBlockCustomersBegin(w, c, list)
      PROVE  FALSE
  <2>1. PICK pc \in {"create", "lock", "clear"} :
          req' = [req EXCEPT ![w] = [Idle EXCEPT !.pc = pc, !.block = c, !.list = list]]
    BY <1>3 DEF CreateBlockBegin, UpdateBlockBegin, UpdateBlockCustomersBegin
  <2>2. [Idle EXCEPT !.pc = pc, !.block = c, !.list = list].pc = pc
    BY DEF Idle
  <2>3. QED BY <1>a, <2>1, <2>2
<1>4. ASSUME NEW c \in Customers, DeleteCustomerLock(w, c) PROVE FALSE
  BY <1>4, <1>a DEF DeleteCustomerLock, Idle
<1>5. ASSUME req[w].pc = "idle", UNCHANGED req PROVE FALSE
  BY <1>5
<1>6. ASSUME CreateBlockCommit(w) \/ Abort(w) PROVE FALSE
  <2>1. Idle.pc # "remove"
    BY DEF Idle
  <2>2. QED BY <1>6, <1>a, <2>1 DEF CreateBlockCommit, Abort
<1>r. req[w] \in Request
  BY <1>t
<1>6a. ASSUME ReplaceClear(w) PROVE FALSE
  <2>1. [req[w] EXCEPT !.pc = "clearing", !.gone = assigned[req[w].block]].pc = "clearing"
    BY <1>r DEF Request
  <2>2. QED BY <1>a, <1>6a, <2>1 DEF ReplaceClear
<1>6b. ASSUME ReplaceCleared(w) \/ DeleteBlockLock(w) PROVE FALSE
  <2>1. /\ [req[w] EXCEPT !.pc = "insert"].pc = "insert"
        /\ [req[w] EXCEPT !.pc = "cascade"].pc = "cascade"
    BY <1>r DEF Request
  <2>2. QED BY <1>a, <1>6b, <2>1 DEF ReplaceCleared, DeleteBlockLock
<1>6c. ASSUME NEW lock \in {"row", "key"}, UpdateBlockLock(w, lock) PROVE FALSE
  <2>1. [req[w] EXCEPT !.pc = "clear", !.holds = lock].pc = "clear"
    BY <1>r DEF Request
  <2>2. QED BY <1>a, <1>6c, <2>1 DEF UpdateBlockLock
<1>7. ASSUME ReplaceInsert(w) \/ DeleteBlockCommit(w) \/ DeleteCustomerCommit(w) PROVE FALSE
  <2>1. req'[w] = Idle
    BY <1>7 DEF ReplaceInsert, DeleteBlockCommit, DeleteCustomerCommit
  <2>2. QED BY <2>1 DEF Idle
<1>8. CASE Begin(w)
  BY <1>2, <1>3, <1>4, <1>5, <1>8
  DEF Begin, CreateMeasurement, UpdateMeasurement, DeleteMeasurement, OrderBlock, UnorderBlock
<1>9. CASE RunOn(w) \/ Abort(w)
  BY <1>6, <1>6a, <1>6b, <1>6c, <1>7, <1>9 DEF RunOn, Fail
<1>10. QED BY <1>1, <1>8, <1>9 DEF Next, OneRequest

\* No measurement goes because its block does when one request is served at a time, which
\* is what deleteBlock's check promises.
THEOREM MeasurementsStayAlone == OneRequest => (Spec => MeasurementsOutliveBlocks)
<1> SUFFICES ASSUME OneRequest PROVE Spec => MeasurementsOutliveBlocks
  OBVIOUS
<1>1. Init => CountStands
  BY DEF Init, CountStands, Idle
<1>2. TypeOK /\ CountStands /\ [Next]_vars => CountStands'
  BY NextCount
<1>3. QED BY <1>1, <1>2, TypeCorrect, MeasurementsStayWhileCountStands, PTL DEF Spec
=============================================================================
