-------------------------- MODULE AttendanceProofs --------------------------
(***************************************************************************)
(* What holds of Attendance for any punches, employees and overlapping     *)
(* runs of processAttendanceDate.                                          *)
(***************************************************************************)
EXTENDS Attendance, FiniteSetTheorems, TLAPS

USE AttendanceAssumption

Run == [pc : {"idle", "upsert", "mark"}, employee : Employees \cup {None}, found : SUBSET Line]

\* What TypeOK says of where one run stands.
RunOK(r, table) ==
  /\ r \in Run
  /\ r.pc = "mark" => r.employee \in Employees
  /\ \A l \in r.found : table[l.punch].employee # None

LogsOK(table) ==
  /\ table \in [Punches -> Log]
  /\ \A p \in Punches : table[p].isProcessed => table[p].employee # None

LEMMA IdleIsRun == Idle \in Run /\ Idle.pc = "idle" /\ Idle.found = {}
  BY DEF Idle, Run

LEMMA RecordOfType == \A punches \in SUBSET Punches : RecordOf(punches) \in Records
  BY DEF Records

LEMMA FoundArePunches == \A w \in Requests, e \in Employees : FoundOf(w, e) \subseteq Punches
  BY DEF FoundOf

\* TypeOK, table by table and run by run.
LEMMA TypeParts ==
  TypeOK <=> /\ LogsOK(logs)
             /\ records \in [Employees -> Records]
             /\ req \in [Requests -> Run] /\ \A w \in Requests : RunOK(req[w], logs)
             /\ clean \in SUBSET Requests /\ disturbed \in SUBSET Employees
  BY DEF TypeOK, LogsOK, RunOK, Run

LEMMA TypePartsNext ==
  TypeOK' <=> /\ LogsOK(logs')
              /\ records' \in [Employees -> Records]
              /\ req' \in [Requests -> Run] /\ \A w \in Requests : RunOK(req'[w], logs')
              /\ clean' \in SUBSET Requests /\ disturbed' \in SUBSET Employees
  BY DEF TypeOK, LogsOK, RunOK, Run

LEMMA InitType == Init => TypeOK
<1>1. NoRecord \in Records
  BY RecordOfType DEF RecordOf
<1>2. QED BY <1>1, IdleIsRun DEF Init, TypeOK, Run, UnbornLog, Log

\* A punch that has an employee keeps one, so that other runs stand as well as before.
LEMMA OthersStand ==
  ASSUME NEW r, NEW old, NEW new, RunOK(r, old),
         \A p \in Punches : old[p].employee # None => new[p].employee # None
  PROVE  RunOK(r, new)
<1>1. \A l \in r.found : l.punch \in Punches
  BY DEF RunOK, Run, Line
<1>2. QED BY <1>1 DEF RunOK

LEMMA NextType == TypeOK /\ [Next]_vars => TypeOK'
<1> SUFFICES ASSUME TypeOK, [Next]_vars PROVE TypeOK'
  OBVIOUS
<1>t. /\ LogsOK(logs) /\ records \in [Employees -> Records]
      /\ req \in [Requests -> Run] /\ \A w \in Requests : RunOK(req[w], logs)
      /\ clean \in SUBSET Requests /\ disturbed \in SUBSET Employees
  BY TypeParts
<1>u. logs \in [Punches -> Log] /\ \A p \in Punches : logs[p].isProcessed => logs[p].employee # None
  BY <1>t DEF LogsOK
<1>1. CASE UNCHANGED vars
  BY <1>1 DEF vars, TypeOK
<1>2. ASSUME NEW w \in Requests, NEW p \in Punches, NEW x \in Employees \cup {None},
             ImportLog(w, p, x)
      PROVE  TypeOK'
  <2>1. logs[p] \in Log
    BY <1>u
  <2>2. Attributed(logs[p].employee, x) \in Employees \cup {None}
    BY <2>1 DEF Attributed, Log
  <2>3. logs' \in [Punches -> Log]
    BY <1>2, <1>u, <2>1, <2>2 DEF ImportLog, Log
  <2>4. \A q \in Punches : /\ logs'[q].isProcessed => logs'[q].employee # None
                           /\ logs[q].employee # None => logs'[q].employee # None
    BY <1>2, <1>u DEF ImportLog, Attributed
  <2>5. clean' \in SUBSET Requests /\ disturbed' \in SUBSET Employees /\ UNCHANGED <<records, req>>
    BY <1>2, <1>t, <2>1 DEF ImportLog, Log
  <2>6. \A v \in Requests : RunOK(req'[v], logs')
    BY <1>t, <2>4, <2>5, OthersStand
  <2>7. QED BY <1>t, <2>3, <2>4, <2>5, <2>6, TypePartsNext DEF LogsOK
<1>3. ASSUME NEW w \in Requests, NEW e \in Employees, UpsertManualRecord(w, e)
      PROVE  TypeOK'
  <2>1. ByHand \in Records
    BY DEF Records
  <2>2. QED BY <1>3, <1>t, <2>1, TypePartsNext DEF UpsertManualRecord
<1>4. ASSUME NEW w \in Requests, ProcessRead(w)
      PROVE  TypeOK'
  <2> DEFINE found == {[punch |-> p, employee |-> logs[p].employee] : p \in ReadAttributed}
             q == [Idle EXCEPT !.pc = "upsert", !.found = found]
  <2>1. \A l \in found : l \in Line /\ logs[l.punch].employee # None
    BY <1>u DEF ReadAttributed, Line, Log
  <2>2. found \in SUBSET Line
    BY <2>1
  <2>3. q \in Run /\ q.pc = "upsert" /\ q.found = found
    BY <2>2, IdleIsRun DEF Run, Idle
  <2>4. RunOK(q, logs)
    BY <2>1, <2>3 DEF RunOK
  <2>5. /\ req' = [req EXCEPT ![w] = q] /\ clean' \in SUBSET Requests
        /\ UNCHANGED <<logs, records, disturbed>>
    BY <1>4 DEF ProcessRead
  <2> HIDE DEF q
  <2>6. QED BY <1>t, <2>3, <2>4, <2>5, TypePartsNext
<1>5. ASSUME NEW w \in Requests, NEW e \in Employees, ProcessUpsert(w, e)
      PROVE  TypeOK'
  <2> DEFINE q == [req[w] EXCEPT !.pc = "mark", !.employee = e]
  <2>1. q \in Run /\ RunOK(q, logs)
    BY <1>t DEF Run, RunOK
  <2>2. records' \in [Employees -> Records]
    BY <1>5, <1>t, FoundArePunches, RecordOfType DEF ProcessUpsert
  <2>3. /\ req' = [req EXCEPT ![w] = q] /\ disturbed' \in SUBSET Employees
        /\ UNCHANGED <<logs, clean>>
    BY <1>5, <1>t DEF ProcessUpsert
  <2> HIDE DEF q
  <2>4. QED BY <1>t, <2>1, <2>2, <2>3, TypePartsNext
<1>6. ASSUME NEW w \in Requests, ProcessMark(w)
      PROVE  TypeOK'
  <2> DEFINE e == req[w].employee
             rest == {l \in req[w].found : l.employee # e}
             q == IF rest = {} THEN Idle ELSE [Idle EXCEPT !.pc = "upsert", !.found = rest]
  <2>1. rest \in SUBSET Line
    BY <1>t DEF Run
  <2>2. q \in Run /\ q.pc # "mark" /\ q.found \subseteq req[w].found
    BY <2>1, IdleIsRun DEF Run, Idle
  <2>3. /\ req' = [req EXCEPT ![w] = q] /\ clean' \in SUBSET Requests
        /\ UNCHANGED <<records, disturbed>>
        /\ logs' = [p \in Punches |-> IF p \in Marked(w, e)
                                      THEN [logs[p] EXCEPT !.isProcessed = TRUE] ELSE logs[p]]
    BY <1>6, <1>t DEF ProcessMark
  <2>4. \A p \in Marked(w, e) : logs[p].employee # None
    BY <1>t DEF Marked, FoundOf, RunOK
  <2>5. logs' \in [Punches -> Log]
    BY <1>u, <2>3 DEF Log
  <2>6. \A p \in Punches : logs'[p].employee = logs[p].employee
    BY <1>u, <2>3 DEF Log
  <2>7. \A p \in Punches : logs'[p].isProcessed => logs'[p].employee # None
    BY <1>u, <2>3, <2>4, <2>6
  <2> HIDE DEF q
  <2>8. RunOK(q, logs)
    BY <1>t, <2>2 DEF RunOK
  <2>9. \A v \in Requests : RunOK(req'[v], logs)
    BY <1>t, <2>3, <2>8
  <2>10. \A v \in Requests : RunOK(req'[v], logs')
    BY <2>6, <2>9, OthersStand
  <2>11. QED BY <1>t, <2>2, <2>3, <2>5, <2>7, <2>10, TypePartsNext DEF LogsOK
<1>7. ASSUME NEW w \in Requests, Abort(w)
      PROVE  TypeOK'
  <2>1. RunOK(Idle, logs)
    BY IdleIsRun DEF RunOK
  <2>2. /\ req' = [req EXCEPT ![w] = Idle] /\ clean' \in SUBSET Requests
        /\ UNCHANGED <<logs, records, disturbed>>
    BY <1>7, <1>t DEF Abort
  <2>3. QED BY <1>t, <2>1, <2>2, IdleIsRun, TypePartsNext
<1>8. QED BY <1>1, <1>2, <1>3, <1>4, <1>5, <1>6, <1>7 DEF Next, Serve

\* Punches, records and runs are always what the code can make of them; in particular a
\* punch that is processed, or that a run holds, is never without an employee
\* (attendance.service.ts importLogs, processAttendanceDate).
THEOREM TypeCorrect == Spec => []TypeOK
<1>1. QED BY InitType, NextType, PTL DEF Spec

----------------------------------------------------------------------------
(***************************************************************************)
(* The record of an employee nobody disturbed is supported because of what *)
(* the runs under way know.  A run that nothing interferes with runs alone *)
(* and holds every processed punch of the employees it still has to do; of *)
(* any run, what it holds is still so unless the employees concerned are   *)
(* disturbed, and no two of them mark the punches of the same undisturbed  *)
(* employee.                                                               *)
(***************************************************************************)
CleanAlone == clean \subseteq Running /\ \A v \in clean, w \in Running : v = w

CleanFresh == \A w \in clean : \A l \in req[w].found : logs[l.punch].employee = l.employee

CleanComplete ==
  \A w \in clean, e \in Employees : FoundOf(w, e) # {} => ProcessedOf(e) \subseteq FoundOf(w, e)

FoundFresh ==
  \A w \in Running : \A l \in req[w].found :
    \/ logs[l.punch].employee = l.employee
    \/ {l.employee, logs[l.punch].employee} \subseteq disturbed

AtMark(w, e) == req[w].pc = "mark" /\ req[w].employee = e

MarkSupported ==
  \A w \in Requests, e \in Employees \ disturbed :
    AtMark(w, e) => ProcessedOf(e) \subseteq FoundOf(w, e) /\ records[e] = RecordOf(FoundOf(w, e))

MarkAlone ==
  \A v, w \in Requests, e \in Employees \ disturbed : AtMark(v, e) /\ AtMark(w, e) => v = w

SheetInv ==
  /\ TypeOK /\ CleanAlone /\ CleanFresh /\ CleanComplete
  /\ FoundFresh /\ MarkSupported /\ MarkAlone /\ RecordsSupported

LEMMA InitSheet == Init => SheetInv
<1> SUFFICES ASSUME Init PROVE SheetInv
  OBVIOUS
<1>1. TypeOK
  BY InitType
<1>2. \A w \in Requests : req[w] = Idle
  BY DEF Init
<1>3. \A e \in Employees : ProcessedOf(e) = {} /\ records[e] = RecordOf({})
  <2>1. RecordOf({}) = NoRecord
    BY DEF RecordOf
  <2>2. \A p \in Punches : ~logs[p].isProcessed
    BY DEF Init, UnbornLog
  <2>3. QED BY <2>1, <2>2 DEF Init, ProcessedOf, PunchesOf
<1>4. RecordsSupported
  BY <1>3 DEF RecordsSupported
<1>5. Running = {} /\ clean = {}
  BY <1>2, IdleIsRun DEF Running, Init
<1>6. \A w \in Requests, e \in Employees : ~AtMark(w, e)
  BY <1>2, IdleIsRun DEF AtMark
<1>7. QED BY <1>1, <1>4, <1>5, <1>6
          DEF SheetInv, CleanAlone, CleanFresh, CleanComplete, FoundFresh, MarkSupported, MarkAlone

\* What runs hold are punches that have an employee.
LEMMA HeldPunches ==
  ASSUME TypeOK, NEW w \in Requests, NEW l \in req[w].found
  PROVE  /\ l.punch \in Punches /\ l.employee \in Employees \cup {None}
         /\ logs[l.punch].employee \in Employees
         /\ [punch |-> l.punch, employee |-> l.employee] = l
<1>1. l \in Line
  BY DEF TypeOK
<1>2. QED BY <1>1 DEF TypeOK, Line, Log

\* An import changes what is attributed to employees that are disturbed by it, and adds
\* punches that are not processed to others.
LEMMA ImportSheet ==
  ASSUME SheetInv, NEW w \in Requests, NEW p \in Punches, NEW x \in Employees \cup {None},
         ImportLog(w, p, x), TypeOK'
  PROVE  SheetInv'
<1> DEFINE old == logs[p].employee
           moves == old # None /\ x \notin {None, old}
<1>1. /\ logs \in [Punches -> Log] /\ old \in Employees \cup {None}
      /\ clean \subseteq Requests /\ UNCHANGED <<records, req>>
  BY DEF SheetInv, TypeOK, Log, ImportLog
<1>2. \A q \in Punches :
        /\ logs'[q].isProcessed = logs[q].isProcessed
        /\ logs'[q].employee = IF q = p THEN Attributed(old, x) ELSE logs[q].employee
  BY <1>1 DEF ImportLog, Attributed
<1>3. /\ moves => disturbed' = disturbed \cup {old, x} /\ clean' = {}
      /\ ~moves => UNCHANGED <<disturbed, clean>>
  BY DEF ImportLog
<1>4. disturbed \subseteq disturbed' /\ clean' \subseteq clean
  BY <1>3
<1>5. old = None => ~logs[p].isProcessed
  BY DEF SheetInv, TypeOK
<1>6. \A e \in Employees : ~moves \/ e \notin disturbed' =>
        ProcessedOf(e)' = ProcessedOf(e) /\ PunchesOf(e) \subseteq PunchesOf(e)'
  <2> SUFFICES ASSUME NEW e \in Employees, ~moves \/ e \notin disturbed'
               PROVE  ProcessedOf(e)' = ProcessedOf(e) /\ PunchesOf(e) \subseteq PunchesOf(e)'
    OBVIOUS
  <2>1. \A q \in Punches : logs[q].employee = e => logs'[q].employee = e
    BY <1>2, <1>3 DEF Attributed
  <2>2. \A q \in Punches : logs'[q].employee = e /\ logs'[q].isProcessed => logs[q].employee = e
    BY <1>2, <1>3, <1>5 DEF Attributed
  <2>3. QED BY <1>2, <2>1, <2>2 DEF ProcessedOf, PunchesOf
<1>7. \A v \in Requests, e \in Employees : FoundOf(v, e)' = FoundOf(v, e)
  BY <1>1 DEF FoundOf
<1>8. \A v \in Requests, e \in Employees : AtMark(v, e)' = AtMark(v, e)
  BY <1>1 DEF AtMark
<1>9. Running' = Running /\ Running \subseteq Requests
  BY <1>1 DEF Running
<1>10. CleanAlone'
  BY <1>4, <1>9 DEF SheetInv, CleanAlone
<1>11. ASSUME NEW v \in Requests, NEW l \in req[v].found
       PROVE  /\ ~moves => logs'[l.punch].employee = logs[l.punch].employee
              /\ l.punch # p => logs'[l.punch].employee = logs[l.punch].employee
              /\ l.punch = p /\ moves => logs'[l.punch].employee = x
  <2>1. l.punch \in Punches /\ logs[l.punch].employee # None
    BY HeldPunches DEF SheetInv
  <2>2. QED BY <1>2, <2>1 DEF Attributed
<1>12. CleanFresh'
  BY <1>1, <1>3, <1>11 DEF SheetInv, CleanFresh
<1>13. CleanComplete'
  BY <1>1, <1>3, <1>6, <1>7 DEF SheetInv, CleanComplete
<1>14. FoundFresh'
  <2> SUFFICES ASSUME NEW v \in Running, NEW l \in req[v].found
               PROVE  \/ logs'[l.punch].employee = l.employee
                      \/ {l.employee, logs'[l.punch].employee} \subseteq disturbed'
    BY <1>1, <1>9 DEF FoundFresh
  <2>1. \/ logs[l.punch].employee = l.employee
        \/ {l.employee, logs[l.punch].employee} \subseteq disturbed
    BY DEF SheetInv, FoundFresh
  <2>2. QED BY <1>3, <1>9, <1>11, <2>1
<1>15. MarkSupported'
  BY <1>1, <1>4, <1>6, <1>7, <1>8 DEF SheetInv, MarkSupported
<1>16. MarkAlone'
  BY <1>4, <1>8 DEF SheetInv, MarkAlone
<1>17. RecordsSupported'
  <2> SUFFICES ASSUME NEW e \in Employees, e \notin disturbed'
               PROVE  \E punches \in SUBSET PunchesOf(e)' :
                        ProcessedOf(e)' \subseteq punches /\ records'[e] = RecordOf(punches)
    BY DEF RecordsSupported
  <2>1. PICK punches \in SUBSET PunchesOf(e) :
               ProcessedOf(e) \subseteq punches /\ records[e] = RecordOf(punches)
    BY <1>4 DEF SheetInv, RecordsSupported
  <2>2. QED BY <1>1, <1>6, <2>1
<1>18. QED BY <1>10, <1>12, <1>13, <1>14, <1>15, <1>16, <1>17 DEF SheetInv

\* A correction by hand disturbs the employee it is about and touches nothing else.
LEMMA ManualSheet ==
  ASSUME SheetInv, NEW w \in Requests, NEW e \in Employees, UpsertManualRecord(w, e), TypeOK'
  PROVE  SheetInv'
<1>1. /\ UNCHANGED <<logs, req, clean>> /\ disturbed' = disturbed \cup {e}
      /\ \A d \in Employees : d # e => records'[d] = records[d]
  BY DEF SheetInv, TypeOK, UpsertManualRecord
<1>2. /\ \A v \in Requests, d \in Employees : FoundOf(v, d)' = FoundOf(v, d) /\ AtMark(v, d)' = AtMark(v, d)
      /\ \A d \in Employees : ProcessedOf(d)' = ProcessedOf(d) /\ PunchesOf(d)' = PunchesOf(d)
      /\ Running' = Running
  BY <1>1 DEF FoundOf, AtMark, ProcessedOf, PunchesOf, Running
<1>3. CleanAlone' /\ CleanFresh' /\ CleanComplete'
  BY <1>1, <1>2 DEF SheetInv, CleanAlone, CleanFresh, CleanComplete, TypeOK
<1>4. FoundFresh' /\ MarkAlone'
  BY <1>1, <1>2 DEF SheetInv, FoundFresh, MarkAlone
<1>5. MarkSupported'
  BY <1>1, <1>2 DEF SheetInv, MarkSupported
<1>6. RecordsSupported'
  BY <1>1, <1>2 DEF SheetInv, RecordsSupported
<1>7. QED BY <1>3, <1>4, <1>5, <1>6 DEF SheetInv

\* A run that starts alone holds all the punches of every employee it found.
LEMMA ReadSheet ==
  ASSUME SheetInv, NEW w \in Requests, ProcessRead(w), TypeOK'
  PROVE  SheetInv'
<1> DEFINE found == {[punch |-> p, employee |-> logs[p].employee] : p \in ReadAttributed}
<1>1. /\ UNCHANGED <<logs, records, disturbed>> /\ req[w].pc = "idle"
      /\ req'[w].pc = "upsert" /\ req'[w].found = found
      /\ \A v \in Requests : v # w => req'[v] = req[v]
      /\ clean' = IF Running = {} THEN {w} ELSE {}
  BY DEF SheetInv, TypeOK, ProcessRead, Idle
<1>2. \A l \in found : logs[l.punch].employee = l.employee
  OBVIOUS
<1>3. \A e \in Employees : ProcessedOf(e)' = ProcessedOf(e) /\ PunchesOf(e)' = PunchesOf(e)
  BY <1>1 DEF ProcessedOf, PunchesOf
<1>4. /\ Running' = Running \cup {w}
      /\ Running = {} => clean' = {w}
      /\ Running # {} => clean' = {}
  BY <1>1 DEF Running
<1>5. \A v \in Requests, e \in Employees :
        AtMark(v, e)' => v # w /\ AtMark(v, e) /\ FoundOf(v, e)' = FoundOf(v, e)
  BY <1>1 DEF AtMark, FoundOf
<1>6. \A e \in Employees : ProcessedOf(e) \subseteq FoundOf(w, e)'
  <2> SUFFICES ASSUME NEW e \in Employees, NEW p \in ProcessedOf(e)
               PROVE  [punch |-> p, employee |-> e] \in found
    BY <1>1 DEF FoundOf, ProcessedOf, PunchesOf
  <2>1. p \in Punches /\ logs[p].employee = e /\ e # None
    BY DEF ProcessedOf, PunchesOf
  <2>2. p \in ReadAttributed
    BY <2>1 DEF ReadAttributed
  <2>3. QED BY <2>1, <2>2
<1>7. CleanAlone'
  BY <1>4 DEF CleanAlone
<1>8. CleanFresh'
  BY <1>1, <1>2, <1>4 DEF CleanFresh
<1>9. CleanComplete'
  BY <1>3, <1>4, <1>6 DEF CleanComplete
<1>10. FoundFresh'
  <2> SUFFICES ASSUME NEW v \in Running', NEW l \in req'[v].found
               PROVE  \/ logs[l.punch].employee = l.employee
                      \/ {l.employee, logs[l.punch].employee} \subseteq disturbed
    BY <1>1 DEF FoundFresh
  <2>1. CASE v = w
    BY <1>1, <1>2, <2>1
  <2>2. CASE v # w
    BY <1>1, <1>4, <2>2 DEF SheetInv, FoundFresh, Running
  <2>3. QED BY <2>1, <2>2
<1>11. MarkSupported' /\ MarkAlone'
  BY <1>1, <1>3, <1>5 DEF SheetInv, MarkSupported, MarkAlone
<1>12. RecordsSupported'
  BY <1>1, <1>3 DEF SheetInv, RecordsSupported
<1>13. QED BY <1>7, <1>8, <1>9, <1>10, <1>11, <1>12 DEF SheetInv

\* A clean run writes the record of all it holds, which is all there is to account for;
\* any other run disturbs the employee.
LEMMA UpsertSheet ==
  ASSUME SheetInv, NEW w \in Requests, NEW e \in Employees, ProcessUpsert(w, e), TypeOK'
  PROVE  SheetInv'
<1>1. /\ UNCHANGED <<logs, clean>> /\ w \in Running /\ FoundOf(w, e) # {}
      /\ req'[w].pc = "mark" /\ req'[w].employee = e /\ req'[w].found = req[w].found
      /\ \A v \in Requests : v # w => req'[v] = req[v]
      /\ records'[e] = RecordOf(FoundOf(w, e))
      /\ \A d \in Employees : d # e => records'[d] = records[d]
      /\ disturbed' = IF w \in clean THEN disturbed \ {e} ELSE disturbed \cup {e}
  BY DEF SheetInv, TypeOK, ProcessUpsert, NextEmployees, Running
<1>2. /\ \A v \in Requests, d \in Employees :
           /\ FoundOf(v, d)' = FoundOf(v, d)
           /\ AtMark(v, d)' => AtMark(v, d) \/ (v = w /\ d = e)
      /\ \A d \in Employees : ProcessedOf(d)' = ProcessedOf(d) /\ PunchesOf(d)' = PunchesOf(d)
      /\ Running' = Running /\ Running \subseteq Requests
      /\ \A v \in Requests : req'[v].found = req[v].found
  BY <1>1 DEF FoundOf, AtMark, ProcessedOf, PunchesOf, Running
<1>3. CleanAlone' /\ CleanFresh' /\ CleanComplete'
  BY <1>1, <1>2 DEF SheetInv, CleanAlone, CleanFresh, CleanComplete, TypeOK
<1>4. w \in clean => Running = {w}
  BY <1>1 DEF SheetInv, CleanAlone
<1>5. \A v \in Requests, d \in Employees : AtMark(v, d)' => v \in Running
  BY <1>2 DEF AtMark, Running
<1>6. FoundFresh'
  <2>1. CASE w \in clean
    BY <1>1, <1>2, <1>4, <2>1 DEF SheetInv, CleanFresh, FoundFresh
  <2>2. CASE w \notin clean
    BY <1>1, <1>2, <2>2 DEF SheetInv, FoundFresh
  <2>3. QED BY <2>1, <2>2
<1>7. w \in clean => ProcessedOf(e) \subseteq FoundOf(w, e)
  BY <1>1 DEF SheetInv, CleanComplete
<1>8. MarkSupported'
  <2> SUFFICES ASSUME NEW v \in Requests, NEW d \in Employees, d \notin disturbed', AtMark(v, d)'
               PROVE  ProcessedOf(d) \subseteq FoundOf(v, d) /\ records'[d] = RecordOf(FoundOf(v, d))
    BY <1>2 DEF MarkSupported
  <2>1. CASE d = e
    BY <1>1, <1>4, <1>5, <1>7, <2>1
  <2>2. CASE d # e
    BY <1>1, <1>2, <2>2 DEF SheetInv, MarkSupported
  <2>3. QED BY <2>1, <2>2
<1>9. MarkAlone'
  <2> SUFFICES ASSUME NEW u \in Requests, NEW v \in Requests, NEW d \in Employees,
                      d \notin disturbed', AtMark(u, d)', AtMark(v, d)'
               PROVE  u = v
    BY DEF MarkAlone
  <2>1. CASE d = e
    BY <1>1, <1>4, <1>5, <2>1
  <2>2. CASE d # e
    BY <1>1, <1>2, <2>2 DEF SheetInv, MarkAlone
  <2>3. QED BY <2>1, <2>2
<1>10. RecordsSupported'
  <2> SUFFICES ASSUME NEW d \in Employees, d \notin disturbed'
               PROVE  \E punches \in SUBSET PunchesOf(d) :
                        ProcessedOf(d) \subseteq punches /\ records'[d] = RecordOf(punches)
    BY <1>2 DEF RecordsSupported
  <2>1. CASE d = e
    <3>1. w \in clean
      BY <1>1, <2>1
    <3>2. FoundOf(w, e) \subseteq PunchesOf(e)
      BY <3>1 DEF SheetInv, CleanFresh, FoundOf, PunchesOf
    <3>3. QED BY <1>1, <1>7, <2>1, <3>1, <3>2
  <2>2. CASE d # e
    BY <1>1, <2>2 DEF SheetInv, RecordsSupported
  <2>3. QED BY <2>1, <2>2
<1>11. QED BY <1>3, <1>6, <1>8, <1>9, <1>10 DEF SheetInv

\* The run the step is about has done nothing but stop, or go on with fewer employees.
LEMMA RunShrinks ==
  ASSUME SheetInv, NEW w \in Requests, req[w].pc # "idle",
         UNCHANGED <<records, disturbed>>,
         clean' \subseteq clean, w \in clean' => req'[w].pc # "idle",
         req'[w].pc # "mark", req'[w].found \subseteq req[w].found,
         \A e \in Employees : FoundOf(w, e)' = FoundOf(w, e) \/ FoundOf(w, e)' = {},
         \A v \in Requests : v # w => req'[v] = req[v],
         \A p \in Punches : logs'[p].employee = logs[p].employee,
         \A e \in Employees : ProcessedOf(e)' = ProcessedOf(e)
                              \/ \A v \in clean' : FoundOf(v, e)' = {},
         \A e \in Employees \ disturbed : ProcessedOf(e)' = ProcessedOf(e)
                                          \/ \A v \in Requests : v # w => ~AtMark(v, e),
         RecordsSupported', TypeOK'
  PROVE  SheetInv'
<1>1. /\ Running' \subseteq Running /\ w \in Running /\ Running \subseteq Requests
      /\ \A v \in Requests : v # w => (v \in Running' <=> v \in Running)
      /\ w \in clean' => w \in Running'
  BY DEF Running
<1>2. clean \subseteq Running /\ clean' \subseteq Running'
  BY <1>1 DEF SheetInv, CleanAlone
<1>3. \A v \in Requests : \A l \in req'[v].found : l \in req[v].found /\ l.punch \in Punches
  BY HeldPunches DEF SheetInv
<1>4. CleanAlone'
  BY <1>1, <1>2 DEF SheetInv, CleanAlone
<1>5. CleanFresh'
  BY <1>1, <1>2, <1>3 DEF SheetInv, CleanFresh
<1>6. \A v \in Requests, e \in Employees : v # w => FoundOf(v, e)' = FoundOf(v, e)
  BY DEF FoundOf
<1>7. CleanComplete'
  BY <1>1, <1>2, <1>6 DEF SheetInv, CleanComplete
<1>8. FoundFresh'
  BY <1>1, <1>3 DEF SheetInv, FoundFresh
<1>9. \A v \in Requests, e \in Employees : AtMark(v, e)' => v # w /\ AtMark(v, e)
  BY DEF AtMark
<1>10. MarkSupported' /\ MarkAlone'
  BY <1>6, <1>9 DEF SheetInv, MarkSupported, MarkAlone
<1>11. QED BY <1>4, <1>5, <1>7, <1>8, <1>10 DEF SheetInv

\* What a run marks is of the employee whose record it wrote, or of disturbed employees.
LEMMA MarkSheet ==
  ASSUME SheetInv, NEW w \in Requests, ProcessMark(w), TypeOK'
  PROVE  SheetInv'
<1> DEFINE e == req[w].employee
           rest == {l \in req[w].found : l.employee # e}
<1>1. /\ UNCHANGED <<records, disturbed>> /\ req[w].pc = "mark" /\ e \in Employees
      /\ w \in Running /\ AtMark(w, e)
      /\ \A v \in Requests : v # w => req'[v] = req[v]
      /\ clean' = IF rest = {} THEN clean \ {w} ELSE clean
  BY DEF SheetInv, TypeOK, ProcessMark, Running, AtMark
<1>2. /\ req'[w].pc = IF rest = {} THEN "idle" ELSE "upsert"
      /\ req'[w].found = rest
  BY IdleIsRun DEF SheetInv, TypeOK, ProcessMark, Idle
<1>3. \A p \in Punches :
        /\ logs'[p].employee = logs[p].employee
        /\ logs'[p].isProcessed = (logs[p].isProcessed \/ p \in FoundOf(w, e))
  <2>1. logs \in [Punches -> Log]
    BY DEF SheetInv, TypeOK
  <2>2. \A p \in Punches :
          logs'[p] = IF p \in FoundOf(w, e) THEN [logs[p] EXCEPT !.isProcessed = TRUE] ELSE logs[p]
    BY DEF ProcessMark, Marked
  <2>3. QED BY <2>1, <2>2 DEF Log
<1>4. \A d \in Employees : FoundOf(w, d)' = IF d = e THEN {} ELSE FoundOf(w, d)
  BY <1>2 DEF FoundOf
<1>5. /\ \A d \in Employees : /\ PunchesOf(d)' = PunchesOf(d)
                              /\ ProcessedOf(d) \subseteq ProcessedOf(d)'
                              /\ ProcessedOf(d)' \subseteq ProcessedOf(d) \cup FoundOf(w, e)
  BY <1>3 DEF PunchesOf, ProcessedOf
<1>6. ASSUME NEW p \in FoundOf(w, e)
      PROVE  logs[p].employee = e \/ {e, logs[p].employee} \subseteq disturbed
  BY <1>1, <1>6 DEF SheetInv, FoundFresh, FoundOf
<1>7. \A d \in Employees \ disturbed : d # e => ProcessedOf(d)' = ProcessedOf(d)
  <2> SUFFICES ASSUME NEW d \in Employees \ disturbed, d # e, NEW p \in ProcessedOf(d)'
               PROVE  p \in ProcessedOf(d)
    BY <1>5
  <2>1. p \in Punches /\ logs[p].employee = d
    BY <1>3 DEF ProcessedOf, PunchesOf
  <2>2. p \notin FoundOf(w, e)
    BY <1>6, <2>1
  <2>3. QED BY <1>5, <2>2
<1>8. \A d \in Employees : ProcessedOf(d)' = ProcessedOf(d) \/ \A v \in clean' : FoundOf(v, d)' = {}
  <2> SUFFICES ASSUME NEW d \in Employees, NEW v \in clean', FoundOf(v, d)' # {}
               PROVE  ProcessedOf(d)' = ProcessedOf(d)
    OBVIOUS
  <2>1. v = w /\ w \in clean
    BY <1>1 DEF SheetInv, CleanAlone
  <2>2. d # e
    BY <1>4, <2>1
  <2>3. \A p \in FoundOf(w, e) : logs[p].employee = e
    BY <2>1 DEF SheetInv, CleanFresh, FoundOf
  <2>4. \A p \in ProcessedOf(d)' : p \in Punches /\ logs[p].employee = d
    BY <1>3 DEF ProcessedOf, PunchesOf
  <2>5. QED BY <1>5, <2>2, <2>3, <2>4
<1>9. \A d \in Employees \ disturbed :
        ProcessedOf(d)' = ProcessedOf(d) \/ \A v \in Requests : v # w => ~AtMark(v, d)
  BY <1>1, <1>7 DEF SheetInv, MarkAlone
<1>10. RecordsSupported'
  <2> SUFFICES ASSUME NEW d \in Employees, d \notin disturbed
               PROVE  \E punches \in SUBSET PunchesOf(d) :
                        ProcessedOf(d)' \subseteq punches /\ records[d] = RecordOf(punches)
    BY <1>1, <1>5 DEF RecordsSupported
  <2>1. CASE d = e
    <3>1. FoundOf(w, e) \subseteq PunchesOf(e)
      BY <1>6, <2>1 DEF FoundOf, PunchesOf
    <3>2. ProcessedOf(e) \subseteq FoundOf(w, e) /\ records[e] = RecordOf(FoundOf(w, e))
      BY <1>1, <2>1 DEF SheetInv, MarkSupported
    <3>3. QED BY <1>5, <2>1, <3>1, <3>2
  <2>2. CASE d # e
    BY <1>7, <2>2 DEF SheetInv, RecordsSupported
  <2>3. QED BY <2>1, <2>2
<1>11. req[w].pc # "idle" /\ req'[w].pc # "mark" /\ req'[w].found \subseteq req[w].found
  BY <1>1, <1>2
<1>12. clean' \subseteq clean /\ (w \in clean' => req'[w].pc # "idle")
  BY <1>1, <1>2
<1> HIDE DEF e, rest
<1>13. QED BY <1>1, <1>3, <1>4, <1>8, <1>9, <1>10, <1>11, <1>12, RunShrinks

LEMMA AbortSheet ==
  ASSUME SheetInv, NEW w \in Requests, Abort(w), TypeOK'
  PROVE  SheetInv'
<1>1. /\ UNCHANGED <<logs, records, disturbed>> /\ req[w].pc # "idle"
      /\ req'[w] = Idle /\ clean' = clean \ {w}
      /\ \A v \in Requests : v # w => req'[v] = req[v]
  BY DEF SheetInv, TypeOK, Abort
<1>2. \A e \in Employees : /\ ProcessedOf(e)' = ProcessedOf(e) /\ PunchesOf(e)' = PunchesOf(e)
                           /\ FoundOf(w, e)' = {}
  BY <1>1, IdleIsRun DEF ProcessedOf, PunchesOf, FoundOf
<1>3. RecordsSupported'
  BY <1>1, <1>2 DEF SheetInv, RecordsSupported
<1>4. req'[w].pc # "mark" /\ req'[w].found \subseteq req[w].found
  BY <1>1, IdleIsRun
<1>5. QED BY <1>1, <1>2, <1>3, <1>4, RunShrinks

LEMMA NextSheet == SheetInv /\ [Next]_vars => SheetInv'
<1> SUFFICES ASSUME SheetInv, [Next]_vars PROVE SheetInv'
  OBVIOUS
<1>1. TypeOK'
  BY NextType DEF SheetInv
<1>2. CASE UNCHANGED vars
  <2>1. UNCHANGED <<logs, records, req, clean, disturbed>>
    BY <1>2 DEF vars
  <2>2. /\ \A v \in Requests, d \in Employees : FoundOf(v, d)' = FoundOf(v, d) /\ AtMark(v, d)' = AtMark(v, d)
        /\ \A d \in Employees : ProcessedOf(d)' = ProcessedOf(d) /\ PunchesOf(d)' = PunchesOf(d)
        /\ Running' = Running
    BY <2>1 DEF FoundOf, AtMark, ProcessedOf, PunchesOf, Running
  <2>3. CleanAlone' /\ CleanFresh' /\ FoundFresh'
    BY <2>1, <2>2 DEF SheetInv, CleanAlone, CleanFresh, FoundFresh
  <2>4. CleanComplete'
    BY <2>1, <2>2 DEF SheetInv, CleanComplete, TypeOK
  <2>5. MarkSupported' /\ MarkAlone'
    BY <2>1, <2>2 DEF SheetInv, MarkSupported, MarkAlone
  <2>6. RecordsSupported'
    BY <2>1, <2>2 DEF SheetInv, RecordsSupported
  <2>7. QED BY <1>1, <2>3, <2>4, <2>5, <2>6 DEF SheetInv
<1>3. CASE Next
  BY <1>1, <1>3, ImportSheet, ManualSheet, ReadSheet, UpsertSheet, MarkSheet, AbortSheet
     DEF Next, Serve
<1>4. QED BY <1>2, <1>3

\* However imports, corrections and runs interleave and wherever a run is cut short,
\* the record of an employee nobody disturbed is that of a set of punches with all the
\* processed ones in it (attendance.service.ts processAttendanceDate).
THEOREM RecordsAlwaysSupported == Spec => []RecordsSupported
<1>1. SheetInv => RecordsSupported
  BY DEF SheetInv
<1>2. QED BY InitSheet, NextSheet, <1>1, PTL DEF Spec

----------------------------------------------------------------------------
(***************************************************************************)
(* Records widen.  A clean run writes the record of the punches it holds,  *)
(* and those hold the punches the old record was made of: the run read     *)
(* them all, and nobody else wrote the record since.                       *)
(***************************************************************************)
RecordsHeld ==
  \A e \in Employees \ disturbed :
    \E punches \in SUBSET PunchesOf(e) :
      /\ records[e] = RecordOf(punches)
      /\ \A w \in clean : FoundOf(w, e) # {} => punches \subseteq FoundOf(w, e)

WidenInv == SheetInv /\ IsFiniteSet(ReadAttributed) /\ RecordsHeld

LEMMA Between ==
  \A l, lo, x, hi, h \in Nat : l <= lo /\ lo <= x /\ x <= hi /\ hi <= h => l <= x /\ x <= h
  OBVIOUS

\* A finite set of numbers that is not empty has a smallest and a largest: of the
\* smallest sets that did not, take one and a number out of it.
LEMMA Extremes ==
  ASSUME NEW S \in SUBSET Nat, IsFiniteSet(S), S # {}
  PROVE  \E lo, hi \in S : \A x \in S : lo <= x /\ x <= hi
<1> DEFINE Bounded(T) == \E lo, hi \in T : \A x \in T : lo <= x /\ x <= hi
           Bad == {T \in FiniteSubsetsOf(S) : T # {} /\ ~Bounded(T)}
<1> SUFFICES ASSUME ~Bounded(S) PROVE FALSE
  OBVIOUS
<1>1. S \in Bad /\ Bad \subseteq FiniteSubsetsOf(S)
  BY DEF FiniteSubsetsOf
<1>2. PICK T \in Bad : \A U \in Bad : <<U, T>> \notin StrictSubsetOrdering(S)
  BY <1>1, FS_StrictSubsetOrderingWellFounded, WFMin
<1>3. T \subseteq S /\ IsFiniteSet(T) /\ T # {} /\ ~Bounded(T)
  BY <1>2 DEF FiniteSubsetsOf
<1>4. PICK n \in T : TRUE
  BY <1>3
<1>5. n \in Nat /\ T \ {n} \subseteq S /\ IsFiniteSet(T \ {n})
  BY <1>3, <1>4, FS_RemoveElement
<1>6. <<T \ {n}, T>> \in StrictSubsetOrdering(S)
  BY <1>3, <1>4 DEF StrictSubsetOrdering
<1>7. T \ {n} = {} \/ Bounded(T \ {n})
  BY <1>2, <1>5, <1>6 DEF FiniteSubsetsOf
<1>8. CASE T \ {n} = {}
  BY <1>3, <1>4, <1>5, <1>8
<1>9. CASE Bounded(T \ {n})
  <2>1. PICK lo, hi \in T \ {n} : \A x \in T \ {n} : lo <= x /\ x <= hi
    BY <1>9
  <2>2. lo \in Nat /\ hi \in Nat /\ \A x \in T : x \in Nat
    BY <1>3, <2>1
  <2>3. PICK l \in {n, lo} : l <= n /\ l <= lo /\ l \in Nat
    <3>1. CASE n <= lo
      BY <1>5, <2>2, <3>1
    <3>2. CASE lo <= n
      BY <1>5, <2>2, <3>2
    <3>3. QED BY <1>5, <2>2, <3>1, <3>2
  <2>4. PICK h \in {n, hi} : n <= h /\ hi <= h /\ h \in Nat
    <3>1. CASE hi <= n
      BY <1>5, <2>2, <3>1
    <3>2. CASE n <= hi
      BY <1>5, <2>2, <3>2
    <3>3. QED BY <1>5, <2>2, <3>1, <3>2
  <2>5. ASSUME NEW x \in T PROVE l <= x /\ x <= h
    <3>1. x = n \/ (lo <= x /\ x <= hi)
      BY <2>1
    <3>2. x \in Nat
      BY <2>2
    <3>3. n \in Nat /\ lo \in Nat /\ hi \in Nat
      BY <1>5, <2>2
    <3>4. CASE x = n
      BY <2>3, <2>4, <3>4
    <3>5. CASE lo <= x /\ x <= hi
      <4>1. l <= lo /\ hi <= h /\ l \in Nat /\ h \in Nat
        BY <2>3, <2>4
      <4>2. QED BY <3>2, <3>3, <3>5, <4>1, Between
    <3>6. QED BY <3>1, <3>4, <3>5
  <2>6. l \in T /\ h \in T
    BY <1>4, <2>1, <2>3, <2>4
  <2>7. QED BY <1>3, <2>5, <2>6
<1>10. QED BY <1>7, <1>8, <1>9

LEMMA MinMax ==
  ASSUME NEW S \in SUBSET Nat, IsFiniteSet(S), S # {}
  PROVE  /\ Min(S) \in S /\ \A x \in S : Min(S) <= x
         /\ Max(S) \in S /\ \A x \in S : x <= Max(S)
<1>1. PICK lo, hi \in S : \A x \in S : lo <= x /\ x <= hi
  BY Extremes
<1>2. hi \in S /\ \A x \in S : hi >= x
  BY <1>1
<1>3. Min(S) \in S /\ \A x \in S : Min(S) <= x
  BY <1>1 DEF Min
<1>4. Max(S) \in S /\ \A x \in S : Max(S) >= x
  BY <1>2 DEF Max
<1>5. QED BY <1>3, <1>4

TimesOf(punches) == {p.time : p \in punches}

LEMMA TimesOfPunches ==
  ASSUME NEW punches \in SUBSET Punches, IsFiniteSet(punches)
  PROVE  TimesOf(punches) \in SUBSET Times /\ IsFiniteSet(TimesOf(punches))
<1> DEFINE f == [p \in punches |-> p.time]
<1>1. f \in Surjection(punches, TimesOf(punches))
  BY DEF Surjection, TimesOf
<1>2. IsFiniteSet(TimesOf(punches))
  BY <1>1, FS_Surjection
<1>3. QED BY <1>2 DEF TimesOf, Punches

\* The record of more punches is wider than that of fewer.
LEMMA MorePunchesWiden ==
  ASSUME NEW more \in SUBSET Punches, IsFiniteSet(more), NEW fewer \in SUBSET more,
         fewer # {}
  PROVE  Widens(RecordOf(fewer), RecordOf(more))
<1> DEFINE few == TimesOf(fewer)
           many == TimesOf(more)
           lastFew == IF Cardinality(fewer) > 1 THEN Max(few) ELSE None
           lastMany == IF Cardinality(more) > 1 THEN Max(many) ELSE None
<1>1. IsFiniteSet(fewer) /\ Cardinality(fewer) <= Cardinality(more)
  BY FS_Subset
<1>2. Cardinality(fewer) \in Nat /\ Cardinality(more) \in Nat
  BY <1>1, FS_CardinalityType
<1>3. /\ few \in SUBSET Nat /\ IsFiniteSet(few) /\ few # {} /\ few \subseteq many
      /\ many \in SUBSET Nat /\ IsFiniteSet(many) /\ many # {} /\ many \subseteq Times
  BY <1>1, TimesOfPunches DEF TimesOf
<1> HIDE DEF few, many
<1>4. Min(many) <= Min(few) /\ Max(few) <= Max(many) /\ Max(many) # None
      /\ Max(few) \in Nat /\ Max(many) \in Nat
  BY <1>3, MinMax
<1>5. /\ RecordOf(fewer).firstIn = Min(few) /\ RecordOf(fewer).lastOut = lastFew
      /\ RecordOf(more).firstIn = Min(many) /\ RecordOf(more).lastOut = lastMany
  BY DEF RecordOf, DeviceRecord, TimesOf, few, many
<1>6. lastFew # None => lastMany # None /\ lastMany >= lastFew
  BY <1>1, <1>2, <1>4
<1>7. QED BY <1>4, <1>5, <1>6 DEF Widens

\* A step that writes no record of an undisturbed employee and after which clean runs hold
\* for an employee what they held or nothing.
LEMMA HeldStays ==
  ASSUME RecordsHeld, clean' \subseteq clean, disturbed \subseteq disturbed',
         \A e \in Employees \ disturbed' :
           records'[e] = records[e] /\ PunchesOf(e) \subseteq PunchesOf(e)',
         \A w \in clean', e \in Employees : FoundOf(w, e)' = FoundOf(w, e) \/ FoundOf(w, e)' = {}
  PROVE  RecordsHeld'
<1> SUFFICES ASSUME NEW e \in Employees, e \notin disturbed'
             PROVE  \E punches \in SUBSET PunchesOf(e)' :
                      /\ records'[e] = RecordOf(punches)
                      /\ \A w \in clean' : FoundOf(w, e)' # {} => punches \subseteq FoundOf(w, e)'
  BY DEF RecordsHeld
<1>1. PICK punches \in SUBSET PunchesOf(e) :
             /\ records[e] = RecordOf(punches)
             /\ \A w \in clean : FoundOf(w, e) # {} => punches \subseteq FoundOf(w, e)
  BY DEF RecordsHeld
<1>2. \A w \in clean' : FoundOf(w, e)' # {} => punches \subseteq FoundOf(w, e)'
  BY <1>1
<1>3. QED BY <1>1, <1>2

LEMMA ImportHeld ==
  ASSUME TypeOK, RecordsHeld, NEW w \in Requests, NEW p \in Punches,
         NEW x \in Employees \cup {None}, ImportLog(w, p, x)
  PROVE  RecordsHeld' /\ ReadAttributed' \subseteq ReadAttributed \cup {p}
<1>1. /\ logs \in [Punches -> Log] /\ UNCHANGED <<records, req>>
      /\ clean' \subseteq clean /\ disturbed \subseteq disturbed'
  BY DEF TypeOK, ImportLog
<1>2. \A q \in Punches : q # p => logs'[q] = logs[q]
  BY <1>1 DEF ImportLog
<1>3. ReadAttributed' \subseteq ReadAttributed \cup {p}
  BY <1>2 DEF ReadAttributed
<1>4. \A e \in Employees \ disturbed' : logs[p].employee = e => logs'[p].employee = e
  BY <1>1 DEF ImportLog, Attributed
<1>5. \A e \in Employees \ disturbed' : PunchesOf(e) \subseteq PunchesOf(e)'
  BY <1>2, <1>4 DEF PunchesOf
<1>6. \A v \in clean', e \in Employees : FoundOf(v, e)' = FoundOf(v, e)
  BY <1>1 DEF FoundOf
<1>7. RecordsHeld'
  BY <1>1, <1>5, <1>6, HeldStays
<1>8. QED BY <1>3, <1>7

LEMMA ReadHeld ==
  ASSUME TypeOK, RecordsHeld, NEW w \in Requests, ProcessRead(w)
  PROVE  RecordsHeld'
<1> DEFINE found == {[punch |-> p, employee |-> logs[p].employee] : p \in ReadAttributed}
<1>1. /\ UNCHANGED <<logs, records, disturbed>> /\ req'[w].found = found
      /\ clean' \subseteq {w}
  BY DEF TypeOK, ProcessRead, Idle
<1>2. \A e \in Employees : \A p \in PunchesOf(e) : [punch |-> p, employee |-> e] \in found
  <2> SUFFICES ASSUME NEW e \in Employees, NEW p \in PunchesOf(e)
               PROVE  [punch |-> p, employee |-> e] \in found
    OBVIOUS
  <2>1. p \in ReadAttributed /\ logs[p].employee = e
    BY DEF PunchesOf, ReadAttributed
  <2>2. QED BY <2>1
<1>3. \A e \in Employees : PunchesOf(e)' = PunchesOf(e) /\ PunchesOf(e) \subseteq FoundOf(w, e)'
  BY <1>1, <1>2 DEF PunchesOf, FoundOf
<1>4. QED BY <1>1, <1>3 DEF RecordsHeld

LEMMA UpsertHeld ==
  ASSUME SheetInv, RecordsHeld, NEW w \in Requests, NEW e \in Employees, ProcessUpsert(w, e)
  PROVE  RecordsHeld'
<1>1. /\ UNCHANGED <<logs, clean>> /\ w \in Running
      /\ \A v \in Requests : req'[v].found = req[v].found
      /\ records'[e] = RecordOf(FoundOf(w, e))
      /\ \A d \in Employees : d # e => records'[d] = records[d]
      /\ disturbed' = IF w \in clean THEN disturbed \ {e} ELSE disturbed \cup {e}
      /\ clean \subseteq Requests
  BY DEF SheetInv, TypeOK, ProcessUpsert, Running
<1>2. /\ \A v \in clean, d \in Employees : FoundOf(v, d)' = FoundOf(v, d)
      /\ \A d \in Employees : PunchesOf(d)' = PunchesOf(d)
  BY <1>1 DEF FoundOf, PunchesOf
<1> SUFFICES ASSUME NEW d \in Employees, d \notin disturbed'
             PROVE  \E punches \in SUBSET PunchesOf(d) :
                      /\ records'[d] = RecordOf(punches)
                      /\ \A v \in clean : FoundOf(v, d) # {} => punches \subseteq FoundOf(v, d)
  BY <1>1, <1>2 DEF RecordsHeld
<1>3. CASE d # e
  BY <1>1, <1>3 DEF RecordsHeld
<1>4. CASE d = e
  <2>1. w \in clean /\ \A v \in clean : v = w
    BY <1>1, <1>4 DEF SheetInv, CleanAlone
  <2>2. FoundOf(w, e) \subseteq PunchesOf(e)
    BY <2>1 DEF SheetInv, CleanFresh, FoundOf, PunchesOf
  <2>3. QED BY <1>1, <1>4, <2>1, <2>2
<1>5. QED BY <1>3, <1>4

LEMMA MarkHeld ==
  ASSUME TypeOK, RecordsHeld, NEW w \in Requests, ProcessMark(w)
  PROVE  RecordsHeld' /\ ReadAttributed' = ReadAttributed
<1> DEFINE e == req[w].employee
           rest == {l \in req[w].found : l.employee # e}
<1>1. /\ UNCHANGED <<records, disturbed>> /\ clean' \subseteq clean
      /\ logs \in [Punches -> Log] /\ clean \subseteq Requests
      /\ \A v \in Requests : v # w => req'[v] = req[v]
      /\ req'[w].found = rest
  BY IdleIsRun DEF TypeOK, ProcessMark, Idle
<1>2. \A p \in Punches : logs'[p].employee = logs[p].employee
  BY <1>1 DEF ProcessMark, Log
<1>3. \A d \in Employees : FoundOf(w, d)' = IF d = e THEN {} ELSE FoundOf(w, d)
  BY <1>1 DEF FoundOf
<1>4. \A v \in clean', d \in Employees : v # w => FoundOf(v, d)' = FoundOf(v, d)
  BY <1>1 DEF FoundOf
<1> HIDE DEF e, rest
<1>5. /\ \A d \in Employees : PunchesOf(d)' = PunchesOf(d)
      /\ ReadAttributed' = ReadAttributed
  BY <1>2 DEF PunchesOf, ReadAttributed
<1>6. \A v \in clean', d \in Employees : FoundOf(v, d)' = FoundOf(v, d) \/ FoundOf(v, d)' = {}
  BY <1>3, <1>4
<1>7. RecordsHeld'
  BY <1>1, <1>5, <1>6, HeldStays
<1>8. QED BY <1>5, <1>7

LEMMA NextWiden == WidenInv /\ [Next]_vars => WidenInv'
<1> SUFFICES ASSUME WidenInv, [Next]_vars
             PROVE  RecordsHeld' /\ IsFiniteSet(ReadAttributed)'
  BY NextSheet DEF WidenInv
<1>0. SheetInv /\ TypeOK /\ RecordsHeld /\ IsFiniteSet(ReadAttributed)
  BY DEF WidenInv, SheetInv
<1>1. ASSUME NEW w \in Requests, NEW p \in Punches, NEW x \in Employees \cup {None},
             ImportLog(w, p, x)
      PROVE  RecordsHeld' /\ IsFiniteSet(ReadAttributed)'
  <2>1. IsFiniteSet(ReadAttributed \cup {p})
    BY <1>0, FS_AddElement
  <2>2. QED BY <1>0, <1>1, <2>1, ImportHeld, FS_Subset
<1>2. ASSUME NEW w \in Requests, NEW e \in Employees, UpsertManualRecord(w, e)
      PROVE  RecordsHeld' /\ ReadAttributed' = ReadAttributed
  <2>1. /\ UNCHANGED <<logs, req, clean>> /\ disturbed' = disturbed \cup {e}
        /\ \A d \in Employees : d # e => records'[d] = records[d]
    BY <1>0, <1>2 DEF TypeOK, UpsertManualRecord
  <2>2. /\ \A d \in Employees : PunchesOf(d)' = PunchesOf(d)
        /\ \A v \in clean', d \in Employees : FoundOf(v, d)' = FoundOf(v, d)
        /\ ReadAttributed' = ReadAttributed
    BY <2>1 DEF PunchesOf, FoundOf, ReadAttributed
  <2>3. QED BY <1>0, <2>1, <2>2, HeldStays
<1>3. ASSUME NEW w \in Requests, ProcessRead(w)
      PROVE  RecordsHeld' /\ ReadAttributed' = ReadAttributed
  BY <1>0, <1>3, ReadHeld DEF ProcessRead, ReadAttributed
<1>4. ASSUME NEW w \in Requests, NEW e \in Employees, ProcessUpsert(w, e)
      PROVE  RecordsHeld' /\ ReadAttributed' = ReadAttributed
  BY <1>0, <1>4, UpsertHeld DEF ProcessUpsert, ReadAttributed
<1>5. ASSUME NEW w \in Requests, Abort(w)
      PROVE  RecordsHeld' /\ ReadAttributed' = ReadAttributed
  <2>1. /\ UNCHANGED <<logs, records, disturbed>> /\ clean' \subseteq clean
        /\ \A v \in clean' : v # w
        /\ \A v \in Requests : v # w => req'[v] = req[v]
        /\ clean \subseteq Requests
    BY <1>0, <1>5 DEF TypeOK, Abort
  <2>2. /\ \A d \in Employees : PunchesOf(d)' = PunchesOf(d)
        /\ \A v \in clean', d \in Employees : FoundOf(v, d)' = FoundOf(v, d)
        /\ ReadAttributed' = ReadAttributed
    BY <2>1 DEF PunchesOf, FoundOf, ReadAttributed
  <2>3. QED BY <1>0, <2>1, <2>2, HeldStays
<1>6. CASE UNCHANGED vars
  <2>1. UNCHANGED <<logs, records, req, clean, disturbed>>
    BY <1>6 DEF vars
  <2>2. /\ \A d \in Employees : PunchesOf(d)' = PunchesOf(d)
        /\ \A v \in clean', d \in Employees : FoundOf(v, d)' = FoundOf(v, d)
        /\ ReadAttributed' = ReadAttributed
    BY <2>1 DEF PunchesOf, FoundOf, ReadAttributed
  <2>3. QED BY <1>0, <2>1, <2>2, HeldStays
<1>7. QED
  BY <1>0, <1>1, <1>2, <1>3, <1>4, <1>5, <1>6, MarkHeld DEF Next, Serve

LEMMA InitWiden == Init => WidenInv
<1> SUFFICES ASSUME Init PROVE WidenInv
  OBVIOUS
<1>1. ReadAttributed = {}
  BY DEF Init, UnbornLog, ReadAttributed
<1>2. \A e \in Employees : records[e] = RecordOf({})
  BY DEF Init, RecordOf
<1>3. RecordsHeld
  BY <1>2 DEF RecordsHeld
<1>4. QED BY <1>1, <1>3, InitSheet, FS_EmptySet DEF WidenInv

\* Which records a step writes.
LEMMA RecordSteps ==
  ASSUME TypeOK, [Next]_vars, NEW e \in Employees
  PROVE  \/ records'[e] = records[e]
         \/ e \in disturbed'
         \/ \E w \in clean : ProcessUpsert(w, e)
<1>1. ASSUME NEW w \in Requests, NEW d \in Employees, UpsertManualRecord(w, d)
      PROVE  records'[e] = records[e] \/ e \in disturbed'
  BY <1>1 DEF TypeOK, UpsertManualRecord
<1>2. ASSUME NEW w \in Requests, NEW d \in Employees, ProcessUpsert(w, d)
      PROVE  \/ records'[e] = records[e] \/ e \in disturbed'
             \/ \E v \in clean : ProcessUpsert(v, e)
  <2>1. CASE d # e
    BY <1>2, <2>1 DEF TypeOK, ProcessUpsert
  <2>2. CASE d = e
    BY <1>2, <2>2 DEF ProcessUpsert
  <2>3. QED BY <2>1, <2>2
<1>3. CASE UNCHANGED records
  BY <1>3
<1>4. QED
  BY <1>1, <1>2, <1>3
  DEF vars, Next, Serve, ImportLog, ProcessRead, ProcessMark, Abort

\* Processing a day again only widens the record of an employee nobody disturbed: it was
\* made of punches the run has found too (attendance.service.ts processAttendanceDate).
THEOREM RecordsOnlyWiden == Spec => RecordsWiden
<1>1. WidenInv /\ [Next]_vars =>
        [\A e \in Employees \ disturbed :
           records[e] # NoRecord /\ e \notin disturbed' => Widens(records[e], records'[e])]_vars
  <2> SUFFICES ASSUME WidenInv, [Next]_vars, NEW e \in Employees, e \notin disturbed,
                      records[e] # NoRecord, e \notin disturbed'
               PROVE  Widens(records[e], records'[e])
    OBVIOUS
  <2>0. SheetInv /\ TypeOK /\ RecordsHeld /\ IsFiniteSet(ReadAttributed)
    BY DEF WidenInv, SheetInv
  <2>1. PICK punches \in SUBSET PunchesOf(e) :
               /\ records[e] = RecordOf(punches)
               /\ \A w \in clean : FoundOf(w, e) # {} => punches \subseteq FoundOf(w, e)
    BY <2>0 DEF RecordsHeld
  <2>2. punches # {} /\ punches \in SUBSET Punches /\ IsFiniteSet(punches)
    <3>1. PunchesOf(e) \subseteq ReadAttributed
      BY DEF PunchesOf, ReadAttributed
    <3>2. QED BY <2>0, <2>1, <3>1, FS_Subset DEF RecordOf, PunchesOf
  <2>3. CASE records'[e] = records[e]
    BY <2>1, <2>2, <2>3, MorePunchesWiden
  <2>4. ASSUME NEW w \in clean, ProcessUpsert(w, e)
        PROVE  Widens(records[e], records'[e])
    <3>1. /\ records'[e] = RecordOf(FoundOf(w, e)) /\ FoundOf(w, e) # {}
          /\ w \in Requests
      BY <2>0, <2>4 DEF TypeOK, ProcessUpsert, NextEmployees
    <3>2. FoundOf(w, e) \subseteq ReadAttributed
      BY <2>0, <3>1 DEF TypeOK, FoundOf, ReadAttributed
    <3>3. FoundOf(w, e) \in SUBSET Punches /\ IsFiniteSet(FoundOf(w, e))
      BY <2>0, <3>2, FS_Subset DEF FoundOf
    <3>4. QED BY <2>1, <2>2, <3>1, <3>3, MorePunchesWiden
  <2>5. QED BY <2>0, <2>3, <2>4, RecordSteps
<1>2. QED BY InitWiden, NextWiden, <1>1, PTL DEF Spec, RecordsWiden
=============================================================================
