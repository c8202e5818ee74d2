----------------------------- MODULE Attendance -----------------------------
(***************************************************************************)
(* A day of attendance: the punches imported from devices and the record   *)
(* each employee has of the day (attendance.service.ts).                   *)
(*                                                                         *)
(* importLogs upserts one punch after the other.  processAttendanceDate    *)
(* reads the day's punches once and then, employee by employee, upserts    *)
(* the record and marks the punches it read as processed, each in a        *)
(* statement of its own and none in a transaction.  Imports, corrections   *)
(* by hand and other runs of processAttendanceDate come in between.        *)
(*                                                                         *)
(* Abstractions.  A punch is its biometric id and its time, the unique key *)
(* of attendance_logs; its type, device and payload are not represented,   *)
(* nor the time a device was last synchronised.  Employees are written by  *)
(* no service: whom a punch is attributed to, by employee id or by         *)
(* biometric id, is any employee or none.  A record that was created or    *)
(* edited by hand may hold anything and is one value, ByHand.  Days do not *)
(* interact, and one is modelled, in seconds since its start.              *)
(***************************************************************************)
EXTENDS Naturals, FiniteSets, FiniteSetsExt

CONSTANTS BiometricIds,
          Times,      \* when punches are made
          Employees,
          Requests,   \* requests being served at the same time
          None

ASSUME AttendanceAssumption ==
  /\ Times \subseteq Nat
  /\ None \notin Employees \cup Times

VARIABLES logs,       \* attendance_logs
          records,    \* attendance_records, by employee
          req,        \* where each run of processAttendanceDate stands
          clean,      \* history: the runs that nothing interfered with so far
          disturbed   \* history: the employees whose record nobody vouches for

vars == <<logs, records, req, clean, disturbed>>

Punches == [bio : BiometricIds, time : Times]
Log == [row : {"unborn", "stored"}, employee : Employees \cup {None}, isProcessed : BOOLEAN]
UnbornLog == [row |-> "unborn", employee |-> None, isProcessed |-> FALSE]

PunchesOf(e) == {p \in Punches : logs[p].employee = e}
ProcessedOf(e) == {p \in PunchesOf(e) : logs[p].isProcessed}

----------------------------------------------------------------------------
(* What processAttendanceDate makes of one employee's punches.              *)

ExpectedIn == 9 * 60 * 60
FullDay == 480

NoRecord == [kind |-> "none"]
ByHand   == [kind |-> "byHand"]

Late(first) == IF first < ExpectedIn THEN 0 ELSE (first - ExpectedIn) \div 60
Overtime(minutes) == IF minutes < FullDay THEN 0 ELSE minutes - FullDay

DeviceRecord(first, last) ==
  LET total == IF last = None THEN 0 ELSE (last - first) \div 60
  IN [kind |-> "device", firstIn |-> first, lastOut |-> last, totalMinutes |-> total,
      lateMinutes |-> Late(first), overtimeMinutes |-> Overtime(total),
      status |-> IF Late(first) > 0 THEN "LATE" ELSE "PRESENT"]

RecordOf(punches) ==
  LET times == {p.time : p \in punches}
  IN IF punches = {} THEN NoRecord
     ELSE DeviceRecord(Min(times), IF Cardinality(punches) > 1 THEN Max(times) ELSE None)

Records == {ByHand} \cup {RecordOf(punches) : punches \in SUBSET Punches}

(***************************************************************************)
(* A run of processAttendanceDate.                                         *)
(*   upsert    the record of the next employee in found comes next         *)
(*   mark      employee's record is written, its punches are marked next   *)
(* found is what the run read, less the employees it is done with.         *)
(***************************************************************************)
Line == [punch : Punches, employee : Employees]
Idle == [pc |-> "idle", employee |-> None, found |-> {}]

FoundOf(w, e) == {p \in Punches : [punch |-> p, employee |-> e] \in req[w].found}
Running == {w \in Requests : req[w].pc # "idle"}

TypeOK ==
  /\ logs \in [Punches -> Log]
  /\ \A p \in Punches : logs[p].isProcessed => logs[p].employee # None
  /\ records \in [Employees -> Records]
  /\ req \in [Requests -> [pc : {"idle", "upsert", "mark"}, employee : Employees \cup {None},
                           found : SUBSET Line]]
  /\ \A w \in Requests :
       /\ req[w].pc = "mark" => req[w].employee \in Employees
       /\ \A l \in req[w].found : logs[l.punch].employee # None
  /\ clean \in SUBSET Requests
  /\ disturbed \in SUBSET Employees

Init ==
  /\ logs = [p \in Punches |-> UnbornLog]
  /\ records = [e \in Employees |-> NoRecord]
  /\ req = [w \in Requests |-> Idle]
  /\ clean = {}
  /\ disturbed = {}

----------------------------------------------------------------------------
(* importLogs, one punch. *)

\* An employee that was not found is undefined, which leaves the column alone.
\* (Overwritten is a mistake.)
Overwritten(old, employee) == employee
Attributed(old, employee) == IF employee = None THEN old ELSE employee

\* isProcessed is left as it is when the punch is known.
ImportLog(w, p, employee) ==
  LET old == logs[p].employee
      moved == {old, employee} \ {None}
  IN /\ req[w].pc = "idle"
     /\ logs' = [logs EXCEPT ![p] =
          [row |-> "stored", employee |-> Attributed(old, employee),
           isProcessed |-> logs[p].isProcessed]]
     /\ IF old # None /\ employee \notin {None, old}
        THEN disturbed' = disturbed \cup moved /\ clean' = {}
        ELSE UNCHANGED <<disturbed, clean>>
     /\ UNCHANGED <<records, req>>

UpsertManualRecord(w, e) ==
  /\ req[w].pc = "idle"
  /\ records' = [records EXCEPT ![e] = ByHand]
  /\ disturbed' = disturbed \cup {e}
  /\ UNCHANGED <<logs, req, clean>>

----------------------------------------------------------------------------
(* processAttendanceDate. *)

\* What findMany selects.  (ReadUnprocessed is a mistake.)
ReadUnprocessed == {p \in Punches : logs[p].employee # None /\ ~logs[p].isProcessed}
ReadAttributed == {p \in Punches : logs[p].employee # None}

\* With nothing found the run is over.
ProcessRead(w) ==
  /\ req[w].pc = "idle" /\ ReadAttributed # {}
  /\ req' = [req EXCEPT ![w] =
       [Idle EXCEPT !.pc = "upsert",
                    !.found = {[punch |-> p, employee |-> logs[p].employee] :
                                 p \in ReadAttributed}]]
  /\ clean' = IF Running = {} THEN {w} ELSE {}
  /\ UNCHANGED <<logs, records, disturbed>>

\* The employees come in the order of their first punches.
NextEmployees(w) ==
  {e \in Employees : \E p \in FoundOf(w, e) : \A l \in req[w].found : p.time <= l.punch.time}

ProcessUpsert(w, e) ==
  /\ req[w].pc = "upsert" /\ e \in NextEmployees(w)
  /\ records' = [records EXCEPT ![e] = RecordOf(FoundOf(w, e))]
  /\ req' = [req EXCEPT ![w] = [req[w] EXCEPT !.pc = "mark", !.employee = e]]
  /\ disturbed' = IF w \in clean THEN disturbed \ {e} ELSE disturbed \cup {e}
  /\ UNCHANGED <<logs, clean>>

\* updateMany takes the ids of the punches that were read.  (MarkAll is a mistake.)
MarkAll(w, e) == PunchesOf(e)
Marked(w, e) == FoundOf(w, e)

ProcessMark(w) ==
  LET e == req[w].employee
      rest == {l \in req[w].found : l.employee # e}
  IN /\ req[w].pc = "mark"
     /\ logs' = [p \in Punches |->
          IF p \in Marked(w, e) THEN [logs[p] EXCEPT !.isProcessed = TRUE] ELSE logs[p]]
     /\ req' = [req EXCEPT ![w] =
          IF rest = {} THEN Idle ELSE [Idle EXCEPT !.pc = "upsert", !.found = rest]]
     /\ clean' = IF rest = {} THEN clean \ {w} ELSE clean
     /\ UNCHANGED <<records, disturbed>>

\* The statement the run stands before fails, or the process stops: what it has written
\* so far stays.
Abort(w) ==
  /\ req[w].pc # "idle"
  /\ req' = [req EXCEPT ![w] = Idle]
  /\ clean' = clean \ {w}
  /\ UNCHANGED <<logs, records, disturbed>>

Serve(w) ==
  \/ \E p \in Punches, e \in Employees \cup {None} : ImportLog(w, p, e)
  \/ \E e \in Employees : UpsertManualRecord(w, e) \/ ProcessUpsert(w, e)
  \/ ProcessRead(w) \/ ProcessMark(w) \/ Abort(w)

Next == \E w \in Requests : Serve(w)

Spec == Init /\ [][Next]_vars

----------------------------------------------------------------------------
(* Properties. *)

\* A punch that is marked processed is accounted for: an employee's record is that of
\* a set of the employee's punches with all the processed ones in it, at every moment,
\* between the two statements of a run and after one that was cut short too.  The
\* exceptions, in disturbed, are records edited by hand, written by runs that
\* overlapped, and those of employees between whom an import moved a punch; the next
\* run that nothing interferes with repairs them.
RecordsSupported ==
  \A e \in Employees \ disturbed :
    \E punches \in SUBSET PunchesOf(e) :
      ProcessedOf(e) \subseteq punches /\ records[e] = RecordOf(punches)

\* Processing a day again only widens a record, whatever was imported, cut short or
\* processed before: nobody comes later or leaves earlier than the record said.
Widens(old, new) ==
  /\ new.firstIn <= old.firstIn
  /\ old.lastOut # None => new.lastOut # None /\ new.lastOut >= old.lastOut

RecordsWiden ==
  [][\A e \in Employees \ disturbed :
       records[e] # NoRecord /\ e \notin disturbed' => Widens(records[e], records'[e])]_vars
=============================================================================
