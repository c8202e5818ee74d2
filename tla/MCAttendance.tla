---------------------------- MODULE MCAttendance ----------------------------
(***************************************************************************)
(* Attendance of two employees: a punch before nine, one a minute late and *)
(* one after a day's work, by which a record may be on time, late or with  *)
(* overtime.                                                               *)
(***************************************************************************)
EXTENDS Attendance, TLC

Interchangeable ==
  Permutations(BiometricIds) \cup Permutations(Employees) \cup Permutations(Requests)
=============================================================================
