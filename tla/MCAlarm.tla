------------------------------- MODULE MCAlarm -------------------------------
(* Instances of OsekAlarm for TLC. *)
EXTENDS OsekAlarm

(* Three alarms: 0 is periodic and 1 expires once, both from the start. *)
Almval3 == [a \in 0 .. 2 |-> <<1, 2, 1>>[a + 1]]
Cycle3  == [a \in 0 .. 2 |-> <<2, 0, 2>>[a + 1]]

(* Two alarms. *)
Almval2 == [a \in 0 .. 1 |-> <<1, 2>>[a + 1]]
Cycle2  == [a \in 0 .. 1 |-> <<2, 0>>[a + 1]]
=============================================================================
