------------------------------ MODULE MCKernel ------------------------------
(* Instances of OsekKernel for TLC. *)
EXTENDS OsekKernel

(* Four tasks: 0 and 1 are extended; 1 and 2 share the middle priority; 0  *)
(* runs at it (an internal resource); 2 is not preemptable.                *)
IniPri == [t \in 0 .. 3 |-> <<0, 1, 1, 2>>[t + 1]]
ExePri == [t \in 0 .. 3 |-> <<1, 1, 3, 2>>[t + 1]]
MaxAct == [t \in 0 .. 3 |-> <<1, 0, 0, 1>>[t + 1]]

(* Resource 0 is shared up to the middle priority, 1 is the scheduler.     *)
CeilPri == [r \in 0 .. 1 |-> <<1, 3>>[r + 1]]

(* Three tasks of three priorities, for liveness and for two events. *)
IniPri3 == [t \in 0 .. 2 |-> t]
ExePri3 == [t \in 0 .. 2 |-> <<1, 1, 2>>[t + 1]]
MaxAct3 == [t \in 0 .. 2 |-> <<0, 1, 0>>[t + 1]]
CeilPri3 == [r \in {0} |-> 2]
=============================================================================
