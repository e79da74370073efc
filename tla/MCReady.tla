------------------------------- MODULE MCReady -------------------------------
(* Instance of ReadyList for TLC.  Three tasks give a list with a first and *)
(* a last task beside the task to run.  Priorities 7 and 8 are on both      *)
(* sides of the map's bytes, 15 is its last bit, above which the search     *)
(* finds each of the others.  The initial priorities play no part.          *)
EXTENDS ReadyList

Inipri == [t \in 0 .. 2 |-> 0]
=============================================================================
