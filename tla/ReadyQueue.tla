----------------------------- MODULE ReadyQueue -----------------------------
(***************************************************************************)
(* The ready queue as OsekTask describes it, under the calls the kernel    *)
(* makes: what module ReadyList, which has the links and the bitmap of     *)
(* task.c, implements.                                                     *)
(***************************************************************************)
EXTENDS OsekTask

VARIABLES
  sched,   \* the scheduler's data
  tcb      \* current priority of each task

vars == <<sched, tcb>>

Init == /\ sched = EmptySched
        /\ tcb = [t \in TaskId |-> [curpri |-> TPRI_MINTASK]]

Runs(t) == sched.schedtsk # TSKID_NULL /\ sched.schedtsk = t

(* A task that is not ready becomes ready with some priority. *)
BecomesReady(t) ==
  /\ t \notin Accounted(sched)
  /\ \E p \in Priority : tcb' = [tcb EXCEPT ![t].curpri = p]
  /\ sched' = make_runnable(sched, tcb', t)

(* The task to run terminates or waits. *)
Leaves(t) ==
  /\ Runs(t)
  /\ sched' = search_schedtsk(sched)
  /\ UNCHANGED tcb

(* Its priority changes, to one that is outranked by a queued task or not. *)
Yields(t) ==
  /\ Runs(t)
  /\ \E p \in Priority : /\ p < sched.nextpri
                         /\ tcb' = [tcb EXCEPT ![t].curpri = p]
  /\ sched' = preempt(sched, tcb')

ChangesPriority(t) ==
  /\ Runs(t)
  /\ \E p \in Priority : /\ p >= sched.nextpri
                         /\ tcb' = [tcb EXCEPT ![t].curpri = p]
  /\ UNCHANGED sched

Next == \E t \in TaskId : \/ BecomesReady(t) \/ Leaves(t)
                          \/ Yields(t) \/ ChangesPriority(t)

Spec == Init /\ [][Next]_vars
=============================================================================
