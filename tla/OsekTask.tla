------------------------------ MODULE OsekTask ------------------------------
(***************************************************************************)
(* The ready queue and the scheduling functions of the TOPPERS/OSEK        *)
(* kernel, toppers_osek/kernel/task.c, as operators on the scheduler's     *)
(* data.  A larger number is a higher priority, as in the code.            *)
(*                                                                         *)
(* The linked lists of ready_queue_first/ready_queue_last/tcb_next are     *)
(* sequences here; module ReadyList keeps the links and implements these   *)
(* operators.                                                              *)
(***************************************************************************)
EXTENDS Naturals, Sequences

CONSTANTS
  tnum_task,      \* number of tasks
  tnum_exttask,   \* tasks 0 .. tnum_exttask-1 are extended: they own events
  TPRI_MAXTASK,   \* highest task priority (15 in the code)
  tinib_inipri,   \* initial priority of each task
  tinib_exepri    \* priority a task runs at: higher than the initial one for
                  \* a non-preemptable task or one with an internal resource

TSKID_NULL   == 255
RESID_NULL   == 255
TPRI_MINTASK == 0

TaskId   == 0 .. tnum_task - 1
Priority == TPRI_MINTASK .. TPRI_MAXTASK

ASSUME TaskCount == /\ tnum_task \in 1 .. TSKID_NULL
                    /\ tnum_exttask \in 0 .. tnum_task
                    /\ TPRI_MAXTASK \in Nat

(* The configurator gives a task an execution priority that is its initial *)
(* priority or the ceiling of its internal resource.                       *)
ASSUME TaskPriorities ==
  /\ tinib_inipri \in [TaskId -> Priority]
  /\ tinib_exepri \in [TaskId -> Nat]
  /\ \A t \in TaskId : tinib_inipri[t] <= tinib_exepri[t]

(***************************************************************************)
(* The scheduler's data: one FIFO queue per priority, the bitmap of the    *)
(* non-empty ones, the highest of those, and the task to run next, which   *)
(* is in no queue.                                                         *)
(***************************************************************************)
Sched == [queue    : [Priority -> Seq(TaskId)],
          primap   : SUBSET Priority,
          nextpri  : Priority,
          schedtsk : TaskId \cup {TSKID_NULL}]

(* task_initialize, before the loop over the tasks. *)
EmptySched == [queue    |-> [p \in Priority |-> <<>>],
               primap   |-> {},
               nextpri  |-> TPRI_MINTASK,
               schedtsk |-> TSKID_NULL]

(* Each insertion is followed by ready_primap |= PRIMAP_BIT(pri). *)
ready_insert_first(s, pri, t) ==
  [s EXCEPT !.queue[pri] = <<t>> \o @, !.primap = @ \cup {pri}]

ready_insert_last(s, pri, t) ==
  [s EXCEPT !.queue[pri] = Append(@, t), !.primap = @ \cup {pri}]

(* The highest set bit; module ReadyList has the table-driven search.    *)
bitmap_search(primap) == CHOOSE p \in primap : \A q \in primap : q <= p

(* What make_runnable returns: t becomes the task to run next. *)
Outranks(s, tcb, t) ==
  \/ s.schedtsk = TSKID_NULL
  \/ tcb[t].curpri > tcb[s.schedtsk].curpri

(* Fault: a task made runnable goes in front of its equals. *)
make_runnable_InsertsFirst(s, tcb, t) ==
  LET pri      == tcb[t].curpri
      schedpri == tcb[s.schedtsk].curpri
  IN  IF ~ Outranks(s, tcb, t)
      THEN [ready_insert_first(s, pri, t)
              EXCEPT !.nextpri = IF pri > @ THEN pri ELSE @]
      ELSE IF s.schedtsk = TSKID_NULL
      THEN [s EXCEPT !.schedtsk = t]
      ELSE [ready_insert_first(s, schedpri, s.schedtsk)
              EXCEPT !.nextpri = schedpri, !.schedtsk = t]

(* Fault: the preempted task goes behind its equals. *)
make_runnable_RequeuesLast(s, tcb, t) ==
  LET pri      == tcb[t].curpri
      schedpri == tcb[s.schedtsk].curpri
  IN  IF ~ Outranks(s, tcb, t)
      THEN [ready_insert_last(s, pri, t)
              EXCEPT !.nextpri = IF pri > @ THEN pri ELSE @]
      ELSE IF s.schedtsk = TSKID_NULL
      THEN [s EXCEPT !.schedtsk = t]
      ELSE [ready_insert_last(s, schedpri, s.schedtsk)
              EXCEPT !.nextpri = schedpri, !.schedtsk = t]

make_runnable(s, tcb, t) ==
  LET pri      == tcb[t].curpri
      schedpri == tcb[s.schedtsk].curpri
  IN  IF ~ Outranks(s, tcb, t)
      THEN [ready_insert_last(s, pri, t)
              EXCEPT !.nextpri = IF pri > @ THEN pri ELSE @]
      ELSE IF s.schedtsk = TSKID_NULL
      THEN [s EXCEPT !.schedtsk = t]
      ELSE [ready_insert_first(s, schedpri, s.schedtsk)
              EXCEPT !.nextpri = schedpri, !.schedtsk = t]

(* Fault: the bit of a queue that has become empty stays set. *)
search_schedtsk_KeepsBit(s) ==
  IF s.primap = {}
  THEN [s EXCEPT !.schedtsk = TSKID_NULL]
  ELSE [s EXCEPT !.schedtsk = Head(s.queue[s.nextpri]),
                 !.queue[s.nextpri] = Tail(@)]

search_schedtsk(s) ==
  LET first == s.queue[s.nextpri]
      left  == s.primap \ {s.nextpri}
  IN  IF s.primap = {}
      THEN [s EXCEPT !.schedtsk = TSKID_NULL]
      ELSE IF Len(first) > 1
      THEN [s EXCEPT !.schedtsk = Head(first), !.queue[s.nextpri] = Tail(@)]
      ELSE [s EXCEPT !.schedtsk = Head(first), !.queue[s.nextpri] = Tail(@),
                     !.primap  = left,
                     !.nextpri = IF left = {} THEN TPRI_MINTASK
                                              ELSE bitmap_search(left)]

preempt(s, tcb) ==
  search_schedtsk(ready_insert_first(s, tcb[s.schedtsk].curpri, s.schedtsk))

-----------------------------------------------------------------------------
(* The consistency of the scheduler's data (comments of task.c:59-70 and   *)
(* task.h:98-113): every queued task is queued once and at its current     *)
(* priority, the bitmap and nextpri describe the queues, and schedtsk is   *)
(* in no queue and outranked by no queued task.                            *)
Placed(s) ==
  {t \in TaskId : \E p \in Priority : \E i \in 1 .. Len(s.queue[p]) :
                   s.queue[p][i] = t}

QueuesExact(s, tcb) ==
  /\ \A p \in Priority : \A i \in 1 .. Len(s.queue[p]) :
       /\ tcb[s.queue[p][i]].curpri = p
       /\ \A j \in 1 .. Len(s.queue[p]) : s.queue[p][i] = s.queue[p][j] => i = j
  /\ \A p \in Priority : p \in s.primap <=> s.queue[p] # <<>>

NextpriHighest(s) ==
  /\ \A p \in s.primap : p <= s.nextpri
  /\ s.nextpri \in s.primap \cup {TPRI_MINTASK}

SchedOK(s, tcb) ==
  /\ QueuesExact(s, tcb)
  /\ NextpriHighest(s)
  /\ s.schedtsk \notin Placed(s)
  /\ s.schedtsk = TSKID_NULL => s.primap = {}
  /\ s.schedtsk # TSKID_NULL => s.nextpri <= tcb[s.schedtsk].curpri

(* The tasks the scheduler's data account for. *)
Accounted(s) == Placed(s) \cup ({s.schedtsk} \ {TSKID_NULL})

=============================================================================
