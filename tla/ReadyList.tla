----------------------------- MODULE ReadyList -----------------------------
(***************************************************************************)
(* The ready queue of task.c as it is stored: per priority a list linked   *)
(* by tcb_next with its first and last task, and a 16-bit map of the       *)
(* priorities with a task, searched by table.  The last task of an empty   *)
(* list is whatever it was before.                                         *)
(***************************************************************************)
EXTENDS Naturals, Sequences, FiniteSets

CONSTANTS tnum_task, tnum_exttask, TPRI_MAXTASK, tinib_inipri, tinib_exepri,
          PriorityInUse   \* those of the application's tasks and resources

TSKID_NULL   == 255
TPRI_MINTASK == 0
TaskId       == 0 .. tnum_task - 1
Priority     == TPRI_MINTASK .. TPRI_MAXTASK

(* assert(pri <= TPRI_MAXTASK), and the bitmap has 16 bits.  TaskType is   *)
(* a byte with one value for no task.                                      *)
ASSUME SixteenPriorities == /\ TPRI_MAXTASK \in 0 .. 15
                            /\ tnum_task \in 1 .. TSKID_NULL
                            /\ PriorityInUse \subseteq Priority

VARIABLES
  ready,        \* first, last, next, primap, nextpri and schedtsk
  tcb_curpri

vars == <<ready, tcb_curpri>>

-----------------------------------------------------------------------------
(* The bitmap. *)

PRIMAP_BIT(pri) == <<1, 2, 4, 8, 16, 32, 64, 128, 256, 512, 1024, 2048, 4096,
                     8192, 16384, 32768>>[pri + 1]

search_table == <<0, 1, 1, 2, 2, 2, 2, 3, 3, 3, 3, 3, 3, 3, 3>>

(* A byte's highest bit; a byte has a bit in 0xf0 if it is 16 or more. *)
search_byte(byte) ==
  IF byte >= 16 THEN 4 + search_table[byte \div 16]
                ELSE search_table[byte]

(* Fault: the priorities of the upper byte are not offset. *)
bitmap_search_NoOffset(bitmap) ==
  IF bitmap >= 256 THEN search_byte(bitmap \div 256)
                   ELSE search_byte(bitmap)

bitmap_search(bitmap) ==
  IF bitmap >= 256 THEN 8 + search_byte(bitmap \div 256)
                   ELSE search_byte(bitmap)

HasBit(bitmap, pri) == (bitmap \div PRIMAP_BIT(pri)) % 2 = 1
SetBit(bitmap, pri) == IF HasBit(bitmap, pri) THEN bitmap
                       ELSE bitmap + PRIMAP_BIT(pri)
ClearBit(bitmap, pri) == IF HasBit(bitmap, pri) THEN bitmap - PRIMAP_BIT(pri)
                         ELSE bitmap

-----------------------------------------------------------------------------
(* The lists. *)

(* Fault: the last task is only set when a task is appended. *)
ready_insert_first_NoLast(r, pri, t) ==
  [r EXCEPT !.first[pri] = t, !.next[t] = r.first[pri],
            !.primap = SetBit(@, pri)]

ready_insert_first(r, pri, t) ==
  [r EXCEPT !.first[pri] = t, !.next[t] = r.first[pri],
            !.last[pri]  = IF r.first[pri] = TSKID_NULL THEN t ELSE @,
            !.primap = SetBit(@, pri)]

ready_insert_last(r, pri, t) ==
  LET linked == IF r.first[pri] = TSKID_NULL
                THEN [r EXCEPT !.first[pri] = t]
                ELSE [r EXCEPT !.next[r.last[pri]] = t]
  IN  [linked EXCEPT !.last[pri] = t, !.next[t] = TSKID_NULL,
                     !.primap = SetBit(@, pri)]

make_runnable(r, curpri, t) ==
  LET pri      == curpri[t]
      schedpri == curpri[r.schedtsk]
  IN  IF r.schedtsk = TSKID_NULL
      THEN [r EXCEPT !.schedtsk = t]
      ELSE IF pri > schedpri
      THEN [ready_insert_first(r, schedpri, r.schedtsk)
              EXCEPT !.nextpri = schedpri, !.schedtsk = t]
      ELSE [ready_insert_last(r, pri, t)
              EXCEPT !.nextpri = IF pri > @ THEN pri ELSE @]

search_schedtsk(r) ==
  LET first   == r.first[r.nextpri]
      deleted == [r EXCEPT !.schedtsk = first, !.first[r.nextpri] = r.next[first]]
      primap  == ClearBit(r.primap, r.nextpri)
  IN  IF r.primap = 0 THEN [r EXCEPT !.schedtsk = TSKID_NULL]
      ELSE IF deleted.first[r.nextpri] # TSKID_NULL THEN deleted
      ELSE [deleted EXCEPT !.primap = primap,
              !.nextpri = IF primap = 0 THEN TPRI_MINTASK ELSE bitmap_search(primap)]

preempt(r, curpri) ==
  search_schedtsk(ready_insert_first(r, curpri[r.schedtsk], r.schedtsk))

-----------------------------------------------------------------------------
(* The calls. *)

(* The tasks of one list, from the first to the one that ends it. *)
Chain(r, pri) ==
  LET tasks[n \in 0 .. tnum_task] ==
        [t \in TaskId \cup {TSKID_NULL} |->
           IF n = 0 \/ t = TSKID_NULL THEN <<>>
           ELSE <<t>> \o tasks[n - 1][r.next[t]]]
  IN  tasks[tnum_task][r.first[pri]]

IsReady(t) ==
  \/ t = ready.schedtsk
  \/ \E p \in Priority : \E i \in 1 .. Len(Chain(ready, p)) : Chain(ready, p)[i] = t

Init ==
  /\ ready = [first  |-> [p \in Priority |-> TSKID_NULL],
              last   |-> [p \in Priority |-> 0],
              next   |-> [t \in TaskId |-> 0],
              primap |-> 0, nextpri |-> TPRI_MINTASK, schedtsk |-> TSKID_NULL]
  /\ tcb_curpri = [t \in TaskId |-> TPRI_MINTASK]

BecomesReady(t, p) ==
  /\ ~ IsReady(t)
  /\ tcb_curpri' = [tcb_curpri EXCEPT ![t] = p]
  /\ ready' = make_runnable(ready, tcb_curpri', t)

Leaves ==
  /\ ready.schedtsk # TSKID_NULL
  /\ ready' = search_schedtsk(ready)
  /\ UNCHANGED tcb_curpri

ChangesPriority(p) ==
  /\ ready.schedtsk # TSKID_NULL
  /\ tcb_curpri' = [tcb_curpri EXCEPT ![ready.schedtsk] = p]
  /\ ready' = IF p < ready.nextpri THEN preempt(ready, tcb_curpri') ELSE ready

Next ==
  \/ \E p \in PriorityInUse : \/ \E t \in TaskId : BecomesReady(t, p)
                              \/ ChangesPriority(p)
  \/ Leaves

Spec == Init /\ [][Next]_vars

-----------------------------------------------------------------------------
(* What the links and the bitmap stand for. *)
Mapped == [queue    |-> [p \in Priority |-> Chain(ready, p)],
           primap   |-> {p \in Priority : HasBit(ready.primap, p)},
           nextpri  |-> ready.nextpri,
           schedtsk |-> ready.schedtsk]

Queue == INSTANCE ReadyQueue
           WITH sched <- Mapped,
                tcb <- [t \in TaskId |-> [curpri |-> tcb_curpri[t]]]

(* The lists, whose last task may be stale and whose removed tasks keep    *)
(* their links, and the table search of the bitmap behave as the sequences *)
(* and the set of priorities that the kernel's model is built on.          *)
ImplementsReadyQueue == Queue!Spec
=============================================================================
