----------------------------- MODULE OsekAlarm -----------------------------
(***************************************************************************)
(* Alarms of the TOPPERS/OSEK kernel, toppers_osek/kernel/alarm.c, for one *)
(* counter and the alarms attached to it: alarms of different counters     *)
(* share nothing.  The queue is the code's: a chain of almcb_next and      *)
(* almcb_prev from cntcb_almque, ordered by expiry, in which an alarm that *)
(* is its own successor is not queued.                                     *)
(*                                                                         *)
(* A service is one step, being locked.  SignalCounter unlocks the CPU     *)
(* around each alarm callback, so it is one step up to the first callback  *)
(* and one from each callback to the next: meanwhile the callback, and     *)
(* interrupts of a higher level, may set and cancel any alarm.             *)
(***************************************************************************)
EXTENDS Integers, FiniteSets

CONSTANTS
  tnum_alarm,         \* number of alarms
  cntinib_maxval,     \* largest value of the counter for the user
  cntinib_tickbase,   \* ticks the counter advances by at a time
  cntinib_mincyc,     \* shortest cycle of an alarm
  TickMod,            \* number of values of TickType: 2^32 in the code
  alminib_autosta,    \* alarms set when the system starts
  alminib_almval,     \* tick at which each of those expires
  alminib_cycle       \* cycle of each of those, 0 for none

ALMID_NULL == 255
AlarmId    == 0 .. tnum_alarm - 1
Link       == AlarmId \cup {ALMID_NULL}

(* The counter runs from 0 to maxval2: twice the range the user sees, so   *)
(* that a tick that is past is told from one to come.                      *)
cntinib_maxval2 == 2 * cntinib_maxval + 1
TickType        == 0 .. TickMod - 1
CounterVal      == 0 .. cntinib_maxval2
Cycle           == {0} \cup cntinib_mincyc .. cntinib_maxval

ASSUME AlarmConfig ==
  /\ tnum_alarm \in 1 .. ALMID_NULL
  /\ cntinib_maxval \in Nat \ {0}
  /\ cntinib_tickbase \in 1 .. cntinib_maxval
  /\ cntinib_mincyc \in 1 .. cntinib_maxval
  /\ TickMod \in Nat /\ cntinib_maxval2 < TickMod
  /\ alminib_autosta \subseteq AlarmId
  /\ alminib_almval \in [AlarmId -> 1 .. cntinib_maxval]
  /\ alminib_cycle \in [AlarmId -> Cycle]

VARIABLES
  cntcb_curval,   \* the counter
  almque,         \* queue: cntcb_almque (head), almcb_next and almcb_prev
  almcb_almval,   \* tick at which each alarm expires
  almcb_cycle,    \* cycle of each alarm
  newval,         \* SignalCounter's copy of the counter
  almid           \* alarm whose callback SignalCounter runs, or ALMID_NULL

vars == <<cntcb_curval, almque, almcb_almval, almcb_cycle, newval, almid>>

Queue == [head : Link, next : [AlarmId -> Link], prev : [AlarmId -> Link]]

-----------------------------------------------------------------------------
(* Arithmetic of TickType, which wraps around. *)

Tick(n) == n % TickMod

(* Fault: the counter's range is left. *)
add_tick_NoWrap(almval, incr) == Tick(almval + incr)

(* Fault: the obvious condition, which the sum's overflow defeats. *)
add_tick_Overflows(almval, incr) ==
  IF Tick(almval + incr) <= cntinib_maxval2
  THEN Tick(almval + incr)
  ELSE Tick(Tick(almval + incr) - Tick(cntinib_maxval2 + 1))

add_tick(almval, incr) ==
  IF incr <= cntinib_maxval2 - almval
  THEN Tick(almval + incr)
  ELSE Tick(Tick(almval + incr) - Tick(cntinib_maxval2 + 1))

diff_tick(val1, val2) ==
  IF val1 >= val2
  THEN val1 - val2
  ELSE Tick(Tick(val1 - val2) + Tick(cntinib_maxval2 + 1))

-----------------------------------------------------------------------------
(* The queue. *)

Queued(q, a) == q.next[a] # a

(* The alarm behind p, the first one for p = ALMID_NULL. *)
Behind(q, p) == IF p = ALMID_NULL THEN q.head ELSE q.next[p]

(* Fault: the search takes no notice of the counter's overflow. *)
Passes_NoOverflow(almval, curval, a, n) == almval[n] <= almval[a]

(* Fault: the search stops in front of an alarm of the same tick. *)
Passes_StopsAtEqual(almval, curval, a, n) ==
  IF curval < almval[a]
  THEN curval <= almval[n] /\ almval[n] < almval[a]
  ELSE curval <= almval[n] \/ almval[n] < almval[a]

(* enqueue_alarm's search goes past alarm n on its way to a's place. *)
Passes(almval, curval, a, n) ==
  IF curval < almval[a]
  THEN curval <= almval[n] /\ almval[n] <= almval[a]
  ELSE curval <= almval[n] \/ almval[n] <= almval[a]

(* Makes n the successor of p, and p the predecessor of n. *)
Linked(q, p, n) ==
  [head |-> IF p = ALMID_NULL THEN n ELSE q.head,
   next |-> IF p = ALMID_NULL THEN q.next ELSE [q.next EXCEPT ![p] = n],
   prev |-> IF n = ALMID_NULL THEN q.prev ELSE [q.prev EXCEPT ![n] = p]]

enqueue_alarm(q, almval, curval, a) ==
  LET stop[p \in Link] ==
        LET n == Behind(q, p)
        IN  IF n # ALMID_NULL /\ Passes(almval, curval, a, n) THEN stop[n] ELSE p
      prev == stop[ALMID_NULL]
      next == Behind(q, prev)
      q1   == [q EXCEPT !.next[a] = next, !.prev[a] = prev]
  IN  Linked(Linked(q1, prev, a), a, next)

(* Fault: the successor keeps its link to the alarm that is gone. *)
dequeue_alarm_KeepsPrev(q, a) ==
  LET q1 == IF q.prev[a] = ALMID_NULL THEN [q EXCEPT !.head = q.next[a]]
            ELSE [q EXCEPT !.next[q.prev[a]] = q.next[a]]
  IN  [q1 EXCEPT !.next[a] = a]

dequeue_alarm(q, a) ==
  [Linked(q, q.prev[a], q.next[a]) EXCEPT !.next[a] = a]

-----------------------------------------------------------------------------
(* Services.  One that fails a check changes no alarm. *)

SetAlarm(a, almval, cycle) ==
  /\ ~ Queued(almque, a)
  /\ almcb_almval' = [almcb_almval EXCEPT ![a] = almval]
  /\ almcb_cycle' = [almcb_cycle EXCEPT ![a] = cycle]
  /\ almque' = enqueue_alarm(almque, almcb_almval', cntcb_curval, a)
  /\ UNCHANGED <<cntcb_curval, newval, almid>>

SetRelAlarm(a, incr, cycle) ==
  /\ incr \in 1 .. cntinib_maxval
  /\ cycle \in Cycle
  /\ SetAlarm(a, add_tick(cntcb_curval, incr), cycle)

(* The next tick after the current one that the user sees as start. *)
AbsTick(start) ==
  LET start2 == Tick(start + cntinib_maxval + 1)
  IN  IF cntcb_curval <= cntinib_maxval
      THEN IF start <= cntcb_curval THEN start2 ELSE start
      ELSE IF start2 <= cntcb_curval THEN start ELSE start2

SetAbsAlarm(a, start, cycle) ==
  /\ start \in 0 .. cntinib_maxval
  /\ cycle \in Cycle
  /\ SetAlarm(a, AbsTick(start), cycle)

(* Fault: the cycle stays. *)
CancelAlarm_KeepsCycle(a) ==
  /\ Queued(almque, a)
  /\ almque' = dequeue_alarm(almque, a)
  /\ UNCHANGED <<cntcb_curval, almcb_almval, almcb_cycle, newval, almid>>

CancelAlarm(a) ==
  /\ Queued(almque, a)
  /\ almque' = dequeue_alarm(almque, a)
  /\ almcb_cycle' = [almcb_cycle EXCEPT ![a] = 0]
  /\ UNCHANGED <<cntcb_curval, almcb_almval, newval, almid>>

(* What GetAlarm returns for a queued alarm. *)
GetAlarm(a) ==
  IF cntcb_curval < almcb_almval[a]
  THEN almcb_almval[a] - cntcb_curval
  ELSE (cntinib_maxval2 - cntcb_curval) + 1 + almcb_almval[a]

-----------------------------------------------------------------------------
(* SignalCounter, called by a category 2 interrupt handler. *)

(* The head of the loop: the first alarm, if it is due, leaves the queue   *)
(* and its callback is called; otherwise the service returns.              *)
ExpireFirst(q, almval, val) ==
  LET first == q.head
      due   == first # ALMID_NULL
               /\ diff_tick(val, almval[first]) <= cntinib_maxval
  IN  /\ newval' = val
      /\ \/ /\ due
            /\ almque' = [Linked(q, ALMID_NULL, q.next[first])
                            EXCEPT !.next[first] = first]
            /\ almid' = first
         \/ /\ ~ due
            /\ almque' = q
            /\ almid' = ALMID_NULL

SignalCounter ==
  /\ almid = ALMID_NULL
  /\ cntcb_curval' = add_tick(cntcb_curval, cntinib_tickbase)
  /\ ExpireFirst(almque, almcb_almval, cntcb_curval')
  /\ UNCHANGED <<almcb_almval, almcb_cycle>>

(* The callback returns: a periodic alarm that it has not set again goes   *)
(* back into the queue, and the loop goes on with the next alarm.          *)
CallbackReturn ==
  /\ almid # ALMID_NULL
  /\ IF ~ Queued(almque, almid) /\ almcb_cycle[almid] > 0
     THEN LET almval1 == [almcb_almval EXCEPT ![almid] =
                            add_tick(@, almcb_cycle[almid])]
          IN  /\ almcb_almval' = almval1
              /\ ExpireFirst(enqueue_alarm(almque, almval1, cntcb_curval, almid),
                             almval1, newval)
     ELSE /\ ExpireFirst(almque, almcb_almval, newval)
          /\ UNCHANGED almcb_almval
  /\ UNCHANGED <<cntcb_curval, almcb_cycle>>

-----------------------------------------------------------------------------
(* alarm_initialize: the loop over the alarms, with the counter at 0. *)

InitialAlmval == [a \in AlarmId |-> IF a \in alminib_autosta
                                    THEN alminib_almval[a] ELSE 0]

InitialQueue ==
  LET empty == [head |-> ALMID_NULL, next |-> [a \in AlarmId |-> a],
                prev |-> [a \in AlarmId |-> 0]]
      upto[n \in 0 .. tnum_alarm] ==
        IF n = 0 THEN empty
        ELSE IF n - 1 \in alminib_autosta
        THEN enqueue_alarm(upto[n - 1], InitialAlmval, 0, n - 1)
        ELSE upto[n - 1]
  IN  upto[tnum_alarm]

Init ==
  /\ cntcb_curval = 0
  /\ almque = InitialQueue
  /\ almcb_almval = InitialAlmval
  /\ almcb_cycle = [a \in AlarmId |-> IF a \in alminib_autosta
                                      THEN alminib_cycle[a] ELSE 0]
  /\ newval = 0
  /\ almid = ALMID_NULL

Next ==
  \/ \E a \in AlarmId :
       \/ \E incr \in 1 .. cntinib_maxval, cycle \in Cycle :
            SetRelAlarm(a, incr, cycle)
       \/ \E start \in 0 .. cntinib_maxval, cycle \in Cycle :
            SetAbsAlarm(a, start, cycle)
       \/ CancelAlarm(a)
  \/ SignalCounter
  \/ CallbackReturn

Spec == Init /\ [][Next]_vars

-----------------------------------------------------------------------------
(* Type invariant. *)
TypeOK ==
  /\ cntcb_curval \in CounterVal
  /\ almque \in Queue
  /\ almcb_almval \in [AlarmId -> CounterVal]
  /\ almcb_cycle \in [AlarmId -> Cycle]
  /\ newval \in CounterVal
  /\ almid \in Link

(* Following next from link p leads to alarm a: no set of alarms without a *)
(* that p is in keeps every next of its members.                           *)
Leads(q, p, a) ==
  ~ \E S \in SUBSET (AlarmId \ {a}) :
      /\ p \in S \cup {ALMID_NULL}
      /\ \A b \in S : q.next[b] \in S \cup {ALMID_NULL}

Reached(q) == {a \in AlarmId : Leads(q, q.head, a)}

(* The queue is one chain: the alarms that are not their own successor are *)
(* those reached from the head, and prev leads back, whatever order alarms *)
(* are set, cancelled and expire in.  A second insertion of an alarm, or a *)
(* link left behind by a removal, breaks it.                               *)
QueueIsChain ==
  /\ Reached(almque) = {a \in AlarmId : Queued(almque, a)}
  /\ \A a \in Reached(almque) : /\ Behind(almque, almque.prev[a]) = a
                                /\ a # Behind(almque, a)
  /\ \A a, b \in Reached(almque) :
       almque.next[a] = almque.next[b] => a = b

(* Between two advances of the counter every set alarm is 1 to maxval + 1  *)
(* ticks ahead and GetAlarm tells how many: none was passed over because   *)
(* it stood behind a later one, or because the counter overflowed.         *)
ExpiresInTime ==
  almid = ALMID_NULL =>
    \A a \in AlarmId :
      Queued(almque, a) => GetAlarm(a) \in 1 .. cntinib_maxval + 1

(* A periodic alarm is never lost: it is in the queue, or its callback     *)
(* runs and will put it back.                                              *)
PeriodicStays ==
  \A a \in AlarmId : almcb_cycle[a] > 0 => Queued(almque, a) \/ almid = a

(* Alarms set to the same tick expire in the order they were set, the      *)
(* comment of enqueue_alarm: nothing overtakes a queued alarm of its tick. *)
Before(q, a, b) == Queued(q, a) /\ Leads(q, q.next[a], b)

SameTickInOrder ==
  [][\A a, b \in AlarmId :
       (/\ Queued(almque, a) /\ Queued(almque', a) /\ Queued(almque', b)
        /\ ~ Queued(almque, b) \/ Before(almque, a, b)
        /\ almcb_almval'[a] = almcb_almval'[b])
         => Before(almque', a, b)]_vars

(* The alarms as timers: the number of ticks left of a set alarm is the    *)
(* distance from the counter to its tick, 0 when it is due.                *)
left == [a \in AlarmId |-> IF Queued(almque, a)
                           THEN diff_tick(almcb_almval[a], cntcb_curval) ELSE -1]

Timers == INSTANCE AlarmTimers
            WITH Alarm <- AlarmId, MaxLeft <- cntinib_maxval + 1,
                 Quiet <- ALMID_NULL, period <- almcb_cycle, firing <- almid

(* The counter, its overflow and the ordered queue implement the timers:   *)
(* every alarm expires at exactly the tick it was set to, once per cycle,  *)
(* and never after it was cancelled.                                       *)
ImplementsTimers == Timers!Spec

=============================================================================
