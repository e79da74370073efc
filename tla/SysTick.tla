------------------------------ MODULE SysTick ------------------------------
(***************************************************************************)
(* The millisecond tick of nxtOSEK: from the periodic timer over the       *)
(* interrupt controller (AIC) to the hook that signals the OSEK counter.   *)
(*                                                                         *)
(*   sysirq  the timer's interrupt, systick_isr_C, at level NORMAL: counts *)
(*           systick_ms and raises by software                             *)
(*   low     systick_isr_C1 of hw_sys_timer.c, at level LOW: calls         *)
(*           user_1ms_isr_type2, where applications call SignalCounter,    *)
(*           and systick_low_priority_C                                    *)
(*                                                                         *)
(* The AIC holds the levels of the interrupts it delivered, delivers only  *)
(* one of a higher level, and forgets the last one when AIC_EOICR is       *)
(* written.  cpu_support.S writes it in int_return: a task switch from a   *)
(* handler (ret_int) leaves it to the preempted task, when that resumes.   *)
(*                                                                         *)
(* The scheduler is reduced to what matters here: tasks are numbered by    *)
(* priority and the highest ready one is dispatched.                       *)
(***************************************************************************)
EXTENDS Integers, Sequences, FiniteSets, FiniteSetsExt

CONSTANT Ntask   \* tasks 1 .. Ntask, the number being the priority

ASSUME SysTickConfig == Ntask \in Nat \ {0}

Task   == 1 .. Ntask
Idle   == 0
Source == {"sysirq", "low"}

VARIABLES
  cpu,         \* the task that runs or is interrupted
  ready,       \* the other runnable tasks
  parked,      \* those of them that resume at ret_int_r
  isr,         \* active handlers, innermost first, and how far they are
  inservice,   \* sources whose level the AIC holds, innermost first
  pending      \* sources latched in the AIC

vars == <<cpu, ready, parked, isr, inservice, pending>>

(* Fault: both sources have the level NORMAL. *)
Level_Equal(s) == 4

(* AIC_INT_LEVEL_NORMAL and AIC_INT_LEVEL_LOW of aic.h. *)
Level(s) == IF s = "sysirq" THEN 4 ELSE 2

(* The level of the interrupt in service, 0 if there is none. *)
InService == IF inservice = <<>> THEN 0 ELSE Level(Head(inservice))

(* Fault: an interrupt is not masked by one of its own level. *)
Deliverable_SameLevel(s) == s \in pending /\ Level(s) >= InService

Deliverable(s) == s \in pending /\ Level(s) > InService

Handling(s) == \E i \in 1 .. Len(isr) : isr[i].src = s

-----------------------------------------------------------------------------
(* Hardware. *)

(* The timer expires.  A millisecond is longer than it takes to enter a    *)
(* deliverable interrupt and to run a handler.                             *)
Pit ==
  /\ "sysirq" \notin pending /\ ~ Handling("sysirq")
  /\ ~ Deliverable("low")
  /\ \A i \in 1 .. Len(isr) : ~ isr[i].hit
  /\ pending' = pending \cup {"sysirq"}
  /\ isr' = [i \in 1 .. Len(isr) |-> [isr[i] EXCEPT !.hit = TRUE]]
  /\ UNCHANGED <<cpu, ready, parked, inservice>>

(* irq_wrapper_type2 and _interrupt up to the call of the C function. *)
irq_wrapper_type2(s) ==
  /\ Deliverable(s)
  /\ pending' = pending \ {s}
  /\ inservice' = <<s>> \o inservice
  /\ isr' = <<[src |-> s, at |-> "entry", hit |-> FALSE]>> \o isr
  /\ UNCHANGED <<cpu, ready, parked>>

-----------------------------------------------------------------------------
(* Handlers. *)

InHandler(s, at) == isr # <<>> /\ isr[1].src = s /\ isr[1].at = at
GoesTo(at) == isr' = [isr EXCEPT ![1].at = at]

systick_isr_C ==
  /\ InHandler("sysirq", "entry")
  /\ GoesTo("exit")
  /\ pending' = pending \cup {"low"}                  \* AIC_ISCR
  /\ UNCHANGED <<cpu, ready, parked, inservice>>

systick_isr_C1 ==
  /\ InHandler("low", "entry")
  /\ GoesTo("hook")
  /\ pending' = pending \ {"low"}                     \* AIC_ICCR
  /\ UNCHANGED <<cpu, ready, parked, inservice>>

(* SignalCounter: an alarm may activate a task. *)
user_1ms_isr_type2 ==
  /\ InHandler("low", "hook")
  /\ GoesTo("update")
  /\ \/ UNCHANGED ready
     \/ \E t \in Task \ ({cpu} \cup ready) : ready' = ready \cup {t}
  /\ UNCHANGED <<cpu, parked, inservice, pending>>

systick_low_priority_C ==
  /\ InHandler("low", "update")
  /\ GoesTo("exit")
  /\ pending' = pending \ {"low"}                     \* AIC_ICCR
  /\ UNCHANGED <<cpu, ready, parked, inservice>>

-----------------------------------------------------------------------------
(* Dispatching. *)

Highest(r) == IF r = {} THEN Idle ELSE Max(r)

(* Fault: a preempted task resumes without the end of its interrupt. *)
Dispatch_NoEnd(r, p) ==
  /\ cpu' = Highest(r)
  /\ ready' = r \ {cpu'}
  /\ parked' = p \ {cpu'}
  /\ UNCHANGED inservice

(* Fault: the task still counts as preempted. *)
Dispatch_StaysParked(r, p) ==
  /\ cpu' = Highest(r)
  /\ ready' = r \ {cpu'}
  /\ parked' = p
  /\ inservice' = IF cpu' \in p THEN Tail(inservice) ELSE inservice

(* start_dispatch.  A task that was preempted by an interrupt resumes at   *)
(* ret_int_r and int_return, which writes AIC_EOICR.                       *)
Dispatch(r, p) ==
  /\ cpu' = Highest(r)
  /\ ready' = r \ {cpu'}
  /\ parked' = p \ {cpu'}
  /\ inservice' = IF cpu' \in p THEN Tail(inservice) ELSE inservice

(* _interrupt behind the C function: ret_int or int_return. *)
int_return ==
  /\ isr # <<>> /\ isr[1].at = "exit"
  /\ isr' = Tail(isr)
  /\ \/ /\ isr' = <<>> /\ cpu # Idle /\ Highest(ready) > cpu
        /\ Dispatch(ready \cup {cpu}, parked \cup {cpu})
     \/ /\ ~ (isr' = <<>> /\ cpu # Idle /\ Highest(ready) > cpu)
        /\ inservice' = Tail(inservice)
        /\ UNCHANGED <<cpu, ready, parked>>
  /\ UNCHANGED <<pending>>

idle_loop ==
  /\ isr = <<>> /\ cpu = Idle /\ ready # {}
  /\ Dispatch(ready, parked)
  /\ UNCHANGED <<isr, pending>>

(* The running task terminates or waits. *)
TaskLeaves ==
  /\ isr = <<>> /\ cpu # Idle
  /\ Dispatch(ready, parked)
  /\ UNCHANGED <<isr, pending>>

(* The running task activates another one: dispatch, if that is higher. *)
TaskActivates(t) ==
  /\ isr = <<>> /\ cpu # Idle
  /\ t \notin {cpu} \cup ready
  /\ Dispatch({cpu, t} \cup ready, parked)
  /\ UNCHANGED <<isr, pending>>

-----------------------------------------------------------------------------
Init == /\ cpu = Idle /\ ready = {} /\ parked = {}
        /\ isr = <<>> /\ inservice = <<>> /\ pending = {}

Handlers == \/ systick_isr_C \/ systick_isr_C1 \/ user_1ms_isr_type2
            \/ systick_low_priority_C \/ int_return

Next == \/ Pit
        \/ \E s \in Source : irq_wrapper_type2(s)
        \/ Handlers
        \/ idle_loop
        \/ TaskLeaves
        \/ \E t \in Task : TaskActivates(t)

Spec == Init /\ [][Next]_vars

(* The timer never stops, and the processor enters the interrupts it is    *)
(* given and goes on with handlers and the idle loop.                      *)
FairSpec == /\ Spec
            /\ WF_vars(Pit) /\ WF_vars(Handlers) /\ WF_vars(idle_loop)
            /\ \A s \in Source : WF_vars(irq_wrapper_type2(s))

-----------------------------------------------------------------------------
Handler == [src : Source, at : {"entry", "hook", "update", "exit"}, hit : BOOLEAN]

(* Type invariant. *)
TypeOK == /\ cpu \in Task \cup {Idle}
          /\ ready \subseteq Task /\ parked \subseteq ready
          /\ isr \in Seq(Handler)
          /\ inservice \in Seq(Source)
          /\ pending \subseteq Source

(* Every delivered interrupt is ended once: the AIC holds the levels of    *)
(* the active handlers and below them those of the tasks that one of them  *)
(* preempted, in falling order, although an interrupt may be ended by      *)
(* another context, much later than its handler.                           *)
EndsExact ==
  /\ Len(inservice) = Len(isr) + Cardinality(parked)
  /\ \A i \in 1 .. Len(isr) : inservice[i] = isr[i].src
  /\ \A i, j \in 1 .. Len(inservice) :
       i < j => Level(inservice[i]) > Level(inservice[j])

(* SignalCounter, the motor and the AVR updates are never re-entered, nor  *)
(* run while a task they preempted has not been resumed.                   *)
TickNotReentered ==
  Cardinality({i \in 1 .. Len(isr) : isr[i].src = "low"}) + Cardinality(parked) <= 1

(* systick_ms goes on: the timer's interrupt is never held back by one     *)
(* that is not ended, whatever task runs (systick_wait_ms relies on it).   *)
MsCounted == "sysirq" \in pending => Deliverable("sysirq")

(* Ticks never cease: if the tasks leave the processor idle again and      *)
(* again, every interrupt is ended at last, by whatever task resumes, and  *)
(* the hook is called again.                                               *)
TicksGoOn == ([]<>(cpu = Idle)) => []<>InHandler("low", "hook")
=============================================================================
