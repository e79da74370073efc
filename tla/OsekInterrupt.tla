--------------------------- MODULE OsekInterrupt ---------------------------
(***************************************************************************)
(* Interrupt suspension services of the kernel,                            *)
(* toppers_osek/kernel/interrupt.c, called by tasks, by interrupt handlers *)
(* and by ErrorHook, which interrupt one another.                          *)
(*                                                                         *)
(* SuspendAllInterrupts closes the processor's interrupts.                 *)
(* SuspendOSInterrupts means to raise the priority level, but set_ipl() is *)
(* empty for this CPU: interrupts go on inside it and between its own      *)
(* instructions, each of which that touches shared data is a step here.    *)
(* Both services keep the caller's callevel in the one saved_callevel and  *)
(* put TCL_NULL in its place, so that other services refuse.               *)
(*                                                                         *)
(* What runs is a stack of frames: the innermost handler, hook or task is  *)
(* first, and below it what it interrupted.  A program closes what it      *)
(* opened, in any order, before it ends.                                   *)
(***************************************************************************)
EXTENDS Integers, Sequences

CONSTANTS
  Ntask,          \* tasks 1 .. Ntask, the number being the priority
  MaxDepth,       \* bound: frames on the stack
  MaxOpen,        \* bound: sections of each kind that a frame has open
  UINT8_INVALID   \* largest nesting count, 255 in the code

ASSUME InterruptConfig ==
  /\ Ntask \in Nat \ {0} /\ MaxDepth \in Nat \ {0} /\ MaxOpen \in Nat \ {0}
  /\ UINT8_INVALID \in Nat /\ MaxOpen * MaxDepth < UINT8_INVALID

VARIABLES
  stack,            \* frames, innermost first
  callevel,         \* context, as the services check it
  saved_callevel,   \* callevel outside the sections
  sus_all_cnt,      \* nesting of SuspendAllInterrupts
  sus_os_cnt,       \* nesting of SuspendOSInterrupts
  intena            \* the processor takes interrupts

interruptVars == <<stack, callevel, saved_callevel, sus_all_cnt, sus_os_cnt, intena>>

Task    == 1 .. Ntask
Hook    == 0
Handler == Ntask + 1
Who     == Task \cup {Hook, Handler}

CallLevel == {"TASK", "ISR2", "ERROR", "NULL"}

(* The level at which a frame runs outside of its sections. *)
Level(who) == IF who = Handler THEN "ISR2" ELSE IF who = Hook THEN "ERROR" ELSE "TASK"

(* who runs, at which point, its open sections of both kinds, and callevel *)
(* as _interrupt (in r10) or call_errorhook saved it.                      *)
FrameOf(who) == [who |-> who, at |-> "out", all |-> 0, os |-> 0, cl |-> callevel]

Top     == Head(stack)
Goes(f) == stack' = <<f>> \o Tail(stack)
At(at)  == Top.at = at
MovesTo(at) == Goes([Top EXCEPT !.at = at])

InSection(f) == f.all > 0 \/ f.os > 0

Inc(cnt) == IF cnt = UINT8_INVALID THEN cnt ELSE cnt + 1

-----------------------------------------------------------------------------
(* The services.  A caller that is interrupted finds both counters as it   *)
(* left them, so one that closed the interrupts runs as one step.          *)

DisableAllInterrupts ==
  /\ At("out") /\ ~ InSection(Top)
  /\ MovesTo("disabled")
  /\ intena' = FALSE
  /\ UNCHANGED <<callevel, saved_callevel, sus_all_cnt, sus_os_cnt>>

EnableAllInterrupts ==
  /\ At("disabled")
  /\ MovesTo("out")
  /\ intena' = TRUE
  /\ UNCHANGED <<callevel, saved_callevel, sus_all_cnt, sus_os_cnt>>

SuspendAllInterrupts(at) ==
  /\ Goes([Top EXCEPT !.at = at, !.all = @ + 1])
  /\ sus_all_cnt' = Inc(sus_all_cnt)
  /\ intena' = FALSE
  /\ \/ /\ sus_all_cnt = 0 /\ sus_os_cnt = 0
        /\ saved_callevel' = callevel
        /\ callevel' = "NULL"
     \/ /\ sus_all_cnt > 0 \/ sus_os_cnt > 0
        /\ UNCHANGED <<callevel, saved_callevel>>
  /\ UNCHANGED sus_os_cnt

(* Fault: an inner section's end opens the interrupts. *)
ResumeAllInterrupts_Inner(at) ==
  /\ Goes([Top EXCEPT !.at = at, !.all = @ - 1])
  /\ sus_all_cnt' = sus_all_cnt - 1
  /\ intena' = TRUE
  /\ callevel' = IF sus_all_cnt = 1 /\ sus_os_cnt = 0 THEN saved_callevel ELSE callevel
  /\ UNCHANGED <<saved_callevel, sus_os_cnt>>

(* Fault: the count is not tested. *)
ResumeAllInterrupts_NoTest(at) ==
  /\ Goes([Top EXCEPT !.at = at, !.all = @ - 1])
  /\ sus_all_cnt' = sus_all_cnt - 1
  /\ intena' = TRUE
  /\ UNCHANGED <<callevel, saved_callevel, sus_os_cnt>>

(* Without a SuspendAllInterrupts before it, the service does nothing. *)
ResumeAllInterrupts(at) ==
  /\ Top.all > 0
  /\ Goes([Top EXCEPT !.at = at, !.all = @ - 1])
  /\ sus_all_cnt' = sus_all_cnt - 1
  /\ intena' = (sus_all_cnt = 1)
  /\ callevel' = IF sus_all_cnt = 1 /\ sus_os_cnt = 0 THEN saved_callevel ELSE callevel
  /\ UNCHANGED <<saved_callevel, sus_os_cnt>>

(* SuspendOSInterrupts: the count is tested and raised, the other one is   *)
(* tested, callevel is saved, and then replaced.                           *)
SuspendOS_Test ==
  /\ At("out") /\ Top.os < MaxOpen
  /\ \/ /\ sus_os_cnt = 0
        /\ MovesTo("sus_inc")
        /\ UNCHANGED sus_os_cnt
     \/ /\ sus_os_cnt > 0
        /\ Goes([Top EXCEPT !.os = @ + 1])
        /\ sus_os_cnt' = Inc(sus_os_cnt)
  /\ UNCHANGED <<callevel, saved_callevel, sus_all_cnt, intena>>

(* Fault: saved_callevel is written although SuspendAllInterrupts uses it. *)
SuspendOS_Count_Overwrites ==
  /\ At("sus_inc")
  /\ sus_os_cnt' = sus_os_cnt + 1
  /\ MovesTo("sus_save")
  /\ UNCHANGED <<callevel, saved_callevel, sus_all_cnt, intena>>

SuspendOS_Count ==
  /\ At("sus_inc")
  /\ sus_os_cnt' = sus_os_cnt + 1
  /\ \/ /\ sus_all_cnt = 0
        /\ MovesTo("sus_save")
     \/ /\ sus_all_cnt > 0
        /\ Goes([Top EXCEPT !.at = "out", !.os = @ + 1])
  /\ UNCHANGED <<callevel, saved_callevel, sus_all_cnt, intena>>

SuspendOS_Save ==
  /\ At("sus_save")
  /\ saved_callevel' = callevel
  /\ MovesTo("sus_null")
  /\ UNCHANGED <<callevel, sus_all_cnt, sus_os_cnt, intena>>

SuspendOS_Null ==
  /\ At("sus_null")
  /\ callevel' = "NULL"
  /\ Goes([Top EXCEPT !.at = "out", !.os = @ + 1])
  /\ UNCHANGED <<saved_callevel, sus_all_cnt, sus_os_cnt, intena>>

(* ResumeOSInterrupts: callevel is restored before the count is lowered. *)
ResumeOS_Test ==
  /\ At("out") /\ Top.os > 0
  /\ \/ /\ sus_os_cnt = 1
        /\ callevel' = IF sus_all_cnt = 0 THEN saved_callevel ELSE callevel
        /\ MovesTo("res_dec")
        /\ UNCHANGED sus_os_cnt
     \/ /\ sus_os_cnt > 1
        /\ Goes([Top EXCEPT !.os = @ - 1])
        /\ sus_os_cnt' = sus_os_cnt - 1
        /\ UNCHANGED callevel
  /\ UNCHANGED <<saved_callevel, sus_all_cnt, intena>>

ResumeOS_Count ==
  /\ At("res_dec")
  /\ sus_os_cnt' = sus_os_cnt - 1
  /\ Goes([Top EXCEPT !.at = "out", !.os = @ - 1])
  /\ UNCHANGED <<callevel, saved_callevel, sus_all_cnt, intena>>

-----------------------------------------------------------------------------
(* Interrupts, ErrorHook and tasks. *)

Room == Len(stack) < MaxDepth
Runs(f) == \E i \in 1 .. Len(stack) : stack[i].who = f

(* irq_wrapper_type2 and _interrupt. *)
_interrupt ==
  /\ intena /\ Room
  /\ stack' = <<FrameOf(Handler)>> \o stack
  /\ callevel' = "ISR2"
  /\ UNCHANGED <<saved_callevel, sus_all_cnt, sus_os_cnt, intena>>

Ends == At("out") /\ ~ InSection(Top)

(* The handler returns.  If it interrupted a task, a task of a higher      *)
(* priority that it made ready is dispatched first and runs to its end.    *)
int_return ==
  /\ Top.who = Handler /\ Ends
  /\ callevel' = Top.cl
  /\ \/ stack' = Tail(stack)
     \/ /\ callevel' = "TASK"
        /\ \E t \in Task :
             /\ \A i \in 1 .. Len(stack) : stack[i].who \in Task => t > stack[i].who
             /\ stack' = <<[FrameOf(t) EXCEPT !.cl = Top.cl]>> \o Tail(stack)
  /\ UNCHANGED <<saved_callevel, sus_all_cnt, sus_os_cnt, intena>>

(* The dispatcher goes back to the task that was preempted. *)
TaskEnds ==
  /\ Top.who \in Task /\ Len(stack) > 1 /\ Ends
  /\ stack' = Tail(stack)
  /\ UNCHANGED <<callevel, saved_callevel, sus_all_cnt, sus_os_cnt, intena>>

(* A service fails; call_errorhook calls ErrorHook, not a second time      *)
(* inside it, and with open interrupts.  (If a SuspendAllInterrupts is     *)
(* open the error is final; see the README.)                               *)
call_errorhook ==
  /\ At("out") /\ Room
  /\ sus_all_cnt = 0 /\ callevel # "ERROR"
  /\ stack' = <<FrameOf(Hook)>> \o stack
  /\ callevel' = "ERROR"
  /\ UNCHANGED <<saved_callevel, sus_all_cnt, sus_os_cnt, intena>>

ErrorHookReturns ==
  /\ Top.who = Hook /\ Ends
  /\ stack' = Tail(stack)
  /\ callevel' = Top.cl
  /\ UNCHANGED <<saved_callevel, sus_all_cnt, sus_os_cnt, intena>>

InterruptInit ==
  /\ callevel = "TASK" /\ saved_callevel = "NULL"
  /\ stack = <<FrameOf(1)>>
  /\ sus_all_cnt = 0 /\ sus_os_cnt = 0
  /\ intena = TRUE

InterruptNext ==
  \/ DisableAllInterrupts \/ EnableAllInterrupts
  \/ At("out") /\ Top.all < MaxOpen /\ SuspendAllInterrupts("out")
  \/ At("out") /\ ResumeAllInterrupts("out")
  \/ SuspendOS_Test \/ SuspendOS_Count \/ SuspendOS_Save \/ SuspendOS_Null
  \/ ResumeOS_Test \/ ResumeOS_Count
  \/ _interrupt \/ int_return \/ TaskEnds
  \/ call_errorhook \/ ErrorHookReturns

-----------------------------------------------------------------------------
(* Inside a section opened by SuspendAllInterrupts or DisableAllInterrupts *)
(* no other handler or task runs, however sections nest and cross.         *)
SectionExclusive ==
  /\ \A i \in 1 .. Len(stack) :
       stack[i].all > 0 \/ stack[i].at = "disabled" => i = 1 /\ ~ intena
  /\ ~ intena => Top.all > 0 \/ Top.at = "disabled"

(* callevel comes back: a handler, hook or task that is outside its own    *)
(* sections runs at its own level, so that its services are accepted, in   *)
(* whatever order it closed them and wherever it was interrupted.          *)
LevelRestored ==
  Top.at = "out" /\ ~ InSection(Top) => callevel = Level(Top.who)
=============================================================================
