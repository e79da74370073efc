----------------------------- MODULE OsekKernel -----------------------------
(***************************************************************************)
(* The TOPPERS/OSEK kernel of nxtOSEK: task management, resources and      *)
(* events (toppers_osek/kernel/task_manage.c, resource.c, event.c), the    *)
(* hooks of osctl.c and the dispatcher and category 2 interrupt entry of   *)
(* toppers_osek/config/at91sam7s-gnu/cpu_support.S.                        *)
(*                                                                         *)
(* A service runs between lock_cpu and unlock_cpu, so it is one step; what *)
(* can interleave is an interrupt between two services of a task, inside   *)
(* another interrupt handler, in the idle loop, and at the points where    *)
(* the kernel itself opens the interrupts before it has finished:          *)
(* UnmaskedPoint below.  At those points the code means to raise the       *)
(* interrupt priority level, but set_ipl() has an empty body for this CPU. *)
(***************************************************************************)
EXTENDS OsekTask, FiniteSets

CONSTANTS
  tinib_maxact,     \* activation requests a task may have pending
  tinib_autoact,    \* tasks activated when the system starts
  ResourceId,       \* resources
  resinib_ceilpri,  \* ceiling priority of each resource
  EventId,          \* events, the bits of an event mask
  Unmasked,         \* points with open interrupts that this build has
  IsrTask,          \* tasks that handlers activate or set events of
  WindowTask,       \* those they may touch inside a window (InWindow)
  MaxNest           \* bound: interrupt handlers nested at once

(***************************************************************************)
(* Where the kernel or a task runs with interrupts open although callevel  *)
(* is not TCL_TASK, so that an interrupt returns without dispatching:      *)
(*   post, pre  PostTaskHook and PreTaskHook, when they are linked;        *)
(*   error      ErrorHook, when it is linked;                              *)
(*   susos      between SuspendOSInterrupts and ResumeOSInterrupts.        *)
(***************************************************************************)
UnmaskedPoint == {"post", "pre", "error", "susos"}

EventMask == SUBSET EventId
ExtTaskId == 0 .. tnum_exttask - 1
TPRI_NULL == 255

(* The configurator gives a resource the highest priority of its users. *)
ASSUME KernelConfig ==
  /\ tinib_maxact \in [TaskId -> Nat]
  /\ tinib_autoact \subseteq TaskId
  /\ resinib_ceilpri \in [ResourceId -> Nat]
  /\ RESID_NULL \notin ResourceId
  /\ \A t \in TaskId : tinib_exepri[t] < TPRI_NULL
  /\ \A r \in ResourceId : resinib_ceilpri[r] < TPRI_NULL
  /\ Unmasked \subseteq UnmaskedPoint
  /\ IsrTask \subseteq TaskId
  /\ WindowTask \subseteq IsrTask
  /\ MaxNest \in Nat

VARIABLES
  sched,      \* ready queue, bitmap, nextpri and schedtsk
  runtsk,     \* the task that runs, TSKID_NULL in the idle loop
  tcb,        \* task control blocks, with the saved program counter
  rescb,      \* resource control blocks
  callevel,   \* the running context, as the services check it
  cpu,        \* what the processor executes below the interrupt handlers
  isr,        \* callevel saved by each active handler, innermost first
  initid      \* loop variable of task_initialize

vars == <<sched, runtsk, tcb, rescb, callevel, cpu, isr, initid>>

TaskState == {"DORMANT", "RUNNABLE", "WAITING"}

(* Where a task continues when it is dispatched: at its entry, inside a    *)
(* service, inside a service that lowered its priority to the initial one  *)
(* (Schedule, WaitEvent), or behind the interrupt that preempted it.       *)
ResumeAt == {"activate_r", "dispatcher_r", "dispatcher_r_exepri", "ret_int_r"}

Tcb == [tstat : TaskState, curpri : Nat, actcnt : Nat, curevt : EventMask,
        waievt : EventMask, lastres : ResourceId \cup {RESID_NULL},
        pc : ResumeAt]

Rescb == [prevpri : Nat, prevres : ResourceId \cup {RESID_NULL}]

CallLevel == {"TASK", "ISR2", "ERROR", "PREPOST", "NULL"}

CpuAt == {"boot", "body", "post", "pre", "error", "idle"}

-----------------------------------------------------------------------------
(* Starting and dispatching tasks.  A pair k of scheduler data and task    *)
(* control blocks is the state inside a service.                           *)

K == [sched |-> sched, tcb |-> tcb]

make_active(k, t) ==
  LET tcb1 == [k.tcb EXCEPT ![t] = [@ EXCEPT
                 !.tstat = "RUNNABLE", !.curpri = tinib_inipri[t],
                 !.curevt = {}, !.waievt = {}, !.lastres = RESID_NULL,
                 !.pc = "activate_r"]]
  IN  [sched |-> make_runnable(k.sched, tcb1, t), tcb |-> tcb1]

(* Fault: the execution priority is never given. *)
Resumed_KeepsPri(tcb0, t) == tcb0

(* activate_r, and what Schedule and WaitEvent do behind dispatch(). *)
Resumed(tcb0, t) ==
  IF tcb0[t].pc \in {"activate_r", "dispatcher_r_exepri"}
  THEN [tcb0 EXCEPT ![t].curpri = tinib_exepri[t]]
  ELSE tcb0

dispatch_task(tcb0, t) ==
  /\ cpu' = "body"
  /\ callevel' = "TASK"
  /\ tcb' = Resumed(tcb0, t)

start_dispatch(k) ==
  /\ sched' = k.sched
  /\ runtsk' = k.sched.schedtsk
  /\ \/ /\ k.sched.schedtsk = TSKID_NULL              \* pre_idle
        /\ cpu' = "idle"
        /\ callevel' = "ISR2"
        /\ tcb' = k.tcb
     \/ /\ k.sched.schedtsk # TSKID_NULL
        /\ "pre" \in Unmasked                         \* call_pretaskhook
        /\ cpu' = "pre"
        /\ callevel' = "PREPOST"
        /\ tcb' = k.tcb
     \/ /\ k.sched.schedtsk # TSKID_NULL
        /\ "pre" \notin Unmasked
        /\ dispatch_task(k.tcb, k.sched.schedtsk)

exit_and_dispatch(k) ==
  \/ /\ "post" \in Unmasked                           \* call_posttaskhook
     /\ cpu' = "post"
     /\ callevel' = "PREPOST"
     /\ sched' = k.sched
     /\ tcb' = k.tcb
     /\ UNCHANGED runtsk
  \/ /\ "post" \notin Unmasked
     /\ start_dispatch(k)

dispatch(k, pc) == exit_and_dispatch([k EXCEPT !.tcb[runtsk].pc = pc])

(* The service returns to its caller. *)
Return(k) ==
  /\ sched' = k.sched
  /\ tcb' = k.tcb
  /\ UNCHANGED <<runtsk, callevel, cpu>>

-----------------------------------------------------------------------------
(* Services called by the running task. *)

TaskLevel == cpu = "body" /\ isr = <<>> /\ callevel = "TASK"

NoResource == tcb[runtsk].lastres = RESID_NULL

(* Multiple activation: the request is counted, not executed. *)
CanCount(t) == tcb[t].actcnt < tinib_maxact[t]
Counted(k, t) == [k EXCEPT !.tcb[t].actcnt = @ + 1]

(* Fault: make_active's result is ignored. *)
ActivateTask_NoDispatch(t) ==
  /\ TaskLevel
  /\ \/ /\ tcb[t].tstat = "DORMANT"
        /\ Return(make_active(K, t))
     \/ /\ tcb[t].tstat # "DORMANT"
        /\ CanCount(t)
        /\ Return(Counted(K, t))
  /\ UNCHANGED <<rescb, isr, initid>>

ActivateTask(t) ==
  /\ TaskLevel
  /\ LET k == make_active(K, t) IN
     \/ /\ tcb[t].tstat = "DORMANT"
        /\ Outranks(sched, k.tcb, t)
        /\ dispatch(k, "dispatcher_r")
     \/ /\ tcb[t].tstat = "DORMANT"
        /\ ~ Outranks(sched, k.tcb, t)
        /\ Return(k)
     \/ /\ tcb[t].tstat # "DORMANT"
        /\ CanCount(t)
        /\ Return(Counted(K, t))
  /\ UNCHANGED <<rescb, isr, initid>>

(* Fault: pending requests are not looked at. *)
Terminated_Forgets == [sched |-> search_schedtsk(sched),
                       tcb   |-> [tcb EXCEPT ![runtsk].tstat = "DORMANT"]]

(* The running task gives up its place and starts again if a request for   *)
(* it is pending.                                                          *)
Terminated ==
  LET k == [sched |-> search_schedtsk(sched),
            tcb   |-> [tcb EXCEPT ![runtsk].tstat = "DORMANT"]]
  IN  IF tcb[runtsk].actcnt > 0
      THEN make_active([k EXCEPT !.tcb[runtsk].actcnt = @ - 1], runtsk)
      ELSE k

TerminateTask ==
  /\ TaskLevel
  /\ NoResource
  /\ exit_and_dispatch(Terminated)
  /\ UNCHANGED <<rescb, isr, initid>>

ChainTask(t) ==
  /\ TaskLevel
  /\ NoResource
  /\ \/ /\ t = runtsk
        /\ exit_and_dispatch(
             make_active([K EXCEPT !.sched = search_schedtsk(sched)], t))
     \/ /\ t # runtsk
        /\ tcb[t].tstat = "DORMANT"
        /\ exit_and_dispatch(make_active(Terminated, t))
     \/ /\ t # runtsk
        /\ tcb[t].tstat # "DORMANT"
        /\ CanCount(t)
        /\ exit_and_dispatch(Counted(Terminated, t))
  /\ UNCHANGED <<rescb, isr, initid>>

(* Fault: the task is queued at its execution priority. *)
Schedule_KeepsPri ==
  /\ TaskLevel
  /\ NoResource
  /\ tinib_inipri[runtsk] < sched.nextpri
  /\ dispatch([sched |-> preempt(sched, tcb), tcb |-> tcb], "dispatcher_r_exepri")
  /\ UNCHANGED <<rescb, isr, initid>>

(* Only the branch that yields changes state. *)
Schedule ==
  /\ TaskLevel
  /\ NoResource
  /\ tinib_inipri[runtsk] < sched.nextpri
  /\ LET tcb1 == [tcb EXCEPT ![runtsk].curpri = tinib_inipri[runtsk]]
     IN  dispatch([sched |-> preempt(sched, tcb1), tcb |-> tcb1],
                  "dispatcher_r_exepri")
  /\ UNCHANGED <<rescb, isr, initid>>

(* Fault: the priority is not raised to the ceiling. *)
GetResource_NoCeiling(r) ==
  /\ TaskLevel
  /\ tinib_inipri[runtsk] <= resinib_ceilpri[r]
  /\ rescb[r].prevpri = TPRI_NULL
  /\ rescb' = [rescb EXCEPT ![r] = [prevpri |-> tcb[runtsk].curpri,
                                    prevres |-> tcb[runtsk].lastres]]
  /\ tcb' = [tcb EXCEPT ![runtsk].lastres = r]
  /\ UNCHANGED <<sched, runtsk, callevel, cpu, isr, initid>>

GetResource(r) ==
  LET ceilpri == resinib_ceilpri[r]
      curpri  == tcb[runtsk].curpri
  IN  /\ TaskLevel
      /\ tinib_inipri[runtsk] <= ceilpri
      /\ rescb[r].prevpri = TPRI_NULL
      /\ rescb' = [rescb EXCEPT ![r] = [prevpri |-> curpri,
                                        prevres |-> tcb[runtsk].lastres]]
      /\ tcb' = [tcb EXCEPT ![runtsk] = [@ EXCEPT
                   !.lastres = r,
                   !.curpri = IF ceilpri > curpri THEN ceilpri ELSE curpri]]
      /\ UNCHANGED <<sched, runtsk, callevel, cpu, isr, initid>>

(* Fault: a task that became ready meanwhile is not looked for. *)
ReleaseResource_NoPreempt(r) ==
  /\ TaskLevel
  /\ tcb[runtsk].lastres = r
  /\ Return([K EXCEPT !.tcb[runtsk] = [tcb[runtsk] EXCEPT
               !.curpri = rescb[r].prevpri, !.lastres = rescb[r].prevres]])
  /\ rescb' = [rescb EXCEPT ![r].prevpri = TPRI_NULL]
  /\ UNCHANGED <<isr, initid>>

(* Fault: the initial priority is restored, not the previous one. *)
ReleaseResource_ToInipri(r) ==
  /\ TaskLevel
  /\ tcb[runtsk].lastres = r
  /\ LET tcb1 == [tcb EXCEPT ![runtsk] = [@ EXCEPT
                    !.curpri = tinib_inipri[runtsk], !.lastres = rescb[r].prevres]]
     IN  \/ /\ tinib_inipri[runtsk] < sched.nextpri
            /\ dispatch([sched |-> preempt(sched, tcb1), tcb |-> tcb1],
                        "dispatcher_r")
         \/ /\ tinib_inipri[runtsk] >= sched.nextpri
            /\ Return([K EXCEPT !.tcb = tcb1])
  /\ rescb' = [rescb EXCEPT ![r].prevpri = TPRI_NULL]
  /\ UNCHANGED <<isr, initid>>

ReleaseResource(r) ==
  /\ TaskLevel
  /\ tinib_inipri[runtsk] <= resinib_ceilpri[r]
  /\ tcb[runtsk].lastres = r
  /\ LET tcb1 == [tcb EXCEPT ![runtsk] = [@ EXCEPT
                    !.curpri = rescb[r].prevpri, !.lastres = rescb[r].prevres]]
     IN  \/ /\ rescb[r].prevpri < sched.nextpri
            /\ dispatch([sched |-> preempt(sched, tcb1), tcb |-> tcb1],
                        "dispatcher_r")
         \/ /\ rescb[r].prevpri >= sched.nextpri
            /\ Return([K EXCEPT !.tcb = tcb1])
  /\ rescb' = [rescb EXCEPT ![r].prevpri = TPRI_NULL]
  /\ UNCHANGED <<isr, initid>>

(* Fault: an event that wakes a task overwrites those set before. *)
Woken_Overwrites(t, mask) ==
  LET tcb1 == [tcb EXCEPT ![t] = [tcb[t] EXCEPT !.curevt = mask,
                                                !.waievt = {},
                                                !.tstat  = "RUNNABLE"]]
  IN  [sched |-> make_runnable(sched, tcb1, t), tcb |-> tcb1]

(* The control block after the events are set and, if the task waited for  *)
(* one of them, after it is woken.                                         *)
Wakes(t, mask) == (tcb[t].curevt \cup mask) \cap tcb[t].waievt # {}
EventsSet(t, mask) == [tcb EXCEPT ![t].curevt = @ \cup mask]
Woken(t, mask) ==
  LET tcb1 == [tcb EXCEPT ![t] = [tcb[t] EXCEPT !.curevt = @ \cup mask,
                                                !.waievt = {},
                                                !.tstat  = "RUNNABLE"]]
  IN  [sched |-> make_runnable(sched, tcb1, t), tcb |-> tcb1]

SetEvent(t, mask) ==
  /\ TaskLevel
  /\ tcb[t].tstat # "DORMANT"
  /\ \/ /\ Wakes(t, mask)
        /\ Outranks(sched, tcb, t)
        /\ dispatch(Woken(t, mask), "dispatcher_r")
     \/ /\ Wakes(t, mask)
        /\ ~ Outranks(sched, tcb, t)
        /\ Return(Woken(t, mask))
     \/ /\ ~ Wakes(t, mask)
        /\ Return([K EXCEPT !.tcb = EventsSet(t, mask)])
  /\ UNCHANGED <<rescb, isr, initid>>

ClearEvent(mask) ==
  /\ TaskLevel
  /\ runtsk \in ExtTaskId
  /\ Return([K EXCEPT !.tcb[runtsk].curevt = @ \ mask])
  /\ UNCHANGED <<rescb, isr, initid>>

(* Fault: the task waits although an event is already set. *)
WaitEvent_NoCheck(mask) ==
  /\ TaskLevel
  /\ runtsk \in ExtTaskId
  /\ NoResource
  /\ dispatch([sched |-> search_schedtsk(sched),
               tcb   |-> [tcb EXCEPT ![runtsk] = [@ EXCEPT
                            !.curpri = tinib_inipri[runtsk],
                            !.tstat  = "WAITING",
                            !.waievt = mask]]],
              "dispatcher_r_exepri")
  /\ UNCHANGED <<rescb, isr, initid>>

(* Only the branch that waits changes state. *)
WaitEvent(mask) ==
  /\ TaskLevel
  /\ runtsk \in ExtTaskId
  /\ NoResource
  /\ tcb[runtsk].curevt \cap mask = {}
  /\ dispatch([sched |-> search_schedtsk(sched),
               tcb   |-> [tcb EXCEPT ![runtsk] = [@ EXCEPT
                            !.curpri = tinib_inipri[runtsk],
                            !.tstat  = "WAITING",
                            !.waievt = mask]]],
              "dispatcher_r_exepri")
  /\ UNCHANGED <<rescb, isr, initid>>

-----------------------------------------------------------------------------
(* Hooks and suspended interrupts: the points of Unmasked. *)

PostTaskHookReturn ==
  /\ cpu = "post" /\ isr = <<>>
  /\ start_dispatch(K)
  /\ UNCHANGED <<rescb, isr, initid>>

PreTaskHookReturn ==
  /\ cpu = "pre" /\ isr = <<>>
  /\ dispatch_task(tcb, runtsk)
  /\ UNCHANGED <<sched, runtsk, rescb, isr, initid>>

(* A service of the running task fails one of its checks: a system service *)
(* called with a resource held, a resource that is taken or is not the     *)
(* last one, an activation beyond the limit, an event of a dormant task.   *)
ServiceFails ==
  \/ ~ NoResource
  \/ \E r \in ResourceId : \/ tinib_inipri[runtsk] > resinib_ceilpri[r]
                           \/ rescb[r].prevpri # TPRI_NULL
                           \/ tcb[runtsk].lastres # r
  \/ \E t \in TaskId : tcb[t].tstat # "DORMANT" /\ ~ CanCount(t)
  \/ \E t \in ExtTaskId : tcb[t].tstat = "DORMANT"
  \/ runtsk \notin ExtTaskId

call_errorhook ==
  /\ "error" \in Unmasked
  /\ TaskLevel
  /\ ServiceFails
  /\ cpu' = "error"
  /\ callevel' = "ERROR"
  /\ UNCHANGED <<sched, runtsk, tcb, rescb, isr, initid>>

ErrorHookReturn ==
  /\ cpu = "error" /\ isr = <<>>
  /\ cpu' = "body"
  /\ callevel' = "TASK"
  /\ UNCHANGED <<sched, runtsk, tcb, rescb, isr, initid>>

(* One level of suspension: the outermost call does all that matters here. *)
SuspendOSInterrupts ==
  /\ "susos" \in Unmasked
  /\ TaskLevel
  /\ callevel' = "NULL"
  /\ UNCHANGED <<sched, runtsk, tcb, rescb, cpu, isr, initid>>

ResumeOSInterrupts ==
  /\ cpu = "body" /\ isr = <<>> /\ callevel = "NULL"
  /\ callevel' = "TASK"
  /\ UNCHANGED <<sched, runtsk, tcb, rescb, cpu, isr, initid>>

-----------------------------------------------------------------------------
(* Category 2 interrupt handlers and the idle loop. *)

IsrEnter ==
  /\ cpu # "boot"
  /\ Len(isr) < MaxNest
  /\ isr' = <<callevel>> \o isr
  /\ callevel' = "ISR2"
  /\ UNCHANGED <<sched, runtsk, tcb, rescb, cpu, initid>>

InHandler == isr # <<>>

(* The context below all handlers; a window is one in which the kernel has *)
(* chosen runtsk already but a handler returns without dispatching.        *)
Base == IF isr = <<>> THEN callevel ELSE isr[Len(isr)]
InWindow == cpu \in {"pre", "error"} \/ Base = "NULL"
HandlerTask == IF InWindow THEN WindowTask ELSE IsrTask

IsrActivateTask(t) ==
  /\ InHandler
  /\ \/ /\ tcb[t].tstat = "DORMANT"
        /\ Return(make_active(K, t))
     \/ /\ tcb[t].tstat # "DORMANT"
        /\ CanCount(t)
        /\ Return(Counted(K, t))
  /\ UNCHANGED <<rescb, isr, initid>>

IsrSetEvent(t, mask) ==
  /\ InHandler
  /\ tcb[t].tstat # "DORMANT"
  /\ \/ /\ Wakes(t, mask)
        /\ Return(Woken(t, mask))
     \/ /\ ~ Wakes(t, mask)
        /\ Return([K EXCEPT !.tcb = EventsSet(t, mask)])
  /\ UNCHANGED <<rescb, isr, initid>>

(* Fault: the interrupted task goes on whatever the handler did. *)
IsrReturn_NoDispatch ==
  /\ InHandler
  /\ isr' = Tail(isr)
  /\ callevel' = Head(isr)
  /\ UNCHANGED <<sched, runtsk, tcb, rescb, cpu, initid>>

(* _interrupt behind the handler: ret_int dispatches when a task was       *)
(* interrupted and another one is to run.                                  *)
IsrReturn ==
  /\ InHandler
  /\ isr' = Tail(isr)
  /\ \/ /\ Head(isr) = "TASK" /\ sched.schedtsk # runtsk
        /\ dispatch(K, "ret_int_r")
     \/ /\ ~ (Head(isr) = "TASK" /\ sched.schedtsk # runtsk)
        /\ callevel' = Head(isr)
        /\ UNCHANGED <<sched, runtsk, tcb, cpu>>
  /\ UNCHANGED <<rescb, initid>>

idle_loop ==
  /\ cpu = "idle" /\ isr = <<>>
  /\ sched.schedtsk # TSKID_NULL
  /\ start_dispatch(K)
  /\ UNCHANGED <<rescb, isr, initid>>

-----------------------------------------------------------------------------
(* StartOS, with the interrupts disabled until the first dispatch. *)

Init ==
  /\ sched = EmptySched
  /\ runtsk = TSKID_NULL
  /\ tcb = [t \in TaskId |->
              [tstat |-> "DORMANT", curpri |-> tinib_inipri[t], actcnt |-> 0,
               curevt |-> {}, waievt |-> {}, lastres |-> RESID_NULL,
               pc |-> "activate_r"]]
  /\ rescb = [r \in ResourceId |-> [prevpri |-> TPRI_NULL,
                                    prevres |-> RESID_NULL]]
  /\ callevel = "TASK"
  /\ cpu = "boot"
  /\ isr = <<>>
  /\ initid = 0

task_initialize ==
  /\ cpu = "boot"
  /\ initid \in TaskId
  /\ initid' = initid + 1
  /\ \/ /\ initid \in tinib_autoact
        /\ Return(make_active(K, initid))
     \/ /\ initid \notin tinib_autoact
        /\ Return(K)
  /\ UNCHANGED <<rescb, isr>>

StartOS ==
  /\ cpu = "boot"
  /\ initid \notin TaskId
  /\ start_dispatch(K)
  /\ UNCHANGED <<rescb, isr, initid>>

-----------------------------------------------------------------------------
TaskStep ==
  \/ \E t \in TaskId : ActivateTask(t) \/ ChainTask(t)
  \/ TerminateTask
  \/ Schedule
  \/ \E r \in ResourceId : GetResource(r) \/ ReleaseResource(r)
  \/ \E mask \in EventMask \ {{}} :
       \/ \E t \in ExtTaskId : SetEvent(t, mask)
       \/ ClearEvent(mask)
       \/ WaitEvent(mask)
  \/ call_errorhook
  \/ SuspendOSInterrupts

KernelStep ==
  \/ task_initialize
  \/ StartOS
  \/ PostTaskHookReturn
  \/ PreTaskHookReturn
  \/ ErrorHookReturn
  \/ ResumeOSInterrupts
  \/ IsrReturn
  \/ idle_loop

HandlerStep ==
  \/ IsrEnter
  \/ \E t \in HandlerTask : IsrActivateTask(t)
  \/ \E t \in HandlerTask \cap ExtTaskId, mask \in EventMask \ {{}} :
       IsrSetEvent(t, mask)

Next == TaskStep \/ KernelStep \/ HandlerStep

Spec == Init /\ [][Next]_vars

-----------------------------------------------------------------------------
(* What the properties speak of. *)

Runnable == {t \in TaskId : tcb[t].tstat = "RUNNABLE"}

(* Resources a task holds: those reached from tcb_lastres over             *)
(* rescb_prevres, the least set that contains the one and is closed under  *)
(* the other.                                                              *)
Chained(last, prev, S) ==
  /\ last \in ResourceId => last \in S
  /\ \A r \in S : prev[r].prevres \in ResourceId => prev[r].prevres \in S
HeldFrom(last, prev) ==
  {r \in ResourceId : \A S \in SUBSET ResourceId : Chained(last, prev, S) => r \in S}
Held(t) == HeldFrom(tcb[t].lastres, rescb)

-----------------------------------------------------------------------------
(* Type invariant: every variable of task.c, resource.c and osctl.c keeps  *)
(* its range; in particular no task is queued above TPRI_MAXTASK, which    *)
(* ready_insert_first and ready_insert_last assert.                        *)
TypeOK ==
  /\ sched \in Sched
  /\ runtsk \in TaskId \cup {TSKID_NULL}
  /\ tcb \in [TaskId -> Tcb]
  /\ rescb \in [ResourceId -> Rescb]
  /\ callevel \in CallLevel
  /\ cpu \in CpuAt
  /\ isr \in Seq(CallLevel)
  /\ initid \in 0 .. tnum_task

(* task.h:101 on schedtsk: while a task runs it is runtsk.  preempt()      *)
(* asserts it, and TerminateTask, WaitEvent and Schedule, which take the   *)
(* next task without a look at schedtsk, rely on it.                       *)
SchedtskRuns == TaskLevel => sched.schedtsk = runtsk

(* The ready queue holds exactly the runnable tasks besides schedtsk, each *)
(* once and at its current priority, and nextpri and the bitmap agree with *)
(* it (task.c:59-70): no wake-up or activation is lost or doubled.         *)
ReadyQueueExact == Accounted(sched) = Runnable /\ SchedOK(sched, tcb)

(* Scheduling: the code of a task runs only while no runnable task has a   *)
(* higher priority, whatever the interrupt handlers activated before.      *)
HighestPriorityRuns ==
  TaskLevel => \A t \in Runnable : tcb[t].curpri <= tcb[runtsk].curpri

(* Priority ceiling: while a task holds a resource no other task that may  *)
(* take it runs, so GetResource never finds it taken by another task.      *)
CeilingExclusion ==
  TaskLevel =>
    \A t \in TaskId \ {runtsk} : \A r \in Held(t) :
      tinib_inipri[runtsk] > resinib_ceilpri[r]

(* Non-preemptable tasks and internal resources: a task that lost the      *)
(* processor without yielding lost it to one that may not share its        *)
(* internal resource: the winner's initial priority is above its execution *)
(* priority and above every ceiling it had reached.                        *)
PreemptedBelow ==
  TaskLevel =>
    \A t \in Runnable \ {runtsk} :
      tcb[t].pc \in {"dispatcher_r", "ret_int_r"} =>
        /\ tinib_exepri[t] <= tcb[t].curpri
        /\ tcb[t].curpri < tinib_inipri[runtsk]

(* The running task's priority is the highest of its execution priority    *)
(* and the ceilings of the resources it holds, after any nesting of        *)
(* GetResource, ReleaseResource, preemption and waiting.                   *)
PriorityIsCeiling ==
  TaskLevel =>
    LET P == {tinib_exepri[runtsk]} \cup {resinib_ceilpri[r] : r \in Held(runtsk)}
    IN  tcb[runtsk].curpri \in P /\ \A p \in P : p <= tcb[runtsk].curpri

(* A counted activation is consumed: the task it is for is not dormant.    *)
NoPendingWhileDormant ==
  \A t \in TaskId : tcb[t].actcnt > 0 => tcb[t].tstat # "DORMANT"

(* No lost wake-up: a task waits only for events of which none is set.     *)
NoLostEvent ==
  \A t \in TaskId :
    tcb[t].tstat = "WAITING" <=>
      tcb[t].waievt # {} /\ tcb[t].waievt \cap tcb[t].curevt = {}

(* An event that is set, also while its task waits for another, stays set  *)
(* until the task itself clears it or ends: no step of any other context   *)
(* takes it away.                                                          *)
EventsStaySet ==
  [][\A t \in ExtTaskId : \A e \in tcb[t].curevt \ tcb'[t].curevt :
       \/ TaskLevel /\ runtsk = t
       \/ tcb[t].tstat = "DORMANT"]_tcb

(* A preempted task goes on before all others of its priority, those that  *)
(* were queued while it ran and those queued since it lost the processor.  *)
PreemptedFirst ==
  TaskLevel =>
    \A t \in Runnable \ {runtsk} :
      tcb[t].pc \in {"dispatcher_r", "ret_int_r"} =>
        sched.queue[tcb[t].curpri][1] = t

(* FIFO within a priority (task.c:243-272): no step puts b in front of a   *)
(* if a was queued ahead of b, or was queued when b was not ready at all,  *)
(* although one step may take a task out, put it back at the head and      *)
(* insert another (TerminateTask, ChainTask); and what a step leaves       *)
(* preempted is first.                                                     *)
Ahead(q, a, b) == \E i, j \in 1 .. Len(q) : i < j /\ q[i] = a /\ q[j] = b
Precedes(s, p, a, b) ==
  \/ Ahead(s.queue[p], a, b)
  \/ /\ b \in TaskId \ Accounted(s)
     /\ \E i \in 1 .. Len(s.queue[p]) : s.queue[p][i] = a
FifoOrder ==
  /\ [][\A p \in Priority : \A a, b \in TaskId :
          Ahead(sched'.queue[p], b, a) => ~ Precedes(sched, p, a, b)]_sched
  /\ [][PreemptedFirst']_vars

-----------------------------------------------------------------------------
(* Fairness: the processor goes on with the kernel's code, handlers and    *)
(* hooks are finite, and an interrupt load that lets a hook or the idle    *)
(* loop run again and again lets it finish.  Nothing is assumed of tasks.  *)
Fairness ==
  /\ WF_vars(task_initialize) /\ WF_vars(StartOS) /\ WF_vars(IsrReturn)
  /\ SF_vars(PostTaskHookReturn) /\ SF_vars(PreTaskHookReturn)
  /\ SF_vars(ErrorHookReturn) /\ SF_vars(idle_loop)

FairSpec == Spec /\ Fairness

(* A task that becomes the one to run gets the processor, or is outranked, *)
(* without any help from the task that runs or a further interrupt.        *)
SchedtskGetsCpu ==
  \A t \in TaskId : sched.schedtsk = t ~> (runtsk = t \/ sched.schedtsk # t)

(* Bounded priority inversion: if tasks keep ending and releasing what     *)
(* they took, a task of the single highest priority runs each time it is   *)
(* runnable, also when it is activated while a resource with its ceiling   *)
(* or a non-preemptable task occupies the processor.                       *)
TasksProgress ==
  SF_vars(TerminateTask) /\ \A r \in ResourceId : SF_vars(ReleaseResource(r))
Urgent(t) == \A u \in TaskId \ {t} : tinib_inipri[u] < tinib_inipri[t]
UrgentTaskRuns ==
  TasksProgress =>
    \A t \in {u \in TaskId : Urgent(u)} :
      tcb[t].tstat = "RUNNABLE" ~> TaskLevel /\ runtsk = t
=============================================================================
