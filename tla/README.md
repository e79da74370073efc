# TLA+ models and proofs of nxtOSEK

nxtOSEK runs OSEK applications on the LEGO MINDSTORMS NXT (ARM7, AT91SAM7S256).
It joins the TOPPERS/OSEK kernel (ATK), the leJOS NXJ device drivers and the
ECRobot API. This directory holds TLA+ specifications of its core, the TLC
configurations that check them and proofs checked by TLAPS. Paths below are
relative to `src/nxtosek/`.

## 1. The system

| Component | State it keeps | Operations | Reached from |
|---|---|---|---|
| ready queue and scheduler, `toppers_osek/kernel/task.c` | `ready_queue_first/last`, `tcb_next`, `ready_primap`, `nextpri`, `schedtsk`, `runtsk` | `make_runnable`, `search_schedtsk`, `preempt`, `make_active` | all services |
| task services, `task_manage.c` | `tcb_tstat`, `tcb_curpri`, `tcb_actcnt` | `ActivateTask`, `TerminateTask`, `ChainTask`, `Schedule` | tasks; `ActivateTask` from handlers too |
| events, `event.c` | `tcb_curevt`, `tcb_waievt` | `SetEvent`, `ClearEvent`, `WaitEvent` | tasks; `SetEvent` from handlers too |
| resources, `resource.c` | `rescb_prevpri`, `rescb_prevres`, `tcb_lastres`, `isrcb_lastres` | `GetResource`, `ReleaseResource` | tasks, handlers |
| execution control, `osctl.c` | `callevel` | `StartOS`, `ShutdownOS`, the hooks | kernel |
| interrupt suspension, `interrupt.c` | `sus_all_cnt`, `sus_os_cnt`, `saved_callevel`, `saved_ipl` | `Suspend…`/`Resume…Interrupts` | tasks, handlers, COM |
| dispatcher, `toppers_osek/config/at91sam7s-gnu/cpu_support.S`, `irq.s` | `tcxb_pc`, `tcxb_sp`, `runisr` | `dispatch`, `exit_and_dispatch`, `start_dispatch`, `_interrupt`, `ret_int`, `idle_loop` | services, hardware |
| counters and alarms, `alarm.c` | `cntcb_curval`, `cntcb_almque`, `almcb_*` | `SetRelAlarm`, `SetAbsAlarm`, `CancelAlarm`, `GetAlarm`, `SignalCounter` | tasks, callbacks, the 1 ms hook |
| millisecond tick, `syslib/…/hw_sys_timer.c`, `lejos_nxj/…/systick.c` | `systick_ms`, the interrupt controller's levels | `systick_isr_C`, `systick_isr_C1`, `systick_low_priority_C` | hardware |
| AVR link, `nxt_avr.c`, `twi.c` | `link_state`, double buffer, `twi_state` | `nxt_avr_1kHz_update`, `twi_isr_C` | the tick, hardware |
| serial lines, `bt.c`, `hs.c` | two input and two output buffers, positions in them, the DMA's registers | `bt_read`, `bt_receive`, `bt_write` and the same of `hs.c` | tasks; DMA |
| software I2C, `i2c.c` | `i2c_port`: state, partial transactions, bit position, two pins | `i2c_start_transaction`, `i2c_timer_isr_C` | tasks, the bit timer |
| sleep services, `ecrobot/c/rtoscalls.c`, `ecrobot/c++/device/I2c.cpp` | sleep slots, sleeper of each port | `Sleep`, `SleepI2C`, `SleeperMonitor`, `I2c::send`, `I2c::receive` | tasks, the 1 ms hook |
| OSEK COM, `toppers_osek/com/com.c` | message buffers, `COMStarted` | `SendMessage`, `RecieveMessage`, `InitMessage`, `StartCOM`, `StopCOM` | tasks, handlers |
| USB, `udp.c`, `ecrobot_usb.c` | endpoint states | start, handlers | tasks, hardware |
| serial FIFOs, `byte_fifo.c`, `uart.c` | rings | put, get, handlers | nothing (section 6) |
| Bluetooth session, start-up, buttons, displays, sensors, sound, flash loader | | | tasks, start-up |
| configurator `toppers_osek/sg`, second kernel `toppers_jsp` | | | build time |

How they interact. Everything happens on one processor. A service runs between
`lock_cpu` and `unlock_cpu`, so no interrupt falls inside it. The exceptions
are the places where the kernel itself opens the interrupts: the hooks and the
alarm callbacks. Interrupt handlers of category 2 save `callevel`, call
services, and on return to a task switch (`ret_int`) if `schedtsk` has changed.
The timer raises `systick_isr_C` (level NORMAL), which raises by software
`systick_isr_C1` (level LOW). That one calls the application's
`user_1ms_isr_type2`, whose `SignalCounter` runs alarm callbacks, which
activate tasks and set events; the same hook calls `SleeperMonitor`. Behind it
`systick_low_priority_C` moves the AVR link on, whose bytes `twi_isr_C`
transfers meanwhile. The I2C timer and the serial DMA work beside all of this,
and the tasks poll what they leave.

What is hard here:

- the order of services, handlers and dispatches, since `runtsk` and `schedtsk`
  differ between a handler's service and its return;
- the points with open interrupts. The kernel means to raise the interrupt
  priority level there, but `set_ipl` is empty on this processor
  (`cpu_config.h:72-74`);
- the scheduler's cached data (`nextpri`, the bitmap, the tail pointers);
- the walk over the alarm queue that is interrupted by callbacks which change it;
- tick arithmetic that wraps;
- interrupts that are ended by another context than the one that handled them;
- interrupt suspension whose own instructions can be interrupted, and one saved
  context for two services that nest in each other;
- services above the kernel (`Sleep`, `SleepI2C`) that take no lock at all;
- hardware that goes on between two register reads (DMA), answers late, wrongly
  or never (AVR, I2C devices), and drivers that must recover from it.

`PROJECT.json` lists these hazards line by line with the properties that cover
them, and those that no property covers yet.

What makes each part correct:

- scheduler: the queue holds exactly the runnable tasks, the most urgent one
  runs, first come first served within a priority;
- tasks and events: no activation and no wake-up is lost;
- resources: mutual exclusion by the ceiling, bounded inversion, priorities
  restored;
- alarms: each expires at its tick, once per cycle, never after being cancelled;
- tick: ended once, never re-entered, never stuck, every millisecond counted;
- suspension: sections exclude all that they are meant to exclude, and the
  context comes back when the last one closes, in whatever order they do;
- COM: messages arrive whole;
- I2C and sleep: the bus conditions are right whatever the device does, nobody
  waits without somebody who will wake it, a transfer is over when the call is;
- AVR link: readers see only whole, checked, new packets, and the link recovers;
- serial lines: no byte lost, repeated or overwritten, and none left unread.

## 2. Modules

| Module | Models |
|---|---|
| `OsekTask` | operators of `task.c` on sequences, a set of priorities, `nextpri` and `schedtsk` |
| `OsekKernel` | the kernel's services, dispatcher, hooks and handlers as a state machine; extends `OsekTask` |
| `ReadyQueue` | abstract: `OsekTask`'s operators under the calls the kernel makes |
| `ReadyList` | `task.c` with links, tail pointers and the 16-bit map; implements `ReadyQueue` |
| `AlarmTimers` | abstract: alarms with a number of ticks left, no queue and no counter value |
| `OsekAlarm` | `alarm.c` with the linked queue, the wrapping counter and callbacks; implements `AlarmTimers` |
| `SysTick` | timer, interrupt controller, the two tick handlers and task switches |
| `OsekInterrupt` | `interrupt.c`: the six services under tasks, handlers and ErrorHook that interrupt one another |
| `OsekCom` | `com.c` on top of it; extends `OsekInterrupt` |
| `I2cPort` | `i2c.c`: one port, bit by bit, with the device on its bus |
| `SleepService` | `rtoscalls.c` and `I2c.cpp`, statement by statement; extends `I2cPort` |
| `AvrLink` | `nxt_avr.c` with `twi.c` and a bus that fails |
| `SerialDma` | the common code of `bt.c` and `hs.c` with the DMA controller |
| `MCKernel`, `MCAlarm`, `MCReady` | constants for TLC |
| `…Proofs` | theorems of `OsekKernel` with `OsekTask`, of `OsekCom` with `OsekInterrupt`, of `OsekAlarm`, `ReadyList`, `SysTick`, `SleepService`, `AvrLink`, `SerialDma` |

### OsekKernel

`sched`, `runtsk`, `tcb`, `rescb` and `callevel` are the kernel's variables of
those names; event masks are sets. `tcb[t].pc` stands for `tcxb_pc` and the
stack below it: where the task goes on when it is dispatched (`activate_r`,
behind `dispatch()` with or without the code that follows it in `Schedule` and
`WaitEvent`, or `ret_int_r`). `cpu` says what runs below the handlers and `isr`
holds the `callevel` each active handler saved (register r10). One action is
one service up to `unlock_cpu` or up to the task switch it makes. The dispatcher
(`exit_and_dispatch`, `start_dispatch`, `dispatch_task`) is part of it, unless a
hook opens the interrupts in between.

`Unmasked` names the points at which handlers get in although `callevel` keeps
them from dispatching: `post`, `pre` and `error` for the three hooks, `susos`
for SuspendOSInterrupts sections. A hook that is not linked has no such point,
and neither has one whose `set_ipl` works. The shipped library always links
empty hooks (`ecrobot/c/osek_hook.c`), so a real build has the first three.
PostTaskHook's is harmless by itself. Inside the others (`InWindow`) handlers
are restricted to the tasks in `WindowTask`: with only a task of the lowest
priority there they are harmless too, which run `kernel` checks with all four
points open; without that restriction they are not (section 5). Failing
services change nothing and are not steps, except that `call_errorhook` opens
the interrupts. GetTaskID, GetTaskState and GetEvent only read. The handler
branch of GetResource and ReleaseResource is not modelled.

### ReadyList

The lists are `first`, `last` and `next` as arrays, and `primap` is a number.
`last` of an empty list keeps whatever it had, as in the code. The refinement
maps a list to the sequence found by following `next`. `PriorityInUse`
names the priorities that the tasks and resources of an application have; the
lists and the map are there for all of them.

### OsekAlarm

One counter. Alarms on different counters share no variables. `almid` and
`newval` are the locals of `SignalCounter` during a callback; while a callback
runs any service may be called on any alarm, by the callback or by a nested
handler. TickType has `TickMod` values: 2^32 in the code, 7 in the runs, so that
intermediate sums do overflow while the counter's range still fits. There is no
nested `SignalCounter` of the same counter: `newval` would be stale after it.
The samples call it only from the 1 ms hook, which `SysTick` shows is not
re-entered (`TickNotReentered`).

### SysTick

`pending` and `inservice` are the controller's latched sources and its stack of
levels. `parked` are the tasks that a handler switched away from and that will
write `AIC_EOICR` when they resume. The kernel is reduced to priorities, since
only the moment and the direction of task switches matter. The system is
already started (`get_OS_flag` is true). Tasks, the timer and the controller
are external and modelled from how the code uses them; the entry and exit of
handlers is the code of `irq.s` and `cpu_support.S`. The timer is restricted to
what its period allows: a millisecond is longer than entering a deliverable
interrupt and running a handler, so it expires at most once during one (`hit`).
Tasks are not restricted: a task activated by a handler may keep the processor
as long as it likes, during which the low level stays in service and the hook's
ticks merge. `systick_ms` itself never does (`MsCounted`).

### OsekInterrupt, OsekCom

What runs is a stack of frames (`stack`): the innermost handler, hook or task
and below it what it interrupted. A frame has its open sections of both kinds
and the `callevel` that `_interrupt` or `call_errorhook` saved for it.
SuspendAllInterrupts and DisableAllInterrupts close the processor's interrupts,
so each is one step. SuspendOSInterrupts and ResumeOSInterrupts close nothing:
their increments, tests and copies of `saved_callevel` are steps of their own,
and handlers that use the services come in between. Programs close what they
open, in any order, before they end; a preempting task counts as a frame above
the one it preempts. An error inside a SuspendAll section is final:
`call_errorhook` calls ShutdownOS, which opens the interrupts again and, since
`sys_exit` is empty, returns. The model's programs make no such error.

`OsekCom` copies one message of two parts to one unqueued receiver, each part a
step, in a section. Filter, copy and notification functions are generated from
the OIL file and external. Two assumptions on the program are guards of the
model, since neither service tests `COMStarted` (`com.c:80-84`, `103-111`) and
StartCOM clears the buffers with open interrupts. InitMessage is called only
while COM is started; during StartCOM it would tear the message. StartCOM is
called only while COM is stopped, and it and StopCOM only by the task that
starts the others (`Depth = 1`); a second StartCOM would clear the buffers under
those who exchange messages. Without any one of these guards `WholeMessages`
fails.

### I2cPort, SleepService

One action of `I2cPort` is one pass of `i2c_timer_isr_C` over the port. The
device on the bus may hold SCL low, and moves SDA only while SCL is low, as the
I2C rules have it; it may answer or refuse every byte and hold SDA after it was
interrupted. Partial transactions are a sequence of records. The values of bits
are open, since nothing depends on them but the acknowledge.

`SleepService` adds the tasks: a task's `pc` names the next statement of Sleep,
SleepI2C or I2c::send and receive, and between any two of them a tick, the bit
timer or a task of a higher priority may run. Tasks with higher numbers run
first. Events stay set until ClearEvent, so a wake-up before WaitEvent counts;
`OsekKernel.NoLostEvent` is the kernel's part of that. `I2cTask` uses the
device, `SleepTask` call Sleep. Sleep(0), whose counter wraps, is left out.

### AvrLink

One action is a call of `nxt_avr_1kHz_update` or a byte interrupt of the
interface. A packet is abstracted to what readers may tell apart: cleared,
partly received, with a right or a wrong checksum, or shown before. While
`faulty`, the bus refuses (NACK), garbles, delays or hangs, at any byte; it may
become faulty and good again at any moment.

### SerialDma

The DMA controller's current and next buffer, the counter of each, and the task
that reads RNCR and then RCR, copies and queues a buffer again. Every register
access the order of which matters is a step, and bytes arrive in between. Bytes
are numbered, so that one lost, repeated or overwritten shows. A program uses
one of byte reads, packet reads and writes (`use`), as the directions share
nothing; writes have at least one byte.

## 3. Runs

| Run | Configuration | Checks |
|---|---|---|
| `kernel` | 4 tasks, 2 resources, 1 event, one interrupt level, all four points with open interrupts | type and the scheduler's invariants, ceiling, events, activations, FIFO with preempted tasks in front |
| `live` | 3 tasks, 2 events, PostTaskHook, fairness | the chosen task gets the processor; the most urgent one runs; events stay set |
| `readylist` | 3 tasks, priorities 7, 8 and 15 | `ReadyList` implements `ReadyQueue` |
| `alarm` | 3 alarms, visible range 0..2, cycle 2 | queue, expiry, order, refinement of `AlarmTimers` |
| `systick` | 4 tasks, fairness | interrupt ends, re-entry, counting, progress |
| `com` | 2 tasks, 3 frames, 2 sections of a kind in each, 2 messages | sections exclude, `callevel` comes back, messages are whole |
| `sleep` | one task on the I2C bus below one that sleeps, bytes of 2 bits, up to 2 bytes, fairness | bus conditions, wake-ups, end of transfers, every call returns |
| `avr` | 4, 2 and 3 bytes, 2 commands, fairness | whole packets, recovery |
| `serial` | buffers of 3 bytes, fairness | bytes intact, all bytes read |
| `prehook`, `alarmbase`, `sleeprace` | one hazard each | a documented statement that the code breaks (section 5) |

Why the bounds suffice.

- Kernel: four tasks contain two of equal priority, a more urgent one, a
  non-preemptable one, one with an internal resource, extended and basic ones,
  and one with counted activations. The resources have a ceiling in the middle
  and one above all tasks. A single event tells waiting from not waiting; run
  `live` has a second one, which may come while the first is awaited or stay
  set after it. One level of handlers produces all that a task can see of an
  interrupt, since nested handlers return to a handler without dispatching; the
  proofs cover any nesting.
- ReadyList: three tasks give a list with a first and a last member beside
  `schedtsk`, and lists that empty and fill again. Priorities 7 and 8 are in
  different bytes of the map, and with 15 above them the table search has to
  find each. The other bits and any number of tasks are covered by the proof.
- Alarms: three alarms give an element before, behind and between. The visible
  range 0..2 gives a counter from 0 to 5, which wraps within two turns.
- Tick: four tasks allow a switch from a handler and several switches between
  tasks, up and down, before the preempted one resumes; the proofs cover any
  number.
- COM: three frames are a task, what interrupts it and what interrupts that;
  two sections of a kind make nesting within one frame. The limit of 255
  (`UINT8_INVALID`) is not reached.
- Sleep: 2 bits have a first and a last one, 2 bytes a first and a last one; the
  address bytes and the restart of a read come on top. Two slots and a Sleep of
  2 ms tell a counter that goes on from one that ends. The proofs hold for every
  number of bits, bytes, tasks, slots and milliseconds.
- AVR: three lengths that differ keep transfers of one kind from being taken for
  another; the packet has a first, a middle and a last byte.
- Serial: three bytes put a packet of two or three at every position of both
  buffers, with bytes to spare before it and behind it.

Fairness.

- `OsekKernel.FairSpec`: the kernel's own code goes on, handlers return (weak),
  hooks and the idle loop finish if they can run again and again between
  interrupts (strong). Nothing is assumed of tasks, except in `UrgentTaskRuns`,
  which states its assumption itself: tasks terminate and release.
- `SysTick.FairSpec`: the timer never stops, deliverable interrupts are entered,
  handlers and the idle loop go on. `TicksGoOn` assumes in addition that the
  tasks leave the processor idle again and again.
- `SleepService.FairSpec`: both timers go on; the device lets SCL go at last
  (weak) and SDA when it is clocked again and again (strong: reclocking is how
  `i2c.c` frees the line); a call that was begun goes on whenever no task of a
  higher priority runs (strong, as these interrupt it again and again).
- `AvrLink.FairSpec`: ticks go on, and so does the interface with a transfer
  that does not hang. `LinkRecovers` assumes itself that the faults stop.
- `SerialDma.FairSpec`: the task goes on calling, and who sends a packet sends
  all of it. Nothing is assumed of new packets.

Alarms need no fairness: `ExpiresInTime` bounds each expiry by its tick.

Deadlock is checked in all runs. Every property of a passing run has a mutant
in `PROJECT.json`: a plausible slip in one definition (named `…_…` in the
modules and commented `Fault:`) under which TLC finds it violated.

## 4. Proofs

`OsekKernelProofs` proves for all numbers of tasks, priorities, resources and
events, and any nesting of handlers, that `OsekKernel` keeps `TypeOK`,
`ReadyQueueExact`, `SchedtskRuns`, `HighestPriorityRuns`,
`NoPendingWhileDormant`, `NoLostEvent` and `EventsStaySet`, and that none
overtakes another in a queue. These rest on one inductive invariant, `IInv`:

- `KernelOK`: the scheduler's data are consistent, they account for exactly the
  runnable tasks, each task is in order by itself, and a task that will be
  raised to its execution priority when it resumes is queued at its initial one;
- `Control`: which contexts (`callevel` and the stack of saved ones) go with
  which place of the processor;
- `Steady`: a task that has the processor is runnable and is `schedtsk`, unless
  a handler that will dispatch is active;
- `Booting`, `Restores`: what holds during start-up, and the priorities that
  resources will give back.

None of the properties is inductive alone. `SchedtskRuns`, for example, breaks
at a handler's return unless the saved `callevel` is known to be TCL_TASK
whenever `schedtsk` may differ. The steps use lemmas about the scheduling
operators, which come first in the module: `MakeRunnable`, `SearchSchedtsk` and `Preempt`
each keep the data consistent and change the set of queued tasks by exactly one.

The priority protocol needs a second one, `PInv`, on top of it:

- `StackOK`: tasks that were raised to their execution priority and lost the
  processor form a stack. Each started above all that the ones below it have
  reached, and each is the first of its queue;
- `HeldOK`: the resources of such a task, chained from `tcb_lastres` over
  `rescb_prevres`, are all different. Its current priority is the
  highest of its execution priority and their ceilings, and so is each saved
  `rescb_prevpri` with respect to the rest of the chain; chains of different
  tasks share nothing. All other tasks hold nothing;
- waiting tasks come back through `dispatcher_r_exepri`, which raises them only
  then.

`CeilingExclusion`, `PreemptedBelow`, `PriorityIsCeiling` and `PreemptedFirst`
follow. None is inductive: `ReleaseResource` restores a priority that was saved
any number of steps before, so the chain has to say what it was, and exclusion holds only
because whoever runs started above the ceilings of everything held below it.
`PreemptedFirst`, the second half of `FifoOrder`, is the last part of `StackOK`
at task level.

The first half of `FifoOrder` and `EventsStaySet` are about single steps and
need only `IInv`. For the first: what a step inserts in front of a queue is the
task that was `schedtsk` or ran, which was ready before the step and in no
queue, so it was neither behind a queued task nor new. For the second: the steps
that change `curevt` are SetEvent, which adds, ClearEvent and the end of the
task, which are its own, and activation, at which it was dormant.

The hypothesis `NoRace` is what the code needs: either no point with open
interrupts but PostTaskHook's exists, or handlers activate only tasks of the
lowest priority inside the others. Run `prehook` shows that it cannot be
dropped. The first alternative is the kernel with a working `set_ipl`, or with PreTaskHook
and ErrorHook not linked and SuspendOSInterrupts not used. A default build of
the repository meets only the second, if its alarms and handlers do.

`OsekComProofs` proves `TypeOK`, `SectionExclusive`, `LevelRestored` and
`WholeMessages` for any depth of frames and any number of sections below the
limit of the counters. Its invariant goes through the stack from the bottom:
each frame found a count `base` in `sus_os_cnt` and a level, which the frames
below it account for exactly. `saved_callevel` belongs to the one frame that
found the count at 0 and closed its context, whichever service did it first;
only the innermost frame can have the processor's interrupts closed. That makes
the non-atomic increments harmless, since a handler between them leaves the
count as it found it. `MessageInv` adds that a frame between the two parts of a
copy is in a section, so nobody else is.

`OsekAlarmProofs` has three layers. `AddTickExact` and `DiffTickExact` show that
tick arithmetic in words that overflow is arithmetic modulo the counter's range,
for every width and range; `RelTickAhead` and `AbsTickAhead` show how far ahead
alarms are set. The queue is then a list of different alarms (`Chain`).
`SearchStops` says where the recursive search of `enqueue_alarm` stops;
`EnqueueInserts` and `DequeueRemoves` say that the links hold the same list with
one member more or less. From this `TypeOK`, `QueueIsChain` and
`PeriodicStays` follow for every counter. The last layer has the hypothesis
`cntinib_tickbase = 1`, and run `alarmbase` shows that it is needed: an overdue
alarm must not exist when a periodic one is put back. Under it `OrderInv` is
inductive: the list is in order of the ticks left, none is more than
`maxval + 1` ahead, none is due between two ticks, and a periodic alarm in its
callback is due now. `ExpiresInTime`, the refinement `ImplementsTimers` and
`SameTickInOrder` follow. Every application in the repository sets
TICKSPERBASE to 1.

`ReadyListProofs` proves the refinement `ImplementsReadyQueue` for any number of
tasks and up to 16 priorities, so what is proved of `OsekTask`'s queues holds of
the lists and the map in `task.c`. The steps are:

- the map: `SetBitExact` and `ClearBitExact` change one bit and no other, and
  `BitmapSearchExact` finds the highest of them, for every 16-bit number;
- the lists: `Row` says that the links of a priority hold a sequence of
  different tasks of that priority, without a word on what `last` is if the list
  is empty, or on the links of tasks outside it. `ChainIsRow` shows that
  following the links then returns that sequence, of which `tnum_task` links are
  always enough. `RowFirst`, `RowLast` and `RowTail` say what the three
  changes of a list do to it, `InsertFirst`, `InsertLast` and `Delete` that the
  lists of other priorities and their bits stay;
- the scheduling functions: `SearchExact`, `MakeRunnableExact` and
  `PreemptExact` show that each does to the sequences what the operator of
  the same name in `OsekTask` does. They need `nextpri` to be right
  (`Highest`) and `schedtsk` to be in no list and outranked by none (`Chosen`),
  which is the inductive invariant together with the lists.

`SysTickProofs` proves `TypeOK`, `EndsExact`, `TickNotReentered` and `MsCounted`
for any number of tasks. `EndsExact` needs to know who may hold the controller:
the invariant says that at most two handlers are active, the timer's above the
low one (`Nested`), that at most one task is parked and then the low level is
in service below all active ones (`Held`), and that the running task is the
most urgent ready one except while a handler is active (`Urgent`).

`SleepServiceProofs` proves `BusFree` and all safety properties of run `sleep`,
for every length of byte and transaction, every number of tasks, slots and
milliseconds.
`PortInv` gives, for each state of the port, the shape of the remaining partial
transactions (the last one has a stop, so the list never runs out), where both
pins are and when the device may hold SDA; the bus conditions follow step by
step. `ServiceInv` relates the flag and the identifier of the port's sleeper to
the place of the task that wrote them. `TransferDone` adds `EventInv`: the
event of SleepI2C is only ever set for a task that waits in it and only while
the port is idle, and outside of a transfer the port is idle. It holds although
the same task may call Sleep, since that has an event of its own.

`AvrLinkProofs` proves `TypeOK` and `ShownWhole` for all lengths. Its
invariant says that a buffer which can be unpacked was received since the last
unpacking or reset (`Unpackable`), and that the buffer shown is the one not
received into.

`SerialDmaProofs` proves `TypeOK` and `BuffersIntact` for all buffer lengths.
Its invariant ties the position of the task to the counters of the controller
(`Window`: what was read of the current buffer and what is unread make what the
controller wrote), says what both register reads of a call may return when the
controller changed buffers between them (`Calls`), and that no buffer waits to
be sent that the task may fill (`Sending`).

Each of these invariants was model-checked before it was proved. Assumptions
are the named ASSUMEs on the constants (`TaskCount`, `TaskPriorities`,
`KernelConfig`, `AlarmConfig`, `SixteenPriorities`, `SysTickConfig`,
`I2cConfig`, `SleepConfig`, `AvrConfig`, `SerialConfig`, `InterruptConfig`), which the configurator's output or the
constants of the drivers satisfy and TLC evaluates.

`BusFree`, that an idle port has released both lines, is proved only. Only
model-checked: liveness
(`SchedtskGetsCpu`, `UrgentTaskRuns`, `TicksGoOn`, `CallReturns`,
`LinkRecovers`, `BytesRead`), which is out of the prover's reach.

## 5. Findings

Three runs end in a violation of something the repository states.

- `prehook`: because `set_ipl` is empty, PreTaskHook is open to handlers that
  change `schedtsk` without a dispatch, and so are ErrorHook and
  SuspendOSInterrupts sections.
- `alarmbase`: with TICKSPERBASE above 1 a re-inserted periodic alarm goes in
  front of an overdue one, which then expires late.
- `sleeprace`: two tasks that call Sleep may take the same slot, and one of them
  sleeps for ever.

`PROJECT.json` quotes the lines. It also lists, as hazards without a property,
matters seen while modelling that no run reaches or that contradict no
statement of the repository:

- ticks of the low-priority handler merge when a task it activated runs longer
  than a millisecond, or when the request is raised while it clears it
  (`cpu_support.S:287`, `systick.c:34`);
- a write of no bytes turns the output buffer without queueing it (`hs.c:144`);
- ShutdownOS returns (`osctl.c:84`); InitMessage during StartCOM and a
  second StartCOM (`com.c:107`, `80`);
- Sleep(0) sleeps for 2^32 ms (`rtoscalls.c:65`);
- two tasks that set input powers may undo each other (`nxt_avr.c:375`);
- `interrupt_initialize` initialises a local variable instead of `runisr`, and
  `isrcb_lastres` with the identifier of a resource (`interrupt.c:103`);
- the nesting counters stop at 255 (`interrupt.c:140`).

## 6. Plan and limits

Written, in this order: `OsekTask`, `OsekKernel` and proofs; `OsekAlarm` over
`AlarmTimers` and proofs; `SysTick`; `ReadyList` over `ReadyQueue` and proofs;
`OsekInterrupt` with `OsekCom`; `I2cPort` with `SleepService`; `AvrLink`;
`SerialDma`; the proofs of the last four and of `SysTick`; the proofs of the
priority protocol, of `OsekCom`, of the alarm queue and of the ready lists. Left:

1. The handler branch of the resources, ShutdownOS and StartupHook.
2. `OsekSystem`: `SignalCounter`'s callbacks composed with the kernel, from an
   alarm over its activation to the dispatch.

Not modelled, and why.

- `byte_fifo.c` and the interrupt half of `uart.c`: nothing reaches them.
  `hs_enable` masks the interrupt of US0, and no code calls `uart_put_byte` or
  `uart_get_byte`.
- USB: enumeration and endpoint banks follow the hardware step by step; without
  a model of it a specification would only repeat the register accesses.
- The Bluetooth session: a linear dialogue of fixed waits and polls on top of
  what `SerialDma` models.
- Display, sound, sensor and motor access, start-up screens and buttons:
  sequential register access and data conversion with little control of their
  own. Flash loader: a protocol with a host tool.
- The configurator `sg`: a host program; its output is the constants.
- TOPPERS/JSP: a second, vendored kernel. It and the vendored headers, samples
  and host tools make up most of the repository's lines.
