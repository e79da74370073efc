---------------------------- MODULE SleepService ----------------------------
(***************************************************************************)
(* The sleep services for C++ devices, ecrobot/c/rtoscalls.c, and I2c      *)
(* (ecrobot/c++/device/I2c.cpp), which uses them: a task waits for an      *)
(* event until its I2C port is idle, or for a number of milliseconds, and  *)
(* SleeperMonitor, called every millisecond from the timer interrupt, sets *)
(* the event.  The services run with open interrupts: a tick, the port's   *)
(* timer and a task of a higher priority may come between two statements.  *)
(***************************************************************************)
EXTENDS I2cPort

CONSTANTS
  NTask,      \* tasks 1 .. NTask, the number being the priority
  I2cTask,    \* the task with the I2C device, 0 for none
  SleepTask,  \* the tasks that call Sleep
  N_TASKS,    \* slots of sleeping tasks
  MaxMs       \* bound: duration of a Sleep

ASSUME SleepConfig ==
  /\ NTask \in Nat /\ N_TASKS \in Nat \ {0} /\ MaxMs \in Nat \ {0}
  /\ I2cTask \in 0 .. NTask /\ SleepTask \subseteq 1 .. NTask

Task == 1 .. NTask
Slot == 1 .. N_TASKS

VARIABLES
  pc,        \* where each task is
  call,      \* its slot, or the call of SleepI2C it is in
  event,     \* EventSleep is set
  eventI2C,  \* EventSleepI2C is set
  i2c,       \* isI2cSleeping and sleeperI2C_ID of the port
  slot       \* isTaskSleeping, sleeperTask_ID and sleepTaskCounter

taskVars == <<pc, call, event, eventI2C, i2c, slot>>
vars == <<taskVars, i2cVars>>

(* In Sleep or SleepI2C, waiting for the event. *)
Blocked(t) == \/ pc[t] = "wait" /\ ~ event[t]
              \/ pc[t] = "wait_i2c" /\ ~ eventI2C[t]
Active(t)  == pc[t] # "out" /\ ~ Blocked(t)

(* The task is the one that runs, and moves on from one point to another. *)
Runs(t, from, to) ==
  /\ pc[t] = from /\ ~ Blocked(t)
  /\ \A u \in Task : u > t => ~ Active(u)
  /\ pc' = [pc EXCEPT ![t] = to]

-----------------------------------------------------------------------------
(* Sleep looks for a free slot, fills it and waits.  Without a free slot   *)
(* it returns.                                                             *)
Sleep(t) ==
  \/ /\ Runs(t, "out", "search")
     /\ call' = [call EXCEPT ![t] = 1]
     /\ UNCHANGED <<event, i2c, slot>>
  \/ /\ slot[call[t]].asleep
     /\ Runs(t, "search", IF call[t] = N_TASKS THEN "out" ELSE "search")
     /\ call' = [call EXCEPT ![t] = IF @ = N_TASKS THEN 1 ELSE @ + 1]
     /\ UNCHANGED <<event, i2c, slot>>
  \/ /\ ~ slot[call[t]].asleep
     /\ Runs(t, "search", "id")
     /\ UNCHANGED <<call, event, i2c, slot>>
  \/ /\ Runs(t, "id", "flag")
     /\ slot' = [slot EXCEPT ![call[t]].id = t]
     /\ UNCHANGED <<call, event, i2c>>
  \/ /\ Runs(t, "flag", "counter")
     /\ slot' = [slot EXCEPT ![call[t]].asleep = TRUE]
     /\ UNCHANGED <<call, event, i2c>>
  \/ /\ Runs(t, "counter", "wait")
     /\ \E ms \in 1 .. MaxMs : slot' = [slot EXCEPT ![call[t]].counter = ms]
     /\ UNCHANGED <<call, event, i2c>>
  \/ /\ Runs(t, "wait", "out")                           \* ClearEvent
     /\ event' = [event EXCEPT ![t] = FALSE]
     /\ call' = [call EXCEPT ![t] = 1]
     /\ UNCHANGED <<i2c, slot>>

(* Fault: the flag is set before the task's identifier is saved. *)
SleepI2C_FlagFirst(t, from, to) ==
  \/ /\ ~ i2c_busy /\ Runs(t, from, to)
     /\ UNCHANGED <<call, eventI2C, i2c>>
  \/ /\ i2c_busy /\ Runs(t, from, "id_i2c")
     /\ UNCHANGED <<call, eventI2C>> /\ i2c' = [i2c EXCEPT !.asleep = TRUE]
  \/ /\ Runs(t, "id_i2c", "wait_i2c")
     /\ i2c' = [i2c EXCEPT !.id = t]
     /\ UNCHANGED <<call, eventI2C>>
  \/ /\ pc[t] = "wait_i2c" /\ Runs(t, "wait_i2c", to)
     /\ eventI2C' = [eventI2C EXCEPT ![t] = FALSE]
     /\ UNCHANGED <<call, i2c>>

(* SleepI2C, called at one point and returning to another, if the port is  *)
(* busy waits for the event.                                               *)
SleepI2C(t, from, to) ==
  \/ /\ ~ i2c_busy /\ Runs(t, from, to)
     /\ UNCHANGED <<call, eventI2C, i2c>>
  \/ /\ i2c_busy /\ Runs(t, from, "id_i2c")
     /\ UNCHANGED <<call, eventI2C, i2c>>
  \/ /\ Runs(t, "id_i2c", "flag_i2c")
     /\ i2c' = [i2c EXCEPT !.id = t]
     /\ UNCHANGED <<call, eventI2C>>
  \/ /\ Runs(t, "flag_i2c", "wait_i2c")
     /\ i2c' = [i2c EXCEPT !.asleep = TRUE]
     /\ UNCHANGED <<call, eventI2C>>
  \/ /\ Runs(t, "wait_i2c", to)                          \* ClearEvent
     /\ eventI2C' = [eventI2C EXCEPT ![t] = FALSE]
     /\ UNCHANGED <<call, i2c>>

(* I2c::send and I2c::receive: SleepI2C (call 1), the transaction, and     *)
(* SleepI2C again (call 2).                                                *)
I2cTransfer(t) ==
  \/ /\ Runs(t, "out", "busy")
     /\ UNCHANGED <<call, event, eventI2C, i2c, slot, i2cVars>>
  \/ /\ call[t] = 1 /\ SleepI2C(t, "busy", "start") /\ UNCHANGED <<event, slot, i2cVars>>
  \/ /\ Runs(t, "start", "busy")
     /\ call' = [call EXCEPT ![t] = 2]
     /\ \E nbytes \in 0 .. MaxBytes, write \in BOOLEAN : i2c_start_transaction(nbytes, write)
     /\ UNCHANGED <<event, eventI2C, i2c, slot>>
  \/ /\ call[t] = 2 /\ SleepI2C(t, "busy", "return") /\ UNCHANGED <<event, slot, i2cVars>>
  \/ /\ Runs(t, "return", "out")
     /\ call' = [call EXCEPT ![t] = 1]
     /\ UNCHANGED <<event, eventI2C, i2c, slot, i2cVars>>

-----------------------------------------------------------------------------
(* SleeperMonitor: the flags are reset and the events set.  A counter of 0 *)
(* wraps around to one (-1 here) that takes 49 days to run off.            *)
Less(counter) == IF counter > 0 THEN counter - 1 ELSE -1
Expires(s)    == s.asleep /\ Less(s.counter) = 0

(* Fault: whether the port is busy is not asked. *)
I2cReady_Always == i2c.asleep

I2cReady == i2c.asleep /\ ~ i2c_busy

SleeperMonitor ==
  /\ I2cReady \/ \E s \in Slot : slot[s].asleep
  /\ i2c' = [i2c EXCEPT !.asleep = @ /\ ~ I2cReady]
  /\ slot' = [s \in Slot |->
       IF slot[s].asleep
       THEN [slot[s] EXCEPT !.counter = Less(@), !.asleep = ~ Expires(slot[s])]
       ELSE slot[s]]
  /\ eventI2C' = [t \in Task |-> eventI2C[t] \/ (I2cReady /\ i2c.id = t)]
  /\ event' = [t \in Task |-> \/ event[t]
                              \/ \E s \in Slot : Expires(slot[s]) /\ slot[s].id = t]
  /\ UNCHANGED <<pc, call, i2cVars>>

TaskStep(t) ==
  \/ t \in SleepTask /\ Sleep(t) /\ UNCHANGED <<eventI2C, i2cVars>>
  \/ t = I2cTask /\ I2cTransfer(t)

Init ==
  /\ i2c_enable
  /\ pc = [t \in Task |-> "out"] /\ call = [t \in Task |-> 1]
  /\ event = [t \in Task |-> FALSE] /\ eventI2C = [t \in Task |-> FALSE]
  /\ i2c = [asleep |-> FALSE, id |-> 0]
  /\ slot = [s \in Slot |-> [asleep |-> FALSE, id |-> 0, counter |-> 0]]

Next ==
  \/ \E t \in Task : TaskStep(t)
  \/ SleeperMonitor
  \/ (i2c_timer_isr_C \/ Device) /\ UNCHANGED taskVars

Spec == Init /\ [][Next]_vars

(* The timers go on; the device lets the clock and, when it is clocked,    *)
(* the data line go; a call that is begun goes on whenever no task of a    *)
(* higher priority runs (these sleep again and again).                     *)
Fairness ==
  /\ WF_vars(i2c_timer_isr_C /\ UNCHANGED taskVars)
  /\ WF_vars(SleeperMonitor)
  /\ WF_vars(DeviceReleasesScl /\ UNCHANGED taskVars)
  /\ SF_vars(DeviceReleasesSda /\ UNCHANGED taskVars)
  /\ \A t \in Task : SF_vars(pc[t] # "out" /\ TaskStep(t))

FairSpec == Spec /\ Fairness

-----------------------------------------------------------------------------
Point == {"out", "search", "id", "flag", "counter", "wait", "busy", "start",
          "id_i2c", "flag_i2c", "wait_i2c", "return"}

(* Type invariant. *)
TypeOK ==
  /\ PortType
  /\ pc \in [Task -> Point] /\ call \in [Task -> Slot \cup {1, 2}]
  /\ event \in [Task -> BOOLEAN] /\ eventI2C \in [Task -> BOOLEAN]
  /\ i2c \in [asleep : BOOLEAN, id : 0 .. NTask]
  /\ slot \in [Slot -> [asleep : BOOLEAN, id : 0 .. NTask, counter : -1 .. MaxMs]]

(* A task that waits in SleepI2C is the one that SleeperMonitor will wake. *)
DeviceSleeperKnown ==
  \A t \in Task : pc[t] = "wait_i2c" /\ Blocked(t) => i2c.asleep /\ i2c.id = t

(* A task that waits in Sleep has a slot whose counter still runs, "Sleep  *)
(* the running Task for duration in msec." (ecrobot/c++/device/Clock.h).   *)
SleeperKnown ==
  \A t \in Task : pc[t] = "wait" /\ Blocked(t) =>
    \E s \in Slot : slot[s].asleep /\ slot[s].id = t /\ slot[s].counter > 0

(* I2c::send and I2c::receive return when the transfer is over: outside of *)
(* them the port never works on the caller's buffer.                       *)
TransferDone ==
  \A t \in Task \cap {I2cTask} : pc[t] \in {"out", "return"} => ~ i2c_busy

BusConditions == [][SclLine /\ SclLine' /\ SdaLine # SdaLine' => Condition]_vars

(* Every call returns: the transfer ends, acknowledged or not, and no      *)
(* wake-up is lost between the test for busy and the wait.                 *)
CallReturns == \A t \in Task : pc[t] # "out" ~> pc[t] = "out"
=============================================================================
