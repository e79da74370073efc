---------------------------- MODULE AlarmTimers ----------------------------
(***************************************************************************)
(* What the alarms of one counter promise, without the counter's value and *)
(* without a queue: each armed alarm has a number of ticks left, a tick    *)
(* takes one from all of them, every alarm that has none left expires      *)
(* before the next tick, one callback at a time, and a periodic alarm      *)
(* starts anew with its whole cycle when its callback returns.             *)
(* Module OsekAlarm implements this specification.                         *)
(***************************************************************************)
EXTENDS Integers

CONSTANTS Alarm,     \* the alarms
          MaxLeft,   \* the most ticks an alarm is set ahead
          Quiet      \* not an alarm: no callback runs

VARIABLES left,      \* ticks left of each alarm
          period,    \* cycle of each alarm, 0 if it expires once
          firing     \* alarm whose callback runs

vars == <<left, period, firing>>

Off == -1            \* ticks left of an alarm that is not armed

TypeOK == /\ left \in [Alarm -> {Off} \cup 0 .. MaxLeft]
          /\ period \in [Alarm -> 0 .. MaxLeft]
          /\ firing \in Alarm \cup {Quiet}

Init == /\ left \in [Alarm -> {Off} \cup 1 .. MaxLeft]
        /\ period \in [Alarm -> 0 .. MaxLeft]
        /\ firing = Quiet

Set(l, a, n) == [x \in Alarm |-> IF x = a THEN n ELSE l[x]]

Arm(a) ==
  /\ left[a] = Off
  /\ \E n \in 1 .. MaxLeft : left' = Set(left, a, n)
  /\ \E cycle \in 0 .. MaxLeft : period' = [period EXCEPT ![a] = cycle]
  /\ UNCHANGED firing

Cancel(a) ==
  /\ left[a] # Off
  /\ left' = Set(left, a, Off)
  /\ period' = [period EXCEPT ![a] = 0]
  /\ UNCHANGED firing

(* One of the alarms that have no tick left expires, if there is one. *)
Expire(l) ==
  \/ \E a \in Alarm : /\ l[a] = 0
                      /\ left' = Set(l, a, Off)
                      /\ firing' = a
  \/ /\ \A a \in Alarm : l[a] # 0
     /\ left' = l
     /\ firing' = Quiet

Tick ==
  /\ firing = Quiet
  /\ Expire([a \in Alarm |-> IF left[a] = Off THEN Off ELSE left[a] - 1])
  /\ UNCHANGED period

CallbackReturn ==
  /\ firing # Quiet
  /\ Expire(IF left[firing] = Off /\ period[firing] > 0
            THEN Set(left, firing, period[firing])
            ELSE left)
  /\ UNCHANGED period

Next == \/ \E a \in Alarm : Arm(a) \/ Cancel(a)
        \/ Tick
        \/ CallbackReturn

Spec == Init /\ [][Next]_vars
=============================================================================
