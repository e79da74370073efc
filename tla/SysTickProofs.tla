--------------------------- MODULE SysTickProofs ---------------------------
(***************************************************************************)
(* The millisecond tick for any number of tasks: every interrupt is ended  *)
(* once, the tick is never re-entered, and the timer is never held back.   *)
(***************************************************************************)
EXTENDS SysTick, WellFoundedInduction, SequenceTheorems, FiniteSetTheorems, TLAPS

(* A set of tasks has a highest one, which is dispatched. *)
LEMMA SmallestNat ==
  ASSUME NEW T, T \subseteq Nat, T # {}
  PROVE  \E x \in T : \A y \in T : x <= y
PROOF
  <1> DEFINE R == OpToRel(<, Nat)
  <1>1. IsWellFoundedOn(R, Nat)
    BY NatLessThanWellFounded
  <1>2. \A x, y \in Nat : y < x => <<y, x>> \in R
    BY DEF OpToRel
  <1> HIDE DEF R
  <1>3. PICK x \in T : \A y \in T : ~ (<<y, x>> \in R)
    BY <1>1, WFMin
  <1>4. \A y \in T : ~ (y < x)
    BY <1>2, <1>3
  <1> QED BY <1>4

LEMMA TaskNat == (\A t \in Task : t \in Nat /\ t > 0) /\ Idle = 0 /\ Idle \notin Task
BY SysTickConfig DEF Task, Idle

LEMMA HighestTask ==
  ASSUME NEW r, r \subseteq Task
  PROVE  /\ r = {} => Highest(r) = Idle
         /\ r # {} => Highest(r) \in r /\ \A t \in r : t <= Highest(r)
PROOF
  <1>1. CASE r = {}
    BY <1>1 DEF Highest
  <1>2. CASE r # {}
    <2> DEFINE T == {Ntask - t : t \in r}
    <2>1. T \subseteq Nat /\ T # {}
      BY <1>2, SysTickConfig DEF Task
    <2>2. PICK x \in T : \A y \in T : x <= y
      BY <2>1, SmallestNat
    <2>3. PICK m \in r : x = Ntask - m
      BY <2>2
    <2>4. \A t \in r : m >= t
      <3> SUFFICES ASSUME NEW t \in r PROVE m >= t
        OBVIOUS
      <3>1. Ntask - m <= Ntask - t
        BY <2>2, <2>3
      <3> QED BY <3>1, SysTickConfig DEF Task
    <2>5. Max(r) \in r /\ \A t \in r : Max(r) >= t
      BY <2>3, <2>4 DEF Max
    <2>6. \A t \in r : t <= Max(r)
      BY <2>5 DEF Task
    <2> QED BY <1>2, <2>5, <2>6 DEF Highest
  <1> QED BY <1>1, <1>2

-----------------------------------------------------------------------------
(* At most two handlers are active, the timer's on top of the other; the   *)
(* AIC holds their levels and below them that of a parked task's, of which *)
(* there is one at most, parked by the low handler.                        *)
Nested ==
  /\ Len(isr) \in 0 .. 2
  /\ Len(isr) = 2 => isr[1].src = "sysirq" /\ isr[2].src = "low"

Held ==
  /\ Len(inservice) = Len(isr) + (IF parked = {} THEN 0 ELSE 1)
  /\ \A i \in 1 .. Len(isr) : inservice[i] = isr[i].src
  /\ parked # {} => /\ inservice[Len(inservice)] = "low" /\ ~ Handling("low")
                    /\ \E t \in Task : parked = {t}

(* The running task is the most urgent one, but for what the low handler   *)
(* has just activated. *)
Urgent ==
  /\ cpu \notin ready
  /\ cpu # Idle /\ ~ Handling("low") => \A t \in ready : t < cpu

IInv ==
  /\ TypeOK /\ Nested /\ Held /\ Urgent
  /\ Handling("sysirq") => "sysirq" \notin pending

-----------------------------------------------------------------------------
LEMMA InitInv == Init => IInv
PROOF
  <1> SUFFICES ASSUME Init PROVE IInv
    OBVIOUS
  <1>1. isr = <<>> /\ inservice = <<>> /\ Len(isr) = 0 /\ Len(inservice) = 0
    BY DEF Init
  <1>2. <<>> \in Seq(Handler) /\ <<>> \in Seq(Source)
    OBVIOUS
  <1> QED BY <1>1, <1>2 DEF Init, IInv, TypeOK, Nested, Held, Urgent, Handling, Idle

(* What keeps the handlers and the AIC as they are keeps their relation. *)
LEMMA SameHandlers ==
  ASSUME IInv, isr' \in Seq(Handler), Len(isr') = Len(isr),
         \A i \in 1 .. Len(isr) : isr'[i].src = isr[i].src,
         UNCHANGED <<cpu, parked, inservice>>,
         pending' \subseteq Source, ready' \subseteq Task, ready \subseteq ready',
         cpu \notin ready', ready' = ready \/ Handling("low"),
         Handling("sysirq") => "sysirq" \notin pending'
  PROVE  IInv'
PROOF
  <1>1. \A s : Handling(s)' = Handling(s)
    BY DEF Handling
  <1>2. TypeOK'
    BY DEF IInv, TypeOK
  <1>3. Len(isr) \in 0 .. 2
    BY DEF IInv, Nested
  <1>4. Nested'
    BY <1>3 DEF IInv, Nested
  <1>5. Held'
    BY <1>1, <1>3 DEF IInv, Held
  <1>6. Urgent'
    BY <1>1 DEF IInv, Urgent
  <1> QED BY <1>1, <1>2, <1>4, <1>5, <1>6 DEF IInv

LEMMA PitInv == IInv /\ Pit => IInv'
PROOF
  <1> SUFFICES ASSUME IInv, Pit PROVE IInv'
    OBVIOUS
  <1>1. isr \in Seq(Handler) /\ Len(isr) \in 0 .. 2
    BY DEF IInv, TypeOK, Nested
  <1>2. isr' = [i \in 1 .. Len(isr) |-> [isr[i] EXCEPT !.hit = TRUE]]
    BY DEF Pit
  <1>3. \A i \in 1 .. Len(isr) : /\ [isr[i] EXCEPT !.hit = TRUE] \in Handler
                                 /\ [isr[i] EXCEPT !.hit = TRUE].src = isr[i].src
    <2> SUFFICES ASSUME NEW i \in 1 .. Len(isr)
                 PROVE  /\ [isr[i] EXCEPT !.hit = TRUE] \in Handler
                        /\ [isr[i] EXCEPT !.hit = TRUE].src = isr[i].src
      OBVIOUS
    <2>1. isr[i] \in Handler
      BY <1>1
    <2> QED BY <2>1 DEF Handler
  <1>4. isr' \in Seq(Handler) /\ Len(isr') = Len(isr)
    BY <1>1, <1>2, <1>3
  <1>5. \A i \in 1 .. Len(isr) : isr'[i].src = isr[i].src
    BY <1>2, <1>3
  <1> QED BY <1>4, <1>5, SameHandlers DEF Pit, IInv, TypeOK, Urgent, Source

(* The steps of a handler up to its return. *)
LEMMA GoesToSame ==
  ASSUME IInv, NEW s \in Source, NEW from, NEW to \in {"entry", "hook", "update", "exit"},
         InHandler(s, from), GoesTo(to)
  PROVE  /\ isr' \in Seq(Handler) /\ Len(isr') = Len(isr)
         /\ \A i \in 1 .. Len(isr) : isr'[i].src = isr[i].src
         /\ Handling(s)
PROOF
  <1>1. isr \in Seq(Handler) /\ isr # <<>> /\ Len(isr) \in 1 .. 2
    BY DEF IInv, TypeOK, Nested, InHandler
  <1>2. isr[1] \in Handler /\ 1 \in 1 .. Len(isr)
    BY <1>1
  <1>3. [isr[1] EXCEPT !.at = to] \in Handler /\ [isr[1] EXCEPT !.at = to].src = isr[1].src
    BY <1>2 DEF Handler
  <1>4. isr' = [isr EXCEPT ![1] = [isr[1] EXCEPT !.at = to]]
    BY DEF GoesTo
  <1>5. isr' \in Seq(Handler) /\ Len(isr') = Len(isr)
    BY <1>1, <1>2, <1>3, <1>4
  <1>6. \A i \in 1 .. Len(isr) : isr'[i].src = isr[i].src
    BY <1>1, <1>3, <1>4
  <1>7. Handling(s)
    BY <1>2 DEF Handling, InHandler
  <1> QED BY <1>5, <1>6, <1>7

LEMMA HandlerInv ==
  IInv /\ (systick_isr_C \/ systick_isr_C1 \/ user_1ms_isr_type2 \/ systick_low_priority_C)
    => IInv'
PROOF
  <1> SUFFICES ASSUME IInv, \/ systick_isr_C \/ systick_isr_C1
                            \/ user_1ms_isr_type2 \/ systick_low_priority_C
               PROVE  IInv'
    OBVIOUS
  <1>1. pending \subseteq Source /\ ready \subseteq Task /\ cpu \notin ready
        /\ (Handling("sysirq") => "sysirq" \notin pending)
    BY DEF IInv, TypeOK, Urgent
  <1>2. CASE systick_isr_C
    <2>1. InHandler("sysirq", "entry") /\ GoesTo("exit") /\ pending' = pending \cup {"low"}
          /\ UNCHANGED <<cpu, ready, parked, inservice>>
      BY <1>2 DEF systick_isr_C
    <2>2. "sysirq" \in Source
      BY DEF Source
    <2>3. /\ isr' \in Seq(Handler) /\ Len(isr') = Len(isr)
          /\ \A i \in 1 .. Len(isr) : isr'[i].src = isr[i].src
      BY <2>1, <2>2, GoesToSame
    <2>4. pending' \subseteq Source /\ ("sysirq" \in pending' => "sysirq" \in pending)
      BY <1>1, <2>1 DEF Source
    <2> QED BY <1>1, <2>1, <2>3, <2>4, SameHandlers
  <1>3. CASE systick_isr_C1 \/ systick_low_priority_C
    <2>1. PICK from \in {"entry", "update"}, to \in {"hook", "exit"} :
            InHandler("low", from) /\ GoesTo(to)
      BY <1>3 DEF systick_isr_C1, systick_low_priority_C
    <2>2. pending' = pending \ {"low"} /\ UNCHANGED <<cpu, ready, parked, inservice>>
      BY <1>3 DEF systick_isr_C1, systick_low_priority_C
    <2>3. "low" \in Source
      BY DEF Source
    <2>4. /\ isr' \in Seq(Handler) /\ Len(isr') = Len(isr)
          /\ \A i \in 1 .. Len(isr) : isr'[i].src = isr[i].src
      BY <2>1, <2>3, GoesToSame
    <2> QED BY <1>1, <2>2, <2>4, SameHandlers
  <1>4. CASE user_1ms_isr_type2
    <2>1. InHandler("low", "hook") /\ GoesTo("update")
          /\ UNCHANGED <<cpu, parked, inservice, pending>>
      BY <1>4 DEF user_1ms_isr_type2
    <2>2. "low" \in Source
      BY DEF Source
    <2>3. /\ isr' \in Seq(Handler) /\ Len(isr') = Len(isr) /\ Handling("low")
          /\ \A i \in 1 .. Len(isr) : isr'[i].src = isr[i].src
      BY <2>1, <2>2, GoesToSame
    <2>4. ready' \subseteq Task /\ ready \subseteq ready' /\ cpu \notin ready'
      BY <1>1, <1>4 DEF user_1ms_isr_type2
    <2> QED BY <1>1, <2>1, <2>3, <2>4, SameHandlers
  <1> QED BY <1>2, <1>3, <1>4

(* An interrupt of a higher level than those in service is entered. *)
LEMMA EntryInv == ASSUME NEW s \in Source, IInv, irq_wrapper_type2(s) PROVE IInv'
PROOF
  <1> DEFINE h == [src |-> s, at |-> "entry", hit |-> FALSE]
  <1>1. /\ Deliverable(s) /\ pending' = pending \ {s}
        /\ inservice' = <<s>> \o inservice /\ isr' = <<h>> \o isr
        /\ UNCHANGED <<cpu, ready, parked>>
    BY DEF irq_wrapper_type2
  <1>2. /\ isr \in Seq(Handler) /\ inservice \in Seq(Source) /\ Len(isr) \in 0 .. 2
        /\ h \in Handler /\ h.src = s
    BY DEF IInv, TypeOK, Nested, Handler
  <1> HIDE DEF h
  <1>3. /\ <<h>> \in Seq(Handler) /\ Len(<<h>>) = 1 /\ <<h>>[1] = h
        /\ <<s>> \in Seq(Source) /\ Len(<<s>>) = 1 /\ <<s>>[1] = s
    BY <1>2
  <1>4. /\ isr' \in Seq(Handler) /\ Len(isr') = Len(isr) + 1 /\ isr'[1] = h
        /\ \A i \in 1 .. Len(isr) : isr'[i + 1] = isr[i]
    BY <1>1, <1>2, <1>3, ConcatProperties
  <1>5. /\ inservice' \in Seq(Source) /\ Len(inservice') = Len(inservice) + 1
        /\ inservice'[1] = s
        /\ \A i \in 1 .. Len(inservice) : inservice'[i + 1] = inservice[i]
    BY <1>1, <1>2, <1>3, ConcatProperties
  <1>6. \A q : Handling(q)' <=> q = s \/ Handling(q)
    <2> SUFFICES ASSUME NEW q PROVE Handling(q)' <=> q = s \/ Handling(q)
      OBVIOUS
    <2>1. ASSUME q = s PROVE Handling(q)'
      BY <1>2, <1>4, <2>1 DEF Handling
    <2>2. ASSUME Handling(q) PROVE Handling(q)'
      <3>1. PICK i \in 1 .. Len(isr) : isr[i].src = q
        BY <2>2 DEF Handling
      <3>2. i + 1 \in 1 .. Len(isr') /\ isr'[i + 1].src = q
        BY <1>2, <1>4, <3>1
      <3> QED BY <3>2 DEF Handling
    <2>3. ASSUME Handling(q)', q # s PROVE Handling(q)
      <3>1. PICK i \in 1 .. Len(isr') : isr'[i].src = q
        BY <2>3 DEF Handling
      <3>2. i # 1
        BY <1>2, <1>4, <2>3, <3>1
      <3> DEFINE j == i - 1
      <3>3. j \in 1 .. Len(isr) /\ i = j + 1
        BY <1>2, <1>4, <3>1, <3>2
      <3>4. isr[j].src = q
        BY <1>4, <3>1, <3>3
      <3> QED BY <3>3, <3>4 DEF Handling
    <2> QED BY <2>1, <2>2, <2>3
  <1>7. inservice # <<>> => s = "sysirq" /\ inservice[1] = "low"
    <2> SUFFICES ASSUME inservice # <<>> PROVE s = "sysirq" /\ inservice[1] = "low"
      OBVIOUS
    <2>1. Head(inservice) = inservice[1] /\ inservice[1] \in Source
      BY <1>2
    <2>2. Level(s) > Level(inservice[1])
      BY <1>1, <2>1 DEF Deliverable, InService
    <2> QED BY <2>1, <2>2 DEF Level, Source
  <1>8. /\ Len(inservice) = Len(isr) + (IF parked = {} THEN 0 ELSE 1)
        /\ \A i \in 1 .. Len(isr) : inservice[i] = isr[i].src
    BY DEF IInv, Held
  <1>9. inservice = <<>> <=> Len(inservice) = 0
    BY <1>2
  <1>10. Len(isr) # 0 => Len(isr) = 1 /\ isr[1].src = "low" /\ s = "sysirq"
    <2> SUFFICES ASSUME Len(isr) # 0 PROVE Len(isr) = 1 /\ isr[1].src = "low" /\ s = "sysirq"
      OBVIOUS
    <2>1. inservice # <<>> /\ isr[1].src = inservice[1]
      BY <1>2, <1>8, <1>9
    <2> QED BY <1>2, <1>7, <2>1 DEF IInv, Nested
  <1>11. Nested'
    BY <1>2, <1>4, <1>10 DEF Nested
  <1>12. TypeOK'
    BY <1>1, <1>4, <1>5 DEF IInv, TypeOK
  <1>13. Held'
    <2>1. Len(inservice') = Len(isr') + (IF parked' = {} THEN 0 ELSE 1)
      BY <1>1, <1>2, <1>4, <1>5, <1>8
    <2>2. ASSUME NEW i \in 1 .. Len(isr') PROVE inservice'[i] = isr'[i].src
      <3>1. CASE i = 1
        BY <1>2, <1>4, <1>5, <3>1
      <3>2. CASE i # 1
        <4> DEFINE j == i - 1
        <4>1. j \in 1 .. Len(isr) /\ i = j + 1 /\ j \in 1 .. Len(inservice)
          BY <1>2, <1>4, <1>8, <3>2
        <4> HIDE DEF j
        <4> QED BY <1>4, <1>5, <1>8, <4>1
      <3> QED BY <3>1, <3>2
    <2>3. ASSUME parked # {}
          PROVE  /\ inservice'[Len(inservice')] = "low" /\ ~ Handling("low")'
                 /\ \E t \in Task : parked = {t}
      <3>1. /\ inservice[Len(inservice)] = "low" /\ ~ Handling("low")
            /\ \E t \in Task : parked = {t}
        BY <2>3 DEF IInv, Held
      <3>2. Len(inservice) \in 1 .. Len(inservice)
        BY <1>2, <1>8, <2>3
      <3>3. inservice # <<>>
        BY <1>9, <3>2
      <3> QED BY <1>5, <1>6, <1>7, <3>1, <3>2, <3>3
    <2> QED BY <1>1, <2>1, <2>2, <2>3 DEF Held
  <1>14. Urgent'
    BY <1>1, <1>6 DEF IInv, Urgent
  <1>15. Handling("sysirq")' => "sysirq" \notin pending'
    BY <1>1, <1>6 DEF IInv
  <1> QED BY <1>11, <1>12, <1>13, <1>14, <1>15 DEF IInv

-----------------------------------------------------------------------------
(* A dispatch without an active handler: the most urgent task runs, and a  *)
(* parked one that resumes ends its interrupt.                             *)
LEMMA DispatchInv ==
  ASSUME IInv, isr = <<>>, isr' = isr, pending' = pending,
         NEW r, r \subseteq Task, parked \subseteq r, Dispatch(r, parked)
  PROVE  IInv'
PROOF
  <1>1. /\ cpu' = Highest(r) /\ ready' = r \ {cpu'} /\ parked' = parked \ {cpu'}
        /\ inservice' = IF cpu' \in parked THEN Tail(inservice) ELSE inservice
    BY DEF Dispatch
  <1>2. /\ cpu' \in Task \cup {Idle} /\ cpu' \notin ready'
        /\ \A t \in ready' : t <= cpu' /\ t # cpu' /\ t \in Task
        /\ cpu' = Idle => ready' = {}
    <2>1. CASE r = {}
      BY <1>1, <2>1, HighestTask
    <2>2. CASE r # {}
      <3>1. cpu' \in r /\ \A t \in r : t <= cpu'
        BY <1>1, <2>2, HighestTask
      <3> QED BY <1>1, <3>1, TaskNat
    <2> QED BY <2>1, <2>2
  <1>3. Urgent'
    BY <1>2, TaskNat DEF Urgent
  <1>4. /\ Len(isr) = 0 /\ \A q : ~ Handling(q) /\ ~ Handling(q)'
        /\ inservice \in Seq(Source)
    BY DEF Handling, IInv, TypeOK
  <1>5. /\ Len(inservice) = IF parked = {} THEN 0 ELSE 1
        /\ parked # {} => inservice[Len(inservice)] = "low" /\ \E t \in Task : parked = {t}
    BY <1>4 DEF IInv, Held
  <1>6. inservice' \in Seq(Source) /\ Held'
    <2>1. CASE cpu' \in parked
      <3>1. parked # {} /\ parked' = {}
        BY <1>1, <1>5, <2>1
      <3>2. inservice \in Seq(Source) /\ Len(inservice) = 1 /\ inservice' = Tail(inservice)
        BY <1>1, <1>4, <1>5, <2>1, <3>1
      <3>3. inservice' \in Seq(Source) /\ Len(inservice') = 0
        BY <3>2
      <3> QED BY <1>4, <3>1, <3>3 DEF Held
    <2>2. CASE cpu' \notin parked
      <3>1. parked' = parked /\ inservice' = inservice
        BY <1>1, <2>2
      <3> QED BY <1>4, <1>5, <3>1 DEF Held
    <2> QED BY <2>1, <2>2
  <1>7. TypeOK'
    BY <1>1, <1>2, <1>6 DEF IInv, TypeOK
  <1>8. Nested'
    BY <1>4 DEF Nested
  <1> QED BY <1>3, <1>4, <1>6, <1>7, <1>8 DEF IInv

LEMMA TaskInv == IInv /\ (idle_loop \/ TaskLeaves \/ \E t \in Task : TaskActivates(t)) => IInv'
PROOF
  <1> SUFFICES ASSUME IInv, idle_loop \/ TaskLeaves \/ \E t \in Task : TaskActivates(t)
               PROVE  IInv'
    OBVIOUS
  <1>1. ready \subseteq Task /\ parked \subseteq ready /\ cpu \in Task \cup {Idle}
    BY DEF IInv, TypeOK
  <1>2. PICK r \in SUBSET Task :
          parked \subseteq r /\ Dispatch(r, parked) /\ isr = <<>> /\ UNCHANGED <<isr, pending>>
    BY <1>1 DEF idle_loop, TaskLeaves, TaskActivates
  <1> QED BY <1>2, DispatchInv

(* A handler returns.  Only the low one leaves a more urgent task behind:  *)
(* that is dispatched, and the end of the interrupt waits for the other.   *)
LEMMA ReturnInv == IInv /\ int_return => IInv'
PROOF
  <1> SUFFICES ASSUME IInv, int_return PROVE IInv'
    OBVIOUS
  <1>1. /\ isr # <<>> /\ isr' = Tail(isr) /\ pending' = pending
        /\ isr \in Seq(Handler) /\ inservice \in Seq(Source) /\ Len(isr) \in 0 .. 2
        /\ ready \subseteq Task /\ parked \subseteq ready /\ cpu \in Task \cup {Idle}
    BY DEF int_return, IInv, TypeOK, Nested
  <1>2. /\ isr' \in Seq(Handler) /\ Len(isr') = Len(isr) - 1 /\ Len(isr) \in 1 .. 2
        /\ \A i \in 1 .. Len(isr) - 1 : isr'[i] = isr[i + 1]
    BY <1>1
  <1>3. /\ Len(inservice) = Len(isr) + (IF parked = {} THEN 0 ELSE 1)
        /\ \A i \in 1 .. Len(isr) : inservice[i] = isr[i].src
        /\ parked # {} => /\ inservice[Len(inservice)] = "low" /\ ~ Handling("low")
                          /\ \E t \in Task : parked = {t}
    BY DEF IInv, Held
  <1>4. \A q : Handling(q)' => Handling(q)
    <2> SUFFICES ASSUME NEW q, Handling(q)' PROVE Handling(q)
      OBVIOUS
    <2>1. PICK i \in 1 .. Len(isr') : isr'[i].src = q
      BY DEF Handling
    <2>2. i + 1 \in 1 .. Len(isr) /\ isr[i + 1].src = q
      BY <1>2, <2>1
    <2> QED BY <2>2 DEF Handling
  <1>5. Nested'
    BY <1>2 DEF Nested
  <1>6. Handling("sysirq")' => "sysirq" \notin pending'
    BY <1>1, <1>4 DEF IInv
  <1>7. CASE /\ isr' = <<>> /\ cpu # Idle /\ Highest(ready) > cpu
             /\ Dispatch(ready \cup {cpu}, parked \cup {cpu})
    <2> DEFINE r == ready \cup {cpu}
    <2>1. ready # {} /\ Highest(ready) \in ready /\ cpu \in Task
      <3>1. cpu \in Task
        BY <1>1, <1>7
      <3>2. ready # {}
        <4>1. ~ (Idle > cpu)
          BY <3>1, TaskNat
        <4> QED BY <1>1, <1>7, <4>1, HighestTask
      <3> QED BY <1>1, <3>1, <3>2, HighestTask
    <2>2. Handling("low")
      <3>1. ~ (Highest(ready) < cpu)
        BY <1>1, <1>7, <2>1, TaskNat
      <3> QED BY <1>7, <2>1, <3>1 DEF IInv, Urgent
    <2>3. parked = {}
      BY <1>3, <2>2
    <2>4. cpu' = Highest(r) /\ r \subseteq Task /\ r # {} /\ ready' = r \ {cpu'}
          /\ parked' = {cpu} \ {cpu'}
          /\ inservice' = IF cpu' \in {cpu} THEN Tail(inservice) ELSE inservice
      BY <1>1, <1>7, <2>1, <2>3 DEF Dispatch
    <2>5. cpu' \in r /\ \A t \in r : t <= cpu'
      BY <2>4, HighestTask
    <2>6. cpu' # cpu
      <3>1. Highest(ready) <= cpu' /\ Highest(ready) \in Task
        BY <1>1, <2>1, <2>5
      <3> QED BY <1>7, <2>1, <3>1, TaskNat
    <2>7. /\ parked' = {cpu} /\ inservice' = inservice /\ cpu \in ready'
          /\ cpu' \in Task /\ ready' \subseteq Task
      BY <2>4, <2>5, <2>6
    <2>8. Len(isr') = 0 /\ Len(isr) = 1
      BY <1>2, <1>7
    <2>9. isr[1].src = "low"
      <3>1. PICK i \in 1 .. Len(isr) : isr[i].src = "low"
        BY <2>2 DEF Handling
      <3>2. i = 1
        BY <2>8, <3>1
      <3> QED BY <3>1, <3>2
    <2>10. Len(inservice) = 1 /\ inservice[1] = "low"
      BY <1>3, <2>3, <2>8, <2>9
    <2>11. \A q : ~ Handling(q)'
      BY <2>8 DEF Handling
    <2>12. Held'
      BY <2>1, <2>7, <2>8, <2>10, <2>11 DEF Held
    <2>13. Urgent'
      <3>1. \A t \in ready' : t <= cpu' /\ t # cpu' /\ t \in Task
        BY <2>4, <2>5, <2>7
      <3>2. \A t \in ready' : t < cpu'
        BY <2>7, <3>1, TaskNat
      <3> QED BY <2>4, <3>2 DEF Urgent
    <2>14. TypeOK'
      BY <1>1, <1>2, <2>7 DEF IInv, TypeOK
    <2> QED BY <1>5, <1>6, <2>12, <2>13, <2>14 DEF IInv
  <1>8. CASE /\ ~ (isr' = <<>> /\ cpu # Idle /\ Highest(ready) > cpu)
             /\ inservice' = Tail(inservice) /\ UNCHANGED <<cpu, ready, parked>>
    <2>1. inservice # <<>> /\ Len(inservice) \in 1 .. 3
      BY <1>1, <1>2, <1>3
    <2>2. /\ inservice' \in Seq(Source) /\ Len(inservice') = Len(inservice) - 1
          /\ \A i \in 1 .. Len(inservice) - 1 : inservice'[i] = inservice[i + 1]
      BY <1>1, <1>8, <2>1
    <2>3. TypeOK'
      BY <1>1, <1>2, <1>8, <2>2 DEF IInv, TypeOK
    <2>4. Held'
      <3>1. Len(inservice') = Len(isr') + (IF parked' = {} THEN 0 ELSE 1)
        BY <1>2, <1>3, <1>8, <2>2
      <3>2. ASSUME NEW i \in 1 .. Len(isr') PROVE inservice'[i] = isr'[i].src
        <4>1. i + 1 \in 1 .. Len(isr) /\ i \in 1 .. Len(isr) - 1 /\ i \in 1 .. Len(inservice) - 1
          BY <1>2, <1>3
        <4>2. inservice[i + 1] = isr[i + 1].src
          BY <1>3, <4>1
        <4> QED BY <1>2, <2>2, <4>1, <4>2
      <3>3. ASSUME parked # {}
            PROVE  /\ inservice'[Len(inservice')] = "low" /\ ~ Handling("low")'
                   /\ \E t \in Task : parked = {t}
        <4> DEFINE j == Len(inservice) - 1
        <4>1. j \in 1 .. Len(inservice) - 1 /\ j + 1 = Len(inservice) /\ Len(inservice') = j
          BY <1>2, <1>3, <2>1, <2>2, <3>3
        <4> HIDE DEF j
        <4> QED BY <1>3, <1>4, <2>2, <3>3, <4>1
      <3> QED BY <1>8, <3>1, <3>2, <3>3 DEF Held
    <2>5. Urgent'
      <3> SUFFICES ASSUME cpu # Idle, ~ Handling("low")', NEW t \in ready PROVE t < cpu
        BY <1>8 DEF IInv, Urgent
      <3>1. CASE ~ Handling("low")
        BY <3>1 DEF IInv, Urgent
      <3>2. CASE Handling("low")
        <4>1. Len(isr) = 1
          <5>1. ASSUME Len(isr) = 2 PROVE FALSE
            <6>1. isr[2].src = "low" /\ 1 \in 1 .. Len(isr) - 1
              BY <5>1 DEF IInv, Nested
            <6>2. isr'[1].src = "low" /\ 1 \in 1 .. Len(isr')
              BY <1>2, <5>1, <6>1
            <6> QED BY <6>2 DEF Handling
          <5> QED BY <1>2, <5>1
        <4>2. isr' = <<>>
          BY <1>2, <4>1
        <4>3. ~ (Highest(ready) > cpu) /\ Highest(ready) \in ready /\ t <= Highest(ready)
          BY <1>1, <1>8, <4>2, HighestTask
        <4>4. t # cpu
          BY DEF IInv, Urgent
        <4>5. cpu \in Task /\ t \in Task /\ Highest(ready) \in Task
          BY <1>1, <4>3
        <4> QED BY <4>3, <4>4, <4>5, TaskNat
      <3> QED BY <3>1, <3>2
    <2> QED BY <1>5, <1>6, <2>3, <2>4, <2>5 DEF IInv
  <1> QED BY <1>7, <1>8 DEF int_return

-----------------------------------------------------------------------------
LEMMA NextInv == IInv /\ [Next]_vars => IInv'
PROOF
  <1> SUFFICES ASSUME IInv, [Next]_vars PROVE IInv'
    OBVIOUS
  <1>1. CASE Handlers
    BY <1>1, HandlerInv, ReturnInv DEF Handlers
  <1>2. ASSUME NEW s \in Source, irq_wrapper_type2(s) PROVE IInv'
    BY <1>2, EntryInv
  <1>3. CASE UNCHANGED vars
    BY <1>3, SameHandlers DEF vars, IInv, TypeOK, Urgent
  <1> QED BY <1>1, <1>2, <1>3, PitInv, TaskInv DEF Next

LEMMA SysTickInv == Spec => []IInv
BY InitInv, NextInv, PTL DEF Spec

(* The levels that the AIC holds fall from the inside to the outside. *)
LEMMA LevelsFall ==
  ASSUME IInv, NEW i \in 1 .. Len(inservice), NEW j \in 1 .. Len(inservice), i < j
  PROVE  Level(inservice[i]) > Level(inservice[j])
PROOF
  <1>1. /\ Len(isr) \in 0 .. 2 /\ inservice \in Seq(Source) /\ isr \in Seq(Handler)
        /\ Len(inservice) = Len(isr) + (IF parked = {} THEN 0 ELSE 1)
        /\ \A k \in 1 .. Len(isr) : inservice[k] = isr[k].src
        /\ Len(isr) = 2 => isr[1].src = "sysirq" /\ isr[2].src = "low"
    BY DEF IInv, TypeOK, Nested, Held
  <1>2. CASE parked = {}
    <2>1. Len(isr) = 2 /\ i = 1 /\ j = 2
      BY <1>1, <1>2
    <2> QED BY <1>1, <2>1 DEF Level
  <1>3. CASE parked # {}
    <2>1. inservice[Len(inservice)] = "low" /\ ~ Handling("low")
      BY <1>3 DEF IInv, Held
    <2>2. Len(isr) = 1
      <3>1. ASSUME Len(isr) = 2 PROVE FALSE
        BY <1>1, <2>1, <3>1 DEF Handling
      <3> QED BY <1>1, <1>3, <3>1
    <2>3. i = 1 /\ j = 2 /\ Len(inservice) = 2
      BY <1>1, <1>3, <2>2
    <2>4. isr[1] \in Handler /\ isr[1].src # "low"
      <3>1. 1 \in 1 .. Len(isr)
        BY <2>2
      <3> QED BY <1>1, <2>1, <3>1 DEF Handling
    <2>5. isr[1].src = "sysirq"
      BY <2>4 DEF Handler, Source
    <2> QED BY <1>1, <2>1, <2>2, <2>3, <2>5 DEF Level
  <1> QED BY <1>2, <1>3

LEMMA ParkedCount ==
  IInv => Cardinality(parked) = (IF parked = {} THEN 0 ELSE 1)
PROOF
  <1> SUFFICES ASSUME IInv PROVE Cardinality(parked) = (IF parked = {} THEN 0 ELSE 1)
    OBVIOUS
  <1>1. CASE parked = {}
    BY <1>1, FS_EmptySet
  <1>2. CASE parked # {}
    <2>1. PICK t \in Task : parked = {t}
      BY <1>2 DEF IInv, Held
    <2> QED BY <1>2, <2>1, FS_Singleton
  <1> QED BY <1>1, <1>2

(* Handlers, controller and parked tasks stay in range. *)
THEOREM SysTickTypeOK == Spec => []TypeOK
PROOF
  <1>1. IInv => TypeOK
    BY DEF IInv
  <1> QED BY <1>1, SysTickInv, PTL

(* Each interrupt the AIC delivered is ended once, by its handler or, much *)
(* later, by the task the handler preempted, for any number of tasks.      *)
THEOREM SysTickEndsExact == Spec => []EndsExact
PROOF
  <1>1. IInv => EndsExact
    <2> SUFFICES ASSUME IInv PROVE EndsExact
      OBVIOUS
    <2>1. /\ Len(inservice) = Len(isr) + (IF parked = {} THEN 0 ELSE 1)
          /\ \A i \in 1 .. Len(isr) : inservice[i] = isr[i].src
      BY DEF IInv, Held
    <2>2. \A i, j \in 1 .. Len(inservice) : i < j => Level(inservice[i]) > Level(inservice[j])
      BY LevelsFall
    <2> QED BY <2>1, <2>2, ParkedCount DEF EndsExact
  <1> QED BY <1>1, SysTickInv, PTL

(* SignalCounter in the 1 ms hook is never re-entered, nor entered while a *)
(* task that the hook preempted has not resumed.                           *)
THEOREM SysTickNotReentered == Spec => []TickNotReentered
PROOF
  <1>1. IInv => TickNotReentered
    <2> SUFFICES ASSUME IInv PROVE TickNotReentered
      OBVIOUS
    <2> DEFINE L == {i \in 1 .. Len(isr) : isr[i].src = "low"}
    <2>1. /\ Len(isr) \in 0 .. 2
          /\ Len(isr) = 2 => isr[1].src = "sysirq" /\ isr[2].src = "low"
          /\ parked # {} => ~ Handling("low")
      BY DEF IInv, Nested, Held
    <2>2. L = {} \/ L = {Len(isr)}
      <3>1. CASE Len(isr) = 2
        BY <2>1, <3>1
      <3>2. CASE Len(isr) = 1
        BY <3>2
      <3>3. CASE Len(isr) = 0
        BY <3>3
      <3> QED BY <2>1, <3>1, <3>2, <3>3
    <2>3. parked # {} => L = {}
      BY <2>1 DEF Handling
    <2> HIDE DEF L
    <2>4. Cardinality(L) = 0 \/ (Cardinality(L) = 1 /\ parked = {})
      BY <2>2, <2>3, FS_EmptySet, FS_Singleton
    <2>5. Cardinality(L) + Cardinality(parked) <= 1
      BY <2>2, <2>3, <2>4, FS_EmptySet, ParkedCount
    <2> QED BY <2>5 DEF L, TickNotReentered
  <1> QED BY <1>1, SysTickInv, PTL

(* The timer's interrupt is never held back: systick_ms goes on.           *)
THEOREM SysTickMsCounted == Spec => []MsCounted
PROOF
  <1>1. IInv => MsCounted
    <2> SUFFICES ASSUME IInv, "sysirq" \in pending PROVE Deliverable("sysirq")
      BY DEF MsCounted
    <2>1. /\ inservice \in Seq(Source) /\ isr \in Seq(Handler) /\ Len(isr) \in 0 .. 2
          /\ ~ Handling("sysirq")
          /\ Len(inservice) = Len(isr) + (IF parked = {} THEN 0 ELSE 1)
          /\ \A i \in 1 .. Len(isr) : inservice[i] = isr[i].src
      BY DEF IInv, TypeOK, Nested, Held
    <2>2. CASE inservice = <<>>
      BY <2>2 DEF Deliverable, InService, Level
    <2>3. CASE inservice # <<>>
      <3>1. Len(inservice) \in 1 .. 3 /\ Head(inservice) = inservice[1] /\ inservice[1] \in Source
        BY <2>1, <2>3
      <3>2. inservice[1] # "sysirq"
        <4>1. CASE Len(isr) = 0
          <5>1. parked # {} /\ Len(inservice) = 1
            BY <2>1, <3>1, <4>1
          <5> QED BY <5>1 DEF IInv, Held
        <4>2. CASE Len(isr) # 0
          <5>1. 1 \in 1 .. Len(isr)
            BY <2>1, <4>2
          <5> QED BY <2>1, <5>1 DEF Handling
        <4> QED BY <4>1, <4>2
      <3> QED BY <2>3, <3>1, <3>2 DEF Deliverable, InService, Level, Source
    <2> QED BY <2>2, <2>3
  <1> QED BY <1>1, SysTickInv, PTL
=============================================================================
