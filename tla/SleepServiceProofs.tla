------------------------- MODULE SleepServiceProofs -------------------------
(***************************************************************************)
(* The sleep services and the software I2C for any number of tasks, slots, *)
(* bits and bytes: the type invariant, the bus conditions, and that the    *)
(* wake-up of a task that waits for its port is neither lost nor early.    *)
(***************************************************************************)
EXTENDS SleepService, SequenceTheorems, TLAPS

PtType  == [start : BOOLEAN, restart : BOOLEAN, stop : BOOLEAN, tx : BOOLEAN,
            nbytes : 0 .. MaxBytes + 2]
PtsType == {s \in Seq(PtType) : Len(s) \in 1 .. 3 /\ s[Len(s)].stop}
MaxBits == Bits * (MaxBytes + 2)
PortRec == [state : PortState, pts : PtsType, nbits : 0 .. MaxBits,
            ack_slot : BOOLEAN, pending : BOOLEAN]

(* What is known of the pins at the states between whose steps SDA changes *)
(* and SCL may be high, and of what is left to read. *)
PinsKnown ==
  /\ At("IDLE") => sda = "high"
  /\ At("BEGIN") /\ scl = 1 => sda = "high"
  /\ port.state \in {"LOW0", "STOP0"} => scl = 0
  /\ port.state \in {"STOP2", "STOP3"} => scl = 1
  /\ At("STOP3") => sda = "high"
  /\ port.state \in {"LOW1", "HIGH0", "HIGH1"} /\ ~ port.ack_slot /\ ~ pt.tx
       => port.nbits > 0

PinsType ==
  /\ scl \in {0, 1} /\ sda \in {"low", "high", "in"}
  /\ holdScl \in BOOLEAN /\ holdSda \in BOOLEAN

PortInv == port \in PortRec /\ PinsType /\ PinsKnown /\ BusFree

(* Only the device's task is ever in SleepI2C, and between the saving of   *)
(* its identifier and its event the identifier stays; the flag is only     *)
(* reset together with the event. *)
SlotRec == [asleep : BOOLEAN, id : 0 .. NTask, counter : -1 .. MaxMs]

ServiceType ==
  /\ pc \in [Task -> Point] /\ call \in [Task -> Slot \cup {1, 2}]
  /\ event \in [Task -> BOOLEAN] /\ eventI2C \in [Task -> BOOLEAN]
  /\ i2c \in [asleep : BOOLEAN, id : 0 .. NTask]
  /\ slot \in [Slot -> SlotRec]

SleepPoint == {"search", "id", "flag", "counter"}

ServiceInv ==
  /\ ServiceType
  /\ \A t \in Task : pc[t] \in SleepPoint => call[t] \in Slot
  /\ \A t \in Task : pc[t] \in {"flag_i2c", "wait_i2c"} => t = I2cTask /\ i2c.id = t
  /\ \A t \in Task : pc[t] = "wait_i2c" => i2c.asleep \/ eventI2C[t]

(* The event of SleepI2C means that the port is idle again, and the task   *)
(* takes it before anything else; outside of a transfer the port is idle.  *)
Outside == SleepPoint \cup {"out", "wait", "return"}

EventInv ==
  \A t \in Task \cap {I2cTask} :
    /\ eventI2C[t] => pc[t] = "wait_i2c" /\ ~ i2c_busy /\ ~ i2c.asleep
    /\ i2c.asleep => pc[t] = "wait_i2c"
    /\ pc[t] \in Outside => ~ i2c_busy

IInv == PortInv /\ ServiceInv

-----------------------------------------------------------------------------
(* The partial transactions, and the bits of one. *)
LEMMA BitsFit ==
  /\ MaxBits \in Nat
  /\ \A n \in 0 .. MaxBytes + 2 : n * Bits \in 0 .. MaxBits
PROOF
  <1>1. Bits \in Nat /\ MaxBytes + 2 \in Nat
    BY I2cConfig
  <1>2. \A m \in Nat : \A n \in 0 .. m : n * Bits >= 0 /\ n * Bits <= Bits * m /\ n * Bits \in Int
    <2> SUFFICES ASSUME NEW m \in Nat, NEW n \in 0 .. m
                 PROVE  n * Bits >= 0 /\ n * Bits <= Bits * m /\ n * Bits \in Int
      OBVIOUS
    <2>1. PICK d \in Nat : m = n + d
      <3>1. m - n \in Nat /\ m = n + (m - n)
        OBVIOUS
      <3> QED BY <3>1
    <2>2. Bits * m = Bits * n + Bits * d /\ n * Bits = Bits * n
      BY <1>1, <2>1
    <2>3. Bits * n \in Nat /\ Bits * d \in Nat
      BY <1>1, <2>1
    <2> QED BY <2>2, <2>3
  <1>3. Bits * (MaxBytes + 2) \in Nat
    BY <1>1
  <1> QED BY <1>1, <1>2, <1>3 DEF MaxBits

LEMMA HeadPt == \A s \in PtsType : Head(s) \in PtType /\ (Len(s) = 1 => Head(s).stop)
BY DEF PtsType

LEMMA TailPts == \A s \in PtsType : Len(s) > 1 => Tail(s) \in PtsType
PROOF
  <1> SUFFICES ASSUME NEW s \in PtsType, Len(s) > 1 PROVE Tail(s) \in PtsType
    OBVIOUS
  <1>1. s \in Seq(PtType) /\ Len(s) \in 1 .. 3 /\ s[Len(s)].stop
    BY DEF PtsType
  <1>2. Tail(s) \in Seq(PtType) /\ Len(Tail(s)) = Len(s) - 1
    BY <1>1
  <1>3. Len(Tail(s)) \in 1 .. 3 /\ Tail(s)[Len(Tail(s))] = s[Len(s)]
    BY <1>1, <1>2
  <1> QED BY <1>1, <1>2, <1>3 DEF PtsType

LEMMA LastPt ==
  ASSUME NEW s \in Seq(PtType), Len(s) \in 1 .. 2, NEW c \in PtType, c.stop
  PROVE  s \o <<c>> \in PtsType
PROOF
  <1> DEFINE y == s \o <<c>>
  <1>1. <<c>> \in Seq(PtType) /\ Len(<<c>>) = 1 /\ <<c>>[1] = c
    OBVIOUS
  <1>2. y \in Seq(PtType) /\ Len(y) = Len(s) + 1 /\ y[Len(s) + 1] = c
    BY <1>1, ConcatProperties
  <1> HIDE DEF y
  <1>3. Len(s) + 1 \in 1 .. 3
    <2>1. \A k \in 1 .. 2 : k + 1 \in 1 .. 3
      OBVIOUS
    <2> QED BY <2>1
  <1>4. Len(y) \in 1 .. 3 /\ y[Len(y)] = c
    BY <1>2, <1>3
  <1>5. y \in PtsType
    BY <1>2, <1>4 DEF PtsType
  <1> QED BY <1>5 DEF y

LEMMA TransactionsType ==
  \A n \in 0 .. MaxBytes, write \in BOOLEAN : Transactions(n, write) \in PtsType
PROOF
  <1> SUFFICES ASSUME NEW n \in 0 .. MaxBytes, NEW write \in BOOLEAN
               PROVE  Transactions(n, write) \in PtsType
    OBVIOUS
  <1> DEFINE a == Pt(TRUE, FALSE, ~ write, TRUE, 2)
             b == Pt(FALSE, TRUE, FALSE, TRUE, 1)
             c == Pt(FALSE, FALSE, TRUE, write, n)
             m == IF write THEN <<>> ELSE <<b>>
  <1>1. a \in PtType /\ b \in PtType /\ c \in PtType /\ c.stop
    BY I2cConfig DEF PtType, Pt
  <1>2. Transactions(n, write) = <<a>> \o m \o <<c>>
    BY DEF Transactions
  <1> HIDE DEF a, b, c
  <1>3. m \in Seq(PtType) /\ Len(m) \in 0 .. 1
    BY <1>1
  <1> HIDE DEF m
  <1>4. <<a>> \o m \in Seq(PtType) /\ Len(<<a>> \o m) \in 1 .. 2
    <2>1. <<a>> \in Seq(PtType) /\ Len(<<a>>) = 1
      BY <1>1
    <2> QED BY <1>3, <2>1, ConcatProperties
  <1> QED BY <1>1, <1>2, <1>4, LastPt

-----------------------------------------------------------------------------
(* What a change of the port's state alone does to the port, and what the  *)
(* end of a partial transaction does.                                      *)
LEMMA GoesPort ==
  ASSUME NEW s \in PortState, port \in PortRec, Goes(s)
  PROVE  /\ port' \in PortRec /\ port'.state = s /\ port'.pts = port.pts
         /\ port'.nbits = port.nbits /\ port'.ack_slot = port.ack_slot
BY DEF Goes, PortRec

LEMMA NextPtPort ==
  ASSUME port \in PortRec, Len(port.pts) > 1, NextPt
  PROVE  port' \in PortRec /\ port'.state = "BEGIN"
PROOF
  <1>1. Tail(port.pts) \in PtsType
    BY TailPts DEF PortRec
  <1> QED BY <1>1 DEF NextPt, PortRec, PortState

(* The steps of the timer interrupt, state by state. *)
LEMMA BeginInv == PortInv /\ Begin /\ UNCHANGED <<holdScl, holdSda>> => PortInv'
PROOF
  <1> SUFFICES ASSUME PortInv, Begin, UNCHANGED <<holdScl, holdSda>> PROVE PortInv'
    OBVIOUS
  <1>1. port \in PortRec /\ At("BEGIN") /\ PinsType /\ pt \in PtType
    BY HeadPt DEF PortInv, Begin, PortRec, pt
  <1>2. CASE pt.nbytes = 0 /\ Goes("IDLE") /\ Pins(scl, "high")
    <2>1. port' \in PortRec /\ port'.state = "IDLE" /\ port'.pts = port.pts
      BY <1>1, <1>2, GoesPort DEF PortState
    <2>2. pt' = pt
      BY <2>1 DEF pt
    <2> QED BY <1>1, <1>2, <2>1, <2>2 DEF PortInv, PinsType, PinsKnown, BusFree, At, Pins
  <1>3. CASE /\ pt.nbytes > 0
             /\ port' = [port EXCEPT
                  !.state = IF pt.restart THEN "RESTART1"
                            ELSE IF pt.start THEN "START1" ELSE "LOW0",
                  !.nbits = pt.nbytes * Bits, !.ack_slot = FALSE, !.pending = FALSE]
             /\ Pins(IF pt.restart THEN 1 ELSE IF pt.start THEN scl ELSE 0, "high")
    <2> DEFINE s == IF pt.restart THEN "RESTART1" ELSE IF pt.start THEN "START1" ELSE "LOW0"
               n == pt.nbytes * Bits
    <2>1. s \in {"RESTART1", "START1", "LOW0"} /\ (s = "LOW0" => scl' = 0)
      BY <1>3 DEF Pins
    <2>2. n \in 0 .. MaxBits
      BY <1>1, BitsFit DEF PtType
    <2>3. port' = [port EXCEPT !.state = s, !.nbits = n, !.ack_slot = FALSE, !.pending = FALSE]
      BY <1>3
    <2> HIDE DEF s, n
    <2>4. port' \in PortRec /\ port'.state = s
      BY <1>1, <2>1, <2>2, <2>3 DEF PortRec, PortState
    <2>5. PinsType'
      BY <1>1, <1>3 DEF PinsType, Pins
    <2> QED BY <2>1, <2>4, <2>5 DEF PortInv, PinsKnown, BusFree, At
  <1> QED BY <1>2, <1>3 DEF Begin

LEMMA StartInv ==
  PortInv /\ (Start \/ Started) /\ UNCHANGED <<holdScl, holdSda>> => PortInv'
PROOF
  <1> SUFFICES ASSUME PortInv, Start \/ Started, UNCHANGED <<holdScl, holdSda>> PROVE PortInv'
    OBVIOUS
  <1>1. port \in PortRec /\ PinsType
    BY DEF PortInv
  <1>2. PICK s \in {"START1", "START2", "START3", "START_RECLOCK1", "LOW0"} :
          Goes(s) /\ (s = "LOW0" => scl' = 0)
    BY DEF Start, Started, Pins
  <1>3. s \in PortState /\ port' \in PortRec /\ port'.state = s
    BY <1>1, <1>2, GoesPort DEF PortState
  <1>4. PinsType'
    BY <1>1 DEF PinsType, Pins, Start, Started
  <1> QED BY <1>2, <1>3, <1>4 DEF PortInv, PinsKnown, BusFree, At

LEMMA Low0Inv == PortInv /\ Low0 /\ UNCHANGED <<holdScl, holdSda>> => PortInv'
PROOF
  <1> SUFFICES ASSUME PortInv, Low0, UNCHANGED <<holdScl, holdSda>> PROVE PortInv'
    OBVIOUS
  <1>1. port \in PortRec /\ PinsType /\ At("LOW0") /\ scl = 0
    BY DEF PortInv, PinsKnown, At, Low0
  <1>2. PinsType' /\ scl' = 0
    BY <1>1 DEF PinsType, Pins, Low0
  <1>3. port.nbits \in 0 .. MaxBits /\ MaxBits \in Nat
    BY <1>1, BitsFit DEF PortRec
  <1>4. CASE port' = [port EXCEPT !.state = "LOW1", !.ack_slot = TRUE, !.pending = FALSE]
    <2>1. port' \in PortRec /\ port'.state = "LOW1" /\ port'.ack_slot = TRUE
      BY <1>1, <1>4 DEF PortRec, PortState
    <2> QED BY <1>2, <2>1 DEF PortInv, PinsKnown, BusFree, At
  <1>5. CASE /\ port.nbits > 0 /\ pt.tx
             /\ port' = [port EXCEPT !.state = "LOW1", !.ack_slot = FALSE, !.nbits = @ - 1,
                                     !.pending = (port.nbits - 1) % Bits = 0]
    <2> DEFINE b == (port.nbits - 1) % Bits = 0
               n == port.nbits - 1
    <2>1. b \in BOOLEAN /\ n \in 0 .. MaxBits
      BY <1>3, <1>5
    <2>2. port' = [port EXCEPT !.state = "LOW1", !.ack_slot = FALSE, !.nbits = n, !.pending = b]
      BY <1>5
    <2> HIDE DEF b, n
    <2>3. port' \in PortRec /\ port'.state = "LOW1" /\ port'.pts = port.pts
      BY <1>1, <2>1, <2>2 DEF PortRec, PortState
    <2> QED BY <1>2, <1>5, <2>3 DEF PortInv, PinsKnown, BusFree, At, pt
  <1>6. CASE port.nbits > 0 /\ port' = [port EXCEPT !.state = "LOW1", !.ack_slot = FALSE]
    <2>1. port' \in PortRec /\ port'.state = "LOW1" /\ port'.nbits = port.nbits
      BY <1>1, <1>6 DEF PortRec, PortState
    <2> QED BY <1>2, <1>6, <2>1 DEF PortInv, PinsKnown, BusFree, At
  <1>7. CASE IF pt.stop THEN Goes("STOP0") ELSE NextPt
    <2>1. port.pts \in PtsType
      BY <1>1 DEF PortRec
    <2>2. CASE pt.stop
      <3>1. port' \in PortRec /\ port'.state = "STOP0"
        BY <1>1, <1>7, <2>2, GoesPort DEF PortState
      <3> QED BY <1>2, <3>1 DEF PortInv, PinsKnown, BusFree, At
    <2>3. CASE ~ pt.stop
      <3>1. Len(port.pts) > 1
        BY <2>1, <2>3, HeadPt DEF pt, PtsType
      <3>2. port' \in PortRec /\ port'.state = "BEGIN"
        BY <1>1, <1>7, <2>3, <3>1, NextPtPort
      <3> QED BY <1>2, <3>2 DEF PortInv, PinsKnown, BusFree, At
    <2> QED BY <2>2, <2>3
  <1> QED BY <1>4, <1>5, <1>6, <1>7 DEF Low0

LEMMA ClockInv == PortInv /\ Clock /\ UNCHANGED <<holdScl, holdSda>> => PortInv'
PROOF
  <1> SUFFICES ASSUME PortInv, Clock, UNCHANGED <<holdScl, holdSda>> PROVE PortInv'
    OBVIOUS
  <1>1. port \in PortRec /\ PinsType /\ port.state \in {"LOW1", "HIGH0"}
    BY DEF PortInv, Clock, At
  <1>2. PICK s \in {"HIGH0", "HIGH1"} : Goes(s)
    BY DEF Clock
  <1>3. /\ port' \in PortRec /\ port'.state = s /\ port'.pts = port.pts
        /\ port'.nbits = port.nbits /\ port'.ack_slot = port.ack_slot
    BY <1>1, <1>2, GoesPort DEF PortState
  <1>4. PinsType'
    BY <1>1 DEF PinsType, Pins, Clock
  <1> QED BY <1>1, <1>2, <1>3, <1>4 DEF PortInv, PinsKnown, BusFree, At, pt

(* The last bit that is read has been counted. *)
LEMMA High1Inv == PortInv /\ High1 /\ UNCHANGED <<holdScl, holdSda>> => PortInv'
PROOF
  <1> SUFFICES ASSUME PortInv, High1, UNCHANGED <<holdScl, holdSda>> PROVE PortInv'
    OBVIOUS
  <1>1. port \in PortRec /\ PinsType /\ At("HIGH1") /\ scl' = 0
    BY DEF PortInv, High1, Pins
  <1>2. PinsType'
    BY <1>1 DEF PinsType, Pins, High1
  <1>3. CASE Goes("STOP0") \/ Goes("LOW0")
    <2>1. port' \in PortRec /\ port'.state \in {"STOP0", "LOW0"}
      BY <1>1, <1>3, GoesPort DEF PortState
    <2> QED BY <1>1, <1>2, <2>1 DEF PortInv, PinsKnown, BusFree, At
  <1>4. CASE /\ ~ pt.tx /\ ~ port.ack_slot
             /\ port' = [port EXCEPT !.state = "LOW0", !.nbits = @ - 1,
                  !.pending = port.nbits > 1 /\ (port.nbits - 1) % Bits = 0]
    <2> DEFINE b == port.nbits > 1 /\ (port.nbits - 1) % Bits = 0
               n == port.nbits - 1
    <2>1. port.nbits > 0 /\ port.nbits \in 0 .. MaxBits /\ MaxBits \in Nat
      BY <1>1, <1>4, BitsFit DEF PortInv, PinsKnown, At, PortRec
    <2>2. b \in BOOLEAN /\ n \in 0 .. MaxBits
      BY <2>1
    <2>3. port' = [port EXCEPT !.state = "LOW0", !.nbits = n, !.pending = b]
      BY <1>4
    <2> HIDE DEF b, n
    <2>4. port' \in PortRec /\ port'.state = "LOW0"
      BY <1>1, <2>2, <2>3 DEF PortRec, PortState
    <2> QED BY <1>1, <1>2, <2>4 DEF PortInv, PinsKnown, BusFree, At
  <1> QED BY <1>3, <1>4 DEF High1

LEMMA StopInv == PortInv /\ Stop /\ UNCHANGED <<holdScl, holdSda>> => PortInv'
PROOF
  <1> SUFFICES ASSUME PortInv, Stop, UNCHANGED <<holdScl, holdSda>> PROVE PortInv'
    OBVIOUS
  <1>1. port \in PortRec /\ PinsType
    BY DEF PortInv
  <1>2. PinsType'
    BY <1>1 DEF PinsType, Pins, Stop
  <1>3. CASE \E s \in {"STOP1", "STOP2", "STOP3"} :
          Goes(s) /\ (s = "STOP2" => scl' = 1)
                  /\ (s = "STOP3" => scl' = scl /\ At("STOP2") /\ sda' = "high")
    <2>1. PICK s \in {"STOP1", "STOP2", "STOP3"} :
            Goes(s) /\ (s = "STOP2" => scl' = 1)
                    /\ (s = "STOP3" => scl' = scl /\ At("STOP2") /\ sda' = "high")
      BY <1>3
    <2>2. port' \in PortRec /\ port'.state = s
      BY <1>1, <2>1, GoesPort DEF PortState
    <2> QED BY <1>2, <2>1, <2>2 DEF PortInv, PinsKnown, BusFree, At
  <1>4. CASE At("STOP3") /\ (IF Len(port.pts) = 1 THEN Goes("IDLE") ELSE NextPt)
             /\ Pins(scl, sda)
    <2>1. scl' = 1 /\ sda' = "high"
      BY <1>4 DEF PortInv, PinsKnown, At, Pins
    <2>2. CASE Len(port.pts) = 1
      <3>1. port' \in PortRec /\ port'.state = "IDLE"
        BY <1>1, <1>4, <2>2, GoesPort DEF PortState
      <3> QED BY <1>2, <2>1, <3>1 DEF PortInv, PinsKnown, BusFree, At
    <2>3. CASE Len(port.pts) # 1
      <3>1. Len(port.pts) > 1
        <4>1. port.pts \in PtsType
          BY <1>1 DEF PortRec
        <4>2. Len(port.pts) \in 1 .. 3
          BY <4>1 DEF PtsType
        <4> QED BY <2>3, <4>2
      <3>2. port' \in PortRec /\ port'.state = "BEGIN"
        BY <1>1, <1>4, <2>3, <3>1, NextPtPort
      <3> QED BY <1>2, <2>1, <3>2 DEF PortInv, PinsKnown, BusFree, At
    <2> QED BY <2>2, <2>3
  <1> QED BY <1>3, <1>4 DEF Stop, Pins

LEMMA TimerInv == PortInv /\ i2c_timer_isr_C => PortInv'
BY BeginInv, StartInv, Low0Inv, ClockInv, High1Inv, StopInv DEF i2c_timer_isr_C

(* The device moves only the lines it holds. *)
LEMMA DeviceInv == PortInv /\ Device => PortInv'
PROOF
  <1> SUFFICES ASSUME PortInv, Device PROVE PortInv'
    OBVIOUS
  <1>1. UNCHANGED <<port, scl, sda>> /\ holdScl' \in BOOLEAN /\ holdSda' \in BOOLEAN
    BY DEF Device, DeviceAnswers, DeviceReleasesScl, DeviceReleasesSda, PortInv, PinsType
  <1> QED BY <1>1 DEF PortInv, PinsType, PinsKnown, BusFree, At, pt

LEMMA TransactionInv ==
  ASSUME NEW n \in 0 .. MaxBytes, NEW write \in BOOLEAN, PortInv, i2c_start_transaction(n, write)
  PROVE  PortInv'
PROOF
  <1>1. UNCHANGED <<scl, sda, holdScl, holdSda>>
    BY DEF i2c_start_transaction
  <1>2. CASE UNCHANGED port
    BY <1>1, <1>2 DEF PortInv, PinsType, PinsKnown, BusFree, At, pt
  <1>3. CASE ~ i2c_busy /\ port' = [port EXCEPT !.state = "BEGIN",
                                               !.pts = Transactions(n, write)]
    <2>1. port' \in PortRec /\ port'.state = "BEGIN"
      BY <1>3, TransactionsType DEF PortInv, PortRec, PortState
    <2>2. sda = "high"
      BY <1>3 DEF i2c_busy, PortInv, PinsKnown
    <2> QED BY <1>1, <2>1, <2>2 DEF PortInv, PinsType, PinsKnown, BusFree, At
  <1> QED BY <1>2, <1>3 DEF i2c_start_transaction

(* SDA changes while SCL is high for a start and a stop condition only. *)
LEMMA BusStep ==
  ASSUME PortInv, i2c_timer_isr_C \/ Device, SclLine, SclLine', SdaLine # SdaLine'
  PROVE  Condition
PROOF
  <1>1. port \in PortRec /\ PinsType /\ scl = 1 /\ scl' = 1
    BY DEF PortInv, SclLine
  <1>2. CASE Device
    BY <1>2 DEF Device, DeviceAnswers, DeviceReleasesScl, DeviceReleasesSda, SdaLine
  <1>3. CASE i2c_timer_isr_C
    <2>1. sda' # sda /\ UNCHANGED holdSda
      BY <1>3 DEF i2c_timer_isr_C, SdaLine
    <2>2. CASE Begin
      BY <1>1, <2>1, <2>2 DEF Begin, Pins, PortInv, PinsKnown
    <2>3. CASE Start
      <3>1. At("START2") /\ Goes("START3")
        BY <2>1, <2>3 DEF Start, Pins
      <3> QED BY <1>1, <3>1, GoesPort DEF Condition, PortState
    <2>4. CASE Low0
      BY <1>1, <2>4 DEF Low0, PortInv, PinsKnown, At
    <2>5. CASE Started \/ Clock \/ High1
      BY <2>1, <2>5 DEF Started, Clock, High1, Pins
    <2>6. CASE Stop
      <3>1. ~ At("STOP0")
        BY <1>1 DEF PortInv, PinsKnown, At
      <3>2. At("STOP2") /\ Goes("STOP3")
        BY <2>1, <2>6, <3>1 DEF Stop, Pins
      <3> QED BY <1>1, <3>2, GoesPort DEF Condition, PortState
    <2> QED BY <1>3, <2>2, <2>3, <2>4, <2>5, <2>6 DEF i2c_timer_isr_C
  <1> QED BY <1>2, <1>3

-----------------------------------------------------------------------------
(* The services. *)
LEMMA Moves ==
  ASSUME NEW t \in Task, NEW from, NEW to \in Point, ServiceInv, Runs(t, from, to)
  PROVE  /\ pc[t] = from /\ pc' \in [Task -> Point] /\ pc'[t] = to
         /\ \A u \in Task : u # t => pc'[u] = pc[u]
         /\ (from = "wait_i2c" => eventI2C[t])
BY DEF ServiceInv, ServiceType, Runs, Blocked

(* A step of Sleep: the other tasks and the port's flag are left alone. *)
LEMMA SleepInv ==
  ASSUME NEW t \in Task, ServiceInv, Sleep(t), UNCHANGED eventI2C
  PROVE  ServiceInv'
PROOF
  <1> USE SleepConfig DEF Slot, Point
  <1>1. /\ pc \in [Task -> Point] /\ call \in [Task -> Slot \cup {1, 2}]
        /\ event \in [Task -> BOOLEAN] /\ slot \in [Slot -> SlotRec]
        /\ i2c \in [asleep : BOOLEAN, id : 0 .. NTask] /\ i2c' = i2c
        /\ eventI2C \in [Task -> BOOLEAN] /\ eventI2C' = eventI2C
    BY DEF ServiceInv, ServiceType, Sleep
  <1>2. PICK from \in SleepPoint \cup {"out", "wait"}, to \in SleepPoint \cup {"out", "wait"} :
          Runs(t, from, to)
    BY DEF Sleep, SleepPoint
  <1>3. /\ pc' \in [Task -> Point] /\ pc[t] = from /\ pc'[t] = to
        /\ \A u \in Task : u # t => pc'[u] = pc[u]
    BY <1>2, Moves DEF SleepPoint
  <1>4. /\ call' \in [Task -> Slot \cup {1, 2}]
        /\ to \in SleepPoint => call'[t] \in Slot
        /\ \A u \in Task : u # t => call'[u] = call[u]
    <2> DEFINE next == IF call[t] = N_TASKS THEN 1 ELSE call[t] + 1
    <2>1. pc[t] \in SleepPoint => call[t] \in Slot
      BY DEF ServiceInv
    <2>2. 1 \in Slot
      OBVIOUS
    <2>3. \/ call' = [call EXCEPT ![t] = 1]
          \/ call' = [call EXCEPT ![t] = next] /\ from = "search"
          \/ call' = call /\ (to \in SleepPoint => from \in SleepPoint)
      <3>1. \A f, g : Runs(t, f, g) => f = from /\ g = to
        BY <1>1, <1>2 DEF Runs
      <3> QED BY <1>2, <3>1 DEF Sleep, SleepPoint
    <2>4. from = "search" => next \in Slot
      BY <1>3, <2>1 DEF SleepPoint
    <2> HIDE DEF next
    <2> QED BY <1>1, <1>3, <2>1, <2>2, <2>3, <2>4
  <1>5. slot' \in [Slot -> SlotRec]
    <2>1. t \in 0 .. NTask
      BY DEF Task
    <2>2. ASSUME NEW ms \in 1 .. MaxMs PROVE ms \in -1 .. MaxMs
      OBVIOUS
    <2>3. \/ slot' = slot
          \/ slot' = [slot EXCEPT ![call[t]].id = t]
          \/ slot' = [slot EXCEPT ![call[t]].asleep = TRUE]
          \/ \E ms \in 1 .. MaxMs : slot' = [slot EXCEPT ![call[t]].counter = ms]
      BY DEF Sleep
    <2>4. \A v : (call[t] \in Slot => v \in SlotRec) =>
                [slot EXCEPT ![call[t]] = v] \in [Slot -> SlotRec]
      BY <1>1
    <2>5. ASSUME call[t] \in Slot, NEW ms \in 1 .. MaxMs
          PROVE  /\ [slot[call[t]] EXCEPT !.id = t] \in SlotRec
                 /\ [slot[call[t]] EXCEPT !.asleep = TRUE] \in SlotRec
                 /\ [slot[call[t]] EXCEPT !.counter = ms] \in SlotRec
      <3>1. slot[call[t]] \in SlotRec
        BY <1>1, <2>5
      <3>2. ms \in -1 .. MaxMs
        BY <2>2
      <3> QED BY <2>1, <3>1, <3>2 DEF SlotRec
    <2>6. CASE slot' = [slot EXCEPT ![call[t]].id = t]
      <3> DEFINE v == [slot[call[t]] EXCEPT !.id = t]
      <3>1. slot' = [slot EXCEPT ![call[t]] = v]
        BY <2>6
      <3>2. 1 \in 1 .. MaxMs
        BY SleepConfig
      <3> QED BY <2>4, <2>5, <3>1, <3>2
    <2>7. CASE slot' = [slot EXCEPT ![call[t]].asleep = TRUE]
      <3> DEFINE v == [slot[call[t]] EXCEPT !.asleep = TRUE]
      <3>1. slot' = [slot EXCEPT ![call[t]] = v]
        BY <2>7
      <3>2. 1 \in 1 .. MaxMs
        BY SleepConfig
      <3> QED BY <2>4, <2>5, <3>1, <3>2
    <2>8. ASSUME NEW ms \in 1 .. MaxMs, slot' = [slot EXCEPT ![call[t]].counter = ms]
          PROVE  slot' \in [Slot -> SlotRec]
      <3> DEFINE v == [slot[call[t]] EXCEPT !.counter = ms]
      <3>1. slot' = [slot EXCEPT ![call[t]] = v]
        BY <2>8
      <3> QED BY <2>4, <2>5, <3>1
    <2> QED BY <1>1, <2>3, <2>6, <2>7, <2>8
  <1>6. event' \in [Task -> BOOLEAN]
    BY <1>1 DEF Sleep
  <1>7. ServiceType'
    BY <1>1, <1>3, <1>4, <1>5, <1>6 DEF ServiceType
  <1>8. \A u \in Task : pc'[u] \in SleepPoint => call'[u] \in Slot
    BY <1>3, <1>4 DEF ServiceInv
  <1>9. \A u \in Task : pc'[u] \in {"flag_i2c", "wait_i2c"} => u # t
    BY <1>2, <1>3 DEF SleepPoint
  <1> QED BY <1>1, <1>3, <1>6, <1>7, <1>8, <1>9 DEF ServiceInv

(* A step of a transfer.  The slots are left alone. *)
LEMMA TransferInv ==
  ASSUME NEW t \in Task, t = I2cTask, ServiceInv, I2cTransfer(t)
  PROVE  ServiceInv'
PROOF
  <1> USE SleepConfig DEF Slot, Point
  <1> DEFINE I2cPoint == {"out", "busy", "start", "id_i2c", "flag_i2c", "wait_i2c", "return"}
  <1>1. /\ pc \in [Task -> Point] /\ call \in [Task -> Slot \cup {1, 2}]
        /\ event \in [Task -> BOOLEAN] /\ eventI2C \in [Task -> BOOLEAN]
        /\ event' = event /\ slot \in [Slot -> SlotRec] /\ slot' = slot
        /\ i2c \in [asleep : BOOLEAN, id : 0 .. NTask]
    BY DEF ServiceInv, ServiceType, I2cTransfer, SleepI2C
  <1>2. PICK from \in I2cPoint, to \in I2cPoint :
          /\ Runs(t, from, to)
          /\ to = "flag_i2c" => i2c' = [i2c EXCEPT !.id = t]
          /\ to = "wait_i2c" => from = "flag_i2c" /\ i2c' = [i2c EXCEPT !.asleep = TRUE]
          /\ to \notin {"flag_i2c", "wait_i2c"} => i2c' = i2c
    BY DEF I2cTransfer, SleepI2C
  <1>3. /\ pc' \in [Task -> Point] /\ pc[t] = from /\ pc'[t] = to
        /\ \A u \in Task : u # t => pc'[u] = pc[u]
    BY <1>2, Moves
  <1>4. call' \in [Task -> Slot \cup {1, 2}] /\ \A u \in Task : u # t => call'[u] = call[u]
    BY <1>1 DEF I2cTransfer, SleepI2C
  <1>5. eventI2C' \in [Task -> BOOLEAN]
    BY <1>1 DEF I2cTransfer, SleepI2C
  <1>6. t \in 0 .. NTask
    BY DEF Task
  <1>7. /\ i2c' \in [asleep : BOOLEAN, id : 0 .. NTask]
        /\ to = "flag_i2c" => i2c'.id = t
        /\ to = "wait_i2c" => i2c'.asleep /\ i2c'.id = i2c.id
    BY <1>1, <1>2, <1>6
  <1>8. ServiceType'
    BY <1>1, <1>3, <1>4, <1>5, <1>7 DEF ServiceType
  <1>9. \A u \in Task : pc'[u] \in SleepPoint => call'[u] \in Slot
    BY <1>2, <1>3, <1>4 DEF ServiceInv, SleepPoint
  <1>10. \A u \in Task : pc'[u] \in {"flag_i2c", "wait_i2c"} =>
           u = t /\ i2c'.id = t /\ (pc'[u] = "wait_i2c" => i2c'.asleep)
    <2> SUFFICES ASSUME NEW u \in Task, pc'[u] \in {"flag_i2c", "wait_i2c"}
                 PROVE  u = t /\ i2c'.id = t /\ (pc'[u] = "wait_i2c" => i2c'.asleep)
      OBVIOUS
    <2>1. u = t
      BY <1>3 DEF ServiceInv
    <2>2. from = "flag_i2c" => i2c.id = t
      BY <1>3 DEF ServiceInv
    <2> QED BY <1>2, <1>3, <1>7, <2>1, <2>2
  <1> QED BY <1>8, <1>9, <1>10 DEF ServiceInv

(* A tick resets flags only together with setting the event. *)
LEMMA MonitorInv == ServiceInv /\ SleeperMonitor => ServiceInv'
PROOF
  <1> SUFFICES ASSUME ServiceInv, SleeperMonitor PROVE ServiceInv'
    OBVIOUS
  <1> USE SleepConfig
  <1>1. /\ eventI2C \in [Task -> BOOLEAN] /\ slot \in [Slot -> SlotRec]
        /\ i2c \in [asleep : BOOLEAN, id : 0 .. NTask] /\ UNCHANGED <<pc, call>>
    BY DEF ServiceInv, ServiceType, SleeperMonitor
  <1>2. \A s \in Slot : slot'[s] \in SlotRec
    <2> SUFFICES ASSUME NEW s \in Slot PROVE slot'[s] \in SlotRec
      OBVIOUS
    <2>1. slot[s].counter \in -1 .. MaxMs /\ slot[s] \in SlotRec
      BY <1>1 DEF SlotRec
    <2>2. Less(slot[s].counter) \in -1 .. MaxMs
      BY <2>1 DEF Less
    <2>3. (~ Expires(slot[s])) \in BOOLEAN
      BY DEF Expires
    <2> DEFINE l == Less(slot[s].counter)
               e == ~ Expires(slot[s])
    <2>4. slot'[s] = IF slot[s].asleep THEN [slot[s] EXCEPT !.counter = l, !.asleep = e]
                     ELSE slot[s]
      BY DEF SleeperMonitor
    <2>5. l \in -1 .. MaxMs /\ e \in BOOLEAN
      BY <2>2, <2>3
    <2> HIDE DEF l, e
    <2> QED BY <2>1, <2>4, <2>5 DEF SlotRec
  <1>3. slot' \in [Slot -> SlotRec]
    BY <1>2 DEF SleeperMonitor
  <1>4. /\ event' \in [Task -> BOOLEAN] /\ eventI2C' \in [Task -> BOOLEAN]
        /\ \A t \in Task : eventI2C[t] \/ (I2cReady /\ i2c.id = t) => eventI2C'[t]
    BY <1>1 DEF SleeperMonitor, Expires, I2cReady
  <1>5. i2c' \in [asleep : BOOLEAN, id : 0 .. NTask] /\ i2c'.id = i2c.id
        /\ (i2c'.asleep <=> i2c.asleep /\ ~ I2cReady)
    <2> DEFINE a == i2c.asleep /\ ~ I2cReady
    <2>1. a \in BOOLEAN /\ i2c' = [i2c EXCEPT !.asleep = a]
      BY <1>1 DEF SleeperMonitor
    <2> HIDE DEF a
    <2>2. i2c' \in [asleep : BOOLEAN, id : 0 .. NTask] /\ i2c'.id = i2c.id /\ i2c'.asleep = a
      BY <1>1, <2>1
    <2> QED BY <2>2 DEF a
  <1>6. ServiceType'
    BY <1>1, <1>3, <1>4, <1>5 DEF ServiceInv, ServiceType
  <1>7. \A t \in Task : pc[t] = "wait_i2c" => i2c'.asleep \/ eventI2C'[t]
    BY <1>4, <1>5 DEF ServiceInv
  <1> QED BY <1>1, <1>5, <1>6, <1>7 DEF ServiceInv

(* A step of the timers and the device leaves the services alone. *)
LEMMA OthersInv == ServiceInv /\ UNCHANGED taskVars => ServiceInv'
BY DEF ServiceInv, ServiceType, taskVars

-----------------------------------------------------------------------------
LEMMA InitInv == Init => IInv
PROOF
  <1> SUFFICES ASSUME Init PROVE IInv
    OBVIOUS
  <1>1. PortInv
    <2> DEFINE p == Pt(FALSE, FALSE, TRUE, TRUE, 1)
    <2>1. p \in PtType /\ p.stop
      BY I2cConfig DEF PtType, Pt
    <2>2. port = [state |-> "IDLE", pts |-> <<p>>, nbits |-> 0, ack_slot |-> FALSE,
                  pending |-> FALSE]
      BY DEF Init, i2c_enable
    <2> HIDE DEF p
    <2>3. <<p>> \in PtsType
      BY <2>1 DEF PtsType
    <2>4. port \in PortRec
      BY <2>2, <2>3, BitsFit DEF PortRec, PortState
    <2>5. port.state = "IDLE"
      BY <2>2
    <2>6. PinsType /\ scl = 1 /\ sda = "high"
      BY DEF Init, i2c_enable, PinsType
    <2> QED BY <2>4, <2>5, <2>6 DEF PortInv, PinsKnown, BusFree, At
  <1>2. ServiceInv
    <2>1. ServiceType
      BY SleepConfig DEF Init, ServiceType, Point, SlotRec
    <2> QED BY <2>1 DEF Init, ServiceInv, SleepPoint, Task
  <1> QED BY <1>1, <1>2 DEF IInv

LEMMA PortStutter == PortInv /\ UNCHANGED i2cVars => PortInv'
BY DEF PortInv, PinsType, PinsKnown, BusFree, At, pt, i2cVars

LEMMA NextInv == IInv /\ [Next]_vars => IInv'
PROOF
  <1> SUFFICES ASSUME IInv, [Next]_vars PROVE IInv'
    OBVIOUS
  <1>1. PortInv /\ ServiceInv
    BY DEF IInv
  <1>2. ASSUME NEW t \in Task, t \in SleepTask, Sleep(t), UNCHANGED <<eventI2C, i2cVars>>
        PROVE  IInv'
    BY <1>1, <1>2, SleepInv, PortStutter DEF IInv
  <1>3. ASSUME NEW t \in Task, t = I2cTask, I2cTransfer(t) PROVE IInv'
    <2>1. ServiceInv'
      BY <1>1, <1>3, TransferInv
    <2>2. \/ UNCHANGED i2cVars
          \/ \E n \in 0 .. MaxBytes, write \in BOOLEAN : i2c_start_transaction(n, write)
      BY <1>3 DEF I2cTransfer
    <2>3. PortInv'
      BY <1>1, <2>2, TransactionInv, PortStutter
    <2> QED BY <2>1, <2>3 DEF IInv
  <1>4. CASE SleeperMonitor
    BY <1>1, <1>4, MonitorInv, PortStutter DEF IInv, SleeperMonitor
  <1>5. CASE (i2c_timer_isr_C \/ Device) /\ UNCHANGED taskVars
    BY <1>1, <1>5, TimerInv, DeviceInv, OthersInv DEF IInv
  <1>6. CASE UNCHANGED vars
    BY <1>1, <1>6, PortStutter, OthersInv DEF IInv, vars
  <1> QED BY <1>2, <1>3, <1>4, <1>5, <1>6 DEF Next, TaskStep

LEMMA SleepServiceInv == Spec => []IInv
BY InitInv, NextInv, PTL DEF Spec

(* The port's state, its bit counter and the partial transactions still to *)
(* do stay in range, however the device answers, and so do the slots, the  *)
(* identifiers and the counters of the sleeping tasks.                     *)
THEOREM SleepTypeOK == Spec => []TypeOK
PROOF
  <1>1. IInv => TypeOK
    <2> SUFFICES ASSUME IInv PROVE TypeOK
      OBVIOUS
    <2>1. PortType
      <3>1. port \in PortRec /\ PinsType
        BY DEF IInv, PortInv
      <3>2. port.pts \in PtsType
        BY <3>1 DEF PortRec
      <3>3. Len(port.pts) \in 1 .. 3
        BY <3>2 DEF PtsType
      <3> QED BY <3>1, <3>3 DEF PortType, PinsType, PortRec, MaxBits
    <2> QED BY <2>1 DEF IInv, ServiceInv, ServiceType, SlotRec, TypeOK
  <1> QED BY <1>1, SleepServiceInv, PTL

(* An idle port has left the bus free, unless there was nothing to send.   *)
THEOREM SleepBusFree == Spec => []BusFree
PROOF
  <1>1. IInv => BusFree
    BY DEF IInv, PortInv
  <1> QED BY <1>1, SleepServiceInv, PTL

(* SDA changes while SCL is high only for start and stop conditions.       *)
THEOREM SleepBusConditions == Spec => BusConditions
PROOF
  <1>1. IInv /\ [Next]_vars => [SclLine /\ SclLine' /\ SdaLine # SdaLine' => Condition]_vars
    <2> SUFFICES ASSUME IInv, Next, SclLine, SclLine', SdaLine # SdaLine' PROVE Condition
      OBVIOUS
    <2>1. CASE i2c_timer_isr_C \/ Device
      BY <2>1, BusStep DEF IInv
    <2>2. CASE UNCHANGED <<sda, holdSda>>
      BY <2>2 DEF SdaLine
    <2>3. i2c_timer_isr_C \/ Device \/ UNCHANGED <<sda, holdSda>>
      BY DEF Next, TaskStep, I2cTransfer, i2c_start_transaction, SleeperMonitor, i2cVars
    <2> QED BY <2>1, <2>2, <2>3
  <1> QED BY <1>1, SleepServiceInv, PTL DEF Spec, BusConditions

(* A task that waits for its port is the one SleeperMonitor will wake, at  *)
(* whatever statement of SleepI2C a tick or the end of the transfer came.  *)
THEOREM SleepDeviceSleeperKnown == Spec => []DeviceSleeperKnown
PROOF
  <1>1. IInv => DeviceSleeperKnown
    BY DEF IInv, ServiceInv, DeviceSleeperKnown, Blocked
  <1> QED BY <1>1, SleepServiceInv, PTL

-----------------------------------------------------------------------------
(* The event of the device's task. *)
LEMMA EventInit == Init => EventInv
BY DEF Init, i2c_enable, EventInv, Outside, Task, At, i2c_busy

(* Sleep has an event of its own, and begins and ends outside of a         *)
(* transfer.                                                               *)
LEMMA EventSleep ==
  ASSUME NEW t \in Task, ServiceInv, EventInv, Sleep(t), UNCHANGED <<eventI2C, i2cVars>>
  PROVE  EventInv'
PROOF
  <1>1. pc \in [Task -> Point] /\ i2c' = i2c /\ eventI2C' = eventI2C
    BY DEF ServiceInv, ServiceType, Sleep
  <1>2. PICK from \in SleepPoint \cup {"out", "wait"}, to \in SleepPoint \cup {"out", "wait"} :
          Runs(t, from, to)
    BY DEF Sleep, SleepPoint
  <1>3. i2c_busy' = i2c_busy
    BY DEF i2c_busy, At, i2cVars
  <1>4. /\ pc[t] \in Outside /\ pc'[t] \in Outside /\ "wait_i2c" \notin Outside
        /\ \A u \in Task : u # t => pc'[u] = pc[u]
    BY <1>1, <1>2 DEF Runs, SleepPoint, Outside
  <1> QED BY <1>1, <1>3, <1>4 DEF EventInv

(* The event is taken where SleepI2C returns: the port is idle there. *)
LEMMA EventTransfer ==
  ASSUME NEW t \in Task, t = I2cTask, ServiceInv, EventInv, I2cTransfer(t)
  PROVE  EventInv'
PROOF
  <1>1. /\ pc \in [Task -> Point] /\ eventI2C \in [Task -> BOOLEAN] /\ slot' = slot
        /\ i2c \in [asleep : BOOLEAN, id : 0 .. NTask]
    BY DEF ServiceInv, ServiceType, I2cTransfer
  <1>2. /\ eventI2C[t] => pc[t] = "wait_i2c" /\ ~ i2c_busy /\ ~ i2c.asleep
        /\ i2c.asleep => pc[t] = "wait_i2c"
        /\ pc[t] \in Outside => ~ i2c_busy
    BY DEF EventInv
  <1>3. UNCHANGED i2cVars => i2c_busy' = i2c_busy
    BY DEF i2c_busy, At, i2cVars
  <1>4. /\ eventI2C'[t] => pc'[t] = "wait_i2c" /\ ~ i2c_busy' /\ ~ i2c'.asleep
        /\ i2c'.asleep => pc'[t] = "wait_i2c"
        /\ pc'[t] \in Outside => ~ i2c_busy'
    <2>1. CASE Runs(t, "wait_i2c", pc'[t])
      <3>1. pc[t] = "wait_i2c" /\ eventI2C[t]
        BY <1>1, <2>1 DEF Runs, Blocked
      <3>2. /\ eventI2C' = [eventI2C EXCEPT ![t] = FALSE] /\ i2c' = i2c
            /\ UNCHANGED i2cVars /\ pc'[t] \in {"start", "return"}
        BY <1>1, <3>1 DEF I2cTransfer, SleepI2C, Runs
      <3> QED BY <1>1, <1>2, <1>3, <3>1, <3>2
    <2>2. CASE Runs(t, "flag_i2c", "wait_i2c")
      <3>1. pc[t] = "flag_i2c" /\ pc'[t] = "wait_i2c"
        BY <1>1, <2>2 DEF Runs
      <3>2. eventI2C' = eventI2C
        BY <1>1, <3>1 DEF I2cTransfer, SleepI2C, Runs
      <3> QED BY <1>2, <3>1, <3>2 DEF Outside, SleepPoint
    <2>3. CASE /\ pc[t] # "wait_i2c" /\ eventI2C' = eventI2C /\ i2c'.asleep = i2c.asleep
               /\ pc'[t] \in Outside => ~ i2c_busy /\ UNCHANGED i2cVars
      BY <1>2, <1>3, <2>3
    <2> QED BY <1>1, <1>2, <2>1, <2>2, <2>3 DEF I2cTransfer, SleepI2C, Runs, Outside, SleepPoint
  <1> QED BY <1>1, <1>4 DEF EventInv

(* SleeperMonitor sets it when the port is idle and the task waits.        *)
LEMMA EventMonitor ==
  ASSUME ServiceInv, EventInv, SleeperMonitor
  PROVE  EventInv'
PROOF
  <1>1. /\ UNCHANGED pc /\ i2c_busy' = i2c_busy
        /\ i2c \in [asleep : BOOLEAN, id : 0 .. NTask]
    BY DEF ServiceInv, ServiceType, SleeperMonitor, i2cVars, i2c_busy, At
  <1>2. i2c'.asleep <=> i2c.asleep /\ ~ I2cReady
    <2> DEFINE a == i2c.asleep /\ ~ I2cReady
    <2>1. i2c' = [i2c EXCEPT !.asleep = a]
      BY DEF SleeperMonitor
    <2> HIDE DEF a
    <2>2. i2c'.asleep = a
      BY <1>1, <2>1
    <2> QED BY <2>2 DEF a
  <1>3. ASSUME NEW t \in Task \cap {I2cTask}
        PROVE  /\ eventI2C'[t] => pc'[t] = "wait_i2c" /\ ~ i2c_busy' /\ ~ i2c'.asleep
               /\ i2c'.asleep => pc'[t] = "wait_i2c"
               /\ pc'[t] \in Outside => ~ i2c_busy'
    <2>1. /\ eventI2C[t] => pc[t] = "wait_i2c" /\ ~ i2c_busy /\ ~ i2c.asleep
          /\ i2c.asleep => pc[t] = "wait_i2c"
          /\ pc[t] \in Outside => ~ i2c_busy
      BY DEF EventInv
    <2>2. eventI2C'[t] => eventI2C[t] \/ I2cReady
      BY DEF SleeperMonitor
    <2> QED BY <1>1, <1>2, <2>1, <2>2 DEF I2cReady
  <1> QED BY <1>3 DEF EventInv

(* The port's timer and the device never make an idle port busy. *)
LEMMA EventPort ==
  ASSUME PortInv, EventInv, i2c_timer_isr_C \/ Device, UNCHANGED taskVars
  PROVE  EventInv'
PROOF
  <1>1. ~ i2c_busy => ~ i2c_busy'
    <2>1. CASE Device
      BY <2>1 DEF Device, DeviceAnswers, DeviceReleasesScl, DeviceReleasesSda, i2c_busy, At
    <2>2. CASE i2c_timer_isr_C
      BY <2>2 DEF i2c_timer_isr_C, Begin, Start, Started, Low0, Clock, High1, Stop, i2c_busy, At
    <2> QED BY <2>1, <2>2
  <1> QED BY <1>1 DEF EventInv, taskVars

LEMMA EventStutter == EventInv /\ UNCHANGED vars => EventInv'
BY DEF EventInv, vars, taskVars, i2cVars, i2c_busy, At

(* I2c::send and I2c::receive return when the transfer is over, whatever   *)
(* else the task and the others sleep for.                                 *)
THEOREM SleepTransferDone == Spec => []TransferDone
PROOF
  <1>1. Init => EventInv
    BY EventInit
  <1>2. IInv /\ EventInv /\ [Next]_vars => EventInv'
    <2> SUFFICES ASSUME PortInv, ServiceInv, EventInv, [Next]_vars PROVE EventInv'
      BY DEF IInv
    <2>1. ASSUME NEW t \in Task, t \in SleepTask, Sleep(t), UNCHANGED <<eventI2C, i2cVars>>
          PROVE  EventInv'
      BY <2>1, EventSleep
    <2>2. ASSUME NEW t \in Task, t = I2cTask, I2cTransfer(t) PROVE EventInv'
      BY <2>2, EventTransfer
    <2>3. CASE SleeperMonitor
      BY <2>3, EventMonitor
    <2>4. CASE (i2c_timer_isr_C \/ Device) /\ UNCHANGED taskVars
      BY <2>4, EventPort
    <2>5. CASE UNCHANGED vars
      BY <2>5, EventStutter
    <2> QED BY <2>1, <2>2, <2>3, <2>4, <2>5 DEF Next, TaskStep
  <1>3. EventInv => TransferDone
    BY DEF EventInv, TransferDone, Outside
  <1> QED BY <1>1, <1>2, <1>3, SleepServiceInv, PTL DEF Spec
=============================================================================
