------------------------------ MODULE I2cPort ------------------------------
(***************************************************************************)
(* The software I2C master of a sensor port, nxtvm/platform/nxt/i2c.c: a   *)
(* timer interrupt at four times the bit rate moves the port's state and   *)
(* its two pins, in partial transactions that a task prepared.             *)
(*                                                                         *)
(* The device on the bus is free within the I2C rules: it pulls SDA only   *)
(* while SCL is low, newly only during a transfer, and may hold SCL low    *)
(* (clock stretching).  The values of the bits are left open.              *)
(***************************************************************************)
EXTENDS Integers, Sequences

CONSTANTS
  Bits,       \* bits of a byte: 8 in the code
  MaxBytes    \* bound: length of a transaction

ASSUME I2cConfig == Bits \in Nat \ {0, 1} /\ MaxBytes \in Nat

VARIABLES
  port,      \* i2c_port: state, remaining transactions, bits and flags
  scl,       \* the clock pin: 0 is driven, 1 is open (open collector)
  sda,       \* the data pin: driven "low" or "high", or "in"
  holdScl,   \* the device holds SCL low
  holdSda    \* the device holds SDA low

i2cVars == <<port, scl, sda, holdScl, holdSda>>

SclLine == scl = 1 /\ ~ holdScl
SdaLine == sda # "low" /\ ~ holdSda

PortState == {"IDLE", "BEGIN", "RESTART1", "START1", "START2", "START3",
              "START_RECLOCK1", "LOW0", "LOW1", "HIGH0", "HIGH1",
              "STOP0", "STOP1", "STOP2", "STOP3"}

At(s) == port.state = s
pt    == Head(port.pts)      \* current_pt
i2c_busy == ~ At("IDLE")

Pins(c, d) == scl' = c /\ sda' = d
Goes(s)    == port' = [port EXCEPT !.state = s]
NextPt     == port' = [port EXCEPT !.state = "BEGIN", !.pts = Tail(@)]

(* The partial transactions: device and internal address, for a read a     *)
(* restart with the device address, and the data.                          *)
Pt(start, restart, stop, tx, nbytes) ==
  [start |-> start, restart |-> restart, stop |-> stop, tx |-> tx, nbytes |-> nbytes]

Transactions(nbytes, write) ==
  <<Pt(TRUE, FALSE, ~ write, TRUE, 2)>>
  \o (IF write THEN <<>> ELSE <<Pt(FALSE, TRUE, FALSE, TRUE, 1)>>)
  \o <<Pt(FALSE, FALSE, TRUE, write, nbytes)>>

i2c_start_transaction(nbytes, write) ==
  /\ \/ i2c_busy /\ UNCHANGED port
     \/ ~ i2c_busy /\ port' = [port EXCEPT !.state = "BEGIN",
                                           !.pts = Transactions(nbytes, write)]
  /\ UNCHANGED <<scl, sda, holdScl, holdSda>>

-----------------------------------------------------------------------------
(* i2c_timer_isr_C, by the port's state. *)

(* Without a byte to transfer the port is idle at once. *)
Begin ==
  /\ At("BEGIN")
  /\ \/ pt.nbytes = 0 /\ Goes("IDLE") /\ Pins(scl, "high")
     \/ /\ pt.nbytes > 0
        /\ port' = [port EXCEPT
             !.state = IF pt.restart THEN "RESTART1"
                       ELSE IF pt.start THEN "START1" ELSE "LOW0",
             !.nbits = pt.nbytes * Bits, !.ack_slot = FALSE, !.pending = FALSE]
        /\ Pins(IF pt.restart THEN 1 ELSE IF pt.start THEN scl ELSE 0, "high")

Start ==
  \/ At("RESTART1") /\ Goes("START1") /\ Pins(0, sda)
  \/ At("START1") /\ Goes("START2") /\ Pins(1, sda)
  \/ At("START2") /\ SdaLine /\ Goes("START3") /\ Pins(scl, "low")
  \/ At("START2") /\ ~ SdaLine /\ Goes("START_RECLOCK1") /\ Pins(0, sda)
  \/ At("START_RECLOCK1") /\ Goes("START1") /\ Pins(0, sda)

(* Fault: SCL stays high. *)
Started_High == At("START3") /\ Goes("LOW0") /\ Pins(scl, sda)

Started == At("START3") /\ Goes("LOW0") /\ Pins(0, sda)

(* A bit or an acknowledge is put on SDA, or the partial transaction ends. *)
Low0 ==
  /\ At("LOW0")
  /\ \/ /\ port.pending                                  \* acknowledge
        /\ port' = [port EXCEPT !.state = "LOW1", !.ack_slot = TRUE, !.pending = FALSE]
        /\ Pins(scl, IF pt.tx THEN "in" ELSE "low")
     \/ /\ ~ port.pending /\ port.nbits > 0 /\ pt.tx
        /\ port' = [port EXCEPT !.state = "LOW1", !.ack_slot = FALSE,
                                !.nbits = @ - 1, !.pending = (port.nbits - 1) % Bits = 0]
        /\ \E bit \in {"low", "high"} : Pins(scl, bit)
     \/ /\ ~ port.pending /\ port.nbits > 0 /\ ~ pt.tx
        /\ port' = [port EXCEPT !.state = "LOW1", !.ack_slot = FALSE]
        /\ Pins(scl, "in")
     \/ /\ ~ port.pending /\ port.nbits = 0
        /\ IF pt.stop THEN Goes("STOP0") ELSE NextPt
        /\ Pins(scl, sda)

(* SCL is raised and, when the device lets it rise, waited for. *)
Clock ==
  \/ At("LOW1") /\ Goes("HIGH0") /\ Pins(1, sda)
  \/ At("HIGH0") /\ SclLine /\ Goes("HIGH1") /\ Pins(scl, sda)

(* The device's acknowledge is tested, or a bit is read. *)
High1 ==
  /\ At("HIGH1")
  /\ \/ /\ pt.tx
        /\ Goes(IF port.ack_slot /\ SdaLine THEN "STOP0" ELSE "LOW0")
     \/ /\ ~ pt.tx /\ port.ack_slot
        /\ Goes("LOW0")
     \/ /\ ~ pt.tx /\ ~ port.ack_slot
        /\ port' = [port EXCEPT !.state = "LOW0", !.nbits = @ - 1,
             !.pending = port.nbits > 1 /\ (port.nbits - 1) % Bits = 0]
  /\ Pins(0, sda)

(* Fault: the last partial transaction is not known as such. *)
Stop_NoLast ==
  \/ At("STOP0") /\ Goes("STOP1") /\ Pins(scl, "low")
  \/ At("STOP1") /\ Goes("STOP2") /\ Pins(1, sda)
  \/ At("STOP2") /\ Goes("STOP3") /\ Pins(scl, "high")
  \/ At("STOP3") /\ NextPt /\ Pins(scl, sda)

Stop ==
  \/ At("STOP0") /\ Goes("STOP1") /\ Pins(scl, "low")
  \/ At("STOP1") /\ Goes("STOP2") /\ Pins(1, sda)
  \/ At("STOP2") /\ Goes("STOP3") /\ Pins(scl, "high")
  \/ At("STOP3") /\ (IF Len(port.pts) = 1 THEN Goes("IDLE") ELSE NextPt) /\ Pins(scl, sda)

i2c_timer_isr_C ==
  /\ Begin \/ Start \/ Started \/ Low0 \/ Clock \/ High1 \/ Stop
  /\ UNCHANGED <<holdScl, holdSda>>

-----------------------------------------------------------------------------
(* The device. *)
Transfer == port.state \in {"LOW0", "LOW1"}

DeviceAnswers ==
  /\ Transfer /\ ~ SclLine
  /\ \E d, c \in BOOLEAN : holdSda' = d /\ holdScl' = (c /\ scl = 0)
  /\ UNCHANGED <<port, scl, sda>>

DeviceReleasesScl == holdScl /\ holdScl' = FALSE /\ UNCHANGED <<port, scl, sda, holdSda>>
DeviceReleasesSda == ~ SclLine /\ holdSda /\ holdSda' = FALSE
                     /\ UNCHANGED <<port, scl, sda, holdScl>>

Device == DeviceAnswers \/ DeviceReleasesScl \/ DeviceReleasesSda

(* i2c_init and i2c_enable; a device may still hold SDA. *)
i2c_enable ==
  /\ port = [state |-> "IDLE", pts |-> <<Pt(FALSE, FALSE, TRUE, TRUE, 1)>>,
             nbits |-> 0, ack_slot |-> FALSE, pending |-> FALSE]
  /\ scl = 1 /\ sda = "high"
  /\ holdScl = FALSE /\ holdSda \in BOOLEAN

-----------------------------------------------------------------------------
PortType ==
  /\ port.state \in PortState /\ Len(port.pts) \in 1 .. 3
  /\ port.nbits \in 0 .. Bits * (MaxBytes + 2)
  /\ port.ack_slot \in BOOLEAN /\ port.pending \in BOOLEAN
  /\ scl \in {0, 1} /\ sda \in {"low", "high", "in"}
  /\ holdScl \in BOOLEAN /\ holdSda \in BOOLEAN

(* SDA changes while SCL is high only for a start and a stop condition,    *)
(* whatever the device answers and however long it stretches the clock:    *)
(* anything else would end or restart the transfer in the device's eyes.   *)
Condition == \/ At("START2") /\ port'.state = "START3"
             \/ At("STOP2") /\ port'.state = "STOP3"

(* An idle port has left the bus free behind a stop condition, whether the *)
(* device acknowledged or not, if there were data to transfer.             *)
BusFree == At("IDLE") /\ pt.nbytes > 0 => scl = 1 /\ sda = "high"
=============================================================================
