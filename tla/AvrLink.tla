------------------------------ MODULE AvrLink ------------------------------
(***************************************************************************)
(* The link to the AVR, which drives the motors and reads the sensors:     *)
(* nxt_avr.c over the two-wire interface twi.c of nxtvm/platform/nxt.      *)
(* nxt_avr_1kHz_update, called every millisecond, sends a command and      *)
(* unpacks the data received, or starts to receive, in turn, when the last *)
(* transfer is done; twi_isr_C moves the bytes meanwhile.                  *)
(*                                                                         *)
(* Received data are in two buffers: one is received into, the other       *)
(* (io_from_avr) is what sensor_adc and battery_voltage read.              *)
(***************************************************************************)
EXTENDS Integers

CONSTANTS
  InitBytes,   \* length of avr_brainwash_string
  SendBytes,   \* sizeof(data_to_avr)
  ReadBytes,   \* sizeof(from_avr)
  Command      \* contents of io_to_avr

ASSUME AvrConfig ==
  InitBytes \in Nat \ {0} /\ SendBytes \in Nat \ {0} /\ ReadBytes \in Nat \ {0, 1}

VARIABLES
  link_state,
  update_count,   \* its lowest bit
  from_buf,       \* buffer to receive into
  io_from_avr,    \* buffer to read from
  data_from_avr,  \* what each buffer holds
  io_to_avr,      \* the command as the tasks set it
  data_to_avr,    \* the copy that is sent
  twi,            \* twi_state, twi_pending and what is transferred
  avr,            \* the command the AVR received last
  faulty          \* the AVR or the bus may fail now

linkVars == <<link_state, update_count, from_buf, io_from_avr, io_to_avr, data_to_avr>>
vars == <<linkVars, data_from_avr, twi, avr, faulty>>

Buffer  == {0, 1}
NEXT_BUF == 1 - from_buf

(* zero     cleared                     good  received with its checksum   *)
(* part     received in part            bad   received with a wrong one    *)
(* old      good, but shown before                                         *)
Content == {"zero", "part", "good", "bad", "old"}

LinkState == {"INIT1", "INIT2", "RUNNING", "RETRY", "RESET"}
TwiState  == {"UNINITIALISED", "IDLE", "DONE", "RX_BUSY", "TX_BUSY"}

Busy(t)  == t.state \in {"RX_BUSY", "TX_BUSY"}
Ready(t) == t.state \in {"IDLE", "DONE"}

-----------------------------------------------------------------------------
(* twi.c. *)

(* Starts a transfer of n bytes; a write has put the first one already. *)
twi_start_read(n)        == [state |-> "RX_BUSY", pending |-> n, what |-> "data", hung |-> FALSE]
twi_start_write(what, n) == [state |-> "TX_BUSY", pending |-> n - 1, what |-> what, hung |-> FALSE]

(* Fault: the end of a read is not noticed. *)
RxReady_NoEnd ==
  /\ twi.state = "RX_BUSY" /\ ~ twi.hung
  /\ twi' = [twi EXCEPT !.pending = @ - 1]
  /\ \E c \in {"part", "good"} : data_from_avr' = [data_from_avr EXCEPT ![from_buf] = c]
  /\ UNCHANGED <<linkVars, avr, faulty>>

RxReady ==
  /\ twi.state = "RX_BUSY" /\ ~ twi.hung
  /\ twi' = [twi EXCEPT !.pending = @ - 1, !.state = IF twi.pending = 1 THEN "DONE" ELSE @]
  /\ \E c \in IF twi.pending > 1 THEN {"part"} ELSE IF faulty THEN {"good", "bad"} ELSE {"good"} :
       data_from_avr' = [data_from_avr EXCEPT ![from_buf] = c]
  /\ UNCHANGED <<linkVars, avr, faulty>>

(* TXRDY for every byte and once more, then TXCOMP. *)
TxReady ==
  /\ twi.state = "TX_BUSY" /\ ~ twi.hung /\ twi.pending >= 0
  /\ twi' = [twi EXCEPT !.pending = @ - 1]
  /\ UNCHANGED <<linkVars, data_from_avr, avr, faulty>>

TxComp ==
  /\ twi.state = "TX_BUSY" /\ ~ twi.hung /\ twi.pending = -1
  /\ twi' = [twi EXCEPT !.state = "DONE"]
  /\ avr' = IF twi.what = "command" THEN data_to_avr ELSE avr
  /\ UNCHANGED <<linkVars, data_from_avr, faulty>>

Nack ==
  /\ Busy(twi) /\ faulty
  /\ twi' = [twi EXCEPT !.state = "UNINITIALISED"]
  /\ UNCHANGED <<linkVars, data_from_avr, avr, faulty>>

twi_isr_C == RxReady \/ TxReady \/ TxComp \/ Nack

-----------------------------------------------------------------------------
(* nxt_avr.c. *)

nxt_avr_start_read ==
  /\ twi' = twi_start_read(ReadBytes)
  /\ UNCHANGED <<from_buf, io_from_avr, data_from_avr, data_to_avr>>

(* nxt_avr_unpack: data with the right checksum, or by chance data         *)
(* received in part, are shown, and the other buffer is received into.     *)
Passes(c) == CASE c \in {"good", "old"} -> {TRUE} [] c = "part" -> BOOLEAN [] OTHER -> {FALSE}

nxt_avr_unpack ==
  \E good \in Passes(data_from_avr[from_buf]) :
    /\ io_from_avr' = IF good THEN from_buf ELSE io_from_avr
    /\ from_buf' = IF good THEN NEXT_BUF ELSE from_buf
    /\ data_from_avr' = [b \in Buffer |->
         IF good /\ b = NEXT_BUF /\ data_from_avr[b] = "good" THEN "old" ELSE data_from_avr[b]]

nxt_avr_start_send ==
  /\ data_to_avr' = io_to_avr
  /\ twi' = twi_start_write("command", SendBytes)

(* The tick while the link runs. *)
Update ==
  /\ link_state \in {"RUNNING", "RETRY"}
  /\ Ready(twi)
  /\ update_count' = 1 - update_count
  /\ link_state' = "RUNNING"
  /\ \/ update_count = 1 /\ nxt_avr_start_read
     \/ update_count = 0 /\ nxt_avr_start_send /\ nxt_avr_unpack
  /\ UNCHANGED <<io_to_avr, avr, faulty>>

(* Fault: the link waits as long as it takes. *)
NotReady_Waits ==
  /\ link_state \in {"RUNNING", "RETRY"}
  /\ ~ Ready(twi)
  /\ Busy(twi) => faulty \/ twi.hung
  /\ link_state' = IF Busy(twi) THEN "RETRY" ELSE "RESET"
  /\ UNCHANGED <<update_count, from_buf, io_from_avr, io_to_avr, data_to_avr,
                 data_from_avr, twi, avr, faulty>>

(* One tick more is allowed to a transfer that is not done.  It is, in a   *)
(* millisecond, unless the bus fails.                                      *)
NotReady ==
  /\ link_state \in {"RUNNING", "RETRY"}
  /\ ~ Ready(twi)
  /\ Busy(twi) => faulty \/ twi.hung
  /\ link_state' = IF Busy(twi) /\ link_state = "RUNNING" THEN "RETRY" ELSE "RESET"
  /\ UNCHANGED <<update_count, from_buf, io_from_avr, io_to_avr, data_to_avr,
                 data_from_avr, twi, avr, faulty>>

(* Two ticks more, after the first, for the handshake string. *)
InitWait ==
  /\ link_state \in {"INIT1", "INIT2"}
  /\ link_state' = IF link_state = "INIT1" THEN "INIT2" ELSE "RUNNING"
  /\ UNCHANGED <<update_count, from_buf, io_from_avr, io_to_avr, data_to_avr,
                 data_from_avr, twi, avr, faulty>>

(* Fault: the buffers are not cleared. *)
Reset_KeepsData ==
  /\ link_state = "RESET"
  /\ twi' = twi_start_write("handshake", InitBytes)
  /\ update_count' = 0
  /\ link_state' = "INIT1"
  /\ UNCHANGED <<from_buf, io_from_avr, io_to_avr, data_to_avr, data_from_avr, avr, faulty>>

(* twi_init, the buffers are cleared, and nxt_avr_link_init. *)
Reset ==
  /\ link_state = "RESET"
  /\ twi' = twi_start_write("handshake", InitBytes)
  /\ data_from_avr' = [b \in Buffer |-> "zero"]
  /\ update_count' = 0
  /\ link_state' = "INIT1"
  /\ UNCHANGED <<from_buf, io_from_avr, io_to_avr, data_to_avr, avr, faulty>>

nxt_avr_1kHz_update == Update \/ NotReady \/ InitWait \/ Reset

(* A task sets a motor or the power of an input. *)
nxt_avr_set_motor(c) ==
  /\ io_to_avr' = c
  /\ UNCHANGED <<link_state, update_count, from_buf, io_from_avr, data_to_avr,
                 data_from_avr, twi, avr, faulty>>

(* The bus fails for a time: transfers are refused, late, garbled or stop. *)
Fails  == faulty' \in BOOLEAN /\ faulty' # faulty
          /\ UNCHANGED <<linkVars, data_from_avr, twi, avr>>
Hangs  == faulty /\ Busy(twi) /\ twi' = [twi EXCEPT !.hung = TRUE]
          /\ UNCHANGED <<linkVars, data_from_avr, avr, faulty>>

nxt_avr_init ==
  /\ link_state = "RESET" /\ update_count = 0
  /\ from_buf = 0 /\ io_from_avr = 1
  /\ data_from_avr = [b \in Buffer |-> "zero"]
  /\ io_to_avr \in Command /\ data_to_avr = io_to_avr /\ avr = io_to_avr
  /\ twi = [state |-> "IDLE", pending |-> 0, what |-> "handshake", hung |-> FALSE]
  /\ faulty \in BOOLEAN

Next ==
  \/ twi_isr_C
  \/ nxt_avr_1kHz_update
  \/ \E c \in Command : nxt_avr_set_motor(c)
  \/ Fails \/ Hangs

Spec == nxt_avr_init /\ [][Next]_vars

(* Ticks go on, and the interface goes on with a transfer. *)
FairSpec == Spec /\ WF_vars(nxt_avr_1kHz_update) /\ WF_vars(RxReady \/ TxReady \/ TxComp)

-----------------------------------------------------------------------------
(* Type invariant. *)
TypeOK ==
  /\ link_state \in LinkState /\ update_count \in 0 .. 1
  /\ from_buf \in Buffer /\ io_from_avr \in Buffer
  /\ data_from_avr \in [Buffer -> Content]
  /\ io_to_avr \in Command /\ data_to_avr \in Command /\ avr \in Command
  /\ twi \in [state : TwiState, pending : -1 .. InitBytes + SendBytes + ReadBytes,
              what : {"handshake", "command", "data"}, hung : BOOLEAN]
  /\ faulty \in BOOLEAN

(* What sensor_adc and battery_voltage read is one packet received with    *)
(* its checksum, newer than the one before it, or zero behind a reset:     *)
(* never a packet in part, and never one that was shown before, whatever   *)
(* fails between the start of a transfer and its unpacking.                *)
ShownWhole == data_from_avr[io_from_avr] \in {"good", "zero"}

(* When the bus has failed, at whatever point, and is good again, the link *)
(* recovers: packets are shown again and again, and a motor command that   *)
(* the tasks no longer change reaches the AVR and stays.                   *)
LinkRecovers ==
  <>[](~ faulty) =>
    /\ \A b \in Buffer : []<>(io_from_avr = b)
    /\ \A c \in Command : <>[](io_to_avr = c) => <>[](avr = c)
=============================================================================
