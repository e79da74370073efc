--------------------------- MODULE AvrLinkProofs ---------------------------
(***************************************************************************)
(* The tasks never see a packet of the AVR in part or twice, for packets   *)
(* and commands of any length: the type invariant and ShownWhole.          *)
(***************************************************************************)
EXTENDS AvrLink, TLAPS

(* What can be unpacked has been received to its end, since the last       *)
(* unpacking or reset. *)
Unpackable ==
  update_count = 0 /\ twi.state \in {"IDLE", "DONE", "TX_BUSY"}
    => data_from_avr[from_buf] \in {"zero", "good", "bad"}

(* A read that goes on waits for a byte; what is shown is not received     *)
(* into.                                                                   *)
IInv ==
  /\ TypeOK
  /\ io_from_avr = NEXT_BUF
  /\ ShownWhole
  /\ Unpackable
  /\ twi.state = "RX_BUSY" => twi.pending >= 1

TwiType == [state : TwiState, pending : -1 .. InitBytes + SendBytes + ReadBytes,
            what : {"handshake", "command", "data"}, hung : BOOLEAN]

-----------------------------------------------------------------------------
LEMMA TwiInIInv == IInv => twi \in TwiType
BY DEF IInv, TypeOK, TwiType

(* The interface while and after a transfer that was just started. *)
LEMMA StartType ==
  /\ twi_start_read(ReadBytes) \in TwiType
  /\ twi_start_write("command", SendBytes) \in TwiType
  /\ twi_start_write("handshake", InitBytes) \in TwiType
  /\ twi_start_read(ReadBytes).state = "RX_BUSY" /\ twi_start_read(ReadBytes).pending >= 1
  /\ \A what, n : twi_start_write(what, n).state = "TX_BUSY"
BY AvrConfig DEF TwiType, TwiState, twi_start_read, twi_start_write

LEMMA InitInv == nxt_avr_init => IInv
PROOF
  <1> SUFFICES ASSUME nxt_avr_init PROVE IInv
    OBVIOUS
  <1>1. twi \in TwiType /\ twi.state = "IDLE"
    BY AvrConfig DEF nxt_avr_init, TwiType, TwiState
  <1>2. TypeOK
    BY <1>1 DEF nxt_avr_init, TypeOK, TwiType, LinkState, Buffer, Content
  <1> QED BY <1>1, <1>2 DEF nxt_avr_init, IInv, NEXT_BUF, ShownWhole, Unpackable, Buffer

-----------------------------------------------------------------------------
(* A byte goes to the buffer that is not shown, the last one with the      *)
(* verdict on the packet.                                                  *)
LEMMA RxReadyInv == IInv /\ RxReady => IInv'
PROOF
  <1> SUFFICES ASSUME IInv, RxReady PROVE IInv'
    OBVIOUS
  <1>1. twi \in TwiType /\ twi.state = "RX_BUSY" /\ twi.pending >= 1
        /\ UNCHANGED <<linkVars, avr, faulty>>
    BY TwiInIInv DEF IInv, RxReady
  <1>2. PICK c \in IF twi.pending > 1 THEN {"part"}
                   ELSE IF faulty THEN {"good", "bad"} ELSE {"good"} :
          data_from_avr' = [data_from_avr EXCEPT ![from_buf] = c]
    BY DEF RxReady
  <1>3. from_buf \in Buffer /\ data_from_avr \in [Buffer -> Content] /\ c \in Content
    BY <1>2 DEF IInv, TypeOK, Content
  <1>4. /\ data_from_avr' \in [Buffer -> Content] /\ data_from_avr'[from_buf] = c
        /\ \A b \in Buffer : b # from_buf => data_from_avr'[b] = data_from_avr[b]
    BY <1>2, <1>3
  <1>5. /\ twi' \in TwiType
        /\ twi'.state = IF twi.pending = 1 THEN "DONE" ELSE "RX_BUSY"
        /\ twi'.state = "RX_BUSY" => twi'.pending >= 1
    <2>1. twi' = [twi EXCEPT !.pending = twi.pending - 1,
                             !.state = IF twi.pending = 1 THEN "DONE" ELSE twi.state]
      BY DEF RxReady
    <2>2. twi.pending \in -1 .. InitBytes + SendBytes + ReadBytes
      BY <1>1 DEF TwiType
    <2>3. twi.pending - 1 \in -1 .. InitBytes + SendBytes + ReadBytes
      BY <1>1, <2>2, AvrConfig
    <2>4. twi'.pending = twi.pending - 1
          /\ twi'.state = IF twi.pending = 1 THEN "DONE" ELSE "RX_BUSY"
      BY <1>1, <2>1 DEF TwiType
    <2>5. twi' \in TwiType
      BY <1>1, <2>1, <2>3 DEF TwiType, TwiState
    <2>6. twi.pending # 1 => twi.pending - 1 >= 1
      BY <1>1, <2>2, AvrConfig
    <2> QED BY <2>4, <2>5, <2>6
  <1>6. TypeOK'
    BY <1>1, <1>4, <1>5 DEF IInv, TypeOK, TwiType, linkVars
  <1>7. io_from_avr' = NEXT_BUF' /\ io_from_avr # from_buf /\ io_from_avr \in Buffer
    BY <1>1, <1>3 DEF IInv, NEXT_BUF, linkVars, Buffer
  <1>8. ShownWhole'
    BY <1>1, <1>4, <1>7 DEF IInv, ShownWhole, linkVars
  <1>9. Unpackable'
    <2>1. CASE twi.pending = 1
      BY <1>1, <1>2, <1>4, <2>1 DEF Unpackable, linkVars
    <2>2. CASE twi.pending # 1
      BY <1>5, <2>2 DEF Unpackable
    <2> QED BY <2>1, <2>2
  <1> QED BY <1>5, <1>6, <1>7, <1>8, <1>9 DEF IInv

(* The other steps of the interface and the bus leave the buffers alone,   *)
(* and none makes a transfer of another one that could be unpacked.        *)
LEMMA TwiOnly ==
  ASSUME IInv, twi' \in TwiType, avr' \in Command, faulty' \in BOOLEAN,
         UNCHANGED <<linkVars, data_from_avr>>,
         twi'.state = "RX_BUSY" => twi.state = "RX_BUSY" /\ twi'.pending = twi.pending,
         twi'.state \in {"IDLE", "DONE", "TX_BUSY"} => twi.state \in {"IDLE", "DONE", "TX_BUSY"}
  PROVE  IInv'
PROOF
  <1>1. TypeOK'
    BY DEF IInv, TypeOK, TwiType, linkVars
  <1>2. Unpackable'
    BY DEF IInv, Unpackable, linkVars
  <1> QED BY <1>1, <1>2 DEF IInv, NEXT_BUF, ShownWhole, linkVars

LEMMA TwiInv == IInv /\ (TxReady \/ TxComp \/ Nack \/ Fails \/ Hangs) => IInv'
PROOF
  <1> SUFFICES ASSUME IInv, TxReady \/ TxComp \/ Nack \/ Fails \/ Hangs PROVE IInv'
    OBVIOUS
  <1>1. /\ twi \in TwiType /\ avr \in Command /\ data_to_avr \in Command /\ faulty \in BOOLEAN
        /\ twi.pending \in -1 .. InitBytes + SendBytes + ReadBytes
    BY TwiInIInv DEF IInv, TypeOK, TwiType
  <1>2. CASE TxReady
    <2>1. /\ twi.state = "TX_BUSY" /\ twi' = [twi EXCEPT !.pending = @ - 1]
          /\ UNCHANGED <<linkVars, data_from_avr, avr, faulty>>
      BY <1>2 DEF TxReady
    <2>2. twi.pending - 1 \in -1 .. InitBytes + SendBytes + ReadBytes
      BY <1>1, <1>2, AvrConfig DEF TxReady
    <2>3. twi' \in TwiType /\ twi'.state = "TX_BUSY"
      BY <1>1, <2>1, <2>2 DEF TwiType
    <2> QED BY <1>1, <2>1, <2>3, TwiOnly
  <1>3. CASE TxComp
    <2>1. /\ twi.state = "TX_BUSY" /\ twi' = [twi EXCEPT !.state = "DONE"]
          /\ avr' \in Command
          /\ UNCHANGED <<linkVars, data_from_avr, faulty>>
      BY <1>1, <1>3 DEF TxComp
    <2>2. twi' \in TwiType /\ twi'.state = "DONE"
      BY <1>1, <2>1 DEF TwiType, TwiState
    <2> QED BY <1>1, <2>1, <2>2, TwiOnly
  <1>4. CASE Nack
    <2>1. /\ twi' = [twi EXCEPT !.state = "UNINITIALISED"]
          /\ UNCHANGED <<linkVars, data_from_avr, avr, faulty>>
      BY <1>4 DEF Nack
    <2>2. twi' \in TwiType /\ twi'.state = "UNINITIALISED"
      BY <1>1, <2>1 DEF TwiType, TwiState
    <2> QED BY <1>1, <2>1, <2>2, TwiOnly
  <1>5. CASE Fails
    BY <1>1, <1>5, TwiOnly DEF Fails
  <1>6. CASE Hangs
    <2>1. /\ twi' = [twi EXCEPT !.hung = TRUE]
          /\ UNCHANGED <<linkVars, data_from_avr, avr, faulty>>
      BY <1>6 DEF Hangs
    <2>2. twi' \in TwiType /\ twi'.state = twi.state /\ twi'.pending = twi.pending
      BY <1>1, <2>1 DEF TwiType
    <2> QED BY <1>1, <2>1, <2>2, TwiOnly
  <1> QED BY <1>2, <1>3, <1>4, <1>5, <1>6

-----------------------------------------------------------------------------
(* A tick that unpacks shows a packet received to its end, and takes the   *)
(* one shown before to receive into; one that does not, starts a read.     *)
LEMMA UpdateInv == IInv /\ Update => IInv'
PROOF
  <1> SUFFICES ASSUME IInv, Update PROVE IInv'
    OBVIOUS
  <1>1. /\ update_count \in 0 .. 1 /\ update_count' = 1 - update_count
        /\ link_state' = "RUNNING" /\ Ready(twi) /\ UNCHANGED <<io_to_avr, avr, faulty>>
        /\ from_buf \in Buffer /\ data_from_avr \in [Buffer -> Content]
        /\ io_to_avr \in Command /\ data_to_avr \in Command
        /\ io_from_avr = NEXT_BUF /\ io_from_avr \in Buffer
    BY DEF Update, IInv, TypeOK
  <1>2. CASE update_count = 1 /\ nxt_avr_start_read
    <2>1. /\ twi' = twi_start_read(ReadBytes)
          /\ UNCHANGED <<from_buf, io_from_avr, data_from_avr, data_to_avr>>
      BY <1>2 DEF nxt_avr_start_read
    <2>2. twi' \in TwiType /\ twi'.state = "RX_BUSY" /\ twi'.pending >= 1
      BY <2>1, StartType
    <2>3. update_count' \in 0 .. 1
      BY <1>1
    <2>4. TypeOK'
      BY <1>1, <2>1, <2>2, <2>3 DEF IInv, TypeOK, TwiType, LinkState
    <2> QED BY <1>1, <2>1, <2>2, <2>4 DEF IInv, NEXT_BUF, ShownWhole, Unpackable
  <1>3. CASE update_count = 0 /\ nxt_avr_start_send /\ nxt_avr_unpack
    <2>1. data_to_avr' = io_to_avr /\ twi' = twi_start_write("command", SendBytes)
      BY <1>3 DEF nxt_avr_start_send
    <2>2. twi' \in TwiType /\ twi'.state = "TX_BUSY" /\ update_count' = 1
      BY <1>1, <1>3, <2>1, StartType
    <2>3. PICK good \in Passes(data_from_avr[from_buf]) :
            /\ io_from_avr' = IF good THEN from_buf ELSE io_from_avr
            /\ from_buf' = IF good THEN NEXT_BUF ELSE from_buf
            /\ data_from_avr' = [b \in Buffer |->
                 IF good /\ b = NEXT_BUF /\ data_from_avr[b] = "good"
                   THEN "old" ELSE data_from_avr[b]]
      BY <1>3 DEF nxt_avr_unpack
    <2>4. data_from_avr[from_buf] \in {"zero", "good", "bad"}
      BY <1>1, <1>3 DEF IInv, Unpackable, Ready
    <2>5. good \in BOOLEAN /\ (good => data_from_avr[from_buf] = "good")
      BY <2>3, <2>4 DEF Passes
    <2>6. data_from_avr' \in [Buffer -> Content]
      BY <1>1, <2>3 DEF Content
    <2>7. from_buf' \in Buffer /\ io_from_avr' \in Buffer /\ io_from_avr' = NEXT_BUF'
      <3>1. NEXT_BUF \in Buffer /\ 1 - NEXT_BUF = from_buf
        BY <1>1 DEF NEXT_BUF, Buffer
      <3> QED BY <1>1, <2>3, <3>1 DEF NEXT_BUF
    <2>8. ShownWhole'
      <3>1. CASE good
        <4>1. io_from_avr' = from_buf /\ from_buf # NEXT_BUF
          BY <1>1, <2>3, <3>1 DEF NEXT_BUF, Buffer
        <4> QED BY <1>1, <2>3, <2>5, <3>1, <4>1 DEF ShownWhole
      <3>2. CASE ~ good
        BY <1>1, <2>3, <3>2 DEF IInv, ShownWhole
      <3> QED BY <3>1, <3>2
    <2>9. TypeOK'
      BY <1>1, <2>1, <2>2, <2>6, <2>7 DEF IInv, TypeOK, TwiType, LinkState
    <2> QED BY <2>2, <2>7, <2>8, <2>9 DEF IInv, Unpackable
  <1> QED BY <1>2, <1>3 DEF Update

(* A reset clears both buffers. *)
LEMMA ResetInv == IInv /\ Reset => IInv'
PROOF
  <1> SUFFICES ASSUME IInv, Reset PROVE IInv'
    OBVIOUS
  <1>1. /\ twi' = twi_start_write("handshake", InitBytes)
        /\ data_from_avr' = [b \in Buffer |-> "zero"]
        /\ update_count' = 0 /\ link_state' = "INIT1"
        /\ UNCHANGED <<from_buf, io_from_avr, io_to_avr, data_to_avr, avr, faulty>>
    BY DEF Reset
  <1>2. twi' \in TwiType /\ twi'.state = "TX_BUSY"
    BY <1>1, StartType
  <1>3. TypeOK'
    BY <1>1, <1>2 DEF IInv, TypeOK, TwiType, LinkState, Content
  <1>4. from_buf \in Buffer /\ io_from_avr \in Buffer
    BY DEF IInv, TypeOK
  <1> QED BY <1>1, <1>2, <1>3, <1>4 DEF IInv, NEXT_BUF, ShownWhole, Unpackable

(* The other ticks, and what a task sets. *)
LEMMA LinkInv ==
  ASSUME IInv, link_state' \in LinkState, io_to_avr' \in Command,
         UNCHANGED <<update_count, from_buf, io_from_avr, data_to_avr, data_from_avr,
                     twi, avr, faulty>>
  PROVE  IInv'
BY DEF IInv, TypeOK, NEXT_BUF, ShownWhole, Unpackable

-----------------------------------------------------------------------------
LEMMA NextInv == IInv /\ [Next]_vars => IInv'
PROOF
  <1> SUFFICES ASSUME IInv, [Next]_vars PROVE IInv'
    OBVIOUS
  <1>1. CASE twi_isr_C \/ Fails \/ Hangs
    BY <1>1, RxReadyInv, TwiInv DEF twi_isr_C
  <1>2. CASE Update \/ Reset
    BY <1>2, UpdateInv, ResetInv
  <1>3. CASE NotReady \/ InitWait
    BY <1>3, LinkInv DEF NotReady, InitWait, LinkState, IInv, TypeOK
  <1>4. ASSUME NEW c \in Command, nxt_avr_set_motor(c) PROVE IInv'
    BY <1>4, LinkInv DEF nxt_avr_set_motor, IInv, TypeOK
  <1>5. CASE UNCHANGED vars
    BY <1>5, LinkInv DEF vars, linkVars, IInv, TypeOK
  <1> QED BY <1>1, <1>2, <1>3, <1>4, <1>5 DEF Next, nxt_avr_1kHz_update

LEMMA AvrInv == Spec => []IInv
BY InitInv, NextInv, PTL DEF Spec

(* The link's state stays in range; twi_pending never leaves the bytes of  *)
(* one transfer, whatever fails in the middle of it.                       *)
THEOREM AvrTypeOK == Spec => []TypeOK
PROOF
  <1>1. IInv => TypeOK
    BY DEF IInv
  <1> QED BY <1>1, AvrInv, PTL

(* The sensor values the tasks read come from one packet with its          *)
(* checksum, newer than the one shown before, or are zero behind a reset.  *)
THEOREM AvrShownWhole == Spec => []ShownWhole
PROOF
  <1>1. IInv => ShownWhole
    BY DEF IInv
  <1> QED BY <1>1, AvrInv, PTL
=============================================================================
