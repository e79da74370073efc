-------------------------- MODULE SerialDmaProofs --------------------------
(***************************************************************************)
(* The serial lines lose, repeat and overwrite nothing, for buffers of any *)
(* length: the type invariant and BuffersIntact of SerialDma.              *)
(***************************************************************************)
EXTENDS SerialDma, TLAPS

(* Bytes in the two buffers, from the start of the one that is read. *)
Written == (IF rx.next = 0 THEN 2 * N ELSE N) - rx.count

(* Which buffers the PDC has: the one that is read and the other behind    *)
(* it, or only the other one.                                              *)
Pdc ==
  /\ rx.next = N => /\ rx.buf = in_buf_in_ptr /\ rx.nbuf = Other(in_buf_in_ptr)
                    /\ rx.count > 0
  /\ rx.next = 0 => rx.buf = Other(in_buf_in_ptr)

(* The unread bytes are those from in_buf_idx to the PDC's position. *)
Window ==
  /\ in_buf_idx + Unread = Written
  /\ \A k \in 0 .. Unread - 1 : At(k).number = Later(read, k)

(* How far a call is.  RNCR is zero until the task that read it so sets it. *)
Calls ==
  /\ call.at # "copy" => in_buf_idx < N
  /\ call.at = "count" /\ call.full => rx.next = 0
  /\ call.at = "copy" => call.len <= Unread /\ in_buf_idx + call.len < 2 * N
  /\ call.at \in {"count", "copy"} => use # "bt_write"
  /\ call.at = "queue" => use = "bt_write" /\ tnext.count = 0

(* The buffer to write next is not the one queued or, when none is queued, *)
(* the one being sent.                                                     *)
Sending ==
  /\ tnext.count > 0 => /\ tx.count > 0 /\ tx.buf = out_buf_ptr
                        /\ tnext.buf = Other(out_buf_ptr)
  /\ tnext.count = 0 /\ tx.count > 0 => tx.buf = Other(out_buf_ptr)
  /\ UnsentIntact

IInv == TypeOK /\ Pdc /\ Window /\ Calls /\ Sending

-----------------------------------------------------------------------------
(* The other buffer is another one. *)
LEMMA Others == \A b \in Buffer : Other(b) \in Buffer /\ Other(b) # b /\ Other(Other(b)) = b
BY DEF Buffer, Other

(* Numbers are counted on as often as one likes, within one turn. *)
LEMMA LaterType == ASSUME NEW n \in Number, NEW k \in 0 .. 2 * N
                   PROVE  Later(n, k) \in Number
BY SerialConfig DEF Number, Later

(* There is a text that neither buffer holds. *)
LEMMA FreshType == TypeOK => Fresh \in Text
PROOF
  <1> SUFFICES ASSUME TypeOK PROVE Fresh \in Text
    OBVIOUS
  <1>1. \E t \in Text : ~ \E b \in Buffer : out_buf[b] = t
    <2>1. out_buf[0] \in Text /\ out_buf[1] \in Text
      BY DEF TypeOK, Buffer
    <2>2. PICK t \in Text : t # out_buf[0] /\ t # out_buf[1]
      <3>1. 0 \in Text /\ 1 \in Text /\ 2 \in Text
        BY DEF Text
      <3>2. \/ 0 # out_buf[0] /\ 0 # out_buf[1]
            \/ 1 # out_buf[0] /\ 1 # out_buf[1]
            \/ 2 # out_buf[0] /\ 2 # out_buf[1]
        OBVIOUS
      <3> QED BY <3>1, <3>2
    <2> QED BY <2>2 DEF Buffer
  <1> QED BY <1>1 DEF Fresh

(* bt_init establishes the invariant: nothing received, nothing sent. *)
LEMMA InitInv == bt_init => IInv
PROOF
  <1> SUFFICES ASSUME bt_init PROVE IInv
    OBVIOUS
  <1> USE SerialConfig
  <1>1. TypeOK
    <2>1. in_buf \in [Buffer -> [0 .. N - 1 -> Byte]]
      BY DEF bt_init, Byte, Number
    <2> QED BY <2>1 DEF bt_init, TypeOK, Buffer, Number, Idle, Text
  <1>2. Pdc
    BY DEF bt_init, Pdc, Other
  <1>3. Unread = 0
    BY DEF bt_init, Unread
  <1>4. Window
    BY <1>3 DEF bt_init, Window, Written
  <1>5. Calls
    BY DEF bt_init, Calls, Idle
  <1>6. Sending
    BY DEF bt_init, Sending, UnsentIntact
  <1> QED BY <1>1, <1>2, <1>4, <1>5, <1>6 DEF IInv

-----------------------------------------------------------------------------
(* A byte is stored behind the unread ones, in a place that is free. *)
LEMMA ReceiveInv == IInv /\ Receive => IInv'
PROOF
  <1> SUFFICES ASSUME IInv, Receive PROVE IInv'
    OBVIOUS
  <1> USE SerialConfig, Others
  <1>1. PICK left \in IF line = 0 THEN Packet ELSE {line} :
          /\ in_buf' = [in_buf EXCEPT ![rx.buf][N - rx.count] = [number |-> got, left |-> left]]
          /\ line' = left - 1
    BY DEF Receive
  <1>2. left \in 1 .. N
    BY <1>1 DEF IInv, TypeOK, Packet
  <1>3. /\ rx \in [buf : Buffer, count : 0 .. N, nbuf : Buffer, next : {0, N}]
        /\ rx.count \in 1 .. N
        /\ in_buf \in [Buffer -> [0 .. N - 1 -> Byte]]
        /\ got \in Number /\ read \in Number /\ in_buf_idx \in 0 .. 2 * N
        /\ in_buf_in_ptr \in Buffer
    BY DEF IInv, TypeOK, Receive
  <1> DEFINE pos == N - rx.count
             new == [number |-> got, left |-> left]
  <1>4. pos \in 0 .. N - 1 /\ new \in Byte
    BY <1>2, <1>3 DEF Byte
  <1>5. in_buf' \in [Buffer -> [0 .. N - 1 -> Byte]]
    BY <1>1, <1>3, <1>4
  <1>6. \A b \in Buffer, i \in 0 .. N - 1 :
          in_buf'[b][i] = IF b = rx.buf /\ i = pos THEN new ELSE in_buf[b][i]
    BY <1>1, <1>3, <1>4
  <1>7. /\ Unread' = Unread + 1 /\ got = Later(read, Unread)
        /\ Unread \in 0 .. 2 * N - 1 /\ Unread + in_buf_idx = Written
    <2>1. N \in Nat /\ got \in 0 .. 2 * N /\ read \in 0 .. 2 * N
      BY <1>3 DEF Number
    <2>2. Unread \in 0 .. 2 * N /\ got = Later(read, Unread)
      BY <2>1 DEF Unread, Later
    <2>3. Unread + in_buf_idx = Written
      BY <1>3, <2>2 DEF IInv, Window
    <2>4. Written \in Int /\ Written < 2 * N
      BY <1>3, <2>1 DEF Written
    <2>5. Unread < 2 * N
      BY <1>3, <2>1, <2>2, <2>3, <2>4
    <2>6. got' = Later(got, 1) /\ read' = read
      BY DEF Receive
    <2>7. Unread' = Unread + 1
      BY <2>1, <2>2, <2>5, <2>6 DEF Unread, Later
    <2> QED BY <2>1, <2>2, <2>3, <2>5, <2>7
  <1>8. /\ rx' \in [buf : Buffer, count : 0 .. N, nbuf : Buffer, next : {0, N}]
        /\ Written' = Written + 1
        /\ rx.next = 0 => rx'.next = 0
        /\ Pdc'
    <2>1. rx' = Reloaded([rx EXCEPT !.count = @ - 1]) /\ in_buf_in_ptr' = in_buf_in_ptr
      BY DEF Receive
    <2>2. rx.next = 0 \/ rx.next = N
      BY <1>3
    <2>3. CASE rx.count = 1 /\ rx.next = N
      <3>1. rx' = [buf |-> rx.nbuf, count |-> N, nbuf |-> rx.nbuf, next |-> 0]
        BY <1>3, <2>1, <2>3 DEF Reloaded
      <3> QED BY <1>3, <2>1, <2>3, <3>1 DEF Written, Pdc, IInv
    <2>4. CASE rx.count > 1 \/ rx.next = 0
      <3>1. rx' = [rx EXCEPT !.count = @ - 1]
        BY <1>3, <2>1, <2>4 DEF Reloaded
      <3>2. rx'.buf = rx.buf /\ rx'.nbuf = rx.nbuf /\ rx'.next = rx.next
            /\ rx'.count = rx.count - 1
        BY <1>3, <3>1
      <3>3. Written' = Written + 1
        BY <1>3, <2>2, <3>2 DEF Written
      <3>4. Pdc'
        BY <1>3, <2>1, <2>2, <2>4, <3>2 DEF Pdc, IInv
      <3>5. rx.count - 1 \in 0 .. N
        BY <1>3
      <3>6. rx' \in [buf : Buffer, count : 0 .. N, nbuf : Buffer, next : {0, N}]
        BY <1>3, <3>1, <3>5
      <3> QED BY <3>2, <3>3, <3>4, <3>6
    <2>5. (rx.count = 1 /\ rx.next = N) \/ (rx.count > 1 \/ rx.next = 0)
      BY <1>3, <2>2
    <2> QED BY <2>3, <2>4, <2>5
  <1>9. TypeOK'
    <2>1. got' \in Number
      <3>1. 1 \in 0 .. 2 * N
        OBVIOUS
      <3> QED BY <1>3, <3>1, LaterType DEF Receive
    <2>2. line' \in 0 .. N - 1
      BY <1>1, <1>2
    <2> QED BY <1>3, <1>5, <1>8, <2>1, <2>2 DEF IInv, TypeOK, Receive, outVars
  <1>10. Window'
    <2>1. ASSUME NEW k \in 0 .. Unread' - 1 PROVE At(k)'.number = Later(read, k)'
      <3> DEFINE i == in_buf_idx + k
      <3>1. i \in 0 .. Written /\ (k = Unread <=> i = Written)
            /\ (k # Unread => k \in 0 .. Unread - 1)
        BY <1>3, <1>7
      <3>2. i < 2 * N
        BY <1>3, <3>1, <1>7 DEF Written
      <3>3. At(k)' = IF i = Written THEN new ELSE At(k)
        <4>0. At(k)' = IF i < N THEN in_buf'[in_buf_in_ptr][i]
                                ELSE in_buf'[Other(in_buf_in_ptr)][i - N]
          BY DEF At, Receive
        <4>1. CASE rx.next = N
          <5>1. rx.buf = in_buf_in_ptr /\ Written = pos /\ Written < N /\ i < N
            BY <1>3, <3>1, <4>1 DEF Pdc, IInv, Written
          <5> HIDE DEF new
          <5>2. in_buf'[in_buf_in_ptr][i] = IF i = pos THEN new ELSE in_buf[in_buf_in_ptr][i]
            BY <1>3, <1>6, <3>1, <5>1
          <5> QED BY <4>0, <5>1, <5>2 DEF At
        <4>2. CASE rx.next = 0
          <5>1. rx.buf = Other(in_buf_in_ptr) /\ Written = N + pos
            BY <1>3, <4>2 DEF Pdc, IInv, Written
          <5> HIDE DEF new
          <5>2. CASE i < N
            <6>1. in_buf'[in_buf_in_ptr][i] = in_buf[in_buf_in_ptr][i]
              BY <1>3, <1>6, <3>1, <5>1, <5>2
            <6> QED BY <1>4, <4>0, <5>1, <5>2, <6>1 DEF At
          <5>3. CASE i >= N
            <6>1. i - N \in 0 .. N - 1 /\ (i - N = pos <=> i = Written) /\ ~ (i < N)
              <7>1. i \in Int /\ N \in Int /\ pos \in Int
                BY <1>3, <1>4, <3>1
              <7> HIDE DEF i, pos
              <7> QED BY <3>2, <5>1, <5>3, <7>1
            <6>2. in_buf'[Other(in_buf_in_ptr)][i - N] =
                    IF i - N = pos THEN new ELSE in_buf[Other(in_buf_in_ptr)][i - N]
              BY <1>3, <1>6, <5>1, <6>1
            <6> QED BY <4>0, <6>1, <6>2 DEF At
          <5> QED BY <1>3, <3>1, <5>2, <5>3
        <4> QED BY <1>3, <4>1, <4>2
      <3>4. Later(read, k)' = Later(read, k)
        BY DEF Later, Receive
      <3> QED BY <1>7, <3>1, <3>3, <3>4 DEF IInv, Window
    <2>2. in_buf_idx' + Unread' = Written'
      BY <1>3, <1>7, <1>8 DEF Receive, Written
    <2> QED BY <2>1, <2>2 DEF Window
  <1>11. Calls'
    BY <1>3, <1>7, <1>8 DEF IInv, Calls, Receive, outVars, TypeOK
  <1>12. Sending'
    BY DEF IInv, Sending, UnsentIntact, Receive, outVars
  <1> QED BY <1>8, <1>9, <1>10, <1>11, <1>12 DEF IInv

(* The parts of the invariant that the task's reading leaves alone. *)
LEMMA RxCall ==
  ASSUME IInv, use # "bt_write",
         UNCHANGED <<use, rx, in_buf, in_buf_in_ptr, in_buf_idx, got, read, line, outVars>>,
         call' \in [at : {"idle", "count", "copy"}, full : BOOLEAN, len : 0 .. N],
         in_buf_idx < N,
         call'.at = "count" /\ call'.full => rx.next = 0,
         call'.at = "copy" => call'.len <= Unread
  PROVE  IInv'
PROOF
  <1> USE SerialConfig
  <1>1. Unread' = Unread /\ Written' = Written
    BY DEF Unread, Written
  <1>2. \A k : At(k)' = At(k) /\ Later(read, k)' = Later(read, k)
    BY DEF At, Later
  <1>3. TypeOK'
    BY DEF IInv, TypeOK, outVars
  <1>4. Pdc' /\ Window'
    BY <1>1, <1>2 DEF IInv, Pdc, Window, Other
  <1>5. in_buf_idx + call'.len < 2 * N
    BY DEF IInv, TypeOK
  <1>6. Calls'
    BY <1>1, <1>5 DEF Calls
  <1>7. Sending'
    BY DEF IInv, Sending, UnsentIntact, outVars
  <1> QED BY <1>3, <1>4, <1>6, <1>7 DEF IInv

(* The steps of a call up to the copying. *)
LEMMA ReadNextInv == ASSUME NEW len \in 1 .. N, IInv, ReadNext(len) PROVE IInv'
PROOF
  <1>1. call' = [at |-> "count", full |-> rx.next = 0, len |-> len] /\ call.at = "idle"
        /\ use # "bt_write"
    BY DEF ReadNext
  <1>2. in_buf_idx < N
    BY <1>1 DEF IInv, Calls
  <1>3. (rx.next = 0) \in BOOLEAN
    OBVIOUS
  <1>4. call' \in [at : {"idle", "count", "copy"}, full : BOOLEAN, len : 0 .. N]
    BY <1>1, <1>3, SerialConfig
  <1>5. call'.full <=> rx.next = 0
    BY <1>1
  <1> QED BY <1>1, <1>2, <1>4, <1>5, RxCall DEF ReadNext, inVars

(* What is counted is there, whether RNCR is stale or not. *)
LEMMA ReadyIsUnread ==
  ASSUME IInv, call.at = "count"
  PROVE  /\ total_bytes_ready \in Int /\ in_buf_idx \in 0 .. N - 1 /\ Unread \in Nat
         /\ total_bytes_ready - in_buf_idx <= Unread
PROOF
  <1> USE SerialConfig
  <1>1. /\ rx.count \in 0 .. N /\ rx.next \in {0, N} /\ call.full \in BOOLEAN
        /\ in_buf_idx \in 0 .. 2 * N /\ got \in 0 .. 2 * N /\ read \in 0 .. 2 * N
    BY DEF IInv, TypeOK, Number
  <1>2. in_buf_idx < N /\ (call.full => rx.next = 0)
    BY DEF IInv, Calls
  <1>3. Unread \in Nat /\ in_buf_idx + Unread = Written
    BY <1>1 DEF IInv, Window, Unread
  <1>4. CASE call.full
    BY <1>1, <1>2, <1>3, <1>4 DEF Written, total_bytes_ready
  <1>5. CASE ~ call.full
    BY <1>1, <1>2, <1>3, <1>5 DEF Written, total_bytes_ready
  <1> QED BY <1>1, <1>4, <1>5

LEMMA CountInv == IInv /\ (bt_read_Count \/ bt_receive_Count) => IInv'
PROOF
  <1> SUFFICES ASSUME IInv, bt_read_Count \/ bt_receive_Count PROVE IInv'
    OBVIOUS
  <1> USE SerialConfig
  <1> DEFINE ready == total_bytes_ready - in_buf_idx
  <1>1. call.at = "count" /\ use # "bt_write"
        /\ UNCHANGED <<use, rx, in_buf, in_buf_in_ptr, in_buf_idx, got, read, line, outVars>>
    BY DEF bt_read_Count, bt_receive_Count, inVars
  <1>2. ready \in Int /\ ready <= Unread /\ Unread \in Nat /\ in_buf_idx < N
    BY <1>1, ReadyIsUnread
  <1>3. call \in [at : {"idle", "count", "copy", "queue"}, full : BOOLEAN, len : 0 .. N]
    BY DEF IInv, TypeOK
  <1> HIDE DEF ready
  <1>4. ASSUME NEW len \in 0 .. N, len <= Unread, call' = CopyStep(len) PROVE IInv'
    <2>1. call' = [call EXCEPT !.at = "copy", !.len = len]
      BY <1>4 DEF CopyStep
    <2>2. call' \in [at : {"idle", "count", "copy"}, full : BOOLEAN, len : 0 .. N]
      BY <1>3, <2>1
    <2>3. call'.at = "copy" /\ call'.len = len
      BY <1>3, <2>1
    <2> QED BY <1>1, <1>2, <1>4, <2>2, <2>3, RxCall
  <1>5. CASE bt_read_Count
    <2>1. call' = CopyStep(IF ready <= 0 THEN 0 ELSE IF ready > call.len THEN call.len ELSE ready)
      BY <1>5 DEF bt_read_Count, ready
    <2>2. call.len \in 0 .. N
      BY <1>3
    <2> QED BY <1>2, <1>4, <2>1, <2>2
  <1>6. CASE bt_receive_Count
    <2> DEFINE cmd_len == At(0).left
    <2>1. call' = IF ready <= 1 THEN CopyStep(0)
                  ELSE IF ready >= cmd_len THEN CopyStep(cmd_len) ELSE Idle
      BY <1>6 DEF bt_receive_Count, ready
    <2>2. cmd_len \in 1 .. N
      <3>1. in_buf_idx \in 0 .. N - 1
        BY <1>1, ReadyIsUnread
      <3>2. in_buf_in_ptr \in Buffer /\ in_buf \in [Buffer -> [0 .. N - 1 -> Byte]]
        BY DEF IInv, TypeOK
      <3>3. At(0) = in_buf[in_buf_in_ptr][in_buf_idx]
        BY <3>1 DEF At
      <3>4. At(0) \in Byte
        BY <3>1, <3>2, <3>3
      <3> QED BY <3>4 DEF Byte
    <2> HIDE DEF cmd_len
    <2>3. CASE call' = Idle
      <3>1. Idle \in [at : {"idle", "count", "copy"}, full : BOOLEAN, len : 0 .. N]
        BY DEF Idle
      <3>2. Idle.at = "idle"
        BY DEF Idle
      <3> QED BY <1>1, <1>2, <2>3, <3>1, <3>2, RxCall
    <2> QED BY <1>2, <1>4, <2>1, <2>2, <2>3
  <1> QED BY <1>5, <1>6

(* A byte is taken from the front of the unread ones. *)
LEMMA CopyInv == IInv /\ Copy => IInv'
PROOF
  <1> SUFFICES ASSUME IInv, Copy PROVE IInv'
    OBVIOUS
  <1> USE SerialConfig
  <1>1. /\ call.at = "copy" /\ call.len \in 1 .. N /\ call' = [call EXCEPT !.len = @ - 1]
        /\ in_buf_idx' = in_buf_idx + 1 /\ read' = Later(read, 1)
        /\ UNCHANGED <<use, rx, in_buf, in_buf_in_ptr, got, line, outVars>>
        /\ call \in [at : {"idle", "count", "copy", "queue"}, full : BOOLEAN, len : 0 .. N]
    BY DEF Copy, IInv, TypeOK
  <1>2. /\ in_buf_idx \in 0 .. 2 * N /\ got \in 0 .. 2 * N /\ read \in 0 .. 2 * N
        /\ rx.count \in 0 .. N /\ rx.next \in {0, N}
    BY DEF IInv, TypeOK, Number
  <1>3. Unread \in Nat /\ call.len <= Unread /\ in_buf_idx + Unread = Written
        /\ Written \in Nat /\ Written <= 2 * N
    BY <1>1, <1>2 DEF IInv, Calls, Window, Unread, Written
  <1>4. Unread' = Unread - 1 /\ read' \in 0 .. 2 * N
    BY <1>1, <1>2, <1>3 DEF Unread, Later
  <1>5. Written' = Written
    BY <1>1 DEF Written
  <1>6. call' \in [at : {"idle", "count", "copy", "queue"}, full : BOOLEAN, len : 0 .. N]
        /\ call'.at = "copy" /\ call'.len = call.len - 1
    BY <1>1
  <1>7. TypeOK'
    <2>1. in_buf_idx' \in 0 .. 2 * N
      BY <1>1, <1>2, <1>3
    <2>2. read' \in Number
      BY <1>4 DEF Number
    <2> QED BY <1>1, <1>6, <2>1, <2>2 DEF IInv, TypeOK, outVars
  <1>8. Window'
    <2>1. ASSUME NEW k \in 0 .. Unread' - 1 PROVE At(k)'.number = Later(read, k)'
      <3>1. k + 1 \in 0 .. Unread - 1
        BY <1>3, <1>4
      <3>2. At(k)' = At(k + 1)
        <4>1. in_buf_idx' + k = in_buf_idx + (k + 1)
          BY <1>1, <1>2
        <4> QED BY <1>1, <4>1 DEF At
      <3>3. Later(read, k)' = Later(read, k + 1)
        <4>1. k \in Nat /\ k < 2 * N
          BY <1>2, <1>3, <1>4
        <4>2. Later(read, k)' = Later(read', k)
          BY DEF Later
        <4> QED BY <1>1, <1>2, <4>1, <4>2 DEF Later
      <3> QED BY <3>1, <3>2, <3>3 DEF IInv, Window
    <2>2. in_buf_idx' + Unread' = Written'
      BY <1>1, <1>2, <1>3, <1>4, <1>5
    <2> QED BY <2>1, <2>2 DEF Window
  <1>9. Pdc'
    BY <1>1 DEF IInv, Pdc, Other
  <1>10. Calls'
    <2>1. in_buf_idx + call.len < 2 * N
      BY <1>1 DEF IInv, Calls
    <2>2. call'.len <= Unread' /\ in_buf_idx' + call'.len < 2 * N
      BY <1>1, <1>2, <1>3, <1>4, <1>6, <2>1
    <2>3. use' # "bt_write"
      BY <1>1 DEF IInv, Calls
    <2> QED BY <1>6, <2>2, <2>3 DEF Calls
  <1>11. Sending'
    BY <1>1 DEF IInv, Sending, UnsentIntact, outVars
  <1> QED BY <1>7, <1>8, <1>9, <1>10, <1>11 DEF IInv

(* The buffer that was read is queued, behind the other one or at once. *)
LEMMA SwitchInv == IInv /\ SwitchBuffer => IInv'
PROOF
  <1> SUFFICES ASSUME IInv, SwitchBuffer PROVE IInv'
    OBVIOUS
  <1> USE SerialConfig, Others
  <1>1. /\ call.at = "copy" /\ call.len = 0 /\ call' = Idle
        /\ UNCHANGED <<use, in_buf, got, read, line, outVars>>
    BY DEF SwitchBuffer
  <1>2. /\ in_buf_idx \in 0 .. 2 * N /\ got \in 0 .. 2 * N /\ read \in 0 .. 2 * N
        /\ rx \in [buf : Buffer, count : 0 .. N, nbuf : Buffer, next : {0, N}]
        /\ in_buf_in_ptr \in Buffer
    BY DEF IInv, TypeOK, Number
  <1>3. /\ Unread \in Nat /\ in_buf_idx + Unread = Written /\ Unread' = Unread
        /\ \A k : Later(read, k)' = Later(read, k)
    BY <1>1, <1>2 DEF IInv, Window, Unread, Later
  <1>4. Idle \in [at : {"idle", "count", "copy", "queue"}, full : BOOLEAN, len : 0 .. N]
        /\ Idle.at = "idle"
    BY DEF Idle
  <1>5. Sending'
    BY <1>1 DEF IInv, Sending, UnsentIntact, outVars
  <1>6. CASE in_buf_idx >= N /\ rx.next = 0
    <2>1. /\ in_buf_idx' = in_buf_idx - N
          /\ rx' = Reloaded([rx EXCEPT !.nbuf = in_buf_in_ptr, !.next = N])
          /\ in_buf_in_ptr' = Other(in_buf_in_ptr)
      BY <1>6 DEF SwitchBuffer
    <2>2. rx.buf = Other(in_buf_in_ptr) /\ Written = 2 * N - rx.count
      BY <1>6 DEF IInv, Pdc, Written
    <2>3. /\ rx' \in [buf : Buffer, count : 0 .. N, nbuf : Buffer, next : {0, N}]
          /\ Written' = Written - N /\ Pdc'
      <3>1. CASE rx.count = 0
        <4>1. rx' = [buf |-> in_buf_in_ptr, count |-> N, nbuf |-> in_buf_in_ptr, next |-> 0]
          BY <1>2, <2>1, <3>1 DEF Reloaded
        <4> QED BY <1>2, <2>1, <2>2, <3>1, <4>1 DEF Written, Pdc
      <3>2. CASE rx.count # 0
        <4>1. rx' = [rx EXCEPT !.nbuf = in_buf_in_ptr, !.next = N]
          BY <1>2, <2>1, <3>2 DEF Reloaded
        <4>2. rx'.buf = rx.buf /\ rx'.count = rx.count /\ rx'.nbuf = in_buf_in_ptr /\ rx'.next = N
          BY <1>2, <4>1
        <4>3. rx' \in [buf : Buffer, count : 0 .. N, nbuf : Buffer, next : {0, N}]
          BY <1>2, <4>1
        <4>4. Written' = Written - N
          BY <1>2, <2>2, <4>2 DEF Written
        <4>5. Pdc'
          BY <1>2, <2>1, <2>2, <3>2, <4>2 DEF Pdc
        <4> QED BY <4>3, <4>4, <4>5
      <3> QED BY <3>1, <3>2
    <2>4. in_buf_idx' \in 0 .. 2 * N /\ in_buf_idx' < N
      <3>1. in_buf_idx < 2 * N
        BY <1>1, <1>2 DEF IInv, Calls
      <3> QED BY <1>2, <1>6, <2>1, <3>1
    <2>5. TypeOK'
      BY <1>1, <1>2, <1>4, <2>1, <2>3, <2>4 DEF IInv, TypeOK, outVars
    <2>6. Window'
      <3>1. ASSUME NEW k \in 0 .. Unread' - 1 PROVE At(k)'.number = Later(read, k)'
        <4>1. k \in 0 .. Unread - 1 /\ in_buf_idx + k < 2 * N
          BY <1>2, <1>3, <2>2
        <4>2. At(k) = in_buf[Other(in_buf_in_ptr)][in_buf_idx + k - N]
          BY <1>2, <1>6, <4>1 DEF At
        <4>3. in_buf_idx' + k = in_buf_idx + k - N /\ in_buf_idx' + k < N
          BY <1>2, <2>1, <4>1
        <4>4. At(k)' = in_buf[Other(in_buf_in_ptr)][in_buf_idx + k - N]
          BY <1>1, <2>1, <4>3 DEF At
        <4> QED BY <1>3, <4>1, <4>2, <4>4 DEF IInv, Window
      <3>2. in_buf_idx' + Unread' = Written'
        BY <1>2, <1>3, <2>1, <2>2, <2>3
      <3> QED BY <3>1, <3>2 DEF Window
    <2>7. Calls'
      BY <1>1, <1>4, <2>4 DEF Calls
    <2> QED BY <1>5, <2>3, <2>5, <2>6, <2>7 DEF IInv
  <1>7. CASE ~ (in_buf_idx >= N /\ rx.next = 0)
    <2>1. UNCHANGED <<in_buf_idx, rx, in_buf_in_ptr>>
      BY <1>7 DEF SwitchBuffer
    <2>2. in_buf_idx < N
      <3>1. CASE rx.next = N
        <4>1. rx.count > 0 /\ Written = N - rx.count
          BY <3>1 DEF IInv, Pdc, Written
        <4> QED BY <1>2, <1>3, <4>1
      <3> QED BY <1>2, <1>7, <3>1
    <2>3. TypeOK'
      BY <1>1, <1>4, <2>1, <2>2 DEF IInv, TypeOK, outVars
    <2>4. Pdc' /\ Written' = Written /\ \A k : At(k)' = At(k)
      BY <1>1, <2>1 DEF IInv, Pdc, Written, At, Other
    <2>5. Window'
      BY <1>3, <2>1, <2>4 DEF IInv, Window
    <2>6. Calls'
      BY <1>1, <1>4, <2>1, <2>2 DEF Calls
    <2> QED BY <1>5, <2>3, <2>4, <2>5, <2>6 DEF IInv
  <1> QED BY <1>6, <1>7

-----------------------------------------------------------------------------
(* What sending leaves alone. *)
LEMMA TxKeepsRx ==
  ASSUME IInv, UNCHANGED <<use, inVars>>
  PROVE  /\ Pdc' /\ Window'
         /\ use' \in {"bt_read", "bt_receive", "bt_write"}
         /\ rx' \in [buf : Buffer, count : 0 .. N, nbuf : Buffer, next : {0, N}]
         /\ in_buf' \in [Buffer -> [0 .. N - 1 -> Byte]]
         /\ in_buf_in_ptr' \in Buffer /\ in_buf_idx' \in 0 .. 2 * N
         /\ got' \in Number /\ read' \in Number /\ line' \in 0 .. N - 1
PROOF
  <1>1. Unread' = Unread /\ Written' = Written
    BY DEF Unread, Written, inVars
  <1>2. \A k : At(k)' = At(k) /\ Later(read, k)' = Later(read, k)
    BY DEF At, Later, inVars
  <1> QED BY <1>1, <1>2 DEF IInv, TypeOK, Pdc, Window, inVars, Other

(* The registers of the PDC when what is left and what is queued is moved  *)
(* on: both hold texts that are in their buffers.                          *)
LEMMA TransmitInv == IInv /\ Transmit => IInv'
PROOF
  <1> SUFFICES ASSUME IInv, Transmit PROVE IInv'
    OBVIOUS
  <1> USE SerialConfig, Others
  <1>1. /\ tx \in [buf : Buffer, count : 0 .. N, of : Text] /\ tx.count > 0
        /\ tnext \in [buf : Buffer, count : 0 .. N, of : Text]
        /\ UNCHANGED <<use, inVars, call, out_buf, out_buf_ptr>>
    BY DEF IInv, TypeOK, Transmit
  <1> DEFINE less == [tx EXCEPT !.count = @ - 1]
  <1>2. /\ less \in [buf : Buffer, count : 0 .. N, of : Text]
        /\ less.buf = tx.buf /\ less.of = tx.of /\ less.count = tx.count - 1
    BY <1>1
  <1>3. CASE less.count = 0 /\ tnext.count > 0
    <2>1. tx' = tnext /\ tnext' = [tnext EXCEPT !.count = 0]
      BY <1>3 DEF Transmit, Sent
    <2>2. tnext' \in [buf : Buffer, count : 0 .. N, of : Text] /\ tnext'.count = 0
      BY <1>1, <2>1
    <2>3. Sending'
      BY <1>1, <1>3, <2>1, <2>2 DEF IInv, Sending, UnsentIntact, Other
    <2>4. TypeOK'
      BY <1>1, <2>1, <2>2, TxKeepsRx DEF IInv, TypeOK, inVars
    <2>5. Calls'
      BY <1>1, <2>2 DEF IInv, Calls, Unread, inVars
    <2> QED BY <1>1, <2>3, <2>4, <2>5, TxKeepsRx DEF IInv
  <1>4. CASE ~ (less.count = 0 /\ tnext.count > 0)
    <2>1. tx' = less /\ tnext' = tnext
      BY <1>4 DEF Transmit, Sent
    <2>2. Sending'
      BY <1>1, <1>2, <1>4, <2>1 DEF IInv, Sending, UnsentIntact, Other
    <2>3. TypeOK'
      BY <1>1, <1>2, <2>1, TxKeepsRx DEF IInv, TypeOK, inVars
    <2>4. Calls'
      BY <1>1, <2>1 DEF IInv, Calls, Unread, inVars
    <2> QED BY <1>1, <2>2, <2>3, <2>4, TxKeepsRx DEF IInv
  <1> QED BY <1>3, <1>4

(* A text is put into the buffer that is neither queued nor sent. *)
LEMMA WriteCopyInv == IInv /\ WriteCopy => IInv'
PROOF
  <1> SUFFICES ASSUME IInv, WriteCopy PROVE IInv'
    OBVIOUS
  <1> USE SerialConfig, Others
  <1>1. /\ call.at = "idle" /\ use = "bt_write" /\ tnext.count = 0
        /\ out_buf' = [out_buf EXCEPT ![out_buf_ptr] = Fresh]
        /\ call' = [call EXCEPT !.at = "queue"]
        /\ UNCHANGED <<use, inVars, tx, tnext, out_buf_ptr>>
    BY DEF WriteCopy
  <1>2. /\ out_buf \in [Buffer -> Text] /\ out_buf_ptr \in Buffer /\ Fresh \in Text
        /\ tx \in [buf : Buffer, count : 0 .. N, of : Text]
        /\ call \in [at : {"idle", "count", "copy", "queue"}, full : BOOLEAN, len : 0 .. N]
    BY FreshType DEF IInv, TypeOK
  <1>3. out_buf' \in [Buffer -> Text]
        /\ \A b \in Buffer : b # out_buf_ptr => out_buf'[b] = out_buf[b]
    BY <1>1, <1>2
  <1>4. call' \in [at : {"idle", "count", "copy", "queue"}, full : BOOLEAN, len : 0 .. N]
        /\ call'.at = "queue"
    BY <1>1, <1>2
  <1>5. TypeOK'
    BY <1>1, <1>2, <1>3, <1>4, TxKeepsRx DEF IInv, TypeOK
  <1>6. Sending'
    BY <1>1, <1>2, <1>3 DEF IInv, Sending, UnsentIntact, Other
  <1>7. Calls'
    BY <1>1, <1>4 DEF IInv, Calls, inVars
  <1> QED BY <1>1, <1>5, <1>6, <1>7, TxKeepsRx DEF IInv

(* The buffer is queued, or sent at once. *)
LEMMA WriteQueueInv == ASSUME NEW len \in 1 .. N, IInv, WriteQueue(len) PROVE IInv'
PROOF
  <1> USE SerialConfig, Others
  <1> DEFINE new == [buf |-> out_buf_ptr, count |-> len, of |-> out_buf[out_buf_ptr]]
  <1>1. /\ call.at = "queue" /\ Sent(tx, new) /\ out_buf_ptr' = Other(out_buf_ptr)
        /\ call' = Idle /\ UNCHANGED <<use, inVars, out_buf>>
        /\ tnext.count = 0 /\ in_buf_idx < N
    BY DEF WriteQueue, IInv, Calls
  <1>2. /\ out_buf \in [Buffer -> Text] /\ out_buf_ptr \in Buffer
        /\ tx \in [buf : Buffer, count : 0 .. N, of : Text]
    BY DEF IInv, TypeOK
  <1>3. /\ new \in [buf : Buffer, count : 0 .. N, of : Text] /\ new.count > 0
        /\ new.buf = out_buf_ptr /\ new.of = out_buf[new.buf]
    BY <1>2
  <1> HIDE DEF new
  <1>4. Idle \in [at : {"idle", "count", "copy", "queue"}, full : BOOLEAN, len : 0 .. N]
        /\ Idle.at = "idle"
    BY DEF Idle
  <1>5. Calls'
    BY <1>1, <1>4 DEF Calls, inVars
  <1>6. CASE tx.count = 0
    <2>1. tx' = new /\ tnext' = [new EXCEPT !.count = 0]
      BY <1>1, <1>3, <1>6 DEF Sent
    <2>2. tnext' \in [buf : Buffer, count : 0 .. N, of : Text] /\ tnext'.count = 0
      BY <1>3, <2>1
    <2>3. Sending'
      BY <1>1, <1>2, <1>3, <2>1, <2>2 DEF Sending, UnsentIntact, Other
    <2>4. TypeOK'
      BY <1>1, <1>2, <1>3, <1>4, <2>1, <2>2, TxKeepsRx DEF TypeOK, inVars
    <2> QED BY <1>1, <1>5, <2>3, <2>4, TxKeepsRx DEF IInv
  <1>7. CASE tx.count # 0
    <2>1. tx' = tx /\ tnext' = new
      BY <1>1, <1>7 DEF Sent
    <2>2. Sending'
      BY <1>1, <1>2, <1>3, <1>7, <2>1 DEF IInv, Sending, UnsentIntact, Other
    <2>3. TypeOK'
      BY <1>1, <1>2, <1>3, <1>4, <2>1, TxKeepsRx DEF TypeOK, inVars
    <2> QED BY <1>1, <1>5, <2>2, <2>3, TxKeepsRx DEF IInv
  <1> QED BY <1>6, <1>7

-----------------------------------------------------------------------------
(* Stuttering. *)
LEMMA StutterInv == IInv /\ UNCHANGED vars => IInv'
PROOF
  <1> SUFFICES ASSUME IInv, UNCHANGED vars PROVE IInv'
    OBVIOUS
  <1>1. Sending' /\ Calls'
    BY DEF IInv, Sending, UnsentIntact, Calls, Unread, vars, inVars, outVars, Other
  <1>2. TypeOK'
    BY DEF IInv, TypeOK, vars, inVars, outVars
  <1> QED BY <1>1, <1>2, TxKeepsRx DEF IInv, vars

(* The invariant is inductive. *)
LEMMA NextInv == IInv /\ [Next]_vars => IInv'
PROOF
  <1> SUFFICES ASSUME IInv, [Next]_vars PROVE IInv'
    OBVIOUS
  <1>1. CASE Receive
    BY <1>1, ReceiveInv
  <1>2. ASSUME NEW len \in 1 .. N, ReadNext(len) PROVE IInv'
    BY <1>2, ReadNextInv
  <1>3. CASE bt_read_Count \/ bt_receive_Count
    BY <1>3, CountInv
  <1>4. CASE Copy
    BY <1>4, CopyInv
  <1>5. CASE SwitchBuffer
    BY <1>5, SwitchInv
  <1>6. CASE Transmit
    BY <1>6, TransmitInv
  <1>7. CASE WriteCopy
    BY <1>7, WriteCopyInv
  <1>8. ASSUME NEW len \in 1 .. N, WriteQueue(len) PROVE IInv'
    BY <1>8, WriteQueueInv
  <1>9. CASE UNCHANGED vars
    BY <1>9, StutterInv
  <1> QED BY <1>1, <1>2, <1>3, <1>4, <1>5, <1>6, <1>7, <1>8, <1>9 DEF Next, bt_read, bt_write

(* The invariant holds throughout. *)
LEMMA SerialInv == Spec => []IInv
BY InitInv, NextInv, PTL DEF Spec

(* Registers, buffers and indices stay in range: in_buf_idx never leaves   *)
(* the two buffers and is below N between the calls of bt_read, hs_read    *)
(* and bt_receive, whatever the length of the buffers.                     *)
THEOREM SerialTypeOK == Spec => []TypeOK
PROOF
  <1>1. IInv => TypeOK
    BY DEF IInv
  <1> QED BY <1>1, SerialInv, PTL

(* Bytes are read as they were received, in order, once and unchanged, and *)
(* what is written is not changed while it is sent: although the task      *)
(* reads two registers of the PDC one after the other without a lock.      *)
THEOREM SerialBuffersIntact == Spec => []BuffersIntact
PROOF
  <1>1. IInv => BuffersIntact
    <2> SUFFICES ASSUME IInv PROVE UnreadIntact /\ UnsentIntact
      BY DEF BuffersIntact
    <2>1. \A k \in 0 .. Unread - 1 : At(k).number = Later(read, k)
      BY DEF IInv, Window
    <2>2. call.at = "copy" => call.len <= Unread
      BY DEF IInv, Calls
    <2>3. UnsentIntact
      BY DEF IInv, Sending
    <2> QED BY <2>1, <2>2, <2>3 DEF UnreadIntact
  <1> QED BY <1>1, SerialInv, PTL
=============================================================================
