----------------------------- MODULE SerialDma -----------------------------
(***************************************************************************)
(* The serial lines: bt.c (Bluetooth) and hs.c (RS485), which have the     *)
(* same code.  The peripheral DMA controller (PDC) stores received bytes   *)
(* in one of two buffers and goes on with the other when the first is      *)
(* full; the task reads behind it, with no interrupt and no lock, and      *)
(* queues a buffer again when it has read it.  Sending has two buffers     *)
(* too.                                                                    *)
(*                                                                         *)
(* The program uses one of ecrobot_read_bt, ecrobot_read_bt_packet and     *)
(* ecrobot_send_bt here: the two directions share no state.                *)
(***************************************************************************)
EXTENDS Integers

CONSTANT N   \* length of a buffer: 128 for bt.c, 64 for hs.c

ASSUME SerialConfig == N \in Nat /\ N >= 2

VARIABLES
  use,        \* the function the program uses
  rx,         \* RPR, RCR, RNPR and RNCR of the PDC
  in_buf,
  in_buf_in_ptr, in_buf_idx,
  got, read,  \* number of the next byte to receive, and to read
  line,       \* bytes of the packet that are still to come
  call,       \* the call of the task
  tx, tnext,  \* TPR and TCR, TNPR and TNCR, and what they send
  out_buf,    \* what was written to each buffer
  out_buf_ptr

inVars  == <<rx, in_buf, in_buf_in_ptr, in_buf_idx, got, read, line>>
outVars == <<tx, tnext, out_buf, out_buf_ptr>>
vars    == <<use, inVars, call, outVars>>

Buffer == {0, 1}
Other(b) == 1 - b

(* Bytes are numbered, and the numbers start again.  A byte also says how  *)
(* long what is left of its packet is, as the header of a packet does.     *)
Number  == 0 .. 2 * N
Later(n, k) == IF n + k > 2 * N THEN n + k - (2 * N + 1) ELSE n + k
Unread  == IF got >= read THEN got - read ELSE got - read + (2 * N + 1)
Byte    == [number : Number, left : 1 .. N]
Packet  == 2 .. N     \* a header of two bytes, and all of it in N bytes
Text    == 0 .. 2     \* what is sent, numbered in turn

-----------------------------------------------------------------------------
(* The PDC. *)

Reloaded(r) ==
  IF r.count = 0 /\ r.next > 0
    THEN [buf |-> r.nbuf, count |-> r.next, nbuf |-> r.nbuf, next |-> 0]
    ELSE r

(* A byte arrives; the line waits (or, on RS485, the byte is lost) while   *)
(* both buffers are full.                                                  *)
Receive ==
  /\ rx.count > 0
  /\ \E left \in IF line = 0 THEN Packet ELSE {line} :
       /\ in_buf' = [in_buf EXCEPT ![rx.buf][N - rx.count] = [number |-> got, left |-> left]]
       /\ line' = left - 1
  /\ got' = Later(got, 1)
  /\ rx' = Reloaded([rx EXCEPT !.count = @ - 1])
  /\ UNCHANGED <<use, in_buf_in_ptr, in_buf_idx, read, call, outVars>>

(* The queued buffer, if any, is sent when nothing is left of this one. *)
Sent(now, later) ==
  IF now.count = 0 /\ later.count > 0
    THEN tx' = later /\ tnext' = [later EXCEPT !.count = 0]
    ELSE tx' = now /\ tnext' = later

Transmit ==
  /\ tx.count > 0
  /\ Sent([tx EXCEPT !.count = @ - 1], tnext)
  /\ UNCHANGED <<use, inVars, call, out_buf, out_buf_ptr>>

-----------------------------------------------------------------------------
(* bt_read, hs_read and bt_receive. *)

Idle == [at |-> "idle", full |-> FALSE, len |-> 0]

(* The byte that in_buf_idx + k stands for: indices from N on are those of *)
(* the other buffer.                                                       *)
At(k) ==
  LET i == in_buf_idx + k
  IN  IF i < N THEN in_buf[in_buf_in_ptr][i] ELSE in_buf[Other(in_buf_in_ptr)][i - N]

(* RNCR is read first ... *)
ReadNext(len) ==
  /\ call.at = "idle" /\ use \in {"bt_read", "bt_receive"}
  /\ call' = [at |-> "count", full |-> rx.next = 0, len |-> len]
  /\ UNCHANGED <<use, inVars, outVars>>

(* Fault: the other buffer is counted as well, whatever RNCR was. *)
total_bytes_ready_Both == 2 * N - rx.count

(* ... and RCR then: the PDC may have changed buffers in between. *)
total_bytes_ready == (IF call.full THEN 2 * N ELSE N) - rx.count

CopyStep(len) == [call EXCEPT !.at = "copy", !.len = len]

bt_read_Count ==
  /\ call.at = "count" /\ use = "bt_read"
  /\ LET ready == total_bytes_ready - in_buf_idx
     IN  call' = CopyStep(IF ready <= 0 THEN 0 ELSE IF ready > call.len THEN call.len ELSE ready)
  /\ UNCHANGED <<use, inVars, outVars>>

(* Fault: the last byte of a packet is not counted. *)
bt_receive_Count_OffByOne ==
  /\ call.at = "count" /\ use = "bt_receive"
  /\ LET ready == total_bytes_ready - in_buf_idx
         cmd_len == At(0).left
     IN  call' = IF ready <= 1 THEN CopyStep(0)
                 ELSE IF ready > cmd_len THEN CopyStep(cmd_len) ELSE Idle
  /\ UNCHANGED <<use, inVars, outVars>>

(* The whole packet, or nothing: the return leaves the buffers as they are. *)
bt_receive_Count ==
  /\ call.at = "count" /\ use = "bt_receive"
  /\ LET ready == total_bytes_ready - in_buf_idx
         cmd_len == At(0).left
     IN  call' = IF ready <= 1 THEN CopyStep(0)
                 ELSE IF ready >= cmd_len THEN CopyStep(cmd_len) ELSE Idle
  /\ UNCHANGED <<use, inVars, outVars>>

Copy ==
  /\ call.at = "copy" /\ call.len > 0
  /\ call' = [call EXCEPT !.len = @ - 1]
  /\ in_buf_idx' = in_buf_idx + 1
  /\ read' = Later(read, 1)
  /\ UNCHANGED <<use, rx, in_buf, in_buf_in_ptr, got, line, outVars>>

(* Fault: a buffer read to its very end is not given back. *)
SwitchBuffer_Late ==
  /\ call.at = "copy" /\ call.len = 0
  /\ call' = Idle
  /\ IF in_buf_idx > N /\ rx.next = 0
       THEN /\ in_buf_idx' = in_buf_idx - N
            /\ rx' = Reloaded([rx EXCEPT !.nbuf = in_buf_in_ptr, !.next = N])
            /\ in_buf_in_ptr' = Other(in_buf_in_ptr)
       ELSE UNCHANGED <<in_buf_idx, rx, in_buf_in_ptr>>
  /\ UNCHANGED <<use, in_buf, got, read, line, outVars>>

(* The current buffer is full and read: it is queued.  Only this code sets *)
(* RNCR, and RNPR does nothing before.                                     *)
SwitchBuffer ==
  /\ call.at = "copy" /\ call.len = 0
  /\ call' = Idle
  /\ IF in_buf_idx >= N /\ rx.next = 0
       THEN /\ in_buf_idx' = in_buf_idx - N
            /\ rx' = Reloaded([rx EXCEPT !.nbuf = in_buf_in_ptr, !.next = N])
            /\ in_buf_in_ptr' = Other(in_buf_in_ptr)
       ELSE UNCHANGED <<in_buf_idx, rx, in_buf_in_ptr>>
  /\ UNCHANGED <<use, in_buf, got, read, line, outVars>>

bt_read    == (\E len \in 1 .. N : ReadNext(len)) \/ bt_read_Count \/ bt_receive_Count
              \/ Copy \/ SwitchBuffer

-----------------------------------------------------------------------------
(* bt_write, bt_send and hs_write, of one byte at least. *)

Fresh == CHOOSE t \in Text : ~ \E b \in Buffer : out_buf[b] = t

WriteCopy ==
  /\ call.at = "idle" /\ use = "bt_write"
  /\ tnext.count = 0
  /\ out_buf' = [out_buf EXCEPT ![out_buf_ptr] = Fresh]
  /\ call' = [call EXCEPT !.at = "queue"]
  /\ UNCHANGED <<use, inVars, tx, tnext, out_buf_ptr>>

WriteQueue(len) ==
  /\ call.at = "queue"
  /\ Sent(tx, [buf |-> out_buf_ptr, count |-> len, of |-> out_buf[out_buf_ptr]])
  /\ out_buf_ptr' = Other(out_buf_ptr)
  /\ call' = Idle
  /\ UNCHANGED <<use, inVars, out_buf>>

bt_write == WriteCopy \/ \E len \in 1 .. N : WriteQueue(len)

-----------------------------------------------------------------------------
bt_init ==
  /\ use \in {"bt_read", "bt_receive", "bt_write"}
  /\ rx = [buf |-> 0, count |-> N, nbuf |-> 1, next |-> N]
  /\ in_buf = [b \in Buffer |-> [i \in 0 .. N - 1 |-> [number |-> 0, left |-> 1]]]
  /\ in_buf_in_ptr = 0 /\ in_buf_idx = 0
  /\ got = 0 /\ read = 0 /\ line = 0
  /\ call = Idle
  /\ tx = [buf |-> 0, count |-> 0, of |-> 0] /\ tnext = tx
  /\ out_buf = [b \in Buffer |-> 0] /\ out_buf_ptr = 0

Next ==
  \/ use # "bt_write" /\ (Receive \/ bt_read)
  \/ Transmit \/ bt_write

Spec == bt_init /\ [][Next]_vars

(* The task goes on with its calls, and makes new ones, and the sender of  *)
(* a packet sends all of it.                                               *)
FairSpec == Spec /\ WF_vars(bt_read) /\ WF_vars(Receive /\ line > 0)

-----------------------------------------------------------------------------
(* Type invariant. *)
TypeOK ==
  /\ use \in {"bt_read", "bt_receive", "bt_write"}
  /\ rx \in [buf : Buffer, count : 0 .. N, nbuf : Buffer, next : {0, N}]
  /\ in_buf \in [Buffer -> [0 .. N - 1 -> Byte]]
  /\ in_buf_in_ptr \in Buffer
  /\ in_buf_idx \in 0 .. 2 * N
  /\ call.at = "idle" => in_buf_idx < N
  /\ got \in Number /\ read \in Number /\ line \in 0 .. N - 1
  /\ call \in [at : {"idle", "count", "copy", "queue"}, full : BOOLEAN, len : 0 .. N]
  /\ tx \in [buf : Buffer, count : 0 .. N, of : Text]
  /\ tnext \in [buf : Buffer, count : 0 .. N, of : Text]
  /\ out_buf \in [Buffer -> Text] /\ out_buf_ptr \in Buffer

(* What the task is to read next are the bytes received, in their order,   *)
(* none twice and none overwritten, wherever the PDC changed buffers in    *)
(* the middle of a call, and it never reads on behind the PDC.             *)
UnreadIntact ==
  /\ \A k \in 0 .. Unread - 1 : At(k).number = Later(read, k)
  /\ call.at = "copy" => call.len <= Unread

(* No buffer changes while it is sent or waits to be. *)
UnsentIntact == \A t \in {tx, tnext} : t.count > 0 => out_buf[t.buf] = t.of

BuffersIntact == UnreadIntact /\ UnsentIntact

(* What has been received is read at last, in bytes and in packets: no     *)
(* position of the two buffers leaves the line waiting for the task and    *)
(* the task for the line.                                                  *)
BytesRead == \A n \in Number : (Unread > 0 /\ read = n) ~> (read # n)
=============================================================================
