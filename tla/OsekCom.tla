------------------------------ MODULE OsekCom ------------------------------
(***************************************************************************)
(* OSEK COM, toppers_osek/com/com.c, for one internal message with one     *)
(* unqueued receiver.  Messages are copied inside a section opened by      *)
(* SuspendAllInterrupts; tasks and handlers send and receive.              *)
(*                                                                         *)
(* A message has two parts, copied one after the other by the generated    *)
(* copy function.  The generated filter may refuse a message.  The         *)
(* notification calls a generated function, which changes nothing here.    *)
(***************************************************************************)
EXTENDS OsekInterrupt

CONSTANT Msg   \* contents of a message

NoMsg == "none"

VARIABLES
  COMStarted,
  msgbuf,       \* the receiver's buffer
  data          \* the caller's copy of the message, by depth of its frame

vars == <<interruptVars, COMStarted, msgbuf, data>>

Part    == 1 .. 2
Whole(m) == [p \in Part |-> m]

Depth == Len(stack)
Local == data[Depth]

(* The copy of one part, on the way to the next point. *)
Fills(at, p, next) ==
  /\ At(at)
  /\ msgbuf' = [msgbuf EXCEPT ![p] = Local[p]]
  /\ MovesTo(next)
  /\ UNCHANGED <<callevel, saved_callevel, sus_all_cnt, sus_os_cnt, intena, COMStarted, data>>

Fetches(at, p, next) ==
  /\ At(at)
  /\ data' = [data EXCEPT ![Depth][p] = msgbuf[p]]
  /\ MovesTo(next)
  /\ UNCHANGED <<callevel, saved_callevel, sus_all_cnt, sus_os_cnt, intena, COMStarted, msgbuf>>

Calls(at, d) ==
  /\ At("out")
  /\ MovesTo(at)
  /\ data' = [data EXCEPT ![Depth] = d]
  /\ UNCHANGED <<callevel, saved_callevel, sus_all_cnt, sus_os_cnt, intena, COMStarted, msgbuf>>

(* SendMessage up to the section, the filter's refusal, and behind it the  *)
(* notification.                                                           *)
SendMessage ==
  \/ COMStarted /\ \E m \in Msg : Calls("send", Whole(m))
  \/ At("send") /\ \E at \in {"fill1", "filled"} : SuspendAllInterrupts(at)
                /\ UNCHANGED <<COMStarted, msgbuf, data>>
  \/ Fills("fill1", 1, "fill2")
  \/ Fills("fill2", 2, "filled")
  \/ At("filled") /\ ResumeAllInterrupts("out") /\ UNCHANGED <<COMStarted, msgbuf>>
                  /\ data' = [data EXCEPT ![Depth] = Whole(NoMsg)]

(* InitMessage asks neither the filter nor whether COM was started: the    *)
(* program calls it only while it is, because it would run into StartCOM.  *)
InitMessage ==
  \/ COMStarted /\ \E m \in Msg : Calls("init", Whole(m))
  \/ At("init") /\ SuspendAllInterrupts("fill1") /\ UNCHANGED <<COMStarted, msgbuf, data>>

(* Fault: the message is copied outside of a section. *)
RecieveMessage_Open ==
  \/ COMStarted /\ Calls("fetch1", Whole(NoMsg))
  \/ Fetches("fetch1", 1, "fetch2")
  \/ Fetches("fetch2", 2, "received")
  \/ At("received") /\ MovesTo("out") /\ data' = [data EXCEPT ![Depth] = Whole(NoMsg)]
     /\ UNCHANGED <<callevel, saved_callevel, sus_all_cnt, sus_os_cnt, intena, COMStarted, msgbuf>>

RecieveMessage ==
  \/ COMStarted /\ Calls("receive", Whole(NoMsg))
  \/ At("receive") /\ SuspendAllInterrupts("fetch1") /\ UNCHANGED <<COMStarted, msgbuf, data>>
  \/ Fetches("fetch1", 1, "fetch2")
  \/ Fetches("fetch2", 2, "fetched")
  \/ At("fetched") /\ ResumeAllInterrupts("received") /\ UNCHANGED <<COMStarted, msgbuf, data>>
  \/ At("received") /\ MovesTo("out") /\ data' = [data EXCEPT ![Depth] = Whole(NoMsg)]
     /\ UNCHANGED <<callevel, saved_callevel, sus_all_cnt, sus_os_cnt, intena, COMStarted, msgbuf>>

(* The task that starts the others starts and stops COM.  unque_init       *)
(* clears the buffer with open interrupts, before COM is marked started;   *)
(* that it was not is for the program to see to, StartCOM does not ask.    *)
Clears(at, p, next) ==
  /\ At(at)
  /\ msgbuf' = [msgbuf EXCEPT ![p] = NoMsg]
  /\ MovesTo(next)
  /\ COMStarted' = (COMStarted \/ p = 2)
  /\ UNCHANGED <<callevel, saved_callevel, sus_all_cnt, sus_os_cnt, intena, data>>

StartCOM ==
  \/ Depth = 1 /\ ~ COMStarted /\ Calls("start1", Whole(NoMsg))
  \/ Clears("start1", 1, "start2")
  \/ Clears("start2", 2, "out")

StopCOM ==
  /\ Depth = 1 /\ At("out") /\ COMStarted
  /\ COMStarted' = FALSE
  /\ UNCHANGED <<interruptVars, msgbuf, data>>

Init ==
  /\ InterruptInit
  /\ COMStarted = FALSE
  /\ msgbuf = Whole(NoMsg)
  /\ data = [d \in 1 .. MaxDepth |-> Whole(NoMsg)]

Next ==
  \/ InterruptNext /\ UNCHANGED <<COMStarted, msgbuf, data>>
  \/ SendMessage \/ InitMessage \/ RecieveMessage
  \/ StartCOM \/ StopCOM

Spec == Init /\ [][Next]_vars

-----------------------------------------------------------------------------
Point == {"out", "disabled", "sus_inc", "sus_save", "sus_null", "res_dec",
          "send", "init", "fill1", "fill2", "filled", "receive", "fetch1",
          "fetch2", "fetched", "received", "start1", "start2"}

(* Type invariant. *)
TypeOK ==
  /\ stack \in Seq([who : Who, at : Point, all : 0 .. MaxOpen + 1,
                    os : 0 .. MaxOpen, cl : CallLevel])
  /\ Len(stack) \in 1 .. MaxDepth
  /\ callevel \in CallLevel /\ saved_callevel \in CallLevel
  /\ sus_all_cnt \in 0 .. UINT8_INVALID /\ sus_os_cnt \in 0 .. UINT8_INVALID
  /\ intena \in BOOLEAN /\ COMStarted \in BOOLEAN
  /\ msgbuf \in [Part -> Msg \cup {NoMsg}]
  /\ data \in [1 .. MaxDepth -> [Part -> Msg \cup {NoMsg}]]

(* A message is received as it was sent, never half of one and half of     *)
(* another, whatever handlers and tasks send meanwhile, within sections of *)
(* the program or not, and whenever COM is stopped and started again.      *)
WholeMessages == At("received") => \E m \in Msg \cup {NoMsg} : Local = Whole(m)
=============================================================================
