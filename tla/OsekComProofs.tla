--------------------------- MODULE OsekComProofs ---------------------------
(***************************************************************************)
(* Proofs about OsekInterrupt and OsekCom for any number of tasks, depth   *)
(* of nesting and number of open sections below the counters' limit.       *)
(***************************************************************************)
EXTENDS OsekCom, SequenceTheorems, TLAPS

-----------------------------------------------------------------------------
(* The inductive invariant.  Frames are counted from the bottom of the     *)
(* stack here, so that a frame keeps its number while others come and go.  *)

FrameAt(s, d) == s[Len(s) - d + 1]

Copying    == {"fill1", "fill2", "filled", "fetch1", "fetch2", "fetched"}
Exchanging == Copying \cup {"send", "init", "receive", "received"}
Starting   == {"start1", "start2"}

Frame == [who : Who, at : Point, all : Nat, os : Nat, cl : CallLevel]

(* What a frame has added to sus_os_cnt. *)
Counted(f) == f.os + IF f.at \in {"sus_save", "sus_null"} THEN 1 ELSE 0

(* The frame has put TCL_NULL in the place of its level. *)
Nulled(f) == f.all > 0 \/ (f.os > 0 /\ f.at # "res_dec")

(* A frame that found the count of OS sections at base and runs, or ran    *)
(* when it was interrupted, at level: it is saved only by a frame that     *)
(* found the count at 0.                                                   *)
FrameOK(f, base, level, saved) ==
  /\ f.all <= IF f.at \in Copying THEN MaxOpen + 1 ELSE MaxOpen
  /\ f.os <= MaxOpen
  /\ f.at \in Copying => f.all > 0
  /\ f.at = "disabled" => ~ InSection(f)
  /\ f.at \in {"sus_inc", "sus_save", "sus_null"} => f.os = 0 /\ base = 0
  /\ f.at \in {"sus_save", "sus_null"} => f.all = 0
  /\ f.at = "res_dec" => f.os = 1 /\ base = 0
  /\ f.at = "sus_null" => saved = Level(f.who)
  /\ IF base = 0 /\ Nulled(f)
     THEN level = "NULL" /\ saved = Level(f.who)
     ELSE level = Level(f.who)

(* The frames of the stack s; base holds what each found in sus_os_cnt.    *)
FramesOK(s, base, level, saved) ==
  \A d \in 1 .. Len(s) :
    FrameOK(FrameAt(s, d), base[d],
            IF d = Len(s) THEN level ELSE FrameAt(s, d + 1).cl, saved)

(* What a frame found is what those below it have counted. *)
CountsOK(s, base) ==
  /\ \A d \in 1 .. Len(s) : base[d] <= (d - 1) * MaxOpen
  /\ \A d \in 1 .. Len(s) - 1 : base[d + 1] = base[d] + Counted(FrameAt(s, d))
  /\ \A d, e \in 1 .. Len(s) :
       d < e => base[d] + Counted(FrameAt(s, d)) <= base[e]

(* Only the innermost frame closes the interrupts; the outermost is a      *)
(* task, and a task runs upon another only if that ran at its own level.   *)
OrderOK(s) ==
  /\ \A d \in 1 .. Len(s) - 1 :
       FrameAt(s, d).all = 0 /\ FrameAt(s, d).at # "disabled"
  /\ FrameAt(s, 1).who \in Task
  /\ \A d \in 2 .. Len(s) : FrameAt(s, d).who \in Task => FrameAt(s, d).cl = "TASK"

StackInv(base) ==
  /\ stack \in Seq(Frame) /\ Len(stack) \in 1 .. MaxDepth
  /\ callevel \in CallLevel /\ saved_callevel \in CallLevel
  /\ FramesOK(stack, base, callevel, saved_callevel)
  /\ CountsOK(stack, base)
  /\ OrderOK(stack)
  /\ sus_all_cnt = Top.all
  /\ sus_os_cnt = base[Len(stack)] + Counted(Top)
  /\ intena = ~ (Top.all > 0 \/ Top.at = "disabled")

SectionInv == \E base \in [1 .. MaxDepth -> Nat] : StackInv(base)

Contents == Msg \cup {NoMsg}
IsWhole(x) == \E m \in Contents : x = Whole(m)

(* COM is started and stopped while no frame exchanges a message, and only *)
(* the frame that copies finds the buffer, or leaves its copy, in halves.  *)
StartedOK(s, started) ==
  \A d \in 1 .. Len(s) :
    /\ FrameAt(s, d).at \in Exchanging => started
    /\ FrameAt(s, d).at \in Starting => ~ started /\ d = 1

BufferOK(s, buf, copy) ==
  IF FrameAt(s, 1).at = "start2"    THEN buf[1] = NoMsg
  ELSE IF FrameAt(s, Len(s)).at = "fill2" THEN buf[1] = copy[Len(s)][1]
  ELSE IsWhole(buf)

CopyOK(f, buf, x) ==
  /\ f.at \in {"send", "init", "fill1", "fill2"} => IsWhole(x)
  /\ f.at = "fetch2" => x[1] = buf[1]
  /\ f.at \in {"fetched", "received"} => IsWhole(x)

MessageInv ==
  /\ COMStarted \in BOOLEAN
  /\ msgbuf \in [Part -> Contents]
  /\ data \in [1 .. MaxDepth -> [Part -> Contents]]
  /\ StartedOK(stack, COMStarted)
  /\ BufferOK(stack, msgbuf, data)
  /\ \A d \in 1 .. Len(stack) : CopyOK(FrameAt(stack, d), msgbuf, data[d])

IInv == SectionInv /\ MessageInv

-----------------------------------------------------------------------------
(* The stack.                                                              *)

LEMMA EachFrame ==
  ASSUME NEW S, NEW s \in Seq(S), NEW d \in 1 .. Len(s)
  PROVE  FrameAt(s, d) \in S
<1>1. Len(s) - d + 1 \in 1 .. Len(s)
  BY LenProperties
<1>2. QED
  BY <1>1, ElementOfSeq DEF FrameAt

(* The innermost frame is replaced, the others keep their places. *)
LEMMA Replaced ==
  ASSUME NEW S, NEW s \in Seq(S), s # << >>, NEW f \in S
  PROVE  LET r == <<f>> \o Tail(s)
         IN  /\ r \in Seq(S) /\ Len(r) = Len(s) /\ Len(s) \in Nat \ {0}
             /\ Head(r) = f /\ Tail(r) = Tail(s)
             /\ FrameAt(r, Len(s)) = f /\ FrameAt(s, Len(s)) = Head(s)
             /\ \A d \in 1 .. Len(s) - 1 : FrameAt(r, d) = FrameAt(s, d)
<1> DEFINE r == <<f>> \o Tail(s)
<1>1. /\ Tail(s) \in Seq(S) /\ Len(s) \in Nat \ {0} /\ Len(Tail(s)) = Len(s) - 1
      /\ \A i \in 1 .. Len(Tail(s)) : Tail(s)[i] = s[i + 1]
      /\ Head(s) = s[1]
  BY HeadTailProperties, LenProperties, EmptySeq
<1>2. <<f>> \in Seq(S) /\ Len(<<f>>) = 1 /\ <<f>>[1] = f
  OBVIOUS
<1>3. /\ r \in Seq(S) /\ Len(r) = 1 + Len(Tail(s))
      /\ \A i \in 1 .. 1 + Len(Tail(s)) :
           r[i] = IF i <= 1 THEN <<f>>[i] ELSE Tail(s)[i - 1]
  BY <1>1, <1>2, ConcatProperties
<1> HIDE DEF r
<1>4. Len(r) = Len(s) /\ r[1] = f /\ r # << >>
  BY <1>1, <1>2, <1>3
<1>5. /\ Head(r) = f /\ Len(Tail(r)) = Len(s) - 1 /\ Tail(r) \in Seq(S)
      /\ \A i \in 1 .. Len(s) - 1 : Tail(r)[i] = r[i + 1]
  BY <1>3, <1>4, HeadTailProperties
<1>6. \A i \in 2 .. Len(s) : r[i] = s[i]
  BY <1>1, <1>3
<1>7. Tail(r) = Tail(s)
  <2>1. \A i \in 1 .. Len(s) - 1 : Tail(r)[i] = Tail(s)[i]
    BY <1>1, <1>5, <1>6
  <2>2. QED
    BY <1>1, <1>5, <2>1, SeqEqual
<1>8. FrameAt(r, Len(s)) = f /\ FrameAt(s, Len(s)) = Head(s)
  BY <1>1, <1>4 DEF FrameAt
<1>9. \A d \in 1 .. Len(s) - 1 : FrameAt(r, d) = FrameAt(s, d)
  BY <1>1, <1>4, <1>6 DEF FrameAt
<1>10. QED
  BY <1>1, <1>3, <1>4, <1>5, <1>7, <1>8, <1>9 DEF r

(* A frame comes on top. *)
LEMMA Pushed ==
  ASSUME NEW S, NEW s \in Seq(S), s # << >>, NEW f \in S
  PROVE  LET r == <<f>> \o s
         IN  /\ r \in Seq(S) /\ Len(r) = Len(s) + 1 /\ Len(s) \in Nat \ {0}
             /\ Head(r) = f
             /\ FrameAt(r, Len(s) + 1) = f /\ FrameAt(s, Len(s)) = Head(s)
             /\ \A d \in 1 .. Len(s) : FrameAt(r, d) = FrameAt(s, d)
<1> DEFINE r == <<f>> \o s
<1>1. Len(s) \in Nat \ {0} /\ Head(s) = s[1]
  BY HeadTailProperties, LenProperties, EmptySeq
<1>2. <<f>> \in Seq(S) /\ Len(<<f>>) = 1 /\ <<f>>[1] = f
  OBVIOUS
<1>3. /\ r \in Seq(S) /\ Len(r) = 1 + Len(s)
      /\ \A i \in 1 .. 1 + Len(s) : r[i] = IF i <= 1 THEN <<f>>[i] ELSE s[i - 1]
  BY <1>1, <1>2, ConcatProperties
<1> HIDE DEF r
<1>4. Len(r) = Len(s) + 1 /\ r[1] = f /\ r # << >>
  BY <1>1, <1>2, <1>3
<1>5. Head(r) = f
  BY <1>3, <1>4, HeadTailProperties
<1>6. \A i \in 1 .. Len(s) : r[i + 1] = s[i]
  BY <1>1, <1>3
<1>7. FrameAt(r, Len(s) + 1) = f /\ FrameAt(s, Len(s)) = Head(s)
  BY <1>1, <1>4 DEF FrameAt
<1>8. \A d \in 1 .. Len(s) : FrameAt(r, d) = FrameAt(s, d)
  <2> TAKE d \in 1 .. Len(s)
  <2>1. Len(s) - d + 1 \in 1 .. Len(s) /\ Len(r) - d + 1 = (Len(s) - d + 1) + 1
    BY <1>1, <1>4
  <2>2. QED
    BY <1>6, <2>1 DEF FrameAt
<1>9. QED
  BY <1>1, <1>3, <1>4, <1>5, <1>7, <1>8 DEF r

(* The innermost frame goes. *)
LEMMA Popped ==
  ASSUME NEW S, NEW s \in Seq(S), Len(s) > 1
  PROVE  LET r == Tail(s)
         IN  /\ r \in Seq(S) /\ r # << >> /\ Len(r) = Len(s) - 1 /\ Len(s) \in Nat \ {0}
             /\ Head(r) = FrameAt(s, Len(s) - 1) /\ FrameAt(s, Len(s)) = Head(s)
             /\ \A d \in 1 .. Len(s) - 1 : FrameAt(r, d) = FrameAt(s, d)
<1>1. Len(s) \in Nat \ {0} /\ s # << >> /\ Head(s) = s[1]
  BY HeadTailProperties, LenProperties, EmptySeq
<1>2. /\ Tail(s) \in Seq(S) /\ Len(Tail(s)) = Len(s) - 1
      /\ \A i \in 1 .. Len(s) - 1 : Tail(s)[i] = s[i + 1]
  BY <1>1, HeadTailProperties
<1>3. Tail(s) # << >> /\ Head(Tail(s)) = Tail(s)[1]
  <2>1. Len(Tail(s)) # 0 /\ Len(<< >>) = 0
    BY <1>1, <1>2, EmptySeq
  <2>2. Tail(s) # << >>
    BY <2>1, Zenon
  <2>3. QED
    BY <1>2, <2>2, HeadTailProperties
<1>4. Head(Tail(s)) = FrameAt(s, Len(s) - 1) /\ FrameAt(s, Len(s)) = Head(s)
  BY <1>1, <1>2, <1>3 DEF FrameAt
<1>5. \A d \in 1 .. Len(s) - 1 : FrameAt(Tail(s), d) = FrameAt(s, d)
  <2> TAKE d \in 1 .. Len(s) - 1
  <2>1. /\ Len(Tail(s)) - d + 1 \in 1 .. Len(s) - 1
        /\ Len(s) - d + 1 = (Len(Tail(s)) - d + 1) + 1
    BY <1>1, <1>2
  <2>2. QED
    BY <1>2, <2>1 DEF FrameAt
<1>6. QED
  BY <1>1, <1>2, <1>3, <1>4, <1>5

-----------------------------------------------------------------------------
(* Steps of the innermost frame, interrupts and returns.                   *)

LEMMA Configured ==
  /\ Ntask \in Nat \ {0} /\ MaxDepth \in Nat \ {0} /\ MaxOpen \in Nat \ {0}
  /\ UINT8_INVALID \in Nat
  /\ \A d \in 1 .. MaxDepth : /\ (d - 1) * MaxOpen \in Nat
                              /\ d * MaxOpen = (d - 1) * MaxOpen + MaxOpen
                              /\ d * MaxOpen < UINT8_INVALID
  /\ MaxOpen + 1 <= UINT8_INVALID
  /\ Handler \notin Task /\ Hook \notin Task /\ Handler # Hook /\ 1 \in Task
<1>1. /\ Ntask \in Nat \ {0} /\ MaxDepth \in Nat \ {0} /\ MaxOpen \in Nat \ {0}
      /\ UINT8_INVALID \in Nat /\ MaxOpen * MaxDepth < UINT8_INVALID
  BY InterruptConfig
<1>2. ASSUME NEW d \in 1 .. MaxDepth
      PROVE  /\ (d - 1) * MaxOpen \in Nat
             /\ d * MaxOpen = (d - 1) * MaxOpen + MaxOpen
             /\ d * MaxOpen < UINT8_INVALID
  <2>1. d - 1 \in Nat /\ MaxDepth - d \in Nat
    BY <1>1
  <2>2. (d - 1) * MaxOpen \in Nat /\ (MaxDepth - d) * MaxOpen \in Nat
    BY <1>1, <2>1
  <2>3. d * MaxOpen = (d - 1) * MaxOpen + MaxOpen
    BY <1>1, <2>1
  <2>4. MaxOpen * MaxDepth = d * MaxOpen + (MaxDepth - d) * MaxOpen
    BY <1>1, <2>1
  <2>5. QED
    BY <1>1, <2>2, <2>3, <2>4
<1>3. MaxOpen + 1 <= UINT8_INVALID
  <2>1. 1 \in 1 .. MaxDepth
    BY <1>1
  <2>2. 1 * MaxOpen < UINT8_INVALID
    BY <1>2, <2>1
  <2>3. QED
    BY <1>1, <2>2
<1>4. QED
  BY <1>1, <1>2, <1>3 DEF Handler, Hook, Task

(* Of a frame that holds no section and found none, saved_callevel is free. *)
LEMMA SavedIsFree ==
  ASSUME NEW f \in Frame, NEW b \in Nat, NEW level, NEW old, NEW new,
         FrameOK(f, b, level, old), f.all = 0, b + Counted(f) = 0
  PROVE  FrameOK(f, b, level, new)
<1>1. f.os \in Nat /\ f.at # "sus_null" /\ f.os = 0
  BY DEF Frame, Counted
<1>2. QED
  BY <1>1 DEF FrameOK, Nulled

LEMMA CountedBound ==
  ASSUME NEW f \in Frame, NEW b, NEW level, NEW saved, FrameOK(f, b, level, saved)
  PROVE  Counted(f) \in 0 .. MaxOpen
<1>1. /\ f.os \in Nat /\ f.os <= MaxOpen
      /\ f.at \in {"sus_save", "sus_null"} => f.os = 0
  BY DEF FrameOK, Frame
<1>2. QED
  BY <1>1, Configured DEF Counted

(* What an invariant stack says of its innermost frame. *)
LEMMA Innermost ==
  ASSUME NEW base \in [1 .. MaxDepth -> Nat], StackInv(base)
  PROVE  /\ stack # << >> /\ Len(stack) \in 1 .. MaxDepth /\ Len(stack) \in Nat \ {0}
         /\ Top \in Frame /\ Top = FrameAt(stack, Len(stack))
         /\ base[Len(stack)] \in Nat
         /\ FrameOK(Top, base[Len(stack)], callevel, saved_callevel)
         /\ sus_all_cnt = Top.all
         /\ sus_os_cnt = base[Len(stack)] + Counted(Top)
         /\ base[Len(stack)] <= (Len(stack) - 1) * MaxOpen
<1>1. /\ stack \in Seq(Frame) /\ Len(stack) \in 1 .. MaxDepth
      /\ FramesOK(stack, base, callevel, saved_callevel) /\ CountsOK(stack, base)
      /\ sus_all_cnt = Top.all
      /\ sus_os_cnt = base[Len(stack)] + Counted(Top)
  BY DEF StackInv
<1>2. stack # << >> /\ Len(stack) \in Nat \ {0}
  BY <1>1, EmptySeq, Configured
<1>3. Top \in Frame /\ Top = FrameAt(stack, Len(stack))
  BY <1>1, <1>2, HeadTailProperties DEF Top, FrameAt
<1>4. FrameOK(Top, base[Len(stack)], callevel, saved_callevel)
  <2>1. Len(stack) \in 1 .. Len(stack)
    BY <1>2
  <2>2. QED
    BY <1>1, <1>3, <2>1 DEF FramesOK
<1>5. base[Len(stack)] <= (Len(stack) - 1) * MaxOpen
  BY <1>1, <1>2 DEF CountsOK
<1>6. QED
  BY <1>1, <1>2, <1>3, <1>4, <1>5

(* The frame that moves accounts for its counters and for callevel; if it  *)
(* writes saved_callevel, no other frame has something there.              *)
LEMMA TopMoves ==
  ASSUME NEW base \in [1 .. MaxDepth -> Nat], StackInv(base),
         NEW f \in Frame, Goes(f), f.cl = Top.cl,
         callevel' \in CallLevel, saved_callevel' \in CallLevel,
         FrameOK(f, base[Len(stack)], callevel', saved_callevel'),
         saved_callevel' = saved_callevel \/ base[Len(stack)] = 0,
         sus_all_cnt' = f.all,
         sus_os_cnt' = base[Len(stack)] + Counted(f),
         intena' = ~ (f.all > 0 \/ f.at = "disabled"),
         f.who = Top.who \/ (Len(stack) > 1 /\ (f.who \in Task => f.cl = "TASK"))
  PROVE  StackInv(base)'
<1> DEFINE n == Len(stack)
<1>1. /\ stack \in Seq(Frame) /\ n \in 1 .. MaxDepth
      /\ FramesOK(stack, base, callevel, saved_callevel) /\ CountsOK(stack, base)
      /\ OrderOK(stack)
  BY DEF StackInv
<1>2. stack # << >> /\ n \in Nat \ {0} /\ Top = FrameAt(stack, n)
  BY Innermost
<1>3. /\ stack' \in Seq(Frame) /\ Len(stack') = n /\ Top' = f
      /\ FrameAt(stack', n) = f
      /\ \A d \in 1 .. n - 1 : FrameAt(stack', d) = FrameAt(stack, d)
  BY <1>1, <1>2, Replaced DEF Goes, Top
<1>4. \A d \in 1 .. n - 1 : FrameAt(stack', d + 1).cl = FrameAt(stack, d + 1).cl
  BY <1>2, <1>3
<1>5. FramesOK(stack', base, callevel', saved_callevel')
  <2>1. ASSUME NEW d \in 1 .. n - 1
        PROVE  FrameOK(FrameAt(stack, d), base[d], FrameAt(stack, d + 1).cl, saved_callevel')
    <3>1. FrameOK(FrameAt(stack, d), base[d], FrameAt(stack, d + 1).cl, saved_callevel)
      BY <1>1, <1>2 DEF FramesOK
    <3>2. CASE base[n] = 0
      <4>1. /\ base[d] + Counted(FrameAt(stack, d)) <= base[n]
            /\ FrameAt(stack, d).all = 0
        BY <1>1, <1>2 DEF CountsOK, OrderOK
      <4>2. FrameAt(stack, d) \in Frame /\ base[d] \in Nat
        BY <1>1, <1>2, EachFrame, Configured
      <4>3. Counted(FrameAt(stack, d)) \in Nat
        BY <4>2 DEF Counted, Frame
      <4>4. base[d] + Counted(FrameAt(stack, d)) = 0
        BY <3>2, <4>1, <4>2, <4>3
      <4>5. QED
        BY <3>1, <4>1, <4>2, <4>4, SavedIsFree
    <3>3. QED
      BY <3>1, <3>2
  <2>2. QED
    BY <1>2, <1>3, <1>4, <2>1 DEF FramesOK
<1>6. CountsOK(stack', base)
  <2>1. \A d \in 1 .. n : base[d] <= (d - 1) * MaxOpen
    BY <1>1 DEF CountsOK
  <2>2. ASSUME NEW d \in 1 .. n, NEW e \in 1 .. n, d < e
        PROVE  base[d] + Counted(FrameAt(stack', d)) <= base[e]
    <3>1. base[d] + Counted(FrameAt(stack, d)) <= base[e]
      BY <1>1, <2>2 DEF CountsOK
    <3>2. d \in 1 .. n - 1
      BY <1>2, <2>2
    <3>3. QED
      BY <1>3, <3>1, <3>2
  <2>3. \A d \in 1 .. n - 1 : base[d + 1] = base[d] + Counted(FrameAt(stack', d))
    BY <1>1, <1>3 DEF CountsOK
  <2>4. QED
    BY <1>3, <2>1, <2>2, <2>3 DEF CountsOK
<1>7. OrderOK(stack')
  <2>1. \A d \in 1 .. n - 1 : FrameAt(stack', d).all = 0 /\ FrameAt(stack', d).at # "disabled"
    BY <1>1, <1>3 DEF OrderOK
  <2>2. FrameAt(stack', 1).who \in Task
    BY <1>1, <1>2, <1>3 DEF OrderOK
  <2>3. \A d \in 2 .. n : FrameAt(stack', d).who \in Task => FrameAt(stack', d).cl = "TASK"
    BY <1>1, <1>2, <1>3 DEF OrderOK
  <2>4. QED
    BY <1>3, <2>1, <2>2, <2>3 DEF OrderOK
<1>8. QED
  BY <1>1, <1>3, <1>5, <1>6, <1>7 DEF StackInv

(* A handler or hook comes while the interrupts are open. *)
LEMMA Interrupts ==
  ASSUME NEW base \in [1 .. MaxDepth -> Nat], StackInv(base),
         NEW who \in {Hook, Handler}, Len(stack) < MaxDepth, intena,
         stack' = <<FrameOf(who)>> \o stack, callevel' = Level(who),
         UNCHANGED <<saved_callevel, sus_all_cnt, sus_os_cnt, intena>>
  PROVE  \E base2 \in [1 .. MaxDepth -> Nat] : StackInv(base2)'
<1> DEFINE n == Len(stack)
           f == FrameOf(who)
<1>1. /\ stack \in Seq(Frame) /\ n \in 1 .. MaxDepth /\ callevel \in CallLevel
      /\ FramesOK(stack, base, callevel, saved_callevel) /\ CountsOK(stack, base)
      /\ OrderOK(stack) /\ saved_callevel \in CallLevel
      /\ intena = ~ (Top.all > 0 \/ Top.at = "disabled")
  BY DEF StackInv
<1>2. /\ stack # << >> /\ n \in Nat \ {0} /\ Top = FrameAt(stack, n) /\ Top \in Frame
      /\ base[n] \in Nat /\ FrameOK(Top, base[n], callevel, saved_callevel)
      /\ sus_all_cnt = Top.all /\ sus_os_cnt = base[n] + Counted(Top)
      /\ base[n] <= (n - 1) * MaxOpen
  BY Innermost
<1>3. Top.all = 0 /\ Top.at # "disabled" /\ sus_all_cnt = 0
  <2>1. ~ (Top.all > 0 \/ Top.at = "disabled")
    BY <1>1, Zenon
  <2>2. QED
    BY <1>2, <2>1 DEF Frame
<1>4. Counted(Top) \in 0 .. MaxOpen /\ sus_os_cnt \in Nat /\ sus_os_cnt <= n * MaxOpen
  <2>1. Counted(Top) \in 0 .. MaxOpen
    BY <1>2, CountedBound
  <2> DEFINE below == (n - 1) * MaxOpen
             all   == n * MaxOpen
  <2>2. all = below + MaxOpen /\ below \in Nat /\ MaxOpen \in Nat /\ base[n] <= below
    BY <1>1, <1>2, Configured
  <2> HIDE DEF below, all
  <2>3. sus_os_cnt \in Nat /\ sus_os_cnt <= all
    BY <1>2, <2>1, <2>2
  <2>4. QED
    BY <2>1, <2>3 DEF all
<1>5. f \in Frame /\ f.who = who /\ f.at = "out" /\ f.all = 0 /\ f.os = 0 /\ f.cl = callevel
  BY <1>1 DEF FrameOf, Frame, Who, Point
<1>6. /\ stack' \in Seq(Frame) /\ Len(stack') = n + 1 /\ Top' = f
      /\ FrameAt(stack', n + 1) = f
      /\ \A d \in 1 .. n : FrameAt(stack', d) = FrameAt(stack, d)
  BY <1>1, <1>2, <1>5, Pushed DEF Top
<1>7. PICK base2 \in [1 .. MaxDepth -> Nat] :
        base2[n + 1] = sus_os_cnt /\ \A d \in 1 .. n : base2[d] = base[d]
  <2> DEFINE b == [base EXCEPT ![n + 1] = sus_os_cnt]
  <2>1. /\ b \in [1 .. MaxDepth -> Nat] /\ b[n + 1] = sus_os_cnt
        /\ \A d \in 1 .. n : b[d] = base[d]
    BY <1>1, <1>4, Configured
  <2>2. QED
    BY <2>1
<1> HIDE DEF f
<1>8. Counted(f) = 0
  BY <1>5 DEF Counted
<1>9. FramesOK(stack', base2, callevel', saved_callevel')
  <2>1. ASSUME NEW d \in 1 .. n
        PROVE  FrameOK(FrameAt(stack', d), base2[d], FrameAt(stack', d + 1).cl, saved_callevel)
    <3>1. CASE d = n
      <4>1. FrameAt(stack', d + 1).cl = callevel /\ FrameAt(stack', d) = Top
        BY <1>2, <1>5, <1>6, <3>1
      <4>2. QED
        BY <1>2, <1>7, <3>1, <4>1
    <3>2. CASE d # n
      <4>1. d \in 1 .. n - 1 /\ d + 1 \in 1 .. n
        BY <1>2, <3>2
      <4>2. FrameOK(FrameAt(stack, d), base[d], FrameAt(stack, d + 1).cl, saved_callevel)
        BY <1>1, <3>2 DEF FramesOK
      <4>3. QED
        BY <1>6, <1>7, <4>1, <4>2
    <3>3. QED
      BY <3>1, <3>2
  <2>2. FrameOK(f, base2[n + 1], callevel', saved_callevel)
    BY <1>5, Configured DEF FrameOK, Nulled, Copying
  <2>3. ASSUME NEW d \in 1 .. n + 1
        PROVE  FrameOK(FrameAt(stack', d), base2[d],
                 IF d = Len(stack') THEN callevel' ELSE FrameAt(stack', d + 1).cl,
                 saved_callevel')
    <3>1. CASE d = n + 1
      BY <1>6, <2>2, <3>1
    <3>2. CASE d # n + 1
      <4>1. d \in 1 .. n /\ d # Len(stack')
        BY <1>2, <1>6, <3>2
      <4>2. QED
        BY <2>1, <4>1
    <3>3. QED
      BY <3>1, <3>2
  <2>4. QED
    BY <1>6, <2>3 DEF FramesOK
<1>10. CountsOK(stack', base2)
  <2>1. ASSUME NEW d \in 1 .. n + 1
        PROVE  base2[d] <= (d - 1) * MaxOpen
    <3>1. CASE d = n + 1
      <4>1. d - 1 = n
        BY <1>2, <3>1
      <4>2. QED
        BY <1>4, <1>7, <3>1, <4>1
    <3>2. CASE d # n + 1
      <4>1. d \in 1 .. n
        BY <1>2, <3>2
      <4>2. QED
        BY <1>1, <1>7, <4>1 DEF CountsOK
    <3>3. QED
      BY <3>1, <3>2
  <2>2. ASSUME NEW d \in 1 .. n
        PROVE  base[d] + Counted(FrameAt(stack, d)) <= sus_os_cnt
    <3>1. CASE d = n
      BY <1>2, <1>4, <3>1
    <3>2. CASE d # n
      <4>1. base[d] + Counted(FrameAt(stack, d)) <= base[n]
        BY <1>1, <1>2, <3>2 DEF CountsOK
      <4>2. FrameAt(stack, d) \in Frame /\ base[d] \in Nat
        <5>1. FrameAt(stack, d) \in Frame
          BY <1>1, EachFrame
        <5>2. d \in 1 .. MaxDepth
          BY <1>1, Configured
        <5>3. QED
          BY <5>1, <5>2
      <4>3. Counted(FrameAt(stack, d)) \in Nat
        BY <4>2 DEF Counted, Frame
      <4>4. QED
        BY <1>2, <1>4, <4>1, <4>2, <4>3
    <3>3. QED
      BY <3>1, <3>2
  <2>3. ASSUME NEW d \in 1 .. n + 1, NEW e \in 1 .. n + 1, d < e
        PROVE  base2[d] + Counted(FrameAt(stack', d)) <= base2[e]
    <3>1. d \in 1 .. n
      BY <1>2, <2>3
    <3>2. CASE e = n + 1
      BY <1>6, <1>7, <2>2, <3>1, <3>2
    <3>3. CASE e # n + 1
      <4>1. e \in 1 .. n
        BY <1>2, <3>3
      <4>2. base[d] + Counted(FrameAt(stack, d)) <= base[e]
        BY <1>1, <2>3, <3>1, <4>1 DEF CountsOK
      <4>3. QED
        BY <1>6, <1>7, <3>1, <4>1, <4>2
    <3>4. QED
      BY <3>2, <3>3
  <2>4. ASSUME NEW d \in 1 .. n
        PROVE  base2[d + 1] = base2[d] + Counted(FrameAt(stack', d))
    <3>1. CASE d = n
      BY <1>2, <1>6, <1>7, <3>1
    <3>2. CASE d # n
      <4>1. d \in 1 .. n - 1 /\ d + 1 \in 1 .. n
        BY <1>2, <3>2
      <4>2. base[d + 1] = base[d] + Counted(FrameAt(stack, d))
        BY <1>1, <4>1 DEF CountsOK
      <4>3. QED
        BY <1>6, <1>7, <4>1, <4>2
    <3>3. QED
      BY <3>1, <3>2
  <2>5. Len(stack') - 1 = n
    BY <1>2, <1>6
  <2>6. QED
    BY <1>6, <2>1, <2>3, <2>4, <2>5 DEF CountsOK
<1>11. OrderOK(stack')
  <2>1. ASSUME NEW d \in 1 .. n
        PROVE  FrameAt(stack', d).all = 0 /\ FrameAt(stack', d).at # "disabled"
    <3>1. CASE d = n
      BY <1>2, <1>3, <1>6, <3>1
    <3>2. CASE d # n
      <4>1. d \in 1 .. n - 1
        BY <1>2, <3>2
      <4>2. QED
        BY <1>1, <1>6, <4>1 DEF OrderOK
    <3>3. QED
      BY <3>1, <3>2
  <2>2. FrameAt(stack', 1).who \in Task
    <3>1. FrameAt(stack', 1) = FrameAt(stack, 1)
      BY <1>2, <1>6
    <3>2. QED
      BY <1>1, <3>1 DEF OrderOK
  <2>3. ASSUME NEW d \in 2 .. n + 1, FrameAt(stack', d).who \in Task
        PROVE  FrameAt(stack', d).cl = "TASK"
    <3>1. d # n + 1
      BY <1>5, <1>6, <2>3, Configured
    <3>2. d \in 2 .. n
      BY <1>2, <3>1
    <3>3. QED
      BY <1>1, <1>6, <2>3, <3>2 DEF OrderOK
  <2>4. QED
    BY <1>2, <1>6, <2>1, <2>2, <2>3 DEF OrderOK
<1>12. Len(stack') \in 1 .. MaxDepth /\ callevel' \in CallLevel
  BY <1>1, <1>6, Configured DEF Level, CallLevel
<1>13. /\ sus_all_cnt' = Top'.all
       /\ sus_os_cnt' = base2[Len(stack')] + Counted(Top')
       /\ intena' = ~ (Top'.all > 0 \/ Top'.at = "disabled")
  <2>1. sus_all_cnt' = Top'.all
    BY <1>3, <1>5, <1>6
  <2>2. sus_os_cnt' = base2[Len(stack')] + Counted(Top')
    BY <1>4, <1>6, <1>7, <1>8
  <2>3. ~ (Top'.all > 0 \/ Top'.at = "disabled")
    BY <1>5, <1>6
  <2>4. QED
    BY <2>1, <2>2, <2>3, Zenon
<1>14. StackInv(base2)'
  BY <1>1, <1>6, <1>9, <1>10, <1>11, <1>12, <1>13, Zenon DEF StackInv
<1>15. QED
  BY <1>14

(* The innermost frame ends outside of its sections; what it interrupted   *)
(* runs again at the level that was saved.                                 *)
LEMMA Returns ==
  ASSUME NEW base \in [1 .. MaxDepth -> Nat], StackInv(base),
         Len(stack) > 1, Ends,
         stack' = Tail(stack), callevel' = Top.cl,
         UNCHANGED <<saved_callevel, sus_all_cnt, sus_os_cnt, intena>>
  PROVE  StackInv(base)'
<1> DEFINE n == Len(stack)
<1>1. /\ stack \in Seq(Frame) /\ n \in 1 .. MaxDepth /\ callevel \in CallLevel
      /\ FramesOK(stack, base, callevel, saved_callevel) /\ CountsOK(stack, base)
      /\ OrderOK(stack) /\ saved_callevel \in CallLevel
      /\ intena = ~ (Top.all > 0 \/ Top.at = "disabled")
  BY DEF StackInv
<1>2. /\ n \in Nat \ {0} /\ Top = FrameAt(stack, n) /\ Top \in Frame
      /\ base[n] \in Nat /\ sus_all_cnt = Top.all /\ sus_os_cnt = base[n] + Counted(Top)
  BY Innermost
<1>3. /\ stack' \in Seq(Frame) /\ stack' # << >> /\ Len(stack') = n - 1
      /\ Top' = FrameAt(stack, n - 1)
      /\ \A d \in 1 .. n - 1 : FrameAt(stack', d) = FrameAt(stack, d)
  BY <1>1, Popped DEF Top
<1>4. Top.at = "out" /\ Top.all = 0 /\ Top.os = 0 /\ Counted(Top) = 0
  BY <1>2 DEF Ends, At, InSection, Frame, Counted
<1>5. n - 1 \in 1 .. n - 1 /\ n - 1 \in 1 .. MaxDepth /\ n - 1 \in Nat /\ n \in 1 .. n
  BY <1>1, <1>2, Configured
<1>6. Top'.all = 0 /\ Top'.at # "disabled"
  BY <1>1, <1>3, <1>5 DEF OrderOK
<1>7. base[n - 1] + Counted(Top') = base[n]
  BY <1>1, <1>3, <1>5 DEF CountsOK
<1>8. FramesOK(stack', base, callevel', saved_callevel')
  <2>1. ASSUME NEW d \in 1 .. n - 1
        PROVE  FrameOK(FrameAt(stack', d), base[d],
                 IF d = n - 1 THEN callevel' ELSE FrameAt(stack', d + 1).cl, saved_callevel)
    <3>1. FrameOK(FrameAt(stack, d), base[d], FrameAt(stack, d + 1).cl, saved_callevel)
      BY <1>1, <1>2 DEF FramesOK
    <3>2. CASE d = n - 1
      <4>1. d + 1 = n
        BY <1>2, <3>2
      <4>2. QED
        BY <1>2, <1>3, <3>1, <3>2, <4>1
    <3>3. CASE d # n - 1
      <4>1. d + 1 \in 1 .. n - 1
        BY <1>2, <3>3
      <4>2. QED
        BY <1>3, <3>1, <3>3, <4>1
    <3>4. QED
      BY <3>2, <3>3
  <2>2. QED
    BY <1>3, <2>1 DEF FramesOK
<1>9. CountsOK(stack', base)
  <2>1. \A d \in 1 .. n - 1 : base[d] <= (d - 1) * MaxOpen
    BY <1>1, <1>2 DEF CountsOK
  <2>2. \A d \in 1 .. (n - 1) - 1 : base[d + 1] = base[d] + Counted(FrameAt(stack', d))
    BY <1>1, <1>2, <1>3 DEF CountsOK
  <2>3. ASSUME NEW d \in 1 .. n - 1, NEW e \in 1 .. n - 1, d < e
        PROVE  base[d] + Counted(FrameAt(stack', d)) <= base[e]
    <3>1. d \in 1 .. n /\ e \in 1 .. n
      BY <1>2
    <3>2. QED
      BY <1>1, <1>3, <2>3, <3>1 DEF CountsOK
  <2>4. QED
    BY <1>3, <2>1, <2>2, <2>3 DEF CountsOK
<1>10. OrderOK(stack')
  <2>1. ASSUME NEW d \in 1 .. (n - 1) - 1
        PROVE  FrameAt(stack', d).all = 0 /\ FrameAt(stack', d).at # "disabled"
    <3>1. d \in 1 .. n - 1
      BY <1>2
    <3>2. QED
      BY <1>1, <1>3, <3>1 DEF OrderOK
  <2>2. FrameAt(stack', 1).who \in Task
    <3>1. FrameAt(stack', 1) = FrameAt(stack, 1)
      BY <1>2, <1>3, <1>5
    <3>2. QED
      BY <1>1, <3>1 DEF OrderOK
  <2>3. ASSUME NEW d \in 2 .. n - 1, FrameAt(stack', d).who \in Task
        PROVE  FrameAt(stack', d).cl = "TASK"
    <3>1. d \in 1 .. n - 1 /\ d \in 2 .. n
      BY <1>2
    <3>2. QED
      BY <1>1, <1>3, <2>3, <3>1 DEF OrderOK
  <2>4. QED
    BY <1>3, <2>1, <2>2, <2>3 DEF OrderOK
<1>11. callevel' \in CallLevel /\ Len(stack') \in 1 .. MaxDepth
  BY <1>2, <1>3, <1>5 DEF Frame
<1>12. sus_all_cnt' = Top'.all /\ sus_os_cnt' = base[Len(stack')] + Counted(Top')
  BY <1>2, <1>3, <1>4, <1>6, <1>7
<1>13. intena' = ~ (Top'.all > 0 \/ Top'.at = "disabled")
  <2>1. intena /\ ~ (Top'.all > 0 \/ Top'.at = "disabled")
    <3>1. ~ (Top.all > 0 \/ Top.at = "disabled") /\ ~ (Top'.all > 0 \/ Top'.at = "disabled")
      BY <1>4, <1>6
    <3>2. QED
      BY <1>1, <3>1, Zenon
  <2>2. QED
    BY <2>1, Zenon
<1>14. QED
  BY <1>1, <1>3, <1>8, <1>9, <1>10, <1>11, <1>12, <1>13, Zenon DEF StackInv

(* The frame goes from one point to the next and shares nothing. *)
LEMMA MovesOn ==
  ASSUME NEW base \in [1 .. MaxDepth -> Nat], StackInv(base),
         NEW at \in Point \ {"disabled", "sus_inc", "sus_save", "sus_null", "res_dec"},
         MovesTo(at),
         Top.at \notin {"disabled", "sus_inc", "sus_save", "sus_null", "res_dec"},
         at \in Copying <=> Top.at \in Copying,
         UNCHANGED <<callevel, saved_callevel, sus_all_cnt, sus_os_cnt, intena>>
  PROVE  StackInv(base)'
<1> DEFINE b == base[Len(stack)]
           f == [Top EXCEPT !.at = at]
<1>1. /\ Top \in Frame /\ b \in Nat /\ FrameOK(Top, b, callevel, saved_callevel)
      /\ sus_all_cnt = Top.all /\ sus_os_cnt = b + Counted(Top)
      /\ Top.all \in Nat /\ Top.os \in Nat /\ MaxOpen \in Nat \ {0}
      /\ MaxOpen + 1 <= UINT8_INVALID /\ UINT8_INVALID \in Nat
  BY Innermost, Configured DEF Frame
<1>2. callevel \in CallLevel /\ saved_callevel \in CallLevel /\ "NULL" \in CallLevel
  BY DEF StackInv, CallLevel
<1>3. /\ f \in Frame /\ f.who = Top.who /\ f.cl = Top.cl
      /\ f.at = at /\ f.all = Top.all /\ f.os = Top.os
  BY <1>1 DEF Frame, Point
<1>4. Goes(f)
  BY DEF MovesTo
<1> HIDE DEF b, f
<1>5. sus_all_cnt' = f.all /\ sus_os_cnt' = b + Counted(f)
  BY <1>1, <1>3 DEF Counted
<1>6. intena' = ~ (f.all > 0 \/ f.at = "disabled")
  <2>1. intena = ~ (Top.all > 0 \/ Top.at = "disabled")
    BY DEF StackInv
  <2>2. (Top.all > 0 \/ Top.at = "disabled") <=> (f.all > 0 \/ f.at = "disabled")
    BY <1>1, <1>3
  <2>3. intena' = intena
    OBVIOUS
  <2>4. QED
    BY <2>1, <2>2, <2>3, Zenon
<1>7. /\ FrameOK(f, b, callevel', saved_callevel')
      /\ callevel' \in CallLevel /\ saved_callevel' \in CallLevel
      /\ saved_callevel' = saved_callevel \/ b = 0
  BY <1>1, <1>2, <1>3 DEF FrameOK, Nulled
<1>8. QED
  BY <1>3, <1>4, <1>5, <1>6, <1>7, TopMoves DEF b

(* DisableAllInterrupts and EnableAllInterrupts. *)
LEMMA Disables ==
  ASSUME NEW base \in [1 .. MaxDepth -> Nat], StackInv(base),
         DisableAllInterrupts
  PROVE  StackInv(base)'
<1> DEFINE b == base[Len(stack)]
           f == [Top EXCEPT !.at = "disabled"]
<1>1. /\ Top \in Frame /\ b \in Nat /\ FrameOK(Top, b, callevel, saved_callevel)
      /\ sus_all_cnt = Top.all /\ sus_os_cnt = b + Counted(Top)
      /\ Top.all \in Nat /\ Top.os \in Nat /\ MaxOpen \in Nat \ {0}
      /\ MaxOpen + 1 <= UINT8_INVALID /\ UINT8_INVALID \in Nat
  BY Innermost, Configured DEF Frame
<1>2. callevel \in CallLevel /\ saved_callevel \in CallLevel /\ "NULL" \in CallLevel
  BY DEF StackInv, CallLevel
<1>3. /\ f \in Frame /\ f.who = Top.who /\ f.cl = Top.cl
      /\ f.at = "disabled" /\ f.all = Top.all /\ f.os = Top.os
  BY <1>1 DEF Frame, Point
<1>4. Goes(f)
  BY DEF DisableAllInterrupts, MovesTo
<1> HIDE DEF b, f
<1>5. sus_all_cnt' = f.all /\ sus_os_cnt' = b + Counted(f)
  BY <1>1, <1>3 DEF Counted, DisableAllInterrupts, At
<1>6. intena' = ~ (f.all > 0 \/ f.at = "disabled")
  BY <1>3, Zenon DEF DisableAllInterrupts
<1>7. /\ FrameOK(f, b, callevel', saved_callevel')
      /\ callevel' \in CallLevel /\ saved_callevel' \in CallLevel
      /\ saved_callevel' = saved_callevel \/ b = 0
  BY <1>1, <1>2, <1>3 DEF FrameOK, Nulled, Copying, DisableAllInterrupts, At, InSection
<1>8. QED
  BY <1>3, <1>4, <1>5, <1>6, <1>7, TopMoves DEF b

LEMMA Enables ==
  ASSUME NEW base \in [1 .. MaxDepth -> Nat], StackInv(base),
         EnableAllInterrupts
  PROVE  StackInv(base)'
<1> DEFINE b == base[Len(stack)]
           f == [Top EXCEPT !.at = "out"]
<1>1. /\ Top \in Frame /\ b \in Nat /\ FrameOK(Top, b, callevel, saved_callevel)
      /\ sus_all_cnt = Top.all /\ sus_os_cnt = b + Counted(Top)
      /\ Top.all \in Nat /\ Top.os \in Nat /\ MaxOpen \in Nat \ {0}
      /\ MaxOpen + 1 <= UINT8_INVALID /\ UINT8_INVALID \in Nat
  BY Innermost, Configured DEF Frame
<1>2. callevel \in CallLevel /\ saved_callevel \in CallLevel /\ "NULL" \in CallLevel
  BY DEF StackInv, CallLevel
<1>3. /\ f \in Frame /\ f.who = Top.who /\ f.cl = Top.cl
      /\ f.at = "out" /\ f.all = Top.all /\ f.os = Top.os
  BY <1>1 DEF Frame, Point
<1>4. Goes(f)
  BY DEF EnableAllInterrupts, MovesTo
<1> HIDE DEF b, f
<1>5. sus_all_cnt' = f.all /\ sus_os_cnt' = b + Counted(f)
  BY <1>1, <1>3 DEF Counted, EnableAllInterrupts, At
<1>6. intena' = ~ (f.all > 0 \/ f.at = "disabled")
  <2>1. ~ (f.all > 0 \/ f.at = "disabled")
    BY <1>1, <1>3 DEF FrameOK, InSection, EnableAllInterrupts, At
  <2>2. intena' = TRUE
    BY DEF EnableAllInterrupts
  <2>3. QED
    BY <2>1, <2>2, Zenon
<1>7. /\ FrameOK(f, b, callevel', saved_callevel')
      /\ callevel' \in CallLevel /\ saved_callevel' \in CallLevel
      /\ saved_callevel' = saved_callevel \/ b = 0
  BY <1>1, <1>2, <1>3 DEF FrameOK, Nulled, Copying, EnableAllInterrupts, At, InSection
<1>8. QED
  BY <1>3, <1>4, <1>5, <1>6, <1>7, TopMoves DEF b

(* A section opens, of the program or of COM. *)
LEMMA Suspends ==
  ASSUME NEW base \in [1 .. MaxDepth -> Nat], StackInv(base),
         Top.at \in {"out", "send", "init", "receive"},
         NEW at \in {"out"} \cup Copying, at = "out" => Top.all < MaxOpen,
         SuspendAllInterrupts(at)
  PROVE  StackInv(base)'
<1> DEFINE b == base[Len(stack)]
           f == [Top EXCEPT !.at = at, !.all = @ + 1]
<1>1. /\ Top \in Frame /\ b \in Nat /\ FrameOK(Top, b, callevel, saved_callevel)
      /\ sus_all_cnt = Top.all /\ sus_os_cnt = b + Counted(Top)
      /\ Top.all \in Nat /\ Top.os \in Nat /\ MaxOpen \in Nat \ {0}
      /\ MaxOpen + 1 <= UINT8_INVALID /\ UINT8_INVALID \in Nat
  BY Innermost, Configured DEF Frame
<1>2. callevel \in CallLevel /\ saved_callevel \in CallLevel /\ "NULL" \in CallLevel
  BY DEF StackInv, CallLevel
<1>3. /\ f \in Frame /\ f.who = Top.who /\ f.cl = Top.cl
      /\ f.at = at /\ f.all = Top.all + 1 /\ f.os = Top.os
  <2> DEFINE m == [Top EXCEPT !.at = at]
  <2>1. Top.all + 1 \in Nat /\ at \in Point
    BY <1>1 DEF Point, Copying
  <2>2. m \in Frame /\ m.who = Top.who /\ m.cl = Top.cl /\ m.at = at
        /\ m.all = Top.all /\ m.os = Top.os
    BY <1>1, <2>1 DEF Frame
  <2>3. f = [m EXCEPT !.all = Top.all + 1]
    OBVIOUS
  <2> HIDE DEF m, f
  <2>4. QED
    BY <2>1, <2>2, <2>3 DEF Frame
<1>4. Goes(f)
  BY DEF SuspendAllInterrupts
<1> HIDE DEF b, f
<1>5. sus_all_cnt' = f.all /\ sus_os_cnt' = b + Counted(f)
  <2>1. Top.all <= MaxOpen
    BY <1>1 DEF FrameOK, Copying
  <2>2. sus_all_cnt' = Top.all + 1 /\ sus_os_cnt' = sus_os_cnt
    BY <1>1, <2>1 DEF SuspendAllInterrupts, Inc
  <2>3. QED
    BY <1>1, <1>3, <2>2 DEF Counted, Copying
<1>6. intena' = ~ (f.all > 0 \/ f.at = "disabled")
  <2>1. f.all > 0
    BY <1>1, <1>3
  <2>2. intena' = FALSE
    BY DEF SuspendAllInterrupts
  <2>3. QED
    BY <2>1, <2>2, Zenon
<1>7. /\ FrameOK(f, b, callevel', saved_callevel')
      /\ callevel' \in CallLevel /\ saved_callevel' \in CallLevel
      /\ saved_callevel' = saved_callevel \/ b = 0
  <2>1. f.all > 0 /\ f.all <= IF f.at \in Copying THEN MaxOpen + 1 ELSE MaxOpen
    BY <1>1, <1>3 DEF FrameOK, Copying
  <2>2. Counted(Top) = Top.os
    BY <1>1 DEF Counted
  <2>3. CASE sus_all_cnt = 0 /\ sus_os_cnt = 0
    <3>1. b = 0 /\ Top.os = 0 /\ Top.all = 0
      BY <1>1, <2>2, <2>3
    <3>2. callevel = Level(Top.who)
      BY <1>1, <3>1 DEF FrameOK, Nulled
    <3>3. callevel' = "NULL" /\ saved_callevel' = callevel
      BY <1>1, <2>3 DEF SuspendAllInterrupts
    <3>4. QED
      BY <1>1, <1>2, <1>3, <2>1, <3>1, <3>2, <3>3 DEF FrameOK, Nulled, Copying
  <2>4. CASE sus_all_cnt > 0 \/ sus_os_cnt > 0
    <3>1. callevel' = callevel /\ saved_callevel' = saved_callevel
      BY <1>1, <2>2, <2>4 DEF SuspendAllInterrupts
    <3>2. b = 0 => Nulled(Top) /\ Nulled(f)
      BY <1>1, <1>3, <2>1, <2>2, <2>4 DEF Nulled
    <3>3. QED
      BY <1>1, <1>2, <1>3, <2>1, <3>1, <3>2 DEF FrameOK, Copying
  <2>5. QED
    BY <2>3, <2>4 DEF SuspendAllInterrupts
<1>8. QED
  BY <1>3, <1>4, <1>5, <1>6, <1>7, TopMoves DEF b

(* A section closes; it may be an inner one, or the OS one is still open. *)
LEMMA Resumes ==
  ASSUME NEW base \in [1 .. MaxDepth -> Nat], StackInv(base),
         Top.at \in {"out", "filled", "fetched"}, NEW at \in {"out", "received"},
         ResumeAllInterrupts(at)
  PROVE  StackInv(base)'
<1> DEFINE b == base[Len(stack)]
           f == [Top EXCEPT !.at = at, !.all = @ - 1]
<1>1. /\ Top \in Frame /\ b \in Nat /\ FrameOK(Top, b, callevel, saved_callevel)
      /\ sus_all_cnt = Top.all /\ sus_os_cnt = b + Counted(Top)
      /\ Top.all \in Nat /\ Top.os \in Nat /\ MaxOpen \in Nat \ {0}
      /\ MaxOpen + 1 <= UINT8_INVALID /\ UINT8_INVALID \in Nat
  BY Innermost, Configured DEF Frame
<1>2. callevel \in CallLevel /\ saved_callevel \in CallLevel /\ "NULL" \in CallLevel
  BY DEF StackInv, CallLevel
<1>3. /\ f \in Frame /\ f.who = Top.who /\ f.cl = Top.cl
      /\ f.at = at /\ f.all = Top.all - 1 /\ f.os = Top.os
  <2> DEFINE m == [Top EXCEPT !.at = at]
  <2>1. Top.all - 1 \in Nat /\ at \in Point
    BY <1>1 DEF Point, ResumeAllInterrupts
  <2>2. m \in Frame /\ m.who = Top.who /\ m.cl = Top.cl /\ m.at = at
        /\ m.all = Top.all /\ m.os = Top.os
    BY <1>1, <2>1 DEF Frame
  <2>3. f = [m EXCEPT !.all = Top.all - 1]
    OBVIOUS
  <2> HIDE DEF m, f
  <2>4. QED
    BY <2>1, <2>2, <2>3 DEF Frame
<1>4. Goes(f)
  BY DEF ResumeAllInterrupts
<1> HIDE DEF b, f
<1>5. sus_all_cnt' = f.all /\ sus_os_cnt' = b + Counted(f)
  BY <1>1, <1>3 DEF Counted, ResumeAllInterrupts
<1>6. intena' = ~ (f.all > 0 \/ f.at = "disabled")
  <2>1. intena' = (Top.all = 1)
    BY <1>1 DEF ResumeAllInterrupts
  <2>2. Top.all = 1 <=> ~ (f.all > 0 \/ f.at = "disabled")
    BY <1>1, <1>3 DEF ResumeAllInterrupts
  <2>3. QED
    BY <2>1, <2>2, Zenon
<1>7. /\ FrameOK(f, b, callevel', saved_callevel')
      /\ callevel' \in CallLevel /\ saved_callevel' \in CallLevel
      /\ saved_callevel' = saved_callevel \/ b = 0
  <2>1. Top.all > 0 /\ f.all \in Nat /\ f.all <= MaxOpen /\ f.at \notin Copying
    BY <1>1, <1>3 DEF FrameOK, Copying, ResumeAllInterrupts
  <2>2. Counted(Top) = Top.os
    BY <1>1 DEF Counted
  <2>3. saved_callevel' = saved_callevel
    BY DEF ResumeAllInterrupts
  <2>4. CASE Top.all = 1 /\ b = 0 /\ Top.os = 0
    <3>1. callevel' = saved_callevel
      BY <1>1, <2>2, <2>4 DEF ResumeAllInterrupts
    <3>2. saved_callevel = Level(Top.who)
      BY <1>1, <2>4 DEF FrameOK, Nulled
    <3>3. QED
      BY <1>1, <1>2, <1>3, <2>1, <2>3, <2>4, <3>1, <3>2 DEF FrameOK, Nulled
  <2>5. CASE ~ (Top.all = 1 /\ b = 0 /\ Top.os = 0)
    <3>1. callevel' = callevel
      BY <1>1, <2>2, <2>5 DEF ResumeAllInterrupts
    <3>2. b = 0 => Nulled(Top) /\ Nulled(f)
      BY <1>1, <1>3, <2>1, <2>5 DEF Nulled
    <3>3. QED
      BY <1>1, <1>2, <1>3, <2>1, <2>3, <3>1, <3>2 DEF FrameOK
  <2>6. QED
    BY <2>4, <2>5
<1>8. QED
  BY <1>3, <1>4, <1>5, <1>6, <1>7, TopMoves DEF b

(* SuspendOSInterrupts, instruction by instruction. *)
LEMMA FindsNone ==
  ASSUME NEW base \in [1 .. MaxDepth -> Nat], StackInv(base),
         SuspendOS_Test, sus_os_cnt = 0
  PROVE  StackInv(base)'
<1> DEFINE b == base[Len(stack)]
           f == [Top EXCEPT !.at = "sus_inc"]
<1>1. /\ Top \in Frame /\ b \in Nat /\ FrameOK(Top, b, callevel, saved_callevel)
      /\ sus_all_cnt = Top.all /\ sus_os_cnt = b + Counted(Top)
      /\ Top.all \in Nat /\ Top.os \in Nat /\ MaxOpen \in Nat \ {0}
      /\ MaxOpen + 1 <= UINT8_INVALID /\ UINT8_INVALID \in Nat
  BY Innermost, Configured DEF Frame
<1>2. callevel \in CallLevel /\ saved_callevel \in CallLevel /\ "NULL" \in CallLevel
  BY DEF StackInv, CallLevel
<1>3. /\ f \in Frame /\ f.who = Top.who /\ f.cl = Top.cl
      /\ f.at = "sus_inc" /\ f.all = Top.all /\ f.os = Top.os
  BY <1>1 DEF Frame, Point, SuspendOS_Test, At
<1>4. Goes(f)
  BY DEF SuspendOS_Test, MovesTo
<1> HIDE DEF b, f
<1>5. sus_all_cnt' = f.all /\ sus_os_cnt' = b + Counted(f)
  BY <1>1, <1>3 DEF FrameOK, Counted, SuspendOS_Test, At
<1>6. intena' = ~ (f.all > 0 \/ f.at = "disabled")
  <2>1. intena = ~ (Top.all > 0 \/ Top.at = "disabled")
    BY DEF StackInv
  <2>2. (Top.all > 0 \/ Top.at = "disabled") <=> (f.all > 0 \/ f.at = "disabled")
    BY <1>1, <1>3 DEF SuspendOS_Test, At
  <2>3. intena' = intena
    BY DEF SuspendOS_Test
  <2>4. QED
    BY <2>1, <2>2, <2>3, Zenon
<1>7. /\ FrameOK(f, b, callevel', saved_callevel')
      /\ callevel' \in CallLevel /\ saved_callevel' \in CallLevel
      /\ saved_callevel' = saved_callevel \/ b = 0
  <2>1. Top.at = "out" /\ Top.os = 0 /\ b = 0 /\ callevel' = callevel
        /\ saved_callevel' = saved_callevel
    BY <1>1 DEF Counted, SuspendOS_Test, At
  <2>2. QED
    BY <1>1, <1>2, <1>3, <2>1 DEF FrameOK, Nulled, Copying
<1>8. QED
  BY <1>3, <1>4, <1>5, <1>6, <1>7, TopMoves DEF b

LEMMA FindsSome ==
  ASSUME NEW base \in [1 .. MaxDepth -> Nat], StackInv(base),
         SuspendOS_Test, sus_os_cnt > 0
  PROVE  StackInv(base)'
<1> DEFINE b == base[Len(stack)]
           f == [Top EXCEPT !.os = @ + 1]
<1>1. /\ Top \in Frame /\ b \in Nat /\ FrameOK(Top, b, callevel, saved_callevel)
      /\ sus_all_cnt = Top.all /\ sus_os_cnt = b + Counted(Top)
      /\ Top.all \in Nat /\ Top.os \in Nat /\ MaxOpen \in Nat \ {0}
      /\ MaxOpen + 1 <= UINT8_INVALID /\ UINT8_INVALID \in Nat
  BY Innermost, Configured DEF Frame
<1>2. callevel \in CallLevel /\ saved_callevel \in CallLevel /\ "NULL" \in CallLevel
  BY DEF StackInv, CallLevel
<1>3. /\ f \in Frame /\ f.who = Top.who /\ f.cl = Top.cl
      /\ f.at = "out" /\ f.all = Top.all /\ f.os = Top.os + 1
  BY <1>1 DEF Frame, Point, SuspendOS_Test, At
<1>4. Goes(f)
  BY DEF SuspendOS_Test, MovesTo
<1> HIDE DEF b, f
<1>5. sus_all_cnt' = f.all /\ sus_os_cnt' = b + Counted(f)
  <2>1. sus_os_cnt < UINT8_INVALID
    <3> DEFINE below == (Len(stack) - 1) * MaxOpen
               all   == Len(stack) * MaxOpen
    <3>1. all = below + MaxOpen /\ below \in Nat /\ b <= below /\ all < UINT8_INVALID
      BY Innermost, Configured DEF b
    <3> HIDE DEF below, all
    <3>2. Counted(Top) = Top.os /\ Top.os < MaxOpen
      BY <1>1 DEF Counted, SuspendOS_Test, At
    <3>3. QED
      BY <1>1, <3>1, <3>2, Configured
  <2>2. Counted(Top) = Top.os /\ Counted(f) = Top.os + 1
    BY <1>1, <1>3 DEF Counted, SuspendOS_Test, At
  <2>3. sus_os_cnt' = sus_os_cnt + 1 /\ sus_all_cnt' = sus_all_cnt
    BY <1>1, <2>1 DEF SuspendOS_Test, Inc
  <2>4. QED
    BY <1>1, <1>3, <2>2, <2>3
<1>6. intena' = ~ (f.all > 0 \/ f.at = "disabled")
  <2>1. intena = ~ (Top.all > 0 \/ Top.at = "disabled")
    BY DEF StackInv
  <2>2. (Top.all > 0 \/ Top.at = "disabled") <=> (f.all > 0 \/ f.at = "disabled")
    BY <1>1, <1>3 DEF SuspendOS_Test, At
  <2>3. intena' = intena
    BY DEF SuspendOS_Test
  <2>4. QED
    BY <2>1, <2>2, <2>3, Zenon
<1>7. /\ FrameOK(f, b, callevel', saved_callevel')
      /\ callevel' \in CallLevel /\ saved_callevel' \in CallLevel
      /\ saved_callevel' = saved_callevel \/ b = 0
  <2>1. Top.at = "out" /\ (b = 0 => Top.os > 0) /\ Top.os < MaxOpen
        /\ callevel' = callevel /\ saved_callevel' = saved_callevel
    BY <1>1 DEF Counted, SuspendOS_Test, At
  <2>2. QED
    BY <1>1, <1>2, <1>3, <2>1 DEF FrameOK, Nulled, Copying
<1>8. QED
  BY <1>3, <1>4, <1>5, <1>6, <1>7, TopMoves DEF b

LEMMA Counts ==
  ASSUME NEW base \in [1 .. MaxDepth -> Nat], StackInv(base),
         SuspendOS_Count, sus_all_cnt = 0
  PROVE  StackInv(base)'
<1> DEFINE b == base[Len(stack)]
           f == [Top EXCEPT !.at = "sus_save"]
<1>1. /\ Top \in Frame /\ b \in Nat /\ FrameOK(Top, b, callevel, saved_callevel)
      /\ sus_all_cnt = Top.all /\ sus_os_cnt = b + Counted(Top)
      /\ Top.all \in Nat /\ Top.os \in Nat /\ MaxOpen \in Nat \ {0}
      /\ MaxOpen + 1 <= UINT8_INVALID /\ UINT8_INVALID \in Nat
  BY Innermost, Configured DEF Frame
<1>2. callevel \in CallLevel /\ saved_callevel \in CallLevel /\ "NULL" \in CallLevel
  BY DEF StackInv, CallLevel
<1>3. /\ f \in Frame /\ f.who = Top.who /\ f.cl = Top.cl
      /\ f.at = "sus_save" /\ f.all = Top.all /\ f.os = Top.os
  BY <1>1 DEF Frame, Point, SuspendOS_Count, At
<1>4. Goes(f)
  BY DEF SuspendOS_Count, MovesTo
<1> HIDE DEF b, f
<1>5. sus_all_cnt' = f.all /\ sus_os_cnt' = b + Counted(f)
  BY <1>1, <1>3 DEF FrameOK, Counted, SuspendOS_Count, At
<1>6. intena' = ~ (f.all > 0 \/ f.at = "disabled")
  <2>1. intena = ~ (Top.all > 0 \/ Top.at = "disabled")
    BY DEF StackInv
  <2>2. (Top.all > 0 \/ Top.at = "disabled") <=> (f.all > 0 \/ f.at = "disabled")
    BY <1>1, <1>3 DEF SuspendOS_Count, At
  <2>3. intena' = intena
    BY DEF SuspendOS_Count
  <2>4. QED
    BY <2>1, <2>2, <2>3, Zenon
<1>7. /\ FrameOK(f, b, callevel', saved_callevel')
      /\ callevel' \in CallLevel /\ saved_callevel' \in CallLevel
      /\ saved_callevel' = saved_callevel \/ b = 0
  BY <1>1, <1>2, <1>3 DEF FrameOK, Nulled, Copying, SuspendOS_Count, At
<1>8. QED
  BY <1>3, <1>4, <1>5, <1>6, <1>7, TopMoves DEF b

LEMMA CountsInside ==
  ASSUME NEW base \in [1 .. MaxDepth -> Nat], StackInv(base),
         SuspendOS_Count, sus_all_cnt > 0
  PROVE  StackInv(base)'
<1> DEFINE b == base[Len(stack)]
           f == [Top EXCEPT !.at = "out", !.os = @ + 1]
<1>1. /\ Top \in Frame /\ b \in Nat /\ FrameOK(Top, b, callevel, saved_callevel)
      /\ sus_all_cnt = Top.all /\ sus_os_cnt = b + Counted(Top)
      /\ Top.all \in Nat /\ Top.os \in Nat /\ MaxOpen \in Nat \ {0}
      /\ MaxOpen + 1 <= UINT8_INVALID /\ UINT8_INVALID \in Nat
  BY Innermost, Configured DEF Frame
<1>2. callevel \in CallLevel /\ saved_callevel \in CallLevel /\ "NULL" \in CallLevel
  BY DEF StackInv, CallLevel
<1>3. /\ f \in Frame /\ f.who = Top.who /\ f.cl = Top.cl
      /\ f.at = "out" /\ f.all = Top.all /\ f.os = Top.os + 1
  <2> DEFINE m == [Top EXCEPT !.at = "out"]
  <2>1. Top.os + 1 \in Nat /\ "out" \in Point
    BY <1>1 DEF Point, FrameOK, SuspendOS_Count, At
  <2>2. m \in Frame /\ m.who = Top.who /\ m.cl = Top.cl /\ m.at = "out"
        /\ m.all = Top.all /\ m.os = Top.os
    BY <1>1, <2>1 DEF Frame
  <2>3. f = [m EXCEPT !.os = Top.os + 1]
    OBVIOUS
  <2> HIDE DEF m, f
  <2>4. QED
    BY <2>1, <2>2, <2>3 DEF Frame
<1>4. Goes(f)
  BY DEF SuspendOS_Count, MovesTo
<1> HIDE DEF b, f
<1>5. sus_all_cnt' = f.all /\ sus_os_cnt' = b + Counted(f)
  BY <1>1, <1>3 DEF FrameOK, Counted, SuspendOS_Count, At
<1>6. intena' = ~ (f.all > 0 \/ f.at = "disabled")
  <2>1. intena = ~ (Top.all > 0 \/ Top.at = "disabled")
    BY DEF StackInv
  <2>2. (Top.all > 0 \/ Top.at = "disabled") <=> (f.all > 0 \/ f.at = "disabled")
    BY <1>1, <1>3 DEF SuspendOS_Count, At
  <2>3. intena' = intena
    BY DEF SuspendOS_Count
  <2>4. QED
    BY <2>1, <2>2, <2>3, Zenon
<1>7. /\ FrameOK(f, b, callevel', saved_callevel')
      /\ callevel' \in CallLevel /\ saved_callevel' \in CallLevel
      /\ saved_callevel' = saved_callevel \/ b = 0
  BY <1>1, <1>2, <1>3 DEF FrameOK, Nulled, Copying, SuspendOS_Count, At
<1>8. QED
  BY <1>3, <1>4, <1>5, <1>6, <1>7, TopMoves DEF b

LEMMA Saves ==
  ASSUME NEW base \in [1 .. MaxDepth -> Nat], StackInv(base),
         SuspendOS_Save
  PROVE  StackInv(base)'
<1> DEFINE b == base[Len(stack)]
           f == [Top EXCEPT !.at = "sus_null"]
<1>1. /\ Top \in Frame /\ b \in Nat /\ FrameOK(Top, b, callevel, saved_callevel)
      /\ sus_all_cnt = Top.all /\ sus_os_cnt = b + Counted(Top)
      /\ Top.all \in Nat /\ Top.os \in Nat /\ MaxOpen \in Nat \ {0}
      /\ MaxOpen + 1 <= UINT8_INVALID /\ UINT8_INVALID \in Nat
  BY Innermost, Configured DEF Frame
<1>2. callevel \in CallLevel /\ saved_callevel \in CallLevel /\ "NULL" \in CallLevel
  BY DEF StackInv, CallLevel
<1>3. /\ f \in Frame /\ f.who = Top.who /\ f.cl = Top.cl
      /\ f.at = "sus_null" /\ f.all = Top.all /\ f.os = Top.os
  BY <1>1 DEF Frame, Point, SuspendOS_Save, At
<1>4. Goes(f)
  BY DEF SuspendOS_Save, MovesTo
<1> HIDE DEF b, f
<1>5. sus_all_cnt' = f.all /\ sus_os_cnt' = b + Counted(f)
  BY <1>1, <1>3 DEF FrameOK, Counted, SuspendOS_Save, At
<1>6. intena' = ~ (f.all > 0 \/ f.at = "disabled")
  <2>1. intena = ~ (Top.all > 0 \/ Top.at = "disabled")
    BY DEF StackInv
  <2>2. (Top.all > 0 \/ Top.at = "disabled") <=> (f.all > 0 \/ f.at = "disabled")
    BY <1>1, <1>3 DEF SuspendOS_Save, At
  <2>3. intena' = intena
    BY DEF SuspendOS_Save
  <2>4. QED
    BY <2>1, <2>2, <2>3, Zenon
<1>7. /\ FrameOK(f, b, callevel', saved_callevel')
      /\ callevel' \in CallLevel /\ saved_callevel' \in CallLevel
      /\ saved_callevel' = saved_callevel \/ b = 0
  BY <1>1, <1>2, <1>3 DEF FrameOK, Nulled, Copying, SuspendOS_Save, At
<1>8. QED
  BY <1>3, <1>4, <1>5, <1>6, <1>7, TopMoves DEF b

LEMMA Nulls ==
  ASSUME NEW base \in [1 .. MaxDepth -> Nat], StackInv(base),
         SuspendOS_Null
  PROVE  StackInv(base)'
<1> DEFINE b == base[Len(stack)]
           f == [Top EXCEPT !.at = "out", !.os = @ + 1]
<1>1. /\ Top \in Frame /\ b \in Nat /\ FrameOK(Top, b, callevel, saved_callevel)
      /\ sus_all_cnt = Top.all /\ sus_os_cnt = b + Counted(Top)
      /\ Top.all \in Nat /\ Top.os \in Nat /\ MaxOpen \in Nat \ {0}
      /\ MaxOpen + 1 <= UINT8_INVALID /\ UINT8_INVALID \in Nat
  BY Innermost, Configured DEF Frame
<1>2. callevel \in CallLevel /\ saved_callevel \in CallLevel /\ "NULL" \in CallLevel
  BY DEF StackInv, CallLevel
<1>3. /\ f \in Frame /\ f.who = Top.who /\ f.cl = Top.cl
      /\ f.at = "out" /\ f.all = Top.all /\ f.os = Top.os + 1
  <2> DEFINE m == [Top EXCEPT !.at = "out"]
  <2>1. Top.os + 1 \in Nat /\ "out" \in Point
    BY <1>1 DEF Point, FrameOK, SuspendOS_Null, At
  <2>2. m \in Frame /\ m.who = Top.who /\ m.cl = Top.cl /\ m.at = "out"
        /\ m.all = Top.all /\ m.os = Top.os
    BY <1>1, <2>1 DEF Frame
  <2>3. f = [m EXCEPT !.os = Top.os + 1]
    OBVIOUS
  <2> HIDE DEF m, f
  <2>4. QED
    BY <2>1, <2>2, <2>3 DEF Frame
<1>4. Goes(f)
  BY DEF SuspendOS_Null, MovesTo
<1> HIDE DEF b, f
<1>5. sus_all_cnt' = f.all /\ sus_os_cnt' = b + Counted(f)
  BY <1>1, <1>3 DEF FrameOK, Counted, SuspendOS_Null, At
<1>6. intena' = ~ (f.all > 0 \/ f.at = "disabled")
  <2>1. intena = ~ (Top.all > 0 \/ Top.at = "disabled")
    BY DEF StackInv
  <2>2. (Top.all > 0 \/ Top.at = "disabled") <=> (f.all > 0 \/ f.at = "disabled")
    BY <1>1, <1>3 DEF SuspendOS_Null, At
  <2>3. intena' = intena
    BY DEF SuspendOS_Null
  <2>4. QED
    BY <2>1, <2>2, <2>3, Zenon
<1>7. /\ FrameOK(f, b, callevel', saved_callevel')
      /\ callevel' \in CallLevel /\ saved_callevel' \in CallLevel
      /\ saved_callevel' = saved_callevel \/ b = 0
  BY <1>1, <1>2, <1>3 DEF FrameOK, Nulled, Copying, SuspendOS_Null, At
<1>8. QED
  BY <1>3, <1>4, <1>5, <1>6, <1>7, TopMoves DEF b

(* ResumeOSInterrupts, instruction by instruction. *)
LEMMA EndsLast ==
  ASSUME NEW base \in [1 .. MaxDepth -> Nat], StackInv(base),
         ResumeOS_Test, sus_os_cnt = 1
  PROVE  StackInv(base)'
<1> DEFINE b == base[Len(stack)]
           f == [Top EXCEPT !.at = "res_dec"]
<1>1. /\ Top \in Frame /\ b \in Nat /\ FrameOK(Top, b, callevel, saved_callevel)
      /\ sus_all_cnt = Top.all /\ sus_os_cnt = b + Counted(Top)
      /\ Top.all \in Nat /\ Top.os \in Nat /\ MaxOpen \in Nat \ {0}
      /\ MaxOpen + 1 <= UINT8_INVALID /\ UINT8_INVALID \in Nat
  BY Innermost, Configured DEF Frame
<1>2. callevel \in CallLevel /\ saved_callevel \in CallLevel /\ "NULL" \in CallLevel
  BY DEF StackInv, CallLevel
<1>3. /\ f \in Frame /\ f.who = Top.who /\ f.cl = Top.cl
      /\ f.at = "res_dec" /\ f.all = Top.all /\ f.os = Top.os
  BY <1>1 DEF Frame, Point, ResumeOS_Test, At
<1>4. Goes(f)
  BY DEF ResumeOS_Test, MovesTo
<1> HIDE DEF b, f
<1>5. sus_all_cnt' = f.all /\ sus_os_cnt' = b + Counted(f)
  BY <1>1, <1>3 DEF FrameOK, Counted, ResumeOS_Test, At
<1>6. intena' = ~ (f.all > 0 \/ f.at = "disabled")
  <2>1. intena = ~ (Top.all > 0 \/ Top.at = "disabled")
    BY DEF StackInv
  <2>2. (Top.all > 0 \/ Top.at = "disabled") <=> (f.all > 0 \/ f.at = "disabled")
    BY <1>1, <1>3 DEF ResumeOS_Test, At
  <2>3. intena' = intena
    BY DEF ResumeOS_Test
  <2>4. QED
    BY <2>1, <2>2, <2>3, Zenon
<1>7. /\ FrameOK(f, b, callevel', saved_callevel')
      /\ callevel' \in CallLevel /\ saved_callevel' \in CallLevel
      /\ saved_callevel' = saved_callevel \/ b = 0
  <2>1. Top.at = "out" /\ Top.os = 1 /\ b = 0 /\ saved_callevel' = saved_callevel
        /\ callevel' = IF Top.all = 0 THEN saved_callevel ELSE callevel
    BY <1>1 DEF Counted, ResumeOS_Test, At
  <2>2. QED
    BY <1>1, <1>2, <1>3, <2>1 DEF FrameOK, Nulled, Copying
<1>8. QED
  BY <1>3, <1>4, <1>5, <1>6, <1>7, TopMoves DEF b

LEMMA EndsInner ==
  ASSUME NEW base \in [1 .. MaxDepth -> Nat], StackInv(base),
         ResumeOS_Test, sus_os_cnt > 1
  PROVE  StackInv(base)'
<1> DEFINE b == base[Len(stack)]
           f == [Top EXCEPT !.os = @ - 1]
<1>1. /\ Top \in Frame /\ b \in Nat /\ FrameOK(Top, b, callevel, saved_callevel)
      /\ sus_all_cnt = Top.all /\ sus_os_cnt = b + Counted(Top)
      /\ Top.all \in Nat /\ Top.os \in Nat /\ MaxOpen \in Nat \ {0}
      /\ MaxOpen + 1 <= UINT8_INVALID /\ UINT8_INVALID \in Nat
  BY Innermost, Configured DEF Frame
<1>2. callevel \in CallLevel /\ saved_callevel \in CallLevel /\ "NULL" \in CallLevel
  BY DEF StackInv, CallLevel
<1>3. /\ f \in Frame /\ f.who = Top.who /\ f.cl = Top.cl
      /\ f.at = "out" /\ f.all = Top.all /\ f.os = Top.os - 1
  BY <1>1 DEF Frame, Point, ResumeOS_Test, At
<1>4. Goes(f)
  BY DEF ResumeOS_Test, MovesTo
<1> HIDE DEF b, f
<1>5. sus_all_cnt' = f.all /\ sus_os_cnt' = b + Counted(f)
  BY <1>1, <1>3 DEF FrameOK, Counted, ResumeOS_Test, At
<1>6. intena' = ~ (f.all > 0 \/ f.at = "disabled")
  <2>1. intena = ~ (Top.all > 0 \/ Top.at = "disabled")
    BY DEF StackInv
  <2>2. (Top.all > 0 \/ Top.at = "disabled") <=> (f.all > 0 \/ f.at = "disabled")
    BY <1>1, <1>3 DEF ResumeOS_Test, At
  <2>3. intena' = intena
    BY DEF ResumeOS_Test
  <2>4. QED
    BY <2>1, <2>2, <2>3, Zenon
<1>7. /\ FrameOK(f, b, callevel', saved_callevel')
      /\ callevel' \in CallLevel /\ saved_callevel' \in CallLevel
      /\ saved_callevel' = saved_callevel \/ b = 0
  <2>1. Top.at = "out" /\ (b = 0 => Top.os > 1) /\ Top.os > 0
        /\ callevel' = callevel /\ saved_callevel' = saved_callevel
    BY <1>1 DEF Counted, ResumeOS_Test, At
  <2>2. QED
    BY <1>1, <1>2, <1>3, <2>1 DEF FrameOK, Nulled, Copying
<1>8. QED
  BY <1>3, <1>4, <1>5, <1>6, <1>7, TopMoves DEF b

LEMMA EndsCount ==
  ASSUME NEW base \in [1 .. MaxDepth -> Nat], StackInv(base),
         ResumeOS_Count
  PROVE  StackInv(base)'
<1> DEFINE b == base[Len(stack)]
           f == [Top EXCEPT !.at = "out", !.os = @ - 1]
<1>1. /\ Top \in Frame /\ b \in Nat /\ FrameOK(Top, b, callevel, saved_callevel)
      /\ sus_all_cnt = Top.all /\ sus_os_cnt = b + Counted(Top)
      /\ Top.all \in Nat /\ Top.os \in Nat /\ MaxOpen \in Nat \ {0}
      /\ MaxOpen + 1 <= UINT8_INVALID /\ UINT8_INVALID \in Nat
  BY Innermost, Configured DEF Frame
<1>2. callevel \in CallLevel /\ saved_callevel \in CallLevel /\ "NULL" \in CallLevel
  BY DEF StackInv, CallLevel
<1>3. /\ f \in Frame /\ f.who = Top.who /\ f.cl = Top.cl
      /\ f.at = "out" /\ f.all = Top.all /\ f.os = Top.os - 1
  <2> DEFINE m == [Top EXCEPT !.at = "out"]
  <2>1. Top.os - 1 \in Nat /\ "out" \in Point
    BY <1>1 DEF Point, FrameOK, ResumeOS_Count, At
  <2>2. m \in Frame /\ m.who = Top.who /\ m.cl = Top.cl /\ m.at = "out"
        /\ m.all = Top.all /\ m.os = Top.os
    BY <1>1, <2>1 DEF Frame
  <2>3. f = [m EXCEPT !.os = Top.os - 1]
    OBVIOUS
  <2> HIDE DEF m, f
  <2>4. QED
    BY <2>1, <2>2, <2>3 DEF Frame
<1>4. Goes(f)
  BY DEF ResumeOS_Count, MovesTo
<1> HIDE DEF b, f
<1>5. sus_all_cnt' = f.all /\ sus_os_cnt' = b + Counted(f)
  BY <1>1, <1>3 DEF FrameOK, Counted, ResumeOS_Count, At
<1>6. intena' = ~ (f.all > 0 \/ f.at = "disabled")
  <2>1. intena = ~ (Top.all > 0 \/ Top.at = "disabled")
    BY DEF StackInv
  <2>2. (Top.all > 0 \/ Top.at = "disabled") <=> (f.all > 0 \/ f.at = "disabled")
    BY <1>1, <1>3 DEF ResumeOS_Count, At
  <2>3. intena' = intena
    BY DEF ResumeOS_Count
  <2>4. QED
    BY <2>1, <2>2, <2>3, Zenon
<1>7. /\ FrameOK(f, b, callevel', saved_callevel')
      /\ callevel' \in CallLevel /\ saved_callevel' \in CallLevel
      /\ saved_callevel' = saved_callevel \/ b = 0
  BY <1>1, <1>2, <1>3 DEF FrameOK, Nulled, Copying, ResumeOS_Count, At
<1>8. QED
  BY <1>3, <1>4, <1>5, <1>6, <1>7, TopMoves DEF b

LEMMA Places ==
  ASSUME NEW n \in Nat \ {0}
  PROVE  /\ \A d \in 1 .. n - 1 : n # 1 /\ d \in 1 .. n
         /\ \A d \in 1 .. n : d # n => d \in 1 .. n - 1
         /\ n # 1 => 1 \in 1 .. n - 1 /\ n > 1
         /\ 1 \in 1 .. n
OBVIOUS

(* A handler and a hook run upon a frame that they interrupted. *)
LEMMA NotOutermost ==
  ASSUME NEW base \in [1 .. MaxDepth -> Nat], StackInv(base), Top.who \notin Task
  PROVE  Len(stack) > 1
<1>1. Len(stack) \in Nat \ {0} /\ Top = FrameAt(stack, Len(stack))
  BY Innermost
<1>2. FrameAt(stack, 1).who \in Task
  BY DEF StackInv, OrderOK
<1>3. Len(stack) # 1
  BY <1>1, <1>2
<1>4. QED
  BY ONLY <1>1, <1>3, Places

(* A frame that ends runs at its own level. *)
LEMMA EndsAtLevel ==
  ASSUME NEW base \in [1 .. MaxDepth -> Nat], StackInv(base),
         Top.at = "out", ~ InSection(Top)
  PROVE  callevel = Level(Top.who)
<1>1. FrameOK(Top, base[Len(stack)], callevel, saved_callevel)
  BY Innermost
<1>2. ~ Nulled(Top)
  BY DEF Nulled, InSection
<1>3. QED
  BY <1>1, <1>2 DEF FrameOK

(* A task is dispatched in the place of the handler that made it ready. *)
LEMMA Dispatches ==
  ASSUME NEW base \in [1 .. MaxDepth -> Nat], StackInv(base),
         Top.who = Handler, Ends, NEW t \in Task,
         callevel' = Top.cl, callevel' = "TASK",
         stack' = <<[FrameOf(t) EXCEPT !.cl = Top.cl]>> \o Tail(stack),
         UNCHANGED <<saved_callevel, sus_all_cnt, sus_os_cnt, intena>>
  PROVE  StackInv(base)'
<1> DEFINE f == [FrameOf(t) EXCEPT !.cl = Top.cl]
           b == base[Len(stack)]
<1>1. /\ Top \in Frame /\ b \in Nat /\ FrameOK(Top, b, callevel, saved_callevel)
      /\ sus_all_cnt = Top.all /\ sus_os_cnt = b + Counted(Top)
  BY Innermost
<1>2. callevel \in CallLevel /\ saved_callevel \in CallLevel
      /\ intena = ~ (Top.all > 0 \/ Top.at = "disabled")
  BY DEF StackInv
<1>3. /\ f \in Frame /\ f.who = t /\ f.cl = Top.cl /\ f.at = "out" /\ f.all = 0 /\ f.os = 0
  <2>1. Top.cl \in CallLevel /\ t \in Who /\ "out" \in Point /\ callevel \in CallLevel
    BY <1>1, <1>2 DEF Frame, Who, Point
  <2>2. f = [who |-> t, at |-> "out", all |-> 0, os |-> 0, cl |-> Top.cl]
    BY DEF FrameOf
  <2>3. QED
    BY <2>1, <2>2 DEF Frame
<1>4. Goes(f)
  BY DEF Goes
<1> HIDE DEF f
<1>5. Top.at = "out" /\ Top.all = 0 /\ Top.os = 0
  BY <1>1 DEF Ends, At, InSection, Frame
<1>6. sus_all_cnt' = f.all /\ sus_os_cnt' = b + Counted(f)
  BY <1>1, <1>3, <1>5 DEF Counted
<1>7. intena' = ~ (f.all > 0 \/ f.at = "disabled")
  <2>1. ~ (f.all > 0 \/ f.at = "disabled") /\ ~ (Top.all > 0 \/ Top.at = "disabled")
    BY <1>3, <1>5
  <2>2. intena' = intena
    OBVIOUS
  <2>3. QED
    BY <1>2, <2>1, <2>2, Zenon
<1>8. FrameOK(f, b, callevel', saved_callevel')
  <2>1. Level(f.who) = "TASK"
    BY <1>3, Configured DEF Level
  <2>2. QED
    BY <1>3, <2>1, Configured DEF FrameOK, Nulled, Copying
<1>9. Len(stack) > 1
  <2>1. Top.who \notin Task
    BY Configured
  <2>2. QED
    BY <2>1, NotOutermost
<1>10. callevel' \in CallLevel
  BY DEF CallLevel
<1>11. QED
  BY <1>2, <1>3, <1>4, <1>6, <1>7, <1>8, <1>9, <1>10, TopMoves DEF b

LEMMA InterruptStep ==
  ASSUME SectionInv, InterruptNext
  PROVE  SectionInv'
<1>1. PICK base \in [1 .. MaxDepth -> Nat] : StackInv(base)
  BY DEF SectionInv
<1>2. /\ Top \in Frame /\ sus_all_cnt = Top.all /\ sus_os_cnt \in Nat
      /\ intena = ~ (Top.all > 0 \/ Top.at = "disabled")
  <2>1. Top \in Frame /\ sus_all_cnt = Top.all
        /\ sus_os_cnt = base[Len(stack)] + Counted(Top) /\ base[Len(stack)] \in Nat
    BY <1>1, Innermost
  <2>2. Counted(Top) \in Nat
    BY <2>1 DEF Counted, Frame
  <2>3. QED
    BY <1>1, <2>1, <2>2 DEF StackInv
<1>3. SUFFICES \E base2 \in [1 .. MaxDepth -> Nat] : StackInv(base2)'
  BY DEF SectionInv
<1>4. CASE DisableAllInterrupts
  BY <1>1, <1>4, Disables
<1>5. CASE EnableAllInterrupts
  BY <1>1, <1>5, Enables
<1>6. CASE At("out") /\ Top.all < MaxOpen /\ SuspendAllInterrupts("out")
  BY <1>1, <1>6, Suspends DEF At
<1>7. CASE At("out") /\ ResumeAllInterrupts("out")
  BY <1>1, <1>7, Resumes DEF At
<1>8. CASE SuspendOS_Test
  BY <1>1, <1>2, <1>8, FindsNone, FindsSome
<1>9. CASE SuspendOS_Count
  BY <1>1, <1>2, <1>9, Counts, CountsInside DEF Frame
<1>10. CASE SuspendOS_Save
  BY <1>1, <1>10, Saves
<1>11. CASE SuspendOS_Null
  BY <1>1, <1>11, Nulls
<1>12. CASE ResumeOS_Test
  <2>1. sus_os_cnt = 1 \/ sus_os_cnt > 1
    BY <1>12 DEF ResumeOS_Test
  <2>2. QED
    BY <1>1, <1>12, <2>1, EndsLast, EndsInner
<1>13. CASE ResumeOS_Count
  BY <1>1, <1>13, EndsCount
<1>14. CASE _interrupt
  <2>1. Level(Handler) = "ISR2" /\ Handler \in {Hook, Handler}
    BY DEF Level
  <2>2. QED
    BY <1>1, <1>14, <2>1, Interrupts DEF _interrupt, Room
<1>15. CASE int_return
  <2>1. Len(stack) > 1
    BY <1>1, <1>15, NotOutermost, Configured DEF int_return
  <2>2. QED
    BY <1>1, <1>15, <2>1, Returns, Dispatches DEF int_return
<1>16. CASE TaskEnds
  <2>1. Top.who \in Task /\ Len(stack) > 1 /\ Top.at = "out" /\ ~ InSection(Top)
    BY <1>16 DEF TaskEnds, Ends, At
  <2>2. callevel = "TASK"
    BY <1>1, <2>1, EndsAtLevel, Configured DEF Level
  <2>3. Top.cl = "TASK"
    <3>1. Top = FrameAt(stack, Len(stack)) /\ Len(stack) \in 2 .. Len(stack)
      BY <1>1, <2>1, Innermost
    <3>2. QED
      BY <1>1, <2>1, <3>1 DEF StackInv, OrderOK
  <2>4. QED
    BY <1>1, <1>16, <2>1, <2>2, <2>3, Returns DEF TaskEnds
<1>17. CASE call_errorhook
  <2>1. Level(Hook) = "ERROR" /\ Hook \in {Hook, Handler}
    BY Configured DEF Level
  <2>2. intena
    <3>1. ~ (Top.all > 0 \/ Top.at = "disabled")
      BY <1>2, <1>17 DEF call_errorhook, At
    <3>2. QED
      BY <1>2, <3>1, Zenon
  <2>3. QED
    BY <1>1, <1>17, <2>1, <2>2, Interrupts DEF call_errorhook, Room
<1>18. CASE ErrorHookReturns
  <2>1. Len(stack) > 1
    BY <1>1, <1>18, NotOutermost, Configured DEF ErrorHookReturns
  <2>2. QED
    BY <1>1, <1>18, <2>1, Returns DEF ErrorHookReturns
<1>19. QED
  BY <1>4, <1>5, <1>6, <1>7, <1>8, <1>9, <1>10, <1>11, <1>12, <1>13, <1>14,
     <1>15, <1>16, <1>17, <1>18 DEF InterruptNext

LEMMA SectionStart ==
  ASSUME InterruptInit
  PROVE  SectionInv
<1> DEFINE f == [who |-> 1, at |-> "out", all |-> 0, os |-> 0, cl |-> "TASK"]
<1>1. PICK base \in [1 .. MaxDepth -> Nat] : \A d \in 1 .. MaxDepth : base[d] = 0
  <2> DEFINE z == [d \in 1 .. MaxDepth |-> 0]
  <2>1. z \in [1 .. MaxDepth -> Nat] /\ \A d \in 1 .. MaxDepth : z[d] = 0
    OBVIOUS
  <2>2. QED
    BY <2>1
<1>2. f \in Frame
  BY Configured DEF Frame, Who, Point, CallLevel
<1>3. stack = <<f>>
  BY DEF InterruptInit, FrameOf
<1> HIDE DEF f
<1>4. stack \in Seq(Frame) /\ Len(stack) = 1 /\ stack[1] = f /\ Head(stack) = f
  BY <1>2, <1>3
<1>5. FrameAt(stack, 1) = f /\ Top = f
  BY <1>4 DEF FrameAt, Top
<1>6. f.who = 1 /\ f.at = "out" /\ f.all = 0 /\ f.os = 0 /\ Counted(f) = 0
  BY DEF f, Counted
<1>7. 1 \in 1 .. MaxDepth /\ base[1] = 0
  BY <1>1, Configured
<1>8. FrameOK(f, base[1], callevel, saved_callevel)
  BY <1>6, <1>7, Configured DEF FrameOK, Nulled, Copying, Level, InterruptInit
<1>9. FramesOK(stack, base, callevel, saved_callevel) /\ CountsOK(stack, base)
  <2>1. \A d \in 1 .. Len(stack) : d = 1 /\ d = Len(stack)
    BY <1>4
  <2>2. FramesOK(stack, base, callevel, saved_callevel)
    BY <1>5, <1>8, <2>1 DEF FramesOK
  <2>3. (1 - 1) * MaxOpen = 0 /\ 0 <= 0
    BY Configured
  <2>4. \A d \in 1 .. Len(stack) : base[d] <= (d - 1) * MaxOpen
    BY <1>7, <2>1, <2>3
  <2>5. \A d, e \in 1 .. Len(stack) : ~ (d < e)
    BY <1>4
  <2>6. 1 .. Len(stack) - 1 = {}
    BY <1>4
  <2>7. QED
    BY <2>2, <2>4, <2>5, <2>6 DEF CountsOK
<1>10. OrderOK(stack)
  BY <1>4, <1>5, <1>6, Configured DEF OrderOK
<1>11. StackInv(base)
  <2>1. /\ callevel \in CallLevel /\ saved_callevel \in CallLevel
        /\ sus_all_cnt = Top.all /\ Len(stack) \in 1 .. MaxDepth
        /\ sus_os_cnt = base[Len(stack)] + Counted(Top)
    BY <1>4, <1>5, <1>6, <1>7 DEF InterruptInit, CallLevel
  <2>2. ~ (Top.all > 0 \/ Top.at = "disabled")
    BY <1>5, <1>6
  <2>3. intena = ~ (Top.all > 0 \/ Top.at = "disabled")
    BY <2>2, Zenon DEF InterruptInit
  <2>4. QED
    BY <1>4, <1>9, <1>10, <2>1, <2>3, Zenon DEF StackInv
<1>12. QED
  BY <1>11 DEF SectionInv

-----------------------------------------------------------------------------
(* Messages: what the steps of COM keep.                                   *)

(* A frame that copies has closed the interrupts, so it is the innermost. *)
LEMMA CopiesOnTop ==
  ASSUME SectionInv
  PROVE  /\ stack \in Seq(Frame) /\ stack # << >>
         /\ Len(stack) \in 1 .. MaxDepth /\ Len(stack) \in Nat \ {0}
         /\ Top = FrameAt(stack, Len(stack)) /\ Top \in Frame
         /\ \A d \in 1 .. Len(stack) - 1 : FrameAt(stack, d).at \notin Copying
         /\ Top.at \in Copying => Top.all > 0
         /\ intena = ~ (Top.all > 0 \/ Top.at = "disabled")
<1>1. PICK base \in [1 .. MaxDepth -> Nat] : StackInv(base)
  BY DEF SectionInv
<1>2. /\ Len(stack) \in 1 .. MaxDepth /\ Len(stack) \in Nat \ {0} /\ stack # << >>
      /\ Top = FrameAt(stack, Len(stack)) /\ Top \in Frame
      /\ FrameOK(Top, base[Len(stack)], callevel, saved_callevel)
  BY <1>1, Innermost
<1>3. /\ stack \in Seq(Frame) /\ OrderOK(stack)
      /\ FramesOK(stack, base, callevel, saved_callevel)
      /\ intena = ~ (Top.all > 0 \/ Top.at = "disabled")
  BY <1>1 DEF StackInv
<1>4. ASSUME NEW d \in 1 .. Len(stack) - 1
      PROVE  FrameAt(stack, d).at \notin Copying
  <2>1. FrameOK(FrameAt(stack, d), base[d], FrameAt(stack, d + 1).cl, saved_callevel)
    BY <1>2, <1>3 DEF FramesOK
  <2>2. FrameAt(stack, d).all = 0
    BY <1>3 DEF OrderOK
  <2>3. QED
    BY <2>1, <2>2 DEF FrameOK
<1>5. Top.at \in Copying => Top.all > 0
  BY <1>2 DEF FrameOK
<1>6. QED
  BY <1>2, <1>3, <1>4, <1>5

(* The innermost frame moves; what it writes is its own copy, and the      *)
(* buffer only if COM is not being started below it.                       *)
LEMMA CopyStep ==
  ASSUME SectionInv, MessageInv, NEW f \in Frame, Goes(f),
         COMStarted' \in BOOLEAN,
         msgbuf' \in [Part -> Contents],
         data' \in [1 .. MaxDepth -> [Part -> Contents]],
         \A d \in 1 .. MaxDepth : d # Len(stack) => data'[d] = data[d],
         f.at \in Exchanging => COMStarted',
         f.at \in Starting => ~ COMStarted' /\ Len(stack) = 1,
         COMStarted' = COMStarted \/ Len(stack) = 1,
         CopyOK(f, msgbuf', data'[Len(stack)]),
         IF f.at = "start2" THEN msgbuf'[1] = NoMsg
         ELSE IF Len(stack) > 1 /\ FrameAt(stack, 1).at = "start2" THEN msgbuf' = msgbuf
         ELSE IF f.at = "fill2" THEN msgbuf'[1] = data'[Len(stack)][1]
         ELSE IsWhole(msgbuf')
  PROVE  MessageInv'
<1> DEFINE n == Len(stack)
<1>1. /\ stack \in Seq(Frame) /\ stack # << >> /\ n \in 1 .. MaxDepth /\ n \in Nat \ {0}
      /\ \A d \in 1 .. n - 1 : FrameAt(stack, d).at \notin Copying
  BY CopiesOnTop
<1>2. /\ Len(stack') = n /\ FrameAt(stack', n) = f
      /\ \A d \in 1 .. n - 1 : FrameAt(stack', d) = FrameAt(stack, d)
  BY <1>1, Replaced DEF Goes
<1>3. /\ StartedOK(stack, COMStarted) /\ BufferOK(stack, msgbuf, data)
      /\ \A d \in 1 .. n : CopyOK(FrameAt(stack, d), msgbuf, data[d])
  BY DEF MessageInv
<1>4. StartedOK(stack', COMStarted')
  <2>1. ASSUME NEW d \in 1 .. n - 1
        PROVE  /\ FrameAt(stack', d).at \in Exchanging => COMStarted'
               /\ FrameAt(stack', d).at \in Starting => ~ COMStarted' /\ d = 1
    <3>1. n # 1 /\ d \in 1 .. n
      BY ONLY <1>1, <2>1, Places
    <3>2. COMStarted' = COMStarted
      BY <3>1
    <3>3. QED
      BY <1>2, <1>3, <3>1, <3>2 DEF StartedOK
  <2>2. ASSUME NEW d \in 1 .. n
        PROVE  /\ FrameAt(stack', d).at \in Exchanging => COMStarted'
               /\ FrameAt(stack', d).at \in Starting => ~ COMStarted' /\ d = 1
    <3>1. d \in 1 .. n - 1 \/ d = n
      BY <1>1
    <3>2. QED
      BY <1>2, <2>1, <3>1
  <2>3. QED
    BY <1>2, <2>2 DEF StartedOK
<1>5. BufferOK(stack', msgbuf', data')
  <2>1. CASE n = 1
    <3>1. FrameAt(stack', 1) = f /\ ~ (n > 1)
      BY <1>2, <2>1
    <3>2. QED
      BY <1>2, <2>1, <3>1 DEF BufferOK
  <2>2. CASE n # 1
    <3>1. 1 \in 1 .. n - 1 /\ n > 1
      BY ONLY <1>1, <2>2, Places
    <3>2. FrameAt(stack', 1) = FrameAt(stack, 1) /\ f.at # "start2"
      BY <1>2, <2>2, <3>1 DEF Starting
    <3>3. CASE FrameAt(stack, 1).at = "start2"
      BY <1>3, <3>1, <3>2, <3>3 DEF BufferOK
    <3>4. CASE FrameAt(stack, 1).at # "start2"
      BY <1>2, <3>1, <3>2, <3>4 DEF BufferOK
    <3>5. QED
      BY <3>3, <3>4
  <2>3. QED
    BY <2>1, <2>2
<1>6. ASSUME NEW d \in 1 .. n
      PROVE  CopyOK(FrameAt(stack', d), msgbuf', data'[d])
  <2>1. CASE d = n
    BY <1>2, <2>1
  <2>2. CASE d # n
    <3>1. d \in 1 .. n - 1 /\ d \in 1 .. MaxDepth
      <4>1. d \in 1 .. n - 1
        BY ONLY <1>1, <1>6, <2>2, Places
      <4>2. d \in 1 .. MaxDepth
        BY ONLY <1>1, <1>6, Configured
      <4>3. QED
        BY <4>1, <4>2
    <3>2. /\ FrameAt(stack', d) = FrameAt(stack, d) /\ data'[d] = data[d]
          /\ FrameAt(stack, d).at \notin Copying
      BY <1>1, <1>2, <2>2, <3>1
    <3>3. CopyOK(FrameAt(stack, d), msgbuf, data[d])
      BY <1>3
    <3>4. QED
      BY <3>2, <3>3 DEF CopyOK, Copying
  <2>3. QED
    BY <2>1, <2>2
<1>7. QED
  BY <1>2, <1>4, <1>5, <1>6 DEF MessageInv

(* What an invariant buffer holds when the innermost frame copies nothing. *)
LEMMA BufferWhole ==
  ASSUME SectionInv, MessageInv, Top.at # "fill2",
         Len(stack) = 1 => Top.at # "start2"
  PROVE  \/ IsWhole(msgbuf)
         \/ Len(stack) > 1 /\ FrameAt(stack, 1).at = "start2" /\ ~ COMStarted
<1>1. Top = FrameAt(stack, Len(stack)) /\ Len(stack) \in Nat \ {0}
  BY CopiesOnTop
<1>2. BufferOK(stack, msgbuf, data) /\ StartedOK(stack, COMStarted)
  BY DEF MessageInv
<1>3. CASE FrameAt(stack, 1).at = "start2"
  <2>1. Len(stack) > 1 /\ 1 \in 1 .. Len(stack)
    <3>1. Len(stack) # 1
      BY <1>1, <1>3
    <3>2. QED
      BY ONLY <1>1, <3>1, Places
  <2>2. QED
    BY <1>2, <1>3, <2>1 DEF StartedOK, Starting
<1>4. CASE FrameAt(stack, 1).at # "start2"
  BY <1>1, <1>2, <1>4 DEF BufferOK
<1>5. QED
  BY <1>3, <1>4

(* A step of the interrupt services changes no message. *)
LEMMA QuietMove ==
  ASSUME SectionInv, MessageInv, NEW f \in Frame, Goes(f),
         f.at \notin Exchanging \cup Starting, Top.at \notin Exchanging \cup Starting,
         UNCHANGED <<COMStarted, msgbuf, data>>
  PROVE  MessageInv'
<1>1. /\ COMStarted \in BOOLEAN /\ msgbuf \in [Part -> Contents]
      /\ data \in [1 .. MaxDepth -> [Part -> Contents]]
  BY DEF MessageInv
<1>2. CopyOK(f, msgbuf', data'[Len(stack)])
  BY DEF CopyOK, Exchanging, Copying
<1>3. f.at \notin {"start2", "fill2"} /\ Top.at \notin {"start2", "fill2"}
  BY DEF Exchanging, Copying, Starting
<1>4. IsWhole(msgbuf) \/ (Len(stack) > 1 /\ FrameAt(stack, 1).at = "start2")
  BY <1>3, BufferWhole
<1>5. QED
  BY <1>1, <1>2, <1>3, <1>4, CopyStep

LEMMA QuietPush ==
  ASSUME SectionInv, MessageInv, NEW f \in Frame, f.at = "out",
         stack' = <<f>> \o stack, intena,
         UNCHANGED <<COMStarted, msgbuf, data>>
  PROVE  MessageInv'
<1> DEFINE n == Len(stack)
<1>1. /\ stack \in Seq(Frame) /\ stack # << >> /\ n \in Nat \ {0}
      /\ Top = FrameAt(stack, n)
  BY CopiesOnTop
<1>2. Top.at \notin Copying
  <2>1. /\ intena = ~ (Top.all > 0 \/ Top.at = "disabled")
        /\ Top.at \in Copying => Top.all > 0
    BY CopiesOnTop
  <2>2. QED
    BY <2>1, Zenon
<1>3. /\ Len(stack') = n + 1 /\ FrameAt(stack', n + 1) = f
      /\ \A d \in 1 .. n : FrameAt(stack', d) = FrameAt(stack, d)
  BY <1>1, Pushed
<1>4. /\ StartedOK(stack, COMStarted) /\ BufferOK(stack, msgbuf, data)
      /\ \A d \in 1 .. n : CopyOK(FrameAt(stack, d), msgbuf, data[d])
      /\ COMStarted \in BOOLEAN /\ msgbuf \in [Part -> Contents]
      /\ data \in [1 .. MaxDepth -> [Part -> Contents]]
  BY DEF MessageInv
<1>5. \A d \in 1 .. n + 1 : d \in 1 .. n \/ d = n + 1
  BY <1>1
<1>6. StartedOK(stack', COMStarted)
  BY <1>3, <1>4, <1>5 DEF StartedOK, Exchanging, Copying, Starting
<1>7. BufferOK(stack', msgbuf, data)
  <2>1. FrameAt(stack', 1) = FrameAt(stack, 1) /\ 1 \in 1 .. n
    BY <1>1, <1>3
  <2>2. Top.at # "fill2"
    BY <1>2 DEF Copying
  <2>3. QED
    BY <1>1, <1>3, <1>4, <2>1, <2>2 DEF BufferOK
<1>8. \A d \in 1 .. n + 1 : CopyOK(FrameAt(stack', d), msgbuf, data[d])
  BY <1>3, <1>4, <1>5 DEF CopyOK
<1>9. QED
  BY <1>3, <1>4, <1>6, <1>7, <1>8 DEF MessageInv

LEMMA QuietPop ==
  ASSUME SectionInv, MessageInv, Top.at = "out", Len(stack) > 1,
         stack' = Tail(stack), UNCHANGED <<COMStarted, msgbuf, data>>
  PROVE  MessageInv'
<1> DEFINE n == Len(stack)
<1>1. /\ stack \in Seq(Frame) /\ n \in Nat \ {0} /\ Top = FrameAt(stack, n)
      /\ \A d \in 1 .. n - 1 : FrameAt(stack, d).at \notin Copying
  BY CopiesOnTop
<1>2. /\ Len(stack') = n - 1
      /\ \A d \in 1 .. n - 1 : FrameAt(stack', d) = FrameAt(stack, d)
  BY <1>1, Popped
<1>3. /\ StartedOK(stack, COMStarted) /\ BufferOK(stack, msgbuf, data)
      /\ \A d \in 1 .. n : CopyOK(FrameAt(stack, d), msgbuf, data[d])
      /\ COMStarted \in BOOLEAN /\ msgbuf \in [Part -> Contents]
      /\ data \in [1 .. MaxDepth -> [Part -> Contents]]
  BY DEF MessageInv
<1>4. \A d \in 1 .. n - 1 : d \in 1 .. n
  BY <1>1
<1>5. StartedOK(stack', COMStarted)
  BY <1>2, <1>3, <1>4 DEF StartedOK
<1>6. BufferOK(stack', msgbuf, data)
  <2>1. 1 \in 1 .. n - 1 /\ n - 1 \in 1 .. n - 1
    BY <1>1
  <2>2. FrameAt(stack', 1) = FrameAt(stack, 1) /\ FrameAt(stack', n - 1).at # "fill2"
    BY <1>1, <1>2, <2>1 DEF Copying
  <2>3. QED
    BY <1>1, <1>2, <1>3, <2>2 DEF BufferOK
<1>7. QED
  BY <1>2, <1>3, <1>4, <1>5, <1>6 DEF MessageInv

LEMMA QuietGoes ==
  ASSUME SectionInv, SectionInv', MessageInv, NEW f, Goes(f),
         f.at \notin Exchanging \cup Starting, Top.at \notin Exchanging \cup Starting,
         UNCHANGED <<COMStarted, msgbuf, data>>
  PROVE  MessageInv'
<1>1. stack \in Seq(Frame) /\ stack # << >>
  BY CopiesOnTop
<1>2. stack' \in Seq(Frame)
  BY DEF SectionInv, StackInv
<1>3. stack \in Seq(Frame \cup {f})
  BY <1>1, SeqMonotonic
<1>4. f \in Frame \cup {f}
  OBVIOUS
<1>5. Head(stack') = f /\ Len(stack') = Len(stack) /\ Len(stack) # 0
  BY <1>1, <1>3, <1>4, Replaced DEF Goes
<1>6. stack' # << >>
  BY <1>5
<1>7. f \in Frame
  BY <1>2, <1>5, <1>6, HeadTailProperties
<1>8. QED
  BY <1>7, QuietMove

(* No service of interrupt.c touches a message. *)
LEMMA InterruptQuiet ==
  ASSUME SectionInv, SectionInv', MessageInv, InterruptNext,
         UNCHANGED <<COMStarted, msgbuf, data>>
  PROVE  MessageInv'
<1> DEFINE Quiet(f) == Goes(f) /\ f.at \notin Exchanging \cup Starting
<1>1. Top \in Frame /\ callevel \in CallLevel
  BY CopiesOnTop DEF SectionInv, StackInv
<1>2. /\ "out" \notin Exchanging \cup Starting
      /\ "disabled" \notin Exchanging \cup Starting
      /\ "sus_inc" \notin Exchanging \cup Starting
      /\ "sus_save" \notin Exchanging \cup Starting
      /\ "sus_null" \notin Exchanging \cup Starting
      /\ "res_dec" \notin Exchanging \cup Starting
  BY DEF Exchanging, Copying, Starting
<1>3. SUFFICES \/ (\E f : Quiet(f)) /\ Top.at \notin Exchanging \cup Starting
               \/ intena /\ \E f \in Frame : f.at = "out" /\ stack' = <<f>> \o stack
               \/ Top.at = "out" /\ Len(stack) > 1 /\ stack' = Tail(stack)
  BY QuietGoes, QuietPush, QuietPop
<1>4. CASE DisableAllInterrupts
  <2>1. [Top EXCEPT !.at = "disabled"].at = "disabled"
    BY <1>1 DEF Frame
  <2>2. QED
    BY <1>2, <1>4, <2>1 DEF DisableAllInterrupts, MovesTo, At
<1>5. CASE EnableAllInterrupts
  <2>1. [Top EXCEPT !.at = "out"].at = "out"
    BY <1>1 DEF Frame
  <2>2. QED
    BY <1>2, <1>5, <2>1 DEF EnableAllInterrupts, MovesTo, At
<1>6. CASE At("out") /\ Top.all < MaxOpen /\ SuspendAllInterrupts("out")
  <2>1. [Top EXCEPT !.at = "out", !.all = @ + 1].at = "out"
    BY <1>1 DEF Frame
  <2>2. QED
    BY <1>2, <1>6, <2>1 DEF SuspendAllInterrupts, At
<1>7. CASE At("out") /\ ResumeAllInterrupts("out")
  <2>1. [Top EXCEPT !.at = "out", !.all = @ - 1].at = "out"
    BY <1>1 DEF Frame
  <2>2. QED
    BY <1>2, <1>7, <2>1 DEF ResumeAllInterrupts, At
<1>8. CASE SuspendOS_Test
  <2>1. [Top EXCEPT !.at = "sus_inc"].at = "sus_inc" /\ [Top EXCEPT !.os = @ + 1].at = Top.at
    BY <1>1 DEF Frame
  <2>2. QED
    BY <1>2, <1>8, <2>1 DEF SuspendOS_Test, MovesTo, At
<1>9. CASE SuspendOS_Count
  <2>1. [Top EXCEPT !.at = "sus_save"].at = "sus_save"
        /\ [Top EXCEPT !.at = "out", !.os = @ + 1].at = "out"
    BY <1>1 DEF Frame
  <2>2. QED
    BY <1>2, <1>9, <2>1 DEF SuspendOS_Count, MovesTo, At
<1>10. CASE SuspendOS_Save
  <2>1. [Top EXCEPT !.at = "sus_null"].at = "sus_null"
    BY <1>1 DEF Frame
  <2>2. QED
    BY <1>2, <1>10, <2>1 DEF SuspendOS_Save, MovesTo, At
<1>11. CASE SuspendOS_Null
  <2>1. [Top EXCEPT !.at = "out", !.os = @ + 1].at = "out"
    BY <1>1 DEF Frame
  <2>2. QED
    BY <1>2, <1>11, <2>1 DEF SuspendOS_Null, At
<1>12. CASE ResumeOS_Test
  <2>1. [Top EXCEPT !.at = "res_dec"].at = "res_dec" /\ [Top EXCEPT !.os = @ - 1].at = Top.at
    BY <1>1 DEF Frame
  <2>2. QED
    BY <1>2, <1>12, <2>1 DEF ResumeOS_Test, MovesTo, At
<1>13. CASE ResumeOS_Count
  <2>1. [Top EXCEPT !.at = "out", !.os = @ - 1].at = "out"
    BY <1>1 DEF Frame
  <2>2. QED
    BY <1>2, <1>13, <2>1 DEF ResumeOS_Count, At
<1>14. ASSUME NEW who \in Who
       PROVE  FrameOf(who) \in Frame /\ FrameOf(who).at = "out"
  BY <1>1 DEF FrameOf, Frame, Point
<1>15. CASE _interrupt
  BY <1>14, <1>15 DEF _interrupt, Who
<1>16. CASE call_errorhook
  <2>1. intena
    <3>1. sus_all_cnt = 0 /\ Top.at = "out"
      BY <1>16 DEF call_errorhook, At
    <3>2. sus_all_cnt = Top.all
      BY DEF SectionInv, StackInv
    <3>3. ~ (Top.all > 0 \/ Top.at = "disabled")
      BY <3>1, <3>2
    <3>4. QED
      BY <3>3, CopiesOnTop, Zenon
  <2>2. QED
    BY <1>14, <1>16, <2>1 DEF call_errorhook, Who
<1>17. PICK base \in [1 .. MaxDepth -> Nat] : StackInv(base)
  BY DEF SectionInv
<1>18. CASE int_return
  <2>1. Top.who \notin Task /\ Top.at = "out"
    BY <1>18, Configured DEF int_return, Ends, At
  <2>2. Len(stack) > 1
    BY <1>17, <2>1, NotOutermost
  <2>3. ASSUME NEW t \in Task
        PROVE  [FrameOf(t) EXCEPT !.cl = Top.cl].at = "out"
    BY DEF FrameOf
  <2>4. QED
    BY <1>2, <1>18, <2>1, <2>2, <2>3 DEF int_return, Goes
<1>19. CASE TaskEnds
  BY <1>19 DEF TaskEnds, Ends, At
<1>20. CASE ErrorHookReturns
  <2>1. Top.who \notin Task /\ Top.at = "out"
    BY <1>20, Configured DEF ErrorHookReturns, Ends, At
  <2>2. Len(stack) > 1
    BY <1>17, <2>1, NotOutermost
  <2>3. QED
    BY <1>20, <2>1, <2>2 DEF ErrorHookReturns
<1>21. QED
  BY <1>4, <1>5, <1>6, <1>7, <1>8, <1>9, <1>10, <1>11, <1>12, <1>13, <1>15,
     <1>16, <1>18, <1>19, <1>20 DEF InterruptNext

-----------------------------------------------------------------------------
(* The steps of COM.                                                       *)

LEMMA StackStays ==
  ASSUME SectionInv, UNCHANGED interruptVars
  PROVE  SectionInv'
<1>1. PICK base \in [1 .. MaxDepth -> Nat] : StackInv(base)
  BY DEF SectionInv
<1>2. /\ stack' = stack /\ callevel' = callevel /\ saved_callevel' = saved_callevel
      /\ sus_all_cnt' = sus_all_cnt /\ sus_os_cnt' = sus_os_cnt /\ intena' = intena
      /\ Top' = Top
  BY DEF interruptVars, Top
<1>3. StackInv(base)'
  BY <1>1, <1>2, Zenon DEF StackInv
<1>4. QED
  BY <1>3 DEF SectionInv

LEMMA Walks ==
  ASSUME SectionInv,
         NEW at \in Point \ {"disabled", "sus_inc", "sus_save", "sus_null", "res_dec"},
         MovesTo(at),
         Top.at \notin {"disabled", "sus_inc", "sus_save", "sus_null", "res_dec"},
         at \in Copying <=> Top.at \in Copying,
         UNCHANGED <<callevel, saved_callevel, sus_all_cnt, sus_os_cnt, intena>>
  PROVE  SectionInv'
BY MovesOn DEF SectionInv

LEMMA Opens ==
  ASSUME SectionInv, Top.at \in {"send", "init", "receive"},
         NEW at \in Copying, SuspendAllInterrupts(at)
  PROVE  SectionInv'
<1>1. at # "out" /\ at \in {"out"} \cup Copying /\ Top.at \in {"out", "send", "init", "receive"}
  BY DEF Copying
<1>2. PICK base \in [1 .. MaxDepth -> Nat] : StackInv(base)
  BY DEF SectionInv
<1>3. StackInv(base)'
  BY <1>1, <1>2, Suspends
<1>4. QED
  BY <1>3 DEF SectionInv

LEMMA Closes ==
  ASSUME SectionInv, Top.at \in {"filled", "fetched"},
         NEW at \in {"out", "received"}, ResumeAllInterrupts(at)
  PROVE  SectionInv'
<1>1. PICK base \in [1 .. MaxDepth -> Nat] : StackInv(base)
  BY DEF SectionInv
<1>2. StackInv(base)'
  BY <1>1, Resumes
<1>3. QED
  BY <1>2 DEF SectionInv

(* COM closes the sections that it opens, and copies only inside of them. *)
LEMMA ComSection ==
  ASSUME SectionInv,
         SendMessage \/ InitMessage \/ RecieveMessage \/ StartCOM \/ StopCOM
  PROVE  SectionInv'
<1> DEFINE Own(at) == at \in Point \ {"disabled", "sus_inc", "sus_save", "sus_null", "res_dec"}
<1>1. /\ \A at \in Exchanging \cup Starting \cup {"out"} : Own(at)
      /\ Copying \subseteq Exchanging
      /\ {"send", "init", "receive", "received", "out"} \cap Copying = {}
      /\ Starting \cap Copying = {}
  BY DEF Point, Exchanging, Copying, Starting
<1>2. ASSUME NEW at \in {"send", "init", "receive", "start1"}, NEW d, Calls(at, d)
      PROVE  SectionInv'
  BY <1>1, <1>2, Walks DEF Calls, At, Exchanging, Starting
<1>3. ASSUME NEW at \in {"fill1", "fill2"}, NEW p, NEW next \in {"fill2", "filled"},
             Fills(at, p, next)
      PROVE  SectionInv'
  BY <1>1, <1>3, Walks DEF Fills, At, Exchanging, Copying
<1>4. ASSUME NEW at \in {"fetch1", "fetch2"}, NEW p, NEW next \in {"fetch2", "fetched"},
             Fetches(at, p, next)
      PROVE  SectionInv'
  BY <1>1, <1>4, Walks DEF Fetches, At, Exchanging, Copying
<1>5. CASE SendMessage
  BY <1>2, <1>3, <1>5, Opens, Closes DEF SendMessage, At, Copying
<1>6. CASE InitMessage
  BY <1>2, <1>6, Opens DEF InitMessage, At, Copying
<1>7. CASE RecieveMessage
  <2>1. CASE At("received") /\ MovesTo("out")
             /\ UNCHANGED <<callevel, saved_callevel, sus_all_cnt, sus_os_cnt, intena>>
    BY <1>1, <2>1, Walks DEF At
  <2>2. QED
    BY <1>2, <1>4, <1>7, <2>1, Opens, Closes DEF RecieveMessage, At, Copying
<1>8. ASSUME NEW at \in Starting, NEW p, NEW next \in {"start2", "out"}, Clears(at, p, next)
      PROVE  SectionInv'
  BY <1>1, <1>8, Walks DEF Clears, At, Starting
<1>9. CASE StartCOM
  BY <1>2, <1>8, <1>9 DEF StartCOM, Starting
<1>10. CASE StopCOM
  BY <1>10, StackStays DEF StopCOM
<1>11. QED
  BY <1>5, <1>6, <1>7, <1>9, <1>10

(* What MessageInv says where the innermost frame stands. *)
LEMMA Standing ==
  ASSUME SectionInv, MessageInv
  PROVE  /\ Len(stack) \in 1 .. MaxDepth /\ Len(stack) \in Nat \ {0} /\ Top \in Frame
         /\ COMStarted \in BOOLEAN /\ msgbuf \in [Part -> Contents]
         /\ data \in [1 .. MaxDepth -> [Part -> Contents]]
         /\ data[Len(stack)] \in [Part -> Contents]
         /\ CopyOK(Top, msgbuf, data[Len(stack)])
         /\ Top.at \in Exchanging => COMStarted
         /\ Top.at \in Starting => ~ COMStarted /\ Len(stack) = 1
         /\ BufferOK(stack, msgbuf, data)
         /\ FrameAt(stack, 1).at = "start2" => ~ COMStarted
<1>1. /\ Len(stack) \in 1 .. MaxDepth /\ Len(stack) \in Nat \ {0}
      /\ Top \in Frame /\ Top = FrameAt(stack, Len(stack))
  BY CopiesOnTop
<1>2. Len(stack) \in 1 .. Len(stack) /\ 1 \in 1 .. Len(stack)
  BY <1>1
<1>3. /\ COMStarted \in BOOLEAN /\ msgbuf \in [Part -> Contents]
      /\ data \in [1 .. MaxDepth -> [Part -> Contents]]
      /\ StartedOK(stack, COMStarted) /\ BufferOK(stack, msgbuf, data)
      /\ \A d \in 1 .. Len(stack) : CopyOK(FrameAt(stack, d), msgbuf, data[d])
  BY DEF MessageInv
<1>4. /\ Top.at \in Exchanging => COMStarted
      /\ Top.at \in Starting => ~ COMStarted /\ Len(stack) = 1
      /\ FrameAt(stack, 1).at = "start2" => ~ COMStarted
  BY <1>1, <1>2, <1>3 DEF StartedOK, Starting
<1>5. CopyOK(Top, msgbuf, data[Len(stack)])
  BY <1>1, <1>2, <1>3
<1>6. QED
  BY <1>1, <1>3, <1>4, <1>5

LEMMA MovesAt ==
  ASSUME NEW at \in Point, Top \in Frame
  PROVE  [Top EXCEPT !.at = at] \in Frame /\ [Top EXCEPT !.at = at].at = at
BY DEF Frame

LEMMA WholeIs ==
  ASSUME NEW m \in Contents
  PROVE  /\ Whole(m) \in [Part -> Contents] /\ IsWhole(Whole(m))
         /\ Whole(m)[1] = m /\ Whole(m)[2] = m
BY DEF Whole, IsWhole, Part

(* The frame calls a service of COM. *)
LEMMA CallStep ==
  ASSUME SectionInv, MessageInv, NEW m \in Contents,
         NEW at \in {"send", "init", "receive", "start1"}, Calls(at, Whole(m)),
         IF at = "start1" THEN Len(stack) = 1 /\ ~ COMStarted ELSE COMStarted
  PROVE  MessageInv'
<1> DEFINE n == Len(stack)
           f == [Top EXCEPT !.at = at]
<1>1. n \in 1 .. MaxDepth /\ n \in Nat \ {0} /\ Top.at = "out" /\ Goes(f)
      /\ COMStarted' = COMStarted /\ msgbuf' = msgbuf /\ COMStarted \in BOOLEAN
      /\ msgbuf \in [Part -> Contents] /\ data \in [1 .. MaxDepth -> [Part -> Contents]]
      /\ data' = [data EXCEPT ![n] = Whole(m)]
  BY Standing DEF Calls, At, MovesTo, Depth
<1>2. f \in Frame /\ f.at = at
  BY Standing, MovesAt DEF Point
<1> HIDE DEF f
<1>3. /\ data' \in [1 .. MaxDepth -> [Part -> Contents]] /\ data'[n] = Whole(m)
      /\ \A d \in 1 .. MaxDepth : d # n => data'[d] = data[d]
  BY <1>1, WholeIs
<1>4. CopyOK(f, msgbuf', data'[n])
  BY <1>2, <1>3, WholeIs DEF CopyOK
<1>5. IsWhole(msgbuf) \/ (n > 1 /\ FrameAt(stack, 1).at = "start2")
  BY <1>1, BufferWhole
<1>6. /\ f.at \in Exchanging => COMStarted'
      /\ f.at \in Starting => ~ COMStarted' /\ n = 1
  BY <1>1, <1>2 DEF Exchanging, Copying, Starting
<1>7. QED
  BY <1>1, <1>2, <1>3, <1>4, <1>5, <1>6, CopyStep

(* The frame opens or closes COM's section; it may refuse the message. *)
LEMMA SectionMove ==
  ASSUME SectionInv, MessageInv, NEW f \in Frame, Goes(f),
         UNCHANGED <<COMStarted, msgbuf, data>>,
         \/ Top.at \in {"send", "init"} /\ f.at \in {"fill1", "filled"}
         \/ Top.at = "receive" /\ f.at = "fetch1"
         \/ Top.at = "fetched" /\ f.at = "received"
  PROVE  MessageInv'
<1>1. /\ COMStarted \in BOOLEAN /\ msgbuf \in [Part -> Contents]
      /\ data \in [1 .. MaxDepth -> [Part -> Contents]]
      /\ CopyOK(Top, msgbuf, data[Len(stack)])
      /\ Top.at \in Exchanging => COMStarted
      /\ FrameAt(stack, 1).at = "start2" => ~ COMStarted
  BY Standing
<1>2. Top.at \in Exchanging /\ f.at \notin Starting
  BY DEF Exchanging, Copying, Starting
<1>3. IsWhole(msgbuf)
  BY <1>1, <1>2, BufferWhole
<1>4. CopyOK(f, msgbuf', data'[Len(stack)])
  BY <1>1 DEF CopyOK
<1>5. f.at \notin {"start2", "fill2"} /\ FrameAt(stack, 1).at # "start2"
  BY <1>1, <1>2
<1>6. QED
  BY <1>1, <1>2, <1>3, <1>4, <1>5, CopyStep

(* The two halves of a message are written to the buffer. *)
LEMMA FillStep ==
  ASSUME SectionInv, MessageInv,
         Fills("fill1", 1, "fill2") \/ Fills("fill2", 2, "filled")
  PROVE  MessageInv'
<1> DEFINE n == Len(stack)
           x == data[n]
<1>1. /\ COMStarted \in BOOLEAN /\ msgbuf \in [Part -> Contents]
      /\ data \in [1 .. MaxDepth -> [Part -> Contents]] /\ x \in [Part -> Contents]
      /\ CopyOK(Top, msgbuf, x) /\ BufferOK(stack, msgbuf, data)
      /\ Top.at \in Exchanging => COMStarted
      /\ FrameAt(stack, 1).at = "start2" => ~ COMStarted
      /\ Top \in Frame /\ Top = FrameAt(stack, n)
  BY Standing, CopiesOnTop
<1>2. COMStarted' = COMStarted /\ data' = data /\ Top.at \in {"fill1", "fill2"}
  BY DEF Fills, At
<1>3. IsWhole(x) /\ COMStarted /\ FrameAt(stack, 1).at # "start2"
  BY <1>1, <1>2 DEF CopyOK, Exchanging, Copying
<1>4. CASE Fills("fill1", 1, "fill2")
  <2> DEFINE f == [Top EXCEPT !.at = "fill2"]
  <2>1. f \in Frame /\ f.at = "fill2" /\ Goes(f)
    BY <1>1, <1>4, MovesAt DEF Fills, MovesTo, Point
  <2> HIDE DEF f
  <2>2. msgbuf' = [msgbuf EXCEPT ![1] = x[1]]
    BY <1>4 DEF Fills, Local, Depth
  <2>3. msgbuf' \in [Part -> Contents] /\ msgbuf'[1] = x[1]
    BY <1>1, <2>2 DEF Part
  <2>4. CopyOK(f, msgbuf', data'[n])
    BY <1>2, <1>3, <2>1 DEF CopyOK
  <2>5. f.at \notin Starting /\ f.at # "start2"
    BY <2>1 DEF Starting
  <2>6. QED
    BY <1>1, <1>2, <1>3, <2>1, <2>3, <2>4, <2>5, CopyStep
<1>5. CASE Fills("fill2", 2, "filled")
  <2> DEFINE f == [Top EXCEPT !.at = "filled"]
  <2>1. f \in Frame /\ f.at = "filled" /\ Goes(f) /\ Top.at = "fill2"
    BY <1>1, <1>5, MovesAt DEF Fills, MovesTo, Point, At
  <2> HIDE DEF f
  <2>2. msgbuf' = [msgbuf EXCEPT ![2] = x[2]]
    BY <1>5 DEF Fills, Local, Depth
  <2>3. msgbuf[1] = x[1]
    BY <1>1, <1>3, <2>1 DEF BufferOK
  <2>4. msgbuf' \in [Part -> Contents] /\ msgbuf'[1] = x[1] /\ msgbuf'[2] = x[2]
    BY <1>1, <2>2, <2>3 DEF Part
  <2>5. msgbuf' = x
    BY <1>1, <2>4 DEF Part
  <2>6. CopyOK(f, msgbuf', data'[n])
    BY <2>1 DEF CopyOK
  <2>7. f.at \notin Starting /\ f.at \notin {"start2", "fill2"} /\ IsWhole(msgbuf')
    BY <1>3, <2>1, <2>5 DEF Starting
  <2>8. QED
    BY <1>1, <1>2, <1>3, <2>1, <2>4, <2>6, <2>7, CopyStep
<1>6. QED
  BY <1>4, <1>5

(* They are read from it. *)
LEMMA FetchStep ==
  ASSUME SectionInv, MessageInv,
         Fetches("fetch1", 1, "fetch2") \/ Fetches("fetch2", 2, "fetched")
  PROVE  MessageInv'
<1> DEFINE n == Len(stack)
           x == data[n]
<1>1. /\ COMStarted \in BOOLEAN /\ msgbuf \in [Part -> Contents] /\ n \in 1 .. MaxDepth
      /\ data \in [1 .. MaxDepth -> [Part -> Contents]] /\ x \in [Part -> Contents]
      /\ CopyOK(Top, msgbuf, x)
      /\ Top.at \in Exchanging => COMStarted
      /\ FrameAt(stack, 1).at = "start2" => ~ COMStarted
      /\ Top \in Frame
  BY Standing
<1>2. COMStarted' = COMStarted /\ msgbuf' = msgbuf /\ Top.at \in {"fetch1", "fetch2"}
  BY DEF Fetches, At
<1>3. COMStarted /\ FrameAt(stack, 1).at # "start2" /\ IsWhole(msgbuf)
  BY <1>1, <1>2, BufferWhole DEF Exchanging, Copying
<1>4. CASE Fetches("fetch1", 1, "fetch2")
  <2> DEFINE f == [Top EXCEPT !.at = "fetch2"]
             y == [x EXCEPT ![1] = msgbuf[1]]
  <2>1. f \in Frame /\ f.at = "fetch2" /\ Goes(f)
    BY <1>1, <1>4, MovesAt DEF Fetches, MovesTo, Point
  <2>2. data' = [data EXCEPT ![n] = y]
    BY <1>4 DEF Fetches, Depth
  <2>3. y \in [Part -> Contents] /\ y[1] = msgbuf[1]
    BY <1>1 DEF Part
  <2> HIDE DEF f, y
  <2>4. /\ data' \in [1 .. MaxDepth -> [Part -> Contents]] /\ data'[n] = y
        /\ \A d \in 1 .. MaxDepth : d # n => data'[d] = data[d]
    BY <1>1, <2>2, <2>3
  <2>5. CopyOK(f, msgbuf', data'[n])
    BY <1>2, <2>1, <2>3, <2>4 DEF CopyOK
  <2>6. f.at \notin Starting /\ f.at \notin {"start2", "fill2"}
    BY <2>1 DEF Starting
  <2>7. QED
    BY <1>1, <1>2, <1>3, <2>1, <2>4, <2>5, <2>6, CopyStep
<1>5. CASE Fetches("fetch2", 2, "fetched")
  <2> DEFINE f == [Top EXCEPT !.at = "fetched"]
             y == [x EXCEPT ![2] = msgbuf[2]]
  <2>1. f \in Frame /\ f.at = "fetched" /\ Goes(f) /\ Top.at = "fetch2"
    BY <1>1, <1>5, MovesAt DEF Fetches, MovesTo, Point, At
  <2>2. data' = [data EXCEPT ![n] = y]
    BY <1>5 DEF Fetches, Depth
  <2>3. x[1] = msgbuf[1]
    BY <1>1, <2>1 DEF CopyOK
  <2>4. y \in [Part -> Contents] /\ y[1] = msgbuf[1] /\ y[2] = msgbuf[2]
    BY <1>1, <2>3 DEF Part
  <2> HIDE DEF f, y
  <2>5. y = msgbuf
    BY <1>1, <2>4 DEF Part
  <2>6. /\ data' \in [1 .. MaxDepth -> [Part -> Contents]] /\ data'[n] = y
        /\ \A d \in 1 .. MaxDepth : d # n => data'[d] = data[d]
    BY <1>1, <2>2, <2>4
  <2>7. CopyOK(f, msgbuf', data'[n])
    BY <1>3, <2>1, <2>5, <2>6 DEF CopyOK
  <2>8. f.at \notin Starting /\ f.at \notin {"start2", "fill2"}
    BY <2>1 DEF Starting
  <2>9. QED
    BY <1>1, <1>2, <1>3, <2>1, <2>6, <2>7, <2>8, CopyStep
<1>6. QED
  BY <1>4, <1>5

(* The service returns; the caller's copy is gone. *)
LEMMA LeaveStep ==
  ASSUME SectionInv, MessageInv, Top.at \in {"filled", "received"},
         NEW f \in Frame, f.at = "out", Goes(f),
         UNCHANGED <<COMStarted, msgbuf>>, data' = [data EXCEPT ![Len(stack)] = Whole(NoMsg)]
  PROVE  MessageInv'
<1> DEFINE n == Len(stack)
<1>1. /\ COMStarted \in BOOLEAN /\ msgbuf \in [Part -> Contents] /\ n \in 1 .. MaxDepth
      /\ data \in [1 .. MaxDepth -> [Part -> Contents]]
      /\ Top.at \in Exchanging => COMStarted
      /\ FrameAt(stack, 1).at = "start2" => ~ COMStarted
  BY Standing
<1>2. COMStarted /\ FrameAt(stack, 1).at # "start2" /\ IsWhole(msgbuf)
  BY <1>1, BufferWhole DEF Exchanging, Copying
<1>3. NoMsg \in Contents
  BY DEF Contents
<1>4. /\ data' \in [1 .. MaxDepth -> [Part -> Contents]]
      /\ \A d \in 1 .. MaxDepth : d # n => data'[d] = data[d]
  BY <1>1, <1>3, WholeIs
<1>5. CopyOK(f, msgbuf', data'[n])
  BY DEF CopyOK
<1>6. f.at \notin Starting /\ f.at \notin {"start2", "fill2"} /\ f.at \notin Exchanging
  BY DEF Starting, Exchanging, Copying
<1>7. QED
  BY <1>1, <1>2, <1>4, <1>5, <1>6, CopyStep

(* StartCOM clears the buffer while no frame exchanges a message. *)
LEMMA ClearStep ==
  ASSUME SectionInv, MessageInv,
         Clears("start1", 1, "start2") \/ Clears("start2", 2, "out")
  PROVE  MessageInv'
<1> DEFINE n == Len(stack)
<1>1. /\ COMStarted \in BOOLEAN /\ msgbuf \in [Part -> Contents]
      /\ data \in [1 .. MaxDepth -> [Part -> Contents]]
      /\ BufferOK(stack, msgbuf, data)
      /\ Top.at \in Starting => ~ COMStarted /\ n = 1
      /\ Top \in Frame /\ Top = FrameAt(stack, n)
  BY Standing, CopiesOnTop
<1>2. Top.at \in {"start1", "start2"} /\ data' = data
  BY DEF Clears, At
<1>3. n = 1
  BY <1>1, <1>2 DEF Starting
<1>4. NoMsg \in Contents
  BY DEF Contents
<1>5. CASE Clears("start1", 1, "start2")
  <2> DEFINE f == [Top EXCEPT !.at = "start2"]
  <2>1. f \in Frame /\ f.at = "start2" /\ Goes(f)
    BY <1>1, <1>5, MovesAt DEF Clears, MovesTo, Point
  <2> HIDE DEF f
  <2>2. msgbuf' = [msgbuf EXCEPT ![1] = NoMsg] /\ COMStarted' = FALSE
    <3>1. /\ COMStarted' = (COMStarted \/ 1 = 2)
          /\ msgbuf' = [msgbuf EXCEPT ![1] = NoMsg]
      BY <1>5, Zenon DEF Clears
    <3>2. ~ (1 = 2) /\ ~ COMStarted
      BY <1>1, <1>2 DEF Starting
    <3>3. QED
      BY <3>1, <3>2, Zenon
  <2>3. msgbuf' \in [Part -> Contents] /\ msgbuf'[1] = NoMsg
    BY <1>1, <1>4, <2>2 DEF Part
  <2>4. CopyOK(f, msgbuf', data'[n]) /\ f.at \notin Exchanging
    BY <2>1 DEF CopyOK, Exchanging, Copying
  <2>5. QED
    BY <1>1, <1>2, <1>3, <2>1, <2>2, <2>3, <2>4, CopyStep
<1>6. CASE Clears("start2", 2, "out")
  <2> DEFINE f == [Top EXCEPT !.at = "out"]
  <2>1. f \in Frame /\ f.at = "out" /\ Goes(f) /\ Top.at = "start2"
    BY <1>1, <1>6, MovesAt DEF Clears, MovesTo, Point, At
  <2> HIDE DEF f
  <2>2. msgbuf' = [msgbuf EXCEPT ![2] = NoMsg] /\ COMStarted' = TRUE
    BY <1>6 DEF Clears
  <2>3. msgbuf[1] = NoMsg
    BY <1>1, <1>3, <2>1 DEF BufferOK
  <2>4. msgbuf' \in [Part -> Contents] /\ msgbuf'[1] = NoMsg /\ msgbuf'[2] = NoMsg
    BY <1>1, <1>4, <2>2, <2>3 DEF Part
  <2>5. msgbuf' = Whole(NoMsg)
    BY <2>4 DEF Whole, Part
  <2>6. IsWhole(msgbuf')
    BY <1>4, <2>5, WholeIs
  <2>7. CopyOK(f, msgbuf', data'[n]) /\ f.at \notin Exchanging /\ f.at \notin Starting
        /\ f.at \notin {"start2", "fill2"} /\ ~ (n > 1)
    BY <1>3, <2>1 DEF CopyOK, Exchanging, Copying, Starting
  <2>8. QED
    BY <1>1, <1>2, <1>3, <2>1, <2>2, <2>4, <2>6, <2>7, CopyStep
<1>7. QED
  BY <1>5, <1>6

LEMMA StopStep ==
  ASSUME SectionInv, MessageInv, StopCOM
  PROVE  MessageInv'
<1>1. /\ msgbuf \in [Part -> Contents] /\ data \in [1 .. MaxDepth -> [Part -> Contents]]
      /\ BufferOK(stack, msgbuf, data)
      /\ \A d \in 1 .. Len(stack) : CopyOK(FrameAt(stack, d), msgbuf, data[d])
  BY DEF MessageInv
<1>2. Len(stack) = 1 /\ Top.at = "out" /\ stack' = stack /\ msgbuf' = msgbuf
      /\ data' = data /\ COMStarted' = FALSE
  BY DEF StopCOM, Depth, At, interruptVars
<1>3. FrameAt(stack, 1).at = "out"
  BY <1>2, CopiesOnTop
<1>4. StartedOK(stack, FALSE)
  BY <1>2, <1>3 DEF StartedOK, Exchanging, Copying, Starting
<1>5. QED
  BY <1>1, <1>2, <1>4 DEF MessageInv

LEMMA ComMessage ==
  ASSUME SectionInv, MessageInv,
         SendMessage \/ InitMessage \/ RecieveMessage \/ StartCOM \/ StopCOM
  PROVE  MessageInv'
<1>1. Top \in Frame /\ \A m \in Msg : m \in Contents
  BY Standing DEF Contents
<1>2. NoMsg \in Contents
  BY DEF Contents
<1>3. ASSUME NEW at \in Copying, SuspendAllInterrupts(at)
      PROVE  /\ [Top EXCEPT !.at = at, !.all = @ + 1] \in Frame
             /\ [Top EXCEPT !.at = at, !.all = @ + 1].at = at
             /\ Goes([Top EXCEPT !.at = at, !.all = @ + 1])
  <2> DEFINE m == [Top EXCEPT !.at = at]
             f == [Top EXCEPT !.at = at, !.all = @ + 1]
  <2>1. Top.all + 1 \in Nat /\ at \in Point
    BY <1>1 DEF Frame, Point, Copying
  <2>2. m \in Frame /\ m.at = at /\ m.all = Top.all
    BY <1>1, <2>1 DEF Frame
  <2>3. f = [m EXCEPT !.all = Top.all + 1] /\ Goes(f)
    BY <1>3 DEF SuspendAllInterrupts
  <2> HIDE DEF m, f
  <2>4. f \in Frame /\ f.at = at
    BY <2>1, <2>2, <2>3 DEF Frame
  <2>5. QED
    BY <2>3, <2>4 DEF f
<1>4. ASSUME NEW at \in {"out", "received"}, ResumeAllInterrupts(at)
      PROVE  /\ [Top EXCEPT !.at = at, !.all = @ - 1] \in Frame
             /\ [Top EXCEPT !.at = at, !.all = @ - 1].at = at
             /\ Goes([Top EXCEPT !.at = at, !.all = @ - 1])
  <2> DEFINE m == [Top EXCEPT !.at = at]
             f == [Top EXCEPT !.at = at, !.all = @ - 1]
  <2>1. Top.all - 1 \in Nat /\ at \in Point
    BY <1>1, <1>4 DEF Frame, Point, ResumeAllInterrupts
  <2>2. m \in Frame /\ m.at = at /\ m.all = Top.all
    BY <1>1, <2>1 DEF Frame
  <2>3. f = [m EXCEPT !.all = Top.all - 1] /\ Goes(f)
    BY <1>4 DEF ResumeAllInterrupts
  <2> HIDE DEF m, f
  <2>4. f \in Frame /\ f.at = at
    BY <2>1, <2>2, <2>3 DEF Frame
  <2>5. QED
    BY <2>3, <2>4 DEF f
<1>5. CASE SendMessage
  <2>1. CASE COMStarted /\ \E m \in Msg : Calls("send", Whole(m))
    BY <1>1, <2>1, CallStep
  <2>2. CASE At("send") /\ (\E at \in {"fill1", "filled"} : SuspendAllInterrupts(at))
                        /\ UNCHANGED <<COMStarted, msgbuf, data>>
    BY <1>3, <2>2, SectionMove DEF At, Copying
  <2>3. CASE Fills("fill1", 1, "fill2") \/ Fills("fill2", 2, "filled")
    BY <2>3, FillStep
  <2>4. CASE At("filled") /\ ResumeAllInterrupts("out") /\ UNCHANGED <<COMStarted, msgbuf>>
             /\ data' = [data EXCEPT ![Depth] = Whole(NoMsg)]
    BY <1>4, <2>4, LeaveStep DEF At, Depth
  <2>5. QED
    BY <1>5, <2>1, <2>2, <2>3, <2>4 DEF SendMessage
<1>6. CASE InitMessage
  <2>1. CASE COMStarted /\ \E m \in Msg : Calls("init", Whole(m))
    BY <1>1, <2>1, CallStep
  <2>2. CASE At("init") /\ SuspendAllInterrupts("fill1") /\ UNCHANGED <<COMStarted, msgbuf, data>>
    BY <1>3, <2>2, SectionMove DEF At, Copying
  <2>3. QED
    BY <1>6, <2>1, <2>2 DEF InitMessage
<1>7. CASE RecieveMessage
  <2>1. CASE COMStarted /\ Calls("receive", Whole(NoMsg))
    BY <1>2, <2>1, CallStep
  <2>2. CASE At("receive") /\ SuspendAllInterrupts("fetch1") /\ UNCHANGED <<COMStarted, msgbuf, data>>
    BY <1>3, <2>2, SectionMove DEF At, Copying
  <2>3. CASE Fetches("fetch1", 1, "fetch2") \/ Fetches("fetch2", 2, "fetched")
    BY <2>3, FetchStep
  <2>4. CASE At("fetched") /\ ResumeAllInterrupts("received")
             /\ UNCHANGED <<COMStarted, msgbuf, data>>
    BY <1>4, <2>4, SectionMove DEF At
  <2>5. CASE At("received") /\ MovesTo("out") /\ data' = [data EXCEPT ![Depth] = Whole(NoMsg)]
             /\ UNCHANGED <<COMStarted, msgbuf>>
    BY <1>1, <2>5, LeaveStep, MovesAt DEF At, Depth, MovesTo, Point
  <2>6. QED
    BY <1>7, <2>1, <2>2, <2>3, <2>4, <2>5 DEF RecieveMessage
<1>8. CASE StartCOM
  <2>1. CASE Depth = 1 /\ ~ COMStarted /\ Calls("start1", Whole(NoMsg))
    BY <1>2, <2>1, CallStep DEF Depth
  <2>2. QED
    BY <1>8, <2>1, ClearStep DEF StartCOM
<1>9. CASE StopCOM
  BY <1>9, StopStep
<1>10. QED
  BY <1>5, <1>6, <1>7, <1>8, <1>9

-----------------------------------------------------------------------------
(* The invariant and what follows from it.                                 *)

LEMMA Inductive ==
  Spec => []IInv
<1>1. Init => IInv
  <2> SUFFICES ASSUME Init PROVE IInv
    OBVIOUS
  <2>1. SectionInv
    BY SectionStart DEF Init
  <2>2. NoMsg \in Contents
    BY DEF Contents
  <2>3. COMStarted = FALSE /\ msgbuf = Whole(NoMsg)
        /\ data = [d \in 1 .. MaxDepth |-> Whole(NoMsg)] /\ Len(stack) = 1
        /\ Head(stack).at = "out"
    BY DEF Init, InterruptInit, FrameOf
  <2>4. FrameAt(stack, 1).at = "out"
    BY <2>1, <2>3, CopiesOnTop DEF Top
  <2>5. /\ msgbuf \in [Part -> Contents] /\ IsWhole(msgbuf)
        /\ data \in [1 .. MaxDepth -> [Part -> Contents]]
    BY <2>2, <2>3, WholeIs
  <2>6. \A d \in 1 .. Len(stack) : d = 1
    BY <2>3
  <2>7. StartedOK(stack, COMStarted) /\ BufferOK(stack, msgbuf, data)
        /\ \A d \in 1 .. Len(stack) : CopyOK(FrameAt(stack, d), msgbuf, data[d])
    BY <2>3, <2>4, <2>5, <2>6
       DEF StartedOK, BufferOK, CopyOK, Exchanging, Copying, Starting
  <2>8. QED
    BY <2>1, <2>3, <2>5, <2>7 DEF IInv, MessageInv
<1>2. IInv /\ [Next]_vars => IInv'
  <2> SUFFICES ASSUME SectionInv, MessageInv, [Next]_vars PROVE SectionInv' /\ MessageInv'
    BY DEF IInv
  <2>1. CASE InterruptNext /\ UNCHANGED <<COMStarted, msgbuf, data>>
    <3>1. SectionInv'
      BY <2>1, InterruptStep
    <3>2. MessageInv'
      BY <2>1, <3>1, InterruptQuiet
    <3>3. QED
      BY <3>1, <3>2
  <2>2. CASE SendMessage \/ InitMessage \/ RecieveMessage \/ StartCOM \/ StopCOM
    <3>1. SectionInv'
      BY <2>2, ComSection
    <3>2. MessageInv'
      BY <2>2, ComMessage
    <3>3. QED
      BY <3>1, <3>2
  <2>3. CASE UNCHANGED vars
    <3>1. SectionInv'
      BY <2>3, StackStays DEF vars
    <3>2. stack' = stack /\ COMStarted' = COMStarted /\ msgbuf' = msgbuf /\ data' = data
      BY <2>3 DEF vars, interruptVars
    <3>3. MessageInv'
      BY <3>2 DEF MessageInv
    <3>4. QED
      BY <3>1, <3>3
  <2>4. QED
    BY <2>1, <2>2, <2>3 DEF Next
<1>3. QED
  BY <1>1, <1>2, PTL DEF Spec

(* A sequence whose members are in a smaller set. *)
LEMMA SeqNarrow ==
  ASSUME NEW S, NEW T, NEW s \in Seq(S), \A i \in 1 .. Len(s) : s[i] \in T
  PROVE  s \in Seq(T)
<1> DEFINE r == SubSeq(s, 1, Len(s))
<1>1. Len(s) \in Nat /\ 1 \in Int /\ Len(s) \in Int
  BY LenProperties
<1>2. r \in Seq(T)
  BY <1>1, SubSeqProperties
<1>3. \A i \in 1 .. Len(s) : s[i] \in S
  BY ElementOfSeq
<1>4. /\ r \in Seq(S) /\ Len(r) = IF 1 <= Len(s) THEN Len(s) - 1 + 1 ELSE 0
      /\ \A i \in 1 .. Len(s) - 1 + 1 : r[i] = s[1 + i - 1]
  BY <1>1, <1>3, SubSeqProperties
<1> HIDE DEF r
<1>5. Len(r) = Len(s) /\ \A i \in 1 .. Len(s) : s[i] = r[i]
  BY <1>1, <1>4
<1>6. s = r
  BY <1>4, <1>5, SeqEqual
<1>7. QED
  BY <1>2, <1>6

(* The counters of open sections stay below their limit and every frame,   *)
(* message and level is one that the services can have made.               *)
THEOREM InterruptTypes == Spec => []TypeOK
<1> DEFINE F == [who : Who, at : Point, all : 0 .. MaxOpen + 1, os : 0 .. MaxOpen,
                 cl : CallLevel]
<1>1. IInv => TypeOK
  <2> SUFFICES ASSUME SectionInv, MessageInv PROVE TypeOK
    BY DEF IInv
  <2>1. PICK base \in [1 .. MaxDepth -> Nat] : StackInv(base)
    BY DEF SectionInv
  <2>2. /\ stack \in Seq(Frame) /\ Len(stack) \in 1 .. MaxDepth
        /\ callevel \in CallLevel /\ saved_callevel \in CallLevel
        /\ FramesOK(stack, base, callevel, saved_callevel)
        /\ intena = ~ (Top.all > 0 \/ Top.at = "disabled")
    BY <2>1 DEF StackInv
  <2>3. /\ Top \in Frame /\ base[Len(stack)] \in Nat
        /\ FrameOK(Top, base[Len(stack)], callevel, saved_callevel)
        /\ sus_all_cnt = Top.all /\ Len(stack) \in Nat \ {0}
        /\ sus_os_cnt = base[Len(stack)] + Counted(Top)
        /\ base[Len(stack)] <= (Len(stack) - 1) * MaxOpen
    BY <2>1, Innermost
  <2>4. ASSUME NEW f \in Frame, NEW b, NEW level, NEW saved, FrameOK(f, b, level, saved)
        PROVE  f \in F
    <3>1. f.all \in 0 .. MaxOpen + 1 /\ f.os \in 0 .. MaxOpen
      BY <2>4, Configured DEF FrameOK, Frame
    <3>2. QED
      BY <3>1 DEF Frame
  <2> HIDE DEF F
  <2>5. ASSUME NEW i \in 1 .. Len(stack)
        PROVE  stack[i] \in F
    <3>1. Len(stack) - i + 1 \in 1 .. Len(stack)
      BY <2>3
    <3>2. Len(stack) - (Len(stack) - i + 1) + 1 = i
      BY <2>3
    <3>3. FrameAt(stack, Len(stack) - i + 1) = stack[i] /\ stack[i] \in Frame
      BY <2>2, <3>2, ElementOfSeq DEF FrameAt
    <3>4. QED
      BY <2>2, <2>4, <3>1, <3>3 DEF FramesOK
  <2>6. stack \in Seq(F)
    BY <2>2, <2>5, SeqNarrow
  <2>7. sus_all_cnt \in 0 .. UINT8_INVALID
    BY <2>3, Configured DEF FrameOK, Frame
  <2>8. sus_os_cnt \in 0 .. UINT8_INVALID
    <3> DEFINE below == (Len(stack) - 1) * MaxOpen
               all   == Len(stack) * MaxOpen
    <3>1. all = below + MaxOpen /\ below \in Nat /\ base[Len(stack)] <= below
          /\ all < UINT8_INVALID
      BY <2>2, <2>3, Configured
    <3> HIDE DEF below, all
    <3>2. Counted(Top) \in 0 .. MaxOpen
      BY <2>3, CountedBound
    <3>3. QED
      BY <2>3, <3>1, <3>2, Configured
  <2>9. intena \in BOOLEAN
    BY <2>2
  <2>10. COMStarted \in BOOLEAN /\ msgbuf \in [Part -> Contents]
         /\ data \in [1 .. MaxDepth -> [Part -> Contents]]
    BY DEF MessageInv
  <2>11. QED
    BY <2>2, <2>6, <2>7, <2>8, <2>9, <2>10 DEF TypeOK, F, Contents
<1>2. QED
  BY <1>1, Inductive, PTL

(* SuspendAllInterrupts and DisableAllInterrupts keep every handler and    *)
(* task out until the last section closes, however they nest and cross.    *)
THEOREM SectionsExclude == Spec => []SectionExclusive
<1>1. IInv => SectionExclusive
  <2> SUFFICES ASSUME SectionInv PROVE SectionExclusive
    BY DEF IInv
  <2>1. PICK base \in [1 .. MaxDepth -> Nat] : StackInv(base)
    BY DEF SectionInv
  <2>2. /\ stack \in Seq(Frame) /\ OrderOK(stack)
        /\ intena = ~ (Top.all > 0 \/ Top.at = "disabled")
    BY <2>1 DEF StackInv
  <2>3. /\ Len(stack) \in Nat \ {0} /\ Top = FrameAt(stack, Len(stack)) /\ Top \in Frame
    BY <2>1, Innermost
  <2>4. ASSUME NEW i \in 1 .. Len(stack), stack[i].all > 0 \/ stack[i].at = "disabled"
        PROVE  i = 1 /\ ~ intena
    <3>1. Len(stack) - (Len(stack) - i + 1) + 1 = i
      BY <2>3
    <3>2. FrameAt(stack, Len(stack) - i + 1) = stack[i]
      BY <3>1 DEF FrameAt
    <3>3. ~ (Len(stack) - i + 1 \in 1 .. Len(stack) - 1)
      <4>1. ~ (0 > 0)
        OBVIOUS
      <4>2. QED
        BY <2>2, <2>4, <3>2, <4>1 DEF OrderOK
    <3>4. i = 1
      BY <2>3, <3>3
    <3>5. stack[i] = Top
      BY <2>3, <3>4 DEF FrameAt
    <3>6. Top.all > 0 \/ Top.at = "disabled"
      BY <2>4, <3>5
    <3>7. QED
      BY <2>2, <3>4, <3>6, Zenon
  <2>5. ~ intena => Top.all > 0 \/ Top.at = "disabled"
    BY <2>2, Zenon
  <2>6. QED
    BY <2>4, <2>5 DEF SectionExclusive
<1>2. QED
  BY <1>1, Inductive, PTL

(* callevel comes back: outside of its sections a handler, a hook or a     *)
(* task runs at its own level, so that its services are accepted.          *)
THEOREM LevelsRestored == Spec => []LevelRestored
<1>1. IInv => LevelRestored
  BY EndsAtLevel DEF IInv, SectionInv, LevelRestored
<1>2. QED
  BY <1>1, Inductive, PTL

(* A message is received as it was sent, never half of one and half of     *)
(* another, whatever sends meanwhile and whenever COM stops and starts.    *)
THEOREM MessagesWhole == Spec => []WholeMessages
<1>1. IInv => WholeMessages
  <2> SUFFICES ASSUME SectionInv, MessageInv, Top.at = "received"
               PROVE  \E m \in Msg \cup {NoMsg} : Local = Whole(m)
    BY DEF IInv, WholeMessages, At
  <2>1. CopyOK(Top, msgbuf, data[Len(stack)])
    BY Standing
  <2>2. QED
    BY <2>1 DEF CopyOK, IsWhole, Contents, Local, Depth
<1>2. QED
  BY <1>1, Inductive, PTL
=============================================================================
