-------------------------- MODULE OsekKernelProofs --------------------------
(***************************************************************************)
(* Proofs about OsekKernel for every set of tasks, resources, events and   *)
(* priorities and any depth of interrupts: the scheduler's data stay exact *)
(* and the highest runnable task runs, resources exclude by their ceilings *)
(* and give back the right priorities, and queues are first in, first out, *)
(* provided that no window with open interrupts lets a handler change      *)
(* schedtsk behind the running task.                                       *)
(***************************************************************************)
EXTENDS OsekKernel, SequenceTheorems, WellFoundedInduction, TLAPS

-----------------------------------------------------------------------------
(* What each scheduling function of task.c does to consistent scheduler    *)
(* data.                                                                   *)

(* A non-empty set of natural numbers has a least element. *)
LEMMA LeastNat ==
  ASSUME NEW T, T \subseteq Nat, T # {}
  PROVE  \E x \in T : \A y \in T : x <= y
<1> DEFINE R == OpToRel(<, Nat)
<1>1. IsWellFoundedOn(R, Nat)
  BY NatLessThanWellFounded
<1>2. PICK x \in T : \A y \in T : ~ (<<y, x>> \in R)
  BY ONLY <1>1, T \subseteq Nat, T # {}, WFMin
<1>3. \A y \in T : ~ (y < x)
  BY <1>2, Zenon DEF OpToRel
<1>4. QED
  BY <1>3

(* bitmap_search finds the highest set bit of a non-empty bitmap. *)
LEMMA BitmapSearchHighest ==
  ASSUME NEW S, S \subseteq Priority, S # {}
  PROVE  bitmap_search(S) \in S /\ \A q \in S : q <= bitmap_search(S)
<1> DEFINE T == {TPRI_MAXTASK - p : p \in S}
<1>1. \A p \in S : p \in Nat /\ p <= TPRI_MAXTASK /\ TPRI_MAXTASK \in Nat
  BY TaskCount DEF Priority, TPRI_MINTASK
<1>2. T \subseteq Nat
  BY <1>1
<1>3. T # {}
  BY S # {}
<1>4. \A q \in S : TPRI_MAXTASK - q \in T
  OBVIOUS
<1>5. \A x \in T : \E p \in S : x = TPRI_MAXTASK - p
  OBVIOUS
<1> HIDE DEF T
<1>9. PICK x \in T : \A y \in T : x <= y
  BY <1>2, <1>3, LeastNat
<1>6. PICK p \in S : x = TPRI_MAXTASK - p
  BY <1>5
<1>7. \A q \in S : q <= p
  BY <1>1, <1>4, <1>9, <1>6
<1>8. QED
  BY <1>7 DEF bitmap_search

-----------------------------------------------------------------------------
(* Inserting a task that is in no queue, at its own priority. *)

LEMMA InsertLast ==
  ASSUME NEW s \in Sched, NEW tcbs, QueuesExact(s, tcbs),
         NEW t \in TaskId, t \notin Placed(s),
         NEW pri \in Priority, tcbs[t].curpri = pri
  PROVE  LET r == ready_insert_last(s, pri, t)
         IN  /\ r \in Sched
             /\ QueuesExact(r, tcbs)
             /\ Placed(r) = Placed(s) \cup {t}
             /\ r.primap = s.primap \cup {pri}
             /\ r.nextpri = s.nextpri
             /\ r.schedtsk = s.schedtsk
<1> DEFINE r == ready_insert_last(s, pri, t)
           q == s.queue[pri]
<1>1. /\ s.queue \in [Priority -> Seq(TaskId)] /\ s.primap \subseteq Priority
      /\ q \in Seq(TaskId)
  BY DEF Sched
<1>2. /\ r.queue = [s.queue EXCEPT ![pri] = Append(q, t)]
      /\ r.primap = s.primap \cup {pri}
      /\ r.nextpri = s.nextpri
      /\ r.schedtsk = s.schedtsk
  BY DEF ready_insert_last, Sched
<1>3. /\ Append(q, t) \in Seq(TaskId) /\ Append(q, t) # <<>>
      /\ Len(Append(q, t)) = Len(q) + 1 /\ Len(q) \in Nat
      /\ \A i \in 1 .. Len(q) : Append(q, t)[i] = q[i]
      /\ Append(q, t)[Len(q) + 1] = t
  BY <1>1, AppendProperties
<1>4. r \in Sched
  BY <1>1, <1>3 DEF ready_insert_last, Sched
<1> DEFINE new == Append(q, t)
<1> HIDE DEF r, new
<1>a. /\ new # <<>> /\ Len(new) = Len(q) + 1 /\ Len(q) \in Nat
      /\ \A i \in 1 .. Len(q) : new[i] = q[i]
      /\ new[Len(q) + 1] = t
  BY <1>3 DEF new
<1>5. /\ r.queue[pri] = new
      /\ \A p \in Priority \ {pri} : r.queue[p] = s.queue[p]
  BY <1>1, <1>2 DEF new
<1> HIDE DEF q
<1>6. \A i \in 1 .. Len(q) : q[i] # t
  BY <1>1 DEF Placed, q
<1>7. QueuesExact(r, tcbs)
  <2>1. ASSUME NEW p \in Priority, NEW i \in 1 .. Len(r.queue[p])
        PROVE  /\ tcbs[r.queue[p][i]].curpri = p
               /\ \A j \in 1 .. Len(r.queue[p]) :
                    r.queue[p][i] = r.queue[p][j] => i = j
    <3>1. CASE p = pri
      <4>1. /\ \A k \in 1 .. Len(q) : tcbs[q[k]].curpri = pri
            /\ \A k, l \in 1 .. Len(q) : q[k] = q[l] => k = l
        BY DEF QueuesExact, q
      <4>2. i \in 1 .. Len(new) /\ r.queue[p] = new
        BY <1>5, <3>1
      <4>3. tcbs[new[i]].curpri = pri
        BY <1>a, <4>1, <4>2
      <4>4. \A j \in 1 .. Len(new) : new[i] = new[j] => i = j
        BY <1>a, <1>6, <4>1, <4>2
      <4>5. QED
        BY <3>1, <4>2, <4>3, <4>4
    <3>2. CASE p # pri
      BY <1>5, <3>2 DEF QueuesExact
    <3>3. QED
      BY <3>1, <3>2
  <2>2. ASSUME NEW p \in Priority
        PROVE  p \in r.primap <=> r.queue[p] # <<>>
    BY <1>2, <1>a, <1>5 DEF QueuesExact
  <2>3. QED
    BY <2>1, <2>2 DEF QueuesExact
<1>8. Placed(r) = Placed(s) \cup {t}
  <2>1. ASSUME NEW u \in Placed(s) PROVE u \in Placed(r)
    <3>1. PICK p \in Priority : \E i \in 1 .. Len(s.queue[p]) : s.queue[p][i] = u
      BY DEF Placed
    <3>2. PICK i \in 1 .. Len(s.queue[p]) : s.queue[p][i] = u
      BY <3>1
    <3>3. i \in 1 .. Len(r.queue[p]) /\ r.queue[p][i] = u
      BY <1>a, <1>5, <3>2 DEF q
    <3>4. QED
      BY <3>3 DEF Placed
  <2>2. t \in Placed(r)
    <3>1. Len(q) + 1 \in 1 .. Len(r.queue[pri]) /\ r.queue[pri][Len(q) + 1] = t
      BY <1>a, <1>5
    <3>2. QED
      BY <3>1 DEF Placed
  <2>3. ASSUME NEW u \in Placed(r), u # t PROVE u \in Placed(s)
    <3>1. PICK p \in Priority : \E i \in 1 .. Len(r.queue[p]) : r.queue[p][i] = u
      BY DEF Placed
    <3>2. PICK i \in 1 .. Len(r.queue[p]) : r.queue[p][i] = u
      BY <3>1
    <3>3. CASE p = pri
      <4>1. i \in 1 .. Len(q) /\ q[i] = u
        BY <1>a, <1>5, <2>3, <3>2, <3>3
      <4>2. QED
        BY <4>1, <3>3 DEF Placed, q
    <3>4. CASE p # pri
      BY <1>5, <3>2, <3>4 DEF Placed
    <3>5. QED
      BY <3>3, <3>4
  <2>4. QED
    BY <2>1, <2>2, <2>3
<1>9. QED
  BY <1>2, <1>4, <1>7, <1>8 DEF r

LEMMA InsertFirst ==
  ASSUME NEW s \in Sched, NEW tcbs, QueuesExact(s, tcbs),
         NEW t \in TaskId, t \notin Placed(s),
         NEW pri \in Priority, tcbs[t].curpri = pri
  PROVE  LET r == ready_insert_first(s, pri, t)
         IN  /\ r \in Sched
             /\ QueuesExact(r, tcbs)
             /\ Placed(r) = Placed(s) \cup {t}
             /\ r.primap = s.primap \cup {pri}
             /\ r.nextpri = s.nextpri
             /\ r.schedtsk = s.schedtsk
<1> DEFINE r == ready_insert_first(s, pri, t)
           q == s.queue[pri]
           new == <<t>> \o q
<1>1. /\ s.queue \in [Priority -> Seq(TaskId)] /\ s.primap \subseteq Priority
      /\ q \in Seq(TaskId)
  BY DEF Sched
<1>2. /\ r.queue = [s.queue EXCEPT ![pri] = new]
      /\ r.primap = s.primap \cup {pri}
      /\ r.nextpri = s.nextpri
      /\ r.schedtsk = s.schedtsk
  BY DEF ready_insert_first, Sched
<1>3. /\ new \in Seq(TaskId) /\ new # <<>>
      /\ Len(new) = Len(q) + 1 /\ Len(q) \in Nat
      /\ new[1] = t
      /\ \A i \in 1 .. Len(q) : new[i + 1] = q[i]
      /\ \A i \in 2 .. Len(q) + 1 : new[i] = q[i - 1]
  <2>1. <<t>> \in Seq(TaskId) /\ Len(<<t>>) = 1 /\ <<t>>[1] = t /\ Len(q) \in Nat
    BY <1>1
  <2>2. /\ new \in Seq(TaskId)
        /\ Len(new) = Len(<<t>>) + Len(q)
        /\ \A i \in 1 .. Len(<<t>>) + Len(q) : new[i] =
              IF i <= Len(<<t>>) THEN <<t>>[i] ELSE q[i - Len(<<t>>)]
    BY <1>1, <2>1, ConcatProperties
  <2>3. QED
    BY <2>1, <2>2
<1>4. r \in Sched
  BY <1>1, <1>3 DEF ready_insert_first, Sched
<1> HIDE DEF r, new
<1>5. /\ r.queue[pri] = new
      /\ \A p \in Priority \ {pri} : r.queue[p] = s.queue[p]
  BY <1>1, <1>2
<1> HIDE DEF q
<1>6. \A i \in 1 .. Len(q) : q[i] # t
  BY <1>1 DEF Placed, q
<1>7. QueuesExact(r, tcbs)
  <2>1. ASSUME NEW p \in Priority, NEW i \in 1 .. Len(r.queue[p])
        PROVE  /\ tcbs[r.queue[p][i]].curpri = p
               /\ \A j \in 1 .. Len(r.queue[p]) :
                    r.queue[p][i] = r.queue[p][j] => i = j
    <3>1. CASE p = pri
      <4>1. /\ \A k \in 1 .. Len(q) : tcbs[q[k]].curpri = pri
            /\ \A k, l \in 1 .. Len(q) : q[k] = q[l] => k = l
        BY DEF QueuesExact, q
      <4>2. i \in 1 .. Len(new) /\ r.queue[p] = new
        BY <1>5, <3>1
      <4>3. tcbs[new[i]].curpri = pri
        BY <1>3, <4>1, <4>2
      <4>4. ASSUME NEW j \in 1 .. Len(new), new[i] = new[j] PROVE i = j
        <5>1. \A k \in 2 .. Len(new) : k - 1 \in 1 .. Len(q) /\ new[k] = q[k - 1]
          BY <1>3
        <5>2. CASE i = 1 \/ j = 1
          BY <1>3, <1>6, <4>2, <4>4, <5>1, <5>2
        <5>3. CASE i # 1 /\ j # 1
          <6>1. i \in 2 .. Len(new) /\ j \in 2 .. Len(new)
            BY <1>3, <4>2, <5>3
          <6>2. i - 1 = j - 1
            BY <4>1, <4>4, <5>1, <6>1
          <6>3. QED
            BY <6>1, <6>2
        <5>4. QED
          BY <5>2, <5>3
      <4>5. QED
        BY <3>1, <4>2, <4>3, <4>4
    <3>2. CASE p # pri
      BY <1>5, <3>2 DEF QueuesExact
    <3>3. QED
      BY <3>1, <3>2
  <2>2. ASSUME NEW p \in Priority
        PROVE  p \in r.primap <=> r.queue[p] # <<>>
    BY <1>2, <1>3, <1>5 DEF QueuesExact
  <2>3. QED
    BY <2>1, <2>2 DEF QueuesExact
<1>8. Placed(r) = Placed(s) \cup {t}
  <2>1. ASSUME NEW u \in Placed(s) PROVE u \in Placed(r)
    <3>1. PICK p \in Priority : \E i \in 1 .. Len(s.queue[p]) : s.queue[p][i] = u
      BY DEF Placed
    <3>2. PICK i \in 1 .. Len(s.queue[p]) : s.queue[p][i] = u
      BY <3>1
    <3>3. CASE p = pri
      <4>1. i + 1 \in 1 .. Len(r.queue[p]) /\ r.queue[p][i + 1] = u
        BY <1>3, <1>5, <3>2, <3>3 DEF q
      <4>2. QED
        BY <4>1 DEF Placed
    <3>4. CASE p # pri
      BY <1>5, <3>2, <3>4 DEF Placed
    <3>5. QED
      BY <3>3, <3>4
  <2>2. t \in Placed(r)
    <3>1. 1 \in 1 .. Len(r.queue[pri]) /\ r.queue[pri][1] = t
      BY <1>3, <1>5
    <3>2. QED
      BY <3>1 DEF Placed
  <2>3. ASSUME NEW u \in Placed(r), u # t PROVE u \in Placed(s)
    <3>1. PICK p \in Priority : \E i \in 1 .. Len(r.queue[p]) : r.queue[p][i] = u
      BY DEF Placed
    <3>2. PICK i \in 1 .. Len(r.queue[p]) : r.queue[p][i] = u
      BY <3>1
    <3>3. CASE p = pri
      <4>1. i - 1 \in 1 .. Len(s.queue[p]) /\ s.queue[p][i - 1] = u
        BY <1>3, <1>5, <2>3, <3>2, <3>3 DEF q
      <4>2. QED
        BY <4>1 DEF Placed
    <3>4. CASE p # pri
      BY <1>5, <3>2, <3>4 DEF Placed
    <3>5. QED
      BY <3>3, <3>4
  <2>4. QED
    BY <2>1, <2>2, <2>3
<1>9. QED
  BY <1>2, <1>4, <1>7, <1>8 DEF r

-----------------------------------------------------------------------------
(* search_schedtsk takes the first of the highest queue, whatever schedtsk *)
(* was before, and leaves the other queued tasks as they are.              *)
LEMMA SearchSchedtsk ==
  ASSUME NEW s \in Sched, NEW tcbs, QueuesExact(s, tcbs), NextpriHighest(s)
  PROVE  LET r == search_schedtsk(s)
         IN  /\ r \in Sched
             /\ SchedOK(r, tcbs)
             /\ Accounted(r) = Placed(s)
             /\ r.schedtsk = TSKID_NULL <=> s.primap = {}
<1> DEFINE r    == search_schedtsk(s)
           n    == s.nextpri
           q    == s.queue[n]
           tail == Tail(q)
           left == s.primap \ {n}
<1>1. /\ s.queue \in [Priority -> Seq(TaskId)] /\ s.primap \subseteq Priority
      /\ n \in Priority /\ q \in Seq(TaskId) /\ Len(q) \in Nat
      /\ Priority \subseteq Nat
  <2>1. Priority \subseteq Nat
    BY TaskCount DEF Priority, TPRI_MINTASK
  <2>2. /\ s.queue \in [Priority -> Seq(TaskId)] /\ s.primap \subseteq Priority
        /\ s.nextpri \in Priority
    BY DEF Sched
  <2>3. s.queue[s.nextpri] \in Seq(TaskId)
    BY <2>2
  <2>4. Len(s.queue[s.nextpri]) \in Nat
    BY <2>3, LenProperties
  <2>5. QED
    BY <2>1, <2>2, <2>3, <2>4
<1>2. CASE s.primap = {}
  <2>1. /\ r.queue = s.queue /\ r.primap = s.primap /\ r.nextpri = n
        /\ r.schedtsk = TSKID_NULL /\ r \in Sched
    BY <1>2 DEF search_schedtsk, Sched
  <2> HIDE DEF r
  <2>2. Placed(r) = Placed(s)
    BY <2>1 DEF Placed
  <2>3. TSKID_NULL \notin TaskId
    BY TaskCount DEF TaskId, TSKID_NULL
  <2>4. SchedOK(r, tcbs)
    BY <1>2, <2>1, <2>3 DEF SchedOK, QueuesExact, NextpriHighest, Placed
  <2>5. QED
    BY <1>2, <2>1, <2>2, <2>4 DEF r, Accounted
<1>3. CASE s.primap # {}
  <2>1. n \in s.primap /\ q # <<>> /\ Len(q) >= 1
    BY <1>1, <1>3 DEF NextpriHighest, QueuesExact, TPRI_MINTASK, Priority
  <2>2. /\ Head(q) \in TaskId /\ Head(q) = q[1]
        /\ tail \in Seq(TaskId)
        /\ Len(tail) = Len(q) - 1
        /\ \A i \in 1 .. Len(tail) : tail[i] = q[i + 1]
        /\ \A i \in 2 .. Len(q) : q[i] = tail[i - 1]
    BY <1>1, <2>1, HeadTailProperties
  <2>3. /\ r.queue = [s.queue EXCEPT ![n] = tail]
        /\ r.schedtsk = Head(q)
        /\ r.primap = IF Len(q) > 1 THEN s.primap ELSE left
        /\ r.nextpri = IF Len(q) > 1 THEN n
                       ELSE IF left = {} THEN TPRI_MINTASK
                       ELSE bitmap_search(left)
    BY <1>3 DEF search_schedtsk, Sched
  <2>4. left # {} => /\ bitmap_search(left) \in left
                     /\ \A p \in left : p <= bitmap_search(left)
    BY <1>1, BitmapSearchHighest
  <2>5. r \in Sched
    <3>1. /\ r = [queue |-> r.queue, primap |-> r.primap,
                  nextpri |-> r.nextpri, schedtsk |-> r.schedtsk]
      BY <1>3 DEF search_schedtsk, Sched
    <3>2. r.nextpri \in Priority
      BY <1>1, <2>3, <2>4, TaskCount DEF Priority, TPRI_MINTASK
    <3>3. r.queue \in [Priority -> Seq(TaskId)] /\ r.primap \subseteq Priority
          /\ r.schedtsk \in TaskId
      BY <1>1, <2>2, <2>3
    <3> HIDE DEF r
    <3>4. QED
      BY <3>1, <3>2, <3>3 DEF Sched
  <2> HIDE DEF r, tail, left
  <2>6. /\ r.queue[n] = tail
        /\ \A p \in Priority \ {n} : r.queue[p] = s.queue[p]
    BY <1>1, <2>3
  <2>7. tail = <<>> <=> Len(q) = 1
    <3>1. tail = <<>> <=> Len(tail) = 0
      BY <2>2, EmptySeq
    <3>2. QED
      BY <1>1, <2>1, <2>2, <3>1
  <2> DEFINE h == Head(q)
  <2>8. /\ \A i \in 1 .. Len(q) : tcbs[q[i]].curpri = n
        /\ \A i, j \in 1 .. Len(q) : q[i] = q[j] => i = j
    BY <1>1 DEF QueuesExact
  <2> HIDE DEF h, q
  <2>9. QueuesExact(r, tcbs)
    <3>1. ASSUME NEW p \in Priority, NEW i \in 1 .. Len(r.queue[p])
          PROVE  /\ tcbs[r.queue[p][i]].curpri = p
                 /\ \A j \in 1 .. Len(r.queue[p]) :
                      r.queue[p][i] = r.queue[p][j] => i = j
      <4>1. CASE p = n
        <5>1. i \in 1 .. Len(tail) /\ r.queue[p] = tail
          BY <2>6, <4>1
        <5>2. \A k \in 1 .. Len(tail) : k + 1 \in 1 .. Len(q) /\ tail[k] = q[k + 1]
          BY <1>1, <2>2
        <5>3. tcbs[tail[i]].curpri = n
          BY <2>8, <5>1, <5>2
        <5>4. ASSUME NEW j \in 1 .. Len(tail), tail[i] = tail[j] PROVE i = j
          <6>1. i + 1 = j + 1
            BY <2>8, <5>1, <5>2, <5>4
          <6>2. QED
            BY <1>1, <2>2, <5>1, <6>1
        <5>5. QED
          BY <4>1, <5>1, <5>3, <5>4
      <4>2. CASE p # n
        BY <2>6, <4>2 DEF QueuesExact
      <4>3. QED
        BY <4>1, <4>2
    <3>2. ASSUME NEW p \in Priority
          PROVE  p \in r.primap <=> r.queue[p] # <<>>
      <4>1. CASE p = n
        <5>1. n \in r.primap <=> Len(q) > 1
          BY <2>1, <2>3 DEF left
        <5>2. \A k \in Nat : k >= 1 => (k > 1 <=> k # 1)
          OBVIOUS
        <5>3. QED
          BY <1>1, <2>1, <2>6, <2>7, <4>1, <5>1, <5>2
      <4>2. CASE p # n
        <5>1. p \in r.primap <=> p \in s.primap
          BY <2>3, <4>2 DEF left
        <5>2. p \in s.primap <=> s.queue[p] # <<>>
          BY DEF QueuesExact
        <5>3. QED
          BY <2>6, <4>2, <5>1, <5>2
      <4>3. QED
        BY <4>1, <4>2
    <3>3. QED
      BY <3>1, <3>2 DEF QueuesExact
  <2>10. NextpriHighest(r) /\ r.nextpri <= n
    <3>1. CASE Len(q) > 1
      BY <1>1, <2>3, <3>1 DEF NextpriHighest
    <3>2. CASE ~ (Len(q) > 1) /\ left = {}
      BY <1>1, <2>3, <3>2 DEF NextpriHighest, TPRI_MINTASK, Priority
    <3>3. CASE ~ (Len(q) > 1) /\ left # {}
      <4>1. r.primap = left /\ r.nextpri = bitmap_search(left)
        BY <2>3, <3>3
      <4>2. r.nextpri <= n
        BY <1>1, <2>4, <3>3, <4>1 DEF NextpriHighest, left
      <4>3. QED
        BY <2>4, <3>3, <4>1, <4>2 DEF NextpriHighest
    <3>4. QED
      BY <3>1, <3>2, <3>3
  <2>11. h \in Placed(s) /\ tcbs[h].curpri = n
    <3>1. 1 \in 1 .. Len(q) /\ q[1] = h
      BY <2>1, <2>2, <1>1 DEF h
    <3>2. QED
      BY <1>1, <2>2, <2>8, <3>1 DEF Placed, h, q
  <2>12. h \notin Placed(r)
    <3>1. SUFFICES ASSUME h \in Placed(r) PROVE FALSE
      OBVIOUS
    <3>2. PICK p \in Priority : \E i \in 1 .. Len(r.queue[p]) : r.queue[p][i] = h
      BY <3>1 DEF Placed
    <3>3. PICK i \in 1 .. Len(r.queue[p]) : r.queue[p][i] = h
      BY <3>2
    <3>4. p = n
      BY <2>9, <2>11, <3>3 DEF QueuesExact
    <3>5. i \in 1 .. Len(tail) /\ tail[i] = h
      BY <2>6, <3>3, <3>4
    <3>6. i + 1 \in 1 .. Len(q) /\ q[i + 1] = q[1]
      BY <1>1, <2>1, <2>2, <3>5 DEF h
    <3>7. i + 1 = 1
      BY <1>1, <2>1, <2>8, <3>6
    <3>8. QED
      BY <2>2, <3>5, <3>7
  <2>13. Placed(s) = Placed(r) \cup {h}
    <3>1. ASSUME NEW u \in Placed(s), u # h PROVE u \in Placed(r)
      <4>1. PICK p \in Priority : \E i \in 1 .. Len(s.queue[p]) : s.queue[p][i] = u
        BY DEF Placed
      <4>2. PICK i \in 1 .. Len(s.queue[p]) : s.queue[p][i] = u
        BY <4>1
      <4>3. CASE p = n
        <5>1. i \in 2 .. Len(q) /\ q[i] = u
          BY <1>1, <2>2, <3>1, <4>2, <4>3 DEF h, q
        <5>2. i - 1 \in 1 .. Len(r.queue[p]) /\ r.queue[p][i - 1] = u
          BY <1>1, <2>2, <2>6, <4>3, <5>1
        <5>3. QED
          BY <5>2 DEF Placed
      <4>4. CASE p # n
        BY <2>6, <4>2, <4>4 DEF Placed
      <4>5. QED
        BY <4>3, <4>4
    <3>2. ASSUME NEW u \in Placed(r) PROVE u \in Placed(s)
      <4>1. PICK p \in Priority : \E i \in 1 .. Len(r.queue[p]) : r.queue[p][i] = u
        BY DEF Placed
      <4>2. PICK i \in 1 .. Len(r.queue[p]) : r.queue[p][i] = u
        BY <4>1
      <4>3. CASE p = n
        <5>1. i \in 1 .. Len(tail) /\ tail[i] = u
          BY <2>6, <4>2, <4>3
        <5>2. i + 1 \in 1 .. Len(q) /\ q[i + 1] = u
          BY <1>1, <2>2, <5>1
        <5>3. QED
          BY <1>1, <5>2 DEF Placed, q
      <4>4. CASE p # n
        BY <2>6, <4>2, <4>4 DEF Placed
      <4>5. QED
        BY <4>3, <4>4
    <3>3. QED
      BY <2>11, <3>1, <3>2
  <2>14. r.schedtsk = h /\ h \in TaskId /\ h # TSKID_NULL
    BY <2>2, <2>3, TaskCount DEF h, TaskId, TSKID_NULL
  <2>15. SchedOK(r, tcbs)
    BY <2>9, <2>10, <2>11, <2>12, <2>14 DEF SchedOK
  <2>16. QED
    BY <1>3, <2>5, <2>12, <2>13, <2>14, <2>15 DEF Accounted, r
<1>4. QED
  BY <1>2, <1>3

-----------------------------------------------------------------------------
(* make_runnable keeps the scheduler's data consistent and accounts for    *)
(* the one task more; that task is to run next iff it outranks schedtsk.   *)
LEMMA MakeRunnable ==
  ASSUME NEW s \in Sched, NEW tcbs, SchedOK(s, tcbs),
         \A u \in TaskId : tcbs[u].curpri \in Nat,
         NEW t \in TaskId, t \notin Accounted(s), tcbs[t].curpri \in Priority
  PROVE  LET r == make_runnable(s, tcbs, t)
         IN  /\ r \in Sched
             /\ SchedOK(r, tcbs)
             /\ Accounted(r) = Accounted(s) \cup {t}
             /\ r.schedtsk = IF Outranks(s, tcbs, t) THEN t ELSE s.schedtsk
<1> DEFINE r        == make_runnable(s, tcbs, t)
           pri      == tcbs[t].curpri
           schedpri == tcbs[s.schedtsk].curpri
<1>1. /\ Priority \subseteq Nat /\ s.nextpri \in Priority
      /\ s.primap \subseteq Priority /\ s.schedtsk \in TaskId \cup {TSKID_NULL}
      /\ TSKID_NULL \notin TaskId /\ pri \in Priority
  <2>1. Priority \subseteq Nat
    BY TaskCount DEF Priority, TPRI_MINTASK
  <2>2. TSKID_NULL \notin TaskId
    BY TaskCount DEF TaskId, TSKID_NULL
  <2>3. QED
    BY <2>1, <2>2 DEF Sched
<1>2. /\ t \notin Placed(s) /\ t # s.schedtsk /\ QueuesExact(s, tcbs)
      /\ NextpriHighest(s) /\ s.schedtsk \notin Placed(s)
  BY <1>1 DEF Accounted, SchedOK
<1>3. CASE s.schedtsk = TSKID_NULL
  <2>1. /\ r = [s EXCEPT !.schedtsk = t] /\ r \in Sched /\ r.schedtsk = t
        /\ r.queue = s.queue /\ r.primap = s.primap /\ r.nextpri = s.nextpri
        /\ Outranks(s, tcbs, t)
    BY <1>3 DEF make_runnable, Outranks, Sched
  <2> HIDE DEF r
  <2>2. s.primap = {} /\ r.nextpri = TPRI_MINTASK
    BY <1>3, <2>1 DEF SchedOK, NextpriHighest
  <2>3. Placed(r) = Placed(s)
    BY <2>1 DEF Placed
  <2>4. TPRI_MINTASK <= pri
    BY <1>1, TaskCount DEF Priority
  <2>5. SchedOK(r, tcbs)
    BY <1>1, <1>2, <2>1, <2>2, <2>3, <2>4
       DEF SchedOK, QueuesExact, NextpriHighest
  <2>6. QED
    BY <1>1, <1>3, <2>1, <2>3, <2>5 DEF Accounted, r
<1>4. CASE s.schedtsk # TSKID_NULL /\ pri <= schedpri
  <2> DEFINE a == ready_insert_last(s, pri, t)
  <2>1. /\ a \in Sched /\ QueuesExact(a, tcbs) /\ Placed(a) = Placed(s) \cup {t}
        /\ a.primap = s.primap \cup {pri} /\ a.nextpri = s.nextpri
        /\ a.schedtsk = s.schedtsk
    BY <1>1, <1>2, InsertLast
  <2>2. ~ Outranks(s, tcbs, t)
    BY <1>1, <1>4 DEF Outranks
  <2>3. r = [a EXCEPT !.nextpri = IF pri > @ THEN pri ELSE @]
    BY <2>2 DEF make_runnable
  <2> HIDE DEF a
  <2>4. /\ r \in Sched /\ r.queue = a.queue /\ r.primap = a.primap
        /\ r.schedtsk = s.schedtsk
        /\ r.nextpri = IF pri > s.nextpri THEN pri ELSE s.nextpri
    BY <1>1, <2>1, <2>3 DEF Sched
  <2> HIDE DEF r
  <2>5. Placed(r) = Placed(s) \cup {t} /\ QueuesExact(r, tcbs)
    <3>1. Placed(r) = Placed(a)
      BY <2>4 DEF Placed
    <3>2. QueuesExact(r, tcbs)
      BY <2>1, <2>4 DEF QueuesExact
    <3>3. QED
      BY <2>1, <3>1, <3>2
  <2>6. NextpriHighest(r)
    <3>1. ASSUME NEW p \in r.primap PROVE p <= r.nextpri
      <4>1. p \in s.primap \cup {pri} /\ p \in Nat /\ pri \in Nat /\ s.nextpri \in Nat
        BY <1>1, <2>1, <2>4
      <4>2. p \in s.primap => p <= s.nextpri
        BY <1>2 DEF NextpriHighest
      <4>3. QED
        BY <2>4, <4>1, <4>2
    <3>2. r.nextpri \in r.primap \cup {TPRI_MINTASK}
      BY <1>2, <2>1, <2>4 DEF NextpriHighest
    <3>3. QED
      BY <3>1, <3>2 DEF NextpriHighest
  <2>7. r.nextpri <= schedpri
    BY <1>1, <1>4, <2>4 DEF SchedOK
  <2>8. SchedOK(r, tcbs)
    BY <1>2, <1>4, <2>4, <2>5, <2>6, <2>7 DEF SchedOK
  <2>9. QED
    BY <2>2, <2>4, <2>5, <2>8 DEF Accounted, r
<1>5. CASE s.schedtsk # TSKID_NULL /\ ~ (pri <= schedpri)
  <2> DEFINE a == ready_insert_first(s, schedpri, s.schedtsk)
  <2>1. s.schedtsk \in TaskId /\ schedpri < pri /\ s.nextpri <= schedpri
    BY <1>1, <1>5 DEF SchedOK
  <2>2. schedpri \in Priority
    BY <1>1, <2>1, TaskCount DEF Priority, TPRI_MINTASK
  <2>3. /\ a \in Sched /\ QueuesExact(a, tcbs)
        /\ Placed(a) = Placed(s) \cup {s.schedtsk}
        /\ a.primap = s.primap \cup {schedpri} /\ a.nextpri = s.nextpri
    BY <1>2, <2>1, <2>2, InsertFirst
  <2>4. Outranks(s, tcbs, t)
    BY <2>1 DEF Outranks
  <2>5. r = [a EXCEPT !.nextpri = schedpri, !.schedtsk = t]
    BY <1>5, <2>4 DEF make_runnable
  <2> HIDE DEF a
  <2>6. /\ r \in Sched /\ r.queue = a.queue /\ r.primap = a.primap
        /\ r.schedtsk = t /\ r.nextpri = schedpri
    BY <2>2, <2>3, <2>5 DEF Sched
  <2> HIDE DEF r
  <2>7. Placed(r) = Placed(s) \cup {s.schedtsk} /\ QueuesExact(r, tcbs)
    <3>1. Placed(r) = Placed(a)
      BY <2>6 DEF Placed
    <3>2. QueuesExact(r, tcbs)
      BY <2>3, <2>6 DEF QueuesExact
    <3>3. QED
      BY <2>3, <3>1, <3>2
  <2>8. NextpriHighest(r)
    <3>1. ASSUME NEW p \in r.primap PROVE p <= r.nextpri
      <4>1. /\ p \in s.primap \cup {schedpri} /\ p \in Nat
            /\ schedpri \in Nat /\ s.nextpri \in Nat
        BY <1>1, <2>2, <2>3, <2>6
      <4>2. p \in s.primap => p <= s.nextpri
        BY <1>2 DEF NextpriHighest
      <4>3. QED
        BY <2>1, <2>6, <4>1, <4>2
    <3>2. r.nextpri \in r.primap
      BY <2>3, <2>6
    <3>3. QED
      BY <3>1, <3>2 DEF NextpriHighest
  <2>9. SchedOK(r, tcbs)
    BY <1>1, <1>2, <2>1, <2>6, <2>7, <2>8 DEF SchedOK
  <2>10. QED
    BY <1>1, <1>5, <2>4, <2>6, <2>7, <2>9 DEF Accounted, r
<1>6. QED
  BY <1>3, <1>4, <1>5

(* preempt puts schedtsk, whose priority has sunk below nextpri, back into *)
(* the ready queue and takes another task; no task is lost.                *)
LEMMA Preempt ==
  ASSUME NEW s \in Sched, NEW tcbs,
         QueuesExact(s, tcbs), NextpriHighest(s),
         s.schedtsk \in TaskId, s.schedtsk \notin Placed(s),
         tcbs[s.schedtsk].curpri \in Nat,
         tcbs[s.schedtsk].curpri < s.nextpri
  PROVE  LET r == preempt(s, tcbs)
         IN  /\ r \in Sched
             /\ SchedOK(r, tcbs)
             /\ Accounted(r) = Accounted(s)
             /\ r.schedtsk \in TaskId
<1> DEFINE pri == tcbs[s.schedtsk].curpri
           a   == ready_insert_first(s, pri, s.schedtsk)
<1>1. pri \in Priority /\ s.nextpri \in Priority /\ Priority \subseteq Nat
  BY TaskCount DEF Sched, Priority, TPRI_MINTASK
<1>2. /\ a \in Sched /\ QueuesExact(a, tcbs)
      /\ Placed(a) = Placed(s) \cup {s.schedtsk}
      /\ a.primap = s.primap \cup {pri} /\ a.nextpri = s.nextpri
  BY <1>1, InsertFirst
<1>3. preempt(s, tcbs) = search_schedtsk(a)
  BY DEF preempt
<1> HIDE DEF a
<1>4. NextpriHighest(a)
  <2>1. ASSUME NEW p \in a.primap PROVE p <= a.nextpri
    <3>1. p \in s.primap => p <= s.nextpri
      BY DEF NextpriHighest
    <3>2. p \in s.primap \cup {pri} /\ p \in Nat /\ pri \in Nat /\ s.nextpri \in Nat
      <4>1. s.primap \subseteq Priority
        BY DEF Sched
      <4>2. QED
        BY <1>1, <1>2, <4>1
    <3>3. pri < s.nextpri /\ a.nextpri = s.nextpri
      BY <1>2
    <3>4. QED
      BY <3>1, <3>2, <3>3
  <2>2. s.nextpri \in s.primap
    BY <1>1 DEF NextpriHighest, TPRI_MINTASK
  <2>3. QED
    BY <1>2, <2>1, <2>2 DEF NextpriHighest
<1>5. a.primap # {}
  BY <1>2
<1>6. /\ search_schedtsk(a) \in Sched
      /\ SchedOK(search_schedtsk(a), tcbs)
      /\ Accounted(search_schedtsk(a)) = Placed(a)
      /\ search_schedtsk(a).schedtsk # TSKID_NULL
  BY <1>2, <1>4, <1>5, SearchSchedtsk
<1>7. s.schedtsk # TSKID_NULL
  BY TaskCount DEF TaskId, TSKID_NULL
<1>8. QED
  BY <1>2, <1>3, <1>6, <1>7 DEF Accounted, Sched

-----------------------------------------------------------------------------
(* The windows are harmless when a build has none but PostTaskHook's, or   *)
(* when handlers activate and wake only tasks of the lowest priority while *)
(* they interrupt a window.                                                *)
LowIsr == \A t \in WindowTask, u \in TaskId : tinib_inipri[t] <= tinib_inipri[u]
NoRace == Unmasked \subseteq {"post"} \/ LowIsr

-----------------------------------------------------------------------------
(* The inductive invariant.                                                *)

(* One task: how it waits, that its requests are not left pending, and     *)
(* that no priority sinks below those of the handlers' tasks.              *)
TaskOK(c, t) ==
  /\ IF c.tstat = "WAITING"
     THEN /\ c.curpri = tinib_inipri[t]
          /\ c.waievt # {} /\ c.waievt \cap c.curevt = {}
     ELSE c.waievt = {}
  /\ c.actcnt > 0 => c.tstat # "DORMANT"
  /\ LowIsr => \A u \in WindowTask : tinib_inipri[u] <= c.curpri

(* A task that will be raised to its execution priority when it resumes is *)
(* queued at its initial one.                                              *)
QueuedLow(c, t) ==
  c.tstat = "RUNNABLE" /\ c.pc \in {"activate_r", "dispatcher_r_exepri"}
    => c.curpri = tinib_inipri[t]

(* The kernel's data k inside a service; task x is the one that runs.      *)
RunnableIn(tcb0) == {t \in TaskId : tcb0[t].tstat = "RUNNABLE"}

KernelOK(k, x) ==
  /\ k \in [sched : Sched, tcb : [TaskId -> Tcb]]
  /\ SchedOK(k.sched, k.tcb)
  /\ Accounted(k.sched) = RunnableIn(k.tcb)
  /\ \A t \in TaskId : TaskOK(k.tcb[t], t)
  /\ \A t \in TaskId \ {x} : QueuedLow(k.tcb[t], t)

Running == IF cpu \in {"body", "error"} THEN runtsk ELSE TSKID_NULL

(* Which contexts go with which place of the processor, and which of those *)
(* this build has.                                                         *)
Control ==
  /\ cpu = "boot" => isr = <<>> /\ Base = "TASK" /\ runtsk = TSKID_NULL
  /\ cpu = "body" => \/ Base = "TASK"
                     \/ Base = "NULL" /\ ~ (Unmasked \subseteq {"post"})
  /\ cpu = "post" => Base = "PREPOST" /\ runtsk \in TaskId
  /\ cpu = "pre" => Base = "PREPOST" /\ ~ (Unmasked \subseteq {"post"})
  /\ cpu = "error" => Base = "ERROR" /\ ~ (Unmasked \subseteq {"post"})
  /\ cpu = "idle" => Base = "ISR2" /\ runtsk = TSKID_NULL
  /\ isr # <<>> => callevel = "ISR2"
  /\ \A i \in 1 .. Len(isr) : i # Len(isr) => isr[i] = "ISR2"

(* The task that has the processor is runnable and, except while a handler *)
(* that will dispatch has interrupted it, it is schedtsk.                  *)
Steady(s) ==
  cpu \in {"body", "pre", "error"} =>
    /\ runtsk \in TaskId
    /\ tcb[runtsk].tstat = "RUNNABLE"
    /\ isr = <<>> \/ Base # "TASK" => s.schedtsk = runtsk

(* What StartOS has not yet initialised, and the priorities resources will *)
(* give back.                                                              *)
Booting == cpu = "boot" => \A t \in initid .. tnum_task - 1 :
                             tcb[t].tstat = "DORMANT"
Restores(rescb0) == LowIsr => \A t \in WindowTask : \A r \in ResourceId :
                                tinib_inipri[t] <= rescb0[r].prevpri

IInv == /\ TypeOK
        /\ KernelOK(K, Running)
        /\ Control
        /\ Steady(sched)
        /\ Booting
        /\ Restores(rescb)

-----------------------------------------------------------------------------
(* The constants. *)
LEMMA Constants ==
  /\ TaskId \subseteq Nat /\ TSKID_NULL \notin TaskId
  /\ \A t \in TaskId : /\ tinib_inipri[t] \in Priority /\ tinib_inipri[t] \in Nat
                       /\ tinib_exepri[t] \in Nat
                       /\ tinib_inipri[t] <= tinib_exepri[t]
                       /\ tinib_exepri[t] <= TPRI_NULL
                       /\ tinib_inipri[t] <= TPRI_NULL
<1>1. TaskId \subseteq Nat /\ TSKID_NULL \notin TaskId
  BY TaskCount DEF TaskId, TSKID_NULL
<1>2. Priority \subseteq Nat
  BY TaskCount DEF Priority, TPRI_MINTASK
<1>3. ASSUME NEW t \in TaskId
      PROVE  /\ tinib_inipri[t] \in Priority /\ tinib_inipri[t] \in Nat
             /\ tinib_exepri[t] \in Nat
             /\ tinib_inipri[t] <= tinib_exepri[t]
             /\ tinib_exepri[t] <= TPRI_NULL
             /\ tinib_inipri[t] <= TPRI_NULL
  <2>1. /\ tinib_inipri[t] \in Priority /\ tinib_inipri[t] \in Nat
        /\ tinib_exepri[t] \in Nat /\ tinib_inipri[t] <= tinib_exepri[t]
    BY <1>2, TaskPriorities
  <2>2. tinib_exepri[t] < TPRI_NULL /\ TPRI_NULL \in Nat
    BY KernelConfig DEF TPRI_NULL
  <2>3. QED
    BY <2>1, <2>2
<1>4. QED
  BY <1>1, <1>3

(* The scheduler's data depend on the priorities of the queued tasks only, *)
(* and stay consistent when schedtsk's priority rises.                     *)
LEMMA SchedFrame ==
  ASSUME NEW s \in Sched, NEW a, NEW b,
         \A u \in TaskId : u # s.schedtsk => b[u].curpri = a[u].curpri
  PROVE  /\ QueuesExact(s, a) /\ s.schedtsk \notin Placed(s) => QueuesExact(s, b)
         /\ /\ SchedOK(s, a)
            /\ s.schedtsk \in TaskId =>
                 /\ a[s.schedtsk].curpri \in Nat /\ b[s.schedtsk].curpri \in Nat
                 /\ a[s.schedtsk].curpri <= b[s.schedtsk].curpri
            => SchedOK(s, b)
<1>1. ASSUME QueuesExact(s, a), s.schedtsk \notin Placed(s) PROVE QueuesExact(s, b)
  <2>1. ASSUME NEW p \in Priority, NEW i \in 1 .. Len(s.queue[p])
        PROVE  b[s.queue[p][i]].curpri = a[s.queue[p][i]].curpri
    <3>1. s.queue[p] \in Seq(TaskId)
      BY DEF Sched
    <3>2. s.queue[p][i] \in TaskId
      BY <3>1
    <3>3. s.queue[p][i] # s.schedtsk
      BY <1>1, <3>2 DEF Placed
    <3>4. QED
      BY <3>2, <3>3
  <2>2. QED
    BY <1>1, <2>1 DEF QueuesExact
<1>2. ASSUME SchedOK(s, a),
             s.schedtsk \in TaskId =>
                 /\ a[s.schedtsk].curpri \in Nat /\ b[s.schedtsk].curpri \in Nat
                 /\ a[s.schedtsk].curpri <= b[s.schedtsk].curpri
      PROVE  SchedOK(s, b)
  <2>1. QueuesExact(s, b)
    BY <1>1, <1>2 DEF SchedOK
  <2>2. s.schedtsk # TSKID_NULL => s.nextpri <= b[s.schedtsk].curpri
    <3>1. s.nextpri \in Nat /\ s.schedtsk \in TaskId \cup {TSKID_NULL}
      BY TaskCount DEF Sched, Priority, TPRI_MINTASK
    <3>2. s.schedtsk # TSKID_NULL => s.nextpri <= a[s.schedtsk].curpri
      BY <1>2 DEF SchedOK
    <3>3. QED
      BY <1>2, <3>1, <3>2
  <2>3. QED
    BY <1>2, <2>1, <2>2 DEF SchedOK
<1>3. QED
  BY <1>1, <1>2

(* schedtsk is runnable, and only it and the queued tasks are. *)
LEMMA SchedtskRunnable ==
  ASSUME NEW k, NEW x, KernelOK(k, x)
  PROVE  /\ k.sched.schedtsk \in TaskId \cup {TSKID_NULL}
         /\ k.sched.schedtsk # TSKID_NULL =>
              /\ k.sched.schedtsk \in TaskId
              /\ k.tcb[k.sched.schedtsk].tstat = "RUNNABLE"
         /\ \A t \in TaskId : k.tcb[t] \in Tcb
<1>1. k.sched.schedtsk \in TaskId \cup {TSKID_NULL} /\ k.tcb \in [TaskId -> Tcb]
  BY DEF KernelOK, Sched
<1>2. k.sched.schedtsk # TSKID_NULL => k.sched.schedtsk \in RunnableIn(k.tcb)
  BY DEF KernelOK, Accounted
<1>3. QED
  BY <1>1, <1>2 DEF RunnableIn

-----------------------------------------------------------------------------
(* What the kernel's functions do to its data.                             *)

(* make_active makes one task more runnable, at its initial priority.      *)
LEMMA MakeActive ==
  ASSUME NEW k \in [sched : Sched, tcb : [TaskId -> Tcb]],
         NEW t \in TaskId, NEW x,
         SchedOK(k.sched, k.tcb),
         Accounted(k.sched) = RunnableIn(k.tcb) \ {t},
         \A u \in TaskId \ {t} : TaskOK(k.tcb[u], u),
         \A u \in TaskId \ {t, x} : QueuedLow(k.tcb[u], u)
  PROVE  LET r == make_active(k, t)
         IN  /\ KernelOK(r, x) /\ QueuedLow(r.tcb[t], t)
             /\ r.sched.schedtsk = IF Outranks(k.sched, r.tcb, t)
                                   THEN t ELSE k.sched.schedtsk
             /\ r.tcb[t].tstat = "RUNNABLE" /\ r.tcb[t].curpri = tinib_inipri[t]
             /\ \A u \in TaskId \ {t} : r.tcb[u] = k.tcb[u]
<1> DEFINE tcb1 == [k.tcb EXCEPT ![t] = [@ EXCEPT
                 !.tstat = "RUNNABLE", !.curpri = tinib_inipri[t],
                 !.curevt = {}, !.waievt = {}, !.lastres = RESID_NULL,
                 !.pc = "activate_r"]]
           s1 == make_runnable(k.sched, tcb1, t)
           r  == make_active(k, t)
<1>1. /\ tcb1 \in [TaskId -> Tcb]
      /\ tcb1[t].tstat = "RUNNABLE" /\ tcb1[t].curpri = tinib_inipri[t]
      /\ tcb1[t].waievt = {}
      /\ \A u \in TaskId \ {t} : tcb1[u] = k.tcb[u]
  <2> DEFINE c == [k.tcb[t] EXCEPT
                 !.tstat = "RUNNABLE", !.curpri = tinib_inipri[t],
                 !.curevt = {}, !.waievt = {}, !.lastres = RESID_NULL,
                 !.pc = "activate_r"]
  <2>1. k.tcb \in [TaskId -> Tcb] /\ k.tcb[t] \in Tcb
    OBVIOUS
  <2>2. /\ c \in Tcb /\ c.tstat = "RUNNABLE" /\ c.curpri = tinib_inipri[t]
        /\ c.waievt = {}
    BY <2>1, Constants DEF Tcb, EventMask, TaskState, ResumeAt
  <2>3. tcb1 = [k.tcb EXCEPT ![t] = c]
    OBVIOUS
  <2> HIDE DEF c, tcb1
  <2>4. QED
    BY <2>1, <2>2, <2>3
<1>2. r.sched = s1 /\ r.tcb = tcb1
      /\ (s1 \in Sched => r \in [sched : Sched, tcb : [TaskId -> Tcb]])
  BY <1>1 DEF make_active
<1> HIDE DEF tcb1, s1, r
<1>3. t # k.sched.schedtsk /\ t \notin Placed(k.sched)
  BY Constants DEF Accounted
<1>4. SchedOK(k.sched, tcb1)
  <2>1. QueuesExact(k.sched, tcb1)
    <3>1. ASSUME NEW p \in Priority, NEW i \in 1 .. Len(k.sched.queue[p])
          PROVE  tcb1[k.sched.queue[p][i]].curpri = k.tcb[k.sched.queue[p][i]].curpri
      <4>1. k.sched.queue[p] \in Seq(TaskId)
        BY DEF Sched
      <4>2. k.sched.queue[p][i] \in TaskId
        BY <4>1
      <4>3. k.sched.queue[p][i] # t
        BY <1>3, <4>2 DEF Placed
      <4>4. QED
        BY <1>1, <4>2, <4>3
    <3>2. QED
      BY <3>1 DEF SchedOK, QueuesExact
  <2>2. k.sched.schedtsk \in TaskId \cup {TSKID_NULL}
    BY DEF Sched
  <2>3. k.sched.schedtsk # TSKID_NULL => tcb1[k.sched.schedtsk] = k.tcb[k.sched.schedtsk]
    BY <1>1, <1>3, <2>2
  <2>4. QED
    BY <2>1, <2>3 DEF SchedOK
<1>5. /\ s1 \in Sched /\ SchedOK(s1, tcb1)
      /\ Accounted(s1) = Accounted(k.sched) \cup {t}
      /\ s1.schedtsk = IF Outranks(k.sched, tcb1, t) THEN t ELSE k.sched.schedtsk
  <2>1. \A u \in TaskId : tcb1[u].curpri \in Nat
    BY <1>1 DEF Tcb
  <2>2. t \notin Accounted(k.sched) /\ tcb1[t].curpri \in Priority
    BY <1>1, Constants
  <2>3. QED
    BY <1>4, <2>1, <2>2, MakeRunnable DEF s1
<1>6. Accounted(s1) = RunnableIn(tcb1)
  BY <1>1, <1>5 DEF RunnableIn
<1>7. TaskOK(tcb1[t], t)
  <2>1. LowIsr => \A u \in WindowTask : tinib_inipri[u] <= tcb1[t].curpri
    BY <1>1 DEF LowIsr
  <2>2. QED
    BY <1>1, <2>1 DEF TaskOK
<1>8. \A u \in TaskId : TaskOK(tcb1[u], u)
  BY <1>1, <1>7
<1>9. QueuedLow(tcb1[t], t)
  BY <1>1 DEF QueuedLow
<1>10. \A u \in TaskId \ {x} : QueuedLow(tcb1[u], u)
  BY <1>1, <1>9
<1>11. KernelOK(r, x)
  BY <1>2, <1>5, <1>6, <1>8, <1>10 DEF KernelOK
<1>12. QED
  BY <1>1, <1>2, <1>5, <1>9, <1>11 DEF r

(* New control blocks for the same scheduler's data: no task changes its   *)
(* state, and only schedtsk its priority, which stays above the queue.     *)
LEMMA ReplaceTcb ==
  ASSUME NEW k, NEW x, KernelOK(k, x), NEW y,
         NEW tcb1 \in [TaskId -> Tcb],
         \A u \in TaskId : tcb1[u].tstat = k.tcb[u].tstat,
         \A u \in TaskId : u # k.sched.schedtsk => tcb1[u].curpri = k.tcb[u].curpri,
         k.sched.schedtsk # TSKID_NULL =>
           k.sched.nextpri <= tcb1[k.sched.schedtsk].curpri,
         \A u \in TaskId : TaskOK(tcb1[u], u),
         \A u \in TaskId \ {y} : QueuedLow(tcb1[u], u)
  PROVE  KernelOK([sched |-> k.sched, tcb |-> tcb1], y)
<1>1. k.sched \in Sched /\ SchedOK(k.sched, k.tcb) /\ Accounted(k.sched) = RunnableIn(k.tcb)
  BY DEF KernelOK
<1>2. QueuesExact(k.sched, tcb1)
  BY <1>1, SchedFrame DEF SchedOK
<1>3. SchedOK(k.sched, tcb1)
  BY <1>1, <1>2 DEF SchedOK
<1>4. RunnableIn(tcb1) = RunnableIn(k.tcb)
  BY DEF RunnableIn
<1>5. QED
  BY <1>1, <1>3, <1>4 DEF KernelOK

(* preempt, for a schedtsk that has lowered its priority below nextpri.    *)
LEMMA Yield ==
  ASSUME NEW k, NEW x, KernelOK(k, x), NEW y,
         NEW tcb1 \in [TaskId -> Tcb],
         \A u \in TaskId : tcb1[u].tstat = k.tcb[u].tstat,
         \A u \in TaskId : u # k.sched.schedtsk => tcb1[u].curpri = k.tcb[u].curpri,
         k.sched.schedtsk \in TaskId,
         tcb1[k.sched.schedtsk].curpri < k.sched.nextpri,
         \A u \in TaskId : TaskOK(tcb1[u], u),
         \A u \in TaskId \ {y} : QueuedLow(tcb1[u], u)
  PROVE  KernelOK([sched |-> preempt(k.sched, tcb1), tcb |-> tcb1], y)
<1> DEFINE s1 == preempt(k.sched, tcb1)
<1>1. k.sched \in Sched /\ SchedOK(k.sched, k.tcb) /\ Accounted(k.sched) = RunnableIn(k.tcb)
  BY DEF KernelOK
<1>2. QueuesExact(k.sched, tcb1)
  BY <1>1, SchedFrame DEF SchedOK
<1>3. /\ NextpriHighest(k.sched) /\ k.sched.schedtsk \notin Placed(k.sched)
      /\ tcb1[k.sched.schedtsk].curpri \in Nat
  BY <1>1 DEF SchedOK, Tcb
<1>4. s1 \in Sched /\ SchedOK(s1, tcb1) /\ Accounted(s1) = Accounted(k.sched)
  BY <1>1, <1>2, <1>3, Preempt
<1> HIDE DEF s1
<1>5. RunnableIn(tcb1) = RunnableIn(k.tcb)
  BY DEF RunnableIn
<1>6. QED
  BY <1>1, <1>4, <1>5 DEF KernelOK, s1

(* search_schedtsk gives the place of schedtsk to another task.            *)
LEMMA Leave ==
  ASSUME NEW k, NEW x, KernelOK(k, x),
         NEW tcb1 \in [TaskId -> Tcb],
         \A u \in TaskId : u # k.sched.schedtsk => tcb1[u].curpri = k.tcb[u].curpri,
         k.sched.schedtsk \in TaskId
  PROVE  LET s1 == search_schedtsk(k.sched)
         IN  /\ s1 \in Sched /\ SchedOK(s1, tcb1)
             /\ Accounted(s1) = RunnableIn(k.tcb) \ {k.sched.schedtsk}
<1> DEFINE s1 == search_schedtsk(k.sched)
<1>1. k.sched \in Sched /\ SchedOK(k.sched, k.tcb) /\ Accounted(k.sched) = RunnableIn(k.tcb)
  BY DEF KernelOK
<1>2. QueuesExact(k.sched, tcb1)
  BY <1>1, SchedFrame DEF SchedOK
<1>3. NextpriHighest(k.sched) /\ k.sched.schedtsk \notin Placed(k.sched)
  BY <1>1 DEF SchedOK
<1>4. s1 \in Sched /\ SchedOK(s1, tcb1) /\ Accounted(s1) = Placed(k.sched)
  BY <1>1, <1>2, <1>3, SearchSchedtsk
<1> HIDE DEF s1
<1>5. Placed(k.sched) = RunnableIn(k.tcb) \ {k.sched.schedtsk}
  BY <1>1, <1>3, Constants DEF Accounted
<1>6. QED
  BY <1>4, <1>5 DEF s1

(* Counting an activation request. *)
LEMMA CountedOK ==
  ASSUME NEW k, NEW x, KernelOK(k, x), NEW t \in TaskId,
         k.tcb[t].tstat # "DORMANT"
  PROVE  /\ KernelOK(Counted(k, t), x)
         /\ Counted(k, t).sched = k.sched
         /\ \A u \in TaskId : Counted(k, t).tcb[u].tstat = k.tcb[u].tstat
<1> DEFINE c    == [k.tcb[t] EXCEPT !.actcnt = @ + 1]
           tcb1 == [k.tcb EXCEPT ![t] = c]
<1>1. k \in [sched : Sched, tcb : [TaskId -> Tcb]] /\ k.tcb[t] \in Tcb
  BY DEF KernelOK
<1>2. /\ c \in Tcb /\ c.tstat = k.tcb[t].tstat /\ c.curpri = k.tcb[t].curpri
      /\ c.waievt = k.tcb[t].waievt /\ c.curevt = k.tcb[t].curevt
      /\ c.pc = k.tcb[t].pc
  BY <1>1 DEF Tcb
<1>3. Counted(k, t) = [sched |-> k.sched, tcb |-> tcb1]
  BY <1>1 DEF Counted
<1> HIDE DEF c
<1>4. tcb1 \in [TaskId -> Tcb] /\ tcb1[t] = c /\ \A u \in TaskId \ {t} : tcb1[u] = k.tcb[u]
  BY <1>1, <1>2
<1> HIDE DEF tcb1
<1>5. TaskOK(c, t)
  BY <1>2 DEF KernelOK, TaskOK
<1>6. QueuedLow(k.tcb[t], t) => QueuedLow(c, t)
  BY <1>2 DEF QueuedLow
<1>7. /\ \A u \in TaskId : TaskOK(tcb1[u], u)
      /\ \A u \in TaskId \ {x} : QueuedLow(tcb1[u], u)
      /\ \A u \in TaskId : /\ tcb1[u].tstat = k.tcb[u].tstat
                           /\ tcb1[u].curpri = k.tcb[u].curpri
  BY <1>2, <1>4, <1>5, <1>6 DEF KernelOK
<1>8. k.sched.schedtsk # TSKID_NULL => k.sched.nextpri <= tcb1[k.sched.schedtsk].curpri
  BY <1>7, SchedtskRunnable DEF KernelOK, SchedOK
<1>9. KernelOK([sched |-> k.sched, tcb |-> tcb1], x)
  BY <1>4, <1>7, <1>8, ReplaceTcb
<1>10. QED
  BY <1>3, <1>7, <1>9

(* Saving the program counter of a task that gives up the processor. *)
LEMMA SavedPc ==
  ASSUME NEW k, NEW x \in TaskId, KernelOK(k, x), NEW pc \in ResumeAt,
         pc = "dispatcher_r_exepri" => k.tcb[x].curpri = tinib_inipri[x],
         pc # "activate_r"
  PROVE  KernelOK([k EXCEPT !.tcb[x].pc = pc], TSKID_NULL)
<1> DEFINE c    == [k.tcb[x] EXCEPT !.pc = pc]
           tcb1 == [k.tcb EXCEPT ![x] = c]
<1>1. k \in [sched : Sched, tcb : [TaskId -> Tcb]] /\ k.tcb[x] \in Tcb
  BY DEF KernelOK
<1>2. /\ c \in Tcb /\ c.tstat = k.tcb[x].tstat /\ c.curpri = k.tcb[x].curpri
      /\ c.waievt = k.tcb[x].waievt /\ c.curevt = k.tcb[x].curevt
      /\ c.actcnt = k.tcb[x].actcnt /\ c.pc = pc
  BY <1>1 DEF Tcb
<1>3. [k EXCEPT !.tcb[x].pc = pc] = [sched |-> k.sched, tcb |-> tcb1]
  BY <1>1
<1> HIDE DEF c
<1>4. tcb1 \in [TaskId -> Tcb] /\ tcb1[x] = c /\ \A u \in TaskId \ {x} : tcb1[u] = k.tcb[u]
  BY <1>1, <1>2
<1> HIDE DEF tcb1
<1>5. TaskOK(c, x)
  BY <1>2 DEF KernelOK, TaskOK
<1>6. QueuedLow(c, x)
  BY <1>2 DEF QueuedLow
<1>7. /\ \A u \in TaskId : TaskOK(tcb1[u], u)
      /\ \A u \in TaskId \ {TSKID_NULL} : QueuedLow(tcb1[u], u)
      /\ \A u \in TaskId : /\ tcb1[u].tstat = k.tcb[u].tstat
                           /\ tcb1[u].curpri = k.tcb[u].curpri
  BY <1>2, <1>4, <1>5, <1>6 DEF KernelOK
<1>8. k.sched.schedtsk # TSKID_NULL => k.sched.nextpri <= tcb1[k.sched.schedtsk].curpri
  BY <1>7, SchedtskRunnable DEF KernelOK, SchedOK
<1>9. KernelOK([sched |-> k.sched, tcb |-> tcb1], TSKID_NULL)
  BY <1>4, <1>7, <1>8, ReplaceTcb
<1>10. QED
  BY <1>3, <1>9

(* The task that is dispatched gets its execution priority. *)
LEMMA ResumedOK ==
  ASSUME NEW k, KernelOK(k, TSKID_NULL), k.sched.schedtsk \in TaskId
  PROVE  /\ KernelOK([sched |-> k.sched, tcb |-> Resumed(k.tcb, k.sched.schedtsk)],
                     k.sched.schedtsk)
         /\ \A u \in TaskId : Resumed(k.tcb, k.sched.schedtsk)[u].tstat = k.tcb[u].tstat
<1> DEFINE t    == k.sched.schedtsk
           tcb1 == Resumed(k.tcb, t)
           c    == [k.tcb[t] EXCEPT !.curpri = tinib_exepri[t]]
<1>1. /\ k \in [sched : Sched, tcb : [TaskId -> Tcb]] /\ k.tcb[t] \in Tcb
      /\ k.tcb[t].tstat = "RUNNABLE" /\ k.tcb[t].curpri \in Nat
      /\ k.sched.nextpri \in Nat /\ t # TSKID_NULL
  <2>1. k \in [sched : Sched, tcb : [TaskId -> Tcb]] /\ t # TSKID_NULL
    BY Constants DEF KernelOK
  <2>2. k.tcb[t] \in Tcb /\ k.tcb[t].tstat = "RUNNABLE"
    BY <2>1, SchedtskRunnable
  <2>3. k.sched.nextpri \in Nat
    BY <2>1, TaskCount DEF Sched, Priority, TPRI_MINTASK
  <2>4. QED
    BY <2>1, <2>2, <2>3 DEF Tcb
<1>2. /\ c \in Tcb /\ c.tstat = k.tcb[t].tstat /\ c.curpri = tinib_exepri[t]
      /\ c.waievt = k.tcb[t].waievt /\ c.curevt = k.tcb[t].curevt
      /\ c.actcnt = k.tcb[t].actcnt
  BY <1>1, Constants DEF Tcb
<1>3. \/ tcb1 = k.tcb
      \/ /\ tcb1 = [k.tcb EXCEPT ![t] = c]
         /\ k.tcb[t].pc \in {"activate_r", "dispatcher_r_exepri"}
  BY DEF Resumed
<1>4. CASE tcb1 = k.tcb
  <2>1. \A u \in TaskId \ {t} : QueuedLow(k.tcb[u], u)
    BY Constants DEF KernelOK
  <2>2. KernelOK([sched |-> k.sched, tcb |-> k.tcb], t)
    BY <1>1, <2>1 DEF KernelOK
  <2>3. QED
    BY <1>4, <2>2
<1>5. CASE /\ tcb1 = [k.tcb EXCEPT ![t] = c]
           /\ k.tcb[t].pc \in {"activate_r", "dispatcher_r_exepri"}
  <2>1. k.tcb[t].curpri = tinib_inipri[t]
    BY <1>1, <1>5, Constants DEF KernelOK, QueuedLow
  <2> HIDE DEF c, tcb1, t
  <2>2. tcb1 \in [TaskId -> Tcb] /\ tcb1[t] = c /\ \A u \in TaskId \ {t} : tcb1[u] = k.tcb[u]
    BY <1>1, <1>2, <1>5 DEF t
  <2>3. t \in TaskId /\ c.curpri \in Nat /\ k.tcb[t].curpri <= c.curpri
    BY <1>2, <2>1, Constants DEF t
  <2>4. TaskOK(c, t)
    <3>1. TaskOK(k.tcb[t], t)
      BY <2>3 DEF KernelOK
    <3>2. k.tcb[t].waievt = {}
      BY <1>1, <3>1 DEF TaskOK
    <3>3. LowIsr => \A u \in WindowTask : tinib_inipri[u] <= c.curpri
      <4>1. SUFFICES ASSUME LowIsr, NEW u \in WindowTask PROVE tinib_inipri[u] <= c.curpri
        OBVIOUS
      <4>2. tinib_inipri[u] <= k.tcb[t].curpri
        BY <3>1, <4>1 DEF TaskOK
      <4>3. tinib_inipri[u] \in Nat
        BY Constants, KernelConfig
      <4>4. QED
        BY <1>1, <2>3, <4>2, <4>3
    <3>4. QED
      BY <1>1, <1>2, <3>1, <3>2, <3>3 DEF TaskOK
  <2>5. /\ \A u \in TaskId : TaskOK(tcb1[u], u)
        /\ \A u \in TaskId \ {t} : QueuedLow(tcb1[u], u)
        /\ \A u \in TaskId : tcb1[u].tstat = k.tcb[u].tstat
        /\ \A u \in TaskId : u # t => tcb1[u].curpri = k.tcb[u].curpri
    BY <1>2, <2>2, <2>4, Constants DEF KernelOK
  <2>6. k.sched.nextpri <= tcb1[t].curpri
    <3>1. k.sched.nextpri <= k.tcb[t].curpri
      BY <1>1 DEF KernelOK, SchedOK, t
    <3>2. QED
      BY <1>1, <2>2, <2>3, <3>1
  <2>7. KernelOK([sched |-> k.sched, tcb |-> tcb1], t)
    BY <2>2, <2>5, <2>6, ReplaceTcb DEF t
  <2>8. QED
    BY <2>5, <2>7 DEF tcb1, t
<1>6. QED
  BY <1>3, <1>4, <1>5

(* Setting events of a task that waits for none of them. *)
LEMMA EventsSetOK ==
  ASSUME NEW x, KernelOK(K, x), NEW t \in TaskId, NEW mask \in EventMask,
         ~ Wakes(t, mask)
  PROVE  LET r == [K EXCEPT !.tcb = EventsSet(t, mask)]
         IN  /\ KernelOK(r, x) /\ r.sched = sched
             /\ \A u \in TaskId : r.tcb[u].tstat = tcb[u].tstat
<1> DEFINE c    == [tcb[t] EXCEPT !.curevt = @ \cup mask]
           tcb1 == [tcb EXCEPT ![t] = c]
<1>1. tcb \in [TaskId -> Tcb] /\ tcb[t] \in Tcb
  BY DEF KernelOK, K
<1>2. /\ c \in Tcb /\ c.tstat = tcb[t].tstat /\ c.curpri = tcb[t].curpri
      /\ c.waievt = tcb[t].waievt /\ c.curevt = tcb[t].curevt \cup mask
      /\ c.actcnt = tcb[t].actcnt /\ c.pc = tcb[t].pc
  BY <1>1 DEF Tcb, EventMask
<1>3. [K EXCEPT !.tcb = EventsSet(t, mask)] = [sched |-> K.sched, tcb |-> tcb1]
  BY DEF EventsSet, K
<1> HIDE DEF c
<1>4. tcb1 \in [TaskId -> Tcb] /\ tcb1[t] = c /\ \A u \in TaskId \ {t} : tcb1[u] = tcb[u]
  BY <1>1, <1>2
<1> HIDE DEF tcb1
<1>5. TaskOK(c, t)
  <2>1. c.waievt \cap c.curevt = {}
    BY <1>2 DEF Wakes
  <2>2. TaskOK(tcb[t], t)
    BY DEF KernelOK, K
  <2>3. QED
    BY <1>2, <2>1, <2>2 DEF TaskOK
<1>6. QueuedLow(tcb[t], t) => QueuedLow(c, t)
  BY <1>2 DEF QueuedLow
<1>7. /\ \A u \in TaskId : TaskOK(tcb1[u], u)
      /\ \A u \in TaskId \ {x} : QueuedLow(tcb1[u], u)
      /\ \A u \in TaskId : /\ tcb1[u].tstat = K.tcb[u].tstat
                           /\ tcb1[u].curpri = K.tcb[u].curpri
  BY <1>2, <1>4, <1>5, <1>6 DEF KernelOK, K
<1>8. K.sched.schedtsk # TSKID_NULL => K.sched.nextpri <= tcb1[K.sched.schedtsk].curpri
  BY <1>7, SchedtskRunnable DEF KernelOK, SchedOK
<1>9. KernelOK([sched |-> K.sched, tcb |-> tcb1], x)
  BY <1>4, <1>7, <1>8, ReplaceTcb
<1>10. QED
  BY <1>3, <1>7, <1>9 DEF K

(* Setting an event a task waits for makes it runnable. *)
LEMMA WokenOK ==
  ASSUME NEW x, KernelOK(K, x), NEW t \in TaskId, NEW mask \in EventMask,
         Wakes(t, mask)
  PROVE  LET r == Woken(t, mask)
         IN  /\ KernelOK(r, x) /\ tcb[t].tstat = "WAITING"
             /\ r.tcb[t].curpri = tinib_inipri[t]
             /\ r.sched.schedtsk = IF Outranks(sched, tcb, t)
                                   THEN t ELSE sched.schedtsk
             /\ \A u \in TaskId \ {t} : r.tcb[u] = tcb[u]
<1> DEFINE c    == [tcb[t] EXCEPT !.curevt = @ \cup mask, !.waievt = {},
                                  !.tstat = "RUNNABLE"]
           tcb1 == [tcb EXCEPT ![t] = c]
           s1   == make_runnable(sched, tcb1, t)
           r    == Woken(t, mask)
<1>1. /\ tcb \in [TaskId -> Tcb] /\ tcb[t] \in Tcb /\ sched \in Sched
      /\ TaskOK(tcb[t], t) /\ SchedOK(sched, tcb)
      /\ Accounted(sched) = RunnableIn(tcb)
  BY DEF KernelOK, K
<1>2. tcb[t].tstat = "WAITING" /\ tcb[t].curpri = tinib_inipri[t]
  BY <1>1 DEF TaskOK, Wakes
<1>3. /\ c \in Tcb /\ c.tstat = "RUNNABLE" /\ c.curpri = tinib_inipri[t]
      /\ c.waievt = {} /\ c.actcnt = tcb[t].actcnt
  BY <1>1, <1>2 DEF Tcb, EventMask, TaskState
<1>4. r = [sched |-> s1, tcb |-> tcb1]
  BY DEF Woken
<1> HIDE DEF c, s1, r
<1>5. tcb1 \in [TaskId -> Tcb] /\ tcb1[t] = c /\ \A u \in TaskId \ {t} : tcb1[u] = tcb[u]
  BY <1>1, <1>3
<1> HIDE DEF tcb1
<1>6. t \notin Accounted(sched) /\ t # sched.schedtsk
  BY <1>1, <1>2, Constants DEF RunnableIn, Accounted
<1>7. \A u \in TaskId : tcb1[u].curpri = tcb[u].curpri /\ tcb1[u].curpri \in Nat
  BY <1>1, <1>2, <1>3, <1>5 DEF Tcb
<1>8. SchedOK(sched, tcb1)
  <2>1. sched.schedtsk \in TaskId =>
           tcb[sched.schedtsk].curpri \in Nat /\ tcb1[sched.schedtsk].curpri \in Nat
           /\ tcb[sched.schedtsk].curpri <= tcb1[sched.schedtsk].curpri
    BY <1>7
  <2>2. QED
    BY <1>1, <1>7, <2>1, SchedFrame
<1>9. Outranks(sched, tcb1, t) <=> Outranks(sched, tcb, t)
  <2>1. sched.schedtsk # TSKID_NULL => sched.schedtsk \in TaskId
    BY <1>1 DEF Sched
  <2>2. QED
    BY <1>7, <2>1 DEF Outranks
<1>10. /\ s1 \in Sched /\ SchedOK(s1, tcb1)
       /\ Accounted(s1) = Accounted(sched) \cup {t}
       /\ s1.schedtsk = IF Outranks(sched, tcb1, t) THEN t ELSE sched.schedtsk
  <2>1. tcb1[t].curpri \in Priority
    BY <1>3, <1>5, Constants
  <2>2. QED
    BY <1>1, <1>6, <1>7, <1>8, <2>1, MakeRunnable DEF s1
<1>11. Accounted(s1) = RunnableIn(tcb1)
  BY <1>1, <1>3, <1>5, <1>10 DEF RunnableIn
<1>12. TaskOK(c, t) /\ QueuedLow(c, t)
  BY <1>1, <1>2, <1>3 DEF TaskOK, QueuedLow
<1>13. /\ \A u \in TaskId : TaskOK(tcb1[u], u)
       /\ \A u \in TaskId \ {x} : QueuedLow(tcb1[u], u)
  BY <1>5, <1>12 DEF KernelOK, K
<1>14. KernelOK(r, x)
  BY <1>4, <1>5, <1>10, <1>11, <1>13 DEF KernelOK
<1>15. QED
  BY <1>2, <1>3, <1>4, <1>5, <1>9, <1>10, <1>14 DEF r

-----------------------------------------------------------------------------
(* The steps that end a service preserve the invariant.                    *)

(* start_dispatch hands the processor to schedtsk, PreTaskHook or the idle *)
(* loop.                                                                   *)
LEMMA StartDispatch ==
  ASSUME TypeOK, NEW k, KernelOK(k, TSKID_NULL), start_dispatch(k),
         isr' = <<>>, rescb' \in [ResourceId -> Rescb], Restores(rescb'),
         initid' = initid
  PROVE  IInv'
<1>1. k.sched = sched' /\ runtsk' = k.sched.schedtsk
      /\ k \in [sched : Sched, tcb : [TaskId -> Tcb]]
  BY DEF start_dispatch, KernelOK
<1>2. /\ runtsk' \in TaskId \cup {TSKID_NULL}
      /\ runtsk' # TSKID_NULL => runtsk' \in TaskId /\ k.tcb[runtsk'].tstat = "RUNNABLE"
  BY <1>1, SchedtskRunnable
<1>3. SUFFICES ASSUME NEW x, KernelOK([sched |-> sched', tcb |-> tcb'], x),
                      x = IF cpu' \in {"body", "error"} THEN runtsk' ELSE TSKID_NULL,
                      \A u \in TaskId : tcb'[u].tstat = k.tcb[u].tstat,
                      \/ runtsk' = TSKID_NULL /\ cpu' = "idle" /\ callevel' = "ISR2"
                      \/ /\ runtsk' # TSKID_NULL /\ cpu' = "pre"
                         /\ callevel' = "PREPOST" /\ "pre" \in Unmasked
                      \/ runtsk' # TSKID_NULL /\ cpu' = "body" /\ callevel' = "TASK"
               PROVE  IInv'
  <2>1. CASE /\ k.sched.schedtsk = TSKID_NULL
             /\ cpu' = "idle" /\ callevel' = "ISR2" /\ tcb' = k.tcb
    <3>1. KernelOK([sched |-> sched', tcb |-> tcb'], TSKID_NULL)
      BY <1>1, <2>1 DEF KernelOK
    <3>2. QED
      BY <1>1, <1>3, <2>1, <3>1
  <2>2. CASE /\ k.sched.schedtsk # TSKID_NULL /\ "pre" \in Unmasked
             /\ cpu' = "pre" /\ callevel' = "PREPOST" /\ tcb' = k.tcb
    <3>1. KernelOK([sched |-> sched', tcb |-> tcb'], TSKID_NULL)
      BY <1>1, <2>2 DEF KernelOK
    <3>2. QED
      BY <1>1, <1>3, <2>2, <3>1
  <2>3. CASE /\ k.sched.schedtsk # TSKID_NULL
             /\ dispatch_task(k.tcb, k.sched.schedtsk)
    <3>1. /\ cpu' = "body" /\ callevel' = "TASK"
          /\ tcb' = Resumed(k.tcb, k.sched.schedtsk)
      BY <2>3 DEF dispatch_task
    <3>2. /\ KernelOK([sched |-> sched', tcb |-> tcb'], runtsk')
          /\ \A u \in TaskId : tcb'[u].tstat = k.tcb[u].tstat
      BY <1>1, <1>2, <2>3, <3>1, ResumedOK
    <3>3. QED
      BY <1>1, <1>3, <2>3, <3>1, <3>2
  <2>4. QED
    BY <2>1, <2>2, <2>3 DEF start_dispatch
<1>4. TypeOK'
  <2>1. sched' \in Sched /\ tcb' \in [TaskId -> Tcb]
    BY <1>3 DEF KernelOK
  <2>2. QED
    BY <1>2, <1>3, <2>1 DEF TypeOK, CallLevel, CpuAt
<1>5. KernelOK(K, Running)'
  BY <1>3 DEF K, Running
<1>6. Control'
  BY <1>2, <1>3 DEF Control, Base
<1>7. Steady(sched)'
  BY <1>1, <1>2, <1>3 DEF Steady, Base
<1>8. Booting' /\ Restores(rescb)'
  BY <1>3 DEF Booting, Restores
<1>9. QED
  BY <1>4, <1>5, <1>6, <1>7, <1>8 DEF IInv

LEMMA ExitAndDispatch ==
  ASSUME TypeOK, NEW k, KernelOK(k, TSKID_NULL), exit_and_dispatch(k),
         runtsk \in TaskId, isr' = <<>>, rescb' \in [ResourceId -> Rescb],
         Restores(rescb'), initid' = initid
  PROVE  IInv'
<1>1. CASE /\ cpu' = "post" /\ callevel' = "PREPOST"
           /\ sched' = k.sched /\ tcb' = k.tcb /\ UNCHANGED runtsk
  <2>1. k \in [sched : Sched, tcb : [TaskId -> Tcb]]
    BY DEF KernelOK
  <2>2. KernelOK([sched |-> sched', tcb |-> tcb'], TSKID_NULL)
    BY <1>1, <2>1 DEF KernelOK
  <2>3. KernelOK(K, Running)'
    BY <1>1, <2>2 DEF K, Running
  <2>4. TypeOK'
    BY <1>1, <2>1 DEF TypeOK, CallLevel, CpuAt
  <2>5. Control' /\ Steady(sched)'
    BY <1>1 DEF Control, Base, Steady
  <2>6. Booting' /\ Restores(rescb)'
    BY <1>1 DEF Booting, Restores
  <2>7. QED
    BY <2>3, <2>4, <2>5, <2>6 DEF IInv
<1>2. CASE start_dispatch(k)
  BY <1>2, StartDispatch
<1>3. QED
  BY <1>1, <1>2 DEF exit_and_dispatch

LEMMA Dispatch ==
  ASSUME TypeOK, NEW k, runtsk \in TaskId, KernelOK(k, runtsk),
         NEW pc \in {"dispatcher_r", "dispatcher_r_exepri", "ret_int_r"},
         pc = "dispatcher_r_exepri" => k.tcb[runtsk].curpri = tinib_inipri[runtsk],
         dispatch(k, pc), isr' = <<>>,
         rescb' \in [ResourceId -> Rescb], Restores(rescb'), initid' = initid
  PROVE  IInv'
<1> DEFINE k1 == [k EXCEPT !.tcb[runtsk].pc = pc]
<1>1. KernelOK(k1, TSKID_NULL)
  BY SavedPc DEF ResumeAt
<1>2. exit_and_dispatch(k1)
  BY DEF dispatch
<1> HIDE DEF k1
<1>3. QED
  BY <1>1, <1>2, ExitAndDispatch

(* A service that does not dispatch leaves the running task runnable and,  *)
(* unless a handler that will dispatch runs, does not replace schedtsk.    *)
LEMMA Returns ==
  ASSUME IInv, NEW k, KernelOK(k, Running), Return(k), cpu # "boot",
         UNCHANGED <<isr, initid>>,
         rescb' \in [ResourceId -> Rescb], Restores(rescb'),
         cpu \in {"body", "pre", "error"} =>
           /\ k.tcb[runtsk].tstat = "RUNNABLE"
           /\ isr = <<>> \/ Base # "TASK" => k.sched.schedtsk = sched.schedtsk
  PROVE  IInv'
<1>1. /\ sched' = k.sched /\ tcb' = k.tcb
      /\ UNCHANGED <<runtsk, callevel, cpu, isr, initid>>
      /\ k \in [sched : Sched, tcb : [TaskId -> Tcb]]
  BY DEF Return, KernelOK
<1>2. KernelOK([sched |-> sched', tcb |-> tcb'], Running)
  BY <1>1 DEF KernelOK
<1>3. KernelOK(K, Running)'
  BY <1>1, <1>2 DEF K, Running
<1>4. TypeOK'
  BY <1>1 DEF TypeOK, IInv
<1>5. Control'
  BY <1>1 DEF Control, Base, IInv
<1>6. Steady(sched)'
  BY <1>1 DEF Steady, Base, IInv
<1>7. Booting' /\ Restores(rescb)'
  BY <1>1 DEF Booting, Restores
<1>8. QED
  BY <1>3, <1>4, <1>5, <1>6, <1>7 DEF IInv

(* What a service of the running task finds. *)
LEMMA AtTaskLevel ==
  ASSUME IInv, TaskLevel
  PROVE  /\ runtsk \in TaskId /\ runtsk # TSKID_NULL
         /\ sched.schedtsk = runtsk /\ tcb[runtsk].tstat = "RUNNABLE"
         /\ Running = runtsk /\ KernelOK(K, runtsk)
         /\ isr = <<>> /\ cpu = "body"
         /\ TypeOK /\ tcb[runtsk] \in Tcb /\ TaskOK(tcb[runtsk], runtsk)
         /\ sched.nextpri <= tcb[runtsk].curpri
         /\ Restores(rescb) /\ rescb \in [ResourceId -> Rescb]
<1>1. cpu = "body" /\ isr = <<>> /\ runtsk \in TaskId /\ sched.schedtsk = runtsk
      /\ tcb[runtsk].tstat = "RUNNABLE" /\ Running = runtsk
  BY DEF IInv, TaskLevel, Steady, Running
<1>2. runtsk # TSKID_NULL
  BY <1>1, Constants
<1>3. KernelOK(K, runtsk) /\ TypeOK /\ Restores(rescb) /\ rescb \in [ResourceId -> Rescb]
  BY <1>1 DEF IInv, TypeOK
<1>4. tcb[runtsk] \in Tcb /\ TaskOK(tcb[runtsk], runtsk) /\ sched.nextpri <= tcb[runtsk].curpri
  BY <1>1, <1>2, <1>3 DEF KernelOK, K, SchedOK
<1>5. QED
  BY <1>1, <1>2, <1>3, <1>4

-----------------------------------------------------------------------------
(* Task management.                                                        *)

(* make_active for a dormant task, inside a service or a handler. *)
LEMMA ActivateDormant ==
  ASSUME NEW k, NEW x, KernelOK(k, x), NEW t \in TaskId, k.tcb[t].tstat = "DORMANT"
  PROVE  LET r == make_active(k, t)
         IN  /\ KernelOK(r, x) /\ QueuedLow(r.tcb[t], t)
             /\ r.sched.schedtsk = IF Outranks(k.sched, r.tcb, t)
                                   THEN t ELSE k.sched.schedtsk
             /\ r.tcb[t].tstat = "RUNNABLE" /\ r.tcb[t].curpri = tinib_inipri[t]
             /\ \A u \in TaskId \ {t} : r.tcb[u] = k.tcb[u]
<1>1. RunnableIn(k.tcb) = RunnableIn(k.tcb) \ {t}
  BY DEF RunnableIn
<1>2. QED
  BY <1>1, MakeActive DEF KernelOK

LEMMA ActivateTaskStep ==
  ASSUME IInv, NEW t \in TaskId, ActivateTask(t)
  PROVE  IInv'
<1>1. TaskLevel /\ UNCHANGED <<rescb, isr, initid>>
  BY DEF ActivateTask
<1>2. Restores(rescb') /\ rescb' \in [ResourceId -> Rescb] /\ isr' = <<>>
  BY <1>1, AtTaskLevel
<1> DEFINE k == make_active(K, t)
<1>3. ASSUME tcb[t].tstat = "DORMANT"
      PROVE  /\ KernelOK(k, runtsk) /\ k.tcb[runtsk].tstat = "RUNNABLE"
             /\ ~ Outranks(sched, k.tcb, t) => k.sched.schedtsk = sched.schedtsk
  <2>1. t # runtsk /\ KernelOK(K, runtsk)
    BY <1>1, <1>3, AtTaskLevel
  <2>2. QED
    BY <1>1, <1>3, <2>1, AtTaskLevel, ActivateDormant DEF K
<1>4. CASE tcb[t].tstat = "DORMANT" /\ dispatch(k, "dispatcher_r")
  <2> HIDE DEF k
  <2>1. QED
    BY <1>1, <1>2, <1>3, <1>4, AtTaskLevel, Dispatch
<1>5. CASE tcb[t].tstat = "DORMANT" /\ ~ Outranks(sched, k.tcb, t) /\ Return(k)
  <2> HIDE DEF k
  <2>1. QED
    BY <1>1, <1>2, <1>3, <1>5, AtTaskLevel, Returns
<1>6. CASE tcb[t].tstat # "DORMANT" /\ Return(Counted(K, t))
  <2>1. /\ KernelOK(Counted(K, t), runtsk) /\ Counted(K, t).sched = sched
        /\ Counted(K, t).tcb[runtsk].tstat = "RUNNABLE"
    BY <1>1, <1>6, AtTaskLevel, CountedOK DEF K
  <2>2. QED
    BY <1>1, <1>2, <1>6, <2>1, AtTaskLevel, Returns
<1>7. QED
  BY <1>4, <1>5, <1>6 DEF ActivateTask

(* The running task starts anew: TerminateTask with a request pending, and *)
(* ChainTask to itself.                                                    *)
LEMMA StartsAgain ==
  ASSUME IInv, TaskLevel,
         NEW tcb1 \in [TaskId -> Tcb],
         \A u \in TaskId \ {runtsk} : tcb1[u] = tcb[u]
  PROVE  LET r == make_active([sched |-> search_schedtsk(sched), tcb |-> tcb1], runtsk)
         IN  /\ KernelOK(r, TSKID_NULL)
             /\ \A u \in TaskId \ {runtsk} : r.tcb[u] = tcb[u]
<1> DEFINE s1 == search_schedtsk(sched)
           k  == [sched |-> s1, tcb |-> tcb1]
           r  == make_active(k, runtsk)
<1>1. KernelOK(K, runtsk) /\ K.sched = sched /\ K.tcb = tcb
      /\ sched.schedtsk = runtsk /\ runtsk \in TaskId
  BY AtTaskLevel DEF K
<1>2. \A u \in TaskId : u # K.sched.schedtsk => tcb1[u].curpri = K.tcb[u].curpri
  BY <1>1
<1>3. s1 \in Sched /\ SchedOK(s1, tcb1) /\ Accounted(s1) = RunnableIn(tcb) \ {runtsk}
  BY <1>1, <1>2, Leave
<1> HIDE DEF s1
<1>4. RunnableIn(tcb) \ {runtsk} = RunnableIn(tcb1) \ {runtsk}
  BY <1>1 DEF RunnableIn
<1>5. /\ \A u \in TaskId \ {runtsk} : TaskOK(tcb1[u], u)
      /\ \A u \in TaskId \ {runtsk} : QueuedLow(tcb1[u], u)
  BY <1>1 DEF KernelOK
<1>6. /\ k \in [sched : Sched, tcb : [TaskId -> Tcb]]
      /\ k.sched = s1 /\ k.tcb = tcb1
  BY <1>3
<1> HIDE DEF k
<1>7. /\ KernelOK(r, runtsk) /\ QueuedLow(r.tcb[runtsk], runtsk)
      /\ \A u \in TaskId \ {runtsk} : r.tcb[u] = tcb1[u]
  BY <1>1, <1>3, <1>4, <1>5, <1>6, MakeActive
<1> HIDE DEF r
<1>8. KernelOK(r, TSKID_NULL)
  BY <1>1, <1>7 DEF KernelOK
<1>9. QED
  BY <1>7, <1>8 DEF r, k, s1

(* The running task has ended, and starts again if it was requested. *)
LEMMA TerminatedOK ==
  ASSUME IInv, TaskLevel
  PROVE  /\ KernelOK(Terminated, TSKID_NULL)
         /\ \A u \in TaskId \ {runtsk} : Terminated.tcb[u] = tcb[u]
<1> DEFINE c    == [tcb[runtsk] EXCEPT !.tstat = "DORMANT"]
           tcb0 == [tcb EXCEPT ![runtsk] = c]
           s1   == search_schedtsk(sched)
           k    == [sched |-> s1, tcb |-> tcb0]
           c1   == [c EXCEPT !.actcnt = @ - 1]
           tcb1 == [tcb EXCEPT ![runtsk] = c1]
<1>1. /\ KernelOK(K, runtsk) /\ K.sched = sched /\ K.tcb = tcb
      /\ sched.schedtsk = runtsk /\ runtsk \in TaskId /\ runtsk # TSKID_NULL
      /\ tcb[runtsk] \in Tcb /\ TaskOK(tcb[runtsk], runtsk)
      /\ tcb[runtsk].tstat = "RUNNABLE" /\ tcb \in [TaskId -> Tcb]
  BY AtTaskLevel DEF K, TypeOK
<1>2. /\ c \in Tcb /\ c.tstat = "DORMANT" /\ c.actcnt = tcb[runtsk].actcnt
      /\ c.waievt = tcb[runtsk].waievt /\ c.curpri = tcb[runtsk].curpri
      /\ c.actcnt \in Nat
  BY <1>1 DEF Tcb, TaskState
<1>3. ASSUME c.actcnt > 0 PROVE c1 \in Tcb
  <2>1. c.actcnt - 1 \in Nat
    BY <1>2, <1>3
  <2> HIDE DEF c
  <2>2. QED
    BY <1>2, <2>1 DEF Tcb
<1>4. Terminated = IF tcb[runtsk].actcnt > 0
                   THEN make_active([sched |-> s1, tcb |-> tcb1], runtsk)
                   ELSE k
  <2>1. [k EXCEPT !.tcb[runtsk].actcnt = @ - 1] = [sched |-> s1, tcb |-> tcb1]
    BY <1>1
  <2>2. QED
    BY <2>1 DEF Terminated
<1> HIDE DEF c, c1
<1>5. tcb0 \in [TaskId -> Tcb] /\ tcb0[runtsk] = c
      /\ \A u \in TaskId \ {runtsk} : tcb0[u] = tcb[u]
  BY <1>1, <1>2
<1>6. c.actcnt > 0 => /\ tcb1 \in [TaskId -> Tcb]
                      /\ \A u \in TaskId \ {runtsk} : tcb1[u] = tcb[u]
  BY <1>1, <1>3
<1> HIDE DEF tcb0, tcb1
<1>7. CASE tcb[runtsk].actcnt > 0
  BY <1>2, <1>4, <1>6, <1>7, StartsAgain DEF s1
<1>8. CASE ~ (tcb[runtsk].actcnt > 0)
  <2>1. \A u \in TaskId : u # K.sched.schedtsk => tcb0[u].curpri = K.tcb[u].curpri
    BY <1>1, <1>5
  <2>2. s1 \in Sched /\ SchedOK(s1, tcb0) /\ Accounted(s1) = RunnableIn(tcb) \ {runtsk}
    BY <1>1, <1>5, <2>1, Leave
  <2> HIDE DEF s1
  <2>3. RunnableIn(tcb0) = RunnableIn(tcb) \ {runtsk}
    BY <1>1, <1>2, <1>5 DEF RunnableIn
  <2>4. TaskOK(c, runtsk) /\ QueuedLow(c, runtsk)
    BY <1>1, <1>2, <1>8 DEF TaskOK, QueuedLow
  <2>5. /\ \A u \in TaskId : TaskOK(tcb0[u], u)
        /\ \A u \in TaskId : QueuedLow(tcb0[u], u)
    BY <1>1, <1>5, <2>4 DEF KernelOK
  <2>6. KernelOK(k, TSKID_NULL)
    BY <1>5, <2>2, <2>3, <2>5 DEF KernelOK
  <2>7. QED
    BY <1>4, <1>5, <1>8, <2>6
<1>9. QED
  BY <1>7, <1>8

LEMMA TerminateTaskStep ==
  ASSUME IInv, TerminateTask
  PROVE  IInv'
<1>1. TaskLevel /\ UNCHANGED <<rescb, isr, initid>> /\ exit_and_dispatch(Terminated)
  BY DEF TerminateTask
<1>2. /\ Restores(rescb') /\ rescb' \in [ResourceId -> Rescb] /\ isr' = <<>>
      /\ KernelOK(Terminated, TSKID_NULL) /\ runtsk \in TaskId /\ TypeOK
  BY <1>1, AtTaskLevel, TerminatedOK
<1>3. QED
  BY <1>1, <1>2, ExitAndDispatch

LEMMA ChainTaskStep ==
  ASSUME IInv, NEW t \in TaskId, ChainTask(t)
  PROVE  IInv'
<1>1. TaskLevel /\ UNCHANGED <<rescb, isr, initid>>
  BY DEF ChainTask
<1>2. /\ Restores(rescb') /\ rescb' \in [ResourceId -> Rescb] /\ isr' = <<>>
      /\ KernelOK(Terminated, TSKID_NULL) /\ runtsk \in TaskId /\ TypeOK
      /\ \A u \in TaskId \ {runtsk} : Terminated.tcb[u] = tcb[u]
  BY <1>1, AtTaskLevel, TerminatedOK
<1>3. CASE /\ t = runtsk
           /\ exit_and_dispatch(
                make_active([K EXCEPT !.sched = search_schedtsk(sched)], t))
  <2> DEFINE s1 == search_schedtsk(sched)
  <2>1. [K EXCEPT !.sched = s1] = [sched |-> s1, tcb |-> tcb]
    BY DEF K
  <2>2. tcb \in [TaskId -> Tcb]
    BY <1>2 DEF TypeOK
  <2>3. KernelOK(make_active([sched |-> s1, tcb |-> tcb], runtsk), TSKID_NULL)
    BY <1>1, <2>2, StartsAgain
  <2>4. QED
    BY <1>1, <1>2, <1>3, <2>1, <2>3, ExitAndDispatch
<1>4. CASE /\ t # runtsk /\ tcb[t].tstat = "DORMANT"
           /\ exit_and_dispatch(make_active(Terminated, t))
  <2>1. Terminated.tcb[t].tstat = "DORMANT"
    BY <1>2, <1>4
  <2>2. KernelOK(make_active(Terminated, t), TSKID_NULL)
    BY <1>2, <2>1, ActivateDormant
  <2>3. QED
    BY <1>1, <1>2, <1>4, <2>2, ExitAndDispatch
<1>5. CASE /\ t # runtsk /\ tcb[t].tstat # "DORMANT"
           /\ exit_and_dispatch(Counted(Terminated, t))
  <2>1. Terminated.tcb[t].tstat # "DORMANT"
    BY <1>2, <1>5
  <2>2. KernelOK(Counted(Terminated, t), TSKID_NULL)
    BY <1>2, <2>1, CountedOK
  <2>3. QED
    BY <1>1, <1>2, <1>5, <2>2, ExitAndDispatch
<1>6. QED
  BY <1>3, <1>4, <1>5 DEF ChainTask

-----------------------------------------------------------------------------
(* Priorities: Schedule, GetResource, ReleaseResource.                     *)

(* A new priority and a new last resource of the running task. *)
LEMMA Reprioritised ==
  ASSUME IInv, TaskLevel, NEW pri \in Nat, NEW res \in ResourceId \cup {RESID_NULL},
         LowIsr => \A u \in WindowTask : tinib_inipri[u] <= pri
  PROVE  LET tcb1 == [tcb EXCEPT ![runtsk] = [@ EXCEPT !.curpri = pri, !.lastres = res]]
         IN  /\ tcb1 \in [TaskId -> Tcb]
             /\ tcb1[runtsk].tstat = "RUNNABLE" /\ tcb1[runtsk].curpri = pri
             /\ \A u \in TaskId : tcb1[u].tstat = tcb[u].tstat
             /\ sched.nextpri <= pri =>
                  KernelOK([sched |-> sched, tcb |-> tcb1], runtsk)
             /\ pri < sched.nextpri =>
                  KernelOK([sched |-> preempt(sched, tcb1), tcb |-> tcb1], runtsk)
<1> DEFINE c    == [tcb[runtsk] EXCEPT !.curpri = pri, !.lastres = res]
           tcb1 == [tcb EXCEPT ![runtsk] = c]
<1>1. /\ KernelOK(K, runtsk) /\ K.sched = sched /\ K.tcb = tcb
      /\ sched.schedtsk = runtsk /\ runtsk \in TaskId
      /\ tcb[runtsk] \in Tcb /\ TaskOK(tcb[runtsk], runtsk)
      /\ tcb[runtsk].tstat = "RUNNABLE" /\ tcb \in [TaskId -> Tcb]
  BY AtTaskLevel DEF K, TypeOK
<1>2. /\ c \in Tcb /\ c.tstat = "RUNNABLE" /\ c.curpri = pri
      /\ c.waievt = tcb[runtsk].waievt /\ c.actcnt = tcb[runtsk].actcnt
  BY <1>1 DEF Tcb
<1> HIDE DEF c
<1>3. tcb1 \in [TaskId -> Tcb] /\ tcb1[runtsk] = c
      /\ \A u \in TaskId \ {runtsk} : tcb1[u] = tcb[u]
  BY <1>1, <1>2
<1> HIDE DEF tcb1
<1>4. TaskOK(c, runtsk)
  BY <1>1, <1>2 DEF TaskOK
<1>5. /\ \A u \in TaskId : tcb1[u].tstat = tcb[u].tstat
      /\ \A u \in TaskId : u # runtsk => tcb1[u].curpri = tcb[u].curpri
      /\ \A u \in TaskId : TaskOK(tcb1[u], u)
      /\ \A u \in TaskId \ {runtsk} : QueuedLow(tcb1[u], u)
  BY <1>1, <1>2, <1>3, <1>4 DEF KernelOK
<1>6. sched.nextpri <= pri => KernelOK([sched |-> sched, tcb |-> tcb1], runtsk)
  BY <1>1, <1>2, <1>3, <1>5, ReplaceTcb
<1>7. pri < sched.nextpri =>
        KernelOK([sched |-> preempt(sched, tcb1), tcb |-> tcb1], runtsk)
  BY <1>1, <1>2, <1>3, <1>5, Yield
<1>8. QED
  BY <1>2, <1>3, <1>5, <1>6, <1>7 DEF tcb1, c

LEMMA ScheduleStep ==
  ASSUME IInv, Schedule
  PROVE  IInv'
<1> DEFINE pri  == tinib_inipri[runtsk]
           res  == tcb[runtsk].lastres
           tcb1 == [tcb EXCEPT ![runtsk].curpri = pri]
           tcb2 == [tcb EXCEPT ![runtsk] = [@ EXCEPT !.curpri = pri, !.lastres = res]]
           k    == [sched |-> preempt(sched, tcb1), tcb |-> tcb1]
<1>1. /\ TaskLevel /\ UNCHANGED <<rescb, isr, initid>> /\ pri < sched.nextpri
      /\ dispatch(k, "dispatcher_r_exepri")
  BY DEF Schedule
<1>2. /\ Restores(rescb') /\ rescb' \in [ResourceId -> Rescb] /\ isr' = <<>>
      /\ runtsk \in TaskId /\ TypeOK /\ tcb[runtsk] \in Tcb
      /\ tcb \in [TaskId -> Tcb]
  BY <1>1, AtTaskLevel DEF TypeOK
<1>3. pri \in Nat /\ res \in ResourceId \cup {RESID_NULL}
      /\ (LowIsr => \A u \in WindowTask : tinib_inipri[u] <= pri)
  BY <1>2, Constants DEF Tcb, LowIsr
<1>4. tcb1 = tcb2
  <2>1. [tcb[runtsk] EXCEPT !.curpri = pri]
          = [tcb[runtsk] EXCEPT !.curpri = pri, !.lastres = res]
    BY <1>2 DEF Tcb
  <2>2. QED
    BY <2>1
<1> HIDE DEF pri, res
<1>5. KernelOK([sched |-> preempt(sched, tcb2), tcb |-> tcb2], runtsk)
      /\ tcb2[runtsk].curpri = pri
  BY <1>1, <1>3, Reprioritised
<1> HIDE DEF tcb1, tcb2
<1>6. KernelOK(k, runtsk) /\ k.tcb[runtsk].curpri = pri
  BY <1>4, <1>5
<1> HIDE DEF k
<1>7. QED
  BY <1>1, <1>2, <1>6, Dispatch DEF pri

LEMMA GetResourceStep ==
  ASSUME IInv, NEW r \in ResourceId, GetResource(r)
  PROVE  IInv'
<1> DEFINE ceilpri == resinib_ceilpri[r]
           curpri  == tcb[runtsk].curpri
           pri     == IF ceilpri > curpri THEN ceilpri ELSE curpri
           tcb1    == [tcb EXCEPT ![runtsk] = [@ EXCEPT !.curpri = pri, !.lastres = r]]
           tcb2    == [tcb EXCEPT ![runtsk] = [@ EXCEPT !.lastres = r, !.curpri = pri]]
<1>1. /\ TaskLevel /\ tcb' = tcb2
      /\ UNCHANGED <<sched, runtsk, callevel, cpu, isr, initid>>
      /\ rescb' = [rescb EXCEPT ![r] = [prevpri |-> curpri,
                                        prevres |-> tcb[runtsk].lastres]]
  BY DEF GetResource
<1>2. /\ Restores(rescb) /\ rescb \in [ResourceId -> Rescb] /\ isr' = <<>>
      /\ runtsk \in TaskId /\ TypeOK /\ tcb[runtsk] \in Tcb
      /\ tcb \in [TaskId -> Tcb] /\ sched.nextpri <= curpri
      /\ TaskOK(tcb[runtsk], runtsk) /\ sched \in Sched
  BY <1>1, AtTaskLevel DEF TypeOK
<1>3. ceilpri \in Nat /\ curpri \in Nat /\ sched.nextpri \in Nat
  BY <1>2, KernelConfig, TaskCount DEF Tcb, Sched, Priority, TPRI_MINTASK
<1>4. pri \in Nat /\ curpri <= pri /\ sched.nextpri <= pri
  BY <1>2, <1>3
<1>5. ASSUME LowIsr, NEW u \in WindowTask
      PROVE  tinib_inipri[u] <= curpri /\ tinib_inipri[u] <= pri
  <2>1. tinib_inipri[u] \in Nat
    BY Constants, KernelConfig
  <2>2. tinib_inipri[u] <= curpri
    BY <1>2, <1>5 DEF TaskOK
  <2>3. QED
    BY <1>3, <1>4, <2>1, <2>2
<1>6. tcb1 = tcb2
  BY <1>2 DEF Tcb
<1> HIDE DEF pri, curpri, ceilpri
<1>7. KernelOK([sched |-> sched, tcb |-> tcb1], runtsk) /\ tcb1[runtsk].tstat = "RUNNABLE"
  BY <1>1, <1>4, <1>5, Reprioritised
<1>8. rescb' \in [ResourceId -> Rescb]
  BY <1>1, <1>2, <1>3 DEF Tcb, Rescb, curpri
<1>9. Restores(rescb')
  <2>1. SUFFICES ASSUME LowIsr, NEW u \in WindowTask, NEW q \in ResourceId
                 PROVE  tinib_inipri[u] <= rescb'[q].prevpri
    BY DEF Restores
  <2>2. CASE q = r
    BY <1>1, <1>2, <1>5, <2>1, <2>2
  <2>3. CASE q # r
    BY <1>1, <1>2, <2>1, <2>3 DEF Restores
  <2>4. QED
    BY <2>2, <2>3
<1> HIDE DEF tcb1, tcb2
<1> DEFINE k == [sched |-> sched, tcb |-> tcb2]
<1>10. Return(k) /\ k.sched = sched /\ k.tcb = tcb2
  BY <1>1 DEF Return
<1>11. KernelOK(k, runtsk) /\ k.tcb[runtsk].tstat = "RUNNABLE"
  BY <1>6, <1>7
<1> HIDE DEF k
<1>12. QED
  BY <1>1, <1>8, <1>9, <1>10, <1>11, AtTaskLevel, Returns

LEMMA ReleaseResourceStep ==
  ASSUME IInv, NEW r \in ResourceId, ReleaseResource(r)
  PROVE  IInv'
<1> DEFINE pri  == rescb[r].prevpri
           res  == rescb[r].prevres
           tcb1 == [tcb EXCEPT ![runtsk] = [@ EXCEPT !.curpri = pri, !.lastres = res]]
           s1   == preempt(sched, tcb1)
<1>1. /\ TaskLevel /\ UNCHANGED <<isr, initid>>
      /\ rescb' = [rescb EXCEPT ![r].prevpri = TPRI_NULL]
      /\ \/ pri < sched.nextpri
            /\ dispatch([sched |-> s1, tcb |-> tcb1], "dispatcher_r")
         \/ pri >= sched.nextpri /\ Return([K EXCEPT !.tcb = tcb1])
  BY DEF ReleaseResource
<1>2. /\ Restores(rescb) /\ rescb \in [ResourceId -> Rescb] /\ isr' = <<>>
      /\ runtsk \in TaskId /\ TypeOK /\ sched \in Sched
  BY <1>1, AtTaskLevel DEF TypeOK
<1>3. /\ pri \in Nat /\ res \in ResourceId \cup {RESID_NULL}
      /\ sched.nextpri \in Nat
      /\ (LowIsr => \A u \in WindowTask : tinib_inipri[u] <= pri)
  BY <1>2, TaskCount DEF Rescb, Restores, Sched, Priority, TPRI_MINTASK
<1>4. rescb' \in [ResourceId -> Rescb]
  BY <1>1, <1>2 DEF Rescb, TPRI_NULL
<1>5. Restores(rescb')
  <2>1. SUFFICES ASSUME LowIsr, NEW u \in WindowTask, NEW q \in ResourceId
                 PROVE  tinib_inipri[u] <= rescb'[q].prevpri
    BY DEF Restores
  <2>2. CASE q = r
    <3>1. rescb'[q].prevpri = TPRI_NULL
      BY <1>1, <1>2, <2>2 DEF Rescb
    <3>2. QED
      BY <3>1, Constants, KernelConfig
  <2>3. CASE q # r
    BY <1>1, <1>2, <2>1, <2>3 DEF Restores
  <2>4. QED
    BY <2>2, <2>3
<1> HIDE DEF pri, res
<1>6. /\ tcb1[runtsk].tstat = "RUNNABLE"
      /\ sched.nextpri <= pri => KernelOK([sched |-> sched, tcb |-> tcb1], runtsk)
      /\ pri < sched.nextpri => KernelOK([sched |-> s1, tcb |-> tcb1], runtsk)
  BY <1>1, <1>3, Reprioritised
<1> HIDE DEF tcb1, s1
<1>7. CASE pri < sched.nextpri /\ dispatch([sched |-> s1, tcb |-> tcb1], "dispatcher_r")
  BY <1>1, <1>2, <1>4, <1>5, <1>6, <1>7, Dispatch
<1>8. CASE pri >= sched.nextpri /\ Return([K EXCEPT !.tcb = tcb1])
  <2> DEFINE k == [sched |-> sched, tcb |-> tcb1]
  <2>1. [K EXCEPT !.tcb = tcb1] = k
    BY DEF K
  <2>2. Return(k) /\ k.sched = sched /\ k.tcb[runtsk].tstat = "RUNNABLE"
    BY <1>6, <1>8, <2>1
  <2>3. KernelOK(k, runtsk)
    BY <1>3, <1>6, <1>8
  <2> HIDE DEF k
  <2>4. QED
    BY <1>1, <1>4, <1>5, <2>2, <2>3, AtTaskLevel, Returns
<1>9. QED
  BY <1>1, <1>7, <1>8

-----------------------------------------------------------------------------
(* Events. *)

LEMMA SetEventStep ==
  ASSUME IInv, NEW t \in ExtTaskId, NEW mask \in EventMask, SetEvent(t, mask)
  PROVE  IInv'
<1>1. TaskLevel /\ UNCHANGED <<rescb, isr, initid>> /\ t \in TaskId
  BY TaskCount DEF SetEvent, ExtTaskId, TaskId
<1>2. /\ Restores(rescb') /\ rescb' \in [ResourceId -> Rescb] /\ isr' = <<>>
      /\ KernelOK(K, runtsk) /\ runtsk \in TaskId /\ TypeOK
      /\ tcb[runtsk].tstat = "RUNNABLE" /\ Running = runtsk /\ cpu = "body"
  BY <1>1, AtTaskLevel
<1>3. ASSUME Wakes(t, mask)
      PROVE  /\ KernelOK(Woken(t, mask), runtsk)
             /\ Woken(t, mask).tcb[runtsk].tstat = "RUNNABLE"
             /\ ~ Outranks(sched, tcb, t) => Woken(t, mask).sched.schedtsk = sched.schedtsk
  BY <1>1, <1>2, <1>3, WokenOK
<1>4. CASE Wakes(t, mask) /\ dispatch(Woken(t, mask), "dispatcher_r")
  BY <1>1, <1>2, <1>3, <1>4, Dispatch
<1>5. CASE Wakes(t, mask) /\ ~ Outranks(sched, tcb, t) /\ Return(Woken(t, mask))
  BY <1>1, <1>2, <1>3, <1>5, Returns
<1>6. CASE ~ Wakes(t, mask) /\ Return([K EXCEPT !.tcb = EventsSet(t, mask)])
  <2> DEFINE k == [K EXCEPT !.tcb = EventsSet(t, mask)]
  <2>1. KernelOK(k, runtsk) /\ k.sched = sched /\ k.tcb[runtsk].tstat = "RUNNABLE"
    BY <1>1, <1>2, <1>6, EventsSetOK
  <2> HIDE DEF k
  <2>2. QED
    BY <1>1, <1>2, <1>6, <2>1, Returns DEF k
<1>7. QED
  BY <1>4, <1>5, <1>6 DEF SetEvent

LEMMA ClearEventStep ==
  ASSUME IInv, NEW mask \in EventMask, ClearEvent(mask)
  PROVE  IInv'
<1> DEFINE c    == [tcb[runtsk] EXCEPT !.curevt = @ \ mask]
           tcb1 == [tcb EXCEPT ![runtsk] = c]
           k    == [sched |-> sched, tcb |-> tcb1]
<1>1. /\ TaskLevel /\ UNCHANGED <<rescb, isr, initid>>
      /\ Return([K EXCEPT !.tcb[runtsk].curevt = @ \ mask])
  BY DEF ClearEvent
<1>2. /\ Restores(rescb') /\ rescb' \in [ResourceId -> Rescb] /\ isr' = <<>>
      /\ KernelOK(K, runtsk) /\ runtsk \in TaskId /\ TypeOK
      /\ tcb[runtsk].tstat = "RUNNABLE" /\ Running = runtsk /\ cpu = "body"
      /\ tcb[runtsk] \in Tcb /\ TaskOK(tcb[runtsk], runtsk)
      /\ tcb \in [TaskId -> Tcb] /\ K.sched = sched /\ K.tcb = tcb
  BY <1>1, AtTaskLevel DEF TypeOK, K
<1>3. [K EXCEPT !.tcb[runtsk].curevt = @ \ mask] = k
  BY DEF K
<1>4. /\ c \in Tcb /\ c.tstat = "RUNNABLE" /\ c.curpri = tcb[runtsk].curpri
      /\ c.waievt = tcb[runtsk].waievt /\ c.actcnt = tcb[runtsk].actcnt
  BY <1>2 DEF Tcb, EventMask
<1> HIDE DEF c
<1>5. /\ tcb1 \in [TaskId -> Tcb] /\ tcb1[runtsk] = c
      /\ \A u \in TaskId \ {runtsk} : tcb1[u] = tcb[u]
  BY <1>2, <1>4
<1>6. TaskOK(c, runtsk)
  BY <1>2, <1>4 DEF TaskOK
<1> HIDE DEF tcb1
<1>7. /\ \A u \in TaskId : TaskOK(tcb1[u], u)
      /\ \A u \in TaskId \ {runtsk} : QueuedLow(tcb1[u], u)
      /\ \A u \in TaskId : /\ tcb1[u].tstat = tcb[u].tstat
                           /\ tcb1[u].curpri = tcb[u].curpri
  BY <1>2, <1>4, <1>5, <1>6 DEF KernelOK
<1>8. sched.schedtsk # TSKID_NULL => sched.nextpri <= tcb1[sched.schedtsk].curpri
  BY <1>2, <1>7, SchedtskRunnable DEF KernelOK, SchedOK
<1>9. KernelOK(k, runtsk)
  BY <1>2, <1>5, <1>7, <1>8, ReplaceTcb
<1>10. k.sched = sched /\ k.tcb[runtsk].tstat = "RUNNABLE" /\ Return(k)
  BY <1>1, <1>3, <1>4, <1>5
<1> HIDE DEF k
<1>11. QED
  BY <1>1, <1>2, <1>9, <1>10, Returns

(* The running task waits, and search_schedtsk has taken its place. *)
Waiting(mask) == [sched |-> search_schedtsk(sched),
                  tcb   |-> [tcb EXCEPT ![runtsk] = [@ EXCEPT
                               !.curpri = tinib_inipri[runtsk],
                               !.tstat  = "WAITING",
                               !.waievt = mask]]]

LEMMA WaitingOK ==
  ASSUME IInv, TaskLevel, NEW mask \in EventMask \ {{}},
         tcb[runtsk].curevt \cap mask = {}
  PROVE  /\ KernelOK(Waiting(mask), runtsk)
         /\ Waiting(mask).tcb[runtsk].curpri = tinib_inipri[runtsk]
<1> DEFINE c    == [tcb[runtsk] EXCEPT !.curpri = tinib_inipri[runtsk],
                      !.tstat = "WAITING", !.waievt = mask]
           tcb1 == [tcb EXCEPT ![runtsk] = c]
           s1   == search_schedtsk(sched)
           k    == [sched |-> s1, tcb |-> tcb1]
<1>1. Waiting(mask) = k
  BY DEF Waiting
<1>2. /\ KernelOK(K, runtsk) /\ runtsk \in TaskId /\ TypeOK
      /\ tcb[runtsk].tstat = "RUNNABLE" /\ sched.schedtsk = runtsk
      /\ tcb[runtsk] \in Tcb /\ TaskOK(tcb[runtsk], runtsk)
      /\ tcb \in [TaskId -> Tcb] /\ K.sched = sched /\ K.tcb = tcb
  BY AtTaskLevel DEF TypeOK, K
<1>3. /\ c \in Tcb /\ c.tstat = "WAITING" /\ c.curpri = tinib_inipri[runtsk]
      /\ c.waievt = mask /\ c.curevt = tcb[runtsk].curevt
  BY <1>2, Constants DEF Tcb, TaskState
<1> HIDE DEF c
<1>4. /\ tcb1 \in [TaskId -> Tcb] /\ tcb1[runtsk] = c
      /\ \A u \in TaskId \ {runtsk} : tcb1[u] = tcb[u]
  BY <1>2, <1>3
<1> HIDE DEF tcb1
<1>5. TaskOK(c, runtsk) /\ QueuedLow(c, runtsk)
  <2>1. c.waievt # {} /\ c.waievt \cap c.curevt = {}
    BY <1>2, <1>3
  <2>2. LowIsr => \A u \in WindowTask : tinib_inipri[u] <= c.curpri
    BY <1>2, <1>3 DEF LowIsr
  <2>3. QED
    BY <1>3, <2>1, <2>2 DEF TaskOK, QueuedLow
<1>6. /\ \A u \in TaskId : TaskOK(tcb1[u], u)
      /\ \A u \in TaskId \ {runtsk} : QueuedLow(tcb1[u], u)
      /\ \A u \in TaskId : u # runtsk => tcb1[u].curpri = tcb[u].curpri
  BY <1>2, <1>4, <1>5 DEF KernelOK
<1>7. s1 \in Sched /\ SchedOK(s1, tcb1) /\ Accounted(s1) = RunnableIn(tcb) \ {runtsk}
  BY <1>2, <1>4, <1>6, Leave
<1> HIDE DEF s1
<1>8. RunnableIn(tcb1) = RunnableIn(tcb) \ {runtsk}
  BY <1>2, <1>3, <1>4 DEF RunnableIn
<1>9. KernelOK(k, runtsk) /\ k.tcb[runtsk].curpri = tinib_inipri[runtsk]
  BY <1>3, <1>4, <1>6, <1>7, <1>8 DEF KernelOK
<1>10. QED
  BY <1>1, <1>9

LEMMA WaitEventStep ==
  ASSUME IInv, NEW mask \in EventMask \ {{}}, WaitEvent(mask)
  PROVE  IInv'
<1>1. /\ TaskLevel /\ UNCHANGED <<rescb, isr, initid>>
      /\ tcb[runtsk].curevt \cap mask = {}
      /\ dispatch(Waiting(mask), "dispatcher_r_exepri")
  BY DEF WaitEvent, Waiting
<1>2. /\ Restores(rescb') /\ rescb' \in [ResourceId -> Rescb] /\ isr' = <<>>
      /\ runtsk \in TaskId /\ TypeOK
  BY <1>1, AtTaskLevel
<1>3. QED
  BY <1>1, <1>2, WaitingOK, Dispatch

-----------------------------------------------------------------------------
(* Hooks, suspended interrupts, handlers, the idle loop and the start.     *)

(* A step that only moves the processor between contexts. *)
LEMMA PreTaskHookReturnStep ==
  ASSUME IInv, PreTaskHookReturn
  PROVE  IInv'
<1>1. /\ cpu = "pre" /\ isr = <<>> /\ cpu' = "body" /\ callevel' = "TASK"
      /\ tcb' = Resumed(tcb, runtsk)
      /\ UNCHANGED <<sched, runtsk, rescb, isr, initid>>
  BY DEF PreTaskHookReturn, dispatch_task
<1>2. /\ KernelOK(K, TSKID_NULL) /\ K.sched = sched /\ K.tcb = tcb
      /\ runtsk \in TaskId /\ sched.schedtsk = runtsk /\ TypeOK
      /\ tcb[runtsk].tstat = "RUNNABLE" /\ Restores(rescb)
  BY <1>1 DEF IInv, Running, K, Steady
<1>3. /\ KernelOK([sched |-> sched', tcb |-> tcb'], runtsk')
      /\ \A u \in TaskId : tcb'[u].tstat = tcb[u].tstat
  BY <1>1, <1>2, ResumedOK
<1>4. KernelOK(K, Running)'
  BY <1>1, <1>3 DEF K, Running
<1>5. TypeOK'
  <2>1. tcb' \in [TaskId -> Tcb]
    BY <1>3 DEF KernelOK
  <2>2. QED
    BY <1>1, <1>2, <2>1 DEF TypeOK, CallLevel, CpuAt
<1>6. Control' /\ Steady(sched)'
  BY <1>1, <1>2, <1>3 DEF Control, Base, Steady
<1>7. Booting' /\ Restores(rescb)'
  BY <1>1, <1>2 DEF Booting, Restores
<1>8. QED
  BY <1>4, <1>5, <1>6, <1>7 DEF IInv

LEMMA ContextStep ==
  ASSUME IInv,
         \/ call_errorhook \/ ErrorHookReturn
         \/ SuspendOSInterrupts \/ ResumeOSInterrupts
  PROVE  IInv'
<1>1. /\ UNCHANGED <<sched, runtsk, tcb, rescb, isr, initid>>
      /\ isr = <<>> /\ {cpu, cpu'} \subseteq {"body", "error"}
      /\ \/ cpu' = "error" /\ callevel' = "ERROR" /\ "error" \in Unmasked
         \/ cpu' = "body" /\ callevel' = "NULL" /\ "susos" \in Unmasked
         \/ cpu' = "body" /\ callevel' = "TASK"
  BY DEF call_errorhook, ErrorHookReturn, SuspendOSInterrupts, ResumeOSInterrupts,
         TaskLevel
<1>2. KernelOK(K, Running)'
  BY <1>1 DEF IInv, K, Running
<1>3. TypeOK'
  BY <1>1 DEF IInv, TypeOK, CallLevel, CpuAt
<1>4. Control' /\ Steady(sched)'
  BY <1>1 DEF IInv, Control, Base, Steady
<1>5. Booting' /\ Restores(rescb)'
  BY <1>1 DEF IInv, Booting, Restores
<1>6. QED
  BY <1>2, <1>3, <1>4, <1>5 DEF IInv

LEMMA IsrEnterStep ==
  ASSUME IInv, IsrEnter
  PROVE  IInv'
<1>1. /\ cpu # "boot" /\ isr' = <<callevel>> \o isr /\ callevel' = "ISR2"
      /\ UNCHANGED <<sched, runtsk, tcb, rescb, cpu, initid>>
      /\ isr \in Seq(CallLevel) /\ callevel \in CallLevel
  BY DEF IsrEnter, IInv, TypeOK
<1>2. /\ isr' \in Seq(CallLevel) /\ isr' # <<>> /\ Len(isr') = Len(isr) + 1
      /\ Len(isr) \in Nat /\ isr'[1] = callevel
      /\ \A i \in 1 .. Len(isr) : isr'[i + 1] = isr[i]
  BY <1>1
<1>3. Base' = Base
  <2>1. CASE isr = <<>>
    BY <1>2, <2>1 DEF Base
  <2>2. CASE isr # <<>>
    BY <1>1, <1>2, <2>2 DEF Base
  <2>3. QED
    BY <2>1, <2>2
<1>4. \A i \in 1 .. Len(isr') : i # Len(isr') => isr'[i] = "ISR2"
  <2>1. SUFFICES ASSUME NEW i \in 1 .. Len(isr'), i # Len(isr')
                 PROVE  isr'[i] = "ISR2"
    OBVIOUS
  <2>2. CASE i = 1
    <3>1. isr # <<>>
      BY <1>2, <2>1, <2>2
    <3>2. QED
      BY <1>2, <2>2, <3>1 DEF IInv, Control
  <2>3. CASE i # 1
    <3>1. i - 1 \in 1 .. Len(isr) /\ i - 1 # Len(isr) /\ i = (i - 1) + 1
      BY <1>2, <2>1, <2>3
    <3>2. isr'[i] = isr[i - 1]
      BY <1>2, <3>1
    <3>3. QED
      BY <3>1, <3>2 DEF IInv, Control
  <2>4. QED
    BY <2>2, <2>3
<1>5. KernelOK(K, Running)'
  BY <1>1 DEF IInv, K, Running
<1>6. TypeOK'
  BY <1>1, <1>2 DEF IInv, TypeOK, CallLevel
<1>7. Control'
  BY <1>1, <1>3, <1>4 DEF IInv, Control
<1>8. Steady(sched)'
  BY <1>1, <1>2, <1>3 DEF IInv, Steady, Base
<1>9. Booting' /\ Restores(rescb)'
  BY <1>1 DEF IInv, Booting, Restores
<1>10. QED
  BY <1>5, <1>6, <1>7, <1>8, <1>9 DEF IInv

(* In a window where an interrupt returns without dispatching, no handler  *)
(* can outrank schedtsk: this is what NoRace is for.                       *)
LEMMA NotOutranked ==
  ASSUME NoRace, IInv, isr # <<>>, cpu \in {"body", "pre", "error"}, Base # "TASK",
         NEW t \in HandlerTask, NEW tcb1, tcb1[t].curpri = tinib_inipri[t],
         tcb1[runtsk] = tcb[runtsk]
  PROVE  ~ Outranks(sched, tcb1, t)
<1>1. LowIsr /\ t \in WindowTask
  <2>1. ~ (Unmasked \subseteq {"post"}) /\ InWindow
    BY DEF IInv, Control, InWindow
  <2>2. QED
    BY <2>1 DEF NoRace, HandlerTask
<1>2. /\ sched.schedtsk = runtsk /\ runtsk \in TaskId /\ runtsk # TSKID_NULL
      /\ TaskOK(tcb[runtsk], runtsk) /\ tcb[runtsk] \in Tcb
  BY Constants DEF IInv, Steady, KernelOK, K
<1>3. /\ tinib_inipri[t] <= tcb[runtsk].curpri
      /\ tinib_inipri[t] \in Nat /\ tcb[runtsk].curpri \in Nat
  BY <1>1, <1>2, Constants, KernelConfig DEF TaskOK, Tcb
<1>4. QED
  BY <1>2, <1>3 DEF Outranks

LEMMA IsrActivateTaskStep ==
  ASSUME NoRace, IInv, NEW t \in HandlerTask, IsrActivateTask(t)
  PROVE  IInv'
<1>1. /\ isr # <<>> /\ UNCHANGED <<rescb, isr, initid>> /\ t \in TaskId
      /\ cpu # "boot"
  BY KernelConfig DEF IsrActivateTask, InHandler, IInv, Control, HandlerTask
<1>2. /\ Restores(rescb') /\ rescb' \in [ResourceId -> Rescb]
      /\ KernelOK(K, Running) /\ K.sched = sched /\ K.tcb = tcb
  BY <1>1 DEF IInv, TypeOK, K
<1>3. cpu \in {"body", "pre", "error"} => runtsk \in TaskId /\ tcb[runtsk].tstat = "RUNNABLE"
  BY DEF IInv, Steady
<1>4. CASE tcb[t].tstat = "DORMANT" /\ Return(make_active(K, t))
  <2> DEFINE k == make_active(K, t)
  <2>1. /\ KernelOK(k, Running) /\ k.tcb[t].curpri = tinib_inipri[t]
        /\ k.sched.schedtsk = IF Outranks(sched, k.tcb, t) THEN t ELSE sched.schedtsk
        /\ \A u \in TaskId \ {t} : k.tcb[u] = tcb[u]
    BY <1>1, <1>2, <1>4, ActivateDormant
  <2> HIDE DEF k
  <2>2. ASSUME cpu \in {"body", "pre", "error"}
        PROVE  /\ k.tcb[runtsk].tstat = "RUNNABLE"
               /\ isr = <<>> \/ Base # "TASK" => k.sched.schedtsk = sched.schedtsk
    <3>1. runtsk # t /\ k.tcb[runtsk] = tcb[runtsk]
      BY <1>3, <1>4, <2>1, <2>2
    <3>2. QED
      BY <1>1, <1>3, <2>1, <2>2, <3>1, NotOutranked
  <2>3. QED
    BY <1>1, <1>2, <1>4, <2>1, <2>2, Returns DEF k
<1>5. CASE tcb[t].tstat # "DORMANT" /\ Return(Counted(K, t))
  <2>1. /\ KernelOK(Counted(K, t), Running) /\ Counted(K, t).sched = sched
        /\ \A u \in TaskId : Counted(K, t).tcb[u].tstat = tcb[u].tstat
    BY <1>1, <1>2, <1>5, CountedOK
  <2>2. QED
    BY <1>1, <1>2, <1>3, <1>5, <2>1, Returns
<1>6. QED
  BY <1>4, <1>5 DEF IsrActivateTask

LEMMA IsrSetEventStep ==
  ASSUME NoRace, IInv, NEW t \in HandlerTask \cap ExtTaskId, NEW mask \in EventMask,
         IsrSetEvent(t, mask)
  PROVE  IInv'
<1>1. /\ isr # <<>> /\ UNCHANGED <<rescb, isr, initid>> /\ t \in TaskId
      /\ cpu # "boot"
  BY KernelConfig DEF IsrSetEvent, InHandler, IInv, Control, HandlerTask
<1>2. /\ Restores(rescb') /\ rescb' \in [ResourceId -> Rescb]
      /\ KernelOK(K, Running) /\ K.sched = sched /\ K.tcb = tcb
  BY <1>1 DEF IInv, TypeOK, K
<1>3. cpu \in {"body", "pre", "error"} => runtsk \in TaskId /\ tcb[runtsk].tstat = "RUNNABLE"
  BY DEF IInv, Steady
<1>4. CASE Wakes(t, mask) /\ Return(Woken(t, mask))
  <2> DEFINE k == Woken(t, mask)
  <2>1. /\ KernelOK(k, Running) /\ tcb[t].tstat = "WAITING"
        /\ k.tcb[t].curpri = tinib_inipri[t]
        /\ k.sched.schedtsk = IF Outranks(sched, tcb, t) THEN t ELSE sched.schedtsk
        /\ \A u \in TaskId \ {t} : k.tcb[u] = tcb[u]
    BY <1>1, <1>2, <1>4, WokenOK
  <2> HIDE DEF k
  <2>2. tcb[t].curpri = tinib_inipri[t]
    BY <1>1, <1>2, <2>1 DEF KernelOK, TaskOK
  <2>3. ASSUME cpu \in {"body", "pre", "error"}
        PROVE  /\ k.tcb[runtsk].tstat = "RUNNABLE"
               /\ isr = <<>> \/ Base # "TASK" => k.sched.schedtsk = sched.schedtsk
    BY <1>1, <1>3, <2>1, <2>2, <2>3, NotOutranked
  <2>4. QED
    BY <1>1, <1>2, <1>4, <2>1, <2>3, Returns DEF k
<1>5. CASE ~ Wakes(t, mask) /\ Return([K EXCEPT !.tcb = EventsSet(t, mask)])
  <2> DEFINE k == [K EXCEPT !.tcb = EventsSet(t, mask)]
  <2>1. /\ KernelOK(k, Running) /\ k.sched = sched
        /\ \A u \in TaskId : k.tcb[u].tstat = tcb[u].tstat
    BY <1>1, <1>2, <1>5, EventsSetOK
  <2> HIDE DEF k
  <2>2. QED
    BY <1>1, <1>2, <1>3, <1>5, <2>1, Returns DEF k
<1>6. QED
  BY <1>4, <1>5 DEF IsrSetEvent

LEMMA IsrReturnStep ==
  ASSUME IInv, IsrReturn
  PROVE  IInv'
<1>1. /\ isr # <<>> /\ isr' = Tail(isr) /\ UNCHANGED <<rescb, initid>>
      /\ isr \in Seq(CallLevel) /\ cpu # "boot"
  BY DEF IsrReturn, InHandler, IInv, TypeOK, Control
<1>2. /\ Len(isr) \in Nat /\ Len(isr) >= 1 /\ isr' \in Seq(CallLevel)
      /\ Len(isr') = Len(isr) - 1 /\ Head(isr) = isr[1] /\ Head(isr) \in CallLevel
      /\ \A i \in 1 .. Len(isr') : isr'[i] = isr[i + 1]
  BY <1>1, EmptySeq, LenProperties, HeadTailProperties
<1>3. isr[1] = "ISR2" \/ Len(isr) = 1
  BY <1>2 DEF IInv, Control
<1>4. CASE Head(isr) = "TASK" /\ dispatch(K, "ret_int_r")
  <2>1. Len(isr) = 1 /\ Base = "TASK" /\ isr' = <<>>
    BY <1>1, <1>2, <1>3, <1>4, EmptySeq, LenProperties DEF Base
  <2>2. cpu = "body"
    BY <1>1, <2>1 DEF IInv, Control, TypeOK, CpuAt
  <2>3. runtsk \in TaskId /\ KernelOK(K, runtsk) /\ TypeOK
    BY <2>2 DEF IInv, Steady, Running
  <2>4. Restores(rescb') /\ rescb' \in [ResourceId -> Rescb]
    BY <1>1 DEF IInv, TypeOK
  <2>5. QED
    BY <1>1, <1>4, <2>1, <2>3, <2>4, Dispatch
<1>5. CASE /\ ~ (Head(isr) = "TASK" /\ sched.schedtsk # runtsk)
           /\ callevel' = Head(isr) /\ UNCHANGED <<sched, runtsk, tcb, cpu>>
  <2>1. Base' = Base
    <3>1. CASE Len(isr) = 1
      <4>1. isr' = <<>>
        BY <1>1, <1>2, <3>1, EmptySeq, LenProperties
      <4>2. QED
        BY <1>1, <1>2, <1>5, <3>1, <4>1 DEF Base
    <3>2. CASE Len(isr) # 1
      <4>1. Len(isr') \in 1 .. Len(isr') /\ isr'[Len(isr')] = isr[Len(isr)]
        BY <1>2, <3>2
      <4>2. isr' # <<>>
        BY <1>2, <3>2
      <4>3. QED
        BY <1>1, <4>1, <4>2 DEF Base
    <3>3. QED
      BY <3>1, <3>2
  <2>2. /\ isr' # <<>> => callevel' = "ISR2"
        /\ \A i \in 1 .. Len(isr') : i # Len(isr') => isr'[i] = "ISR2"
    <3>1. isr' # <<>> => Len(isr) # 1
      BY <1>1, <1>2, EmptySeq, LenProperties
    <3>2. ASSUME NEW i \in 1 .. Len(isr'), i # Len(isr') PROVE isr'[i] = "ISR2"
      <4>1. i + 1 \in 1 .. Len(isr) /\ i + 1 # Len(isr)
        BY <1>2, <3>2
      <4>2. QED
        BY <1>2, <4>1 DEF IInv, Control
    <3>3. QED
      BY <1>2, <1>3, <1>5, <3>1, <3>2
  <2>3. KernelOK(K, Running)'
    BY <1>1, <1>5 DEF IInv, K, Running
  <2>4. TypeOK'
    BY <1>1, <1>2, <1>5 DEF IInv, TypeOK
  <2>5. Control'
    BY <1>1, <1>5, <2>1, <2>2 DEF IInv, Control
  <2>6. Steady(sched)'
    <3>1. ASSUME cpu \in {"body", "pre", "error"}, isr' = <<>>, Base = "TASK"
          PROVE  sched.schedtsk = runtsk
      <4>1. Base' = Head(isr)
        BY <1>5, <3>1 DEF Base
      <4>2. QED
        BY <1>5, <2>1, <3>1, <4>1
    <3>2. QED
      BY <1>1, <1>5, <2>1, <3>1 DEF IInv, Steady
  <2>7. Booting' /\ Restores(rescb)'
    BY <1>1, <1>5 DEF IInv, Booting, Restores
  <2>8. QED
    BY <2>3, <2>4, <2>5, <2>6, <2>7 DEF IInv
<1>6. QED
  BY <1>4, <1>5 DEF IsrReturn

(* PostTaskHook's return, the idle loop and the end of StartOS give the    *)
(* processor to schedtsk.                                                  *)
LEMMA StartsDispatching ==
  ASSUME IInv, PostTaskHookReturn \/ idle_loop \/ StartOS
  PROVE  IInv'
<1>1. /\ isr = <<>> /\ cpu \in {"boot", "post", "idle"} /\ start_dispatch(K)
      /\ UNCHANGED <<rescb, isr, initid>>
  BY DEF PostTaskHookReturn, idle_loop, StartOS, IInv, Control
<1>2. /\ KernelOK(K, TSKID_NULL) /\ TypeOK
      /\ Restores(rescb') /\ rescb' \in [ResourceId -> Rescb]
  BY <1>1 DEF IInv, Running, TypeOK
<1>3. QED
  BY <1>1, <1>2, StartDispatch

LEMMA TaskInitializeStep ==
  ASSUME IInv, task_initialize
  PROVE  IInv'
<1>1. /\ cpu = "boot" /\ initid \in TaskId /\ initid' = initid + 1
      /\ UNCHANGED <<runtsk, callevel, cpu, rescb, isr>>
      /\ \/ sched' = make_active(K, initid).sched /\ tcb' = make_active(K, initid).tcb
         \/ sched' = sched /\ tcb' = tcb
  BY DEF task_initialize, Return, K
<1>2. /\ KernelOK(K, TSKID_NULL) /\ K.sched = sched /\ K.tcb = tcb /\ TypeOK
      /\ Running = TSKID_NULL
  BY <1>1 DEF IInv, Running, K
<1>3. /\ initid \in 0 .. tnum_task - 1 /\ tnum_task \in Nat
      /\ tcb[initid].tstat = "DORMANT"
  BY <1>1, TaskCount DEF IInv, Booting, TaskId, TSKID_NULL
<1>4. /\ KernelOK([sched |-> sched', tcb |-> tcb'], TSKID_NULL)
      /\ \A u \in TaskId \ {initid} : tcb'[u] = tcb[u]
  <2> DEFINE k == make_active(K, initid)
  <2>1. KernelOK(k, TSKID_NULL) /\ \A u \in TaskId \ {initid} : k.tcb[u] = tcb[u]
    BY <1>1, <1>2, <1>3, ActivateDormant
  <2> HIDE DEF k
  <2>2. CASE sched' = k.sched /\ tcb' = k.tcb
    <3>1. KernelOK([sched |-> k.sched, tcb |-> k.tcb], TSKID_NULL)
      BY <2>1 DEF KernelOK
    <3>2. QED
      BY <2>1, <2>2, <3>1
  <2>3. CASE sched' = sched /\ tcb' = tcb
    BY <1>2, <2>3 DEF K
  <2>4. QED
    BY <1>1, <2>2, <2>3 DEF k
<1>5. KernelOK(K, Running)'
  BY <1>1, <1>4 DEF K, Running
<1>6. TypeOK'
  <2>1. sched' \in Sched /\ tcb' \in [TaskId -> Tcb]
    BY <1>4 DEF KernelOK
  <2>2. initid' \in 0 .. tnum_task
    BY <1>1, <1>3
  <2>3. QED
    BY <1>1, <1>2, <2>1, <2>2 DEF TypeOK
<1>7. Control' /\ Steady(sched)'
  BY <1>1 DEF IInv, Control, Base, Steady
<1>8. Booting'
  <2>1. SUFFICES ASSUME NEW t \in initid + 1 .. tnum_task - 1
                 PROVE  tcb'[t].tstat = "DORMANT"
    BY <1>1 DEF Booting
  <2>2. t \in initid .. tnum_task - 1 /\ t # initid /\ t \in TaskId
    BY <1>3, <2>1 DEF TaskId
  <2>3. QED
    BY <1>1, <1>4, <2>2 DEF IInv, Booting
<1>9. Restores(rescb)'
  BY <1>1 DEF IInv, Restores
<1>10. QED
  BY <1>5, <1>6, <1>7, <1>8, <1>9 DEF IInv

(* The kernel is consistent before task_initialize activates a task. *)
LEMMA InitInv == Init => IInv
<1> SUFFICES ASSUME Init PROVE IInv
  OBVIOUS
<1>1. /\ \A p \in Priority : sched.queue[p] = <<>>
      /\ sched.primap = {} /\ sched.nextpri = TPRI_MINTASK
      /\ sched.schedtsk = TSKID_NULL /\ sched \in Sched
  BY TaskCount DEF Init, EmptySched, Sched, Priority, TPRI_MINTASK
<1>2. /\ tcb \in [TaskId -> Tcb]
      /\ \A t \in TaskId : /\ tcb[t].tstat = "DORMANT" /\ tcb[t].waievt = {}
                           /\ tcb[t].actcnt = 0 /\ tcb[t].curpri = tinib_inipri[t]
  BY Constants DEF Init, Tcb, TaskState, EventMask, ResumeAt
<1>3. rescb \in [ResourceId -> Rescb]
      /\ \A r \in ResourceId : rescb[r].prevpri = TPRI_NULL
  BY DEF Init, Rescb, TPRI_NULL
<1>4. TypeOK
  <2>1. initid \in 0 .. tnum_task
    BY TaskCount DEF Init, TSKID_NULL
  <2>2. isr \in Seq(CallLevel)
    BY DEF Init
  <2>3. QED
    BY <1>1, <1>2, <1>3, <2>1, <2>2 DEF Init, TypeOK, CallLevel, CpuAt
<1>5. SchedOK(sched, tcb) /\ Accounted(sched) = {}
  <2>1. Placed(sched) = {}
    BY <1>1 DEF Placed
  <2>2. QueuesExact(sched, tcb) /\ NextpriHighest(sched)
    BY <1>1 DEF QueuesExact, NextpriHighest
  <2>3. QED
    BY <1>1, <2>1, <2>2 DEF SchedOK, Accounted
<1>6. KernelOK(K, Running)
  <2>1. RunnableIn(tcb) = {}
    BY <1>2 DEF RunnableIn
  <2>2. \A t \in TaskId : TaskOK(tcb[t], t) /\ QueuedLow(tcb[t], t)
    BY <1>2 DEF TaskOK, QueuedLow, LowIsr
  <2>3. QED
    BY <1>1, <1>2, <1>5, <2>1, <2>2 DEF KernelOK, K
<1>7. Control /\ Steady(sched)
  BY DEF Init, Control, Base, Steady
<1>8. Booting
  BY <1>2, TaskCount DEF Init, Booting, TaskId, TSKID_NULL
<1>9. Restores(rescb)
  BY <1>3, Constants, KernelConfig DEF Restores
<1>10. QED
  BY <1>4, <1>6, <1>7, <1>8, <1>9 DEF IInv

LEMMA StepInv == ASSUME NoRace, IInv, [Next]_vars PROVE IInv'
<1>1. CASE UNCHANGED vars
  BY <1>1 DEF vars, IInv, TypeOK, K, Running, Control, Base, Steady, Booting, Restores
<1>2. CASE TaskStep
  BY <1>2, ActivateTaskStep, ChainTaskStep, TerminateTaskStep, ScheduleStep,
     GetResourceStep, ReleaseResourceStep, SetEventStep, ClearEventStep,
     WaitEventStep, ContextStep DEF TaskStep
<1>3. CASE KernelStep
  BY <1>3, TaskInitializeStep, StartsDispatching, PreTaskHookReturnStep,
     ContextStep, IsrReturnStep DEF KernelStep
<1>4. CASE HandlerStep
  <2>1. CASE IsrEnter
    BY <2>1, IsrEnterStep
  <2>2. CASE \E t \in HandlerTask : IsrActivateTask(t)
    BY <2>2, IsrActivateTaskStep
  <2>3. CASE \E t \in HandlerTask \cap ExtTaskId, mask \in EventMask \ {{}} :
               IsrSetEvent(t, mask)
    BY <2>3, IsrSetEventStep
  <2>4. QED
    BY <1>4, <2>1, <2>2, <2>3 DEF HandlerStep
<1>5. QED
  BY <1>1, <1>2, <1>3, <1>4 DEF Next

-----------------------------------------------------------------------------
(* Theorems.                                                               *)

(* IInv, of which the properties below are consequences, is an invariant.  *)
THEOREM Invariance == ASSUME NoRace PROVE Spec => []IInv
<1>1. Init => IInv
  BY InitInv
<1>2. IInv /\ [Next]_vars => IInv'
  BY StepInv
<1>3. QED
  BY <1>1, <1>2, PTL DEF Spec

(* Type correctness: no task is ever queued outside the ready queue's      *)
(* priorities, and no variable of the kernel leaves its range.             *)
THEOREM TypeCorrect == ASSUME NoRace PROVE Spec => []TypeOK
<1>1. IInv => TypeOK
  BY DEF IInv
<1>2. QED
  BY <1>1, Invariance, PTL

(* The ready queue, the bitmap, nextpri and schedtsk always account for    *)
(* exactly the runnable tasks.                                             *)
THEOREM ReadyQueueCorrect == ASSUME NoRace PROVE Spec => []ReadyQueueExact
<1>1. IInv => ReadyQueueExact
  BY DEF IInv, KernelOK, K, ReadyQueueExact, Runnable, RunnableIn
<1>2. QED
  BY <1>1, Invariance, PTL

(* While a task runs, schedtsk is runtsk (task.h:101). *)
THEOREM SchedtskIsRuntsk == ASSUME NoRace PROVE Spec => []SchedtskRuns
<1>1. IInv => SchedtskRuns
  BY AtTaskLevel DEF SchedtskRuns
<1>2. QED
  BY <1>1, Invariance, PTL

(* The code of a task runs only while it has the highest priority of all   *)
(* runnable tasks.                                                         *)
THEOREM HighestPriority == ASSUME NoRace PROVE Spec => []HighestPriorityRuns
<1>1. ASSUME IInv PROVE HighestPriorityRuns
  <2>1. SUFFICES ASSUME TaskLevel, NEW t \in Runnable
                 PROVE  tcb[t].curpri <= tcb[runtsk].curpri
    BY DEF HighestPriorityRuns
  <2>2. /\ sched.schedtsk = runtsk /\ runtsk # TSKID_NULL
        /\ SchedOK(sched, tcb) /\ Accounted(sched) = RunnableIn(tcb)
        /\ sched \in Sched /\ tcb[runtsk] \in Tcb /\ t \in TaskId
        /\ sched.nextpri <= tcb[runtsk].curpri
    BY <1>1, <2>1, AtTaskLevel DEF KernelOK, K, Runnable
  <2>3. tcb[runtsk].curpri \in Nat
    BY <2>2 DEF Tcb
  <2>4. CASE t = sched.schedtsk
    BY <2>2, <2>3, <2>4
  <2>5. CASE t \in Placed(sched)
    <3>. PICK p \in Priority : \E i \in 1 .. Len(sched.queue[p]) : sched.queue[p][i] = t
      BY <2>5 DEF Placed
    <3>1. PICK i \in 1 .. Len(sched.queue[p]) : sched.queue[p][i] = t
      OBVIOUS
    <3>2. tcb[t].curpri = p /\ p \in sched.primap
      <4>1. sched.queue[p] # <<>>
        BY <3>1
      <4>2. QED
        BY <2>2, <3>1, <4>1 DEF SchedOK, QueuesExact
    <3>3. p <= sched.nextpri
      BY <2>2, <3>2 DEF SchedOK, NextpriHighest
    <3>4. p \in Nat /\ sched.nextpri \in Nat
      BY <2>2, TaskCount DEF Sched, Priority, TPRI_MINTASK
    <3>5. QED
      BY <2>2, <2>3, <3>2, <3>3, <3>4
  <2>6. t \in Accounted(sched)
    BY <2>1, <2>2 DEF Runnable, RunnableIn
  <2>7. QED
    BY <2>4, <2>5, <2>6 DEF Accounted
<1>2. QED
  BY <1>1, Invariance, PTL

(* A counted activation request is never left with a dormant task. *)
THEOREM RequestsServed == ASSUME NoRace PROVE Spec => []NoPendingWhileDormant
<1>1. IInv => NoPendingWhileDormant
  BY DEF IInv, KernelOK, K, TaskOK, NoPendingWhileDormant
<1>2. QED
  BY <1>1, Invariance, PTL

(* A task waits only for events that are not set: no wake-up is lost. *)
THEOREM WakeupsKept == ASSUME NoRace PROVE Spec => []NoLostEvent
<1>1. IInv => NoLostEvent
  BY DEF IInv, KernelOK, K, TaskOK, NoLostEvent
<1>2. QED
  BY <1>1, Invariance, PTL

-----------------------------------------------------------------------------
(* What the functions of task.c do to the single places of the queues.     *)

LEMMA FirstPlace ==
  ASSUME NEW s \in Sched, NEW pri \in Priority, NEW t \in TaskId
  PROVE  LET r == ready_insert_first(s, pri, t)
         IN  /\ Len(r.queue[pri]) = Len(s.queue[pri]) + 1
             /\ r.queue[pri][1] = t
             /\ \A i \in 2 .. Len(s.queue[pri]) + 1 :
                  r.queue[pri][i] = s.queue[pri][i - 1]
             /\ \A p \in Priority \ {pri} : r.queue[p] = s.queue[p]
<1> DEFINE q   == s.queue[pri]
           new == <<t>> \o q
<1>1. s.queue \in [Priority -> Seq(TaskId)] /\ q \in Seq(TaskId) /\ Len(q) \in Nat
  BY DEF Sched
<1>2. ready_insert_first(s, pri, t).queue = [s.queue EXCEPT ![pri] = new]
  BY DEF ready_insert_first, Sched
<1>3. <<t>> \in Seq(TaskId) /\ Len(<<t>>) = 1 /\ <<t>>[1] = t
  OBVIOUS
<1>4. /\ new \in Seq(TaskId)
      /\ Len(new) = 1 + Len(q)
      /\ \A i \in 1 .. 1 + Len(q) : new[i] = IF i <= 1 THEN <<t>>[i] ELSE q[i - 1]
  BY <1>1, <1>3, ConcatProperties
<1> HIDE DEF new, q
<1>5. /\ ready_insert_first(s, pri, t).queue[pri] = new
      /\ \A p \in Priority \ {pri} :
           ready_insert_first(s, pri, t).queue[p] = s.queue[p]
  BY <1>1, <1>2
<1>6. Len(new) = Len(q) + 1 /\ new[1] = t
      /\ \A i \in 2 .. Len(q) + 1 : new[i] = q[i - 1]
  BY <1>1, <1>3, <1>4
<1>7. QED
  BY <1>5, <1>6 DEF q

LEMMA LastPlace ==
  ASSUME NEW s \in Sched, NEW pri \in Priority, NEW t \in TaskId
  PROVE  LET r == ready_insert_last(s, pri, t)
         IN  /\ Len(r.queue[pri]) = Len(s.queue[pri]) + 1
             /\ r.queue[pri][Len(s.queue[pri]) + 1] = t
             /\ \A i \in 1 .. Len(s.queue[pri]) :
                  r.queue[pri][i] = s.queue[pri][i]
             /\ \A p \in Priority \ {pri} : r.queue[p] = s.queue[p]
<1> DEFINE q   == s.queue[pri]
           new == Append(q, t)
<1>1. s.queue \in [Priority -> Seq(TaskId)] /\ q \in Seq(TaskId) /\ Len(q) \in Nat
  BY DEF Sched
<1>2. ready_insert_last(s, pri, t).queue = [s.queue EXCEPT ![pri] = new]
  BY DEF ready_insert_last, Sched
<1>3. /\ Len(new) = Len(q) + 1 /\ new[Len(q) + 1] = t
      /\ \A i \in 1 .. Len(q) : new[i] = q[i]
  BY <1>1, AppendProperties
<1> HIDE DEF new, q
<1>4. /\ ready_insert_last(s, pri, t).queue[pri] = new
      /\ \A p \in Priority \ {pri} :
           ready_insert_last(s, pri, t).queue[p] = s.queue[p]
  BY <1>1, <1>2
<1>5. QED
  BY <1>3, <1>4 DEF q

(* What search_schedtsk takes is the first place of the highest queue. *)
LEMMA TakenPlace ==
  ASSUME NEW s \in Sched, NEW c, QueuesExact(s, c), NextpriHighest(s)
  PROVE  LET r == search_schedtsk(s)
             n == s.nextpri
         IN  \/ /\ s.primap = {} /\ r.queue = s.queue
                /\ r.schedtsk = TSKID_NULL
             \/ /\ n \in Priority /\ 1 \in 1 .. Len(s.queue[n])
                /\ \A p \in s.primap : p <= n
                /\ r.schedtsk = s.queue[n][1] /\ r.schedtsk \in TaskId
                /\ Len(r.queue[n]) = Len(s.queue[n]) - 1
                /\ \A i \in 1 .. Len(r.queue[n]) : r.queue[n][i] = s.queue[n][i + 1]
                /\ \A p \in Priority \ {n} : r.queue[p] = s.queue[p]
<1> DEFINE r == search_schedtsk(s)
           n == s.nextpri
           q == s.queue[n]
<1>1. /\ s.queue \in [Priority -> Seq(TaskId)] /\ n \in Priority
      /\ q \in Seq(TaskId) /\ Len(q) \in Nat
  BY DEF Sched
<1>2. CASE s.primap = {}
  BY <1>2 DEF search_schedtsk, Sched
<1>3. CASE s.primap # {}
  <2>1. /\ r.queue = [s.queue EXCEPT ![n] = Tail(q)]
        /\ r.schedtsk = Head(q)
    BY <1>3 DEF search_schedtsk, Sched
  <2>2. q # <<>> /\ \A p \in s.primap : p <= n
    BY <1>1, <1>3 DEF NextpriHighest, QueuesExact, TPRI_MINTASK, Priority, Sched
  <2>3. /\ Len(q) >= 1 /\ Head(q) = q[1] /\ q[1] \in TaskId
        /\ Len(Tail(q)) = Len(q) - 1
        /\ \A i \in 1 .. Len(Tail(q)) : Tail(q)[i] = q[i + 1]
    BY <1>1, <2>2, HeadTailProperties
  <2>4. r.queue[n] = Tail(q) /\ \A p \in Priority \ {n} : r.queue[p] = s.queue[p]
    BY <1>1, <2>1
  <2> HIDE DEF r, q
  <2>5. 1 \in 1 .. Len(q)
    BY <1>1, <2>3
  <2>6. QED
    BY <1>1, <2>1, <2>2, <2>3, <2>4, <2>5 DEF r, q
<1>4. QED
  BY <1>2, <1>3

(* A queued task is in the queue of its priority, which is not empty. *)
LEMMA PlacedAt ==
  ASSUME NEW s \in Sched, NEW c, QueuesExact(s, c), NEW t \in Placed(s)
  PROVE  /\ t \in TaskId /\ c[t].curpri \in Priority
         /\ c[t].curpri \in s.primap
         /\ \E i \in 1 .. Len(s.queue[c[t].curpri]) : s.queue[c[t].curpri][i] = t
<1>1. PICK p \in Priority : \E i \in 1 .. Len(s.queue[p]) : s.queue[p][i] = t
  BY DEF Placed
<1>2. PICK i \in 1 .. Len(s.queue[p]) : s.queue[p][i] = t
  BY <1>1
<1>3. s.queue[p] # <<>> /\ t \in TaskId
  BY <1>2 DEF Placed
<1>4. c[t].curpri = p /\ p \in s.primap
  BY <1>2, <1>3 DEF QueuesExact
<1>5. QED
  BY <1>2, <1>3, <1>4

(* No task the scheduler accounts for is above schedtsk. *)
LEMMA AccountedBelow ==
  ASSUME NEW s \in Sched, NEW c, SchedOK(s, c), NEW t \in Accounted(s),
         \A u \in TaskId : c[u].curpri \in Nat
  PROVE  s.schedtsk \in TaskId /\ c[t].curpri <= c[s.schedtsk].curpri
<1>1. /\ s.nextpri \in Nat /\ s.schedtsk \in TaskId \cup {TSKID_NULL}
      /\ Priority \subseteq Nat
  BY TaskCount DEF Sched, Priority, TPRI_MINTASK
<1>2. CASE t \in Placed(s)
  <2>1. c[t].curpri \in Priority /\ c[t].curpri \in s.primap
    BY <1>2, PlacedAt DEF SchedOK
  <2>2. c[t].curpri <= s.nextpri
    BY <2>1 DEF SchedOK, NextpriHighest
  <2>3. s.schedtsk \in TaskId /\ s.nextpri <= c[s.schedtsk].curpri
    BY <1>1, <2>1 DEF SchedOK
  <2>4. c[t].curpri \in Nat /\ c[s.schedtsk].curpri \in Nat
    BY <1>1, <2>1, <2>3
  <2>5. QED
    BY <1>1, <2>2, <2>3, <2>4
<1>3. CASE t \notin Placed(s)
  <2>1. t = s.schedtsk /\ t \in TaskId
    BY <1>1, <1>3 DEF Accounted
  <2>2. c[t].curpri \in Nat
    BY <2>1
  <2>3. c[t].curpri <= c[t].curpri
    BY <2>2
  <2>4. QED
    BY <2>1, <2>3
<1>4. QED
  BY <1>2, <1>3

-----------------------------------------------------------------------------
(* The second invariant: resources and the tasks they hold up.             *)

(* A task that runs at its execution priority, or that lost the processor  *)
(* without yielding: x is the running task.                                *)
Raised(c, x) ==
  {t \in TaskId : /\ c[t].tstat = "RUNNABLE"
                  /\ t = x \/ c[t].pc \in {"dispatcher_r", "ret_int_r"}}

(* Of two raised tasks one could not have started while the other had its  *)
(* priority.                                                               *)
Apart(c, R) == \A t, u \in R : t # u =>
                 c[t].curpri < tinib_inipri[u] \/ c[u].curpri < tinib_inipri[t]

(* A raised task that is queued comes first, and schedtsk was ready to     *)
(* start before each of them.                                              *)
FirstIn(s, R) ==
  \A p \in Priority : \A i \in 1 .. Len(s.queue[p]) : s.queue[p][i] \in R => i = 1
Above(s, c, R) ==
  s.schedtsk \in TaskId =>
    \A w \in R \ {s.schedtsk} : c[w].curpri < tinib_inipri[s.schedtsk]

StackOK(s, c, R) == Apart(c, R) /\ FirstIn(s, R) /\ Above(s, c, R)

(* Which priorities the accounted tasks have: raised ones are at least at  *)
(* their initial one, the others at it.                                    *)
Levels(c, R, A) ==
  /\ \A t \in TaskId : c[t].curpri \in Nat
  /\ \A w \in R : tinib_inipri[w] <= c[w].curpri
  /\ \A y \in A \ R : c[y].curpri = tinib_inipri[y]

-----------------------------------------------------------------------------
(* The scheduling functions keep the stack of raised tasks.                *)

LEMMA SearchStack ==
  ASSUME NEW s \in Sched, NEW c, QueuesExact(s, c), NextpriHighest(s),
         NEW R, R \subseteq Placed(s), Apart(c, R), FirstIn(s, R),
         Levels(c, R, Placed(s))
  PROVE  StackOK(search_schedtsk(s), c, R)
<1> DEFINE r == search_schedtsk(s)
           n == s.nextpri
           y == s.queue[n][1]
<1>1. CASE s.primap = {} /\ r.queue = s.queue /\ r.schedtsk = TSKID_NULL
  BY <1>1, Constants DEF StackOK, FirstIn, Above
<1>2. CASE /\ n \in Priority /\ 1 \in 1 .. Len(s.queue[n])
           /\ \A p \in s.primap : p <= n
           /\ r.schedtsk = y /\ y \in TaskId
           /\ Len(r.queue[n]) = Len(s.queue[n]) - 1
           /\ \A i \in 1 .. Len(r.queue[n]) : r.queue[n][i] = s.queue[n][i + 1]
           /\ \A p \in Priority \ {n} : r.queue[p] = s.queue[p]
  <2> HIDE DEF r
  <2>1. c[y].curpri = n /\ y \in Placed(s) /\ n \in Nat /\ Priority \subseteq Nat
        /\ Len(s.queue[n]) \in Nat
    BY <1>2, TaskCount DEF QueuesExact, Placed, Priority, TPRI_MINTASK, Sched
  <2>2. FirstIn(r, R)
    <3>1. SUFFICES ASSUME NEW p \in Priority, NEW i \in 1 .. Len(r.queue[p]),
                          r.queue[p][i] \in R
                   PROVE  i = 1
      BY DEF FirstIn
    <3>2. CASE p = n
      <4>1. i + 1 \in 1 .. Len(s.queue[n]) /\ s.queue[n][i + 1] \in R
        BY <1>2, <2>1, <3>1, <3>2
      <4>2. i + 1 = 1
        BY <1>2, <4>1 DEF FirstIn
      <4>3. QED
        BY <3>1, <4>2
    <3>3. CASE p # n
      BY <1>2, <3>1, <3>3 DEF FirstIn
    <3>4. QED
      BY <3>2, <3>3
  <2>3. ASSUME NEW w \in R \ {y} PROVE c[w].curpri < tinib_inipri[y]
    <3>1. /\ w \in TaskId /\ c[w].curpri \in Priority /\ c[w].curpri <= n
          /\ \E i \in 1 .. Len(s.queue[c[w].curpri]) : s.queue[c[w].curpri][i] = w
      BY <1>2, PlacedAt
    <3>2. s.queue[c[w].curpri][1] = w
      BY <3>1 DEF FirstIn
    <3>3. c[w].curpri # n
      BY <2>3, <3>2
    <3>4. c[w].curpri < n /\ c[w].curpri \in Nat /\ tinib_inipri[w] \in Nat
          /\ tinib_inipri[y] \in Nat
      <4>1. c[w].curpri \in Nat /\ n \in Nat
        BY <2>1, <3>1
      <4>2. tinib_inipri[w] \in Nat /\ tinib_inipri[y] \in Nat
        BY <1>2, <3>1, Constants
      <4>3. QED
        BY <3>1, <3>3, <4>1, <4>2
    <3>5. CASE y \in R
      <4>1. c[w].curpri < tinib_inipri[y] \/ c[y].curpri < tinib_inipri[w]
        BY <2>3, <3>5 DEF Apart
      <4>2. tinib_inipri[w] <= c[w].curpri
        BY <2>3 DEF Levels
      <4>3. QED
        BY <2>1, <3>4, <4>1, <4>2
    <3>6. CASE y \notin R
      BY <2>1, <3>4, <3>6 DEF Levels
    <3>7. QED
      BY <3>5, <3>6
  <2>4. QED
    BY <1>2, <2>2, <2>3 DEF StackOK, Above, r
<1>3. QED
  BY <1>1, <1>2, TakenPlace

(* schedtsk goes in front of the queue of a priority that no raised task   *)
(* has reached.                                                            *)
LEMMA InsertFirstStack ==
  ASSUME NEW s \in Sched, NEW c, QueuesExact(s, c),
         NEW pri \in Priority, NEW t \in TaskId,
         NEW R, FirstIn(s, R), t \notin Placed(s),
         \A w \in R \ {t} : c[w].curpri < pri
  PROVE  FirstIn(ready_insert_first(s, pri, t), R)
<1> DEFINE r == ready_insert_first(s, pri, t)
<1>1. SUFFICES ASSUME NEW p \in Priority, NEW i \in 1 .. Len(r.queue[p]),
                      r.queue[p][i] \in R
               PROVE  i = 1
  BY DEF FirstIn
<1>2. /\ Len(r.queue[pri]) = Len(s.queue[pri]) + 1
      /\ \A j \in 2 .. Len(s.queue[pri]) + 1 : r.queue[pri][j] = s.queue[pri][j - 1]
      /\ \A q \in Priority \ {pri} : r.queue[q] = s.queue[q]
  BY FirstPlace
<1> HIDE DEF r
<1>3. Len(s.queue[pri]) \in Nat /\ s.queue[pri] \in Seq(TaskId) /\ pri \in Nat
  BY TaskCount DEF Sched, Priority, TPRI_MINTASK
<1>4. CASE p = pri /\ i # 1
  <2>1. i \in 2 .. Len(s.queue[pri]) + 1
    BY <1>2, <1>3, <1>4
  <2>2. i - 1 \in 1 .. Len(s.queue[pri]) /\ r.queue[p][i] = s.queue[pri][i - 1]
    BY <1>2, <1>3, <1>4, <2>1
  <2>3. s.queue[pri][i - 1] \in Placed(s) /\ c[s.queue[pri][i - 1]].curpri = pri
    BY <1>3, <2>2 DEF Placed, QueuesExact
  <2>4. s.queue[pri][i - 1] \in R \ {t}
    BY <1>1, <2>2, <2>3
  <2>5. pri < pri
    BY <2>3, <2>4
  <2>6. QED
    BY <1>3, <2>5
<1>5. CASE p # pri
  BY <1>1, <1>2, <1>5 DEF FirstIn
<1>6. QED
  BY <1>4, <1>5

LEMMA MakeRunnableStack ==
  ASSUME NEW s \in Sched, NEW c, SchedOK(s, c), NEW t \in TaskId,
         t \notin Accounted(s), c[t].curpri = tinib_inipri[t],
         NEW R, R \subseteq Accounted(s), StackOK(s, c, R),
         Levels(c, R, Accounted(s))
  PROVE  StackOK(make_runnable(s, c, t), c, R)
<1> DEFINE r    == make_runnable(s, c, t)
           spri == c[s.schedtsk].curpri
<1>1. /\ s.schedtsk \in TaskId \cup {TSKID_NULL} /\ TSKID_NULL \notin TaskId
      /\ Priority \subseteq Nat /\ s.nextpri \in Nat
      /\ c[t].curpri \in Priority /\ t \notin R
      /\ \A u \in TaskId : c[u].curpri \in Nat
  BY Constants, TaskCount DEF Sched, Priority, TPRI_MINTASK, Levels
<1>2. CASE ~ Outranks(s, c, t)
  <2> DEFINE a == ready_insert_last(s, c[t].curpri, t)
  <2>1. r.queue = a.queue /\ r.schedtsk = s.schedtsk
    BY <1>2 DEF make_runnable, ready_insert_last, Sched
  <2>2. /\ Len(a.queue[c[t].curpri]) = Len(s.queue[c[t].curpri]) + 1
        /\ a.queue[c[t].curpri][Len(s.queue[c[t].curpri]) + 1] = t
        /\ \A i \in 1 .. Len(s.queue[c[t].curpri]) :
             a.queue[c[t].curpri][i] = s.queue[c[t].curpri][i]
        /\ \A p \in Priority \ {c[t].curpri} : a.queue[p] = s.queue[p]
    BY <1>1, LastPlace
  <2> HIDE DEF a, r
  <2>3. FirstIn(r, R)
    <3>1. SUFFICES ASSUME NEW p \in Priority, NEW i \in 1 .. Len(a.queue[p]),
                          a.queue[p][i] \in R
                   PROVE  i = 1
      BY <2>1 DEF FirstIn
    <3>2. CASE p = c[t].curpri
      <4>1. Len(s.queue[p]) \in Nat
        BY DEF Sched
      <4>2. i # Len(s.queue[p]) + 1
        BY <1>1, <2>2, <3>1, <3>2
      <4>3. i \in 1 .. Len(s.queue[p])
        BY <2>2, <3>2, <4>1, <4>2
      <4>4. s.queue[p][i] \in R
        BY <2>2, <3>1, <3>2, <4>3
      <4>5. QED
        BY <4>3, <4>4 DEF StackOK, FirstIn
    <3>3. CASE p # c[t].curpri
      BY <2>2, <3>1, <3>3 DEF StackOK, FirstIn
    <3>4. QED
      BY <3>2, <3>3
  <2>4. QED
    BY <2>1, <2>3 DEF StackOK, Above, r
<1>3. CASE s.schedtsk = TSKID_NULL
  <2>1. Accounted(s) = {}
    <3>1. ASSUME NEW u \in Accounted(s) PROVE FALSE
      BY <1>1, <1>3, AccountedBelow
    <3>2. QED
      BY <3>1
  <2>2. R = {}
    BY <2>1
  <2>3. QED
    BY <2>2 DEF StackOK, Apart, FirstIn, Above
<1>4. CASE Outranks(s, c, t) /\ s.schedtsk # TSKID_NULL
  <2> DEFINE a == ready_insert_first(s, spri, s.schedtsk)
  <2>1. r.queue = a.queue /\ r.schedtsk = t
    BY <1>4 DEF make_runnable, ready_insert_first, Sched
  <2>2. /\ s.schedtsk \in TaskId /\ spri < c[t].curpri /\ spri \in Nat
        /\ tinib_inipri[s.schedtsk] \in Nat
    BY <1>1, <1>4, Constants DEF Outranks
  <2>3. spri \in Priority
    BY <1>1, <2>2, TaskCount DEF Priority, TPRI_MINTASK
  <2>4. tinib_inipri[s.schedtsk] <= spri
    <3>1. s.schedtsk \in Accounted(s)
      BY <1>1, <2>2 DEF Accounted
    <3>2. QED
      BY <2>2, <3>1 DEF Levels
  <2>5. \A w \in R \ {s.schedtsk} : c[w].curpri < spri
    <3>1. SUFFICES ASSUME NEW w \in R \ {s.schedtsk} PROVE c[w].curpri < spri
      OBVIOUS
    <3>2. w \in TaskId
      BY <1>1 DEF Accounted, Placed
    <3>3. c[w].curpri < tinib_inipri[s.schedtsk] /\ c[w].curpri \in Nat
      BY <1>1, <2>2, <3>2 DEF StackOK, Above
    <3>4. QED
      BY <2>2, <2>4, <3>3
  <2>6. FirstIn(a, R)
    BY <2>2, <2>3, <2>5, InsertFirstStack DEF SchedOK, StackOK
  <2>7. ASSUME NEW w \in R PROVE c[w].curpri < tinib_inipri[t]
    <3>1. c[w].curpri <= spri /\ w \in TaskId
      BY <1>1, AccountedBelow DEF Accounted, Placed
    <3>2. QED
      BY <1>1, <2>2, <3>1
  <2> HIDE DEF a, r
  <2>8. QED
    BY <2>1, <2>6, <2>7 DEF StackOK, FirstIn, Above, r
<1>5. QED
  BY <1>2, <1>3, <1>4 DEF Outranks

(* preempt, for a schedtsk whose priority sank below nextpri: its queue. *)
LEMMA Requeued ==
  ASSUME NEW s \in Sched, NEW c, QueuesExact(s, c), NextpriHighest(s),
         s.schedtsk \in TaskId, s.schedtsk \notin Placed(s),
         c[s.schedtsk].curpri \in Nat, c[s.schedtsk].curpri < s.nextpri
  PROVE  LET pri == c[s.schedtsk].curpri
             a   == ready_insert_first(s, pri, s.schedtsk)
         IN  /\ pri \in Priority /\ preempt(s, c) = search_schedtsk(a)
             /\ a \in Sched /\ QueuesExact(a, c) /\ NextpriHighest(a)
             /\ Placed(a) = Placed(s) \cup {s.schedtsk}
<1> DEFINE pri == c[s.schedtsk].curpri
           a   == ready_insert_first(s, pri, s.schedtsk)
<1>1. /\ s.nextpri \in Priority /\ Priority \subseteq Nat
      /\ s.primap \subseteq Priority
  BY TaskCount DEF Sched, Priority, TPRI_MINTASK
<1>2. pri \in Priority
  BY <1>1, TaskCount DEF Priority, TPRI_MINTASK
<1>3. /\ a \in Sched /\ QueuesExact(a, c)
      /\ Placed(a) = Placed(s) \cup {s.schedtsk}
      /\ a.primap = s.primap \cup {pri} /\ a.nextpri = s.nextpri
  BY <1>2, InsertFirst
<1>4. preempt(s, c) = search_schedtsk(a)
  BY DEF preempt
<1> HIDE DEF a
<1>5. NextpriHighest(a)
  <2>1. ASSUME NEW p \in a.primap PROVE p <= a.nextpri
    <3>1. p \in s.primap => p <= s.nextpri
      BY DEF NextpriHighest
    <3>2. p \in Nat /\ pri \in Nat /\ s.nextpri \in Nat
      BY <1>1, <1>2, <1>3
    <3>3. QED
      BY <1>3, <3>1, <3>2
  <2>2. s.nextpri \in s.primap
    BY <1>1 DEF NextpriHighest, TPRI_MINTASK
  <2>3. QED
    BY <1>3, <2>1, <2>2 DEF NextpriHighest
<1>6. QED
  BY <1>2, <1>3, <1>4, <1>5 DEF a

LEMMA PreemptStack ==
  ASSUME NEW s \in Sched, NEW c, QueuesExact(s, c), NextpriHighest(s),
         s.schedtsk \in TaskId, s.schedtsk \notin Placed(s),
         c[s.schedtsk].curpri < s.nextpri,
         tinib_inipri[s.schedtsk] <= c[s.schedtsk].curpri,
         NEW R, R \subseteq Placed(s) \cup {s.schedtsk}, StackOK(s, c, R),
         Levels(c, R, Placed(s) \cup {s.schedtsk})
  PROVE  StackOK(preempt(s, c), c, R)
<1> DEFINE pri == c[s.schedtsk].curpri
           a   == ready_insert_first(s, pri, s.schedtsk)
<1>1. pri \in Nat /\ tinib_inipri[s.schedtsk] \in Nat
  BY Constants DEF Levels
<1>2. /\ pri \in Priority /\ preempt(s, c) = search_schedtsk(a)
      /\ a \in Sched /\ QueuesExact(a, c) /\ NextpriHighest(a)
      /\ Placed(a) = Placed(s) \cup {s.schedtsk}
  BY <1>1, Requeued
<1>3. \A w \in R \ {s.schedtsk} : c[w].curpri < pri
  <2>1. SUFFICES ASSUME NEW w \in R \ {s.schedtsk} PROVE c[w].curpri < pri
    OBVIOUS
  <2>2. w \in TaskId
    BY DEF Placed
  <2>3. c[w].curpri < tinib_inipri[s.schedtsk] /\ c[w].curpri \in Nat
    BY <2>2 DEF StackOK, Above, Levels
  <2>4. QED
    BY <1>1, <2>3
<1>4. FirstIn(a, R)
  BY <1>2, <1>3, InsertFirstStack DEF StackOK
<1> HIDE DEF a
<1>5. QED
  BY <1>2, <1>4, SearchStack DEF StackOK

(* The queues are left alone, and no task but schedtsk is raised. *)
LEMMA SameQueues ==
  ASSUME NEW s \in Sched, NEW c, NEW R, StackOK(s, c, R),
         s.schedtsk \notin Placed(s),
         NEW d, NEW Q, Q \subseteq TaskId,
         \A w \in Q \ {s.schedtsk} : w \in R /\ d[w].curpri = c[w].curpri
  PROVE  StackOK(s, d, Q)
<1>1. Above(s, d, Q)
  BY DEF StackOK, Above
<1>2. FirstIn(s, Q)
  <2>1. SUFFICES ASSUME NEW p \in Priority, NEW i \in 1 .. Len(s.queue[p]),
                        s.queue[p][i] \in Q
                 PROVE  i = 1
    BY DEF FirstIn
  <2>2. s.queue[p][i] # s.schedtsk
    BY <2>1 DEF Placed
  <2>3. QED
    BY <2>1, <2>2 DEF StackOK, FirstIn
<1>3. Apart(d, Q)
  <2>1. SUFFICES ASSUME NEW t \in Q, NEW u \in Q, t # u
                 PROVE  \/ d[t].curpri < tinib_inipri[u]
                        \/ d[u].curpri < tinib_inipri[t]
    BY DEF Apart
  <2>2. CASE t = s.schedtsk \/ u = s.schedtsk
    BY <1>1, <2>1, <2>2 DEF Above
  <2>3. CASE t # s.schedtsk /\ u # s.schedtsk
    BY <2>1, <2>3 DEF StackOK, Apart
  <2>4. QED
    BY <2>2, <2>3
<1>4. QED
  BY <1>1, <1>2, <1>3 DEF StackOK

-----------------------------------------------------------------------------
(* The resources reached from one over rescb_prevres.                      *)

LEMMA HeldClosed ==
  ASSUME NEW last, NEW rb
  PROVE  /\ Chained(last, rb, HeldFrom(last, rb))
         /\ HeldFrom(last, rb) \subseteq ResourceId
         /\ \A S \in SUBSET ResourceId :
              Chained(last, rb, S) => HeldFrom(last, rb) \subseteq S
BY DEF HeldFrom, Chained

LEMMA HeldNone ==
  ASSUME NEW rb
  PROVE  HeldFrom(RESID_NULL, rb) = {}
<1>1. Chained(RESID_NULL, rb, {})
  BY KernelConfig DEF Chained
<1>2. QED
  BY <1>1, HeldClosed

(* A resource and those below it. *)
LEMMA HeldStep ==
  ASSUME NEW r \in ResourceId, NEW rb
  PROVE  HeldFrom(r, rb) = {r} \cup HeldFrom(rb[r].prevres, rb)
<1> DEFINE H == HeldFrom(r, rb)
           L == HeldFrom(rb[r].prevres, rb)
<1>1. Chained(r, rb, {r} \cup L)
  BY HeldClosed DEF Chained
<1>2. H \subseteq {r} \cup L
  BY <1>1, HeldClosed
<1>3. r \in H /\ Chained(rb[r].prevres, rb, H)
  BY HeldClosed DEF Chained
<1>4. L \subseteq H
  BY <1>3, HeldClosed
<1>5. QED
  BY <1>2, <1>3, <1>4

(* Only the links of the resources reached matter. *)
LEMMA HeldFrame ==
  ASSUME NEW last, NEW a, NEW b,
         \A r \in HeldFrom(last, a) : b[r].prevres = a[r].prevres
  PROVE  HeldFrom(last, b) = HeldFrom(last, a)
<1> DEFINE H == HeldFrom(last, a)
<1>1. Chained(last, b, H) /\ H \subseteq ResourceId
  BY HeldClosed DEF Chained
<1>2. HeldFrom(last, b) \subseteq H
  BY <1>1, HeldClosed
<1>3. ASSUME NEW S \in SUBSET ResourceId, Chained(last, b, S) PROVE H \subseteq S
  <2>1. Chained(last, a, S \cap H)
    BY <1>3, HeldClosed DEF Chained
  <2>2. QED
    BY <2>1, HeldClosed
<1>4. H \subseteq HeldFrom(last, b)
  BY <1>1, <1>3, HeldClosed
<1>5. QED
  BY <1>2, <1>4

(* p is the highest of t's execution priority and the ceilings of H. *)
Top(p, t, H) ==
  /\ p = tinib_exepri[t] \/ \E r \in H : p = resinib_ceilpri[r]
  /\ tinib_exepri[t] <= p
  /\ \A r \in H : resinib_ceilpri[r] <= p

(* Only raised tasks hold resources, each resource is held once, and the   *)
(* priorities to give back are those without the resources taken since.    *)
HeldOK(c, rb, R) ==
  /\ \A t \in TaskId \ R : c[t].lastres = RESID_NULL
  /\ \A t \in R : Top(c[t].curpri, t, HeldFrom(c[t].lastres, rb))
  /\ \A t \in R : \A r \in HeldFrom(c[t].lastres, rb) :
       /\ rb[r].prevpri # TPRI_NULL
       /\ r \notin HeldFrom(rb[r].prevres, rb)
       /\ tinib_inipri[t] <= resinib_ceilpri[r]
       /\ Top(rb[r].prevpri, t, HeldFrom(rb[r].prevres, rb))
  /\ \A t, u \in R : t # u =>
       HeldFrom(c[t].lastres, rb) \cap HeldFrom(c[u].lastres, rb) = {}

(* A task that holds nothing takes part when it has its execution priority. *)
LEMMA HeldKept ==
  ASSUME NEW c, NEW rb, NEW R, HeldOK(c, rb, R),
         NEW d, NEW Q, Q \subseteq TaskId,
         \A t \in Q : \/ t \in R /\ d[t].curpri = c[t].curpri
                                 /\ d[t].lastres = c[t].lastres
                      \/ d[t].lastres = RESID_NULL /\ d[t].curpri = tinib_exepri[t],
         \A t \in TaskId \ Q : d[t].lastres = RESID_NULL
  PROVE  HeldOK(d, rb, Q)
<1>1. ASSUME NEW t \in Q, d[t].lastres = RESID_NULL, d[t].curpri = tinib_exepri[t]
      PROVE  /\ HeldFrom(d[t].lastres, rb) = {}
             /\ Top(d[t].curpri, t, HeldFrom(d[t].lastres, rb))
  <2>1. tinib_exepri[t] <= tinib_exepri[t]
    BY Constants
  <2>2. QED
    BY <1>1, <2>1, HeldNone DEF Top
<1>2. \A t \in Q : \/ t \in R /\ d[t].curpri = c[t].curpri
                              /\ d[t].lastres = c[t].lastres
                   \/ /\ HeldFrom(d[t].lastres, rb) = {}
                      /\ Top(d[t].curpri, t, HeldFrom(d[t].lastres, rb))
  BY <1>1
<1>3. \A t \in Q : Top(d[t].curpri, t, HeldFrom(d[t].lastres, rb))
  BY <1>2 DEF HeldOK
<1>4. \A t \in Q : \A r \in HeldFrom(d[t].lastres, rb) :
        /\ rb[r].prevpri # TPRI_NULL
        /\ r \notin HeldFrom(rb[r].prevres, rb)
        /\ tinib_inipri[t] <= resinib_ceilpri[r]
        /\ Top(rb[r].prevpri, t, HeldFrom(rb[r].prevres, rb))
  BY <1>2 DEF HeldOK
<1>5. \A t, u \in Q : t # u =>
        HeldFrom(d[t].lastres, rb) \cap HeldFrom(d[u].lastres, rb) = {}
  BY <1>2 DEF HeldOK
<1>6. QED
  BY <1>3, <1>4, <1>5 DEF HeldOK

(* GetResource: the priority to give back is the one without r. *)
LEMMA HeldTaken ==
  ASSUME NEW c, NEW rb \in [ResourceId -> Rescb], NEW R \in SUBSET TaskId,
         HeldOK(c, rb, R),
         NEW x \in R, NEW r \in ResourceId, c[x].curpri \in Nat,
         rb[r].prevpri = TPRI_NULL, tinib_inipri[x] <= resinib_ceilpri[r],
         NEW pri, pri = IF resinib_ceilpri[r] > c[x].curpri
                        THEN resinib_ceilpri[r] ELSE c[x].curpri,
         NEW d, d[x].curpri = pri, d[x].lastres = r,
         \A t \in TaskId \ {x} : d[t] = c[t],
         NEW b, b[r].prevpri = c[x].curpri, b[r].prevres = c[x].lastres,
         \A q \in ResourceId \ {r} : b[q] = rb[q]
  PROVE  HeldOK(d, b, R)
<1> DEFINE H(t) == HeldFrom(c[t].lastres, rb)
<1>1. /\ b[r].prevpri = c[x].curpri /\ b[r].prevres = c[x].lastres
      /\ \A q \in ResourceId \ {r} : b[q] = rb[q]
  OBVIOUS
<1>2. \A t \in R : r \notin H(t)
  BY DEF HeldOK
<1>3. \A t \in R : HeldFrom(c[t].lastres, b) = H(t)
  <2>1. SUFFICES ASSUME NEW t \in R PROVE HeldFrom(c[t].lastres, b) = H(t)
    OBVIOUS
  <2>2. \A q \in H(t) : b[q].prevres = rb[q].prevres
    BY <1>1, <1>2, HeldClosed
  <2>3. QED
    BY ONLY <2>2, HeldFrame
<1>4. HeldFrom(d[x].lastres, b) = {r} \cup H(x)
  <2>1. HeldFrom(r, b) = {r} \cup HeldFrom(b[r].prevres, b)
    BY HeldStep
  <2>2. HeldFrom(b[r].prevres, b) = H(x)
    BY <1>1, <1>3
  <2>3. QED
    BY <2>1, <2>2
<1>5. \A t \in R \ {x} : HeldFrom(d[t].lastres, b) = H(t)
  BY <1>3
<1>6. \A t \in R : \A q \in H(t) :
        /\ b[q] = rb[q]
        /\ HeldFrom(b[q].prevres, b) = HeldFrom(rb[q].prevres, rb)
  <2>1. SUFFICES ASSUME NEW t \in R, NEW q \in H(t)
                 PROVE  /\ b[q] = rb[q]
                        /\ HeldFrom(b[q].prevres, b) = HeldFrom(rb[q].prevres, rb)
    OBVIOUS
  <2>2. b[q] = rb[q] /\ q \in ResourceId
    BY <1>1, <1>2, HeldClosed
  <2>3. HeldFrom(rb[q].prevres, rb) \subseteq H(t)
    <3>1. Chained(rb[q].prevres, rb, H(t)) /\ H(t) \subseteq ResourceId
      BY HeldClosed DEF Chained
    <3>2. QED
      BY <3>1, HeldClosed
  <2>4. \A z \in HeldFrom(rb[q].prevres, rb) : b[z].prevres = rb[z].prevres
    BY <1>1, <1>2, <2>3, HeldClosed
  <2>5. QED
    BY ONLY <2>2, <2>4, HeldFrame
<1>7. Top(pri, x, {r} \cup H(x))
  <2>1. Top(c[x].curpri, x, H(x))
    BY DEF HeldOK
  <2>2. /\ resinib_ceilpri[r] \in Nat /\ tinib_exepri[x] \in Nat
        /\ \A q \in H(x) : resinib_ceilpri[q] \in Nat
    BY Constants, KernelConfig, HeldClosed
  <2>3. c[x].curpri <= pri /\ resinib_ceilpri[r] <= pri /\ pri \in Nat
    BY <2>2
  <2>4. \A q \in H(x) : resinib_ceilpri[q] <= pri
    BY <2>1, <2>2, <2>3 DEF Top
  <2>5. tinib_exepri[x] <= pri
    BY <2>1, <2>2, <2>3 DEF Top
  <2>6. pri = tinib_exepri[x] \/ \E q \in {r} \cup H(x) : pri = resinib_ceilpri[q]
    BY <2>1 DEF Top
  <2>7. QED
    BY <2>3, <2>4, <2>5, <2>6 DEF Top
<1>8. c[x].curpri # TPRI_NULL
  <2>1. Top(c[x].curpri, x, H(x)) /\ H(x) \subseteq ResourceId
    BY HeldClosed DEF HeldOK
  <2>2. /\ tinib_exepri[x] < TPRI_NULL /\ tinib_exepri[x] \in Nat
        /\ \A q \in H(x) : resinib_ceilpri[q] < TPRI_NULL /\ resinib_ceilpri[q] \in Nat
    BY <2>1, Constants, KernelConfig
  <2>3. QED
    BY <2>1, <2>2 DEF Top, TPRI_NULL
<1>9. HeldFrom(b[r].prevres, b) = H(x)
  BY <1>1, <1>3
<1> DEFINE G(t) == HeldFrom(d[t].lastres, b)
           Kept(t, q) == /\ rb[q].prevpri # TPRI_NULL
                         /\ q \notin HeldFrom(rb[q].prevres, rb)
                         /\ tinib_inipri[t] <= resinib_ceilpri[q]
                         /\ Top(rb[q].prevpri, t, HeldFrom(rb[q].prevres, rb))
           Keeps(t, q) == /\ b[q].prevpri # TPRI_NULL
                          /\ q \notin HeldFrom(b[q].prevres, b)
                          /\ tinib_inipri[t] <= resinib_ceilpri[q]
                          /\ Top(b[q].prevpri, t, HeldFrom(b[q].prevres, b))
<1>10. /\ \A t \in R : Top(c[t].curpri, t, H(t))
       /\ \A t \in R : \A q \in H(t) : Kept(t, q)
       /\ \A t, u \in R : t # u => H(t) \cap H(u) = {}
       /\ \A t \in TaskId \ R : c[t].lastres = RESID_NULL
  BY DEF HeldOK
<1>11. \A t \in R : \A q \in H(t) : Keeps(t, q)
  <2>1. SUFFICES ASSUME NEW t \in R, NEW q \in H(t) PROVE Keeps(t, q)
    OBVIOUS
  <2>2. Kept(t, q)
    BY <1>10
  <2>3. /\ b[q] = rb[q]
        /\ HeldFrom(b[q].prevres, b) = HeldFrom(rb[q].prevres, rb)
    BY <1>6
  <2>4. QED
    BY <2>2, <2>3
<1>12. Keeps(x, r)
  BY <1>1, <1>2, <1>8, <1>9, <1>10
<1>13. G(x) = {r} \cup H(x) /\ \A t \in R \ {x} : G(t) = H(t)
  BY <1>4, <1>5
<1>14. HeldOK(d, b, R) <=>
         /\ \A t \in TaskId \ R : d[t].lastres = RESID_NULL
         /\ \A t \in R : Top(d[t].curpri, t, G(t))
         /\ \A t \in R : \A q \in G(t) : Keeps(t, q)
         /\ \A t, u \in R : t # u => G(t) \cap G(u) = {}
  BY DEF HeldOK
<1> HIDE DEF H, G, Kept, Keeps
<1>15. ASSUME NEW t \in R PROVE Top(d[t].curpri, t, G(t))
  <2>1. CASE t = x
    BY <1>7, <1>13, <2>1
  <2>2. CASE t # x
    <3>1. d[t] = c[t] /\ G(t) = H(t) /\ Top(c[t].curpri, t, H(t))
      BY <1>10, <1>13, <2>2
    <3>2. QED
      BY <3>1
  <2>3. QED
    BY <2>1, <2>2
<1>16. \A t \in R : \A q \in G(t) : Keeps(t, q)
  BY <1>11, <1>12, <1>13
<1>17. \A t, u \in R : t # u => G(t) \cap G(u) = {}
  <2>1. SUFFICES ASSUME NEW t \in R, NEW u \in R, t # u PROVE G(t) \cap G(u) = {}
    OBVIOUS
  <2>2. H(t) \cap H(u) = {} /\ r \notin H(t) /\ r \notin H(u)
    BY <1>2, <1>10, <2>1
  <2>3. G(t) = H(t) \/ (G(t) = {r} \cup H(t) /\ t = x)
    BY <1>13
  <2>4. G(u) = H(u) \/ (G(u) = {r} \cup H(u) /\ u = x)
    BY <1>13
  <2>5. QED
    BY ONLY <2>1, <2>2, <2>3, <2>4
<1>18. \A t \in TaskId \ R : d[t].lastres = RESID_NULL
  BY <1>10
<1>19. QED
  BY <1>14, <1>15, <1>16, <1>17, <1>18

(* ReleaseResource: the saved priority and resource are those of the rest. *)
LEMMA HeldGiven ==
  ASSUME NEW c, NEW rb \in [ResourceId -> Rescb], NEW R \in SUBSET TaskId,
         HeldOK(c, rb, R),
         NEW x \in R, NEW r \in ResourceId, c[x].lastres = r,
         NEW d, d[x].curpri = rb[r].prevpri, d[x].lastres = rb[r].prevres,
         \A t \in TaskId \ {x} : d[t] = c[t],
         NEW b, \A q \in ResourceId : b[q].prevres = rb[q].prevres,
         \A q \in ResourceId \ {r} : b[q].prevpri = rb[q].prevpri
  PROVE  /\ HeldOK(d, b, R) /\ Top(rb[r].prevpri, x, HeldFrom(rb[r].prevres, rb))
         /\ rb[r].prevpri <= c[x].curpri
<1>1. /\ \A q \in ResourceId : b[q].prevres = rb[q].prevres
      /\ \A q \in ResourceId \ {r} : b[q].prevpri = rb[q].prevpri
  OBVIOUS
<1>2. \A last : HeldFrom(last, b) = HeldFrom(last, rb)
  <2>1. SUFFICES ASSUME NEW last PROVE HeldFrom(last, b) = HeldFrom(last, rb)
    OBVIOUS
  <2>2. \A q \in HeldFrom(last, rb) : b[q].prevres = rb[q].prevres
    BY <1>1, HeldClosed
  <2>3. QED
    BY ONLY <2>2, HeldFrame
<1> DEFINE H(t) == HeldFrom(c[t].lastres, rb)
           L    == HeldFrom(rb[r].prevres, rb)
<1>3. H(x) = {r} \cup L /\ r \in H(x)
  BY HeldStep
<1>4. r \notin L /\ Top(rb[r].prevpri, x, L)
  BY <1>3 DEF HeldOK
<1>5. HeldFrom(d[x].lastres, b) = L /\ \A t \in R \ {x} : HeldFrom(d[t].lastres, b) = H(t)
  BY <1>2
<1>6. \A t \in R \ {x} : r \notin H(t)
  BY <1>3 DEF HeldOK
<1>7. rb[r].prevpri <= c[x].curpri
  BY <1>3, <1>4 DEF HeldOK, Top
<1> DEFINE G(t) == HeldFrom(d[t].lastres, b)
<1>8. /\ \A t \in R : Top(c[t].curpri, t, H(t))
      /\ \A t, u \in R : t # u => H(t) \cap H(u) = {}
      /\ \A t \in TaskId \ R : c[t].lastres = RESID_NULL
  BY DEF HeldOK
<1>9. ASSUME NEW t \in R, NEW q \in G(t)
      PROVE  /\ b[q].prevpri # TPRI_NULL
             /\ q \notin HeldFrom(b[q].prevres, b)
             /\ tinib_inipri[t] <= resinib_ceilpri[q]
             /\ Top(b[q].prevpri, t, HeldFrom(b[q].prevres, b))
  <2>1. q \in H(t) /\ q # r /\ q \in ResourceId
    <3>1. H(t) \subseteq ResourceId
      BY HeldClosed
    <3>2. q \in H(t) /\ q # r
      <4>1. CASE t = x
        <5>1. q \in L
          BY <1>5, <1>9, <4>1
        <5>2. QED
          BY <1>3, <1>4, <4>1, <5>1
      <4>2. CASE t # x
        <5>1. q \in H(t)
          BY <1>5, <1>9, <4>2
        <5>2. QED
          BY <1>6, <4>2, <5>1
      <4>3. QED
        BY <4>1, <4>2
    <3>3. QED
      BY <3>1, <3>2
  <2>2. /\ b[q].prevpri = rb[q].prevpri /\ b[q].prevres = rb[q].prevres
        /\ HeldFrom(b[q].prevres, b) = HeldFrom(rb[q].prevres, rb)
    BY <1>1, <1>2, <2>1
  <2>3. QED
    BY <2>1, <2>2 DEF HeldOK
<1>10. G(x) = L /\ \A t \in R \ {x} : G(t) = H(t)
  BY <1>5
<1>11. /\ \A t \in TaskId \ R : d[t].lastres = RESID_NULL
       /\ \A t \in R : Top(d[t].curpri, t, G(t))
       /\ \A t, u \in R : t # u => G(t) \cap G(u) = {}
       => HeldOK(d, b, R)
  BY <1>9 DEF HeldOK
<1> HIDE DEF H, L, G
<1>12. HeldOK(d, b, R)
  <2>1. \A t \in R : Top(d[t].curpri, t, G(t))
    BY <1>4, <1>8, <1>10
  <2>2. \A t, u \in R : t # u => G(t) \cap G(u) = {}
    <3>1. SUFFICES ASSUME NEW t \in R, NEW u \in R, t # u PROVE G(t) \cap G(u) = {}
      OBVIOUS
    <3>2. H(t) \cap H(u) = {} /\ G(t) \subseteq H(t) /\ G(u) \subseteq H(u)
      BY <1>3, <1>8, <1>10, <3>1
    <3>3. QED
      BY ONLY <3>2
  <2>3. \A t \in TaskId \ R : d[t].lastres = RESID_NULL
    BY <1>8
  <2>4. QED
    BY <1>11, <2>1, <2>2, <2>3
<1>13. QED
  BY <1>4, <1>7, <1>12 DEF L

-----------------------------------------------------------------------------
(* The whole of the second invariant, for the kernel's data k, the         *)
(* resources rb and the running task x.                                    *)
ProtocolOK(k, rb, x) ==
  /\ HeldOK(k.tcb, rb, Raised(k.tcb, x))
  /\ StackOK(k.sched, k.tcb, Raised(k.tcb, x))
  /\ \A t \in TaskId \ {x} :
       k.tcb[t].tstat = "WAITING" => k.tcb[t].pc = "dispatcher_r_exepri"

PInv == ProtocolOK(K, rescb, Running)

(* The priorities of the tasks the scheduler accounts for. *)
LEMMA LevelsHold ==
  ASSUME NEW k, NEW x, NEW rb, KernelOK(k, x), ProtocolOK(k, rb, x)
  PROVE  LET R == Raised(k.tcb, x)
         IN  /\ R \subseteq Accounted(k.sched) /\ R \subseteq TaskId
             /\ Levels(k.tcb, R, Accounted(k.sched))
<1> DEFINE R == Raised(k.tcb, x)
<1>1. /\ k.tcb \in [TaskId -> Tcb] /\ k.sched \in Sched
      /\ Accounted(k.sched) = RunnableIn(k.tcb)
  BY DEF KernelOK
<1>2. R \subseteq Accounted(k.sched) /\ R \subseteq TaskId
  BY <1>1 DEF Raised, RunnableIn
<1>3. \A t \in TaskId : k.tcb[t].curpri \in Nat /\ k.tcb[t].pc \in ResumeAt
  BY <1>1 DEF Tcb
<1>4. ASSUME NEW w \in R PROVE tinib_inipri[w] <= k.tcb[w].curpri
  <2>1. tinib_exepri[w] <= k.tcb[w].curpri
    BY DEF ProtocolOK, HeldOK, Top
  <2>2. w \in TaskId /\ k.tcb[w].curpri \in Nat
    BY <1>2, <1>3
  <2>3. /\ tinib_inipri[w] \in Nat /\ tinib_exepri[w] \in Nat
        /\ tinib_inipri[w] <= tinib_exepri[w]
    BY <2>2, Constants
  <2>4. QED
    BY <2>1, <2>2, <2>3
<1>5. ASSUME NEW y \in Accounted(k.sched) \ R PROVE k.tcb[y].curpri = tinib_inipri[y]
  <2>1. y \in TaskId /\ k.tcb[y].tstat = "RUNNABLE"
    BY <1>1 DEF RunnableIn
  <2>2. y # x /\ k.tcb[y].pc \in {"activate_r", "dispatcher_r_exepri"}
    BY <1>3, <1>5, <2>1 DEF Raised, ResumeAt
  <2>3. QED
    BY <2>1, <2>2 DEF KernelOK, QueuedLow
<1>6. QED
  BY <1>2, <1>3, <1>4, <1>5 DEF Levels

(* Control blocks that differ in counters and events only. *)
LEMMA SameRaised ==
  ASSUME NEW k, NEW x, NEW rb, KernelOK(k, x), ProtocolOK(k, rb, x),
         NEW d, NEW y, Raised(d, y) = Raised(k.tcb, x),
         \A u \in TaskId : d[u].curpri = k.tcb[u].curpri
                           /\ d[u].lastres = k.tcb[u].lastres,
         \A u \in TaskId \ {y} :
           d[u].tstat = "WAITING" => d[u].pc = "dispatcher_r_exepri"
  PROVE  ProtocolOK([sched |-> k.sched, tcb |-> d], rb, y)
<1> DEFINE R == Raised(k.tcb, x)
<1>1. /\ k.sched \in Sched /\ k.sched.schedtsk \notin Placed(k.sched)
      /\ R \subseteq TaskId
  BY DEF KernelOK, SchedOK, Raised
<1>2. HeldOK(d, rb, R)
  <2>1. /\ HeldOK(k.tcb, rb, R)
        /\ \A t \in TaskId \ R : d[t].lastres = RESID_NULL
    BY DEF ProtocolOK, HeldOK
  <2>2. \A t \in R : t \in R /\ d[t].curpri = k.tcb[t].curpri
                     /\ d[t].lastres = k.tcb[t].lastres
    BY <1>1
  <2> HIDE DEF R
  <2>3. QED
    BY <1>1, <2>1, <2>2, HeldKept
<1>3. StackOK(k.sched, d, R)
  <2>1. StackOK(k.sched, k.tcb, R)
    BY DEF ProtocolOK
  <2> HIDE DEF R
  <2>2. QED
    BY <1>1, <2>1, SameQueues
<1>4. QED
  BY <1>2, <1>3 DEF ProtocolOK

(* What the scheduler's data say does not depend on the other tasks. *)
LEMMA OthersFrame ==
  ASSUME NEW s \in Sched, NEW a, NEW b, NEW t, SchedOK(s, a), t \notin Accounted(s),
         \A u \in TaskId \ {t} : b[u].curpri = a[u].curpri
  PROVE  SchedOK(s, b)
<1>1. QueuesExact(s, b)
  <2>1. ASSUME NEW p \in Priority, NEW i \in 1 .. Len(s.queue[p])
        PROVE  b[s.queue[p][i]].curpri = a[s.queue[p][i]].curpri
    <3>1. s.queue[p] \in Seq(TaskId)
      BY DEF Sched
    <3>2. s.queue[p][i] \in TaskId
      BY <3>1
    <3>3. s.queue[p][i] # t
      BY <3>2 DEF Accounted, Placed
    <3>4. QED
      BY <3>2, <3>3
  <2>2. QED
    BY <2>1 DEF SchedOK, QueuesExact
<1>2. s.schedtsk # TSKID_NULL => b[s.schedtsk].curpri = a[s.schedtsk].curpri
  BY DEF Sched, Accounted
<1>3. QED
  BY <1>1, <1>2 DEF SchedOK

(* make_active puts a task on the stack's side, not on it. *)
LEMMA ActivatedProtocol ==
  ASSUME NEW k \in [sched : Sched, tcb : [TaskId -> Tcb]], NEW t \in TaskId,
         NEW x, x # t, NEW rb,
         SchedOK(k.sched, k.tcb), t \notin Accounted(k.sched),
         NEW R, R = Raised(k.tcb, x) \ {t}, R \subseteq Accounted(k.sched),
         HeldOK(k.tcb, rb, R), StackOK(k.sched, k.tcb, R),
         Levels(k.tcb, R, Accounted(k.sched)),
         \A u \in TaskId \ {t, x} :
           k.tcb[u].tstat = "WAITING" => k.tcb[u].pc = "dispatcher_r_exepri"
  PROVE  ProtocolOK(make_active(k, t), rb, x)
<1> DEFINE c    == [k.tcb[t] EXCEPT
                 !.tstat = "RUNNABLE", !.curpri = tinib_inipri[t],
                 !.curevt = {}, !.waievt = {}, !.lastres = RESID_NULL,
                 !.pc = "activate_r"]
           tcb1 == [k.tcb EXCEPT ![t] = c]
           s1   == make_runnable(k.sched, tcb1, t)
<1>1. make_active(k, t) = [sched |-> s1, tcb |-> tcb1]
  BY DEF make_active
<1>2. /\ c.tstat = "RUNNABLE" /\ c.curpri = tinib_inipri[t]
      /\ c.lastres = RESID_NULL /\ c.pc = "activate_r"
  BY DEF Tcb
<1> HIDE DEF c
<1>3. tcb1[t] = c /\ \A u \in TaskId \ {t} : tcb1[u] = k.tcb[u]
  OBVIOUS
<1> HIDE DEF tcb1
<1>4. Raised(tcb1, x) = R
  BY <1>2, <1>3 DEF Raised
<1>5. R \subseteq TaskId \ {t} /\ k.sched.schedtsk \notin Placed(k.sched)
  BY DEF Raised, SchedOK
<1>6. SchedOK(k.sched, tcb1)
  BY <1>3, OthersFrame
<1>7. StackOK(k.sched, tcb1, R)
  <2>1. \A w \in R \ {k.sched.schedtsk} : w \in R /\ tcb1[w].curpri = k.tcb[w].curpri
    BY <1>3, <1>5
  <2>2. QED
    BY <1>5, <2>1, SameQueues
<1>8. Levels(tcb1, R, Accounted(k.sched))
  <2>1. Accounted(k.sched) \subseteq TaskId \ {t}
    BY DEF Accounted, Placed, Sched
  <2>2. tinib_inipri[t] \in Nat
    BY Constants
  <2>3. QED
    BY <1>2, <1>3, <1>5, <2>1, <2>2 DEF Levels
<1>9. StackOK(s1, tcb1, R)
  BY <1>2, <1>3, <1>6, <1>7, <1>8, MakeRunnableStack
<1>10. HeldOK(tcb1, rb, R)
  <2>1. \A u \in R : u \in R /\ tcb1[u].curpri = k.tcb[u].curpri
                     /\ tcb1[u].lastres = k.tcb[u].lastres
    BY <1>3, <1>5
  <2>2. \A u \in TaskId \ R : tcb1[u].lastres = RESID_NULL
    BY <1>2, <1>3 DEF HeldOK
  <2>3. QED
    BY <1>5, <2>1, <2>2, HeldKept
<1>11. \A u \in TaskId \ {x} :
         tcb1[u].tstat = "WAITING" => tcb1[u].pc = "dispatcher_r_exepri"
  BY <1>2, <1>3
<1> HIDE DEF s1
<1>12. QED
  BY <1>1, <1>4, <1>9, <1>10, <1>11 DEF ProtocolOK

LEMMA DormantProtocol ==
  ASSUME NEW k, NEW x, NEW rb, KernelOK(k, x), ProtocolOK(k, rb, x),
         NEW t \in TaskId, k.tcb[t].tstat = "DORMANT", x # t
  PROVE  ProtocolOK(make_active(k, t), rb, x)
<1> DEFINE R == Raised(k.tcb, x)
<1>1. /\ k \in [sched : Sched, tcb : [TaskId -> Tcb]]
      /\ SchedOK(k.sched, k.tcb) /\ t \notin Accounted(k.sched)
  BY DEF KernelOK, RunnableIn
<1>2. R = R \ {t} /\ HeldOK(k.tcb, rb, R) /\ StackOK(k.sched, k.tcb, R)
  BY DEF ProtocolOK, Raised
<1>3. R \subseteq Accounted(k.sched) /\ Levels(k.tcb, R, Accounted(k.sched))
  BY LevelsHold
<1>4. \A u \in TaskId \ {t, x} :
         k.tcb[u].tstat = "WAITING" => k.tcb[u].pc = "dispatcher_r_exepri"
  BY DEF ProtocolOK
<1>5. QED
  BY <1>1, <1>2, <1>3, <1>4, ActivatedProtocol

LEMMA CountedProtocol ==
  ASSUME NEW k, NEW x, NEW rb, KernelOK(k, x), ProtocolOK(k, rb, x),
         NEW t \in TaskId
  PROVE  ProtocolOK(Counted(k, t), rb, x)
<1> DEFINE d == [k.tcb EXCEPT ![t].actcnt = @ + 1]
<1>1. k \in [sched : Sched, tcb : [TaskId -> Tcb]]
  BY DEF KernelOK
<1>2. Counted(k, t) = [sched |-> k.sched, tcb |-> d]
  BY <1>1 DEF Counted
<1>3. \A u \in TaskId : /\ d[u].tstat = k.tcb[u].tstat /\ d[u].pc = k.tcb[u].pc
                        /\ d[u].curpri = k.tcb[u].curpri
                        /\ d[u].lastres = k.tcb[u].lastres
  BY <1>1 DEF Tcb
<1> HIDE DEF d
<1>4. Raised(d, x) = Raised(k.tcb, x)
  BY <1>3 DEF Raised
<1>5. \A u \in TaskId \ {x} : d[u].tstat = "WAITING" => d[u].pc = "dispatcher_r_exepri"
  BY <1>3 DEF ProtocolOK
<1>6. QED
  BY <1>2, <1>3, <1>4, <1>5, SameRaised

LEMMA EventsSetProtocol ==
  ASSUME NEW x, NEW rb, KernelOK(K, x), ProtocolOK(K, rb, x), NEW t \in TaskId,
         NEW mask
  PROVE  ProtocolOK([K EXCEPT !.tcb = EventsSet(t, mask)], rb, x)
<1> DEFINE d == EventsSet(t, mask)
<1>1. tcb \in [TaskId -> Tcb]
  BY DEF KernelOK, K
<1>2. [K EXCEPT !.tcb = d] = [sched |-> K.sched, tcb |-> d]
  BY DEF K
<1>3. \A u \in TaskId : /\ d[u].tstat = K.tcb[u].tstat /\ d[u].pc = K.tcb[u].pc
                        /\ d[u].curpri = K.tcb[u].curpri
                        /\ d[u].lastres = K.tcb[u].lastres
  BY <1>1 DEF Tcb, EventsSet, K
<1> HIDE DEF d
<1>4. Raised(d, x) = Raised(K.tcb, x)
  BY <1>3 DEF Raised
<1>5. \A u \in TaskId \ {x} : d[u].tstat = "WAITING" => d[u].pc = "dispatcher_r_exepri"
  BY <1>3 DEF ProtocolOK
<1>6. QED
  <2>1. ProtocolOK([sched |-> K.sched, tcb |-> d], rb, x)
    BY <1>3, <1>4, <1>5, SameRaised
  <2>2. QED
    BY <1>2, <2>1 DEF d

(* A woken task is on the side too: it waited at its initial priority. *)
LEMMA WokenProtocol ==
  ASSUME NEW x, NEW rb, KernelOK(K, x), ProtocolOK(K, rb, x), NEW t \in TaskId,
         NEW mask, Wakes(t, mask), x # t
  PROVE  ProtocolOK(Woken(t, mask), rb, x)
<1> DEFINE c    == [tcb[t] EXCEPT !.curevt = @ \cup mask, !.waievt = {},
                                  !.tstat = "RUNNABLE"]
           d    == [tcb EXCEPT ![t] = c]
           s1   == make_runnable(sched, d, t)
           R    == Raised(tcb, x)
           A    == Accounted(sched)
<1>1. /\ tcb \in [TaskId -> Tcb] /\ tcb[t] \in Tcb /\ sched \in Sched
      /\ TaskOK(tcb[t], t) /\ SchedOK(sched, tcb) /\ A = RunnableIn(tcb)
      /\ K.sched = sched /\ K.tcb = tcb
  BY DEF KernelOK, K
<1>2. /\ tcb[t].tstat = "WAITING" /\ tcb[t].curpri = tinib_inipri[t]
      /\ tcb[t].pc = "dispatcher_r_exepri"
  BY <1>1 DEF TaskOK, Wakes, ProtocolOK
<1>3. /\ c.tstat = "RUNNABLE" /\ c.curpri = tinib_inipri[t] /\ c.pc = tcb[t].pc
      /\ c.lastres = tcb[t].lastres
  BY <1>1, <1>2 DEF Tcb
<1>4. Woken(t, mask) = [sched |-> s1, tcb |-> d]
  BY DEF Woken
<1> HIDE DEF c
<1>5. d[t] = c /\ \A u \in TaskId \ {t} : d[u] = tcb[u]
  BY <1>1
<1> HIDE DEF d
<1>6. Raised(d, x) = R /\ t \notin R /\ R \subseteq TaskId
  BY <1>2, <1>3, <1>5 DEF Raised
<1>7. t \notin A
  BY <1>1, <1>2 DEF RunnableIn
<1>8. \A u \in TaskId : d[u].curpri = tcb[u].curpri /\ d[u].lastres = tcb[u].lastres
  BY <1>2, <1>3, <1>5
<1>9. R \subseteq A /\ Levels(tcb, R, A) /\ StackOK(sched, tcb, R) /\ HeldOK(tcb, rb, R)
  BY <1>1, LevelsHold DEF ProtocolOK
<1> HIDE DEF R, A
<1>10. SchedOK(sched, d)
  BY <1>1, <1>7, <1>8, OthersFrame DEF A
<1>11. Levels(d, R, A) /\ A \subseteq TaskId
  BY <1>1, <1>6, <1>8, <1>9 DEF Levels, RunnableIn
<1>12. StackOK(sched, d, R)
  <2>1. sched.schedtsk \notin Placed(sched)
    BY <1>1 DEF SchedOK
  <2>2. \A w \in R \ {sched.schedtsk} : w \in R /\ d[w].curpri = tcb[w].curpri
    BY <1>6, <1>8
  <2>3. QED
    BY <1>1, <1>6, <1>9, <2>1, <2>2, SameQueues
<1>13. StackOK(s1, d, R)
  BY <1>1, <1>3, <1>5, <1>7, <1>9, <1>10, <1>11, <1>12, MakeRunnableStack DEF A
<1>14. HeldOK(d, rb, R)
  <2>1. \A u \in R : u \in R /\ d[u].curpri = tcb[u].curpri
                     /\ d[u].lastres = tcb[u].lastres
    BY <1>6, <1>8
  <2>2. \A u \in TaskId \ R : d[u].lastres = RESID_NULL
    BY <1>8, <1>9 DEF HeldOK
  <2>3. QED
    BY <1>6, <1>9, <2>1, <2>2, HeldKept
<1>15. \A u \in TaskId \ {x} : d[u].tstat = "WAITING" => d[u].pc = "dispatcher_r_exepri"
  BY <1>1, <1>3, <1>5 DEF ProtocolOK
<1> HIDE DEF s1
<1>16. QED
  BY <1>4, <1>6, <1>13, <1>14, <1>15 DEF ProtocolOK

-----------------------------------------------------------------------------
(* The steps that end a service.                                           *)

(* A resumed task is raised, from its initial to its execution priority    *)
(* or as it was left.                                                      *)
LEMMA ResumedProtocol ==
  ASSUME NEW k, NEW rb, KernelOK(k, TSKID_NULL), ProtocolOK(k, rb, TSKID_NULL),
         NEW y, y = k.sched.schedtsk, y \in TaskId
  PROVE  ProtocolOK([sched |-> k.sched, tcb |-> Resumed(k.tcb, y)], rb, y)
<1> DEFINE R == Raised(k.tcb, TSKID_NULL)
           d == Resumed(k.tcb, y)
<1>1. /\ k.sched \in Sched /\ y \notin Placed(k.sched)
      /\ k.tcb \in [TaskId -> Tcb] /\ k.tcb[y].tstat = "RUNNABLE"
      /\ k.tcb[y].pc \in ResumeAt
  <2>1. k.tcb \in [TaskId -> Tcb] /\ y # TSKID_NULL
    BY Constants DEF KernelOK
  <2>2. k.tcb[y].tstat = "RUNNABLE"
    BY <2>1, SchedtskRunnable
  <2>3. k.tcb[y].pc \in ResumeAt
    BY <2>1 DEF Tcb
  <2>4. QED
    BY <2>1, <2>2, <2>3 DEF KernelOK, SchedOK
<1>2. /\ \A u \in TaskId \ {y} : d[u] = k.tcb[u]
      /\ d[y].tstat = "RUNNABLE" /\ d[y].pc = k.tcb[y].pc
      /\ d[y].lastres = k.tcb[y].lastres
      /\ d[y].curpri = IF k.tcb[y].pc \in {"activate_r", "dispatcher_r_exepri"}
                       THEN tinib_exepri[y] ELSE k.tcb[y].curpri
  BY <1>1 DEF Resumed, Tcb
<1> HIDE DEF d
<1>3. Raised(d, y) = R \cup {y} /\ R \subseteq TaskId
  BY <1>1, <1>2, Constants DEF Raised
<1>4. y \notin R <=> k.tcb[y].pc \in {"activate_r", "dispatcher_r_exepri"}
  BY <1>1, Constants DEF Raised, ResumeAt
<1>5. HeldOK(k.tcb, rb, R) /\ StackOK(k.sched, k.tcb, R)
      /\ \A u \in TaskId \ {y} :
           d[u].tstat = "WAITING" => d[u].pc = "dispatcher_r_exepri"
  BY <1>2, Constants DEF ProtocolOK
<1> HIDE DEF R
<1>6. StackOK(k.sched, d, R \cup {y})
  <2>1. \A w \in (R \cup {y}) \ {k.sched.schedtsk} :
          w \in R /\ d[w].curpri = k.tcb[w].curpri
    BY <1>2, <1>3
  <2>2. QED
    BY <1>1, <1>3, <1>5, <2>1, SameQueues
<1>7. HeldOK(d, rb, R \cup {y})
  <2>1. ASSUME NEW t \in R \cup {y}
        PROVE  \/ t \in R /\ d[t].curpri = k.tcb[t].curpri
                          /\ d[t].lastres = k.tcb[t].lastres
               \/ d[t].lastres = RESID_NULL /\ d[t].curpri = tinib_exepri[t]
    <3>1. CASE t = y /\ y \notin R
      <4>1. k.tcb[y].lastres = RESID_NULL
        BY <1>5, <3>1 DEF HeldOK
      <4>2. QED
        BY <1>2, <1>4, <3>1, <4>1
    <3>2. CASE t \in R /\ t # y
      BY <1>2, <1>3, <3>2
    <3>3. CASE t = y /\ y \in R
      BY <1>2, <1>4, <3>3
    <3>4. QED
      BY <3>1, <3>2, <3>3
  <2>2. \A t \in TaskId \ (R \cup {y}) : d[t].lastres = RESID_NULL
    BY <1>2, <1>5 DEF HeldOK
  <2>3. QED
    BY <1>3, <1>5, <2>1, <2>2, HeldKept
<1>8. QED
  BY <1>3, <1>5, <1>6, <1>7 DEF ProtocolOK, d

LEMMA StartProtocol ==
  ASSUME NEW k, KernelOK(k, TSKID_NULL), ProtocolOK(k, rescb', TSKID_NULL),
         start_dispatch(k)
  PROVE  PInv'
<1>1. k.sched = sched' /\ runtsk' = k.sched.schedtsk
      /\ k \in [sched : Sched, tcb : [TaskId -> Tcb]]
  BY DEF start_dispatch, KernelOK
<1>2. CASE tcb' = k.tcb /\ cpu' \in {"idle", "pre"}
  <2>1. K' = k /\ Running' = TSKID_NULL
    BY <1>1, <1>2 DEF K, Running
  <2>2. QED
    BY <2>1 DEF PInv
<1>3. CASE /\ k.sched.schedtsk # TSKID_NULL
           /\ dispatch_task(k.tcb, k.sched.schedtsk)
  <2>1. k.sched.schedtsk \in TaskId
    BY <1>1, <1>3 DEF Sched
  <2>2. cpu' = "body" /\ tcb' = Resumed(k.tcb, k.sched.schedtsk)
    BY <1>3 DEF dispatch_task
  <2>3. /\ K' = [sched |-> k.sched, tcb |-> Resumed(k.tcb, k.sched.schedtsk)]
        /\ Running' = k.sched.schedtsk
    BY <1>1, <2>2 DEF K, Running
  <2>4. ProtocolOK([sched |-> k.sched, tcb |-> Resumed(k.tcb, k.sched.schedtsk)],
                   rescb', k.sched.schedtsk)
    BY <2>1, ResumedProtocol
  <2>5. QED
    BY <2>3, <2>4 DEF PInv
<1>4. QED
  BY <1>2, <1>3 DEF start_dispatch

LEMMA ExitProtocol ==
  ASSUME NEW k, KernelOK(k, TSKID_NULL), ProtocolOK(k, rescb', TSKID_NULL),
         exit_and_dispatch(k)
  PROVE  PInv'
<1>1. CASE cpu' = "post" /\ sched' = k.sched /\ tcb' = k.tcb
  <2>1. k \in [sched : Sched, tcb : [TaskId -> Tcb]]
    BY DEF KernelOK
  <2>2. K' = k /\ Running' = TSKID_NULL
    BY <1>1, <2>1 DEF K, Running
  <2>3. QED
    BY <2>2 DEF PInv
<1>2. CASE start_dispatch(k)
  BY <1>2, StartProtocol
<1>3. QED
  BY <1>1, <1>2 DEF exit_and_dispatch

(* A task that is preempted stays raised. *)
LEMMA DispatchProtocol ==
  ASSUME NEW k, runtsk \in TaskId, KernelOK(k, runtsk),
         k.tcb[runtsk].tstat = "RUNNABLE",
         ProtocolOK(k, rescb', runtsk),
         NEW pc \in {"dispatcher_r", "ret_int_r"}, dispatch(k, pc)
  PROVE  PInv'
<1> DEFINE c  == [k.tcb[runtsk] EXCEPT !.pc = pc]
           d  == [k.tcb EXCEPT ![runtsk] = c]
           k1 == [k EXCEPT !.tcb[runtsk].pc = pc]
<1>1. k \in [sched : Sched, tcb : [TaskId -> Tcb]] /\ k.tcb[runtsk] \in Tcb
  BY DEF KernelOK
<1>2. /\ c.tstat = "RUNNABLE" /\ c.curpri = k.tcb[runtsk].curpri
      /\ c.lastres = k.tcb[runtsk].lastres /\ c.pc = pc
  BY <1>1 DEF Tcb
<1>3. k1 = [sched |-> k.sched, tcb |-> d]
  BY <1>1
<1>4. KernelOK(k1, TSKID_NULL)
  BY SavedPc DEF ResumeAt
<1>5. exit_and_dispatch(k1)
  BY DEF dispatch
<1> HIDE DEF c, k1
<1>6. d[runtsk] = c /\ \A u \in TaskId \ {runtsk} : d[u] = k.tcb[u]
  BY <1>1
<1> HIDE DEF d
<1>7. Raised(d, TSKID_NULL) = Raised(k.tcb, runtsk)
  BY <1>2, <1>6, Constants DEF Raised
<1>8. \A u \in TaskId : /\ d[u].curpri = k.tcb[u].curpri
                        /\ d[u].lastres = k.tcb[u].lastres
  BY <1>2, <1>6
<1>9. \A u \in TaskId \ {TSKID_NULL} :
        d[u].tstat = "WAITING" => d[u].pc = "dispatcher_r_exepri"
  BY <1>2, <1>6 DEF ProtocolOK
<1>10. ProtocolOK(k1, rescb', TSKID_NULL)
  BY <1>3, <1>7, <1>8, <1>9, SameRaised
<1>11. QED
  BY <1>4, <1>5, <1>10, ExitProtocol

LEMMA ReturnProtocol ==
  ASSUME NEW k, KernelOK(k, Running), ProtocolOK(k, rescb', Running), Return(k)
  PROVE  PInv'
<1>1. k \in [sched : Sched, tcb : [TaskId -> Tcb]]
  BY DEF KernelOK
<1>2. K' = k /\ Running' = Running
  BY <1>1 DEF Return, K, Running
<1>3. QED
  BY <1>2 DEF PInv

(* What a service of the running task finds. *)
LEMMA ProtocolAtTask ==
  ASSUME IInv, PInv, TaskLevel
  PROVE  /\ ProtocolOK(K, rescb, runtsk) /\ KernelOK(K, runtsk)
         /\ runtsk \in TaskId /\ tcb[runtsk].tstat = "RUNNABLE"
         /\ K.sched = sched /\ K.tcb = tcb /\ Running = runtsk
         /\ runtsk \in Raised(tcb, runtsk) /\ sched.schedtsk = runtsk
         /\ tcb \in [TaskId -> Tcb] /\ tcb[runtsk] \in Tcb
BY AtTaskLevel DEF PInv, K, Raised, TypeOK

-----------------------------------------------------------------------------
(* Task management. *)

LEMMA ActivateTaskProtocol ==
  ASSUME IInv, PInv, NEW t \in TaskId, ActivateTask(t)
  PROVE  PInv'
<1>1. TaskLevel /\ rescb' = rescb
  BY DEF ActivateTask
<1>2. /\ ProtocolOK(K, rescb', runtsk) /\ KernelOK(K, runtsk)
      /\ runtsk \in TaskId /\ tcb[runtsk].tstat = "RUNNABLE"
      /\ K.tcb = tcb /\ Running = runtsk
  BY <1>1, ProtocolAtTask
<1> DEFINE k == make_active(K, t)
<1>3. ASSUME tcb[t].tstat = "DORMANT"
      PROVE  /\ KernelOK(k, runtsk) /\ k.tcb[runtsk].tstat = "RUNNABLE"
             /\ ProtocolOK(k, rescb', runtsk)
  <2>1. t # runtsk
    BY <1>2, <1>3
  <2>2. QED
    BY <1>2, <1>3, <2>1, ActivateDormant, DormantProtocol
<1> HIDE DEF k
<1>4. CASE tcb[t].tstat = "DORMANT" /\ dispatch(k, "dispatcher_r")
  BY <1>2, <1>3, <1>4, DispatchProtocol
<1>5. CASE tcb[t].tstat = "DORMANT" /\ Return(k)
  BY <1>2, <1>3, <1>5, ReturnProtocol
<1>6. CASE tcb[t].tstat # "DORMANT" /\ Return(Counted(K, t))
  BY <1>2, <1>6, CountedOK, CountedProtocol, ReturnProtocol
<1>7. QED
  BY <1>4, <1>5, <1>6 DEF ActivateTask, k

(* The running task, which holds nothing, has left the queue. *)
LEMMA LeftProtocol ==
  ASSUME IInv, PInv, TaskLevel, NoResource,
         NEW d \in [TaskId -> Tcb], \A u \in TaskId \ {runtsk} : d[u] = tcb[u],
         d[runtsk].lastres = RESID_NULL,
         NEW R, R = Raised(d, TSKID_NULL) \ {runtsk}
  PROVE  LET s1 == search_schedtsk(sched)
         IN  /\ s1 \in Sched /\ SchedOK(s1, d) /\ runtsk \notin Accounted(s1)
             /\ R \subseteq Accounted(s1)
             /\ HeldOK(d, rescb, R) /\ StackOK(s1, d, R)
             /\ Levels(d, R, Accounted(s1))
             /\ \A u \in TaskId \ {runtsk} :
                  d[u].tstat = "WAITING" => d[u].pc = "dispatcher_r_exepri"
<1> DEFINE s1 == search_schedtsk(sched)
           Q  == Raised(tcb, runtsk)
<1>1. /\ ProtocolOK(K, rescb, runtsk) /\ KernelOK(K, runtsk)
      /\ runtsk \in TaskId /\ K.sched = sched /\ K.tcb = tcb
      /\ sched.schedtsk = runtsk
  BY ProtocolAtTask
<1>2. /\ HeldOK(tcb, rescb, Q) /\ StackOK(sched, tcb, Q)
      /\ Levels(tcb, Q, Accounted(sched)) /\ Q \subseteq TaskId
      /\ sched \in Sched /\ SchedOK(sched, tcb) /\ Accounted(sched) = RunnableIn(tcb)
  BY <1>1, LevelsHold DEF ProtocolOK, KernelOK
<1>3. \A u \in TaskId \ {runtsk} :
        d[u].tstat = "WAITING" => d[u].pc = "dispatcher_r_exepri"
  BY <1>1 DEF ProtocolOK
<1>4. R = Q \ {runtsk} /\ R \subseteq TaskId /\ runtsk \notin R
  BY Constants DEF Raised
<1> HIDE DEF Q
<1>5. HeldOK(d, rescb, R)
  <2>1. \A u \in R : u \in Q /\ d[u].curpri = tcb[u].curpri
                     /\ d[u].lastres = tcb[u].lastres
    BY <1>4
  <2>2. \A u \in TaskId \ R : d[u].lastres = RESID_NULL
    BY <1>2, <1>4 DEF HeldOK
  <2>3. QED
    BY <1>2, <1>4, <2>1, <2>2, HeldKept
<1>6. /\ s1 \in Sched /\ SchedOK(s1, d)
      /\ Accounted(s1) = RunnableIn(tcb) \ {runtsk}
  <2>1. \A u \in TaskId : u # K.sched.schedtsk => d[u].curpri = K.tcb[u].curpri
    BY <1>1
  <2>2. QED
    BY <1>1, <2>1, Leave
<1>7. /\ QueuesExact(sched, d) /\ NextpriHighest(sched)
      /\ Placed(sched) = Accounted(sched) \ {runtsk}
  <2>1. \A u \in TaskId : u # sched.schedtsk => d[u].curpri = tcb[u].curpri
    BY <1>1
  <2>2. QED
    BY <1>1, <1>2, <2>1, SchedFrame, Constants DEF SchedOK, Accounted
<1>8. R \subseteq Placed(sched)
  <2>1. Q \subseteq Accounted(sched)
    BY <1>1, LevelsHold DEF Q
  <2>2. QED
    BY <1>4, <1>7, <2>1
<1>9. /\ Levels(d, R, Placed(sched)) /\ Apart(d, R) /\ FirstIn(sched, R)
  <2>1. \A u \in TaskId : d[u].curpri \in Nat
    BY DEF Tcb
  <2>2. /\ \A w \in R : tinib_inipri[w] <= d[w].curpri
        /\ \A y \in Placed(sched) \ R : d[y].curpri = tinib_inipri[y]
    BY <1>2, <1>4, <1>7 DEF Levels, RunnableIn
  <2>3. Apart(d, R)
    BY <1>2, <1>4 DEF StackOK, Apart
  <2>4. FirstIn(sched, R)
    BY <1>2, <1>4 DEF StackOK, FirstIn
  <2>5. QED
    BY <2>1, <2>2, <2>3, <2>4 DEF Levels
<1>10. StackOK(s1, d, R)
  BY <1>2, <1>7, <1>8, <1>9, SearchStack
<1>11. /\ Accounted(s1) = Placed(sched) /\ runtsk \notin Accounted(s1)
  BY <1>2, <1>6, <1>7
<1> HIDE DEF s1
<1>12. QED
  BY <1>3, <1>5, <1>6, <1>8, <1>9, <1>10, <1>11 DEF s1

LEMMA StartsAgainProtocol ==
  ASSUME IInv, PInv, TaskLevel, NoResource,
         NEW d \in [TaskId -> Tcb], \A u \in TaskId \ {runtsk} : d[u] = tcb[u],
         d[runtsk].lastres = RESID_NULL
  PROVE  ProtocolOK(make_active([sched |-> search_schedtsk(sched), tcb |-> d], runtsk),
                    rescb, TSKID_NULL)
<1> DEFINE s1 == search_schedtsk(sched)
           k  == [sched |-> s1, tcb |-> d]
           R  == Raised(d, TSKID_NULL) \ {runtsk}
<1>1. /\ s1 \in Sched /\ SchedOK(s1, d) /\ runtsk \notin Accounted(s1)
      /\ R \subseteq Accounted(s1)
      /\ HeldOK(d, rescb, R) /\ StackOK(s1, d, R) /\ Levels(d, R, Accounted(s1))
      /\ \A u \in TaskId \ {runtsk} :
           d[u].tstat = "WAITING" => d[u].pc = "dispatcher_r_exepri"
  BY LeftProtocol
<1>2. runtsk \in TaskId /\ TSKID_NULL # runtsk
  BY ProtocolAtTask, Constants
<1> HIDE DEF s1
<1>3. k \in [sched : Sched, tcb : [TaskId -> Tcb]] /\ k.sched = s1 /\ k.tcb = d
  BY <1>1
<1> HIDE DEF k
<1>4. R = Raised(k.tcb, TSKID_NULL) \ {runtsk}
  BY <1>3
<1> HIDE DEF R
<1>5. ProtocolOK(make_active(k, runtsk), rescb, TSKID_NULL)
  BY <1>1, <1>2, <1>3, <1>4, ActivatedProtocol
<1>6. QED
  BY <1>5 DEF k, s1

(* Terminated: the dormant task's data, as they are or activated again. *)
LEMMA TerminatedIs ==
  ASSUME IInv, TaskLevel
  PROVE  \E d \in [TaskId -> Tcb] :
           /\ \A u \in TaskId \ {runtsk} : d[u] = tcb[u]
           /\ d[runtsk].tstat = "DORMANT" /\ d[runtsk].lastres = tcb[runtsk].lastres
           /\ LET k == [sched |-> search_schedtsk(sched), tcb |-> d]
              IN  Terminated \in {k, make_active(k, runtsk)}
<1> DEFINE c    == [tcb[runtsk] EXCEPT !.tstat = "DORMANT"]
           tcb0 == [tcb EXCEPT ![runtsk] = c]
           s1   == search_schedtsk(sched)
           k    == [sched |-> s1, tcb |-> tcb0]
           c1   == [c EXCEPT !.actcnt = @ - 1]
           tcb1 == [tcb EXCEPT ![runtsk] = c1]
<1>1. /\ runtsk \in TaskId /\ tcb \in [TaskId -> Tcb] /\ tcb[runtsk] \in Tcb
  BY AtTaskLevel DEF TypeOK
<1>2. /\ c \in Tcb /\ c.tstat = "DORMANT" /\ c.actcnt = tcb[runtsk].actcnt
      /\ c.actcnt \in Nat /\ c.lastres = tcb[runtsk].lastres
  BY <1>1 DEF Tcb, TaskState
<1>3. /\ c1.lastres = tcb[runtsk].lastres /\ c1.tstat = "DORMANT"
      /\ c.actcnt > 0 => c1 \in Tcb
  <2>1. c.actcnt > 0 => c.actcnt - 1 \in Nat
    BY <1>2
  <2> HIDE DEF c
  <2>2. QED
    BY <1>2, <2>1 DEF Tcb
<1>4. Terminated = IF tcb[runtsk].actcnt > 0
                   THEN make_active([sched |-> s1, tcb |-> tcb1], runtsk)
                   ELSE k
  <2>1. [k EXCEPT !.tcb[runtsk].actcnt = @ - 1] = [sched |-> s1, tcb |-> tcb1]
    BY <1>1
  <2>2. QED
    BY <2>1 DEF Terminated
<1> HIDE DEF c, c1
<1>5. tcb0 \in [TaskId -> Tcb] /\ tcb0[runtsk] = c
      /\ \A u \in TaskId \ {runtsk} : tcb0[u] = tcb[u]
  BY <1>1, <1>2
<1>6. /\ tcb1[runtsk] = c1 /\ \A u \in TaskId \ {runtsk} : tcb1[u] = tcb[u]
      /\ c.actcnt > 0 => tcb1 \in [TaskId -> Tcb]
  BY <1>1, <1>3
<1> HIDE DEF tcb0, tcb1, s1
<1>7. CASE tcb[runtsk].actcnt > 0
  BY <1>2, <1>3, <1>4, <1>6, <1>7 DEF s1
<1>8. CASE ~ (tcb[runtsk].actcnt > 0)
  BY <1>2, <1>4, <1>5, <1>8 DEF s1
<1>9. QED
  BY <1>7, <1>8

LEMMA TerminatedProtocol ==
  ASSUME IInv, PInv, TaskLevel, NoResource
  PROVE  ProtocolOK(Terminated, rescb, TSKID_NULL)
<1> DEFINE s1   == search_schedtsk(sched)
           k(d) == [sched |-> s1, tcb |-> d]
<1>1. PICK d \in [TaskId -> Tcb] :
        /\ \A u \in TaskId \ {runtsk} : d[u] = tcb[u]
        /\ d[runtsk].tstat = "DORMANT" /\ d[runtsk].lastres = RESID_NULL
        /\ Terminated \in {k(d), make_active(k(d), runtsk)}
  BY TerminatedIs DEF NoResource
<1>2. CASE Terminated = make_active(k(d), runtsk)
  BY <1>1, <1>2, StartsAgainProtocol
<1>3. CASE Terminated = k(d)
  <2> DEFINE R == Raised(d, TSKID_NULL) \ {runtsk}
  <2>1. /\ HeldOK(d, rescb, R) /\ StackOK(s1, d, R)
        /\ \A u \in TaskId \ {runtsk} :
             d[u].tstat = "WAITING" => d[u].pc = "dispatcher_r_exepri"
    BY <1>1, LeftProtocol
  <2>2. R = Raised(d, TSKID_NULL)
    BY <1>1 DEF Raised
  <2> HIDE DEF R, s1
  <2>3. ProtocolOK(k(d), rescb, TSKID_NULL)
    BY <1>1, <2>1, <2>2 DEF ProtocolOK
  <2>4. QED
    BY <1>3, <2>3
<1>4. QED
  BY <1>1, <1>2, <1>3

LEMMA TerminateTaskProtocol ==
  ASSUME IInv, PInv, TerminateTask
  PROVE  PInv'
BY TerminatedOK, TerminatedProtocol, ExitProtocol DEF TerminateTask

LEMMA ChainTaskProtocol ==
  ASSUME IInv, PInv, NEW t \in TaskId, ChainTask(t)
  PROVE  PInv'
<1>1. TaskLevel /\ NoResource /\ rescb' = rescb
  BY DEF ChainTask
<1>2. /\ KernelOK(Terminated, TSKID_NULL)
      /\ ProtocolOK(Terminated, rescb', TSKID_NULL)
      /\ \A u \in TaskId \ {runtsk} : Terminated.tcb[u] = tcb[u]
      /\ TSKID_NULL # t
  BY <1>1, TerminatedOK, TerminatedProtocol, Constants
<1>3. CASE /\ t = runtsk
           /\ exit_and_dispatch(
                make_active([K EXCEPT !.sched = search_schedtsk(sched)], t))
  <2> DEFINE s1 == search_schedtsk(sched)
  <2>1. [K EXCEPT !.sched = s1] = [sched |-> s1, tcb |-> tcb]
    BY DEF K
  <2>2. tcb \in [TaskId -> Tcb] /\ tcb[runtsk].lastres = RESID_NULL
    BY <1>1, ProtocolAtTask DEF NoResource
  <2>3. KernelOK(make_active([sched |-> s1, tcb |-> tcb], runtsk), TSKID_NULL)
    BY <1>1, <2>2, StartsAgain
  <2>4. ProtocolOK(make_active([sched |-> s1, tcb |-> tcb], runtsk), rescb', TSKID_NULL)
    BY <1>1, <2>2, StartsAgainProtocol
  <2>5. QED
    BY <1>3, <2>1, <2>3, <2>4, ExitProtocol
<1>4. CASE /\ t # runtsk /\ tcb[t].tstat = "DORMANT"
           /\ exit_and_dispatch(make_active(Terminated, t))
  <2>1. Terminated.tcb[t].tstat = "DORMANT"
    BY <1>2, <1>4
  <2>2. /\ KernelOK(make_active(Terminated, t), TSKID_NULL)
        /\ ProtocolOK(make_active(Terminated, t), rescb', TSKID_NULL)
    BY <1>2, <2>1, ActivateDormant, DormantProtocol
  <2>3. QED
    BY <1>4, <2>2, ExitProtocol
<1>5. CASE /\ t # runtsk /\ tcb[t].tstat # "DORMANT"
           /\ exit_and_dispatch(Counted(Terminated, t))
  <2>1. Terminated.tcb[t].tstat # "DORMANT"
    BY <1>2, <1>5
  <2>2. /\ KernelOK(Counted(Terminated, t), TSKID_NULL)
        /\ ProtocolOK(Counted(Terminated, t), rescb', TSKID_NULL)
    BY <1>2, <2>1, CountedOK, CountedProtocol
  <2>3. QED
    BY <1>5, <2>2, ExitProtocol
<1>6. QED
  BY <1>3, <1>4, <1>5 DEF ChainTask

-----------------------------------------------------------------------------
(* Priorities and events.                                                  *)

(* The running task, with a new priority below nextpri, is queued again:   *)
(* raised or not.                                                          *)
LEMMA YieldStack ==
  ASSUME IInv, PInv, TaskLevel,
         NEW d \in [TaskId -> Tcb], \A u \in TaskId \ {runtsk} : d[u] = tcb[u],
         d[runtsk].curpri < sched.nextpri,
         tinib_inipri[runtsk] <= d[runtsk].curpri,
         NEW R, Raised(tcb, runtsk) \ {runtsk} \subseteq R,
         R \subseteq Raised(tcb, runtsk),
         runtsk \notin R => d[runtsk].curpri = tinib_inipri[runtsk]
  PROVE  StackOK(preempt(sched, d), d, R)
<1> DEFINE Q == Raised(tcb, runtsk)
           A == Accounted(sched)
<1>1. /\ ProtocolOK(K, rescb, runtsk) /\ KernelOK(K, runtsk)
      /\ runtsk \in TaskId /\ K.sched = sched /\ K.tcb = tcb
      /\ sched.schedtsk = runtsk
  BY ProtocolAtTask
<1>2. /\ StackOK(sched, tcb, Q) /\ Levels(tcb, Q, A) /\ Q \subseteq TaskId
      /\ Q \subseteq A /\ sched \in Sched /\ SchedOK(sched, tcb)
  BY <1>1, LevelsHold DEF ProtocolOK, KernelOK
<1>3. A = Placed(sched) \cup {sched.schedtsk} /\ sched.schedtsk \notin Placed(sched)
  BY <1>1, <1>2, Constants DEF Accounted, SchedOK
<1>4. QueuesExact(sched, d) /\ NextpriHighest(sched)
  <2>1. \A u \in TaskId : u # sched.schedtsk => d[u].curpri = tcb[u].curpri
    BY <1>1
  <2>2. QED
    BY <1>2, <2>1, SchedFrame DEF SchedOK
<1>5. A \subseteq TaskId
  BY <1>1, <1>3 DEF Placed
<1> HIDE DEF Q, A
<1>6. StackOK(sched, d, R)
  <2>1. R \subseteq TaskId
    BY <1>2 DEF Q
  <2>2. \A w \in R \ {sched.schedtsk} : w \in Q /\ d[w].curpri = tcb[w].curpri
    BY <1>1, <2>1 DEF Q
  <2>3. QED
    BY <1>2, <1>3, <2>1, <2>2, SameQueues
<1>7. Levels(d, R, A)
  <2>1. \A t \in TaskId : d[t].curpri \in Nat
    BY DEF Tcb
  <2>2. ASSUME NEW w \in R PROVE tinib_inipri[w] <= d[w].curpri
    BY <1>2 DEF Levels, Q
  <2>3. ASSUME NEW y \in A \ R PROVE d[y].curpri = tinib_inipri[y]
    <3>1. CASE y = runtsk
      BY <2>3, <3>1
    <3>2. CASE y # runtsk
      BY <1>2, <1>5, <2>3, <3>2 DEF Levels, Q
    <3>3. QED
      BY <3>1, <3>2
  <2>4. QED
    BY <2>1, <2>2, <2>3 DEF Levels
<1>8. R \subseteq A
  BY <1>2 DEF Q
<1>9. QED
  BY <1>1, <1>2, <1>3, <1>4, <1>6, <1>7, <1>8, PreemptStack

(* A task that leaves the stack at its initial priority. *)
LEMMA OffStack ==
  ASSUME IInv, PInv, TaskLevel, rescb' = rescb,
         NEW k \in [sched : Sched, tcb : [TaskId -> Tcb]], KernelOK(k, runtsk),
         k.tcb[runtsk].curpri = tinib_inipri[runtsk],
         k.tcb[runtsk].lastres = RESID_NULL,
         \A u \in TaskId \ {runtsk} : k.tcb[u] = tcb[u],
         StackOK(k.sched, k.tcb, Raised(tcb, runtsk) \ {runtsk}),
         dispatch(k, "dispatcher_r_exepri")
  PROVE  PInv'
<1> DEFINE c  == [k.tcb[runtsk] EXCEPT !.pc = "dispatcher_r_exepri"]
           d  == [k.tcb EXCEPT ![runtsk] = c]
           k1 == [k EXCEPT !.tcb[runtsk].pc = "dispatcher_r_exepri"]
           R  == Raised(tcb, runtsk) \ {runtsk}
<1>1. /\ ProtocolOK(K, rescb, runtsk) /\ K.tcb = tcb /\ runtsk \in TaskId
      /\ k.tcb[runtsk] \in Tcb /\ R \subseteq TaskId
      /\ k.sched \in Sched /\ k.sched.schedtsk \notin Placed(k.sched)
  BY ProtocolAtTask DEF Raised, KernelOK, SchedOK
<1>2. /\ c.curpri = k.tcb[runtsk].curpri /\ c.pc = "dispatcher_r_exepri"
      /\ c.lastres = RESID_NULL
  BY <1>1 DEF Tcb
<1>3. k1 = [sched |-> k.sched, tcb |-> d]
  OBVIOUS
<1>4. KernelOK(k1, TSKID_NULL)
  BY <1>1, SavedPc DEF ResumeAt
<1>5. exit_and_dispatch(k1)
  BY DEF dispatch
<1> HIDE DEF c, k1
<1>6. d[runtsk] = c /\ \A u \in TaskId \ {runtsk} : d[u] = tcb[u]
  BY <1>1
<1> HIDE DEF d
<1>7. Raised(d, TSKID_NULL) = R
  BY <1>2, <1>6, Constants DEF Raised
<1> HIDE DEF R
<1>8. HeldOK(d, rescb, R)
  <2>1. HeldOK(tcb, rescb, Raised(tcb, runtsk))
    BY <1>1 DEF ProtocolOK
  <2>2. \A t \in R : /\ t \in Raised(tcb, runtsk) /\ d[t].curpri = tcb[t].curpri
                     /\ d[t].lastres = tcb[t].lastres
    BY <1>1, <1>6 DEF R
  <2>3. \A t \in TaskId \ R : d[t].lastres = RESID_NULL
    BY <1>2, <1>6, <2>1 DEF HeldOK, R
  <2>4. QED
    BY <1>1, <2>1, <2>2, <2>3, HeldKept
<1>9. StackOK(k.sched, d, R)
  <2>1. \A w \in R \ {k.sched.schedtsk} : w \in R /\ d[w].curpri = k.tcb[w].curpri
    BY <1>1, <1>6 DEF R
  <2>2. StackOK(k.sched, k.tcb, R)
    BY DEF R
  <2>3. QED
    BY <1>1, <2>1, <2>2, SameQueues
<1>10. \A u \in TaskId \ {TSKID_NULL} :
         d[u].tstat = "WAITING" => d[u].pc = "dispatcher_r_exepri"
  BY <1>1, <1>2, <1>6 DEF ProtocolOK
<1>11. ProtocolOK(k1, rescb', TSKID_NULL)
  BY <1>3, <1>7, <1>8, <1>9, <1>10 DEF ProtocolOK
<1>12. QED
  BY <1>4, <1>5, <1>11, ExitProtocol

LEMMA ScheduleProtocol ==
  ASSUME IInv, PInv, Schedule
  PROVE  PInv'
<1> DEFINE pri  == tinib_inipri[runtsk]
           tcb1 == [tcb EXCEPT ![runtsk].curpri = pri]
           tcb2 == [tcb EXCEPT ![runtsk] = [@ EXCEPT !.curpri = pri,
                                                     !.lastres = RESID_NULL]]
           k    == [sched |-> preempt(sched, tcb1), tcb |-> tcb1]
<1>1. /\ TaskLevel /\ rescb' = rescb /\ pri < sched.nextpri
      /\ tcb[runtsk].lastres = RESID_NULL /\ dispatch(k, "dispatcher_r_exepri")
  BY DEF Schedule, NoResource
<1>2. /\ runtsk \in TaskId /\ tcb[runtsk] \in Tcb /\ tcb \in [TaskId -> Tcb]
  BY <1>1, ProtocolAtTask
<1>3. pri \in Nat /\ (LowIsr => \A u \in WindowTask : tinib_inipri[u] <= pri)
  BY <1>2, Constants DEF LowIsr
<1>4. tcb1 = tcb2
  <2>1. [tcb[runtsk] EXCEPT !.curpri = pri]
          = [tcb[runtsk] EXCEPT !.curpri = pri, !.lastres = RESID_NULL]
    BY <1>1, <1>2 DEF Tcb
  <2>2. QED
    BY <2>1
<1>5. /\ tcb2[runtsk].lastres = RESID_NULL
      /\ \A u \in TaskId \ {runtsk} : tcb2[u] = tcb[u]
  BY <1>2 DEF Tcb
<1> HIDE DEF pri
<1>6. KernelOK([sched |-> preempt(sched, tcb2), tcb |-> tcb2], runtsk)
      /\ tcb2[runtsk].curpri = pri
  <2>1. TaskLevel /\ RESID_NULL \in ResourceId \cup {RESID_NULL} /\ pri < sched.nextpri
    BY <1>1
  <2>2. QED
    BY <1>3, <2>1, Reprioritised, Zenon
<1> HIDE DEF tcb1, tcb2
<1>11. tcb2 \in [TaskId -> Tcb]
  BY <1>6 DEF KernelOK
<1>7. StackOK(preempt(sched, tcb2), tcb2, Raised(tcb, runtsk) \ {runtsk})
  <2>1. pri <= pri
    BY <1>3
  <2>2. QED
    BY <1>1, <1>5, <1>6, <1>11, <2>1, YieldStack DEF pri
<1>8. KernelOK(k, runtsk) /\ k.sched = preempt(sched, tcb2) /\ k.tcb = tcb2
  BY <1>4, <1>6
<1>9. k \in [sched : Sched, tcb : [TaskId -> Tcb]]
  BY <1>8 DEF KernelOK
<1> HIDE DEF k
<1>10. QED
  BY <1>1, <1>5, <1>6, <1>7, <1>8, <1>9, OffStack DEF pri

LEMMA GetResourceProtocol ==
  ASSUME IInv, PInv, NEW r \in ResourceId, GetResource(r)
  PROVE  PInv'
<1> DEFINE R    == Raised(tcb, runtsk)
           pri  == IF resinib_ceilpri[r] > tcb[runtsk].curpri
                   THEN resinib_ceilpri[r] ELSE tcb[runtsk].curpri
           c    == [tcb[runtsk] EXCEPT !.lastres = r, !.curpri = pri]
           d    == [tcb EXCEPT ![runtsk] = c]
<1>1. /\ TaskLevel /\ tcb' = d /\ UNCHANGED <<sched, runtsk, cpu>>
      /\ tinib_inipri[runtsk] <= resinib_ceilpri[r] /\ rescb[r].prevpri = TPRI_NULL
      /\ rescb' = [rescb EXCEPT ![r] = [prevpri |-> tcb[runtsk].curpri,
                                        prevres |-> tcb[runtsk].lastres]]
  BY DEF GetResource
<1>2. /\ ProtocolOK(K, rescb, runtsk) /\ KernelOK(K, runtsk) /\ K.sched = sched
      /\ K.tcb = tcb /\ Running = runtsk /\ runtsk \in R
      /\ sched.schedtsk = runtsk /\ runtsk \in TaskId
      /\ tcb[runtsk].tstat = "RUNNABLE"
      /\ tcb[runtsk] \in Tcb /\ tcb \in [TaskId -> Tcb]
  BY <1>1, ProtocolAtTask
<1>3. rescb \in [ResourceId -> Rescb] /\ cpu = "body"
  BY <1>1, AtTaskLevel
<1>4. /\ c.lastres = r /\ c.curpri = pri /\ c.tstat = tcb[runtsk].tstat
      /\ c.pc = tcb[runtsk].pc /\ tcb[runtsk].curpri \in Nat
  BY <1>2 DEF Tcb
<1> HIDE DEF pri, c
<1>5. d[runtsk] = c /\ \A u \in TaskId \ {runtsk} : d[u] = tcb[u]
  BY <1>2
<1> HIDE DEF d
<1>6. Raised(d, runtsk) = R /\ R \in SUBSET TaskId
  BY <1>2, <1>4, <1>5 DEF Raised
<1> HIDE DEF R
<1>7. HeldOK(d, rescb', R)
  <2>1. HeldOK(tcb, rescb, R)
    BY <1>2 DEF ProtocolOK, R
  <2>2. d[runtsk].curpri = pri /\ d[runtsk].lastres = r
    BY <1>4, <1>5
  <2>3. pri = IF resinib_ceilpri[r] > tcb[runtsk].curpri
              THEN resinib_ceilpri[r] ELSE tcb[runtsk].curpri
    BY DEF pri
  <2>4. /\ rescb'[r].prevpri = tcb[runtsk].curpri
        /\ rescb'[r].prevres = tcb[runtsk].lastres
        /\ \A q \in ResourceId \ {r} : rescb'[q] = rescb[q]
    BY <1>1, <1>3
  <2>5. tinib_inipri[runtsk] <= resinib_ceilpri[r] /\ rescb[r].prevpri = TPRI_NULL
    BY <1>1
  <2>6. QED
    BY ONLY <1>2, <1>3, <1>4, <1>5, <1>6, <2>1, <2>2, <2>3, <2>4, <2>5, r \in ResourceId,
       HeldTaken
<1>8. StackOK(sched, d, R)
  <2>1. sched \in Sched /\ sched.schedtsk \notin Placed(sched) /\ StackOK(sched, tcb, R)
    BY <1>2 DEF KernelOK, SchedOK, ProtocolOK, R
  <2>2. \A w \in R \ {sched.schedtsk} : w \in R /\ d[w].curpri = tcb[w].curpri
    BY <1>2, <1>5, <1>6
  <2>3. QED
    BY <1>6, <2>1, <2>2, SameQueues
<1>9. \A u \in TaskId \ {runtsk} :
        d[u].tstat = "WAITING" => d[u].pc = "dispatcher_r_exepri"
  BY <1>2, <1>5 DEF ProtocolOK
<1>10. K' = [sched |-> sched, tcb |-> d] /\ Running' = runtsk
  BY <1>1, <1>3 DEF K, Running
<1>11. ProtocolOK([sched |-> sched, tcb |-> d], rescb', runtsk)
  BY <1>6, <1>7, <1>8, <1>9 DEF ProtocolOK
<1>12. QED
  BY <1>10, <1>11 DEF PInv

LEMMA ReleaseResourceProtocol ==
  ASSUME IInv, PInv, NEW r \in ResourceId, ReleaseResource(r)
  PROVE  PInv'
<1> DEFINE R    == Raised(tcb, runtsk)
           pri  == rescb[r].prevpri
           res  == rescb[r].prevres
           c    == [tcb[runtsk] EXCEPT !.curpri = pri, !.lastres = res]
           d    == [tcb EXCEPT ![runtsk] = c]
           s1   == preempt(sched, d)
<1>1. /\ TaskLevel /\ tcb[runtsk].lastres = r
      /\ rescb' = [rescb EXCEPT ![r].prevpri = TPRI_NULL]
      /\ \/ pri < sched.nextpri
            /\ dispatch([sched |-> s1, tcb |-> d], "dispatcher_r")
         \/ pri >= sched.nextpri /\ Return([K EXCEPT !.tcb = d])
  BY DEF ReleaseResource
<1>2. /\ ProtocolOK(K, rescb, runtsk) /\ KernelOK(K, runtsk) /\ K.sched = sched
      /\ K.tcb = tcb /\ Running = runtsk /\ runtsk \in R
      /\ sched.schedtsk = runtsk /\ runtsk \in TaskId
      /\ tcb[runtsk].tstat = "RUNNABLE"
      /\ tcb[runtsk] \in Tcb /\ tcb \in [TaskId -> Tcb]
  BY <1>1, ProtocolAtTask
<1>3. rescb \in [ResourceId -> Rescb] /\ Restores(rescb) /\ TypeOK
  BY <1>1, AtTaskLevel
<1>4. /\ pri \in Nat /\ res \in ResourceId \cup {RESID_NULL}
      /\ (LowIsr => \A u \in WindowTask : tinib_inipri[u] <= pri)
      /\ sched.nextpri \in Nat /\ sched \in Sched
  BY <1>3, TaskCount DEF Rescb, Restores, TypeOK, Sched, Priority, TPRI_MINTASK
<1>5. /\ c.lastres = res /\ c.curpri = pri /\ c.tstat = tcb[runtsk].tstat
      /\ c.pc = tcb[runtsk].pc
  BY <1>2 DEF Tcb
<1> HIDE DEF pri, res
<1>6. /\ d[runtsk].tstat = "RUNNABLE"
      /\ sched.nextpri <= pri => KernelOK([sched |-> sched, tcb |-> d], runtsk)
      /\ pri < sched.nextpri => KernelOK([sched |-> s1, tcb |-> d], runtsk)
  <2>1. TaskLevel
    BY <1>1
  <2>2. /\ pri \in Nat /\ res \in ResourceId \cup {RESID_NULL}
        /\ (LowIsr => \A u \in WindowTask : tinib_inipri[u] <= pri)
    BY <1>4
  <2>3. QED
    BY <2>1, <2>2, Reprioritised, Zenon
<1> HIDE DEF c
<1>7. d[runtsk] = c /\ \A u \in TaskId \ {runtsk} : d[u] = tcb[u]
  BY <1>2
<1> HIDE DEF d, s1
<1>8. Raised(d, runtsk) = R /\ R \in SUBSET TaskId
  BY <1>2, <1>5, <1>7 DEF Raised
<1>9. HeldOK(tcb, rescb, R) /\ StackOK(sched, tcb, R)
  BY <1>2 DEF ProtocolOK
<1> HIDE DEF R
<1>10. /\ HeldOK(d, rescb', R)
       /\ Top(pri, runtsk, HeldFrom(rescb[r].prevres, rescb))
  <2>1. d[runtsk].curpri = rescb[r].prevpri /\ d[runtsk].lastres = rescb[r].prevres
    BY <1>5, <1>7 DEF pri, res
  <2>3. /\ \A q \in ResourceId : rescb'[q].prevres = rescb[q].prevres
        /\ \A q \in ResourceId \ {r} : rescb'[q].prevpri = rescb[q].prevpri
        /\ tcb[runtsk].lastres = r
    BY <1>1, <1>3 DEF Rescb
  <2>2. HeldOK(d, rescb', R)
        /\ Top(rescb[r].prevpri, runtsk, HeldFrom(rescb[r].prevres, rescb))
    BY <1>2, <1>3, <1>7, <1>8, <1>9, <2>1, <2>3, HeldGiven
  <2>4. QED
    BY <2>2 DEF pri
<1>11. tinib_inipri[runtsk] <= pri
  <2>1. tinib_exepri[runtsk] <= pri
    BY <1>10 DEF Top
  <2>2. /\ tinib_inipri[runtsk] \in Nat /\ tinib_exepri[runtsk] \in Nat
        /\ tinib_inipri[runtsk] <= tinib_exepri[runtsk]
    BY <1>2, Constants
  <2>3. QED
    BY <1>4, <2>1, <2>2
<1>12. \A u \in TaskId \ {runtsk} :
         d[u].tstat = "WAITING" => d[u].pc = "dispatcher_r_exepri"
  BY <1>2, <1>7 DEF ProtocolOK
<1>13. CASE pri < sched.nextpri /\ dispatch([sched |-> s1, tcb |-> d], "dispatcher_r")
  <2> DEFINE k == [sched |-> s1, tcb |-> d]
  <2>1. StackOK(s1, d, R)
    <3>1. d[runtsk].curpri < sched.nextpri /\ tinib_inipri[runtsk] <= d[runtsk].curpri
      BY <1>5, <1>7, <1>11, <1>13
    <3>2. /\ Raised(tcb, runtsk) \ {runtsk} \subseteq R
          /\ R \subseteq Raised(tcb, runtsk) /\ runtsk \in R
      BY <1>2 DEF R
    <3>3. d \in [TaskId -> Tcb]
      BY <1>6, <1>13 DEF KernelOK
    <3>4. QED
      BY <1>1, <1>7, <3>1, <3>2, <3>3, YieldStack DEF s1
  <2>2. ProtocolOK(k, rescb', runtsk)
    BY <1>8, <1>10, <1>12, <2>1 DEF ProtocolOK
  <2>3. KernelOK(k, runtsk) /\ k.tcb[runtsk].tstat = "RUNNABLE"
    BY <1>6, <1>13
  <2> HIDE DEF k
  <2>4. QED
    BY <1>2, <1>13, <2>2, <2>3, DispatchProtocol DEF k
<1>14. CASE pri >= sched.nextpri /\ Return([K EXCEPT !.tcb = d])
  <2> DEFINE k == [sched |-> sched, tcb |-> d]
  <2>1. [K EXCEPT !.tcb = d] = k
    BY DEF K
  <2>2. StackOK(sched, d, R)
    <3>1. sched.schedtsk \notin Placed(sched)
      BY <1>2 DEF KernelOK, SchedOK
    <3>2. \A w \in R \ {sched.schedtsk} : w \in R /\ d[w].curpri = tcb[w].curpri
      BY <1>2, <1>7, <1>8
    <3>3. QED
      BY <1>4, <1>8, <1>9, <3>1, <3>2, SameQueues
  <2>3. ProtocolOK(k, rescb', runtsk)
    BY <1>8, <1>10, <1>12, <2>2 DEF ProtocolOK
  <2>4. KernelOK(k, runtsk)
    BY <1>4, <1>6, <1>14
  <2> HIDE DEF k
  <2>5. QED
    BY <1>2, <1>14, <2>1, <2>3, <2>4, ReturnProtocol
<1>15. QED
  BY <1>1, <1>13, <1>14

LEMMA SetEventProtocol ==
  ASSUME IInv, PInv, NEW t \in ExtTaskId, NEW mask \in EventMask, SetEvent(t, mask)
  PROVE  PInv'
<1>1. TaskLevel /\ rescb' = rescb /\ t \in TaskId /\ tcb[t].tstat # "DORMANT"
  BY TaskCount DEF SetEvent, ExtTaskId, TaskId
<1>2. /\ ProtocolOK(K, rescb', runtsk) /\ KernelOK(K, runtsk)
      /\ runtsk \in TaskId /\ tcb[runtsk].tstat = "RUNNABLE" /\ Running = runtsk
  BY <1>1, ProtocolAtTask
<1>3. ASSUME Wakes(t, mask)
      PROVE  /\ KernelOK(Woken(t, mask), runtsk)
             /\ Woken(t, mask).tcb[runtsk].tstat = "RUNNABLE"
             /\ ProtocolOK(Woken(t, mask), rescb', runtsk)
  <2>1. KernelOK(Woken(t, mask), runtsk) /\ tcb[t].tstat = "WAITING"
        /\ \A u \in TaskId \ {t} : Woken(t, mask).tcb[u] = tcb[u]
    BY <1>1, <1>2, <1>3, WokenOK
  <2>2. runtsk # t
    BY <1>2, <2>1
  <2>3. QED
    BY <1>1, <1>2, <1>3, <2>1, <2>2, WokenProtocol
<1>4. CASE Wakes(t, mask) /\ dispatch(Woken(t, mask), "dispatcher_r")
  BY <1>2, <1>3, <1>4, DispatchProtocol
<1>5. CASE Wakes(t, mask) /\ Return(Woken(t, mask))
  BY <1>2, <1>3, <1>5, ReturnProtocol
<1>6. CASE ~ Wakes(t, mask) /\ Return([K EXCEPT !.tcb = EventsSet(t, mask)])
  <2> DEFINE k == [K EXCEPT !.tcb = EventsSet(t, mask)]
  <2>1. KernelOK(k, runtsk)
    BY <1>1, <1>2, <1>6, EventsSetOK
  <2>2. ProtocolOK(k, rescb', runtsk)
    BY <1>1, <1>2, EventsSetProtocol
  <2> HIDE DEF k
  <2>3. QED
    BY <1>2, <1>6, <2>1, <2>2, ReturnProtocol DEF k
<1>7. QED
  BY <1>4, <1>5, <1>6 DEF SetEvent

LEMMA ClearEventProtocol ==
  ASSUME IInv, PInv, NEW mask \in EventMask, ClearEvent(mask)
  PROVE  PInv'
<1> DEFINE c == [tcb[runtsk] EXCEPT !.curevt = @ \ mask]
           d == [tcb EXCEPT ![runtsk] = c]
           k == [sched |-> sched, tcb |-> d]
<1>1. /\ TaskLevel /\ rescb' = rescb
      /\ Return([K EXCEPT !.tcb[runtsk].curevt = @ \ mask])
  BY DEF ClearEvent
<1>2. /\ ProtocolOK(K, rescb', runtsk) /\ KernelOK(K, runtsk)
      /\ runtsk \in TaskId /\ Running = runtsk /\ K.sched = sched /\ K.tcb = tcb
      /\ tcb[runtsk] \in Tcb /\ tcb \in [TaskId -> Tcb] /\ cpu = "body"
  BY <1>1, ProtocolAtTask, AtTaskLevel
<1>3. [K EXCEPT !.tcb[runtsk].curevt = @ \ mask] = k
  BY DEF K
<1>4. /\ c.tstat = tcb[runtsk].tstat /\ c.pc = tcb[runtsk].pc
      /\ c.curpri = tcb[runtsk].curpri /\ c.lastres = tcb[runtsk].lastres
  BY <1>2 DEF Tcb
<1> HIDE DEF c
<1>5. d[runtsk] = c /\ \A u \in TaskId \ {runtsk} : d[u] = tcb[u]
  BY <1>2
<1> HIDE DEF d
<1>6. \A u \in TaskId : /\ d[u].tstat = tcb[u].tstat /\ d[u].pc = tcb[u].pc
                        /\ d[u].curpri = tcb[u].curpri /\ d[u].lastres = tcb[u].lastres
  BY <1>4, <1>5
<1>7. Raised(d, runtsk) = Raised(tcb, runtsk)
  BY <1>6 DEF Raised
<1>8. \A u \in TaskId \ {runtsk} :
        d[u].tstat = "WAITING" => d[u].pc = "dispatcher_r_exepri"
  BY <1>2, <1>6 DEF ProtocolOK
<1>9. ProtocolOK(k, rescb', runtsk)
  BY <1>2, <1>6, <1>7, <1>8, SameRaised
<1>10. sched' = sched /\ tcb' = d /\ runtsk' = runtsk /\ cpu' = cpu
  BY <1>1, <1>3 DEF Return
<1>11. K' = k /\ Running' = runtsk
  BY <1>2, <1>10 DEF K, Running
<1>12. QED
  BY <1>9, <1>11 DEF PInv

LEMMA WaitEventProtocol ==
  ASSUME IInv, PInv, NEW mask \in EventMask \ {{}}, WaitEvent(mask)
  PROVE  PInv'
<1> DEFINE c  == [tcb[runtsk] EXCEPT !.curpri = tinib_inipri[runtsk],
                    !.tstat = "WAITING", !.waievt = mask]
           d  == [tcb EXCEPT ![runtsk] = c]
           s1 == search_schedtsk(sched)
           k  == Waiting(mask)
           R  == Raised(tcb, runtsk) \ {runtsk}
<1>1. /\ TaskLevel /\ NoResource /\ rescb' = rescb
      /\ tcb[runtsk].curevt \cap mask = {}
      /\ dispatch(k, "dispatcher_r_exepri")
  BY DEF WaitEvent, Waiting
<1>2. /\ runtsk \in TaskId /\ tcb[runtsk] \in Tcb /\ tcb \in [TaskId -> Tcb]
      /\ tcb[runtsk].lastres = RESID_NULL
  BY <1>1, ProtocolAtTask DEF NoResource
<1>3. KernelOK(k, runtsk) /\ k.tcb[runtsk].curpri = tinib_inipri[runtsk]
  BY <1>1, WaitingOK
<1>4. k.sched = s1 /\ k.tcb = d
  BY DEF Waiting
<1>5. c.lastres = RESID_NULL /\ c.tstat = "WAITING"
  BY <1>2 DEF Tcb
<1> HIDE DEF c, k
<1>6. d[runtsk] = c /\ \A u \in TaskId \ {runtsk} : d[u] = tcb[u]
  BY <1>2
<1>7. k \in [sched : Sched, tcb : [TaskId -> Tcb]] /\ d \in [TaskId -> Tcb]
  BY <1>3, <1>4 DEF KernelOK
<1> HIDE DEF d
<1>8. R = Raised(d, TSKID_NULL) \ {runtsk}
  BY <1>2, <1>6, Constants DEF Raised
<1> HIDE DEF R, s1
<1>9. StackOK(s1, d, R)
  BY <1>1, <1>5, <1>6, <1>7, <1>8, LeftProtocol DEF s1
<1>10. QED
  BY <1>1, <1>3, <1>4, <1>5, <1>6, <1>7, <1>9, OffStack DEF R

-----------------------------------------------------------------------------
(* Hooks, suspended interrupts, handlers, the idle loop and the start.     *)

(* The kernel's data and the running task stay as they are. *)
LEMMA SameProtocol ==
  ASSUME PInv, UNCHANGED <<sched, tcb, rescb>>, Running' = Running
  PROVE  PInv'
BY DEF PInv, K

LEMMA PreTaskHookReturnProtocol ==
  ASSUME IInv, PInv, PreTaskHookReturn
  PROVE  PInv'
<1>1. /\ cpu = "pre" /\ isr = <<>> /\ cpu' = "body" /\ tcb' = Resumed(tcb, runtsk)
      /\ UNCHANGED <<sched, runtsk, rescb>>
  BY DEF PreTaskHookReturn, dispatch_task
<1>2. /\ KernelOK(K, TSKID_NULL) /\ ProtocolOK(K, rescb, TSKID_NULL)
      /\ K.sched = sched /\ K.tcb = tcb
      /\ runtsk \in TaskId /\ sched.schedtsk = runtsk
  BY <1>1 DEF IInv, PInv, Running, K, Steady
<1>3. ProtocolOK([sched |-> sched, tcb |-> Resumed(tcb, runtsk)], rescb, runtsk)
  BY <1>2, ResumedProtocol
<1>4. K' = [sched |-> sched, tcb |-> Resumed(tcb, runtsk)] /\ Running' = runtsk
  BY <1>1 DEF K, Running
<1>5. QED
  BY <1>1, <1>3, <1>4 DEF PInv

LEMMA ContextProtocol ==
  ASSUME PInv,
         \/ call_errorhook \/ ErrorHookReturn
         \/ SuspendOSInterrupts \/ ResumeOSInterrupts \/ IsrEnter
  PROVE  PInv'
<1>1. /\ UNCHANGED <<sched, runtsk, tcb, rescb>>
      /\ cpu' = cpu \/ {cpu, cpu'} \subseteq {"body", "error"}
  BY DEF call_errorhook, ErrorHookReturn, SuspendOSInterrupts, ResumeOSInterrupts,
         TaskLevel, IsrEnter
<1>2. Running' = Running
  BY <1>1 DEF Running
<1>3. QED
  BY <1>1, <1>2, SameProtocol

LEMMA IsrReturnProtocol ==
  ASSUME IInv, PInv, IsrReturn
  PROVE  PInv'
<1>1. CASE Head(isr) = "TASK" /\ dispatch(K, "ret_int_r")
  <2>1. isr # <<>> /\ isr \in Seq(CallLevel) /\ cpu # "boot" /\ rescb' = rescb
    BY DEF IsrReturn, InHandler, IInv, TypeOK, Control
  <2>2. Len(isr) \in Nat /\ Len(isr) >= 1 /\ Head(isr) = isr[1]
    BY <2>1, EmptySeq, LenProperties, HeadTailProperties
  <2>3. isr[1] = "ISR2" \/ Len(isr) = 1
    BY <2>2 DEF IInv, Control
  <2>4. Base = "TASK"
    BY <1>1, <2>1, <2>2, <2>3 DEF Base
  <2>5. cpu = "body"
    BY <2>1, <2>4 DEF IInv, Control, TypeOK, CpuAt
  <2>6. /\ runtsk \in TaskId /\ KernelOK(K, runtsk) /\ tcb[runtsk].tstat = "RUNNABLE"
        /\ ProtocolOK(K, rescb', runtsk) /\ K.tcb = tcb
    BY <2>1, <2>5 DEF IInv, PInv, Steady, Running, K
  <2>7. QED
    BY <1>1, <2>6, DispatchProtocol
<1>2. CASE UNCHANGED <<sched, runtsk, tcb, cpu>>
  <2>1. rescb' = rescb /\ Running' = Running
    BY <1>2 DEF IsrReturn, Running
  <2>2. QED
    BY <1>2, <2>1, SameProtocol
<1>3. QED
  BY <1>1, <1>2 DEF IsrReturn

LEMMA StartsProtocol ==
  ASSUME IInv, PInv, PostTaskHookReturn \/ idle_loop \/ StartOS
  PROVE  PInv'
<1>1. /\ cpu \in {"boot", "post", "idle"} /\ start_dispatch(K) /\ rescb' = rescb
  BY DEF PostTaskHookReturn, idle_loop, StartOS
<1>2. KernelOK(K, TSKID_NULL) /\ ProtocolOK(K, rescb', TSKID_NULL)
  BY <1>1 DEF IInv, PInv, Running
<1>3. QED
  BY <1>1, <1>2, StartProtocol

LEMMA TaskInitializeProtocol ==
  ASSUME IInv, PInv, task_initialize
  PROVE  PInv'
<1>1. /\ cpu = "boot" /\ initid \in TaskId /\ rescb' = rescb
      /\ Return(make_active(K, initid)) \/ Return(K)
  BY DEF task_initialize
<1>2. /\ Running = TSKID_NULL /\ KernelOK(K, Running) /\ K.tcb = tcb
      /\ ProtocolOK(K, rescb', Running)
  BY <1>1 DEF IInv, PInv, Running, K
<1>3. tcb[initid].tstat = "DORMANT" /\ TSKID_NULL # initid
  <2>1. initid \in initid .. tnum_task - 1
    BY <1>1, TaskCount DEF TaskId, TSKID_NULL
  <2>2. QED
    BY <1>1, <2>1, Constants DEF IInv, Booting
<1> DEFINE k == make_active(K, initid)
<1>4. KernelOK(k, Running) /\ ProtocolOK(k, rescb', Running)
  BY <1>1, <1>2, <1>3, ActivateDormant, DormantProtocol
<1> HIDE DEF k
<1>5. CASE Return(k)
  BY <1>4, <1>5, ReturnProtocol
<1>6. CASE Return(K)
  BY <1>2, <1>6, ReturnProtocol
<1>7. QED
  BY <1>1, <1>5, <1>6 DEF k

LEMMA IsrActivateTaskProtocol ==
  ASSUME IInv, PInv, NEW t \in TaskId, IsrActivateTask(t)
  PROVE  PInv'
<1>1. /\ rescb' = rescb /\ KernelOK(K, Running) /\ ProtocolOK(K, rescb', Running)
      /\ K.tcb = tcb
  BY DEF IsrActivateTask, IInv, PInv, K
<1> DEFINE k == make_active(K, t)
<1>2. CASE tcb[t].tstat = "DORMANT" /\ Return(k)
  <2>1. Running # t
    BY <1>2, Constants DEF IInv, Steady, Running
  <2>2. KernelOK(k, Running) /\ ProtocolOK(k, rescb', Running)
    BY <1>1, <1>2, <2>1, ActivateDormant, DormantProtocol
  <2> HIDE DEF k
  <2>3. QED
    BY <1>2, <2>2, ReturnProtocol
<1>3. CASE tcb[t].tstat # "DORMANT" /\ Return(Counted(K, t))
  BY <1>1, <1>3, CountedOK, CountedProtocol, ReturnProtocol
<1>4. QED
  BY <1>2, <1>3 DEF IsrActivateTask

LEMMA IsrSetEventProtocol ==
  ASSUME IInv, PInv, NEW t \in TaskId, NEW mask \in EventMask, IsrSetEvent(t, mask)
  PROVE  PInv'
<1>1. /\ rescb' = rescb /\ KernelOK(K, Running) /\ ProtocolOK(K, rescb', Running)
      /\ tcb[t].tstat # "DORMANT"
  BY DEF IsrSetEvent, IInv, PInv
<1>2. CASE Wakes(t, mask) /\ Return(Woken(t, mask))
  <2>1. KernelOK(Woken(t, mask), Running) /\ tcb[t].tstat = "WAITING"
    BY <1>1, <1>2, WokenOK
  <2>2. Running # t
    BY <2>1, Constants DEF IInv, Steady, Running
  <2>3. ProtocolOK(Woken(t, mask), rescb', Running)
    BY <1>1, <1>2, <2>2, WokenProtocol
  <2>4. QED
    BY <1>2, <2>1, <2>3, ReturnProtocol
<1>3. CASE ~ Wakes(t, mask) /\ Return([K EXCEPT !.tcb = EventsSet(t, mask)])
  <2> DEFINE k == [K EXCEPT !.tcb = EventsSet(t, mask)]
  <2>1. KernelOK(k, Running) /\ ProtocolOK(k, rescb', Running)
    BY <1>1, <1>3, EventsSetOK, EventsSetProtocol
  <2> HIDE DEF k
  <2>2. QED
    BY <1>3, <2>1, ReturnProtocol DEF k
<1>4. QED
  BY <1>2, <1>3 DEF IsrSetEvent

(* Before the first activation nothing is raised or held. *)
LEMMA InitProtocol == Init => PInv
<1> SUFFICES ASSUME Init PROVE PInv
  OBVIOUS
<1>1. /\ Running = TSKID_NULL /\ sched.schedtsk = TSKID_NULL
      /\ \A t \in TaskId : tcb[t].tstat = "DORMANT" /\ tcb[t].lastres = RESID_NULL
  BY DEF Init, Running, EmptySched
<1>2. Raised(tcb, TSKID_NULL) = {}
  BY <1>1 DEF Raised
<1>3. HeldOK(tcb, rescb, {})
  BY <1>1 DEF HeldOK
<1>4. StackOK(sched, tcb, {})
  BY <1>1, Constants DEF StackOK, Apart, FirstIn, Above
<1>5. \A t \in TaskId \ {TSKID_NULL} :
        tcb[t].tstat = "WAITING" => tcb[t].pc = "dispatcher_r_exepri"
  BY <1>1
<1>6. QED
  BY <1>1, <1>2, <1>3, <1>4, <1>5 DEF PInv, ProtocolOK, K

LEMMA StepProtocol == ASSUME IInv, PInv, [Next]_vars PROVE PInv'
<1>1. CASE UNCHANGED vars
  <2>1. UNCHANGED <<sched, tcb, rescb>> /\ Running' = Running
    BY <1>1 DEF vars, Running
  <2>2. QED
    BY <2>1, SameProtocol
<1>2. CASE TaskStep
  BY <1>2, ActivateTaskProtocol, ChainTaskProtocol, TerminateTaskProtocol,
     ScheduleProtocol, GetResourceProtocol, ReleaseResourceProtocol,
     SetEventProtocol, ClearEventProtocol, WaitEventProtocol, ContextProtocol
     DEF TaskStep
<1>3. CASE KernelStep
  BY <1>3, TaskInitializeProtocol, StartsProtocol, PreTaskHookReturnProtocol,
     ContextProtocol, IsrReturnProtocol DEF KernelStep
<1>4. CASE HandlerStep
  <2>1. HandlerTask \subseteq TaskId
    BY KernelConfig DEF HandlerTask
  <2>2. CASE IsrEnter
    BY <2>2, ContextProtocol
  <2>3. CASE \E t \in HandlerTask : IsrActivateTask(t)
    BY <2>1, <2>3, IsrActivateTaskProtocol
  <2>4. CASE \E t \in HandlerTask \cap ExtTaskId, mask \in EventMask \ {{}} :
               IsrSetEvent(t, mask)
    BY <2>1, <2>4, IsrSetEventProtocol
  <2>5. QED
    BY <1>4, <2>2, <2>3, <2>4 DEF HandlerStep
<1>5. QED
  BY <1>1, <1>2, <1>3, <1>4 DEF Next

(* The stack of raised tasks and the chains of held resources keep their   *)
(* order in every step.                                                    *)
THEOREM ProtocolInvariance == ASSUME NoRace PROVE Spec => [](IInv /\ PInv)
<1>1. Init => PInv
  BY InitProtocol
<1>2. IInv /\ PInv /\ [Next]_vars => PInv'
  BY StepProtocol
<1>3. Spec => []IInv
  BY Invariance
<1>4. QED
  BY <1>1, <1>2, <1>3, PTL DEF Spec

(* While a task holds a resource no other task that may take it runs.      *)
THEOREM CeilingsExclude == ASSUME NoRace PROVE Spec => []CeilingExclusion
<1>1. ASSUME IInv, PInv PROVE CeilingExclusion
  <2>1. SUFFICES ASSUME TaskLevel, NEW t \in TaskId \ {runtsk}, NEW r \in Held(t)
                 PROVE  tinib_inipri[runtsk] > resinib_ceilpri[r]
    BY DEF CeilingExclusion
  <2> DEFINE R == Raised(tcb, runtsk)
  <2>2. /\ HeldOK(tcb, rescb, R) /\ StackOK(sched, tcb, R)
        /\ runtsk \in TaskId /\ sched.schedtsk = runtsk /\ tcb \in [TaskId -> Tcb]
    BY <1>1, <2>1, ProtocolAtTask DEF ProtocolOK
  <2> HIDE DEF R
  <2>3. t \in R
    BY <2>1, <2>2, HeldNone DEF HeldOK, Held
  <2>4. resinib_ceilpri[r] <= tcb[t].curpri
    BY <2>1, <2>2, <2>3 DEF HeldOK, Top, Held
  <2>5. tcb[t].curpri < tinib_inipri[runtsk]
    BY <2>1, <2>2, <2>3 DEF StackOK, Above
  <2>6. /\ resinib_ceilpri[r] \in Nat /\ tcb[t].curpri \in Nat
        /\ tinib_inipri[runtsk] \in Nat
    <3>1. r \in ResourceId
      BY <2>1, HeldClosed DEF Held
    <3>2. tcb[t] \in Tcb
      BY <2>1, <2>2
    <3>3. QED
      BY <2>2, <3>1, <3>2, KernelConfig, Constants DEF Tcb
  <2>7. QED
    BY <2>4, <2>5, <2>6
<1>2. QED
  BY <1>1, ProtocolInvariance, PTL

(* A task that lost the processor without yielding lost it to one that     *)
(* could start above everything it had reached.                            *)
THEOREM PreemptedStaysBelow == ASSUME NoRace PROVE Spec => []PreemptedBelow
<1>1. ASSUME IInv, PInv PROVE PreemptedBelow
  <2>1. SUFFICES ASSUME TaskLevel, NEW t \in Runnable \ {runtsk},
                        tcb[t].pc \in {"dispatcher_r", "ret_int_r"}
                 PROVE  /\ tinib_exepri[t] <= tcb[t].curpri
                        /\ tcb[t].curpri < tinib_inipri[runtsk]
    BY DEF PreemptedBelow
  <2> DEFINE R == Raised(tcb, runtsk)
  <2>2. /\ HeldOK(tcb, rescb, R) /\ StackOK(sched, tcb, R)
        /\ runtsk \in TaskId /\ sched.schedtsk = runtsk
    BY <1>1, <2>1, ProtocolAtTask DEF ProtocolOK
  <2>3. t \in R
    BY <2>1 DEF Runnable, Raised
  <2> HIDE DEF R
  <2>4. QED
    BY <2>1, <2>2, <2>3 DEF HeldOK, Top, StackOK, Above
<1>2. QED
  BY <1>1, ProtocolInvariance, PTL

(* A preempted task is the first of its queue. *)
THEOREM PreemptedGoesOnFirst == ASSUME NoRace PROVE Spec => []PreemptedFirst
<1>1. ASSUME IInv, PInv PROVE PreemptedFirst
  <2>1. SUFFICES ASSUME TaskLevel, NEW t \in Runnable \ {runtsk},
                        tcb[t].pc \in {"dispatcher_r", "ret_int_r"}
                 PROVE  sched.queue[tcb[t].curpri][1] = t
    BY DEF PreemptedFirst
  <2> DEFINE R == Raised(tcb, runtsk)
  <2>2. StackOK(sched, tcb, R) /\ sched.schedtsk = runtsk
    BY <1>1, <2>1, ProtocolAtTask DEF ProtocolOK
  <2>3. t \in R
    BY <2>1 DEF Runnable, Raised
  <2> HIDE DEF R
  <2>4. t \in Placed(sched) /\ QueuesExact(sched, tcb)
    BY <1>1, <2>1, <2>2 DEF IInv, KernelOK, K, Accounted, Runnable, RunnableIn, SchedOK
  <2>5. PICK p \in Priority : \E i \in 1 .. Len(sched.queue[p]) : sched.queue[p][i] = t
    BY <2>4 DEF Placed
  <2>6. PICK i \in 1 .. Len(sched.queue[p]) : sched.queue[p][i] = t
    BY <2>5
  <2>7. tcb[t].curpri = p /\ i = 1
    BY <2>2, <2>3, <2>4, <2>6 DEF QueuesExact, StackOK, FirstIn
  <2>8. QED
    BY <2>6, <2>7
<1>2. QED
  BY <1>1, ProtocolInvariance, PTL

(* The running task's priority is the highest of its execution priority    *)
(* and the ceilings of what it holds.                                      *)
THEOREM PriorityExact == ASSUME NoRace PROVE Spec => []PriorityIsCeiling
<1>1. ASSUME IInv, PInv PROVE PriorityIsCeiling
  <2>1. SUFFICES ASSUME TaskLevel
                 PROVE  LET P == {tinib_exepri[runtsk]}
                                 \cup {resinib_ceilpri[r] : r \in Held(runtsk)}
                        IN  /\ tcb[runtsk].curpri \in P
                            /\ \A p \in P : p <= tcb[runtsk].curpri
    BY DEF PriorityIsCeiling
  <2>2. HeldOK(tcb, rescb, Raised(tcb, runtsk)) /\ runtsk \in Raised(tcb, runtsk)
    BY <1>1, <2>1, ProtocolAtTask DEF ProtocolOK
  <2>3. Top(tcb[runtsk].curpri, runtsk, Held(runtsk))
    BY <2>2 DEF HeldOK, Held
  <2>4. QED
    BY <2>3 DEF Top
<1>2. QED
  BY <1>1, ProtocolInvariance, PTL

-----------------------------------------------------------------------------
(* FIFO: what one step of the kernel makes of the order of a queue.        *)

(* No task is in s in front of one that preceded it in s0; no task was     *)
(* queued before t.                                                        *)
Kept(s0, s) == \A p \in Priority : \A a, b \in TaskId :
                 Precedes(s0, p, a, b) => ~ Ahead(s.queue[p], b, a)
Foremost(s0, t) == \A p \in Priority : \A a \in TaskId : ~ Precedes(s0, p, a, t)

FifoFrom(s0, s) == Kept(s0, s) /\ Foremost(s0, s.schedtsk)

LEMMA AheadPlaced ==
  ASSUME NEW s, NEW p \in Priority, NEW a \in TaskId, NEW b \in TaskId,
         Ahead(s.queue[p], a, b)
  PROVE  a \in Placed(s) /\ b \in Placed(s)
BY DEF Ahead, Placed

(* The later of two tasks is queued too, or was not ready.                 *)
LEMMA PrecedesPlaced ==
  ASSUME NEW s, NEW p \in Priority, NEW a \in TaskId, NEW b,
         b \in TaskId \/ b = TSKID_NULL, s.queue[p] \in Seq(TaskId),
         Precedes(s, p, a, b)
  PROVE  /\ a \in Placed(s) /\ b \in TaskId
         /\ \/ b \in Placed(s) /\ Ahead(s.queue[p], a, b)
            \/ b \notin Accounted(s)
<1>1. CASE Ahead(s.queue[p], a, b)
  <2>1. b \in TaskId
    BY <1>1 DEF Ahead
  <2>2. QED
    BY <1>1, <2>1, AheadPlaced
<1>2. CASE b \in TaskId \ Accounted(s) /\ \E i \in 1 .. Len(s.queue[p]) : s.queue[p][i] = a
  BY <1>2 DEF Placed
<1>3. QED
  BY <1>1, <1>2 DEF Precedes

LEMMA AheadFirst ==
  ASSUME NEW s \in Sched, NEW pri \in Priority, NEW t \in TaskId,
         NEW p \in Priority, NEW a, NEW b,
         Ahead(ready_insert_first(s, pri, t).queue[p], a, b)
  PROVE  a = t \/ Ahead(s.queue[p], a, b)
<1> DEFINE r == ready_insert_first(s, pri, t)
<1>1. /\ Len(r.queue[pri]) = Len(s.queue[pri]) + 1 /\ r.queue[pri][1] = t
      /\ \A i \in 2 .. Len(s.queue[pri]) + 1 : r.queue[pri][i] = s.queue[pri][i - 1]
      /\ \A q \in Priority \ {pri} : r.queue[q] = s.queue[q]
  BY FirstPlace
<1>6. Len(s.queue[pri]) \in Nat
  BY DEF Sched
<1> HIDE DEF r
<1>2. PICK i \in 1 .. Len(r.queue[p]), j \in 1 .. Len(r.queue[p]) :
        i < j /\ r.queue[p][i] = a /\ r.queue[p][j] = b
  BY DEF Ahead, r
<1>3. CASE p = pri /\ i # 1
  <2>1. /\ i - 1 \in 1 .. Len(s.queue[p]) /\ j - 1 \in 1 .. Len(s.queue[p])
        /\ i - 1 < j - 1 /\ {i, j} \subseteq 2 .. Len(s.queue[p]) + 1
    BY <1>1, <1>2, <1>3, <1>6
  <2>2. s.queue[p][i - 1] = a /\ s.queue[p][j - 1] = b
    BY <1>1, <1>2, <1>3, <2>1
  <2>3. QED
    BY <2>1, <2>2 DEF Ahead
<1>4. CASE p # pri
  BY <1>1, <1>2, <1>4 DEF Ahead
<1>5. QED
  BY <1>1, <1>2, <1>3, <1>4

LEMMA AheadLast ==
  ASSUME NEW s \in Sched, NEW pri \in Priority, NEW t \in TaskId,
         NEW p \in Priority, NEW a, NEW b, b # t,
         Ahead(ready_insert_last(s, pri, t).queue[p], a, b)
  PROVE  Ahead(s.queue[p], a, b)
<1> DEFINE r == ready_insert_last(s, pri, t)
<1>1. /\ Len(r.queue[pri]) = Len(s.queue[pri]) + 1
      /\ r.queue[pri][Len(s.queue[pri]) + 1] = t
      /\ \A i \in 1 .. Len(s.queue[pri]) : r.queue[pri][i] = s.queue[pri][i]
      /\ \A q \in Priority \ {pri} : r.queue[q] = s.queue[q]
      /\ Len(s.queue[pri]) \in Nat
  BY LastPlace DEF Sched
<1> HIDE DEF r
<1>2. PICK i \in 1 .. Len(r.queue[p]), j \in 1 .. Len(r.queue[p]) :
        i < j /\ r.queue[p][i] = a /\ r.queue[p][j] = b
  BY DEF Ahead, r
<1>3. CASE p = pri
  <2> DEFINE n == Len(s.queue[p])
  <2>1. n \in Nat /\ Len(r.queue[p]) = n + 1 /\ r.queue[p][n + 1] = t
        /\ \A k \in 1 .. n : r.queue[p][k] = s.queue[p][k]
    BY <1>1, <1>3
  <2> HIDE DEF n
  <2>2. j # n + 1
    BY <1>2, <2>1
  <2>3. i \in 1 .. n /\ j \in 1 .. n
    BY ONLY <1>2, <2>1, <2>2
  <2>4. s.queue[p][i] = a /\ s.queue[p][j] = b
    BY <1>2, <2>1, <2>3
  <2>5. QED
    BY <1>2, <2>3, <2>4 DEF Ahead, n
<1>4. CASE p # pri
  BY <1>1, <1>2, <1>4 DEF Ahead
<1>5. QED
  BY <1>3, <1>4

LEMMA AheadTaken ==
  ASSUME NEW s \in Sched, NEW c, QueuesExact(s, c), NextpriHighest(s),
         NEW p \in Priority, NEW a, NEW b,
         Ahead(search_schedtsk(s).queue[p], a, b)
  PROVE  Ahead(s.queue[p], a, b)
<1> DEFINE r == search_schedtsk(s)
           n == s.nextpri
<1>1. \/ r.queue = s.queue
      \/ /\ n \in Priority /\ Len(r.queue[n]) = Len(s.queue[n]) - 1
         /\ \A i \in 1 .. Len(r.queue[n]) : r.queue[n][i] = s.queue[n][i + 1]
         /\ \A q \in Priority \ {n} : r.queue[q] = s.queue[q]
  BY TakenPlace
<1> HIDE DEF r
<1>2. PICK i \in 1 .. Len(r.queue[p]), j \in 1 .. Len(r.queue[p]) :
        i < j /\ r.queue[p][i] = a /\ r.queue[p][j] = b
  BY DEF Ahead, r
<1>3. CASE p = n /\ r.queue # s.queue
  <2>1. Len(s.queue[p]) \in Nat
    BY DEF Sched
  <2>2. /\ i + 1 \in 1 .. Len(s.queue[p]) /\ j + 1 \in 1 .. Len(s.queue[p])
        /\ i + 1 < j + 1
    BY <1>1, <1>2, <1>3, <2>1
  <2>3. s.queue[p][i + 1] = a /\ s.queue[p][j + 1] = b
    BY <1>1, <1>2, <1>3
  <2>4. QED
    BY <2>2, <2>3 DEF Ahead
<1>4. CASE p # n \/ r.queue = s.queue
  <2>1. r.queue[p] = s.queue[p]
    BY <1>1, <1>4
  <2>2. QED
    BY <1>2, <2>1 DEF Ahead
<1>5. QED
  BY <1>3, <1>4

(* A step starts from here. *)
LEMMA FifoStart ==
  ASSUME NEW s \in Sched, NEW c, SchedOK(s, c)
  PROVE  FifoFrom(s, s)
<1>1. Kept(s, s)
  <2>1. SUFFICES ASSUME NEW p \in Priority, NEW a \in TaskId, NEW b \in TaskId,
                        Ahead(s.queue[p], a, b), Ahead(s.queue[p], b, a)
                 PROVE  FALSE
    BY AheadPlaced DEF Kept, Precedes, Accounted
  <2>2. PICK i \in 1 .. Len(s.queue[p]), j \in 1 .. Len(s.queue[p]) :
          i < j /\ s.queue[p][i] = a /\ s.queue[p][j] = b
    BY <2>1 DEF Ahead
  <2>3. PICK k \in 1 .. Len(s.queue[p]), l \in 1 .. Len(s.queue[p]) :
          k < l /\ s.queue[p][k] = b /\ s.queue[p][l] = a
    BY <2>1 DEF Ahead
  <2>4. k = j /\ l = i
    BY <2>2, <2>3 DEF SchedOK, QueuesExact
  <2>5. QED
    BY <2>2, <2>3, <2>4
<1>2. Foremost(s, s.schedtsk)
  <2>1. SUFFICES ASSUME NEW p \in Priority, NEW a \in TaskId,
                        Precedes(s, p, a, s.schedtsk)
                 PROVE  FALSE
    BY DEF Foremost
  <2>2. s.queue[p] \in Seq(TaskId) /\ s.schedtsk \in TaskId \cup {TSKID_NULL}
    BY DEF Sched
  <2>3. s.schedtsk \in TaskId
        /\ (s.schedtsk \in Placed(s) \/ s.schedtsk \notin Accounted(s))
    BY <2>1, <2>2, PrecedesPlaced
  <2>4. s.schedtsk # TSKID_NULL
    BY <2>3, Constants
  <2>5. QED
    BY <2>3, <2>4 DEF SchedOK, Accounted
<1>3. QED
  BY <1>1, <1>2 DEF FifoFrom

(* search_schedtsk, when the step has not moved a task before. *)
LEMMA FifoSearch ==
  ASSUME NEW s \in Sched, NEW c, SchedOK(s, c)
  PROVE  FifoFrom(s, search_schedtsk(s))
<1> DEFINE r == search_schedtsk(s)
<1>1. QueuesExact(s, c) /\ NextpriHighest(s)
  BY DEF SchedOK
<1>2. Kept(s, r)
  BY <1>1, AheadTaken, FifoStart DEF FifoFrom, Kept
<1>3. Foremost(s, r.schedtsk)
  <2>1. SUFFICES ASSUME NEW p \in Priority, NEW a \in TaskId,
                        Precedes(s, p, a, r.schedtsk)
                 PROVE  FALSE
    BY DEF Foremost
  <2>8. r.schedtsk \in Placed(s) \cup {TSKID_NULL}
    BY <1>1, SearchSchedtsk DEF Accounted, Sched
  <2>9. Ahead(s.queue[p], a, r.schedtsk)
    <3>1. s.queue[p] \in Seq(TaskId) /\ Placed(s) \subseteq TaskId
      BY DEF Sched, Placed
    <3> HIDE DEF r
    <3>2. r.schedtsk \in TaskId /\ (Ahead(s.queue[p], a, r.schedtsk) \/ r.schedtsk \notin Accounted(s))
      BY <2>1, <2>8, <3>1, PrecedesPlaced
    <3>3. QED
      BY <2>8, <3>2, Constants DEF Accounted
  <2>2. PICK i \in 1 .. Len(s.queue[p]), j \in 1 .. Len(s.queue[p]) :
          i < j /\ s.queue[p][j] = r.schedtsk
    BY <2>9 DEF Ahead
  <2>3. r.schedtsk \in TaskId
    <3>1. s.queue[p] \in Seq(TaskId)
      BY DEF Sched
    <3>2. QED
      BY <2>2, <3>1
  <2>4. /\ s.nextpri \in Priority /\ 1 \in 1 .. Len(s.queue[s.nextpri])
        /\ r.schedtsk = s.queue[s.nextpri][1]
    BY <1>1, <2>3, TakenPlace, Constants
  <2> HIDE DEF r
  <2>5. p = s.nextpri
    BY <2>2, <2>4 DEF SchedOK, QueuesExact
  <2>6. j = 1
    BY <2>2, <2>4, <2>5 DEF SchedOK, QueuesExact
  <2>7. QED
    BY <2>2, <2>6
<1>4. QED
  BY <1>2, <1>3 DEF FifoFrom

(* make_runnable, for a task that was not queued when the step began. *)
LEMMA FifoRunnable ==
  ASSUME NEW s0 \in Sched, NEW s \in Sched, NEW c, FifoFrom(s0, s),
         NEW t \in TaskId, t \notin Placed(s0), c[t].curpri \in Priority,
         s.schedtsk \in TaskId /\ c[s.schedtsk].curpri < c[t].curpri
           => c[s.schedtsk].curpri \in Priority
  PROVE  /\ Kept(s0, make_runnable(s, c, t))
         /\ t \in Accounted(s0) => FifoFrom(s0, make_runnable(s, c, t))
<1> DEFINE r    == make_runnable(s, c, t)
           spri == c[s.schedtsk].curpri
<1>1. /\ s.schedtsk \in TaskId \cup {TSKID_NULL}
      /\ c[t].curpri \in Nat /\ Priority \subseteq Nat
  BY TaskCount DEF Sched, Priority, TPRI_MINTASK
<1>2. t \in Accounted(s0) => Foremost(s0, t)
  BY AheadPlaced DEF Foremost, Precedes
<1>3. CASE ~ Outranks(s, c, t)
  <2> DEFINE a == ready_insert_last(s, c[t].curpri, t)
  <2>1. r.queue = a.queue /\ r.schedtsk = s.schedtsk
    BY <1>3 DEF make_runnable, ready_insert_last, Sched
  <2>2. Kept(s0, r)
    <3>1. SUFFICES ASSUME NEW p \in Priority, NEW x \in TaskId, NEW y \in TaskId,
                          Precedes(s0, p, x, y), Ahead(a.queue[p], y, x)
                   PROVE  FALSE
      BY <2>1 DEF Kept
    <3>2. x # t
      <4>1. s0.queue[p] \in Seq(TaskId)
        BY DEF Sched
      <4>2. QED
        BY <3>1, <4>1, PrecedesPlaced
    <3>3. Ahead(s.queue[p], y, x)
      BY <3>1, <3>2, AheadLast
    <3>4. QED
      BY <3>1, <3>3 DEF FifoFrom, Kept
  <2>3. QED
    BY <2>1, <2>2 DEF FifoFrom
<1>4. CASE s.schedtsk = TSKID_NULL
  <2>1. r.queue = s.queue /\ r.schedtsk = t
    BY <1>4 DEF make_runnable, Outranks, Sched
  <2>2. QED
    BY <1>2, <2>1 DEF FifoFrom, Kept
<1>5. CASE Outranks(s, c, t) /\ s.schedtsk # TSKID_NULL
  <2> DEFINE a == ready_insert_first(s, spri, s.schedtsk)
  <2>1. r.queue = a.queue /\ r.schedtsk = t
    BY <1>5 DEF make_runnable, ready_insert_first, Sched
  <2>2. s.schedtsk \in TaskId /\ c[s.schedtsk].curpri < c[t].curpri
    BY <1>1, <1>5 DEF Outranks
  <2>3. Kept(s0, r)
    <3>1. SUFFICES ASSUME NEW p \in Priority, NEW x \in TaskId, NEW y \in TaskId,
                          Precedes(s0, p, x, y), Ahead(a.queue[p], y, x)
                   PROVE  FALSE
      BY <2>1 DEF Kept
    <3>2. y = s.schedtsk \/ Ahead(s.queue[p], y, x)
      BY <2>2, <3>1, AheadFirst
    <3>3. QED
      BY <3>1, <3>2 DEF FifoFrom, Kept, Foremost
  <2>4. QED
    BY <1>2, <2>1, <2>3 DEF FifoFrom
<1>6. QED
  BY <1>3, <1>4, <1>5

(* make_active, for a task that was not queued when the step began. *)
LEMMA FifoActivated ==
  ASSUME NEW s0 \in Sched, NEW k \in [sched : Sched, tcb : [TaskId -> Tcb]],
         FifoFrom(s0, k.sched), NEW t \in TaskId, t \notin Placed(s0)
  PROVE  /\ Kept(s0, make_active(k, t).sched)
         /\ t \in Accounted(s0) => FifoFrom(s0, make_active(k, t).sched)
<1> DEFINE c    == [k.tcb[t] EXCEPT
                 !.tstat = "RUNNABLE", !.curpri = tinib_inipri[t],
                 !.curevt = {}, !.waievt = {}, !.lastres = RESID_NULL,
                 !.pc = "activate_r"]
           tcb1 == [k.tcb EXCEPT ![t] = c]
<1>1. make_active(k, t).sched = make_runnable(k.sched, tcb1, t)
  BY DEF make_active
<1>2. c.curpri = tinib_inipri[t]
  BY DEF Tcb
<1> HIDE DEF c
<1>3. tcb1[t] = c /\ \A u \in TaskId \ {t} : tcb1[u] = k.tcb[u]
  OBVIOUS
<1> HIDE DEF tcb1
<1>4. tcb1[t].curpri \in Priority /\ \A u \in TaskId : tcb1[u].curpri \in Nat
  BY <1>2, <1>3, Constants DEF Tcb
<1>5. k.sched.schedtsk \in TaskId /\ tcb1[k.sched.schedtsk].curpri < tcb1[t].curpri
        => tcb1[k.sched.schedtsk].curpri \in Priority
  BY <1>4, TaskCount DEF Priority, TPRI_MINTASK
<1>6. QED
  BY <1>1, <1>4, <1>5, FifoRunnable

(* preempt puts schedtsk back at the head and takes another task. *)
LEMMA FifoPreempt ==
  ASSUME NEW s \in Sched, NEW c, SchedOK(s, c), s.schedtsk \in TaskId,
         NEW d, \A u \in TaskId : u # s.schedtsk => d[u].curpri = c[u].curpri,
         d[s.schedtsk].curpri \in Nat, d[s.schedtsk].curpri < s.nextpri
  PROVE  Kept(s, preempt(s, d))
<1> DEFINE pri == d[s.schedtsk].curpri
           a   == ready_insert_first(s, pri, s.schedtsk)
<1>1. QueuesExact(s, d) /\ NextpriHighest(s) /\ s.schedtsk \notin Placed(s)
  BY SchedFrame DEF SchedOK
<1>2. /\ pri \in Priority /\ preempt(s, d) = search_schedtsk(a)
      /\ a \in Sched /\ QueuesExact(a, d) /\ NextpriHighest(a)
  BY <1>1, Requeued
<1>3. Kept(s, s) /\ Foremost(s, s.schedtsk)
  BY FifoStart DEF FifoFrom
<1>4. SUFFICES ASSUME NEW p \in Priority, NEW x \in TaskId, NEW y \in TaskId,
                      Precedes(s, p, x, y), Ahead(search_schedtsk(a).queue[p], y, x)
               PROVE  FALSE
  BY <1>2 DEF Kept
<1>5. Ahead(a.queue[p], y, x)
  BY <1>2, <1>4, AheadTaken
<1>6. y = s.schedtsk \/ Ahead(s.queue[p], y, x)
  BY <1>2, <1>5, AheadFirst
<1>7. QED
  BY <1>3, <1>4, <1>6 DEF Kept, Foremost

(* What the ends of the services and handlers do to the scheduler's data. *)
LEMMA GivesSched ==
  ASSUME NEW k \in [sched : Sched, tcb : [TaskId -> Tcb]],
         \/ Return(k) \/ start_dispatch(k) \/ exit_and_dispatch(k)
         \/ \E pc \in ResumeAt : dispatch(k, pc)
  PROVE  sched' = k.sched
<1>1. \A pc \in ResumeAt : [k EXCEPT !.tcb[runtsk].pc = pc].sched = k.sched
  OBVIOUS
<1>2. QED
  BY <1>1 DEF Return, dispatch, exit_and_dispatch, start_dispatch

(* Only runnable tasks are queued, and schedtsk is not. *)
LEMMA Unplaced ==
  ASSUME IInv
  PROVE  /\ \A t \in TaskId : tcb[t].tstat # "RUNNABLE" => t \notin Placed(sched)
         /\ sched.schedtsk \notin Placed(sched)
         /\ sched \in Sched /\ SchedOK(sched, tcb) /\ FifoFrom(sched, sched)
         /\ K \in [sched : Sched, tcb : [TaskId -> Tcb]]
         /\ K.sched = sched /\ K.tcb = tcb
<1>1. /\ sched \in Sched /\ SchedOK(sched, tcb) /\ Accounted(sched) = RunnableIn(tcb)
      /\ K \in [sched : Sched, tcb : [TaskId -> Tcb]]
      /\ K.sched = sched /\ K.tcb = tcb
  BY DEF IInv, KernelOK, K
<1>2. FifoFrom(sched, sched)
  BY <1>1, FifoStart
<1>3. QED
  BY <1>1, <1>2 DEF Accounted, RunnableIn, SchedOK

(* make_active, inside any service or handler. *)
LEMMA FifoDormant ==
  ASSUME IInv, NEW t \in TaskId, tcb[t].tstat = "DORMANT"
  PROVE  /\ Kept(sched, make_active(K, t).sched)
         /\ make_active(K, t) \in [sched : Sched, tcb : [TaskId -> Tcb]]
<1>1. KernelOK(make_active(K, t), Running)
  BY Unplaced, ActivateDormant DEF IInv
<1>2. QED
  BY <1>1, Unplaced, FifoActivated DEF KernelOK

LEMMA FifoWoken ==
  ASSUME IInv, NEW t \in TaskId, NEW mask \in EventMask, Wakes(t, mask)
  PROVE  /\ Kept(sched, Woken(t, mask).sched)
         /\ Woken(t, mask) \in [sched : Sched, tcb : [TaskId -> Tcb]]
<1> DEFINE c == [tcb[t] EXCEPT !.curevt = @ \cup mask, !.waievt = {},
                               !.tstat = "RUNNABLE"]
           d == [tcb EXCEPT ![t] = c]
<1>1. KernelOK(Woken(t, mask), Running) /\ tcb[t].tstat = "WAITING"
  BY WokenOK DEF IInv
<1>2. tcb \in [TaskId -> Tcb] /\ tcb[t] \in Tcb /\ tcb[t].curpri = tinib_inipri[t]
  BY <1>1 DEF IInv, KernelOK, K, TaskOK
<1>3. Woken(t, mask).sched = make_runnable(sched, d, t)
  BY DEF Woken
<1>4. c.curpri = tinib_inipri[t]
  BY <1>2 DEF Tcb
<1> HIDE DEF c
<1>5. d[t] = c /\ \A u \in TaskId \ {t} : d[u] = tcb[u]
  BY <1>2
<1> HIDE DEF d
<1>6. d[t].curpri \in Priority /\ \A u \in TaskId : d[u].curpri \in Nat
  BY <1>2, <1>4, <1>5, Constants DEF Tcb
<1>7. sched.schedtsk \in TaskId /\ d[sched.schedtsk].curpri < d[t].curpri
        => d[sched.schedtsk].curpri \in Priority
  BY <1>6, TaskCount DEF Priority, TPRI_MINTASK
<1>8. Kept(sched, make_runnable(sched, d, t))
  <2>1. t \notin Placed(sched)
    BY <1>1, Unplaced
  <2>2. QED
    BY <1>6, <1>7, <2>1, Unplaced, FifoRunnable
<1>9. QED
  BY <1>1, <1>3, <1>8 DEF KernelOK

LEMMA FifoTerminated ==
  ASSUME IInv, TaskLevel
  PROVE  FifoFrom(sched, Terminated.sched)
<1> DEFINE s1   == search_schedtsk(sched)
           k(d) == [sched |-> s1, tcb |-> d]
<1>1. /\ runtsk \in TaskId /\ runtsk \notin Placed(sched) /\ sched \in Sched
      /\ FifoFrom(sched, s1) /\ runtsk \in Accounted(sched)
  BY AtTaskLevel, Unplaced, FifoSearch, Constants DEF Accounted
<1>2. s1 \in Sched
  BY Unplaced, SearchSchedtsk DEF SchedOK
<1>3. PICK d \in [TaskId -> Tcb] : Terminated \in {k(d), make_active(k(d), runtsk)}
  BY TerminatedIs
<1> HIDE DEF s1
<1>4. k(d) \in [sched : Sched, tcb : [TaskId -> Tcb]] /\ k(d).sched = s1
  BY <1>2
<1>5. FifoFrom(sched, make_active(k(d), runtsk).sched)
  BY <1>1, <1>4, Unplaced, FifoActivated
<1>6. QED
  BY <1>1, <1>3, <1>4, <1>5

LEMMA FifoChain ==
  ASSUME IInv, NEW t \in TaskId, ChainTask(t)
  PROVE  Kept(sched, sched')
<1>1. /\ TaskLevel /\ FifoFrom(sched, Terminated.sched)
      /\ KernelOK(Terminated, TSKID_NULL)
  BY FifoTerminated, TerminatedOK DEF ChainTask
<1>2. /\ runtsk \in TaskId /\ runtsk \notin Placed(sched)
      /\ Terminated \in [sched : Sched, tcb : [TaskId -> Tcb]]
      /\ \A u \in TaskId \ {runtsk} : Terminated.tcb[u] = tcb[u]
  BY <1>1, AtTaskLevel, Unplaced, TerminatedOK DEF KernelOK
<1>3. CASE /\ t = runtsk
           /\ exit_and_dispatch(
                make_active([K EXCEPT !.sched = search_schedtsk(sched)], t))
  <2> DEFINE s1 == search_schedtsk(sched)
             k  == [sched |-> s1, tcb |-> tcb]
  <2>1. [K EXCEPT !.sched = s1] = k
    BY DEF K
  <2>2. s1 \in Sched /\ FifoFrom(sched, s1) /\ tcb \in [TaskId -> Tcb]
    BY <1>1, Unplaced, SearchSchedtsk, FifoSearch, AtTaskLevel DEF SchedOK, TypeOK
  <2>3. KernelOK(make_active(k, t), TSKID_NULL)
    BY <1>1, <1>3, <2>2, StartsAgain
  <2> HIDE DEF s1
  <2>4. k \in [sched : Sched, tcb : [TaskId -> Tcb]] /\ k.sched = s1
    BY <2>2
  <2> HIDE DEF k
  <2>5. Kept(sched, make_active(k, t).sched)
    BY <1>2, <1>3, <2>2, <2>4, Unplaced, FifoActivated
  <2>6. sched' = make_active(k, t).sched
    BY <1>3, <2>1, <2>3, GivesSched DEF KernelOK, s1
  <2>7. QED
    BY <2>5, <2>6
<1>4. CASE /\ t # runtsk /\ tcb[t].tstat = "DORMANT"
           /\ exit_and_dispatch(make_active(Terminated, t))
  <2>1. t \notin Placed(sched) /\ Terminated.tcb[t].tstat = "DORMANT"
    BY <1>2, <1>4, Unplaced
  <2>2. Kept(sched, make_active(Terminated, t).sched)
    BY <1>1, <1>2, <2>1, Unplaced, FifoActivated
  <2>3. KernelOK(make_active(Terminated, t), TSKID_NULL)
    BY <1>1, <2>1, ActivateDormant
  <2>4. sched' = make_active(Terminated, t).sched
    BY <1>4, <2>3, GivesSched DEF KernelOK
  <2>5. QED
    BY <2>2, <2>4
<1>5. CASE /\ t # runtsk /\ tcb[t].tstat # "DORMANT"
           /\ exit_and_dispatch(Counted(Terminated, t))
  <2>1. KernelOK(Counted(Terminated, t), TSKID_NULL)
        /\ Counted(Terminated, t).sched = Terminated.sched
    BY <1>1, <1>2, <1>5, CountedOK
  <2>2. sched' = Terminated.sched
    BY <1>5, <2>1, GivesSched DEF KernelOK
  <2>3. QED
    BY <1>1, <2>2 DEF FifoFrom
<1>6. QED
  BY <1>3, <1>4, <1>5 DEF ChainTask

LEMMA FifoYields ==
  ASSUME IInv, TaskLevel, NEW d \in [TaskId -> Tcb], NEW pc \in ResumeAt,
         \A u \in TaskId \ {runtsk} : d[u] = tcb[u],
         d[runtsk].curpri < sched.nextpri,
         dispatch([sched |-> preempt(sched, d), tcb |-> d], pc)
  PROVE  Kept(sched, sched')
<1>1. /\ runtsk \in TaskId /\ sched.schedtsk = runtsk /\ d[runtsk].curpri \in Nat
      /\ \A u \in TaskId : u # sched.schedtsk => d[u].curpri = tcb[u].curpri
  BY AtTaskLevel DEF Tcb
<1>2. Kept(sched, preempt(sched, d))
  BY <1>1, Unplaced, FifoPreempt
<1>3. preempt(sched, d) \in Sched
  <2>1. QueuesExact(sched, d) /\ NextpriHighest(sched) /\ runtsk \notin Placed(sched)
    BY <1>1, Unplaced, SchedFrame DEF SchedOK
  <2>2. QED
    BY <1>1, <2>1, Unplaced, Preempt
<1> DEFINE k == [sched |-> preempt(sched, d), tcb |-> d]
<1>4. k \in [sched : Sched, tcb : [TaskId -> Tcb]] /\ k.sched = preempt(sched, d)
  BY <1>3
<1> HIDE DEF k
<1>5. sched' = preempt(sched, d)
  BY <1>4, GivesSched DEF k
<1>6. QED
  BY <1>2, <1>5

LEMMA FifoPriorities ==
  ASSUME IInv,
         \/ Schedule
         \/ \E r \in ResourceId : GetResource(r) \/ ReleaseResource(r)
  PROVE  Kept(sched, sched')
<1>1. Kept(sched, sched) /\ tcb \in [TaskId -> Tcb] /\ sched \in Sched
  BY Unplaced DEF FifoFrom, IInv, TypeOK
<1>2. CASE Schedule
  <2> DEFINE c == [tcb[runtsk] EXCEPT !.curpri = tinib_inipri[runtsk]]
             d == [tcb EXCEPT ![runtsk] = c]
  <2>1. /\ TaskLevel /\ tinib_inipri[runtsk] < sched.nextpri
        /\ dispatch([sched |-> preempt(sched, d), tcb |-> d], "dispatcher_r_exepri")
    BY <1>2 DEF Schedule
  <2>2. runtsk \in TaskId /\ tcb[runtsk] \in Tcb
    BY <2>1, AtTaskLevel
  <2>3. c \in Tcb /\ c.curpri = tinib_inipri[runtsk]
    BY <2>2, Constants DEF Tcb
  <2> HIDE DEF c
  <2>4. d \in [TaskId -> Tcb] /\ d[runtsk] = c /\ \A u \in TaskId \ {runtsk} : d[u] = tcb[u]
    BY <1>1, <2>2, <2>3
  <2> HIDE DEF d
  <2>5. QED
    BY <2>1, <2>3, <2>4, FifoYields DEF ResumeAt
<1>3. ASSUME NEW r \in ResourceId, ReleaseResource(r) PROVE Kept(sched, sched')
  <2> DEFINE c == [tcb[runtsk] EXCEPT !.curpri = rescb[r].prevpri,
                                      !.lastres = rescb[r].prevres]
             d == [tcb EXCEPT ![runtsk] = c]
  <2>1. /\ TaskLevel
        /\ \/ /\ rescb[r].prevpri < sched.nextpri
              /\ dispatch([sched |-> preempt(sched, d), tcb |-> d], "dispatcher_r")
           \/ Return([K EXCEPT !.tcb = d])
    BY <1>3 DEF ReleaseResource
  <2>2. runtsk \in TaskId /\ tcb[runtsk] \in Tcb /\ rescb[r] \in Rescb
    BY <1>3, <2>1, AtTaskLevel
  <2>3. c \in Tcb /\ c.curpri = rescb[r].prevpri
    BY <2>2 DEF Tcb, Rescb
  <2> HIDE DEF c
  <2>4. d \in [TaskId -> Tcb] /\ d[runtsk] = c /\ \A u \in TaskId \ {runtsk} : d[u] = tcb[u]
    BY <1>1, <2>2, <2>3
  <2>5. [K EXCEPT !.tcb = d] = [sched |-> sched, tcb |-> d]
    BY DEF K
  <2> HIDE DEF d
  <2>6. CASE Return([K EXCEPT !.tcb = d])
    BY <1>1, <2>5, <2>6 DEF Return
  <2>7. CASE /\ rescb[r].prevpri < sched.nextpri
             /\ dispatch([sched |-> preempt(sched, d), tcb |-> d], "dispatcher_r")
    BY <2>1, <2>3, <2>4, <2>7, FifoYields DEF ResumeAt
  <2>8. QED
    BY <2>1, <2>6, <2>7
<1>4. ASSUME NEW r \in ResourceId, GetResource(r) PROVE Kept(sched, sched')
  BY <1>1, <1>4 DEF GetResource
<1>5. QED
  BY <1>2, <1>3, <1>4

LEMMA FifoManaged ==
  ASSUME IInv,
         \/ \E t \in TaskId : ActivateTask(t) \/ IsrActivateTask(t)
         \/ task_initialize \/ TerminateTask
  PROVE  Kept(sched, sched')
<1>1. /\ Kept(sched, sched) /\ K.sched = sched /\ K.tcb = tcb
      /\ K \in [sched : Sched, tcb : [TaskId -> Tcb]]
  BY Unplaced DEF FifoFrom
<1>2. ASSUME NEW t \in TaskId, tcb[t].tstat = "DORMANT",
             \/ dispatch(make_active(K, t), "dispatcher_r")
             \/ Return(make_active(K, t))
      PROVE  Kept(sched, sched')
  BY <1>2, FifoDormant, GivesSched DEF ResumeAt
<1>3. ASSUME NEW t \in TaskId, Return(Counted(K, t)) PROVE Kept(sched, sched')
  <2>1. sched' = sched
    BY <1>1, <1>3 DEF Return, Counted
  <2>2. QED
    BY <1>1, <2>1
<1>4. ASSUME NEW t \in TaskId, ActivateTask(t) \/ IsrActivateTask(t)
      PROVE  Kept(sched, sched')
  BY <1>2, <1>3, <1>4 DEF ActivateTask, IsrActivateTask
<1>5. CASE task_initialize
  <2>1. initid \in TaskId /\ tcb[initid].tstat = "DORMANT"
    <3>1. cpu = "boot" /\ initid \in TaskId
      BY <1>5 DEF task_initialize
    <3>2. initid \in initid .. tnum_task - 1
      BY <3>1, TaskCount DEF TaskId, TSKID_NULL
    <3>3. QED
      BY <3>1, <3>2 DEF IInv, Booting
  <2>2. Return(make_active(K, initid)) \/ Return(K)
    BY <1>5 DEF task_initialize
  <2>3. CASE Return(make_active(K, initid))
    BY <1>2, <2>1, <2>3
  <2>4. CASE Return(K)
    BY <1>1, <2>4 DEF Return
  <2>5. QED
    BY <2>2, <2>3, <2>4
<1>6. CASE TerminateTask
  <2>1. /\ FifoFrom(sched, Terminated.sched) /\ KernelOK(Terminated, TSKID_NULL)
        /\ exit_and_dispatch(Terminated)
    BY <1>6, FifoTerminated, TerminatedOK DEF TerminateTask
  <2>2. sched' = Terminated.sched
    BY <2>1, GivesSched DEF KernelOK
  <2>3. QED
    BY <2>1, <2>2 DEF FifoFrom
<1>7. QED
  BY <1>4, <1>5, <1>6

LEMMA FifoEvents ==
  ASSUME IInv, NEW mask \in EventMask \ {{}},
         \/ \E t \in TaskId : SetEvent(t, mask) \/ IsrSetEvent(t, mask)
         \/ ClearEvent(mask) \/ WaitEvent(mask)
  PROVE  Kept(sched, sched')
<1>1. /\ Kept(sched, sched) /\ K.sched = sched
      /\ K \in [sched : Sched, tcb : [TaskId -> Tcb]]
  BY Unplaced DEF FifoFrom
<1>2. ASSUME NEW t \in TaskId, SetEvent(t, mask) \/ IsrSetEvent(t, mask)
      PROVE  Kept(sched, sched')
  <2>1. CASE /\ Wakes(t, mask)
             /\ \/ dispatch(Woken(t, mask), "dispatcher_r")
                \/ Return(Woken(t, mask))
    BY <2>1, FifoWoken, GivesSched DEF ResumeAt
  <2>2. CASE Return([K EXCEPT !.tcb = EventsSet(t, mask)])
    <3>1. [K EXCEPT !.tcb = EventsSet(t, mask)].sched = sched
      BY DEF K
    <3>2. QED
      BY <1>1, <2>2, <3>1 DEF Return
  <2>3. QED
    BY <1>2, <2>1, <2>2 DEF SetEvent, IsrSetEvent
<1>3. CASE ClearEvent(mask)
  <2>1. [K EXCEPT !.tcb[runtsk].curevt = @ \ mask].sched = sched
    BY DEF K
  <2>2. QED
    BY <1>1, <1>3, <2>1 DEF ClearEvent, Return
<1>4. CASE WaitEvent(mask)
  <2>1. /\ TaskLevel /\ tcb[runtsk].curevt \cap mask = {}
        /\ dispatch(Waiting(mask), "dispatcher_r_exepri")
    BY <1>4 DEF WaitEvent, Waiting
  <2>2. KernelOK(Waiting(mask), runtsk)
    BY <2>1, WaitingOK
  <2>3. Waiting(mask).sched = search_schedtsk(sched)
    BY DEF Waiting
  <2>4. sched' = search_schedtsk(sched)
    BY <2>1, <2>2, <2>3, GivesSched DEF KernelOK, ResumeAt
  <2>5. QED
    BY <2>4, Unplaced, FifoSearch DEF FifoFrom
<1>5. QED
  BY <1>2, <1>3, <1>4

LEMMA FifoStep == ASSUME IInv, [Next]_vars PROVE Kept(sched, sched')
<1>1. /\ Kept(sched, sched) /\ K.sched = sched
      /\ K \in [sched : Sched, tcb : [TaskId -> Tcb]]
  BY Unplaced DEF FifoFrom
<1>2. CASE sched' = sched
  BY <1>1, <1>2
<1>3. CASE TaskStep
  <2>1. ExtTaskId \subseteq TaskId
    BY TaskCount DEF ExtTaskId, TaskId, TSKID_NULL
  <2>2. CASE call_errorhook \/ SuspendOSInterrupts
    BY <1>2, <2>2 DEF call_errorhook, SuspendOSInterrupts
  <2>3. QED
    BY <1>3, <2>1, <2>2, FifoManaged, FifoChain, FifoPriorities, FifoEvents DEF TaskStep
<1>4. CASE KernelStep
  <2>1. CASE StartOS \/ PostTaskHookReturn \/ idle_loop
    <3>1. start_dispatch(K)
      BY <2>1 DEF StartOS, PostTaskHookReturn, idle_loop
    <3>2. QED
      BY <1>1, <3>1, GivesSched
  <2>2. CASE PreTaskHookReturn \/ ErrorHookReturn \/ ResumeOSInterrupts
    BY <1>2, <2>2 DEF PreTaskHookReturn, ErrorHookReturn, ResumeOSInterrupts
  <2>3. CASE IsrReturn
    <3>1. dispatch(K, "ret_int_r") \/ sched' = sched
      BY <2>3 DEF IsrReturn
    <3>2. QED
      BY <1>1, <1>2, <3>1, GivesSched DEF ResumeAt
  <2>4. QED
    BY <1>4, <2>1, <2>2, <2>3, FifoManaged DEF KernelStep
<1>5. CASE HandlerStep
  <2>1. HandlerTask \subseteq TaskId
    BY KernelConfig DEF HandlerTask
  <2>2. CASE IsrEnter
    BY <1>2, <2>2 DEF IsrEnter
  <2>3. CASE \E t \in HandlerTask : IsrActivateTask(t)
    BY <2>1, <2>3, FifoManaged
  <2>4. CASE \E t \in HandlerTask \cap ExtTaskId, mask \in EventMask \ {{}} :
               IsrSetEvent(t, mask)
    BY <2>1, <2>4, FifoEvents
  <2>5. QED
    BY <1>5, <2>2, <2>3, <2>4 DEF HandlerStep
<1>6. QED
  BY <1>2, <1>3, <1>4, <1>5 DEF Next, vars

(* Tasks of one priority run in the order in which they became ready,      *)
(* preempted ones first.                                                   *)
THEOREM QueuesAreFifo == ASSUME NoRace PROVE Spec => FifoOrder
<1>1. IInv /\ [Next]_vars
        => [\A p \in Priority : \A a, b \in TaskId :
              Ahead(sched'.queue[p], b, a) => ~ Precedes(sched, p, a, b)]_sched
  BY FifoStep DEF Kept
<1>2. QED
  BY <1>1, Invariance, PreemptedGoesOnFirst, PTL DEF Spec, FifoOrder

-----------------------------------------------------------------------------
(* Events: what one step of the kernel leaves of those that are set.       *)

(* In d every task has the events it had, except the one that runs and     *)
(* those that were dormant.                                                *)
Spared(d) == \A t \in TaskId :
               \/ tcb[t].curevt \subseteq d[t].curevt
               \/ TaskLevel /\ runtsk = t
               \/ tcb[t].tstat = "DORMANT"

(* The ends of the services and handlers change no event.                  *)
LEMMA EventsResumed ==
  ASSUME NEW c \in [TaskId -> Tcb], NEW u
  PROVE  \A t \in TaskId : Resumed(c, u)[t].curevt = c[t].curevt
<1> DEFINE d == [c EXCEPT ![u].curpri = tinib_exepri[u]]
<1>1. ASSUME NEW t \in TaskId PROVE d[t].curevt = c[t].curevt
  BY DEF Tcb
<1>2. Resumed(c, u) = c \/ Resumed(c, u) = d
  BY DEF Resumed
<1>3. QED
  BY <1>1, <1>2

LEMMA EventsGiven ==
  ASSUME NEW k \in [sched : Sched, tcb : [TaskId -> Tcb]], Spared(k.tcb),
         \/ Return(k) \/ start_dispatch(k) \/ exit_and_dispatch(k)
         \/ \E pc \in ResumeAt : dispatch(k, pc)
  PROVE  Spared(tcb')
<1> DEFINE Same(d) == \A t \in TaskId : d[t].curevt = k.tcb[t].curevt
<1>1. ASSUME NEW j \in [sched : Sched, tcb : [TaskId -> Tcb]], Same(j.tcb),
             start_dispatch(j) \/ exit_and_dispatch(j)
      PROVE  Same(tcb')
  <2>1. tcb' = j.tcb \/ tcb' = Resumed(j.tcb, j.sched.schedtsk)
    BY <1>1 DEF exit_and_dispatch, start_dispatch, dispatch_task
  <2>2. QED
    BY <1>1, <2>1, EventsResumed
<1>2. ASSUME NEW pc \in ResumeAt, dispatch(k, pc) PROVE Same(tcb')
  <2> DEFINE j == [k EXCEPT !.tcb[runtsk].pc = pc]
  <2>1. j.sched = k.sched /\ j.tcb = [k.tcb EXCEPT ![runtsk].pc = pc]
        /\ j = [sched |-> j.sched, tcb |-> j.tcb]
    OBVIOUS
  <2>2. [k.tcb EXCEPT ![runtsk].pc = pc] \in [TaskId -> Tcb]
    BY DEF Tcb
  <2>3. Same([k.tcb EXCEPT ![runtsk].pc = pc])
    BY DEF Tcb
  <2>4. exit_and_dispatch(j)
    BY <1>2 DEF dispatch
  <2> HIDE DEF j, Same
  <2>5. j \in [sched : Sched, tcb : [TaskId -> Tcb]] /\ Same(j.tcb)
    BY <2>1, <2>2, <2>3
  <2>6. QED
    BY <1>1, <2>4, <2>5
<1>3. Same(tcb')
  <2>1. CASE Return(k)
    BY <2>1 DEF Return
  <2>2. QED
    BY <1>1, <1>2, <2>1
<1>4. QED
  BY <1>3 DEF Spared

(* make_active, for a task that was dormant or ends in this step.          *)
LEMMA ActiveSpares ==
  ASSUME NEW k \in [sched : Sched, tcb : [TaskId -> Tcb]], Spared(k.tcb),
         NEW t \in TaskId, tcb[t].tstat = "DORMANT" \/ (TaskLevel /\ runtsk = t)
  PROVE  Spared(make_active(k, t).tcb)
<1> DEFINE c == [k.tcb[t] EXCEPT
                 !.tstat = "RUNNABLE", !.curpri = tinib_inipri[t],
                 !.curevt = {}, !.waievt = {}, !.lastres = RESID_NULL,
                 !.pc = "activate_r"]
<1>1. make_active(k, t).tcb = [k.tcb EXCEPT ![t] = c]
  BY DEF make_active
<1> HIDE DEF c
<1>2. \A u \in TaskId \ {t} : [k.tcb EXCEPT ![t] = c][u] = k.tcb[u]
  OBVIOUS
<1>3. QED
  BY <1>1, <1>2 DEF Spared

LEMMA CountedSpares ==
  ASSUME NEW k \in [sched : Sched, tcb : [TaskId -> Tcb]], Spared(k.tcb), NEW t \in TaskId
  PROVE  Spared(Counted(k, t).tcb)
<1>1. Counted(k, t).tcb = [k.tcb EXCEPT ![t].actcnt = @ + 1]
  BY DEF Counted
<1>2. \A u \in TaskId : [k.tcb EXCEPT ![t].actcnt = @ + 1][u].curevt = k.tcb[u].curevt
  BY DEF Tcb
<1>3. QED
  BY <1>1, <1>2 DEF Spared

LEMMA OwnSpares ==
  ASSUME TaskLevel, NEW d, \A u \in TaskId \ {runtsk} : d[u] = tcb[u]
  PROVE  Spared(d)
BY DEF Spared

LEMMA EventsManaged ==
  ASSUME IInv,
         \/ \E t \in TaskId : ActivateTask(t) \/ ChainTask(t) \/ IsrActivateTask(t)
         \/ task_initialize \/ TerminateTask
  PROVE  Spared(tcb')
<1>1. /\ Spared(tcb) /\ K.tcb = tcb
      /\ K \in [sched : Sched, tcb : [TaskId -> Tcb]]
  BY Unplaced DEF Spared
<1>2. ASSUME NEW t \in TaskId, tcb[t].tstat = "DORMANT",
             \/ dispatch(make_active(K, t), "dispatcher_r")
             \/ Return(make_active(K, t))
      PROVE  Spared(tcb')
  BY <1>1, <1>2, FifoDormant, ActiveSpares, EventsGiven DEF ResumeAt
<1>3. ASSUME NEW t \in TaskId, tcb[t].tstat # "DORMANT", Return(Counted(K, t))
      PROVE  Spared(tcb')
  <2>1. Spared(Counted(K, t).tcb)
    BY <1>1, CountedSpares
  <2>2. QED
    BY <1>3, <2>1 DEF Return
<1>4. ASSUME NEW t \in TaskId, ActivateTask(t) \/ IsrActivateTask(t)
      PROVE  Spared(tcb')
  BY <1>2, <1>3, <1>4 DEF ActivateTask, IsrActivateTask
<1>5. ASSUME TaskLevel
      PROVE  /\ KernelOK(Terminated, TSKID_NULL) /\ Spared(Terminated.tcb)
             /\ Terminated \in [sched : Sched, tcb : [TaskId -> Tcb]]
             /\ runtsk \in TaskId
             /\ \A u \in TaskId \ {runtsk} : Terminated.tcb[u] = tcb[u]
  BY <1>5, AtTaskLevel, TerminatedOK, OwnSpares DEF KernelOK
<1>6. CASE TerminateTask
  BY <1>5, <1>6, EventsGiven DEF TerminateTask
<1>7. ASSUME NEW t \in TaskId, ChainTask(t) PROVE Spared(tcb')
  <2>0. TaskLevel
    BY <1>7 DEF ChainTask
  <2>1. CASE /\ t = runtsk
             /\ exit_and_dispatch(
                  make_active([K EXCEPT !.sched = search_schedtsk(sched)], t))
    <3> DEFINE s1 == search_schedtsk(sched)
               k  == [sched |-> s1, tcb |-> tcb]
    <3>1. [K EXCEPT !.sched = s1] = k
      BY DEF K
    <3>2. s1 \in Sched /\ tcb \in [TaskId -> Tcb]
      BY Unplaced, SearchSchedtsk DEF SchedOK, IInv, TypeOK
    <3>3. KernelOK(make_active(k, t), TSKID_NULL)
      BY <2>0, <2>1, <3>2, StartsAgain
    <3> HIDE DEF s1
    <3>4. k \in [sched : Sched, tcb : [TaskId -> Tcb]] /\ k.tcb = tcb
      BY <3>2
    <3> HIDE DEF k
    <3>5. Spared(make_active(k, t).tcb)
      BY <1>1, <2>0, <2>1, <3>4, ActiveSpares
    <3>6. exit_and_dispatch(make_active(k, t))
      BY <2>1, <3>1 DEF s1
    <3>7. QED
      BY <3>3, <3>5, <3>6, EventsGiven DEF KernelOK
  <2>2. CASE /\ t # runtsk /\ tcb[t].tstat = "DORMANT"
             /\ exit_and_dispatch(make_active(Terminated, t))
    <3>1. KernelOK(make_active(Terminated, t), TSKID_NULL)
      BY <1>5, <2>0, <2>2, ActivateDormant
    <3>2. Spared(make_active(Terminated, t).tcb)
      BY <1>5, <2>0, <2>2, ActiveSpares
    <3>3. QED
      BY <2>2, <3>1, <3>2, EventsGiven DEF KernelOK
  <2>3. CASE /\ t # runtsk /\ tcb[t].tstat # "DORMANT"
             /\ exit_and_dispatch(Counted(Terminated, t))
    <3>1. KernelOK(Counted(Terminated, t), TSKID_NULL)
      BY <1>5, <2>0, <2>3, CountedOK
    <3>2. Spared(Counted(Terminated, t).tcb)
      BY <1>5, <2>0, CountedSpares
    <3>3. QED
      BY <2>3, <3>1, <3>2, EventsGiven DEF KernelOK
  <2>4. QED
    BY <1>7, <2>1, <2>2, <2>3 DEF ChainTask
<1>8. CASE task_initialize
  <2>1. initid \in TaskId /\ tcb[initid].tstat = "DORMANT"
    <3>1. cpu = "boot" /\ initid \in TaskId
      BY <1>8 DEF task_initialize
    <3>2. initid \in initid .. tnum_task - 1
      BY <3>1, TaskCount DEF TaskId, TSKID_NULL
    <3>3. QED
      BY <3>1, <3>2 DEF IInv, Booting
  <2>2. Return(make_active(K, initid)) \/ Return(K)
    BY <1>8 DEF task_initialize
  <2>3. CASE Return(make_active(K, initid))
    BY <1>2, <2>1, <2>3
  <2>4. CASE Return(K)
    BY <1>1, <2>4 DEF Return
  <2>5. QED
    BY <2>2, <2>3, <2>4
<1>9. QED
  BY <1>4, <1>6, <1>7, <1>8

LEMMA EventsPriorities ==
  ASSUME IInv,
         \/ Schedule
         \/ \E r \in ResourceId : GetResource(r) \/ ReleaseResource(r)
  PROVE  Spared(tcb')
<1>1. /\ TaskLevel /\ tcb \in [TaskId -> Tcb] /\ runtsk \in TaskId /\ tcb[runtsk] \in Tcb
      /\ sched \in Sched
  <2>1. TaskLevel
    BY DEF Schedule, GetResource, ReleaseResource
  <2>2. QED
    BY <2>1, AtTaskLevel DEF TypeOK
<1>2. ASSUME NEW d \in [TaskId -> Tcb], NEW pc \in ResumeAt,
             \A u \in TaskId \ {runtsk} : d[u] = tcb[u],
             d[runtsk].curpri < sched.nextpri,
             dispatch([sched |-> preempt(sched, d), tcb |-> d], pc)
      PROVE  Spared(tcb')
  <2> DEFINE k == [sched |-> preempt(sched, d), tcb |-> d]
  <2>1. preempt(sched, d) \in Sched
    <3>1. /\ sched.schedtsk = runtsk /\ d[runtsk].curpri \in Nat
          /\ \A u \in TaskId : u # runtsk => d[u].curpri = tcb[u].curpri
      BY <1>1, <1>2, AtTaskLevel DEF Tcb
    <3>2. QueuesExact(sched, d) /\ NextpriHighest(sched) /\ runtsk \notin Placed(sched)
      BY <3>1, Unplaced, SchedFrame DEF SchedOK
    <3>3. QED
      BY <1>1, <1>2, <3>1, <3>2, Preempt
  <2>2. k \in [sched : Sched, tcb : [TaskId -> Tcb]] /\ k.tcb = d
    BY <1>2, <2>1
  <2>3. Spared(d)
    BY <1>1, <1>2, OwnSpares
  <2>4. dispatch(k, pc)
    BY <1>2
  <2> HIDE DEF k
  <2>5. QED
    BY <2>2, <2>3, <2>4, EventsGiven
<1>3. CASE Schedule
  <2> DEFINE c == [tcb[runtsk] EXCEPT !.curpri = tinib_inipri[runtsk]]
             d == [tcb EXCEPT ![runtsk] = c]
  <2>1. /\ tinib_inipri[runtsk] < sched.nextpri
        /\ dispatch([sched |-> preempt(sched, d), tcb |-> d], "dispatcher_r_exepri")
    BY <1>3 DEF Schedule
  <2>2. c \in Tcb /\ c.curpri = tinib_inipri[runtsk]
    BY <1>1, Constants DEF Tcb
  <2> HIDE DEF c
  <2>3. d \in [TaskId -> Tcb] /\ d[runtsk] = c /\ \A u \in TaskId \ {runtsk} : d[u] = tcb[u]
    BY <1>1, <2>2
  <2> HIDE DEF d
  <2>4. QED
    BY <1>2, <2>1, <2>2, <2>3 DEF ResumeAt
<1>4. ASSUME NEW r \in ResourceId, ReleaseResource(r) PROVE Spared(tcb')
  <2> DEFINE c == [tcb[runtsk] EXCEPT !.curpri = rescb[r].prevpri,
                                      !.lastres = rescb[r].prevres]
             d == [tcb EXCEPT ![runtsk] = c]
  <2>1. \/ /\ rescb[r].prevpri < sched.nextpri
           /\ dispatch([sched |-> preempt(sched, d), tcb |-> d], "dispatcher_r")
        \/ Return([K EXCEPT !.tcb = d])
    BY <1>4 DEF ReleaseResource
  <2>2. rescb[r] \in Rescb
    BY <1>1, AtTaskLevel
  <2>3. c \in Tcb /\ c.curpri = rescb[r].prevpri
    BY <1>1, <2>2 DEF Tcb, Rescb
  <2> HIDE DEF c
  <2>4. d \in [TaskId -> Tcb] /\ d[runtsk] = c /\ \A u \in TaskId \ {runtsk} : d[u] = tcb[u]
    BY <1>1, <2>3
  <2>5. [K EXCEPT !.tcb = d].tcb = d
    BY DEF K
  <2> HIDE DEF d
  <2>6. CASE Return([K EXCEPT !.tcb = d])
    BY <1>1, <2>4, <2>5, <2>6, OwnSpares DEF Return
  <2>7. CASE /\ rescb[r].prevpri < sched.nextpri
             /\ dispatch([sched |-> preempt(sched, d), tcb |-> d], "dispatcher_r")
    BY <1>2, <2>3, <2>4, <2>7 DEF ResumeAt
  <2>8. QED
    BY <2>1, <2>6, <2>7
<1>5. ASSUME NEW r \in ResourceId, GetResource(r) PROVE Spared(tcb')
  <2>1. \A u \in TaskId \ {runtsk} : tcb'[u] = tcb[u]
    BY <1>1, <1>5 DEF GetResource
  <2>2. QED
    BY <1>1, <2>1, OwnSpares
<1>6. QED
  BY <1>3, <1>4, <1>5

LEMMA EventsSpared ==
  ASSUME IInv, NEW mask \in EventMask \ {{}},
         \/ \E t \in TaskId : SetEvent(t, mask) \/ IsrSetEvent(t, mask)
         \/ ClearEvent(mask) \/ WaitEvent(mask)
  PROVE  Spared(tcb')
<1>1. tcb \in [TaskId -> Tcb]
  BY DEF IInv, TypeOK
<1>2. ASSUME NEW t \in TaskId, SetEvent(t, mask) \/ IsrSetEvent(t, mask)
      PROVE  Spared(tcb')
  <2>1. CASE /\ Wakes(t, mask)
             /\ \/ dispatch(Woken(t, mask), "dispatcher_r")
                \/ Return(Woken(t, mask))
    <3>1. Woken(t, mask) \in [sched : Sched, tcb : [TaskId -> Tcb]]
      BY <2>1, FifoWoken
    <3>2. Spared(Woken(t, mask).tcb)
      <4> DEFINE c == [tcb[t] EXCEPT !.curevt = @ \cup mask, !.waievt = {},
                                     !.tstat = "RUNNABLE"]
      <4>1. Woken(t, mask).tcb = [tcb EXCEPT ![t] = c]
        BY DEF Woken
      <4>2. tcb[t].curevt \subseteq c.curevt
        BY <1>1 DEF Tcb
      <4> HIDE DEF c
      <4>3. QED
        BY <1>1, <4>1, <4>2 DEF Spared
    <3>3. QED
      BY <2>1, <3>1, <3>2, EventsGiven DEF ResumeAt
  <2>2. CASE Return([K EXCEPT !.tcb = EventsSet(t, mask)])
    <3>1. [K EXCEPT !.tcb = EventsSet(t, mask)].tcb = EventsSet(t, mask)
      BY DEF K
    <3>2. Spared(EventsSet(t, mask))
      <4> DEFINE c == [tcb[t] EXCEPT !.curevt = @ \cup mask]
      <4>1. EventsSet(t, mask) = [tcb EXCEPT ![t] = c]
        BY <1>1 DEF EventsSet
      <4>2. tcb[t].curevt \subseteq c.curevt
        BY <1>1 DEF Tcb
      <4> HIDE DEF c
      <4>3. QED
        BY <1>1, <4>1, <4>2 DEF Spared
    <3>3. QED
      BY <2>2, <3>1, <3>2 DEF Return
  <2>3. QED
    BY <1>2, <2>1, <2>2 DEF SetEvent, IsrSetEvent
<1>3. CASE ClearEvent(mask)
  <2>1. [K EXCEPT !.tcb[runtsk].curevt = @ \ mask].tcb
          = [tcb EXCEPT ![runtsk].curevt = @ \ mask]
    BY DEF K
  <2>2. TaskLevel /\ \A u \in TaskId \ {runtsk} : tcb'[u] = tcb[u]
    BY <1>1, <1>3, <2>1 DEF ClearEvent, Return
  <2>3. QED
    BY <2>2, OwnSpares
<1>4. CASE WaitEvent(mask)
  <2>1. /\ TaskLevel /\ tcb[runtsk].curevt \cap mask = {}
        /\ dispatch(Waiting(mask), "dispatcher_r_exepri")
    BY <1>4 DEF WaitEvent, Waiting
  <2>2. Waiting(mask) \in [sched : Sched, tcb : [TaskId -> Tcb]]
    BY <2>1, WaitingOK DEF KernelOK
  <2>3. \A u \in TaskId \ {runtsk} : Waiting(mask).tcb[u] = tcb[u]
    BY <1>1 DEF Waiting
  <2>4. QED
    BY <2>1, <2>2, <2>3, OwnSpares, EventsGiven DEF ResumeAt
<1>5. QED
  BY <1>2, <1>3, <1>4

LEMMA EventsStep == ASSUME IInv, [Next]_vars PROVE Spared(tcb')
<1>1. Spared(tcb) /\ K.tcb = tcb /\ K \in [sched : Sched, tcb : [TaskId -> Tcb]]
  BY Unplaced DEF Spared
<1>2. CASE tcb' = tcb
  BY <1>1, <1>2
<1>3. CASE TaskStep
  <2>1. ExtTaskId \subseteq TaskId
    BY TaskCount DEF ExtTaskId, TaskId, TSKID_NULL
  <2>2. CASE call_errorhook \/ SuspendOSInterrupts
    BY <1>2, <2>2 DEF call_errorhook, SuspendOSInterrupts
  <2>3. QED
    BY <1>3, <2>1, <2>2, EventsManaged, EventsPriorities, EventsSpared DEF TaskStep
<1>4. CASE KernelStep
  <2>1. CASE StartOS \/ PostTaskHookReturn \/ idle_loop
    BY <1>1, <2>1, EventsGiven DEF StartOS, PostTaskHookReturn, idle_loop
  <2>2. CASE ErrorHookReturn \/ ResumeOSInterrupts
    BY <1>2, <2>2 DEF ErrorHookReturn, ResumeOSInterrupts
  <2>3. CASE PreTaskHookReturn
    <3>1. tcb' = Resumed(tcb, runtsk) /\ tcb \in [TaskId -> Tcb]
      BY <2>3 DEF PreTaskHookReturn, dispatch_task, IInv, TypeOK
    <3>2. QED
      BY <3>1, EventsResumed DEF Spared
  <2>4. CASE IsrReturn
    <3>1. dispatch(K, "ret_int_r") \/ tcb' = tcb
      BY <2>4 DEF IsrReturn
    <3>2. QED
      BY <1>1, <1>2, <3>1, EventsGiven DEF ResumeAt
  <2>5. QED
    BY <1>4, <2>1, <2>2, <2>3, <2>4, EventsManaged DEF KernelStep
<1>5. CASE HandlerStep
  <2>1. HandlerTask \subseteq TaskId
    BY KernelConfig DEF HandlerTask
  <2>2. CASE IsrEnter
    BY <1>2, <2>2 DEF IsrEnter
  <2>3. CASE \E t \in HandlerTask : IsrActivateTask(t)
    BY <2>1, <2>3, EventsManaged
  <2>4. CASE \E t \in HandlerTask \cap ExtTaskId, mask \in EventMask \ {{}} :
               IsrSetEvent(t, mask)
    BY <2>1, <2>4, EventsSpared
  <2>5. QED
    BY <1>5, <2>2, <2>3, <2>4 DEF HandlerStep
<1>6. QED
  BY <1>2, <1>3, <1>4, <1>5 DEF Next, vars

(* Only the task itself takes back an event that is set.                   *)
THEOREM EventsAreKept == ASSUME NoRace PROVE Spec => EventsStaySet
<1>1. IInv /\ [Next]_vars
        => [\A t \in ExtTaskId : \A e \in tcb[t].curevt \ tcb'[t].curevt :
              \/ TaskLevel /\ runtsk = t
              \/ tcb[t].tstat = "DORMANT"]_tcb
  <2>1. ExtTaskId \subseteq TaskId
    BY TaskCount DEF ExtTaskId, TaskId, TSKID_NULL
  <2>2. QED
    BY <2>1, EventsStep DEF Spared
<1>2. QED
  BY <1>1, Invariance, PTL DEF Spec, EventsStaySet
=============================================================================
