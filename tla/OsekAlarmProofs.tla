-------------------------- MODULE OsekAlarmProofs --------------------------
(***************************************************************************)
(* alarm.c for every number of alarms, every counter and every width of    *)
(* TickType that holds maxval2.  In this order: tick arithmetic, whose     *)
(* intermediate results wrap around (comments of add_tick and diff_tick);  *)
(* the queue as a list of different alarms and what enqueue_alarm and      *)
(* dequeue_alarm make of it; its order by ticks left, from which follow    *)
(* that alarms expire in time, that the timers of AlarmTimers are          *)
(* implemented, and that alarms of one tick expire first come first        *)
(* served.                                                                 *)
(***************************************************************************)
EXTENDS OsekAlarm, WellFoundedInduction, TLAPS

(* The remainder of a number that is within one modulus of the range. *)
LEMMA Remainder ==
  ASSUME NEW m \in Nat \ {0}, NEW n \in Int
  PROVE  /\ 0 <= n /\ n < m => n % m = n
         /\ m <= n /\ n < 2 * m => n % m = n - m
         /\ - m <= n /\ n < 0 => n % m = n + m
OBVIOUS

(* The constants as the arithmetic sees them. *)
LEMMA Width ==
  /\ cntinib_maxval \in Nat \ {0}
  /\ cntinib_maxval2 \in Nat
  /\ cntinib_maxval2 = 2 * cntinib_maxval + 1
  /\ TickMod \in Nat \ {0}
  /\ cntinib_maxval2 + 1 <= TickMod
BY AlarmConfig DEF cntinib_maxval2

(* What Tick makes of such a number. *)
LEMMA TickWraps ==
  ASSUME NEW n \in Int
  PROVE  /\ 0 <= n /\ n < TickMod => Tick(n) = n
         /\ TickMod <= n /\ n < 2 * TickMod => Tick(n) = n - TickMod
         /\ - TickMod <= n /\ n < 0 => Tick(n) = n + TickMod
BY Width, Remainder DEF Tick

(* add_tick is addition modulo the counter's range: the sum may wrap       *)
(* around and maxval2 + 1 may be 2^32, that is 0.                          *)
THEOREM AddTickExact ==
  ASSUME NEW v \in CounterVal, NEW i \in CounterVal
  PROVE  /\ add_tick(v, i) \in CounterVal
         /\ v + i <= cntinib_maxval2 => add_tick(v, i) = v + i
         /\ v + i > cntinib_maxval2 =>
              add_tick(v, i) = v + i - (cntinib_maxval2 + 1)
PROOF
  <1> DEFINE R == cntinib_maxval2 + 1
             a == Tick(v + i)
             b == Tick(R)
  <1>1. /\ v \in Nat /\ i \in Nat /\ v < R /\ i < R
        /\ R \in Nat \ {0} /\ R <= TickMod /\ TickMod \in Nat \ {0}
        /\ cntinib_maxval2 = R - 1
    BY Width DEF CounterVal
  <1>2. CASE v + i < R
    <2>1. add_tick(v, i) = v + i
      <3>1. Tick(v + i) = v + i
        BY <1>1, <1>2, TickWraps
      <3> QED BY <1>1, <1>2, <3>1 DEF add_tick
    <2> QED BY <1>1, <1>2, <2>1 DEF CounterVal
  <1>3. CASE v + i >= R
    <2>1. a = v + i \/ a = v + i - TickMod
      BY <1>1, TickWraps
    <2>2. (b = R /\ R < TickMod) \/ (b = 0 /\ R = TickMod)
      BY <1>1, TickWraps
    <2>3. Tick(a - b) = v + i - R
      <3>1. CASE b = R /\ R < TickMod
        <4> HIDE DEF a, b, R
        <4> SUFFICES Tick(a - R) = v + i - R
          BY <3>1
        <4>1. CASE a = v + i
          BY <1>1, <1>3, <4>1, TickWraps
        <4>2. CASE a = v + i - TickMod
          <5>1. - TickMod <= a - R /\ a - R < 0
            BY <1>1, <1>3, <3>1, <4>2
          <5> QED BY <1>1, <4>2, <5>1, TickWraps
        <4> QED BY <2>1, <4>1, <4>2
      <3>2. CASE b = 0 /\ R = TickMod
        <4>1. a = v + i - TickMod
          BY <1>1, <1>3, <3>2, TickWraps
        <4> HIDE DEF a, b, R
        <4> QED BY <1>1, <1>3, <3>2, <4>1, TickWraps
      <3> QED BY <2>2, <3>1, <3>2
    <2>4. add_tick(v, i) = Tick(a - b)
      BY <1>1, <1>3 DEF add_tick
    <2> QED BY <1>1, <1>3, <2>3, <2>4 DEF CounterVal
  <1> QED BY <1>1, <1>2, <1>3

(* diff_tick is the distance from val2 forward to val1 around the range. *)
THEOREM DiffTickExact ==
  ASSUME NEW x \in CounterVal, NEW y \in CounterVal
  PROVE  /\ diff_tick(x, y) \in CounterVal
         /\ y <= x => diff_tick(x, y) = x - y
         /\ x < y => diff_tick(x, y) = x - y + (cntinib_maxval2 + 1)
PROOF
  <1> DEFINE R == cntinib_maxval2 + 1
             a == Tick(x - y)
             b == Tick(R)
  <1>1. /\ x \in Nat /\ y \in Nat /\ x < R /\ y < R
        /\ R \in Nat \ {0} /\ R <= TickMod /\ TickMod \in Nat \ {0}
        /\ cntinib_maxval2 = R - 1
    BY Width DEF CounterVal
  <1>2. CASE y <= x
    BY <1>1, <1>2 DEF diff_tick, CounterVal
  <1>3. CASE x < y
    <2>1. a = x - y + TickMod
      BY <1>1, <1>3, TickWraps
    <2>2. (b = R /\ R < TickMod) \/ (b = 0 /\ R = TickMod)
      BY <1>1, TickWraps
    <2>3. Tick(a + b) = x - y + R
      <3> HIDE DEF a, b, R
      <3>1. CASE b = R /\ R < TickMod
        BY <1>1, <1>3, <2>1, <3>1, TickWraps
      <3>2. CASE b = 0 /\ R = TickMod
        BY <1>1, <1>3, <2>1, <3>2, TickWraps
      <3> QED BY <2>2, <3>1, <3>2
    <2>4. diff_tick(x, y) = Tick(a + b)
      BY <1>1, <1>3 DEF diff_tick
    <2> QED BY <1>1, <1>3, <2>3, <2>4 DEF CounterVal
  <1> QED BY <1>1, <1>2, <1>3

(* SetRelAlarm sets an alarm exactly incr ticks ahead of the counter.      *)
THEOREM RelTickAhead ==
  ASSUME NEW v \in CounterVal, NEW incr \in 1 .. cntinib_maxval
  PROVE  diff_tick(add_tick(v, incr), v) = incr
PROOF
  <1>1. /\ incr \in CounterVal
        /\ v \in Nat /\ incr \in Nat /\ cntinib_maxval2 \in Nat
        /\ v <= cntinib_maxval2 /\ 1 <= incr /\ incr <= cntinib_maxval2
    BY Width DEF CounterVal
  <1>2. CASE v + incr <= cntinib_maxval2
    <2>1. add_tick(v, incr) = v + incr
      BY <1>1, <1>2, AddTickExact
    <2>2. v + incr \in CounterVal
      BY <1>1, <1>2 DEF CounterVal
    <2>3. diff_tick(v + incr, v) = (v + incr) - v
      BY <1>1, <2>2, DiffTickExact
    <2> QED BY <1>1, <2>1, <2>3
  <1>3. CASE v + incr > cntinib_maxval2
    <2> DEFINE w == v + incr - (cntinib_maxval2 + 1)
    <2>1. add_tick(v, incr) = w
      BY <1>1, <1>3, AddTickExact
    <2>2. w \in CounterVal /\ w < v
      BY <1>1, <1>3 DEF CounterVal
    <2>3. diff_tick(w, v) = w - v + (cntinib_maxval2 + 1)
      <3> HIDE DEF w
      <3> QED BY <2>2, DiffTickExact
    <2> QED BY <1>1, <2>1, <2>3
  <1> QED BY <1>1, <1>2, <1>3

(* SetAbsAlarm sets an alarm to one of the two ticks that the user sees as *)
(* start, 1 to maxval + 1 ticks ahead of the counter, never at or behind   *)
(* it: the bound that ExpiresInTime checks and SignalCounter's test of the *)
(* first alarm relies on.                                                  *)
THEOREM AbsTickAhead ==
  ASSUME cntcb_curval \in CounterVal, NEW start \in 0 .. cntinib_maxval
  PROVE  /\ AbsTick(start) \in {start, start + cntinib_maxval + 1}
         /\ AbsTick(start) \in CounterVal
         /\ diff_tick(AbsTick(start), cntcb_curval) \in 1 .. cntinib_maxval + 1
PROOF
  <1> DEFINE m  == cntinib_maxval
             c  == cntcb_curval
             s2 == start + m + 1
             t  == AbsTick(start)
  <1>1. /\ m \in Nat \ {0} /\ c \in Nat /\ start \in Nat
        /\ start <= m /\ c <= 2 * m + 1 /\ cntinib_maxval2 = 2 * m + 1
        /\ 2 * m + 2 <= TickMod /\ TickMod \in Nat
    BY Width DEF CounterVal
  <1>2. Tick(s2) = s2
    BY <1>1, TickWraps
  <1>3. t = IF c <= m THEN (IF start <= c THEN s2 ELSE start)
            ELSE (IF s2 <= c THEN start ELSE s2)
    BY <1>2 DEF AbsTick
  <1>4. t \in {start, s2} /\ t \in CounterVal
    BY <1>1, <1>3 DEF CounterVal
  <1>5. \/ c <= t /\ t - c \in 1 .. m + 1
        \/ t < c /\ t - c + (2 * m + 2) \in 1 .. m + 1
    BY <1>1, <1>3
  <1>6. \/ c <= t /\ diff_tick(t, c) = t - c
        \/ t < c /\ diff_tick(t, c) = t - c + (2 * m + 2)
    <2> HIDE DEF t
    <2>1. c <= t \/ t < c
      BY <1>1, <1>4 DEF CounterVal
    <2> QED BY <1>1, <1>4, <2>1, DiffTickExact
  <1>7. diff_tick(t, c) \in 1 .. m + 1
    <2> HIDE DEF t
    <2> QED BY <1>1, <1>4, <1>5, <1>6 DEF CounterVal
  <1> QED BY <1>4, <1>7

-----------------------------------------------------------------------------
(* The queue as a list c of n different alarms: what following the links   *)
(* from the head, forth and back, comes by.                                *)

(* The link to the alarm at a place of the list, none before and behind. *)
At(n, c, i) == IF i \in 1 .. n THEN c[i] ELSE ALMID_NULL

Chain(q, n, c) ==
  /\ n \in Nat
  /\ c \in [1 .. n -> AlarmId]
  /\ \A i, j \in 1 .. n : c[i] = c[j] => i = j
  /\ q.head = At(n, c, 1)
  /\ \A i \in 1 .. n : /\ q.next[c[i]] = At(n, c, i + 1)
                       /\ q.prev[c[i]] = At(n, c, i - 1)
  /\ \A a \in AlarmId : (\A i \in 1 .. n : a # c[i]) => q.next[a] = a

(* A non-empty set of natural numbers has a least element. *)
LEMMA LeastNat ==
  ASSUME NEW T, T \subseteq Nat, T # {}
  PROVE  \E x \in T : \A y \in T : x <= y
<1> DEFINE R == OpToRel(<, Nat)
<1>1. IsWellFoundedOn(R, Nat)
  BY NatLessThanWellFounded
<1>2. PICK x \in T : \A y \in T : ~ (<<y, x>> \in R)
  BY ONLY <1>1, T \subseteq Nat, T # {}, WFMin
<1>3. \A y \in T : ~ (y < x)
  BY <1>2, Zenon DEF OpToRel
<1>4. QED
  BY <1>3

LEMMA NullLink == ALMID_NULL \notin AlarmId
BY AlarmConfig DEF AlarmId, ALMID_NULL

(* The first place from i on at which the search for a place stops. *)
LEMMA FirstStop ==
  ASSUME NEW n \in Nat, NEW S, n \in S, NEW i \in 0 .. n
  PROVE  \E j \in i .. n : /\ j \in S
                           /\ \A k \in i .. j - 1 : k \notin S
<1> DEFINE T == {j \in i .. n : j \in S}
<1>1. T \subseteq Nat /\ n \in T
  OBVIOUS
<1>2. PICK j \in T : \A k \in T : j <= k
  BY <1>1, LeastNat
<1>3. QED
  BY <1>2

(* A list has every alarm in one place, and the alarms in it are those     *)
(* that are not their own successors.                                      *)
LEMMA QueuedIsListed ==
  ASSUME NEW q, NEW n, NEW c, Chain(q, n, c), NEW a \in AlarmId
  PROVE  Queued(q, a) <=> \E i \in 1 .. n : c[i] = a
<1>1. ASSUME NEW i \in 1 .. n, c[i] = a
      PROVE  q.next[a] # a
  <2>1. q.next[a] = At(n, c, i + 1) /\ n \in Nat
    BY <1>1 DEF Chain
  <2>2. CASE i + 1 \in 1 .. n
    <3>1. At(n, c, i + 1) = c[i + 1] /\ c[i + 1] # c[i]
      BY <2>1, <2>2 DEF Chain, At
    <3> QED BY <1>1, <2>1, <3>1
  <2>3. CASE i + 1 \notin 1 .. n
    BY <2>1, <2>3, NullLink DEF At
  <2> QED BY <2>2, <2>3
<1>2. (\A i \in 1 .. n : a # c[i]) => q.next[a] = a
  BY DEF Chain
<1> QED BY <1>1, <1>2 DEF Queued

(* enqueue_alarm's search: it stops at the first alarm of the list that it *)
(* does not go past.                                                       *)
LEMMA SearchStops ==
  ASSUME NEW q, NEW n, NEW c, Chain(q, n, c),
         NEW almval, NEW curval, NEW a \in AlarmId
  PROVE  LET stop[p \in Link] ==
               LET x == Behind(q, p)
               IN  IF x # ALMID_NULL /\ Passes(almval, curval, a, x)
                   THEN stop[x] ELSE p
         IN  \E j \in 0 .. n :
               /\ stop[ALMID_NULL] = At(n, c, j)
               /\ \A i \in 1 .. j : Passes(almval, curval, a, c[i])
               /\ j < n => ~ Passes(almval, curval, a, c[j + 1])
<1> DEFINE stop[p \in Link] ==
             LET x == Behind(q, p)
             IN  IF x # ALMID_NULL /\ Passes(almval, curval, a, x)
                 THEN stop[x] ELSE p
           S == {j \in 0 .. n : j < n => ~ Passes(almval, curval, a, c[j + 1])}
           Goes(p) == LET x == Behind(q, p)
                      IN  x # ALMID_NULL /\ Passes(almval, curval, a, x)
           Last(i) == CHOOSE j \in i .. n : /\ j \in S
                                            /\ \A k \in i .. j - 1 : k \notin S
           Place(p) == CHOOSE i \in 0 .. n : p = At(n, c, i)
           w == [p \in Link |-> IF \E i \in 0 .. n : p = At(n, c, i)
                                THEN At(n, c, Last(Place(p))) ELSE p]
           Good(f) == f = [p \in Link |->
                             LET x == Behind(q, p)
                             IN  IF x # ALMID_NULL /\ Passes(almval, curval, a, x)
                                 THEN f[x] ELSE p]
<1>1. /\ n \in Nat /\ n \in S
      /\ \A i \in 0 .. n : At(n, c, i) \in Link
      /\ \A i, j \in 0 .. n : At(n, c, i) = At(n, c, j) => i = j
  BY NullLink DEF Chain, At, Link
<1>2. \A i \in 0 .. n : Behind(q, At(n, c, i)) = At(n, c, i + 1)
  BY NullLink DEF Chain, At, Behind
<1>3. \A i \in 0 .. n : /\ i \in S => ~ Goes(At(n, c, i))
                        /\ i \notin S => /\ i < n /\ i + 1 \in 0 .. n
                                         /\ Goes(At(n, c, i))
  <2> TAKE i \in 0 .. n
  <2>1. CASE i < n
    <3>1. i + 1 \in 1 .. n /\ At(n, c, i + 1) = c[i + 1]
          /\ c[i + 1] # ALMID_NULL
      BY <1>1, <2>1, NullLink DEF Chain, At
    <3> QED BY <1>2, <2>1, <3>1
  <2>2. CASE i = n
    <3>1. At(n, c, i + 1) = ALMID_NULL
      BY <1>1, <2>2 DEF At
    <3> QED BY <1>2, <2>2, <3>1
  <2> QED BY <1>1, <2>1, <2>2
<1>4. \A i \in 0 .. n : /\ Last(i) \in i .. n /\ Last(i) \in S
                        /\ \A k \in i .. Last(i) - 1 : k \notin S
  <2> TAKE i \in 0 .. n
  <2> HIDE DEF S
  <2>1. \E j \in i .. n : j \in S /\ \A k \in i .. j - 1 : k \notin S
    <3>1. n \in Nat /\ n \in S
      BY <1>1
    <3> QED BY ONLY <3>1, i \in 0 .. n, FirstStop, Zenon
  <2> QED BY <2>1
<1>5. \A i \in 0 .. n : Place(At(n, c, i)) = i
  BY <1>1
<1> HIDE DEF S, Last, Place
<1>6. \A i \in 0 .. n : w[At(n, c, i)] = At(n, c, Last(i))
  BY <1>1, <1>5
<1>7. \A i \in 0 .. n : i \in S => Last(i) = i
  BY <1>4
<1>8. \A i \in 0 .. n : i \notin S => Last(i) = Last(i + 1)
  <2> SUFFICES ASSUME NEW i \in 0 .. n, i \notin S
               PROVE  Last(i) = Last(i + 1)
    OBVIOUS
  <2>1. i + 1 \in 0 .. n
    BY <1>3
  <2>2. Last(i) \in i + 1 .. n /\ Last(i) \in S
    BY <1>1, <1>4
  <2>3. Last(i + 1) \in i + 1 .. n /\ Last(i + 1) \in S
    BY <1>4, <2>1
  <2>4. ~ (Last(i) < Last(i + 1))
    BY <1>1, <1>4, <2>1, <2>2, <2>3
  <2>5. ~ (Last(i + 1) < Last(i))
    BY <1>1, <1>4, <2>1, <2>2, <2>3
  <2> QED BY <1>1, <2>2, <2>3, <2>4, <2>5
<1>9. Good(w)
  <2> SUFFICES ASSUME NEW p \in Link
               PROVE  w[p] = LET x == Behind(q, p)
                             IN  IF x # ALMID_NULL /\ Passes(almval, curval, a, x)
                                 THEN w[x] ELSE p
    OBVIOUS
  <2>1. CASE \E i \in 0 .. n : p = At(n, c, i)
    <3>1. PICK i \in 0 .. n : p = At(n, c, i)
      BY <2>1
    <3>2. CASE i \in S
      BY <1>3, <1>6, <1>7, <3>1, <3>2
    <3>3. CASE i \notin S
      <4> HIDE DEF w
      <4>1. i + 1 \in 0 .. n /\ Goes(p)
        BY <1>3, <3>1, <3>3
      <4>2. Behind(q, p) = At(n, c, i + 1)
        BY <1>2, <3>1
      <4>3. w[p] = w[At(n, c, i + 1)]
        BY <1>6, <1>8, <3>1, <3>3, <4>1
      <4> QED BY <4>1, <4>2, <4>3
    <3> QED BY <3>2, <3>3
  <2>2. CASE ~ \E i \in 0 .. n : p = At(n, c, i)
    <3>1. p # ALMID_NULL
      BY <1>1, <2>2 DEF At
    <3>2. p \in AlarmId /\ \A i \in 1 .. n : p # c[i]
      BY <1>1, <2>2, <3>1 DEF At, Link
    <3>3. Behind(q, p) = p
      BY <3>1, <3>2 DEF Chain, Behind
    <3>4. w[p] = p
      BY <2>2
    <3> QED BY <3>3, <3>4
  <2> QED BY <2>1, <2>2
<1>10. Good(stop)
  <2>1. \E f : Good(f)
    BY <1>9
  <2> QED BY <2>1
<1> HIDE DEF stop, w
<1>11. \A p \in Link : stop[p] = IF Goes(p) THEN stop[Behind(q, p)] ELSE p
  BY <1>10
<1> HIDE DEF Good, Goes
<1> DEFINE j == Last(0)
           T == {i \in 0 .. j : stop[At(n, c, i)] = At(n, c, j)}
<1>12. j \in 0 .. n /\ j \in S /\ \A k \in 0 .. j - 1 : k \notin S
  BY <1>1, <1>4
<1> HIDE DEF j
<1>13. j \in T
  BY <1>1, <1>3, <1>11, <1>12
<1>14. T \subseteq Nat
  BY <1>12
<1>15. PICK m \in T : \A i \in T : m <= i
  BY <1>13, <1>14, LeastNat
<1>16. ASSUME m # 0
       PROVE  FALSE
  <2>1. /\ m - 1 \in 0 .. j - 1 /\ m - 1 \in 0 .. n /\ m - 1 \notin S
        /\ (m - 1) + 1 = m
    BY <1>1, <1>12, <1>15, <1>16
  <2>2. stop[At(n, c, m - 1)] = stop[At(n, c, m)]
    BY <1>1, <1>2, <1>3, <1>11, <2>1
  <2>3. m - 1 \in T
    BY <1>12, <1>15, <2>1, <2>2
  <2> QED BY <1>15, <2>1, <2>3
<1>17. stop[ALMID_NULL] = At(n, c, j)
  BY <1>15, <1>16 DEF At
<1>18. \A i \in 1 .. j : Passes(almval, curval, a, c[i])
  <2> TAKE i \in 1 .. j
  <2>1. i - 1 \in 0 .. j - 1 /\ i - 1 \in 0 .. n /\ (i - 1) + 1 = i
    BY <1>1, <1>12
  <2>2. i - 1 \notin S
    BY <1>12, <2>1
  <2> QED BY <2>1, <2>2 DEF S
<1>19. j < n => ~ Passes(almval, curval, a, c[j + 1])
  BY <1>12 DEF S
<1> QED BY <1>12, <1>17, <1>18, <1>19 DEF stop

-----------------------------------------------------------------------------
(* What the two queue operations do to the list. *)

Insert(n, c, j, a) ==
  [i \in 1 .. n + 1 |-> IF i <= j THEN c[i]
                        ELSE IF i = j + 1 THEN a ELSE c[i - 1]]

Remove(n, c, k) == [i \in 1 .. n - 1 |-> IF i < k THEN c[i] ELSE c[i + 1]]

(* The links that enqueue_alarm writes between links pv and nx. *)
Spliced(q, pv, nx, a) ==
  Linked(Linked([q EXCEPT !.next[a] = nx, !.prev[a] = pv], pv, a), a, nx)

LEMMA LinksIn ==
  ASSUME NEW q \in Queue, NEW a \in AlarmId,
         NEW pv \in Link, NEW nx \in Link, pv # a, nx # a
  PROVE  LET r == Spliced(q, pv, nx, a)
         IN  /\ r \in Queue
             /\ r.head = IF pv = ALMID_NULL THEN a ELSE q.head
             /\ \A x \in AlarmId :
                  /\ r.next[x] = IF x = a THEN nx
                                 ELSE IF x = pv THEN a ELSE q.next[x]
                  /\ r.prev[x] = IF x = nx THEN a
                                 ELSE IF x = a THEN pv ELSE q.prev[x]
<1> DEFINE q1 == [q EXCEPT !.next[a] = nx, !.prev[a] = pv]
           q2 == Linked(q1, pv, a)
           r  == Linked(q2, a, nx)
<1>1. /\ a # ALMID_NULL /\ a \in Link
      /\ pv \in AlarmId \/ pv = ALMID_NULL
      /\ nx \in AlarmId \/ nx = ALMID_NULL
      /\ ALMID_NULL \notin AlarmId
  BY NullLink DEF Link
<1>2. /\ q.head \in Link
      /\ q.next \in [AlarmId -> Link]
      /\ q.prev \in [AlarmId -> Link]
  BY DEF Queue
<1>3. /\ q1.head = q.head
      /\ q1.next \in [AlarmId -> Link]
      /\ q1.prev \in [AlarmId -> Link]
      /\ \A x \in AlarmId : /\ q1.next[x] = IF x = a THEN nx ELSE q.next[x]
                            /\ q1.prev[x] = IF x = a THEN pv ELSE q.prev[x]
  BY <1>2 DEF Queue
<1> HIDE DEF q1
<1>4. /\ q2.head = IF pv = ALMID_NULL THEN a ELSE q.head
      /\ q2.head \in Link
      /\ q2.next \in [AlarmId -> Link]
      /\ q2.prev \in [AlarmId -> Link]
      /\ \A x \in AlarmId :
           /\ q2.next[x] = IF x = pv THEN a ELSE q1.next[x]
           /\ q2.prev[x] = IF x = a THEN pv ELSE q1.prev[x]
  BY <1>1, <1>2, <1>3 DEF Linked
<1> HIDE DEF q2
<1>5. /\ r.head = q2.head
      /\ r.next = [q2.next EXCEPT ![a] = nx]
      /\ r.prev = IF nx = ALMID_NULL THEN q2.prev ELSE [q2.prev EXCEPT ![nx] = a]
      /\ r = [head |-> r.head, next |-> r.next, prev |-> r.prev]
  BY <1>1 DEF Linked
<1> HIDE DEF r
<1>6. r \in Queue
  <2>1. r.next \in [AlarmId -> Link] /\ r.prev \in [AlarmId -> Link]
    BY <1>1, <1>4, <1>5
  <2> QED BY <1>4, <1>5, <2>1 DEF Queue
<1>7. \A x \in AlarmId :
        /\ r.next[x] = IF x = a THEN nx
                       ELSE IF x = pv THEN a ELSE q.next[x]
        /\ r.prev[x] = IF x = nx THEN a
                       ELSE IF x = a THEN pv ELSE q.prev[x]
  BY <1>1, <1>3, <1>4, <1>5
<1>8. r = Spliced(q, pv, nx, a)
  BY DEF Spliced, q1, q2, r
<1> QED BY <1>4, <1>5, <1>6, <1>7, <1>8

(* The links that dequeue_alarm writes. *)
LEMMA LinksOut ==
  ASSUME NEW q \in Queue, NEW a \in AlarmId,
         q.prev[a] # a, q.next[a] # a
  PROVE  LET r  == dequeue_alarm(q, a)
             pv == q.prev[a]
             nx == q.next[a]
         IN  /\ r \in Queue
             /\ r.head = IF pv = ALMID_NULL THEN nx ELSE q.head
             /\ \A x \in AlarmId :
                  /\ r.next[x] = IF x = a THEN a
                                 ELSE IF x = pv THEN nx ELSE q.next[x]
                  /\ r.prev[x] = IF x = nx THEN pv ELSE q.prev[x]
<1> DEFINE pv == q.prev[a]
           nx == q.next[a]
           q1 == Linked(q, pv, nx)
           r  == [q1 EXCEPT !.next[a] = a]
<1>1. /\ a # ALMID_NULL /\ a \in Link
      /\ pv \in Link /\ nx \in Link
      /\ pv \in AlarmId \/ pv = ALMID_NULL
      /\ nx \in AlarmId \/ nx = ALMID_NULL
      /\ ALMID_NULL \notin AlarmId
  BY NullLink DEF Link, Queue
<1>2. /\ q.head \in Link
      /\ q.next \in [AlarmId -> Link]
      /\ q.prev \in [AlarmId -> Link]
  BY DEF Queue
<1> HIDE DEF pv, nx
<1>3. /\ q1.head = IF pv = ALMID_NULL THEN nx ELSE q.head
      /\ q1.head \in Link
      /\ q1.next \in [AlarmId -> Link]
      /\ q1.prev \in [AlarmId -> Link]
      /\ q1 = [head |-> q1.head, next |-> q1.next, prev |-> q1.prev]
      /\ \A x \in AlarmId :
           /\ q1.next[x] = IF x = pv THEN nx ELSE q.next[x]
           /\ q1.prev[x] = IF x = nx THEN pv ELSE q.prev[x]
  BY <1>1, <1>2 DEF Linked
<1> HIDE DEF q1
<1>4. /\ r.head = q1.head
      /\ r.prev = q1.prev
      /\ r.next = [q1.next EXCEPT ![a] = a]
      /\ r = [head |-> r.head, next |-> r.next, prev |-> r.prev]
  BY <1>3
<1>5. r = dequeue_alarm(q, a)
  BY DEF dequeue_alarm, q1, pv, nx
<1> HIDE DEF r
<1>6. r \in Queue
  <2>1. r.next \in [AlarmId -> Link]
    BY <1>1, <1>3, <1>4
  <2> QED BY <1>3, <1>4, <2>1 DEF Queue
<1>7. \A x \in AlarmId :
        /\ r.next[x] = IF x = a THEN a
                       ELSE IF x = pv THEN nx ELSE q.next[x]
        /\ r.prev[x] = IF x = nx THEN pv ELSE q.prev[x]
  BY <1>3, <1>4
<1> QED BY <1>3, <1>4, <1>5, <1>6, <1>7 DEF pv, nx

(* Linking alarm a in behind place j of the list inserts it there. *)
LEMMA LinkedIn ==
  ASSUME NEW q, NEW n, NEW c, Chain(q, n, c),
         NEW a \in AlarmId, \A i \in 1 .. n : c[i] # a,
         NEW j \in 0 .. n, NEW r,
         r.head = IF At(n, c, j) = ALMID_NULL THEN a ELSE q.head,
         \A x \in AlarmId :
           /\ r.next[x] = IF x = a THEN At(n, c, j + 1)
                          ELSE IF x = At(n, c, j) THEN a ELSE q.next[x]
           /\ r.prev[x] = IF x = At(n, c, j + 1) THEN a
                          ELSE IF x = a THEN At(n, c, j) ELSE q.prev[x]
  PROVE  Chain(r, n + 1, Insert(n, c, j, a))
<1> DEFINE m == n + 1
           d == Insert(n, c, j, a)
<1>1. /\ n \in Nat /\ c \in [1 .. n -> AlarmId]
      /\ \A i, k \in 1 .. n : c[i] = c[k] => i = k
      /\ m \in Nat /\ ALMID_NULL \notin AlarmId
  BY NullLink DEF Chain
<1>2. /\ d \in [1 .. m -> AlarmId]
      /\ \A i \in 1 .. m : d[i] = IF i <= j THEN c[i]
                                  ELSE IF i = j + 1 THEN a ELSE c[i - 1]
  BY <1>1 DEF Insert
<1> HIDE DEF d
<1>3. \A i, k \in 1 .. m : d[i] = d[k] => i = k
  <2> SUFFICES ASSUME NEW i \in 1 .. m, NEW k \in 1 .. m, d[i] = d[k]
               PROVE  i = k
    OBVIOUS
  <2>1. /\ i <= j => i \in 1 .. n
        /\ i > j + 1 => i - 1 \in 1 .. n
        /\ k <= j => k \in 1 .. n
        /\ k > j + 1 => k - 1 \in 1 .. n
    BY <1>1
  <2>2. i <= j \/ i = j + 1 \/ i > j + 1
    BY <1>1
  <2>3. k <= j \/ k = j + 1 \/ k > j + 1
    BY <1>1
  <2> QED BY <1>1, <1>2, <2>1, <2>2, <2>3
<1>4. r.head = At(m, d, 1)
  <2>1. 1 \in 1 .. m /\ d[1] = IF 1 <= j THEN c[1] ELSE a
    BY <1>1, <1>2
  <2>2. At(n, c, j) = ALMID_NULL <=> j = 0
    BY <1>1 DEF At
  <2>3. 1 <= j => q.head = c[1]
    BY <1>1 DEF Chain, At
  <2> QED BY <1>1, <2>1, <2>2, <2>3 DEF At
<1>5. \A i \in 0 .. m : At(m, d, i) = IF i <= j THEN At(n, c, i)
                                      ELSE IF i = j + 1 THEN a
                                      ELSE At(n, c, i - 1)
  BY <1>1, <1>2 DEF At
<1>6. At(m, d, m + 1) = ALMID_NULL /\ At(n, c, n + 1) = ALMID_NULL
  BY <1>1 DEF At
<1>7. \A i \in 1 .. n : /\ q.next[c[i]] = At(n, c, i + 1)
                        /\ q.prev[c[i]] = At(n, c, i - 1)
  BY DEF Chain
<1>8. \A i \in 1 .. m : /\ r.next[d[i]] = At(m, d, i + 1)
                        /\ r.prev[d[i]] = At(m, d, i - 1)
  <2> TAKE i \in 1 .. m
  <2>1. CASE i = j + 1
    <3>1. d[i] = a /\ a \in AlarmId
      BY <1>1, <1>2, <2>1
    <3>2. r.next[a] = At(n, c, j + 1) /\ r.prev[a] = At(n, c, j)
      <4>1. At(n, c, j + 1) # a
        BY <1>1 DEF At
      <4> QED BY <4>1
    <3>3. At(m, d, i + 1) = At(n, c, j + 1)
      BY <1>1, <1>5, <1>6, <2>1 DEF At
    <3>4. At(m, d, i - 1) = At(n, c, j)
      BY <1>1, <1>5, <2>1
    <3> QED BY <3>1, <3>2, <3>3, <3>4
  <2>2. CASE i <= j
    <3>1. i \in 1 .. n /\ d[i] = c[i] /\ c[i] \in AlarmId /\ c[i] # a
      BY <1>1, <1>2, <2>2
    <3>2. c[i] = At(n, c, j) <=> i = j
      BY <1>1, <2>2, <3>1 DEF At
    <3>3. c[i] # At(n, c, j + 1)
      BY <1>1, <2>2, <3>1 DEF At
    <3>4. /\ r.next[c[i]] = IF i = j THEN a ELSE At(n, c, i + 1)
          /\ r.prev[c[i]] = At(n, c, i - 1)
      BY <1>7, <3>1, <3>2, <3>3
    <3>5. At(m, d, i - 1) = At(n, c, i - 1)
      BY <1>1, <1>5, <2>2
    <3>6. At(m, d, i + 1) = IF i = j THEN a ELSE At(n, c, i + 1)
      BY <1>1, <1>5, <2>2
    <3> QED BY <3>1, <3>4, <3>5, <3>6
  <2>3. CASE i > j + 1
    <3> DEFINE k == i - 1
    <3>1. k \in 1 .. n /\ d[i] = c[k] /\ c[k] \in AlarmId /\ c[k] # a
          /\ k + 1 = i /\ k > j
      BY <1>1, <1>2, <2>3
    <3>2. c[k] = At(n, c, j + 1) <=> k = j + 1
      <4> HIDE DEF k
      <4> QED BY <1>1, <3>1 DEF At
    <3>3. c[k] # At(n, c, j)
      <4> HIDE DEF k
      <4> QED BY <1>1, <3>1 DEF At
    <3> HIDE DEF k
    <3>4. /\ r.next[c[k]] = At(n, c, k + 1)
          /\ r.prev[c[k]] = IF k = j + 1 THEN a ELSE At(n, c, k - 1)
      BY <1>7, <3>1, <3>2, <3>3
    <3>5. At(m, d, k + 2) = At(n, c, k + 1)
      <4>1. CASE k + 2 \in 0 .. m
        BY <1>1, <1>5, <3>1, <4>1
      <4>2. CASE k + 2 \notin 0 .. m
        BY <1>1, <3>1, <4>2 DEF At
      <4> QED BY <4>1, <4>2
    <3>6. At(m, d, k) = IF k = j + 1 THEN a ELSE At(n, c, k - 1)
      BY <1>1, <1>5, <3>1
    <3>7. i + 1 = k + 2 /\ i - 1 = k
      BY <3>1
    <3> QED BY <3>1, <3>4, <3>5, <3>6, <3>7
  <2> QED BY <1>1, <2>1, <2>2, <2>3
<1>9. ASSUME NEW x \in AlarmId, \A i \in 1 .. m : x # d[i]
      PROVE  r.next[x] = x
  <2>1. x # a
    <3>1. j + 1 \in 1 .. m /\ d[j + 1] = a
      BY <1>1, <1>2
    <3> QED BY <1>9, <3>1
  <2>2. \A i \in 1 .. n : x # c[i]
    <3> TAKE i \in 1 .. n
    <3>1. CASE i <= j
      BY <1>1, <1>2, <1>9, <3>1
    <3>2. CASE i > j
      <4>1. i + 1 \in 1 .. m /\ d[i + 1] = c[i]
        BY <1>1, <1>2, <3>2
      <4> QED BY <1>9, <4>1
    <3> QED BY <1>1, <3>1, <3>2
  <2>3. x # At(n, c, j) /\ q.next[x] = x
    BY <1>1, <2>2 DEF At, Chain
  <2> QED BY <2>1, <2>3
<1> QED BY <1>1, <1>2, <1>3, <1>4, <1>8, <1>9 DEF Chain, d, m

(* enqueue_alarm inserts an alarm that is not queued in front of the first *)
(* one that its search does not go past.                                   *)
LEMMA EnqueueInserts ==
  ASSUME NEW q \in Queue, NEW n, NEW c, Chain(q, n, c),
         NEW almval, NEW curval, NEW a \in AlarmId, ~ Queued(q, a)
  PROVE  LET r == enqueue_alarm(q, almval, curval, a)
         IN  /\ r \in Queue
             /\ \E j \in 0 .. n :
                  /\ Chain(r, n + 1, Insert(n, c, j, a))
                  /\ \A i \in 1 .. j : Passes(almval, curval, a, c[i])
                  /\ j < n => ~ Passes(almval, curval, a, c[j + 1])
<1> DEFINE stop[p \in Link] ==
             LET x == Behind(q, p)
             IN  IF x # ALMID_NULL /\ Passes(almval, curval, a, x)
                 THEN stop[x] ELSE p
           pv == stop[ALMID_NULL]
           nx == Behind(q, pv)
           r  == Spliced(q, pv, nx, a)
<1>1. r = enqueue_alarm(q, almval, curval, a)
  BY DEF enqueue_alarm, Spliced
<1>2. PICK j \in 0 .. n :
        /\ stop[ALMID_NULL] = At(n, c, j)
        /\ \A i \in 1 .. j : Passes(almval, curval, a, c[i])
        /\ j < n => ~ Passes(almval, curval, a, c[j + 1])
  BY SearchStops
<1> HIDE DEF stop
<1>3. pv = At(n, c, j) /\ nx = At(n, c, j + 1)
  BY <1>2, NullLink DEF Chain, At, Behind
<1>4. \A i \in 1 .. n : c[i] # a
  BY QueuedIsListed
<1>5. pv \in Link /\ nx \in Link /\ pv # a /\ nx # a
  BY <1>3, <1>4, NullLink DEF Chain, At, Link
<1> HIDE DEF pv, nx
<1>6. /\ r \in Queue
      /\ r.head = IF pv = ALMID_NULL THEN a ELSE q.head
      /\ \A x \in AlarmId :
           /\ r.next[x] = IF x = a THEN nx
                          ELSE IF x = pv THEN a ELSE q.next[x]
           /\ r.prev[x] = IF x = nx THEN a
                          ELSE IF x = a THEN pv ELSE q.prev[x]
  BY <1>5, LinksIn
<1> HIDE DEF r
<1>7. Chain(r, n + 1, Insert(n, c, j, a))
  BY <1>3, <1>4, <1>6, LinkedIn
<1> QED BY <1>1, <1>2, <1>6, <1>7

(* dequeue_alarm takes an alarm out of the list. *)
LEMMA DequeueRemoves ==
  ASSUME NEW q \in Queue, NEW n, NEW c, Chain(q, n, c), NEW k \in 1 .. n
  PROVE  LET r == dequeue_alarm(q, c[k])
         IN  /\ r \in Queue
             /\ Chain(r, n - 1, Remove(n, c, k))
             /\ \A x \in AlarmId : Queued(r, x) <=> x # c[k] /\ Queued(q, x)
<1> DEFINE a == c[k]
           r == dequeue_alarm(q, a)
           m == n - 1
           d == Remove(n, c, k)
<1>1. /\ n \in Nat /\ c \in [1 .. n -> AlarmId] /\ k \in 1 .. n
      /\ \A i, j \in 1 .. n : c[i] = c[j] => i = j
      /\ m \in Nat /\ ALMID_NULL \notin AlarmId /\ a \in AlarmId
  BY NullLink DEF Chain
<1>2. /\ q.head = At(n, c, 1)
      /\ \A i \in 1 .. n : /\ q.next[c[i]] = At(n, c, i + 1)
                           /\ q.prev[c[i]] = At(n, c, i - 1)
  BY DEF Chain
<1>3. /\ q.next[a] = At(n, c, k + 1) /\ q.prev[a] = At(n, c, k - 1)
      /\ q.next[a] # a /\ q.prev[a] # a
  BY <1>1, <1>2 DEF At
<1>4. /\ r \in Queue
      /\ r.head = IF At(n, c, k - 1) = ALMID_NULL THEN At(n, c, k + 1)
                  ELSE q.head
      /\ \A x \in AlarmId :
           /\ r.next[x] = IF x = a THEN a
                          ELSE IF x = At(n, c, k - 1) THEN At(n, c, k + 1)
                          ELSE q.next[x]
           /\ r.prev[x] = IF x = At(n, c, k + 1) THEN At(n, c, k - 1)
                          ELSE q.prev[x]
  <2> HIDE DEF a
  <2> QED BY <1>1, <1>3, LinksOut
<1>5. /\ d \in [1 .. m -> AlarmId]
      /\ \A i \in 1 .. m : d[i] = IF i < k THEN c[i] ELSE c[i + 1]
  BY <1>1 DEF Remove
<1> HIDE DEF r, d
<1>6. \A i, j \in 1 .. m : d[i] = d[j] => i = j
  <2> SUFFICES ASSUME NEW i \in 1 .. m, NEW j \in 1 .. m, d[i] = d[j]
               PROVE  i = j
    OBVIOUS
  <2>1. /\ i \in 1 .. n /\ i + 1 \in 1 .. n
        /\ j \in 1 .. n /\ j + 1 \in 1 .. n
    BY <1>1
  <2> QED BY <1>1, <1>5, <2>1
<1>7. \A i \in 0 .. m : At(m, d, i) = IF i < k THEN At(n, c, i)
                                      ELSE At(n, c, i + 1)
  BY <1>1, <1>5 DEF At
<1>8. At(m, d, m + 1) = ALMID_NULL /\ At(n, c, n + 1) = ALMID_NULL
  BY <1>1 DEF At
<1>9. r.head = At(m, d, 1)
  <2>1. At(n, c, k - 1) = ALMID_NULL <=> k = 1
    BY <1>1 DEF At
  <2>2. At(m, d, 1) = IF 1 < k THEN At(n, c, 1) ELSE At(n, c, 2)
    BY <1>1, <1>7, <1>8 DEF At
  <2> QED BY <1>1, <1>2, <1>4, <2>1, <2>2
<1>10. \A i \in 1 .. m : /\ r.next[d[i]] = At(m, d, i + 1)
                         /\ r.prev[d[i]] = At(m, d, i - 1)
  <2> TAKE i \in 1 .. m
  <2>1. CASE i < k
    <3>1. i \in 1 .. n /\ d[i] = c[i] /\ c[i] \in AlarmId /\ c[i] # a
      BY <1>1, <1>5, <2>1
    <3>2. c[i] = At(n, c, k - 1) <=> i = k - 1
      BY <1>1, <2>1, <3>1 DEF At
    <3>3. c[i] # At(n, c, k + 1)
      BY <1>1, <2>1, <3>1 DEF At
    <3>4. /\ r.next[c[i]] = IF i = k - 1 THEN At(n, c, k + 1)
                            ELSE At(n, c, i + 1)
          /\ r.prev[c[i]] = At(n, c, i - 1)
      BY <1>2, <1>4, <3>1, <3>2, <3>3
    <3>5. At(m, d, i - 1) = At(n, c, i - 1)
      BY <1>1, <1>7, <2>1
    <3>6. At(m, d, i + 1) = IF i = k - 1 THEN At(n, c, k + 1)
                            ELSE At(n, c, i + 1)
      <4>1. CASE i + 1 \in 0 .. m
        BY <1>1, <1>7, <2>1, <4>1
      <4>2. CASE i + 1 \notin 0 .. m
        <5>1. i = m /\ k = n /\ i = k - 1
          BY <1>1, <2>1, <4>2
        <5> QED BY <1>8, <5>1
      <4> QED BY <4>1, <4>2
    <3> QED BY <3>1, <3>4, <3>5, <3>6
  <2>2. CASE ~ (i < k)
    <3> DEFINE j == i + 1
    <3>1. j \in 1 .. n /\ d[i] = c[j] /\ c[j] \in AlarmId /\ c[j] # a
          /\ i = j - 1 /\ j > k
      BY <1>1, <1>5, <2>2
    <3> HIDE DEF j
    <3>2. c[j] = At(n, c, k + 1) <=> j = k + 1
      BY <1>1, <3>1 DEF At
    <3>3. c[j] # At(n, c, k - 1)
      BY <1>1, <3>1 DEF At
    <3>4. /\ r.next[c[j]] = At(n, c, j + 1)
          /\ r.prev[c[j]] = IF j = k + 1 THEN At(n, c, k - 1)
                            ELSE At(n, c, j - 1)
      BY <1>2, <1>4, <3>1, <3>2, <3>3
    <3>5. At(m, d, i + 1) = At(n, c, j + 1)
      <4>1. CASE i + 1 \in 0 .. m
        BY <1>1, <1>7, <2>2, <3>1, <4>1
      <4>2. CASE i + 1 \notin 0 .. m
        <5>1. i = m /\ j = n
          BY <1>1, <3>1, <4>2
        <5> QED BY <1>8, <5>1
      <4> QED BY <4>1, <4>2
    <3>6. At(m, d, i - 1) = IF j = k + 1 THEN At(n, c, k - 1)
                            ELSE At(n, c, j - 1)
      BY <1>1, <1>7, <2>2, <3>1
    <3> QED BY <3>1, <3>4, <3>5, <3>6
  <2> QED BY <2>1, <2>2
<1>11. ASSUME NEW x \in AlarmId, \A i \in 1 .. m : x # d[i]
       PROVE  r.next[x] = x
  <2>1. CASE x = a
    BY <1>4, <2>1
  <2>2. CASE x # a
    <3>1. \A i \in 1 .. n : x # c[i]
      <4> TAKE i \in 1 .. n
      <4>1. CASE i < k
        BY <1>1, <1>5, <1>11, <4>1
      <4>2. CASE i > k
        <5>1. i - 1 \in 1 .. m /\ d[i - 1] = c[i]
          BY <1>1, <1>5, <4>2
        <5> QED BY <1>11, <5>1
      <4> QED BY <1>1, <2>2, <4>1, <4>2
    <3>2. x # At(n, c, k - 1) /\ q.next[x] = x
      BY <1>1, <3>1 DEF At, Chain
    <3> QED BY <1>4, <2>2, <3>2
  <2> QED BY <2>1, <2>2
<1>12. Chain(r, m, d)
  BY <1>1, <1>5, <1>6, <1>9, <1>10, <1>11 DEF Chain
<1>13. \A x \in AlarmId : Queued(r, x) <=> x # a /\ Queued(q, x)
  <2> TAKE x \in AlarmId
  <2>1. CASE x = a
    BY <1>4, <2>1 DEF Queued
  <2>2. CASE x # a /\ x # At(n, c, k - 1)
    BY <1>4, <2>2 DEF Queued
  <2>3. CASE x # a /\ x = At(n, c, k - 1)
    <3>1. k - 1 \in 1 .. n /\ x = c[k - 1] /\ q.next[x] = a
      BY <1>1, <1>2, <2>3 DEF At
    <3>2. At(n, c, k + 1) # x
      BY <1>1, <3>1 DEF At
    <3> QED BY <1>4, <2>3, <3>1, <3>2 DEF Queued
  <2> QED BY <2>1, <2>2, <2>3
<1> QED BY <1>4, <1>12, <1>13 DEF r, d

(* enqueue_alarm queues its alarm and no other. *)
LEMMA EnqueueQueues ==
  ASSUME NEW q \in Queue, NEW n, NEW c, Chain(q, n, c),
         NEW almval, NEW curval, NEW a \in AlarmId, ~ Queued(q, a),
         NEW x \in AlarmId
  PROVE  Queued(enqueue_alarm(q, almval, curval, a), x) <=>
           x = a \/ Queued(q, x)
<1> DEFINE r == enqueue_alarm(q, almval, curval, a)
<1>1. PICK j \in 0 .. n : Chain(r, n + 1, Insert(n, c, j, a))
  BY EnqueueInserts
<1> HIDE DEF r
<1> DEFINE d == Insert(n, c, j, a)
<1>2. n \in Nat /\ \A i \in 1 .. n + 1 : d[i] = IF i <= j THEN c[i]
                                 ELSE IF i = j + 1 THEN a ELSE c[i - 1]
  BY DEF Insert, Chain
<1>3. Queued(r, x) <=> \E i \in 1 .. n + 1 : d[i] = x
  BY <1>1, QueuedIsListed
<1>4. Queued(q, x) <=> \E i \in 1 .. n : c[i] = x
  BY QueuedIsListed
<1> HIDE DEF d
<1>5. ASSUME NEW i \in 1 .. n + 1, d[i] = x
      PROVE  x = a \/ \E k \in 1 .. n : c[k] = x
  BY <1>2, <1>5
<1>6. ASSUME NEW i \in 1 .. n
      PROVE  \E k \in 1 .. n + 1 : d[k] = c[i]
  <2>1. CASE i <= j
    BY <1>2, <2>1
  <2>2. CASE i > j
    <3>1. i + 1 \in 1 .. n + 1 /\ d[i + 1] = c[i]
      BY <1>2, <2>2
    <3> QED BY <3>1
  <2> QED BY <1>2, <2>1, <2>2
<1>7. j + 1 \in 1 .. n + 1 /\ d[j + 1] = a
  BY <1>2
<1> QED BY <1>3, <1>4, <1>5, <1>6, <1>7 DEF r

-----------------------------------------------------------------------------
(* The order of the list. *)

(* Ticks from counter value curval forward to the tick of an alarm. *)
Ahead(almval, curval, a) == diff_tick(almval[a], curval)

Sorted(n, c, almval, curval) ==
  \A i, j \in 1 .. n :
    i <= j => Ahead(almval, curval, c[i]) <= Ahead(almval, curval, c[j])

(* Counter values are as far apart as diff_tick says. *)
LEMMA AheadExact ==
  ASSUME NEW almval \in [AlarmId -> CounterVal], NEW curval \in CounterVal,
         NEW a \in AlarmId
  PROVE  LET v == almval[a]
             d == Ahead(almval, curval, a)
         IN  /\ v \in Nat /\ curval \in Nat /\ d \in Nat
             /\ v <= cntinib_maxval2 /\ curval <= cntinib_maxval2
             /\ d <= cntinib_maxval2 /\ d \in CounterVal
             /\ curval <= v => d = v - curval
             /\ v < curval => d = v - curval + (cntinib_maxval2 + 1)
<1> DEFINE v == almval[a]
<1>1. v \in CounterVal
  OBVIOUS
<1> HIDE DEF v
<1>2. /\ diff_tick(v, curval) \in CounterVal
      /\ curval <= v => diff_tick(v, curval) = v - curval
      /\ v < curval => diff_tick(v, curval) = v - curval + (cntinib_maxval2 + 1)
  BY <1>1, DiffTickExact
<1>3. Ahead(almval, curval, a) = diff_tick(v, curval)
  BY DEF Ahead, v
<1>4. cntinib_maxval2 \in Nat
  BY Width
<1> QED BY <1>1, <1>2, <1>3, <1>4 DEF CounterVal, v

(* enqueue_alarm's comparisons are those of the distances from the counter, *)
(* whichever of the two ticks the counter's overflow comes before.         *)
LEMMA PassesNearer ==
  ASSUME NEW almval \in [AlarmId -> CounterVal], NEW curval \in CounterVal,
         NEW a \in AlarmId, NEW x \in AlarmId,
         Ahead(almval, curval, a) >= 1
  PROVE  Passes(almval, curval, a, x) <=>
           Ahead(almval, curval, x) <= Ahead(almval, curval, a)
<1> DEFINE v  == almval[a]
           w  == almval[x]
           dv == Ahead(almval, curval, a)
           dw == Ahead(almval, curval, x)
           M  == cntinib_maxval2
<1>1. /\ v \in Nat /\ curval \in Nat /\ dv \in Nat
      /\ v <= M /\ curval <= M /\ dv <= M
      /\ curval <= v => dv = v - curval
      /\ v < curval => dv = v - curval + (M + 1)
  BY AheadExact
<1>2. /\ w \in Nat /\ dw \in Nat
      /\ w <= M /\ dw <= M
      /\ curval <= w => dw = w - curval
      /\ w < curval => dw = w - curval + (M + 1)
  BY AheadExact
<1>3. M \in Nat
  BY Width
<1>4. Passes(almval, curval, a, x) <=>
        IF curval < v THEN curval <= w /\ w <= v ELSE curval <= w \/ w <= v
  BY DEF Passes
<1> HIDE DEF v, w, dv, dw, M
<1>5. dv >= 1
  BY DEF dv
<1>6. (IF curval < v THEN curval <= w /\ w <= v ELSE curval <= w \/ w <= v)
        <=> dw <= dv
  BY <1>1, <1>2, <1>3, <1>5
<1> QED BY <1>4, <1>6 DEF dv, dw

(* So enqueue_alarm keeps the list sorted, *)
LEMMA EnqueueSorts ==
  ASSUME NEW almval \in [AlarmId -> CounterVal], NEW curval \in CounterVal,
         NEW n \in Nat, NEW c \in [1 .. n -> AlarmId],
         Sorted(n, c, almval, curval),
         NEW a \in AlarmId, Ahead(almval, curval, a) >= 1,
         NEW j \in 0 .. n,
         \A i \in 1 .. j : Passes(almval, curval, a, c[i]),
         j < n => ~ Passes(almval, curval, a, c[j + 1])
  PROVE  Sorted(n + 1, Insert(n, c, j, a), almval, curval)
<1> DEFINE D(x) == Ahead(almval, curval, x)
           d == Insert(n, c, j, a)
<1>1. \A x \in AlarmId : D(x) \in Nat
  BY AheadExact
<1>2. \A i \in 1 .. j : D(c[i]) <= D(a)
  BY PassesNearer
<1>3. j < n => ~ (D(c[j + 1]) <= D(a))
  BY PassesNearer
<1>4. \A i, k \in 1 .. n : i <= k => D(c[i]) <= D(c[k])
  BY DEF Sorted
<1>5. \A i \in 1 .. n + 1 : d[i] = IF i <= j THEN c[i]
                                   ELSE IF i = j + 1 THEN a ELSE c[i - 1]
  BY DEF Insert
<1> HIDE DEF d, D
<1>6. \A i \in j + 1 .. n : D(a) <= D(c[i])
  <2> TAKE i \in j + 1 .. n
  <2>1. j + 1 \in 1 .. n /\ i \in 1 .. n /\ j + 1 <= i /\ j < n
    OBVIOUS
  <2>2. D(c[j + 1]) <= D(c[i])
    BY <1>4, <2>1
  <2>3. D(c[j + 1]) \in Nat /\ D(c[i]) \in Nat /\ D(a) \in Nat
    BY <1>1, <2>1
  <2> QED BY <1>3, <2>1, <2>2, <2>3
<1>7. ASSUME NEW i \in 1 .. n + 1, NEW k \in 1 .. n + 1, i <= k
      PROVE  D(d[i]) <= D(d[k])
  <2>1. CASE k <= j
    BY <1>4, <1>5, <1>7, <2>1
  <2>2. CASE k = j + 1
    <3>1. d[k] = a /\ D(a) \in Nat
      BY <1>1, <1>5, <2>2
    <3>2. CASE i = k
      BY <3>1, <3>2
    <3>3. CASE i # k
      <4>1. i \in 1 .. j /\ d[i] = c[i]
        BY <1>5, <1>7, <2>2, <3>3
      <4> QED BY <1>2, <3>1, <4>1
    <3> QED BY <3>2, <3>3
  <2>3. CASE k > j + 1
    <3>1. k - 1 \in 1 .. n /\ k - 1 \in j + 1 .. n /\ d[k] = c[k - 1]
      BY <1>5, <2>3
    <3>2. CASE i <= j
      <4>1. i \in 1 .. n /\ d[i] = c[i] /\ i <= k - 1
        BY <1>5, <2>3, <3>2
      <4> QED BY <1>4, <3>1, <4>1
    <3>3. CASE i = j + 1
      <4>1. d[i] = a
        BY <1>5, <3>3
      <4> QED BY <1>6, <3>1, <4>1
    <3>4. CASE i > j + 1
      <4>1. i - 1 \in 1 .. n /\ d[i] = c[i - 1] /\ i - 1 <= k - 1
        BY <1>5, <1>7, <3>4
      <4> QED BY <1>4, <3>1, <4>1
    <3> QED BY <3>2, <3>3, <3>4
  <2> QED BY <2>1, <2>2, <2>3
<1> QED BY <1>7 DEF Sorted, D, d

(* and so does dequeue_alarm. *)
LEMMA DequeueSorts ==
  ASSUME NEW almval, NEW curval, NEW n \in Nat, NEW c,
         Sorted(n, c, almval, curval), NEW k \in 1 .. n
  PROVE  Sorted(n - 1, Remove(n, c, k), almval, curval)
<1> DEFINE d == Remove(n, c, k)
<1>1. \A i \in 1 .. n - 1 : d[i] = IF i < k THEN c[i] ELSE c[i + 1]
  BY DEF Remove
<1> HIDE DEF d
<1>2. ASSUME NEW i \in 1 .. n - 1, NEW j \in 1 .. n - 1, i <= j
      PROVE  Ahead(almval, curval, d[i]) <= Ahead(almval, curval, d[j])
  <2>1. /\ i \in 1 .. n /\ j \in 1 .. n /\ i + 1 \in 1 .. n /\ j + 1 \in 1 .. n
        /\ i + 1 <= j + 1 /\ i <= j + 1
    BY <1>2
  <2>2. CASE i < k /\ j < k
    BY <1>1, <1>2, <2>1, <2>2 DEF Sorted
  <2>3. CASE i < k /\ ~ (j < k)
    BY <1>1, <1>2, <2>1, <2>3 DEF Sorted
  <2>4. CASE ~ (i < k) /\ ~ (j < k)
    BY <1>1, <1>2, <2>1, <2>4 DEF Sorted
  <2> QED BY <1>2, <2>2, <2>3, <2>4
<1> QED BY <1>2 DEF Sorted, d

-----------------------------------------------------------------------------
(* The queue that alarm_initialize builds. *)

NoneQueued == [head |-> ALMID_NULL, next |-> [a \in AlarmId |-> a],
               prev |-> [a \in AlarmId |-> 0]]

Enlisted(q, n) == IF n - 1 \in alminib_autosta
                  THEN enqueue_alarm(q, InitialAlmval, 0, n - 1) ELSE q

(* The queue holds the first m alarms of those that start by themselves. *)
FirstQueued(q, m) ==
  /\ q \in Queue
  /\ \A a \in AlarmId : Queued(q, a) <=> a \in alminib_autosta /\ a < m
  /\ \E n, c : Chain(q, n, c) /\ Sorted(n, c, InitialAlmval, 0)

LEMMA InitialTicks ==
  /\ 0 \in CounterVal
  /\ InitialAlmval \in [AlarmId -> CounterVal]
  /\ \A a \in alminib_autosta :
       Ahead(InitialAlmval, 0, a) \in 1 .. cntinib_maxval
<1>1. /\ 0 \in CounterVal /\ 1 .. cntinib_maxval \subseteq CounterVal
  BY Width DEF CounterVal
<1>2. InitialAlmval \in [AlarmId -> CounterVal]
  BY <1>1, AlarmConfig DEF InitialAlmval
<1>3. ASSUME NEW a \in alminib_autosta
      PROVE  Ahead(InitialAlmval, 0, a) \in 1 .. cntinib_maxval
  <2> DEFINE v == InitialAlmval[a]
  <2>1. a \in AlarmId /\ v \in 1 .. cntinib_maxval
    BY AlarmConfig DEF InitialAlmval
  <2>2. v \in Nat /\ 0 <= v => Ahead(InitialAlmval, 0, a) = v - 0
    BY <1>1, <1>2, <2>1, AheadExact
  <2> HIDE DEF v
  <2> QED BY <2>1, <2>2, Width
<1> QED BY <1>1, <1>2, <1>3

LEMMA FirstQueuedNone == FirstQueued(NoneQueued, 0)
<1> DEFINE q == NoneQueued
           c == [i \in 1 .. 0 |-> 0]
<1>1. q \in Queue
  BY AlarmConfig DEF NoneQueued, Queue, Link, AlarmId
<1>2. \A a \in AlarmId : ~ Queued(q, a) /\ ~ (a < 0)
  BY AlarmConfig DEF NoneQueued, Queued, AlarmId
<1>3. Chain(q, 0, c)
  BY DEF NoneQueued, Chain, At
<1>4. Sorted(0, c, InitialAlmval, 0)
  BY DEF Sorted
<1> QED BY <1>1, <1>2, <1>3, <1>4 DEF FirstQueued

LEMMA FirstQueuedNext ==
  ASSUME NEW m \in 1 .. tnum_alarm, NEW q, FirstQueued(q, m - 1)
  PROVE  FirstQueued(Enlisted(q, m), m)
<1> DEFINE b == m - 1
<1>1. /\ q \in Queue
      /\ \A a \in AlarmId : Queued(q, a) <=> a \in alminib_autosta /\ a < b
  BY DEF FirstQueued
<1>2. PICK n, c : Chain(q, n, c) /\ Sorted(n, c, InitialAlmval, 0)
  BY DEF FirstQueued
<1>3. b \in AlarmId /\ \A a \in AlarmId : a < m <=> a < b \/ a = b
  BY AlarmConfig DEF AlarmId
<1>4. ~ Queued(q, b)
  BY <1>1, <1>3 DEF AlarmId
<1>5. CASE b \notin alminib_autosta
  <2>1. Enlisted(q, m) = q
    BY <1>5 DEF Enlisted
  <2>2. \A a \in AlarmId : Queued(q, a) <=> a \in alminib_autosta /\ a < m
    BY <1>1, <1>3, <1>5
  <2> QED BY <1>1, <1>2, <2>1, <2>2 DEF FirstQueued
<1>6. CASE b \in alminib_autosta
  <2> DEFINE r == enqueue_alarm(q, InitialAlmval, 0, b)
  <2>1. Enlisted(q, m) = r
    BY <1>6 DEF Enlisted
  <2>2. r \in Queue
    BY <1>1, <1>2, <1>3, <1>4, EnqueueInserts
  <2>3. PICK j \in 0 .. n :
          /\ Chain(r, n + 1, Insert(n, c, j, b))
          /\ \A i \in 1 .. j : Passes(InitialAlmval, 0, b, c[i])
          /\ j < n => ~ Passes(InitialAlmval, 0, b, c[j + 1])
    BY <1>1, <1>2, <1>3, <1>4, EnqueueInserts
  <2>4. Sorted(n + 1, Insert(n, c, j, b), InitialAlmval, 0)
    <3>1. n \in Nat /\ c \in [1 .. n -> AlarmId]
      BY <1>2 DEF Chain
    <3>2. Ahead(InitialAlmval, 0, b) >= 1
      BY <1>6, InitialTicks
    <3> HIDE DEF b
    <3> QED BY <1>2, <1>3, <2>3, <3>1, <3>2, InitialTicks, EnqueueSorts
  <2>5. \A a \in AlarmId : Queued(r, a) <=> a = b \/ Queued(q, a)
    BY <1>1, <1>2, <1>3, <1>4, EnqueueQueues
  <2>6. \A a \in AlarmId : Queued(r, a) <=> a \in alminib_autosta /\ a < m
    <3> HIDE DEF b, r
    <3> QED BY <1>1, <1>3, <1>6, <2>5
  <2> HIDE DEF r
  <2> QED BY <2>1, <2>2, <2>3, <2>4, <2>6 DEF FirstQueued
<1> QED BY <1>5, <1>6

LEMMA InitialQueueOK == FirstQueued(InitialQueue, tnum_alarm)
<1> DEFINE T == tnum_alarm
           upto[n \in 0 .. T] == IF n = 0 THEN NoneQueued
                                 ELSE Enlisted(upto[n - 1], n)
           Good(f, m) == f = [n \in 0 .. m |-> IF n = 0 THEN NoneQueued
                                               ELSE Enlisted(f[n - 1], n)]
<1>1. InitialQueue = upto[T]
  BY DEF InitialQueue, NoneQueued, Enlisted
<1>2. T \in Nat /\ T >= 1
  BY AlarmConfig
<1>3. \A m \in Nat : \E f : Good(f, m)
  <2> DEFINE S == {m \in Nat : ~ \E f : Good(f, m)}
  <2> SUFFICES ASSUME S # {}
               PROVE  FALSE
    OBVIOUS
  <2>1. S \subseteq Nat
    OBVIOUS
  <2>2. PICK m \in S : \A k \in S : m <= k
    <3> HIDE DEF S
    <3> QED BY <2>1, LeastNat
  <2>3. CASE m = 0
    <3> DEFINE g == [n \in 0 .. 0 |-> NoneQueued]
    <3>1. Good(g, 0)
      OBVIOUS
    <3> HIDE DEF g, Good
    <3> QED BY <2>3, <3>1
  <2>4. CASE m # 0
    <3>1. m - 1 \in Nat /\ m - 1 \notin S
      <4> HIDE DEF S
      <4> QED BY <2>1, <2>2, <2>4
    <3>2. PICK f : Good(f, m - 1)
      BY <3>1
    <3> DEFINE g == [n \in 0 .. m |-> IF n = m THEN Enlisted(f[m - 1], m)
                                      ELSE f[n]]
    <3>3. \A n \in 0 .. m : g[n] = IF n = 0 THEN NoneQueued
                                   ELSE Enlisted(g[n - 1], n)
      <4> TAKE n \in 0 .. m
      <4>1. CASE n = m
        BY <2>4, <4>1
      <4>2. CASE n # m
        <5>1. n \in 0 .. m - 1 /\ (n # 0 => n - 1 \in 0 .. m /\ n - 1 # m)
          BY <4>2
        <5>2. f[n] = IF n = 0 THEN NoneQueued ELSE Enlisted(f[n - 1], n)
          BY <3>2, <5>1
        <5> QED BY <4>2, <5>1, <5>2
      <4> QED BY <4>1, <4>2
    <3>4. g = [n \in 0 .. m |-> g[n]]
      OBVIOUS
    <3> HIDE DEF g
    <3>5. Good(g, m)
      BY <3>3, <3>4
    <3> HIDE DEF Good
    <3> QED BY <3>5
  <2> QED BY <2>3, <2>4
<1>4. Good(upto, T)
  <2>1. \E f : Good(f, T)
    BY <1>2, <1>3
  <2> QED BY <2>1
<1> HIDE DEF upto
<1>5. \A n \in 0 .. T : upto[n] = IF n = 0 THEN NoneQueued
                                  ELSE Enlisted(upto[n - 1], n)
  BY <1>4
<1> HIDE DEF Good
<1> DEFINE S == {m \in 0 .. T : ~ FirstQueued(upto[m], m)}
<1>6. ASSUME S # {}
      PROVE  FALSE
  <2>1. S \subseteq Nat
    OBVIOUS
  <2>2. PICK m \in S : \A k \in S : m <= k
    <3> HIDE DEF S
    <3> QED BY <1>6, <2>1, LeastNat
  <2>3. m # 0
    BY <1>5, FirstQueuedNone
  <2>4. m - 1 \in 0 .. T /\ m - 1 \notin S /\ m \in 1 .. T
    BY <1>2, <2>2, <2>3
  <2>5. FirstQueued(upto[m - 1], m - 1)
    BY <2>4
  <2>6. upto[m] = Enlisted(upto[m - 1], m)
    BY <1>5, <2>3, <2>4
  <2> QED BY <2>4, <2>5, <2>6, FirstQueuedNext
<1>7. T \in 0 .. T /\ T \notin S
  BY <1>2, <1>6
<1> QED BY <1>1, <1>7

-----------------------------------------------------------------------------
(* The inductive invariant: the types, a queue that is a list, and every   *)
(* periodic alarm in it or in its callback.                                *)

IsList == \E n, c : Chain(almque, n, c)

IInv == TypeOK /\ IsList /\ PeriodicStays

(* What the head of SignalCounter's loop does to a queue. *)
LEMMA FirstOut ==
  ASSUME NEW q \in Queue, NEW n, NEW c, Chain(q, n, c),
         NEW almval, NEW val, ExpireFirst(q, almval, val)
  PROVE  /\ newval' = val
         /\ \/ /\ 1 \in 1 .. n
               /\ diff_tick(val, almval[c[1]]) <= cntinib_maxval
               /\ almque' = dequeue_alarm(q, c[1])
               /\ almid' = c[1]
            \/ /\ almque' = q
               /\ almid' = ALMID_NULL
               /\ 1 \in 1 .. n =>
                    ~ (diff_tick(val, almval[c[1]]) <= cntinib_maxval)
<1>1. /\ q.head = At(n, c, 1) /\ n \in Nat
      /\ 1 \in 1 .. n => /\ q.prev[c[1]] = ALMID_NULL
                         /\ c[1] \in AlarmId /\ q.head = c[1]
  BY DEF Chain, At
<1>2. q.head # ALMID_NULL <=> 1 \in 1 .. n
  BY <1>1, NullLink DEF At
<1>3. 1 \in 1 .. n =>
        [Linked(q, ALMID_NULL, q.next[c[1]]) EXCEPT !.next[c[1]] = c[1]]
          = dequeue_alarm(q, c[1])
  BY <1>1 DEF dequeue_alarm
<1> QED BY <1>1, <1>2, <1>3 DEF ExpireFirst

(* So it keeps a list, and an alarm that it takes out is in its callback. *)
LEMMA ExpireKeepsList ==
  ASSUME NEW q \in Queue, \E n, c : Chain(q, n, c),
         NEW almval, NEW val, ExpireFirst(q, almval, val)
  PROVE  /\ newval' = val /\ almque' \in Queue /\ IsList' /\ almid' \in Link
         /\ \A x \in AlarmId : Queued(q, x) => Queued(almque', x) \/ almid' = x
<1>1. PICK n, c : Chain(q, n, c)
  OBVIOUS
<1>2. CASE /\ 1 \in 1 .. n
           /\ almque' = dequeue_alarm(q, c[1])
           /\ almid' = c[1]
  <2>1. /\ almque' \in Queue
        /\ Chain(almque', n - 1, Remove(n, c, 1))
        /\ \A x \in AlarmId : Queued(almque', x) <=> x # c[1] /\ Queued(q, x)
    BY <1>1, <1>2, DequeueRemoves
  <2>2. c[1] \in Link
    BY <1>1, <1>2 DEF Chain, Link
  <2>3. newval' = val
    BY <1>1, FirstOut
  <2>4. IsList'
    BY <2>1 DEF IsList
  <2> QED BY <1>2, <2>1, <2>2, <2>3, <2>4
<1>3. CASE almque' = q /\ almid' = ALMID_NULL
  <2>1. newval' = val
    BY <1>1, FirstOut
  <2> QED BY <1>1, <1>3, <2>1 DEF IsList, Link
<1> QED BY <1>1, <1>2, <1>3, FirstOut

(* An alarm that is set joins the list, *)
LEMMA SetKeepsList ==
  ASSUME NEW q \in Queue, \E n, c : Chain(q, n, c),
         NEW almval, NEW curval, NEW a \in AlarmId, ~ Queued(q, a)
  PROVE  LET r == enqueue_alarm(q, almval, curval, a)
         IN  /\ r \in Queue /\ \E n, c : Chain(r, n, c)
             /\ \A x \in AlarmId : Queued(r, x) <=> x = a \/ Queued(q, x)
BY EnqueueInserts, EnqueueQueues

LEMMA InitInv == Init => IInv
<1> SUFFICES ASSUME Init
             PROVE  IInv
  OBVIOUS
<1>1. FirstQueued(almque, tnum_alarm)
  BY InitialQueueOK DEF Init
<1>2. TypeOK
  <2>1. almque \in Queue
    BY <1>1 DEF FirstQueued
  <2>2. almcb_cycle \in [AlarmId -> Cycle]
    BY AlarmConfig DEF Init, Cycle
  <2> QED BY <2>1, <2>2, InitialTicks DEF Init, TypeOK, Link
<1>3. IsList
  BY <1>1 DEF FirstQueued, IsList
<1>4. PeriodicStays
  <2>1. \A a \in AlarmId : a < tnum_alarm
    BY AlarmConfig DEF AlarmId
  <2>2. \A a \in AlarmId : almcb_cycle[a] > 0 => a \in alminib_autosta
    BY DEF Init
  <2> QED BY <1>1, <2>1, <2>2 DEF FirstQueued, PeriodicStays
<1> QED BY <1>2, <1>3, <1>4 DEF IInv

LEMMA SetInv ==
  ASSUME IInv, NEW a \in AlarmId, NEW v \in CounterVal, NEW cycle \in Cycle,
         SetAlarm(a, v, cycle)
  PROVE  IInv'
<1>1. /\ almque \in Queue /\ ~ Queued(almque, a)
      /\ almque' = enqueue_alarm(almque, almcb_almval', cntcb_curval, a)
      /\ \E n, c : Chain(almque, n, c)
  BY DEF IInv, TypeOK, IsList, SetAlarm
<1>2. /\ almque' \in Queue /\ \E n, c : Chain(almque', n, c)
      /\ \A x \in AlarmId : Queued(almque', x) <=> x = a \/ Queued(almque, x)
  <2> DEFINE av == almcb_almval'
  <2> HIDE DEF av
  <2>1. almque' = enqueue_alarm(almque, av, cntcb_curval, a)
    BY <1>1 DEF av
  <2> QED BY <1>1, <2>1, SetKeepsList
<1>3. /\ almcb_almval' = [almcb_almval EXCEPT ![a] = v]
      /\ almcb_cycle' = [almcb_cycle EXCEPT ![a] = cycle]
      /\ UNCHANGED <<cntcb_curval, newval, almid>>
  BY DEF SetAlarm
<1>4. TypeOK'
  BY <1>2, <1>3 DEF IInv, TypeOK
<1>5. PeriodicStays'
  <2> SUFFICES ASSUME NEW x \in AlarmId, almcb_cycle'[x] > 0
               PROVE  Queued(almque', x) \/ almid' = x
    BY DEF PeriodicStays, Queued
  <2>1. CASE x = a
    BY <1>2, <2>1
  <2>2. CASE x # a
    <3>1. almcb_cycle'[x] = almcb_cycle[x]
      BY <1>3, <2>2 DEF IInv, TypeOK
    <3> QED BY <1>2, <1>3, <3>1 DEF IInv, PeriodicStays
  <2> QED BY <2>1, <2>2
<1> QED BY <1>2, <1>4, <1>5 DEF IInv, IsList

LEMMA CancelInv ==
  ASSUME IInv, NEW a \in AlarmId, CancelAlarm(a)
  PROVE  IInv'
<1>1. PICK n, c : Chain(almque, n, c)
  BY DEF IInv, IsList
<1>2. PICK k \in 1 .. n : c[k] = a
  BY <1>1, QueuedIsListed DEF CancelAlarm
<1>3. /\ almque' \in Queue /\ Chain(almque', n - 1, Remove(n, c, k))
      /\ \A x \in AlarmId : Queued(almque', x) <=> x # a /\ Queued(almque, x)
  BY <1>1, <1>2, DequeueRemoves DEF CancelAlarm, IInv, TypeOK
<1>4. /\ almcb_cycle' = [almcb_cycle EXCEPT ![a] = 0]
      /\ UNCHANGED <<cntcb_curval, almcb_almval, newval, almid>>
  BY DEF CancelAlarm
<1>5. TypeOK'
  BY <1>3, <1>4 DEF IInv, TypeOK, Cycle
<1>6. PeriodicStays'
  <2> SUFFICES ASSUME NEW x \in AlarmId, almcb_cycle'[x] > 0
               PROVE  Queued(almque', x) \/ almid' = x
    BY DEF PeriodicStays, Queued
  <2>1. x # a /\ almcb_cycle'[x] = almcb_cycle[x]
    BY <1>4 DEF IInv, TypeOK
  <2> QED BY <1>3, <1>4, <2>1 DEF IInv, PeriodicStays
<1> QED BY <1>3, <1>5, <1>6 DEF IInv, IsList

LEMMA SignalInv ==
  ASSUME IInv, SignalCounter
  PROVE  IInv'
<1>1. /\ almque \in Queue /\ \E n, c : Chain(almque, n, c)
      /\ almid = ALMID_NULL
      /\ ExpireFirst(almque, almcb_almval, cntcb_curval')
      /\ UNCHANGED <<almcb_almval, almcb_cycle>>
  BY DEF IInv, TypeOK, IsList, SignalCounter
<1>2. cntcb_curval' \in CounterVal
  <2>1. cntinib_tickbase \in CounterVal
    BY Width, AlarmConfig DEF CounterVal
  <2> QED BY <2>1, AddTickExact DEF IInv, TypeOK, SignalCounter
<1>3. /\ newval' = cntcb_curval' /\ almque' \in Queue /\ IsList'
      /\ almid' \in Link
      /\ \A x \in AlarmId : Queued(almque, x) => Queued(almque', x) \/ almid' = x
  <2> DEFINE val == cntcb_curval'
  <2> HIDE DEF val
  <2>1. ExpireFirst(almque, almcb_almval, val)
    BY <1>1 DEF val
  <2> QED BY <1>1, <2>1, ExpireKeepsList DEF val
<1>4. TypeOK'
  BY <1>1, <1>2, <1>3 DEF IInv, TypeOK
<1>5. PeriodicStays'
  <2> SUFFICES ASSUME NEW x \in AlarmId, almcb_cycle'[x] > 0
               PROVE  Queued(almque', x) \/ almid' = x
    BY DEF PeriodicStays, Queued
  <2>1. Queued(almque, x)
    BY <1>1, NullLink DEF IInv, PeriodicStays
  <2> QED BY <1>3, <2>1
<1> QED BY <1>3, <1>4, <1>5 DEF IInv

(* What the callback's return puts back, and where. *)
Requeued == ~ Queued(almque, almid) /\ almcb_cycle[almid] > 0

AlmvalNext == IF Requeued
              THEN [almcb_almval EXCEPT ![almid] = add_tick(@, almcb_cycle[almid])]
              ELSE almcb_almval

AlmqueNext == IF Requeued
              THEN enqueue_alarm(almque, AlmvalNext, cntcb_curval, almid)
              ELSE almque

LEMMA CallbackSteps ==
  ASSUME IInv, CallbackReturn
  PROVE  /\ almid \in AlarmId
         /\ almcb_almval' = AlmvalNext
         /\ ExpireFirst(AlmqueNext, AlmvalNext, newval)
         /\ UNCHANGED <<cntcb_curval, almcb_cycle>>
         /\ AlmvalNext \in [AlarmId -> CounterVal]
         /\ AlmqueNext \in Queue /\ \E n, c : Chain(AlmqueNext, n, c)
         /\ \A x \in AlarmId : Queued(AlmqueNext, x) <=>
                                 \/ Requeued /\ x = almid
                                 \/ Queued(almque, x)
<1>1. /\ almid \in AlarmId /\ almque \in Queue
      /\ \E n, c : Chain(almque, n, c)
      /\ almcb_almval \in [AlarmId -> CounterVal]
      /\ almcb_cycle[almid] \in CounterVal
      /\ almcb_almval[almid] \in CounterVal
  BY Width, AlarmConfig
     DEF IInv, TypeOK, IsList, CallbackReturn, Link, Cycle, CounterVal
<1>2. add_tick(almcb_almval[almid], almcb_cycle[almid]) \in CounterVal
  BY <1>1, AddTickExact
<1>3. AlmvalNext \in [AlarmId -> CounterVal]
  BY <1>1, <1>2 DEF AlmvalNext
<1>4. /\ almcb_almval' = AlmvalNext
      /\ ExpireFirst(AlmqueNext, AlmvalNext, newval)
      /\ UNCHANGED <<cntcb_curval, almcb_cycle>>
  BY DEF CallbackReturn, AlmvalNext, AlmqueNext, Requeued
<1>5. /\ AlmqueNext \in Queue /\ \E n, c : Chain(AlmqueNext, n, c)
      /\ \A x \in AlarmId : Queued(AlmqueNext, x) <=>
                              \/ Requeued /\ x = almid
                              \/ Queued(almque, x)
  <2>1. CASE Requeued
    <3>1. AlmqueNext = enqueue_alarm(almque, AlmvalNext, cntcb_curval, almid)
      BY <2>1 DEF AlmqueNext
    <3>2. ~ Queued(almque, almid)
      BY <2>1 DEF Requeued
    <3> QED BY <1>1, <2>1, <3>1, <3>2, SetKeepsList
  <2>2. CASE ~ Requeued
    BY <1>1, <2>2 DEF AlmqueNext
  <2> QED BY <2>1, <2>2
<1> QED BY <1>1, <1>3, <1>4, <1>5

LEMMA CallbackInv ==
  ASSUME IInv, CallbackReturn
  PROVE  IInv'
<1>1. /\ almid \in AlarmId
      /\ almcb_almval' = AlmvalNext
      /\ UNCHANGED <<cntcb_curval, almcb_cycle>>
      /\ AlmvalNext \in [AlarmId -> CounterVal]
      /\ \A x \in AlarmId : Queued(AlmqueNext, x) <=>
                              \/ Requeued /\ x = almid
                              \/ Queued(almque, x)
  BY CallbackSteps
<1>2. /\ newval' = newval /\ almque' \in Queue /\ IsList' /\ almid' \in Link
      /\ \A x \in AlarmId :
           Queued(AlmqueNext, x) => Queued(almque', x) \/ almid' = x
  <2>1. /\ AlmqueNext \in Queue /\ \E n, c : Chain(AlmqueNext, n, c)
        /\ ExpireFirst(AlmqueNext, AlmvalNext, newval)
    BY CallbackSteps
  <2> QED BY <2>1, ExpireKeepsList
<1>3. TypeOK'
  BY <1>1, <1>2 DEF IInv, TypeOK
<1>4. PeriodicStays'
  <2> SUFFICES ASSUME NEW x \in AlarmId, almcb_cycle'[x] > 0
               PROVE  Queued(almque', x) \/ almid' = x
    BY DEF PeriodicStays, Queued
  <2>1. Queued(almque, x) \/ almid = x
    BY <1>1 DEF IInv, PeriodicStays
  <2>2. Queued(AlmqueNext, x)
    BY <1>1, <2>1 DEF Requeued
  <2> QED BY <1>2, <2>2
<1> QED BY <1>2, <1>3, <1>4 DEF IInv

(* The tick of a service is one of the counter's. *)
LEMMA SetTicks ==
  ASSUME IInv
  PROVE  /\ \A incr \in 1 .. cntinib_maxval :
              add_tick(cntcb_curval, incr) \in CounterVal
         /\ \A start \in 0 .. cntinib_maxval : AbsTick(start) \in CounterVal
<1>1. cntcb_curval \in CounterVal
  BY DEF IInv, TypeOK
<1>2. 1 .. cntinib_maxval \subseteq CounterVal
  BY Width DEF CounterVal
<1> QED BY <1>1, <1>2, AddTickExact, AbsTickAhead

LEMMA NextInv == IInv /\ [Next]_vars => IInv'
<1> SUFFICES ASSUME IInv, [Next]_vars
             PROVE  IInv'
  OBVIOUS
<1>1. ASSUME NEW a \in AlarmId, NEW incr \in 1 .. cntinib_maxval,
             NEW cycle \in Cycle, SetRelAlarm(a, incr, cycle)
      PROVE  IInv'
  BY <1>1, SetInv, SetTicks DEF SetRelAlarm
<1>2. ASSUME NEW a \in AlarmId, NEW start \in 0 .. cntinib_maxval,
             NEW cycle \in Cycle, SetAbsAlarm(a, start, cycle)
      PROVE  IInv'
  BY <1>2, SetInv, SetTicks DEF SetAbsAlarm
<1>3. ASSUME NEW a \in AlarmId, CancelAlarm(a)
      PROVE  IInv'
  BY <1>3, CancelInv
<1>4. CASE SignalCounter
  BY <1>4, SignalInv
<1>5. CASE CallbackReturn
  BY <1>5, CallbackInv
<1>6. CASE UNCHANGED vars
  BY <1>6 DEF vars, IInv, TypeOK, IsList, PeriodicStays, Queued
<1> QED BY <1>1, <1>2, <1>3, <1>4, <1>5, <1>6 DEF Next

(* The state of the alarms stays within its types: every tick is one of    *)
(* the counter's, and links lead to alarms or nowhere.                     *)
THEOREM AlarmTypes == Spec => []TypeOK
<1>1. IInv => TypeOK
  BY DEF IInv
<1> QED BY <1>1, InitInv, NextInv, PTL DEF Spec

(* No periodic alarm is lost, whatever callbacks and handlers set, cancel  *)
(* or leave alone.                                                         *)
THEOREM PeriodicAlarmsStay == Spec => []PeriodicStays
<1>1. IInv => PeriodicStays
  BY DEF IInv
<1> QED BY <1>1, InitInv, NextInv, PTL DEF Spec

(* Following next from a place of the list leads to those behind it. *)
LEMMA LeadsFurther ==
  ASSUME NEW q, NEW n, NEW c, Chain(q, n, c),
         NEW k \in 1 .. n + 1, NEW a \in AlarmId
  PROVE  Leads(q, At(n, c, k), a) <=> \E i \in k .. n : c[i] = a
<1>1. /\ n \in Nat /\ c \in [1 .. n -> AlarmId]
      /\ \A i, j \in 1 .. n : c[i] = c[j] => i = j
      /\ \A i \in 1 .. n : q.next[c[i]] = At(n, c, i + 1)
  BY DEF Chain
<1>2. ASSUME ~ \E i \in k .. n : c[i] = a
      PROVE  ~ Leads(q, At(n, c, k), a)
  <2> DEFINE S == {c[i] : i \in k .. n}
  <2>1. S \in SUBSET (AlarmId \ {a})
    BY <1>1, <1>2
  <2>2. \A i \in k .. n + 1 : At(n, c, i) \in S \cup {ALMID_NULL}
    BY <1>1 DEF At
  <2>3. \A b \in S : q.next[b] \in S \cup {ALMID_NULL}
    <3> TAKE b \in S
    <3>1. PICK i \in k .. n : b = c[i]
      OBVIOUS
    <3>2. q.next[b] = At(n, c, i + 1) /\ i + 1 \in k .. n + 1
      BY <1>1, <3>1
    <3> HIDE DEF S
    <3> QED BY <2>2, <3>2
  <2>4. k \in k .. n + 1
    BY <1>1
  <2> HIDE DEF S
  <2> QED BY <2>1, <2>2, <2>3, <2>4 DEF Leads
<1>3. ASSUME NEW i \in k .. n, c[i] = a, ~ Leads(q, At(n, c, k), a)
      PROVE  FALSE
  <2>1. PICK S \in SUBSET (AlarmId \ {a}) :
          /\ At(n, c, k) \in S \cup {ALMID_NULL}
          /\ \A b \in S : q.next[b] \in S \cup {ALMID_NULL}
    BY <1>3, Zenon DEF Leads
  <2> DEFINE T == {j \in k .. i : c[j] \notin S}
  <2>2. i \in T /\ T \subseteq Nat
    BY <1>1, <1>3, <2>1
  <2>3. PICK m \in T : \A j \in T : m <= j
    BY <2>2, LeastNat
  <2>4. m \in k .. i /\ m \in 1 .. n /\ c[m] \notin S /\ i \in 1 .. n
    BY <1>1, <2>3
  <2>5. m # k
    BY <1>1, <2>1, <2>4, NullLink DEF At
  <2>6. m - 1 \in k .. i /\ m - 1 \in 1 .. n /\ m - 1 \notin T
    <3> HIDE DEF T
    <3>1. m - 1 \in k .. i /\ m - 1 \in 1 .. n
      BY <1>1, <2>4, <2>5
    <3> QED BY <2>2, <2>3, <2>4, <3>1
  <2>7. c[m - 1] \in S
    BY <2>6
  <2>8. q.next[c[m - 1]] = c[m] /\ c[m] \in AlarmId
    BY <1>1, <2>4, <2>6 DEF At
  <2> QED BY <2>1, <2>4, <2>7, <2>8, NullLink
<1> QED BY <1>2, <1>3

(* The queue is one chain, whatever order alarms are set, cancelled and    *)
(* expire in: no alarm is inserted twice and no link is left behind.       *)
THEOREM QueueStaysChain == Spec => []QueueIsChain
<1>1. IInv => QueueIsChain
  <2> SUFFICES ASSUME IInv
               PROVE  QueueIsChain
    OBVIOUS
  <2> DEFINE q == almque
  <2>1. PICK n, c : Chain(q, n, c)
    BY DEF IInv, IsList
  <2>2. /\ n \in Nat /\ c \in [1 .. n -> AlarmId]
        /\ \A i, j \in 1 .. n : c[i] = c[j] => i = j
        /\ q.head = At(n, c, 1)
        /\ \A i \in 1 .. n : /\ q.next[c[i]] = At(n, c, i + 1)
                             /\ q.prev[c[i]] = At(n, c, i - 1)
    BY <2>1 DEF Chain
  <2> HIDE DEF q
  <2>3. \A a \in AlarmId : Leads(q, q.head, a) <=> \E i \in 1 .. n : c[i] = a
    <3>1. 1 \in 1 .. n + 1
      BY <2>2
    <3>2. \A a \in AlarmId :
            Leads(q, At(n, c, 1), a) <=> \E i \in 1 .. n : c[i] = a
      <4> SUFFICES ASSUME NEW a \in AlarmId
                   PROVE  Leads(q, At(n, c, 1), a) <=> \E i \in 1 .. n : c[i] = a
        OBVIOUS
      <4>1. \A k \in 1 .. n + 1 :
              Leads(q, At(n, c, k), a) <=> \E i \in k .. n : c[i] = a
        BY ONLY <2>1, a \in AlarmId, LeadsFurther
      <4> QED BY ONLY <3>1, <4>1
    <3> QED BY <2>2, <3>2
  <2>4. \A a \in AlarmId : Queued(q, a) <=> \E i \in 1 .. n : c[i] = a
    BY <2>1, QueuedIsListed
  <2>5. Reached(q) = {a \in AlarmId : Queued(q, a)}
    BY <2>3, <2>4 DEF Reached
  <2>6. \A a \in Reached(q) : \E i \in 1 .. n : c[i] = a
    BY <2>3 DEF Reached
  <2>7. ASSUME NEW i \in 1 .. n
        PROVE  Behind(q, q.prev[c[i]]) = c[i] /\ c[i] # Behind(q, c[i])
    <3>1. Behind(q, q.prev[c[i]]) = c[i]
      <4>1. CASE i = 1
        BY <2>2, <4>1 DEF At, Behind
      <4>2. CASE i # 1
        <5>1. i - 1 \in 1 .. n /\ (i - 1) + 1 = i
          BY <2>2, <4>2
        <5>2. q.prev[c[i]] = c[i - 1] /\ c[i - 1] # ALMID_NULL
          BY <2>2, <5>1, NullLink DEF At
        <5>3. q.next[c[i - 1]] = c[i]
          BY <2>2, <5>1 DEF At
        <5> QED BY <5>2, <5>3 DEF Behind
      <4> QED BY <4>1, <4>2
    <3>2. c[i] # At(n, c, i + 1)
      BY <2>2, NullLink DEF At
    <3> QED BY <2>2, <3>1, <3>2, NullLink DEF Behind
  <2>8. ASSUME NEW i \in 1 .. n, NEW j \in 1 .. n, q.next[c[i]] = q.next[c[j]]
        PROVE  i = j
    BY <2>2, <2>8, NullLink DEF At
  <2> QED BY <2>5, <2>6, <2>7, <2>8 DEF QueueIsChain, q
<1> QED BY <1>1, InitInv, NextInv, PTL DEF Spec

-----------------------------------------------------------------------------
(* With TICKSPERBASE 1 the list is ordered by the ticks that are left, and *)
(* an alarm leaves it exactly when it has none.                            *)

InOrder(q, almval, val) ==
  /\ \E n, c : Chain(q, n, c) /\ Sorted(n, c, almval, val)
  /\ \A a \in AlarmId :
       Queued(q, a) => Ahead(almval, val, a) <= cntinib_maxval + 1

(* None is due in between ticks, and a periodic alarm in its callback, which *)
(* is to go back, is due now.                                               *)
OrderInv ==
  /\ newval = cntcb_curval
  /\ InOrder(almque, almcb_almval, cntcb_curval)
  /\ almid = ALMID_NULL =>
       \A a \in AlarmId :
         Queued(almque, a) => Ahead(almcb_almval, cntcb_curval, a) >= 1
  /\ (almid # ALMID_NULL /\ Requeued) => almcb_almval[almid] = cntcb_curval

(* An alarm that is set takes its place in the order. *)
LEMMA SetInOrder ==
  ASSUME NEW q \in Queue, NEW almval \in [AlarmId -> CounterVal],
         NEW val \in CounterVal, InOrder(q, almval, val),
         NEW a \in AlarmId, ~ Queued(q, a),
         NEW av \in [AlarmId -> CounterVal],
         \A x \in AlarmId \ {a} : av[x] = almval[x],
         Ahead(av, val, a) \in 1 .. cntinib_maxval + 1
  PROVE  /\ InOrder(enqueue_alarm(q, av, val, a), av, val)
         /\ \A x \in AlarmId \ {a} : Ahead(av, val, x) = Ahead(almval, val, x)
<1> DEFINE r == enqueue_alarm(q, av, val, a)
<1>1. /\ av \in [AlarmId -> CounterVal]
      /\ Ahead(av, val, a) \in 1 .. cntinib_maxval + 1
      /\ \A x \in AlarmId \ {a} : Ahead(av, val, x) = Ahead(almval, val, x)
  BY DEF Ahead
<1>2. PICK n, c : Chain(q, n, c) /\ Sorted(n, c, almval, val)
  BY DEF InOrder
<1>3. n \in Nat /\ c \in [1 .. n -> AlarmId] /\ \A i \in 1 .. n : c[i] # a
  <2>1. ~ \E i \in 1 .. n : c[i] = a
    BY ONLY <1>2, a \in AlarmId, ~ Queued(q, a), QueuedIsListed
  <2> QED BY <1>2, <2>1 DEF Chain
<1>4. Sorted(n, c, av, val)
  BY <1>1, <1>2, <1>3 DEF Sorted
<1>5. PICK j \in 0 .. n :
        /\ Chain(r, n + 1, Insert(n, c, j, a))
        /\ \A i \in 1 .. j : Passes(av, val, a, c[i])
        /\ j < n => ~ Passes(av, val, a, c[j + 1])
  BY <1>2, EnqueueInserts
<1>6. Sorted(n + 1, Insert(n, c, j, a), av, val)
  <2>1. Ahead(av, val, a) >= 1
    BY <1>1
  <2> QED BY ONLY <1>1, <1>3, <1>4, <1>5, <2>1, a \in AlarmId,
                  val \in CounterVal, EnqueueSorts
<1>7. \A x \in AlarmId : Queued(r, x) <=> x = a \/ Queued(q, x)
  BY <1>2, EnqueueQueues
<1> HIDE DEF r
<1>8. \A x \in AlarmId :
        Queued(r, x) => Ahead(av, val, x) <= cntinib_maxval + 1
  <2>1. \A x \in AlarmId :
          Queued(q, x) => Ahead(almval, val, x) <= cntinib_maxval + 1
    BY DEF InOrder
  <2>2. Ahead(av, val, a) <= cntinib_maxval + 1
    BY <1>1, Width
  <2> QED BY ONLY <1>1, <1>7, <2>1, <2>2
<1> QED BY <1>1, <1>5, <1>6, <1>8 DEF InOrder, r

(* SignalCounter's test of an alarm that is set at most maxval + 1 ahead. *)
LEMMA DueExact ==
  ASSUME NEW almval \in [AlarmId -> CounterVal], NEW val \in CounterVal,
         NEW a \in AlarmId, Ahead(almval, val, a) <= cntinib_maxval + 1
  PROVE  diff_tick(val, almval[a]) <= cntinib_maxval
           <=> Ahead(almval, val, a) = 0
<1> DEFINE v == almval[a]
           d == Ahead(almval, val, a)
           b == diff_tick(val, v)
           m == cntinib_maxval
           M == cntinib_maxval2
<1>1. /\ v \in Nat /\ val \in Nat /\ d \in Nat
      /\ v <= M /\ val <= M /\ d <= M
      /\ val <= v => d = v - val
      /\ v < val => d = v - val + (M + 1)
  BY AheadExact
<1>2. v \in CounterVal
  OBVIOUS
<1>3. /\ m \in Nat \ {0} /\ M \in Nat /\ M = 2 * m + 1
  BY Width
<1>4. d <= m + 1
  OBVIOUS
<1> HIDE DEF v
<1>5. /\ v <= val => b = val - v
      /\ val < v => b = val - v + (M + 1)
  BY <1>2, DiffTickExact
<1> HIDE DEF d, b, m, M
<1>6. b <= m <=> d = 0
  BY <1>1, <1>3, <1>4, <1>5
<1> QED BY <1>6 DEF v, d, b, m

(* The head of the loop takes out an alarm that has no tick left, if there *)
(* is one.                                                                 *)
LEMMA ExpireInOrder ==
  ASSUME NEW q \in Queue, NEW almval \in [AlarmId -> CounterVal],
         NEW val \in CounterVal, InOrder(q, almval, val),
         ExpireFirst(q, almval, val)
  PROVE  /\ newval' = val
         /\ InOrder(almque', almval, val)
         /\ \/ /\ almid' \in AlarmId
               /\ Queued(q, almid') /\ Ahead(almval, val, almid') = 0
               /\ \A x \in AlarmId :
                    Queued(almque', x) <=> x # almid' /\ Queued(q, x)
            \/ /\ almid' = ALMID_NULL
               /\ almque' = q
               /\ \A x \in AlarmId : Queued(q, x) => Ahead(almval, val, x) >= 1
<1>1. PICK n, c : Chain(q, n, c) /\ Sorted(n, c, almval, val)
  BY DEF InOrder
<1>2. /\ n \in Nat /\ c \in [1 .. n -> AlarmId]
      /\ \A x \in AlarmId : Queued(q, x) <=> \E i \in 1 .. n : c[i] = x
      /\ \A x \in AlarmId :
           Queued(q, x) => Ahead(almval, val, x) <= cntinib_maxval + 1
      /\ newval' = val
  <2>1. \A x \in AlarmId : Queued(q, x) <=> \E i \in 1 .. n : c[i] = x
    BY ONLY <1>1, QueuedIsListed
  <2>2. newval' = val
    BY <1>1, FirstOut
  <2> QED BY <1>1, <2>1, <2>2 DEF Chain, InOrder
<1>3. CASE /\ 1 \in 1 .. n
           /\ diff_tick(val, almval[c[1]]) <= cntinib_maxval
           /\ almque' = dequeue_alarm(q, c[1])
           /\ almid' = c[1]
  <2>1. /\ Chain(almque', n - 1, Remove(n, c, 1))
        /\ \A x \in AlarmId : Queued(almque', x) <=> x # c[1] /\ Queued(q, x)
    BY <1>1, <1>3, DequeueRemoves
  <2>2. Sorted(n - 1, Remove(n, c, 1), almval, val)
    BY <1>1, <1>2, <1>3, DequeueSorts
  <2>3. c[1] \in AlarmId /\ Queued(q, c[1]) /\ Ahead(almval, val, c[1]) = 0
    BY <1>2, <1>3, DueExact
  <2>4. InOrder(almque', almval, val)
    BY <1>2, <2>1, <2>2 DEF InOrder
  <2> QED BY <1>2, <1>3, <2>1, <2>3, <2>4
<1>4. CASE /\ almque' = q /\ almid' = ALMID_NULL
           /\ 1 \in 1 .. n => ~ (diff_tick(val, almval[c[1]]) <= cntinib_maxval)
  <2>1. ASSUME NEW x \in AlarmId, Queued(q, x)
        PROVE  Ahead(almval, val, x) >= 1
    <3>1. PICK i \in 1 .. n : c[i] = x
      BY <1>2, <2>1
    <3>2. 1 \in 1 .. n /\ 1 <= i /\ c[1] \in AlarmId /\ Queued(q, c[1])
      BY <1>2, <3>1
    <3>3. Ahead(almval, val, c[1]) # 0
      BY <1>2, <1>4, <3>2, DueExact
    <3>4. Ahead(almval, val, c[1]) <= Ahead(almval, val, x)
      BY <1>1, <3>1, <3>2 DEF Sorted
    <3>5. Ahead(almval, val, c[1]) \in Nat /\ Ahead(almval, val, x) \in Nat
      BY <3>2, AheadExact
    <3> QED BY <3>3, <3>4, <3>5
  <2> QED BY <1>2, <1>4, <2>1
<1> QED BY <1>1, <1>3, <1>4, FirstOut

(* A tick takes one from what is left of every alarm that has some left. *)
LEMMA TickNearer ==
  ASSUME NEW almval \in [AlarmId -> CounterVal], NEW val \in CounterVal,
         NEW a \in AlarmId, Ahead(almval, val, a) >= 1
  PROVE  Ahead(almval, add_tick(val, 1), a) = Ahead(almval, val, a) - 1
<1> DEFINE v == almval[a]
           w == add_tick(val, 1)
           d == Ahead(almval, val, a)
           e == Ahead(almval, w, a)
           M == cntinib_maxval2
<1>1. 1 \in CounterVal /\ M \in Nat /\ 1 <= M
  BY Width DEF CounterVal
<1>2. /\ w \in CounterVal
      /\ val + 1 <= M => w = val + 1
      /\ val + 1 > M => w = val + 1 - (M + 1)
  BY <1>1, AddTickExact
<1>3. /\ v \in Nat /\ val \in Nat /\ d \in Nat
      /\ v <= M /\ val <= M /\ d <= M
      /\ val <= v => d = v - val
      /\ v < val => d = v - val + (M + 1)
  BY AheadExact
<1> HIDE DEF w
<1>4. /\ w \in Nat /\ e \in Nat
      /\ w <= v => e = v - w
      /\ v < w => e = v - w + (M + 1)
  BY <1>2, AheadExact
<1>5. d >= 1
  OBVIOUS
<1> HIDE DEF v, d, e, M
<1>6. e = d - 1
  BY <1>1, <1>2, <1>3, <1>4, <1>5
<1> QED BY <1>6 DEF d, e, w

-----------------------------------------------------------------------------
(* Every step keeps the order, and is a step of the timers. *)

OInv == IInv /\ OrderInv

(* The ticks left, by Ahead. *)
Left(q, almval, val) ==
  [x \in AlarmId |-> IF Queued(q, x) THEN Ahead(almval, val, x) ELSE -1]

LEMMA LeftExact ==
  /\ left = Left(almque, almcb_almval, cntcb_curval)
  /\ left' = Left(almque', almcb_almval', cntcb_curval')
BY DEF left, Left, Ahead, Queued

LEMMA OrderTypes ==
  ASSUME OInv
  PROVE  /\ almque \in Queue
         /\ almcb_almval \in [AlarmId -> CounterVal]
         /\ almcb_cycle \in [AlarmId -> 0 .. cntinib_maxval]
         /\ cntcb_curval \in CounterVal
         /\ newval = cntcb_curval
         /\ almid \in AlarmId \cup {ALMID_NULL}
         /\ InOrder(almque, almcb_almval, cntcb_curval)
BY AlarmConfig, Width DEF OInv, IInv, TypeOK, OrderInv, Cycle, Link

LEMMA SetOrder ==
  ASSUME OInv, NEW a \in AlarmId, NEW v \in CounterVal, NEW cycle \in Cycle,
         diff_tick(v, cntcb_curval) \in 1 .. cntinib_maxval + 1,
         SetAlarm(a, v, cycle)
  PROVE  OrderInv' /\ Timers!Arm(a)
<1> DEFINE q  == almque
           av == [almcb_almval EXCEPT ![a] = v]
           d  == diff_tick(v, cntcb_curval)
<1>1. /\ ~ Queued(almque, a)
      /\ almcb_almval' = av
      /\ almcb_cycle' = [almcb_cycle EXCEPT ![a] = cycle]
      /\ almque' = enqueue_alarm(almque, av, cntcb_curval, a)
      /\ UNCHANGED <<cntcb_curval, newval, almid>>
  BY DEF SetAlarm
<1>2. /\ InOrder(almque', av, cntcb_curval)
      /\ Ahead(av, cntcb_curval, a) = d
      /\ \A x \in AlarmId \ {a} :
           Ahead(av, cntcb_curval, x) = Ahead(almcb_almval, cntcb_curval, x)
  <2>1. /\ almque \in Queue /\ almcb_almval \in [AlarmId -> CounterVal]
        /\ cntcb_curval \in CounterVal
        /\ InOrder(almque, almcb_almval, cntcb_curval)
        /\ ~ Queued(almque, a)
    BY <1>1, OrderTypes
  <2>2. /\ av \in [AlarmId -> CounterVal]
        /\ av[a] = v /\ \A x \in AlarmId \ {a} : av[x] = almcb_almval[x]
    BY <2>1
  <2> HIDE DEF av
  <2>3. Ahead(av, cntcb_curval, a) = d /\ d \in 1 .. cntinib_maxval + 1
    BY <2>2 DEF Ahead
  <2> HIDE DEF d
  <2>4. /\ InOrder(enqueue_alarm(almque, av, cntcb_curval, a), av, cntcb_curval)
        /\ \A x \in AlarmId \ {a} :
             Ahead(av, cntcb_curval, x) = Ahead(almcb_almval, cntcb_curval, x)
    BY ONLY <2>1, <2>2, <2>3, a \in AlarmId, SetInOrder
  <2> QED BY ONLY <1>1, <2>3, <2>4
<1>3. \A x \in AlarmId : Queued(almque', x) <=> x = a \/ Queued(almque, x)
  <2> DEFINE r == enqueue_alarm(almque, av, cntcb_curval, a)
  <2>1. /\ almque \in Queue /\ \E n, c : Chain(almque, n, c)
    BY OrderTypes DEF InOrder
  <2>2. \A x \in AlarmId : Queued(r, x) <=> x = a \/ Queued(almque, x)
    BY <1>1, <2>1, SetKeepsList
  <2> QED BY <1>1, <2>2
<1> HIDE DEF av, d
<1>4. OrderInv'
  <2>1. newval' = cntcb_curval' /\ InOrder(almque', almcb_almval', cntcb_curval')
    BY <1>1, <1>2, OrderTypes
  <2>2. ASSUME almid' = ALMID_NULL, NEW x \in AlarmId, Queued(almque', x)
        PROVE  Ahead(almcb_almval', cntcb_curval', x) >= 1
    <3>1. CASE x = a
      BY <1>1, <1>2, <3>1 DEF d
    <3>2. CASE x # a
      BY <1>1, <1>2, <1>3, <2>2, <3>2 DEF OInv, OrderInv
    <3> QED BY <3>1, <3>2
  <2>3. ASSUME almid' # ALMID_NULL, Requeued'
        PROVE  almcb_almval'[almid'] = cntcb_curval'
    <3>1. almid \in AlarmId /\ almid # ALMID_NULL
      BY <1>1, <2>3, OrderTypes
    <3>2. almid # a /\ ~ Queued(almque, almid)
      BY <1>1, <1>3, <2>3, <3>1 DEF Requeued
    <3>3. almcb_cycle'[almid] = almcb_cycle[almid]
      BY <1>1, <3>2, OrderTypes
    <3>4. almcb_almval'[almid] = almcb_almval[almid]
      BY <1>1, <3>1, <3>2, OrderTypes DEF av
    <3>5. Requeued
      BY <1>1, <2>3, <3>2, <3>3 DEF Requeued
    <3> QED BY <1>1, <3>1, <3>4, <3>5 DEF OInv, OrderInv
  <2> QED BY <2>1, <2>2, <2>3 DEF OrderInv
<1>5. Timers!Arm(a)
  <2>1. left[a] = -1
    BY <1>1, LeftExact DEF Left
  <2>2. left' = Timers!Set(left, a, d)
    <3>1. left' = Left(almque', av, cntcb_curval)
      BY <1>1, LeftExact
    <3>2. \A x \in AlarmId : Left(almque', av, cntcb_curval)[x] =
             IF x = a THEN d ELSE left[x]
      BY <1>2, <1>3, LeftExact DEF Left
    <3> QED BY <3>1, <3>2 DEF Timers!Set, Left
  <2>3. d \in 1 .. cntinib_maxval + 1
    BY DEF d
  <2>4. cycle \in 0 .. cntinib_maxval + 1
    BY AlarmConfig, Width DEF Cycle
  <2> QED BY <1>1, <2>1, <2>2, <2>3, <2>4 DEF Timers!Arm, Timers!Off
<1> QED BY <1>4, <1>5

LEMMA CancelOrder ==
  ASSUME OInv, NEW a \in AlarmId, CancelAlarm(a)
  PROVE  OrderInv' /\ Timers!Cancel(a)
<1>1. /\ Queued(almque, a)
      /\ almque' = dequeue_alarm(almque, a)
      /\ almcb_cycle' = [almcb_cycle EXCEPT ![a] = 0]
      /\ UNCHANGED <<cntcb_curval, almcb_almval, newval, almid>>
  BY DEF CancelAlarm
<1>2. PICK n, c : Chain(almque, n, c) /\ Sorted(n, c, almcb_almval, cntcb_curval)
  BY OrderTypes DEF InOrder
<1>3. PICK k \in 1 .. n : c[k] = a
  BY <1>1, <1>2, QueuedIsListed
<1>4. /\ Chain(almque', n - 1, Remove(n, c, k))
      /\ \A x \in AlarmId : Queued(almque', x) <=> x # a /\ Queued(almque, x)
  BY <1>1, <1>2, <1>3, OrderTypes, DequeueRemoves
<1>5. Sorted(n - 1, Remove(n, c, k), almcb_almval, cntcb_curval)
  BY <1>2, DequeueSorts DEF Chain
<1>6. InOrder(almque', almcb_almval, cntcb_curval)
  BY <1>4, <1>5, OrderTypes DEF InOrder
<1>7. OrderInv'
  <2>1. newval' = cntcb_curval' /\ InOrder(almque', almcb_almval', cntcb_curval')
    BY <1>1, <1>6, OrderTypes
  <2>2. ASSUME almid' = ALMID_NULL, NEW x \in AlarmId, Queued(almque', x)
        PROVE  Ahead(almcb_almval', cntcb_curval', x) >= 1
    BY <1>1, <1>4, <2>2 DEF OInv, OrderInv
  <2>3. ASSUME almid' # ALMID_NULL, Requeued'
        PROVE  almcb_almval'[almid'] = cntcb_curval'
    <3>1. almid \in AlarmId /\ almid # ALMID_NULL
      BY <1>1, <2>3, OrderTypes
    <3>2. almid # a
      BY <1>1, <2>3, <3>1, OrderTypes DEF Requeued
    <3>3. almcb_cycle'[almid] = almcb_cycle[almid]
      BY <1>1, <3>2, OrderTypes
    <3>4. Requeued
      BY <1>1, <1>4, <2>3, <3>1, <3>2, <3>3 DEF Requeued
    <3> QED BY <1>1, <3>1, <3>4 DEF OInv, OrderInv
  <2> QED BY <2>1, <2>2, <2>3 DEF OrderInv
<1>8. Timers!Cancel(a)
  <2>1. left[a] # -1
    <3>1. left[a] = Ahead(almcb_almval, cntcb_curval, a)
      BY <1>1, LeftExact DEF Left
    <3>2. Ahead(almcb_almval, cntcb_curval, a) \in Nat
      BY OrderTypes, AheadExact
    <3> QED BY <3>1, <3>2
  <2>2. left' = Timers!Set(left, a, -1)
    <3>1. left' = Left(almque', almcb_almval, cntcb_curval)
      BY <1>1, LeftExact
    <3>2. \A x \in AlarmId : Left(almque', almcb_almval, cntcb_curval)[x] =
             IF x = a THEN -1 ELSE left[x]
      BY <1>4, LeftExact DEF Left
    <3> QED BY <3>1, <3>2 DEF Timers!Set, Left
  <2> QED BY <1>1, <2>1, <2>2 DEF Timers!Cancel, Timers!Off
<1> QED BY <1>7, <1>8

(* The head of the loop, as a timer that expires. *)
LEMMA ExpireOrder ==
  ASSUME NEW q \in Queue, NEW almval \in [AlarmId -> CounterVal],
         NEW val \in CounterVal, InOrder(q, almval, val),
         ExpireFirst(q, almval, val),
         cntcb_curval' = val, almcb_almval' = almval
  PROVE  OrderInv' /\ Timers!Expire(Left(q, almval, val))
<1>1. /\ newval' = val
      /\ InOrder(almque', almval, val)
  BY ExpireInOrder
<1>2. CASE /\ almid' \in AlarmId
           /\ Queued(q, almid') /\ Ahead(almval, val, almid') = 0
           /\ \A x \in AlarmId :
                Queued(almque', x) <=> x # almid' /\ Queued(q, x)
  <2>1. almval[almid'] = val
    <3> DEFINE f == almid'
    <3>1. f \in AlarmId /\ Ahead(almval, val, f) = 0
      BY <1>2
    <3> HIDE DEF f
    <3>2. almval[f] = val
      <4> DEFINE v == almval[f]
                 d == Ahead(almval, val, f)
      <4>1. /\ v \in Nat /\ val \in Nat /\ v <= cntinib_maxval2
            /\ val <= cntinib_maxval2 /\ cntinib_maxval2 \in Nat
            /\ val <= v => d = v - val
            /\ v < val => d = v - val + (cntinib_maxval2 + 1)
        BY <3>1, AheadExact, Width
      <4> HIDE DEF v, d
      <4>2. d = 0
        BY <3>1 DEF d
      <4>3. v = val
        BY <4>1, <4>2
      <4> QED BY <4>3 DEF v
    <3> QED BY <3>2 DEF f
  <2>2. OrderInv'
    BY <1>1, <1>2, <2>1, NullLink DEF OrderInv
  <2>3. left' = Timers!Set(Left(q, almval, val), almid', -1)
    <3>1. left' = Left(almque', almval, val)
      BY LeftExact
    <3> QED BY <1>2, <3>1 DEF Timers!Set, Left
  <2>4. Left(q, almval, val)[almid'] = 0
    BY <1>2 DEF Left
  <2> QED BY <1>2, <2>2, <2>3, <2>4 DEF Timers!Expire, Timers!Off
<1>3. CASE /\ almid' = ALMID_NULL
           /\ almque' = q
           /\ \A x \in AlarmId : Queued(q, x) => Ahead(almval, val, x) >= 1
  <2>1. OrderInv'
    BY <1>1, <1>3 DEF OrderInv
  <2>2. left' = Left(q, almval, val)
    BY <1>3, LeftExact
  <2>3. \A x \in AlarmId : Left(q, almval, val)[x] # 0
    <3> TAKE x \in AlarmId
    <3>1. CASE Queued(q, x)
      <4>1. Left(q, almval, val)[x] = Ahead(almval, val, x)
        BY <3>1 DEF Left
      <4>2. Ahead(almval, val, x) >= 1 /\ Ahead(almval, val, x) \in Nat
        BY <1>3, <3>1, AheadExact
      <4> QED BY <4>1, <4>2
    <3>2. CASE ~ Queued(q, x)
      BY <3>2 DEF Left
    <3> QED BY <3>1, <3>2
  <2> QED BY <1>3, <2>1, <2>2, <2>3 DEF Timers!Expire
<1> QED BY <1>2, <1>3, ExpireInOrder

LEMMA SignalOrder ==
  ASSUME OInv, cntinib_tickbase = 1, SignalCounter
  PROVE  OrderInv' /\ Timers!Tick
<1> DEFINE q   == almque
           al  == almcb_almval
           cur == cntcb_curval
           val == add_tick(cntcb_curval, 1)
<1>1. /\ q \in Queue /\ al \in [AlarmId -> CounterVal] /\ cur \in CounterVal
      /\ InOrder(q, al, cur)
  BY OrderTypes
<1>2. /\ almid = ALMID_NULL
      /\ cntcb_curval' = val
      /\ ExpireFirst(q, al, val)
      /\ UNCHANGED <<almcb_almval, almcb_cycle>>
  BY cntinib_tickbase = 1 DEF SignalCounter
<1>3. \A x \in AlarmId : Queued(q, x) => Ahead(al, cur, x) >= 1
  BY <1>2 DEF OInv, OrderInv
<1>4. val \in CounterVal
  <2>1. 1 \in CounterVal
    BY Width DEF CounterVal
  <2> QED BY <1>1, <2>1, AddTickExact
<1>5. left = Left(q, al, cur)
  BY LeftExact
<1> HIDE DEF q, al
<1>6. \A x \in AlarmId :
        Queued(q, x) => /\ Ahead(al, val, x) = Ahead(al, cur, x) - 1
                        /\ Ahead(al, cur, x) \in Nat
                        /\ Ahead(al, cur, x) <= cntinib_maxval + 1
  BY <1>1, <1>3, TickNearer, AheadExact DEF InOrder
<1> HIDE DEF val, cur
<1>7. InOrder(q, al, val)
  <2>1. PICK n, c : Chain(q, n, c) /\ Sorted(n, c, al, cur)
    BY <1>1 DEF InOrder
  <2>2. \A i \in 1 .. n : c[i] \in AlarmId /\ Queued(q, c[i])
    <3>1. c \in [1 .. n -> AlarmId]
      BY <2>1 DEF Chain
    <3> QED BY <2>1, <3>1, QueuedIsListed
  <2>3. Sorted(n, c, al, val)
    BY <1>6, <2>1, <2>2 DEF Sorted
  <2>4. \A x \in AlarmId : Queued(q, x) => Ahead(al, val, x) <= cntinib_maxval + 1
    BY <1>6, Width
  <2> QED BY <2>1, <2>3, <2>4 DEF InOrder
<1>8. OrderInv' /\ Timers!Expire(Left(q, al, val))
  <2>1. cntcb_curval' = val /\ almcb_almval' = al
    BY <1>2 DEF al
  <2> QED BY ONLY <1>1, <1>2, <1>4, <1>7, <2>1, ExpireOrder
<1>9. Left(q, al, val) = [x \in AlarmId |-> IF left[x] = -1 THEN -1
                                            ELSE left[x] - 1]
  <2> SUFFICES ASSUME NEW x \in AlarmId
               PROVE  Left(q, al, val)[x] = IF left[x] = -1 THEN -1
                                            ELSE left[x] - 1
    BY DEF Left
  <2>1. CASE Queued(q, x)
    <3>1. left[x] = Ahead(al, cur, x) /\ Left(q, al, val)[x] = Ahead(al, val, x)
      BY <1>5, <2>1 DEF Left
    <3> QED BY <1>6, <2>1, <3>1
  <2>2. CASE ~ Queued(q, x)
    BY <1>5, <2>2 DEF Left
  <2> QED BY <2>1, <2>2
<1>10. Timers!Tick
  BY <1>2, <1>8, <1>9 DEF Timers!Tick, Timers!Off
<1> QED BY <1>8, <1>10

(* The alarms that a callback's return leaves in the queue. *)
LEMMA RequeueInOrder ==
  ASSUME OInv, CallbackReturn
  PROVE  /\ InOrder(AlmqueNext, AlmvalNext, cntcb_curval)
         /\ \A x \in AlarmId :
              Left(AlmqueNext, AlmvalNext, cntcb_curval)[x] =
                IF Requeued /\ x = almid THEN almcb_cycle[x] ELSE left[x]
<1>1. /\ almid \in AlarmId
      /\ AlmvalNext \in [AlarmId -> CounterVal]
      /\ \A x \in AlarmId : Queued(AlmqueNext, x) <=>
                              \/ Requeued /\ x = almid
                              \/ Queued(almque, x)
  BY CallbackSteps DEF OInv
<1>2. /\ almque \in Queue /\ almcb_almval \in [AlarmId -> CounterVal]
      /\ cntcb_curval \in CounterVal
      /\ InOrder(almque, almcb_almval, cntcb_curval)
      /\ almcb_cycle[almid] \in 0 .. cntinib_maxval
  BY <1>1, OrderTypes
<1>3. CASE ~ Requeued
  <2>1. AlmqueNext = almque /\ AlmvalNext = almcb_almval
    BY <1>3 DEF AlmqueNext, AlmvalNext
  <2> QED BY <1>2, <1>3, <2>1, LeftExact
<1>4. CASE Requeued
  <2> DEFINE av == AlmvalNext
             cycle == almcb_cycle[almid]
  <2>1. ~ Queued(almque, almid) /\ cycle > 0
    BY <1>4 DEF Requeued
  <2>2. AlmqueNext = enqueue_alarm(almque, av, cntcb_curval, almid)
    BY <1>4 DEF AlmqueNext
  <2>3. cycle \in 1 .. cntinib_maxval
    <3> HIDE DEF cycle
    <3>1. cycle \in 0 .. cntinib_maxval
      BY <1>2 DEF cycle
    <3> QED BY <2>1, <3>1, Width
  <2>4. /\ av[almid] = add_tick(cntcb_curval, cycle)
        /\ \A x \in AlarmId \ {almid} : av[x] = almcb_almval[x]
    <3>1. almcb_almval[almid] = cntcb_curval
      BY <1>1, <1>4, NullLink DEF OInv, OrderInv
    <3> QED BY <1>1, <1>2, <1>4, <3>1 DEF AlmvalNext
  <2>5. Ahead(av, cntcb_curval, almid) = cycle
    <3>1. Ahead(av, cntcb_curval, almid)
            = diff_tick(add_tick(cntcb_curval, cycle), cntcb_curval)
      BY <2>4 DEF Ahead
    <3> HIDE DEF cycle
    <3> QED BY <1>2, <2>3, <3>1, RelTickAhead
  <2>6. /\ InOrder(AlmqueNext, av, cntcb_curval)
        /\ \A x \in AlarmId \ {almid} :
             Ahead(av, cntcb_curval, x) = Ahead(almcb_almval, cntcb_curval, x)
    <3>1. av \in [AlarmId -> CounterVal]
      BY <1>1
    <3>2. Ahead(av, cntcb_curval, almid) \in 1 .. cntinib_maxval + 1
      BY <2>3, <2>5, Width
    <3> HIDE DEF av
    <3> QED BY ONLY <1>1, <1>2, <2>1, <2>2, <2>4, <3>1, <3>2, SetInOrder
  <2>7. \A x \in AlarmId :
          Left(AlmqueNext, av, cntcb_curval)[x] =
            IF x = almid THEN cycle ELSE left[x]
    <3> TAKE x \in AlarmId
    <3>1. CASE x = almid
      BY <1>1, <1>4, <2>5, <3>1 DEF Left
    <3>2. CASE x # almid
      <4>1. Queued(AlmqueNext, x) <=> Queued(almque, x)
        BY <1>1, <3>2
      <4> QED BY <2>6, <3>2, <4>1, LeftExact DEF Left
    <3> QED BY <3>1, <3>2
  <2> QED BY <1>4, <2>6, <2>7
<1> QED BY <1>3, <1>4

LEMMA CallbackOrder ==
  ASSUME OInv, CallbackReturn
  PROVE  OrderInv' /\ Timers!CallbackReturn
<1>1. /\ almid \in AlarmId /\ almid # ALMID_NULL
      /\ almcb_almval' = AlmvalNext
      /\ ExpireFirst(AlmqueNext, AlmvalNext, newval)
      /\ UNCHANGED <<cntcb_curval, almcb_cycle>>
      /\ AlmvalNext \in [AlarmId -> CounterVal]
      /\ AlmqueNext \in Queue
  BY CallbackSteps, NullLink DEF OInv
<1>2. newval = cntcb_curval /\ cntcb_curval \in CounterVal
      /\ almcb_almval \in [AlarmId -> CounterVal]
  BY OrderTypes
<1>3. /\ InOrder(AlmqueNext, AlmvalNext, cntcb_curval)
      /\ \A x \in AlarmId :
           Left(AlmqueNext, AlmvalNext, cntcb_curval)[x] =
             IF Requeued /\ x = almid THEN almcb_cycle[x] ELSE left[x]
  BY RequeueInOrder
<1> DEFINE l == Left(AlmqueNext, AlmvalNext, cntcb_curval)
<1>4. OrderInv' /\ Timers!Expire(l)
  BY <1>1, <1>2, <1>3, ExpireOrder
<1>5. Requeued <=> left[almid] = -1 /\ almcb_cycle[almid] > 0
  <2>1. Queued(almque, almid) => left[almid] \in Nat
    <3>1. Ahead(almcb_almval, cntcb_curval, almid) \in Nat
      BY <1>1, <1>2, AheadExact
    <3> QED BY <1>1, <3>1, LeftExact DEF Left
  <2>2. ~ Queued(almque, almid) => left[almid] = -1
    BY <1>1, LeftExact DEF Left
  <2> QED BY <2>1, <2>2 DEF Requeued
<1>6. l = IF left[almid] = -1 /\ almcb_cycle[almid] > 0
          THEN Timers!Set(left, almid, almcb_cycle[almid]) ELSE left
  <2>1. l = [x \in AlarmId |-> l[x]] /\ left = [x \in AlarmId |-> left[x]]
    BY DEF Left, left
  <2> HIDE DEF l
  <2>2. \A x \in AlarmId :
          l[x] = IF Requeued /\ x = almid THEN almcb_cycle[x] ELSE left[x]
    BY <1>3 DEF l
  <2>3. CASE Requeued
    <3>1. l = Timers!Set(left, almid, almcb_cycle[almid])
      BY <2>1, <2>2, <2>3 DEF Timers!Set
    <3> QED BY <1>5, <2>3, <3>1
  <2>4. CASE ~ Requeued
    <3>1. l = left
      BY <2>1, <2>2, <2>4
    <3> QED BY <1>5, <2>4, <3>1
  <2> QED BY <2>3, <2>4
<1>7. Timers!CallbackReturn
  <2> HIDE DEF l
  <2> QED BY <1>1, <1>4, <1>6 DEF Timers!CallbackReturn, Timers!Off
<1> QED BY <1>4, <1>7

LEMMA InitOrder == Init => OrderInv /\ Timers!Init
<1> SUFFICES ASSUME Init
             PROVE  OrderInv /\ Timers!Init
  OBVIOUS
<1>1. FirstQueued(almque, tnum_alarm)
  BY InitialQueueOK DEF Init
<1>2. /\ cntcb_curval = 0 /\ newval = 0 /\ almid = ALMID_NULL
      /\ almcb_almval = InitialAlmval
      /\ \A a \in AlarmId : Queued(almque, a) => a \in alminib_autosta
      /\ \E n, c : Chain(almque, n, c) /\ Sorted(n, c, almcb_almval, 0)
  BY <1>1 DEF Init, FirstQueued
<1>3. \A a \in AlarmId : Queued(almque, a) =>
        Ahead(almcb_almval, 0, a) \in 1 .. cntinib_maxval
  BY <1>2, InitialTicks
<1>4. OrderInv
  <2>1. \A a \in AlarmId : Queued(almque, a) =>
          /\ Ahead(almcb_almval, 0, a) <= cntinib_maxval + 1
          /\ Ahead(almcb_almval, 0, a) >= 1
    BY <1>3, Width
  <2> QED BY <1>2, <2>1 DEF OrderInv, InOrder
<1>5. left \in [AlarmId -> {-1} \cup 1 .. cntinib_maxval + 1]
  <2>1. \A a \in AlarmId : Queued(almque, a) =>
          Ahead(almcb_almval, 0, a) \in 1 .. cntinib_maxval + 1
    BY <1>3, Width
  <2> QED BY <1>2, <2>1, LeftExact DEF Left
<1>6. almcb_cycle \in [AlarmId -> 0 .. cntinib_maxval + 1]
  BY AlarmConfig, Width DEF Init, Cycle
<1> QED BY <1>2, <1>4, <1>5, <1>6 DEF Timers!Init, Timers!Off

LEMMA NextOrder ==
  ASSUME cntinib_tickbase = 1, OInv, [Next]_vars
  PROVE  OInv' /\ [Timers!Next]_(Timers!vars)
<1>1. IInv'
  BY NextInv DEF OInv
<1>2. ASSUME NEW a \in AlarmId, NEW incr \in 1 .. cntinib_maxval,
             NEW cycle \in Cycle, SetRelAlarm(a, incr, cycle)
      PROVE  OrderInv' /\ Timers!Next
  <2> DEFINE v == add_tick(cntcb_curval, incr)
  <2>1. v \in CounterVal
    BY SetTicks DEF OInv
  <2>2. diff_tick(v, cntcb_curval) \in 1 .. cntinib_maxval + 1
    <3>1. diff_tick(v, cntcb_curval) = incr
      BY OrderTypes, RelTickAhead
    <3> HIDE DEF v
    <3> QED BY <3>1, Width
  <2>3. SetAlarm(a, v, cycle)
    BY <1>2 DEF SetRelAlarm
  <2> HIDE DEF v
  <2> QED BY <2>1, <2>2, <2>3, SetOrder DEF Timers!Next
<1>3. ASSUME NEW a \in AlarmId, NEW start \in 0 .. cntinib_maxval,
             NEW cycle \in Cycle, SetAbsAlarm(a, start, cycle)
      PROVE  OrderInv' /\ Timers!Next
  <2> DEFINE v == AbsTick(start)
  <2>1. v \in CounterVal /\ diff_tick(v, cntcb_curval) \in 1 .. cntinib_maxval + 1
    BY OrderTypes, AbsTickAhead
  <2>2. SetAlarm(a, v, cycle)
    BY <1>3 DEF SetAbsAlarm
  <2> HIDE DEF v
  <2> QED BY <2>1, <2>2, SetOrder DEF Timers!Next
<1>4. ASSUME NEW a \in AlarmId, CancelAlarm(a)
      PROVE  OrderInv' /\ Timers!Next
  BY <1>4, CancelOrder DEF Timers!Next
<1>5. CASE SignalCounter
  BY <1>1, <1>5, cntinib_tickbase = 1, SignalOrder DEF Timers!Next, OInv
<1>6. CASE CallbackReturn
  BY <1>1, <1>6, CallbackOrder DEF Timers!Next, OInv
<1>7. CASE UNCHANGED vars
  <2>1. /\ almque' = almque /\ almcb_almval' = almcb_almval
        /\ almcb_cycle' = almcb_cycle /\ cntcb_curval' = cntcb_curval
        /\ newval' = newval /\ almid' = almid
    BY <1>7 DEF vars
  <2>2. OrderInv'
    BY <2>1 DEF OInv, OrderInv, Requeued
  <2>3. UNCHANGED Timers!vars
    BY <2>1, LeftExact DEF Timers!vars
  <2> QED BY <1>1, <2>2, <2>3 DEF OInv
<1> QED BY <1>1, <1>2, <1>3, <1>4, <1>5, <1>6, <1>7 DEF Next, OInv

(* Between two advances of the counter every set alarm is 1 to maxval + 1  *)
(* ticks ahead, and GetAlarm tells how many, if the counter advances one   *)
(* tick at a time.                                                         *)
THEOREM AlarmsExpireInTime ==
  ASSUME cntinib_tickbase = 1
  PROVE  Spec => []ExpiresInTime
<1>1. Init => OInv
  BY InitInv, InitOrder DEF OInv
<1>2. OInv /\ [Next]_vars => OInv'
  BY cntinib_tickbase = 1, NextOrder
<1>3. OInv => ExpiresInTime
  <2> SUFFICES ASSUME OInv, almid = ALMID_NULL,
                      NEW a \in AlarmId, Queued(almque, a)
               PROVE  GetAlarm(a) \in 1 .. cntinib_maxval + 1
    BY DEF ExpiresInTime
  <2> DEFINE v == almcb_almval[a]
             cur == cntcb_curval
             d == Ahead(almcb_almval, cntcb_curval, a)
  <2>1. d >= 1 /\ d <= cntinib_maxval + 1
    BY OrderTypes DEF OInv, OrderInv, InOrder
  <2>2. /\ v \in Nat /\ cur \in Nat /\ d \in Nat
        /\ cur <= v => d = v - cur
        /\ v < cur => d = v - cur + (cntinib_maxval2 + 1)
    BY OrderTypes, AheadExact
  <2>3. GetAlarm(a) = IF cur < v THEN v - cur ELSE (cntinib_maxval2 - cur) + 1 + v
    BY DEF GetAlarm
  <2>4. cntinib_maxval2 \in Nat /\ cntinib_maxval \in Nat
    BY Width
  <2> HIDE DEF v, cur, d
  <2>5. GetAlarm(a) = d
    BY <2>1, <2>2, <2>3, <2>4
  <2> QED BY <2>1, <2>2, <2>4, <2>5
<1> QED BY <1>1, <1>2, <1>3, PTL DEF Spec

(* The counter, its overflow and the ordered queue implement the timers:   *)
(* every alarm expires at exactly the tick it was set to, once per cycle,  *)
(* and never after it was cancelled, if the counter advances one tick at a *)
(* time.                                                                   *)
THEOREM AlarmsImplementTimers ==
  ASSUME cntinib_tickbase = 1
  PROVE  Spec => ImplementsTimers
<1>1. Init => OInv /\ Timers!Init
  BY InitInv, InitOrder DEF OInv
<1>2. OInv /\ [Next]_vars => OInv' /\ [Timers!Next]_(Timers!vars)
  BY cntinib_tickbase = 1, NextOrder
<1> QED BY <1>1, <1>2, PTL DEF Spec, ImplementsTimers, Timers!Spec

-----------------------------------------------------------------------------
(* Nothing overtakes an alarm of its own tick. *)

(* One alarm is before another if its place in the list is. *)
LEMMA BeforeIsPlace ==
  ASSUME NEW q, NEW n, NEW c, Chain(q, n, c),
         NEW x \in AlarmId, NEW y \in AlarmId
  PROVE  Before(q, x, y) <=>
           \E i, j \in 1 .. n : i < j /\ c[i] = x /\ c[j] = y
<1>1. /\ n \in Nat
      /\ \A i, j \in 1 .. n : c[i] = c[j] => i = j
      /\ \A i \in 1 .. n : q.next[c[i]] = At(n, c, i + 1)
  BY DEF Chain
<1>2. Queued(q, x) <=> \E i \in 1 .. n : c[i] = x
  BY QueuedIsListed
<1>3. ASSUME NEW i \in 1 .. n, c[i] = x
      PROVE  Leads(q, q.next[x], y) <=> \E j \in i + 1 .. n : c[j] = y
  <2>1. i + 1 \in 1 .. n + 1 /\ q.next[x] = At(n, c, i + 1)
    BY <1>1, <1>3
  <2>2. \A k \in 1 .. n + 1 :
          Leads(q, At(n, c, k), y) <=> \E j \in k .. n : c[j] = y
    BY ONLY Chain(q, n, c), y \in AlarmId, LeadsFurther
  <2> QED BY ONLY <2>1, <2>2
<1>4. ASSUME Before(q, x, y)
      PROVE  \E i, j \in 1 .. n : i < j /\ c[i] = x /\ c[j] = y
  <2>1. Queued(q, x) /\ Leads(q, q.next[x], y)
    BY <1>4, Zenon DEF Before
  <2>2. PICK i \in 1 .. n : c[i] = x
    BY <1>2, <2>1
  <2>3. PICK j \in i + 1 .. n : c[j] = y
    BY <1>3, <2>1, <2>2
  <2> QED BY <1>1, <2>2, <2>3
<1>5. ASSUME NEW i \in 1 .. n, NEW j \in 1 .. n, i < j, c[i] = x, c[j] = y
      PROVE  Before(q, x, y)
  <2>1. Queued(q, x)
    BY <1>2, <1>5
  <2>2. j \in i + 1 .. n
    BY <1>1, <1>5
  <2>3. Leads(q, q.next[x], y)
    BY <1>3, <1>5, <2>2
  <2> QED BY <2>1, <2>3, Zenon DEF Before
<1> QED BY <1>4, <1>5

LEMMA DequeueKeepsBefore ==
  ASSUME NEW q \in Queue, NEW n, NEW c, Chain(q, n, c), NEW k \in 1 .. n,
         NEW x \in AlarmId, NEW y \in AlarmId, x # c[k], y # c[k],
         Before(q, x, y)
  PROVE  Before(dequeue_alarm(q, c[k]), x, y)
<1> DEFINE r == dequeue_alarm(q, c[k])
           d == Remove(n, c, k)
           To(i) == IF i < k THEN i ELSE i - 1
<1>1. n \in Nat /\ Chain(r, n - 1, d)
  <2>1. n \in Nat
    BY DEF Chain
  <2>2. Chain(r, n - 1, d)
    BY ONLY q \in Queue, Chain(q, n, c), k \in 1 .. n, DequeueRemoves
  <2> QED BY <2>1, <2>2
<1>2. PICK i \in 1 .. n, j \in 1 .. n : i < j /\ c[i] = x /\ c[j] = y
  BY BeforeIsPlace
<1> HIDE DEF r
<1>3. \A m \in 1 .. n : m # k => To(m) \in 1 .. n - 1 /\ d[To(m)] = c[m]
  BY <1>1 DEF Remove
<1>4. To(i) < To(j)
  BY <1>1, <1>2
<1>5. i # k /\ j # k
  BY <1>2
<1> HIDE DEF To, d
<1>6. \E m, l \in 1 .. n - 1 : m < l /\ d[m] = x /\ d[l] = y
  BY <1>2, <1>3, <1>4, <1>5
<1>7. Before(r, x, y)
  BY ONLY <1>1, <1>6, x \in AlarmId, y \in AlarmId, BeforeIsPlace
<1> QED BY <1>7 DEF r

LEMMA EnqueueKeepsBefore ==
  ASSUME NEW q \in Queue, NEW almval \in [AlarmId -> CounterVal],
         NEW val \in CounterVal, NEW n, NEW c,
         Chain(q, n, c), Sorted(n, c, almval, val),
         NEW a \in AlarmId, ~ Queued(q, a), Ahead(almval, val, a) >= 1,
         NEW x \in AlarmId, NEW y \in AlarmId,
         \/ Before(q, x, y)
         \/ y = a /\ Queued(q, x)
              /\ Ahead(almval, val, x) <= Ahead(almval, val, a)
  PROVE  Before(enqueue_alarm(q, almval, val, a), x, y)
<1> DEFINE r == enqueue_alarm(q, almval, val, a)
           D(z) == Ahead(almval, val, z)
<1>1. n \in Nat /\ c \in [1 .. n -> AlarmId]
  BY DEF Chain
<1>2. PICK j \in 0 .. n :
        /\ Chain(r, n + 1, Insert(n, c, j, a))
        /\ \A i \in 1 .. j : Passes(almval, val, a, c[i])
        /\ j < n => ~ Passes(almval, val, a, c[j + 1])
  BY EnqueueInserts
<1> DEFINE d == Insert(n, c, j, a)
           To(i) == IF i <= j THEN i ELSE i + 1
<1> HIDE DEF r
<1>3. \A i \in 1 .. n : To(i) \in 1 .. n + 1 /\ d[To(i)] = c[i]
  BY <1>1 DEF Insert
<1>4. \A i, k \in 1 .. n : i < k => To(i) < To(k)
  BY <1>1
<1>5. j + 1 \in 1 .. n + 1 /\ d[j + 1] = a
  BY <1>1 DEF Insert
<1>6. ASSUME NEW i \in 1 .. n, D(c[i]) <= D(a)
      PROVE  To(i) < j + 1
  <2>1. ASSUME i > j
        PROVE  FALSE
    <3>1. j + 1 \in 1 .. n /\ j + 1 <= i /\ j < n
      BY <1>1, <2>1
    <3>2. ~ (D(c[j + 1]) <= D(a))
      BY <1>1, <1>2, <3>1, PassesNearer
    <3>3. D(c[j + 1]) <= D(c[i])
      BY <3>1 DEF Sorted
    <3>4. D(c[j + 1]) \in Nat /\ D(c[i]) \in Nat /\ D(a) \in Nat
      BY <1>1, <3>1, AheadExact
    <3> HIDE DEF D
    <3> QED BY <1>6, <3>2, <3>3, <3>4
  <2> QED BY <1>1, <2>1
<1> HIDE DEF d, To
<1>7. CASE Before(q, x, y)
  <2>1. PICK i \in 1 .. n, k \in 1 .. n : i < k /\ c[i] = x /\ c[k] = y
    BY <1>7, BeforeIsPlace
  <2>2. \E m, l \in 1 .. n + 1 : m < l /\ d[m] = x /\ d[l] = y
    BY <1>3, <1>4, <2>1
  <2>3. Before(r, x, y)
    BY ONLY <1>2, <2>2, x \in AlarmId, y \in AlarmId, BeforeIsPlace DEF d
  <2> QED BY <2>3 DEF r
<1>8. CASE /\ y = a /\ Queued(q, x) /\ D(x) <= D(a)
  <2>1. PICK i \in 1 .. n : c[i] = x
    BY <1>8, QueuedIsListed
  <2>2. To(i) < j + 1 /\ To(i) \in 1 .. n + 1 /\ d[To(i)] = x
    BY <1>3, <1>6, <1>8, <2>1
  <2>3. \E m, l \in 1 .. n + 1 : m < l /\ d[m] = x /\ d[l] = y
    BY <1>5, <1>8, <2>2
  <2>4. Before(r, x, y)
    BY ONLY <1>2, <2>3, x \in AlarmId, y \in AlarmId, BeforeIsPlace DEF d
  <2> QED BY <2>4 DEF r
<1> QED BY <1>7, <1>8

(* The head of the loop keeps the order of the alarms that stay. *)
LEMMA ExpireKeepsBefore ==
  ASSUME NEW q \in Queue, NEW almval \in [AlarmId -> CounterVal],
         NEW val \in CounterVal, InOrder(q, almval, val),
         ExpireFirst(q, almval, val),
         NEW x \in AlarmId, NEW y \in AlarmId, Before(q, x, y),
         Queued(almque', x), Queued(almque', y)
  PROVE  Before(almque', x, y)
<1>1. PICK n, c : Chain(q, n, c)
  BY DEF InOrder
<1>2. CASE 1 \in 1 .. n /\ almque' = dequeue_alarm(q, c[1])
  <2>1. \A z \in AlarmId :
          Queued(almque', z) <=> z # c[1] /\ Queued(q, z)
    BY <1>1, <1>2, DequeueRemoves
  <2>2. x # c[1] /\ y # c[1]
    BY <2>1
  <2>3. Before(dequeue_alarm(q, c[1]), x, y)
    BY <1>1, <1>2, <2>2, DequeueKeepsBefore
  <2> QED BY <1>2, <2>3
<1>3. CASE almque' = q
  BY <1>3
<1> QED BY <1>1, <1>2, <1>3, FirstOut

SameTick ==
  \A a, b \in AlarmId :
    (/\ Queued(almque, a) /\ Queued(almque', a) /\ Queued(almque', b)
     /\ ~ Queued(almque, b) \/ Before(almque, a, b)
     /\ almcb_almval'[a] = almcb_almval'[b])
      => Before(almque', a, b)

LEMMA SetSameTick ==
  ASSUME OInv, NEW a \in AlarmId, NEW v \in CounterVal, NEW cycle,
         diff_tick(v, cntcb_curval) \in 1 .. cntinib_maxval + 1,
         SetAlarm(a, v, cycle)
  PROVE  SameTick
<1> DEFINE av  == almcb_almval'
           cur == cntcb_curval
<1>1. /\ ~ Queued(almque, a)
      /\ almcb_almval' = [almcb_almval EXCEPT ![a] = v]
      /\ almque' = enqueue_alarm(almque, av, cur, a)
  BY DEF SetAlarm
<1>2. /\ almque \in Queue /\ almcb_almval \in [AlarmId -> CounterVal]
      /\ cur \in CounterVal
  BY OrderTypes
<1>3. PICK n, c : Chain(almque, n, c) /\ Sorted(n, c, almcb_almval, cur)
  BY OrderTypes DEF InOrder
<1>4. /\ av \in [AlarmId -> CounterVal] /\ av[a] = v
      /\ \A x \in AlarmId \ {a} : av[x] = almcb_almval[x]
  BY <1>1, <1>2
<1> HIDE DEF av, cur
<1>5. Ahead(av, cur, a) >= 1
  <2>1. Ahead(av, cur, a) = diff_tick(v, cntcb_curval)
    BY <1>4 DEF Ahead, cur
  <2> QED BY <2>1
<1>6. Sorted(n, c, av, cur)
  <2>1. c \in [1 .. n -> AlarmId] /\ ~ \E i \in 1 .. n : c[i] = a
    <3>1. ~ \E i \in 1 .. n : c[i] = a
      BY ONLY <1>1, <1>3, a \in AlarmId, QueuedIsListed
    <3> QED BY <1>3, <3>1 DEF Chain
  <2>2. \A i \in 1 .. n : Ahead(av, cur, c[i]) = Ahead(almcb_almval, cur, c[i])
    BY <1>4, <2>1 DEF Ahead
  <2> QED BY <1>3, <2>2 DEF Sorted
<1>7. SUFFICES ASSUME NEW x \in AlarmId, NEW y \in AlarmId,
                      Queued(almque, x), Queued(almque', y),
                      ~ Queued(almque, y) \/ Before(almque, x, y),
                      av[x] = av[y]
               PROVE  Before(almque', x, y)
  BY Zenon DEF SameTick, av
<1>8. \/ Before(almque, x, y)
      \/ y = a /\ Queued(almque, x) /\ Ahead(av, cur, x) <= Ahead(av, cur, a)
  <2>1. CASE Queued(almque, y)
    BY <1>7, <2>1
  <2>2. CASE ~ Queued(almque, y)
    <3>1. Queued(almque', y) <=> y = a \/ Queued(almque, y)
      BY ONLY <1>1, <1>2, <1>3, a \in AlarmId, y \in AlarmId, EnqueueQueues
    <3>2. y = a
      BY <1>7, <2>2, <3>1
    <3>3. Ahead(av, cur, x) = Ahead(av, cur, a) /\ Ahead(av, cur, a) \in Nat
      <4>1. Ahead(av, cur, a) \in Nat
        BY <1>2, <1>4, AheadExact
      <4>2. Ahead(av, cur, x) = Ahead(av, cur, a)
        BY <1>7, <3>2 DEF Ahead
      <4> QED BY <4>1, <4>2
    <3> QED BY <1>7, <3>2, <3>3
  <2> QED BY <2>1, <2>2
<1>9. Before(enqueue_alarm(almque, av, cur, a), x, y)
  BY ONLY <1>1, <1>2, <1>3, <1>4, <1>5, <1>6, <1>8, a \in AlarmId,
          x \in AlarmId, y \in AlarmId, EnqueueKeepsBefore
<1> QED BY <1>1, <1>9

(* A periodic alarm goes back behind those of its tick. *)
LEMMA RequeueKeepsBefore ==
  ASSUME OInv, CallbackReturn, NEW x \in AlarmId, NEW y \in AlarmId,
         Queued(almque, x), Queued(AlmqueNext, y),
         ~ Queued(almque, y) \/ Before(almque, x, y),
         AlmvalNext[x] = AlmvalNext[y]
  PROVE  Before(AlmqueNext, x, y)
<1> DEFINE av  == AlmvalNext
           cur == cntcb_curval
           a   == almid
<1>1. /\ a \in AlarmId
      /\ av \in [AlarmId -> CounterVal]
      /\ Queued(AlmqueNext, y) <=> (Requeued /\ y = a) \/ Queued(almque, y)
  BY CallbackSteps DEF OInv
<1>2. CASE ~ Requeued
  <2>1. AlmqueNext = almque
    BY <1>2 DEF AlmqueNext
  <2> QED BY <2>1
<1>3. CASE Requeued
  <2>1. /\ ~ Queued(almque, a) /\ almcb_cycle[a] > 0
        /\ AlmqueNext = enqueue_alarm(almque, av, cur, a)
    BY <1>3 DEF Requeued, AlmqueNext
  <2>2. /\ almque \in Queue /\ almcb_almval \in [AlarmId -> CounterVal]
        /\ cur \in CounterVal
        /\ almcb_cycle[a] \in 0 .. cntinib_maxval
    BY <1>1, OrderTypes
  <2>3. PICK n, c : Chain(almque, n, c) /\ Sorted(n, c, almcb_almval, cur)
    BY OrderTypes DEF InOrder
  <2>4. /\ av[a] = add_tick(cur, almcb_cycle[a])
        /\ \A z \in AlarmId \ {a} : av[z] = almcb_almval[z]
    <3>1. almcb_almval[a] = cur
      BY <1>1, <1>3, NullLink DEF OInv, OrderInv
    <3> QED BY <1>1, <1>3, <2>2, <3>1 DEF AlmvalNext
  <2>5. Ahead(av, cur, a) >= 1
    <3> DEFINE cycle == almcb_cycle[a]
    <3>1. Ahead(av, cur, a) = diff_tick(add_tick(cur, cycle), cur)
      BY <2>4 DEF Ahead
    <3>2. cycle > 0 /\ cycle \in 0 .. cntinib_maxval
      BY <2>1, <2>2
    <3> HIDE DEF cycle
    <3>3. cycle \in 1 .. cntinib_maxval
      BY <3>2, Width
    <3>4. Ahead(av, cur, a) = cycle
      BY <2>2, <3>1, <3>3, RelTickAhead
    <3> QED BY <3>3, <3>4
  <2> HIDE DEF av, cur, a
  <2>6. Sorted(n, c, av, cur)
    <3>1. ~ \E i \in 1 .. n : c[i] = a
      BY ONLY <1>1, <2>1, <2>3, QueuedIsListed
    <3>2. \A i \in 1 .. n : Ahead(av, cur, c[i]) = Ahead(almcb_almval, cur, c[i])
      <4>1. c \in [1 .. n -> AlarmId]
        BY <2>3 DEF Chain
      <4> QED BY <2>4, <3>1, <4>1 DEF Ahead
    <3> QED BY <2>3, <3>2 DEF Sorted
  <2>7. \/ Before(almque, x, y)
        \/ y = a /\ Queued(almque, x) /\ Ahead(av, cur, x) <= Ahead(av, cur, a)
    <3>1. CASE Queued(almque, y)
      BY <3>1
    <3>2. CASE ~ Queued(almque, y)
      <4>1. y = a
        BY <1>1, <3>2
      <4>2. Ahead(av, cur, a) \in Nat
        BY <1>1, <2>2, AheadExact
      <4>3. Ahead(av, cur, x) = Ahead(av, cur, a)
        <5>1. av[x] = av[y]
          BY DEF av
        <5> QED BY <4>1, <5>1 DEF Ahead
      <4> QED BY <4>1, <4>2, <4>3
    <3> QED BY <3>1, <3>2
  <2>8. Before(enqueue_alarm(almque, av, cur, a), x, y)
    BY ONLY <1>1, <2>1, <2>2, <2>3, <2>5, <2>6, <2>7,
            x \in AlarmId, y \in AlarmId, EnqueueKeepsBefore
  <2> QED BY <2>1, <2>8
<1> QED BY <1>2, <1>3

LEMMA NextSameTick ==
  ASSUME cntinib_tickbase = 1, OInv, Next
  PROVE  SameTick
<1>1. ASSUME NEW a \in AlarmId, NEW incr \in 1 .. cntinib_maxval,
             NEW cycle \in Cycle, SetRelAlarm(a, incr, cycle)
      PROVE  SameTick
  <2> DEFINE v == add_tick(cntcb_curval, incr)
  <2>1. v \in CounterVal
    BY SetTicks DEF OInv
  <2>2. diff_tick(v, cntcb_curval) \in 1 .. cntinib_maxval + 1
    <3>1. diff_tick(v, cntcb_curval) = incr
      BY OrderTypes, RelTickAhead
    <3> HIDE DEF v
    <3> QED BY <3>1, Width
  <2>3. SetAlarm(a, v, cycle)
    BY <1>1 DEF SetRelAlarm
  <2> HIDE DEF v
  <2> QED BY <2>1, <2>2, <2>3, SetSameTick
<1>2. ASSUME NEW a \in AlarmId, NEW start \in 0 .. cntinib_maxval,
             NEW cycle \in Cycle, SetAbsAlarm(a, start, cycle)
      PROVE  SameTick
  <2> DEFINE v == AbsTick(start)
  <2>1. v \in CounterVal /\ diff_tick(v, cntcb_curval) \in 1 .. cntinib_maxval + 1
    BY OrderTypes, AbsTickAhead
  <2>2. SetAlarm(a, v, cycle)
    BY <1>2 DEF SetAbsAlarm
  <2> HIDE DEF v
  <2> QED BY <2>1, <2>2, SetSameTick
<1>3. ASSUME NEW a \in AlarmId, CancelAlarm(a)
      PROVE  SameTick
  <2>1. /\ Queued(almque, a) /\ almque' = dequeue_alarm(almque, a)
        /\ almque \in Queue
    BY <1>3, OrderTypes DEF CancelAlarm
  <2>2. PICK n, c : Chain(almque, n, c)
    BY OrderTypes DEF InOrder
  <2>3. PICK k \in 1 .. n : c[k] = a
    BY <2>1, <2>2, QueuedIsListed
  <2>4. \A z \in AlarmId : Queued(almque', z) <=> z # a /\ Queued(almque, z)
    BY <2>1, <2>2, <2>3, DequeueRemoves
  <2>5. SUFFICES ASSUME NEW x \in AlarmId, NEW y \in AlarmId,
                        Queued(almque', x), Queued(almque', y),
                        ~ Queued(almque, y) \/ Before(almque, x, y)
                 PROVE  Before(almque', x, y)
    BY Zenon DEF SameTick
  <2>6. x # c[k] /\ y # c[k] /\ Before(almque, x, y)
    BY <2>3, <2>4, <2>5
  <2>7. Before(dequeue_alarm(almque, c[k]), x, y)
    BY ONLY <2>1, <2>2, <2>6, k \in 1 .. n, x \in AlarmId, y \in AlarmId,
            DequeueKeepsBefore
  <2> QED BY <2>1, <2>3, <2>7
<1>4. CASE SignalCounter
  <2> DEFINE val == cntcb_curval'
  <2>1. /\ ExpireFirst(almque, almcb_almval, val)
        /\ val = add_tick(cntcb_curval, 1)
        /\ almid = ALMID_NULL
    BY <1>4, cntinib_tickbase = 1 DEF SignalCounter
  <2>2. /\ almque \in Queue /\ almcb_almval \in [AlarmId -> CounterVal]
        /\ cntcb_curval \in CounterVal
    BY OrderTypes
  <2>3. val \in CounterVal
    <3>1. 1 \in CounterVal
      BY Width DEF CounterVal
    <3> QED BY <2>1, <2>2, <3>1, AddTickExact
  <2> HIDE DEF val
  <2>4. PICK n, c : Chain(almque, n, c)
    BY OrderTypes DEF InOrder
  <2>5. SUFFICES ASSUME NEW x \in AlarmId, NEW y \in AlarmId,
                        Queued(almque', x), Queued(almque', y),
                        ~ Queued(almque, y) \/ Before(almque, x, y)
                 PROVE  Before(almque', x, y)
    BY Zenon DEF SameTick
  <2>6. CASE almque' = almque
    BY <2>5, <2>6
  <2>7. CASE 1 \in 1 .. n /\ almque' = dequeue_alarm(almque, c[1])
    <3>1. \A z \in AlarmId :
            Queued(almque', z) <=> z # c[1] /\ Queued(almque, z)
      BY <2>2, <2>4, <2>7, DequeueRemoves
    <3>2. x # c[1] /\ y # c[1] /\ Before(almque, x, y)
      BY <2>5, <3>1
    <3>3. Before(dequeue_alarm(almque, c[1]), x, y)
      BY ONLY <2>2, <2>4, <2>7, <3>2, x \in AlarmId, y \in AlarmId,
              DequeueKeepsBefore
    <3> QED BY <2>7, <3>3
  <2> QED BY <2>1, <2>2, <2>4, <2>6, <2>7, FirstOut
<1>5. CASE CallbackReturn
  <2>1. /\ almcb_almval' = AlmvalNext
        /\ ExpireFirst(AlmqueNext, AlmvalNext, newval)
        /\ AlmvalNext \in [AlarmId -> CounterVal]
        /\ AlmqueNext \in Queue
    BY <1>5, CallbackSteps DEF OInv
  <2>2. /\ newval \in CounterVal
        /\ InOrder(AlmqueNext, AlmvalNext, newval)
    BY <1>5, OrderTypes, RequeueInOrder
  <2>3. SUFFICES ASSUME NEW x \in AlarmId, NEW y \in AlarmId,
                        Queued(almque, x), Queued(almque', x),
                        Queued(almque', y),
                        ~ Queued(almque, y) \/ Before(almque, x, y),
                        AlmvalNext[x] = AlmvalNext[y]
                 PROVE  Before(almque', x, y)
    BY <2>1, Zenon DEF SameTick
  <2>4. Queued(AlmqueNext, y)
    BY <2>1, <2>2, <2>3, ExpireInOrder
  <2>5. Before(AlmqueNext, x, y)
    BY <1>5, <2>3, <2>4, RequeueKeepsBefore
  <2> QED BY <2>1, <2>2, <2>3, <2>5, ExpireKeepsBefore
<1> QED BY <1>1, <1>2, <1>3, <1>4, <1>5 DEF Next

(* Alarms set to the same tick expire in the order they were set, if the   *)
(* counter advances one tick at a time: no set, cancelled or periodic      *)
(* alarm changes the order of two others, or overtakes one of its tick.    *)
THEOREM SameTickFirstSetFirst ==
  ASSUME cntinib_tickbase = 1
  PROVE  Spec => SameTickInOrder
<1>1. Init => OInv
  BY InitInv, InitOrder DEF OInv
<1>2. OInv /\ [Next]_vars => OInv'
  BY cntinib_tickbase = 1, NextOrder
<1>3. OInv /\ [Next]_vars => [SameTick]_vars
  BY cntinib_tickbase = 1, NextSameTick
<1> QED BY <1>1, <1>2, <1>3, PTL DEF Spec, SameTickInOrder, SameTick

=============================================================================
