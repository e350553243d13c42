--------------------------- MODULE MainLoopProofs ---------------------------
(***************************************************************************)
(* The queue of timers is in order and its alarm is on, for any number of  *)
(* timers, any delays and any length of a second.  The operations of       *)
(* signal.c are treated one by one; then each step of the loop is shown to *)
(* use nothing else to change the timers.                                  *)
(***************************************************************************)
EXTENDS MainLoop, WellFoundedInduction, TLAPS

\* The time of a timer, from which a second may have been borrowed.
Instant == [sec : Int, usec : 0 .. 2 * Second - 1]

\* A time that the system has given.
Moment == [sec : Int, usec : 0 .. Second - 1]

TimerState == [queue : Seq(Timer), when : [Timer -> Instant],
               left : Nat, interval : Nat, had : BOOLEAN]

\* QueueInOrder, of any queue and any times.
Ordered(q, when) ==
  \A i, j \in DOMAIN q : i < j => q[i] # q[j] /\ ~Later(when[q[i]], when[q[j]])

Armed(s) == s.queue # <<>> => s.left > 0 /\ s.interval > 0

\* What every operation keeps.
Good(s) == s \in TimerState /\ Ordered(s.queue, s.when) /\ Armed(s)

ClockType == clock \in 0 .. Second - 1

-----------------------------------------------------------------------------
(* Times. *)

\* TIMEVAL_LATER is the order by seconds and then microseconds.
LEMMA NotLaterTransitive ==
  ASSUME NEW a \in Instant, NEW b \in Instant, NEW c \in Instant,
         ~Later(a, b), ~Later(b, c)
  PROVE  ~Later(a, c)
BY DEF Instant, Later

LEMMA LaterAsymmetric ==
  ASSUME NEW a \in Instant, NEW b \in Instant, Later(a, b)
  PROVE  ~Later(b, a)
BY DEF Instant, Later

\* A second that is over moves all times down and keeps their order.
LEMMA AgoKeepsOrder ==
  ASSUME NEW a \in Instant, NEW b \in Instant, ~Later(a, b)
  PROVE  Ago(a) \in Instant /\ Ago(b) \in Instant /\ ~Later(Ago(a), Ago(b))
BY MainLoopAssumption DEF Instant, Later, Ago, Time, Earliest

LEMMA AgoType ==
  ASSUME NEW a \in Moment
  PROVE  Ago(a) \in Moment
BY MainLoopAssumption DEF Moment, Ago, Time

LEMMA TimeTypes ==
  ASSUME ClockType
  PROVE  Now \in Moment /\ Never \in Instant /\ Never \in Moment
BY MainLoopAssumption DEF ClockType, Now, Never, Time, Instant, Moment

\* A delay leads to a later time.
LEMMA DelayIsLater ==
  ASSUME ClockType, NEW msecs \in Delays
  PROVE  /\ AddToCurrentTime(msecs) \in Instant
         /\ AddToCurrentTime(msecs).usec < Second
         /\ Later(AddToCurrentTime(msecs), Now)
<1> DEFINE x == clock + msecs
<1>1. x \in Nat /\ x > clock /\ Second \in Nat /\ Second > 0 /\ clock \in Nat
  BY MainLoopAssumption DEF ClockType
<1>2. /\ x \div Second \in Int /\ x % Second \in Nat
      /\ x = Second * (x \div Second) + (x % Second)
      /\ x % Second < Second
  <2> HIDE DEF x
  <2> QED
    BY <1>1
<1>3. x \div Second >= 0
  <2> HIDE DEF x
  <2> QED
    BY <1>1
<1>4. x \div Second = 0 => x % Second = x
  <2> HIDE DEF x
  <2> QED
    BY <1>1, <1>2
<1> HIDE DEF x
<1>5. /\ Time(x \div Second, x % Second) \in Instant
      /\ Time(x \div Second, x % Second).usec < Second
      /\ Later(Time(x \div Second, x % Second), Now)
  BY <1>1, <1>2, <1>3, <1>4 DEF Time, Instant, Later, Now
<1> QED
  BY <1>5 DEF AddToCurrentTime, x

\* Until a later time there is at least a tick.
LEMMA LaterTakesTime ==
  ASSUME ClockType, NEW a \in Instant, Later(a, Now)
  PROVE  Ticks(a) - clock \in Nat \ {0}
<1>1. Second \in Nat /\ Second > 0 /\ clock \in Nat /\ clock < Second
  BY MainLoopAssumption DEF ClockType
<1>2. a.sec \in Int /\ a.usec \in Nat
  BY DEF Instant
<1>3. a.sec > 0 \/ (a.sec = 0 /\ a.usec > clock)
  BY <1>1, <1>2 DEF Later, Now, Time
<1>4. a.sec * Second \in Int
  BY <1>1, <1>2
<1>5. a.sec > 0 => a.sec * Second >= Second
  BY <1>1, <1>2
<1>6. a.sec = 0 => a.sec * Second = 0
  BY <1>1, <1>2
<1> QED
  BY <1>1, <1>2, <1>3, <1>4, <1>5, <1>6 DEF Ticks

-----------------------------------------------------------------------------
(* The queue. *)

\* What is taken out of a sequence leaves a sequence.
LEMMA WithoutType ==
  ASSUME NEW S, NEW q \in Seq(S), NEW t
  PROVE  Without(q, t) \in Seq(S)
<1>1. CASE \E i \in DOMAIN q : q[i] = t
  <2>1. Place(q, t) \in DOMAIN q
    BY <1>1 DEF Place
  <2>2. Len(q) \in Nat /\ Len(q) - 1 \in Nat /\ DOMAIN q = 1 .. Len(q)
    BY <2>1
  <2>3. \A i \in 1 .. Len(q) - 1 : q[i] \in S /\ q[i + 1] \in S
    BY <2>2
  <2>4. [i \in 1 .. Len(q) - 1 |-> IF i < Place(q, t) THEN q[i] ELSE q[i + 1]] \in Seq(S)
    BY <2>2, <2>3
  <2> QED
    BY <1>1, <2>4 DEF Without
<1>2. CASE ~\E i \in DOMAIN q : q[i] = t
  BY <1>2 DEF Without
<1> QED
  BY <1>1, <1>2

\* A timer that is taken out of the queue is not there any more, and the others are in
\* the order they had.
LEMMA WithoutKeepsOrder ==
  ASSUME NEW q \in Seq(Timer), NEW when, Ordered(q, when), NEW t
  PROVE  /\ Ordered(Without(q, t), when)
         /\ \A i \in DOMAIN Without(q, t) : Without(q, t)[i] # t
<1>1. CASE \E i \in DOMAIN q : q[i] = t
  <2> DEFINE p == Place(q, t)
             r == [i \in 1 .. Len(q) - 1 |-> IF i < p THEN q[i] ELSE q[i + 1]]
             at(i) == IF i < p THEN i ELSE i + 1
  <2>1. p \in DOMAIN q /\ q[p] = t
    BY <1>1 DEF Place
  <2>2. Without(q, t) = r
    BY <1>1 DEF Without
  <2>3. Len(q) \in Nat /\ DOMAIN q = 1 .. Len(q) /\ DOMAIN r = 1 .. Len(q) - 1
    OBVIOUS
  <2> HIDE DEF p
  <2>4. \A i \in DOMAIN r : at(i) \in DOMAIN q /\ at(i) # p /\ r[i] = q[at(i)]
    BY <2>1, <2>3
  <2>5. \A i, j \in DOMAIN r : i < j => at(i) < at(j)
    BY <2>1, <2>3
  <2> HIDE DEF r, at
  <2>6. Ordered(r, when)
    BY <2>4, <2>5 DEF Ordered
  <2>7. \A i \in DOMAIN q : i # p => q[i] # t
    <3> SUFFICES ASSUME NEW i \in DOMAIN q, i # p PROVE q[i] # t
      OBVIOUS
    <3>1. i < p \/ p < i
      BY <2>1, <2>3
    <3> QED
      BY <3>1, <2>1 DEF Ordered
  <2> QED
    BY <2>2, <2>4, <2>6, <2>7
<1>2. CASE ~\E i \in DOMAIN q : q[i] = t
  BY <1>2 DEF Without
<1> QED
  BY <1>1, <1>2

\* The times of timers that are not in the queue do not matter.
LEMMA OtherTimes ==
  ASSUME NEW q \in Seq(Timer), NEW when \in [Timer -> Instant], Ordered(q, when),
         NEW t \in Timer, \A i \in DOMAIN q : q[i] # t, NEW time \in Instant
  PROVE  Ordered(q, [when EXCEPT ![t] = time])
<1>1. \A i \in DOMAIN q : [when EXCEPT ![t] = time][q[i]] = when[q[i]]
  <2> SUFFICES ASSUME NEW i \in DOMAIN q
               PROVE  [when EXCEPT ![t] = time][q[i]] = when[q[i]]
    OBVIOUS
  <2>1. q[i] \in Timer /\ q[i] # t
    OBVIOUS
  <2> QED
    BY <2>1
<1> QED
  BY <1>1 DEF Ordered

\* There is a place for a timer in any queue.
LEMMA PlaceExists ==
  ASSUME NEW q \in Seq(Timer), NEW when, NEW time
  PROVE  LET n == PlaceFor(q, when, time) IN
         /\ n \in 1 .. Len(q) + 1
         /\ n = Len(q) + 1 \/ ~Later(time, when[q[n]])
         /\ \A i \in 1 .. n - 1 : Later(time, when[q[i]])
<1> DEFINE Stops(n) == n = Len(q) + 1 \/ ~Later(time, when[q[n]])
           T == {n \in Nat : n \in 1 .. Len(q) + 1 /\ Stops(n)}
<1>1. Len(q) \in Nat /\ Len(q) + 1 \in T
  OBVIOUS
<1>2. PICK n \in T : \A m \in T : ~(<<m, n>> \in OpToRel(<, Nat))
  <2>1. T \subseteq Nat /\ T # {}
    BY <1>1
  <2> HIDE DEF T
  <2> QED
    BY <2>1, NatLessThanWellFounded, WFMin
<1>3. \A m \in T : ~(m < n)
  <2>1. T \subseteq Nat
    OBVIOUS
  <2> HIDE DEF T
  <2> QED
    BY <1>2, <2>1 DEF OpToRel
<1>4. n \in 1 .. Len(q) + 1 /\ Stops(n)
  OBVIOUS
<1>5. \A i \in 1 .. n - 1 : Later(time, when[q[i]])
  <2> SUFFICES ASSUME NEW i \in 1 .. n - 1 PROVE Later(time, when[q[i]])
    OBVIOUS
  <2>1. i \in Nat /\ i < n /\ i \in 1 .. Len(q) + 1
    BY <1>1, <1>4
  <2>2. i \notin T
    BY <2>1, <1>3
  <2> QED
    BY <2>1, <2>2
<1> QED
  BY <1>4, <1>5 DEF PlaceFor

\* A timer that is put into its place leaves the queue in order.
LEMMA InsertKeepsOrder ==
  ASSUME NEW q \in Seq(Timer), NEW when \in [Timer -> Instant], Ordered(q, when),
         NEW t \in Timer, \A i \in DOMAIN q : q[i] # t
  PROVE  LET r == InsertAt(q, PlaceFor(q, when, when[t]), t) IN
         r \in Seq(Timer) /\ Ordered(r, when) /\ r # <<>> /\ (q = <<>> => Head(r) = t)
<1> DEFINE n == PlaceFor(q, when, when[t])
           r == InsertAt(q, n, t)
<1>1. /\ n \in 1 .. Len(q) + 1
      /\ n = Len(q) + 1 \/ ~Later(when[t], when[q[n]])
      /\ \A i \in 1 .. n - 1 : Later(when[t], when[q[i]])
  BY PlaceExists
<1> HIDE DEF n
<1>2. Len(q) \in Nat /\ DOMAIN q = 1 .. Len(q) /\ \A i \in 1 .. Len(q) : q[i] \in Timer
  OBVIOUS
<1>3. r = [i \in 1 .. Len(q) + 1 |-> IF i < n THEN q[i] ELSE IF i = n THEN t ELSE q[i - 1]]
  BY DEF InsertAt
<1>4. r \in Seq(Timer) /\ DOMAIN r = 1 .. Len(q) + 1
  BY <1>1, <1>2, <1>3
<1>5. \A i \in 1 .. n - 1 : i \in DOMAIN q /\ r[i] = q[i]
  BY <1>1, <1>2, <1>3
<1>6. r[n] = t
  BY <1>1, <1>2, <1>3
<1>7. \A i \in n + 1 .. Len(q) + 1 : i - 1 \in DOMAIN q /\ n <= i - 1 /\ r[i] = q[i - 1]
  BY <1>1, <1>2, <1>3
<1>8. \A i \in DOMAIN r : when[r[i]] \in Instant
  BY <1>4
<1> HIDE DEF r
<1>9. ASSUME NEW j \in DOMAIN q, n <= j PROVE ~Later(when[t], when[q[j]])
  <2>1. n \in DOMAIN q /\ ~Later(when[t], when[q[n]])
    BY <1>1, <1>2, <1>9
  <2>2. CASE j = n
    BY <2>1, <2>2
  <2>3. CASE n < j
    <3>1. ~Later(when[q[n]], when[q[j]])
      BY <2>1, <2>3 DEF Ordered
    <3>2. when[t] \in Instant /\ when[q[n]] \in Instant /\ when[q[j]] \in Instant
      BY <1>2, <2>1
    <3> QED
      BY <3>1, <3>2, <2>1, NotLaterTransitive
  <2> QED
    BY <1>1, <1>2, <1>9, <2>2, <2>3
<1>10. ASSUME NEW i \in DOMAIN r, NEW j \in DOMAIN r, i < j
       PROVE  r[i] # r[j] /\ ~Later(when[r[i]], when[r[j]])
  <2>1. CASE j < n
    BY <1>1, <1>4, <1>5, <1>10, <2>1 DEF Ordered
  <2>2. CASE j = n
    <3>1. i \in 1 .. n - 1 /\ r[j] = t
      BY <1>4, <1>6, <1>10, <2>2
    <3>2. r[i] # t /\ Later(when[t], when[r[i]])
      BY <3>1, <1>1, <1>5
    <3>3. when[t] \in Instant /\ when[r[i]] \in Instant
      BY <1>8
    <3> QED
      BY <3>1, <3>2, <3>3, LaterAsymmetric
  <2>3. CASE n < j
    <3>1. j \in n + 1 .. Len(q) + 1
      BY <1>1, <1>2, <1>4, <2>3
    <3>2. r[j] = q[j - 1] /\ j - 1 \in DOMAIN q /\ n <= j - 1
      BY <3>1, <1>7
    <3>3. CASE i < n
      <4>1. i \in 1 .. n - 1 /\ i < j - 1
        BY <1>1, <1>2, <1>4, <3>2, <3>3
      <4> QED
        BY <4>1, <3>2, <1>5 DEF Ordered
    <3>4. CASE i = n
      BY <3>2, <3>4, <1>6, <1>9
    <3>5. CASE n < i
      <4>1. i \in n + 1 .. Len(q) + 1
        BY <1>1, <1>2, <1>4, <3>5
      <4>2. r[i] = q[i - 1] /\ i - 1 \in DOMAIN q /\ i - 1 < j - 1
        BY <4>1, <1>1, <1>2, <1>4, <1>7, <1>10
      <4> QED
        BY <4>2, <3>2 DEF Ordered
    <3> QED
      BY <1>1, <1>2, <1>4, <3>3, <3>4, <3>5
  <2> QED
    BY <1>1, <1>2, <1>4, <2>1, <2>2, <2>3
<1>11. Ordered(r, when)
  BY <1>10 DEF Ordered
<1>12. r # <<>>
  BY <1>2, <1>4
<1>13. ASSUME q = <<>> PROVE Head(r) = t
  <2>1. n = 1
    BY <1>1, <1>13
  <2> QED
    BY <2>1, <1>4, <1>6
<1> QED
  BY <1>4, <1>11, <1>12, <1>13 DEF r, n

-----------------------------------------------------------------------------
(* The alarm. *)

\* do_set_timer borrows a second and keeps the order.
LEMMA BorrowKeepsOrder ==
  ASSUME ClockType, NEW s \in TimerState, Ordered(s.queue, s.when), s.queue # <<>>
  PROVE  /\ Borrow(s) \in TimerState /\ Borrow(s).queue = s.queue
         /\ Ordered(s.queue, Borrow(s).when)
<1>1. CASE First(s).usec < clock
  <2> DEFINE h   == Head(s.queue)
             new == Time(s.when[h].sec - 1, s.when[h].usec + Second)
  <2>1. /\ s.queue \in Seq(Timer) /\ s.when \in [Timer -> Instant]
        /\ h \in Timer /\ h = s.queue[1] /\ 1 \in DOMAIN s.queue
    BY DEF TimerState
  <2>2. /\ s.when[h].sec \in Int /\ s.when[h].usec \in Nat /\ Second \in Nat
        /\ s.when[h] \in Instant /\ s.when[h].usec < Second
    BY <1>1, <2>1, MainLoopAssumption DEF Instant, First, ClockType
  <2>3. new \in Instant /\ ~Later(new, s.when[h])
    BY <2>2 DEF Time, Instant, Later
  <2>4. Borrow(s) = [s EXCEPT !.when = [@ EXCEPT ![h] = new]]
    BY <1>1, <2>1 DEF Borrow, TimerState
  <2> HIDE DEF new, h
  <2>5. Borrow(s) \in TimerState /\ Borrow(s).queue = s.queue
    BY <2>1, <2>3, <2>4 DEF TimerState
  <2>6. Borrow(s).when = [s.when EXCEPT ![h] = new]
    BY <2>4 DEF TimerState
  <2>7. ASSUME NEW i \in DOMAIN s.queue, NEW j \in DOMAIN s.queue, i < j
        PROVE  /\ s.queue[i] # s.queue[j]
               /\ ~Later(Borrow(s).when[s.queue[i]], Borrow(s).when[s.queue[j]])
    <3>1. s.queue[i] # s.queue[j] /\ ~Later(s.when[s.queue[i]], s.when[s.queue[j]])
      BY <2>7 DEF Ordered
    <3>2. s.queue[j] # h
      <4>1. 1 < j
        BY <2>1, <2>7
      <4> QED
        BY <4>1, <2>1 DEF Ordered
    <3>3. s.queue[i] \in Timer /\ s.queue[j] \in Timer
      BY <2>1
    <3>4. Borrow(s).when[s.queue[j]] = s.when[s.queue[j]]
      BY <2>1, <2>6, <3>2, <3>3
    <3>5. CASE s.queue[i] = h
      <4>1. Borrow(s).when[s.queue[i]] = new
        BY <2>1, <2>6, <3>5
      <4>2. s.when[s.queue[j]] \in Instant
        BY <2>1, <3>3
      <4> QED
        BY <4>1, <4>2, <2>2, <2>3, <3>1, <3>4, <3>5, NotLaterTransitive
    <3>6. CASE s.queue[i] # h
      BY <2>1, <2>6, <3>1, <3>3, <3>4, <3>6
    <3> QED
      BY <3>1, <3>5, <3>6
  <2> QED
    BY <2>5, <2>7 DEF Ordered
<1>2. CASE ~(First(s).usec < clock)
  BY <1>2 DEF Borrow
<1> QED
  BY <1>1, <1>2

LEMMA AlarmGood ==
  ASSUME NEW s \in TimerState, Ordered(s.queue, s.when), NEW n \in Nat \ {0}
  PROVE  Good(Alarm(s, n))
<1>1. Alarm(s, n) = [s EXCEPT !.left = n, !.interval = n]
  BY DEF Alarm
<1>2. /\ Alarm(s, n) \in TimerState
      /\ Alarm(s, n).queue = s.queue /\ Alarm(s, n).when = s.when
      /\ Alarm(s, n).left = n /\ Alarm(s, n).interval = n
  BY <1>1 DEF TimerState
<1> QED
  BY <1>2 DEF Good, Armed

\* do_set_timer leaves the alarm on, if it was on when the first timer is due already or
\* has borrowed a second before, so that setitimer may refuse its time.
LEMMA DoSetTimerGood ==
  ASSUME ClockType, NEW s \in TimerState, Ordered(s.queue, s.when),
         s.queue # <<>> /\ (~Later(First(s), Now) \/ First(s).usec >= Second)
           => s.left > 0 /\ s.interval > 0
  PROVE  Good(DoSetTimer(s))
<1>1. CASE s.queue = <<>>
  BY <1>1 DEF DoSetTimer, Alarm, Good, TimerState, Armed
<1>2. CASE s.queue # <<>> /\ Later(First(s), Now)
  <2>1. First(s) \in Instant
    BY <1>2 DEF First, TimerState
  <2>2. Ticks(First(s)) - clock \in Nat \ {0}
    BY <1>2, <2>1, LaterTakesTime
  <2>3. /\ Borrow(s) \in TimerState /\ Borrow(s).queue = s.queue
        /\ Ordered(s.queue, Borrow(s).when)
    BY <1>2, BorrowKeepsOrder
  <2>4. First(Borrow(s)) \in Instant /\ Ticks(First(Borrow(s))) = Ticks(First(s))
    <3>1. CASE First(s).usec < clock
      <4>1. First(Borrow(s)) = Time(First(s).sec - 1, First(s).usec + Second)
        BY <1>2, <3>1 DEF Borrow, First, TimerState
      <4>2. /\ First(s).sec \in Int /\ First(s).usec \in Nat /\ First(s).usec < Second
            /\ Second \in Nat
        BY <2>1, <3>1, MainLoopAssumption DEF Instant, ClockType
      <4> DEFINE x == First(s).sec
                 u == First(s).usec
      <4>3. First(Borrow(s)) = [sec |-> x - 1, usec |-> u + Second]
        BY <4>1 DEF Time
      <4>4. x - 1 \in Int /\ u + Second \in 0 .. 2 * Second - 1
        BY <4>2
      <4>5. First(Borrow(s)) \in Instant
        BY <4>3, <4>4 DEF Instant
      <4>6. (x - 1) * Second + (u + Second) = x * Second + u
        <5> HIDE DEF x, u
        <5>1. x \in Int /\ u \in Nat /\ Second \in Nat
          BY <4>2 DEF x, u
        <5>2. (x - 1) * Second = x * Second - Second
          BY <5>1
        <5>3. x * Second \in Int
          BY <5>1
        <5> QED
          BY <5>1, <5>2, <5>3
      <4>7. Ticks(First(Borrow(s))) = (x - 1) * Second + (u + Second)
        BY <4>3 DEF Ticks
      <4>8. Ticks(First(s)) = x * Second + u
        BY DEF Ticks
      <4> QED
        BY <4>5, <4>6, <4>7, <4>8
    <3>2. CASE ~(First(s).usec < clock)
      BY <2>1, <3>2 DEF Borrow
    <3> QED
      BY <3>1, <3>2
  <2>5. DoSetTimer(s) = SetITimer(Borrow(s))
    BY <1>2 DEF DoSetTimer
  <2>6. CASE First(Borrow(s)).usec - clock < Second
    <3>1. DoSetTimer(s) = Alarm(Borrow(s), Ticks(First(s)) - clock)
      BY <2>4, <2>5, <2>6 DEF SetITimer
    <3> QED
      BY <2>2, <2>3, <3>1, AlarmGood
  <2>7. CASE ~(First(Borrow(s)).usec - clock < Second)
    <3>1. First(s).usec >= Second
      <4>1. First(s).usec \in Nat /\ Second \in Nat /\ clock \in Nat /\ clock < Second
        BY <2>1, MainLoopAssumption DEF Instant, ClockType
      <4>2. ~(First(s).usec < clock)
        <5>1. First(s).usec < clock => First(Borrow(s)).usec = First(s).usec + Second
          BY <1>2 DEF Borrow, First, TimerState, Time
        <5> QED
          BY <2>7, <4>1, <5>1
      <4>3. Borrow(s) = s
        BY <4>2 DEF Borrow
      <4> QED
        BY <2>7, <4>1, <4>3
    <3>2. Borrow(s).left = s.left /\ Borrow(s).interval = s.interval
      BY DEF Borrow, TimerState
    <3>3. DoSetTimer(s) = [Borrow(s) EXCEPT !.had = TRUE]
      BY <2>5, <2>7 DEF SetITimer
    <3> QED
      BY <1>2, <2>3, <3>1, <3>2, <3>3 DEF Good, TimerState, Armed
  <2> QED
    BY <2>6, <2>7
<1>3. CASE s.queue # <<>> /\ ~Later(First(s), Now)
  BY <1>3 DEF DoSetTimer, Good, TimerState, Armed
<1> QED
  BY <1>1, <1>2, <1>3

LEMMA SetTimerGood ==
  ASSUME ClockType, NEW s, Good(s), NEW t \in Timer, NEW msecs \in Delays
  PROVE  Good(SetTimer(s, t, msecs))
<1> DEFINE q    == Without(s.queue, t)
           time == AddToCurrentTime(msecs)
           when == [s.when EXCEPT ![t] = time]
           r    == InsertAt(q, PlaceFor(q, when, time), t)
           new  == [s EXCEPT !.queue = r, !.when = when]
<1>1. s \in TimerState /\ s.queue \in Seq(Timer) /\ s.when \in [Timer -> Instant]
  BY DEF Good, TimerState
<1>2. q \in Seq(Timer) /\ Ordered(q, s.when) /\ \A i \in DOMAIN q : q[i] # t
  BY <1>1, WithoutType, WithoutKeepsOrder DEF Good
<1>3. time \in Instant /\ Later(time, Now) /\ time.usec < Second
  BY DelayIsLater
<1>4. when \in [Timer -> Instant] /\ when[t] = time
  BY <1>1, <1>3
<1> HIDE DEF time
<1>5. Ordered(q, when)
  BY <1>1, <1>2, <1>3, OtherTimes
<1>6. r \in Seq(Timer) /\ Ordered(r, when) /\ r # <<>> /\ (q = <<>> => Head(r) = t)
  BY <1>2, <1>4, <1>5, InsertKeepsOrder
<1> HIDE DEF when, r
<1>7. new \in TimerState /\ new.queue = r /\ new.when = when
      /\ new.left = s.left /\ new.interval = s.interval
  BY <1>1, <1>4, <1>6 DEF TimerState
<1>8. ASSUME ~Later(First(new), Now) \/ First(new).usec >= Second PROVE s.left > 0 /\ s.interval > 0
  <2>1. q # <<>>
    <3> SUFFICES ASSUME q = <<>> PROVE FALSE
      OBVIOUS
    <3>1. First(new) = time
      BY <1>4, <1>6, <1>7 DEF First
    <3>2. time.usec \in Nat /\ Second \in Nat
      BY <1>3, MainLoopAssumption DEF Instant
    <3> HIDE DEF new, q
    <3> QED
      BY <1>3, <1>8, <3>1, <3>2
  <2>2. s.queue # <<>>
    BY <2>1 DEF Without
  <2> QED
    BY <2>2 DEF Good, Armed
<1> HIDE DEF new
<1>9. Good(DoSetTimer(new))
  BY <1>6, <1>7, <1>8, DoSetTimerGood
<1> QED
  BY <1>9 DEF SetTimer, new, r, when, time

LEMMA ResetTimerGood ==
  ASSUME ClockType, NEW s, Good(s), NEW t \in Timer
  PROVE  Good(ResetTimer(s, t))
<1>1. CASE ~Queued(s, t)
  BY <1>1 DEF ResetTimer
<1>2. CASE Queued(s, t)
  <2> DEFINE new == [s EXCEPT !.queue = Without(@, t), !.when[t] = Never]
             q   == Without(s.queue, t)
  <2>1. s \in TimerState /\ s.queue \in Seq(Timer) /\ s.when \in [Timer -> Instant]
    BY DEF Good, TimerState
  <2>2. q \in Seq(Timer) /\ Ordered(q, s.when) /\ \A i \in DOMAIN q : q[i] # t
    BY <2>1, WithoutType, WithoutKeepsOrder DEF Good
  <2>3. Never \in Instant
    BY TimeTypes
  <2>4. Ordered(q, [s.when EXCEPT ![t] = Never])
    BY <2>1, <2>2, <2>3, OtherTimes
  <2>5. s.queue # <<>>
    BY <1>2, <2>1 DEF Queued
  <2> HIDE DEF q
  <2>6. new = [s EXCEPT !.queue = q, !.when = [s.when EXCEPT ![t] = Never]]
    BY <2>1 DEF TimerState, q
  <2> HIDE DEF new
  <2>7. /\ new \in TimerState /\ new.queue = q /\ new.when = [s.when EXCEPT ![t] = Never]
        /\ new.left = s.left /\ new.interval = s.interval
    BY <2>1, <2>2, <2>3, <2>6 DEF TimerState
  <2>8. Good(DoSetTimer(new))
    BY <2>4, <2>5, <2>7, DoSetTimerGood DEF Good, Armed
  <2> QED
    BY <1>2, <2>8 DEF ResetTimer, new
<1> QED
  BY <1>1, <1>2

-----------------------------------------------------------------------------
(* The loop. *)

Labels == {"check", "timers", "fire", "queue", "select", "fds", "handle", "ended"}
Places == [at : Labels, time : Moment, rfds : SUBSET Fd, x : BOOLEAN]

XType  == sock \in Seq(Kinds) /\ xq \in Seq(Kinds) /\ grabbed \in BOOLEAN
FdType == fds \subseteq Fd /\ ready \subseteq fds

\* When select has seen something of the X server, there is something to read.
PcType == pc \in Places /\ (pc.x => sock # <<>>)

IInv == ClockType /\ Good(tm) /\ kill_sig \in BOOLEAN /\ XType /\ FdType /\ PcType

LEMMA GoType ==
  ASSUME NEW label \in Labels
  PROVE  Go(label) \in Places /\ ~Go(label).x
BY MainLoopAssumption DEF Go, Places, Never, Time, Moment

LEMMA InitIInv == Init => IInv
<1> SUFFICES ASSUME Init PROVE IInv
  OBVIOUS
<1>1. ClockType
  BY MainLoopAssumption DEF Init, ClockType
<1>2. Good(tm)
  BY MainLoopAssumption DEF Init, NoTimers, Good, TimerState, Ordered, Armed, Never, Time, Instant
<1>3. PcType
  BY GoType DEF Init, PcType, Labels
<1>4. XType
  <2>1. <<>> \in Seq(Kinds)
    OBVIOUS
  <2> QED
    BY <2>1 DEF Init, XType
<1>5. FdType /\ kill_sig \in BOOLEAN
  BY DEF Init, FdType
<1> QED
  BY <1>1, <1>2, <1>3, <1>4, <1>5 DEF IInv

\* A handler that returns leaves the loop where it was called from.
LEMMA ReturnKeeps ==
  ASSUME IInv, NEW inner \in BOOLEAN, Return(inner)
  PROVE  sock' \in Seq(Kinds) /\ xq' \in Seq(Kinds) /\ grabbed' \in BOOLEAN /\ PcType'
<1>1. CASE At("fire")
  <2>1. pc' = [pc EXCEPT !.at = "timers"] /\ UNCHANGED <<xvars, grabbed>>
    BY <1>1 DEF Return
  <2>2. pc' \in Places /\ pc'.x = pc.x
    BY <2>1 DEF IInv, PcType, Places, Labels
  <2> QED
    BY <2>1, <2>2 DEF IInv, PcType, XType, xvars
<1>2. CASE ~At("fire")
  <2>1. pc' = Go("check") /\ grabbed' = inner
    BY <1>2 DEF Return
  <2>2. PcType'
    BY <2>1, GoType DEF PcType, Labels
  <2>3. <<>> \in Seq(Kinds) /\ xq \o sock \in Seq(Kinds)
    BY DEF IInv, XType
  <2>4. UNCHANGED <<xq, sock>> \/ (xq' = xq \o sock /\ sock' = <<>>)
    BY <1>2 DEF Return, xvars
  <2>5. sock' \in Seq(Kinds) /\ xq' \in Seq(Kinds)
    BY <2>3, <2>4 DEF IInv, XType
  <2> QED
    BY <2>1, <2>2, <2>5
<1> QED
  BY <1>1, <1>2

\* Timers are taken from the queue in order, and when none is due the alarm is set.
LEMMA TimersStep == IInv /\ (CheckSignals \/ FireTimer \/ TimersDone) => IInv'
<1> SUFFICES ASSUME IInv, CheckSignals \/ FireTimer \/ TimersDone PROVE IInv'
  OBVIOUS
<1>1. CASE CheckSignals
  <2>1. Go("timers") \in Places /\ Go("ended") \in Places /\ Go("queue") \in Places
    BY GoType DEF Labels
  <2>2. ~Go("timers").x /\ ~Go("ended").x /\ ~Go("queue").x
    BY GoType DEF Labels
  <2>3. /\ [Go("timers") EXCEPT !.time = Now] \in Places
        /\ ~[Go("timers") EXCEPT !.time = Now].x
    BY <2>1, <2>2, TimeTypes DEF IInv, Places
  <2>4. PcType'
    BY <1>1, <2>1, <2>2, <2>3 DEF CheckSignals, PcType
  <2> QED
    BY <1>1, <2>4 DEF CheckSignals, IInv, ClockType, XType, FdType, io, xvars
<1>2. CASE FireTimer
  <2> DEFINE h == Head(tm.queue)
  <2>1. /\ tm \in TimerState /\ tm.queue \in Seq(Timer) /\ tm.queue # <<>>
        /\ tm.when \in [Timer -> Instant] /\ Ordered(tm.queue, tm.when)
        /\ tm.left > 0 /\ tm.interval > 0
    BY <1>2 DEF IInv, Good, Armed, TimerState, FireTimer, Due
  <2>2. h \in Timer /\ h = tm.queue[1] /\ Tail(tm.queue) \in Seq(Timer)
    BY <2>1
  <2>3. /\ DOMAIN Tail(tm.queue) = 1 .. Len(tm.queue) - 1
        /\ Len(tm.queue) \in Nat /\ DOMAIN tm.queue = 1 .. Len(tm.queue)
        /\ \A i \in DOMAIN Tail(tm.queue) : Tail(tm.queue)[i] = tm.queue[i + 1]
    BY <2>1
  <2>4. Ordered(Tail(tm.queue), tm.when) /\ \A i \in DOMAIN Tail(tm.queue) : Tail(tm.queue)[i] # h
    <3>1. \A i \in DOMAIN Tail(tm.queue) : i + 1 \in DOMAIN tm.queue /\ 1 < i + 1 /\ 1 \in DOMAIN tm.queue
      BY <2>3
    <3>2. \A i, j \in DOMAIN Tail(tm.queue) : i < j => i + 1 < j + 1
      BY <2>3
    <3> QED
      BY <2>1, <2>2, <2>3, <3>1, <3>2 DEF Ordered
  <2>5. Never \in Instant
    BY TimeTypes DEF IInv
  <2>6. Ordered(Tail(tm.queue), [tm.when EXCEPT ![h] = Never])
    BY <2>1, <2>2, <2>4, <2>5, OtherTimes
  <2>7. tm' = [tm EXCEPT !.queue = Tail(tm.queue), !.when = [tm.when EXCEPT ![h] = Never]]
    BY <1>2, <2>1 DEF FireTimer, TimerState
  <2> HIDE DEF h
  <2>8. /\ tm' \in TimerState /\ tm'.queue = Tail(tm.queue)
        /\ tm'.when = [tm.when EXCEPT ![h] = Never]
        /\ tm'.left = tm.left /\ tm'.interval = tm.interval
    BY <2>1, <2>2, <2>5, <2>7 DEF TimerState
  <2>9. Good(tm)'
    BY <2>1, <2>6, <2>8 DEF Good, Armed
  <2>10. PcType'
    BY <1>2 DEF FireTimer, IInv, PcType, Places, Labels, io, xvars
  <2> QED
    BY <1>2, <2>9, <2>10 DEF FireTimer, IInv, ClockType, XType, FdType, io, xvars
<1>3. CASE TimersDone
  <2> DEFINE s == [tm EXCEPT !.had = FALSE]
  <2>1. /\ s \in TimerState /\ s.queue = tm.queue /\ s.when = tm.when
        /\ s.left = tm.left /\ s.interval = tm.interval
    BY DEF IInv, Good, TimerState
  <2> HIDE DEF s
  <2>2. Good(DoSetTimer(s))
    BY <2>1, DoSetTimerGood DEF IInv, Good, Armed
  <2>3. tm' = DoSetTimer(s) /\ pc' = Go("queue")
    BY <1>3 DEF TimersDone, s
  <2>4. Good(tm)'
    BY <2>2, <2>3 DEF Good, Armed
  <2>5. PcType'
    BY <2>3, GoType DEF PcType, Labels
  <2> QED
    BY <1>3, <2>4, <2>5 DEF TimersDone, IInv, ClockType, XType, FdType, io, xvars
<1> QED
  BY <1>1, <1>2, <1>3

\* A step that leaves the timers and the clock alone.
LEMMA TimersAlone ==
  ASSUME IInv, UNCHANGED <<clock, tm, kill_sig>>, XType', FdType', PcType'
  PROVE  IInv'
BY DEF IInv, ClockType, Good, TimerState, Ordered, Armed

\* Events and descriptors.
LEMMA EventStep ==
  IInv /\ (GetQueued \/ GetMasked \/ Sleep \/ Wake \/ WakeMasked \/ InputFds \/ FdsDone) => IInv'
<1> SUFFICES ASSUME IInv,
                    GetQueued \/ GetMasked \/ Sleep \/ Wake \/ WakeMasked \/ InputFds \/ FdsDone
             PROVE  IInv'
  OBVIOUS
<1>1. XType /\ FdType /\ PcType
  BY DEF IInv
<1>2. /\ \A label \in Labels : Go(label) \in Places /\ ~Go(label).x
      /\ {"handle", "select", "fds", "check"} \subseteq Labels
  BY GoType DEF Labels
<1>3. CASE GetQueued
  <2>1. Tail(xq) \in Seq(Kinds)
    BY <1>1, <1>3 DEF GetQueued, XType
  <2> QED
    BY <1>1, <1>2, <1>3, <2>1, TimersAlone DEF GetQueued, XType, FdType, PcType
<1>4. CASE GetMasked
  <2>1. xq \o sock \in Seq(Kinds) /\ <<>> \in Seq(Kinds)
    BY <1>1 DEF XType
  <2>2. Without(xq \o sock, "input") \in Seq(Kinds)
    BY <2>1, WithoutType
  <2>3. /\ xq' \in {xq \o sock, Without(xq \o sock, "input")} /\ sock' = <<>>
        /\ pc' \in {Go("handle"), Go("select")}
        /\ UNCHANGED <<clock, tm, kill_sig, fds, ready, grabbed>>
    BY <1>4 DEF GetMasked
  <2>4. XType'
    BY <1>1, <2>1, <2>2, <2>3 DEF XType
  <2>5. PcType'
    BY <1>2, <2>3 DEF PcType
  <2> QED
    BY <1>1, <2>3, <2>4, <2>5, TimersAlone DEF FdType
<1>5. CASE Sleep \/ WakeMasked
  BY <1>1, <1>2, <1>5, TimersAlone DEF Sleep, WakeMasked, XType, FdType, PcType, io, xvars
<1>6. CASE Wake
  <2> DEFINE new == [Go("fds") EXCEPT !.rfds = ReadyFds, !.x = sock # <<>>]
  <2>1. ReadyFds \subseteq Fd
    BY <1>1 DEF ReadyFds, FdType
  <2>2. Go("fds") \in Places /\ (sock # <<>>) \in BOOLEAN
    BY <1>2
  <2>3. ASSUME NEW b \in BOOLEAN
        PROVE  LET p == [Go("fds") EXCEPT !.rfds = ReadyFds, !.x = b] IN p \in Places /\ p.x = b
    BY <2>1, <2>2 DEF Places
  <2>4. new \in Places /\ new.x = (sock # <<>>)
    BY <2>2, <2>3, Zenon
  <2> QED
    BY <1>1, <1>6, <2>4, TimersAlone DEF Wake, XType, FdType, PcType, io, xvars
<1>7. CASE InputFds
  <2>1. pc' \in Places /\ pc'.x = pc.x
    BY <1>1, <1>7 DEF InputFds, PcType, Places
  <2> QED
    BY <1>1, <1>7, <2>1, TimersAlone DEF InputFds, XType, FdType, PcType, xvars
<1>8. CASE FdsDone
  <2>1. CASE pc.x
    <3>1. /\ xq \o sock \in Seq(Kinds) /\ <<>> \in Seq(Kinds)
          /\ Len(xq \o sock) = Len(xq) + Len(sock) /\ Len(xq) \in Nat /\ Len(sock) > 0
      BY <1>1, <2>1 DEF XType, PcType
    <3>2. xq \o sock # <<>> /\ Tail(xq \o sock) \in Seq(Kinds)
      BY <3>1
    <3>3. /\ xq' = Tail(xq \o sock) /\ sock' = <<>> /\ pc' = Go("handle")
          /\ UNCHANGED <<clock, tm, kill_sig, fds, ready, grabbed>>
      BY <1>8, <2>1 DEF FdsDone
    <3>4. XType' /\ PcType'
      BY <1>1, <1>2, <3>1, <3>2, <3>3 DEF XType, PcType
    <3> QED
      BY <1>1, <3>3, <3>4, TimersAlone DEF FdType
  <2>2. CASE ~pc.x
    BY <1>1, <1>2, <1>8, <2>2, TimersAlone DEF FdsDone, XType, FdType, PcType, xvars
  <2> QED
    BY <2>1, <2>2
<1> QED
  BY <1>3, <1>4, <1>5, <1>6, <1>7, <1>8

Handler ==
  \/ HandlerGrabsOrNot
  \/ \E t \in Timer : HandlerResets(t) \/ \E msecs \in Delays : HandlerSets(t, msecs)
  \/ \E fd \in Fd : HandlerRegisters(fd) \/ HandlerUnregisters(fd)

\* Whatever timers a handler sets and resets.
LEMMA HandlerStep == IInv /\ Handler => IInv'
<1> SUFFICES ASSUME IInv, Handler PROVE IInv'
  OBVIOUS
<1>1. ClockType /\ Good(tm) /\ XType /\ FdType /\ grabbed \in BOOLEAN
  BY DEF IInv, XType
<1>2. ASSUME NEW inner \in BOOLEAN, Return(inner) PROVE XType' /\ PcType'
  BY <1>2, ReturnKeeps DEF XType
<1>3. CASE HandlerGrabsOrNot
  BY <1>1, <1>2, <1>3, TimersAlone DEF HandlerGrabsOrNot, FdType
<1>4. ASSUME NEW fd \in Fd, HandlerRegisters(fd) \/ HandlerUnregisters(fd) PROVE IInv'
  <2>1. XType' /\ PcType'
    BY <1>1, <1>2, <1>4 DEF HandlerRegisters, HandlerUnregisters
  <2>2. FdType'
    BY <1>1, <1>4 DEF HandlerRegisters, HandlerUnregisters, FdType
  <2> QED
    BY <1>4, <2>1, <2>2, TimersAlone DEF HandlerRegisters, HandlerUnregisters
<1>5. ASSUME NEW t \in Timer, HandlerResets(t) PROVE IInv'
  <2>1. XType' /\ PcType'
    BY <1>1, <1>2, <1>5 DEF HandlerResets
  <2>2. Good(ResetTimer(tm, t))
    BY <1>1, ResetTimerGood
  <2>3. tm' = ResetTimer(tm, t) /\ UNCHANGED <<clock, kill_sig, fds, ready>>
    BY <1>5 DEF HandlerResets
  <2>4. Good(tm)'
    BY <2>2, <2>3 DEF Good, Armed
  <2> QED
    BY <2>1, <2>3, <2>4 DEF IInv, ClockType, FdType
<1>6. ASSUME NEW t \in Timer, NEW msecs \in Delays, HandlerSets(t, msecs) PROVE IInv'
  <2>1. XType' /\ PcType'
    BY <1>1, <1>2, <1>6 DEF HandlerSets
  <2>2. Good(SetTimer(tm, t, msecs))
    BY <1>1, SetTimerGood
  <2>3. tm' = SetTimer(tm, t, msecs) /\ UNCHANGED <<clock, kill_sig, fds, ready>>
    BY <1>6 DEF HandlerSets
  <2>4. Good(tm)'
    BY <2>2, <2>3 DEF Good, Armed
  <2> QED
    BY <2>1, <2>3, <2>4 DEF IInv, ClockType, FdType
<1> QED
  BY <1>3, <1>4, <1>5, <1>6 DEF Handler

-----------------------------------------------------------------------------
(* Time and the world outside. *)

LEMMA InterruptedType == IInv => Interrupted \in Places /\ (Interrupted.x => sock # <<>>)
BY GoType DEF IInv, PcType, Interrupted, Labels

\* Time passes: the alarm goes on, and the queue stays in order.
LEMMA TickStep == IInv /\ Tick => IInv'
<1> SUFFICES ASSUME IInv, Tick PROVE IInv'
  OBVIOUS
<1> DEFINE over  == clock + 1 = Second
           moved == [t \in Timer |-> IF Queued(tm, t) THEN Ago(tm.when[t]) ELSE Never]
           when  == IF over THEN moved ELSE tm.when
           left  == IF tm.left = 0 THEN 0 ELSE IF tm.left = 1 THEN tm.interval ELSE tm.left - 1
           had   == tm.had \/ tm.left = 1
<1>1. /\ tm \in TimerState /\ tm.queue \in Seq(Timer) /\ tm.when \in [Timer -> Instant]
      /\ tm.left \in Nat /\ tm.interval \in Nat /\ Ordered(tm.queue, tm.when) /\ Armed(tm)
  BY DEF IInv, Good, TimerState
<1>2. ClockType'
  BY MainLoopAssumption DEF Tick, IInv, ClockType
<1>3. tm' = [tm EXCEPT !.when = when, !.left = left, !.had = had]
  BY <1>1 DEF Tick, TimerState
<1>4. \A a \in Instant : Ago(a) \in Instant
  BY AgoKeepsOrder, LaterAsymmetric
<1>5. Never \in Instant
  BY TimeTypes DEF IInv
<1>6. moved \in [Timer -> Instant]
  BY <1>1, <1>4, <1>5
<1>7. Ordered(tm.queue, moved)
  <2>1. \A i \in DOMAIN tm.queue : /\ tm.queue[i] \in Timer
                                   /\ moved[tm.queue[i]] = Ago(tm.when[tm.queue[i]])
    BY <1>1 DEF Queued
  <2> HIDE DEF moved
  <2> QED
    BY <1>1, <2>1, AgoKeepsOrder DEF Ordered
<1>8. when \in [Timer -> Instant] /\ Ordered(tm.queue, when)
  BY <1>1, <1>6, <1>7
<1>9. left \in Nat /\ (tm.queue # <<>> => left > 0 /\ tm.interval > 0)
  BY <1>1 DEF Armed
<1> HIDE DEF when, left, had
<1>10. Good(tm)'
  <2>1. had \in BOOLEAN
    BY DEF had
  <2>2. /\ tm' \in TimerState /\ tm'.queue = tm.queue /\ tm'.when = when
        /\ tm'.left = left /\ tm'.interval = tm.interval
    BY <1>1, <1>3, <1>8, <1>9, <2>1 DEF TimerState
  <2> QED
    BY <1>8, <1>9, <2>2 DEF Good, Armed
<1>11. PcType'
  <2>1. CASE pc' = [pc EXCEPT !.time = Ago(@)]
    <3>1. pc.time \in Moment
      BY DEF IInv, PcType, Places
    <3>2. pc' \in Places /\ pc'.x = pc.x
      BY <2>1, <3>1, AgoType DEF IInv, PcType, Places
    <3> QED
      BY <3>2 DEF Tick, IInv, PcType, io, xvars
  <2>2. CASE pc' \in {pc, Interrupted}
    BY <2>2, InterruptedType DEF Tick, IInv, PcType, io, xvars
  <2> QED
    BY <2>1, <2>2 DEF Tick
<1> QED
  BY <1>2, <1>10, <1>11 DEF Tick, IInv, XType, FdType, io, xvars

Arrival ==
  \/ KillSignal
  \/ \E kind \in Kinds : EventArrives(kind)
  \/ \E fd \in Fd : InputArrives(fd)

LEMMA ArrivalStep == IInv /\ Arrival => IInv'
<1> SUFFICES ASSUME IInv, Arrival PROVE IInv'
  OBVIOUS
<1>1. CASE KillSignal
  <2>1. PcType'
    BY <1>1, InterruptedType DEF KillSignal, PcType, io, xvars
  <2> QED
    BY <1>1, <2>1 DEF KillSignal, IInv, ClockType, Good, Armed, XType, FdType, io, xvars
<1>2. ASSUME NEW kind \in Kinds, EventArrives(kind) PROVE IInv'
  <2>1. sock' \in Seq(Kinds) /\ sock' # <<>>
    BY <1>2 DEF EventArrives, IInv, XType
  <2> QED
    BY <1>2, <2>1, TimersAlone DEF EventArrives, IInv, XType, FdType, PcType
<1>3. ASSUME NEW fd \in Fd, InputArrives(fd) PROVE IInv'
  BY <1>3, TimersAlone DEF InputArrives, IInv, XType, FdType, PcType, xvars
<1> QED
  BY <1>1, <1>2, <1>3 DEF Arrival

-----------------------------------------------------------------------------

LEMMA NextIInv == IInv /\ [Next]_vars => IInv'
<1> SUFFICES ASSUME IInv, [Next]_vars PROVE IInv'
  OBVIOUS
<1>1. CASE UNCHANGED vars \/ Ended
  BY <1>1, TimersAlone DEF vars, Ended, IInv, XType, FdType, PcType, io, xvars
<1>2. CASE Next
  BY <1>1, <1>2, TimersStep, EventStep, HandlerStep, TickStep, ArrivalStep
     DEF Next, Loop, Handler, Arrival
<1> QED
  BY <1>1, <1>2

\* The timers are sound wherever the loop is, whatever was set, reset, borrowed and missed:
\* the queue is in order, and its alarm is on (set_timer, reset_timer, check_signals).
THEOREM TimersAreSound == Spec => []TimersSound
<1>1. IInv => TimersSound
  <2> SUFFICES ASSUME IInv PROVE TimersSound
    OBVIOUS
  <2>1. TypeOK
    BY DEF IInv, ClockType, Good, TimerState, XType, FdType, PcType, Places, Labels, Instant, Moment, TypeOK
  <2>2. AlarmArmed /\ QueueInOrder
    BY DEF IInv, Good, Armed, Ordered, AlarmArmed, QueueInOrder
  <2> QED
    BY <2>1, <2>2 DEF TimersSound
<1> QED
  BY <1>1, InitIInv, NextIInv, PTL DEF Spec

\* A timer that is due by the seconds of its time is due, or a second was borrowed from it.
LEMMA DueIsOver ==
  ASSUME NEW a \in Instant, NEW now \in Moment, Later(now, a)
  PROVE  \/ Ticks(a) <= Ticks(now)
         \/ a.usec >= Second /\ Ticks(a) < Ticks(now) + Second
<1>1. /\ Second \in Nat /\ Second > 0 /\ a.sec \in Int /\ now.sec \in Int
      /\ a.usec \in Nat /\ a.usec < 2 * Second /\ now.usec \in Nat
  BY MainLoopAssumption DEF Instant, Moment
<1> DEFINE d == now.sec - a.sec
<1>2. d \in Int /\ d * Second \in Int /\ a.sec * Second \in Int
  BY <1>1
<1>3. now.sec * Second = a.sec * Second + d * Second
  BY <1>1
<1>4. d > 0 \/ (d = 0 /\ now.usec > a.usec)
  BY <1>1 DEF Later
<1> HIDE DEF d
<1>5. d > 0 => d * Second >= Second
  BY <1>1, <1>2
<1>6. d = 0 => d * Second = 0
  BY <1>1
<1> QED
  BY <1>1, <1>2, <1>3, <1>4, <1>5, <1>6 DEF Ticks

\* No timer fires early, except by less than a second if one was borrowed from it.
THEOREM TimersFireOnTime == Spec => FiresOnTime
<1>1. IInv /\ [Next]_vars =>
        [FireTimer => \/ Ticks(First(tm)) <= Ticks(pc.time)
                      \/ /\ First(tm).usec >= Second
                         /\ Ticks(First(tm)) < Ticks(pc.time) + Second]_vars
  <2> SUFFICES ASSUME IInv, FireTimer
               PROVE  \/ Ticks(First(tm)) <= Ticks(pc.time)
                      \/ /\ First(tm).usec >= Second
                         /\ Ticks(First(tm)) < Ticks(pc.time) + Second
    OBVIOUS
  <2>1. tm.queue # <<>> /\ Later(pc.time, First(tm))
    BY DEF FireTimer, Due
  <2>2. First(tm) \in Instant
    BY <2>1 DEF IInv, Good, TimerState, First
  <2>3. pc.time \in Moment
    BY DEF IInv, PcType, Places
  <2> QED
    BY <2>1, <2>2, <2>3, DueIsOver
<1> QED
  BY <1>1, InitIInv, NextIInv, PTL DEF Spec, FiresOnTime

=============================================================================
