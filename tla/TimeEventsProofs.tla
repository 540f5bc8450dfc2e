-------------------------- MODULE TimeEventsProofs --------------------------
(***************************************************************************)
(* Theorems about the scheduler, for every size of the counter and every   *)
(* number of events.                                                       *)
(***************************************************************************)
EXTENDS TimeEvents, WellFoundedInduction, TLAPS

(* What the counter c shows k ticks later; earlier when k is negative.     *)
At(c, k) == (c + k) % Modulus

(* A poll is under way and has not come to event e.                        *)
Unpolled(e) == pc \in {"events", "callback"} /\ e >= index

(* The poll in progress has read the counter when it began.                *)
NowInv == pc \in {"events", "callback"} => now = At(counter, -lag)

(* An armed event's time is the one that comes in `due' ticks, which is    *)
(* not further ahead than callers go, and not past by more than a turn of  *)
(* the main loop when it begins a poll: after each poll it is still ahead. *)
DueInv == \A e \in Armed(time_event_time) :
             /\ time_event_time[e] = At(counter, due[e])
             /\ due[e] <= MaxDelay
             /\ due[e] + lag >= IF Unpolled(e) THEN -MaxLag ELSE 0

(* An event that waits for the early wakeup is still that far ahead.       *)
WaitInv == ~stale => \A e \in Armed(time_event_time) :
                        waiting[e] => due[e] + lag >= early_wakeup_advance

(* The early wakeup comes in w ticks: it is not so old that it seems to    *)
(* come, and no later than any event that waits for it needs.              *)
EarlyAt(w) == /\ early_wakeup_time = At(counter, w)
              /\ pc \in {"events", "callback", "body"} =>
                    w + lag >= -(early_wakeup_advance + MaxLag)
              /\ \A e \in Armed(time_event_time) :
                    waiting[e] => w <= due[e] - early_wakeup_advance

EarlyRange == 1 - Half .. MaxDelay - early_wakeup_advance

EarlyInv == ~stale =>
               IF early_wakeup_time = TIME_INVALID
               THEN \A e \in Armed(time_event_time) : ~waiting[e]
               ELSE \E w \in EarlyRange : EarlyAt(w)

(* The compare match comes in k ticks, not before the sleep begins, and no *)
(* later than any event or any early wakeup that is waited for.            *)
WakeAt(k) == /\ compare = At(counter, k)
             /\ pc = "enter" => k + lag > MaxLag
             /\ \A e \in Armed(time_event_time) :
                   /\ k <= due[e]
                   /\ waiting[e] /\ ~stale => k <= due[e] - early_wakeup_advance

SleepInv == pc \in {"enter", "asleep"} /\ Armed(time_event_time) # {} =>
               \E k \in 1 .. MaxDelay : WakeAt(k)

TimeInv == /\ TypeOK /\ stale \in BOOLEAN
           /\ NowInv /\ DueInv /\ WaitInv /\ EarlyInv /\ SleepInv

-----------------------------------------------------------------------------
(* Half the range of the counter.                                          *)
LEMMA Halves == Half \in Nat /\ Modulus = Half + Half /\ Half > 0 /\ Modulus \in Nat
  BY TimeAssumption DEF Half

(* Adding whole turns of a counter of M values changes no residue.         *)
LEMMA Turns ==
    ASSUME NEW M \in Int, M > 0, NEW a \in Int, NEW q \in Int
    PROVE  (a + M * q) % M = a % M
<1> DEFINE b == a + M * q
           c == a \div M
           d == b \div M
<1>1. b \in Int /\ c \in Int /\ d \in Int
  OBVIOUS
<1>2. a = M * c + (a % M) /\ a % M \in Int /\ 0 <= a % M /\ a % M < M
  OBVIOUS
<1>3. b = M * d + (b % M) /\ b % M \in Int /\ 0 <= b % M /\ b % M < M
  BY <1>1
<1>4. \A x, y, z \in Int : M * (x - y - z) = M * x - M * y - M * z
  OBVIOUS
<1>5. \A z \in Int : (z >= 1 => M * z >= M) /\ (z <= -1 => M * z <= -M)
  OBVIOUS
<1>6. b = a + M * q
  OBVIOUS
<1> HIDE DEF b, c, d
<1> DEFINE z == d - c - q
<1>7. z \in Int /\ M * z = M * d - M * c - M * q
  BY <1>1, <1>4
<1>8. M * z = (a % M) - (b % M)
  BY <1>1, <1>2, <1>3, <1>6, <1>7
<1> HIDE DEF z
<1>9. z = 0
  BY <1>2, <1>3, <1>5, <1>7, <1>8
<1> QED BY <1>2, <1>3, <1>8, <1>9 DEF b

(* The residue of a number less than a turn away.                          *)
LEMMA Residue ==
    ASSUME NEW a \in Int
    PROVE  /\ a % Modulus \in Times
           /\ a \in 0 .. Modulus - 1 => a % Modulus = a
           /\ a \in -Modulus .. -1 => a % Modulus = a + Modulus
           /\ a \in Modulus .. 2 * Modulus - 1 => a % Modulus = a - Modulus
  BY Halves DEF Times

(* A residue may be used in place of the number.                           *)
LEMMA ResidueAdd ==
    ASSUME NEW a \in Int, NEW b \in Int
    PROVE  /\ ((a % Modulus) + b) % Modulus = (a + b) % Modulus
           /\ (b - (a % Modulus)) % Modulus = (b - a) % Modulus
<1>1. \A M \in Int : M > 0 => /\ ((a % M) + b) % M = (a + b) % M
                             /\ (b - (a % M)) % M = (b - a) % M
  <2> SUFFICES ASSUME NEW M \in Int, M > 0
               PROVE  /\ ((a % M) + b) % M = (a + b) % M
                      /\ (b - (a % M)) % M = (b - a) % M
    OBVIOUS
  <2> DEFINE q == a \div M
  <2>1. q \in Int /\ -q \in Int /\ a % M \in Int /\ a = M * q + (a % M) /\ M * (-q) = -(M * q)
        /\ M * q \in Int
    OBVIOUS
  <2> HIDE DEF q
  <2>2. (a % M) + b = (a + b) + M * (-q)
    BY <2>1
  <2>3. b - (a % M) = (b - a) + M * q
    BY <2>1
  <2>4. a + b \in Int /\ b - a \in Int
    OBVIOUS
  <2>5. ((a + b) + M * (-q)) % M = (a + b) % M
    BY ONLY M \in Int, M > 0, <2>1, <2>4, Turns
  <2>6. ((b - a) + M * q) % M = (b - a) % M
    BY ONLY M \in Int, M > 0, <2>1, <2>4, Turns
  <2> QED BY ONLY <2>2, <2>3, <2>5, <2>6
<1> QED BY <1>1, Halves
(* The parameters are numbers, and what callers may be ahead of or behind  *)
(* the counter adds up to less than half its range.                        *)
LEMMA Bounds ==
    /\ early_wakeup_advance \in Nat /\ early_wakeup_advance > 0
    /\ MaxDelay \in Nat /\ MaxLag \in Nat /\ TIME_SLEEP_THRESHOLD \in Nat
    /\ MaxLag < TIME_SLEEP_THRESHOLD
    /\ MaxDelay + early_wakeup_advance + 2 * MaxLag < Half
    /\ TIME_EVENTS \in Nat \ {0} /\ Events \subseteq Nat
<1>1. /\ early_wakeup_advance \in Nat /\ MaxDelay \in Nat /\ MaxLag \in Nat
      /\ TIME_SLEEP_THRESHOLD \in Nat
  BY TimeAssumption
<1> QED BY <1>1, TimeAssumption DEF Events

(* Sums and differences of times are those of the ticks they stand for.    *)
LEMMA AtProps ==
    ASSUME NEW c \in Int, NEW j \in Int, NEW k \in Int
    PROVE  /\ At(c, j) \in Times /\ At(c, j) # TIME_INVALID /\ At(c, j) \in Int
           /\ time_add(At(c, j), k) = At(c, j + k)
           /\ time_sub(At(c, j), k) = At(c, j - k)
           /\ (At(c, j) - At(c, k)) % Modulus = (j - k) % Modulus
           /\ At(At(c, j), k) = At(c, j + k)
<1>1. c + j \in Int /\ c + k \in Int /\ -k \in Int /\ (c + j) % Modulus \in Int
      /\ (c + k) % Modulus \in Int
  BY Residue DEF Times
<1>2. At(c, j) \in Times /\ At(c, j) # TIME_INVALID /\ At(c, j) \in Int
  BY <1>1, Residue DEF At, Times, TIME_INVALID
<1>3. (((c + j) % Modulus) + k) % Modulus = ((c + j) + k) % Modulus
  BY <1>1, ResidueAdd
<1>4. (((c + j) % Modulus) + (-k)) % Modulus = ((c + j) + (-k)) % Modulus
  BY <1>1, ResidueAdd
<1>5. /\ (c + j) + k = c + (j + k) /\ (c + j) + (-k) = c + (j - k)
      /\ ((c + j) % Modulus) + (-k) = ((c + j) % Modulus) - k
  BY <1>1
<1>6. (At(c, j) - At(c, k)) % Modulus = (j - k) % Modulus
  <2> DEFINE a == (c + j) % Modulus
             b == c + k
  <2>1. a \in Int /\ b \in Int /\ -b \in Int
    BY <1>1
  <2>2. (a - (b % Modulus)) % Modulus = (a - b) % Modulus
    BY <2>1, ResidueAdd
  <2>3. (((c + j) % Modulus) + (-b)) % Modulus = ((c + j) + (-b)) % Modulus
    BY <1>1, <2>1, ResidueAdd
  <2>4. a - b = a + (-b) /\ (c + j) + (-b) = j - k
    BY <2>1
  <2> QED BY ONLY <2>2, <2>3, <2>4 DEF At
<1> QED BY <1>2, <1>3, <1>4, <1>5, <1>6 DEF At, time_add, time_sub

(* What the counter itself shows.                                          *)
LEMMA AtZero ==
    ASSUME NEW c \in Times
    PROVE  At(c, 0) = c
<1>1. c \in Int /\ c + 0 = c /\ c \in 0 .. Modulus - 1
  BY Halves DEF Times
<1> QED BY <1>1, Residue DEF At

(* Within half the counter's range, time_ge compares the ticks.            *)
LEMMA AtGe ==
    ASSUME NEW c \in Int, NEW j \in Int, NEW k \in Int
    PROVE  /\ j - k \in -Half .. Half - 1 => (time_ge(At(c, j), At(c, k)) <=> j >= k)
           /\ j - k \in Half .. Modulus - 1 => ~time_ge(At(c, j), At(c, k))
<1>1. (At(c, j) - At(c, k)) % Modulus = (j - k) % Modulus
  BY AtProps
<1>2. j - k \in Int
  OBVIOUS
<1> DEFINE x == j - k
<1>3. /\ x \in 0 .. Modulus - 1 => x % Modulus = x
      /\ x \in -Modulus .. -1 => x % Modulus = x + Modulus
  BY <1>2, Residue
<1> QED BY <1>1, <1>2, <1>3, Halves DEF time_ge

(* Times less than a turn apart are different.                             *)
LEMMA AtUnique ==
    ASSUME NEW c \in Int, NEW j \in Int, NEW k \in Int, At(c, j) = At(c, k),
           j - k \in 1 - Modulus .. Modulus - 1
    PROVE  j = k
<1>1. (At(c, j) - At(c, j)) % Modulus = (j - k) % Modulus
  BY AtProps
<1>2. At(c, j) - At(c, j) = 0
  <2>1. At(c, j) \in Int
    BY AtProps
  <2> QED BY <2>1
<1> DEFINE x == j - k
<1>3. 0 % Modulus = 0 /\ 0 \in Int
  BY Residue, Halves
<1>4. /\ x \in 0 .. Modulus - 1 => x % Modulus = x
      /\ x \in -Modulus .. -1 => x % Modulus = x + Modulus
  BY Residue
<1> QED BY <1>1, <1>2, <1>3, <1>4, Halves

(* Every time is less than half a turn ahead, or at most half a turn past. *)
LEMMA Located ==
    ASSUME NEW c \in Times, NEW t \in Times
    PROVE  \E k \in -Half .. Half - 1 : t = At(c, k)
<1>1. c \in 0 .. Modulus - 1 /\ t \in 0 .. Modulus - 1 /\ c \in Int /\ t \in Int
  BY Halves DEF Times
<1>2. CASE t - c \in -Half .. Half - 1
  <2>1. c + (t - c) = t /\ t - c \in Int
    BY <1>1
  <2>2. At(c, t - c) = t
    BY <1>1, <2>1, Residue DEF At
  <2> QED BY <1>2, <2>2
<1>3. CASE t - c >= Half
  <2> DEFINE k == t - c - Modulus
  <2>1. k \in -Half .. Half - 1 /\ c + k = t - Modulus /\ c + k \in -Modulus .. -1 /\ c + k \in Int
    BY <1>1, <1>3, Halves
  <2>2. At(c, k) = (t - Modulus) + Modulus
    BY <1>1, <2>1, Residue DEF At
  <2>3. (t - Modulus) + Modulus = t
    BY <1>1, Halves
  <2> QED BY <2>1, <2>2, <2>3
<1>4. CASE t - c < -Half
  <2> DEFINE k == t - c + Modulus
  <2>1. /\ k \in -Half .. Half - 1 /\ c + k = t + Modulus
        /\ c + k \in Modulus .. 2 * Modulus - 1 /\ c + k \in Int
    BY <1>1, <1>4, Halves
  <2>2. At(c, k) = (t + Modulus) - Modulus
    BY <1>1, <2>1, Residue DEF At
  <2>3. (t + Modulus) - Modulus = t
    BY <1>1, Halves
  <2> QED BY <2>1, <2>2, <2>3
<1> QED BY <1>1, <1>2, <1>3, <1>4, Halves

(* A set of numbers with a lower bound has a least one.                    *)
LEMMA Least ==
    ASSUME NEW S \in SUBSET Int, S # {}, NEW low \in Int, \A x \in S : x >= low
    PROVE  \E x \in S : \A y \in S : x <= y
<1> DEFINE T == {x - low : x \in S}
<1>1. T \subseteq Nat /\ T # {}
  OBVIOUS
<1>2. PICK m \in T : \A n \in T : ~(<<n, m>> \in OpToRel(<, Nat))
  BY <1>1, NatLessThanWellFounded, WFMin
<1>3. PICK x \in S : m = x - low
  OBVIOUS
<1>4. ASSUME NEW y \in S
      PROVE  x <= y
  <2>1. y - low \in T /\ y - low \in Nat /\ m \in Nat
    BY <1>1
  <2>2. ~(y - low < m)
    BY <1>2, <2>1 DEF OpToRel
  <2> QED BY <1>3, <2>1, <2>2
<1> QED BY <1>3, <1>4
-----------------------------------------------------------------------------
(* The early wakeups from which time_early_wakeup_set_next chooses.        *)
EarlySet(times, from) ==
    {t \in {Early(times[e]) : e \in Armed(times)} : time_ge(t, from)}

(* It chooses one that none of the others precedes.                        *)
LEMMA NextChosen ==
    ASSUME NEW times, NEW from \in Int
    PROVE  IF EarlySet(times, from) = {}
           THEN time_early_wakeup_set_next(times, from) = TIME_INVALID
           ELSE /\ time_early_wakeup_set_next(times, from) \in EarlySet(times, from)
                /\ \A u \in EarlySet(times, from) :
                      time_ge(u, time_early_wakeup_set_next(times, from))
<1> DEFINE E == EarlySet(times, from)
           r == time_early_wakeup_set_next(times, from)
           x(t) == (t - from) % Modulus
<1>1. r = IF E = {} THEN TIME_INVALID ELSE CHOOSE t \in E : \A u \in E : time_ge(u, t)
  BY DEF time_early_wakeup_set_next, EarlySet
<1>2. ASSUME E # {}
      PROVE  \E t \in E : \A u \in E : time_ge(u, t)
  <2>1. \A t \in E : t \in Int /\ t - from \in Int /\ x(t) \in 0 .. Half - 1
    <3> SUFFICES ASSUME NEW t \in E
                 PROVE  t \in Int /\ t - from \in Int /\ x(t) \in 0 .. Half - 1
      OBVIOUS
    <3>1. PICK e \in Armed(times) : t = Early(times[e])
      BY DEF EarlySet
    <3>2. times[e] \in Int
      BY Halves DEF Armed, TIME_VALID, Times
    <3>3. times[e] - early_wakeup_advance \in Int
      BY <3>2, Bounds
    <3>4. t \in Times
      BY <3>1, <3>3, Residue DEF Early, time_sub
    <3>5. t - from \in Int /\ t \in Int
      BY <3>4, Halves DEF Times
    <3>6. x(t) \in Times /\ x(t) < Half
      BY <3>5, Residue DEF EarlySet, time_ge
    <3> QED BY <3>5, <3>6, Halves DEF Times
  <2> HIDE DEF E
  <2> DEFINE S == {x(t) : t \in E}
  <2>2. S \in SUBSET Int /\ S # {} /\ \A n \in S : n >= 0
    BY <1>2, <2>1, Halves
  <2> HIDE DEF S
  <2>3. PICK m \in S : \A n \in S : m <= n
    BY <2>2, Least
  <2>4. PICK t \in E : m = x(t)
    BY DEF S
  <2>5. ASSUME NEW u \in E
        PROVE  time_ge(u, t)
    <3>1. x(t) <= x(u)
      BY <2>3, <2>4, <2>5 DEF S
    <3>2. /\ t \in Int /\ u \in Int /\ t - from \in Int /\ u - from \in Int
          /\ x(t) \in 0 .. Half - 1 /\ x(u) \in 0 .. Half - 1 /\ -x(t) \in Int
      BY <2>1, <2>5, Halves
    <3>3. (x(u) + (-x(t))) % Modulus = ((u - from) + (-x(t))) % Modulus
      BY <3>2, ResidueAdd
    <3>4. ((u - from) - x(t)) % Modulus = ((u - from) - (t - from)) % Modulus
      BY <3>2, ResidueAdd
    <3>5. (u - from) - (t - from) = u - t /\ (u - from) + (-x(t)) = (u - from) - x(t)
      BY <3>2
    <3>6. (x(u) + (-x(t))) % Modulus = (u - t) % Modulus
      BY ONLY <3>3, <3>4, <3>5
    <3> DEFINE d == x(u) + (-x(t))
    <3>7. d \in 0 .. Half - 1 /\ d \in Int /\ d \in 0 .. Modulus - 1
      BY <3>1, <3>2, Halves
    <3> HIDE DEF d
    <3>8. d % Modulus = d
      BY <3>7, Residue
    <3>9. (u - t) % Modulus = d
      BY <3>6, <3>8 DEF d
    <3>10. d < Half
      BY <3>7, Halves
    <3> QED BY <3>9, <3>10 DEF time_ge
  <2> QED BY <2>5
<1>3. E # {} => r \in E /\ \A u \in E : time_ge(u, r)
  <2> HIDE DEF E, r
  <2> QED BY <1>1, <1>2
<1> QED BY <1>1, <1>3

(* In ticks: the first early wakeup that comes f ticks after the counter   *)
(* shows c, or later.                                                      *)
LEMMA NextAt ==
    ASSUME NEW c \in Times, NEW times, NEW d, NEW from \in Int, NEW f \in Int,
           \A j \in Int : (At(c, j) - from) % Modulus = (j - f) % Modulus,
           \A e \in Armed(times) :
              /\ d[e] \in Int
              /\ times[e] = At(c, d[e])
              /\ d[e] >= -2 * MaxLag /\ d[e] <= MaxDelay
              /\ d[e] - early_wakeup_advance - f \in -Half .. Half - 1
    PROVE  LET r == time_early_wakeup_set_next(times, from)
           IN  IF r = TIME_INVALID
               THEN \A e \in Armed(times) : d[e] - early_wakeup_advance < f
               ELSE \E e \in Armed(times) :
                      /\ r = At(c, d[e] - early_wakeup_advance)
                      /\ d[e] - early_wakeup_advance >= f
                      /\ \A g \in Armed(times) :
                            d[g] - early_wakeup_advance >= f => d[e] <= d[g]
<1> DEFINE E == EarlySet(times, from)
           r == time_early_wakeup_set_next(times, from)
           k(e) == d[e] - early_wakeup_advance
<1>1. c \in Int
  BY Halves DEF Times
<1>2. ASSUME NEW e \in Armed(times)
      PROVE  /\ k(e) \in Int /\ Early(times[e]) = At(c, k(e))
             /\ Early(times[e]) \in E <=> k(e) >= f
  <2>1. k(e) \in Int /\ early_wakeup_advance \in Int
    BY <1>2, Bounds
  <2>2. Early(times[e]) = At(c, k(e))
    <3>1. d[e] \in Int /\ times[e] = At(c, d[e])
      BY <1>2
    <3>2. time_sub(At(c, d[e]), early_wakeup_advance) = At(c, d[e] - early_wakeup_advance)
      BY ONLY <1>1, <2>1, <3>1, AtProps
    <3> QED BY <3>1, <3>2 DEF Early
  <2>3. (At(c, k(e)) - from) % Modulus = (k(e) - f) % Modulus
    BY <2>1
  <2>4. k(e) - f \in -Half .. Half - 1 /\ k(e) - f \in Int
    BY <1>2, <2>1
  <2>5. time_ge(At(c, k(e)), from) <=> k(e) >= f
    <3> DEFINE y == k(e) - f
    <3>1. /\ y \in 0 .. Modulus - 1 => y % Modulus = y
          /\ y \in -Modulus .. -1 => y % Modulus = y + Modulus
      BY <2>4, Residue
    <3>2. k(e) \in Int /\ y \in -Half .. Half - 1 /\ (k(e) >= f <=> y >= 0)
      BY <2>1, <2>4
    <3> HIDE DEF y
    <3>3. y % Modulus < Half <=> y >= 0
      BY <3>1, <3>2, Halves
    <3>4. (At(c, k(e)) - from) % Modulus = y % Modulus
      BY <2>3 DEF y
    <3> QED BY <3>2, <3>3, <3>4 DEF time_ge
  <2>6. Early(times[e]) \in E <=> time_ge(Early(times[e]), from)
    BY DEF EarlySet
  <2> QED BY <2>1, <2>2, <2>5, <2>6
<1>3. CASE E = {}
  <2>1. r = TIME_INVALID
    BY <1>3, NextChosen
  <2>2. \A e \in Armed(times) : k(e) < f
    BY <1>2, <1>3
  <2> QED BY <2>1, <2>2
<1>4. CASE E # {}
  <2>1. r \in E /\ \A u \in E : time_ge(u, r)
    BY <1>4, NextChosen
  <2>2. PICK e \in Armed(times) : r = Early(times[e])
    BY <2>1 DEF EarlySet
  <2>3. r = At(c, k(e)) /\ k(e) >= f /\ r # TIME_INVALID /\ k(e) \in Int
    <3>1. r = At(c, k(e)) /\ k(e) >= f /\ k(e) \in Int
      BY <1>2, <2>1, <2>2
    <3>2. At(c, k(e)) # TIME_INVALID
      BY ONLY <1>1, <3>1, AtProps
    <3> QED BY <3>1, <3>2
  <2>4. ASSUME NEW g \in Armed(times), k(g) >= f
        PROVE  d[e] <= d[g]
    <3>1. k(g) \in Int /\ time_ge(At(c, k(g)), r)
      BY <1>2, <2>1, <2>4
    <3>2. k(g) - k(e) = d[g] - d[e] /\ k(g) - k(e) \in -Half .. Half - 1
      BY Bounds, Halves
    <3>3. k(g) >= k(e)
      BY <1>1, <2>3, <3>1, <3>2, AtGe
    <3> QED BY <3>3, Bounds
  <2> HIDE DEF r
  <2> QED BY <2>3, <2>4 DEF r
<1> QED BY <1>3, <1>4
-----------------------------------------------------------------------------
(* What the invariant says of an armed event, in numbers.                  *)
LEMMA ArmedRange ==
    ASSUME TimeInv
    PROVE  /\ counter \in Times /\ counter \in Int /\ lag \in Nat /\ lag <= MaxLag
           /\ \A e \in Armed(time_event_time) :
                /\ due[e] \in Int /\ -2 * MaxLag <= due[e] /\ due[e] <= MaxDelay
                /\ time_event_time[e] = At(counter, due[e])
                /\ due[e] - early_wakeup_advance \in Int
                /\ Early(time_event_time[e]) = At(counter, due[e] - early_wakeup_advance)
<1>1. /\ counter \in Times /\ counter \in Int /\ lag \in Nat /\ lag <= MaxLag
      /\ due \in [Events -> Int]
  BY Halves, Bounds DEF TimeInv, TypeOK, Times
<1>2. ASSUME NEW e \in Armed(time_event_time)
      PROVE  /\ due[e] \in Int /\ -2 * MaxLag <= due[e] /\ due[e] <= MaxDelay
             /\ time_event_time[e] = At(counter, due[e])
             /\ due[e] - early_wakeup_advance \in Int
             /\ Early(time_event_time[e]) = At(counter, due[e] - early_wakeup_advance)
  <2>1. due[e] \in Int /\ early_wakeup_advance \in Int
    BY <1>1, <1>2, Bounds DEF Armed
  <2>2. time_event_time[e] = At(counter, due[e]) /\ due[e] <= MaxDelay
    BY <1>2 DEF TimeInv, DueInv
  <2>3. due[e] + lag >= -MaxLag
    <3>1. due[e] + lag >= IF Unpolled(e) THEN -MaxLag ELSE 0
      BY <1>2 DEF TimeInv, DueInv
    <3> QED BY <1>1, <2>1, <3>1, Bounds
  <2>4. time_sub(At(counter, due[e]), early_wakeup_advance)
          = At(counter, due[e] - early_wakeup_advance)
    BY ONLY <1>1, <2>1, AtProps
  <2> QED BY <1>1, <2>1, <2>2, <2>3, <2>4, Bounds DEF Early
<1> QED BY <1>1, <1>2

(* An event is armed.                                                      *)
LEMMA ScheduleStep ==
    ASSUME TimeInv, stale' \in BOOLEAN, ~stale' => ~stale,
           NEW e \in Events, NEW lead \in -MaxLag .. MaxDelay, time_event_schedule_at(e, lead)
    PROVE  TimeInv'
<1> DEFINE x == lead - early_wakeup_advance
<1>1. /\ counter \in Times /\ counter \in Int /\ lead \in Int /\ x \in Int
      /\ early_wakeup_advance \in Int /\ lag \in Nat /\ lag <= MaxLag
      /\ lead >= -lag /\ lead <= MaxDelay /\ lead >= -MaxLag
  BY ArmedRange, Bounds DEF time_event_schedule_at
<1>2. time_add(counter, lead) = At(counter, lead) /\ At(counter, lead) \in Times
  BY <1>1, AtProps DEF time_add, At
<1>3. Early(At(counter, lead)) = At(counter, x)
  BY <1>1, AtProps DEF Early
<1>4. /\ pc \in {"callback", "body"}
      /\ time_event_time' = [time_event_time EXCEPT ![e] = At(counter, lead)]
      /\ early_wakeup_time' =
            IF TIME_VALID(early_wakeup_time) /\ ~time_ge(early_wakeup_time, At(counter, x))
            THEN early_wakeup_time ELSE At(counter, x)
      /\ due' = [due EXCEPT ![e] = lead]
      /\ waiting' = [waiting EXCEPT ![e] = lead >= early_wakeup_advance]
      /\ UNCHANGED <<counter, compare, pc, now, index, lag>>
  BY <1>2, <1>3 DEF time_event_schedule_at, Calling
<1>5. /\ \A f \in Events : /\ time_event_time'[f] = IF f = e THEN At(counter, lead) ELSE time_event_time[f]
                           /\ due'[f] = IF f = e THEN lead ELSE due[f]
                           /\ waiting'[f] <=> IF f = e THEN lead >= early_wakeup_advance ELSE waiting[f]
      /\ Armed(time_event_time') = Armed(time_event_time) \cup {e}
  <2>1. \A f \in Events : /\ time_event_time'[f] = IF f = e THEN At(counter, lead) ELSE time_event_time[f]
                         /\ due'[f] = IF f = e THEN lead ELSE due[f]
    BY <1>4 DEF TimeInv, TypeOK
  <2>2. \A f \in Events : waiting'[f] <=> IF f = e THEN lead >= early_wakeup_advance ELSE waiting[f]
    BY <1>4 DEF TimeInv, TypeOK
  <2> QED BY <1>2, <2>1, <2>2 DEF Armed, TIME_VALID
<1>6. TypeOK'
  <2>1. early_wakeup_time' \in Times \cup {TIME_INVALID}
    BY <1>1, <1>4, AtProps DEF TimeInv, TypeOK
  <2>2. time_event_time' \in [Events -> Times \cup {TIME_INVALID}] /\ due' \in [Events -> Int]
    BY <1>1, <1>2, <1>4 DEF TimeInv, TypeOK
  <2>3. waiting' \in [Events -> BOOLEAN]
    BY <1>4 DEF TimeInv, TypeOK
  <2> QED BY <1>4, <2>1, <2>2, <2>3 DEF TimeInv, TypeOK
<1>7. NowInv' /\ SleepInv'
  BY <1>4 DEF TimeInv, NowInv, SleepInv
<1>8. DueInv'
  <2> SUFFICES ASSUME NEW f \in Armed(time_event_time')
               PROVE  /\ time_event_time'[f] = At(counter, due'[f])
                      /\ due'[f] <= MaxDelay
                      /\ due'[f] + lag >= IF Unpolled(f) THEN -MaxLag ELSE 0
    BY <1>4 DEF DueInv, Unpolled
  <2>1. CASE f = e
    BY <1>1, <1>5, <2>1, Bounds
  <2>2. CASE f # e
    BY <1>5, <2>2 DEF TimeInv, DueInv, Armed
  <2> QED BY <2>1, <2>2
<1>9. WaitInv'
  <2> SUFFICES ASSUME ~stale', NEW f \in Armed(time_event_time'), waiting'[f]
               PROVE  due'[f] + lag >= early_wakeup_advance
    BY <1>4 DEF WaitInv
  <2>1. CASE f = e
    BY <1>1, <1>5, <2>1, Bounds
  <2>2. CASE f # e
    BY <1>5, <2>2 DEF TimeInv, WaitInv, Armed
  <2> QED BY <2>1, <2>2
<1>10. ASSUME ~stale', NEW w \in Int, w \in EarlyRange,
              early_wakeup_time' = At(counter, w),
              w + lag >= -(early_wakeup_advance + MaxLag),
              w <= x,
              \A f \in Armed(time_event_time) : waiting[f] => w <= due[f] - early_wakeup_advance
       PROVE  EarlyInv'
  <2>1. early_wakeup_time' # TIME_INVALID
    BY <1>1, <1>10, AtProps
  <2>2. \A f \in Armed(time_event_time') : waiting'[f] => w <= due'[f] - early_wakeup_advance
    BY <1>5, <1>10 DEF Armed
  <2>3. EarlyAt(w)'
    BY <1>4, <1>10, <2>2 DEF EarlyAt
  <2> QED BY <1>10, <2>1, <2>3 DEF EarlyInv, EarlyRange
<1>11. EarlyInv'
  <2> SUFFICES ASSUME ~stale'
               PROVE  EarlyInv'
    BY DEF EarlyInv
  <2>1. x \in EarlyRange /\ x + lag >= -(early_wakeup_advance + MaxLag)
    BY <1>1, Bounds, Halves DEF EarlyRange
  <2>2. CASE early_wakeup_time = TIME_INVALID
    <3>1. early_wakeup_time' = At(counter, x)
      BY <1>4, <2>2 DEF TIME_VALID, TIME_INVALID, Times
    <3>2. \A f \in Armed(time_event_time) : ~waiting[f]
      BY <2>2 DEF TimeInv, EarlyInv
    <3> HIDE DEF x
    <3> QED BY <1>1, <1>10, <2>1, <3>1, <3>2
  <2>3. CASE early_wakeup_time # TIME_INVALID
    <3>1. PICK w \in EarlyRange : EarlyAt(w)
      BY <2>3 DEF TimeInv, EarlyInv
    <3>2. /\ w \in Int /\ early_wakeup_time = At(counter, w)
          /\ w + lag >= -(early_wakeup_advance + MaxLag)
          /\ w <= MaxDelay - early_wakeup_advance
          /\ \A f \in Armed(time_event_time) : waiting[f] => w <= due[f] - early_wakeup_advance
      BY <1>4, <3>1, Bounds, Halves DEF EarlyAt, EarlyRange
    <3>3. w - x \in -Half .. Half - 1
      BY <1>1, <3>2, Bounds, Halves
    <3>4. time_ge(early_wakeup_time, At(counter, x)) <=> w >= x
      BY <1>1, <3>2, <3>3, AtGe
    <3>5. TIME_VALID(early_wakeup_time)
      BY <1>1, <3>2, AtProps DEF TIME_VALID
    <3>6. CASE w >= x
      <4>1. early_wakeup_time' = At(counter, x)
        BY <1>4, <3>4, <3>6
      <4>2. \A f \in Armed(time_event_time) : waiting[f] => x <= due[f] - early_wakeup_advance
        BY <1>1, <3>2, <3>6, ArmedRange
      <4> HIDE DEF x
      <4> QED BY <1>1, <1>10, <2>1, <4>1, <4>2
    <3>7. CASE ~(w >= x)
      BY <1>1, <1>4, <1>10, <3>1, <3>2, <3>4, <3>5, <3>7
    <3> QED BY <3>6, <3>7
  <2> QED BY <2>2, <2>3
<1> QED BY <1>6, <1>7, <1>8, <1>9, <1>11 DEF TimeInv
(* An event is disarmed, by time_event_clear or because it runs: the       *)
(* others stay as they are.                                                *)
LEMMA Disarmed ==
    ASSUME TimeInv, NEW e \in Events,
           time_event_time' = [time_event_time EXCEPT ![e] = TIME_INVALID],
           due' = [due EXCEPT ![e] = 0],
           waiting' = [waiting EXCEPT ![e] = FALSE]
    PROVE  /\ Armed(time_event_time') = Armed(time_event_time) \ {e}
           /\ \A f \in Armed(time_event_time') :
                 /\ f \in Events /\ f # e /\ f \in Armed(time_event_time)
                 /\ time_event_time'[f] = time_event_time[f]
                 /\ due'[f] = due[f] /\ waiting'[f] = waiting[f]
           /\ time_event_time' \in [Events -> Times \cup {TIME_INVALID}]
           /\ due' \in [Events -> Int]
           /\ waiting' \in [Events -> BOOLEAN]
<1>1. \A f \in Events : time_event_time'[f] = IF f = e THEN TIME_INVALID ELSE time_event_time[f]
  BY DEF TimeInv, TypeOK
<1>2. TIME_INVALID \notin Times
  BY DEF TIME_INVALID, Times
<1>3. Armed(time_event_time') = Armed(time_event_time) \ {e}
  BY <1>1, <1>2 DEF Armed, TIME_VALID
<1>4. \A f \in Events : f # e => due'[f] = due[f] /\ waiting'[f] = waiting[f]
  BY DEF TimeInv, TypeOK
<1>5. due' \in [Events -> Int] /\ waiting' \in [Events -> BOOLEAN]
  BY DEF TimeInv, TypeOK
<1>6. time_event_time' \in [Events -> Times \cup {TIME_INVALID}]
  BY DEF TimeInv, TypeOK
<1> QED BY <1>1, <1>3, <1>4, <1>5, <1>6 DEF Armed

(* An event is disarmed by a call.                                         *)
LEMMA ClearStep ==
    ASSUME TimeInv, stale' \in BOOLEAN, ~stale' => ~stale,
           NEW e \in Events, time_event_clear(e)
    PROVE  TimeInv'
<1> DEFINE r == time_early_wakeup_set_next(time_event_time', early_wakeup_time)
<1>1. /\ pc \in {"callback", "body"}
      /\ time_event_time' = [time_event_time EXCEPT ![e] = TIME_INVALID]
      /\ early_wakeup_time' = early_wakeup_time
         \/ (early_wakeup_time' = r)
      /\ due' = [due EXCEPT ![e] = 0]
      /\ waiting' = [waiting EXCEPT ![e] = FALSE]
      /\ UNCHANGED <<counter, compare, pc, now, index, lag>>
  BY DEF time_event_clear, Calling
<1>2. /\ Armed(time_event_time') = Armed(time_event_time) \ {e}
      /\ \A f \in Armed(time_event_time') :
            /\ f \in Events /\ f # e /\ f \in Armed(time_event_time)
            /\ time_event_time'[f] = time_event_time[f]
            /\ due'[f] = due[f] /\ waiting'[f] = waiting[f]
      /\ time_event_time' \in [Events -> Times \cup {TIME_INVALID}]
      /\ due' \in [Events -> Int]
      /\ waiting' \in [Events -> BOOLEAN]
  BY <1>1, Disarmed
<1>3. /\ counter \in Times /\ counter \in Int /\ lag \in Nat /\ lag <= MaxLag
      /\ \A f \in Armed(time_event_time') :
            /\ due'[f] \in Int /\ -2 * MaxLag <= due'[f] /\ due'[f] <= MaxDelay
            /\ time_event_time'[f] = At(counter, due'[f])
            /\ due'[f] - early_wakeup_advance \in Int
            /\ Early(time_event_time'[f]) = At(counter, due'[f] - early_wakeup_advance)
            /\ due'[f] + lag >= -MaxLag
  <2>1. \A f \in Armed(time_event_time) : due[f] \in Int /\ due[f] + lag >= -MaxLag
    <3> SUFFICES ASSUME NEW f \in Armed(time_event_time)
                 PROVE  due[f] \in Int /\ due[f] + lag >= -MaxLag
      OBVIOUS
    <3>1. due[f] + lag >= IF Unpolled(f) THEN -MaxLag ELSE 0
      BY DEF TimeInv, DueInv
    <3> QED BY <3>1, Bounds, ArmedRange
  <2> QED BY <1>2, <2>1, ArmedRange
<1>4. \/ r = TIME_INVALID
      \/ \E f \in Armed(time_event_time') : r = At(counter, due'[f] - early_wakeup_advance)
  <2>1. early_wakeup_time \in Int
    BY Halves DEF TimeInv, TypeOK, Times, TIME_INVALID
  <2>2. r = TIME_INVALID \/ r \in EarlySet(time_event_time', early_wakeup_time)
    BY <2>1, NextChosen
  <2> QED BY <1>3, <2>2 DEF EarlySet
<1>5. TypeOK'
  <2> HIDE DEF r
  <2>1. \A k \in Int : At(counter, k) \in Times
    BY ONLY <1>3, AtProps
  <2>2. r \in Times \cup {TIME_INVALID}
    BY ONLY <1>3, <1>4, <2>1
  <2> QED BY <1>1, <1>2, <2>2 DEF TimeInv, TypeOK
<1>6. NowInv' /\ SleepInv'
  BY <1>1 DEF TimeInv, NowInv, SleepInv
<1>7. DueInv'
  BY <1>1, <1>2 DEF TimeInv, DueInv, Unpolled
<1>8. WaitInv'
  BY <1>1, <1>2 DEF TimeInv, WaitInv
<1>9. ASSUME ~stale', NEW w \in EarlyRange,
             early_wakeup_time' = At(counter, w),
             w + lag >= -(early_wakeup_advance + MaxLag),
             \A f \in Armed(time_event_time') : waiting'[f] => w <= due'[f] - early_wakeup_advance
      PROVE  EarlyInv'
  <2>1. early_wakeup_time' # TIME_INVALID
    BY <1>3, <1>9, Bounds, Halves, AtProps DEF EarlyRange
  <2>2. EarlyAt(w)'
    BY <1>1, <1>9 DEF EarlyAt
  <2> QED BY <1>9, <2>1, <2>2 DEF EarlyInv, EarlyRange
<1>10. EarlyInv'
  <2> SUFFICES ASSUME ~stale'
               PROVE  EarlyInv'
    BY DEF EarlyInv
  <2>1. CASE early_wakeup_time = TIME_INVALID
    <3>1. \A f \in Armed(time_event_time') : ~waiting'[f]
      BY <1>2, <2>1 DEF TimeInv, EarlyInv
    <3>2. CASE early_wakeup_time' = TIME_INVALID
      BY <3>1, <3>2 DEF EarlyInv
    <3>3. CASE early_wakeup_time' # TIME_INVALID
      <4>1. PICK f \in Armed(time_event_time') :
                   early_wakeup_time' = At(counter, due'[f] - early_wakeup_advance)
        BY <1>1, <1>4, <2>1, <3>3
      <4> DEFINE w == due'[f] - early_wakeup_advance
      <4>2. w \in EarlyRange /\ w + lag >= -(early_wakeup_advance + MaxLag)
        BY <1>3, Bounds, Halves DEF EarlyRange
      <4> HIDE DEF w
      <4>3. early_wakeup_time' = At(counter, w)
        BY <4>1 DEF w
      <4> QED BY <1>9, <3>1, <4>2, <4>3
    <3> QED BY <3>2, <3>3
  <2>2. CASE early_wakeup_time # TIME_INVALID
    <3>1. PICK w \in EarlyRange : EarlyAt(w)
      BY <2>2 DEF TimeInv, EarlyInv
    <3>2. /\ w \in Int /\ early_wakeup_time = At(counter, w)
          /\ w + lag >= -(early_wakeup_advance + MaxLag)
          /\ w <= MaxDelay - early_wakeup_advance
          /\ \A f \in Armed(time_event_time') : waiting'[f] => w <= due'[f] - early_wakeup_advance
      <4>1. w \in Int /\ w <= MaxDelay - early_wakeup_advance
        BY Bounds, Halves DEF EarlyRange
      <4>2. early_wakeup_time = At(counter, w) /\ w + lag >= -(early_wakeup_advance + MaxLag)
        BY <1>1, <3>1 DEF EarlyAt
      <4>3. \A f \in Armed(time_event_time) : waiting[f] => w <= due[f] - early_wakeup_advance
        BY <3>1 DEF EarlyAt
      <4> QED BY ONLY <1>2, <4>1, <4>2, <4>3
    <3>3. CASE early_wakeup_time' = early_wakeup_time
      BY <1>9, <3>1, <3>2, <3>3
    <3>4. CASE early_wakeup_time' = r
      <4> DEFINE d == due'
                 times == time_event_time'
                 from == At(counter, w)
      <4>1. from \in Int /\ \A j \in Int : (At(counter, j) - from) % Modulus = (j - w) % Modulus
        BY <1>3, <3>2, AtProps
      <4>2. \A f \in Armed(times) :
              /\ d[f] \in Int
              /\ times[f] = At(counter, d[f])
              /\ d[f] >= -2 * MaxLag /\ d[f] <= MaxDelay
              /\ d[f] - early_wakeup_advance - w \in -Half .. Half - 1
        BY <1>3, <3>2, Bounds, Halves
      <4>3. early_wakeup_time' = time_early_wakeup_set_next(times, from)
        BY <3>2, <3>4
      <4> HIDE DEF d, times, from
      <4>4. IF early_wakeup_time' = TIME_INVALID
            THEN \A f \in Armed(times) : d[f] - early_wakeup_advance < w
            ELSE \E f \in Armed(times) :
                   /\ early_wakeup_time' = At(counter, d[f] - early_wakeup_advance)
                   /\ d[f] - early_wakeup_advance >= w
                   /\ \A g \in Armed(times) :
                         d[g] - early_wakeup_advance >= w => d[f] <= d[g]
        BY ONLY <1>3, <3>2, <4>1, <4>2, <4>3, NextAt
      <4>5. CASE early_wakeup_time' = TIME_INVALID
        <5>1. \A f \in Armed(time_event_time') : ~waiting'[f]
          BY <1>3, <3>2, <4>4, <4>5 DEF d, times
        <5> QED BY <4>5, <5>1 DEF EarlyInv
      <4>6. CASE early_wakeup_time' # TIME_INVALID
        <5>1. PICK f \in Armed(times) :
                   /\ early_wakeup_time' = At(counter, d[f] - early_wakeup_advance)
                   /\ d[f] - early_wakeup_advance >= w
                   /\ \A g \in Armed(times) :
                         d[g] - early_wakeup_advance >= w => d[f] <= d[g]
          BY <4>4, <4>6
        <5> DEFINE v == d[f] - early_wakeup_advance
        <5>2. v \in EarlyRange /\ v + lag >= -(early_wakeup_advance + MaxLag)
          BY <1>3, <3>2, <4>2, <5>1, Bounds, Halves DEF EarlyRange
        <5>3. \A g \in Armed(times) : waiting'[g] => v <= d[g] - early_wakeup_advance
          BY <3>2, <4>2, <5>1, Bounds DEF d, times
        <5>4. early_wakeup_time' = At(counter, v)
          BY <5>1
        <5> HIDE DEF v
        <5> QED BY <1>9, <5>2, <5>3, <5>4 DEF d, times
      <4> QED BY <4>5, <4>6
    <3> QED BY <1>1, <3>3, <3>4
  <2> QED BY <2>1, <2>2
<1> QED BY <1>5, <1>6, <1>7, <1>8, <1>10 DEF TimeInv
-----------------------------------------------------------------------------
(* A poll begins: the early wakeup function runs when its time has come.   *)
LEMMA BeginStep ==
    ASSUME TimeInv, stale' \in BOOLEAN, ~stale' => ~stale, PollBegin
    PROVE  TimeInv'
<1> DEFINE from == counter + 1
           r == time_early_wakeup_set_next(time_event_time, from)
<1>1. /\ pc = "poll" /\ pc' = "events" /\ now' = counter /\ index' = 1 /\ lag' = 0
      /\ UNCHANGED <<counter, time_event_time, compare, due>>
      /\ \/ /\ EarlyDue
            /\ early_wakeup_time' = r
            /\ waiting' = [e \in Events |-> waiting[e] /\ due[e] > early_wakeup_advance]
         \/ ~EarlyDue /\ UNCHANGED <<early_wakeup_time, waiting>>
  BY DEF PollBegin
<1>2. /\ counter \in Times /\ counter \in Int /\ lag \in Nat /\ lag <= MaxLag
      /\ \A e \in Armed(time_event_time) :
            /\ e \in Events
            /\ due[e] \in Int /\ -2 * MaxLag <= due[e] /\ due[e] <= MaxDelay
            /\ time_event_time[e] = At(counter, due[e])
            /\ due[e] - early_wakeup_advance \in Int
            /\ Early(time_event_time[e]) = At(counter, due[e] - early_wakeup_advance)
            /\ due[e] + lag >= 0
  <2>1. \A e \in Armed(time_event_time) : e \in Events /\ due[e] + lag >= 0
    BY <1>1 DEF TimeInv, DueInv, Unpolled, Armed
  <2> QED BY <2>1, ArmedRange
<1>3. from \in Int /\ \A j \in Int : (At(counter, j) - from) % Modulus = (j - 1) % Modulus
  <2> SUFFICES ASSUME NEW j \in Int
               PROVE  (At(counter, j) - from) % Modulus = (j - 1) % Modulus
    BY <1>2
  <2>1. counter + j \in Int /\ -(counter + 1) \in Int
    BY <1>2
  <2>2. (((counter + j) % Modulus) + (-(counter + 1))) % Modulus
           = ((counter + j) + (-(counter + 1))) % Modulus
    BY ONLY <2>1, ResidueAdd
  <2>3. (counter + j) % Modulus \in Int
    BY <2>1, Residue, Halves DEF Times
  <2>4. /\ (counter + j) + (-(counter + 1)) = j - 1
        /\ ((counter + j) % Modulus) + (-(counter + 1)) = ((counter + j) % Modulus) - (counter + 1)
    BY <1>2, <2>1, <2>3
  <2> QED BY ONLY <2>2, <2>4 DEF At
<1>4. TypeOK'
  <2>1. r \in Times \cup {TIME_INVALID}
    <3>1. r = TIME_INVALID \/ r \in EarlySet(time_event_time, from)
      BY <1>3, NextChosen
    <3> QED BY <1>2, <3>1, AtProps DEF EarlySet
  <2>2. early_wakeup_time' \in Times \cup {TIME_INVALID}
    BY <1>1, <2>1 DEF TimeInv, TypeOK
  <2>3. waiting' \in [Events -> BOOLEAN]
    BY <1>1 DEF TimeInv, TypeOK
  <2>4. 0 \in 0 .. MaxLag /\ 1 \in 1 .. TIME_EVENTS + 1
    BY Bounds
  <2> QED BY <1>1, <1>2, <2>2, <2>3, <2>4 DEF TimeInv, TypeOK
<1>5. NowInv' /\ SleepInv'
  <2>1. At(counter, 0) = counter
    BY <1>2, AtZero
  <2> QED BY <1>1, <2>1 DEF NowInv, SleepInv
<1>6. DueInv'
  <2> SUFFICES ASSUME NEW e \in Armed(time_event_time)
               PROVE  Unpolled(e)' /\ due[e] + 0 >= -MaxLag
    BY <1>1, <1>2 DEF DueInv
  <2>1. e >= 1 /\ e \in Nat
    BY <1>2, Bounds DEF Events
  <2> QED BY <1>1, <1>2, <2>1, Bounds DEF Unpolled
<1>7. ASSUME ~stale', EarlyDue
      PROVE  WaitInv' /\ EarlyInv'
  <2>1. /\ early_wakeup_time' = r
        /\ \A e \in Armed(time_event_time) :
              waiting'[e] <=> waiting[e] /\ due[e] > early_wakeup_advance
    BY <1>1, <1>2, <1>7
  <2>2. WaitInv'
    BY <1>1, <1>2, <2>1, Bounds DEF WaitInv
  <2>3. \A e \in Armed(time_event_time) : due[e] - early_wakeup_advance - 1 \in -Half .. Half - 1
    BY <1>2, Bounds, Halves
  <2>4. early_wakeup_time' = time_early_wakeup_set_next(time_event_time, from) /\ 1 \in Int
    BY <2>1
  <2> HIDE DEF from, r
  <2>5. IF early_wakeup_time' = TIME_INVALID
        THEN \A e \in Armed(time_event_time) : due[e] - early_wakeup_advance < 1
        ELSE \E e \in Armed(time_event_time) :
               /\ early_wakeup_time' = At(counter, due[e] - early_wakeup_advance)
               /\ due[e] - early_wakeup_advance >= 1
               /\ \A g \in Armed(time_event_time) :
                     due[g] - early_wakeup_advance >= 1 => due[e] <= due[g]
    BY ONLY <1>2, <1>3, <2>3, <2>4, NextAt
  <2>6. CASE early_wakeup_time' = TIME_INVALID
    <3>1. \A e \in Armed(time_event_time') : ~waiting'[e]
      BY <1>1, <1>2, <2>1, <2>5, <2>6, Bounds
    <3> QED BY <2>2, <2>6, <3>1 DEF EarlyInv
  <2>7. CASE early_wakeup_time' # TIME_INVALID
    <3>1. PICK e \in Armed(time_event_time) :
               /\ early_wakeup_time' = At(counter, due[e] - early_wakeup_advance)
               /\ due[e] - early_wakeup_advance >= 1
               /\ \A g \in Armed(time_event_time) :
                     due[g] - early_wakeup_advance >= 1 => due[e] <= due[g]
      BY <2>5, <2>7
    <3> DEFINE n == due[e] - early_wakeup_advance
    <3>2. n \in EarlyRange /\ n + 0 >= -(early_wakeup_advance + MaxLag)
      BY <1>2, <3>1, Bounds, Halves DEF EarlyRange
    <3>3. \A g \in Armed(time_event_time) : waiting'[g] => n <= due[g] - early_wakeup_advance
      BY <1>2, <2>1, <3>1, Bounds
    <3>4. early_wakeup_time' = At(counter, n)
      BY <3>1
    <3> HIDE DEF n
    <3>5. PICK v \in EarlyRange :
              /\ v + 0 >= -(early_wakeup_advance + MaxLag)
              /\ \A g \in Armed(time_event_time) : waiting'[g] => v <= due[g] - early_wakeup_advance
              /\ early_wakeup_time' = At(counter, v)
      BY <3>2, <3>3, <3>4
    <3>6. EarlyAt(v)'
      BY <1>1, <3>5 DEF EarlyAt
    <3> QED BY <2>2, <2>7, <3>6 DEF EarlyInv, EarlyRange
  <2> QED BY <2>6, <2>7
<1>8. ASSUME ~stale', ~EarlyDue
      PROVE  WaitInv' /\ EarlyInv'
  <2>1. UNCHANGED <<early_wakeup_time, waiting>>
    BY <1>1, <1>8
  <2>2. CASE early_wakeup_time = TIME_INVALID
    <3>1. \A e \in Armed(time_event_time) : ~waiting[e]
      BY <1>8, <2>2 DEF TimeInv, EarlyInv
    <3> QED BY <1>1, <2>1, <2>2, <3>1 DEF WaitInv, EarlyInv
  <2>3. CASE early_wakeup_time # TIME_INVALID
    <3>1. PICK w \in EarlyRange : EarlyAt(w)
      BY <1>8, <2>3 DEF TimeInv, EarlyInv
    <3>2. /\ w \in Int /\ early_wakeup_time = At(counter, w) /\ 0 - w \in -Half .. Half - 1
          /\ \A e \in Armed(time_event_time) : waiting[e] => w <= due[e] - early_wakeup_advance
      BY <3>1, Bounds, Halves DEF EarlyAt, EarlyRange
    <3>3. At(counter, 0) = counter /\ TIME_VALID(early_wakeup_time)
      BY <1>2, <3>2, AtZero, AtProps DEF TIME_VALID
    <3>4. time_ge(At(counter, 0), At(counter, w)) <=> 0 >= w
      BY ONLY <1>2, <3>2, 0 \in Int, AtGe
    <3>5. w >= 1
      BY <1>8, <3>2, <3>3, <3>4 DEF EarlyDue
    <3>6. WaitInv'
      BY <1>1, <1>2, <2>1, <3>2, <3>5, Bounds DEF WaitInv
    <3>7. EarlyAt(w)'
      BY <1>1, <2>1, <3>1, <3>2, <3>5, Bounds DEF EarlyAt
    <3> QED BY <2>1, <2>3, <3>1, <3>6, <3>7 DEF EarlyInv, EarlyRange
  <2> QED BY <2>2, <2>3
<1>9. WaitInv' /\ EarlyInv'
  BY <1>7, <1>8 DEF WaitInv, EarlyInv
<1> QED BY <1>4, <1>5, <1>6, <1>9 DEF TimeInv

(* Within half the counter's range, an event runs when its ticks are over  *)
(* at the time the poll began.                                             *)
LEMMA FireTicks ==
    ASSUME TimeInv, pc \in {"events", "callback"}, NEW e \in Events
    PROVE  Fire(e) <=> e \in Armed(time_event_time) /\ due[e] + lag <= 0
<1>1. CASE e \notin Armed(time_event_time)
  BY <1>1 DEF Fire, Armed
<1>2. CASE e \in Armed(time_event_time)
  <2>1. /\ counter \in Int /\ lag \in Nat /\ -lag \in Int /\ lag <= MaxLag
        /\ due[e] \in Int /\ -2 * MaxLag <= due[e] /\ due[e] <= MaxDelay
        /\ time_event_time[e] = At(counter, due[e])
    BY <1>2, ArmedRange
  <2>2. now = At(counter, -lag)
    BY DEF TimeInv, NowInv
  <2>3. -lag - due[e] \in -Half .. Half - 1
    BY <2>1, Bounds, Halves
  <2>4. time_ge(At(counter, -lag), At(counter, due[e])) <=> -lag >= due[e]
    BY ONLY <2>1, <2>3, AtGe
  <2> QED BY <1>2, <2>1, <2>2, <2>4 DEF Fire, Armed
<1> QED BY <1>1, <1>2

(* The poll comes to an event.                                             *)
LEMMA EventStep ==
    ASSUME TimeInv, stale' \in BOOLEAN, ~stale' => ~stale, PollEvent
    PROVE  TimeInv'
<1>1. /\ pc = "events" /\ index \in Events /\ index' = index + 1 /\ index \in Nat
      /\ UNCHANGED <<counter, early_wakeup_time, compare, now, lag>>
      /\ Events \subseteq Nat
  BY Bounds DEF PollEvent
<1>2. Fire(index) <=> index \in Armed(time_event_time) /\ due[index] + lag <= 0
  BY <1>1, FireTicks
<1>3. index' \in 1 .. TIME_EVENTS + 1
  BY <1>1, Bounds DEF Events
<1>4. CASE Fire(index)
  <2>1. /\ time_event_time' = [time_event_time EXCEPT ![index] = TIME_INVALID]
        /\ due' = [due EXCEPT ![index] = 0]
        /\ waiting' = [waiting EXCEPT ![index] = FALSE]
        /\ pc' = "callback"
    BY <1>4 DEF PollEvent
  <2>2. /\ \A f \in Armed(time_event_time') :
              /\ f \in Events /\ f # index /\ f \in Armed(time_event_time)
              /\ time_event_time'[f] = time_event_time[f]
              /\ due'[f] = due[f] /\ waiting'[f] = waiting[f]
        /\ time_event_time' \in [Events -> Times \cup {TIME_INVALID}]
        /\ due' \in [Events -> Int]
        /\ waiting' \in [Events -> BOOLEAN]
    BY <1>1, <2>1, Disarmed
  <2>3. TypeOK' /\ NowInv' /\ SleepInv'
    BY <1>1, <1>3, <2>1, <2>2 DEF TimeInv, TypeOK, NowInv, SleepInv
  <2>4. ASSUME NEW f \in Events, f # index
        PROVE  Unpolled(f)' <=> Unpolled(f)
    <3>1. f \in Nat /\ (f >= index <=> f >= index + 1)
      BY <1>1, <2>4
    <3> QED BY <1>1, <2>1, <3>1 DEF Unpolled
  <2>5. DueInv'
    BY <1>1, <2>2, <2>4 DEF TimeInv, DueInv
  <2>6. WaitInv'
    BY <1>1, <2>2 DEF TimeInv, WaitInv
  <2>7. \A w \in EarlyRange : EarlyAt(w) => EarlyAt(w)'
    BY <1>1, <2>1, <2>2 DEF EarlyAt
  <2>8. EarlyInv'
    BY <1>1, <2>2, <2>7 DEF TimeInv, EarlyInv, EarlyRange
  <2> QED BY <2>3, <2>5, <2>6, <2>8 DEF TimeInv
<1>5. CASE ~Fire(index)
  <2>1. UNCHANGED <<time_event_time, due, waiting, pc>>
    BY <1>5 DEF PollEvent
  <2>2. TypeOK' /\ NowInv' /\ SleepInv' /\ WaitInv'
    BY <1>1, <1>3, <2>1 DEF TimeInv, TypeOK, NowInv, SleepInv, WaitInv
  <2>3. DueInv'
    <3> SUFFICES ASSUME NEW e \in Armed(time_event_time)
                 PROVE  due[e] + lag >= IF Unpolled(e)' THEN -MaxLag ELSE 0
      BY <1>1, <2>1 DEF TimeInv, DueInv
    <3>1. due[e] \in Int /\ lag \in Nat /\ e \in Nat /\ MaxLag \in Nat
      BY <1>1, ArmedRange, Bounds DEF Armed
    <3>2. due[e] + lag >= IF Unpolled(e) THEN -MaxLag ELSE 0
      BY DEF TimeInv, DueInv
    <3>3. CASE e = index
      BY <1>2, <1>5, <3>1, <3>3
    <3>4. CASE e # index
      BY <1>1, <2>1, <3>1, <3>2, <3>4 DEF Unpolled
    <3> QED BY <3>3, <3>4
  <2>4. \A w \in EarlyRange : EarlyAt(w) => EarlyAt(w)'
    BY <1>1, <2>1 DEF EarlyAt
  <2>5. EarlyInv'
    BY <1>1, <2>1, <2>4 DEF TimeInv, EarlyInv, EarlyRange
  <2> QED BY <2>2, <2>3, <2>5 DEF TimeInv
<1> QED BY <1>4, <1>5
(* The main loop goes on without touching the times.                       *)
LEMMA QuietStep ==
    ASSUME TimeInv, stale' \in BOOLEAN, ~stale' => ~stale,
           CallbackReturn \/ PollEnd \/ Continue \/ EMU_EnterEM2
    PROVE  TimeInv'
<1>1. /\ UNCHANGED <<counter, time_event_time, early_wakeup_time, compare, now, index,
                     lag, due, waiting>>
      /\ \/ pc = "callback" /\ pc' = "events"
         \/ pc = "events" /\ pc' = "body" /\ index \notin Events
         \/ pc \in {"body", "enter"} /\ pc' = "poll"
         \/ pc = "enter" /\ pc' = "asleep"
  BY DEF CallbackReturn, PollEnd, Continue, EMU_EnterEM2
<1>2. TypeOK' /\ NowInv' /\ WaitInv'
  BY <1>1 DEF TimeInv, TypeOK, NowInv, WaitInv
<1>3. DueInv'
  <2> SUFFICES ASSUME NEW e \in Armed(time_event_time)
               PROVE  Unpolled(e) => Unpolled(e)'
    BY <1>1, Bounds, ArmedRange DEF TimeInv, DueInv
  <2>1. e \in 1 .. TIME_EVENTS
    BY DEF Armed, Events
  <2>2. CASE pc = "events" /\ index \notin Events
    <3>1. index = TIME_EVENTS + 1
      BY <2>2, Bounds DEF TimeInv, TypeOK, Events
    <3> QED BY <2>1, <3>1, Bounds DEF Unpolled
  <2>3. CASE ~(pc = "events" /\ index \notin Events)
    BY <1>1, <2>3 DEF Unpolled
  <2> QED BY <2>2, <2>3
<1>4. \A w \in EarlyRange : EarlyAt(w) => EarlyAt(w)'
  BY <1>1 DEF EarlyAt
<1>5. EarlyInv'
  BY <1>1, <1>4 DEF TimeInv, EarlyInv, EarlyRange
<1>6. \A k \in 1 .. MaxDelay : pc' # "poll" /\ WakeAt(k) => WakeAt(k)'
  BY <1>1 DEF WakeAt
<1>7. SleepInv'
  BY <1>1, <1>6 DEF TimeInv, SleepInv
<1> QED BY <1>2, <1>3, <1>5, <1>7 DEF TimeInv

-----------------------------------------------------------------------------
(* time_to_next_event: no armed event comes before its result.             *)
LEMMA RemainingIs ==
    ASSUME TimeInv, Armed(time_event_time) # {}
    PROVE  /\ Remaining \in 0 .. MaxDelay
           /\ Remaining > 0 => \A e \in Armed(time_event_time) : Remaining <= due[e]
<1>1. /\ counter \in Times /\ counter \in Int
      /\ \A e \in Armed(time_event_time) :
            /\ due[e] \in Int /\ -2 * MaxLag <= due[e] /\ due[e] <= MaxDelay
            /\ time_event_time[e] = At(counter, due[e])
  BY ArmedRange
<1>2. CASE Overdue
  BY <1>2, Bounds DEF Remaining
<1>3. CASE ~Overdue
  <2>1. ASSUME NEW e \in Armed(time_event_time)
        PROVE  due[e] >= 1 /\ time_sub(time_event_time[e], counter) = due[e]
    <3>1. due[e] \in Int /\ 0 \in Int /\ 0 - due[e] \in -Half .. Half - 1
      BY <1>1, Bounds, Halves
    <3>2. time_ge(At(counter, 0), At(counter, due[e])) <=> 0 >= due[e]
      BY ONLY <1>1, <3>1, AtGe
    <3>3. At(counter, 0) = counter /\ time_event_time[e] = At(counter, due[e])
      BY <1>1, AtZero
    <3>4. ~time_ge(counter, time_event_time[e])
      BY <1>3 DEF Overdue
    <3>5. due[e] >= 1
      BY <3>1, <3>2, <3>3, <3>4
    <3>6. (At(counter, due[e]) - At(counter, 0)) % Modulus = (due[e] - 0) % Modulus
      BY ONLY <1>1, <3>1, AtProps
    <3>7. due[e] - 0 = due[e] /\ due[e] \in 0 .. Modulus - 1
      BY <1>1, <3>5, Bounds, Halves
    <3>8. due[e] % Modulus = due[e]
      BY <3>1, <3>7, Residue
    <3> QED BY <3>3, <3>5, <3>6, <3>7, <3>8 DEF time_sub
  <2>2. Deltas = {due[e] : e \in Armed(time_event_time)}
    BY <2>1 DEF Deltas
  <2> DEFINE S == Deltas
  <2>3. S \in SUBSET Int /\ S # {} /\ \A d \in S : d >= 1 /\ d <= MaxDelay
    BY <1>1, <2>1, <2>2
  <2>4. Remaining = Min(S)
    BY <1>3 DEF Remaining
  <2> HIDE DEF S
  <2>5. \E x \in S : \A y \in S : x <= y
    BY <2>3, Least
  <2>6. Min(S) \in S /\ \A y \in S : Min(S) <= y
    BY <2>5 DEF Min
  <2> QED BY <1>1, <2>2, <2>3, <2>4, <2>6, Bounds DEF S
<1> QED BY <1>2, <1>3

(* What time_prepare_sleep finds out: unless it is to stay awake, it sleeps *)
(* a number of ticks that lets no event and no early wakeup pass.          *)
LEMMA SleepTicks ==
    ASSUME TimeInv, pc = "body", Armed(time_event_time) # {}, SleepUntil[1] > 0
    PROVE  /\ SleepUntil[1] \in 1 .. MaxDelay
           /\ SleepUntil[2] = At(counter, SleepUntil[1])
           /\ \A e \in Armed(time_event_time) :
                 /\ SleepUntil[1] <= due[e]
                 /\ waiting[e] /\ ~stale => SleepUntil[1] <= due[e] - early_wakeup_advance
<1> DEFINE R == Remaining
           early == early_wakeup_time
<1>1. /\ counter \in Times /\ counter \in Int /\ lag \in Nat /\ lag <= MaxLag
      /\ At(counter, 0) = counter
      /\ \A e \in Armed(time_event_time) :
            due[e] \in Int /\ due[e] - early_wakeup_advance \in Int
  BY ArmedRange, AtZero
<1>2. /\ R \in 0 .. MaxDelay /\ R \in Int
      /\ R > 0 => \A e \in Armed(time_event_time) : R <= due[e]
  BY RemainingIs, Bounds
<1>3. WakeTime = At(counter, R)
  BY DEF WakeTime, time_add, At
<1>4. ASSUME ~stale, NEW e \in Armed(time_event_time), waiting[e]
      PROVE  \E w \in EarlyRange :
                /\ early = At(counter, w) /\ TIME_VALID(early)
                /\ w <= due[e] - early_wakeup_advance
                /\ w + lag >= -(early_wakeup_advance + MaxLag)
  <2>1. PICK w \in EarlyRange : EarlyAt(w)
    BY <1>4 DEF TimeInv, EarlyInv
  <2>2. w \in Int /\ early = At(counter, w)
    BY <2>1, Bounds, Halves DEF EarlyAt, EarlyRange
  <2>3. TIME_VALID(early)
    BY <1>1, <2>2, AtProps DEF TIME_VALID
  <2> QED BY <1>4, <2>1, <2>3 DEF EarlyAt
<1>5. CASE TIME_VALID(early) /\ time_ge(WakeTime, early)
  <2>1. ~time_ge(counter, early) /\ SleepUntil = <<time_sub(early, counter), early>>
    BY <1>5 DEF SleepUntil
  <2>2. early \in Times
    BY <1>5 DEF TIME_VALID
  <2>3. PICK w \in -Half .. Half - 1 : early = At(counter, w)
    BY <1>1, <2>2, Located
  <2>4. w \in Int /\ 0 \in Int /\ -Half <= w /\ w <= Half - 1
    BY Halves
  <2> HIDE DEF R, early
  <2>5. R >= w
    <3>1. R - w \in -Half .. Half - 1 \/ R - w \in Half .. Modulus - 1
      BY <1>2, <2>4, Bounds, Halves
    <3>2. time_ge(At(counter, R), At(counter, w))
      BY <1>3, <1>5, <2>3
    <3> QED BY ONLY <1>1, <1>2, <2>4, <3>1, <3>2, AtGe
  <2>6. w # -Half
    <3>1. SUFFICES ASSUME w = -Half
                   PROVE  FALSE
      OBVIOUS
    <3>2. R - w \in Half .. Modulus - 1
      BY <1>2, <3>1, Bounds, Halves
    <3>3. ~time_ge(At(counter, R), At(counter, w))
      BY ONLY <1>1, <1>2, <2>4, <3>2, AtGe
    <3> QED BY <1>3, <1>5, <2>3, <3>3
  <2>7. w >= 1
    <3>1. 0 - w \in -Half .. Half - 1
      BY <2>4, <2>6, Halves
    <3>2. time_ge(At(counter, 0), At(counter, w)) <=> 0 >= w
      BY ONLY <1>1, <2>4, <3>1, AtGe
    <3> QED BY <1>1, <2>1, <2>3, <2>4, <3>2
  <2>8. SleepUntil[1] = w /\ SleepUntil[2] = early
    <3>1. (At(counter, w) - At(counter, 0)) % Modulus = (w - 0) % Modulus
      BY ONLY <1>1, <2>4, AtProps
    <3>2. w - 0 = w /\ w \in 0 .. Modulus - 1
      BY <2>4, <2>7, Halves
    <3>3. w % Modulus = w
      BY <2>4, <3>2, Residue
    <3> QED BY <1>1, <2>1, <2>3, <3>1, <3>2, <3>3 DEF time_sub
  <2>9. ASSUME ~stale, NEW e \in Armed(time_event_time), waiting[e]
        PROVE  w <= due[e] - early_wakeup_advance
    <3>1. PICK v \in EarlyRange :
               early = At(counter, v) /\ v <= due[e] - early_wakeup_advance
      BY <1>4, <2>9
    <3>2. v \in Int /\ w - v \in 1 - Modulus .. Modulus - 1
      BY <2>4, Bounds, Halves DEF EarlyRange
    <3>3. w = v
      BY ONLY <1>1, <2>3, <2>4, <3>1, <3>2, AtUnique
    <3> QED BY <3>1, <3>3
  <2>10. \A e \in Armed(time_event_time) : w <= due[e]
    BY <1>1, <1>2, <2>4, <2>5, <2>7
  <2>11. w \in 1 .. MaxDelay
    BY <1>2, <2>4, <2>5, <2>7, Bounds
  <2> QED BY <2>3, <2>8, <2>9, <2>10, <2>11
<1>6. CASE ~(TIME_VALID(early) /\ time_ge(WakeTime, early))
  <2>1. SleepUntil[1] = R /\ SleepUntil[2] = At(counter, R)
    BY <1>3, <1>6 DEF SleepUntil
  <2>2. R \in 1 .. MaxDelay /\ \A e \in Armed(time_event_time) : R <= due[e]
    BY <1>2, <2>1, Bounds
  <2>3. ASSUME ~stale, NEW e \in Armed(time_event_time), waiting[e]
        PROVE  R <= due[e] - early_wakeup_advance
    <3>1. PICK w \in EarlyRange :
                /\ early = At(counter, w) /\ TIME_VALID(early)
                /\ w <= due[e] - early_wakeup_advance
                /\ w + lag >= -(early_wakeup_advance + MaxLag)
      BY <1>4, <2>3
    <3>2. /\ w \in Int /\ R - w \in -Half .. Half - 1
      BY <1>1, <1>2, <3>1, Bounds, Halves DEF EarlyRange
    <3>3. ~time_ge(At(counter, R), At(counter, w))
      BY <1>3, <1>6, <3>1
    <3> HIDE DEF R
    <3>4. ~(R >= w)
      BY ONLY <1>1, <1>2, <3>2, <3>3, AtGe
    <3> QED BY <1>1, <1>2, <3>1, <3>2, <3>4
  <2> QED BY <2>1, <2>2, <2>3
<1> QED BY <1>5, <1>6

(* time_prepare_sleep.                                                     *)
LEMMA PrepareStep ==
    ASSUME TimeInv, stale' \in BOOLEAN, ~stale' => ~stale, time_prepare_sleep
    PROVE  TimeInv'
<1>1. /\ pc = "body" /\ pc' \in {"enter", "poll"}
      /\ UNCHANGED <<counter, time_event_time, early_wakeup_time, now, index, lag, due, waiting>>
  BY DEF time_prepare_sleep
<1>2. compare' = compare \/ (Armed(time_event_time) # {} /\ pc' = "enter"
                               /\ SleepUntil[1] >= TIME_SLEEP_THRESHOLD /\ compare' = SleepUntil[2])
  BY DEF time_prepare_sleep
<1>3. Armed(time_event_time) # {} /\ pc' = "enter" =>
         SleepUntil[1] >= TIME_SLEEP_THRESHOLD /\ compare' = SleepUntil[2]
  BY DEF time_prepare_sleep
<1>4. ASSUME Armed(time_event_time) # {}, SleepUntil[1] >= TIME_SLEEP_THRESHOLD
      PROVE  /\ SleepUntil[1] \in 1 .. MaxDelay /\ SleepUntil[2] \in Times
             /\ SleepUntil[1] > MaxLag
             /\ SleepUntil[2] = At(counter, SleepUntil[1])
             /\ \A e \in Armed(time_event_time) :
                   /\ SleepUntil[1] <= due[e]
                   /\ waiting[e] /\ ~stale => SleepUntil[1] <= due[e] - early_wakeup_advance
  <2>1. SleepUntil[1] > 0
    <3>1. SleepUntil[1] \in Int
      <4>1. Remaining \in Int /\ time_sub(early_wakeup_time, counter) \in Int
        <5>1. early_wakeup_time - counter \in Int
          BY ArmedRange, Halves DEF TimeInv, TypeOK, Times, TIME_INVALID
        <5> QED BY <1>4, <5>1, RemainingIs, Residue, Halves, Bounds DEF time_sub, Times
      <4> QED BY <4>1 DEF SleepUntil
    <3> QED BY <1>4, <3>1, Bounds
  <2>2. /\ SleepUntil[1] \in 1 .. MaxDelay
        /\ SleepUntil[2] = At(counter, SleepUntil[1])
        /\ \A e \in Armed(time_event_time) :
              /\ SleepUntil[1] <= due[e]
              /\ waiting[e] /\ ~stale => SleepUntil[1] <= due[e] - early_wakeup_advance
    BY <1>1, <1>4, <2>1, SleepTicks
  <2>3. SleepUntil[2] \in Times
    BY <2>2, ArmedRange, AtProps
  <2> QED BY <1>4, <2>2, <2>3, Bounds
<1>5. TypeOK'
  <2>1. compare' \in Times
    BY <1>2, <1>4 DEF TimeInv, TypeOK
  <2> QED BY <1>1, <2>1 DEF TimeInv, TypeOK
<1>6. NowInv' /\ WaitInv'
  BY <1>1 DEF TimeInv, NowInv, WaitInv
<1>7. DueInv'
  BY <1>1 DEF TimeInv, DueInv, Unpolled
<1>8. \A w \in EarlyRange : EarlyAt(w) => EarlyAt(w)'
  BY <1>1 DEF EarlyAt
<1>9. EarlyInv'
  BY <1>1, <1>8 DEF TimeInv, EarlyInv, EarlyRange
<1>10. SleepInv'
  <2> SUFFICES ASSUME pc' = "enter", Armed(time_event_time) # {}
               PROVE  \E k \in 1 .. MaxDelay : WakeAt(k)'
    BY <1>1 DEF SleepInv
  <2> DEFINE n == SleepUntil[1]
  <2>1. /\ n \in 1 .. MaxDelay /\ n > MaxLag /\ compare' = At(counter, n)
        /\ \A e \in Armed(time_event_time) :
              /\ n <= due[e]
              /\ waiting[e] /\ ~stale => n <= due[e] - early_wakeup_advance
    BY <1>3, <1>4
  <2> HIDE DEF n
  <2>2. PICK k \in 1 .. MaxDelay :
             /\ k > MaxLag /\ compare' = At(counter, k)
             /\ \A e \in Armed(time_event_time) :
                   /\ k <= due[e]
                   /\ waiting[e] /\ ~stale => k <= due[e] - early_wakeup_advance
    BY <2>1
  <2>3. k + lag > MaxLag
    BY <2>2, ArmedRange, Bounds
  <2> QED BY <1>1, <2>2, <2>3 DEF WakeAt
<1> QED BY <1>5, <1>6, <1>7, <1>9, <1>10 DEF TimeInv
(* A sleep has ended, with every armed event due after `low' ticks or      *)
(* later, and those that wait for the early wakeup that far ahead.         *)
LEMMA Woken ==
    ASSUME TimeInv, stale' \in BOOLEAN, ~stale' => ~stale,
           pc' = "poll", lag' = 0, TypeOK', DueInv', EarlyInv',
           ~stale' => \A e \in Armed(time_event_time') :
                         waiting'[e] => due'[e] >= early_wakeup_advance
    PROVE  TimeInv'
<1>1. NowInv' /\ SleepInv'
  BY DEF NowInv, SleepInv
<1>2. \A e \in Armed(time_event_time') : due'[e] \in Int
  BY DEF TypeOK, Armed
<1>3. WaitInv'
  BY <1>2, Bounds DEF WaitInv
<1> QED BY <1>1, <1>3 DEF TimeInv

(* Another interrupt ends the sleep.                                       *)
LEMMA WakeStep ==
    ASSUME TimeInv, stale' \in BOOLEAN, ~stale' => ~stale, Wake
    PROVE  TimeInv'
<1>1. /\ pc = "asleep" /\ pc' = "poll" /\ lag' = 0
      /\ UNCHANGED <<counter, time_event_time, early_wakeup_time, compare, now, index, due, waiting>>
  BY DEF Wake
<1>2. \A e \in Armed(time_event_time) :
         /\ due[e] \in Int /\ due[e] >= 1
         /\ waiting[e] /\ ~stale => due[e] >= early_wakeup_advance + 1
  <2> SUFFICES ASSUME NEW e \in Armed(time_event_time)
               PROVE  /\ due[e] \in Int /\ due[e] >= 1
                      /\ waiting[e] /\ ~stale => due[e] >= early_wakeup_advance + 1
    OBVIOUS
  <2>1. PICK k \in 1 .. MaxDelay : WakeAt(k)
    BY <1>1 DEF TimeInv, SleepInv
  <2>2. k <= due[e] /\ (waiting[e] /\ ~stale => k <= due[e] - early_wakeup_advance)
    BY <2>1 DEF WakeAt
  <2> QED BY <2>2, ArmedRange, Bounds
<1>3. TypeOK'
  BY <1>1, Bounds DEF TimeInv, TypeOK
<1>4. DueInv'
  BY <1>1, <1>2, Bounds DEF TimeInv, DueInv, Unpolled
<1>5. \A w \in EarlyRange : EarlyAt(w) => EarlyAt(w)'
  BY <1>1 DEF EarlyAt
<1>6. EarlyInv'
  BY <1>1, <1>5 DEF TimeInv, EarlyInv, EarlyRange
<1> QED BY <1>1, <1>2, <1>3, <1>4, <1>6, Bounds, Woken

(* The counter advances, and perhaps the compare match ends the sleep.     *)
LEMMA TickStep ==
    ASSUME TimeInv, stale' \in BOOLEAN, ~stale' => ~stale,
           ~stale' => RecentEarlyWakeup', Tick
    PROVE  TimeInv'
<1>1. /\ counter' = At(counter, 1)
      /\ due' = [e \in Events |-> IF TIME_VALID(time_event_time[e]) THEN due[e] - 1 ELSE 0]
      /\ \/ pc = "asleep" /\ counter' = compare /\ pc' = "poll" /\ lag' = 0
         \/ pc = "asleep" /\ counter' # compare /\ UNCHANGED <<pc, lag>>
         \/ pc # "asleep" /\ lag < MaxLag /\ lag' = lag + 1 /\ pc' = pc
      /\ UNCHANGED <<time_event_time, early_wakeup_time, compare, now, index, waiting>>
  BY DEF Tick, time_add, At
<1>2. /\ counter \in Times /\ counter \in Int /\ lag \in Nat /\ lag <= MaxLag
      /\ counter' \in Times /\ counter' \in Int
      /\ \A k \in Int : At(counter', k - 1) = At(counter, k)
  <2>1. counter \in Times /\ counter \in Int /\ lag \in Nat /\ lag <= MaxLag
    BY ArmedRange
  <2>2. counter' \in Times /\ counter' \in Int
    BY <1>1, <2>1, AtProps
  <2>3. ASSUME NEW k \in Int
        PROVE  At(counter', k - 1) = At(counter, k)
    <3>1. k - 1 \in Int /\ 1 \in Int /\ 1 + (k - 1) = k
      OBVIOUS
    <3>2. At(At(counter, 1), k - 1) = At(counter, 1 + (k - 1))
      BY ONLY <2>1, <3>1, AtProps
    <3> QED BY <1>1, <3>1, <3>2
  <2> QED BY <2>1, <2>2, <2>3
<1>3. \A e \in Armed(time_event_time) :
         /\ due[e] \in Int /\ due[e] <= MaxDelay
         /\ due'[e] = due[e] - 1
         /\ time_event_time[e] = At(counter', due'[e])
  BY <1>1, <1>2, ArmedRange DEF Armed
<1>4. TypeOK'
  <2>1. due' \in [Events -> Int]
    BY <1>1 DEF TimeInv, TypeOK
  <2>2. lag' \in 0 .. MaxLag /\ pc' \in {"poll", "events", "callback", "body", "enter", "asleep"}
    BY <1>1, <1>2, Bounds DEF TimeInv, TypeOK
  <2> QED BY <1>1, <1>2, <2>1, <2>2 DEF TimeInv, TypeOK
<1>5. ASSUME NEW k \in 1 .. MaxDelay, pc = "asleep", WakeAt(k)
      PROVE  /\ counter' = compare <=> k = 1
             /\ \A e \in Armed(time_event_time) :
                   /\ due'[e] >= k - 1
                   /\ waiting[e] /\ ~stale => due'[e] - early_wakeup_advance >= k - 1
  <2>1. k \in Int /\ 1 \in Int /\ compare = At(counter, k) /\ counter' = At(counter, 1)
    BY <1>1, <1>5 DEF WakeAt
  <2>2. 1 - k \in 1 - Modulus .. Modulus - 1
    BY Bounds, Halves
  <2>3. At(counter, 1) = At(counter, k) => 1 = k
    BY ONLY <1>2, <2>1, <2>2, AtUnique
  <2>4. \A e \in Armed(time_event_time) :
           /\ k <= due[e]
           /\ waiting[e] /\ ~stale => k <= due[e] - early_wakeup_advance
    BY <1>5 DEF WakeAt
  <2> QED BY <1>3, <2>1, <2>3, <2>4, Bounds
<1>6. EarlyInv'
  <2> SUFFICES ASSUME ~stale'
               PROVE  EarlyInv'
    BY DEF EarlyInv
  <2>1. CASE early_wakeup_time = TIME_INVALID
    BY <1>1, <2>1 DEF TimeInv, EarlyInv
  <2>2. CASE early_wakeup_time # TIME_INVALID
    <3>1. PICK w \in EarlyRange : EarlyAt(w)
      BY <2>2 DEF TimeInv, EarlyInv
    <3>2. /\ w \in Int /\ w - 1 \in Int /\ early_wakeup_time = At(counter', w - 1)
          /\ 1 - Half <= w /\ w <= MaxDelay - early_wakeup_advance
      BY <1>2, <3>1, Bounds, Halves DEF EarlyAt, EarlyRange
    <3>3. w - 1 # -Half
      <4> SUFFICES ASSUME w - 1 = -Half
                   PROVE  FALSE
        OBVIOUS
      <4>1. TIME_VALID(early_wakeup_time)
        BY <1>2, <3>2, AtProps DEF TIME_VALID
      <4>2. time_sub(counter', early_wakeup_time) # Half
        BY <1>1, <4>1 DEF RecentEarlyWakeup
      <4>3. At(counter', 0) = counter'
        BY <1>2, AtZero
      <4>4. (At(counter', 0) - At(counter', w - 1)) % Modulus = (0 - (w - 1)) % Modulus
        BY ONLY <1>2, <3>2, 0 \in Int, AtProps
      <4>5. 0 - (w - 1) = Half /\ Half \in 0 .. Modulus - 1 /\ Half \in Int
        BY Halves
      <4>6. Half % Modulus = Half
        BY <4>5, Residue
      <4> QED BY <3>2, <4>2, <4>3, <4>4, <4>5, <4>6 DEF time_sub
    <3>4. w - 1 \in EarlyRange
      BY <3>2, <3>3, Bounds, Halves DEF EarlyRange
    <3>5. pc' \in {"events", "callback", "body"} =>
             (w - 1) + lag' >= -(early_wakeup_advance + MaxLag)
      <4>1. pc \in {"events", "callback", "body"} => w + lag >= -(early_wakeup_advance + MaxLag)
        BY <3>1 DEF EarlyAt
      <4> QED BY <1>1, <1>2, <3>2, <4>1
    <3>6. \A e \in Armed(time_event_time) :
             waiting[e] => w - 1 <= due'[e] - early_wakeup_advance
      <4>1. \A e \in Armed(time_event_time) : waiting[e] => w <= due[e] - early_wakeup_advance
        BY <3>1 DEF EarlyAt
      <4> QED BY <1>3, <3>2, <4>1, Bounds
    <3> DEFINE n == w - 1
    <3>7. EarlyAt(n)'
      <4>1. /\ early_wakeup_time' = At(counter', n)
            /\ pc' \in {"events", "callback", "body"} => n + lag' >= -(early_wakeup_advance + MaxLag)
            /\ \A e \in Armed(time_event_time') : waiting'[e] => n <= due'[e] - early_wakeup_advance
        BY <1>1, <3>2, <3>5, <3>6
      <4> HIDE DEF n
      <4> QED BY <4>1 DEF EarlyAt
    <3>8. early_wakeup_time' # TIME_INVALID
      BY <1>1, <2>2
    <3> HIDE DEF n
    <3> QED BY <3>4, <3>7, <3>8 DEF EarlyInv, EarlyRange, n
  <2> QED BY <2>1, <2>2
<1>7. CASE pc = "asleep" /\ counter' = compare
  <2>1. pc' = "poll" /\ lag' = 0
    BY <1>1, <1>7
  <2>2. \A e \in Armed(time_event_time) :
           /\ due'[e] >= 0
           /\ waiting[e] /\ ~stale => due'[e] >= early_wakeup_advance
    <3> SUFFICES ASSUME NEW e \in Armed(time_event_time)
                 PROVE  /\ due'[e] >= 0
                        /\ waiting[e] /\ ~stale => due'[e] >= early_wakeup_advance
      OBVIOUS
    <3>1. PICK k \in 1 .. MaxDelay : WakeAt(k)
      BY <1>7 DEF TimeInv, SleepInv
    <3>2. /\ due'[e] >= k - 1
          /\ waiting[e] /\ ~stale => due'[e] - early_wakeup_advance >= k - 1
      BY <1>5, <1>7, <3>1
    <3> QED BY <1>3, <3>2, Bounds
  <2>3. DueInv'
    BY <1>1, <1>3, <2>1, <2>2, Bounds DEF DueInv, Unpolled
  <2> QED BY <1>1, <1>4, <1>6, <2>1, <2>2, <2>3, Woken
<1>8. CASE pc = "asleep" /\ counter' # compare
  <2>1. pc' = pc /\ lag' = lag
    BY <1>1, <1>8
  <2>2. Armed(time_event_time) # {} =>
           \E k \in 2 .. MaxDelay :
              /\ WakeAt(k)
              /\ \A e \in Armed(time_event_time) :
                   /\ due'[e] >= k - 1
                   /\ waiting[e] /\ ~stale => due'[e] - early_wakeup_advance >= k - 1
    <3> SUFFICES ASSUME Armed(time_event_time) # {}
                 PROVE  \E k \in 2 .. MaxDelay :
                          /\ WakeAt(k)
                          /\ \A e \in Armed(time_event_time) :
                               /\ due'[e] >= k - 1
                               /\ waiting[e] /\ ~stale => due'[e] - early_wakeup_advance >= k - 1
      OBVIOUS
    <3>1. PICK k \in 1 .. MaxDelay : WakeAt(k)
      BY <1>8 DEF TimeInv, SleepInv
    <3>2. /\ counter' = compare <=> k = 1
          /\ \A e \in Armed(time_event_time) :
                /\ due'[e] >= k - 1
                /\ waiting[e] /\ ~stale => due'[e] - early_wakeup_advance >= k - 1
      BY <1>5, <1>8, <3>1
    <3>3. k \in 2 .. MaxDelay
      BY <1>8, <3>2, Bounds
    <3> QED BY <3>1, <3>2, <3>3
  <2>3. NowInv'
    BY <1>8, <2>1 DEF NowInv
  <2>4. \A e \in Armed(time_event_time) :
           /\ due'[e] >= 1
           /\ waiting[e] /\ ~stale => due'[e] >= early_wakeup_advance
    BY <1>3, <2>2, Bounds
  <2>5. DueInv'
    <3> SUFFICES ASSUME NEW e \in Armed(time_event_time)
                 PROVE  /\ time_event_time[e] = At(counter', due'[e])
                        /\ due'[e] <= MaxDelay
                        /\ due'[e] + lag' >= IF Unpolled(e)' THEN -MaxLag ELSE 0
      BY <1>1 DEF DueInv
    <3>1. ~Unpolled(e)'
      BY <1>8, <2>1 DEF Unpolled
    <3> QED BY <1>2, <1>3, <2>1, <2>4, <3>1, Bounds
  <2>6. WaitInv'
    BY <1>1, <1>2, <1>3, <2>1, <2>4, Bounds DEF WaitInv
  <2>7. SleepInv'
    <3> SUFFICES ASSUME Armed(time_event_time) # {}
                 PROVE  \E n \in 1 .. MaxDelay : WakeAt(n)'
      BY <1>1 DEF SleepInv
    <3>1. PICK k \in 2 .. MaxDelay :
               /\ WakeAt(k)
               /\ \A e \in Armed(time_event_time) :
                     /\ due'[e] >= k - 1
                     /\ waiting[e] /\ ~stale => due'[e] - early_wakeup_advance >= k - 1
      BY <2>2
    <3> DEFINE n == k - 1
    <3>2. n \in 1 .. MaxDelay /\ compare = At(counter', n)
      BY <1>2, <3>1, Bounds DEF WakeAt
    <3>3. \A e \in Armed(time_event_time') :
             /\ n <= due'[e]
             /\ waiting'[e] /\ ~stale' => n <= due'[e] - early_wakeup_advance
      BY <1>1, <1>3, <3>1, Bounds
    <3> HIDE DEF n
    <3>4. WakeAt(n)'
      BY <1>1, <1>8, <2>1, <3>2, <3>3 DEF WakeAt
    <3> QED BY <3>2, <3>4
  <2> QED BY <1>4, <1>6, <2>3, <2>5, <2>6, <2>7 DEF TimeInv
<1>9. CASE pc # "asleep"
  <2>1. lag < MaxLag /\ lag' = lag + 1 /\ pc' = pc
    BY <1>1, <1>9
  <2>2. \A e \in Armed(time_event_time) : due'[e] + lag' = due[e] + lag
    BY <1>2, <1>3, <2>1
  <2>3. NowInv'
    <3>1. pc' \in {"events", "callback"} => now = At(counter, -lag)
      BY <2>1 DEF TimeInv, NowInv
    <3>2. At(counter', (-lag) - 1) = At(counter, -lag) /\ (-lag) - 1 = -lag'
      BY <1>2, <2>1
    <3> QED BY <1>1, <3>1, <3>2 DEF NowInv
  <2>4. DueInv'
    <3> SUFFICES ASSUME NEW e \in Armed(time_event_time)
                 PROVE  /\ due'[e] <= MaxDelay
                        /\ due'[e] + lag' >= IF Unpolled(e)' THEN -MaxLag ELSE 0
      BY <1>1, <1>3 DEF DueInv
    <3>1. due[e] + lag >= IF Unpolled(e) THEN -MaxLag ELSE 0
      BY DEF TimeInv, DueInv
    <3>2. Unpolled(e)' <=> Unpolled(e)
      BY <1>1, <2>1 DEF Unpolled
    <3> QED BY <1>3, <2>2, <3>1, <3>2, Bounds
  <2>5. WaitInv'
    BY <1>1, <2>2 DEF TimeInv, WaitInv
  <2>6. SleepInv'
    <3> SUFFICES ASSUME pc = "enter", Armed(time_event_time) # {}
                 PROVE  \E n \in 1 .. MaxDelay : WakeAt(n)'
      BY <1>1, <1>9, <2>1 DEF SleepInv
    <3>1. PICK k \in 1 .. MaxDelay : WakeAt(k)
      BY DEF TimeInv, SleepInv
    <3>2. /\ compare = At(counter, k) /\ k + lag > MaxLag
          /\ \A e \in Armed(time_event_time) :
                /\ k <= due[e]
                /\ waiting[e] /\ ~stale => k <= due[e] - early_wakeup_advance
      BY <3>1 DEF WakeAt
    <3> DEFINE n == k - 1
    <3>3. n \in 1 .. MaxDelay /\ compare = At(counter', n) /\ n + lag' > MaxLag
      BY <1>2, <2>1, <3>2, Bounds
    <3>4. \A e \in Armed(time_event_time') :
             /\ n <= due'[e]
             /\ waiting'[e] /\ ~stale' => n <= due'[e] - early_wakeup_advance
      BY <1>1, <1>3, <3>2, Bounds
    <3> HIDE DEF n
    <3>5. WakeAt(n)'
      BY <1>1, <2>1, <3>3, <3>4 DEF WakeAt
    <3> QED BY <3>3, <3>5
  <2> QED BY <1>4, <1>6, <2>3, <2>4, <2>5, <2>6 DEF TimeInv
<1> QED BY <1>7, <1>8, <1>9

-----------------------------------------------------------------------------
(* The invariant holds before anything is armed.                           *)
LEMMA TimeInit == Init => TimeInv
<1> SUFFICES ASSUME Init
             PROVE  TimeInv
  OBVIOUS
<1>1. Armed(time_event_time) = {}
  BY DEF Init, Armed, TIME_VALID, TIME_INVALID, Times
<1>2. 0 \in Times
  BY Halves DEF Times
<1>3. TypeOK
  BY <1>2, Bounds DEF Init, TypeOK
<1> QED BY <1>1, <1>3 DEF Init, TimeInv, NowInv, DueInv, WaitInv, EarlyInv, SleepInv

(* Every step keeps it.                                                    *)
LEMMA TimeStep == TimeInv /\ [Step]_vars => TimeInv'
<1> SUFFICES ASSUME TimeInv, [Step]_vars
             PROVE  TimeInv'
  OBVIOUS
<1>1. CASE Step
  <2>1. /\ stale' \in BOOLEAN /\ (~stale' => ~stale) /\ (~stale' => RecentEarlyWakeup')
    BY <1>1 DEF Step, TimeInv, RecentEarlyWakeup
  <2>2. Next
    BY <1>1 DEF Step
  <2>3. CASE \E e \in Events, lead \in -MaxLag .. MaxDelay : time_event_schedule_at(e, lead)
    BY <2>1, <2>3, ScheduleStep
  <2>4. CASE \E e \in Events : time_event_clear(e)
    BY <2>1, <2>4, ClearStep
  <2>5. CASE PollBegin
    BY <2>1, <2>5, BeginStep
  <2>6. CASE PollEvent
    BY <2>1, <2>6, EventStep
  <2>7. CASE CallbackReturn \/ PollEnd \/ Continue \/ EMU_EnterEM2
    BY <2>1, <2>7, QuietStep
  <2>8. CASE time_prepare_sleep
    BY <2>1, <2>8, PrepareStep
  <2>9. CASE Wake
    BY <2>1, <2>9, WakeStep
  <2>10. CASE Tick
    BY <2>1, <2>10, TickStep
  <2> QED BY <2>2, <2>3, <2>4, <2>5, <2>6, <2>7, <2>8, <2>9, <2>10 DEF Next
<1>2. CASE UNCHANGED vars
  <2>1. \A w \in EarlyRange : EarlyAt(w) => EarlyAt(w)'
    BY <1>2 DEF vars, EarlyAt
  <2>2. \A k \in 1 .. MaxDelay : WakeAt(k) => WakeAt(k)'
    BY <1>2 DEF vars, WakeAt
  <2>3. EarlyInv' /\ SleepInv'
    BY <1>2, <2>1, <2>2 DEF vars, TimeInv, EarlyInv, SleepInv, EarlyRange
  <2>4. TypeOK' /\ stale' \in BOOLEAN
    BY <1>2 DEF vars, TimeInv, TypeOK
  <2>5. NowInv' /\ DueInv' /\ WaitInv'
    BY <1>2 DEF vars, TimeInv, NowInv, DueInv, WaitInv, Unpolled
  <2> QED BY <2>3, <2>4, <2>5 DEF TimeInv
<1> QED BY <1>1, <1>2

(* The invariant.                                                          *)
THEOREM Correct == Spec => []TimeInv
BY TimeInit, TimeStep, PTL DEF Spec

(* No event stays armed past its time for longer than two turns of the     *)
(* main loop, wherever the counter wraps and however it sleeps.            *)
THEOREM Punctual == Spec => []NeverLate
<1>1. TimeInv => NeverLate
  <2> SUFFICES ASSUME TimeInv, NEW e \in Armed(time_event_time)
               PROVE  due[e] >= -2 * MaxLag
    BY DEF NeverLate
  <2> QED BY ArmedRange
<1> QED BY <1>1, Correct, PTL

(* The early wakeup is not late: an event that still waits for it is ahead *)
(* by early_wakeup_advance, less one turn of the main loop.                *)
THEOREM Prepared == Spec => []PreparedInTime
<1>1. TimeInv => PreparedInTime
  <2> SUFFICES ASSUME TimeInv, NEW e \in Armed(time_event_time), waiting[e], ~stale
               PROVE  due[e] >= early_wakeup_advance - MaxLag
    BY DEF PreparedInTime
  <2>1. due[e] + lag >= early_wakeup_advance
    BY DEF TimeInv, WaitInv
  <2> QED BY <2>1, ArmedRange, Bounds
<1> QED BY <1>1, Correct, PTL

(* Only the poll runs an event's function, and what it finds then.         *)
LEMMA Firing ==
    ASSUME TimeInv, Step, pc = "events", pc' = "callback"
    PROVE  /\ index \in Armed(time_event_time)
           /\ due[index] + lag <= 0
<1>1. PollEvent
  BY DEF Step, Next, time_event_schedule_at, time_event_clear, Calling, PollBegin,
     CallbackReturn, PollEnd, time_prepare_sleep, Continue, EMU_EnterEM2, Wake, Tick
<1>2. index \in Events /\ Fire(index)
  BY <1>1 DEF PollEvent
<1> QED BY <1>2, FireTicks

(* An event's function never runs before its time.                         *)
THEOREM OnTime == Spec => NeverEarly
<1>1. TimeInv /\ [Step]_vars =>
         [\A e \in Events : pc = "events" /\ pc' = "callback" /\ index = e => due[e] <= 0]_vars
  <2> SUFFICES ASSUME TimeInv, Step, NEW e \in Events, pc = "events", pc' = "callback", index = e
               PROVE  due[e] <= 0
    BY DEF vars
  <2> QED BY Firing, ArmedRange
<1> QED BY <1>1, Correct, PTL DEF Spec, NeverEarly

(* Nor before the early wakeup function has run for it, if it was armed    *)
(* that far ahead.                                                         *)
THEOREM PreparedBefore == Spec => PreparedFirst
<1>1. TimeInv /\ [Step]_vars =>
         [\A e \in Events : pc = "events" /\ pc' = "callback" /\ index = e => stale \/ ~waiting[e]]_vars
  <2> SUFFICES ASSUME TimeInv, Step, NEW e \in Events, pc = "events", pc' = "callback", index = e,
                      ~stale, waiting[e]
               PROVE  FALSE
    BY DEF vars
  <2>1. e \in Armed(time_event_time) /\ due[e] + lag <= 0
    BY Firing
  <2>2. due[e] + lag >= early_wakeup_advance
    BY <2>1 DEF TimeInv, WaitInv
  <2> QED BY <2>1, <2>2, ArmedRange, Bounds
<1> QED BY <1>1, Correct, PTL DEF Spec, PreparedFirst
=============================================================================
